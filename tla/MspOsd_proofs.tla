---------------------------- MODULE MspOsd_proofs ----------------------------
(***************************************************************************)
(* Proofs about MspOsd, for all packets that may arrive, every size of     *)
(* message and of canvas, and any two checksums: the checksums as folds,   *)
(* the parser state by state, then the invariant that ties its fields to   *)
(* the bytes since the last header (DispatchedAreFrames), the cells as an  *)
(* implementation of the grid of OsdCanvas (CanvasIsImplemented), and the  *)
(* bound on what a run of clean messages loses                             *)
(* (CleanStreamResynchronises).                                            *)
(***************************************************************************)
EXTENDS MspOsd, SequenceTheorems, WellFoundedInduction, TLAPS

(* A set of natural numbers has a least one. *)
LEMMA LeastNatural ==
  ASSUME NEW T \in SUBSET Nat, T # {}
  PROVE  \E x \in T : \A y \in T : x <= y
<1> DEFINE R == OpToRel(<, Nat)
<1>1. IsWellFoundedOn(R, Nat) BY NatLessThanWellFounded, Zenon
<1>2. \A x, y \in Nat : <<y, x>> \in R <=> y < x BY DEF OpToRel
<1> HIDE DEF R
<1>3. PICK x \in T : \A y \in T : ~(<<y, x>> \in R) BY <1>1, WFMin, Zenon
<1>4. \A y \in T : ~(y < x) BY <1>2, <1>3
<1> QED BY <1>4

(* What holds at 0, and at k + 1 whenever at k, holds up to n. *)
LEMMA UpTo ==
  ASSUME NEW n \in Nat, NEW S, 0 \in S,
         \A k \in 0..(n - 1) : k \in S => k + 1 \in S
  PROVE  \A k \in 0..n : k \in S
<1> SUFFICES ASSUME NEW j \in 0..n, j \notin S PROVE FALSE OBVIOUS
<1> DEFINE T == {k \in 0..n : k \notin S}
<1>1. T \in SUBSET Nat /\ T # {} OBVIOUS
<1>2. PICK k \in T : \A y \in T : k <= y BY <1>1, LeastNatural
<1>3. k \in 0..n /\ k \notin S BY <1>2
<1>4. k # 0 BY <1>3
<1>5. k - 1 \in 0..(n - 1) /\ k - 1 \in 0..n /\ ~(k <= k - 1) /\ (k - 1) + 1 = k BY <1>3, <1>4
<1>6. k - 1 \notin T BY <1>2, <1>5
<1>7. k - 1 \in S BY <1>5, <1>6
<1> QED BY <1>3, <1>5, <1>7
-----------------------------------------------------------------------------
(* The checksums.  h[n] is the checksum of the first n bytes of s when each
   byte is folded in by the table g. *)
Tables == [Byte \X Byte -> Byte]

FoldUpTo(g, s, m, h) ==
    /\ h \in [0..m -> Byte] /\ h[0] = 0
    /\ \A n \in 1..m : h[n] = g[<<h[n - 1], s[n]>>]

(* A function that does the same wherever it is at a byte. *)
FoldsAlike(g, s, k) ==
    /\ k[0] = 0
    /\ \A n \in 1..Len(s) : k[n - 1] \in Byte => k[n] = g[<<k[n - 1], s[n]>>]

LEMMA ZeroByte == 0 \in Byte
BY DEF Byte

LEMMA FoldExists ==
  ASSUME NEW g \in Tables, NEW s \in Seq(Byte)
  PROVE  \E h : FoldUpTo(g, s, Len(s), h)
<1> DEFINE S == {m \in 0..Len(s) : \E h : FoldUpTo(g, s, m, h)}
<1>0. Len(s) \in Nat OBVIOUS
<1>1. 0 \in S
  <2> DEFINE h == [n \in 0..0 |-> 0]
  <2>1. h \in [0..0 -> Byte] /\ h[0] = 0 BY ZeroByte
  <2>2. \A n \in 1..0 : FALSE OBVIOUS
  <2> HIDE DEF h
  <2>3. FoldUpTo(g, s, 0, h) BY <2>1, <2>2 DEF FoldUpTo
  <2> QED BY <1>0, <2>3
<1>2. ASSUME NEW m \in 0..(Len(s) - 1), m \in S PROVE m + 1 \in S
  <2>1. PICK h : FoldUpTo(g, s, m, h) BY <1>2
  <2>2. h \in [0..m -> Byte] /\ h[0] = 0 /\ \A n \in 1..m : h[n] = g[<<h[n - 1], s[n]>>]
    BY <2>1 DEF FoldUpTo
  <2> DEFINE x == g[<<h[m], s[m + 1]>>]
  <2> DEFINE k == [n \in 0..(m + 1) |-> IF n = m + 1 THEN x ELSE h[n]]
  <2>3. m \in 0..m /\ m + 1 \in 1..Len(s) /\ m \in Nat BY <1>0
  <2>4. h[m] \in Byte /\ s[m + 1] \in Byte BY <2>2, <2>3
  <2>5. x \in Byte BY <2>4 DEF Tables
  <2> HIDE DEF x
  <2>6. \A n \in 0..(m + 1) : n = m + 1 \/ n \in 0..m BY <2>3
  <2>7. k \in [0..(m + 1) -> Byte] BY <2>2, <2>5, <2>6
  <2>8. k[m + 1] = x /\ \A n \in 0..m : k[n] = h[n] BY <2>3
  <2> HIDE DEF k
  <2>9. ASSUME NEW n \in 1..(m + 1) PROVE k[n] = g[<<k[n - 1], s[n]>>]
    <3>1. n - 1 \in 0..m BY <2>3
    <3>2. k[n - 1] = h[n - 1] BY <2>8, <3>1
    <3>3. CASE n = m + 1
      <4>1. n - 1 = m BY <2>3, <3>3
      <4> QED BY <2>8, <3>2, <3>3, <4>1 DEF x
    <3>4. CASE n # m + 1
      <4>1. n \in 1..m /\ n \in 0..m BY <2>3, <3>4
      <4> QED BY <2>2, <2>8, <3>2, <4>1
    <3> QED BY <3>3, <3>4
  <2>10. k[0] = 0
    <3>1. 0 \in 0..m BY <2>3
    <3> QED BY <2>2, <2>8, <3>1
  <2>11. FoldUpTo(g, s, m + 1, k) BY <2>7, <2>9, <2>10 DEF FoldUpTo
  <2>12. m + 1 \in 0..Len(s) BY <1>0
  <2> QED BY <2>11, <2>12
<1> HIDE DEF S
<1>3. Len(s) \in S
  <2>1. \A k \in 0..Len(s) : k \in S BY <1>0, <1>1, <1>2, UpTo
  <2> QED BY <1>0, <2>1
<1> QED BY <1>3 DEF S

LEMMA FoldUnique ==
  ASSUME NEW g \in Tables, NEW s \in Seq(Byte), NEW h, FoldUpTo(g, s, Len(s), h),
         NEW k, FoldsAlike(g, s, k)
  PROVE  \A n \in 0..Len(s) : k[n] = h[n]
<1>0. Len(s) \in Nat OBVIOUS
<1>1. /\ h \in [0..Len(s) -> Byte] /\ h[0] = 0
      /\ \A n \in 1..Len(s) : h[n] = g[<<h[n - 1], s[n]>>]
  BY DEF FoldUpTo
<1>2. /\ k[0] = 0
      /\ \A n \in 1..Len(s) : k[n - 1] \in Byte => k[n] = g[<<k[n - 1], s[n]>>]
  BY DEF FoldsAlike
<1> DEFINE S == {n \in 0..Len(s) : k[n] = h[n]}
<1>3. 0 \in S BY <1>0, <1>1, <1>2
<1>4. ASSUME NEW n \in 0..(Len(s) - 1), n \in S PROVE n + 1 \in S
  <2>1. n + 1 \in 1..Len(s) /\ (n + 1) - 1 = n /\ n \in 0..Len(s) /\ n + 1 \in 0..Len(s)
    BY <1>0
  <2>2. k[n] = h[n] /\ h[n] \in Byte BY <1>1, <1>4, <2>1
  <2>3. k[n + 1] = h[n + 1] BY <1>1, <1>2, <2>1, <2>2
  <2> QED BY <2>1, <2>3
<1> HIDE DEF S
<1>5. \A n \in 0..Len(s) : n \in S BY <1>0, <1>3, <1>4, UpTo
<1> QED BY <1>5 DEF S

FoldOf(g, s) == (CHOOSE h : FoldUpTo(g, s, Len(s), h))[Len(s)]

LEMMA FoldOfIs ==
  ASSUME NEW g \in Tables, NEW s \in Seq(Byte)
  PROVE  \E h : FoldUpTo(g, s, Len(s), h) /\ FoldOf(g, s) = h[Len(s)]
  BY FoldExists, Zenon DEF FoldOf

(* One byte more is one step more. *)
LEMMA FoldAppend ==
  ASSUME NEW g \in Tables
  PROVE  /\ FoldOf(g, <<>>) = 0
         /\ \A s \in Seq(Byte) : FoldOf(g, s) \in Byte
         /\ \A s \in Seq(Byte), b \in Byte : FoldOf(g, Append(s, b)) = g[<<FoldOf(g, s), b>>]
<1>1. FoldOf(g, <<>>) = 0
  <2>1. <<>> \in Seq(Byte) /\ Len(<<>>) = 0 OBVIOUS
  <2>2. PICK h : FoldUpTo(g, <<>>, Len(<<>>), h) /\ FoldOf(g, <<>>) = h[Len(<<>>)]
    BY <2>1, FoldOfIs
  <2> QED BY <2>1, <2>2 DEF FoldUpTo
<1>2. ASSUME NEW s \in Seq(Byte) PROVE FoldOf(g, s) \in Byte
  <2>1. PICK h : FoldUpTo(g, s, Len(s), h) /\ FoldOf(g, s) = h[Len(s)] BY FoldOfIs
  <2>2. Len(s) \in 0..Len(s) OBVIOUS
  <2> QED BY <2>1, <2>2 DEF FoldUpTo
<1>3. ASSUME NEW s \in Seq(Byte), NEW b \in Byte
      PROVE  FoldOf(g, Append(s, b)) = g[<<FoldOf(g, s), b>>]
  <2>0. PICK t : t = Append(s, b) OBVIOUS
  <2>1. /\ t \in Seq(Byte) /\ Len(t) = Len(s) + 1 /\ t[Len(s) + 1] = b /\ Len(s) \in Nat
        /\ \A n \in 1..Len(s) : t[n] = s[n]
    BY <2>0
  <2>2. PICK h : FoldUpTo(g, s, Len(s), h) /\ FoldOf(g, s) = h[Len(s)] BY FoldOfIs
  <2>3. PICK k : FoldUpTo(g, t, Len(t), k) /\ FoldOf(g, t) = k[Len(t)] BY <2>1, FoldOfIs
  <2>4. /\ k[0] = 0
        /\ \A n \in 1..(Len(s) + 1) : k[n] = g[<<k[n - 1], t[n]>>]
    BY <2>1, <2>3 DEF FoldUpTo
  <2>5. FoldsAlike(g, s, k)
    <3>1. ASSUME NEW n \in 1..Len(s) PROVE k[n] = g[<<k[n - 1], s[n]>>]
      <4>1. n \in 1..(Len(s) + 1) /\ t[n] = s[n] BY <2>1
      <4> QED BY <2>4, <4>1
    <3> QED BY <2>4, <3>1 DEF FoldsAlike
  <2>6. k[Len(s)] = h[Len(s)]
    <3>1. Len(s) \in 0..Len(s) BY <2>1
    <3>2. \A n \in 0..Len(s) : k[n] = h[n] BY <2>2, <2>5, FoldUnique
    <3> QED BY <3>1, <3>2
  <2>7. Len(s) + 1 \in 1..(Len(s) + 1) /\ (Len(s) + 1) - 1 = Len(s) BY <2>1
  <2>8. k[Len(s) + 1] = g[<<k[Len(s)], b>>] BY <2>1, <2>4, <2>7
  <2> QED BY <2>0, <2>1, <2>2, <2>3, <2>6, <2>8
<1> QED BY <1>1, <1>2, <1>3

XorSum(s) == Checksum(XorByte, s, 0)
CrcSum(s) == Checksum(Crc8DvbS2, s, 0)

XorTable == [p \in Byte \X Byte |-> XorByte(p[1], p[2])]
CrcTable == [p \in Byte \X Byte |-> Crc8DvbS2(p[1], p[2])]

IsXorRun(s, h) ==
    h = [n \in 0..Len(s) |-> IF n = 0 THEN 0 ELSE XorByte(h[n - 1], s[n])]
IsCrcRun(s, h) ==
    h = [n \in 0..Len(s) |-> IF n = 0 THEN 0 ELSE Crc8DvbS2(h[n - 1], s[n])]

LEMMA XorSumRun == \A s : XorSum(s) = (CHOOSE h : IsXorRun(s, h))[Len(s)]
  BY Zenon DEF XorSum, Checksum, IsXorRun
LEMMA CrcSumRun == \A s : CrcSum(s) = (CHOOSE h : IsCrcRun(s, h))[Len(s)]
  BY Zenon DEF CrcSum, Checksum, IsCrcRun

LEMMA TablesTyped ==
  /\ XorTable \in Tables /\ CrcTable \in Tables
  /\ \A a, b \in Byte : XorTable[<<a, b>>] = XorByte(a, b) /\ CrcTable[<<a, b>>] = Crc8DvbS2(a, b)
<1>1. \A p \in Byte \X Byte : p[1] \in Byte /\ p[2] \in Byte OBVIOUS
<1>2. \A p \in Byte \X Byte : XorByte(p[1], p[2]) \in Byte /\ Crc8DvbS2(p[1], p[2]) \in Byte
  BY <1>1, OsdAssumption, Zenon
<1>3. XorTable \in Tables /\ CrcTable \in Tables BY <1>2, Zenon DEF XorTable, CrcTable, Tables
<1>4. ASSUME NEW a \in Byte, NEW b \in Byte
      PROVE  XorTable[<<a, b>>] = XorByte(a, b) /\ CrcTable[<<a, b>>] = Crc8DvbS2(a, b)
  <2>1. <<a, b>> \in Byte \X Byte /\ <<a, b>>[1] = a /\ <<a, b>>[2] = b OBVIOUS
  <2> QED BY <2>1, Zenon DEF XorTable, CrcTable
<1> QED BY <1>3, <1>4

LEMMA XorSumIsFold == \A s \in Seq(Byte) : XorSum(s) = FoldOf(XorTable, s)
<1> SUFFICES ASSUME NEW s \in Seq(Byte) PROVE XorSum(s) = FoldOf(XorTable, s) OBVIOUS
<1>0. Len(s) \in Nat /\ Len(s) \in 0..Len(s) /\ \A n \in 1..Len(s) : s[n] \in Byte OBVIOUS
<1>1. PICK h : FoldUpTo(XorTable, s, Len(s), h) /\ FoldOf(XorTable, s) = h[Len(s)]
  BY TablesTyped, FoldOfIs
<1>2. /\ h \in [0..Len(s) -> Byte] /\ h[0] = 0
      /\ \A n \in 1..Len(s) : h[n] = XorTable[<<h[n - 1], s[n]>>]
  BY <1>1 DEF FoldUpTo
<1>3. ASSUME NEW n \in 0..Len(s)
      PROVE  h[n] = IF n = 0 THEN 0 ELSE XorByte(h[n - 1], s[n])
  <2>1. CASE n = 0 BY <1>2, <2>1
  <2>2. CASE n # 0
    <3>1. n \in 1..Len(s) /\ n - 1 \in 0..Len(s) BY <1>0, <2>2
    <3>2. h[n - 1] \in Byte /\ s[n] \in Byte BY <1>0, <1>2, <3>1
    <3>3. h[n] = XorByte(h[n - 1], s[n]) BY <1>2, <3>1, <3>2, TablesTyped, Zenon
    <3> QED BY <2>2, <3>3
  <2> QED BY <2>1, <2>2
<1>4. h = [n \in 0..Len(s) |-> h[n]] BY <1>2
<1>5. IsXorRun(s, h) BY <1>3, <1>4, Zenon DEF IsXorRun
<1>6. PICK k : IsXorRun(s, k) /\ XorSum(s) = k[Len(s)] BY <1>5, XorSumRun, Zenon
<1>7. \A n \in 0..Len(s) : k[n] = IF n = 0 THEN 0 ELSE XorByte(k[n - 1], s[n])
  BY <1>6, Zenon DEF IsXorRun
<1>8. FoldsAlike(XorTable, s, k)
  <2>1. 0 \in 0..Len(s) BY <1>0
  <2>2. k[0] = 0 BY <1>7, <2>1
  <2>3. ASSUME NEW n \in 1..Len(s), k[n - 1] \in Byte
        PROVE  k[n] = XorTable[<<k[n - 1], s[n]>>]
    <3>1. n \in 0..Len(s) /\ n # 0 BY <1>0
    <3>2. k[n] = XorByte(k[n - 1], s[n]) BY <1>7, <3>1, Zenon
    <3> QED BY <1>0, <2>3, <3>2, TablesTyped, Zenon
  <2> QED BY <2>2, <2>3 DEF FoldsAlike
<1>9. \A n \in 0..Len(s) : k[n] = h[n] BY <1>1, <1>8, TablesTyped, FoldUnique
<1> QED BY <1>0, <1>1, <1>6, <1>9

LEMMA CrcSumIsFold == \A s \in Seq(Byte) : CrcSum(s) = FoldOf(CrcTable, s)
<1> SUFFICES ASSUME NEW s \in Seq(Byte) PROVE CrcSum(s) = FoldOf(CrcTable, s) OBVIOUS
<1>0. Len(s) \in Nat /\ Len(s) \in 0..Len(s) /\ \A n \in 1..Len(s) : s[n] \in Byte OBVIOUS
<1>1. PICK h : FoldUpTo(CrcTable, s, Len(s), h) /\ FoldOf(CrcTable, s) = h[Len(s)]
  BY TablesTyped, FoldOfIs
<1>2. /\ h \in [0..Len(s) -> Byte] /\ h[0] = 0
      /\ \A n \in 1..Len(s) : h[n] = CrcTable[<<h[n - 1], s[n]>>]
  BY <1>1 DEF FoldUpTo
<1>3. ASSUME NEW n \in 0..Len(s)
      PROVE  h[n] = IF n = 0 THEN 0 ELSE Crc8DvbS2(h[n - 1], s[n])
  <2>1. CASE n = 0 BY <1>2, <2>1
  <2>2. CASE n # 0
    <3>1. n \in 1..Len(s) /\ n - 1 \in 0..Len(s) BY <1>0, <2>2
    <3>2. h[n - 1] \in Byte /\ s[n] \in Byte BY <1>0, <1>2, <3>1
    <3>3. h[n] = Crc8DvbS2(h[n - 1], s[n]) BY <1>2, <3>1, <3>2, TablesTyped, Zenon
    <3> QED BY <2>2, <3>3
  <2> QED BY <2>1, <2>2
<1>4. h = [n \in 0..Len(s) |-> h[n]] BY <1>2
<1>5. IsCrcRun(s, h) BY <1>3, <1>4, Zenon DEF IsCrcRun
<1>6. PICK k : IsCrcRun(s, k) /\ CrcSum(s) = k[Len(s)] BY <1>5, CrcSumRun, Zenon
<1>7. \A n \in 0..Len(s) : k[n] = IF n = 0 THEN 0 ELSE Crc8DvbS2(k[n - 1], s[n])
  BY <1>6, Zenon DEF IsCrcRun
<1>8. FoldsAlike(CrcTable, s, k)
  <2>1. 0 \in 0..Len(s) BY <1>0
  <2>2. k[0] = 0 BY <1>7, <2>1
  <2>3. ASSUME NEW n \in 1..Len(s), k[n - 1] \in Byte
        PROVE  k[n] = CrcTable[<<k[n - 1], s[n]>>]
    <3>1. n \in 0..Len(s) /\ n # 0 BY <1>0
    <3>2. k[n] = Crc8DvbS2(k[n - 1], s[n]) BY <1>7, <3>1, Zenon
    <3> QED BY <1>0, <2>3, <3>2, TablesTyped, Zenon
  <2> QED BY <2>2, <2>3 DEF FoldsAlike
<1>9. \A n \in 0..Len(s) : k[n] = h[n] BY <1>1, <1>8, TablesTyped, FoldUnique
<1> QED BY <1>0, <1>1, <1>6, <1>9

(* The checksum of version v2 of the bytes s, and how it grows. *)
SumOf(v2, s) == IF v2 THEN CrcSum(s) ELSE XorSum(s)
Folded(v2, sum, b) == IF v2 THEN Crc8DvbS2(sum, b) ELSE XorByte(sum, b)

LEMMA SumGrows ==
  ASSUME NEW v2 \in BOOLEAN
  PROVE  /\ SumOf(v2, <<>>) = 0
         /\ \A s \in Seq(Byte) : SumOf(v2, s) \in Byte
         /\ \A s \in Seq(Byte), b \in Byte : SumOf(v2, Append(s, b)) = Folded(v2, SumOf(v2, s), b)
<1>0. <<>> \in Seq(Byte) /\ \A s \in Seq(Byte), b \in Byte : Append(s, b) \in Seq(Byte) OBVIOUS
<1>1. CASE v2
  <2>1. \A s : SumOf(v2, s) = CrcSum(s) BY <1>1 DEF SumOf
  <2>2. \A s \in Seq(Byte) : SumOf(v2, s) = FoldOf(CrcTable, s) BY <2>1, CrcSumIsFold
  <2>3. \A a, b \in Byte : Folded(v2, a, b) = CrcTable[<<a, b>>]
    BY <1>1, TablesTyped, Zenon DEF Folded
  <2>4. /\ FoldOf(CrcTable, <<>>) = 0
        /\ \A s \in Seq(Byte) : FoldOf(CrcTable, s) \in Byte
        /\ \A s \in Seq(Byte), b \in Byte :
             FoldOf(CrcTable, Append(s, b)) = CrcTable[<<FoldOf(CrcTable, s), b>>]
    BY TablesTyped, FoldAppend, Zenon
  <2>5. SumOf(v2, <<>>) = 0 BY <1>0, <2>2, <2>4
  <2>6. \A s \in Seq(Byte) : SumOf(v2, s) \in Byte BY <2>2, <2>4
  <2>7. ASSUME NEW s \in Seq(Byte), NEW b \in Byte
        PROVE  SumOf(v2, Append(s, b)) = Folded(v2, SumOf(v2, s), b)
    <3>1. SumOf(v2, Append(s, b)) = FoldOf(CrcTable, Append(s, b)) BY <1>0, <2>2, Zenon
    <3>2. SumOf(v2, s) = FoldOf(CrcTable, s) /\ FoldOf(CrcTable, s) \in Byte BY <2>2, <2>4, Zenon
    <3>3. FoldOf(CrcTable, Append(s, b)) = CrcTable[<<FoldOf(CrcTable, s), b>>] BY <2>4, Zenon
    <3>4. Folded(v2, FoldOf(CrcTable, s), b) = CrcTable[<<FoldOf(CrcTable, s), b>>]
      BY <2>3, <3>2, Zenon
    <3> QED BY <3>1, <3>2, <3>3, <3>4, Zenon
  <2> QED BY <2>5, <2>6, <2>7
<1>2. CASE ~v2
  <2>1. \A s : SumOf(v2, s) = XorSum(s) BY <1>2 DEF SumOf
  <2>2. \A s \in Seq(Byte) : SumOf(v2, s) = FoldOf(XorTable, s) BY <2>1, XorSumIsFold
  <2>3. \A a, b \in Byte : Folded(v2, a, b) = XorTable[<<a, b>>]
    BY <1>2, TablesTyped, Zenon DEF Folded
  <2>4. /\ FoldOf(XorTable, <<>>) = 0
        /\ \A s \in Seq(Byte) : FoldOf(XorTable, s) \in Byte
        /\ \A s \in Seq(Byte), b \in Byte :
             FoldOf(XorTable, Append(s, b)) = XorTable[<<FoldOf(XorTable, s), b>>]
    BY TablesTyped, FoldAppend, Zenon
  <2>5. SumOf(v2, <<>>) = 0 BY <1>0, <2>2, <2>4
  <2>6. \A s \in Seq(Byte) : SumOf(v2, s) \in Byte BY <2>2, <2>4
  <2>7. ASSUME NEW s \in Seq(Byte), NEW b \in Byte
        PROVE  SumOf(v2, Append(s, b)) = Folded(v2, SumOf(v2, s), b)
    <3>1. SumOf(v2, Append(s, b)) = FoldOf(XorTable, Append(s, b)) BY <1>0, <2>2, Zenon
    <3>2. SumOf(v2, s) = FoldOf(XorTable, s) /\ FoldOf(XorTable, s) \in Byte BY <2>2, <2>4, Zenon
    <3>3. FoldOf(XorTable, Append(s, b)) = XorTable[<<FoldOf(XorTable, s), b>>] BY <2>4, Zenon
    <3>4. Folded(v2, FoldOf(XorTable, s), b) = XorTable[<<FoldOf(XorTable, s), b>>]
      BY <2>3, <3>2, Zenon
    <3> QED BY <3>1, <3>2, <3>3, <3>4, Zenon
  <2> QED BY <2>5, <2>6, <2>7
<1> QED BY <1>1, <1>2
-----------------------------------------------------------------------------
(* The parser, state by state. *)
States == HeaderStates \cup V1States \cup V2States \cup PayloadStates \cup ChecksumStates

Names == {"st", "v2", "fn", "size", "sum", "payload"}

(* The parser m is in state st with these fields. *)
At(m, st, v2, fn, size, sum, payload) ==
    /\ DOMAIN m = Names
    /\ m.st = st /\ m.v2 = v2 /\ m.fn = fn /\ m.size = size /\ m.sum = sum
    /\ m.payload = payload

(* Which of the steps it is. *)
LEMMA StepByState ==
  ASSUME NEW m, NEW b
  PROVE  /\ m.st \in HeaderStates => ParserStep(m, b) = HeaderStep(m, b)
         /\ m.st \in V1States => ParserStep(m, b) = V1Step(m, b)
         /\ m.st \in V2States => ParserStep(m, b) = V2Step(m, b)
         /\ m.st \in PayloadStates => ParserStep(m, b) = PayloadStep(m, b)
         /\ m.st \in ChecksumStates => ParserStep(m, b) = [m EXCEPT !.st = "Idle"]
  BY DEF ParserStep, HeaderStates, V1States, V2States, PayloadStates, ChecksumStates

LEMMA IdleStep ==
  ASSUME NEW m, NEW v, NEW f, NEW z, NEW u, NEW p, NEW b,
         At(m, "Idle", v, f, z, u, p)
  PROVE  At(ParserStep(m, b), IF b = Dollar THEN "HeaderM" ELSE "Idle", v, f, z, u, p)
<1>1. DOMAIN m = Names /\ m.st = "Idle" /\ m.v2 = v /\ m.fn = f /\ m.size = z /\ m.sum = u
      /\ m.payload = p
  BY DEF At
<1>2. ParserStep(m, b) = HeaderStep(m, b) BY <1>1, StepByState DEF HeaderStates
<1>3. PICK n : n = [m EXCEPT !.st = IF b = Dollar THEN "HeaderM" ELSE "Idle"] OBVIOUS
<1>4. HeaderStep(m, b) = n BY <1>1, <1>3 DEF HeaderStep
<1>5. DOMAIN n = Names /\ n.fn = f /\ n.size = z /\ n.payload = p
  BY <1>1, <1>3 DEF Names
<1>6. n.sum = u /\ n.st = IF b = Dollar THEN "HeaderM" ELSE "Idle"
  BY <1>1, <1>3 DEF Names
<1>7. n.v2 = v BY <1>1, <1>3 DEF Names
<1> QED BY <1>2, <1>4, <1>5, <1>6, <1>7 DEF At

LEMMA LetterStep ==
  ASSUME NEW m, NEW v, NEW f, NEW z, NEW u, NEW p, NEW b, b \in {LetterM, LetterX},
         At(m, "HeaderM", v, f, z, u, p)
  PROVE  At(ParserStep(m, b), "HeaderArrow", b = LetterX, f, z, u, p)
<1>1. DOMAIN m = Names /\ m.st = "HeaderM" /\ m.v2 = v /\ m.fn = f /\ m.size = z /\ m.sum = u
      /\ m.payload = p
  BY DEF At
<1>2. ParserStep(m, b) = HeaderStep(m, b) BY <1>1, StepByState DEF HeaderStates
<1>3. PICK n : n = [m EXCEPT !.v2 = (b = LetterX), !.st = "HeaderArrow"] OBVIOUS
<1>4. HeaderStep(m, b) = n BY <1>1, <1>3 DEF HeaderStep
<1>5. DOMAIN n = Names /\ n.fn = f /\ n.size = z /\ n.payload = p
  BY <1>1, <1>3 DEF Names
<1>6. n.sum = u /\ n.st = "HeaderArrow"
  BY <1>1, <1>3 DEF Names
<1>7. n.v2 = (b = LetterX) BY <1>1, <1>3 DEF Names
<1> QED BY <1>2, <1>4, <1>5, <1>6, <1>7 DEF At

LEMMA NoLetterStep ==
  ASSUME NEW m, NEW v, NEW f, NEW z, NEW u, NEW p, NEW b, b \notin {LetterM, LetterX},
         At(m, "HeaderM", v, f, z, u, p)
  PROVE  At(ParserStep(m, b), IF b = Dollar THEN "HeaderM" ELSE "Idle", v, f, z, u, p)
<1>1. DOMAIN m = Names /\ m.st = "HeaderM" /\ m.v2 = v /\ m.fn = f /\ m.size = z /\ m.sum = u
      /\ m.payload = p
  BY DEF At
<1>2. ParserStep(m, b) = HeaderStep(m, b) BY <1>1, StepByState DEF HeaderStates
<1>3. PICK n : n = [m EXCEPT !.v2 = m.v2,
                           !.st = IF b = Dollar THEN "HeaderM" ELSE "Idle"] OBVIOUS
<1>4. HeaderStep(m, b) = n BY <1>1, <1>3 DEF HeaderStep
<1>5. DOMAIN n = Names /\ n.fn = f /\ n.size = z /\ n.payload = p
  BY <1>1, <1>3 DEF Names
<1>6. n.sum = u /\ n.st = IF b = Dollar THEN "HeaderM" ELSE "Idle"
  BY <1>1, <1>3 DEF Names
<1>7. n.v2 = v BY <1>1, <1>3 DEF Names
<1> QED BY <1>2, <1>4, <1>5, <1>6, <1>7 DEF At

LEMMA ArrowStep ==
  ASSUME NEW m, NEW v, NEW f, NEW z, NEW u, NEW p, NEW b, b \in Arrows,
         At(m, "HeaderArrow", v, f, z, u, p)
  PROVE  At(ParserStep(m, b), IF v THEN "V2Flags" ELSE "V1Size", v, f, z, 0, <<>>)
<1>1. DOMAIN m = Names /\ m.st = "HeaderArrow" /\ m.v2 = v /\ m.fn = f /\ m.size = z /\ m.sum = u
      /\ m.payload = p
  BY DEF At
<1>2. ParserStep(m, b) = HeaderStep(m, b) BY <1>1, StepByState DEF HeaderStates
<1>3. PICK n : n = [m EXCEPT !.payload = <<>>, !.sum = 0,
                           !.st = IF v THEN "V2Flags" ELSE "V1Size"] OBVIOUS
<1>4. HeaderStep(m, b) = n BY <1>1, <1>3 DEF HeaderStep
<1>5. DOMAIN n = Names /\ n.fn = f /\ n.size = z /\ n.payload = <<>>
  BY <1>1, <1>3 DEF Names
<1>6. n.sum = 0 /\ n.st = IF v THEN "V2Flags" ELSE "V1Size"
  BY <1>1, <1>3 DEF Names
<1>7. n.v2 = v BY <1>1, <1>3 DEF Names
<1> QED BY <1>2, <1>4, <1>5, <1>6, <1>7 DEF At

LEMMA NoArrowStep ==
  ASSUME NEW m, NEW v, NEW f, NEW z, NEW u, NEW p, NEW b, b \notin Arrows,
         At(m, "HeaderArrow", v, f, z, u, p)
  PROVE  At(ParserStep(m, b), "Idle", v, f, z, u, p)
<1>1. DOMAIN m = Names /\ m.st = "HeaderArrow" /\ m.v2 = v /\ m.fn = f /\ m.size = z /\ m.sum = u
      /\ m.payload = p
  BY DEF At
<1>2. ParserStep(m, b) = HeaderStep(m, b) BY <1>1, StepByState DEF HeaderStates
<1>3. PICK n : n = [m EXCEPT !.st = "Idle"] OBVIOUS
<1>4. HeaderStep(m, b) = n BY <1>1, <1>3 DEF HeaderStep
<1>5. DOMAIN n = Names /\ n.fn = f /\ n.size = z /\ n.payload = p
  BY <1>1, <1>3 DEF Names
<1>6. n.sum = u /\ n.st = "Idle"
  BY <1>1, <1>3 DEF Names
<1>7. n.v2 = v BY <1>1, <1>3 DEF Names
<1> QED BY <1>2, <1>4, <1>5, <1>6, <1>7 DEF At

LEMMA V1SizeStep ==
  ASSUME NEW m, NEW v, NEW f, NEW z, NEW u, NEW p, NEW b,
         At(m, "V1Size", v, f, z, u, p)
  PROVE  At(ParserStep(m, b), "V1Command", v, f, b, b, p)
<1>1. DOMAIN m = Names /\ m.st = "V1Size" /\ m.v2 = v /\ m.fn = f /\ m.size = z /\ m.sum = u
      /\ m.payload = p
  BY DEF At
<1>2. ParserStep(m, b) = V1Step(m, b) BY <1>1, StepByState DEF V1States
<1>3. PICK n : n = [m EXCEPT !.size = b, !.sum = b, !.st = "V1Command"] OBVIOUS
<1>4. V1Step(m, b) = n BY <1>1, <1>3 DEF V1Step
<1>5. DOMAIN n = Names /\ n.fn = f /\ n.size = b /\ n.payload = p
  BY <1>1, <1>3 DEF Names
<1>6. n.sum = b /\ n.st = "V1Command"
  BY <1>1, <1>3 DEF Names
<1>7. n.v2 = v BY <1>1, <1>3 DEF Names
<1> QED BY <1>2, <1>4, <1>5, <1>6, <1>7 DEF At

LEMMA V1CommandStep ==
  ASSUME NEW m, NEW v, NEW f, NEW z, NEW u, NEW p, NEW b,
         At(m, "V1Command", v, f, z, u, p)
  PROVE  At(ParserStep(m, b), IF z > 0 THEN "V1Payload" ELSE "V1Checksum",
             v, b, z, XorByte(u, b), p)
<1>1. DOMAIN m = Names /\ m.st = "V1Command" /\ m.v2 = v /\ m.fn = f /\ m.size = z /\ m.sum = u
      /\ m.payload = p
  BY DEF At
<1>2. ParserStep(m, b) = V1Step(m, b) BY <1>1, StepByState DEF V1States
<1>3. PICK n : n = [m EXCEPT !.fn = b, !.sum = XorByte(m.sum, b),
                           !.st = IF z > 0 THEN "V1Payload" ELSE "V1Checksum"] OBVIOUS
<1>4. V1Step(m, b) = n BY <1>1, <1>3 DEF V1Step
<1>5. DOMAIN n = Names /\ n.fn = b /\ n.size = z /\ n.payload = p
  BY <1>1, <1>3 DEF Names
<1>6. n.sum = XorByte(u, b) /\ n.st = IF z > 0 THEN "V1Payload" ELSE "V1Checksum"
  BY <1>1, <1>3 DEF Names
<1>7. n.v2 = v BY <1>1, <1>3 DEF Names
<1> QED BY <1>2, <1>4, <1>5, <1>6, <1>7 DEF At

LEMMA V2FlagsStep ==
  ASSUME NEW m, NEW v, NEW f, NEW z, NEW u, NEW p, NEW b,
         At(m, "V2Flags", v, f, z, u, p)
  PROVE  At(ParserStep(m, b), "V2FunctionLo", v, f, z, Crc8DvbS2(0, b), p)
<1>1. DOMAIN m = Names /\ m.st = "V2Flags" /\ m.v2 = v /\ m.fn = f /\ m.size = z /\ m.sum = u
      /\ m.payload = p
  BY DEF At
<1>2. ParserStep(m, b) = V2Step(m, b) BY <1>1, StepByState DEF V2States
<1>3. PICK y : y = Crc8DvbS2(0, b) OBVIOUS
<1>4. PICK s : s = [m EXCEPT !.sum = y] OBVIOUS
<1>5. PICK n : n = [s EXCEPT !.st = "V2FunctionLo"] OBVIOUS
<1>6. V2Step(m, b) = n BY <1>1, <1>3, <1>4, <1>5 DEF V2Step
<1>7. DOMAIN s = Names /\ s.st = "V2Flags" /\ s.v2 = v /\ s.fn = f /\ s.size = z /\ s.sum = y
      /\ s.payload = p
  BY <1>1, <1>4 DEF Names
<1>8. DOMAIN n = Names BY <1>5, <1>7
<1>9. n.st = "V2FunctionLo" BY <1>5, <1>7 DEF Names
<1>10. n.v2 = v /\ n.fn = f /\ n.size = z /\ n.sum = y /\ n.payload = p
  BY <1>5, <1>7 DEF Names
<1> QED BY <1>1, <1>2, <1>3, <1>6, <1>8, <1>9, <1>10 DEF At

LEMMA V2FunctionLoStep ==
  ASSUME NEW m, NEW v, NEW f, NEW z, NEW u, NEW p, NEW b,
         At(m, "V2FunctionLo", v, f, z, u, p)
  PROVE  At(ParserStep(m, b), "V2FunctionHi", v, b, z, Crc8DvbS2(u, b), p)
<1>1. DOMAIN m = Names /\ m.st = "V2FunctionLo" /\ m.v2 = v /\ m.fn = f /\ m.size = z /\ m.sum = u
      /\ m.payload = p
  BY DEF At
<1>2. ParserStep(m, b) = V2Step(m, b) BY <1>1, StepByState DEF V2States
<1>3. PICK y : y = Crc8DvbS2(m.sum, b) OBVIOUS
<1>4. PICK s : s = [m EXCEPT !.sum = y] OBVIOUS
<1>5. PICK n : n = [s EXCEPT !.fn = b, !.st = "V2FunctionHi"] OBVIOUS
<1>6. V2Step(m, b) = n BY <1>1, <1>3, <1>4, <1>5 DEF V2Step
<1>7. DOMAIN s = Names /\ s.st = "V2FunctionLo" /\ s.v2 = v /\ s.fn = f /\ s.size = z /\ s.sum = y
      /\ s.payload = p
  BY <1>1, <1>4 DEF Names
<1>8. DOMAIN n = Names BY <1>5, <1>7
<1>9. n.st = "V2FunctionHi" BY <1>5, <1>7 DEF Names
<1>10. n.v2 = v /\ n.fn = b /\ n.size = z /\ n.sum = y /\ n.payload = p
  BY <1>5, <1>7 DEF Names
<1> QED BY <1>1, <1>2, <1>3, <1>6, <1>8, <1>9, <1>10 DEF At

(* Two bytes as the word they stand for, the low byte first. *)
Word(lo, hi) == lo + 256 * hi

LEMMA V2FunctionHiStep ==
  ASSUME NEW m, NEW v, NEW f, NEW z, NEW u, NEW p, NEW b, NEW x,
         At(m, "V2FunctionHi", v, f, z, u, p), x = Word(f, b)
  PROVE  At(ParserStep(m, b), "V2SizeLo", v, x, z, Crc8DvbS2(u, b), p)
<1>1. DOMAIN m = Names /\ m.st = "V2FunctionHi" /\ m.v2 = v /\ m.fn = f /\ m.size = z /\ m.sum = u
      /\ m.payload = p
  BY DEF At
<1>2. ParserStep(m, b) = V2Step(m, b) BY <1>1, StepByState DEF V2States
<1>3. PICK y : y = Crc8DvbS2(m.sum, b) OBVIOUS
<1>4. PICK s : s = [m EXCEPT !.sum = y] OBVIOUS
<1>5. PICK n : n = [s EXCEPT !.fn = x, !.st = "V2SizeLo"] OBVIOUS
<1>6. V2Step(m, b) = n BY <1>1, <1>3, <1>4, <1>5 DEF V2Step, Word
<1>7. DOMAIN s = Names /\ s.st = "V2FunctionHi" /\ s.v2 = v /\ s.fn = f /\ s.size = z /\ s.sum = y
      /\ s.payload = p
  BY <1>1, <1>4 DEF Names
<1>8. DOMAIN n = Names BY <1>5, <1>7
<1>9. n.st = "V2SizeLo" BY <1>5, <1>7 DEF Names
<1>10. n.v2 = v /\ n.fn = x /\ n.size = z /\ n.sum = y /\ n.payload = p
  BY <1>5, <1>7 DEF Names
<1> QED BY <1>1, <1>2, <1>3, <1>6, <1>8, <1>9, <1>10 DEF At

LEMMA V2SizeLoStep ==
  ASSUME NEW m, NEW v, NEW f, NEW z, NEW u, NEW p, NEW b,
         At(m, "V2SizeLo", v, f, z, u, p)
  PROVE  At(ParserStep(m, b), "V2SizeHi", v, f, b, Crc8DvbS2(u, b), p)
<1>1. DOMAIN m = Names /\ m.st = "V2SizeLo" /\ m.v2 = v /\ m.fn = f /\ m.size = z /\ m.sum = u
      /\ m.payload = p
  BY DEF At
<1>2. ParserStep(m, b) = V2Step(m, b) BY <1>1, StepByState DEF V2States
<1>3. PICK y : y = Crc8DvbS2(m.sum, b) OBVIOUS
<1>4. PICK s : s = [m EXCEPT !.sum = y] OBVIOUS
<1>5. PICK n : n = [s EXCEPT !.size = b, !.st = "V2SizeHi"] OBVIOUS
<1>6. V2Step(m, b) = n BY <1>1, <1>3, <1>4, <1>5 DEF V2Step
<1>7. DOMAIN s = Names /\ s.st = "V2SizeLo" /\ s.v2 = v /\ s.fn = f /\ s.size = z /\ s.sum = y
      /\ s.payload = p
  BY <1>1, <1>4 DEF Names
<1>8. DOMAIN n = Names BY <1>5, <1>7
<1>9. n.st = "V2SizeHi" BY <1>5, <1>7 DEF Names
<1>10. n.v2 = v /\ n.fn = f /\ n.size = b /\ n.sum = y /\ n.payload = p
  BY <1>5, <1>7 DEF Names
<1> QED BY <1>1, <1>2, <1>3, <1>6, <1>8, <1>9, <1>10 DEF At

AfterSize(total) ==
    IF total > MaxSize THEN "Idle" ELSE IF total > 0 THEN "V2Payload" ELSE "V2Checksum"

LEMMA V2SizeHiStep ==
  ASSUME NEW m, NEW v, NEW f, NEW z, NEW u, NEW p, NEW b, NEW x,
         At(m, "V2SizeHi", v, f, z, u, p), x = Word(z, b)
  PROVE  At(ParserStep(m, b), AfterSize(x), v, f, x, Crc8DvbS2(u, b), p)
<1>1. DOMAIN m = Names /\ m.st = "V2SizeHi" /\ m.v2 = v /\ m.fn = f /\ m.size = z /\ m.sum = u
      /\ m.payload = p
  BY DEF At
<1>2. ParserStep(m, b) = V2Step(m, b) BY <1>1, StepByState DEF V2States
<1>3. PICK y : y = Crc8DvbS2(m.sum, b) OBVIOUS
<1>4. PICK s : s = [m EXCEPT !.sum = y] OBVIOUS
<1>5. PICK n : n = SizeHigh(s, x) OBVIOUS
<1>6. V2Step(m, b) = n BY <1>1, <1>3, <1>4, <1>5 DEF V2Step, Word
<1>7. DOMAIN s = Names /\ s.st = "V2SizeHi" /\ s.v2 = v /\ s.fn = f /\ s.size = z /\ s.sum = y
      /\ s.payload = p
  BY <1>1, <1>4 DEF Names
<1>8. DOMAIN n = Names BY <1>5, <1>7 DEF SizeHigh
<1>9. n.st = AfterSize(x) BY <1>1, <1>5, <1>7 DEF Names, SizeHigh, AfterSize
<1>10. n.v2 = v /\ n.fn = f /\ n.size = x /\ n.sum = y /\ n.payload = p
  BY <1>1, <1>5, <1>7 DEF Names, SizeHigh
<1> QED BY <1>1, <1>2, <1>3, <1>6, <1>8, <1>9, <1>10 DEF At

LeadsTo(m, b, total) == ParserStep(m, b).st = AfterSize(total)

LEMMA SizeHiLeads ==
  ASSUME NEW m, NEW v, NEW f, NEW z, NEW u, NEW p, NEW b, At(m, "V2SizeHi", v, f, z, u, p)
  PROVE  LeadsTo(m, b, Word(z, b))
<1>1. PICK n, x : n = ParserStep(m, b) /\ x = Word(z, b) OBVIOUS
<1>2. At(n, AfterSize(x), v, f, x, Crc8DvbS2(u, b), p) BY <1>1, V2SizeHiStep, Zenon
<1>3. n.st = AfterSize(x) BY <1>2, Zenon DEF At
<1> QED BY <1>1, <1>3, Zenon DEF LeadsTo

LEMMA PayloadStepAt ==
  ASSUME NEW m, NEW v, NEW f, NEW z, NEW u, NEW p, NEW b, NEW st \in PayloadStates,
         At(m, st, v, f, z, u, p)
  PROVE  At(ParserStep(m, b),
             IF ~(Len(p) + 1 >= z) THEN st ELSE IF v THEN "V2Checksum" ELSE "V1Checksum",
             v, f, z, Folded(v, u, b), Append(p, b))
<1>1. DOMAIN m = Names /\ m.st = st /\ m.v2 = v /\ m.fn = f /\ m.size = z /\ m.sum = u
      /\ m.payload = p
  BY DEF At
<1>2. ParserStep(m, b) = PayloadStep(m, b) BY <1>1, StepByState
<1>3. PICK y : y = Folded(v, u, b) OBVIOUS
<1>4. PICK w : w = IF ~(Len(p) + 1 >= z) THEN st ELSE IF v THEN "V2Checksum" ELSE "V1Checksum"
  OBVIOUS
<1>5. PICK n : n = [m EXCEPT !.payload = Append(p, b), !.sum = y, !.st = w] OBVIOUS
<1>6. PayloadStep(m, b)
        = [m EXCEPT !.payload = Append(p, b),
                    !.sum = IF v THEN Crc8DvbS2(u, b) ELSE XorByte(u, b),
                    !.st = IF ~(Len(p) + 1 >= z) THEN st
                           ELSE IF v THEN "V2Checksum" ELSE "V1Checksum"]
  BY <1>1, Zenon DEF PayloadStep
<1>7. PayloadStep(m, b) = n BY <1>3, <1>4, <1>5, <1>6, Zenon DEF Folded
<1>8. DOMAIN n = Names /\ n.st = w /\ n.v2 = v /\ n.fn = f /\ n.size = z /\ n.sum = y
      /\ n.payload = Append(p, b)
  BY <1>1, <1>5 DEF Names
<1>9. At(n, w, v, f, z, y, Append(p, b)) BY <1>8 DEF At
<1> QED BY <1>2, <1>3, <1>4, <1>7, <1>9, Zenon

LEMMA ChecksumStep ==
  ASSUME NEW m, NEW v, NEW f, NEW z, NEW u, NEW p, NEW b, NEW st \in ChecksumStates,
         At(m, st, v, f, z, u, p)
  PROVE  At(ParserStep(m, b), "Idle", v, f, z, u, p)
<1>1. DOMAIN m = Names /\ m.st = st /\ m.v2 = v /\ m.fn = f /\ m.size = z /\ m.sum = u
      /\ m.payload = p
  BY DEF At
<1>2. PICK n : n = ParserStep(m, b) OBVIOUS
<1>3. n = [m EXCEPT !.st = "Idle"] BY <1>1, <1>2, StepByState
<1>4. DOMAIN n = Names /\ n.st = "Idle" /\ n.v2 = v /\ n.fn = f /\ n.size = z /\ n.sum = u
      /\ n.payload = p
  BY <1>1, <1>3 DEF Names
<1> QED BY <1>2, <1>4 DEF At

(* A byte after a few others. *)
LEMMA IsAppend ==
  ASSUME NEW S, NEW s \in Seq(S), NEW t \in Seq(S), NEW b \in S,
         Len(t) = Len(s) + 1, \A i \in 1..Len(s) : t[i] = s[i], t[Len(s) + 1] = b
  PROVE  Append(s, b) = t
<1>1. PICK r : r = Append(s, b) OBVIOUS
<1>2. /\ r \in Seq(S) /\ Len(r) = Len(s) + 1 /\ r[Len(s) + 1] = b /\ Len(s) \in Nat
      /\ \A i \in 1..Len(s) : r[i] = s[i]
  BY <1>1
<1>3. \A i \in 1..Len(r) : r[i] = t[i] BY <1>2
<1> QED BY <1>1, <1>2, <1>3, SeqEqual

LEMMA AppendToOne ==
  ASSUME NEW a \in Nat, NEW b \in Nat
  PROVE  Append(<<a>>, b) = <<a, b>>
<1>1. PICK s : s = <<a>> OBVIOUS
<1>2. PICK t : t = <<a, b>> OBVIOUS
<1>3. s \in Seq(Nat) /\ Len(s) = 1 /\ s[1] = a BY <1>1
<1>4. t \in Seq(Nat) /\ Len(t) = 2 /\ t[1] = a /\ t[2] = b
  BY <1>2
<1>5. Len(t) = Len(s) + 1 /\ t[Len(s) + 1] = b BY <1>3, <1>4
<1>6. \A i \in 1..Len(s) : t[i] = s[i] BY <1>3, <1>4
<1>7. Append(s, b) = t BY <1>3, <1>4, <1>5, <1>6, IsAppend, ZenonT(40)
<1> QED BY <1>1, <1>2, <1>7

LEMMA AppendToTwo ==
  ASSUME NEW a \in Nat, NEW c \in Nat, NEW b \in Nat
  PROVE  Append(<<a, c>>, b) = <<a, c, b>>
<1>1. PICK s : s = <<a, c>> OBVIOUS
<1>2. PICK t : t = <<a, c, b>> OBVIOUS
<1>3. s \in Seq(Nat) /\ Len(s) = 2 /\ s[1] = a /\ s[2] = c BY <1>1
<1>4. t \in Seq(Nat) /\ Len(t) = 3 /\ t[1] = a /\ t[2] = c /\ t[3] = b
  BY <1>2
<1>5. Len(t) = Len(s) + 1 /\ t[Len(s) + 1] = b BY <1>3, <1>4
<1>6. \A i \in 1..Len(s) : t[i] = s[i] BY <1>3, <1>4
<1>7. Append(s, b) = t BY <1>3, <1>4, <1>5, <1>6, IsAppend, ZenonT(40)
<1> QED BY <1>1, <1>2, <1>7

LEMMA AppendToThree ==
  ASSUME NEW a \in Nat, NEW c \in Nat, NEW d \in Nat, NEW b \in Nat
  PROVE  Append(<<a, c, d>>, b) = <<a, c, d, b>>
<1>1. PICK s : s = <<a, c, d>> OBVIOUS
<1>2. PICK t : t = <<a, c, d, b>> OBVIOUS
<1>3. s \in Seq(Nat) /\ Len(s) = 3 /\ s[1] = a /\ s[2] = c /\ s[3] = d BY <1>1
<1>4. t \in Seq(Nat) /\ Len(t) = 4 /\ t[1] = a /\ t[2] = c /\ t[3] = d /\ t[4] = b
  BY <1>2
<1>5. Len(t) = Len(s) + 1 /\ t[Len(s) + 1] = b BY <1>3, <1>4
<1>6. \A i \in 1..Len(s) : t[i] = s[i] BY <1>3, <1>4
<1>7. Append(s, b) = t BY <1>3, <1>4, <1>5, <1>6, IsAppend, ZenonT(40)
<1> QED BY <1>1, <1>2, <1>7

LEMMA AppendToFour ==
  ASSUME NEW a \in Nat, NEW c \in Nat, NEW d \in Nat, NEW e \in Nat, NEW b \in Nat
  PROVE  Append(<<a, c, d, e>>, b) = <<a, c, d, e, b>>
<1>1. PICK s : s = <<a, c, d, e>> OBVIOUS
<1>2. PICK t : t = <<a, c, d, e, b>> OBVIOUS
<1>3. s \in Seq(Nat) /\ Len(s) = 4 /\ s[1] = a /\ s[2] = c /\ s[3] = d /\ s[4] = e BY <1>1
<1>4. t \in Seq(Nat) /\ Len(t) = 5 /\ t[1] = a /\ t[2] = c /\ t[3] = d /\ t[4] = e /\ t[5] = b
  BY <1>2
<1>5. Len(t) = Len(s) + 1 /\ t[Len(s) + 1] = b BY <1>3, <1>4
<1>6. \A i \in 1..Len(s) : t[i] = s[i] BY <1>3, <1>4
<1>7. Append(s, b) = t BY <1>3, <1>4, <1>5, <1>6, IsAppend, ZenonT(40)
<1> QED BY <1>1, <1>2, <1>7

LEMMA ConcatAppend ==
  ASSUME NEW S, NEW h \in Seq(S), NEW p \in Seq(S), NEW b \in S
  PROVE  Append(h \o p, b) = h \o Append(p, b)
<1>1. h \o p \in Seq(S) /\ <<b>> \in Seq(S) OBVIOUS
<1>2. Append(h \o p, b) = (h \o p) \o <<b>> BY <1>1, AppendIsConcat
<1>3. Append(p, b) = p \o <<b>> BY AppendIsConcat
<1>4. (h \o p) \o <<b>> = h \o (p \o <<b>>) BY <1>1, ConcatAssociative
<1> QED BY <1>2, <1>3, <1>4

-----------------------------------------------------------------------------
(* What a message under way has read. *)
Letter(v) == IF v THEN LetterX ELSE LetterM

Typed(st, v, f, z, u, p) ==
    /\ st \in States /\ v \in BOOLEAN /\ f \in Nat /\ z \in Nat
    /\ u \in Byte /\ p \in Seq(Byte)

(* The bytes after the arrow are body: g is the flags of a v2 message. *)
V1BodyAt(st, v, f, z, p, body) ==
    \/ st = "V1Size" /\ p = <<>> /\ body = <<>>
    \/ st = "V1Command" /\ p = <<>> /\ z \in Byte /\ body = <<z>>
    \/ st = "V1Payload" /\ z \in Byte /\ f \in Byte /\ Len(p) < z /\ body = <<z, f>> \o p
    \/ st = "V1Checksum" /\ z \in Byte /\ f \in Byte /\ Len(p) = z /\ body = <<z, f>> \o p

V2BodyAt(st, v, f, z, p, g, body) ==
    \/ st = "V2Flags" /\ p = <<>> /\ body = <<>>
    \/ st = "V2FunctionLo" /\ p = <<>> /\ body = <<g>>
    \/ st = "V2FunctionHi" /\ p = <<>> /\ f \in Byte /\ body = <<g, f>>
    \/ st = "V2SizeLo" /\ p = <<>> /\ body = <<g, f % 256, f \div 256>>
    \/ st = "V2SizeHi" /\ p = <<>> /\ z \in Byte /\ body = <<g, f % 256, f \div 256, z>>
    \/ /\ st = "V2Payload" /\ Len(p) < z
       /\ body = <<g, f % 256, f \div 256, z % 256, z \div 256>> \o p
    \/ /\ st = "V2Checksum" /\ Len(p) = z
       /\ body = <<g, f % 256, f \div 256, z % 256, z \div 256>> \o p

BodyAt(st, v, f, z, p, g, body) ==
    IF v THEN V2BodyAt(st, v, f, z, p, g, body) ELSE V1BodyAt(st, v, f, z, p, body)

(* The state after another byte that is not the checksum. *)
Grown(n, v, s) ==
    \E st, f, z, u, p : \E g \in Byte :
        /\ At(n, st, v, f, z, u, p) /\ Typed(st, v, f, z, u, p)
        /\ st # "Idle" => st \notin HeaderStates /\ u = SumOf(v, s) /\ BodyAt(st, v, f, z, p, g, s)

LEMMA GrownBy ==
  ASSUME NEW n, NEW v, NEW s, NEW st, NEW f, NEW z, NEW u, NEW p, NEW g \in Byte,
         At(n, st, v, f, z, u, p), Typed(st, v, f, z, u, p), st \notin HeaderStates,
         u = SumOf(v, s), BodyAt(st, v, f, z, p, g, s)
  PROVE  Grown(n, v, s)
  BY Zenon DEF Grown

LEMMA GrownIdle ==
  ASSUME NEW n, NEW v, NEW s, NEW f, NEW z, NEW u, NEW p,
         At(n, "Idle", v, f, z, u, p), Typed("Idle", v, f, z, u, p)
  PROVE  Grown(n, v, s)
  BY ZeroByte, Zenon DEF Grown

LEMMA ByteIsNat == \A b \in Byte : b \in Nat
  BY DEF Byte

LEMMA SplitWord ==
  ASSUME NEW lo \in Byte, NEW hi \in Byte
  PROVE  /\ lo + 256 * hi \in Nat /\ (lo + 256 * hi) % 256 = lo
         /\ (lo + 256 * hi) \div 256 = hi
  BY DEF Byte

LEMMA FoldTyped ==
  ASSUME NEW v \in BOOLEAN, NEW u \in Byte, NEW b \in Byte
  PROVE  Folded(v, u, b) \in Byte
  BY OsdAssumption, Zenon DEF Folded

LEMMA V1Grows ==
  ASSUME NEW m, NEW st, NEW f, NEW z, NEW u, NEW p, NEW b \in Byte, NEW body \in Seq(Byte),
         At(m, st, FALSE, f, z, u, p), Typed(st, FALSE, f, z, u, p), u = SumOf(FALSE, body),
         V1BodyAt(st, FALSE, f, z, p, body), st \notin ChecksumStates
  PROVE  Grown(ParserStep(m, b), FALSE, Append(body, b))
<1>0. f \in Nat /\ z \in Nat /\ u \in Byte /\ p \in Seq(Byte) BY DEF Typed
<1>1. SumOf(FALSE, Append(body, b)) = Folded(FALSE, u, b) /\ SumOf(FALSE, <<>>) = 0
  BY SumGrows
<1>2. Folded(FALSE, u, b) = XorByte(u, b) BY DEF Folded
<1>3. Folded(FALSE, u, b) \in Byte BY <1>0, FoldTyped
<1>4. b \in Nat BY ByteIsNat
<1>5. CASE st = "V1Size"
  <2>1. p = <<>> /\ body = <<>> BY <1>5 DEF V1BodyAt
  <2>2. At(ParserStep(m, b), "V1Command", FALSE, f, b, b, p) BY <1>5, V1SizeStep, Zenon
  <2>3. u = 0 BY <1>1, <2>1
  <2>4. XorByte(u, b) = b BY <2>3, OsdAssumption
  <2>5. b = SumOf(FALSE, Append(body, b)) BY <1>1, <1>2, <2>4
  <2>6. Append(body, b) = <<b>> BY <2>1
  <2>7. BodyAt("V1Command", FALSE, f, b, p, 0, Append(body, b))
    BY <2>1, <2>6 DEF BodyAt, V1BodyAt
  <2>8. Typed("V1Command", FALSE, f, b, b, p) BY <1>0, <1>4 DEF Typed, States, V1States
  <2>9. "V1Command" \notin HeaderStates BY DEF HeaderStates
  <2> QED BY <2>2, <2>5, <2>7, <2>8, <2>9, GrownBy, ZeroByte
<1>6. CASE st = "V1Command"
  <2>1. p = <<>> /\ z \in Byte /\ body = <<z>> BY <1>6 DEF V1BodyAt
  <2>2. PICK w : w = IF z > 0 THEN "V1Payload" ELSE "V1Checksum" OBVIOUS
  <2>3. PICK y : y = XorByte(u, b) OBVIOUS
  <2>4. At(ParserStep(m, b), w, FALSE, b, z, y, p) BY <1>6, <2>2, <2>3, V1CommandStep
  <2>5. y = SumOf(FALSE, Append(body, b)) /\ y \in Byte BY <1>1, <1>2, <1>3, <2>3
  <2>6. Append(body, b) = <<z, b>> \o p
    <3>1. <<z, b>> \in Seq(Byte) BY <2>1
    <3>2. Append(<<z>>, b) = <<z, b>> BY <1>0, <1>4, AppendToOne
    <3> QED BY <2>1, <3>1, <3>2, ConcatEmptySeq
  <2>7. IF w = "V1Payload" THEN Len(p) < z ELSE Len(p) = z BY <1>0, <2>1, <2>2
  <2>8. V1BodyAt(w, FALSE, b, z, p, Append(body, b)) BY <2>1, <2>2, <2>6, <2>7 DEF V1BodyAt
  <2>9. BodyAt(w, FALSE, b, z, p, 0, Append(body, b)) BY <2>8 DEF BodyAt
  <2>10. w \in States /\ w \notin HeaderStates
    BY <2>2 DEF States, PayloadStates, ChecksumStates, HeaderStates
  <2>11. Typed(w, FALSE, b, z, y, p) BY <1>0, <1>4, <2>5, <2>10 DEF Typed
  <2> QED BY <2>4, <2>5, <2>9, <2>10, <2>11, GrownBy, ZeroByte
<1>7. CASE st = "V1Payload"
  <2>1. z \in Byte /\ f \in Byte /\ Len(p) < z /\ body = <<z, f>> \o p BY <1>7 DEF V1BodyAt
  <2>2. PICK w : w = IF ~(Len(p) + 1 >= z) THEN st ELSE "V1Checksum" OBVIOUS
  <2>3. PICK y : y = Folded(FALSE, u, b) OBVIOUS
  <2>4. PICK q : q = Append(p, b) OBVIOUS
  <2>5. st \in PayloadStates BY <1>7 DEF PayloadStates
  <2>6. At(ParserStep(m, b), w, FALSE, f, z, y, q) BY <2>2, <2>3, <2>4, <2>5, PayloadStepAt
  <2>7. y = SumOf(FALSE, Append(body, b)) /\ y \in Byte BY <1>1, <1>3, <2>3
  <2>8. q \in Seq(Byte) /\ Len(q) = Len(p) + 1 /\ Len(p) \in Nat BY <1>0, <2>4
  <2>9. Append(body, b) = <<z, f>> \o q BY <1>0, <2>1, <2>4
  <2>10. IF w = "V1Payload" THEN Len(q) < z ELSE Len(q) = z BY <1>0, <1>7, <2>1, <2>2, <2>8
  <2>11. V1BodyAt(w, FALSE, f, z, q, Append(body, b))
    BY <1>7, <2>1, <2>2, <2>9, <2>10 DEF V1BodyAt
  <2>12. BodyAt(w, FALSE, f, z, q, 0, Append(body, b)) BY <2>11 DEF BodyAt
  <2>13. w \in States /\ w \notin HeaderStates
    BY <1>7, <2>2 DEF States, PayloadStates, ChecksumStates, HeaderStates
  <2>14. Typed(w, FALSE, f, z, y, q) BY <1>0, <2>7, <2>8, <2>13 DEF Typed
  <2> QED BY <2>6, <2>7, <2>12, <2>13, <2>14, GrownBy, ZeroByte
<1> QED BY <1>5, <1>6, <1>7 DEF V1BodyAt, ChecksumStates

LEMMA V2Grows ==
  ASSUME NEW m, NEW st, NEW f, NEW z, NEW u, NEW p, NEW b \in Byte, NEW body \in Seq(Byte),
         At(m, st, TRUE, f, z, u, p), Typed(st, TRUE, f, z, u, p), u = SumOf(TRUE, body),
         NEW g \in Byte, V2BodyAt(st, TRUE, f, z, p, g, body), st \notin ChecksumStates
  PROVE  Grown(ParserStep(m, b), TRUE, Append(body, b))
<1>0. f \in Nat /\ z \in Nat /\ u \in Byte /\ p \in Seq(Byte) BY DEF Typed
<1>1. PICK y : /\ y = Folded(TRUE, u, b) /\ y = Crc8DvbS2(u, b) /\ y \in Byte
               /\ y = SumOf(TRUE, Append(body, b))
  <2>1. SumOf(TRUE, Append(body, b)) = Folded(TRUE, u, b) BY SumGrows
  <2>2. Folded(TRUE, u, b) = Crc8DvbS2(u, b) BY DEF Folded
  <2>3. Folded(TRUE, u, b) \in Byte BY <1>0, FoldTyped
  <2> QED BY <2>1, <2>2, <2>3
<1>2. SumOf(TRUE, <<>>) = 0 BY SumGrows
<1>3. g \in Nat BY ByteIsNat
<1>4. b \in Nat BY ByteIsNat
<1>5. CASE st = "V2Flags"
  <2>1. p = <<>> /\ body = <<>> BY <1>5 DEF V2BodyAt
  <2>2. u = 0 BY <1>2, <2>1
  <2>3. At(ParserStep(m, b), "V2FunctionLo", TRUE, f, z, Crc8DvbS2(0, b), p)
    BY <1>5, V2FlagsStep, Zenon
  <2>4. y = Crc8DvbS2(0, b) BY <1>1, <2>2
  <2>5. Append(body, b) = <<b>> BY <2>1
  <2>6. BodyAt("V2FunctionLo", TRUE, f, z, p, b, Append(body, b))
    BY <2>1, <2>5 DEF BodyAt, V2BodyAt
  <2>7. Typed("V2FunctionLo", TRUE, f, z, y, p) BY <1>0, <1>1 DEF Typed, States, V2States
  <2>8. "V2FunctionLo" \notin HeaderStates BY DEF HeaderStates
  <2> QED BY <1>1, <2>3, <2>4, <2>6, <2>7, <2>8, GrownBy
<1>6. CASE st = "V2FunctionLo"
  <2>1. p = <<>> /\ body = <<g>> BY <1>6 DEF V2BodyAt
  <2>2. At(ParserStep(m, b), "V2FunctionHi", TRUE, b, z, y, p)
    BY <1>1, <1>6, V2FunctionLoStep, Zenon
  <2>3. Append(body, b) = <<g, b>> BY <1>4, <1>3, <2>1, AppendToOne
  <2>4. BodyAt("V2FunctionHi", TRUE, b, z, p, g, Append(body, b))
    BY <2>1, <2>3 DEF BodyAt, V2BodyAt
  <2>5. Typed("V2FunctionHi", TRUE, b, z, y, p) BY <1>0, <1>1, <1>4 DEF Typed, States, V2States
  <2>6. "V2FunctionHi" \notin HeaderStates BY DEF HeaderStates
  <2> QED BY <1>1, <2>2, <2>4, <2>5, <2>6, GrownBy
<1>7. CASE st = "V2FunctionHi"
  <2>1. p = <<>> /\ f \in Byte /\ body = <<g, f>> BY <1>7 DEF V2BodyAt
  <2>2. PICK x : x = f + 256 * b OBVIOUS
  <2>3. x \in Nat /\ x % 256 = f /\ x \div 256 = b BY <2>1, <2>2, SplitWord
  <2>31. x = Word(f, b) BY <2>2 DEF Word
  <2>4. At(ParserStep(m, b), "V2SizeLo", TRUE, x, z, y, p)
    BY <1>1, <1>7, <2>31, V2FunctionHiStep, Zenon
  <2>5. Append(body, b) = <<g, f, b>> BY <1>0, <1>3, <1>4, <2>1, AppendToTwo
  <2>6. Append(body, b) = <<g, x % 256, x \div 256>> BY <2>3, <2>5, Zenon
  <2>7. V2BodyAt("V2SizeLo", TRUE, x, z, p, g, Append(body, b)) BY <2>1, <2>6, Zenon DEF V2BodyAt
  <2>8. BodyAt("V2SizeLo", TRUE, x, z, p, g, Append(body, b)) BY <2>7 DEF BodyAt
  <2>9. Typed("V2SizeLo", TRUE, x, z, y, p) BY <1>0, <1>1, <2>3 DEF Typed, States, V2States
  <2>10. "V2SizeLo" \notin HeaderStates BY DEF HeaderStates
  <2> QED BY <1>1, <2>4, <2>8, <2>9, <2>10, GrownBy
<1>8. CASE st = "V2SizeLo"
  <2>1. p = <<>> /\ body = <<g, f % 256, f \div 256>> BY <1>8 DEF V2BodyAt
  <2>2. At(ParserStep(m, b), "V2SizeHi", TRUE, f, b, y, p) BY <1>1, <1>8, V2SizeLoStep
  <2>3. Append(body, b) = <<g, f % 256, f \div 256, b>>
    <3>1. PICK c, d : c = f % 256 /\ d = f \div 256 OBVIOUS
    <3>2. c \in Nat /\ d \in Nat /\ g \in Nat BY <1>0, <3>1, ByteIsNat
    <3>3. body = <<g, c, d>> BY <2>1, <3>1
    <3>4. Append(body, b) = <<g, c, d, b>> BY <1>4, <3>2, <3>3, AppendToThree
    <3> QED BY <3>1, <3>4
  <2>4. V2BodyAt("V2SizeHi", TRUE, f, b, p, g, Append(body, b)) BY <2>1, <2>3, Zenon DEF V2BodyAt
  <2>5. BodyAt("V2SizeHi", TRUE, f, b, p, g, Append(body, b)) BY <2>4 DEF BodyAt
  <2>6. Typed("V2SizeHi", TRUE, f, b, y, p) BY <1>0, <1>1, <1>4 DEF Typed, States, V2States
  <2>7. "V2SizeHi" \notin HeaderStates BY DEF HeaderStates
  <2> QED BY <1>1, <2>2, <2>5, <2>6, <2>7, GrownBy
<1>9. CASE st = "V2SizeHi"
  <2>1. p = <<>> /\ z \in Byte /\ body = <<g, f % 256, f \div 256, z>> BY <1>9 DEF V2BodyAt
  <2>2. PICK x : x = z + 256 * b OBVIOUS
  <2>3. x \in Nat /\ x % 256 = z /\ x \div 256 = b BY <2>1, <2>2, SplitWord
  <2>4. PICK w : w = IF x > MaxSize THEN "Idle" ELSE IF x > 0 THEN "V2Payload" ELSE "V2Checksum"
    OBVIOUS
  <2>5. At(ParserStep(m, b), w, TRUE, f, x, y, p)
    <3>1. At(m, "V2SizeHi", TRUE, f, z, u, p) BY <1>9
    <3>2. x = Word(z, b) BY <2>2 DEF Word
    <3>3. At(ParserStep(m, b), AfterSize(x), TRUE, f, x, Crc8DvbS2(u, b), p)
      BY <3>1, <3>2, V2SizeHiStep, Zenon
    <3>4. w = AfterSize(x) BY <2>4, Zenon DEF AfterSize
    <3> QED BY <1>1, <3>3, <3>4, Zenon
  <2>6. w \in States BY <2>4 DEF States, HeaderStates, PayloadStates, ChecksumStates
  <2>7. Typed(w, TRUE, f, x, y, p) BY <1>0, <1>1, <2>3, <2>6 DEF Typed
  <2>8. CASE w = "Idle" BY <2>5, <2>7, <2>8, GrownIdle
  <2>9. CASE w # "Idle"
    <3>1. w \in {"V2Payload", "V2Checksum"} /\ w \notin HeaderStates
      BY <2>4, <2>9 DEF HeaderStates
    <3>2. Append(body, b) = <<g, f % 256, f \div 256, z, b>>
      <4>1. PICK c, d : c = f % 256 /\ d = f \div 256 OBVIOUS
      <4>2. c \in Nat /\ d \in Nat /\ g \in Nat BY <1>0, <4>1, ByteIsNat
      <4>3. body = <<g, c, d, z>> BY <2>1, <4>1
      <4>4. Append(body, b) = <<g, c, d, z, b>> BY <1>0, <1>4, <4>2, <4>3, AppendToFour
      <4> QED BY <4>1, <4>4
    <3>3. Append(body, b) \in Seq(Byte) OBVIOUS
    <3>4. Append(body, b) = <<g, f % 256, f \div 256, x % 256, x \div 256>> \o p
      BY <2>1, <2>3, <3>2, <3>3, ConcatEmptySeq
    <3>5. IF w = "V2Payload" THEN Len(p) < x ELSE Len(p) = x BY <2>1, <2>3, <2>4, <2>9
    <3>6. V2BodyAt(w, TRUE, f, x, p, g, Append(body, b))
      BY <3>1, <3>4, <3>5, Zenon DEF V2BodyAt
    <3>7. BodyAt(w, TRUE, f, x, p, g, Append(body, b)) BY <3>6 DEF BodyAt
    <3> QED BY <1>1, <2>5, <2>7, <3>1, <3>7, GrownBy
  <2> QED BY <2>8, <2>9
<1>10. CASE st = "V2Payload"
  <2>0. PICK h : h = <<g, f % 256, f \div 256, z % 256, z \div 256>> OBVIOUS
  <2>1. Len(p) < z /\ body = h \o p BY <1>10, <2>0 DEF V2BodyAt
  <2>2. PICK w : w = IF ~(Len(p) + 1 >= z) THEN st ELSE "V2Checksum" OBVIOUS
  <2>3. PICK q : q = Append(p, b) OBVIOUS
  <2>4. st \in PayloadStates BY <1>10 DEF PayloadStates
  <2>5. At(ParserStep(m, b), w, TRUE, f, z, y, q) BY <1>1, <2>2, <2>3, <2>4, PayloadStepAt
  <2>6. q \in Seq(Byte) /\ Len(q) = Len(p) + 1 /\ Len(p) \in Nat BY <1>0, <2>3
  <2>7. Append(body, b) = h \o q
    <3>1. h \in Seq(Int)
      <4>1. f % 256 \in Int /\ f \div 256 \in Int /\ z % 256 \in Int /\ z \div 256 \in Int
        BY <1>0
      <4>2. g \in Int BY DEF Byte
      <4> QED BY <2>0, <4>1, <4>2
    <3>2. Byte \subseteq Int /\ b \in Int BY DEF Byte
    <3>3. p \in Seq(Int) BY <1>0, <3>2, SeqMonotonic
    <3> QED BY <2>1, <2>3, <3>1, <3>2, <3>3, ConcatAppend, SMTT(30)
  <2>8. IF w = "V2Payload" THEN Len(q) < z ELSE Len(q) = z BY <1>0, <1>10, <2>1, <2>2, <2>6
  <2>9. w \in {"V2Payload", "V2Checksum"} BY <1>10, <2>2
  <2>10. V2BodyAt(w, TRUE, f, z, q, g, Append(body, b))
    BY <2>0, <2>7, <2>8, <2>9, ZenonT(40) DEF V2BodyAt
  <2>11. BodyAt(w, TRUE, f, z, q, g, Append(body, b)) BY <2>10 DEF BodyAt
  <2>12. w \in States /\ w \notin HeaderStates
    BY <2>9 DEF States, PayloadStates, ChecksumStates, HeaderStates
  <2>13. Typed(w, TRUE, f, z, y, q) BY <1>0, <1>1, <2>6, <2>12 DEF Typed
  <2> QED BY <1>1, <2>5, <2>11, <2>12, <2>13, GrownBy
<1> QED BY <1>5, <1>6, <1>7, <1>8, <1>9, <1>10 DEF V2BodyAt, ChecksumStates


-----------------------------------------------------------------------------
(* The parser m after the bytes s since the last header's '$'. *)
Reading(st, v, f, z, u, p, g, s) ==
    \E a \in Byte, body \in Seq(Byte) :
        /\ s = <<Dollar, Letter(v), a>> \o body
        /\ u = SumOf(v, body)
        /\ BodyAt(st, v, f, z, p, g, body)

Since(st, v, f, z, u, p, g, s) ==
    /\ st = "HeaderM" => s = <<Dollar>>
    /\ st = "HeaderArrow" => s = <<Dollar, Letter(v)>>
    /\ st \notin HeaderStates => Reading(st, v, f, z, u, p, g, s)

StateOK(m, s) ==
    \E st, v, f, z, u, p : \E g \in Byte :
        /\ At(m, st, v, f, z, u, p) /\ Typed(st, v, f, z, u, p)
        /\ Since(st, v, f, z, u, p, g, s)

SeenAfter(m, s, b) ==
    IF m.st = "Idle" \/ (m.st = "HeaderM" /\ b = Dollar) THEN <<b>> ELSE Append(s, b)

LEMMA StateOKBy ==
  ASSUME NEW m, NEW s, NEW st, NEW v, NEW f, NEW z, NEW u, NEW p, NEW g \in Byte,
         At(m, st, v, f, z, u, p), Typed(st, v, f, z, u, p), Since(st, v, f, z, u, p, g, s)
  PROVE  StateOK(m, s)
  BY Zenon DEF StateOK

LEMMA HeaderBytes == \A v : Letter(v) \in Byte /\ Dollar \in Byte
  BY DEF Letter, LetterX, LetterM, Dollar, Byte

(* In a header. *)
LEMMA HeaderStays ==
  ASSUME NEW m, NEW s, NEW st, NEW v, NEW f, NEW z, NEW u, NEW p, NEW g \in Byte,
         At(m, st, v, f, z, u, p), Typed(st, v, f, z, u, p), Since(st, v, f, z, u, p, g, s),
         st \in HeaderStates, NEW b \in Byte
  PROVE  StateOK(ParserStep(m, b), SeenAfter(m, s, b))
<1>0. /\ m.st = st /\ v \in BOOLEAN /\ f \in Nat /\ z \in Nat /\ u \in Byte /\ p \in Seq(Byte)
  BY DEF At, Typed
<1>1. CASE st = "Idle"
  <2>1. PICK w : w = IF b = Dollar THEN "HeaderM" ELSE "Idle" OBVIOUS
  <2>2. At(ParserStep(m, b), w, v, f, z, u, p) BY <1>1, <2>1, IdleStep
  <2>3. Typed(w, v, f, z, u, p) BY <1>0, <2>1 DEF Typed, States, HeaderStates
  <2>4. SeenAfter(m, s, b) = <<b>> BY <1>0, <1>1 DEF SeenAfter
  <2>5. Since(w, v, f, z, u, p, g, <<b>>) BY <2>1 DEF Since, HeaderStates
  <2> QED BY <2>2, <2>3, <2>4, <2>5, StateOKBy
<1>2. CASE st = "HeaderM" /\ b \in {LetterM, LetterX}
  <2>1. PICK w \in BOOLEAN : w = (b = LetterX) OBVIOUS
  <2>2. At(ParserStep(m, b), "HeaderArrow", b = LetterX, f, z, u, p) BY <1>2, LetterStep, Zenon
  <2>3. At(ParserStep(m, b), "HeaderArrow", w, f, z, u, p) BY <2>1, <2>2, Zenon
  <2>4. Typed("HeaderArrow", w, f, z, u, p) BY <1>0 DEF Typed, States, HeaderStates
  <2>5. Letter(w) = b BY <1>2, <2>1 DEF Letter, LetterM, LetterX
  <2>6. s = <<Dollar>> BY <1>2 DEF Since
  <2>7. b # Dollar BY <1>2 DEF LetterM, LetterX, Dollar
  <2>8. SeenAfter(m, s, b) = Append(<<Dollar>>, b) BY <1>0, <1>2, <2>6, <2>7 DEF SeenAfter
  <2>9. Append(<<Dollar>>, b) = <<Dollar, b>> BY HeaderBytes, ByteIsNat, AppendToOne
  <2>10. SeenAfter(m, s, b) = <<Dollar, Letter(w)>> BY <2>5, <2>8, <2>9
  <2>11. Since("HeaderArrow", w, f, z, u, p, g, SeenAfter(m, s, b))
    BY <2>10 DEF Since, HeaderStates
  <2> QED BY <2>3, <2>4, <2>11, StateOKBy
<1>3. CASE st = "HeaderM" /\ b \notin {LetterM, LetterX}
  <2>1. PICK w : w = IF b = Dollar THEN "HeaderM" ELSE "Idle" OBVIOUS
  <2>2. At(ParserStep(m, b), w, v, f, z, u, p) BY <1>3, <2>1, NoLetterStep
  <2>3. Typed(w, v, f, z, u, p) BY <1>0, <2>1 DEF Typed, States, HeaderStates
  <2>4. w = "HeaderM" => SeenAfter(m, s, b) = <<Dollar>> BY <1>0, <1>3, <2>1 DEF SeenAfter
  <2>5. Since(w, v, f, z, u, p, g, SeenAfter(m, s, b)) BY <2>1, <2>4 DEF Since, HeaderStates
  <2> QED BY <2>2, <2>3, <2>5, StateOKBy
<1>4. CASE st = "HeaderArrow" /\ b \in Arrows
  <2>1. PICK w : w = IF v THEN "V2Flags" ELSE "V1Size" OBVIOUS
  <2>2. At(ParserStep(m, b), w, v, f, z, 0, <<>>) BY <1>4, <2>1, ArrowStep
  <2>3. w \in States /\ w \notin HeaderStates
    BY <2>1 DEF States, HeaderStates, V1States, V2States
  <2>4. Typed(w, v, f, z, 0, <<>>) BY <1>0, <2>3, ZeroByte DEF Typed
  <2>5. s = <<Dollar, Letter(v)>> BY <1>4 DEF Since
  <2>6. SeenAfter(m, s, b) = Append(s, b) BY <1>0, <1>4 DEF SeenAfter
  <2>7. SeenAfter(m, s, b) = <<Dollar, Letter(v), b>>
    BY <2>5, <2>6, HeaderBytes, ByteIsNat, AppendToTwo
  <2>8. <<Dollar, Letter(v), b>> \in Seq(Byte) BY HeaderBytes
  <2>9. SeenAfter(m, s, b) = <<Dollar, Letter(v), b>> \o <<>> BY <2>7, <2>8, ConcatEmptySeq
  <2>10. SumOf(v, <<>>) = 0 /\ <<>> \in Seq(Byte) BY <1>0, SumGrows
  <2>11. BodyAt(w, v, f, z, <<>>, g, <<>>) BY <1>0, <2>1 DEF BodyAt, V1BodyAt, V2BodyAt
  <2>12. Reading(w, v, f, z, 0, <<>>, g, SeenAfter(m, s, b)) BY <2>9, <2>10, <2>11 DEF Reading
  <2>13. Since(w, v, f, z, 0, <<>>, g, SeenAfter(m, s, b))
    BY <2>3, <2>12 DEF Since, HeaderStates
  <2> QED BY <2>2, <2>4, <2>13, StateOKBy
<1>5. CASE st = "HeaderArrow" /\ b \notin Arrows
  <2>1. At(ParserStep(m, b), "Idle", v, f, z, u, p) BY <1>5, NoArrowStep
  <2>2. Typed("Idle", v, f, z, u, p) BY <1>0 DEF Typed, States, HeaderStates
  <2>3. Since("Idle", v, f, z, u, p, g, SeenAfter(m, s, b)) BY DEF Since, HeaderStates
  <2> QED BY <2>1, <2>2, <2>3, StateOKBy
<1> QED BY <1>1, <1>2, <1>3, <1>4, <1>5 DEF HeaderStates

(* In a message. *)
LEMMA MessageStays ==
  ASSUME NEW m, NEW s \in Seq(Byte), NEW st, NEW v, NEW f, NEW z, NEW u, NEW p, NEW g \in Byte,
         At(m, st, v, f, z, u, p), Typed(st, v, f, z, u, p), Since(st, v, f, z, u, p, g, s),
         st \notin HeaderStates, NEW b \in Byte
  PROVE  StateOK(ParserStep(m, b), SeenAfter(m, s, b))
<1>0. /\ m.st = st /\ st \in States /\ v \in BOOLEAN /\ f \in Nat /\ z \in Nat
      /\ u \in Byte /\ p \in Seq(Byte)
  BY DEF At, Typed
<1>1. CASE st \in ChecksumStates
  <2>1. At(ParserStep(m, b), "Idle", v, f, z, u, p) BY <1>1, ChecksumStep
  <2>2. Typed("Idle", v, f, z, u, p) BY <1>0 DEF Typed, States, HeaderStates
  <2>3. Since("Idle", v, f, z, u, p, g, SeenAfter(m, s, b)) BY DEF Since, HeaderStates
  <2> QED BY <2>1, <2>2, <2>3, StateOKBy
<1>2. CASE st \notin ChecksumStates
  <2>1. Reading(st, v, f, z, u, p, g, s) BY DEF Since
  <2>2. PICK a \in Byte, body \in Seq(Byte) :
           /\ s = <<Dollar, Letter(v), a>> \o body
           /\ u = SumOf(v, body)
           /\ BodyAt(st, v, f, z, p, g, body)
    BY <2>1 DEF Reading
  <2>3. Grown(ParserStep(m, b), v, Append(body, b))
    <3>1. CASE v = TRUE
      <4>1. V2BodyAt(st, TRUE, f, z, p, g, body) BY <2>2, <3>1 DEF BodyAt
      <4> QED BY <1>2, <2>2, <3>1, <4>1, V2Grows
    <3>2. CASE v = FALSE
      <4>1. V1BodyAt(st, FALSE, f, z, p, body) BY <2>2, <3>2 DEF BodyAt
      <4> QED BY <1>2, <2>2, <3>2, <4>1, V1Grows
    <3> QED BY <1>0, <3>1, <3>2
  <2>4. PICK st1, f1, z1, u1, p1 : \E g1 \in Byte :
          /\ At(ParserStep(m, b), st1, v, f1, z1, u1, p1) /\ Typed(st1, v, f1, z1, u1, p1)
          /\ st1 # "Idle" => /\ st1 \notin HeaderStates /\ u1 = SumOf(v, Append(body, b))
                             /\ BodyAt(st1, v, f1, z1, p1, g1, Append(body, b))
    BY <2>3, Zenon DEF Grown
  <2>5. PICK g1 \in Byte :
          /\ At(ParserStep(m, b), st1, v, f1, z1, u1, p1) /\ Typed(st1, v, f1, z1, u1, p1)
          /\ st1 # "Idle" => /\ st1 \notin HeaderStates /\ u1 = SumOf(v, Append(body, b))
                             /\ BodyAt(st1, v, f1, z1, p1, g1, Append(body, b))
    BY <2>4
  <2>6. SeenAfter(m, s, b) = Append(s, b)
    BY <1>0 DEF SeenAfter, HeaderStates
  <2>7. Append(s, b) = <<Dollar, Letter(v), a>> \o Append(body, b)
    <3>1. <<Dollar, Letter(v), a>> \in Seq(Byte) BY HeaderBytes
    <3> QED BY <2>2, <3>1, ConcatAppend, SMTT(30)
  <2>8. CASE st1 = "Idle"
    <3>1. Since(st1, v, f1, z1, u1, p1, g1, SeenAfter(m, s, b)) BY <2>8 DEF Since, HeaderStates
    <3> QED BY <2>5, <3>1, StateOKBy
  <2>9. CASE st1 # "Idle"
    <3>1. Append(body, b) \in Seq(Byte) OBVIOUS
    <3>2. Reading(st1, v, f1, z1, u1, p1, g1, SeenAfter(m, s, b))
      BY <2>5, <2>6, <2>7, <2>9, <3>1, Zenon DEF Reading
    <3>3. Since(st1, v, f1, z1, u1, p1, g1, SeenAfter(m, s, b))
      BY <2>5, <2>9, <3>2 DEF Since, HeaderStates
    <3> QED BY <2>5, <3>3, StateOKBy
  <2> QED BY <2>8, <2>9
<1> QED BY <1>1, <1>2

LEMMA StateStays ==
  ASSUME NEW m, NEW s \in Seq(Byte), StateOK(m, s), NEW b \in Byte
  PROVE  StateOK(ParserStep(m, b), SeenAfter(m, s, b))
<1>1. PICK st, v, f, z, u, p : \E g \in Byte :
        /\ At(m, st, v, f, z, u, p) /\ Typed(st, v, f, z, u, p)
        /\ Since(st, v, f, z, u, p, g, s)
  BY Zenon DEF StateOK
<1>2. PICK g \in Byte :
        /\ At(m, st, v, f, z, u, p) /\ Typed(st, v, f, z, u, p)
        /\ Since(st, v, f, z, u, p, g, s)
  BY <1>1
<1>3. CASE st \in HeaderStates BY <1>2, <1>3, HeaderStays, Zenon
<1>4. CASE st \notin HeaderStates BY <1>2, <1>4, MessageStays, Zenon
<1> QED BY <1>3, <1>4

(* The bytes t are an encoding of the message in the parser m. *)
EncodingOf(m, t) ==
    t = IF m.v2 THEN EncodedV2(t[3], t[4], m.fn, m.payload) ELSE EncodedV1(t[3], m.fn, m.payload)

LEMMA ConcatAt ==
  ASSUME NEW h \in Seq(Nat), NEW q \in Seq(Nat), NEW r, r = h \o q
  PROVE  /\ r \in Seq(Nat) /\ Len(r) = Len(h) + Len(q) /\ Len(h) \in Nat /\ Len(q) \in Nat
         /\ \A i \in 1..Len(h) : r[i] = h[i]
         /\ \A i \in 1..Len(q) : r[Len(h) + i] = q[i]
  OBVIOUS

(* A message t: a header, a body and its checksum. *)
LEMMA FramedAt ==
  ASSUME NEW c \in Nat, NEW d \in Nat, NEW a \in Nat, NEW body \in Seq(Nat), NEW e \in Nat,
         NEW t, t = (<<c, d, a>> \o body) \o <<e>>
  PROVE  /\ t \in Seq(Nat) /\ Len(t) = Len(body) + 4 /\ Len(body) \in Nat
         /\ t[1] = c /\ t[2] = d /\ t[3] = a /\ t[Len(body) + 4] = e
         /\ \A i \in 1..Len(body) : t[3 + i] = body[i]
<1>1. PICK h : h = <<c, d, a>> OBVIOUS
<1>2. h \in Seq(Nat) /\ Len(h) = 3 /\ h[1] = c /\ h[2] = d /\ h[3] = a BY <1>1
<1>3. PICK r : r = h \o body OBVIOUS
<1>4. h \in Seq(Nat) BY <1>2
<1>5. /\ r \in Seq(Nat) /\ Len(r) = Len(h) + Len(body) /\ Len(body) \in Nat
      /\ \A i \in 1..Len(h) : r[i] = h[i]
      /\ \A i \in 1..Len(body) : r[Len(h) + i] = body[i]
  BY <1>3, <1>4, ConcatAt
<1>6. PICK l : l = <<e>> OBVIOUS
<1>7. l \in Seq(Nat) /\ Len(l) = 1 /\ l[1] = e BY <1>6
<1>8. PICK y : y = r \o l OBVIOUS
<1>9. r \in Seq(Nat) /\ l \in Seq(Nat) BY <1>5, <1>7
<1>10. /\ t \in Seq(Nat) /\ Len(t) = Len(r) + Len(l)
       /\ \A i \in 1..Len(r) : t[i] = r[i]
       /\ \A i \in 1..Len(l) : t[Len(r) + i] = l[i]
  <2>1. /\ y \in Seq(Nat) /\ Len(y) = Len(r) + Len(l)
        /\ \A i \in 1..Len(r) : y[i] = r[i]
        /\ \A i \in 1..Len(l) : y[Len(r) + i] = l[i]
    BY <1>8, <1>9, ConcatAt
  <2>2. y = t BY <1>1, <1>3, <1>6, <1>8
  <2> QED BY <2>1, <2>2, Zenon
<1>11. Len(r) = 3 + Len(body) /\ \A i \in 1..3 : r[i] = h[i] BY <1>2, <1>5
<1>12. Len(t) = Len(body) + 4 BY <1>5, <1>7, <1>10, <1>11
<1>13. \A i \in 1..3 : t[i] = h[i]
  <2>1. \A i \in 1..3 : i \in 1..Len(r) BY <1>5, <1>11
  <2> QED BY <1>10, <1>11, <2>1
<1>14. t[1] = c /\ t[2] = d /\ t[3] = a
  <2>1. 1 \in 1..3 /\ 2 \in 1..3 /\ 3 \in 1..3 OBVIOUS
  <2> QED BY <1>2, <1>13, <2>1
<1>15. t[Len(body) + 4] = e
  <2>1. 1 \in 1..Len(l) /\ Len(r) + 1 = Len(body) + 4 BY <1>5, <1>7, <1>11
  <2> QED BY <1>7, <1>10, <2>1
<1>16. \A i \in 1..Len(body) : t[3 + i] = body[i]
  <2>1. \A i \in 1..Len(body) : 3 + i \in 1..Len(r) BY <1>5, <1>11
  <2>2. \A i \in 1..Len(body) : r[3 + i] = body[i] BY <1>2, <1>5
  <2> QED BY <1>10, <2>1, <2>2
<1> QED BY <1>5, <1>10, <1>12, <1>14, <1>15, <1>16

LEMMA CompleteIsEncoding ==
  ASSUME NEW m, NEW s \in Seq(Byte), StateOK(m, s), NEW b \in Byte, ChecksumMatches(m, b)
  PROVE  EncodingOf(ParserStep(m, b), SeenAfter(m, s, b))
<1>1. PICK st, v, f, z, u, p : \E g \in Byte :
        /\ At(m, st, v, f, z, u, p) /\ Typed(st, v, f, z, u, p)
        /\ Since(st, v, f, z, u, p, g, s)
  BY Zenon DEF StateOK
<1>2. PICK g \in Byte :
        /\ At(m, st, v, f, z, u, p) /\ Typed(st, v, f, z, u, p)
        /\ Since(st, v, f, z, u, p, g, s)
  BY <1>1
<1>3. st \in ChecksumStates /\ b = u BY <1>2 DEF ChecksumMatches, At
<1>4. st \notin HeaderStates BY <1>3 DEF ChecksumStates, HeaderStates
<1>5. PICK n : n = ParserStep(m, b) OBVIOUS
<1>6. n.v2 = v /\ n.fn = f /\ n.payload = p
  <2>1. At(n, "Idle", v, f, z, u, p) BY <1>2, <1>3, <1>5, ChecksumStep
  <2> QED BY <2>1 DEF At
<1>7. PICK a \in Byte, body \in Seq(Byte) :
        /\ s = <<Dollar, Letter(v), a>> \o body
        /\ u = SumOf(v, body)
        /\ BodyAt(st, v, f, z, p, g, body)
  BY <1>2, <1>4 DEF Since, Reading
<1>8. PICK t : t = SeenAfter(m, s, b) OBVIOUS
<1>9. t = (<<Dollar, Letter(v), a>> \o body) \o <<b>>
  <2>1. m.st = st BY <1>2 DEF At
  <2>2. t = Append(s, b) BY <1>4, <1>8, <2>1 DEF SeenAfter, HeaderStates
  <2>3. Append(s, b) = s \o <<b>> BY AppendIsConcat
  <2> QED BY <1>7, <2>2, <2>3
<1>10. t[3] = a /\ (Len(body) > 0 => t[4] = body[1])
  <2>1. Byte \subseteq Nat BY DEF Byte
  <2>2. body \in Seq(Nat) BY <2>1, SeqMonotonic
  <2>3. Dollar \in Nat /\ Letter(v) \in Nat /\ a \in Nat /\ b \in Nat BY <2>1, HeaderBytes
  <2>4. Len(body) \in Nat /\ t[3] = a /\ \A i \in 1..Len(body) : t[3 + i] = body[i]
    <3>1. PICK c, d : c = Dollar /\ d = Letter(v) OBVIOUS
    <3>2. c \in Nat /\ d \in Nat /\ a \in Nat /\ b \in Nat BY <2>3, <3>1
    <3>3. t = (<<c, d, a>> \o body) \o <<b>> BY <1>9, <3>1
    <3>4. body \in Seq(Nat) BY <2>2
    <3> QED BY <3>2, <3>3, <3>4, FramedAt, SMTT(30)
  <2>5. Len(body) > 0 => 1 \in 1..Len(body) BY <2>4
  <2> QED BY <2>4, <2>5
<1>11. v \in BOOLEAN /\ f \in Nat /\ z \in Nat /\ p \in Seq(Byte) BY <1>2 DEF Typed
<1>12. CASE v = FALSE
  <2>1. V1BodyAt(st, FALSE, f, z, p, body) BY <1>7, <1>12 DEF BodyAt
  <2>2. Len(p) = z /\ body = <<z, f>> \o p BY <1>3, <2>1 DEF V1BodyAt, ChecksumStates
  <2>3. b = Checksum(XorByte, body, 0) BY <1>3, <1>7, <1>12 DEF SumOf, XorSum
  <2>4. t = (<<Dollar, LetterM, t[3]>> \o body) \o <<Checksum(XorByte, body, 0)>>
    BY <1>9, <1>10, <1>12, <2>3 DEF Letter
  <2>5. t = EncodedV1(t[3], f, p) BY <2>2, <2>4, Zenon DEF EncodedV1
  <2>6. EncodingOf(n, t) BY <1>6, <1>12, <2>5, Zenon DEF EncodingOf
  <2> QED BY <1>5, <1>8, <2>6
<1>13. CASE v = TRUE
  <2>1. V2BodyAt(st, TRUE, f, z, p, g, body) BY <1>7, <1>13 DEF BodyAt
  <2>2. Len(p) = z /\ body = <<g, f % 256, f \div 256, z % 256, z \div 256>> \o p
    BY <1>3, <2>1 DEF V2BodyAt, ChecksumStates
  <2>3. b = Checksum(Crc8DvbS2, body, 0) BY <1>3, <1>7, <1>13 DEF SumOf, CrcSum
  <2>4. t = (<<Dollar, LetterX, t[3]>> \o body) \o <<Checksum(Crc8DvbS2, body, 0)>>
    BY <1>9, <1>10, <1>13, <2>3 DEF Letter
  <2>5. Len(body) > 0 /\ body[1] = g
    <3>1. PICK h : h = <<g, f % 256, f \div 256, z % 256, z \div 256>> OBVIOUS
    <3>2. /\ g \in Nat /\ f % 256 \in Nat /\ f \div 256 \in Nat
          /\ z % 256 \in Nat /\ z \div 256 \in Nat
      BY <1>11, ByteIsNat
    <3>3. h \in Seq(Nat) /\ Len(h) = 5 /\ h[1] = g BY <3>1, <3>2
    <3>4. p \in Seq(Nat)
      <4>1. Byte \subseteq Nat BY DEF Byte
      <4> QED BY <1>11, <4>1, SeqMonotonic
    <3>5. body = h \o p BY <2>2, <3>1
    <3>6. /\ Len(body) = Len(h) + Len(p) /\ Len(p) \in Nat
          /\ \A i \in 1..Len(h) : body[i] = h[i]
      <4>1. h \in Seq(Nat) BY <3>3
      <4> QED BY <3>4, <3>5, <4>1, ConcatAt
    <3>7. 1 \in 1..Len(h) BY <3>3
    <3> QED BY <3>3, <3>6, <3>7
  <2>6. t[4] = g BY <1>10, <2>5
  <2>7. body = <<t[4], f % 256, f \div 256, Len(p) % 256, Len(p) \div 256>> \o p BY <2>2, <2>6
  <2>8. t = EncodedV2(t[3], t[4], f, p) BY <2>4, <2>7, Zenon DEF EncodedV2
  <2>9. EncodingOf(n, t) BY <1>6, <1>13, <2>8, Zenon DEF EncodingOf
  <2> QED BY <1>5, <1>8, <2>9
<1> QED BY <1>11, <1>12, <1>13
-----------------------------------------------------------------------------
(* The inductive invariant: the fields of the parser agree with the bytes
   since the last '$' of a header, and the last message dispatched with its
   encoding. *)
ParserInv ==
    /\ rest \in Seq(Byte)
    /\ seen \in Seq(Byte)
    /\ StateOK(msp, seen)
    /\ DispatchedIsFrame

LEMMA ParserInit == Init => ParserInv
<1> SUFFICES ASSUME Init PROVE ParserInv OBVIOUS
<1>1. rest \in Seq(Byte) /\ seen \in Seq(Byte) BY DEF Init
<1>2. At(msp, "Idle", FALSE, 0, 0, 0, <<>>) BY DEF Init, NoMessage, At, Names
<1>3. Typed("Idle", FALSE, 0, 0, 0, <<>>) BY ZeroByte DEF Typed, States, HeaderStates
<1>4. Since("Idle", FALSE, 0, 0, 0, <<>>, 0, seen) BY DEF Since, HeaderStates
<1>5. StateOK(msp, seen) BY <1>2, <1>3, <1>4, ZeroByte, StateOKBy
<1>6. DispatchedIsFrame BY DEF Init, DispatchedIsFrame
<1> QED BY <1>1, <1>5, <1>6 DEF ParserInv

LEMMA ParserPush ==
  ASSUME ParserInv, NEW p \in Packets \cup {Clean}, Push(p)
  PROVE  ParserInv'
<1>1. p \in Seq(Byte) BY OsdAssumption
<1>2. rest' = p /\ seen' = seen /\ msp' = msp /\ event' = "none" BY DEF Push
<1>3. seen' \in Seq(Byte) /\ rest' \in Seq(Byte) BY <1>1, <1>2 DEF ParserInv
<1>4. StateOK(msp', seen') BY <1>2 DEF ParserInv
<1>5. DispatchedIsFrame' BY <1>2 DEF DispatchedIsFrame
<1> QED BY <1>3, <1>4, <1>5 DEF ParserInv

LEMMA ParserByte ==
  ASSUME ParserInv, HandleByte
  PROVE  ParserInv'
<1>1. rest \in Seq(Byte) /\ rest # <<>> /\ seen \in Seq(Byte) /\ StateOK(msp, seen)
  BY DEF ParserInv, HandleByte
<1>2. PICK b \in Byte : b = Head(rest) BY <1>1
<1>3. rest' \in Seq(Byte) BY <1>1 DEF HandleByte
<1>4. msp' = ParserStep(msp, b) /\ seen' = SeenAfter(msp, seen, b)
  BY <1>2 DEF HandleByte, SeenAfter
<1>5. seen' \in Seq(Byte) BY <1>1, <1>4 DEF SeenAfter
<1>6. StateOK(msp', seen') BY <1>1, <1>4, StateStays
<1>7. event' = "message" => ChecksumMatches(msp, b) BY <1>2 DEF HandleByte
<1>8. event' = "message" => EncodingOf(msp', seen') BY <1>1, <1>4, <1>7, CompleteIsEncoding
<1>9. DispatchedIsFrame' BY <1>8 DEF DispatchedIsFrame, EncodingOf
<1> QED BY <1>3, <1>5, <1>6, <1>9 DEF ParserInv

LEMMA ParserStutter ==
  ASSUME ParserInv, UNCHANGED vars
  PROVE  ParserInv'
  BY DEF ParserInv, vars, DispatchedIsFrame

(* However the packets of the two streams and noise are mixed, a message is
   dispatched only when the bytes since the last header are exactly an
   encoding of it (HandleByte, displayport.cpp). *)
THEOREM DispatchedAreFrames == Spec => []DispatchedIsFrame
<1>1. ParserInv /\ [Next]_vars => ParserInv'
  BY ParserPush, ParserByte, ParserStutter DEF Next
<1>2. ParserInv => DispatchedIsFrame BY DEF ParserInv
<1> QED BY ParserInit, <1>1, <1>2, PTL DEF Spec
-----------------------------------------------------------------------------
(* The canvas.  Cell <<r, c>> of a grid of C columns is cell r * C + c + 1 of
   the array, and the arithmetic of rows is monotonic. *)
LEMMA RowsApart ==
  ASSUME NEW C \in Nat, NEW r \in Nat, NEW w \in Nat, r < w
  PROVE  r * C + C <= w * C
<1>1. PICK d \in Nat : w = r + 1 + d
  <2>1. w - r - 1 \in Nat /\ w = r + 1 + (w - r - 1) OBVIOUS
  <2> QED BY <2>1
<1>2. w * C = r * C + C + d * C BY <1>1
<1>3. d * C \in Nat /\ r * C \in Nat OBVIOUS
<1> QED BY <1>2, <1>3

LEMMA PlaceIndex ==
  ASSUME NEW R \in Nat, NEW C \in Nat, NEW r \in 0..(R - 1), NEW c \in 0..(C - 1)
  PROVE  (r * C + c) + 1 \in 1..(R * C)
<1>1. r \in Nat /\ c \in Nat /\ r < R /\ c < C OBVIOUS
<1>2. r * C + C <= R * C BY <1>1, RowsApart
<1>3. r * C \in Nat /\ R * C \in Nat BY <1>1
<1> QED BY <1>1, <1>2, <1>3

(* A run of n cells from column a of row w that ends within the row covers
   cells of that row only. *)
LEMMA RunInRow ==
  ASSUME NEW C \in Nat, NEW r \in Nat, NEW c \in 0..(C - 1),
         NEW w \in Nat, NEW a \in Nat, NEW n \in Nat, a + n <= C,
         NEW k, k = (r * C + c) + 1, NEW base, base = w * C + a
  PROVE  k \in (base + 1)..(base + n) <=> r = w /\ a <= c /\ c < a + n
<1>1. r * C \in Nat /\ w * C \in Nat /\ c \in Nat /\ c < C OBVIOUS
<1>2. CASE r = w BY <1>1, <1>2
<1>3. CASE r < w
  <2>1. r * C + C <= w * C BY <1>3, RowsApart
  <2> QED BY <1>1, <1>3, <2>1
<1>4. CASE w < r
  <2>1. w * C + C <= r * C BY <1>4, RowsApart
  <2> QED BY <1>1, <1>4, <2>1
<1> QED BY <1>2, <1>3, <1>4

(* What is written of a string fits into the row and has no NUL. *)
LEMMA RunFits ==
  ASSUME NEW p \in Seq(Byte), Len(p) >= 4, NEW col \in Nat, frame.cols \in Nat, col < frame.cols
  PROVE  /\ RunLength(p, col) \in Nat
         /\ col + RunLength(p, col) <= frame.cols
         /\ \A k \in 1..RunLength(p, col) : 4 + k \in 1..Len(p) /\ p[4 + k] # 0
<1> DEFINE stops == {i \in 5..Len(p) : col + (i - 5) >= frame.cols \/ p[i] = 0}
<1>0. Len(p) \in Nat OBVIOUS
<1>1. PICK e \in Nat : /\ RunLength(p, col) = e - 5 /\ 5 <= e /\ e <= Len(p) + 1
                       /\ \A i \in 5..(e - 1) : i \notin stops
  <2>1. CASE stops = {}
    <3>1. RunLength(p, col) = (Len(p) + 1) - 5 BY <2>1 DEF RunLength
    <3>2. Len(p) + 1 \in Nat /\ 5 <= Len(p) + 1 BY <1>0
    <3> QED BY <2>1, <3>1, <3>2
  <2>2. CASE stops # {}
    <3>1. stops \in SUBSET Nat BY <1>0
    <3>2. PICK x \in stops : \A y \in stops : x <= y BY <2>2, <3>1, LeastNatural
    <3>3. PICK e : e = CHOOSE i \in stops : \A j \in stops : i <= j OBVIOUS
    <3>4. e \in stops /\ \A j \in stops : e <= j BY <3>2, <3>3
    <3>5. RunLength(p, col) = e - 5 BY <2>2, <3>3, Zenon DEF RunLength
    <3>6. e \in Nat /\ 5 <= e /\ e <= Len(p) + 1 BY <1>0, <3>4
    <3>7. \A i \in 5..(e - 1) : i \notin stops BY <3>4, <3>6
    <3> QED BY <3>5, <3>6, <3>7
  <2> QED BY <2>1, <2>2
<1>2. \A i \in 5..(e - 1) : col + (i - 5) < frame.cols /\ p[i] # 0
  <2> SUFFICES ASSUME NEW i \in 5..(e - 1) PROVE col + (i - 5) < frame.cols /\ p[i] # 0 OBVIOUS
  <2>1. e \in Nat /\ e <= Len(p) + 1 /\ i \notin stops BY <1>1, Zenon
  <2>2. i \in 5..Len(p) BY <1>0, <2>1
  <2> QED BY <2>1, <2>2
<1> HIDE DEF stops
<1>3. e - 5 \in Nat BY <1>1
<1>4. col + (e - 5) <= frame.cols
  <2>1. CASE e = 5 BY <2>1
  <2>2. CASE e # 5
    <3>1. e - 1 \in 5..(e - 1) BY <1>1, <2>2
    <3>2. col + ((e - 1) - 5) < frame.cols BY <1>2, <3>1
    <3> QED BY <1>1, <3>2
  <2> QED BY <2>1, <2>2
<1>5. \A k \in 1..(e - 5) : 4 + k \in 1..Len(p) /\ p[4 + k] # 0
  <2> SUFFICES ASSUME NEW k \in 1..(e - 5) PROVE 4 + k \in 1..Len(p) /\ p[4 + k] # 0 OBVIOUS
  <2>1. 4 + k \in 5..(e - 1) /\ 4 + k \in 1..Len(p) BY <1>0, <1>1
  <2> QED BY <1>2, <2>1
<1> QED BY <1>1, <1>3, <1>4, <1>5

FrameNames == {"rows", "cols", "cells"}

(* The frame is one of the two sizes, with a cell for every place. *)
FrameOK(f) ==
    /\ DOMAIN f = FrameNames
    /\ f.rows \in Nat /\ f.cols \in Nat
    /\ \E s \in {Sd, Hd} : f.rows = s[1] /\ f.cols = s[2]
    /\ f.cells = [k \in 1..(f.rows * f.cols) |-> f.cells[k]]

PlacesOf(R, C) == (0..(R - 1)) \X (0..(C - 1))

LEMMA SizesTyped ==
  \A s \in {Sd, Hd} : s[1] \in Nat /\ s[2] \in Nat
  BY OsdAssumption

LEMMA NewFrameOK ==
  ASSUME NEW s \in {Sd, Hd}
  PROVE  FrameOK(NewFrame(s)) /\ GridOf(NewFrame(s)) = Canvas!Empty(s)
<1>0. s[1] \in Nat /\ s[2] \in Nat BY SizesTyped
<1>1. PICK R, C : R = s[1] /\ C = s[2] OBVIOUS
<1>2. PICK f : f = NewFrame(s) OBVIOUS
<1>3. f = [rows |-> R, cols |-> C, cells |-> Blanks(R, C)] BY <1>1, <1>2 DEF NewFrame
<1>4. DOMAIN f = FrameNames /\ f.rows = R /\ f.cols = C /\ f.cells = Blanks(R, C)
  BY <1>3 DEF FrameNames
<1>5. f.cells = [k \in 1..(f.rows * f.cols) |-> f.cells[k]] BY <1>4, Zenon DEF Blanks
<1>6. FrameOK(f) BY <1>0, <1>1, <1>4, <1>5 DEF FrameOK
<1>7. \A q \in PlacesOf(R, C) : f.cells[q[1] * C + q[2] + 1] = Blank
  <2> SUFFICES ASSUME NEW q \in PlacesOf(R, C) PROVE f.cells[q[1] * C + q[2] + 1] = Blank
    OBVIOUS
  <2>1. q[1] \in 0..(R - 1) /\ q[2] \in 0..(C - 1) BY DEF PlacesOf
  <2>2. PICK k : k = (q[1] * C + q[2]) + 1 OBVIOUS
  <2>3. k \in 1..(R * C) BY <1>0, <1>1, <2>1, <2>2, PlaceIndex
  <2> QED BY <1>4, <2>2, <2>3 DEF Blanks
<1>8. GridOf(f) = [q \in PlacesOf(R, C) |-> f.cells[q[1] * C + q[2] + 1]]
  BY <1>4, Zenon DEF GridOf, PlacesOf
<1>9. Canvas!Empty(s) = [q \in PlacesOf(R, C) |-> Blank]
  BY <1>1, Zenon DEF Canvas!Empty, Canvas!Places, Canvas!Blank, Blank, PlacesOf
<1>10. GridOf(f) = Canvas!Empty(s) BY <1>7, <1>8, <1>9, Zenon
<1> QED BY <1>2, <1>6, <1>10

GridAt(f, R, C) == [q \in PlacesOf(R, C) |-> f.cells[q[1] * C + q[2] + 1]]

LEMMA GridIs == \A f : GridOf(f) = GridAt(f, f.rows, f.cols)
  BY Zenon DEF GridOf, PlacesOf, GridAt

LEMMA ClearedFrame ==
  ASSUME NEW f, FrameOK(f), NEW n, n = [f EXCEPT !.cells = Blanks(f.rows, f.cols)]
  PROVE  FrameOK(n) /\ GridOf(n) = [q \in DOMAIN GridOf(f) |-> Blank]
<1>1. PICK R, C : R = f.rows /\ C = f.cols OBVIOUS
<1>2. R \in Nat /\ C \in Nat BY <1>1 DEF FrameOK
<1>3. PICK cells : cells = Blanks(R, C) OBVIOUS
<1>4. cells = [k \in 1..(R * C) |-> cells[k]] BY <1>3, Zenon DEF Blanks
<1>5. n = [f EXCEPT !.cells = cells] BY <1>1, <1>3
<1>6. FrameOK(n) /\ n.rows = R /\ n.cols = C /\ n.cells = cells
  <2>1. DOMAIN n = FrameNames /\ n.rows = R /\ n.cols = C /\ n.cells = cells
    BY <1>1, <1>5 DEF FrameOK, FrameNames
  <2> QED BY <1>1, <1>2, <1>4, <2>1, ZenonT(40) DEF FrameOK
<1>7. \A q \in PlacesOf(R, C) : n.cells[q[1] * C + q[2] + 1] = Blank
  <2> SUFFICES ASSUME NEW q \in PlacesOf(R, C) PROVE n.cells[q[1] * C + q[2] + 1] = Blank
    OBVIOUS
  <2>1. q[1] \in 0..(R - 1) /\ q[2] \in 0..(C - 1) BY DEF PlacesOf
  <2>2. PICK k : k = (q[1] * C + q[2]) + 1 OBVIOUS
  <2>3. k \in 1..(R * C) BY <1>2, <2>1, <2>2, PlaceIndex
  <2> QED BY <1>3, <1>6, <2>2, <2>3 DEF Blanks
<1>8. GridOf(n) = GridAt(n, R, C) BY <1>6, GridIs, Zenon
<1>9. GridOf(f) = GridAt(f, R, C) BY <1>1, GridIs, Zenon
<1>10. DOMAIN GridOf(f) = PlacesOf(R, C) BY <1>9 DEF GridAt
<1> QED BY <1>6, <1>7, <1>8, <1>10, Zenon DEF GridAt

(* A step of Canvas!Write from the grid G to the grid H. *)
RunOf(G, from, to) ==
    {q \in DOMAIN G : q[1] = from[1] /\ from[1] = to[1] /\ from[2] <= q[2] /\ q[2] <= to[2]}

WrittenOK(G, H, run, from) ==
    /\ \A q \in run : /\ H[q].attributes = H[from].attributes
                      /\ H[q].glyph \div 256 = H[q].attributes % 4
                      /\ H[q].glyph % 256 # 0
    /\ \A q \in DOMAIN G \ run : H[q] = G[q]

Written(G, H) ==
    /\ DOMAIN H = DOMAIN G
    /\ \E from, to \in DOMAIN G : WrittenOK(G, H, RunOf(G, from, to), from)

Glyph(x, attr) == [glyph |-> x + 256 * (attr % 4), attributes |-> attr]

LEMMA GlyphOK ==
  ASSUME NEW x \in Byte, x # 0, NEW attr \in Byte, NEW g, g = Glyph(x, attr)
  PROVE  g.attributes = attr /\ g.glyph \div 256 = g.attributes % 4 /\ g.glyph % 256 # 0
<1>1. g.attributes = attr /\ g.glyph = x + 256 * (attr % 4) BY DEF Glyph
<1>2. PICK a : a = attr % 4 OBVIOUS
<1>3. a \in Byte BY <1>2 DEF Byte
<1>4. (x + 256 * a) % 256 = x /\ (x + 256 * a) \div 256 = a BY <1>3, SplitWord
<1> QED BY <1>1, <1>2, <1>4

(* The cells N after n characters of p were written from cell base + 1. *)
StringAt(cells, N, last, p, base, n) ==
    N = [k \in 1..last |-> IF k \in (base + 1)..(base + n)
                           THEN Glyph(p[4 + k - base], p[4]) ELSE cells[k]]

LEMMA WrittenGrid ==
  ASSUME NEW R \in Nat, NEW C \in Nat, NEW f, f.rows = R, f.cols = C,
         NEW h, h.rows = R, h.cols = C, NEW p \in Seq(Byte), Len(p) >= 4,
         NEW row \in Nat, NEW col \in Nat, row < R, col < C, NEW n \in Nat, n > 0,
         col + n <= C, \A k \in 1..n : 4 + k \in 1..Len(p) /\ p[4 + k] # 0,
         StringAt(f.cells, h.cells, R * C, p, row * C + col, n)
  PROVE  Written(GridOf(f), GridOf(h))
<1>1. PICK G, H : G = GridOf(f) /\ H = GridOf(h) OBVIOUS
<1>2. G = GridAt(f, R, C) /\ H = GridAt(h, R, C) BY <1>1, GridIs, Zenon
<1>3. DOMAIN G = PlacesOf(R, C) /\ DOMAIN H = PlacesOf(R, C) BY <1>2 DEF GridAt
<1>4. PICK base : base = row * C + col OBVIOUS
<1>5. PICK from, to : from = <<row, col>> /\ to = <<row, (col + n) - 1>> OBVIOUS
<1>6. from \in DOMAIN G /\ to \in DOMAIN G BY <1>3, <1>5 DEF PlacesOf
<1>7. from[1] = row /\ from[2] = col /\ to[1] = row /\ to[2] = (col + n) - 1 BY <1>5
<1>8. PICK run : run = RunOf(G, from, to) OBVIOUS
<1>9. PICK attr \in Byte : attr = p[4] OBVIOUS
<1>10. ASSUME NEW q \in PlacesOf(R, C)
       PROVE  /\ q \in run => \E x \in Byte : x # 0 /\ H[q] = Glyph(x, attr)
              /\ q \notin run => H[q] = G[q]
  <2>1. q[1] \in 0..(R - 1) /\ q[2] \in 0..(C - 1) BY DEF PlacesOf
  <2>2. PICK k : k = (q[1] * C + q[2]) + 1 OBVIOUS
  <2>3. k \in 1..(R * C) BY <2>1, <2>2, PlaceIndex
  <2>4. H[q] = h.cells[k] /\ G[q] = f.cells[k] BY <1>2, <2>2, Zenon DEF GridAt
  <2>5. k \in (base + 1)..(base + n) <=> q[1] = row /\ col <= q[2] /\ q[2] < col + n
    <3>1. PICK r, c : r = q[1] /\ c = q[2] OBVIOUS
    <3>2. r \in Nat /\ c \in 0..(C - 1) /\ k = (r * C + c) + 1 BY <2>1, <2>2, <3>1
    <3>3. k \in (base + 1)..(base + n) <=> r = row /\ col <= c /\ c < col + n
      BY <1>4, <3>2, RunInRow
    <3> QED BY <3>1, <3>3
  <2>6. q \in run <=> k \in (base + 1)..(base + n)
    <3>1. q \in run <=> q[1] = row /\ col <= q[2] /\ q[2] <= (col + n) - 1
      BY <1>3, <1>7, <1>8 DEF RunOf
    <3>2. q[2] \in Int BY <2>1
    <3> QED BY <2>5, <3>1, <3>2
  <2>7. h.cells[k] = IF k \in (base + 1)..(base + n)
                     THEN Glyph(p[4 + k - base], p[4]) ELSE f.cells[k]
    BY <1>4, <2>3, Zenon DEF StringAt
  <2>8. CASE q \in run
    <3>1. k \in (base + 1)..(base + n) BY <2>6, <2>8
    <3>2. H[q] = Glyph(p[4 + k - base], attr) BY <1>9, <2>4, <2>7, <3>1
    <3>3. base \in Int /\ k \in Int BY <1>4, <2>3
    <3>4. PICK j \in 1..n : k = base + j
      <4>1. k - base \in 1..n /\ k = base + (k - base) BY <3>1, <3>3
      <4> QED BY <4>1
    <3>5. 4 + k - base = 4 + j BY <3>3, <3>4
    <3>6. 4 + j \in 1..Len(p) /\ p[4 + j] # 0 BY <3>4
    <3>7. p[4 + j] \in Byte BY <3>6
    <3> QED BY <2>8, <3>2, <3>5, <3>6, <3>7
  <2>9. CASE q \notin run BY <2>4, <2>6, <2>7, <2>9
  <2> QED BY <2>8, <2>9
<1>11. from \in run BY <1>6, <1>7, <1>8 DEF RunOf
<1>12. run \subseteq PlacesOf(R, C) BY <1>3, <1>8 DEF RunOf
<1>13. ASSUME NEW q \in run
       PROVE  /\ H[q].attributes = attr /\ H[q].glyph \div 256 = H[q].attributes % 4
              /\ H[q].glyph % 256 # 0
  <2>1. PICK x \in Byte : x # 0 /\ H[q] = Glyph(x, attr) BY <1>10, <1>12
  <2> QED BY <2>1, GlyphOK
<1>14. WrittenOK(G, H, run, from) BY <1>3, <1>10, <1>11, <1>13 DEF WrittenOK
<1>15. Written(G, H) BY <1>3, <1>6, <1>8, <1>14 DEF Written
<1> QED BY <1>1, <1>15

(* WriteString is a step of Write, or leaves the grid alone. *)
LEMMA WriteStringGrid ==
  ASSUME FrameOK(frame), NEW p \in Seq(Byte), WriteString(p)
  PROVE  /\ FrameOK(frame')
         /\ GridOf(frame') = GridOf(frame) \/ Written(GridOf(frame), GridOf(frame'))
<1>1. CASE Len(p) < 4 \/ p[2] >= frame.rows \/ p[3] >= frame.cols
  <2>1. frame' = frame BY <1>1 DEF WriteString
  <2> QED BY <2>1
<1>2. CASE ~(Len(p) < 4 \/ p[2] >= frame.rows \/ p[3] >= frame.cols)
  <2>1. PICK R, C, cells : R = frame.rows /\ C = frame.cols /\ cells = frame.cells OBVIOUS
  <2>2. R \in Nat /\ C \in Nat /\ DOMAIN frame = FrameNames
        /\ cells = [k \in 1..(R * C) |-> cells[k]]
    BY <2>1 DEF FrameOK
  <2>3. Len(p) \in Nat OBVIOUS
  <2>4. Len(p) >= 4 BY <1>2, <2>3
  <2>5. p[2] \in Byte /\ p[3] \in Byte /\ p[4] \in Byte BY <2>3, <2>4
  <2>6. PICK row, col : row = p[2] /\ col = p[3] OBVIOUS
  <2>7. row \in Nat /\ col \in Nat BY <2>5, <2>6, ByteIsNat
  <2>8. row < R /\ col < C BY <1>2, <2>1, <2>2, <2>6, <2>7
  <2>9. PICK n : n = RunLength(p, col) OBVIOUS
  <2>10. n \in Nat /\ col + n <= C /\ \A k \in 1..n : 4 + k \in 1..Len(p) /\ p[4 + k] # 0
    BY <2>1, <2>2, <2>4, <2>7, <2>8, <2>9, RunFits
  <2>11. PICK N : N = [k \in DOMAIN cells |->
                         IF k \in ((row * C + col) + 1)..((row * C + col) + n)
                         THEN Glyph(p[4 + k - (row * C + col)], p[4]) ELSE cells[k]]
    OBVIOUS
  <2>12. frame' = [frame EXCEPT !.cells = N]
    BY <1>2, <2>1, <2>6, <2>9, <2>11, Zenon DEF WriteString, Glyph
  <2>13. DOMAIN cells = 1..(R * C) BY <2>2
  <2>14. StringAt(cells, N, R * C, p, row * C + col, n) BY <2>11, <2>13, Zenon DEF StringAt
  <2>15. PICK h : h = frame' OBVIOUS
  <2>16. DOMAIN h = FrameNames /\ h.rows = R /\ h.cols = C /\ h.cells = N
    BY <2>1, <2>2, <2>12, <2>15 DEF FrameNames
  <2>17. N = [k \in 1..(R * C) |-> N[k]] BY <2>11, <2>13
  <2>18. FrameOK(h) BY <2>1, <2>2, <2>16, <2>17 DEF FrameOK
  <2>19. CASE n = 0
    <3>1. \A k : k \notin ((row * C + col) + 1)..((row * C + col) + n)
      <4>1. row * C + col \in Int BY <2>2, <2>7
      <4> QED BY <2>19, <4>1
    <3>2. N = cells BY <2>2, <2>11, <2>13, <3>1
    <3>3. GridOf(h) = GridAt(h, R, C) /\ GridOf(frame) = GridAt(frame, R, C)
      BY <2>1, <2>16, GridIs, Zenon
    <3>4. GridOf(h) = GridOf(frame) BY <2>1, <2>16, <3>2, <3>3, Zenon DEF GridAt
    <3> QED BY <2>15, <2>18, <3>4
  <2>20. CASE n # 0
    <3>1. n > 0 BY <2>10, <2>20
    <3>2. StringAt(frame.cells, h.cells, R * C, p, row * C + col, n) BY <2>1, <2>14, <2>16
    <3>3. frame.rows = R /\ frame.cols = C /\ h.rows = R /\ h.cols = C BY <2>1, <2>16
    <3>4. Written(GridOf(frame), GridOf(h))
      BY <2>2, <2>4, <2>7, <2>8, <2>10, <3>1, <3>2, <3>3, WrittenGrid, SMTT(30)
    <3> QED BY <2>15, <2>18, <3>4
  <2> QED BY <2>19, <2>20
<1> QED BY <1>1, <1>2

ScreenOf(s) == IF s = <<>> THEN <<>> ELSE GridOf(s[1])

LEMMA ShowsFrame == \A f : ScreenOf(<<f>>) = GridOf(f)
<1> TAKE f
<1>1. <<f>> # <<>> /\ <<f>>[1] = f OBVIOUS
<1> QED BY <1>1 DEF ScreenOf

LEMMA CanvasStutters ==
  ASSUME GridOf(frame') = GridOf(frame), ScreenOf(shown') = ScreenOf(shown)
  PROVE  [Canvas!Next]_Canvas!vars
  BY Zenon DEF Canvas!vars, ScreenOf

(* Every command of HandleDisplayPort is a step of the canvas. *)
LEMMA CommandIsCanvasStep ==
  ASSUME FrameOK(frame), NEW p \in Seq(Byte), HandleDisplayPort(p)
  PROVE  FrameOK(frame') /\ [Canvas!Next]_Canvas!vars
<1>0. PICK cmd : cmd = IF Len(p) < 1 THEN -1 ELSE p[1] OBVIOUS
<1>1. \/ cmd = 1 /\ Clear /\ shown' = <<frame'>>
      \/ cmd = 2 /\ Clear /\ UNCHANGED shown
      \/ cmd = 3 /\ WriteString(p) /\ UNCHANGED shown
      \/ cmd = 4 /\ shown' = <<frame>> /\ UNCHANGED frame
      \/ cmd = 5 /\ Options(p) /\ UNCHANGED shown
      \/ UNCHANGED <<frame, shown>>
  BY <1>0 DEF HandleDisplayPort
<1>2. Clear => FrameOK(frame') /\ GridOf(frame') = [q \in DOMAIN GridOf(frame) |-> Blank]
  BY ClearedFrame DEF Clear
<1>3. CASE Clear /\ shown' = <<frame'>>
  <2>1. ScreenOf(shown') = GridOf(frame') BY <1>3, ShowsFrame
  <2>2. Canvas!Release
    BY <1>2, <1>3, <2>1, Zenon DEF Canvas!Release, Canvas!Blank, Blank, ScreenOf
  <2> QED BY <1>2, <1>3, <2>2, Zenon DEF Canvas!Next
<1>4. CASE Clear /\ UNCHANGED shown
  <2>1. Canvas!Clear BY <1>2, <1>4, Zenon DEF Canvas!Clear, Canvas!Blank, Blank
  <2> QED BY <1>2, <1>4, <2>1, Zenon DEF Canvas!Next
<1>5. CASE WriteString(p) /\ UNCHANGED shown
  <2>1. FrameOK(frame') BY <1>5, WriteStringGrid
  <2>2. CASE GridOf(frame') = GridOf(frame) BY <1>5, <2>1, <2>2, CanvasStutters
  <2>3. CASE Written(GridOf(frame), GridOf(frame'))
    <3>1. Canvas!Write BY <1>5, <2>3, Zenon DEF Canvas!Write, Written, WrittenOK, RunOf
    <3> QED BY <2>1, <3>1, Zenon DEF Canvas!Next
  <2> QED BY <1>5, <2>2, <2>3, WriteStringGrid
<1>6. CASE shown' = <<frame>> /\ UNCHANGED frame
  <2>1. ScreenOf(shown') = GridOf(frame) BY <1>6, ShowsFrame
  <2>2. Canvas!Draw BY <1>6, <2>1, Zenon DEF Canvas!Draw, ScreenOf
  <2>3. FrameOK(frame') BY <1>6
  <2> QED BY <2>2, <2>3, Zenon DEF Canvas!Next
<1>7. CASE Options(p) /\ UNCHANGED shown
  <2>1. frame' = frame \/ \E s \in {Sd, Hd} : frame' = NewFrame(s)
    BY <1>7 DEF Options, SetCanvas
  <2>2. CASE frame' = frame BY <1>7, <2>2, CanvasStutters
  <2>3. CASE \E s \in {Sd, Hd} : frame' = NewFrame(s)
    <3>1. PICK s \in {Sd, Hd} : frame' = NewFrame(s) BY <2>3
    <3>2. FrameOK(frame') /\ GridOf(frame') = Canvas!Empty(s) BY <3>1, NewFrameOK, Zenon
    <3>3. Canvas!Resize BY <1>7, <3>2, Zenon DEF Canvas!Resize
    <3> QED BY <3>2, <3>3, Zenon DEF Canvas!Next
  <2> QED BY <2>1, <2>2, <2>3
<1>8. CASE UNCHANGED <<frame, shown>> BY <1>8, CanvasStutters
<1> QED BY <1>1, <1>3, <1>4, <1>5, <1>6, <1>7, <1>8

CanvasInv == ParserInv /\ FrameOK(frame)

LEMMA PayloadTyped == ParserInv => msp.payload \in Seq(Byte)
<1> SUFFICES ASSUME ParserInv PROVE msp.payload \in Seq(Byte) OBVIOUS
<1>1. PICK st, v, f, z, u, p : At(msp, st, v, f, z, u, p) /\ Typed(st, v, f, z, u, p)
  BY Zenon DEF ParserInv, StateOK
<1> QED BY <1>1 DEF At, Typed

LEMMA NextIsCanvasStep ==
  ASSUME ParserInv, FrameOK(frame), [Next]_vars
  PROVE  FrameOK(frame') /\ [Canvas!Next]_Canvas!vars
<1>1. CASE UNCHANGED <<frame, shown>> BY <1>1, CanvasStutters
<1>2. CASE HandleDisplayPort(msp.payload) BY <1>2, PayloadTyped, CommandIsCanvasStep
<1>3. UNCHANGED <<frame, shown>> \/ HandleDisplayPort(msp.payload)
  BY DEF Next, Push, HandleByte, DispatchMessage, vars
<1> QED BY <1>1, <1>2, <1>3

(* The flat array of cells that the DisplayPort commands write implements the
   grid of OsdCanvas, for every size of the canvas and whatever arrives: a
   string stays in its row, and the screen is given whole frames
   (HandleDisplayPort, OsdFrame::at). *)
THEOREM CanvasIsImplemented == Spec => CanvasImplemented
<1>1. Init => CanvasInv /\ Canvas!Init
  <2> SUFFICES ASSUME Init PROVE CanvasInv /\ Canvas!Init OBVIOUS
  <2>1. FrameOK(frame) /\ GridOf(frame) = Canvas!Empty(Hd) /\ shown = <<>>
    <3>1. frame = NewFrame(Hd) /\ shown = <<>> BY DEF Init
    <3> QED BY <3>1, NewFrameOK
  <2>2. Canvas!Init BY <2>1, Zenon DEF Canvas!Init
  <2> QED BY <2>1, <2>2, ParserInit DEF CanvasInv
<1>2. CanvasInv /\ [Next]_vars => CanvasInv' /\ [Canvas!Next]_Canvas!vars
  <2> SUFFICES ASSUME CanvasInv, [Next]_vars PROVE CanvasInv' /\ [Canvas!Next]_Canvas!vars
    OBVIOUS
  <2>1. ParserInv' BY ParserPush, ParserByte, ParserStutter DEF CanvasInv, Next
  <2>2. FrameOK(frame') /\ [Canvas!Next]_Canvas!vars BY NextIsCanvasStep DEF CanvasInv
  <2> QED BY <2>1, <2>2 DEF CanvasInv
<1> QED BY <1>1, <1>2, PTL DEF Spec, CanvasImplemented, Canvas!Spec
-----------------------------------------------------------------------------
(* Resynchronisation.  A parser in a message needs at most this many bytes to
   come to its end. *)
Need(st, z, l) ==
    IF st \in ChecksumStates THEN 1
    ELSE IF st \in PayloadStates THEN (z - l) + 1
    ELSE IF st = "V1Size" THEN 258
    ELSE IF st = "V1Command" THEN z + 2
    ELSE IF st = "V2Flags" THEN MaxSize + 6
    ELSE IF st = "V2FunctionLo" THEN MaxSize + 5
    ELSE IF st = "V2FunctionHi" THEN MaxSize + 4
    ELSE IF st = "V2SizeLo" THEN MaxSize + 3
    ELSE MaxSize + 2

NeedOf(m) == Need(m.st, m.size, Len(m.payload))

LEMMA NeedStates ==
  /\ \A z, l : Need("V1Size", z, l) = 258 /\ Need("V1Command", z, l) = z + 2
  /\ \A z, l : Need("V2Flags", z, l) = MaxSize + 6 /\ Need("V2FunctionLo", z, l) = MaxSize + 5
  /\ \A z, l : Need("V2FunctionHi", z, l) = MaxSize + 4 /\ Need("V2SizeLo", z, l) = MaxSize + 3
  /\ \A z, l : Need("V2SizeHi", z, l) = MaxSize + 2
  /\ \A z, l : Need("V1Payload", z, l) = (z - l) + 1 /\ Need("V2Payload", z, l) = (z - l) + 1
  /\ \A z, l : Need("V1Checksum", z, l) = 1 /\ Need("V2Checksum", z, l) = 1
  BY DEF Need, ChecksumStates, PayloadStates

LEMMA NeedAt ==
  ASSUME NEW m, NEW st, NEW v, NEW f, NEW z, NEW u, NEW p, At(m, st, v, f, z, u, p)
  PROVE  m.st = st /\ NeedOf(m) = Need(st, z, Len(p))
  BY DEF At, NeedOf

(* A byte less is needed after every byte, or the parser is idle. *)
Falls(n, need) == n.st = "Idle" \/ (n.st \notin HeaderStates /\ NeedOf(n) <= need - 1)

LEMMA NeedFalls ==
  ASSUME NEW m, NEW st, NEW v, NEW f, NEW z, NEW u, NEW p, NEW g, NEW body, NEW b \in Byte,
         At(m, st, v, f, z, u, p), Typed(st, v, f, z, u, p), BodyAt(st, v, f, z, p, g, body)
  PROVE  NeedOf(m) \in Nat /\ NeedOf(m) >= 1 /\ Falls(ParserStep(m, b), NeedOf(m))
<1>0. /\ v \in BOOLEAN /\ z \in Nat /\ p \in Seq(Byte) /\ MaxSize \in Nat /\ Len(p) \in Nat
      /\ b \in Nat /\ b <= 255
  <2>1. v \in BOOLEAN /\ z \in Nat /\ p \in Seq(Byte) BY DEF Typed
  <2>2. b \in Nat /\ b <= 255 BY DEF Byte
  <2>3. MaxSize \in Nat BY OsdAssumption
  <2>4. Len(p) \in Nat BY <2>1
  <2> QED BY <2>1, <2>2, <2>3, <2>4
<1>1. NeedOf(m) = Need(st, z, Len(p)) BY NeedAt
<1>2. PICK n : n = ParserStep(m, b) OBVIOUS
<1>3. CASE st = "V1Size"
  <2>1. At(n, "V1Command", v, f, b, b, p) BY <1>2, <1>3, V1SizeStep, Zenon
  <2>11. n.st = "V1Command" /\ NeedOf(n) = Need("V1Command", b, Len(p)) BY <2>1, NeedAt, Zenon
  <2>2. n.st = "V1Command" /\ NeedOf(n) = b + 2 BY <2>11, NeedStates
  <2>3. NeedOf(m) = 258 BY <1>1, <1>3, NeedStates
  <2> QED BY <1>0, <1>2, <2>2, <2>3 DEF Falls, HeaderStates
<1>4. CASE st = "V1Command"
  <2>1. PICK w, y : w = (IF z > 0 THEN "V1Payload" ELSE "V1Checksum") /\ y = XorByte(u, b) OBVIOUS
  <2>2. At(n, w, v, b, z, y, p) BY <1>2, <1>4, <2>1, V1CommandStep
  <2>3. n.st = w /\ NeedOf(n) = Need(w, z, Len(p)) BY <2>2, NeedAt, Zenon
  <2>4. Need(w, z, Len(p)) <= z + 1 BY <1>0, <2>1, NeedStates
  <2>5. NeedOf(m) = z + 2 BY <1>1, <1>4, NeedStates
  <2> QED BY <1>0, <1>2, <2>1, <2>3, <2>4, <2>5 DEF Falls, HeaderStates
<1>5. CASE st \in PayloadStates
  <2>1. PICK w, y, q : /\ w = IF ~(Len(p) + 1 >= z) THEN st
                              ELSE IF v THEN "V2Checksum" ELSE "V1Checksum"
                       /\ y = Folded(v, u, b) /\ q = Append(p, b)
    OBVIOUS
  <2>2. At(n, w, v, f, z, y, q) BY <1>2, <1>5, <2>1, PayloadStepAt
  <2>3. n.st = w /\ NeedOf(n) = Need(w, z, Len(q)) BY <2>2, NeedAt, Zenon
  <2>4. Len(q) = Len(p) + 1 BY <1>0, <2>1
  <2>5. Len(p) < z BY <1>0, <1>5 DEF BodyAt, V1BodyAt, V2BodyAt, PayloadStates
  <2>6. NeedOf(m) = (z - Len(p)) + 1 BY <1>1, <1>5, NeedStates DEF PayloadStates
  <2>7. CASE Len(p) + 1 >= z
    <3>1. w \in {"V1Checksum", "V2Checksum"} BY <2>1, <2>7
    <3>2. Need(w, z, Len(q)) = 1 BY <3>1, NeedStates
    <3> QED BY <1>0, <1>2, <2>3, <2>5, <2>6, <3>1, <3>2 DEF Falls, HeaderStates
  <2>8. CASE ~(Len(p) + 1 >= z)
    <3>1. w = st BY <2>1, <2>8
    <3>2. Need(w, z, Len(q)) = (z - Len(q)) + 1 BY <1>5, <3>1, NeedStates DEF PayloadStates
    <3> QED BY <1>0, <1>2, <1>5, <2>3, <2>4, <2>5, <2>6, <3>1, <3>2
        DEF Falls, HeaderStates, PayloadStates
  <2> QED BY <2>7, <2>8
<1>6. CASE st \in ChecksumStates
  <2>1. At(n, "Idle", v, f, z, u, p) BY <1>2, <1>6, ChecksumStep
  <2>2. n.st = "Idle" BY <2>1, NeedAt, Zenon
  <2>3. NeedOf(m) = 1 BY <1>1, <1>6, NeedStates DEF ChecksumStates
  <2> QED BY <1>2, <2>2, <2>3 DEF Falls
<1>7. CASE st = "V2Flags"
  <2>1. At(n, "V2FunctionLo", v, f, z, Crc8DvbS2(0, b), p) BY <1>2, <1>7, V2FlagsStep, Zenon
  <2>11. n.st = "V2FunctionLo" /\ NeedOf(n) = Need("V2FunctionLo", z, Len(p))
    BY <2>1, NeedAt, Zenon
  <2>2. n.st = "V2FunctionLo" /\ NeedOf(n) = MaxSize + 5 BY <2>11, NeedStates
  <2>3. NeedOf(m) = MaxSize + 6 BY <1>1, <1>7, NeedStates
  <2> QED BY <1>0, <1>2, <2>2, <2>3 DEF Falls, HeaderStates
<1>8. CASE st = "V2FunctionLo"
  <2>1. At(n, "V2FunctionHi", v, b, z, Crc8DvbS2(u, b), p)
    BY <1>2, <1>8, V2FunctionLoStep, Zenon
  <2>11. n.st = "V2FunctionHi" /\ NeedOf(n) = Need("V2FunctionHi", z, Len(p))
    BY <2>1, NeedAt, Zenon
  <2>2. n.st = "V2FunctionHi" /\ NeedOf(n) = MaxSize + 4 BY <2>11, NeedStates
  <2>3. NeedOf(m) = MaxSize + 5 BY <1>1, <1>8, NeedStates
  <2> QED BY <1>0, <1>2, <2>2, <2>3 DEF Falls, HeaderStates
<1>9. CASE st = "V2FunctionHi"
  <2>1. At(n, "V2SizeLo", v, Word(f, b), z, Crc8DvbS2(u, b), p)
    BY <1>2, <1>9, V2FunctionHiStep, Zenon
  <2>11. n.st = "V2SizeLo" /\ NeedOf(n) = Need("V2SizeLo", z, Len(p)) BY <2>1, NeedAt, Zenon
  <2>2. n.st = "V2SizeLo" /\ NeedOf(n) = MaxSize + 3 BY <2>11, NeedStates
  <2>3. NeedOf(m) = MaxSize + 4 BY <1>1, <1>9, NeedStates
  <2> QED BY <1>0, <1>2, <2>2, <2>3 DEF Falls, HeaderStates
<1>10. CASE st = "V2SizeLo"
  <2>1. At(n, "V2SizeHi", v, f, b, Crc8DvbS2(u, b), p) BY <1>2, <1>10, V2SizeLoStep, Zenon
  <2>11. n.st = "V2SizeHi" /\ NeedOf(n) = Need("V2SizeHi", b, Len(p)) BY <2>1, NeedAt, Zenon
  <2>2. n.st = "V2SizeHi" /\ NeedOf(n) = MaxSize + 2 BY <2>11, NeedStates
  <2>3. NeedOf(m) = MaxSize + 3 BY <1>1, <1>10, NeedStates
  <2> QED BY <1>0, <1>2, <2>2, <2>3 DEF Falls, HeaderStates
<1>11. CASE st = "V2SizeHi"
  <2>1. PICK x : x = Word(z, b) OBVIOUS
  <2>2. x \in Nat BY <1>0, <2>1 DEF Word
  <2>3. At(n, AfterSize(x), v, f, x, Crc8DvbS2(u, b), p)
    BY <1>2, <1>11, <2>1, V2SizeHiStep, Zenon
  <2>4. n.st = AfterSize(x) /\ NeedOf(n) = Need(AfterSize(x), x, Len(p)) BY <2>3, NeedAt, Zenon
  <2>5. NeedOf(m) = MaxSize + 2 BY <1>1, <1>11, NeedStates
  <2>6. CASE x > MaxSize
    <3>1. n.st = "Idle" BY <2>4, <2>6 DEF AfterSize
    <3> QED BY <1>0, <1>2, <2>5, <3>1 DEF Falls
  <2>7. CASE ~(x > MaxSize)
    <3>1. AfterSize(x) \in {"V2Payload", "V2Checksum"} BY <2>7 DEF AfterSize
    <3>2. Need(AfterSize(x), x, Len(p)) <= x + 1 BY <1>0, <2>2, <3>1, NeedStates
    <3>3. n.st \notin HeaderStates BY <2>4, <3>1 DEF HeaderStates
    <3>4. NeedOf(n) <= x + 1 BY <2>4, <3>2
    <3>5. NeedOf(n) \in Int BY <1>0, <2>2, <2>4, <3>1, NeedStates
    <3>6. NeedOf(n) <= NeedOf(m) - 1 BY <1>0, <2>2, <2>5, <2>7, <3>4, <3>5
    <3> QED BY <1>0, <1>2, <2>5, <3>3, <3>6 DEF Falls
  <2> QED BY <2>6, <2>7
<1> QED
  <2>1. \/ st \in {"V1Size", "V1Command", "V1Payload", "V1Checksum"}
        \/ st \in {"V2Flags", "V2FunctionLo", "V2FunctionHi", "V2SizeLo", "V2SizeHi"}
        \/ st \in {"V2Payload", "V2Checksum"}
    BY <1>0 DEF BodyAt, V1BodyAt, V2BodyAt
  <2> QED BY <1>3, <1>4, <1>5, <1>6, <1>7, <1>8, <1>9, <1>10, <1>11, <2>1
      DEF PayloadStates, ChecksumStates

(* The body announces its own length. *)
Sized(v, body) ==
    IF v THEN Len(body) >= 5 /\ body[4] + 256 * body[5] = Len(body) - 5 /\ Len(body) - 5 <= MaxSize
    ELSE Len(body) >= 2 /\ body[1] = Len(body) - 2

CleanIs(v, a, body) ==
    /\ v \in BOOLEAN /\ a \in Arrows /\ body \in Seq(Byte)
    /\ Clean = (<<Dollar, Letter(v), a>> \o body) \o <<SumOf(v, body)>>
    /\ Sized(v, body)

LEMMA ShortLength == \A n \in Nat : n >= 6 /\ n <= 261 => n - 6 \in Byte
  BY DEF Byte

LEMMA CleanShape == \E v, a, body : CleanIs(v, a, body)
<1>0. Clean \in Seq(Byte) /\ Len(Clean) \in Nat /\ Clean[3] \in Arrows
  <2>1. Clean \in Seq(Byte) BY OsdAssumption
  <2>2. Clean[3] \in Arrows BY CleanAssumption, Zenon
  <2> QED BY <2>1, <2>2
<1>1. CASE CleanV1
  <2>0. /\ Len(Clean) >= 6 /\ Len(Clean) <= 261
        /\ Clean = EncodedV1(Clean[3], Clean[5], SubSeq(Clean, 6, Len(Clean) - 1))
    BY <1>1 DEF CleanV1
  <2>1. PICK p : p = SubSeq(Clean, 6, Len(Clean) - 1) OBVIOUS
  <2>2. p \in Seq(Byte) /\ Len(p) = Len(Clean) - 6
    <3>1. Clean \in Seq(Byte) /\ \A i \in 6..(Len(Clean) - 1) : i \in 1..Len(Clean) BY <1>0
    <3>2. PICK n \in Nat : n = Len(Clean) /\ n >= 6 BY <1>0, <2>0
    <3>3. p \in Seq(Byte) BY <1>0, <2>1, <3>2, SubSeqProperties
    <3>4. Len(p) = IF 6 <= n - 1 THEN ((n - 1) - 6) + 1 ELSE 0
      BY <1>0, <2>1, <3>2, SubSeqProperties
    <3> QED BY <3>2, <3>3, <3>4
  <2>3. PICK x : x = Len(p) OBVIOUS
  <2>4. x \in Byte
    <3>1. PICK n \in Nat : n = Len(Clean) /\ n >= 6 /\ n <= 261 BY <1>0, <2>0
    <3>2. x = n - 6 BY <2>2, <2>3, <3>1
    <3> QED BY <3>1, <3>2, ShortLength
  <2>5. PICK f \in Byte : f = Clean[5] BY <1>0, <2>0
  <2>6. PICK h : h = <<x, f>> OBVIOUS
  <2>7. h \in Seq(Byte) /\ Len(h) = 2 /\ h[1] = x BY <2>4, <2>6
  <2>8. PICK body : body = h \o p OBVIOUS
  <2>9. h \in Seq(Byte) /\ p \in Seq(Byte) BY <2>2, <2>7
  <2>10. body \in Seq(Byte) /\ Len(body) = Len(h) + Len(p) /\ \A i \in 1..Len(h) : body[i] = h[i]
    BY <2>8, <2>9
  <2>11. 1 \in 1..Len(h) BY <2>7
  <2>12. Sized(FALSE, body)
    <3>1. x \in Nat /\ Len(body) = 2 + x BY <2>3, <2>4, <2>7, <2>10 DEF Byte
    <3>2. PICK m : m = Len(body) OBVIOUS
    <3>3. m >= 2 /\ x = m - 2 BY <3>1, <3>2
    <3>4. body[1] = x BY <2>7, <2>10, <2>11, Zenon
    <3> QED BY <3>2, <3>3, <3>4, Zenon DEF Sized
  <2>13. Clean = EncodedV1(Clean[3], f, p) BY <2>0, <2>1, <2>5
  <2>14. body = <<Len(p), f>> \o p BY <2>3, <2>6, <2>8
  <2>15. Clean = (<<Dollar, LetterM, Clean[3]>> \o body) \o <<Checksum(XorByte, body, 0)>>
    BY <2>13, <2>14, Zenon DEF EncodedV1
  <2>16. Letter(FALSE) = LetterM /\ SumOf(FALSE, body) = Checksum(XorByte, body, 0)
    BY DEF Letter, SumOf, XorSum
  <2>17. CleanIs(FALSE, Clean[3], body) BY <1>0, <2>10, <2>12, <2>15, <2>16 DEF CleanIs
  <2> QED BY <2>17
<1>2. CASE CleanV2
  <2>0. /\ Len(Clean) >= 9 /\ Len(Clean) < 256 * 256 + 9 /\ Len(Clean) <= MaxSize + 9
        /\ Clean = EncodedV2(Clean[3], Clean[4], Clean[5] + 256 * Clean[6],
                            SubSeq(Clean, 9, Len(Clean) - 1))
    BY <1>2 DEF CleanV2
  <2>1. PICK p : p = SubSeq(Clean, 9, Len(Clean) - 1) OBVIOUS
  <2>2. p \in Seq(Byte) /\ Len(p) = Len(Clean) - 9
    <3>1. Clean \in Seq(Byte) /\ \A i \in 9..(Len(Clean) - 1) : i \in 1..Len(Clean) BY <1>0
    <3>2. PICK n \in Nat : n = Len(Clean) /\ n >= 9 BY <1>0, <2>0
    <3>3. p \in Seq(Byte) BY <1>0, <2>1, <3>2, SubSeqProperties
    <3>4. Len(p) = IF 9 <= n - 1 THEN ((n - 1) - 9) + 1 ELSE 0
      BY <1>0, <2>1, <3>2, SubSeqProperties
    <3> QED BY <3>2, <3>3, <3>4
  <2>3. PICK x, y : x = Len(p) % 256 /\ y = Len(p) \div 256 OBVIOUS
  <2>4. Len(p) \in Nat /\ Len(p) < 256 * 256 BY <1>0, <2>0, <2>2
  <2>5. x \in Byte /\ y \in Byte /\ x + 256 * y = Len(p)
    <3>1. PICK n \in Nat : n = Len(p) BY <2>4
    <3>2. n < 256 * 256 /\ x = n % 256 /\ y = n \div 256 BY <2>3, <2>4, <3>1
    <3>3. x \in Byte BY <3>2 DEF Byte
    <3>4. y \in Byte BY <3>2 DEF Byte
    <3>5. x + 256 * y = n BY <3>2
    <3> QED BY <3>1, <3>3, <3>4, <3>5
  <2>6. PICK g \in Byte, lo \in Byte, hi \in Byte :
          g = Clean[4] /\ lo = Clean[5] /\ hi = Clean[6]
    <3>1. 4 \in 1..Len(Clean) /\ 5 \in 1..Len(Clean) /\ 6 \in 1..Len(Clean) BY <1>0, <2>0
    <3> QED BY <1>0, <3>1
  <2>7. PICK f : f = lo + 256 * hi OBVIOUS
  <2>8. f % 256 = lo /\ f \div 256 = hi BY <2>7, SplitWord
  <2>9. PICK h : h = <<g, lo, hi, x, y>> OBVIOUS
  <2>10. h \in Seq(Byte) /\ Len(h) = 5 /\ h[4] = x /\ h[5] = y BY <2>5, <2>9
  <2>11. PICK body : body = h \o p OBVIOUS
  <2>12. h \in Seq(Byte) /\ p \in Seq(Byte) BY <2>2, <2>10
  <2>13. /\ body \in Seq(Byte) /\ Len(body) = Len(h) + Len(p)
         /\ \A i \in 1..Len(h) : body[i] = h[i]
    BY <2>11, <2>12
  <2>14. 4 \in 1..Len(h) /\ 5 \in 1..Len(h) BY <2>10
  <2>15. body[4] = x /\ body[5] = y BY <2>10, <2>13, <2>14
  <2>16. Len(body) = 5 + Len(p) /\ Len(p) \in Nat /\ Len(p) <= MaxSize
    <3>1. Len(Clean) <= MaxSize + 9 /\ MaxSize \in Nat BY <2>0, OsdAssumption
    <3>2. Len(body) = 5 + Len(p) BY <2>10, <2>13
    <3> QED BY <1>0, <2>2, <2>4, <3>1, <3>2
  <2>17. Sized(TRUE, body) BY <2>5, <2>15, <2>16 DEF Sized
  <2>18. Clean = EncodedV2(Clean[3], g, f, p) BY <2>0, <2>1, <2>6, <2>7
  <2>19. body = <<g, f % 256, f \div 256, Len(p) % 256, Len(p) \div 256>> \o p
    BY <2>3, <2>8, <2>9, <2>11
  <2>20. Clean = (<<Dollar, LetterX, Clean[3]>> \o body) \o <<Checksum(Crc8DvbS2, body, 0)>>
    BY <2>18, <2>19, Zenon DEF EncodedV2
  <2>21. Letter(TRUE) = LetterX /\ SumOf(TRUE, body) = Checksum(Crc8DvbS2, body, 0)
    BY DEF Letter, SumOf, CrcSum
  <2>22. CleanIs(TRUE, Clean[3], body) BY <1>0, <2>13, <2>17, <2>20, <2>21 DEF CleanIs
  <2> QED BY <2>22
<1> QED BY <1>1, <1>2, CleanAssumption, Zenon

(* The bytes of Clean. *)
CleanBytes(v, a, cb) ==
    /\ v \in BOOLEAN /\ a \in Arrows /\ cb \in Seq(Byte) /\ Sized(v, cb)
    /\ Len(cb) \in Nat /\ Len(Clean) = Len(cb) + 4
    /\ Clean[1] = Dollar /\ Clean[2] = Letter(v) /\ Clean[3] = a
    /\ Clean[Len(cb) + 4] = SumOf(v, cb)
    /\ \A i \in 1..Len(cb) : Clean[3 + i] = cb[i]

LEMMA CleanParts ==
  ASSUME NEW v, NEW a, NEW cb, CleanIs(v, a, cb)
  PROVE  CleanBytes(v, a, cb)
<1>1. /\ v \in BOOLEAN /\ a \in Arrows /\ cb \in Seq(Byte) /\ Sized(v, cb)
      /\ Clean = (<<Dollar, Letter(v), a>> \o cb) \o <<SumOf(v, cb)>>
  BY DEF CleanIs
<1>2. Byte \subseteq Nat BY DEF Byte
<1>3. cb \in Seq(Nat) BY <1>1, <1>2, SeqMonotonic
<1>4. PICK c, d, e : c = Dollar /\ d = Letter(v) /\ e = SumOf(v, cb) OBVIOUS
<1>5. e \in Byte BY <1>1, <1>4, SumGrows
<1>6. c \in Nat /\ d \in Nat /\ e \in Nat BY <1>2, <1>4, <1>5, HeaderBytes
<1>7. a \in Nat BY <1>1 DEF Arrows
<1>8. Clean = (<<c, d, a>> \o cb) \o <<e>> BY <1>1, <1>4
<1>9. /\ Len(Clean) = Len(cb) + 4 /\ Len(cb) \in Nat
      /\ Clean[1] = c /\ Clean[2] = d /\ Clean[3] = a /\ Clean[Len(cb) + 4] = e
      /\ \A i \in 1..Len(cb) : Clean[3 + i] = cb[i]
  BY <1>3, <1>6, <1>7, <1>8, FramedAt, SMTT(30)
<1> QED BY <1>1, <1>4, <1>9 DEF CleanBytes

LEMMA CleanFacts ==
  /\ Clean \in Seq(Byte) /\ Len(Clean) \in Nat /\ Len(Clean) >= 6 /\ Clean[1] = Dollar
  /\ \A i \in 2..Len(Clean) : Clean[i] # Dollar
<1>1. PICK v, a, cb : CleanIs(v, a, cb) BY CleanShape, Zenon
<1>2. Clean[1] = Dollar /\ Len(Clean) = Len(cb) + 4 /\ Len(cb) \in Nat /\ Sized(v, cb)
  BY <1>1, CleanParts, Zenon DEF CleanBytes
<1>3. Len(cb) >= 2 BY <1>2 DEF Sized
<1>4. Clean \in Seq(Byte) BY OsdAssumption
<1>5. \A i \in 2..Len(Clean) : Clean[i] # Dollar BY CleanAssumption, Zenon
<1> QED BY <1>2, <1>3, <1>4, <1>5

(* Two parts of a sequence, byte by byte. *)
LEMMA PartsAt ==
  ASSUME NEW s \in Seq(Byte), NEW r \in Seq(Byte), NEW t, s \o r = t
  PROVE  /\ Len(t) = Len(s) + Len(r) /\ Len(s) \in Nat /\ Len(r) \in Nat
         /\ \A i \in 1..Len(s) : t[i] = s[i]
         /\ \A i \in 1..Len(r) : t[Len(s) + i] = r[i]
<1>1. PICK y : y = s \o r OBVIOUS
<1>2. Byte \subseteq Nat BY DEF Byte
<1>3. s \in Seq(Nat) /\ r \in Seq(Nat) BY <1>2, SeqMonotonic
<1>4. /\ Len(y) = Len(s) + Len(r) /\ Len(s) \in Nat /\ Len(r) \in Nat
      /\ \A i \in 1..Len(s) : y[i] = s[i]
      /\ \A i \in 1..Len(r) : y[Len(s) + i] = r[i]
  BY <1>1, <1>3, ConcatAt
<1> QED BY <1>1, <1>4

(* Moving a byte from the one to the other. *)
LEMMA PartsMove ==
  ASSUME NEW s \in Seq(Byte), NEW r \in Seq(Byte), r # <<>>
  PROVE  Append(s, Head(r)) \o Tail(r) = s \o r
<1>1. Head(r) \in Byte /\ Tail(r) \in Seq(Byte) /\ r = <<Head(r)>> \o Tail(r) OBVIOUS
<1>2. PICK b, q : b = Head(r) /\ q = Tail(r) OBVIOUS
<1>3. b \in Byte /\ q \in Seq(Byte) /\ r = <<b>> \o q /\ <<b>> \in Seq(Byte) BY <1>1, <1>2
<1>4. Append(s, b) = s \o <<b>> BY <1>3, AppendIsConcat
<1>5. (s \o <<b>>) \o q = s \o (<<b>> \o q) BY <1>3, ConcatAssociative
<1> QED BY <1>2, <1>3, <1>4, <1>5

(* The parser has read s, the start of Clean, and r is left of it. *)
LEMMA SyncedHeader ==
  ASSUME NEW m, NEW s \in Seq(Byte), NEW r \in Seq(Byte), s \o r = Clean, r # <<>>,
         NEW st, NEW v, NEW f, NEW z, NEW u, NEW p, NEW g \in Byte,
         At(m, st, v, f, z, u, p), Typed(st, v, f, z, u, p), Since(st, v, f, z, u, p, g, s),
         st \in {"HeaderM", "HeaderArrow"}, NEW b, b = Head(r)
  PROVE  ParserStep(m, b).st # "Idle" /\ Len(r) >= 2 /\ SeenAfter(m, s, b) = Append(s, b)
<1>0. PICK w, a, cb : CleanIs(w, a, cb) BY CleanShape, Zenon
<1>1. /\ Len(Clean) = Len(s) + Len(r) /\ Len(s) \in Nat /\ Len(r) \in Nat
      /\ \A i \in 1..Len(s) : Clean[i] = s[i]
      /\ \A i \in 1..Len(r) : Clean[Len(s) + i] = r[i]
  BY PartsAt
<1>2. Len(r) >= 1 /\ b = r[1] /\ b = Clean[Len(s) + 1]
  <2>1. Len(r) >= 1 /\ b = r[1] BY <1>1
  <2>2. 1 \in 1..Len(r) BY <1>1, <2>1
  <2> QED BY <1>1, <2>1, <2>2
<1>3. Clean[2] = Letter(w) /\ w \in BOOLEAN /\ Clean[3] \in Arrows
  <2>1. CleanBytes(w, a, cb) BY <1>0, CleanParts, Zenon
  <2> QED BY <2>1 DEF CleanBytes
<1>4. m.st = st BY DEF At
<1>5. CASE st = "HeaderM"
  <2>1. s = <<Dollar>> BY <1>5 DEF Since
  <2>2. Len(s) = 1 BY <2>1
  <2>3. b = Clean[2] BY <1>2, <2>2
  <2>4. b \in {LetterM, LetterX} /\ b # Dollar
    BY <1>3, <2>3 DEF Letter, LetterM, LetterX, Dollar
  <2>5. At(ParserStep(m, b), "HeaderArrow", b = LetterX, f, z, u, p)
    BY <1>5, <2>4, LetterStep, Zenon
  <2>6. ParserStep(m, b).st # "Idle" BY <2>5 DEF At
  <2>7. SeenAfter(m, s, b) = Append(s, b) BY <1>4, <1>5, <2>4 DEF SeenAfter
  <2>8. Len(r) >= 2 BY <1>1, <2>2, CleanFacts
  <2> QED BY <2>6, <2>7, <2>8
<1>6. CASE st = "HeaderArrow"
  <2>1. s = <<Dollar, Letter(v)>> BY <1>6 DEF Since
  <2>2. Len(s) = 2 BY <2>1
  <2>3. b \in Arrows BY <1>2, <1>3, <2>2
  <2>4. At(ParserStep(m, b), IF v THEN "V2Flags" ELSE "V1Size", v, f, z, 0, <<>>)
    BY <1>6, <2>3, ArrowStep
  <2>5. ParserStep(m, b).st # "Idle" BY <2>4 DEF At
  <2>6. SeenAfter(m, s, b) = Append(s, b) BY <1>4, <1>6 DEF SeenAfter
  <2>7. Len(r) >= 2 BY <1>1, <2>2, CleanFacts
  <2> QED BY <2>5, <2>6, <2>7
<1> QED BY <1>5, <1>6

(* A header and the start of a body. *)
LEMMA HeadedAt ==
  ASSUME NEW c \in Nat, NEW d \in Nat, NEW a \in Nat, NEW body \in Seq(Nat),
         NEW t, t = <<c, d, a>> \o body
  PROVE  /\ Len(t) = Len(body) + 3 /\ Len(body) \in Nat /\ t[2] = d
         /\ \A i \in 1..Len(body) : t[3 + i] = body[i]
<1>1. PICK h : h = <<c, d, a>> OBVIOUS
<1>2. h \in Seq(Nat) /\ Len(h) = 3 /\ h[2] = d BY <1>1
<1>3. PICK y : y = h \o body OBVIOUS
<1>31. h \in Seq(Nat) BY <1>2
<1>32. y = t BY <1>1, <1>3
<1>33. /\ Len(y) = Len(h) + Len(body) /\ Len(body) \in Nat
       /\ \A i \in 1..Len(h) : y[i] = h[i]
       /\ \A i \in 1..Len(body) : y[Len(h) + i] = body[i]
  BY <1>3, <1>31, ConcatAt
<1>4. /\ Len(t) = Len(h) + Len(body) /\ Len(body) \in Nat
      /\ \A i \in 1..Len(h) : t[i] = h[i]
      /\ \A i \in 1..Len(body) : t[Len(h) + i] = body[i]
  BY <1>32, <1>33, Zenon
<1>5. 2 \in 1..Len(h) BY <1>2
<1>6. t[2] = d BY <1>2, <1>4, <1>5
<1>7. \A i \in 1..Len(body) : t[3 + i] = body[i] BY <1>2, <1>4
<1> QED BY <1>2, <1>4, <1>6, <1>7

(* body is the start of cb, left is what is left of it and its checksum e, and
   b is next. *)
Begins(body, cb, left, b, e) ==
    /\ Len(body) \in Nat /\ Len(cb) \in Nat /\ left \in Nat
    /\ left >= 1 /\ Len(body) + left = Len(cb) + 1
    /\ \A i \in 1..Len(body) : body[i] = cb[i]
    /\ Len(body) < Len(cb) => b = cb[Len(body) + 1]
    /\ Len(body) = Len(cb) => b = e

LEMMA SyncedBegins ==
  ASSUME NEW s \in Seq(Byte), NEW r \in Seq(Byte), s \o r = Clean, r # <<>>, NEW b, b = Head(r),
         NEW v \in BOOLEAN, NEW c \in Byte, NEW body \in Seq(Byte),
         s = <<Dollar, Letter(v), c>> \o body
  PROVE  \E a, cb : CleanIs(v, a, cb) /\ Begins(body, cb, Len(r), b, SumOf(v, cb))
<1>1. PICK w, a, cb : CleanIs(w, a, cb) BY CleanShape, Zenon
<1>2. /\ w \in BOOLEAN /\ Len(cb) \in Nat /\ Len(Clean) = Len(cb) + 4
      /\ Clean[2] = Letter(w) /\ Clean[Len(cb) + 4] = SumOf(w, cb)
      /\ \A i \in 1..Len(cb) : Clean[3 + i] = cb[i]
  <2>1. CleanBytes(w, a, cb) BY <1>1, CleanParts, Zenon
  <2> QED BY <2>1 DEF CleanBytes
<1>3. /\ Len(Clean) = Len(s) + Len(r) /\ Len(s) \in Nat /\ Len(r) \in Nat
      /\ \A i \in 1..Len(s) : Clean[i] = s[i]
      /\ \A i \in 1..Len(r) : Clean[Len(s) + i] = r[i]
  BY PartsAt
<1>4. /\ Len(s) = Len(body) + 3 /\ Len(body) \in Nat /\ s[2] = Letter(v)
      /\ \A i \in 1..Len(body) : s[3 + i] = body[i]
  <2>1. Byte \subseteq Nat BY DEF Byte
  <2>2. body \in Seq(Nat) BY <2>1, SeqMonotonic
  <2>3. PICK d, e : d = Dollar /\ e = Letter(v) OBVIOUS
  <2>4. d \in Nat /\ e \in Nat /\ c \in Nat BY <2>1, <2>3, HeaderBytes
  <2>5. s = <<d, e, c>> \o body BY <2>3
  <2>6. /\ Len(s) = Len(body) + 3 /\ Len(body) \in Nat /\ s[2] = e
        /\ \A i \in 1..Len(body) : s[3 + i] = body[i]
    BY <2>2, <2>4, <2>5, HeadedAt
  <2> QED BY <2>3, <2>6
<1>5. Len(r) >= 1 /\ b = r[1] BY <1>3
<1>6. b = Clean[Len(body) + 4]
  <2>1. 1 \in 1..Len(r) BY <1>3, <1>5
  <2>2. b = Clean[Len(s) + 1] BY <1>3, <1>5, <2>1
  <2>3. Len(s) + 1 = Len(body) + 4 BY <1>4
  <2> QED BY <2>2, <2>3
<1>7. w = v
  <2>1. 2 \in 1..Len(s) BY <1>4
  <2>2. Letter(w) = Letter(v) BY <1>2, <1>3, <1>4, <2>1
  <2> QED BY <1>2, <2>2 DEF Letter, LetterX, LetterM
<1>8. Len(body) + Len(r) = Len(cb) + 1 BY <1>2, <1>3, <1>4
<1>9. ASSUME NEW i \in 1..Len(body) PROVE body[i] = cb[i]
  <2>1. i \in 1..Len(cb) BY <1>2, <1>3, <1>4, <1>5, <1>8
  <2>2. 3 + i \in 1..Len(s) BY <1>4
  <2>3. Clean[3 + i] = s[3 + i] BY <1>3, <2>2
  <2> QED BY <1>2, <1>4, <2>1, <2>3
<1>10. ASSUME Len(body) < Len(cb) PROVE b = cb[Len(body) + 1]
  <2>1. Len(body) + 1 \in 1..Len(cb) BY <1>2, <1>4, <1>10
  <2>2. Clean[3 + (Len(body) + 1)] = cb[Len(body) + 1] BY <1>2, <2>1
  <2>3. 3 + (Len(body) + 1) = Len(body) + 4 BY <1>4
  <2> QED BY <1>6, <2>2, <2>3
<1>11. ASSUME Len(body) = Len(cb) PROVE b = SumOf(w, cb) BY <1>2, <1>6, <1>11
<1>12. Begins(body, cb, Len(r), b, SumOf(w, cb))
  BY <1>2, <1>3, <1>4, <1>5, <1>8, <1>9, <1>10, <1>11 DEF Begins
<1> QED BY <1>1, <1>7, <1>12

(* What a byte of Clean does to a parser that has read the ones before it. *)
Synced(m, st, u, left, b) ==
    IF st \in ChecksumStates THEN left = 1 /\ b = u
    ELSE left >= 2 /\ ParserStep(m, b).st # "Idle"

(* The whole body has been read. *)
LEMMA WholeBody ==
  ASSUME NEW body \in Seq(Byte), NEW cb \in Seq(Byte), NEW left, NEW b, NEW e,
         Begins(body, cb, left, b, e), Len(body) = Len(cb)
  PROVE  left = 1 /\ b = e /\ body = cb
<1>1. left = 1 /\ b = e BY DEF Begins
<1>2. \A i \in 1..Len(body) : body[i] = cb[i] BY DEF Begins
<1>3. body = cb BY <1>2, SeqEqual
<1> QED BY <1>1, <1>3

LEMMA TwoAnd ==
  ASSUME NEW x \in Nat, NEW y \in Nat, NEW p \in Seq(Byte), NEW t, t = <<x, y>> \o p
  PROVE  Len(t) = Len(p) + 2 /\ Len(p) \in Nat /\ t[1] = x
<1>1. PICK h : h = <<x, y>> OBVIOUS
<1>2. h \in Seq(Nat) /\ Len(h) = 2 /\ h[1] = x BY <1>1
<1>3. p \in Seq(Nat)
  <2>1. Byte \subseteq Nat BY DEF Byte
  <2> QED BY <2>1, SeqMonotonic
<1>4. PICK r : r = h \o p OBVIOUS
<1>5. h \in Seq(Nat) BY <1>2
<1>6. Len(r) = Len(h) + Len(p) /\ Len(p) \in Nat /\ \A i \in 1..Len(h) : r[i] = h[i]
  BY <1>3, <1>4, <1>5, ConcatAt
<1>7. 1 \in 1..Len(h) BY <1>2
<1>8. r = t BY <1>1, <1>4
<1> QED BY <1>2, <1>6, <1>7, <1>8

LEMMA FiveAnd ==
  ASSUME NEW x1 \in Nat, NEW x2 \in Nat, NEW x3 \in Nat, NEW x4 \in Nat, NEW x5 \in Nat,
         NEW p \in Seq(Byte), NEW t, t = <<x1, x2, x3, x4, x5>> \o p
  PROVE  Len(t) = Len(p) + 5 /\ Len(p) \in Nat /\ t[4] = x4 /\ t[5] = x5
<1>1. PICK h : h = <<x1, x2, x3, x4, x5>> OBVIOUS
<1>2. h \in Seq(Nat) /\ Len(h) = 5 /\ h[4] = x4 /\ h[5] = x5 BY <1>1
<1>3. p \in Seq(Nat)
  <2>1. Byte \subseteq Nat BY DEF Byte
  <2> QED BY <2>1, SeqMonotonic
<1>4. PICK r : r = h \o p OBVIOUS
<1>5. h \in Seq(Nat) BY <1>2
<1>6. Len(r) = Len(h) + Len(p) /\ Len(p) \in Nat /\ \A i \in 1..Len(h) : r[i] = h[i]
  BY <1>3, <1>4, <1>5, ConcatAt
<1>7. 4 \in 1..Len(h) /\ 5 \in 1..Len(h) BY <1>2
<1>8. r = t BY <1>1, <1>4
<1> QED BY <1>2, <1>6, <1>7, <1>8

LEMMA SyncedV1 ==
  ASSUME NEW m, NEW st, NEW f, NEW z, NEW u, NEW p, NEW b, NEW left,
         NEW body \in Seq(Byte), NEW cb \in Seq(Byte),
         At(m, st, FALSE, f, z, u, p), Typed(st, FALSE, f, z, u, p), u = SumOf(FALSE, body),
         V1BodyAt(st, FALSE, f, z, p, body), Sized(FALSE, cb),
         Begins(body, cb, left, b, SumOf(FALSE, cb))
  PROVE  Synced(m, st, u, left, b)
<1>0. /\ Len(body) \in Nat /\ Len(cb) \in Nat /\ left \in Nat
      /\ left >= 1 /\ Len(body) + left = Len(cb) + 1
  BY DEF Begins
<1>1. Len(cb) >= 2 /\ cb[1] = Len(cb) - 2 BY DEF Sized
<1>2. z \in Nat /\ f \in Nat /\ p \in Seq(Byte) BY DEF Typed
<1>3. CASE st = "V1Size"
  <2>1. Len(body) = 0 BY <1>3 DEF V1BodyAt
  <2>2. At(ParserStep(m, b), "V1Command", FALSE, f, b, b, p) BY <1>3, V1SizeStep, Zenon
  <2>3. ParserStep(m, b).st # "Idle" BY <2>2 DEF At
  <2> QED BY <1>0, <1>1, <1>3, <2>1, <2>3 DEF Synced, ChecksumStates
<1>4. CASE st = "V1Command"
  <2>1. Len(body) = 1 BY <1>4 DEF V1BodyAt
  <2>2. PICK w, y : w = (IF z > 0 THEN "V1Payload" ELSE "V1Checksum") /\ y = XorByte(u, b) OBVIOUS
  <2>3. At(ParserStep(m, b), w, FALSE, b, z, y, p) BY <1>4, <2>2, V1CommandStep
  <2>4. ParserStep(m, b).st # "Idle" BY <2>2, <2>3 DEF At
  <2> QED BY <1>0, <1>1, <1>4, <2>1, <2>4 DEF Synced, ChecksumStates
<1>5. CASE st \in {"V1Payload", "V1Checksum"}
  <2>1. body = <<z, f>> \o p BY <1>5 DEF V1BodyAt
  <2>2. Len(body) = Len(p) + 2 /\ Len(p) \in Nat /\ body[1] = z BY <1>2, <2>1, TwoAnd
  <2>3. 1 \in 1..Len(body) BY <2>2
  <2>4. body[1] = cb[1] BY <2>3 DEF Begins
  <2>5. Len(cb) = z + 2 BY <1>0, <1>1, <1>2, <2>2, <2>4
  <2>6. CASE st = "V1Payload"
    <3>1. Len(p) < z BY <2>6 DEF V1BodyAt
    <3>2. left >= 2 BY <1>0, <1>2, <2>2, <2>5, <3>1
    <3>3. PICK w, y, q : /\ y = Folded(FALSE, u, b) /\ q = Append(p, b)
                         /\ w = IF ~(Len(p) + 1 >= z) THEN st
                                ELSE IF FALSE THEN "V2Checksum" ELSE "V1Checksum"
      OBVIOUS
    <3>4. At(ParserStep(m, b), w, FALSE, f, z, y, q)
      BY <2>6, <3>3, PayloadStepAt DEF PayloadStates
    <3>5. w # "Idle" BY <2>6, <3>3
    <3>6. ParserStep(m, b).st # "Idle" BY <3>4, <3>5 DEF At
    <3> QED BY <2>6, <3>2, <3>6 DEF Synced, ChecksumStates
  <2>7. CASE st = "V1Checksum"
    <3>1. Len(p) = z BY <2>7 DEF V1BodyAt
    <3>2. Len(body) = Len(cb) BY <2>2, <2>5, <3>1
    <3>3. left = 1 /\ b = SumOf(FALSE, cb) /\ body = cb BY <3>2, WholeBody
    <3> QED BY <2>7, <3>3 DEF Synced, ChecksumStates
  <2> QED BY <1>5, <2>6, <2>7
<1> QED BY <1>3, <1>4, <1>5 DEF V1BodyAt

LEMMA SyncedV2 ==
  ASSUME NEW m, NEW st, NEW f, NEW z, NEW u, NEW p, NEW g \in Byte, NEW b, NEW left,
         NEW body \in Seq(Byte), NEW cb \in Seq(Byte),
         At(m, st, TRUE, f, z, u, p), Typed(st, TRUE, f, z, u, p), u = SumOf(TRUE, body),
         V2BodyAt(st, TRUE, f, z, p, g, body), Sized(TRUE, cb),
         Begins(body, cb, left, b, SumOf(TRUE, cb))
  PROVE  Synced(m, st, u, left, b)
<1>0. /\ Len(body) \in Nat /\ Len(cb) \in Nat /\ left \in Nat
      /\ left >= 1 /\ Len(body) + left = Len(cb) + 1
  BY DEF Begins
<1>1. Len(cb) >= 5 /\ cb[4] + 256 * cb[5] = Len(cb) - 5 /\ Len(cb) - 5 <= MaxSize BY DEF Sized
<1>2. z \in Nat /\ f \in Nat /\ p \in Seq(Byte) /\ MaxSize \in Nat BY OsdAssumption DEF Typed
<1>3. CASE st = "V2Flags"
  <2>1. Len(body) = 0 BY <1>3 DEF V2BodyAt
  <2>2. At(ParserStep(m, b), "V2FunctionLo", TRUE, f, z, Crc8DvbS2(0, b), p)
    BY <1>3, V2FlagsStep, Zenon
  <2>3. ParserStep(m, b).st # "Idle" BY <2>2 DEF At
  <2> QED BY <1>0, <1>1, <1>3, <2>1, <2>3 DEF Synced, ChecksumStates
<1>4. CASE st = "V2FunctionLo"
  <2>1. Len(body) = 1 BY <1>4 DEF V2BodyAt
  <2>2. At(ParserStep(m, b), "V2FunctionHi", TRUE, b, z, Crc8DvbS2(u, b), p)
    BY <1>4, V2FunctionLoStep, Zenon
  <2>3. ParserStep(m, b).st # "Idle" BY <2>2 DEF At
  <2> QED BY <1>0, <1>1, <1>4, <2>1, <2>3 DEF Synced, ChecksumStates
<1>5. CASE st = "V2FunctionHi"
  <2>1. Len(body) = 2 BY <1>5 DEF V2BodyAt
  <2>2. At(ParserStep(m, b), "V2SizeLo", TRUE, Word(f, b), z, Crc8DvbS2(u, b), p)
    BY <1>5, V2FunctionHiStep, Zenon
  <2>3. ParserStep(m, b).st # "Idle" BY <2>2 DEF At
  <2> QED BY <1>0, <1>1, <1>5, <2>1, <2>3 DEF Synced, ChecksumStates
<1>6. CASE st = "V2SizeLo"
  <2>1. Len(body) = 3 BY <1>6 DEF V2BodyAt
  <2>2. At(ParserStep(m, b), "V2SizeHi", TRUE, f, b, Crc8DvbS2(u, b), p)
    BY <1>6, V2SizeLoStep, Zenon
  <2>3. ParserStep(m, b).st # "Idle" BY <2>2 DEF At
  <2> QED BY <1>0, <1>1, <1>6, <2>1, <2>3 DEF Synced, ChecksumStates
<1>7. CASE st = "V2SizeHi"
  <2>1. Len(body) = 4 /\ body[4] = z BY <1>7 DEF V2BodyAt
  <2>2. 4 \in 1..Len(body) BY <2>1
  <2>3. z = cb[4] BY <2>1, <2>2 DEF Begins
  <2>4. b = cb[5]
    <3>1. Len(body) < Len(cb) BY <1>0, <1>1, <2>1
    <3>2. b = cb[Len(body) + 1] BY <3>1 DEF Begins
    <3> QED BY <2>1, <3>2
  <2>5. PICK x : x = Word(z, b) OBVIOUS
  <2>6. x = Len(cb) - 5 BY <1>1, <2>3, <2>4, <2>5 DEF Word
  <2>7. At(m, "V2SizeHi", TRUE, f, z, u, p) BY <1>7
  <2>71. LeadsTo(m, b, Word(z, b)) BY <2>7, SizeHiLeads, Zenon
  <2>8. ParserStep(m, b).st = AfterSize(x) BY <2>5, <2>71, Zenon DEF LeadsTo
  <2>9. ~(x > MaxSize) BY <1>0, <1>1, <1>2, <2>6
  <2>10. AfterSize(x) # "Idle" BY <2>9 DEF AfterSize
  <2>11. left >= 2 BY <1>0, <1>1, <2>1
  <2> QED BY <1>7, <2>8, <2>10, <2>11 DEF Synced, ChecksumStates
<1>8. CASE st \in {"V2Payload", "V2Checksum"}
  <2>1. body = <<g, f % 256, f \div 256, z % 256, z \div 256>> \o p BY <1>8 DEF V2BodyAt
  <2>2. PICK f1, f2, z1, z2 : f1 = f % 256 /\ f2 = f \div 256 /\ z1 = z % 256 /\ z2 = z \div 256
    OBVIOUS
  <2>3. f1 \in Nat /\ f2 \in Nat /\ z1 \in Nat /\ z2 \in Nat /\ z1 + 256 * z2 = z
    BY <1>2, <2>2
  <2>4. g \in Nat BY ByteIsNat
  <2>5. body = <<g, f1, f2, z1, z2>> \o p BY <2>1, <2>2
  <2>6. Len(body) = Len(p) + 5 /\ Len(p) \in Nat /\ body[4] = z1 /\ body[5] = z2
    BY <1>2, <2>3, <2>4, <2>5, FiveAnd
  <2>7. 4 \in 1..Len(body) /\ 5 \in 1..Len(body) BY <2>6
  <2>8. body[4] = cb[4] /\ body[5] = cb[5] BY <2>7 DEF Begins
  <2>9. Len(cb) - 5 = z BY <1>1, <2>3, <2>6, <2>8
  <2>10. Len(cb) = z + 5 BY <1>0, <1>2, <2>9
  <2>11. CASE st = "V2Payload"
    <3>1. Len(p) < z BY <2>11 DEF V2BodyAt
    <3>2. left >= 2 BY <1>0, <1>2, <2>6, <2>10, <3>1
    <3>3. PICK w, y, q : /\ y = Folded(TRUE, u, b) /\ q = Append(p, b)
                         /\ w = IF ~(Len(p) + 1 >= z) THEN st
                                ELSE IF TRUE THEN "V2Checksum" ELSE "V1Checksum"
      OBVIOUS
    <3>4. At(ParserStep(m, b), w, TRUE, f, z, y, q)
      BY <2>11, <3>3, PayloadStepAt DEF PayloadStates
    <3>5. w # "Idle" BY <2>11, <3>3
    <3>6. ParserStep(m, b).st # "Idle" BY <3>4, <3>5 DEF At
    <3> QED BY <2>11, <3>2, <3>6 DEF Synced, ChecksumStates
  <2>12. CASE st = "V2Checksum"
    <3>1. Len(p) = z BY <2>12 DEF V2BodyAt
    <3>2. Len(body) = Len(cb) BY <2>6, <2>10, <3>1
    <3>3. left = 1 /\ b = SumOf(TRUE, cb) /\ body = cb BY <3>2, WholeBody
    <3> QED BY <2>12, <3>3 DEF Synced, ChecksumStates
  <2> QED BY <1>8, <2>11, <2>12
<1> QED BY <1>3, <1>4, <1>5, <1>6, <1>7, <1>8 DEF V2BodyAt

LEMMA SyncedBody ==
  ASSUME NEW m, NEW s \in Seq(Byte), NEW r \in Seq(Byte), s \o r = Clean, r # <<>>,
         NEW st, NEW v, NEW f, NEW z, NEW u, NEW p, NEW g \in Byte,
         At(m, st, v, f, z, u, p), Typed(st, v, f, z, u, p), Since(st, v, f, z, u, p, g, s),
         st \notin HeaderStates, NEW b, b = Head(r)
  PROVE  Synced(m, st, u, Len(r), b)
<1>1. PICK c \in Byte, body \in Seq(Byte) :
        /\ s = <<Dollar, Letter(v), c>> \o body
        /\ u = SumOf(v, body)
        /\ BodyAt(st, v, f, z, p, g, body)
  BY DEF Since, Reading
<1>2. v \in BOOLEAN BY DEF Typed
<1>3. PICK a, cb : CleanIs(v, a, cb) /\ Begins(body, cb, Len(r), b, SumOf(v, cb))
  BY <1>1, <1>2, SyncedBegins
<1>4. cb \in Seq(Byte) /\ Sized(v, cb) BY <1>3 DEF CleanIs
<1>5. CASE v = FALSE
  <2>1. V1BodyAt(st, FALSE, f, z, p, body) BY <1>1, <1>5 DEF BodyAt
  <2> QED BY <1>1, <1>3, <1>4, <1>5, <2>1, SyncedV1
<1>6. CASE v = TRUE
  <2>1. V2BodyAt(st, TRUE, f, z, p, g, body) BY <1>1, <1>6 DEF BodyAt
  <2> QED BY <1>1, <1>3, <1>4, <1>6, <2>1, SyncedV2
<1> QED BY <1>2, <1>5, <1>6

-----------------------------------------------------------------------------
(* The bytes that a run of clean messages may lose. *)
Budget == Swallowed + 6

LEMMA BudgetFacts ==
  /\ MaxSize \in Nat /\ Swallowed \in Nat /\ Budget \in Nat /\ Budget = Swallowed + 6
  /\ MaxSize + 6 <= Budget /\ 258 <= Budget
  BY OsdAssumption DEF Budget, Swallowed

(* A message under way is never longer than that. *)
NeedOK(m) == m.st \notin HeaderStates => NeedOf(m) \in Nat /\ NeedOf(m) >= 1 /\ NeedOf(m) <= Budget

NoDollar(r, from) == \A i \in from..Len(r) : r[i] # Dollar

(* The k-th clean message in a row, of which r is left: the parser is reading
   it from its '$'; or is in a false message that it will soon leave; or waits
   for the next one; or is about to see this one's '$'. *)
Reads(m, s, r) == r # <<>> /\ m.st # "Idle" /\ s \o r = Clean

Loses(m, r, k) ==
    /\ m.st \notin HeaderStates /\ NoDollar(r, 2) /\ Len(r) <= Len(Clean)
    /\ (k - 1) * Len(Clean) + (Len(Clean) - Len(r)) + NeedOf(m) <= Budget

Waits(m, r, k) ==
    /\ m.st = "Idle" /\ NoDollar(r, 1) /\ Len(r) < Len(Clean)
    /\ (k - 1) * Len(Clean) < Budget

Starts(m, r, k) ==
    r = Clean /\ (m.st \in {"Idle", "HeaderM"} \/ (m.st = "HeaderArrow" /\ k = 1))

RunOK(m, s, r, k) == Reads(m, s, r) \/ Loses(m, r, k) \/ Waits(m, r, k) \/ Starts(m, r, k)

RunInv ==
    /\ ParserInv
    /\ missed \in Nat
    /\ NeedOK(msp)
    /\ missed > 0 => RunOK(msp, seen, rest, missed)

LEMMA NeedStep ==
  ASSUME NEW m, NEW s, StateOK(m, s), NEW b \in Byte, m.st \notin HeaderStates
  PROVE  NeedOf(m) \in Nat /\ NeedOf(m) >= 1 /\ Falls(ParserStep(m, b), NeedOf(m))
<1>1. PICK st, v, f, z, u, p : \E g \in Byte :
        /\ At(m, st, v, f, z, u, p) /\ Typed(st, v, f, z, u, p)
        /\ Since(st, v, f, z, u, p, g, s)
  BY Zenon DEF StateOK
<1>2. PICK g \in Byte :
        /\ At(m, st, v, f, z, u, p) /\ Typed(st, v, f, z, u, p)
        /\ Since(st, v, f, z, u, p, g, s)
  BY <1>1
<1>3. st \notin HeaderStates BY <1>2 DEF At
<1>4. PICK a \in Byte, body \in Seq(Byte) : BodyAt(st, v, f, z, p, g, body)
  BY <1>2, <1>3 DEF Since, Reading
<1> QED BY <1>2, <1>4, NeedFalls

(* Where a byte in a header leads. *)
LEMMA HeaderNeed ==
  ASSUME NEW m, NEW s, StateOK(m, s), NEW b \in Byte, m.st \in HeaderStates
  PROVE  /\ NeedOK(ParserStep(m, b))
         /\ m.st = "Idle" => ParserStep(m, b).st = IF b = Dollar THEN "HeaderM" ELSE "Idle"
         /\ m.st = "HeaderM" /\ b = Dollar => ParserStep(m, b).st = "HeaderM"
         /\ m.st = "HeaderArrow" /\ b = Dollar => ParserStep(m, b).st = "Idle"
<1>1. PICK st, v, f, z, u, p : At(m, st, v, f, z, u, p) /\ Typed(st, v, f, z, u, p)
  BY Zenon DEF StateOK
<1>2. PICK n : n = ParserStep(m, b) OBVIOUS
<1>3. m.st = st /\ v \in BOOLEAN BY <1>1 DEF At, Typed
<1>4. CASE st = "Idle"
  <2>1. PICK w : w = IF b = Dollar THEN "HeaderM" ELSE "Idle" OBVIOUS
  <2>2. At(n, w, v, f, z, u, p) BY <1>1, <1>2, <1>4, <2>1, IdleStep
  <2>3. n.st = w BY <2>2 DEF At
  <2> QED BY <1>2, <1>3, <1>4, <2>1, <2>3 DEF NeedOK, HeaderStates
<1>5. CASE st = "HeaderM" /\ b \in {LetterM, LetterX}
  <2>1. At(n, "HeaderArrow", b = LetterX, f, z, u, p) BY <1>1, <1>2, <1>5, LetterStep, Zenon
  <2>2. n.st = "HeaderArrow" BY <2>1, Zenon DEF At
  <2>3. b # Dollar BY <1>5 DEF LetterM, LetterX, Dollar
  <2> QED BY <1>2, <1>3, <1>5, <2>2, <2>3 DEF NeedOK, HeaderStates
<1>6. CASE st = "HeaderM" /\ b \notin {LetterM, LetterX}
  <2>1. PICK w : w = IF b = Dollar THEN "HeaderM" ELSE "Idle" OBVIOUS
  <2>2. At(n, w, v, f, z, u, p) BY <1>1, <1>2, <1>6, <2>1, NoLetterStep
  <2>3. n.st = w BY <2>2 DEF At
  <2> QED BY <1>2, <1>3, <1>6, <2>1, <2>3 DEF NeedOK, HeaderStates
<1>7. CASE st = "HeaderArrow" /\ b \in Arrows
  <2>1. PICK w : w = IF v THEN "V2Flags" ELSE "V1Size" OBVIOUS
  <2>2. At(n, w, v, f, z, 0, <<>>) BY <1>1, <1>2, <1>7, <2>1, ArrowStep
  <2>3. n.st = w /\ NeedOf(n) = Need(w, z, Len(<<>>)) BY <2>2, NeedAt, Zenon
  <2>4. NeedOf(n) = IF v THEN MaxSize + 6 ELSE 258
    BY <1>3, <2>1, <2>3, NeedStates
  <2>5. NeedOf(n) \in Nat /\ NeedOf(n) >= 1 /\ NeedOf(n) <= Budget BY <1>3, <2>4, BudgetFacts
  <2>6. b # Dollar BY <1>7 DEF Arrows, Dollar
  <2> QED BY <1>2, <1>3, <1>7, <2>5, <2>6 DEF NeedOK
<1>8. CASE st = "HeaderArrow" /\ b \notin Arrows
  <2>1. At(n, "Idle", v, f, z, u, p) BY <1>1, <1>2, <1>8, NoArrowStep
  <2>2. n.st = "Idle" BY <2>1 DEF At
  <2> QED BY <1>2, <1>3, <1>8, <2>2 DEF NeedOK, HeaderStates
<1> QED BY <1>3, <1>4, <1>5, <1>6, <1>7, <1>8 DEF HeaderStates

LEMMA NeedStays ==
  ASSUME NEW m, NEW s \in Seq(Byte), StateOK(m, s), NEW b \in Byte, NeedOK(m)
  PROVE  NeedOK(ParserStep(m, b))
<1>1. CASE m.st \in HeaderStates BY <1>1, HeaderNeed
<1>2. CASE m.st \notin HeaderStates
  <2>1. PICK n : n = ParserStep(m, b) OBVIOUS
  <2>2. NeedOf(m) \in Nat /\ NeedOf(m) <= Budget BY <1>2 DEF NeedOK
  <2>3. Falls(n, NeedOf(m)) BY <1>2, <2>1, NeedStep
  <2>4. CASE n.st = "Idle" BY <2>1, <2>4 DEF NeedOK, HeaderStates
  <2>5. CASE n.st \notin HeaderStates
    <3>1. NeedOf(n) <= NeedOf(m) - 1 BY <2>3, <2>5 DEF Falls, HeaderStates
    <3>2. NeedOf(n) \in Nat /\ NeedOf(n) >= 1
      <4>1. StateOK(n, SeenAfter(m, s, b)) BY <2>1, StateStays
      <4> QED BY <2>5, <4>1, NeedStep
    <3>3. NeedOf(n) <= Budget BY <2>2, <3>1, <3>2, BudgetFacts
    <3> QED BY <2>1, <3>2, <3>3 DEF NeedOK
  <2> QED BY <2>3, <2>4, <2>5 DEF Falls
<1> QED BY <1>1, <1>2

(* What is left after a byte. *)
LEMMA TailAt ==
  ASSUME NEW r \in Seq(Byte), r # <<>>
  PROVE  /\ Head(r) \in Byte /\ Head(r) = r[1] /\ Tail(r) \in Seq(Byte)
         /\ Len(r) \in Nat /\ Len(r) >= 1 /\ Len(Tail(r)) = Len(r) - 1
         /\ \A i \in 1..Len(Tail(r)) : Tail(r)[i] = r[i + 1]
  OBVIOUS

LEMMA TailNoDollar ==
  ASSUME NEW r \in Seq(Byte), r # <<>>, NoDollar(r, 2)
  PROVE  NoDollar(Tail(r), 1)
<1>1. PICK t : t = Tail(r) OBVIOUS
<1>2. Len(r) \in Nat /\ Len(t) = Len(r) - 1 /\ \A i \in 1..Len(t) : t[i] = r[i + 1]
  BY <1>1, TailAt
<1>3. ASSUME NEW i \in 1..Len(t) PROVE t[i] # Dollar
  <2>1. i + 1 \in 2..Len(r) BY <1>2
  <2> QED BY <1>2, <2>1 DEF NoDollar
<1> QED BY <1>1, <1>3 DEF NoDollar

LEMMA NoDollarLess ==
  ASSUME NEW r \in Seq(Byte), NoDollar(r, 1)
  PROVE  NoDollar(r, 2)
  BY DEF NoDollar

LEMMA CleanNoDollar == NoDollar(Clean, 2)
  BY CleanFacts DEF NoDollar

LEMMA LosesByte ==
  ASSUME NEW m, NEW s \in Seq(Byte), NEW r \in Seq(Byte), NEW k \in Nat \ {0},
         StateOK(m, s), r # <<>>, NEW b, b = Head(r), Loses(m, r, k)
  PROVE  Loses(ParserStep(m, b), Tail(r), k) \/ Waits(ParserStep(m, b), Tail(r), k)
<1>0. /\ b \in Byte /\ Tail(r) \in Seq(Byte) /\ Len(r) \in Nat /\ Len(r) >= 1
      /\ Len(Tail(r)) = Len(r) - 1
  BY TailAt
<1>1. /\ m.st \notin HeaderStates /\ NoDollar(r, 2) /\ Len(r) <= Len(Clean)
      /\ (k - 1) * Len(Clean) + (Len(Clean) - Len(r)) + NeedOf(m) <= Budget
  BY DEF Loses
<1>2. PICK n : n = ParserStep(m, b) OBVIOUS
<1>3. NeedOf(m) \in Nat /\ NeedOf(m) >= 1 /\ Falls(n, NeedOf(m)) BY <1>0, <1>1, <1>2, NeedStep
<1>4. PICK x : x = (k - 1) * Len(Clean) OBVIOUS
<1>5. x \in Nat /\ Len(Clean) \in Nat /\ Budget \in Nat
  <2>1. k - 1 \in Nat /\ Len(Clean) \in Nat BY CleanFacts
  <2> QED BY <1>4, <2>1, BudgetFacts
<1>6. x + (Len(Clean) - Len(r)) + NeedOf(m) <= Budget BY <1>1, <1>4
<1>7. NoDollar(Tail(r), 1) BY <1>1, TailNoDollar
<1>8. CASE n.st = "Idle"
  <2>1. x < Budget BY <1>0, <1>1, <1>3, <1>5, <1>6
  <2>2. Len(Tail(r)) < Len(Clean) BY <1>0, <1>1, <1>5
  <2>3. Waits(n, Tail(r), k) BY <1>4, <1>7, <1>8, <2>1, <2>2 DEF Waits
  <2> QED BY <1>2, <2>3
<1>9. CASE n.st \notin HeaderStates
  <2>1. NeedOf(n) <= NeedOf(m) - 1 BY <1>3, <1>9 DEF Falls, HeaderStates
  <2>2. NeedOf(n) \in Nat
    <3>1. StateOK(n, SeenAfter(m, s, b)) BY <1>0, <1>2, StateStays
    <3> QED BY <1>0, <1>9, <3>1, NeedStep
  <2>3. x + (Len(Clean) - Len(Tail(r))) + NeedOf(n) <= Budget
    BY <1>0, <1>3, <1>5, <1>6, <2>1, <2>2
  <2>4. NoDollar(Tail(r), 2) BY <1>0, <1>7, NoDollarLess
  <2>5. Len(Tail(r)) <= Len(Clean) BY <1>0, <1>1, <1>5
  <2>6. Loses(n, Tail(r), k) BY <1>4, <1>9, <2>3, <2>4, <2>5 DEF Loses
  <2> QED BY <1>2, <2>6
<1> QED BY <1>3, <1>8, <1>9 DEF Falls

LEMMA WaitsByte ==
  ASSUME NEW m, NEW s \in Seq(Byte), NEW r \in Seq(Byte), NEW k \in Nat \ {0},
         StateOK(m, s), r # <<>>, NEW b, b = Head(r), Waits(m, r, k)
  PROVE  Waits(ParserStep(m, b), Tail(r), k)
<1>0. /\ b \in Byte /\ b = r[1] /\ Tail(r) \in Seq(Byte) /\ Len(r) \in Nat /\ Len(r) >= 1
      /\ Len(Tail(r)) = Len(r) - 1
  BY TailAt
<1>1. /\ m.st = "Idle" /\ NoDollar(r, 1) /\ Len(r) < Len(Clean)
      /\ (k - 1) * Len(Clean) < Budget
  BY DEF Waits
<1>2. 1 \in 1..Len(r) BY <1>0
<1>3. b # Dollar BY <1>0, <1>1, <1>2 DEF NoDollar
<1>4. ParserStep(m, b).st = "Idle" BY <1>0, <1>1, <1>3, HeaderNeed DEF HeaderStates
<1>5. NoDollar(Tail(r), 1) BY <1>1, NoDollarLess, TailNoDollar
<1>6. Len(Tail(r)) < Len(Clean) BY <1>0, <1>1, CleanFacts
<1> QED BY <1>1, <1>4, <1>5, <1>6 DEF Waits

LEMMA StartsByte ==
  ASSUME NEW m, NEW s \in Seq(Byte), NEW r \in Seq(Byte), NEW k \in Nat \ {0},
         StateOK(m, s), r # <<>>, NEW b, b = Head(r), Starts(m, r, k)
  PROVE  \/ Reads(ParserStep(m, b), SeenAfter(m, s, b), Tail(r))
         \/ Waits(ParserStep(m, b), Tail(r), k)
<1>0. r = Clean /\ (m.st \in {"Idle", "HeaderM"} \/ (m.st = "HeaderArrow" /\ k = 1)) BY DEF Starts
<1>1. /\ b \in Byte /\ b = r[1] /\ Tail(r) \in Seq(Byte) /\ Len(r) \in Nat
      /\ Len(Tail(r)) = Len(r) - 1
  BY TailAt
<1>2. b = Dollar /\ Len(r) >= 6 BY <1>0, <1>1, CleanFacts
<1>3. PICK n : n = ParserStep(m, b) OBVIOUS
<1>4. CASE m.st \in {"Idle", "HeaderM"}
  <2>1. n.st = "HeaderM" BY <1>1, <1>2, <1>3, <1>4, HeaderNeed DEF HeaderStates
  <2>2. SeenAfter(m, s, b) = <<b>> BY <1>2, <1>4 DEF SeenAfter
  <2>3. <<b>> \o Tail(r) = r
    <3>1. PICK q : q = Tail(r) OBVIOUS
    <3>2. r = <<Head(r)>> \o Tail(r) OBVIOUS
    <3> QED BY <3>2
  <2>4. Tail(r) # <<>>
    <3>1. PICK q \in Seq(Byte) : q = Tail(r) BY <1>1
    <3>2. Len(q) >= 5 BY <1>1, <1>2, <3>1
    <3>3. q # <<>> BY <3>2
    <3> QED BY <3>1, <3>3, Zenon
  <2>5. Reads(n, SeenAfter(m, s, b), Tail(r)) BY <1>0, <2>1, <2>2, <2>3, <2>4 DEF Reads
  <2> QED BY <1>3, <2>5
<1>5. CASE m.st = "HeaderArrow" /\ k = 1
  <2>1. n.st = "Idle" BY <1>1, <1>2, <1>3, <1>5, HeaderNeed DEF HeaderStates
  <2>2. NoDollar(r, 2) BY <1>0, CleanNoDollar
  <2>3. NoDollar(Tail(r), 1) BY <2>2, TailNoDollar
  <2>4. Len(Tail(r)) < Len(Clean) BY <1>0, <1>1, <1>2
  <2>5. (k - 1) * Len(Clean) < Budget
    <3>1. k - 1 = 0 /\ Len(Clean) \in Nat BY <1>5, CleanFacts
    <3>2. (k - 1) * Len(Clean) = 0 BY <3>1
    <3> QED BY <3>2, BudgetFacts
  <2>6. Waits(n, Tail(r), k) BY <2>1, <2>3, <2>4, <2>5 DEF Waits
  <2> QED BY <1>3, <2>6
<1> QED BY <1>0, <1>4, <1>5

LEMMA ReadsByte ==
  ASSUME NEW m, NEW s \in Seq(Byte), NEW r \in Seq(Byte), StateOK(m, s), NEW b, b = Head(r),
         Reads(m, s, r)
  PROVE  \/ ChecksumMatches(m, b) /\ Tail(r) = <<>>
         \/ Reads(ParserStep(m, b), SeenAfter(m, s, b), Tail(r))
<1>0. r # <<>> /\ m.st # "Idle" /\ s \o r = Clean BY DEF Reads
<1>1. /\ b \in Byte /\ Tail(r) \in Seq(Byte) /\ Len(r) \in Nat /\ Len(Tail(r)) = Len(r) - 1
  BY <1>0, TailAt
<1>2. PICK st, v, f, z, u, p : \E g \in Byte :
        /\ At(m, st, v, f, z, u, p) /\ Typed(st, v, f, z, u, p)
        /\ Since(st, v, f, z, u, p, g, s)
  BY Zenon DEF StateOK
<1>3. PICK g \in Byte :
        /\ At(m, st, v, f, z, u, p) /\ Typed(st, v, f, z, u, p)
        /\ Since(st, v, f, z, u, p, g, s)
  BY <1>2
<1>4. m.st = st /\ m.sum = u BY <1>3 DEF At
<1>5. Append(s, b) \o Tail(r) = Clean BY <1>0, PartsMove
<1>6. ASSUME ParserStep(m, b).st # "Idle", Len(r) >= 2, SeenAfter(m, s, b) = Append(s, b)
      PROVE  Reads(ParserStep(m, b), SeenAfter(m, s, b), Tail(r))
  <2>1. Tail(r) # <<>> BY <1>1, <1>6, SMTT(30)
  <2> QED BY <1>5, <1>6, <2>1 DEF Reads
<1>7. CASE st \in HeaderStates
  <2>1. st \in {"HeaderM", "HeaderArrow"} BY <1>0, <1>4, <1>7 DEF HeaderStates
  <2>2. ParserStep(m, b).st # "Idle" /\ Len(r) >= 2 /\ SeenAfter(m, s, b) = Append(s, b)
    BY <1>0, <1>3, <2>1, SyncedHeader
  <2> QED BY <1>6, <2>2
<1>8. CASE st \notin HeaderStates
  <2>1. Synced(m, st, u, Len(r), b) BY <1>0, <1>3, <1>8, SyncedBody
  <2>2. SeenAfter(m, s, b) = Append(s, b) BY <1>4, <1>8 DEF SeenAfter, HeaderStates
  <2>3. CASE st \in ChecksumStates
    <3>1. Len(r) = 1 /\ b = u BY <2>1, <2>3 DEF Synced
    <3>2. PICK q \in Seq(Byte) : q = Tail(r) BY <1>1
    <3>3. Len(q) = 0 BY <1>1, <3>1, <3>2
    <3>4. Tail(r) = <<>> BY <3>2, <3>3
    <3> QED BY <1>4, <2>3, <3>1, <3>4 DEF ChecksumMatches
  <2>4. CASE st \notin ChecksumStates
    <3>1. Len(r) >= 2 /\ ParserStep(m, b).st # "Idle" BY <2>1, <2>4 DEF Synced
    <3> QED BY <1>6, <2>2, <3>1
  <2> QED BY <2>3, <2>4
<1> QED BY <1>7, <1>8

LEMMA RunByte ==
  ASSUME RunInv, HandleByte
  PROVE  RunInv'
<1>1. /\ ParserInv /\ missed \in Nat /\ NeedOK(msp)
      /\ missed > 0 => RunOK(msp, seen, rest, missed)
  BY DEF RunInv
<1>2. rest \in Seq(Byte) /\ rest # <<>> /\ seen \in Seq(Byte) /\ StateOK(msp, seen)
  BY <1>1 DEF ParserInv, HandleByte
<1>3. PICK b \in Byte : b = Head(rest) BY <1>2
<1>4. /\ msp' = ParserStep(msp, b) /\ seen' = SeenAfter(msp, seen, b) /\ rest' = Tail(rest)
      /\ missed' = IF ChecksumMatches(msp, b) /\ rest' = <<>> THEN 0 ELSE missed
  BY <1>3 DEF HandleByte, SeenAfter
<1>5. ParserInv' BY <1>1, ParserByte
<1>6. missed' \in Nat BY <1>1, <1>4
<1>7. NeedOK(msp') BY <1>1, <1>2, <1>4, NeedStays
<1>8. ASSUME missed' > 0 PROVE RunOK(msp', seen', rest', missed')
  <2>1. missed' = missed /\ missed \in Nat \ {0} BY <1>1, <1>4, <1>8
  <2>2. ~(ChecksumMatches(msp, b) /\ rest' = <<>>) BY <1>4, <1>8
  <2>3. \/ Reads(msp, seen, rest) \/ Loses(msp, rest, missed) \/ Waits(msp, rest, missed)
        \/ Starts(msp, rest, missed)
    BY <1>1, <2>1 DEF RunOK
  <2>4. CASE Reads(msp, seen, rest)
    <3>1. \/ ChecksumMatches(msp, b) /\ rest' = <<>>
          \/ Reads(msp', seen', rest')
      BY <1>2, <1>3, <1>4, <2>4, ReadsByte
    <3> QED BY <2>2, <3>1 DEF RunOK
  <2>5. CASE Loses(msp, rest, missed)
    <3>1. Loses(msp', rest', missed) \/ Waits(msp', rest', missed)
      BY <1>2, <1>3, <1>4, <2>1, <2>5, LosesByte
    <3> QED BY <2>1, <3>1 DEF RunOK
  <2>6. CASE Waits(msp, rest, missed)
    <3>1. Waits(msp', rest', missed) BY <1>2, <1>3, <1>4, <2>1, <2>6, WaitsByte
    <3> QED BY <2>1, <3>1 DEF RunOK
  <2>7. CASE Starts(msp, rest, missed)
    <3>1. Reads(msp', seen', rest') \/ Waits(msp', rest', missed)
      BY <1>2, <1>3, <1>4, <2>1, <2>7, StartsByte
    <3> QED BY <2>1, <3>1 DEF RunOK
  <2> QED BY <2>3, <2>4, <2>5, <2>6, <2>7
<1> QED BY <1>5, <1>6, <1>7, <1>8 DEF RunInv

LEMMA OneMore ==
  ASSUME NEW k \in Nat, NEW l \in Nat
  PROVE  ((k + 1) - 1) * l = (k - 1) * l + l
  OBVIOUS

(* One more clean message. *)
LEMMA RunPush ==
  ASSUME RunInv, NEW q \in Packets \cup {Clean}, Push(q)
  PROVE  RunInv'
<1>1. /\ ParserInv /\ missed \in Nat /\ NeedOK(msp)
      /\ missed > 0 => RunOK(msp, seen, rest, missed)
  BY DEF RunInv
<1>2. /\ rest = <<>> /\ rest' = q /\ msp' = msp /\ seen' = seen
      /\ missed' = IF q = Clean THEN missed + 1 ELSE 0
  BY DEF Push
<1>3. ParserInv' BY <1>1, ParserPush
<1>4. missed' \in Nat BY <1>1, <1>2
<1>5. NeedOK(msp') BY <1>1, <1>2
<1>6. ASSUME missed' > 0 PROVE RunOK(msp', seen', rest', missed')
  <2>1. q = Clean /\ missed' = missed + 1 BY <1>2, <1>6
  <2>2. Len(Clean) \in Nat /\ Len(Clean) >= 6 BY CleanFacts
  <2>3. PICK k, l, x : k = missed /\ l = Len(Clean) /\ x = (missed - 1) * Len(Clean) OBVIOUS
  <2>4. k \in Nat /\ l \in Nat /\ x \in Int BY <1>1, <2>2, <2>3
  <2>5. (missed' - 1) * l = x + l BY <2>1, <2>3, <2>4, OneMore
  <2>6. CASE msp.st \notin HeaderStates
    <3>1. NeedOf(msp) \in Nat /\ NeedOf(msp) <= Budget BY <1>1, <2>6 DEF NeedOK
    <3>2. (missed' - 1) * l + (l - l) + NeedOf(msp) <= Budget
      <4>1. CASE k = 0
        <5>1. missed' - 1 = 0 BY <2>1, <2>3, <4>1
        <5>2. (missed' - 1) * l = 0 BY <2>4, <5>1
        <5> QED BY <2>4, <3>1, <5>2
      <4>2. CASE k # 0
        <5>1. RunOK(msp, seen, rest, missed) BY <1>1, <2>3, <4>2
        <5>2. Loses(msp, rest, missed)
          BY <1>2, <2>2, <2>6, <5>1 DEF RunOK, Reads, Waits, Starts, HeaderStates
        <5>3. Len(rest) = 0 BY <1>2
        <5>4. x + (l - 0) + NeedOf(msp) <= Budget BY <2>3, <5>2, <5>3 DEF Loses
        <5> QED BY <2>4, <2>5, <3>1, <5>4, BudgetFacts
      <4> QED BY <4>1, <4>2
    <3>3. NoDollar(rest', 2) BY <1>2, <2>1, CleanNoDollar
    <3>4. Len(rest') = l /\ Len(rest') <= Len(Clean) BY <1>2, <2>1, <2>2, <2>3
    <3>5. Loses(msp', rest', missed') BY <1>2, <2>3, <2>6, <3>2, <3>3, <3>4 DEF Loses
    <3> QED BY <3>5 DEF RunOK
  <2>7. CASE msp.st \in {"Idle", "HeaderM"}
    <3>1. Starts(msp', rest', missed') BY <1>2, <2>1, <2>7 DEF Starts
    <3> QED BY <3>1 DEF RunOK
  <2>8. CASE msp.st = "HeaderArrow"
    <3>1. missed = 0
      <4>1. SUFFICES ASSUME missed # 0 PROVE FALSE OBVIOUS
      <4>2. RunOK(msp, seen, rest, missed) BY <1>1, <4>1
      <4> QED BY <1>2, <2>2, <2>8, <4>2 DEF RunOK, Reads, Loses, Waits, Starts, HeaderStates
    <3>2. Starts(msp', rest', missed') BY <1>2, <2>1, <2>8, <3>1 DEF Starts
    <3> QED BY <3>2 DEF RunOK
  <2> QED BY <2>6, <2>7, <2>8 DEF HeaderStates
<1> QED BY <1>3, <1>4, <1>5, <1>6 DEF RunInv

LEMMA RunBounds == RunInv => Resynchronises
<1> SUFFICES ASSUME RunInv, rest = <<>>
             PROVE  missed * Len(Clean) < Swallowed + 2 * Len(Clean)
  BY DEF Resynchronises
<1>1. missed \in Nat /\ (missed > 0 => RunOK(msp, seen, rest, missed)) BY DEF RunInv
<1>2. PICK k, l, x : k = missed /\ l = Len(Clean) /\ x = (missed - 1) * Len(Clean) OBVIOUS
<1>3. k \in Nat /\ l \in Nat /\ l >= 6 /\ x \in Int
  <2>1. Len(Clean) \in Nat /\ Len(Clean) >= 6 BY CleanFacts
  <2> QED BY <1>1, <1>2, <2>1
<1>4. k * l = x + l
  <2>1. ((k + 1) - 1) * l = (k - 1) * l + l BY <1>3, OneMore
  <2>2. (k + 1) - 1 = k BY <1>3
  <2> QED BY <1>2, <2>1, <2>2
<1>5. CASE k = 0
  <2>1. k * l = 0 BY <1>3, <1>5
  <2> QED BY <1>2, <1>3, <2>1, BudgetFacts
<1>6. CASE k # 0
  <2>1. RunOK(msp, seen, rest, missed) BY <1>1, <1>2, <1>6
  <2>2. rest # Clean BY <1>2, <1>3
  <2>3. Loses(msp, rest, missed) \/ Waits(msp, rest, missed)
    BY <2>1, <2>2 DEF RunOK, Reads, Starts
  <2>4. x < Budget
    <3>1. CASE Loses(msp, rest, missed)
      <4>1. Len(rest) = 0 OBVIOUS
      <4>2. msp.st \notin HeaderStates /\ x + (l - 0) + NeedOf(msp) <= Budget
        BY <1>2, <3>1, <4>1 DEF Loses
      <4>3. NeedOf(msp) \in Nat BY <4>2 DEF RunInv, NeedOK
      <4> QED BY <1>3, <4>2, <4>3, BudgetFacts
    <3>2. CASE Waits(msp, rest, missed) BY <1>2, <3>2 DEF Waits
    <3> QED BY <2>3, <3>1, <3>2
  <2>5. k * l < Swallowed + 2 * l BY <1>3, <1>4, <2>4, BudgetFacts
  <2> QED BY <1>2, <2>5
<1> QED BY <1>5, <1>6

(* Whatever came before, a bounded run of clean messages is enough for the
   parser to recognise one: a false header swallows at most the longest
   message it can announce (HandleByte, displayport.cpp; msp_osd.h:66-67). *)
THEOREM CleanStreamResynchronises == Spec => []Resynchronises
<1>1. Init => RunInv
  <2> SUFFICES ASSUME Init PROVE RunInv OBVIOUS
  <2>1. missed = 0 /\ msp.st = "Idle" BY DEF Init, NoMessage
  <2> QED BY <2>1, ParserInit DEF RunInv, NeedOK, HeaderStates
<1>2. RunInv /\ [Next]_vars => RunInv'
  <2>1. RunInv /\ UNCHANGED vars => RunInv'
    <3> SUFFICES ASSUME RunInv, UNCHANGED vars PROVE RunInv' OBVIOUS
    <3>1. ParserInv' BY ParserStutter DEF RunInv
    <3>2. missed' = missed /\ msp' = msp /\ seen' = seen /\ rest' = rest BY DEF vars
    <3> QED BY <3>1, <3>2 DEF RunInv
  <2> QED BY <2>1, RunPush, RunByte DEF Next
<1> QED BY <1>1, <1>2, RunBounds, PTL DEF Spec
==============================================================================
