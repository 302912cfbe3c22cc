--------------------------- MODULE RetrievalProofs ---------------------------
(***************************************************************************)
(* More proofs about ReviewMachine: how a file is cut (ChunkWindows) and   *)
(* what a batch of queries gives (RankFusion), for every setting that the  *)
(* assumptions allow.  The sorting lemmas are those of                     *)
(* ReviewMachineProofs.                                                    *)
(***************************************************************************)
EXTENDS ReviewMachineProofs

-----------------------------------------------------------------------------
(* The cutting of a file.                                                  *)

CutAssumptions(s) == Cutting(s)!LinesAssumption /\ Cutting(s)!BudgetAssumption

LEMMA UpToExists ==
  ASSUME NEW n \in Nat, NEW a \in [1 .. n -> Nat]
  PROVE  \E f : f = [k \in 0 .. n |-> IF k = 0 THEN 0 ELSE f[k - 1] + a[k]]
<1>. DEFINE Sums(f, m) == f = [k \in 0 .. m |-> IF k = 0 THEN 0 ELSE f[k - 1] + a[k]]
            Bad == {m \in 0 .. n : \A f : ~Sums(f, m)}
<1>1. SUFFICES ASSUME Bad # {}
               PROVE  FALSE
  <2>1. n \notin Bad => \E f : Sums(f, n)
    OBVIOUS
  <2>. QED  BY <2>1
<1>2. PICK m \in Bad : \A i \in Bad : m <= i
  <2>1. Bad \in SUBSET Nat
    OBVIOUS
  <2>. QED  BY <1>1, <2>1, LeastNat
<1>3. m # 0
  <2>1. Sums([k \in 0 .. 0 |-> 0], 0)
    OBVIOUS
  <2>. QED  BY <2>1
<1>4. PICK f : Sums(f, m - 1)
  <2>1. m - 1 \in 0 .. n /\ ~(m <= m - 1)
    BY <1>3
  <2>2. m - 1 \notin Bad
    BY <1>2, <2>1
  <2>. QED  BY <2>1, <2>2
<1>5. Sums([k \in 0 .. m |-> IF k = m THEN f[m - 1] + a[m] ELSE f[k]], m)
  <2>. DEFINE g == [k \in 0 .. m |-> IF k = m THEN f[m - 1] + a[m] ELSE f[k]]
  <2>1. ASSUME NEW k \in 0 .. m
        PROVE  g[k] = IF k = 0 THEN 0 ELSE g[k - 1] + a[k]
    <3>1. CASE k = m
      <4>1. g[m] = f[m - 1] + a[m] /\ g[m - 1] = f[m - 1]
        BY <1>3
      <4>. QED  BY <1>3, <3>1, <4>1
    <3>2. CASE k # m /\ k # 0
      <4>1. k \in 0 .. m - 1 /\ k - 1 \in 0 .. m /\ k - 1 # m
        BY <3>2
      <4>2. g[k] = f[k] /\ g[k - 1] = f[k - 1]
        BY <3>2, <4>1
      <4>3. f[k] = f[k - 1] + a[k]
        BY <1>4, <3>2, <4>1
      <4>. QED  BY <3>2, <4>2, <4>3
    <3>3. CASE k # m /\ k = 0
      <4>1. 0 \in 0 .. m - 1 /\ g[k] = f[0]
        BY <1>3, <3>3
      <4>2. f[0] = 0
        BY <1>4, <4>1
      <4>. QED  BY <3>3, <4>1, <4>2
    <3>. QED  BY <3>1, <3>2, <3>3
  <2>2. g = [k \in 0 .. m |-> g[k]]
    OBVIOUS
  <2>. HIDE DEF g
  <2>. QED  BY <2>1, <2>2
<1>. QED  BY <1>5

(* What a file is, and where its lines end.                                *)
FileTyped(s) ==
  /\ lines = [k \in 1 .. Len(lines) |-> lines[k]] /\ Len(lines) \in Nat \ {0}
  /\ \A k \in 1 .. Len(lines) : lines[k] \in s.Lines

LineOK(s, k) ==
  /\ lines[k].chars \in Nat \ {0} /\ lines[k].bytes \in Nat \ {0}
  /\ lines[k].redacted \in BOOLEAN
  /\ ~lines[k].redacted => lines[k].chars <= lines[k].bytes

LEMMA LinesOK ==
  ASSUME NEW s, CutAssumptions(s), FileTyped(s), NEW k \in 1 .. Len(lines)
  PROVE  LineOK(s, k)
BY DEF CutAssumptions, FileTyped, LineOK, Cutting!LinesAssumption

LEMMA EndsAre ==
  ASSUME NEW s, CutAssumptions(s), FileTyped(s)
  PROVE  /\ Cutting(s)!ProjectedEnd(0) = 0 /\ Cutting(s)!OriginalEnd(0) = 0
         /\ \A k \in 1 .. Len(lines) :
              /\ Cutting(s)!ProjectedEnd(k) = Cutting(s)!ProjectedEnd(k - 1) + lines[k].chars
              /\ Cutting(s)!OriginalEnd(k) = Cutting(s)!OriginalEnd(k - 1) + lines[k].bytes
<1>. DEFINE n == Len(lines)
            P == Cutting(s)!ProjectedEnds
            O == Cutting(s)!OriginalEnds
<1>1. n \in Nat /\ \A k \in 1 .. n : LineOK(s, k)
  BY LinesOK DEF FileTyped
<1>2. P = [k \in 0 .. n |-> IF k = 0 THEN 0 ELSE P[k - 1] + lines[k].chars]
  <2>. DEFINE a == [k \in 1 .. n |-> lines[k].chars]
  <2>1. a \in [1 .. n -> Nat]
    BY <1>1 DEF LineOK
  <2>4. \A k \in 0 .. n : k # 0 => a[k] = lines[k].chars
    BY <1>1
  <2>. HIDE DEF a
  <2>2. PICK f : f = [k \in 0 .. n |-> IF k = 0 THEN 0 ELSE f[k - 1] + a[k]]
    BY <1>1, <2>1, UpToExists
  <2>3. f = [k \in 0 .. n |-> IF k = 0 THEN 0 ELSE f[k - 1] + lines[k].chars]
    BY <2>2, <2>4
  <2>. QED  BY <2>3 DEF Cutting!ProjectedEnds
<1>3. O = [k \in 0 .. n |-> IF k = 0 THEN 0 ELSE O[k - 1] + lines[k].bytes]
  <2>. DEFINE a == [k \in 1 .. n |-> lines[k].bytes]
  <2>1. a \in [1 .. n -> Nat]
    BY <1>1 DEF LineOK
  <2>4. \A k \in 0 .. n : k # 0 => a[k] = lines[k].bytes
    BY <1>1
  <2>. HIDE DEF a
  <2>2. PICK f : f = [k \in 0 .. n |-> IF k = 0 THEN 0 ELSE f[k - 1] + a[k]]
    BY <1>1, <2>1, UpToExists
  <2>3. f = [k \in 0 .. n |-> IF k = 0 THEN 0 ELSE f[k - 1] + lines[k].bytes]
    BY <2>2, <2>4
  <2>. QED  BY <2>3 DEF Cutting!OriginalEnds
<1>. HIDE DEF P, O
<1>4. P[0] = 0 /\ O[0] = 0
  BY <1>1, <1>2, <1>3
<1>5. ASSUME NEW k \in 1 .. n
      PROVE  P[k] = P[k - 1] + lines[k].chars /\ O[k] = O[k - 1] + lines[k].bytes
  <2>1. k \in 0 .. n /\ k # 0
    BY <1>1
  <2>2. P[k] = P[k - 1] + lines[k].chars
    BY <1>2, <2>1
  <2>3. O[k] = O[k - 1] + lines[k].bytes
    BY <1>3, <2>1
  <2>. QED  BY <2>2, <2>3
<1>. QED  BY <1>4, <1>5 DEF Cutting!ProjectedEnd, Cutting!OriginalEnd, P, O


LEMMA EndsGrow ==
  ASSUME NEW s, CutAssumptions(s), FileTyped(s)
  PROVE  /\ \A k \in 0 .. Len(lines) :
              Cutting(s)!ProjectedEnd(k) \in Nat /\ Cutting(s)!OriginalEnd(k) \in Nat
         /\ \A i, k \in 0 .. Len(lines) : i < k =>
              /\ Cutting(s)!ProjectedEnd(i) < Cutting(s)!ProjectedEnd(k)
              /\ Cutting(s)!OriginalEnd(i) < Cutting(s)!OriginalEnd(k)
<1>. DEFINE P(k) == Cutting(s)!ProjectedEnd(k)
            O(k) == Cutting(s)!OriginalEnd(k)
<1>1. PICK n \in Nat : n = Len(lines)
  BY DEF FileTyped
<1>2. /\ P(0) = 0 /\ O(0) = 0
      /\ \A k \in 1 .. n : P(k) = P(k - 1) + lines[k].chars /\ O(k) = O(k - 1) + lines[k].bytes
  BY <1>1, EndsAre
<1>3. \A k \in 1 .. n : lines[k].chars \in Nat \ {0} /\ lines[k].bytes \in Nat \ {0}
  BY <1>1, LinesOK DEF LineOK
<1>. HIDE DEF P, O
<1>. DEFINE Good(k) == /\ P(k) \in Nat /\ O(k) \in Nat
                       /\ \A i \in 0 .. k - 1 : P(i) < P(k) /\ O(i) < O(k)
            Bad == {k \in 0 .. n : ~Good(k)}
<1>4. Bad = {}
  <2>1. SUFFICES ASSUME Bad # {}
                 PROVE  FALSE
    OBVIOUS
  <2>2. PICK k \in Bad : \A i \in Bad : k <= i
    <3>1. Bad \in SUBSET Nat
      OBVIOUS
    <3>. QED  BY <2>1, <3>1, LeastNat
  <2>3. k \in 0 .. n /\ ~Good(k)
    OBVIOUS
  <2>4. k # 0
    BY <1>2, <2>3
  <2>5. Good(k - 1)
    <3>1. k - 1 \in 0 .. n /\ ~(k <= k - 1)
      BY <2>3, <2>4
    <3>. QED  BY <2>2, <3>1
  <2>6. /\ P(k) = P(k - 1) + lines[k].chars /\ O(k) = O(k - 1) + lines[k].bytes
        /\ lines[k].chars \in Nat \ {0} /\ lines[k].bytes \in Nat \ {0}
    BY <1>2, <1>3, <2>3, <2>4
  <2>7. \A i \in 0 .. k - 1 : i = k - 1 \/ i \in 0 .. k - 1 - 1
    BY <2>3, <2>4
  <2>8. \A i \in 0 .. k - 1 : P(i) \in Nat /\ O(i) \in Nat
    <3>1. \A i \in 0 .. k - 1 : i \in 0 .. n /\ ~(k <= i)
      BY <2>3
    <3>2. \A i \in 0 .. k - 1 : Good(i)
      BY <2>2, <3>1
    <3>. QED  BY <3>2
  <2>. QED  BY <2>3, <2>5, <2>6, <2>7, <2>8
<1>5. \A k \in 0 .. n : Good(k)
  BY <1>4
<1>6. \A k \in 0 .. n : P(k) \in Nat /\ O(k) \in Nat
  BY <1>5
<1>7. \A i, k \in 0 .. n : i < k => P(i) < P(k) /\ O(i) < O(k)
  <2>1. TAKE i, k \in 0 .. n
  <2>2. HAVE i < k
  <2>3. i \in 0 .. k - 1
    BY <1>1, <2>2
  <2>. QED  BY <1>5, <2>3
<1>. QED  BY <1>1, <1>6, <1>7 DEF P, O

(* Every character is in a line.                                           *)
LEMMA LineFound ==
  ASSUME NEW s, CutAssumptions(s), FileTyped(s), NEW o \in 0 .. Cutting(s)!RegionEnd - 1
  PROVE  /\ Cutting(s)!LineOf(o) \in 1 .. Len(lines)
         /\ Cutting(s)!ProjectedStart(Cutting(s)!LineOf(o)) <= o
         /\ o < Cutting(s)!ProjectedEnd(Cutting(s)!LineOf(o))
<1>. DEFINE P(k) == Cutting(s)!ProjectedEnd(k)
<1>1. PICK n \in Nat \ {0} : n = Len(lines)
  BY DEF FileTyped
<1>2. P(0) = 0 /\ P(n) = Cutting(s)!RegionEnd /\ \A k \in 0 .. n : P(k) \in Nat
  BY <1>1, EndsAre, EndsGrow DEF Cutting!RegionEnd
<1>. HIDE DEF P
<1>. DEFINE Past == {k \in 0 .. n : o < P(k)}
<1>3. PICK k \in Past : \A i \in Past : k <= i
  <2>1. n \in Past /\ Past \in SUBSET Nat
    BY <1>1, <1>2
  <2>. QED  BY <2>1, LeastNat
<1>4. k # 0
  BY <1>2
<1>5. P(k - 1) <= o
  <2>1. k - 1 \in 0 .. n /\ ~(k <= k - 1)
    BY <1>4
  <2>2. ~(o < P(k - 1))
    BY <1>3, <2>1
  <2>. QED  BY <1>2, <2>1, <2>2
<1>6. k \in DOMAIN lines /\ DOMAIN lines = 1 .. Len(lines) /\ P(k - 1) <= o /\ o < P(k)
  BY <1>1, <1>3, <1>4, <1>5 DEF FileTyped
<1>7. /\ Cutting(s)!LineOf(o) \in DOMAIN lines
      /\ Cutting(s)!ProjectedStart(Cutting(s)!LineOf(o)) <= o
      /\ o < Cutting(s)!ProjectedEnd(Cutting(s)!LineOf(o))
  BY <1>6, Zenon DEF Cutting!LineOf, Cutting!ProjectedStart, P
<1>. QED  BY <1>6, <1>7

LEMMA Products ==
  ASSUME NEW x \in Nat, NEW c \in Nat, NEW q \in Nat, x < c
  PROVE  x * q \in Nat /\ c * q \in Nat /\ x * q + q <= c * q
<1>1. PICK a \in Nat : c = x + 1 + a
  <2>1. c - x - 1 \in Nat /\ c = x + 1 + (c - x - 1)
    OBVIOUS
  <2>. QED  BY <2>1
<1>2. x * q \in Nat /\ a * q \in Nat
  OBVIOUS
<1>3. c * q = x * q + q + a * q
  BY <1>1
<1>. QED  BY <1>2, <1>3

LEMMA Quotients ==
  ASSUME NEW b \in Nat, NEW c \in Nat \ {0}
  PROVE  b \div c \in Nat /\ c * (b \div c) <= b /\ (c <= b => b \div c >= 1)
<1>0. b \in Int /\ c \in Int /\ c > 0
  OBVIOUS
<1>1. b \div c \in Int /\ b = c * (b \div c) + (b % c) /\ b % c \in 0 .. c - 1
  <2>1. b \div c \in Int
    OBVIOUS
  <2>2. b % c \in 0 .. c - 1
    OBVIOUS
  <2>3. b = c * (b \div c) + (b % c)
    OBVIOUS
  <2>. QED  BY <2>1, <2>2, <2>3
<1>2. PICK q \in Int, r \in 0 .. c - 1 : q = b \div c /\ b = c * q + r
  BY <1>1
<1>3. q >= 0
  <2>1. SUFFICES ASSUME q <= -1
                 PROVE  FALSE
    OBVIOUS
  <2>2. PICK a \in Nat : q = -1 - a
    <3>1. -1 - q \in Nat /\ q = -1 - (-1 - q)
      BY <2>1
    <3>. QED  BY <3>1
  <2>3. c * q = -c - c * a /\ c * a \in Nat
    BY <2>2
  <2>. QED  BY <1>2, <2>3
<1>4. c <= b => q # 0
  BY <1>2
<1>5. c * q <= b
  BY <1>2
<1>. QED  BY <1>2, <1>3, <1>4, <1>5


(* An offset that is a byte is not inside a redacted line.                 *)
LEMMA ByteFound ==
  ASSUME NEW s, CutAssumptions(s), FileTyped(s), NEW o \in 0 .. Cutting(s)!RegionEnd - 1,
         Cutting(s)!ByteOffset(o) # Cutting(s)!None
  PROVE  LET k == Cutting(s)!LineOf(o) IN
         /\ Cutting(s)!ByteOffset(o) \in Nat
         /\ Cutting(s)!OriginalStart(k) <= Cutting(s)!ByteOffset(o)
         /\ Cutting(s)!ByteOffset(o) < Cutting(s)!OriginalEnd(k)
         /\ lines[k].redacted => Cutting(s)!ByteOffset(o) = Cutting(s)!OriginalStart(k)
         /\ ~lines[k].redacted =>
              /\ lines[k].bytes \div lines[k].chars \in Nat \ {0}
              /\ Cutting(s)!ByteOffset(o) = Cutting(s)!OriginalStart(k)
                   + (o - Cutting(s)!ProjectedStart(k)) * (lines[k].bytes \div lines[k].chars)
<1>1. PICK k \in 1 .. Len(lines) : k = Cutting(s)!LineOf(o)
  BY LineFound
<1>2. Cutting(s)!ProjectedStart(k) <= o /\ o < Cutting(s)!ProjectedEnd(k)
  BY <1>1, LineFound
<1>3. o # Cutting(s)!RegionEnd
  <2>1. Cutting(s)!RegionEnd \in Nat
    BY EndsGrow DEF FileTyped, Cutting!RegionEnd
  <2>. QED  BY <2>1
<1>4. /\ lines[k].redacted => o = Cutting(s)!ProjectedStart(k)
      /\ Cutting(s)!ByteOffset(o) = Cutting(s)!OriginalStart(k)
           + (o - Cutting(s)!ProjectedStart(k)) * (lines[k].bytes \div lines[k].chars)
  BY <1>1, <1>3, Zenon DEF Cutting!ByteOffset
<1>5. PICK n \in Nat : n = Len(lines)
  BY DEF FileTyped
<1>6. /\ Cutting(s)!OriginalEnd(k) = Cutting(s)!OriginalStart(k) + lines[k].bytes
      /\ Cutting(s)!ProjectedEnd(k) = Cutting(s)!ProjectedStart(k) + lines[k].chars
      /\ Cutting(s)!OriginalStart(k) \in Nat /\ Cutting(s)!ProjectedStart(k) \in Nat
  <2>1. k - 1 \in 0 .. n /\ k \in 1 .. n
    BY <1>5
  <2>. QED  BY <1>5, <2>1, EndsAre, EndsGrow DEF Cutting!OriginalStart, Cutting!ProjectedStart
<1>7. PICK b \in Nat \ {0}, c \in Nat \ {0} : b = lines[k].bytes /\ c = lines[k].chars
  BY LinesOK DEF LineOK
<1>8. ~lines[k].redacted => c <= b
  BY <1>7, LinesOK DEF LineOK
<1>9. PICK q \in Nat : q = b \div c /\ c * q <= b /\ (c <= b => q >= 1)
  BY <1>7, Quotients
<1>10. PICK x \in Nat : x = o - Cutting(s)!ProjectedStart(k) /\ x < c
  <2>1. o - Cutting(s)!ProjectedStart(k) \in Nat /\ o - Cutting(s)!ProjectedStart(k) < c
    BY <1>2, <1>6, <1>7
  <2>. QED  BY <2>1
<1>11. PICK v \in Nat : v = Cutting(s)!OriginalStart(k)
  BY <1>6
<1>12. Cutting(s)!ByteOffset(o) = v + x * q
  BY <1>4, <1>7, <1>9, <1>10, <1>11
<1>13. CASE lines[k].redacted
  <2>1. x = 0
    BY <1>4, <1>10, <1>6, <1>13
  <2>2. x * q = 0
    BY <2>1
  <2>3. Cutting(s)!ByteOffset(o) = v
    BY <1>12, <2>2
  <2>4. v < Cutting(s)!OriginalEnd(k)
    BY <1>6, <1>7, <1>11
  <2>. QED  BY <1>1, <1>11, <1>13, <2>3, <2>4
<1>14. CASE ~lines[k].redacted
  <2>1. q >= 1 /\ x * q \in Nat /\ x * q + q <= c * q /\ c * q \in Nat
    BY <1>8, <1>9, <1>10, <1>14, Products
  <2>2. x * q < b
    BY <1>9, <2>1
  <2>3. PICK y \in Nat : y = x * q
    BY <2>1
  <2>4. Cutting(s)!ByteOffset(o) = v + y /\ Cutting(s)!OriginalEnd(k) = v + b /\ y < b
    BY <1>6, <1>7, <1>11, <1>12, <2>2, <2>3
  <2>5. q = lines[k].bytes \div lines[k].chars /\ q \in Nat \ {0}
    BY <1>7, <1>9, <2>1
  <2>6. /\ Cutting(s)!ByteOffset(o) \in Nat /\ v <= Cutting(s)!ByteOffset(o)
        /\ Cutting(s)!ByteOffset(o) < Cutting(s)!OriginalEnd(k)
    BY <2>4
  <2>. QED  BY <1>1, <1>4, <1>11, <1>14, <2>5, <2>6
<1>. QED  BY <1>13, <1>14

LEMMA ByteOutside ==
  ASSUME NEW s, CutAssumptions(s), FileTyped(s), NEW o \in 0 .. Cutting(s)!RegionEnd,
         Cutting(s)!ByteOffset(o) # Cutting(s)!None
  PROVE  /\ Cutting(s)!ByteOffset(o) \in Nat
         /\ Cutting(s)!ByteOffset(o) <= Cutting(s)!OriginalEnd(Len(lines))
         /\ \A k \in 1 .. Len(lines) : lines[k].redacted =>
              \/ Cutting(s)!ByteOffset(o) <= Cutting(s)!OriginalStart(k)
              \/ Cutting(s)!OriginalEnd(k) <= Cutting(s)!ByteOffset(o)
<1>. DEFINE E(k) == Cutting(s)!OriginalEnd(k)
<1>1. PICK n \in Nat \ {0} : n = Len(lines)
  BY DEF FileTyped
<1>2. \A i, k \in 0 .. n : /\ E(i) \in Nat /\ E(k) \in Nat /\ (i < k => E(i) < E(k))
                           /\ (i <= k => E(i) <= E(k))
  BY <1>1, EndsGrow
<1>. HIDE DEF E
<1>3. CASE o = Cutting(s)!RegionEnd
  <2>1. Cutting(s)!ByteOffset(o) = E(n)
    BY <1>1, <1>3 DEF Cutting!ByteOffset, E
  <2>2. \A k \in 1 .. n : E(k) <= E(n) /\ E(n) \in Nat
    BY <1>1, <1>2
  <2>. QED  BY <1>1, <1>2, <2>1, <2>2 DEF E
<1>4. CASE o # Cutting(s)!RegionEnd
  <2>1. o \in 0 .. Cutting(s)!RegionEnd - 1
    <3>1. Cutting(s)!RegionEnd \in Nat
      BY <1>1, EndsGrow DEF Cutting!RegionEnd
    <3>. QED  BY <1>4, <3>1
  <2>2. PICK j \in 1 .. n : j = Cutting(s)!LineOf(o)
    BY <1>1, <2>1, LineFound
  <2>3. PICK v \in Nat : v = Cutting(s)!ByteOffset(o)
    BY <2>1, ByteFound
  <2>4. E(j - 1) <= v /\ v < E(j) /\ (lines[j].redacted => v = E(j - 1))
    BY <2>1, <2>2, <2>3, ByteFound DEF E, Cutting!OriginalStart
  <2>5. v <= E(n)
    BY <1>2, <2>4
  <2>6. ASSUME NEW k \in 1 .. n, lines[k].redacted
        PROVE  v <= E(k - 1) \/ E(k) <= v
    <3>1. CASE k = j
      BY <2>4, <2>6, <3>1
    <3>2. CASE k < j
      <4>1. E(k) <= E(j - 1) /\ E(j - 1) \in Nat /\ E(k) \in Nat
        BY <1>2, <3>2
      <4>. QED  BY <2>4, <4>1
    <3>3. CASE j < k
      <4>1. E(j) <= E(k - 1) /\ E(j) \in Nat /\ E(k - 1) \in Nat
        BY <1>2, <3>3
      <4>. QED  BY <2>4, <4>1
    <3>. QED  BY <3>1, <3>2, <3>3
  <2>. QED  BY <1>1, <2>3, <2>5, <2>6 DEF E, Cutting!OriginalStart
<1>. QED  BY <1>3, <1>4

(* The ranges cover a file if each of them, but one that ends with it, is  *)
(* continued by another.                                                   *)
LEMMA Covered ==
  ASSUME NEW s, NEW m \in Nat, NEW r, NEW size \in Nat, NEW b \in 0 .. size - 1,
         DOMAIN r = 1 .. m, \A i \in 1 .. m : r[i][1] \in Nat /\ r[i][2] \in Nat,
         Cutting(s)!RangesCover(r, size)
  PROVE  \E i \in 1 .. m : r[i][1] <= b /\ b < r[i][2]
<1>1. SUFFICES ASSUME \A i \in 1 .. m : r[i][1] <= b => r[i][2] <= b
               PROVE  FALSE
  OBVIOUS
<1>. DEFINE Left == {b - r[i][2] : i \in {k \in 1 .. m : r[k][1] <= b}}
<1>2. /\ \E i \in 1 .. m : r[i][1] = 0
      /\ \A i \in 1 .. m : r[i][2] < size =>
           \E j \in 1 .. m : r[j][1] <= r[i][2] /\ r[i][2] < r[j][2]
  BY Zenon DEF Cutting!RangesCover
<1>3. PICK x \in Left : \A y \in Left : x <= y
  <2>1. Left \in SUBSET Nat
    BY <1>1
  <2>2. Left # {}
    <3>1. PICK i \in 1 .. m : r[i][1] = 0
      BY <1>2
    <3>2. r[i][1] <= b
      BY <3>1
    <3>3. b - r[i][2] \in Left
      BY <3>2
    <3>. QED  BY <3>3
  <2>. QED  BY <2>1, <2>2, LeastNat
<1>4. PICK i \in 1 .. m : r[i][1] <= b /\ x = b - r[i][2]
  OBVIOUS
<1>5. r[i][2] <= b /\ r[i][2] < size
  BY <1>1, <1>4
<1>6. PICK j \in 1 .. m : r[j][1] <= r[i][2] /\ r[i][2] < r[j][2]
  BY <1>2, <1>5
<1>7. b - r[j][2] \in Left
  <2>1. r[i][2] \in Nat /\ r[j][1] \in Nat /\ b \in Nat
    OBVIOUS
  <2>2. r[j][1] <= b
    BY <1>5, <1>6, <2>1
  <2>. QED  BY <2>2
<1>8. x <= b - r[j][2]
  BY <1>3, <1>7
<1>. QED  BY <1>4, <1>6, <1>8


(* What is indexed covers the file and never splits a redacted line.       *)
RangesKept(s) ==
  /\ windows = [i \in 1 .. Len(windows) |-> windows[i]] /\ Len(windows) \in Nat
  /\ \A i \in 1 .. Len(windows) :
       windows[i] \in (0 .. Cutting(s)!RegionEnd) \X (1 .. Cutting(s)!RegionEnd)
ChunksKept(s) ==
  IF phase = "done"
    THEN /\ chunks = [i \in DOMAIN windows |-> Cutting(s)!Mapped(windows[i])]
         /\ \A i \in DOMAIN chunks : Cutting(s)!None # chunks[i][1] /\ chunks[i][1] < chunks[i][2]
         /\ Cutting(s)!RangesCover(chunks, Cutting(s)!OriginalEnd(Len(lines)))
    ELSE chunks = <<>>

LEMMA ChunkEnds ==
  ASSUME NEW s, CutAssumptions(s), FileTyped(s), RangesKept(s), ChunksKept(s), phase = "done"
  PROVE  /\ DOMAIN chunks = 1 .. Len(windows)
         /\ \A i \in 1 .. Len(windows), e \in {1, 2} :
              /\ chunks[i][e] \in Nat
              /\ \A k \in 1 .. Len(lines) : lines[k].redacted =>
                   \/ chunks[i][e] <= Cutting(s)!OriginalStart(k)
                   \/ Cutting(s)!OriginalEnd(k) <= chunks[i][e]
         /\ \A i \in 1 .. Len(windows) : chunks[i] \in Nat \X Nat /\ chunks[i][1] < chunks[i][2]
<1>1. DOMAIN windows = 1 .. Len(windows) /\ DOMAIN chunks = 1 .. Len(windows)
  BY DEF RangesKept, ChunksKept
<1>2. ASSUME NEW i \in 1 .. Len(windows)
      PROVE  /\ chunks[i] \in Nat \X Nat /\ chunks[i][1] < chunks[i][2]
             /\ \A e \in {1, 2}, k \in 1 .. Len(lines) : lines[k].redacted =>
                   \/ chunks[i][e] <= Cutting(s)!OriginalStart(k)
                   \/ Cutting(s)!OriginalEnd(k) <= chunks[i][e]
  <2>1. PICK o \in 0 .. Cutting(s)!RegionEnd, q \in 0 .. Cutting(s)!RegionEnd :
          o = windows[i][1] /\ q = windows[i][2]
    <3>1. windows[i][1] \in 0 .. Cutting(s)!RegionEnd /\ windows[i][2] \in 1 .. Cutting(s)!RegionEnd
      BY DEF RangesKept
    <3>. QED  BY <3>1
  <2>2. chunks[i] = <<Cutting(s)!ByteOffset(o), Cutting(s)!ByteOffset(q)>>
    BY <1>1, <2>1 DEF ChunksKept, Cutting!Mapped
  <2>3. chunks[i][1] # Cutting(s)!None /\ chunks[i][1] < chunks[i][2]
    BY <1>1 DEF ChunksKept
  <2>4. /\ Cutting(s)!ByteOffset(o) \in Nat
        /\ \A k \in 1 .. Len(lines) : lines[k].redacted =>
             \/ Cutting(s)!ByteOffset(o) <= Cutting(s)!OriginalStart(k)
             \/ Cutting(s)!OriginalEnd(k) <= Cutting(s)!ByteOffset(o)
    BY <2>2, <2>3, ByteOutside
  <2>5. Cutting(s)!ByteOffset(q) # Cutting(s)!None
    <3>1. Cutting(s)!ByteOffset(o) < Cutting(s)!ByteOffset(q)
      BY <2>2, <2>3
    <3>. QED  BY <2>4, <3>1 DEF Cutting!None
  <2>6. /\ Cutting(s)!ByteOffset(q) \in Nat
        /\ \A k \in 1 .. Len(lines) : lines[k].redacted =>
             \/ Cutting(s)!ByteOffset(q) <= Cutting(s)!OriginalStart(k)
             \/ Cutting(s)!OriginalEnd(k) <= Cutting(s)!ByteOffset(q)
    BY <2>5, ByteOutside
  <2>. QED  BY <2>2, <2>3, <2>4, <2>6
<1>3. \A i \in 1 .. Len(windows), e \in {1, 2} : chunks[i][e] \in Nat
  BY <1>2
<1>. QED  BY <1>1, <1>2, <1>3

LEMMA ChunksSound ==
  ASSUME NEW s, CutAssumptions(s), FileTyped(s), RangesKept(s), ChunksKept(s)
  PROVE  /\ Cutting(s)!ChunksAreWhole
         /\ \A i \in DOMAIN chunks : chunks[i] \in Nat \X Nat
<1>1. CASE phase # "done"
  BY <1>1 DEF ChunksKept, Cutting!ChunksAreWhole
<1>2. CASE phase = "done"
  <2>1. /\ DOMAIN chunks = 1 .. Len(windows) /\ Len(windows) \in Nat
        /\ DOMAIN lines = 1 .. Len(lines) /\ Len(lines) \in Nat
    BY <1>2, ChunkEnds DEF RangesKept, FileTyped
  <2>2. \A i \in 1 .. Len(windows) : chunks[i] \in Nat \X Nat /\ chunks[i][1] < chunks[i][2]
    BY <1>2, ChunkEnds
  <2>3. PICK size \in Nat : size = Cutting(s)!OriginalEnd(Len(lines))
    BY <2>1, EndsGrow
  <2>4. ASSUME NEW b \in 0 .. size - 1
        PROVE  \E i \in DOMAIN chunks : chunks[i][1] <= b /\ b < chunks[i][2]
    <3>1. \A i \in 1 .. Len(windows) : chunks[i][1] \in Nat /\ chunks[i][2] \in Nat
      BY <2>2
    <3>2. Cutting(s)!RangesCover(chunks, size)
      BY <1>2, <2>3 DEF ChunksKept
    <3>. QED  BY <2>1, <3>1, <3>2, Covered, Zenon
  <2>5. ASSUME NEW i \in DOMAIN chunks, NEW k \in DOMAIN lines, lines[k].redacted
        PROVE  \/ chunks[i][2] <= Cutting(s)!OriginalStart(k) \/ Cutting(s)!OriginalEnd(k) <= chunks[i][1]
               \/ chunks[i][1] <= Cutting(s)!OriginalStart(k) /\ Cutting(s)!OriginalEnd(k) <= chunks[i][2]
    <3>1. \A e \in {1, 2} : \/ chunks[i][e] <= Cutting(s)!OriginalStart(k)
                            \/ Cutting(s)!OriginalEnd(k) <= chunks[i][e]
      BY <1>2, <2>1, <2>5, ChunkEnds
    <3>2. Cutting(s)!OriginalStart(k) \in Nat /\ Cutting(s)!OriginalEnd(k) \in Nat
      BY <2>1, EndsGrow DEF Cutting!OriginalStart
    <3>3. chunks[i][1] \in Nat /\ chunks[i][2] \in Nat /\ chunks[i][1] < chunks[i][2]
      BY <2>1, <2>2
    <3>4. /\ chunks[i][1] <= Cutting(s)!OriginalStart(k) \/ Cutting(s)!OriginalEnd(k) <= chunks[i][1]
          /\ chunks[i][2] <= Cutting(s)!OriginalStart(k) \/ Cutting(s)!OriginalEnd(k) <= chunks[i][2]
      BY <3>1
    <3>. QED  BY <3>2, <3>3, <3>4
  <2>6. Cutting(s)!ChunksAreWhole
    BY <2>3, <2>4, <2>5, Zenon DEF Cutting!ChunksAreWhole
  <2>. QED  BY <2>1, <2>2, <2>6
<1>. QED  BY <1>1, <1>2


(* The n-th token of a text.                                               *)
LEMMA CutCardinality ==
  ASSUME NEW s, NEW S
  PROVE  Cutting(s)!Cardinality(S) = Cardinality(S)
BY DEF Cutting!Cardinality, Cardinality

LEMMA NthIs ==
  ASSUME NEW s, NEW S \in SUBSET Nat, IsFiniteSet(S), NEW n \in 1 .. Cardinality(S)
  PROVE  /\ Cutting(s)!Nth(S, n) \in S
         /\ Cardinality({q \in S : q <= Cutting(s)!Nth(S, n)}) = n
<1>. DEFINE R == {p \in S \X S : p[1] < p[2]}
<1>1. PICK c \in Nat : c = Cardinality(S)
  BY FS_CardinalityType
<1>0. \A x \in S : x \in Nat
  OBVIOUS
<1>2. \A x, y \in S : <<x, y>> \in R <=> x < y
  OBVIOUS
<1>. HIDE DEF R
<1>3. PICK f \in [1 .. c -> S] :
        /\ \A i, j \in 1 .. c : i < j => <<f[i], f[j]>> \in R
        /\ \A x \in S : \E i \in 1 .. c : f[i] = x
  <2>1. \A x \in S : <<x, x>> \notin R
    BY <1>2
  <2>2. \A x, y, z \in S : <<x, y>> \in R /\ <<y, z>> \in R => <<x, z>> \in R
    BY <1>2
  <2>3. \A x, y \in S : x # y => <<x, y>> \in R \/ <<y, x>> \in R
    BY <1>2
  <2>4. /\ Sorted(S, R) \in [1 .. Cardinality(S) -> S]
        /\ \A i, j \in 1 .. Cardinality(S) : i < j => <<Sorted(S, R)[i], Sorted(S, R)[j]>> \in R
        /\ \A x \in S : \E i \in 1 .. Cardinality(S) : Sorted(S, R)[i] = x
    BY <2>1, <2>2, <2>3, SortedOrdered, Zenon
  <2>. QED  BY <1>1, <2>4
<1>4. \A i, j \in 1 .. c : i < j => f[i] < f[j]
  BY <1>2, <1>3
<1>. DEFINE T == {q \in S : q <= f[n]}
            g == [i \in 1 .. n |-> f[i]]
<1>5. n \in 1 .. c /\ n \in Nat /\ f[n] \in S
  BY <1>1
<1>6. \A i \in 1 .. n : i \in 1 .. c /\ f[i] \in T
  <2>1. TAKE i \in 1 .. n
  <2>2. i \in 1 .. c /\ (i = n \/ i < n)
    BY <1>5
  <2>3. f[i] \in S /\ f[i] <= f[n]
    <3>1. f[i] \in Nat /\ f[n] \in Nat
      BY <1>0, <1>5, <2>2
    <3>. QED  BY <1>4, <1>5, <2>2, <3>1
  <2>. QED  BY <2>2, <2>3
<1>7. \A x \in T : \E i \in 1 .. n : f[i] = x
  <2>1. TAKE x \in T
  <2>2. PICK i \in 1 .. c : f[i] = x
    BY <1>3
  <2>3. ~(n < i)
    <3>1. f[i] \in Nat /\ f[n] \in Nat /\ f[i] <= f[n]
      BY <1>0, <1>5, <2>2
    <3>. QED  BY <1>4, <1>5, <2>2, <3>1
  <2>4. i \in 1 .. n
    BY <1>5, <2>3
  <2>. QED  BY <2>2, <2>4
<1>8. g \in Bijection(1 .. n, T)
  <2>1. g \in [1 .. n -> T]
    BY <1>6
  <2>2. \A i, j \in 1 .. n : g[i] = g[j] => i = j
    <3>1. TAKE i, j \in 1 .. n
    <3>2. i \in 1 .. c /\ j \in 1 .. c
      BY <1>6
    <3>3. f[i] \in Nat /\ f[j] \in Nat
      BY <1>0, <3>2
    <3>. QED  BY <1>4, <3>2, <3>3
  <2>3. \A x \in T : \E i \in 1 .. n : g[i] = x
    BY <1>7
  <2>. QED  BY <2>1, <2>2, <2>3 DEF Bijection, Injection, Surjection, IsInjective
<1>9. IsFiniteSet(1 .. n) /\ Cardinality(1 .. n) = n
  BY <1>5, FS_Interval
<1>. HIDE DEF T, g
<1>10. Cardinality(T) = n
  <2>1. ExistsBijection(1 .. n, T)
    BY <1>8 DEF ExistsBijection
  <2>. QED  BY <1>9, <2>1, FS_Bijection
<1>11. f[n] \in S /\ Cutting(s)!Cardinality({q \in S : q <= f[n]}) = n
  BY <1>5, <1>10, CutCardinality DEF T
<1>12. Cutting(s)!Nth(S, n) \in S /\ Cutting(s)!Cardinality({q \in S : q <= Cutting(s)!Nth(S, n)}) = n
  BY <1>11 DEF Cutting!Nth
<1>. QED  BY <1>12, CutCardinality

LEMMA NthParts ==
  ASSUME NEW s, NEW S \in SUBSET Nat, IsFiniteSet(S), NEW n \in 1 .. Cardinality(S)
  PROVE  LET p == Cutting(s)!Nth(S, n) IN
         /\ p \in S
         /\ Cardinality({q \in S : q < p}) = n - 1
         /\ Cardinality({q \in S : q >= p}) = Cardinality(S) - n + 1
         /\ n > 1 => \E q \in S : q < p
<1>1. PICK p \in S : p = Cutting(s)!Nth(S, n)
  BY NthIs
<1>0. \A x \in S : x \in Nat
  OBVIOUS
<1>. DEFINE T == {q \in S : q <= p}
            B == {q \in S : q < p}
            A == {q \in S : q >= p}
<1>2. Cardinality(T) = n /\ IsFiniteSet(T) /\ IsFiniteSet(B) /\ IsFiniteSet(A)
  <2>1. T \in SUBSET S /\ B \in SUBSET S /\ A \in SUBSET S
    OBVIOUS
  <2>. QED  BY <1>1, <2>1, NthIs, FS_Subset
<1>3. Cardinality(S) \in Nat /\ n \in Nat /\ Cardinality(B) \in Nat /\ Cardinality(A) \in Nat
  BY <1>2, FS_CardinalityType
<1>4. Cardinality(B) = n - 1
  <2>1. p \notin B /\ T = B \cup {p}
    <3>1. p \in Nat /\ ~(p < p) /\ p <= p
      BY <1>0
    <3>2. \A q \in S : q <= p <=> q < p \/ q = p
      BY <1>0, <3>1
    <3>. QED  BY <3>1, <3>2
  <2>2. Cardinality(B \cup {p}) = Cardinality(B) + 1
    <3>. HIDE DEF B
    <3>. QED  BY <1>2, <2>1, FS_AddElement
  <2>. HIDE DEF B, T
  <2>. QED  BY <1>2, <1>3, <2>1, <2>2
<1>5. Cardinality(A) = Cardinality(S) - n + 1
  <2>1. A = S \ B /\ S \cap B = B
    <3>1. \A q \in S : q >= p <=> ~(q < p)
      BY <1>0
    <3>. QED  BY <3>1
  <2>2. Cardinality(S \ B) = Cardinality(S) - Cardinality(S \cap B)
    BY <1>2, FS_Difference
  <2>. QED  BY <1>3, <1>4, <2>1, <2>2
<1>6. n > 1 => B # {}
  BY <1>3, <1>4, FS_EmptySet
<1>. QED  BY <1>1, <1>4, <1>5, <1>6


(* The tokens of a slice.                                                  *)
LEMMA StartsAre ==
  ASSUME NEW s, NEW from \in Nat, NEW to \in Nat
  PROVE  /\ Cutting(s)!Starts(from, to) \in SUBSET Nat /\ IsFiniteSet(Cutting(s)!Starts(from, to))
         /\ Cardinality(Cutting(s)!Starts(from, to)) \in Nat
         /\ \A p \in Cutting(s)!Starts(from, to) : from <= p /\ p < to
         /\ Cutting(s)!Tokens(from, to) = Cardinality(Cutting(s)!Starts(from, to)) + s.Special
<1>1. Cutting(s)!Starts(from, to) \in SUBSET (from .. to - 1)
  BY Zenon DEF Cutting!Starts
<1>2. from \in Int /\ to - 1 \in Int
  OBVIOUS
<1>3. IsFiniteSet(Cutting(s)!Starts(from, to))
  BY <1>1, <1>2, FS_Interval, FS_Subset
<1>4. \A p \in Cutting(s)!Starts(from, to) : p \in from .. to - 1
  BY <1>1
<1>5. \A p \in Cutting(s)!Starts(from, to) : p \in Nat /\ from <= p /\ p < to
  BY <1>4
<1>6. Cutting(s)!Tokens(from, to) = Cardinality(Cutting(s)!Starts(from, to)) + s.Special
  BY CutCardinality DEF Cutting!Tokens
<1>. QED  BY <1>3, <1>5, <1>6, FS_CardinalityType

(* What is cut off may fall apart, so no token gets lost by a cut.         *)
LEMMA StartsCut ==
  ASSUME NEW s, NEW from \in Nat, NEW to \in Nat, NEW upTo \in Nat,
         Cutting(s)!RegionEnd \in Nat, to <= upTo, upTo <= Cutting(s)!RegionEnd
  PROVE  \A p \in Cutting(s)!Starts(from, upTo) : p < to => p \in Cutting(s)!Starts(from, to)
<1>. SUFFICES ASSUME NEW p \in Cutting(s)!Starts(from, upTo), p < to
              PROVE  p \in Cutting(s)!Starts(from, to)
  OBVIOUS
<1>1. p \in from .. upTo - 1
  BY Zenon DEF Cutting!Starts
<1>2. p \in from .. to - 1
  BY <1>1
<1>3. Cutting(s)!CutWord(p, from, upTo) => Cutting(s)!CutWord(p, from, to)
  <2>1. CASE from > 0 /\ Cutting(s)!Word(from - 1, p)
    BY <2>1 DEF Cutting!CutWord
  <2>2. CASE upTo < Cutting(s)!RegionEnd /\ Cutting(s)!Word(p, upTo)
    <3>1. to < Cutting(s)!RegionEnd /\ p < upTo
      BY <1>1, <2>2
    <3>2. \A k \in p .. to : k \in p .. upTo
      BY <1>1
    <3>3. Cutting(s)!Word(p, to)
      BY <2>2, <3>1, <3>2 DEF Cutting!Word
    <3>. QED  BY <3>1, <3>3 DEF Cutting!CutWord
  <2>. QED  BY <2>1, <2>2 DEF Cutting!CutWord
<1>. QED  BY <1>2, <1>3, Zenon DEF Cutting!Starts

LEMMA StartsKept ==
  ASSUME NEW s, NEW from \in Nat, NEW to \in Nat, NEW upTo \in Nat, NEW e \in Nat,
         Cutting(s)!RegionEnd \in Nat, to <= upTo, upTo <= Cutting(s)!RegionEnd, e <= to
  PROVE  Cardinality({p \in Cutting(s)!Starts(from, upTo) : p < e})
           <= Cardinality(Cutting(s)!Starts(from, to))
<1>1. {p \in Cutting(s)!Starts(from, upTo) : p < e} \in SUBSET Cutting(s)!Starts(from, to)
  <2>1. \A p \in Cutting(s)!Starts(from, upTo) : p < e => p < to
    <3>1. \A p \in Cutting(s)!Starts(from, upTo) : p \in Nat
      BY StartsAre
    <3>. QED  BY <3>1
  <2>. QED  BY <2>1, StartsCut
<1>. QED  BY <1>1, StartsAre, FS_Subset

(* Where a slice is cut.                                                   *)
LEMMA RegionIs ==
  ASSUME NEW s, CutAssumptions(s), FileTyped(s)
  PROVE  /\ Cutting(s)!RegionEnd \in Nat \ {0} /\ DOMAIN lines = 1 .. Len(lines)
         /\ \A k \in DOMAIN lines : /\ Cutting(s)!ProjectedStart(k) \in Nat
                                    /\ Cutting(s)!ProjectedEnd(k) \in 0 .. Cutting(s)!RegionEnd
<1>1. PICK n \in Nat \ {0} : n = Len(lines) /\ DOMAIN lines = 1 .. n
  BY DEF FileTyped
<1>2. /\ Cutting(s)!ProjectedEnd(0) = 0
      /\ \A i, k \in 0 .. n : /\ Cutting(s)!ProjectedEnd(k) \in Nat
                              /\ i < k => Cutting(s)!ProjectedEnd(i) < Cutting(s)!ProjectedEnd(k)
  BY <1>1, EndsAre, EndsGrow
<1>3. Cutting(s)!RegionEnd = Cutting(s)!ProjectedEnd(n)
  BY <1>1 DEF Cutting!RegionEnd
<1>4. Cutting(s)!RegionEnd \in Nat \ {0}
  BY <1>1, <1>2, <1>3
<1>5. ASSUME NEW k \in 1 .. n
      PROVE  /\ Cutting(s)!ProjectedStart(k) \in Nat
             /\ Cutting(s)!ProjectedEnd(k) \in 0 .. Cutting(s)!RegionEnd
  <2>1. k \in 0 .. n /\ k - 1 \in 0 .. n /\ n \in 0 .. n /\ (k = n \/ k < n)
    BY <1>1
  <2>. QED  BY <1>2, <1>3, <2>1 DEF Cutting!ProjectedStart
<1>. QED  BY <1>1, <1>4, <1>5

LEMMA LineEnds ==
  ASSUME NEW s, CutAssumptions(s), FileTyped(s), NEW o \in 0 .. Cutting(s)!RegionEnd
  PROVE  /\ Cutting(s)!LineEnd(o) \in o .. Cutting(s)!RegionEnd
         /\ Cutting(s)!ProtectedEnd(o) \in o .. Cutting(s)!RegionEnd
         /\ Cutting(s)!ProtectedStart(o) \in 0 .. o
         /\ (\A k \in DOMAIN lines : ~lines[k].redacted) =>
              /\ ~Cutting(s)!InRedacted(o)
              /\ Cutting(s)!ProtectedEnd(o) = o /\ Cutting(s)!ProtectedStart(o) = o
<1>1. Cutting(s)!RegionEnd \in Nat /\ o \in Nat
  BY RegionIs
<1>2. ASSUME \E k \in DOMAIN lines : Cutting(s)!Inside(k, o)
      PROVE  LET k == CHOOSE k \in DOMAIN lines : Cutting(s)!Inside(k, o) IN
             /\ Cutting(s)!ProjectedEnd(k) \in o .. Cutting(s)!RegionEnd
             /\ Cutting(s)!ProjectedStart(k) \in 0 .. o
  <2>1. PICK j \in DOMAIN lines :
          j = (CHOOSE k \in DOMAIN lines : Cutting(s)!Inside(k, o)) /\ Cutting(s)!Inside(j, o)
    BY <1>2, Zenon
  <2>2. /\ Cutting(s)!ProjectedStart(j) \in Nat
        /\ Cutting(s)!ProjectedEnd(j) \in 0 .. Cutting(s)!RegionEnd
        /\ Cutting(s)!ProjectedStart(j) < o /\ o < Cutting(s)!ProjectedEnd(j)
    BY <2>1, RegionIs DEF Cutting!Inside
  <2>. QED  BY <1>1, <2>1, <2>2
<1>3. Cutting(s)!LineEnd(o) \in o .. Cutting(s)!RegionEnd
  BY <1>1, <1>2 DEF Cutting!LineEnd
<1>4. Cutting(s)!InRedacted(o) => \E k \in DOMAIN lines : Cutting(s)!Inside(k, o)
  BY DEF Cutting!InRedacted
<1>5. Cutting(s)!ProtectedEnd(o) \in o .. Cutting(s)!RegionEnd
  BY <1>1, <1>3 DEF Cutting!ProtectedEnd
<1>6. Cutting(s)!ProtectedStart(o) \in 0 .. o
  BY <1>1, <1>2, <1>4 DEF Cutting!ProtectedStart
<1>7. (\A k \in DOMAIN lines : ~lines[k].redacted) =>
        /\ ~Cutting(s)!InRedacted(o)
        /\ Cutting(s)!ProtectedEnd(o) = o /\ Cutting(s)!ProtectedStart(o) = o
  BY DEF Cutting!InRedacted, Cutting!ProtectedEnd, Cutting!ProtectedStart
<1>. QED  BY <1>3, <1>5, <1>6, <1>7


(* The first end and every later one leave as many tokens as a window      *)
(* takes, unless the region ends there.                                    *)
Filled(s, to) ==
  to # Cutting(s)!RegionEnd => Cardinality(Cutting(s)!Starts(at, to)) >= Cutting(s)!Capacity

LEMMA BudgetIs ==
  ASSUME NEW s, CutAssumptions(s)
  PROVE  /\ s.Limit \in Nat /\ s.Overlap \in Nat /\ s.Special \in Nat
         /\ Cutting(s)!Capacity \in Nat \ {0} /\ s.Overlap < Cutting(s)!Capacity
         /\ s.Limit = Cutting(s)!Capacity + s.Special
BY DEF CutAssumptions, Cutting!BudgetAssumption, Cutting!Capacity

LEMMA FirstEnds ==
  ASSUME NEW s, CutAssumptions(s), FileTyped(s), at \in 0 .. Cutting(s)!RegionEnd - 1
  PROVE  /\ Cutting(s)!FirstEnd \in at + 1 .. Cutting(s)!RegionEnd
         /\ \A to \in Cutting(s)!FirstEnd .. Cutting(s)!RegionEnd : Filled(s, to)
<1>1. PICK R \in Nat \ {0} : R = Cutting(s)!RegionEnd
  BY RegionIs
<1>2. PICK c \in Nat \ {0} : c = Cutting(s)!Capacity /\ s.Limit = c + s.Special /\ s.Special \in Nat
  BY BudgetIs
<1>0. at \in Nat /\ at < R
  BY <1>1
<1>3. PICK S : S = Cutting(s)!Starts(at, R)
  OBVIOUS
<1>4. /\ S \in SUBSET Nat /\ IsFiniteSet(S) /\ Cardinality(S) \in Nat
      /\ \A p \in S : at <= p /\ p < R
      /\ Cutting(s)!Tokens(at, R) = Cardinality(S) + s.Special
  BY <1>0, <1>1, <1>3, StartsAre
<1>5. CASE Cutting(s)!Tokens(at, R) <= s.Limit
  <2>1. Cutting(s)!FirstEnd = R
    BY <1>1, <1>5 DEF Cutting!FirstEnd
  <2>. QED  BY <1>1, <2>1 DEF Filled
<1>6. CASE ~(Cutting(s)!Tokens(at, R) <= s.Limit)
  <2>1. c + 1 \in 1 .. Cardinality(S) /\ c + 1 > 1 /\ c + 1 - 1 = c
    BY <1>2, <1>4, <1>6
  <2>2. PICK p \in Nat : p = Cutting(s)!FirstEnd /\ p = Cutting(s)!Nth(S, c + 1) /\ p \in S
    <3>1. Cutting(s)!FirstEnd = Cutting(s)!Nth(S, c + 1)
      BY <1>1, <1>2, <1>3, <1>6 DEF Cutting!FirstEnd
    <3>2. Cutting(s)!Nth(S, c + 1) \in S
      BY <1>4, <2>1, NthParts
    <3>. QED  BY <1>4, <3>1, <3>2
  <2>3. Cardinality({q \in S : q < p}) = c /\ \E q \in S : q < p
    <3>1. PICK n \in 1 .. Cardinality(S) : n = c + 1 /\ n > 1 /\ n - 1 = c
      BY <2>1
    <3>2. /\ Cardinality({q \in S : q < Cutting(s)!Nth(S, n)}) = n - 1
          /\ \E q \in S : q < Cutting(s)!Nth(S, n)
      BY <1>4, <3>1, NthParts, Zenon
    <3>. QED  BY <2>2, <3>1, <3>2
  <2>4. at < p /\ p < R
    <3>1. PICK q \in S : q < p
      BY <2>3
    <3>2. q \in Nat /\ at <= q /\ p < R
      BY <1>4, <2>2
    <3>. QED  BY <1>1, <2>2, <3>1, <3>2
  <2>5. ASSUME NEW to \in p .. R
        PROVE  Filled(s, to)
    <3>1. Cardinality({q \in S : q < p}) <= Cardinality(Cutting(s)!Starts(at, to))
      <4>1. to \in Nat /\ p <= to /\ to <= R /\ R <= R
        BY <1>1, <2>2, <2>5
      <4>. QED  BY <1>0, <1>1, <1>3, <2>2, <4>1, StartsKept
    <3>2. Cardinality(Cutting(s)!Starts(at, to)) >= c
      <4>1. Cardinality(Cutting(s)!Starts(at, to)) \in Nat
        <5>1. to \in Nat
          BY <1>1, <2>2, <2>5
        <5>. QED  BY <1>0, <5>1, StartsAre
      <4>. QED  BY <2>3, <3>1, <4>1
    <3>. QED  BY <1>2, <3>2 DEF Filled
  <2>. QED  BY <1>1, <2>2, <2>4, <2>5
<1>. QED  BY <1>5, <1>6

LEMMA Expands ==
  ASSUME NEW s, CutAssumptions(s), FileTyped(s), at \in 0 .. Cutting(s)!RegionEnd - 1
  PROVE  LET to == Cutting(s)!Expanded(Cutting(s)!FirstEnd) IN
         to \in at + 1 .. Cutting(s)!RegionEnd /\ Filled(s, to)
<1>1. PICK first \in at + 1 .. Cutting(s)!RegionEnd : first = Cutting(s)!FirstEnd
  BY FirstEnds
<1>2. first \in 0 .. Cutting(s)!RegionEnd /\ Cutting(s)!RegionEnd \in Nat
  BY <1>1, RegionIs
<1>3. /\ Cutting(s)!LineEnd(first) \in first .. Cutting(s)!RegionEnd
      /\ Cutting(s)!ProtectedEnd(first) \in first .. Cutting(s)!RegionEnd
      /\ first \in first .. Cutting(s)!RegionEnd
  BY <1>2, LineEnds
<1>4. Cutting(s)!Expanded(first) \in first .. Cutting(s)!RegionEnd
  BY <1>3 DEF Cutting!Expanded
<1>5. Filled(s, Cutting(s)!Expanded(first))
  BY <1>1, <1>4, FirstEnds
<1>. QED  BY <1>1, <1>2, <1>4, <1>5

LEMMA Shortens ==
  ASSUME NEW s, CutAssumptions(s), FileTyped(s), at \in 0 .. Cutting(s)!RegionEnd - 1,
         end \in 0 .. Cutting(s)!RegionEnd,
         Cardinality(Cutting(s)!Starts(at, end)) > Cutting(s)!Capacity
  PROVE  /\ Cutting(s)!Shorter \in 0 .. Cutting(s)!RegionEnd
         /\ (\A k \in DOMAIN lines : ~lines[k].redacted) =>
              at < Cutting(s)!Shorter /\ Cutting(s)!Shorter < end /\ Filled(s, Cutting(s)!Shorter)
<1>1. PICK R \in Nat \ {0} : R = Cutting(s)!RegionEnd
  BY RegionIs
<1>2. PICK c \in Nat \ {0} : c = Cutting(s)!Capacity
  BY BudgetIs
<1>0. at \in Nat /\ end \in Nat /\ end <= R
  BY <1>1
<1>3. PICK S : S = Cutting(s)!Starts(at, end)
  OBVIOUS
<1>4. /\ S \in SUBSET Nat /\ IsFiniteSet(S) /\ Cardinality(S) \in Nat
      /\ \A p \in S : at <= p /\ p < end
  BY <1>0, <1>3, StartsAre
<1>5. c + 1 \in 1 .. Cardinality(S) /\ c + 1 > 1 /\ c + 1 - 1 = c
  BY <1>2, <1>3, <1>4
<1>6. PICK p \in Nat : p = Cutting(s)!Nth(S, c + 1) /\ p \in S
  BY <1>4, <1>5, NthParts
<1>7. Cardinality({q \in S : q < p}) = c /\ \E q \in S : q < p
  <2>1. PICK n \in 1 .. Cardinality(S) : n = c + 1 /\ n > 1 /\ n - 1 = c
    BY <1>5
  <2>2. /\ Cardinality({q \in S : q < Cutting(s)!Nth(S, n)}) = n - 1
        /\ \E q \in S : q < Cutting(s)!Nth(S, n)
    BY <1>4, <2>1, NthParts, Zenon
  <2>. QED  BY <1>6, <2>1, <2>2
<1>8. at < p /\ p < end
  <2>1. PICK q \in S : q < p
    BY <1>7
  <2>2. q \in Nat /\ at <= q /\ p < end
    BY <1>4, <1>6
  <2>. QED  BY <1>1, <1>6, <2>1, <2>2
<1>9. p \in 0 .. R
  BY <1>1, <1>8
<1>10. /\ Cutting(s)!ProtectedEnd(p) \in p .. R /\ Cutting(s)!ProtectedStart(p) \in 0 .. p
       /\ (\A k \in DOMAIN lines : ~lines[k].redacted) => ~Cutting(s)!InRedacted(p)
  BY <1>1, <1>9, LineEnds
<1>11. Cutting(s)!Shorter =
         IF ~Cutting(s)!InRedacted(p) THEN p
         ELSE IF Cutting(s)!ProtectedStart(p) > at THEN Cutting(s)!ProtectedStart(p)
         ELSE Cutting(s)!ProtectedEnd(p)
  BY <1>2, <1>3, <1>6 DEF Cutting!Shorter
<1>12. Cutting(s)!Shorter \in 0 .. R
  BY <1>1, <1>9, <1>10, <1>11
<1>13. Filled(s, p)
  <2>1. Cardinality({q \in S : q < p}) <= Cardinality(Cutting(s)!Starts(at, p))
    <3>1. p <= end /\ p <= p
      BY <1>0, <1>6, <1>8
    <3>. QED  BY <1>0, <1>1, <1>3, <1>6, <3>1, StartsKept
  <2>2. Cardinality(Cutting(s)!Starts(at, p)) \in Nat
    BY <1>0, <1>6, StartsAre
  <2>. QED  BY <1>2, <1>7, <2>1, <2>2 DEF Filled
<1>. QED  BY <1>1, <1>8, <1>10, <1>11, <1>12, <1>13


(* Without redacted lines every offset is a byte, and bytes grow with them. *)
LEMMA BytesGrow ==
  ASSUME NEW s, CutAssumptions(s), FileTyped(s), \A k \in DOMAIN lines : ~lines[k].redacted,
         NEW o \in 0 .. Cutting(s)!RegionEnd
  PROVE  /\ Cutting(s)!ByteOffset(o) \in Nat /\ Cutting(s)!ByteOffset(o) # Cutting(s)!None
         /\ \A q \in 0 .. Cutting(s)!RegionEnd : o < q =>
              Cutting(s)!ByteOffset(o) < Cutting(s)!ByteOffset(q)
<1>. DEFINE B(x) == Cutting(s)!ByteOffset(x)
            E(k) == Cutting(s)!OriginalEnd(k)
            P(k) == Cutting(s)!ProjectedEnd(k)
<1>1. PICK R \in Nat \ {0}, n \in Nat \ {0} :
        R = Cutting(s)!RegionEnd /\ n = Len(lines) /\ DOMAIN lines = 1 .. n
  <2>1. Cutting(s)!RegionEnd \in Nat \ {0} /\ Len(lines) \in Nat \ {0} /\ DOMAIN lines = 1 .. Len(lines)
    BY RegionIs DEF FileTyped
  <2>. QED  BY <2>1
<1>2. /\ \A k \in 0 .. n : E(k) \in Nat /\ P(k) \in Nat
      /\ \A i, k \in 0 .. n : i < k => E(i) < E(k) /\ P(i) < P(k)
  BY <1>1, EndsGrow
<1>3. B(R) = E(n) /\ B(R) \in Nat
  BY <1>1, <1>2 DEF Cutting!ByteOffset
<1>4. ASSUME NEW x \in 0 .. R - 1
      PROVE  B(x) \in Nat /\ \E k \in 1 .. n : k = Cutting(s)!LineOf(x)
  <2>1. PICK k \in 1 .. n : /\ k = Cutting(s)!LineOf(x)
                            /\ Cutting(s)!ProjectedStart(k) <= x /\ x < Cutting(s)!ProjectedEnd(k)
    BY <1>1, LineFound
  <2>2. x # R /\ ~lines[k].redacted /\ k - 1 \in 0 .. n
    BY <1>1
  <2>3. B(x) = Cutting(s)!OriginalStart(k)
             + (x - Cutting(s)!ProjectedStart(k)) * (lines[k].bytes \div lines[k].chars)
    BY <1>1, <2>1, <2>2 DEF Cutting!ByteOffset
  <2>4. PICK u \in Nat, v \in Nat, w \in Nat :
          /\ u = Cutting(s)!OriginalStart(k) /\ v = x - Cutting(s)!ProjectedStart(k)
          /\ w = lines[k].bytes \div lines[k].chars
    <3>1. Cutting(s)!OriginalStart(k) \in Nat /\ Cutting(s)!ProjectedStart(k) \in Nat
      BY <1>2, <2>2 DEF Cutting!OriginalStart, Cutting!ProjectedStart
    <3>2. x - Cutting(s)!ProjectedStart(k) \in Nat
      BY <2>1, <3>1
    <3>3. lines[k].bytes \div lines[k].chars \in Nat
      <4>1. lines[k].bytes \in Nat /\ lines[k].chars \in Nat \ {0}
        BY <1>1, LinesOK DEF LineOK
      <4>. QED  BY <4>1, Quotients
    <3>. QED  BY <3>1, <3>2, <3>3
  <2>5. u + v * w \in Nat
    OBVIOUS
  <2>. QED  BY <2>1, <2>3, <2>4, <2>5
<1>5. \A x \in 0 .. R : B(x) \in Nat /\ B(x) # Cutting(s)!None
  <2>1. \A x \in 0 .. R : x = R \/ x \in 0 .. R - 1
    BY <1>1
  <2>2. \A x \in 0 .. R : B(x) \in Nat
    BY <1>3, <1>4, <2>1
  <2>. QED  BY <2>2 DEF Cutting!None
<1>6. ASSUME NEW x \in 0 .. R - 1
      PROVE  \E k \in 1 .. n, v \in Nat, w \in Nat \ {0} :
               /\ E(k - 1) <= B(x) /\ B(x) < E(k) /\ P(k - 1) <= x /\ x < P(k)
               /\ v = x - P(k - 1) /\ w = lines[k].bytes \div lines[k].chars
               /\ B(x) = E(k - 1) + v * w
  <2>1. PICK k \in 1 .. n : /\ k = Cutting(s)!LineOf(x)
                            /\ P(k - 1) <= x /\ x < P(k)
    BY <1>1, LineFound DEF Cutting!ProjectedStart
  <2>2. ~lines[k].redacted /\ B(x) # Cutting(s)!None /\ k - 1 \in 0 .. n /\ x \in 0 .. R
    BY <1>1, <1>5
  <2>3. /\ E(k - 1) <= B(x) /\ B(x) < E(k)
        /\ lines[k].bytes \div lines[k].chars \in Nat \ {0}
        /\ B(x) = E(k - 1) + (x - P(k - 1)) * (lines[k].bytes \div lines[k].chars)
    BY <1>1, <2>1, <2>2, ByteFound DEF Cutting!OriginalStart, Cutting!ProjectedStart
  <2>4. x - P(k - 1) \in Nat
    BY <1>2, <2>1, <2>2
  <2>. QED  BY <2>1, <2>3, <2>4
<1>. HIDE DEF B, E, P
<1>7. ASSUME NEW q \in 0 .. R, NEW x \in 0 .. R, x < q
      PROVE  B(x) < B(q)
  <2>1. x \in 0 .. R - 1
    BY <1>1, <1>7
  <2>2. PICK k \in 1 .. n, v \in Nat, w \in Nat \ {0} :
               /\ E(k - 1) <= B(x) /\ B(x) < E(k) /\ P(k - 1) <= x /\ x < P(k)
               /\ v = x - P(k - 1) /\ w = lines[k].bytes \div lines[k].chars
               /\ B(x) = E(k - 1) + v * w
    BY <1>6, <2>1
  <2>3. B(x) \in Nat /\ B(q) \in Nat
    BY <1>5
  <2>4. CASE q = R
    <3>1. E(k) <= E(n) /\ E(k) \in Nat /\ E(n) \in Nat
      <4>1. k = n \/ k < n
        BY <1>1
      <4>. QED  BY <1>1, <1>2, <4>1
    <3>. QED  BY <1>3, <2>2, <2>3, <2>4, <3>1
  <2>5. CASE q # R
    <3>1. q \in 0 .. R - 1
      BY <1>1, <2>5
    <3>2. PICK j \in 1 .. n, y \in Nat, z \in Nat \ {0} :
               /\ E(j - 1) <= B(q) /\ B(q) < E(j) /\ P(j - 1) <= q /\ q < P(j)
               /\ y = q - P(j - 1) /\ z = lines[j].bytes \div lines[j].chars
               /\ B(q) = E(j - 1) + y * z
      BY <1>6, <3>1
    <3>3. ~(j < k)
      <4>1. SUFFICES ASSUME j < k
                     PROVE  FALSE
        OBVIOUS
      <4>2. j = k - 1 \/ j < k - 1
        BY <4>1
      <4>3. P(j) <= P(k - 1) /\ P(j) \in Nat /\ P(k - 1) \in Nat
        <5>1. j \in 0 .. n /\ k - 1 \in 0 .. n
          BY <1>1
        <5>. QED  BY <1>2, <4>2, <5>1
      <4>. QED  BY <1>7, <2>2, <3>2, <4>3
    <3>4. CASE k < j
      <4>1. k = j - 1 \/ k < j - 1
        BY <3>4
      <4>2. E(k) <= E(j - 1) /\ E(k) \in Nat /\ E(j - 1) \in Nat
        <5>1. k \in 0 .. n /\ j - 1 \in 0 .. n
          BY <1>1
        <5>. QED  BY <1>2, <4>1, <5>1
      <4>. QED  BY <2>2, <2>3, <3>2, <4>2
    <3>5. CASE k = j
      <4>1. z = w /\ E(j - 1) = E(k - 1) /\ P(j - 1) = P(k - 1)
        BY <2>2, <3>2, <3>5
      <4>2. P(k - 1) \in Nat /\ E(k - 1) \in Nat
        <5>1. k - 1 \in 0 .. n
          BY <1>1
        <5>. QED  BY <1>2, <5>1
      <4>3. v < y
        BY <1>7, <2>2, <3>2, <4>1, <4>2
      <4>4. v * w \in Nat /\ y * w \in Nat /\ v * w + w <= y * w
        BY <4>3, Products
      <4>5. PICK g \in Nat, h \in Nat : g = v * w /\ h = y * w
        BY <4>4
      <4>6. B(x) = E(k - 1) + g /\ B(q) = E(k - 1) + h /\ g + w <= h
        BY <2>2, <3>2, <4>1, <4>4, <4>5
      <4>. QED  BY <4>2, <4>6
    <3>. QED  BY <1>1, <3>3, <3>4, <3>5
  <2>. QED  BY <2>4, <2>5
<1>. QED  BY <1>1, <1>5, <1>7 DEF B

LEMMA Increasing ==
  ASSUME NEW m \in Nat, NEW f, \A i \in 1 .. m : f[i] \in Nat,
         \A i \in 1 .. m - 1 : f[i] < f[i + 1]
  PROVE  \A i, j \in 1 .. m : i < j => f[i] < f[j]
<1>. SUFFICES ASSUME NEW i \in 1 .. m, NEW j \in 1 .. m, i < j
              PROVE  f[i] < f[j]
  OBVIOUS
<1>. DEFINE Bad == {k \in 1 .. m : i < k /\ ~(f[i] < f[k])}
<1>1. SUFFICES ASSUME Bad # {}
               PROVE  FALSE
  OBVIOUS
<1>2. PICK k \in Bad : \A x \in Bad : k <= x
  <2>1. Bad \in SUBSET Nat
    OBVIOUS
  <2>. QED  BY <1>1, <2>1, LeastNat
<1>3. k - 1 \in 1 .. m - 1 /\ k - 1 \in 1 .. m /\ k - 1 + 1 = k /\ ~(k <= k - 1)
  OBVIOUS
<1>4. f[k - 1] < f[k]
  BY <1>3
<1>5. CASE k - 1 = i
  BY <1>4, <1>5
<1>6. CASE k - 1 # i
  <2>1. i < k - 1
    BY <1>6
  <2>2. f[i] < f[k - 1]
    BY <1>2, <1>3, <2>1
  <2>. QED  BY <1>3, <1>4, <2>2
<1>. QED  BY <1>5, <1>6


(* The windows so far: they fit, and each of them shares tokens with the   *)
(* next one.                                                               *)
Continued(s, window, from) ==
  /\ Cardinality({p \in Cutting(s)!Starts(window[1], window[2]) : p >= from}) >= s.Overlap
  /\ window[1] < from /\ from < window[2]
WindowsKept(s) ==
  /\ \A i \in 1 .. Len(windows) :
       /\ windows[i][1] < windows[i][2]
       /\ Cutting(s)!Tokens(windows[i][1], windows[i][2]) <= s.Limit
  /\ \A i \in 1 .. Len(windows) - 1 : Continued(s, windows[i], windows[i + 1][1])
  /\ Len(windows) > 0 => windows[1][1] = 0

(* Then they are a list of ranges without gap.                             *)
LEMMA MapSucceeds ==
  ASSUME NEW s, CutAssumptions(s), FileTyped(s), \A k \in DOMAIN lines : ~lines[k].redacted,
         RangesKept(s), WindowsKept(s), Len(windows) > 0,
         windows[Len(windows)][2] = Cutting(s)!RegionEnd
  PROVE  LET ranges == [i \in DOMAIN windows |-> Cutting(s)!Mapped(windows[i])] IN
         /\ \A i \in DOMAIN ranges : Cutting(s)!None # ranges[i][1] /\ ranges[i][1] < ranges[i][2]
         /\ \A i, j \in DOMAIN ranges : i # j => ranges[i] # ranges[j]
         /\ Cutting(s)!RangesCover(ranges, Cutting(s)!OriginalEnd(Len(lines)))
<1>. DEFINE B(x) == Cutting(s)!ByteOffset(x)
            ranges == [i \in DOMAIN windows |-> Cutting(s)!Mapped(windows[i])]
<1>1. PICK m \in Nat \ {0}, R \in Nat \ {0} :
        m = Len(windows) /\ DOMAIN windows = 1 .. m /\ R = Cutting(s)!RegionEnd
  <2>1. Len(windows) \in Nat \ {0} /\ DOMAIN windows = 1 .. Len(windows)
    BY DEF RangesKept
  <2>. QED  BY <2>1, RegionIs
<1>2. /\ \A x \in 0 .. R : B(x) \in Nat /\ B(x) # Cutting(s)!None
      /\ \A x, y \in 0 .. R : x < y => B(x) < B(y)
      /\ B(R) = Cutting(s)!OriginalEnd(Len(lines))
  <2>1. B(R) = Cutting(s)!OriginalEnd(Len(lines))
    BY <1>1 DEF Cutting!ByteOffset
  <2>. QED  BY <1>1, <2>1, BytesGrow
<1>. DEFINE a == [i \in 1 .. m |-> windows[i][1]]
            e == [i \in 1 .. m |-> windows[i][2]]
<1>3. \A i \in 1 .. m : /\ a[i] = windows[i][1] /\ e[i] = windows[i][2]
                        /\ a[i] \in 0 .. R /\ e[i] \in 0 .. R /\ a[i] < e[i]
  <2>1. ASSUME NEW i \in 1 .. m
        PROVE  windows[i][1] \in 0 .. R /\ windows[i][2] \in 0 .. R /\ windows[i][1] < windows[i][2]
    <3>1. windows[i] \in (0 .. R) \X (1 .. R) /\ windows[i][1] < windows[i][2]
      BY <1>1 DEF RangesKept, WindowsKept
    <3>. QED  BY <1>1, <3>1
  <2>. QED  BY <2>1
<1>4. \A i \in 1 .. m - 1 : a[i] < a[i + 1] /\ a[i + 1] < e[i]
  <2>1. ASSUME NEW i \in 1 .. m - 1
        PROVE  windows[i][1] < windows[i + 1][1] /\ windows[i + 1][1] < windows[i][2]
    BY <1>1 DEF WindowsKept, Continued
  <2>2. \A i \in 1 .. m - 1 : i \in 1 .. m /\ i + 1 \in 1 .. m
    BY <1>1
  <2>. QED  BY <1>3, <2>1, <2>2
<1>5. a[1] = 0 /\ e[m] = R
  BY <1>1, <1>3 DEF WindowsKept
<1>6. DOMAIN ranges = 1 .. m /\ \A i \in 1 .. m : ranges[i] = <<B(a[i]), B(e[i])>>
  BY <1>1, <1>3 DEF Cutting!Mapped
<1>. HIDE DEF B, a, e, ranges
<1>7. \A i, j \in 1 .. m : i < j => a[i] < a[j]
  <2>1. \A i \in 1 .. m : a[i] \in Nat
    BY <1>1, <1>3
  <2>. QED  BY <1>1, <1>4, <2>1, Increasing
<1>8. \A i \in 1 .. m : Cutting(s)!None # ranges[i][1] /\ ranges[i][1] < ranges[i][2]
  <2>1. TAKE i \in 1 .. m
  <2>2. a[i] \in 0 .. R /\ e[i] \in 0 .. R /\ a[i] < e[i]
    BY <1>3
  <2>3. B(a[i]) # Cutting(s)!None /\ B(a[i]) < B(e[i])
    BY <1>2, <2>2
  <2>4. ranges[i] = <<B(a[i]), B(e[i])>>
    BY <1>6
  <2>. QED  BY <2>3, <2>4
<1>9. \A i, j \in 1 .. m : i # j => ranges[i] # ranges[j]
  <2>1. \A i, j \in 1 .. m : i < j => ranges[i] # ranges[j]
    <3>1. TAKE i, j \in 1 .. m
    <3>2. HAVE i < j
    <3>3. a[i] < a[j] /\ a[i] \in 0 .. R /\ a[j] \in 0 .. R
      BY <1>3, <1>7, <3>2
    <3>4. B(a[i]) < B(a[j]) /\ B(a[i]) \in Nat /\ B(a[j]) \in Nat
      BY <1>2, <3>3
    <3>5. B(a[i]) # B(a[j])
      BY <3>4
    <3>. QED  BY <1>6, <3>5
  <2>2. \A i, j \in 1 .. m : i # j => i < j \/ j < i
    OBVIOUS
  <2>. QED  BY <2>1, <2>2
<1>10. ASSUME NEW i \in 1 .. m, ranges[i][2] < B(R)
       PROVE  \E j \in 1 .. m : ranges[j][1] <= ranges[i][2] /\ ranges[i][2] < ranges[j][2]
  <2>1. e[i] < R
    <3>1. ranges[i][2] = B(e[i]) /\ B(R) \in Nat /\ e[i] \in 0 .. R
      BY <1>1, <1>2, <1>3, <1>6
    <3>2. e[i] # R
      BY <1>10, <3>1
    <3>. QED  BY <1>1, <3>1, <3>2
  <2>. DEFINE Further == {j \in 1 .. m : i < j /\ e[i] < e[j]}
  <2>2. m \in Further
    <3>1. i # m
      BY <1>1, <1>5, <2>1
    <3>. QED  BY <1>1, <1>5, <2>1, <3>1
  <2>3. PICK j \in Further : \A k \in Further : j <= k
    <3>1. Further \in SUBSET Nat /\ Further # {}
      BY <2>2
    <3>. QED  BY <3>1, LeastNat
  <2>4. j \in 1 .. m /\ i < j /\ e[i] < e[j] /\ j - 1 \in 1 .. m - 1 /\ j - 1 \in 1 .. m
        /\ j - 1 + 1 = j /\ ~(j <= j - 1) /\ (j - 1 = i \/ i < j - 1)
    BY <1>1
  <2>5. e[j - 1] <= e[i]
    <3>1. CASE j - 1 = i
      BY <1>1, <1>3, <3>1
    <3>2. CASE i < j - 1
      <4>1. ~(e[i] < e[j - 1])
        BY <2>3, <2>4, <3>2
      <4>2. e[i] \in 0 .. R /\ e[j - 1] \in 0 .. R
        BY <1>3, <2>4
      <4>. QED  BY <1>1, <4>1, <4>2
    <3>. QED  BY <2>4, <3>1, <3>2
  <2>6. a[j] < e[i]
    <3>1. a[j - 1 + 1] < e[j - 1]
      BY <1>4, <2>4
    <3>2. a[j] \in 0 .. R /\ e[j - 1] \in 0 .. R /\ e[i] \in 0 .. R
      BY <1>3, <2>4
    <3>. QED  BY <1>1, <2>4, <2>5, <3>1, <3>2
  <2>7. a[j] \in 0 .. R /\ e[j] \in 0 .. R /\ e[i] \in 0 .. R
    BY <1>3, <2>4
  <2>8. B(a[j]) <= B(e[i]) /\ B(e[i]) < B(e[j])
    <3>1. B(a[j]) < B(e[i]) /\ B(a[j]) \in Nat /\ B(e[i]) \in Nat
      BY <1>2, <2>6, <2>7
    <3>. QED  BY <1>2, <2>4, <2>7, <3>1
  <2>. QED  BY <1>6, <2>4, <2>8
<1>11. \E i \in 1 .. m : ranges[i][1] = 0
  <2>1. B(0) = 0
    <3>1. 0 \in 0 .. R - 1 /\ 0 # R
      BY <1>1
    <3>2. Cutting(s)!LineOf(0) \in 1 .. Len(lines)
          /\ Cutting(s)!ProjectedStart(Cutting(s)!LineOf(0)) <= 0
      BY <1>1, <3>1, LineFound
    <3>3. PICK k \in 1 .. Len(lines) : k = Cutting(s)!LineOf(0) /\ Cutting(s)!ProjectedEnd(k - 1) <= 0
      BY <3>2 DEF Cutting!ProjectedStart
    <3>4. k - 1 = 0
      <4>1. PICK n \in Nat : n = Len(lines)
        BY DEF FileTyped
      <4>2. k - 1 \in 0 .. n /\ 0 \in 0 .. n /\ (k - 1 = 0 \/ 0 < k - 1)
        BY <4>1
      <4>3. Cutting(s)!ProjectedEnd(0) = 0 /\ Cutting(s)!ProjectedEnd(k - 1) \in Nat
        BY <4>1, <4>2, EndsAre, EndsGrow
      <4>4. 0 < k - 1 => Cutting(s)!ProjectedEnd(0) < Cutting(s)!ProjectedEnd(k - 1)
        BY <4>1, <4>2, EndsGrow
      <4>. QED  BY <3>3, <4>2, <4>3, <4>4
    <3>5. lines[k].bytes \div lines[k].chars \in Nat /\ ~lines[k].redacted
      <4>1. lines[k].bytes \in Nat /\ lines[k].chars \in Nat \ {0} /\ ~lines[k].redacted
        <5>1. LineOK(s, k) /\ k \in DOMAIN lines
          BY LinesOK DEF FileTyped
        <5>. QED  BY <5>1 DEF LineOK
      <4>. QED  BY <4>1, Quotients
    <3>6. B(0) = Cutting(s)!OriginalStart(k)
                 + (0 - Cutting(s)!ProjectedStart(k)) * (lines[k].bytes \div lines[k].chars)
      BY <1>1, <3>1, <3>3, <3>5 DEF Cutting!ByteOffset, B
    <3>7. Cutting(s)!OriginalStart(k) = 0 /\ Cutting(s)!ProjectedStart(k) = 0
      BY <3>4, EndsAre DEF Cutting!OriginalStart, Cutting!ProjectedStart
    <3>. QED  BY <3>5, <3>6, <3>7
  <2>. QED  BY <1>1, <1>5, <1>6, <2>1
<1>12. Cutting(s)!RangesCover(ranges, Cutting(s)!OriginalEnd(Len(lines)))
  BY <1>2, <1>6, <1>10, <1>11 DEF Cutting!RangesCover
<1>. QED  BY <1>6, <1>8, <1>9, <1>12 DEF ranges


(* Where the cutting of a file stands.                                     *)
PlaceKept(s) ==
  /\ phase \in Cutting(s)!Phases
  /\ at \in 0 .. Cutting(s)!RegionEnd - 1 /\ end \in 0 .. Cutting(s)!RegionEnd
  /\ phase = "region" => windows = <<>> /\ at = 0
  /\ phase \in {"cut", "fit"} =>
       IF Len(windows) = 0 THEN at = 0 ELSE Continued(s, windows[Len(windows)], at)
  /\ phase = "map" => Len(windows) > 0 /\ windows[Len(windows)][2] = Cutting(s)!RegionEnd

(* A file without redacted lines is never refused.                         *)
Chunkable(s) == s.Overlap > 0 /\ \A k \in DOMAIN lines : ~lines[k].redacted
NotRefused(s) ==
  Chunkable(s) =>
    /\ Cutting(s)!EveryFileIsChunked
    /\ phase = "cut" => Cutting(s)!Starts(at, Cutting(s)!RegionEnd) # {}
    /\ phase = "fit" => at < end /\ Filled(s, end)

FileInv(s) ==
  /\ FileTyped(s) /\ marks \in [1 .. Cutting(s)!RegionEnd -> s.Marks] /\ fragile \in s.Fragile
  /\ RangesKept(s) /\ ChunksKept(s) /\ WindowsKept(s) /\ PlaceKept(s) /\ NotRefused(s)

LEMMA FileStarts ==
  ASSUME NEW s, CutAssumptions(s), Cutting(s)!Init
  PROVE  FileInv(s)
<1>1. PICK n \in 1 .. s.MaxLines : lines \in [1 .. n -> s.Lines]
  BY DEF Cutting!Init
<1>2. FileTyped(s)
  <2>1. n \in Nat \ {0} /\ Len(lines) = n
    BY <1>1 DEF CutAssumptions, Cutting!LinesAssumption
  <2>. QED  BY <1>1, <2>1 DEF FileTyped
<1>3. /\ windows = <<>> /\ chunks = <<>> /\ phase = "region" /\ at = 0 /\ end = 0
      /\ marks \in [1 .. Cutting(s)!RegionEnd -> s.Marks] /\ fragile \in s.Fragile
  BY DEF Cutting!Init
<1>4. windows = [i \in 1 .. Len(windows) |-> windows[i]] /\ Len(windows) = 0
  BY <1>3
<1>5. RangesKept(s) /\ WindowsKept(s)
  BY <1>4 DEF RangesKept, WindowsKept
<1>6. ChunksKept(s) /\ NotRefused(s)
  BY <1>3 DEF ChunksKept, NotRefused, Cutting!EveryFileIsChunked
<1>7. PlaceKept(s)
  <2>1. Cutting(s)!RegionEnd \in Nat \ {0}
    BY <1>2, RegionIs
  <2>. QED  BY <1>3, <2>1 DEF PlaceKept, Cutting!Phases
<1>. QED  BY <1>2, <1>3, <1>5, <1>6, <1>7 DEF FileInv

(* A step leaves the file alone, so what is known of it stays known.       *)
LEMMA FileSame ==
  ASSUME NEW s, UNCHANGED <<lines, marks, fragile>>
  PROVE  /\ FileTyped(s)' <=> FileTyped(s)
         /\ Cutting(s)!RegionEnd' = Cutting(s)!RegionEnd
         /\ Cutting(s)!OriginalEnd(Len(lines))' = Cutting(s)!OriginalEnd(Len(lines))
         /\ \A from, to : /\ (Cutting(s)!Starts(from, to))' = Cutting(s)!Starts(from, to)
                          /\ (Cutting(s)!Tokens(from, to))' = Cutting(s)!Tokens(from, to)
<1>1. FileTyped(s)' <=> FileTyped(s)
  BY DEF FileTyped
<1>2. Cutting(s)!ProjectedEnds' = Cutting(s)!ProjectedEnds
  BY DEF Cutting!ProjectedEnds
<1>3. Cutting(s)!OriginalEnds' = Cutting(s)!OriginalEnds
  BY DEF Cutting!OriginalEnds
<1>4. Cutting(s)!RegionEnd' = Cutting(s)!RegionEnd
  BY <1>2 DEF Cutting!RegionEnd, Cutting!ProjectedEnd
<1>5. Cutting(s)!OriginalEnd(Len(lines))' = Cutting(s)!OriginalEnd(Len(lines))
  BY <1>3 DEF Cutting!OriginalEnd
<1>6. ASSUME NEW from, NEW to
      PROVE  (Cutting(s)!Starts(from, to))' = Cutting(s)!Starts(from, to)
  BY <1>4 DEF Cutting!Starts, Cutting!CutWord, Cutting!Word
<1>7. ASSUME NEW from, NEW to
      PROVE  (Cutting(s)!Tokens(from, to))' = Cutting(s)!Tokens(from, to)
  BY <1>6 DEF Cutting!Tokens
<1>. QED  BY <1>1, <1>4, <1>5, <1>6, <1>7


LEMMA ContinuedSame ==
  ASSUME NEW s, UNCHANGED <<lines, marks, fragile>>, NEW window, NEW from
  PROVE  Continued(s, window, from)' <=> Continued(s, window, from)
BY FileSame DEF Continued

LEMMA WindowsSame ==
  ASSUME NEW s, RangesKept(s), WindowsKept(s), UNCHANGED <<lines, marks, fragile, windows>>
  PROVE  RangesKept(s)' /\ WindowsKept(s)'
<1>1. RangesKept(s)'
  BY FileSame DEF RangesKept
<1>2. \A i \in 1 .. Len(windows) - 1 : Continued(s, windows[i], windows[i + 1][1])'
  BY ContinuedSame DEF WindowsKept
<1>3. WindowsKept(s)'
  BY <1>2, FileSame DEF WindowsKept
<1>. QED  BY <1>1, <1>3

LEMMA WindowsGrow ==
  ASSUME NEW s, CutAssumptions(s), FileTyped(s), RangesKept(s), WindowsKept(s),
         UNCHANGED <<lines, marks, fragile>>,
         NEW a \in 0 .. Cutting(s)!RegionEnd, NEW b \in 0 .. Cutting(s)!RegionEnd, a < b,
         Cutting(s)!Tokens(a, b) <= s.Limit,
         IF Len(windows) = 0 THEN a = 0 ELSE Continued(s, windows[Len(windows)], a),
         windows' = Append(windows, <<a, b>>)
  PROVE  /\ RangesKept(s)' /\ WindowsKept(s)'
         /\ Len(windows') > 0 /\ windows'[Len(windows')] = <<a, b>>
<1>1. PICK m \in Nat, R \in Nat \ {0} : m = Len(windows) /\ R = Cutting(s)!RegionEnd
  BY RegionIs DEF RangesKept
<1>2. windows \in Seq((0 .. R) \X (1 .. R)) /\ <<a, b>> \in (0 .. R) \X (1 .. R)
  <2>1. \A i \in 1 .. m : windows[i] \in (0 .. R) \X (1 .. R)
    BY <1>1 DEF RangesKept
  <2>2. windows = [i \in 1 .. m |-> windows[i]]
    BY <1>1 DEF RangesKept
  <2>3. windows \in [1 .. m -> (0 .. R) \X (1 .. R)]
    BY <2>1, <2>2
  <2>4. windows \in Seq((0 .. R) \X (1 .. R))
    <3>1. PICK U : U = (0 .. R) \X (1 .. R)
      OBVIOUS
    <3>2. windows \in [1 .. m -> U] /\ m \in Nat
      BY <1>1, <2>3, <3>1
    <3>3. windows \in Seq(U)
      BY <3>2, SeqDef
    <3>. QED  BY <3>1, <3>3
  <2>5. b \in 1 .. R
    BY <1>1
  <2>. QED  BY <1>1, <2>4, <2>5
<1>3. /\ windows' \in Seq((0 .. R) \X (1 .. R)) /\ Len(windows') = m + 1
      /\ \A i \in 1 .. m : windows'[i] = windows[i]
      /\ windows'[m + 1] = <<a, b>>
  BY <1>1, <1>2, AppendProperties
<1>4. RangesKept(s)'
  <2>1. \A i \in 1 .. m + 1 : windows'[i] \in (0 .. R) \X (1 .. R)
    BY <1>3, ElementOfSeq
  <2>2. windows' = [i \in 1 .. m + 1 |-> windows'[i]]
    BY <1>3, LenProperties
  <2>3. Cutting(s)!RegionEnd' = R
    BY <1>1, FileSame
  <2>. QED  BY <1>1, <1>3, <2>1, <2>2, <2>3 DEF RangesKept
<1>5. \A i \in 1 .. m + 1 : i = m + 1 \/ i \in 1 .. m
  BY <1>1
<1>6. ASSUME NEW i \in 1 .. m + 1
      PROVE  /\ windows'[i][1] < windows'[i][2]
             /\ (Cutting(s)!Tokens(windows[i][1], windows[i][2]))' <= s.Limit
  <2>1. (Cutting(s)!Tokens(windows[i][1], windows[i][2]))'
          = Cutting(s)!Tokens(windows'[i][1], windows'[i][2])
    BY FileSame
  <2>2. CASE i = m + 1
    BY <1>3, <2>1, <2>2
  <2>3. CASE i \in 1 .. m
    <3>1. windows[i][1] < windows[i][2] /\ Cutting(s)!Tokens(windows[i][1], windows[i][2]) <= s.Limit
      BY <1>1, <2>3 DEF WindowsKept
    <3>. QED  BY <1>3, <2>1, <2>3, <3>1
  <2>. QED  BY <1>5, <2>2, <2>3
<1>7. ASSUME NEW i \in 1 .. m
      PROVE  Continued(s, windows[i], windows[i + 1][1])'
  <2>1. Continued(s, windows[i], windows[i + 1][1])' <=> Continued(s, windows'[i], windows'[i + 1][1])
    BY ContinuedSame
  <2>2. CASE i = m
    <3>1. Continued(s, windows[m], a)
      BY <1>1, <2>2
    <3>2. windows'[i] = windows[m] /\ windows'[i + 1][1] = a
      BY <1>3, <2>2
    <3>3. Continued(s, windows'[i], windows'[i + 1][1])
      BY <3>1, <3>2
    <3>. QED  BY <2>1, <3>3, Zenon
  <2>3. CASE i # m
    <3>1. i \in 1 .. m - 1 /\ i + 1 \in 1 .. m
      BY <1>1, <2>3
    <3>2. Continued(s, windows[i], windows[i + 1][1])
      BY <1>1, <3>1 DEF WindowsKept
    <3>. QED  BY <1>3, <2>1, <3>1, <3>2
  <2>. QED  BY <2>2, <2>3
<1>8. windows'[1][1] = 0
  <2>1. CASE m = 0
    BY <1>1, <1>3, <2>1
  <2>2. CASE m # 0
    <3>1. windows[1][1] = 0 /\ 1 \in 1 .. m
      BY <1>1, <2>2 DEF WindowsKept
    <3>. QED  BY <1>3, <3>1
  <2>. QED  BY <2>1, <2>2
<1>9. WindowsKept(s)'
  <2>1. m + 1 - 1 = m
    BY <1>1
  <2>. QED  BY <1>3, <1>6, <1>7, <1>8, <2>1 DEF WindowsKept
<1>. QED  BY <1>1, <1>3, <1>4, <1>9


(* One step of the cutting.                                                *)
LEMMA PlaceSame ==
  ASSUME NEW s, UNCHANGED <<lines, marks, fragile, at>>, NEW to
  PROVE  /\ Filled(s, to)' <=> Filled(s, to)
         /\ Chunkable(s)' <=> Chunkable(s)
         /\ (Cutting(s)!Mapped(to))' = Cutting(s)!Mapped(to)
<1>1. Filled(s, to)' <=> Filled(s, to)
  BY FileSame DEF Filled, Cutting!Capacity
<1>2. Chunkable(s)' <=> Chunkable(s)
  BY DEF Chunkable
<1>3. ASSUME NEW o
      PROVE  (Cutting(s)!ByteOffset(o))' = Cutting(s)!ByteOffset(o)
  BY DEF Cutting!ByteOffset, Cutting!RegionEnd, Cutting!OriginalEnd, Cutting!OriginalEnds,
     Cutting!LineOf, Cutting!ProjectedStart, Cutting!ProjectedEnd, Cutting!ProjectedEnds,
     Cutting!OriginalStart, Cutting!None
<1>4. (Cutting(s)!Mapped(to))' = Cutting(s)!Mapped(to)
  BY <1>3 DEF Cutting!Mapped
<1>. QED  BY <1>1, <1>2, <1>4

LEMMA FileKept ==
  ASSUME NEW s, FileInv(s), UNCHANGED <<lines, marks, fragile>>,
         RangesKept(s)', ChunksKept(s)', WindowsKept(s)', PlaceKept(s)', NotRefused(s)'
  PROVE  FileInv(s)'
BY FileSame DEF FileInv

LEMMA FileStops ==
  ASSUME NEW s, FileInv(s), phase # "done", ~Chunkable(s),
         NEW failure \in {"embedding_failed", "backend_failed"}, Cutting(s)!Stop(failure)
  PROVE  FileInv(s)'
<1>1. /\ phase' = failure
      /\ UNCHANGED <<lines, marks, fragile, at, end, windows, chunks>>
  BY DEF Cutting!Stop
<1>2. RangesKept(s)' /\ WindowsKept(s)'
  BY <1>1, WindowsSame DEF FileInv
<1>3. ChunksKept(s)'
  BY <1>1 DEF FileInv, ChunksKept
<1>4. PlaceKept(s)'
  BY <1>1, FileSame DEF FileInv, PlaceKept, Cutting!Phases
<1>5. NotRefused(s)'
  BY <1>1, PlaceSame DEF NotRefused
<1>. QED  BY <1>1, <1>2, <1>3, <1>4, <1>5, FileKept

LEMMA WholeKeeps ==
  ASSUME NEW s, CutAssumptions(s), FileInv(s), Cutting(s)!Whole
  PROVE  FileInv(s)'
<1>1. PICK R \in Nat \ {0} : R = Cutting(s)!RegionEnd
  BY RegionIs DEF FileInv
<1>2. /\ UNCHANGED <<lines, marks, fragile, at, end, chunks>>
      /\ phase = "region" /\ windows = <<>> /\ at = 0 /\ chunks = <<>> /\ end \in 0 .. R
  BY <1>1 DEF Cutting!Whole, FileInv, PlaceKept, ChunksKept
<1>3. CASE Cutting(s)!Tokens(0, R) <= s.Limit
  <2>1. windows' = <<<<0, R>>>> /\ phase' = "map"
    BY <1>1, <1>3 DEF Cutting!Whole
  <2>2. windows' = Append(windows, <<0, R>>) /\ Len(windows) = 0
    BY <1>2, <2>1
  <2>3. 0 \in 0 .. R /\ R \in 0 .. R /\ 0 < R
    BY <1>1
  <2>4. /\ RangesKept(s)' /\ WindowsKept(s)'
        /\ Len(windows') > 0 /\ windows'[Len(windows')] = <<0, R>>
    BY <1>1, <1>2, <1>3, <2>2, <2>3, WindowsGrow DEF FileInv
  <2>5. ChunksKept(s)'
    BY <1>2, <2>1 DEF ChunksKept
  <2>6. PlaceKept(s)'
    <3>1. Cutting(s)!RegionEnd' = R
      BY <1>1, <1>2, FileSame
    <3>2. windows'[Len(windows')][2] = R
      BY <2>4
    <3>. QED  BY <1>1, <1>2, <2>1, <2>4, <3>1, <3>2 DEF PlaceKept, Cutting!Phases
  <2>7. NotRefused(s)'
    BY <2>1 DEF NotRefused, Cutting!EveryFileIsChunked
  <2>. QED  BY <1>2, <2>4, <2>5, <2>6, <2>7, FileKept
<1>4. CASE ~(Cutting(s)!Tokens(0, R) <= s.Limit)
  <2>1. phase' = "cut" /\ windows' = windows
    BY <1>1, <1>4 DEF Cutting!Whole
  <2>2. RangesKept(s)' /\ WindowsKept(s)'
    BY <1>2, <2>1, WindowsSame DEF FileInv
  <2>3. ChunksKept(s)'
    BY <1>2, <2>1 DEF ChunksKept
  <2>4. PlaceKept(s)'
    <3>1. Cutting(s)!RegionEnd' = R
      BY <1>1, <1>2, FileSame
    <3>2. Len(windows') = 0
      BY <1>2, <2>1
    <3>. QED  BY <1>1, <1>2, <2>1, <3>1, <3>2 DEF PlaceKept, Cutting!Phases
  <2>5. Cutting(s)!Starts(0, R) # {}
    <3>1. /\ Cutting(s)!Tokens(0, R) = Cardinality(Cutting(s)!Starts(0, R)) + s.Special
          /\ Cardinality(Cutting(s)!Starts(0, R)) \in Nat
      BY <1>1, StartsAre
    <3>2. s.Limit \in Nat /\ s.Special \in Nat /\ s.Special <= s.Limit
      BY BudgetIs
    <3>3. Cardinality(Cutting(s)!Starts(0, R)) # 0
      BY <1>4, <3>1, <3>2
    <3>. QED  BY <3>3, FS_EmptySet
  <2>6. NotRefused(s)'
    <3>1. Cutting(s)!Starts(at, Cutting(s)!RegionEnd)' = Cutting(s)!Starts(0, R)
      BY <1>1, <1>2, FileSame
    <3>. QED  BY <2>1, <2>5, <3>1 DEF NotRefused, Cutting!EveryFileIsChunked
  <2>. QED  BY <1>2, <2>1, <2>2, <2>3, <2>4, <2>6, FileKept
<1>. QED  BY <1>3, <1>4

LEMMA CutKeeps ==
  ASSUME NEW s, CutAssumptions(s), FileInv(s), Cutting(s)!Cut
  PROVE  FileInv(s)'
<1>1. PICK R \in Nat \ {0} : R = Cutting(s)!RegionEnd
  BY RegionIs DEF FileInv
<1>2. phase = "cut" /\ at \in 0 .. R - 1 /\ FileTyped(s) /\ chunks = <<>>
  BY <1>1 DEF Cutting!Cut, FileInv, PlaceKept, ChunksKept
<1>3. CASE Cutting(s)!Cuttable
  <2>1. /\ end' = Cutting(s)!Expanded(Cutting(s)!FirstEnd) /\ phase' = "fit"
        /\ UNCHANGED <<lines, marks, fragile, at, windows, chunks>>
    BY <1>3 DEF Cutting!Cut
  <2>2. end' \in at + 1 .. R /\ Filled(s, end')
    BY <1>1, <1>2, <2>1, Expands
  <2>3. RangesKept(s)' /\ WindowsKept(s)'
    BY <2>1, WindowsSame DEF FileInv
  <2>4. ChunksKept(s)'
    BY <1>2, <2>1 DEF ChunksKept
  <2>5. PlaceKept(s)'
    <3>1. Cutting(s)!RegionEnd' = R
      BY <1>1, <2>1, FileSame
    <3>2. end' \in 0 .. R
      BY <1>1, <1>2, <2>2
    <3>3. IF Len(windows) = 0 THEN at = 0 ELSE Continued(s, windows[Len(windows)], at)
      BY <1>2 DEF FileInv, PlaceKept
    <3>4. IF Len(windows') = 0 THEN at' = 0 ELSE Continued(s, windows[Len(windows)], at)'
      BY <2>1, <3>3, ContinuedSame
    <3>. QED  BY <1>1, <1>2, <2>1, <3>1, <3>2, <3>4 DEF PlaceKept, Cutting!Phases
  <2>6. NotRefused(s)'
    <3>1. at' < end'
      BY <1>1, <1>2, <2>1, <2>2
    <3>2. Filled(s, end)'
      BY <2>1, <2>2, FileSame DEF Filled, Cutting!Capacity
    <3>. QED  BY <2>1, <3>1, <3>2 DEF NotRefused, Cutting!EveryFileIsChunked
  <2>. QED  BY <2>1, <2>3, <2>4, <2>5, <2>6, FileKept
<1>4. CASE ~Cutting(s)!Cuttable
  <2>1. Cutting(s)!Stop("embedding_failed")
    BY <1>4 DEF Cutting!Cut
  <2>2. ~Chunkable(s)
    <3>1. SUFFICES ASSUME Chunkable(s)
                   PROVE  Cutting(s)!Cuttable
      BY <1>4
    <3>2. Cutting(s)!Starts(at, R) # {}
      BY <1>1, <1>2, <3>1 DEF FileInv, NotRefused
    <3>3. /\ Cutting(s)!Tokens(at, R) = Cardinality(Cutting(s)!Starts(at, R)) + s.Special
          /\ Cardinality(Cutting(s)!Starts(at, R)) \in Nat
      <4>1. at \in Nat
        BY <1>2
      <4>. QED  BY <1>1, <4>1, StartsAre
    <3>4. /\ s.Limit = Cutting(s)!Capacity + s.Special /\ Cutting(s)!Capacity \in Nat
          /\ s.Special \in Nat /\ s.Overlap \in Nat /\ s.Overlap < Cutting(s)!Capacity
      BY BudgetIs
    <3>5. Cutting(s)!Capacity > s.Overlap
      BY <3>4
    <3>6. Cutting(s)!Tokens(at, R) > s.Limit
            => Cardinality(Cutting(s)!Starts(at, R)) > Cutting(s)!Capacity
      BY <3>3, <3>4
    <3>. QED  BY <1>1, <3>2, <3>5, <3>6, CutCardinality DEF Cutting!Cuttable
  <2>. QED  BY <1>2, <2>1, <2>2, FileStops
<1>. QED  BY <1>3, <1>4


LEMMA CutAgainKeeps ==
  ASSUME NEW s, CutAssumptions(s), FileInv(s), Cutting(s)!CutAgain
  PROVE  FileInv(s)'
<1>1. PICK R \in Nat \ {0} : R = Cutting(s)!RegionEnd
  BY RegionIs DEF FileInv
<1>2. /\ phase = "fit" /\ at \in 0 .. R - 1 /\ end \in 0 .. R /\ FileTyped(s) /\ chunks = <<>>
      /\ at >= end \/ Cutting(s)!Tokens(at, end) > s.Limit
  BY <1>1 DEF Cutting!CutAgain, FileInv, PlaceKept, ChunksKept
<1>. DEFINE Goes ==
       /\ at < end /\ Cutting(s)!Capacity > 0
       /\ Cutting(s)!Cardinality(Cutting(s)!Starts(at, end)) > Cutting(s)!Capacity
       /\ at < Cutting(s)!Shorter /\ Cutting(s)!Shorter < end
<1>3. CASE Goes
  <2>1. /\ end' = Cutting(s)!Shorter
        /\ UNCHANGED <<lines, marks, fragile, at, windows, chunks, phase>>
    BY <1>3 DEF Cutting!CutAgain
  <2>2. Cardinality(Cutting(s)!Starts(at, end)) > Cutting(s)!Capacity
    BY <1>3, CutCardinality
  <2>3. /\ end' \in 0 .. R
        /\ (\A k \in DOMAIN lines : ~lines[k].redacted) => at < end' /\ Filled(s, end')
    BY <1>1, <1>2, <2>1, <2>2, Shortens
  <2>4. RangesKept(s)' /\ WindowsKept(s)'
    BY <2>1, WindowsSame DEF FileInv
  <2>5. ChunksKept(s)'
    BY <1>2, <2>1 DEF ChunksKept
  <2>6. PlaceKept(s)'
    <3>1. Cutting(s)!RegionEnd' = R
      BY <1>1, <2>1, FileSame
    <3>3. IF Len(windows) = 0 THEN at = 0 ELSE Continued(s, windows[Len(windows)], at)
      BY <1>2 DEF FileInv, PlaceKept
    <3>4. IF Len(windows') = 0 THEN at' = 0 ELSE Continued(s, windows[Len(windows)], at)'
      BY <2>1, <3>3, ContinuedSame
    <3>. QED  BY <1>1, <1>2, <2>1, <2>3, <3>1, <3>4 DEF PlaceKept, Cutting!Phases
  <2>7. NotRefused(s)'
    <3>1. ASSUME Chunkable(s)
          PROVE  at' < end' /\ Filled(s, end)'
      <4>1. at < end' /\ Filled(s, end')
        BY <2>3, <3>1 DEF Chunkable
      <4>. QED  BY <2>1, <4>1, FileSame DEF Filled, Cutting!Capacity
    <3>2. Chunkable(s)' <=> Chunkable(s)
      BY <2>1, PlaceSame
    <3>. QED  BY <1>2, <2>1, <3>1, <3>2 DEF NotRefused, Cutting!EveryFileIsChunked
  <2>. QED  BY <2>1, <2>4, <2>5, <2>6, <2>7, FileKept
<1>4. CASE ~Goes
  <2>1. Cutting(s)!Stop("embedding_failed")
    BY <1>4 DEF Cutting!CutAgain
  <2>2. ~Chunkable(s)
    <3>1. SUFFICES ASSUME Chunkable(s)
                   PROVE  Goes
      BY <1>4
    <3>2. at < end /\ Cutting(s)!Tokens(at, end) > s.Limit /\ at \in Nat /\ end \in Nat
      BY <1>2, <3>1 DEF FileInv, NotRefused
    <3>3. /\ Cutting(s)!Tokens(at, end) = Cardinality(Cutting(s)!Starts(at, end)) + s.Special
          /\ Cardinality(Cutting(s)!Starts(at, end)) \in Nat
      BY <3>2, StartsAre
    <3>4. /\ s.Limit = Cutting(s)!Capacity + s.Special /\ Cutting(s)!Capacity \in Nat \ {0}
          /\ s.Special \in Nat
      BY BudgetIs
    <3>5. Cardinality(Cutting(s)!Starts(at, end)) > Cutting(s)!Capacity /\ Cutting(s)!Capacity > 0
      BY <3>2, <3>3, <3>4
    <3>6. at < Cutting(s)!Shorter /\ Cutting(s)!Shorter < end
      BY <1>1, <1>2, <3>1, <3>5, Shortens DEF Chunkable
    <3>. QED  BY <3>2, <3>5, <3>6, CutCardinality
  <2>. QED  BY <1>2, <2>1, <2>2, FileStops
<1>. QED  BY <1>3, <1>4

(* The next window begins with the last tokens of this one.                *)
LEMMA NextBegins ==
  ASSUME NEW s, CutAssumptions(s), FileTyped(s), at \in 0 .. Cutting(s)!RegionEnd - 1,
         end \in 0 .. Cutting(s)!RegionEnd, Cardinality(Cutting(s)!Starts(at, end)) > s.Overlap
  PROVE  /\ Cutting(s)!NextStart \in Nat
         /\ Cardinality({p \in Cutting(s)!Starts(at, end) : p >= Cutting(s)!NextStart}) >= s.Overlap
         /\ Chunkable(s) =>
              /\ at < Cutting(s)!NextStart /\ Cutting(s)!NextStart < end
              /\ Cutting(s)!Starts(Cutting(s)!NextStart, Cutting(s)!RegionEnd) # {}
<1>1. PICK R \in Nat \ {0} : R = Cutting(s)!RegionEnd
  BY RegionIs
<1>2. PICK v \in Nat : v = s.Overlap
  BY BudgetIs
<1>0. at \in Nat /\ end \in Nat /\ end <= R
  BY <1>1
<1>3. PICK S : S = Cutting(s)!Starts(at, end)
  OBVIOUS
<1>4. /\ S \in SUBSET Nat /\ IsFiniteSet(S)
      /\ \A p \in S : at <= p /\ p < end
  BY <1>0, <1>3, StartsAre
<1>5. PICK c \in Nat : c = Cardinality(S) /\ c > v
  BY <1>0, <1>2, <1>3, StartsAre
<1>6. PICK n \in 1 .. Cardinality(S) :
        /\ n = IF v = 0 THEN 1 ELSE c + 1 - v
        /\ v > 0 => n > 1
        /\ c - n + 1 >= v
  <2>1. CASE v = 0
    <3>1. 1 \in 1 .. Cardinality(S) /\ c - 1 + 1 >= v
      BY <1>5, <2>1
    <3>. QED  BY <2>1, <3>1
  <2>2. CASE v # 0
    <3>1. c + 1 - v \in 1 .. Cardinality(S) /\ c + 1 - v > 1 /\ c - (c + 1 - v) + 1 >= v
      BY <1>5, <2>2
    <3>. QED  BY <2>2, <3>1
  <2>. QED  BY <2>1, <2>2
<1>7. PICK q \in S : /\ q = Cutting(s)!Nth(S, n)
                     /\ Cardinality({p \in S : p >= q}) = c - n + 1
                     /\ n > 1 => \E p \in S : p < q
  BY <1>4, <1>5, NthParts, Zenon
<1>8. q = Cutting(s)!FromLast(Cutting(s)!Starts(at, end), s.Overlap)
  <2>1. Cutting(s)!Cardinality(S) = c
    BY <1>5, CutCardinality
  <2>. QED  BY <1>2, <1>3, <1>6, <1>7, <2>1 DEF Cutting!FromLast
<1>9. q \in Nat /\ at <= q /\ q < end /\ q \in 0 .. R
  <2>1. q \in Nat /\ at <= q /\ q < end
    BY <1>4
  <2>. QED  BY <1>0, <1>1, <2>1
<1>10. PICK x \in 0 .. q : x = Cutting(s)!NextStart
  <2>1. Cutting(s)!NextStart = Cutting(s)!ProtectedStart(q)
    BY <1>8 DEF Cutting!NextStart
  <2>. QED  BY <1>1, <1>9, <2>1, LineEnds
<1>11. Cardinality({p \in S : p >= x}) >= v
  <2>. DEFINE A == {p \in S : p >= q}
              B == {p \in S : p >= x}
  <2>1. A \in SUBSET B /\ B \in SUBSET S
    <3>1. \A p \in S : p >= q => p >= x
      BY <1>4, <1>9, <1>10
    <3>. QED  BY <3>1
  <2>2. IsFiniteSet(B) /\ IsFiniteSet(A)
    BY <1>4, <2>1, FS_Subset
  <2>3. Cardinality(A) <= Cardinality(B) /\ Cardinality(A) \in Nat /\ Cardinality(B) \in Nat
    <3>. HIDE DEF A, B
    <3>. QED  BY <2>1, <2>2, FS_Subset, FS_CardinalityType
  <2>4. Cardinality(A) >= v
    BY <1>6, <1>7
  <2>. HIDE DEF A
  <2>. QED  BY <1>2, <2>3, <2>4
<1>12. ASSUME Chunkable(s)
       PROVE  at < x /\ x < end /\ Cutting(s)!Starts(x, R) # {}
  <2>1. x = q
    <3>1. Cutting(s)!NextStart = Cutting(s)!ProtectedStart(q)
      BY <1>8 DEF Cutting!NextStart
    <3>. QED  BY <1>1, <1>9, <1>10, <1>12, <3>1, LineEnds DEF Chunkable
  <2>2. at < q
    <3>1. n > 1
      BY <1>2, <1>6, <1>12 DEF Chunkable
    <3>2. PICK p \in S : p < q
      BY <1>7, <3>1
    <3>3. p \in Nat /\ at <= p
      BY <1>4
    <3>. QED  BY <1>0, <1>9, <3>2, <3>3
  <2>3. q \in Cutting(s)!Starts(q, R)
    <3>1. marks[q + 1] = "start" \/ marks[q + 1] = "in"
      BY <1>3 DEF Cutting!Starts
    <3>2. q \in q .. R - 1
      BY <1>0, <1>1, <1>9
    <3>. QED  BY <3>1, <3>2, Zenon DEF Cutting!Starts
  <2>. QED  BY <1>9, <2>1, <2>2, <2>3
<1>. QED  BY <1>1, <1>2, <1>3, <1>9, <1>10, <1>11, <1>12


LEMMA WindowKeeps ==
  ASSUME NEW s, CutAssumptions(s), FileInv(s), Cutting(s)!Window
  PROVE  FileInv(s)'
<1>1. PICK R \in Nat \ {0} : R = Cutting(s)!RegionEnd
  BY RegionIs DEF FileInv
<1>2. /\ phase = "fit" /\ at \in 0 .. R - 1 /\ end \in 0 .. R /\ FileTyped(s) /\ chunks = <<>>
      /\ at < end /\ Cutting(s)!Tokens(at, end) <= s.Limit
      /\ RangesKept(s) /\ WindowsKept(s)
      /\ IF Len(windows) = 0 THEN at = 0 ELSE Continued(s, windows[Len(windows)], at)
  BY <1>1 DEF Cutting!Window, FileInv, PlaceKept, ChunksKept
<1>0. at \in Nat /\ end \in Nat /\ end <= R /\ at \in 0 .. R
  BY <1>1, <1>2
<1>3. CASE /\ end = R
           /\ windows' = Append(windows, <<at, end>>)
           /\ phase' = "map"
           /\ UNCHANGED <<lines, marks, fragile, at, end, chunks>>
  <2>1. /\ RangesKept(s)' /\ WindowsKept(s)'
        /\ Len(windows') > 0 /\ windows'[Len(windows')] = <<at, end>>
    BY <1>0, <1>1, <1>2, <1>3, WindowsGrow
  <2>2. ChunksKept(s)'
    BY <1>2, <1>3 DEF ChunksKept
  <2>3. PlaceKept(s)'
    <3>1. Cutting(s)!RegionEnd' = R
      BY <1>1, <1>3, FileSame
    <3>2. windows'[Len(windows')][2] = R
      BY <1>3, <2>1
    <3>. QED  BY <1>2, <1>3, <2>1, <3>1, <3>2 DEF PlaceKept, Cutting!Phases
  <2>4. NotRefused(s)'
    BY <1>3 DEF NotRefused, Cutting!EveryFileIsChunked
  <2>. QED  BY <1>3, <2>1, <2>2, <2>3, <2>4, FileKept
<1>4. CASE /\ end # R
           /\ Cutting(s)!Cardinality(Cutting(s)!Starts(at, end)) > s.Overlap
           /\ at < Cutting(s)!NextStart /\ Cutting(s)!NextStart < end
           /\ windows' = Append(windows, <<at, end>>)
           /\ at' = Cutting(s)!NextStart
           /\ phase' = "cut"
           /\ UNCHANGED <<lines, marks, fragile, end, chunks>>
  <2>1. /\ RangesKept(s)' /\ WindowsKept(s)'
        /\ Len(windows') > 0 /\ windows'[Len(windows')] = <<at, end>>
    <3>1. UNCHANGED <<lines, marks, fragile>> /\ windows' = Append(windows, <<at, end>>)
      BY <1>4
    <3>. QED  BY <1>0, <1>1, <1>2, <3>1, WindowsGrow
  <2>2. ChunksKept(s)'
    BY <1>2, <1>4 DEF ChunksKept
  <2>3. Cardinality(Cutting(s)!Starts(at, end)) > s.Overlap
    BY <1>4, CutCardinality
  <2>4. /\ at' \in Nat
        /\ Cardinality({p \in Cutting(s)!Starts(at, end) : p >= at'}) >= s.Overlap
        /\ Chunkable(s) => Cutting(s)!Starts(at', R) # {}
    BY <1>1, <1>2, <1>4, <2>3, NextBegins
  <2>5. at < at' /\ at' < end
    BY <1>4
  <2>6. Continued(s, <<at, end>>, at')
    BY <2>4, <2>5 DEF Continued
  <2>7. PlaceKept(s)'
    <3>1. Cutting(s)!RegionEnd' = R
      BY <1>1, <1>4, FileSame
    <3>2. at' \in 0 .. R - 1
      BY <1>0, <1>1, <2>4, <2>5
    <3>3. Continued(s, windows[Len(windows)], at)' <=> Continued(s, windows'[Len(windows')], at')
      BY <1>4, FileSame DEF Continued
    <3>4. Continued(s, windows'[Len(windows')], at')
      BY <2>1, <2>6
    <3>5. IF Len(windows') = 0 THEN at' = 0 ELSE Continued(s, windows[Len(windows)], at)'
      BY <2>1, <3>3, <3>4
    <3>. QED  BY <1>2, <1>4, <3>1, <3>2, <3>5 DEF PlaceKept, Cutting!Phases
  <2>8. NotRefused(s)'
    <3>1. Cutting(s)!Starts(at, Cutting(s)!RegionEnd)' = Cutting(s)!Starts(at', R)
      BY <1>1, <1>4, FileSame
    <3>2. Chunkable(s)' <=> Chunkable(s)
      BY <1>4 DEF Chunkable
    <3>. QED  BY <1>4, <2>4, <3>1, <3>2 DEF NotRefused, Cutting!EveryFileIsChunked
  <2>. QED  BY <1>4, <2>1, <2>2, <2>7, <2>8, FileKept
<1>5. CASE /\ end # R
           /\ \/ Cutting(s)!Cardinality(Cutting(s)!Starts(at, end)) <= s.Overlap
              \/ ~(at < Cutting(s)!NextStart /\ Cutting(s)!NextStart < end)
           /\ Cutting(s)!Stop("embedding_failed")
  <2>1. ~Chunkable(s)
    <3>1. SUFFICES ASSUME Chunkable(s)
                   PROVE  FALSE
      OBVIOUS
    <3>2. Cardinality(Cutting(s)!Starts(at, end)) >= Cutting(s)!Capacity
      BY <1>1, <1>2, <1>5, <3>1 DEF FileInv, NotRefused, Filled
    <3>3. Cardinality(Cutting(s)!Starts(at, end)) \in Nat
      BY <1>0, StartsAre
    <3>4. s.Overlap \in Nat /\ Cutting(s)!Capacity \in Nat /\ s.Overlap < Cutting(s)!Capacity
      BY BudgetIs
    <3>5. Cardinality(Cutting(s)!Starts(at, end)) > s.Overlap
      BY <3>2, <3>3, <3>4
    <3>6. at < Cutting(s)!NextStart /\ Cutting(s)!NextStart < end
      BY <1>1, <1>2, <3>1, <3>5, NextBegins
    <3>7. ~(Cardinality(Cutting(s)!Starts(at, end)) <= s.Overlap)
      BY <3>3, <3>4, <3>5
    <3>. QED  BY <1>5, <3>6, <3>7, CutCardinality
  <2>. QED  BY <1>2, <1>5, <2>1, FileStops
<1>. QED  BY <1>1, <1>3, <1>4, <1>5 DEF Cutting!Window

LEMMA MapKeeps ==
  ASSUME NEW s, CutAssumptions(s), FileInv(s), Cutting(s)!Map
  PROVE  FileInv(s)'
<1>. DEFINE ranges == [i \in DOMAIN windows |-> Cutting(s)!Mapped(windows[i])]
            Maps == /\ \A i \in DOMAIN ranges :
                         Cutting(s)!None # ranges[i][1] /\ ranges[i][1] < ranges[i][2]
                    /\ \A i, j \in DOMAIN ranges : i # j => ranges[i] # ranges[j]
                    /\ Cutting(s)!RangesCover(ranges, Cutting(s)!OriginalEnd(Len(lines)))
<1>1. phase = "map" /\ FileTyped(s) /\ RangesKept(s) /\ WindowsKept(s) /\ PlaceKept(s)
  BY DEF Cutting!Map, FileInv
<1>2. CASE Maps
  <2>1. /\ chunks' = ranges /\ phase' = "done"
        /\ UNCHANGED <<lines, marks, fragile, at, end, windows>>
    BY <1>2 DEF Cutting!Map
  <2>2. RangesKept(s)' /\ WindowsKept(s)'
    BY <1>1, <2>1, WindowsSame
  <2>3. ChunksKept(s)'
    <3>1. [i \in DOMAIN windows |-> Cutting(s)!Mapped(windows[i])]' = ranges
      <4>1. \A i \in DOMAIN windows : (Cutting(s)!Mapped(windows[i]))' = Cutting(s)!Mapped(windows[i])
        <5>1. ASSUME NEW i \in DOMAIN windows
              PROVE  (Cutting(s)!Mapped(windows[i]))' = Cutting(s)!Mapped(windows[i])
          <6>1. \A o : (Cutting(s)!ByteOffset(o))' = Cutting(s)!ByteOffset(o)
            BY <2>1 DEF Cutting!ByteOffset, Cutting!RegionEnd, Cutting!OriginalEnd,
               Cutting!OriginalEnds, Cutting!LineOf, Cutting!ProjectedStart,
               Cutting!ProjectedEnd, Cutting!ProjectedEnds, Cutting!OriginalStart, Cutting!None
          <6>. QED  BY <2>1, <6>1 DEF Cutting!Mapped
        <5>. QED  BY <5>1
      <4>. QED  BY <2>1, <4>1
    <3>2. chunks' = [i \in DOMAIN windows |-> Cutting(s)!Mapped(windows[i])]'
      BY <2>1, <3>1
    <3>3. Cutting(s)!OriginalEnd(Len(lines))' = Cutting(s)!OriginalEnd(Len(lines))
      BY <2>1, FileSame
    <3>4. /\ \A i \in DOMAIN chunks' :
               Cutting(s)!None # chunks'[i][1] /\ chunks'[i][1] < chunks'[i][2]
          /\ Cutting(s)!RangesCover(chunks', Cutting(s)!OriginalEnd(Len(lines)))
      BY <1>2, <2>1
    <3>. HIDE DEF ranges, Maps
    <3>. QED  BY <2>1, <3>2, <3>3, <3>4 DEF ChunksKept, Cutting!None, Cutting!RangesCover
  <2>4. PlaceKept(s)'
    BY <1>1, <2>1, FileSame DEF PlaceKept, Cutting!Phases
  <2>5. NotRefused(s)'
    BY <2>1 DEF NotRefused, Cutting!EveryFileIsChunked
  <2>. QED  BY <2>1, <2>2, <2>3, <2>4, <2>5, FileKept
<1>3. CASE ~Maps
  <2>1. Cutting(s)!Stop("backend_failed")
    BY <1>3 DEF Cutting!Map
  <2>2. ~Chunkable(s)
    <3>1. SUFFICES ASSUME Chunkable(s)
                   PROVE  Maps
      BY <1>3
    <3>2. Len(windows) > 0 /\ windows[Len(windows)][2] = Cutting(s)!RegionEnd
      BY <1>1 DEF PlaceKept
    <3>. QED  BY <1>1, <3>1, <3>2, MapSucceeds DEF Chunkable
  <2>. QED  BY <1>1, <2>1, <2>2, FileStops
<1>. QED  BY <1>2, <1>3

LEMMA FileSteps ==
  ASSUME NEW s, CutAssumptions(s), FileInv(s), Cutting(s)!Next
  PROVE  FileInv(s)'
BY WholeKeeps, CutKeeps, CutAgainKeeps, WindowKeeps, MapKeeps DEF Cutting!Next

LEMMA FileUnchanged ==
  ASSUME NEW s, FileInv(s), UNCHANGED <<chunkVars, at, phase>>
  PROVE  FileInv(s)'
<1>1. UNCHANGED <<lines, marks, fragile, at, end, windows, chunks, phase>>
  BY DEF chunkVars
<1>2. RangesKept(s)' /\ WindowsKept(s)'
  BY <1>1, WindowsSame DEF FileInv
<1>3. ChunksKept(s)' /\ PlaceKept(s)' /\ NotRefused(s)'
  <2>1. ChunksKept(s) /\ PlaceKept(s) /\ NotRefused(s)
    BY DEF FileInv
  <2>2. Cutting(s)!OriginalEnds' = Cutting(s)!OriginalEnds /\ Cutting(s)!ProjectedEnds' = Cutting(s)!ProjectedEnds
    BY <1>1 DEF Cutting!OriginalEnds, Cutting!ProjectedEnds
  <2>3. \A o : (Cutting(s)!Mapped(o))' = Cutting(s)!Mapped(o)
    BY <1>1, PlaceSame
  <2>4. ChunksKept(s)'
    BY <1>1, <2>1, <2>3, FileSame DEF ChunksKept, Cutting!None, Cutting!RangesCover
  <2>5. PlaceKept(s)'
    BY <1>1, <2>1, ContinuedSame, FileSame DEF PlaceKept, Cutting!Phases
  <2>6. NotRefused(s)'
    BY <1>1, <2>1, PlaceSame, FileSame DEF NotRefused, Cutting!EveryFileIsChunked
  <2>. QED  BY <2>4, <2>5, <2>6
<1>. QED  BY <1>1, <1>2, <1>3, FileKept


LEMMA FileSafe ==
  ASSUME NEW s, CutAssumptions(s), FileInv(s)
  PROVE  /\ Cutting(s)!TypeOK /\ Cutting(s)!WindowsFit /\ Cutting(s)!WindowsOverlap
         /\ Cutting(s)!ChunksAreWhole
         /\ s.Overlap > 0 /\ (\A k \in DOMAIN lines : ~lines[k].redacted)
              => Cutting(s)!EveryFileIsChunked
<1>1. PICK R \in Nat \ {0} : R = Cutting(s)!RegionEnd
  BY RegionIs DEF FileInv
<1>2. /\ FileTyped(s) /\ RangesKept(s) /\ ChunksKept(s) /\ WindowsKept(s) /\ PlaceKept(s)
      /\ NotRefused(s) /\ DOMAIN windows = 1 .. Len(windows)
  BY DEF FileInv, RangesKept
<1>3. Cutting(s)!TypeOK
  <2>1. lines \in Seq(s.Lines)
    <3>1. PICK n \in Nat : n = Len(lines)
      BY <1>2 DEF FileTyped
    <3>2. lines \in [1 .. n -> s.Lines]
      BY <1>2, <3>1 DEF FileTyped
    <3>. QED  BY <3>1, <3>2, SeqDef
  <2>2. \A i \in DOMAIN windows : windows[i] \in (0 .. R) \X (1 .. R)
    BY <1>1, <1>2 DEF RangesKept
  <2>3. \A i \in DOMAIN chunks : chunks[i] \in Nat \X Nat
    BY <1>2, ChunksSound
  <2>4. marks \in [1 .. R -> s.Marks] /\ fragile \in s.Fragile
    BY <1>1 DEF FileInv
  <2>5. at \in 0 .. R - 1 /\ end \in 0 .. R /\ phase \in Cutting(s)!Phases
    BY <1>1, <1>2 DEF PlaceKept
  <2>. QED  BY <1>1, <2>1, <2>2, <2>3, <2>4, <2>5 DEF Cutting!TypeOK
<1>4. Cutting(s)!WindowsFit
  BY <1>2 DEF WindowsKept, Cutting!WindowsFit
<1>5. Cutting(s)!WindowsOverlap
  <2>1. ASSUME NEW i \in 1 .. Len(windows) - 1
        PROVE  /\ Cutting(s)!Cardinality({p \in Cutting(s)!Starts(windows[i][1], windows[i][2]) :
                                            p >= windows[i + 1][1]}) >= s.Overlap
               /\ windows[i][1] < windows[i + 1][1] /\ windows[i + 1][1] < windows[i][2]
    BY <1>2, CutCardinality DEF WindowsKept, Continued
  <2>. QED  BY <2>1 DEF Cutting!WindowsOverlap
<1>6. Cutting(s)!ChunksAreWhole
  BY <1>2, ChunksSound
<1>7. s.Overlap > 0 /\ (\A k \in DOMAIN lines : ~lines[k].redacted) => Cutting(s)!EveryFileIsChunked
  BY <1>2 DEF NotRefused, Chunkable
<1>. QED  BY <1>3, <1>4, <1>5, <1>6, <1>7

(* Over the settings.                                                      *)
FilesInv == \A i \in DOMAIN FileSettings : part = "file" /\ setting = i => FileInv(FileSettings[i])
LEMMA FilesAssumed ==
  ASSUME NEW i \in DOMAIN FileSettings
  PROVE  CutAssumptions(FileSettings[i])
BY FileAssumption DEF CutAssumptions

LEMMA FilesStart ==
  ASSUME Init
  PROVE  FilesInv
<1>1. SUFFICES ASSUME NEW i \in DOMAIN FileSettings, part = "file", setting = i
               PROVE  FileInv(FileSettings[i])
  BY DEF FilesInv
<1>2. Cutting(FileSettings[i])!Init
  BY <1>1 DEF Init
<1>. QED  BY <1>2, FilesAssumed, FileStarts

LEMMA FilesStep ==
  ASSUME FilesInv, [Next]_vars
  PROVE  FilesInv'
<1>. SUFFICES ASSUME NEW i \in DOMAIN FileSettings, part' = "file", setting' = i
              PROVE  FileInv(FileSettings[i])'
  BY DEF FilesInv
<1>1. CASE UNCHANGED vars
  <2>1. part = "file" /\ setting = i /\ UNCHANGED <<chunkVars, at, phase>>
    BY <1>1 DEF vars
  <2>. QED  BY <2>1, FileUnchanged DEF FilesInv
<1>2. CASE Next
  <2>1. IsFile(i) /\ Cutting(FileSettings[i])!Next
    BY <1>2 DEF Next, IsReview, IsCache, IsIndex, IsQuery, IsFile
  <2>2. FileInv(FileSettings[i])
    BY <2>1 DEF IsFile, FilesInv
  <2>. QED  BY <2>1, <2>2, FilesAssumed, FileSteps
<1>. QED  BY <1>1, <1>2

-----------------------------------------------------------------------------
(* A query and its hits.  Sums: the folds of the community modules are      *)
(* recursive functions on the subsets of a finite set.                      *)

(* Induction over a finite set, for a set P of its subsets.                *)
LEMMA SetInduction ==
  ASSUME NEW S, IsFiniteSet(S), NEW P, {} \in P,
         \A T \in SUBSET S : T # {} /\ (\A x \in T : T \ {x} \in P) => T \in P
  PROVE  \A T \in SUBSET S : T \in P
<1>. DEFINE Bad == {T \in SUBSET S : T \notin P}
            Sizes == {Cardinality(T) : T \in Bad}
<1>1. SUFFICES ASSUME Bad # {}
               PROVE  FALSE
  OBVIOUS
<1>2. \A T \in SUBSET S : IsFiniteSet(T) /\ Cardinality(T) \in Nat
  BY FS_Subset, FS_CardinalityType
<1>3. Sizes \in SUBSET Nat /\ Sizes # {}
  BY <1>1, <1>2
<1>4. PICK k \in Sizes : \A i \in Sizes : k <= i
  <2>. HIDE DEF Sizes
  <2>. QED  BY <1>3, LeastNat
<1>5. PICK T \in Bad : k = Cardinality(T)
  OBVIOUS
<1>6. \A x \in T : T \ {x} \in P
  <2>1. SUFFICES ASSUME NEW x \in T, T \ {x} \notin P
                 PROVE  FALSE
    OBVIOUS
  <2>2. T \ {x} \in Bad
    BY <2>1
  <2>3. k <= Cardinality(T \ {x})
    BY <1>4, <2>2
  <2>4. Cardinality(T \ {x}) = Cardinality(T) - 1
    <3>1. IsFiniteSet(T)
      BY <1>2
    <3>. HIDE DEF Bad
    <3>. QED  BY <2>1, <3>1, FS_RemoveElement
  <2>. QED  BY <1>2, <1>5, <2>3, <2>4
<1>. QED  BY <1>6

IsFold(g, f, S) ==
  g = [T \in SUBSET S |-> IF T = {} THEN 0
                          ELSE f[CHOOSE x \in T : TRUE] + g[T \ {CHOOSE x \in T : TRUE}]]
Fold(f, S) == CHOOSE g : IsFold(g, f, S)

LEMMA SumIs ==
  ASSUME NEW s, NEW f
  PROVE  Querying(s)!SumFunction(f) = Fold(f, DOMAIN f)[DOMAIN f]
BY DEF Querying!SumFunction, Querying!SumFunctionOnSet, Querying!FoldFunctionOnSet,
   Querying!FoldFunction, Querying!MapThenFoldSet, Fold, IsFold

LEMMA FoldExists ==
  ASSUME NEW S, IsFiniteSet(S), NEW f
  PROVE  IsFold(Fold(f, S), f, S)
<1>. DEFINE Any(T) == CHOOSE x \in T : TRUE
            Upto(k) == {T \in SUBSET S : Cardinality(T) <= k}
            Folds(g, k) == g = [T \in Upto(k) |->
                                  IF T = {} THEN 0 ELSE f[Any(T)] + g[T \ {Any(T)}]]
            Bad == {k \in Nat : \A g : ~Folds(g, k)}
<1>1. \A T \in SUBSET S : /\ IsFiniteSet(T) /\ Cardinality(T) \in Nat
                          /\ Cardinality(T) = 0 <=> T = {}
  BY FS_Subset, FS_CardinalityType, FS_EmptySet
<1>2. \A T \in SUBSET S : T # {} =>
        /\ T \ {Any(T)} \in SUBSET S
        /\ Cardinality(T \ {Any(T)}) = Cardinality(T) - 1
  <2>1. TAKE T \in SUBSET S
  <2>2. HAVE T # {}
  <2>3. PICK x \in T : x = Any(T)
    BY <2>2
  <2>4. Cardinality(T \ {x}) = Cardinality(T) - 1
    BY <1>1, FS_RemoveElement
  <2>. QED  BY <2>3, <2>4
<1>. HIDE DEF Any
<1>3. Bad = {}
  <2>1. SUFFICES ASSUME Bad # {}
                 PROVE  FALSE
    OBVIOUS
  <2>2. PICK m \in Bad : \A i \in Bad : m <= i
    <3>1. Bad \in SUBSET Nat
      OBVIOUS
    <3>. HIDE DEF Bad
    <3>. QED  BY <2>1, <3>1, LeastNat
  <2>3. m \in Nat /\ \A g : ~Folds(g, m)
    OBVIOUS
  <2>4. m # 0
    <3>1. \A T \in Upto(0) : T = {}
      BY <1>1
    <3>. DEFINE z == [T \in Upto(0) |-> 0]
    <3>2. z = [T \in Upto(0) |-> IF T = {} THEN 0 ELSE f[Any(T)] + z[T \ {Any(T)}]]
      BY <3>1
    <3>3. Folds(z, 0)
      BY <3>2
    <3>. QED  BY <2>3, <3>3
  <2>5. PICK g : Folds(g, m - 1)
    <3>1. m - 1 \in Nat /\ ~(m <= m - 1)
      BY <2>3, <2>4
    <3>2. m - 1 \notin Bad
      BY <2>2, <3>1
    <3>. QED  BY <3>1, <3>2
  <2>. DEFINE h == [T \in Upto(m) |-> IF T = {} THEN 0 ELSE f[Any(T)] + g[T \ {Any(T)}]]
  <2>6. \A T \in Upto(m - 1) : T \in Upto(m) /\ g[T] = h[T]
    <3>1. TAKE T \in Upto(m - 1)
    <3>2. T \in Upto(m)
      BY <1>1, <2>3
    <3>3. g[T] = IF T = {} THEN 0 ELSE f[Any(T)] + g[T \ {Any(T)}]
      BY <2>5
    <3>. QED  BY <3>2, <3>3
  <2>7. \A T \in Upto(m) : T # {} => g[T \ {Any(T)}] = h[T \ {Any(T)}]
    <3>1. TAKE T \in Upto(m)
    <3>2. HAVE T # {}
    <3>3. T \ {Any(T)} \in Upto(m - 1)
      BY <1>1, <1>2, <2>3, <3>2
    <3>. HIDE DEF h, Upto
    <3>. QED  BY <2>6, <3>3
  <2>8. h = [T \in Upto(m) |-> IF T = {} THEN 0 ELSE f[Any(T)] + h[T \ {Any(T)}]]
    <3>1. \A T \in Upto(m) : h[T] = IF T = {} THEN 0 ELSE f[Any(T)] + h[T \ {Any(T)}]
      <4>1. TAKE T \in Upto(m)
      <4>2. h[T] = IF T = {} THEN 0 ELSE f[Any(T)] + g[T \ {Any(T)}]
        BY Zenon
      <4>3. T # {} => g[T \ {Any(T)}] = h[T \ {Any(T)}]
        BY <2>7, Zenon
      <4>. HIDE DEF h
      <4>. QED  BY <4>2, <4>3, Zenon
    <3>2. h = [T \in Upto(m) |-> h[T]]
      BY Zenon
    <3>. HIDE DEF h, Upto
    <3>. QED  BY <3>1, <3>2
  <2>. HIDE DEF h
  <2>9. Folds(h, m)
    BY <2>8
  <2>. QED  BY <2>3, <2>9
<1>4. PICK g : Folds(g, Cardinality(S))
  <2>1. Cardinality(S) \in Nat
    BY <1>1
  <2>2. Cardinality(S) \notin Bad
    BY <1>3
  <2>. HIDE DEF Folds
  <2>. QED  BY <2>1, <2>2
<1>5. Upto(Cardinality(S)) = SUBSET S
  <2>1. \A T \in SUBSET S : Cardinality(T) <= Cardinality(S)
    BY FS_Subset
  <2>. QED  BY <2>1
<1>. HIDE DEF Upto
<1>6. IsFold(g, f, S)
  BY <1>4, <1>5, Zenon DEF IsFold, Any
<1>. QED  BY <1>6 DEF Fold

Folded(g, f, S) ==
  /\ g[{}] = 0
  /\ \A T \in SUBSET S : g[T] \in Nat
  /\ \A T \in SUBSET S : \A x \in T : g[T] = f[x] + g[T \ {x}]
LEMMA FoldIs ==
  ASSUME NEW S, IsFiniteSet(S), NEW f, \A x \in S : f[x] \in Nat
  PROVE  Folded(Fold(f, S), f, S)
<1>. DEFINE Any(T) == CHOOSE x \in T : TRUE
<1>1. PICK g : g = Fold(f, S)
  OBVIOUS
<1>2. g = [T \in SUBSET S |-> IF T = {} THEN 0 ELSE f[Any(T)] + g[T \ {Any(T)}]]
  <2>1. IsFold(g, f, S)
    BY <1>1, FoldExists
  <2>. QED  BY <2>1, Zenon DEF IsFold
<1>3. \A T \in SUBSET S : T # {} => Any(T) \in T
  OBVIOUS
<1>. HIDE DEF Any
<1>4. g[{}] = 0
  <2>1. {} \in SUBSET S
    OBVIOUS
  <2>. QED  BY <1>2, <2>1
<1>5. \A T \in SUBSET S : T # {} => g[T] = f[Any(T)] + g[T \ {Any(T)}]
  BY <1>2, Zenon
<1>. DEFINE P == {T \in SUBSET S : g[T] \in Nat}
<1>6. \A T \in SUBSET S : T \in P
  <2>1. {} \in P
    BY <1>4
  <2>2. ASSUME NEW T \in SUBSET S, T # {}, \A x \in T : T \ {x} \in P
        PROVE  T \in P
    <3>1. PICK x \in T : x = Any(T)
      BY <1>3, <2>2
    <3>2. g[T] = f[x] + g[T \ {x}]
      BY <1>5, <2>2, <3>1
    <3>3. f[x] \in Nat /\ g[T \ {x}] \in Nat
      BY <2>2, <3>1
    <3>. QED  BY <3>2, <3>3
  <2>. HIDE DEF P
  <2>. QED  BY <2>1, <2>2, SetInduction
<1>. DEFINE Q == {T \in SUBSET S : \A x \in T : g[T] = f[x] + g[T \ {x}]}
<1>7. \A T \in SUBSET S : T \in Q
  <2>1. {} \in Q
    OBVIOUS
  <2>2. ASSUME NEW T \in SUBSET S, T # {}, \A x \in T : T \ {x} \in Q
        PROVE  T \in Q
    <3>1. PICK y \in T : y = Any(T)
      BY <1>3, <2>2
    <3>2. g[T] = f[y] + g[T \ {y}]
      BY <1>5, <2>2, <3>1
    <3>3. ASSUME NEW x \in T
          PROVE  g[T] = f[x] + g[T \ {x}]
      <4>1. CASE x = y
        BY <3>2, <4>1
      <4>2. CASE x # y
        <5>1. x \in T \ {y} /\ y \in T \ {x}
          BY <4>2
        <5>2. PICK U \in SUBSET S : U = (T \ {y}) \ {x} /\ U = (T \ {x}) \ {y}
          <6>1. (T \ {y}) \ {x} \in SUBSET S /\ (T \ {y}) \ {x} = (T \ {x}) \ {y}
            OBVIOUS
          <6>. QED  BY <6>1
        <5>3. g[T \ {y}] = f[x] + g[U]
          <6>1. T \ {y} \in Q
            BY <2>2
          <6>. QED  BY <5>1, <5>2, <6>1
        <5>4. g[T \ {x}] = f[y] + g[U]
          <6>1. T \ {x} \in Q
            BY <2>2
          <6>. QED  BY <5>1, <5>2, <6>1
        <5>5. f[x] \in Nat /\ f[y] \in Nat /\ g[U] \in Nat
          BY <1>6
        <5>. QED  BY <3>2, <5>3, <5>4, <5>5
      <4>. QED  BY <4>1, <4>2
    <3>. QED  BY <3>3
  <2>. HIDE DEF Q
  <2>. QED  BY <2>1, <2>2, SetInduction
<1>8. Folded(g, f, S)
  BY <1>4, <1>6, <1>7 DEF Folded
<1>. QED  BY <1>1, <1>8

LEMMA FoldSame ==
  ASSUME NEW S, IsFiniteSet(S), NEW f, NEW h, \A x \in S : f[x] \in Nat /\ h[x] \in Nat,
         NEW U \in SUBSET S, \A x \in U : f[x] = h[x]
  PROVE  Fold(f, S)[U] = Fold(h, S)[U]
<1>1. PICK F, H : F = Fold(f, S) /\ H = Fold(h, S)
  OBVIOUS
<1>2. /\ F[{}] = 0 /\ H[{}] = 0
      /\ \A T \in SUBSET S : \A x \in T : F[T] = f[x] + F[T \ {x}] /\ H[T] = h[x] + H[T \ {x}]
  <2>1. F[{}] = 0 /\ \A T \in SUBSET S : \A x \in T : F[T] = f[x] + F[T \ {x}]
    <3>1. \A x \in S : f[x] \in Nat
      OBVIOUS
    <3>2. Folded(F, f, S)
      BY <1>1, <3>1, FoldIs
    <3>. QED  BY <3>2 DEF Folded
  <2>2. H[{}] = 0 /\ \A T \in SUBSET S : \A x \in T : H[T] = h[x] + H[T \ {x}]
    <3>1. \A x \in S : h[x] \in Nat
      OBVIOUS
    <3>2. Folded(H, h, S)
      BY <1>1, <3>1, FoldIs
    <3>. QED  BY <3>2 DEF Folded
  <2>. QED  BY <2>1, <2>2, Zenon
<1>. DEFINE P == {T \in SUBSET U : F[T] = H[T]}
<1>3. {} \in P
  BY <1>2
<1>4. ASSUME NEW T \in SUBSET U, T # {}, \A x \in T : T \ {x} \in P
      PROVE  T \in P
  <2>1. PICK x \in T : TRUE
    BY <1>4
  <2>2. T \in SUBSET S /\ f[x] = h[x] /\ F[T \ {x}] = H[T \ {x}]
    BY <1>4
  <2>. QED  BY <1>2, <2>2
<1>5. IsFiniteSet(U)
  BY FS_Subset
<1>6. \A T \in SUBSET U : T \in P
  <2>. HIDE DEF P
  <2>. QED  BY <1>3, <1>4, <1>5, SetInduction
<1>. QED  BY <1>1, <1>6

(* A sum of zeros, and a sum of which one term changes.                     *)
LEMMA SumOfNothing ==
  ASSUME NEW s, NEW S, IsFiniteSet(S), NEW f, DOMAIN f = S, \A x \in S : f[x] = 0
  PROVE  Querying(s)!SumFunction(f) = 0
<1>1. PICK F : F = Fold(f, S)
  OBVIOUS
<1>2. F[{}] = 0 /\ \A T \in SUBSET S : \A x \in T : F[T] = f[x] + F[T \ {x}]
  <2>1. \A x \in S : f[x] \in Nat
    OBVIOUS
  <2>2. Folded(F, f, S)
    BY <1>1, <2>1, FoldIs
  <2>. QED  BY <2>2 DEF Folded
<1>. DEFINE P == {T \in SUBSET S : F[T] = 0}
<1>3. {} \in P
  BY <1>2
<1>4. ASSUME NEW T \in SUBSET S, T # {}, \A x \in T : T \ {x} \in P
      PROVE  T \in P
  <2>1. PICK x \in T : TRUE
    BY <1>4
  <2>2. f[x] = 0 /\ F[T \ {x}] = 0 /\ F[T] = f[x] + F[T \ {x}]
    BY <1>2, <1>4
  <2>. QED  BY <2>2
<1>5. \A T \in SUBSET S : T \in P
  <2>. HIDE DEF P
  <2>. QED  BY <1>3, <1>4, SetInduction
<1>. QED  BY <1>1, <1>5, SumIs

LEMMA SumOfOneMore ==
  ASSUME NEW s, NEW S, IsFiniteSet(S), NEW f, NEW h, DOMAIN f = S, DOMAIN h = S,
         \A x \in S : f[x] \in Nat /\ h[x] \in Nat,
         NEW a \in S, f[a] = 0, \A x \in S : x # a => h[x] = f[x]
  PROVE  /\ Querying(s)!SumFunction(f) \in Nat
         /\ Querying(s)!SumFunction(h) = Querying(s)!SumFunction(f) + h[a]
<1>1. PICK F, H : F = Fold(f, S) /\ H = Fold(h, S)
  OBVIOUS
<1>0. Folded(F, f, S) /\ Folded(H, h, S)
  <2>1. (\A x \in S : f[x] \in Nat) /\ \A x \in S : h[x] \in Nat
    OBVIOUS
  <2>2. Folded(F, f, S)
    BY <1>1, <2>1, FoldIs
  <2>3. Folded(H, h, S)
    BY <1>1, <2>1, FoldIs
  <2>. QED  BY <2>2, <2>3
<1>2. F[S] = f[a] + F[S \ {a}] /\ H[S] = h[a] + H[S \ {a}]
  BY <1>0 DEF Folded
<1>3. F[S \ {a}] = H[S \ {a}] /\ F[S \ {a}] \in Nat /\ F[S] \in Nat
  <2>1. S \ {a} \in SUBSET S /\ \A x \in S \ {a} : f[x] = h[x]
    OBVIOUS
  <2>2. F[S \ {a}] \in Nat /\ F[S] \in Nat
    BY <1>0, <2>1 DEF Folded
  <2>. QED  BY <1>1, <2>1, <2>2, FoldSame
<1>4. Querying(s)!SumFunction(f) = F[S] /\ Querying(s)!SumFunction(h) = H[S]
  BY <1>1, SumIs
<1>. QED  BY <1>2, <1>3, <1>4


(* Rankings.                                                               *)
QueryAssumptions(s) ==
  /\ Querying(s)!BoundsAssumption /\ Querying(s)!ChannelsAssumption
  /\ Querying(s)!IndexAssumption

LEMMA QueryBounds ==
  ASSUME NEW s, QueryAssumptions(s)
  PROVE  /\ s.ChunkCount \in Nat /\ s.MaxContent \in Nat /\ s.Overhead \in Nat
         /\ s.Scale \in Nat /\ s.K \in Nat /\ s.MaxPrompts \subseteq Nat
         /\ s.Queries \in Nat \ {0} /\ s.MaxCandidates \in Nat \ {0} /\ s.MaxResults \in Nat \ {0}
         /\ Querying(s)!Chunks = 1 .. s.ChunkCount
         /\ IsFiniteSet(Querying(s)!Chunks) /\ Cardinality(Querying(s)!Chunks) = s.ChunkCount
<1>1. /\ s.ChunkCount \in Nat /\ s.MaxContent \in Nat /\ s.Overhead \in Nat
      /\ s.Scale \in Nat /\ s.K \in Nat /\ s.MaxPrompts \subseteq Nat
      /\ s.Queries \in Nat \ {0} /\ s.MaxCandidates \in Nat \ {0} /\ s.MaxResults \in Nat \ {0}
  BY DEF QueryAssumptions, Querying!BoundsAssumption
<1>2. IsFiniteSet(1 .. s.ChunkCount) /\ Cardinality(1 .. s.ChunkCount) = s.ChunkCount
  BY <1>1, IntervalCardinality
<1>. QED  BY <1>1, <1>2 DEF Querying!Chunks

LEMMA FusingSame ==
  ASSUME NEW s
  PROVE  /\ \A S : Querying(s)!Cardinality(S) = Cardinality(S)
         /\ \A S, R : Querying(s)!Sorted(S, R) = Sorted(S, R)
BY DEF Querying!Sorted, Querying!Cardinality, Sorted, Cardinality

LEMMA ListIs ==
  ASSUME NEW s, NEW S, NEW most \in Nat, NEW r
  PROVE  r \in Querying(s)!Lists(S, most) <=> \E n \in 0 .. most : r \in [1 .. n -> S]
BY DEF Querying!Lists

IsRanking(s, r) == r \in Querying(s)!Lists(Querying(s)!Chunks, s.MaxCandidates)

LEMMA RankIs ==
  ASSUME NEW s, QueryAssumptions(s), NEW r, IsRanking(s, r), NEW c \in Querying(s)!Range(r)
  PROVE  /\ Querying(s)!Rank(r, c) \in 1 .. s.MaxCandidates
         /\ Querying(s)!Contribution(Querying(s)!Rank(r, c)) \in Nat
<1>1. PICK n \in 0 .. s.MaxCandidates : r \in [1 .. n -> Querying(s)!Chunks]
  BY QueryBounds, ListIs DEF IsRanking
<1>2. \E i \in DOMAIN r : r[i] = c
  BY DEF Querying!Range
<1>3. Querying(s)!Rank(r, c) \in DOMAIN r
  BY <1>2 DEF Querying!Rank
<1>4. PICK k \in Nat, scale \in Nat, m \in Nat \ {0} :
        k = s.K /\ scale = s.Scale /\ m = s.MaxCandidates
  BY QueryBounds
<1>5. PICK v \in 1 .. m : v = Querying(s)!Rank(r, c)
  BY <1>1, <1>3, <1>4
<1>6. scale \div (k + v) \in Nat
  <2>1. k + v \in Nat \ {0}
    BY <1>4, <1>5
  <2>. QED  BY <2>1, Quotients
<1>. QED  BY <1>4, <1>5, <1>6 DEF Querying!Contribution

Top(r, most) == SubSeq(r, 1, IF Len(r) < most THEN Len(r) ELSE most)
IsTop(t, r, n, most, S) ==
  \E m \in 0 .. n : m <= most /\ t \in [1 .. m -> S] /\ \A i \in 1 .. m : t[i] = r[i]
LEMMA TopIs ==
  ASSUME NEW S, NEW n \in Nat, NEW most \in Nat, NEW r \in [1 .. n -> S]
  PROVE  IsTop(Top(r, most), r, n, most, S)
<1>1. Len(r) = n
  OBVIOUS
<1>2. PICK m \in 0 .. n : m = IF Len(r) < most THEN Len(r) ELSE most
  BY <1>1
<1>3. m \in Nat /\ m <= most
  BY <1>1, <1>2
<1>. DEFINE t == SubSeq(r, 1, m)
<1>4. /\ t \in Seq(S) /\ Len(t) = m
      /\ \A i \in 1 .. m : t[i] = r[i]
  <2>1. 1 \in Int /\ m \in Int /\ (IF 1 <= m THEN m - 1 + 1 ELSE 0) = m /\ m - 1 + 1 = m
    BY <1>3
  <2>2. \A i \in 1 .. m : r[i] \in S /\ 1 + i - 1 = i
    <3>1. \A i \in 1 .. m : i \in 1 .. n /\ i \in Int
      BY <1>3
    <3>. QED  BY <3>1
  <2>3. /\ t \in Seq(S) /\ Len(t) = m
        /\ \A i \in 1 .. m - 1 + 1 : t[i] = r[1 + i - 1]
    BY <2>1, <2>2, SubSeqProperties
  <2>. QED  BY <2>1, <2>2, <2>3
<1>5. t \in [1 .. m -> S]
  BY <1>4, LenProperties
<1>6. t = Top(r, most)
  BY <1>2 DEF Top
<1>. HIDE DEF t
<1>7. IsTop(t, r, n, most, S)
  BY <1>3, <1>4, <1>5 DEF IsTop
<1>. QED  BY <1>6, <1>7

LEMMA CutIsRanking ==
  ASSUME NEW s, QueryAssumptions(s), NEW n \in Nat, NEW r \in [1 .. n -> Querying(s)!Chunks]
  PROVE  \E m \in 0 .. n : /\ IsRanking(s, Querying(s)!Cut(r))
                           /\ DOMAIN Querying(s)!Cut(r) = 1 .. m
                           /\ \A i \in 1 .. m : Querying(s)!Cut(r)[i] = r[i]
<1>1. PICK most \in Nat : most = s.MaxCandidates
  BY QueryBounds
<1>0. Querying(s)!Cut(r) = Top(r, most)
  BY <1>1 DEF Querying!Cut, Top
<1>2. PICK m \in 0 .. n :
           /\ m <= most
           /\ Querying(s)!Cut(r) \in [1 .. m -> Querying(s)!Chunks]
           /\ \A i \in 1 .. m : Querying(s)!Cut(r)[i] = r[i]
  <2>1. IsTop(Top(r, most), r, n, most, Querying(s)!Chunks)
    BY <1>1, TopIs
  <2>. QED  BY <1>0, <2>1, Zenon DEF IsTop
<1>3. IsRanking(s, Querying(s)!Cut(r))
  <2>1. m \in 0 .. most
    BY <1>2
  <2>. QED  BY <1>1, <1>2, <2>1, ListIs DEF IsRanking
<1>. QED  BY <1>2, <1>3

(* What the vector backend returns is sorted by score, then by the order   *)
(* of the chunks: the returned order does not matter.                      *)
IsNearest(s, score, f) ==
  /\ f \in [1 .. s.ChunkCount -> Querying(s)!Chunks]
  /\ \A i \in 1 .. s.ChunkCount, d \in Querying(s)!Chunks :
       Querying(s)!Nearer(score, d, f[i]) <=> \E j \in 1 .. i - 1 : d = f[j]
LEMMA NearestIs ==
  ASSUME NEW s, QueryAssumptions(s),
         NEW score \in [Querying(s)!Chunks -> s.Similarities],
         NEW returned \in Querying(s)!Returned(score)
  PROVE  IsNearest(s, score, Querying(s)!Nearest(score, returned))
<1>. DEFINE C == Querying(s)!Chunks
            R == {p \in C \X C : Querying(s)!Nearer(score, p[1], p[2])}
<1>1. PICK n \in Nat : n = s.ChunkCount
  BY QueryBounds
<1>2. C = 1 .. n /\ IsFiniteSet(C) /\ Cardinality(C) = n /\ \A c \in C : c \in Nat /\ score[c] \in Int
  <2>1. s.Similarities \subseteq Int
    BY DEF QueryAssumptions, Querying!IndexAssumption
  <2>. QED  BY <1>1, <2>1, QueryBounds
<1>3. Querying(s)!Range(returned) = C
  <2>1. returned \in [C -> C] /\ \A t \in C : \E x \in C : returned[x] = t
    BY DEF Querying!Returned, Querying!Bijection, Querying!Injection, Querying!Surjection
  <2>. QED  BY <2>1 DEF Querying!Range
<1>4. Querying(s)!Nearest(score, returned) = Sorted(C, R)
  BY <1>3, FusingSame DEF Querying!Nearest
<1>5. \A c, d \in C : <<c, d>> \in R <=> score[c] > score[d] \/ (score[c] = score[d] /\ c < d)
  BY DEF Querying!Nearer
<1>6. \A c, d \in C : <<c, d>> \in R <=> Querying(s)!Nearer(score, c, d)
  OBVIOUS
<1>. HIDE DEF R, C
<1>7. PICK f : f = Sorted(C, R)
  OBVIOUS
<1>8. /\ f \in [1 .. n -> C]
      /\ \A i, j \in 1 .. n : i < j => <<f[i], f[j]>> \in R
      /\ \A x \in C : \E i \in 1 .. n : f[i] = x
      /\ \A x, y \in C : <<x, y>> \in R => <<y, x>> \notin R
      /\ \A x \in C : <<x, x>> \notin R
  <2>1. \A x \in C : <<x, x>> \notin R
    BY <1>2, <1>5
  <2>2. \A x, y, z \in C : <<x, y>> \in R /\ <<y, z>> \in R => <<x, z>> \in R
    BY <1>2, <1>5
  <2>3. \A x, y \in C : x # y => <<x, y>> \in R \/ <<y, x>> \in R
    BY <1>2, <1>5
  <2>4. \A x, y \in C : <<x, y>> \in R => <<y, x>> \notin R
    BY <1>2, <1>5
  <2>5. /\ Sorted(C, R) \in [1 .. Cardinality(C) -> C]
        /\ \A i, j \in 1 .. Cardinality(C) : i < j => <<Sorted(C, R)[i], Sorted(C, R)[j]>> \in R
        /\ \A x \in C : \E i \in 1 .. Cardinality(C) : Sorted(C, R)[i] = x
    BY <1>2, <2>1, <2>2, <2>3, SortedOrdered, Zenon
  <2>. QED  BY <1>2, <1>7, <2>1, <2>4, <2>5, Zenon
<1>9. ASSUME NEW i \in 1 .. n, NEW d \in C
      PROVE  <<d, f[i]>> \in R <=> \E j \in 1 .. i - 1 : d = f[j]
  <2>1. PICK j \in 1 .. n : d = f[j]
    BY <1>8
  <2>2. i \in Nat /\ j \in Nat /\ f[i] \in C
    BY <1>1, <1>8
  <2>3. CASE j < i
    <3>1. j \in 1 .. i - 1
      BY <2>3
    <3>. QED  BY <1>8, <2>1, <2>3, <3>1
  <2>4. CASE ~(j < i)
    <3>1. <<d, f[i]>> \notin R
      <4>1. j = i \/ i < j
        BY <2>2, <2>4
      <4>. QED  BY <1>8, <2>1, <2>2, <4>1
    <3>2. \A k \in 1 .. i - 1 : k \in 1 .. n /\ k < i
      BY <1>1
    <3>3. \A k \in 1 .. i - 1 : d # f[k]
      BY <1>8, <3>1, <3>2
    <3>. QED  BY <3>1, <3>3
  <2>. QED  BY <2>3, <2>4
<1>10. ASSUME NEW i \in 1 .. n, NEW d \in C
       PROVE  Querying(s)!Nearer(score, d, f[i]) <=> \E j \in 1 .. i - 1 : d = f[j]
  <2>1. f[i] \in C
    BY <1>8
  <2>. QED  BY <1>6, <1>9, <2>1
<1>11. IsNearest(s, score, f)
  BY <1>1, <1>8, <1>10 DEF C, IsNearest
<1>. QED  BY <1>4, <1>7, <1>11

RanksNearest(s, score, r) ==
  /\ IsRanking(s, r)
  /\ \A i \in DOMAIN r, d \in Querying(s)!Chunks :
       Querying(s)!Nearer(score, d, r[i]) <=> d \in {r[j] : j \in 1 .. i - 1}
LEMMA VectorRanks ==
  ASSUME NEW s, QueryAssumptions(s),
         NEW score \in [Querying(s)!Chunks -> s.Similarities],
         NEW returned \in Querying(s)!Returned(score)
  PROVE  RanksNearest(s, score, Querying(s)!Cut(Querying(s)!Nearest(score, returned)))
<1>0. PICK n \in Nat : n = s.ChunkCount
  BY QueryBounds
<1>1. PICK f : n = s.ChunkCount /\ f = Querying(s)!Nearest(score, returned)
  BY <1>0
<1>2. /\ f \in [1 .. n -> Querying(s)!Chunks]
      /\ \A i \in 1 .. n, d \in Querying(s)!Chunks :
           Querying(s)!Nearer(score, d, f[i]) <=> \E j \in 1 .. i - 1 : d = f[j]
  <2>1. IsNearest(s, score, f)
    BY <1>1, NearestIs
  <2>. QED  BY <1>1, <2>1 DEF IsNearest
<1>3. PICK r : r = Querying(s)!Cut(f)
  OBVIOUS
<1>4. PICK m \in 0 .. n : /\ IsRanking(s, r) /\ DOMAIN r = 1 .. m
                          /\ \A i \in 1 .. m : r[i] = f[i]
  BY <1>2, <1>3, CutIsRanking
<1>5. ASSUME NEW i \in 1 .. m, NEW d \in Querying(s)!Chunks
      PROVE  Querying(s)!Nearer(score, d, r[i]) <=> d \in {r[j] : j \in 1 .. i - 1}
  <2>1. i \in 1 .. n /\ r[i] = f[i] /\ \A j \in 1 .. i - 1 : j \in 1 .. m /\ r[j] = f[j]
    <3>1. i \in 1 .. n /\ \A j \in 1 .. i - 1 : j \in 1 .. m
      OBVIOUS
    <3>. QED  BY <1>4, <3>1
  <2>2. (\E j \in 1 .. i - 1 : d = f[j]) <=> d \in {r[j] : j \in 1 .. i - 1}
    BY <2>1
  <2>. QED  BY <1>2, <2>1, <2>2
<1>6. RanksNearest(s, score, r)
  BY <1>4, <1>5 DEF RanksNearest
<1>. QED  BY <1>1, <1>3, <1>6


LEMMA MinIs ==
  ASSUME NEW s, NEW S \in SUBSET Nat, S # {}
  PROVE  Querying(s)!Min(S) \in S /\ \A y \in S : Querying(s)!Min(S) <= y
<1>1. \E x \in S : \A y \in S : x <= y
  BY LeastNat
<1>. QED  BY <1>1 DEF Querying!Min

(* The chunks that an identifier finds, where the first one finds them.    *)
LEMMA InOrderIs ==
  ASSUME NEW s, QueryAssumptions(s), NEW table, NEW ids, DOMAIN ids \in SUBSET Nat,
         NEW S \in SUBSET Querying(s)!Found(table, ids)
  PROVE  \E n \in Nat : Querying(s)!InOrder(S, table, ids) \in [1 .. n -> Querying(s)!Chunks]
<1>. DEFINE R == {p \in S \X S : Querying(s)!Earlier(table, ids, p[1], p[2])}
            First(c) == Querying(s)!Min(Querying(s)!Finding(table, ids, c))
<1>1. S \in SUBSET Querying(s)!Chunks /\ \A c \in S : Querying(s)!Finding(table, ids, c) # {}
  BY DEF Querying!Found
<1>2. \A c \in S : First(c) \in Nat /\ c \in Nat
  <2>1. TAKE c \in S
  <2>2. Querying(s)!Finding(table, ids, c) \in SUBSET Nat
    BY DEF Querying!Finding
  <2>3. First(c) \in Nat
    BY <1>1, <2>2, MinIs
  <2>4. c \in Nat
    BY <1>1, QueryBounds
  <2>. QED  BY <2>3, <2>4
<1>3. \A c, d \in S : <<c, d>> \in R <=> First(c) < First(d) \/ (First(c) = First(d) /\ c < d)
  BY DEF Querying!Earlier
<1>4. IsFiniteSet(S)
  BY <1>1, QueryBounds, FS_Subset
<1>5. Querying(s)!InOrder(S, table, ids) = Sorted(S, R)
  BY FusingSame DEF Querying!InOrder
<1>. HIDE DEF R, First
<1>6. Cardinality(S) \in Nat /\ Sorted(S, R) \in [1 .. Cardinality(S) -> S]
  <2>1. \A x \in S : <<x, x>> \notin R
    BY <1>2, <1>3
  <2>2. \A x, y, z \in S : <<x, y>> \in R /\ <<y, z>> \in R => <<x, z>> \in R
    BY <1>2, <1>3
  <2>3. \A x, y \in S : x # y => <<x, y>> \in R \/ <<y, x>> \in R
    BY <1>2, <1>3
  <2>. QED  BY <1>4, <2>1, <2>2, <2>3, SortedOrdered, Zenon
<1>7. Sorted(S, R) \in [1 .. Cardinality(S) -> Querying(s)!Chunks]
  BY <1>1, <1>6
<1>. QED  BY <1>5, <1>6, <1>7

LEMMA SymbolRanks ==
  ASSUME NEW s, QueryAssumptions(s), NEW ids \in Querying(s)!Lists(s.Identifiers, 2)
  PROVE  IsRanking(s, Querying(s)!BySymbol(ids))
<1>1. DOMAIN ids \in SUBSET Nat
  <2>1. PICK n \in 0 .. 2 : ids \in [1 .. n -> s.Identifiers]
    BY ListIs
  <2>. QED  BY <2>1
<1>. DEFINE D == Querying(s)!Found(s.Definitions, ids)
            E == Querying(s)!Found(s.References, ids) \ D
<1>2. PICK d : d = Querying(s)!InOrder(D, s.Definitions, ids)
  OBVIOUS
<1>3. PICK e : e = Querying(s)!InOrder(E, s.References, ids)
  OBVIOUS
<1>4. PICK n \in Nat : d \in [1 .. n -> Querying(s)!Chunks]
  BY <1>1, <1>2, InOrderIs
<1>5. PICK m \in Nat : e \in [1 .. m -> Querying(s)!Chunks]
  <2>1. E \in SUBSET Querying(s)!Found(s.References, ids)
    OBVIOUS
  <2>. QED  BY <1>1, <1>3, <2>1, InOrderIs
<1>6. d \in Seq(Querying(s)!Chunks) /\ e \in Seq(Querying(s)!Chunks)
  BY <1>4, <1>5, SeqDef
<1>7. PICK r : r = d \o e
  OBVIOUS
<1>8. r \in Seq(Querying(s)!Chunks)
  BY <1>6, <1>7, ConcatProperties
<1>9. Len(r) \in Nat /\ r \in [1 .. Len(r) -> Querying(s)!Chunks]
  BY <1>8, LenProperties
<1>10. Querying(s)!BySymbol(ids) = Querying(s)!Cut(r)
  BY <1>2, <1>3, <1>7 DEF Querying!BySymbol
<1>. QED  BY <1>9, <1>10, CutIsRanking

(* The hits.                                                               *)
LEMMA BestIs ==
  ASSUME NEW s, QueryAssumptions(s), \A c \in Querying(s)!Chunks : aggregate[c].score \in Nat
  PROVE  /\ Cardinality(Querying(s)!Candidates) \in 0 .. s.ChunkCount
         /\ Querying(s)!Best \in [1 .. Cardinality(Querying(s)!Candidates) -> Querying(s)!Candidates]
         /\ \A i, j \in 1 .. Cardinality(Querying(s)!Candidates) : i < j =>
              /\ Querying(s)!Best[i] # Querying(s)!Best[j]
              /\ Querying(s)!Better(Querying(s)!Best[i], Querying(s)!Best[j])
         /\ \A c \in Querying(s)!Candidates :
              \E i \in 1 .. Cardinality(Querying(s)!Candidates) : Querying(s)!Best[i] = c
<1>. DEFINE S == Querying(s)!Candidates
            R == {p \in S \X S : Querying(s)!Better(p[1], p[2])}
<1>1. S \in SUBSET Querying(s)!Chunks
  BY DEF Querying!Candidates
<1>2. Querying(s)!Best = Sorted(S, R)
  BY FusingSame DEF Querying!Best
<1>3. \A c, d \in S : <<c, d>> \in R <=> Querying(s)!Better(c, d)
  OBVIOUS
<1>4. \A c \in S : aggregate[c].score \in Nat /\ c \in Nat
  BY <1>1, QueryBounds
<1>. HIDE DEF S, R
<1>5. IsFiniteSet(S) /\ Cardinality(S) \in 0 .. s.ChunkCount
  <2>1. /\ IsFiniteSet(S) /\ Cardinality(S) <= Cardinality(Querying(s)!Chunks)
        /\ Cardinality(Querying(s)!Chunks) = s.ChunkCount
    BY <1>1, QueryBounds, FS_Subset
  <2>2. Cardinality(S) \in Nat /\ s.ChunkCount \in Nat
    BY <2>1, FS_CardinalityType, QueryBounds
  <2>. QED  BY <2>1, <2>2
<1>6. /\ Sorted(S, R) \in [1 .. Cardinality(S) -> S]
      /\ \A i, j \in 1 .. Cardinality(S) : i < j => <<Sorted(S, R)[i], Sorted(S, R)[j]>> \in R
      /\ \A x \in S : \E i \in 1 .. Cardinality(S) : Sorted(S, R)[i] = x
      /\ \A x \in S : <<x, x>> \notin R
  <2>1. \A x \in S : <<x, x>> \notin R
    BY <1>3, <1>4 DEF Querying!Better
  <2>2. \A x, y, z \in S : <<x, y>> \in R /\ <<y, z>> \in R => <<x, z>> \in R
    BY <1>3, <1>4 DEF Querying!Better
  <2>3. \A x, y \in S : x # y => <<x, y>> \in R \/ <<y, x>> \in R
    BY <1>3, <1>4 DEF Querying!Better
  <2>4. /\ Sorted(S, R) \in [1 .. Cardinality(S) -> S]
        /\ \A i, j \in 1 .. Cardinality(S) : i < j => <<Sorted(S, R)[i], Sorted(S, R)[j]>> \in R
        /\ \A x \in S : \E i \in 1 .. Cardinality(S) : Sorted(S, R)[i] = x
    <3>1. IsFiniteSet(S)
      BY <1>5
    <3>. QED  BY <2>1, <2>2, <2>3, <3>1, SortedOrdered
  <2>. QED  BY <2>1, <2>4
<1>7. PICK f : f = Sorted(S, R)
  OBVIOUS
<1>8. PICK n \in 0 .. s.ChunkCount : n = Cardinality(S)
  BY <1>5
<1>9. ASSUME NEW i \in 1 .. n, NEW j \in 1 .. n, i < j
      PROVE  f[i] # f[j] /\ Querying(s)!Better(f[i], f[j])
  <2>1. f[i] \in S /\ f[j] \in S /\ <<f[i], f[j]>> \in R
    BY <1>6, <1>7, <1>8, <1>9
  <2>. QED  BY <1>3, <1>6, <2>1
<1>10. /\ n = Cardinality(Querying(s)!Candidates) /\ f = Querying(s)!Best
       /\ f \in [1 .. n -> Querying(s)!Candidates]
       /\ \A c \in Querying(s)!Candidates : \E i \in 1 .. n : f[i] = c
  BY <1>2, <1>6, <1>7, <1>8 DEF S
<1>. QED  BY <1>9, <1>10

LEMMA FusedHits ==
  ASSUME NEW s, QueryAssumptions(s), Querying(s)!TypeOK, Querying(s)!Fuse
  PROVE  /\ hits' \in Seq(Querying(s)!Chunks) /\ omitted' \in 0 .. s.ChunkCount
         /\ Querying(s)!HitsAreBest'
<1>1. \A c \in Querying(s)!Chunks : aggregate[c].score \in Nat
  BY DEF Querying!TypeOK
<1>2. PICK C : C = Querying(s)!Candidates
  OBVIOUS
<1>3. PICK n \in 0 .. s.ChunkCount : n = Cardinality(C)
  BY <1>1, <1>2, BestIs
<1>4. PICK f \in [1 .. n -> C] : f = Querying(s)!Best
  BY <1>1, <1>2, <1>3, BestIs
<1>5. /\ \A i, j \in 1 .. n : i < j => f[i] # f[j] /\ Querying(s)!Better(f[i], f[j])
      /\ \A c \in C : \E i \in 1 .. n : f[i] = c
  BY <1>1, <1>2, <1>3, <1>4, BestIs
<1>6. PICK most \in Nat \ {0} : most = s.MaxResults
  BY QueryBounds
<1>7. n \in Nat /\ n <= s.ChunkCount /\ s.ChunkCount \in Nat
  BY QueryBounds
<1>8. PICK m \in 0 .. n : /\ m <= most
                          /\ hits' \in [1 .. m -> C]
                          /\ \A i \in 1 .. m : hits'[i] = f[i]
  <2>1. hits' = Top(f, most)
    BY <1>4, <1>6 DEF Querying!Fuse, Top
  <2>2. most \in Nat /\ n \in Nat
    BY <1>7
  <2>3. IsTop(Top(f, most), f, n, most, C)
    BY <1>4, <2>2, TopIs
  <2>. QED  BY <2>1, <2>3, Zenon DEF IsTop
<1>9. /\ Len(hits') = m /\ Len(f) = n /\ omitted' = n - m
      /\ aggregate' = aggregate /\ phase' = "render" /\ DOMAIN hits' = 1 .. m
  <2>1. Len(hits') = m /\ Len(f) = n
    BY <1>7, <1>8
  <2>. QED  BY <1>4, <1>8, <2>1 DEF Querying!Fuse
<1>10. C \in SUBSET Querying(s)!Chunks
  BY <1>2 DEF Querying!Candidates
<1>11. hits' \in Seq(Querying(s)!Chunks)
  <2>1. hits' \in [1 .. m -> Querying(s)!Chunks] /\ m \in Nat
    BY <1>7, <1>8, <1>10
  <2>. QED  BY <2>1, SeqDef
<1>12. omitted' \in 0 .. s.ChunkCount
  BY <1>7, <1>9
<1>13. Querying(s)!IsInjective(hits')
  <2>1. \A i, j \in 1 .. m : i \in 1 .. n /\ j \in 1 .. n /\ (i # j => i < j \/ j < i)
    BY <1>7
  <2>2. \A i, j \in 1 .. m : hits'[i] = hits'[j] => i = j
    BY <1>5, <1>8, <2>1
  <2>. QED  BY <1>9, <2>2 DEF Querying!IsInjective
<1>14. \A i, j \in 1 .. m : i < j => Querying(s)!Better(hits'[i], hits'[j])
  <2>1. \A i \in 1 .. m : i \in 1 .. n
    BY <1>7
  <2>. QED  BY <1>5, <1>8, <2>1
<1>15. \A c \in C \ Querying(s)!Range(hits'), i \in 1 .. m : Querying(s)!Better(hits'[i], c)
  <2>. SUFFICES ASSUME NEW c \in C, c \notin Querying(s)!Range(hits'), NEW i \in 1 .. m
                PROVE  Querying(s)!Better(hits'[i], c)
    BY Zenon
  <2>1. PICK j \in 1 .. n : f[j] = c
    BY <1>5
  <2>2. j \notin 1 .. m
    BY <1>8, <1>9, <2>1 DEF Querying!Range
  <2>3. i < j /\ i \in 1 .. n
    BY <1>7, <2>2
  <2>. QED  BY <1>5, <1>8, <2>1, <2>3
<1>16. Querying(s)!Candidates' = C /\ \A c, d : Querying(s)!Better(c, d)' <=> Querying(s)!Better(c, d)
  BY <1>2, <1>9 DEF Querying!Candidates, Querying!Better, Querying!Chunks
<1>17. omitted' = Querying(s)!Cardinality(C) - Len(hits')
  BY <1>3, <1>9, FusingSame
<1>18. Querying(s)!HitsAreBest'
  <2>1. \A i, j \in 1 .. m : i < j => Querying(s)!Better(hits[i], hits[j])'
    BY <1>14, <1>16
  <2>2. \A c \in C \ Querying(s)!Range(hits'), i \in 1 .. m : Querying(s)!Better(hits[i], c)'
    BY <1>15, <1>16
  <2>3. Len(hits') <= s.MaxResults
    BY <1>6, <1>8, <1>9
  <2>. QED  BY <1>9, <1>13, <1>16, <1>17, <2>1, <2>2, <2>3
         DEF Querying!HitsAreBest, Querying!IsInjective, Querying!Range, Querying!Cardinality
<1>. QED  BY <1>11, <1>12, <1>18

(* What is sent.                                                           *)
LongestFit(s, t, list) ==
  /\ t \in Seq(Querying(s)!Chunks)
  /\ t = SubSeq(list, 1, Len(t)) /\ Len(t) <= Len(list) /\ Len(t) \in Nat
  /\ Querying(s)!Fits(t)
  /\ t # list => ~Querying(s)!Fits(SubSeq(list, 1, Len(t) + 1))
LEMMA FittingIs ==
  ASSUME NEW s, QueryAssumptions(s), room \in s.MaxPrompts, NEW list \in Seq(Querying(s)!Chunks)
  PROVE  LongestFit(s, Querying(s)!Fitting(list), list)
<1>1. PICK n \in Nat : n = Len(list) /\ list \in [1 .. n -> Querying(s)!Chunks]
  BY LenProperties
<1>. DEFINE t(k) == SubSeq(list, 1, k)
<1>2. \A k \in 0 .. n : t(k) \in Seq(Querying(s)!Chunks) /\ Len(t(k)) = k
                        /\ \A i \in 1 .. k : t(k)[i] = list[i]
  <2>1. TAKE k \in 0 .. n
  <2>2. 1 \in Int /\ k \in Int /\ (IF 1 <= k THEN k - 1 + 1 ELSE 0) = k /\ k - 1 + 1 = k
    BY <1>1
  <2>3. \A i \in 1 .. k : list[i] \in Querying(s)!Chunks /\ 1 + i - 1 = i
    <3>1. \A i \in 1 .. k : i \in 1 .. n /\ i \in Int
      BY <1>1
    <3>. QED  BY <1>1, <3>1
  <2>4. /\ t(k) \in Seq(Querying(s)!Chunks) /\ Len(t(k)) = k
        /\ \A i \in 1 .. k - 1 + 1 : t(k)[i] = list[1 + i - 1]
    BY <2>2, <2>3, SubSeqProperties
  <2>. QED  BY <2>2, <2>3, <2>4
<1>3. t(n) = list
  <2>1. t(n) \in [1 .. n -> Querying(s)!Chunks] /\ \A i \in 1 .. n : t(n)[i] = list[i]
    <3>1. n \in 0 .. n
      BY <1>1
    <3>2. t(n) \in Seq(Querying(s)!Chunks) /\ Len(t(n)) = n /\ \A i \in 1 .. n : t(n)[i] = list[i]
      BY <1>2, <3>1
    <3>. HIDE DEF t
    <3>. QED  BY <3>2, LenProperties
  <2>. HIDE DEF t
  <2>. QED  BY <1>1, <2>1
<1>4. Querying(s)!Fits(t(0))
  <2>1. t(0) = <<>>
    BY <1>1, SubSeqEmpty
  <2>2. Querying(s)!Content(t(0)) = 0
    <3>. DEFINE z == [k \in DOMAIN t(0) |-> s.Sizes[t(0)[k]]]
    <3>1. DOMAIN z = {} /\ \A x \in {} : z[x] = 0
      BY <2>1
    <3>. HIDE DEF z
    <3>2. Querying(s)!SumFunction(z) = 0
      BY <3>1, FS_EmptySet, SumOfNothing
    <3>. QED  BY <3>2 DEF Querying!Content, z
  <2>3. room \in Nat /\ s.MaxContent \in Nat /\ s.Overhead \in Nat /\ Len(t(0)) = 0
    BY <1>1, <1>2, QueryBounds
  <2>4. Querying(s)!Rendered(t(0)) = 0
    <3>. HIDE DEF t
    <3>. QED  BY <2>2, <2>3 DEF Querying!Rendered
  <2>. HIDE DEF t
  <2>. QED  BY <2>2, <2>3, <2>4 DEF Querying!Fits
<1>. DEFINE misfits == {k \in 1 .. n : ~Querying(s)!Fits(t(k))}
<1>5. Querying(s)!Fitting(list) = IF misfits = {} THEN list ELSE t(Querying(s)!Min(misfits) - 1)
  BY <1>1 DEF Querying!Fitting
<1>6. CASE misfits = {}
  <2>1. Querying(s)!Fits(t(n))
    <3>1. n # 0 => n \in 1 .. n /\ n \notin misfits
      BY <1>1, <1>6
    <3>2. n # 0 => Querying(s)!Fits(t(n))
      BY <3>1
    <3>. QED  BY <1>4, <3>2
  <2>2. Querying(s)!Fitting(list) = list
    BY <1>5, <1>6
  <2>3. list = SubSeq(list, 1, Len(list)) /\ Len(list) <= Len(list) /\ Len(list) \in Nat
    BY <1>1, <1>3
  <2>4. Querying(s)!Fits(list)
    BY <1>3, <2>1
  <2>. QED  BY <2>2, <2>3, <2>4 DEF LongestFit
<1>7. CASE misfits # {}
  <2>1. PICK m \in misfits : m = Querying(s)!Min(misfits) /\ \A k \in misfits : m <= k
    <3>1. misfits \in SUBSET Nat
      OBVIOUS
    <3>. HIDE DEF misfits
    <3>. QED  BY <1>7, <3>1, MinIs
  <2>2. PICK k \in 0 .. n : k = m - 1 /\ k + 1 = m
    <3>1. m - 1 \in 0 .. n /\ m - 1 + 1 = m
      BY <1>1
    <3>. QED  BY <3>1
  <2>3. Querying(s)!Fitting(list) = t(k)
    BY <1>5, <1>7, <2>1, <2>2
  <2>4. Querying(s)!Fits(t(k))
    <3>1. CASE k = 0
      BY <1>4, <3>1
    <3>2. CASE k # 0
      <4>1. k \in 1 .. n /\ ~(m <= k)
        BY <2>2, <3>2
      <4>2. k \notin misfits
        BY <2>1, <4>1
      <4>. QED  BY <4>1, <4>2
    <3>. QED  BY <3>1, <3>2
  <2>5. ~Querying(s)!Fits(t(k + 1))
    BY <2>1, <2>2
  <2>6. t(k) \in Seq(Querying(s)!Chunks) /\ Len(t(k)) = k /\ k <= n /\ k \in Nat
    BY <1>1, <1>2
  <2>. QED  BY <1>1, <2>3, <2>4, <2>5, <2>6 DEF LongestFit
<1>. QED  BY <1>6, <1>7


-----------------------------------------------------------------------------
(* What the hits are made from: the channels that were not asked yet ranked *)
(* nothing, the score of a chunk is the sum of what every query and channel *)
(* gave it, and its rank in a channel is the best one.                      *)
NotYetAsked(s) ==
  \A q \in 1 .. s.Queries, x \in Querying(s)!AllChannels :
    rankings[q][x] # <<>> => q < query \/ (q = query /\ \E i \in 1 .. asked : s.Channels[i] = x)
ScoresKept(s) == \A c \in Querying(s)!Chunks : aggregate[c].score = Querying(s)!Total(c)
IsBest(a, R) ==
  /\ a = 0 => \A q \in DOMAIN R : R[q] = 0
  /\ a # 0 => (\E q \in DOMAIN R : R[q] = a) /\ \A q \in DOMAIN R : R[q] # 0 => a <= R[q]
RanksOf(s, x, c) == [q \in 1 .. s.Queries |-> Querying(s)!RankIn(q, x, c)]
RanksKept(s) ==
  \A c \in Querying(s)!Chunks, x \in Querying(s)!AllChannels :
    IsBest(aggregate[c].ranks[x], RanksOf(s, x, c))

FusionInv(s) ==
  /\ Querying(s)!TypeOK /\ Querying(s)!RankingsExact
  /\ NotYetAsked(s) /\ ScoresKept(s) /\ RanksKept(s)
  /\ Querying(s)!HitsAreBest /\ Querying(s)!PromptIsLongestPrefix

Improves(F, G, Q, y, k) ==
  /\ F \in [Q -> Nat] /\ G \in [Q -> Nat] /\ y \in Q /\ k \in Nat \ {0}
  /\ F[y] = 0 /\ G[y] = k /\ \A q \in Q : q # y => G[q] = F[q]

LEMMA SmallerIsBest ==
  ASSUME NEW s, NEW Q, NEW F, NEW G, NEW a \in Nat, NEW k, NEW y,
         Improves(F, G, Q, y, k), IsBest(a, F)
  PROVE  IsBest(Querying(s)!Smaller(a, k), G)
<1>0. /\ F \in [Q -> Nat] /\ G \in [Q -> Nat] /\ y \in Q /\ k \in Nat \ {0}
      /\ F[y] = 0 /\ G[y] = k /\ \A q \in Q : q # y => G[q] = F[q]
  BY DEF Improves
<1>1. PICK b : b = Querying(s)!Smaller(a, k)
  OBVIOUS
<1>2. b = IF a = 0 \/ k < a THEN k ELSE a
  BY <1>1 DEF Querying!Smaller, Querying!NoRank
<1>3. b \in Nat \ {0} /\ b <= k /\ (a # 0 => b <= a) /\ (b = k \/ b = a)
  BY <1>0, <1>2
<1>4. \E q \in Q : G[q] = b
  <2>1. CASE b = k
    BY <1>0, <2>1
  <2>2. CASE b # k
    <3>1. a # 0 /\ b = a
      BY <1>3, <2>2
    <3>2. PICK q \in Q : F[q] = a
      BY <1>0, <3>1 DEF IsBest
    <3>3. q # y
      BY <1>0, <3>1, <3>2
    <3>. QED  BY <1>0, <3>1, <3>2, <3>3
  <2>. QED  BY <2>1, <2>2
<1>5. ASSUME NEW q \in Q, G[q] # 0
      PROVE  b <= G[q]
  <2>1. CASE q = y
    BY <1>0, <1>3, <2>1
  <2>2. CASE q # y
    <3>1. G[q] = F[q] /\ F[q] # 0 /\ F[q] \in Nat
      BY <1>0, <1>5, <2>2
    <3>2. a # 0 /\ a <= F[q]
      BY <1>0, <3>1 DEF IsBest
    <3>. QED  BY <1>3, <3>1, <3>2
  <2>. QED  BY <2>1, <2>2
<1>. QED  BY <1>0, <1>1, <1>3, <1>4, <1>5 DEF IsBest

LEMMA RanksTyped ==
  ASSUME NEW s, QueryAssumptions(s), Querying(s)!TypeOK, NEW q \in 1 .. s.Queries,
         NEW x \in Querying(s)!AllChannels, NEW c
  PROVE  /\ IsRanking(s, rankings[q][x])
         /\ Querying(s)!RankIn(q, x, c) \in Nat /\ Querying(s)!Points(q, x, c) \in Nat
<1>1. IsRanking(s, rankings[q][x])
  BY DEF Querying!TypeOK, IsRanking
<1>2. c \in Querying(s)!Range(rankings[q][x]) =>
        /\ Querying(s)!Rank(rankings[q][x], c) \in 1 .. s.MaxCandidates
        /\ Querying(s)!Contribution(Querying(s)!Rank(rankings[q][x], c)) \in Nat
  BY <1>1, RankIs
<1>3. s.MaxCandidates \in Nat
  BY QueryBounds
<1>. QED  BY <1>1, <1>2, <1>3 DEF Querying!RankIn, Querying!Points, Querying!NoRank


(* A channel ranks the chunks for a query.                                 *)
Ranking(s, channel, ranking) ==
  /\ channel \in Querying(s)!AllChannels /\ IsRanking(s, ranking)
  /\ Querying(s)!Ranked(channel, ranking)
  /\ relevance' \in [1 .. s.Queries -> [Querying(s)!Chunks -> {0} \cup s.Similarities]]

LEMMA RankedFirst ==
  ASSUME NEW s, QueryAssumptions(s), FusionInv(s), NEW channel, NEW ranking,
         Ranking(s, channel, ranking)
  PROVE  /\ query \in 1 .. s.Queries /\ query' = query
         /\ rankings[query][channel] = <<>>
         /\ \A q \in 1 .. s.Queries, x \in Querying(s)!AllChannels :
              rankings'[q][x] = IF q = query /\ x = channel THEN ranking ELSE rankings[q][x]
         /\ rankings' \in [1 .. s.Queries -> [Querying(s)!AllChannels ->
                             Querying(s)!Lists(Querying(s)!Chunks, s.MaxCandidates)]]
         /\ asked' = asked + 1 /\ asked' \in 0 .. Len(s.Channels)
         /\ s.Channels[asked + 1] = channel
<1>1. /\ query \in 1 .. s.Queries /\ asked \in 0 .. Len(s.Channels)
      /\ rankings \in [1 .. s.Queries -> [Querying(s)!AllChannels ->
                         Querying(s)!Lists(Querying(s)!Chunks, s.MaxCandidates)]]
  BY DEF FusionInv, Querying!TypeOK
<1>2. /\ channel \in Querying(s)!AllChannels
      /\ ranking \in Querying(s)!Lists(Querying(s)!Chunks, s.MaxCandidates)
      /\ asked < Len(s.Channels) /\ channel = s.Channels[asked + 1]
      /\ asked' = asked + 1 /\ query' = query
      /\ rankings' = [rankings EXCEPT ![query][channel] = ranking]
  BY DEF Ranking, IsRanking, Querying!Ranked
<1>3. PICK n \in Nat : n = Len(s.Channels) /\ DOMAIN s.Channels = 1 .. n
  BY LenProperties DEF QueryAssumptions, Querying!ChannelsAssumption
<1>4. rankings[query][channel] = <<>>
  <2>1. SUFFICES ASSUME rankings[query][channel] # <<>>
                 PROVE  FALSE
    OBVIOUS
  <2>2. query \in Nat
    BY <1>1, QueryBounds
  <2>3. PICK i \in 1 .. asked : s.Channels[i] = channel
    <3>1. query < query \/ \E i \in 1 .. asked : s.Channels[i] = channel
      BY <1>1, <1>2, <2>1 DEF FusionInv, NotYetAsked
    <3>. QED  BY <2>2, <3>1
  <2>4. i \in 1 .. n /\ asked + 1 \in 1 .. n /\ i # asked + 1
    BY <1>1, <1>2, <1>3
  <2>5. \A j, k \in DOMAIN s.Channels : s.Channels[j] = s.Channels[k] => j = k
    BY DEF QueryAssumptions, Querying!ChannelsAssumption, Querying!IsInjective
  <2>. QED  BY <1>2, <1>3, <2>3, <2>4, <2>5
<1>5. asked' \in 0 .. Len(s.Channels)
  BY <1>1, <1>2, <1>3
<1>. QED  BY <1>1, <1>2, <1>4, <1>5

LEMMA RankedRanks ==
  ASSUME NEW s, QueryAssumptions(s), FusionInv(s), NEW channel, NEW ranking,
         Ranking(s, channel, ranking), NEW q \in 1 .. s.Queries,
         NEW x \in Querying(s)!AllChannels, NEW c
  PROVE  /\ q = query /\ x = channel =>
              /\ Querying(s)!RankIn(q, x, c) = 0 /\ Querying(s)!Points(q, x, c) = 0
              /\ c \in Querying(s)!Range(ranking) =>
                   /\ Querying(s)!RankIn(q, x, c)' = Querying(s)!Rank(ranking, c)
                   /\ Querying(s)!Points(q, x, c)'
                        = Querying(s)!Contribution(Querying(s)!Rank(ranking, c))
              /\ c \notin Querying(s)!Range(ranking) =>
                   Querying(s)!RankIn(q, x, c)' = 0 /\ Querying(s)!Points(q, x, c)' = 0
         /\ ~(q = query /\ x = channel) =>
              /\ Querying(s)!RankIn(q, x, c)' = Querying(s)!RankIn(q, x, c)
              /\ Querying(s)!Points(q, x, c)' = Querying(s)!Points(q, x, c)
<1>1. /\ rankings'[q][x] = IF q = query /\ x = channel THEN ranking ELSE rankings[q][x]
      /\ q = query /\ x = channel => rankings[q][x] = <<>>
  BY RankedFirst
<1>2. c \in Querying(s)!Range(ranking) => Querying(s)!Rank(ranking, c) \in Nat \ {0}
  <2>1. s.MaxCandidates \in Nat
    BY QueryBounds
  <2>. QED  BY <2>1, RankIs DEF Ranking
<1>3. CASE q = query /\ x = channel
  <2>1. c \notin Querying(s)!Range(rankings[q][x])
    BY <1>1, <1>3 DEF Querying!Range
  <2>2. Querying(s)!RankIn(q, x, c) = 0 /\ Querying(s)!Points(q, x, c) = 0
    BY <2>1 DEF Querying!RankIn, Querying!Points, Querying!NoRank
  <2>3. rankings'[q][x] = ranking
    BY <1>1, <1>3
  <2>4. Querying(s)!RankIn(q, x, c)'
          = IF c \in Querying(s)!Range(ranking) THEN Querying(s)!Rank(ranking, c) ELSE 0
    BY <2>3 DEF Querying!RankIn, Querying!NoRank, Querying!Range, Querying!Rank
  <2>5. Querying(s)!Points(q, x, c)'
          = IF Querying(s)!RankIn(q, x, c)' = 0 THEN 0
            ELSE Querying(s)!Contribution(Querying(s)!RankIn(q, x, c)')
    BY DEF Querying!Points, Querying!NoRank, Querying!Contribution
  <2>6. CASE c \in Querying(s)!Range(ranking)
    <3>1. Querying(s)!RankIn(q, x, c)' = Querying(s)!Rank(ranking, c)
      BY <2>4, <2>6
    <3>. QED  BY <1>2, <1>3, <2>2, <2>5, <2>6, <3>1
  <2>7. CASE c \notin Querying(s)!Range(ranking)
    BY <1>3, <2>2, <2>4, <2>5, <2>7
  <2>. QED  BY <2>6, <2>7
<1>4. CASE ~(q = query /\ x = channel)
  <2>1. rankings'[q][x] = rankings[q][x]
    BY <1>1, <1>4
  <2>2. Querying(s)!RankIn(q, x, c)' = Querying(s)!RankIn(q, x, c)
    BY <2>1 DEF Querying!RankIn, Querying!NoRank, Querying!Range, Querying!Rank
  <2>3. Querying(s)!Points(q, x, c)' = Querying(s)!Points(q, x, c)
    BY <2>2 DEF Querying!Points, Querying!NoRank, Querying!Contribution
  <2>. QED  BY <1>4, <2>2, <2>3
<1>. QED  BY <1>3, <1>4

LEMMA RankedAsks ==
  ASSUME NEW s, QueryAssumptions(s), FusionInv(s), NEW channel, NEW ranking,
         Ranking(s, channel, ranking)
  PROVE  NotYetAsked(s)'
<1>1. SUFFICES ASSUME NEW q \in 1 .. s.Queries, NEW x \in Querying(s)!AllChannels,
                      rankings'[q][x] # <<>>
               PROVE  q < query' \/ (q = query' /\ \E i \in 1 .. asked' : s.Channels[i] = x)
  BY DEF NotYetAsked, Querying!AllChannels
<1>2. /\ query' = query /\ asked' = asked + 1 /\ s.Channels[asked + 1] = channel
      /\ rankings'[q][x] = IF q = query /\ x = channel THEN ranking ELSE rankings[q][x]
  BY RankedFirst
<1>3. asked \in Nat
  <2>1. Len(s.Channels) \in Nat
    BY LenProperties DEF QueryAssumptions, Querying!ChannelsAssumption
  <2>. QED  BY <2>1 DEF FusionInv, Querying!TypeOK
<1>4. CASE q = query /\ x = channel
  <2>1. asked + 1 \in 1 .. asked'
    BY <1>2, <1>3
  <2>. QED  BY <1>2, <1>4, <2>1
<1>5. CASE ~(q = query /\ x = channel)
  <2>1. q < query \/ (q = query /\ \E i \in 1 .. asked : s.Channels[i] = x)
    BY <1>1, <1>2, <1>5 DEF FusionInv, NotYetAsked
  <2>2. \A i \in 1 .. asked : i \in 1 .. asked'
    BY <1>2, <1>3
  <2>. QED  BY <1>2, <2>1, <2>2
<1>. QED  BY <1>4, <1>5


LEMMA TermsFinite ==
  ASSUME NEW s, QueryAssumptions(s)
  PROVE  IsFiniteSet((1 .. s.Queries) \X Querying(s)!AllChannels)
<1>1. IsFiniteSet(1 .. s.Queries)
  BY QueryBounds, IntervalCardinality
<1>2. IsFiniteSet({"text", "vector", "symbol"})
  <2>1. PICK A, B, C : A = {"text"} /\ B = {"vector"} /\ C = {"symbol"}
    OBVIOUS
  <2>2. IsFiniteSet(A) /\ IsFiniteSet(B) /\ IsFiniteSet(C)
    BY <2>1, FS_Singleton
  <2>3. IsFiniteSet(A \cup B)
    BY <2>2, FS_Union
  <2>4. IsFiniteSet((A \cup B) \cup C)
    BY <2>2, <2>3, FS_Union
  <2>5. {"text", "vector", "symbol"} = (A \cup B) \cup C
    BY <2>1
  <2>. QED  BY <2>4, <2>5
<1>. QED  BY <1>1, <1>2, FS_Product DEF Querying!AllChannels

Terms(s, c) == [p \in (1 .. s.Queries) \X Querying(s)!AllChannels |->
                  Querying(s)!Points(p[1], p[2], c)]
LEMMA TotalIs ==
  ASSUME NEW s, NEW c
  PROVE  /\ Querying(s)!Total(c) = Querying(s)!SumFunction(Terms(s, c))
         /\ Querying(s)!Total(c)' = Querying(s)!SumFunction(Terms(s, c)')
<1>1. Querying(s)!Total(c) = Querying(s)!SumFunction(Terms(s, c))
  BY DEF Querying!Total, Terms
<1>2. Querying(s)!Total(c)' = Querying(s)!SumFunction(Terms(s, c)')
  BY DEF Querying!Total, Terms, Querying!SumFunction, Querying!SumFunctionOnSet,
         Querying!FoldFunctionOnSet, Querying!MapThenFoldSet, Querying!AllChannels
<1>. QED  BY <1>1, <1>2

LEMMA RankedTerms ==
  ASSUME NEW s, QueryAssumptions(s), FusionInv(s), NEW channel, NEW ranking,
         Ranking(s, channel, ranking), NEW c
  PROVE  /\ Querying(s)!Total(c) \in Nat
         /\ c \in Querying(s)!Range(ranking) =>
              Querying(s)!Total(c)' = Querying(s)!Total(c)
                + Querying(s)!Contribution(Querying(s)!Rank(ranking, c))
         /\ c \notin Querying(s)!Range(ranking) => Querying(s)!Total(c)' = Querying(s)!Total(c)
<1>. DEFINE S == (1 .. s.Queries) \X Querying(s)!AllChannels
            gained == IF c \in Querying(s)!Range(ranking)
                        THEN Querying(s)!Contribution(Querying(s)!Rank(ranking, c)) ELSE 0
<1>1. PICK T : T = S
  OBVIOUS
<1>2. PICK f, h : f = Terms(s, c) /\ h = Terms(s, c)'
  OBVIOUS
<1>3. DOMAIN f = T /\ DOMAIN h = T /\ IsFiniteSet(T)
  BY <1>1, <1>2, TermsFinite DEF Terms, Querying!AllChannels
<1>4. PICK a \in T : a = <<query, channel>>
  BY <1>1, RankedFirst DEF Ranking
<1>5. gained \in Nat
  BY RankIs DEF Ranking
<1>6. ASSUME NEW p \in T
      PROVE  /\ f[p] \in Nat /\ h[p] \in Nat
             /\ p = a => f[p] = 0 /\ h[p] = gained
             /\ p # a => h[p] = f[p]
  <2>1. PICK q \in 1 .. s.Queries, x \in Querying(s)!AllChannels : p = <<q, x>>
    BY <1>1
  <2>2. f[p] = Querying(s)!Points(q, x, c) /\ h[p] = Querying(s)!Points(q, x, c)'
    BY <1>1, <1>2, <2>1 DEF Terms, Querying!AllChannels
  <2>3. p = a <=> (q = query /\ x = channel)
    BY <1>4, <2>1
  <2>4. Querying(s)!Points(q, x, c) \in Nat
    BY RanksTyped DEF FusionInv
  <2>5. CASE p = a
    <3>1. q = query /\ x = channel
      BY <2>3, <2>5
    <3>2. f[p] = 0 /\ h[p] = gained
      BY <2>2, <3>1, RankedRanks
    <3>. QED  BY <1>5, <2>5, <3>2
  <2>6. CASE p # a
    <3>1. ~(q = query /\ x = channel)
      BY <2>3, <2>6
    <3>2. Querying(s)!Points(q, x, c)' = Querying(s)!Points(q, x, c)
      BY <3>1, RankedRanks
    <3>. QED  BY <2>2, <2>4, <2>6, <3>2
  <2>. QED  BY <2>5, <2>6
<1>7. /\ Querying(s)!SumFunction(f) \in Nat
      /\ Querying(s)!SumFunction(h) = Querying(s)!SumFunction(f) + gained
  <2>1. /\ \A x \in T : f[x] \in Nat /\ h[x] \in Nat
        /\ f[a] = 0 /\ h[a] = gained
        /\ \A x \in T : x # a => h[x] = f[x]
    BY <1>6, Zenon
  <2>. HIDE DEF gained
  <2>2. /\ Querying(s)!SumFunction(f) \in Nat
        /\ Querying(s)!SumFunction(h) = Querying(s)!SumFunction(f) + h[a]
    BY <1>3, <2>1, SumOfOneMore
  <2>. QED  BY <2>1, <2>2
<1>8. /\ Querying(s)!Total(c) = Querying(s)!SumFunction(f)
      /\ Querying(s)!Total(c)' = Querying(s)!SumFunction(h)
  BY <1>2, TotalIs
<1>9. CASE c \in Querying(s)!Range(ranking)
  BY <1>7, <1>8, <1>9
<1>10. CASE c \notin Querying(s)!Range(ranking)
  <2>1. gained = 0
    BY <1>10
  <2>. QED  BY <1>7, <1>8, <1>10, <2>1
<1>. QED  BY <1>9, <1>10

LEMMA RankedGathers ==
  ASSUME NEW s, QueryAssumptions(s), FusionInv(s), NEW channel, NEW ranking,
         Ranking(s, channel, ranking)
  PROVE  /\ ScoresKept(s)' /\ RanksKept(s)'
         /\ aggregate' \in [Querying(s)!Chunks ->
              [ranks : [Querying(s)!AllChannels -> 0 .. s.MaxCandidates],
               numbers : SUBSET (1 .. s.Queries), score : Nat]]
<1>1. aggregate' = Querying(s)!Gathered(channel, ranking)
  BY DEF Ranking, Querying!Ranked
<1>2. PICK most \in Nat : most = s.MaxCandidates
  BY QueryBounds
<1>3. channel \in Querying(s)!AllChannels /\ query \in 1 .. s.Queries
  BY RankedFirst DEF Ranking
<1>4. ASSUME NEW c \in Querying(s)!Chunks
      PROVE  /\ aggregate'[c] \in [ranks : [Querying(s)!AllChannels -> 0 .. most],
                                   numbers : SUBSET (1 .. s.Queries), score : Nat]
             /\ aggregate'[c].score = Querying(s)!Total(c)'
             /\ \A x \in Querying(s)!AllChannels :
                  IsBest(aggregate'[c].ranks[x], RanksOf(s, x, c)')
  <2>1. PICK a : a = aggregate[c]
    OBVIOUS
  <2>2. /\ a.ranks \in [Querying(s)!AllChannels -> 0 .. most]
        /\ a.numbers \in SUBSET (1 .. s.Queries) /\ a.score \in Nat
        /\ a.score = Querying(s)!Total(c)
        /\ a \in [ranks : [Querying(s)!AllChannels -> 0 .. most],
                  numbers : SUBSET (1 .. s.Queries), score : Nat]
    <3>1. a \in [ranks : [Querying(s)!AllChannels -> 0 .. most],
                 numbers : SUBSET (1 .. s.Queries), score : Nat]
      BY <1>2, <2>1 DEF FusionInv, Querying!TypeOK, Querying!Ranks
    <3>2. a.score = Querying(s)!Total(c)
      BY <2>1 DEF FusionInv, ScoresKept
    <3>. QED  BY <3>1, <3>2
  <2>3. ASSUME NEW x \in Querying(s)!AllChannels
        PROVE  /\ IsBest(a.ranks[x], RanksOf(s, x, c))
               /\ RanksOf(s, x, c) \in [1 .. s.Queries -> Nat]
               /\ RanksOf(s, x, c)' \in [1 .. s.Queries -> Nat]
               /\ x # channel \/ c \notin Querying(s)!Range(ranking) =>
                    RanksOf(s, x, c)' = RanksOf(s, x, c)
               /\ x = channel /\ c \in Querying(s)!Range(ranking) =>
                    /\ RanksOf(s, x, c)[query] = 0
                    /\ RanksOf(s, x, c)'[query] = Querying(s)!Rank(ranking, c)
                    /\ \A q \in 1 .. s.Queries : q # query =>
                         RanksOf(s, x, c)'[q] = RanksOf(s, x, c)[q]
    <3>1. IsBest(a.ranks[x], RanksOf(s, x, c))
      BY <2>1 DEF FusionInv, RanksKept
    <3>2. \A q \in 1 .. s.Queries : Querying(s)!RankIn(q, x, c) \in Nat
      BY RanksTyped DEF FusionInv
    <3>3. c \in Querying(s)!Range(ranking) => Querying(s)!Rank(ranking, c) \in Nat
      <4>1. s.MaxCandidates \in Nat
        BY QueryBounds
      <4>. QED  BY <4>1, RankIs DEF Ranking
    <3>4. \A q \in 1 .. s.Queries :
            /\ q = query /\ x = channel =>
                 /\ Querying(s)!RankIn(q, x, c) = 0
                 /\ c \in Querying(s)!Range(ranking) =>
                      Querying(s)!RankIn(q, x, c)' = Querying(s)!Rank(ranking, c)
                 /\ c \notin Querying(s)!Range(ranking) => Querying(s)!RankIn(q, x, c)' = 0
            /\ ~(q = query /\ x = channel) =>
                 Querying(s)!RankIn(q, x, c)' = Querying(s)!RankIn(q, x, c)
      BY RankedRanks
    <3>5. PICK F : F = RanksOf(s, x, c) /\ F = [q \in 1 .. s.Queries |-> Querying(s)!RankIn(q, x, c)]
      BY DEF RanksOf
    <3>6. PICK G : /\ G = RanksOf(s, x, c)'
                   /\ G = [q \in 1 .. s.Queries |-> Querying(s)!RankIn(q, x, c)']
      BY DEF RanksOf
    <3>7. \A q \in 1 .. s.Queries :
            F[q] = Querying(s)!RankIn(q, x, c) /\ G[q] = Querying(s)!RankIn(q, x, c)'
      BY <3>5, <3>6
    <3>8. F \in [1 .. s.Queries -> Nat]
      BY <3>2, <3>5
    <3>9. G \in [1 .. s.Queries -> Nat]
      <4>1. \A q \in 1 .. s.Queries : Querying(s)!RankIn(q, x, c)' \in Nat
        BY <3>2, <3>3, <3>4
      <4>. QED  BY <3>6, <4>1
    <3>10. x # channel \/ c \notin Querying(s)!Range(ranking) => G = F
      <4>1. x # channel \/ c \notin Querying(s)!Range(ranking) =>
              \A q \in 1 .. s.Queries : G[q] = F[q]
        BY <3>4, <3>7
      <4>2. /\ F = [q \in 1 .. s.Queries |-> F[q]]
            /\ G = [q \in 1 .. s.Queries |-> G[q]]
        BY <3>8, <3>9
      <4>3. (\A q \in 1 .. s.Queries : G[q] = F[q]) =>
              [q \in 1 .. s.Queries |-> G[q]] = [q \in 1 .. s.Queries |-> F[q]]
        BY Zenon
      <4>. QED  BY <4>1, <4>2, <4>3, Zenon
    <3>11. x = channel /\ c \in Querying(s)!Range(ranking) =>
             /\ F[query] = 0 /\ G[query] = Querying(s)!Rank(ranking, c)
             /\ \A q \in 1 .. s.Queries : q # query => G[q] = F[q]
      BY <1>3, <3>4, <3>7
    <3>. QED  BY <3>1, <3>5, <3>6, <3>8, <3>9, <3>10, <3>11
  <2>4. CASE c \notin Querying(s)!Range(ranking)
    <3>1. aggregate'[c] = a
      BY <1>1, <2>1, <2>4 DEF Querying!Gathered
    <3>2. Querying(s)!Total(c)' = Querying(s)!Total(c)
      BY <2>4, RankedTerms
    <3>3. \A x \in Querying(s)!AllChannels : IsBest(a.ranks[x], RanksOf(s, x, c)')
      BY <2>3, <2>4
    <3>. QED  BY <2>2, <3>1, <3>2, <3>3
  <2>5. CASE c \in Querying(s)!Range(ranking)
    <3>1. PICK k \in 1 .. most : k = Querying(s)!Rank(ranking, c)
      BY <1>2, <2>5, RankIs DEF Ranking
    <3>2. PICK b : b = [ranks |-> [a.ranks EXCEPT ![channel] = Querying(s)!Smaller(@, k)],
                        numbers |-> a.numbers \cup {query},
                        score |-> a.score + Querying(s)!Contribution(k)]
      OBVIOUS
    <3>3. aggregate'[c] = b
      BY <1>1, <2>1, <2>5, <3>1, <3>2 DEF Querying!Gathered
    <3>4. Querying(s)!Contribution(k) \in Nat
      BY <2>5, <3>1, RankIs DEF Ranking
    <3>5. b.score = Querying(s)!Total(c)'
      <4>1. Querying(s)!Total(c)' = Querying(s)!Total(c) + Querying(s)!Contribution(k)
        BY <2>5, <3>1, RankedTerms
      <4>. QED  BY <2>2, <3>2, <4>1
    <3>6. Querying(s)!Smaller(a.ranks[channel], k) \in 0 .. most
      BY <1>3, <2>2, <3>1 DEF Querying!Smaller
    <3>7. b \in [ranks : [Querying(s)!AllChannels -> 0 .. most],
                 numbers : SUBSET (1 .. s.Queries), score : Nat]
      <4>1. [a.ranks EXCEPT ![channel] = Querying(s)!Smaller(a.ranks[channel], k)]
              \in [Querying(s)!AllChannels -> 0 .. most]
        BY <2>2, <3>6
      <4>2. a.score + Querying(s)!Contribution(k) \in Nat
        BY <2>2, <3>4
      <4>3. a.numbers \cup {query} \in SUBSET (1 .. s.Queries)
        BY <1>3, <2>2
      <4>. QED  BY <3>2, <4>1, <4>2, <4>3
    <3>8. ASSUME NEW x \in Querying(s)!AllChannels
          PROVE  IsBest(b.ranks[x], RanksOf(s, x, c)')
      <4>1. CASE x = channel
        <5>1. b.ranks[x] = Querying(s)!Smaller(a.ranks[x], k)
          BY <2>2, <3>2, <4>1
        <5>2. PICK F, G : F = RanksOf(s, x, c) /\ G = RanksOf(s, x, c)'
          OBVIOUS
        <5>3. Improves(F, G, 1 .. s.Queries, query, k) /\ IsBest(a.ranks[x], F)
          BY <1>3, <2>3, <2>5, <3>1, <4>1, <5>2 DEF Improves
        <5>4. a.ranks[x] \in Nat
          BY <2>2
        <5>5. IsBest(Querying(s)!Smaller(a.ranks[x], k), G)
          BY <5>3, <5>4, SmallerIsBest
        <5>. QED  BY <5>1, <5>2, <5>5
      <4>2. CASE x # channel
        <5>1. b.ranks[x] = a.ranks[x]
          BY <2>2, <3>2, <4>2
        <5>. QED  BY <2>3, <4>2, <5>1
      <4>. QED  BY <4>1, <4>2
    <3>. QED  BY <3>3, <3>5, <3>7, <3>8
  <2>. QED  BY <2>4, <2>5
<1>5. ScoresKept(s)' /\ RanksKept(s)'
  <2>1. ScoresKept(s)'
    BY <1>4 DEF ScoresKept, Querying!Chunks
  <2>2. RanksKept(s)'
    BY <1>4 DEF RanksKept, Querying!Chunks, Querying!AllChannels
  <2>. QED  BY <2>1, <2>2
<1>6. aggregate' \in [Querying(s)!Chunks ->
        [ranks : [Querying(s)!AllChannels -> 0 .. most],
         numbers : SUBSET (1 .. s.Queries), score : Nat]]
  <2>1. aggregate' = [c \in Querying(s)!Chunks |-> aggregate'[c]]
    BY <1>1 DEF Querying!Gathered
  <2>. QED  BY <1>4, <2>1
<1>. QED  BY <1>2, <1>5, <1>6


LEMMA RankedKeeps ==
  ASSUME NEW s, QueryAssumptions(s), FusionInv(s), NEW channel, NEW ranking,
         Ranking(s, channel, ranking), Querying(s)!RankingsExact'
  PROVE  FusionInv(s)'
<1>1. /\ phase = "query" /\ UNCHANGED <<query, hits, omitted, room, sent, phase>>
  BY DEF Ranking, Querying!Ranked
<1>2. Querying(s)!TypeOK'
  <2>1. /\ query \in 1 .. s.Queries /\ hits \in Seq(Querying(s)!Chunks)
        /\ sent \in Seq(Querying(s)!Chunks) /\ omitted \in 0 .. s.ChunkCount
        /\ room \in s.MaxPrompts /\ phase \in {"query", "fuse", "render", "done"}
    BY DEF FusionInv, Querying!TypeOK
  <2>2. /\ asked' \in 0 .. Len(s.Channels)
        /\ rankings' \in [1 .. s.Queries -> [Querying(s)!AllChannels ->
                            Querying(s)!Lists(Querying(s)!Chunks, s.MaxCandidates)]]
    BY RankedFirst
  <2>3. relevance' \in [1 .. s.Queries -> [Querying(s)!Chunks -> {0} \cup s.Similarities]]
    BY DEF Ranking
  <2>4. aggregate' \in [Querying(s)!Chunks ->
          [ranks : [Querying(s)!AllChannels -> 0 .. s.MaxCandidates],
           numbers : SUBSET (1 .. s.Queries), score : Nat]]
    BY RankedGathers
  <2>. QED  BY <1>1, <2>1, <2>2, <2>3, <2>4
         DEF Querying!TypeOK, Querying!Ranks, Querying!Chunks, Querying!AllChannels,
             Querying!Lists
<1>3. Querying(s)!HitsAreBest' /\ Querying(s)!PromptIsLongestPrefix'
  BY <1>1 DEF Querying!HitsAreBest, Querying!PromptIsLongestPrefix
<1>. QED  BY <1>2, <1>3, RankedAsks, RankedGathers DEF FusionInv

LEMMA QueryKeepsRankings ==
  ASSUME NEW s, QueryAssumptions(s), FusionInv(s), NEW channel, NEW ranking,
         Ranking(s, channel, ranking), channel # "vector", relevance' = relevance
  PROVE  Querying(s)!RankingsExact'
<1>1. \A q \in 1 .. s.Queries : rankings'[q]["vector"] = rankings[q]["vector"]
  BY RankedFirst DEF Querying!AllChannels
<1>. QED  BY <1>1 DEF FusionInv, Querying!RankingsExact, Querying!Nearer, Querying!Chunks

LEMMA QueryTextKeeps ==
  ASSUME NEW s, QueryAssumptions(s), FusionInv(s), Querying(s)!QueryText
  PROVE  FusionInv(s)'
<1>1. PICK ranking : IsRanking(s, ranking) /\ Querying(s)!Ranked("text", ranking)
  BY DEF Querying!QueryText, IsRanking
<1>2. relevance' = relevance
  BY DEF Querying!QueryText
<1>3. Ranking(s, "text", ranking)
  BY <1>1, <1>2 DEF Ranking, FusionInv, Querying!TypeOK, Querying!AllChannels
<1>. QED  BY <1>2, <1>3, QueryKeepsRankings, RankedKeeps

LEMMA QuerySymbolKeeps ==
  ASSUME NEW s, QueryAssumptions(s), FusionInv(s), Querying(s)!QuerySymbol
  PROVE  FusionInv(s)'
<1>1. PICK ids \in Querying(s)!Lists(s.Identifiers, 2) :
           Querying(s)!Ranked("symbol", Querying(s)!BySymbol(ids))
  BY DEF Querying!QuerySymbol
<1>2. relevance' = relevance
  BY DEF Querying!QuerySymbol
<1>3. PICK ranking : ranking = Querying(s)!BySymbol(ids)
  OBVIOUS
<1>4. IsRanking(s, ranking) /\ Querying(s)!Ranked("symbol", ranking)
  BY <1>1, <1>3, SymbolRanks
<1>5. Ranking(s, "symbol", ranking)
  BY <1>2, <1>4 DEF Ranking, FusionInv, Querying!TypeOK, Querying!AllChannels
<1>. QED  BY <1>2, <1>5, QueryKeepsRankings, RankedKeeps

LEMMA QueryVectorKeeps ==
  ASSUME NEW s, QueryAssumptions(s), FusionInv(s), Querying(s)!QueryVector
  PROVE  FusionInv(s)'
<1>1. PICK score \in [Querying(s)!Chunks -> s.Similarities] :
        \E returned \in Querying(s)!Returned(score) :
          /\ Querying(s)!Ranked("vector", Querying(s)!Cut(Querying(s)!Nearest(score, returned)))
          /\ relevance' = [relevance EXCEPT ![query] = score]
  BY DEF Querying!QueryVector
<1>2. PICK returned \in Querying(s)!Returned(score) :
        /\ Querying(s)!Ranked("vector", Querying(s)!Cut(Querying(s)!Nearest(score, returned)))
        /\ relevance' = [relevance EXCEPT ![query] = score]
  BY <1>1
<1>3. PICK ranking : ranking = Querying(s)!Cut(Querying(s)!Nearest(score, returned))
  OBVIOUS
<1>4. /\ IsRanking(s, ranking)
      /\ \A i \in DOMAIN ranking, d \in Querying(s)!Chunks :
           Querying(s)!Nearer(score, d, ranking[i]) <=> d \in {ranking[j] : j \in 1 .. i - 1}
  <2>1. RanksNearest(s, score, ranking)
    BY <1>1, <1>2, <1>3, VectorRanks
  <2>. QED  BY <2>1 DEF RanksNearest
<1>5. /\ query \in 1 .. s.Queries
      /\ relevance \in [1 .. s.Queries -> [Querying(s)!Chunks -> {0} \cup s.Similarities]]
  BY DEF FusionInv, Querying!TypeOK
<1>6. /\ relevance' \in [1 .. s.Queries -> [Querying(s)!Chunks -> {0} \cup s.Similarities]]
      /\ relevance'[query] = score
      /\ \A q \in 1 .. s.Queries : q # query => relevance'[q] = relevance[q]
  <2>1. score \in [Querying(s)!Chunks -> {0} \cup s.Similarities]
    BY <1>1
  <2>. QED  BY <1>2, <1>5, <2>1
<1>7. Ranking(s, "vector", ranking)
  BY <1>2, <1>3, <1>4, <1>6 DEF Ranking, Querying!AllChannels
<1>8. Querying(s)!RankingsExact'
  <2>1. SUFFICES ASSUME NEW q \in 1 .. s.Queries, NEW r \in DOMAIN rankings'[q]["vector"],
                        NEW d \in Querying(s)!Chunks
                 PROVE  Querying(s)!Nearer(relevance'[q], d, rankings'[q]["vector"][r])
                          <=> d \in {rankings'[q]["vector"][i] : i \in 1 .. r - 1}
    BY DEF Querying!RankingsExact, Querying!Nearer, Querying!Chunks
  <2>2. rankings'[q]["vector"] = IF q = query THEN ranking ELSE rankings[q]["vector"]
    BY <1>7, RankedFirst DEF Querying!AllChannels
  <2>3. CASE q = query
    <3>1. rankings'[q]["vector"] = ranking /\ relevance'[q] = score
      BY <1>6, <2>2, <2>3
    <3>. QED  BY <1>4, <3>1
  <2>4. CASE q # query
    <3>1. rankings'[q]["vector"] = rankings[q]["vector"] /\ relevance'[q] = relevance[q]
      BY <1>6, <2>2, <2>4
    <3>2. \A i \in DOMAIN rankings[q]["vector"] :
            Querying(s)!Nearer(relevance[q], d, rankings[q]["vector"][i])
              <=> d \in {rankings[q]["vector"][j] : j \in 1 .. i - 1}
      BY DEF FusionInv, Querying!RankingsExact
    <3>. QED  BY <3>1, <3>2
  <2>. QED  BY <2>3, <2>4
<1>. QED  BY <1>7, <1>8, RankedKeeps

(* The steps that rank nothing.                                            *)
LEMMA GatheredSame ==
  ASSUME NEW s, FusionInv(s), UNCHANGED <<rankings, relevance, aggregate>>
  PROVE  Querying(s)!RankingsExact' /\ ScoresKept(s)' /\ RanksKept(s)'
<1>1. Querying(s)!RankingsExact'
  BY DEF FusionInv, Querying!RankingsExact, Querying!Nearer, Querying!Chunks
<1>2. \A q, x, c : /\ Querying(s)!RankIn(q, x, c)' = Querying(s)!RankIn(q, x, c)
                   /\ Querying(s)!Points(q, x, c)' = Querying(s)!Points(q, x, c)
  BY DEF Querying!Points, Querying!RankIn, Querying!NoRank, Querying!Range, Querying!Rank,
         Querying!Contribution
<1>3. ASSUME NEW c
      PROVE  Querying(s)!Total(c)' = Querying(s)!Total(c)
  <2>1. Terms(s, c)' = Terms(s, c)
    BY <1>2 DEF Terms, Querying!AllChannels
  <2>2. Querying(s)!SumFunction(Terms(s, c)') = Querying(s)!SumFunction(Terms(s, c))
    BY <2>1, Zenon
  <2>. QED  BY <2>2, TotalIs, Zenon
<1>4. \A x, c : RanksOf(s, x, c)' = RanksOf(s, x, c)
  BY <1>2 DEF RanksOf
<1>5. ScoresKept(s)'
  BY <1>3 DEF FusionInv, ScoresKept, Querying!Chunks
<1>6. RanksKept(s)'
  BY <1>4 DEF FusionInv, RanksKept, Querying!Chunks, Querying!AllChannels
<1>. QED  BY <1>1, <1>5, <1>6


LEMMA NextQueryKeeps ==
  ASSUME NEW s, QueryAssumptions(s), FusionInv(s), Querying(s)!NextQuery
  PROVE  FusionInv(s)'
<1>1. /\ phase = "query"
      /\ UNCHANGED <<rankings, relevance, aggregate, hits, omitted, room, sent>>
      /\ \/ phase' = "fuse" /\ query' = query /\ asked' = asked
         \/ query # s.Queries /\ query' = query + 1 /\ asked' = 0 /\ phase' = phase
  BY DEF Querying!NextQuery
<1>2. query \in 1 .. s.Queries /\ asked \in 0 .. Len(s.Channels)
  BY DEF FusionInv, Querying!TypeOK
<1>3. s.Queries \in Nat /\ Len(s.Channels) \in Nat
  BY QueryBounds, LenProperties DEF QueryAssumptions, Querying!ChannelsAssumption
<1>4. Querying(s)!TypeOK'
  <2>1. query' \in 1 .. s.Queries /\ asked' \in 0 .. Len(s.Channels)
        /\ phase' \in {"query", "fuse", "render", "done"}
    BY <1>1, <1>2, <1>3
  <2>2. /\ rankings \in [1 .. s.Queries -> [Querying(s)!AllChannels ->
                            Querying(s)!Lists(Querying(s)!Chunks, s.MaxCandidates)]]
        /\ relevance \in [1 .. s.Queries -> [Querying(s)!Chunks -> {0} \cup s.Similarities]]
        /\ aggregate \in [Querying(s)!Chunks ->
             [ranks : [Querying(s)!AllChannels -> Querying(s)!Ranks],
              numbers : SUBSET (1 .. s.Queries), score : Nat]]
        /\ hits \in Seq(Querying(s)!Chunks) /\ sent \in Seq(Querying(s)!Chunks)
        /\ omitted \in 0 .. s.ChunkCount /\ room \in s.MaxPrompts
    BY DEF FusionInv, Querying!TypeOK
  <2>. QED  BY <1>1, <2>1, <2>2
         DEF Querying!TypeOK, Querying!Ranks, Querying!Chunks, Querying!AllChannels,
             Querying!Lists
<1>5. NotYetAsked(s)'
  <2>1. SUFFICES ASSUME NEW q \in 1 .. s.Queries, NEW x \in Querying(s)!AllChannels,
                        rankings'[q][x] # <<>>
                 PROVE  q < query' \/ (q = query' /\ \E i \in 1 .. asked' : s.Channels[i] = x)
    BY DEF NotYetAsked, Querying!AllChannels
  <2>2. q < query \/ (q = query /\ \E i \in 1 .. asked : s.Channels[i] = x)
    BY <1>1, <2>1 DEF FusionInv, NotYetAsked
  <2>3. CASE phase' = "fuse" /\ query' = query /\ asked' = asked
    BY <2>2, <2>3
  <2>4. CASE query' = query + 1
    <3>1. q \in Nat /\ query \in Nat
      BY <1>2, <1>3
    <3>2. q < query \/ q = query
      BY <2>2
    <3>. QED  BY <2>4, <3>1, <3>2
  <2>. QED  BY <1>1, <2>3, <2>4
<1>6. Querying(s)!HitsAreBest' /\ Querying(s)!PromptIsLongestPrefix'
  BY <1>1 DEF Querying!HitsAreBest, Querying!PromptIsLongestPrefix
<1>. QED  BY <1>1, <1>4, <1>5, <1>6, GatheredSame DEF FusionInv

LEMMA AskedSame ==
  ASSUME NEW s, FusionInv(s), UNCHANGED <<query, asked, rankings>>
  PROVE  NotYetAsked(s)'
BY DEF FusionInv, NotYetAsked, Querying!AllChannels

LEMMA FuseKeeps ==
  ASSUME NEW s, QueryAssumptions(s), FusionInv(s), Querying(s)!Fuse
  PROVE  FusionInv(s)'
<1>1. /\ UNCHANGED <<query, asked, rankings, relevance, aggregate, room, sent>>
      /\ phase' = "render"
  BY DEF Querying!Fuse
<1>2. /\ hits' \in Seq(Querying(s)!Chunks) /\ omitted' \in 0 .. s.ChunkCount
      /\ Querying(s)!HitsAreBest'
  BY FusedHits DEF FusionInv
<1>3. Querying(s)!TypeOK'
  BY <1>1, <1>2 DEF FusionInv, Querying!TypeOK, Querying!Ranks, Querying!Chunks,
                    Querying!AllChannels, Querying!Lists
<1>4. Querying(s)!PromptIsLongestPrefix'
  BY <1>1 DEF Querying!PromptIsLongestPrefix
<1>. QED  BY <1>1, <1>2, <1>3, <1>4, GatheredSame, AskedSame DEF FusionInv

LEMMA RenderKeeps ==
  ASSUME NEW s, QueryAssumptions(s), FusionInv(s), Querying(s)!Render
  PROVE  FusionInv(s)'
<1>1. /\ UNCHANGED <<query, asked, rankings, relevance, aggregate, hits, omitted, room>>
      /\ phase = "render" /\ phase' = "done" /\ sent' = Querying(s)!Fitting(hits)
  BY DEF Querying!Render
<1>2. LongestFit(s, sent', hits)
  <2>1. room \in s.MaxPrompts /\ hits \in Seq(Querying(s)!Chunks)
    BY DEF FusionInv, Querying!TypeOK
  <2>. QED  BY <1>1, <2>1, FittingIs
<1>3. Querying(s)!TypeOK'
  BY <1>1, <1>2 DEF LongestFit, FusionInv, Querying!TypeOK, Querying!Ranks, Querying!Chunks,
                    Querying!AllChannels, Querying!Lists
<1>4. /\ Querying(s)!Candidates' = Querying(s)!Candidates
      /\ \A c, d : Querying(s)!Better(c, d)' <=> Querying(s)!Better(c, d)
  BY <1>1 DEF Querying!Candidates, Querying!Better, Querying!Chunks
<1>5. Querying(s)!HitsAreBest'
  BY <1>1, <1>4 DEF FusionInv, Querying!HitsAreBest, Querying!IsInjective, Querying!Range,
                    Querying!Cardinality
<1>6. Querying(s)!PromptIsLongestPrefix'
  <2>1. \A t : Querying(s)!Fits(t)' <=> Querying(s)!Fits(t)
    BY <1>1 DEF Querying!Fits, Querying!Rendered, Querying!Content, Querying!SumFunction,
                Querying!SumFunctionOnSet, Querying!FoldFunctionOnSet, Querying!MapThenFoldSet
  <2>2. PICK n \in Nat, m \in Nat : n = Len(hits) /\ m = Len(sent')
    <3>1. Len(hits) \in Nat
      BY LenProperties DEF FusionInv, Querying!TypeOK
    <3>. QED  BY <1>2, <3>1 DEF LongestFit
  <2>3. PICK k \in Nat : k = Cardinality(Querying(s)!Candidates)
    <3>1. \A c \in Querying(s)!Chunks : aggregate[c].score \in Nat
      BY DEF FusionInv, Querying!TypeOK
    <3>2. s.ChunkCount \in Nat
      BY QueryBounds
    <3>. QED  BY <3>1, <3>2, BestIs
  <2>4. omitted = k - n
    <3>1. omitted = Querying(s)!Cardinality(Querying(s)!Candidates) - Len(hits)
      BY <1>1 DEF FusionInv, Querying!HitsAreBest
    <3>. QED  BY <2>2, <2>3, <3>1, FusingSame
  <2>5. Querying(s)!Summary' = [candidates |-> n + omitted, selected |-> m,
                                omitted |-> n + omitted - m]
    BY <1>1, <2>2 DEF Querying!Summary
  <2>6. Querying(s)!Cardinality(Querying(s)!Candidates)' = k
    BY <1>4, <2>3, FusingSame DEF Querying!Cardinality
  <2>7. /\ Querying(s)!Summary'.candidates = k
        /\ Querying(s)!Summary'.candidates
             = Querying(s)!Summary'.selected + Querying(s)!Summary'.omitted
    <3>1. n + omitted = k /\ n + omitted - m = k - m /\ k = m + (k - m)
      BY <2>2, <2>3, <2>4
    <3>2. /\ Querying(s)!Summary'.candidates = n + omitted
          /\ Querying(s)!Summary'.selected = m
          /\ Querying(s)!Summary'.omitted = n + omitted - m
      <4>1. PICK a, d, z : /\ a = n + omitted /\ d = n + omitted - m /\ z = Querying(s)!Summary'
                           /\ z = [candidates |-> a, selected |-> m, omitted |-> d]
        BY <2>5
      <4>2. z.candidates = a /\ z.selected = m /\ z.omitted = d
        BY <4>1
      <4>. QED  BY <4>1, <4>2
    <3>. QED  BY <3>1, <3>2
  <2>8. /\ sent' = SubSeq(hits', 1, Len(sent')) /\ Len(sent') <= Len(hits')
        /\ Querying(s)!Fits(sent')
        /\ sent' # hits' => ~Querying(s)!Fits(SubSeq(hits', 1, Len(sent') + 1))
    BY <1>1, <1>2 DEF LongestFit
  <2>9. /\ Querying(s)!Fits(sent)'
        /\ sent' # hits' => ~Querying(s)!Fits(SubSeq(hits, 1, Len(sent) + 1))'
    BY <1>1, <2>8 DEF Querying!Fits, Querying!Rendered, Querying!Content, Querying!SumFunction,
                Querying!SumFunctionOnSet, Querying!FoldFunctionOnSet, Querying!MapThenFoldSet
  <2>. QED  BY <2>6, <2>7, <2>8, <2>9 DEF Querying!PromptIsLongestPrefix
<1>. QED  BY <1>1, <1>3, <1>5, <1>6, GatheredSame, AskedSame DEF FusionInv

LEMMA QuerySteps ==
  ASSUME NEW s, QueryAssumptions(s), FusionInv(s), Querying(s)!Next
  PROVE  FusionInv(s)'
<1>1. CASE Querying(s)!QueryText
  BY <1>1, QueryTextKeeps
<1>2. CASE Querying(s)!QueryVector
  BY <1>2, QueryVectorKeeps
<1>3. CASE Querying(s)!QuerySymbol
  BY <1>3, QuerySymbolKeeps
<1>4. CASE Querying(s)!NextQuery
  BY <1>4, NextQueryKeeps
<1>5. CASE Querying(s)!Fuse
  BY <1>5, FuseKeeps
<1>6. CASE Querying(s)!Render
  BY <1>6, RenderKeeps
<1>. QED  BY <1>1, <1>2, <1>3, <1>4, <1>5, <1>6 DEF Querying!Next


LEMMA QueryStarts ==
  ASSUME NEW s, QueryAssumptions(s), Querying(s)!Init
  PROVE  FusionInv(s)
<1>1. /\ query = 1 /\ asked = 0 /\ hits = <<>> /\ omitted = 0 /\ sent = <<>> /\ phase = "query"
      /\ rankings = [q \in 1 .. s.Queries |-> [x \in Querying(s)!AllChannels |-> <<>>]]
      /\ relevance = [q \in 1 .. s.Queries |-> [c \in Querying(s)!Chunks |-> 0]]
      /\ aggregate = [c \in Querying(s)!Chunks |-> Querying(s)!Nothing]
      /\ room \in s.MaxPrompts
  BY DEF Querying!Init
<1>2. /\ s.Queries \in Nat \ {0} /\ s.ChunkCount \in Nat /\ s.MaxCandidates \in Nat \ {0}
      /\ Len(s.Channels) \in Nat
  BY QueryBounds, LenProperties DEF QueryAssumptions, Querying!ChannelsAssumption
<1>3. Querying(s)!TypeOK
  <2>1. <<>> \in Querying(s)!Lists(Querying(s)!Chunks, s.MaxCandidates)
    <3>1. <<>> \in [1 .. 0 -> Querying(s)!Chunks] /\ 0 \in 0 .. s.MaxCandidates
      BY <1>2
    <3>. QED  BY <1>2, <3>1, ListIs
  <2>2. Querying(s)!Nothing \in [ranks : [Querying(s)!AllChannels -> Querying(s)!Ranks],
                                 numbers : SUBSET (1 .. s.Queries), score : Nat]
    <3>1. 0 \in Querying(s)!Ranks
      BY <1>2 DEF Querying!Ranks
    <3>. QED  BY <3>1 DEF Querying!Nothing, Querying!NoRank
  <2>3. query \in 1 .. s.Queries /\ asked \in 0 .. Len(s.Channels) /\ omitted \in 0 .. s.ChunkCount
    BY <1>1, <1>2
  <2>. QED  BY <1>1, <2>1, <2>2, <2>3 DEF Querying!TypeOK
<1>4. \A q \in 1 .. s.Queries, x \in Querying(s)!AllChannels : rankings[q][x] = <<>>
  BY <1>1
<1>5. \A c : \A q \in 1 .. s.Queries, x \in Querying(s)!AllChannels :
        Querying(s)!RankIn(q, x, c) = 0 /\ Querying(s)!Points(q, x, c) = 0
  BY <1>4 DEF Querying!RankIn, Querying!Points, Querying!NoRank, Querying!Range
<1>6. Querying(s)!RankingsExact
  BY <1>4 DEF Querying!RankingsExact, Querying!AllChannels
<1>7. NotYetAsked(s)
  BY <1>4 DEF NotYetAsked
<1>8. ScoresKept(s)
  <2>1. SUFFICES ASSUME NEW c \in Querying(s)!Chunks
                 PROVE  aggregate[c].score = Querying(s)!Total(c)
    BY DEF ScoresKept
  <2>2. PICK T, f : T = (1 .. s.Queries) \X Querying(s)!AllChannels /\ f = Terms(s, c)
    OBVIOUS
  <2>3. DOMAIN f = T /\ IsFiniteSet(T)
    BY <2>2, TermsFinite DEF Terms
  <2>4. \A p \in T : f[p] = 0
    BY <1>5, <2>2 DEF Terms
  <2>5. Querying(s)!SumFunction(f) = 0
    BY <2>3, <2>4, SumOfNothing
  <2>. QED  BY <1>1, <2>2, <2>5, TotalIs DEF Querying!Nothing
<1>9. RanksKept(s)
  <2>1. SUFFICES ASSUME NEW c \in Querying(s)!Chunks, NEW x \in Querying(s)!AllChannels
                 PROVE  IsBest(aggregate[c].ranks[x], RanksOf(s, x, c))
    BY DEF RanksKept
  <2>2. aggregate[c].ranks[x] = 0
    BY <1>1 DEF Querying!Nothing, Querying!NoRank
  <2>. QED  BY <1>5, <2>2 DEF IsBest, RanksOf
<1>10. Querying(s)!HitsAreBest /\ Querying(s)!PromptIsLongestPrefix
  BY <1>1 DEF Querying!HitsAreBest, Querying!PromptIsLongestPrefix
<1>. QED  BY <1>3, <1>6, <1>7, <1>8, <1>9, <1>10 DEF FusionInv

LEMMA QueryUnchanged ==
  ASSUME NEW s, FusionInv(s), UNCHANGED <<fusionVars, phase>>
  PROVE  FusionInv(s)'
<1>1. UNCHANGED <<query, asked, rankings, relevance, aggregate, hits, omitted, room, sent, phase>>
  BY DEF fusionVars
<1>2. Querying(s)!TypeOK'
  BY <1>1 DEF FusionInv, Querying!TypeOK, Querying!Ranks, Querying!Chunks,
              Querying!AllChannels, Querying!Lists
<1>3. Querying(s)!HitsAreBest'
  BY <1>1 DEF FusionInv, Querying!HitsAreBest, Querying!IsInjective, Querying!Range,
              Querying!Cardinality, Querying!Candidates, Querying!Better, Querying!Chunks
<1>4. Querying(s)!PromptIsLongestPrefix'
  <2>1. SUFFICES ASSUME phase' = "done"
                 PROVE  Querying(s)!PromptIsLongestPrefix'
    BY DEF Querying!PromptIsLongestPrefix
  <2>2. Querying(s)!PromptIsLongestPrefix /\ phase = "done"
    BY <1>1, <2>1 DEF FusionInv
  <2>3. /\ Querying(s)!Fits(sent)' <=> Querying(s)!Fits(sent)
        /\ Querying(s)!Fits(SubSeq(hits, 1, Len(sent) + 1))'
             <=> Querying(s)!Fits(SubSeq(hits, 1, Len(sent) + 1))
    BY <1>1 DEF Querying!Fits, Querying!Rendered, Querying!Content, Querying!SumFunction,
                Querying!SumFunctionOnSet, Querying!FoldFunctionOnSet, Querying!MapThenFoldSet
  <2>4. /\ Querying(s)!Summary' = Querying(s)!Summary
        /\ Querying(s)!Cardinality(Querying(s)!Candidates)'
             = Querying(s)!Cardinality(Querying(s)!Candidates)
    BY <1>1 DEF Querying!Summary, Querying!Cardinality, Querying!Candidates, Querying!Chunks
  <2>. QED  BY <1>1, <2>2, <2>3, <2>4 DEF Querying!PromptIsLongestPrefix
<1>. QED  BY <1>1, <1>2, <1>3, <1>4, GatheredSame, AskedSame DEF FusionInv

LEMMA QuerySafe ==
  ASSUME NEW s, QueryAssumptions(s), FusionInv(s)
  PROVE  /\ Querying(s)!TypeOK /\ Querying(s)!RankingsExact /\ Querying(s)!ScoresAreSums
         /\ Querying(s)!HitsAreBest /\ Querying(s)!PromptIsLongestPrefix
<1>1. ASSUME NEW c \in Querying(s)!Chunks, NEW x \in Querying(s)!AllChannels
      PROVE  LET ranks == {Querying(s)!RankIn(q, x, c) : q \in 1 .. s.Queries} \ {Querying(s)!NoRank}
             IN  IF ranks = {} THEN aggregate[c].ranks[x] = Querying(s)!NoRank
                 ELSE /\ aggregate[c].ranks[x] \in ranks
                      /\ \A r \in ranks : aggregate[c].ranks[x] <= r
  <2>. DEFINE ranks == {Querying(s)!RankIn(q, x, c) : q \in 1 .. s.Queries} \ {0}
  <2>1. PICK a : a = aggregate[c].ranks[x]
    OBVIOUS
  <2>2. IsBest(a, RanksOf(s, x, c))
    BY <2>1 DEF FusionInv, RanksKept
  <2>3. /\ a = 0 => \A q \in 1 .. s.Queries : Querying(s)!RankIn(q, x, c) = 0
        /\ a # 0 => \E q \in 1 .. s.Queries : Querying(s)!RankIn(q, x, c) = a
        /\ a # 0 => \A q \in 1 .. s.Queries :
                      Querying(s)!RankIn(q, x, c) # 0 => a <= Querying(s)!RankIn(q, x, c)
    <3>1. DOMAIN RanksOf(s, x, c) = 1 .. s.Queries
      BY DEF RanksOf
    <3>2. \A q \in 1 .. s.Queries : RanksOf(s, x, c)[q] = Querying(s)!RankIn(q, x, c)
      BY DEF RanksOf
    <3>. QED  BY <2>2, <3>1, <3>2 DEF IsBest
  <2>4. CASE a = 0
    <3>1. ranks = {}
      BY <2>3, <2>4
    <3>. QED  BY <2>1, <2>4, <3>1 DEF Querying!NoRank
  <2>5. CASE a # 0
    <3>1. a \in ranks /\ \A r \in ranks : a <= r
      BY <2>3, <2>5
    <3>. QED  BY <2>1, <3>1 DEF Querying!NoRank
  <2>. QED  BY <2>4, <2>5
<1>2. Querying(s)!ScoresAreSums
  <2>1. \A c \in Querying(s)!Chunks : aggregate[c].score = Querying(s)!Total(c)
    BY DEF FusionInv, ScoresKept
  <2>. QED  BY <1>1, <2>1 DEF Querying!ScoresAreSums
<1>. QED  BY <1>2 DEF FusionInv

(* Over the settings.                                                      *)
QueriesInv == \A i \in DOMAIN QuerySettings : part = "query" /\ setting = i => FusionInv(QuerySettings[i])
LEMMA QueriesAssumed ==
  ASSUME NEW i \in DOMAIN QuerySettings
  PROVE  QueryAssumptions(QuerySettings[i])
BY QueryAssumption DEF QueryAssumptions

LEMMA QueriesStart ==
  ASSUME Init
  PROVE  QueriesInv
<1>1. SUFFICES ASSUME NEW i \in DOMAIN QuerySettings, part = "query", setting = i
               PROVE  FusionInv(QuerySettings[i])
  BY DEF QueriesInv
<1>2. Querying(QuerySettings[i])!Init
  BY <1>1 DEF Init
<1>. QED  BY <1>2, QueriesAssumed, QueryStarts

LEMMA QueriesStep ==
  ASSUME QueriesInv, [Next]_vars
  PROVE  QueriesInv'
<1>. SUFFICES ASSUME NEW i \in DOMAIN QuerySettings, part' = "query", setting' = i
              PROVE  FusionInv(QuerySettings[i])'
  BY DEF QueriesInv
<1>1. CASE UNCHANGED vars
  <2>1. part = "query" /\ setting = i /\ UNCHANGED <<fusionVars, phase>>
    BY <1>1 DEF vars
  <2>. QED  BY <2>1, QueryUnchanged DEF QueriesInv
<1>2. CASE Next
  <2>1. IsQuery(i) /\ Querying(QuerySettings[i])!Next
    BY <1>2 DEF Next, IsReview, IsCache, IsIndex, IsQuery, IsFile
  <2>2. FusionInv(QuerySettings[i])
    BY <2>1 DEF IsQuery, QueriesInv
  <2>. QED  BY <2>1, <2>2, QueriesAssumed, QuerySteps
<1>. QED  BY <1>1, <1>2


(***************************************************************************)
(* What a query gives and what a file is cut into: the ranks of the vector  *)
(* channel are those of the scores, a score is the sum of what every query  *)
(* and channel gave, the hits are the best and the prompt takes the longest *)
(* prefix that fits; a window fits the model and overlaps the next, the     *)
(* chunks cover every byte and never split a redacted line (_retrieval.py,  *)
(* _retrieval_prompt.py).                                                   *)
(***************************************************************************)
THEOREM HitsAndWindowsAreExact == Spec => []HitsAreExact
<1>1. Init => FilesInv /\ QueriesInv
  BY FilesStart, QueriesStart
<1>2. FilesInv /\ QueriesInv /\ [Next]_vars => (FilesInv /\ QueriesInv)'
  BY FilesStep, QueriesStep
<1>3. FilesInv /\ QueriesInv => HitsAreExact
  <2>. SUFFICES ASSUME FilesInv, QueriesInv
                PROVE  HitsAreExact
    OBVIOUS
  <2>1. ASSUME NEW i \in DOMAIN QuerySettings, part = "query", setting = i
        PROVE  LET s == QuerySettings[i] IN
               /\ Querying(s)!TypeOK /\ Querying(s)!RankingsExact /\ Querying(s)!ScoresAreSums
               /\ Querying(s)!HitsAreBest /\ Querying(s)!PromptIsLongestPrefix
    <3>1. FusionInv(QuerySettings[i]) /\ QueryAssumptions(QuerySettings[i])
      BY <2>1, QueriesAssumed DEF QueriesInv
    <3>. QED  BY <3>1, QuerySafe
  <2>2. ASSUME NEW i \in DOMAIN FileSettings, part = "file", setting = i
        PROVE  LET s == FileSettings[i] IN
               /\ Cutting(s)!TypeOK /\ Cutting(s)!WindowsFit /\ Cutting(s)!WindowsOverlap
               /\ Cutting(s)!ChunksAreWhole
               /\ s.Overlap > 0 /\ (\A k \in DOMAIN lines : ~lines[k].redacted)
                    => Cutting(s)!EveryFileIsChunked
    <3>1. FileInv(FileSettings[i]) /\ CutAssumptions(FileSettings[i])
      BY <2>2, FilesAssumed DEF FilesInv
    <3>. QED  BY <3>1, FileSafe
  <2>. QED  BY <2>1, <2>2 DEF HitsAreExact
<1>. QED  BY <1>1, <1>2, <1>3, PTL DEF Spec
=============================================================================
