----------------------- MODULE SectorArithmeticProofs -----------------------
(***************************************************************************)
(* Facts about the byte/sector arithmetic for every sector size.           *)
(***************************************************************************)
EXTENDS SectorArithmetic, TLAPS

LEMMA DivMod ==
  ASSUME NEW x \in Nat, NEW s \in Nat \ {0}
  PROVE  /\ x \div s \in Nat /\ x % s \in 0 .. s - 1
         /\ x = s * (x \div s) + (x % s)
OBVIOUS

LEMMA MultipleBelow ==
  ASSUME NEW a \in Int, NEW b \in Int, NEW s \in Nat \ {0}, s * a < s * b
  PROVE  a < b
OBVIOUS

LEMMA MultipleNotAbove ==
  ASSUME NEW a \in Int, NEW b \in Int, NEW s \in Nat \ {0}, a <= b
  PROVE  s * a <= s * b
OBVIOUS

LEMMA ExactDiv ==
  ASSUME NEW a \in Nat, NEW s \in Nat \ {0}
  PROVE  (s * a) % s = 0 /\ (s * a) \div s = a
OBVIOUS

\* Rounding up and dividing gives the least number of sectors that hold size bytes.
LEMMA SectorsForBounds ==
  ASSUME NEW size \in Nat
  PROVE  /\ SectorsFor(size) \in Nat
         /\ size <= FULL_SECTOR_SIZE * SectorsFor(size)
         /\ FULL_SECTOR_SIZE * (SectorsFor(size) - 1) < size
<1> DEFINE s == FULL_SECTOR_SIZE
           q == size \div s
           r == size % s
<1>0. s \in Nat \ {0}
  BY SectorSizeAssumption
<1>1. q \in Nat /\ r \in 0 .. s - 1 /\ size = s * q + r
  BY <1>0, DivMod
<1>2. CASE r = 0
  <2>1. SectorsFor(size) = q
    BY <1>2 DEF SectorsFor, AlignUp, GetSectorAmount
  <2> QED BY <1>0, <1>1, <1>2, <2>1
<1>3. CASE r # 0
  <2>1. AlignUp(size) = s * (q + 1)
    BY <1>0, <1>1, <1>3 DEF AlignUp
  <2>2. SectorsFor(size) = q + 1
    BY <1>0, <1>1, <2>1, ExactDiv DEF SectorsFor, GetSectorAmount
  <2> QED BY <1>0, <1>1, <1>3, <2>2
<1> QED BY <1>2, <1>3

LEMMA SectorsForLeast ==
  ASSUME NEW size \in Nat, NEW count \in Nat
  PROVE  SectorsFor(size) <= count <=> size <= FULL_SECTOR_SIZE * count
<1> DEFINE S == FULL_SECTOR_SIZE
           c == SectorsFor(size)
<1>0. S \in Nat \ {0} /\ c \in Nat /\ size <= S * c /\ S * (c - 1) < size
  BY SectorsForBounds, SectorSizeAssumption
<1>1. S * c \in Int /\ S * (c - 1) \in Int /\ S * count \in Int
  BY <1>0
<1> HIDE DEF S, c
<1>2. c <= count => size <= S * count
  BY <1>0, <1>1, MultipleNotAbove
<1>3. ASSUME size <= S * count PROVE c <= count
  <2>1. S * (c - 1) < S * count
    BY <1>0, <1>1, <1>3
  <2>2. c - 1 < count
    BY <1>0, <2>1, MultipleBelow
  <2> QED BY <1>0, <2>2
<1> QED BY <1>2, <1>3 DEF S, c

LEMMA SectorsForMonotonic ==
  ASSUME NEW a \in Nat, NEW b \in Nat, a <= b
  PROVE  SectorsFor(a) <= SectorsFor(b)
<1>1. SectorsFor(b) \in Nat /\ b <= FULL_SECTOR_SIZE * SectorsFor(b)
  BY SectorsForBounds
<1>2. a <= FULL_SECTOR_SIZE * SectorsFor(b)
  BY <1>1, SectorSizeAssumption
<1> QED BY <1>1, <1>2, SectorsForLeast

\* ReadWrite rejects a range when sectorEnd > sectorCount, although the last
\* index of the vector is sectorCount - 1.  For a range whose bytes lie in the
\* vector this makes no difference: it is accepted, and every index the copy
\* loop visits is inside.
THEOREM RangeInVectorIsSafe ==
  ASSUME NEW o \in Nat, NEW s \in Nat \ {0}, NEW count \in Nat, SectorsFor(o + s) <= count
  PROVE  /\ ~Rejected(o, s, count)
         /\ OffsetSectorBegin(o) \in Nat
         /\ SectorEnd(o, s, count) \in OffsetSectorBegin(o) .. count - 1
<1> DEFINE S == FULL_SECTOR_SIZE
           q == o \div S
           r == o % S
           c == SectorsFor(s)
<1>0. S \in Nat \ {0}
  BY SectorSizeAssumption
<1>1. q \in Nat /\ r \in 0 .. S - 1 /\ o = S * q + r
  BY <1>0, DivMod
<1>2. AlignDown(o) = S * q /\ OffsetOffset(o) = r
  BY <1>0, <1>1 DEF AlignDown, OffsetOffset
<1>3. OffsetSectorBegin(o) = q
  BY <1>0, <1>1, <1>2, ExactDiv DEF OffsetSectorBegin, GetSectorAmount
<1>4. c \in Nat /\ S * (c - 1) < s /\ s <= S * c
  BY SectorsForBounds
<1>5. c >= 1
  BY <1>0, <1>4
<1>6. o + s <= S * count
  BY SectorsForLeast
<1>7. S * (q + c - 1) < S * count
  BY <1>0, <1>1, <1>4, <1>6
<1>8. q + c - 1 < count
  BY <1>0, <1>1, <1>4, <1>7, MultipleBelow
<1>9. SectorEnd(o, s, count) \in q .. count - 1
  BY <1>1, <1>2, <1>3, <1>4, <1>5, <1>8 DEF SectorEnd
<1> QED BY <1>0, <1>1, <1>2, <1>3, <1>9 DEF Rejected

=============================================================================
