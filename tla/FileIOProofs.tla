----------------------------- MODULE FileIOProofs -----------------------------
(***************************************************************************)
(* The sizes, the limit and the data of files, for any number of files and *)
(* any sector size: the sizes stay nested, a refusal is accounted for, and  *)
(* a Read returns what was written.                                        *)
(***************************************************************************)
EXTENDS FileIO, SectorArithmeticProofs, FunctionTheorems, FiniteSetTheorems,
        SequenceTheorems, WellFoundedInduction, TLAPS

-----------------------------------------------------------------------------
(* The inductive invariant. *)

Stored == Values \cup {Uninitialised}

SectorContents == [0 .. FULL_SECTOR_SIZE - 1 -> Stored]

Entries == SectorContents \cup {NullSector}

Calls ==
  [op : {"none", "Create", "CreateUndone", "SetFileSize", "SetAllocationSize", "Write", "Overwrite",
         "Cleanup", "Delete"},
   newSize : Nat, offset : Nat, size : Nat, value : Stored]

PCs == {"idle", "check", "reallocate", "grow", "subtract"}

Histories == UNION {[places -> Stored] : places \in SUBSET Nat}

Typed ==
  /\ exists \subseteq Files
  /\ sectors \in [Files -> Seq(Entries)]
  /\ fileSize \in [Files -> Nat] /\ allocationSize \in [Files -> Nat]
  /\ allocatedSectors \in Nat /\ lost \in Nat
  /\ owed \in [Files -> Nat]
  /\ call \in [Files -> Calls]
  /\ pc \in [Files -> PCs]
  /\ written \in [Files -> Histories]

\* What a call under way was started with still holds, for no other call changes
\* its file, and what ReAllocate owes is what it is doing to the vector.
CallInv(f) ==
  /\ call[f].op = "Write" => call[f].size > 0 /\ call[f].offset + call[f].size <= call[f].newSize
  /\ pc[f] # "idle" => (call[f].op = "Write" => fileSize[f] <= call[f].newSize)
  /\ pc[f] \notin {"grow", "subtract"} => owed[f] = 0
  /\ pc[f] = "grow" => Wanted(f) = Len(sectors[f]) + owed[f]
  /\ pc[f] = "subtract" => Wanted(f) = Len(sectors[f])

\* Every entry of every vector is counted, those a failed allocation left null
\* too, and what was reserved and not yet used, or never.
CounterInv ==
  IsFiniteSet(Counted(Files)) /\ allocatedSectors = Cardinality(Counted(Files)) + lost

AllPresent == UNION {{f} \X PresentSectors(f) : f \in Files}

\* The heap never gives more than it has.
RoomInv == Cardinality(AllPresent) <= HeapSectors

NestedInv(f) ==
  /\ fileSize[f] <= allocationSize[f]
  /\ Usable(f) => allocationSize[f] <= Len(sectors[f]) * FULL_SECTOR_SIZE

\* What Writes stored is where byte o of the file lives, unless that was cut off.
DataInv(f) ==
  \A o \in DOMAIN written[f] :
    /\ o < fileSize[f]
    /\ o \div FULL_SECTOR_SIZE + 1 <= Len(sectors[f]) /\ sectors[f][o \div FULL_SECTOR_SIZE + 1] # NullSector =>
         sectors[f][o \div FULL_SECTOR_SIZE + 1][o % FULL_SECTOR_SIZE] = written[f][o]

FileInv(f) == CallInv(f) /\ NestedInv(f) /\ DataInv(f)

Inv == Typed /\ CounterInv /\ RoomInv /\ \A f \in Files : FileInv(f)

-----------------------------------------------------------------------------
(* Where a byte lives. *)

LEMMA LeastNumber ==
  ASSUME NEW S \in SUBSET Nat, S # {}
  PROVE  \E n \in S : \A m \in S : n <= m
<1>1. PICK n \in S : \A m \in S : <<m, n>> \notin OpToRel(<, Nat)
  BY NatLessThanWellFounded, WFMin
<1>2. OpToRel(<, Nat) = {pair \in Nat \X Nat : pair[1] < pair[2]}
  BY DEF OpToRel
<1>3. \A m \in S : ~(m < n)
  BY <1>1, <1>2
<1> QED BY <1>3

LEMMA Distributes ==
  ASSUME NEW s \in Int, NEW a \in Int
  PROVE  s * a \in Int /\ s * (a + 1) = s * a + s
OBVIOUS

LEMMA PlaceIsUnique ==
  ASSUME NEW s \in Nat \ {0}, NEW q \in Int, NEW r \in 0 .. s - 1, NEW o \in Nat, o = s * q + r
  PROVE  o \div s = q /\ o % s = r
<1> DEFINE p == o \div s
<1>1. p \in Nat /\ o % s \in 0 .. s - 1 /\ o = s * p + (o % s)
  BY DivMod
<1> HIDE DEF p
<1>2. /\ s * (p + 1) = s * p + s /\ s * (q + 1) = s * q + s
      /\ s * p \in Int /\ s * q \in Int
  BY <1>1, Distributes
<1>3. s * q < s * (p + 1) /\ s * p < s * (q + 1)
  BY <1>1, <1>2
<1>4. q < p + 1 /\ p < q + 1
  BY <1>1, <1>3, MultipleBelow
<1>5. p = q
  BY <1>1, <1>4
<1> QED BY <1>1, <1>2, <1>5 DEF p

LEMMA PlaceInVector ==
  ASSUME NEW s \in Nat \ {0}, NEW o \in Nat, NEW n \in Nat, o < n * s
  PROVE  o \div s + 1 \in 1 .. n
<1> DEFINE p == o \div s
<1>1. p \in Nat /\ o % s \in 0 .. s - 1 /\ o = s * p + (o % s)
  BY DivMod
<1> HIDE DEF p
<1>2. s * p \in Int /\ s * n = n * s /\ s * n \in Int
  BY <1>1
<1>4. s * p < s * n
  BY <1>1, <1>2
<1>3. p < n
  BY <1>1, <1>4, MultipleBelow
<1> QED BY <1>1, <1>3 DEF p

LEMMA BeginFacts ==
  ASSUME NEW o \in Nat
  PROVE  /\ OffsetSectorBegin(o) = o \div FULL_SECTOR_SIZE
         /\ OffsetOffset(o) = o % FULL_SECTOR_SIZE
<1> DEFINE S == FULL_SECTOR_SIZE
           q == o \div S
           r == o % S
<1>0. S \in Nat \ {0}
  BY SectorSizeAssumption
<1>1. q \in Nat /\ r \in 0 .. S - 1 /\ o = S * q + r
  BY <1>0, DivMod
<1>2. AlignDown(o) = S * q /\ OffsetOffset(o) = r
  BY <1>0, <1>1 DEF AlignDown, OffsetOffset
<1>3. OffsetSectorBegin(o) = q
  BY <1>0, <1>1, <1>2, ExactDiv DEF OffsetSectorBegin, GetSectorAmount
<1> QED BY <1>2, <1>3

\* The loop of ReadWrite has moved min(size, what fits up to the end of sector i).
LEMMA BytesCopiedAre ==
  ASSUME NEW o \in Nat, NEW size \in Nat \ {0}, NEW last \in Int
  PROVE  BytesCopied(o, size, last) =
           [i \in o \div FULL_SECTOR_SIZE .. last |-> MinOf(size, FULL_SECTOR_SIZE * (i + 1) - o)]
<1> DEFINE S == FULL_SECTOR_SIZE
           begin == o \div S
           D == begin .. last
           Loop(g) == [i \in D |-> IF i = begin THEN MinOf(size, S - OffsetOffset(o))
                                   ELSE g[i - 1] + MinOf(S, size - g[i - 1])]
           F == [i \in D |-> MinOf(size, S * (i + 1) - o)]
<1>0. S \in Nat \ {0}
  BY SectorSizeAssumption
<1>1. begin \in Nat /\ o % S \in 0 .. S - 1 /\ o = S * begin + (o % S) /\ OffsetOffset(o) = o % S
  BY <1>0, DivMod, BeginFacts
<1>2. BytesCopied(o, size, last) = CHOOSE g : g = Loop(g)
  BY BeginFacts DEF BytesCopied
<1> HIDE DEF begin, S
<1>3. S * (begin + 1) - o = S - OffsetOffset(o)
  BY <1>0, <1>1, Distributes
<1>4. ASSUME NEW i \in D, i # begin
      PROVE  /\ i - 1 \in D
             /\ F[i] = F[i - 1] + MinOf(S, size - F[i - 1])
  <2>1. i \in Int /\ i - 1 \in D /\ (i - 1) + 1 = i
    BY <1>1, <1>4
  <2>2. S * (i + 1) - o = (S * i - o) + S /\ S * i - o \in Int
    BY <1>0, <2>1, Distributes
  <2>3. F[i] = MinOf(size, (S * i - o) + S) /\ F[i - 1] = MinOf(size, S * i - o)
    BY <2>1, <2>2
  <2> QED BY <1>0, <2>1, <2>2, <2>3 DEF MinOf
<1>5. F = Loop(F)
  BY <1>3, <1>4
<1>6. ASSUME NEW g, g = Loop(g) PROVE g = F
  <2> DEFINE differ == {i \in D : g[i] # F[i]}
  <2>1. ASSUME differ # {} PROVE FALSE
    <3>0. differ \in SUBSET Nat
      BY <1>1
    <3>1. PICK i \in differ : \A j \in differ : i <= j
      <4> HIDE DEF differ
      <4> QED BY <2>1, <3>0, LeastNumber
    <3>2. i \in D /\ i \in Nat
      BY <1>1
    <3>3. g[i] = Loop(g)[i]
      BY <1>6
    <3>4. CASE i = begin
      BY <1>3, <3>1, <3>2, <3>3, <3>4
    <3>5. CASE i # begin
      <4>1. i - 1 \in D /\ i - 1 \notin differ
        BY <1>4, <3>1, <3>2, <3>5
      <4>2. g[i - 1] = F[i - 1]
        BY <4>1
      <4> QED BY <1>4, <3>1, <3>2, <3>3, <3>5, <4>2
    <3> QED BY <3>4, <3>5
  <2>2. DOMAIN g = D /\ g = [i \in D |-> g[i]]
    BY <1>6
  <2> HIDE DEF F
  <2>3. F = [i \in D |-> F[i]]
    BY DEF F
  <2> QED BY <2>1, <2>2, <2>3
<1>7. (CHOOSE g : g = Loop(g)) = F
  <2> HIDE DEF F, Loop
  <2> QED BY <1>5, <1>6
<1> QED BY <1>2, <1>7 DEF begin, S

\* The last sector the loop visits holds the end of the range.
LEMMA LastHoldsTheEnd ==
  ASSUME NEW o \in Nat, NEW size \in Nat \ {0}, NEW count \in Nat, SectorsFor(o + size) <= count
  PROVE  /\ SectorEnd(o, size, count) \in o \div FULL_SECTOR_SIZE .. count - 1
         /\ o + size <= FULL_SECTOR_SIZE * (SectorEnd(o, size, count) + 1)
<1> DEFINE S == FULL_SECTOR_SIZE
           begin == o \div S
           r == o % S
           n == SectorsFor(size)
           last == SectorEnd(o, size, count)
<1>0. S \in Nat \ {0}
  BY SectorSizeAssumption
<1>1. /\ begin \in Nat /\ r \in 0 .. S - 1 /\ o = S * begin + r /\ OffsetOffset(o) = r
      /\ OffsetSectorBegin(o) = begin
  BY <1>0, DivMod, BeginFacts
<1>2. last \in begin .. count - 1
  BY <1>1, RangeInVectorIsSafe
<1>3. n \in Nat /\ size <= S * n
  BY SectorsForBounds
<1>4. last = IF r > 0 /\ count > begin + n THEN begin + n ELSE begin + n - 1
  BY <1>1, <1>3 DEF SectorEnd
<1>5. o + size <= S * count
  BY SectorsForLeast
<1> HIDE DEF S, begin, r, n, last
<1>6. /\ S * (begin + n) = S * begin + S * n /\ S * (begin + n + 1) = S * begin + S * n + S
      /\ S * begin \in Int /\ S * n \in Int
  BY <1>0, <1>1, <1>3
<1>7. CASE r > 0 /\ count > begin + n
  BY <1>0, <1>1, <1>2, <1>3, <1>4, <1>6, <1>7 DEF S, last
<1>8. CASE r = 0
  <2>1. last + 1 = begin + n
    BY <1>1, <1>3, <1>4, <1>8
  <2> QED BY <1>0, <1>1, <1>2, <1>3, <1>6, <1>8, <2>1 DEF S, last, begin
<1>9. CASE r > 0 /\ ~(count > begin + n)
  <2>1. last + 1 = begin + n
    BY <1>1, <1>3, <1>4, <1>9
  <2>2. S * count <= S * (begin + n)
    BY <1>0, <1>1, <1>3, <1>9, MultipleNotAbove
  <2>3. S * count \in Int /\ S * (begin + n) \in Int
    BY <1>0, <1>1, <1>3
  <2>4. o + size <= S * (last + 1)
    BY <1>5, <2>1, <2>2, <2>3
  <2> QED BY <1>2, <2>4 DEF S, last, begin
<1>10. r > 0 \/ r = 0
  BY <1>1
<1> QED BY <1>7, <1>8, <1>9, <1>10 DEF begin, r, n

\* Byte k of the buffer goes to byte offset + k of the file, wherever the range
\* begins and ends in its sectors.
THEOREM TransferIsExact ==
  ASSUME NEW o \in Nat, NEW size \in Nat \ {0}, NEW count \in Nat, SectorsFor(o + size) <= count
  PROVE  Transfer(o, size, count) =
           [k \in 0 .. size - 1 |-> <<(o + k) \div FULL_SECTOR_SIZE, (o + k) % FULL_SECTOR_SIZE>>]
<1> DEFINE S == FULL_SECTOR_SIZE
           begin == o \div S
           last == SectorEnd(o, size, count)
           copied == [i \in begin .. last |-> MinOf(size, S * (i + 1) - o)]
           IsPlace(k, i) == k < copied[i] /\ (i = begin \/ k >= copied[i - 1])
           Sector(k) == CHOOSE i \in begin .. last : IsPlace(k, i)
           place(k) == IF Sector(k) = begin THEN <<Sector(k), OffsetOffset(o) + k>>
                       ELSE <<Sector(k), k - copied[Sector(k) - 1]>>
<1>0. S \in Nat \ {0}
  BY SectorSizeAssumption
<1>1. /\ begin \in Nat /\ o % S \in 0 .. S - 1 /\ o = S * begin + (o % S)
      /\ OffsetOffset(o) = o % S /\ OffsetSectorBegin(o) = begin
  BY <1>0, DivMod, BeginFacts
<1>2. last \in begin .. count - 1 /\ o + size <= S * (last + 1)
  BY LastHoldsTheEnd
<1>3. BytesCopied(o, size, last) = copied
  BY <1>2, BytesCopiedAre
<1>4. Transfer(o, size, count) = [k \in 0 .. copied[last] - 1 |-> place(k)]
  <2> HIDE DEF copied
  <2> QED BY <1>1, <1>3 DEF Transfer
<1> HIDE DEF begin, last, S
<1>5. copied[last] = size
  <2>1. S * (last + 1) \in Int
    BY <1>0, <1>1, <1>2
  <2> QED BY <1>1, <1>2, <2>1 DEF MinOf
<1>6. ASSUME NEW k \in 0 .. size - 1
      PROVE  place(k) = <<(o + k) \div S, (o + k) % S>>
  <2> DEFINE p == (o + k) \div S
             m == (o + k) % S
  <2>0. o + k \in Nat /\ k \in Nat /\ k < size
    OBVIOUS
  <2>1. p \in Nat /\ m \in 0 .. S - 1 /\ o + k = S * p + m
    BY <1>0, <2>0, DivMod
  <2> HIDE DEF p, m
  <2>2. \A i \in Int : S * i \in Int /\ S * (i + 1) = S * i + S
    BY <1>0
  <2>3. p \in begin .. last
    <3>1. S * begin < S * (p + 1) /\ S * p < S * (last + 1)
      BY <1>0, <1>1, <1>2, <2>1, <2>2
    <3>2. begin < p + 1 /\ p < last + 1
      BY <1>0, <1>1, <1>2, <2>1, <3>1, MultipleBelow
    <3> QED BY <1>1, <1>2, <2>1, <3>2
  <2>4. ASSUME NEW i \in begin .. last
        PROVE  /\ k < copied[i] <=> o + k < S * (i + 1)
               /\ i # begin => copied[i - 1] = MinOf(size, S * i - o)
               /\ i # begin => (k >= copied[i - 1] <=> o + k >= S * i)
    <3>1. i \in Int /\ (i # begin => i - 1 \in begin .. last /\ (i - 1) + 1 = i)
      BY <1>1, <1>2
    <3>2. S * i \in Int /\ S * (i + 1) \in Int
      BY <2>2, <3>1
    <3>3. copied[i] = MinOf(size, S * (i + 1) - o)
      OBVIOUS
    <3>4. i # begin => copied[i - 1] = MinOf(size, S * i - o)
      BY <3>1
    <3> HIDE DEF copied
    <3> QED BY <3>1, <3>2, <3>3, <3>4 DEF MinOf
  <2>5. IsPlace(k, p)
    <3> HIDE DEF copied
    <3>1. S * p <= o + k /\ o + k < S * (p + 1)
      BY <1>0, <2>1, <2>2
    <3> QED BY <2>3, <2>4, <3>1
  <2>6. ASSUME NEW i \in begin .. last, IsPlace(k, i) PROVE i = p
    <3>1. i \in Int /\ o + k < S * (i + 1) /\ (i # begin => S * i <= o + k)
      <4> HIDE DEF copied
      <4> QED BY <1>1, <1>2, <2>4, <2>6
    <3>2. S * i <= o + k
      BY <1>0, <1>1, <2>2, <3>1
    <3>3. S * i < S * (p + 1) /\ S * p < S * (i + 1)
      BY <1>0, <2>1, <2>2, <3>1, <3>2
    <3>4. i < p + 1 /\ p < i + 1
      BY <1>0, <2>1, <3>1, <3>3, MultipleBelow
    <3> QED BY <2>1, <3>1, <3>4
  <2>7. Sector(k) = p
    <3> HIDE DEF IsPlace
    <3> QED BY <2>3, <2>5, <2>6
  <2>8. place(k) = IF p = begin THEN <<p, OffsetOffset(o) + k>> ELSE <<p, k - copied[p - 1]>>
    <3> HIDE DEF Sector, copied
    <3> QED BY <2>7
  <2>9. CASE p = begin
    <3>1. OffsetOffset(o) + k = m
      BY <1>0, <1>1, <2>1, <2>2, <2>9
    <3> QED BY <2>8, <2>9, <3>1 DEF p, m
  <2>10. CASE p # begin
    <3> HIDE DEF copied
    <3>1. copied[p - 1] = MinOf(size, S * p - o) /\ k >= copied[p - 1]
      BY <2>3, <2>4, <2>5, <2>10
    <3>2. S * p - o \in Int
      BY <2>1, <2>2
    <3>3. copied[p - 1] = S * p - o
      BY <2>0, <3>1, <3>2 DEF MinOf
    <3>4. k - copied[p - 1] = m
      BY <2>0, <2>1, <2>2, <3>3
    <3> QED BY <2>8, <2>10, <3>4 DEF p, m
  <2> QED BY <2>9, <2>10
<1> HIDE DEF place, copied
<1> QED BY <1>4, <1>5, <1>6 DEF S

-----------------------------------------------------------------------------
(* The vectors. *)

LEMMA EntryTypes ==
  ASSUME NEW vector \in Seq(Entries)
  PROVE  /\ Len(vector) \in Nat /\ DOMAIN vector = 1 .. Len(vector)
         /\ \A k \in 1 .. Len(vector) :
              vector[k] \in Entries /\ (vector[k] # NullSector => vector[k] \in SectorContents)
<1>1. Len(vector) \in Nat /\ DOMAIN vector = 1 .. Len(vector)
  BY LenProperties
<1>2. \A k \in 1 .. Len(vector) : vector[k] \in Entries
  BY ElementOfSeq
<1> QED BY <1>1, <1>2 DEF Entries

LEMMA ResizedFacts ==
  ASSUME NEW vector \in Seq(Entries), NEW n \in Nat, NEW room \in Int
  PROVE  /\ Resized(vector, n, room) \in Seq(Entries)
         /\ Len(Resized(vector, n, room)) = n
         /\ \A k \in 1 .. n : k <= Len(vector) => Resized(vector, n, room)[k] = vector[k]
         /\ \A k \in 1 .. n :
              k > Len(vector) + room /\ k > Len(vector) => Resized(vector, n, room)[k] = NullSector
<1> DEFINE e(k) == IF k <= Len(vector) THEN vector[k]
                   ELSE IF k <= Len(vector) + room THEN FreshSector ELSE NullSector
<1>0. FreshSector \in Entries
  BY DEF FreshSector, Entries, SectorContents, Stored
<1>1. \A k \in 1 .. n : e(k) \in Entries
  BY <1>0, EntryTypes DEF Entries
<1>2. Resized(vector, n, room) = [k \in 1 .. n |-> e(k)]
  BY DEF Resized
<1>3. [k \in 1 .. n |-> e(k)] \in Seq(Entries)
  <2> HIDE DEF e
  <2> QED BY <1>1, IsASeq
<1>4. Len([k \in 1 .. n |-> e(k)]) = n
  BY <1>3, LenProperties
<1>5. \A k \in 1 .. n : [i \in 1 .. n |-> e(i)][k] = e(k)
  OBVIOUS
<1>6. Len(vector) \in Nat
  BY EntryTypes
<1> QED BY <1>2, <1>3, <1>4, <1>5, <1>6

\* A Write changes the bytes of its range, and leaves the others and the null entries.
LEMMA AfterWriteFacts ==
  ASSUME NEW vector \in Seq(Entries), NEW o \in Nat, NEW size \in Nat \ {0}, NEW value \in Stored,
         o + size <= Len(vector) * FULL_SECTOR_SIZE
  PROVE  /\ AfterWrite(vector, o, size, value) \in Seq(Entries)
         /\ Len(AfterWrite(vector, o, size, value)) = Len(vector)
         /\ \A k \in 1 .. Len(vector) :
              AfterWrite(vector, o, size, value)[k] # NullSector => vector[k] # NullSector
         /\ \A p \in Nat :
              /\ p \div FULL_SECTOR_SIZE + 1 \in 1 .. Len(vector)
              /\ vector[p \div FULL_SECTOR_SIZE + 1] # NullSector
              => AfterWrite(vector, o, size, value)[p \div FULL_SECTOR_SIZE + 1][p % FULL_SECTOR_SIZE] =
                   IF p \in o .. o + size - 1 THEN value
                   ELSE vector[p \div FULL_SECTOR_SIZE + 1][p % FULL_SECTOR_SIZE]
<1> DEFINE S == FULL_SECTOR_SIZE
           n == Len(vector)
           hit == Range(Transfer(o, size, n))
           e(k) == IF vector[k] = NullSector THEN NullSector
                   ELSE [b \in DOMAIN vector[k] |->
                           IF <<k - 1, b>> \in hit THEN value ELSE vector[k][b]]
<1>0. S \in Nat \ {0} /\ n \in Nat /\ DOMAIN vector = 1 .. n
  BY SectorSizeAssumption, EntryTypes
<1>1. AfterWrite(vector, o, size, value) = [k \in 1 .. n |-> e(k)]
  BY <1>0 DEF AfterWrite
<1>2. SectorsFor(o + size) <= n
  BY <1>0, SectorsForLeast
<1>3. Transfer(o, size, n) = [k \in 0 .. size - 1 |-> <<(o + k) \div S, (o + k) % S>>]
  BY <1>0, <1>2, TransferIsExact
<1>4. ASSUME NEW p \in Nat
      PROVE  <<p \div S, p % S>> \in hit <=> p \in o .. o + size - 1
  <2>1. p \div S \in Nat /\ p % S \in 0 .. S - 1 /\ p = S * (p \div S) + (p % S)
    BY <1>0, DivMod
  <2>2. ASSUME p \in o .. o + size - 1 PROVE <<p \div S, p % S>> \in hit
    <3>1. p - o \in 0 .. size - 1 /\ o + (p - o) = p
      BY <2>2
    <3> HIDE DEF S
    <3> QED BY <1>3, <3>1 DEF Range
  <2>3. ASSUME <<p \div S, p % S>> \in hit PROVE p \in o .. o + size - 1
    <3>1. PICK k \in 0 .. size - 1 : <<p \div S, p % S>> = <<(o + k) \div S, (o + k) % S>>
      BY <1>3, <2>3 DEF Range
    <3>2. o + k \in Nat
      OBVIOUS
    <3>3. o + k = S * ((o + k) \div S) + ((o + k) % S)
      BY <1>0, <3>2, DivMod
    <3>4. p = o + k
      <4> HIDE DEF S
      <4> QED BY <2>1, <3>1, <3>3
    <3> QED BY <3>2, <3>4
  <2> QED BY <2>2, <2>3
<1> HIDE DEF hit, n, S
<1>5. ASSUME NEW k \in 1 .. n PROVE e(k) \in Entries
  <2>1. vector[k] # NullSector => vector[k] \in [0 .. S - 1 -> Stored]
    BY EntryTypes DEF n, S, SectorContents
  <2>2. CASE vector[k] # NullSector
    <3>1. e(k) \in [0 .. S - 1 -> Stored]
      BY <2>1, <2>2
    <3> QED BY <3>1 DEF Entries, SectorContents, S
  <2> QED BY <2>2 DEF Entries
<1>6. [k \in 1 .. n |-> e(k)] \in Seq(Entries) /\ Len([k \in 1 .. n |-> e(k)]) = n
  <2> HIDE DEF e
  <2>1. [k \in 1 .. n |-> e(k)] \in Seq(Entries)
    BY <1>0, <1>5, IsASeq
  <2> QED BY <1>0, <2>1, LenProperties
<1>7. ASSUME NEW p \in Nat, p \div S + 1 \in 1 .. n, vector[p \div S + 1] # NullSector
      PROVE  e(p \div S + 1)[p % S] =
               IF p \in o .. o + size - 1 THEN value ELSE vector[p \div S + 1][p % S]
  <2>0. p \div S \in Nat /\ p % S \in 0 .. S - 1
    BY <1>0, DivMod
  <2>1. (p \div S + 1) - 1 = p \div S
    BY <2>0
  <2>2. DOMAIN vector[p \div S + 1] = 0 .. S - 1
    BY <1>7, EntryTypes DEF n, S, SectorContents
  <2> QED BY <1>4, <1>7, <2>0, <2>1, <2>2
<1>8. \A k \in 1 .. n : AfterWrite(vector, o, size, value)[k] = e(k)
  <2> HIDE DEF e
  <2> QED BY <1>1
<1>9. \A k \in 1 .. n : e(k) # NullSector => vector[k] # NullSector
  OBVIOUS
<1> HIDE DEF e
<1> QED BY <1>1, <1>6, <1>7, <1>8, <1>9 DEF n, S

-----------------------------------------------------------------------------
(* Counting. *)

\* The entries from a + 1 to b of one file.
Span(f, a, b) == {f} \X (a + 1 .. b)

LEMMA SpanSize ==
  ASSUME NEW f, NEW a \in Nat, NEW b \in Nat, a <= b
  PROVE  IsFiniteSet(Span(f, a, b)) /\ Cardinality(Span(f, a, b)) = b - a
<1>1. IsFiniteSet(a + 1 .. b) /\ Cardinality(a + 1 .. b) = b - a
  <2>1. a + 1 \in Int
    OBVIOUS
  <2>2. /\ IsFiniteSet(a + 1 .. b)
        /\ Cardinality(a + 1 .. b) = IF a + 1 > b THEN 0 ELSE b - (a + 1) + 1
    BY <2>1, FS_Interval
  <2> QED BY <2>2
<1>2. IsFiniteSet({f}) /\ Cardinality({f}) = 1
  BY FS_Singleton
<1>3. /\ IsFiniteSet({f} \X (a + 1 .. b))
      /\ Cardinality({f} \X (a + 1 .. b)) = Cardinality({f}) * Cardinality(a + 1 .. b)
  BY <1>1, <1>2, FS_Product
<1> QED BY <1>1, <1>2, <1>3 DEF Span

LEMMA DisjointUnion ==
  ASSUME NEW S, NEW T, IsFiniteSet(S), IsFiniteSet(T), S \cap T = {}
  PROVE  IsFiniteSet(S \cup T) /\ Cardinality(S \cup T) = Cardinality(S) + Cardinality(T)
<1>1. Cardinality(S \cap T) = 0
  BY FS_EmptySet
<1>2. Cardinality(S) \in Nat /\ Cardinality(T) \in Nat
  BY FS_CardinalityType
<1>3. /\ IsFiniteSet(S \cup T)
      /\ Cardinality(S \cup T) = Cardinality(S) + Cardinality(T) - Cardinality(S \cap T)
  BY FS_Union
<1> QED BY <1>1, <1>2, <1>3

\* What is counted: what one file accounts for and what the others do.
Share(f) == Len(sectors[f]) + owed[f]

LEMMA ShareType ==
  ASSUME Typed, NEW f \in Files
  PROVE  Share(f) \in Nat /\ Len(sectors[f]) \in Nat /\ owed[f] \in Nat
BY LenProperties DEF Typed, Share

CountedSplit(f) ==
  Counted(Files) = Counted(Files \ {f}) \cup Span(f, 0, Share(f))
  /\ Counted(Files \ {f}) \cap Span(f, 0, Share(f)) = {}

LEMMA CountedParts == \A f \in Files : CountedSplit(f)
BY DEF CountedSplit, Counted, Span, Share

LEMMA CountedPartsAfter == (\A f \in Files : CountedSplit(f))'
BY CountedParts, PTL

\* The counter is what the other files account for, what this one does, and
\* what is lost.
LEMMA CounterOf ==
  ASSUME Typed, CounterInv, NEW f \in Files
  PROVE  /\ IsFiniteSet(Counted(Files \ {f})) /\ Cardinality(Counted(Files \ {f})) \in Nat
         /\ allocatedSectors = Cardinality(Counted(Files \ {f})) + Share(f) + lost
<1>1. Counted(Files \ {f}) \in SUBSET Counted(Files)
  BY DEF Counted
<1>2. IsFiniteSet(Counted(Files \ {f})) /\ Cardinality(Counted(Files \ {f})) \in Nat
  BY <1>1, FS_Subset, FS_CardinalityType DEF CounterInv
<1>3. /\ IsFiniteSet(Span(f, 0, Share(f))) /\ Cardinality(Span(f, 0, Share(f))) = Share(f)
      /\ Share(f) \in Nat
  <2>1. PICK n \in Nat : n = Share(f)
    BY ShareType
  <2>2. IsFiniteSet(Span(f, 0, n)) /\ Cardinality(Span(f, 0, n)) = n - 0
    BY SpanSize
  <2> QED BY <2>1, <2>2
<1>4. CountedSplit(f)
  BY CountedParts
<1>5. Cardinality(Counted(Files)) = Cardinality(Counted(Files \ {f})) + Cardinality(Span(f, 0, Share(f)))
  BY <1>2, <1>3, <1>4, DisjointUnion DEF CountedSplit
<1> QED BY <1>2, <1>3, <1>5 DEF CounterInv, Typed

LEMMA CounterKept ==
  ASSUME Typed, CounterInv, NEW f \in Files, NEW vector \in Seq(Entries), NEW debt \in Nat, NEW gone \in Nat,
         sectors' = [sectors EXCEPT ![f] = vector], owed' = [owed EXCEPT ![f] = debt], lost' = gone,
         allocatedSectors' = allocatedSectors + (Len(vector) + debt + gone) - (Share(f) + lost)
  PROVE  CounterInv' /\ allocatedSectors' \in Nat
<1> DEFINE share == Len(vector) + debt
<1>1. Share(f)' = share /\ share \in Nat /\ Len(vector) \in Nat
  <2>1. sectors'[f] = vector /\ owed'[f] = debt /\ Len(vector) \in Nat
    BY LenProperties DEF Typed
  <2> QED BY <2>1 DEF Share
<1>2. Counted(Files \ {f})' = Counted(Files \ {f})
  BY DEF Counted, Typed
<1>3. /\ Counted(Files)' = Counted(Files \ {f}) \cup Span(f, 0, share)
      /\ Counted(Files \ {f}) \cap Span(f, 0, share) = {}
  <2>1. CountedSplit(f)'
    BY CountedPartsAfter
  <2> HIDE DEF share
  <2> QED BY <1>1, <1>2, <2>1 DEF CountedSplit, Span
<1> HIDE DEF share
<1>4. IsFiniteSet(Span(f, 0, share)) /\ Cardinality(Span(f, 0, share)) = share
  <2>1. IsFiniteSet(Span(f, 0, share)) /\ Cardinality(Span(f, 0, share)) = share - 0
    BY <1>1, SpanSize
  <2> QED BY <1>1, <2>1
<1>5. /\ IsFiniteSet(Counted(Files)')
      /\ Cardinality(Counted(Files)') = Cardinality(Counted(Files \ {f})) + share
  BY <1>3, <1>4, CounterOf, DisjointUnion
<1>6. Share(f) \in Nat /\ lost \in Nat /\ allocatedSectors \in Nat
  BY ShareType DEF Typed
<1>7. allocatedSectors' = Cardinality(Counted(Files \ {f})) + share + gone
  BY <1>1, <1>6, CounterOf DEF share
<1> QED BY <1>1, <1>5, <1>7, CounterOf DEF CounterInv

LEMMA PresentIsCounted ==
  ASSUME Typed, CounterInv
  PROVE  IsFiniteSet(AllPresent) /\ Cardinality(AllPresent) \in Nat
<1>1. ASSUME NEW f \in Files, NEW k \in PresentSectors(f)
      PROVE  <<f, k>> \in Counted(Files)
  <2>1. /\ DOMAIN sectors[f] = 1 .. Len(sectors[f])
        /\ Len(sectors[f]) \in Nat /\ owed[f] \in Nat
    BY LenProperties DEF Typed
  <2>2. k \in 1 .. Len(sectors[f]) + owed[f]
    BY <1>1, <2>1 DEF PresentSectors
  <2> QED BY <2>2 DEF Counted
<1>2. AllPresent \in SUBSET Counted(Files)
  BY <1>1 DEF AllPresent
<1> QED BY <1>2, FS_Subset, FS_CardinalityType DEF CounterInv

\* The heap has room for what it gives.
LEMMA RoomKept ==
  ASSUME Typed, CounterInv, RoomInv, NEW f \in Files, NEW vector \in Seq(Entries),
         sectors' = [sectors EXCEPT ![f] = vector],
         \A k \in 1 .. Len(vector) : vector[k] # NullSector =>
           IF k <= Len(sectors[f]) THEN sectors[f][k] # NullSector ELSE k <= Len(sectors[f]) + HeapRoom
  PROVE  RoomInv'
<1>2. IsFiniteSet(AllPresent) /\ Cardinality(AllPresent) \in Nat
  BY PresentIsCounted
<1>3. HeapRoom = HeapSectors - Cardinality(AllPresent) /\ HeapRoom \in Nat
  BY <1>2, SizesAssumption DEF HeapRoom, AllPresent, RoomInv
<1> DEFINE n == Len(sectors[f])
           fresh == Span(f, n, n + HeapRoom)
<1>4. n \in Nat /\ Len(vector) \in Nat /\ DOMAIN sectors[f] = 1 .. n /\ DOMAIN vector = 1 .. Len(vector)
  BY LenProperties DEF Typed
<1>5. IsFiniteSet(fresh) /\ Cardinality(fresh) = HeapRoom
  BY <1>3, <1>4, SpanSize
<1>6. AllPresent' \in SUBSET (AllPresent \cup fresh)
  <2> SUFFICES ASSUME NEW x \in AllPresent' PROVE x \in AllPresent \cup fresh
    OBVIOUS
  <2>1. PICK g, k : g \in Files /\ x = <<g, k>> /\ k \in PresentSectors(g)'
    BY DEF AllPresent
  <2>2. CASE g # f
    <3>1. sectors'[g] = sectors[g]
      BY <2>2 DEF Typed
    <3> QED BY <2>1, <3>1 DEF AllPresent, PresentSectors
  <2>3. CASE g = f
    <3>1. sectors'[f] = vector
      BY DEF Typed
    <3>2. k \in 1 .. Len(vector) /\ vector[k] # NullSector
      BY <1>4, <2>1, <2>3, <3>1 DEF PresentSectors
    <3>3. CASE k <= n
      <4>1. k \in PresentSectors(f)
        BY <1>4, <3>2, <3>3 DEF PresentSectors
      <4> QED BY <2>1, <2>3, <4>1 DEF AllPresent
    <3>4. CASE k > n
      <4>1. k \in n + 1 .. n + HeapRoom
        BY <1>3, <1>4, <3>2, <3>4
      <4> QED BY <2>1, <2>3, <4>1 DEF Span
    <3> QED BY <1>4, <3>2, <3>3, <3>4
  <2> QED BY <2>2, <2>3
<1> HIDE DEF fresh
<1>7. IsFiniteSet(AllPresent \cup fresh) /\ Cardinality(AllPresent \cup fresh) <= HeapSectors
  <2>1. IsFiniteSet(AllPresent \cap fresh) /\ Cardinality(AllPresent \cap fresh) \in Nat
    BY <1>2, FS_Subset, FS_CardinalityType
  <2>2. /\ IsFiniteSet(AllPresent \cup fresh)
        /\ Cardinality(AllPresent \cup fresh)
             = Cardinality(AllPresent) + Cardinality(fresh) - Cardinality(AllPresent \cap fresh)
    BY <1>2, <1>5, FS_Union
  <2> QED BY <1>2, <1>3, <1>5, <2>1, <2>2, SizesAssumption
<1>8. Cardinality(AllPresent') <= Cardinality(AllPresent \cup fresh)
  BY <1>6, <1>7, FS_Subset
<1>9. Cardinality(AllPresent') \in Nat /\ Cardinality(AllPresent \cup fresh) \in Nat
  BY <1>6, <1>7, FS_Subset, FS_CardinalityType
<1> QED BY <1>7, <1>8, <1>9, SizesAssumption DEF RoomInv

-----------------------------------------------------------------------------
(* Calls. *)

CallRuns(c) ==
  /\ c \in Calls
  /\ c.op = "Write" => c.size > 0 /\ c.offset + c.size <= c.newSize

LEMMA NewSizes ==
  ASSUME Typed, NEW f \in Files, NEW c \in Calls
  PROVE  /\ NewFileSize(f, c) \in Nat /\ NewAllocation(c) \in Nat
         /\ c.newSize <= NewAllocation(c) /\ NewFileSize(f, c) <= c.newSize
         /\ SectorsFor(NewAllocation(c)) \in Nat
         /\ NewAllocation(c) <= SectorsFor(NewAllocation(c)) * FULL_SECTOR_SIZE
<1>0. FULL_SECTOR_SIZE \in Nat \ {0} /\ c.newSize \in Nat /\ fileSize[f] \in Nat
  BY SectorSizeAssumption DEF Calls, Typed
<1>1. AlignUp(c.newSize) \in Nat /\ c.newSize <= AlignUp(c.newSize)
  <2>1. c.newSize % FULL_SECTOR_SIZE \in 0 .. FULL_SECTOR_SIZE - 1
    BY <1>0, DivMod
  <2> QED BY <1>0, <2>1 DEF AlignUp
<1>2. NewAllocation(c) \in Nat /\ c.newSize <= NewAllocation(c)
  BY <1>0, <1>1 DEF NewAllocation
<1>3. NewFileSize(f, c) \in Nat /\ NewFileSize(f, c) <= c.newSize
  BY <1>0 DEF NewFileSize, MinOf
<1>4. /\ SectorsFor(NewAllocation(c)) \in Nat
      /\ NewAllocation(c) <= FULL_SECTOR_SIZE * SectorsFor(NewAllocation(c))
  BY <1>2, SectorsForBounds
<1>5. FULL_SECTOR_SIZE * SectorsFor(NewAllocation(c)) = SectorsFor(NewAllocation(c)) * FULL_SECTOR_SIZE
  BY <1>0, <1>4
<1> QED BY <1>2, <1>3, <1>4, <1>5

\* What a call that completes leaves: the new size, a vector of the same
\* length, and in it what Writes stored.
LEMMA CompleteFacts ==
  ASSUME Typed, NEW f \in Files, NEW c, CallRuns(c), NEW vector \in Seq(Entries), Complete(f, c, vector),
         DataInv(f), c.op = "Write" => fileSize[f] <= c.newSize,
         fileSize[f] <= Len(sectors[f]) * FULL_SECTOR_SIZE \/ Len(vector) = Len(sectors[f]),
         NewFileSize(f, c) <= Len(vector) * FULL_SECTOR_SIZE,
         \A k \in 1 .. Len(vector) : k <= Len(sectors[f]) => vector[k] = sectors[f][k]
  PROVE  /\ fileSize' = [fileSize EXCEPT ![f] = NewFileSize(f, c)]
         /\ \E new \in Seq(Entries) :
              /\ sectors' = [sectors EXCEPT ![f] = new] /\ Len(new) = Len(vector)
              /\ \A k \in 1 .. Len(vector) : new[k] # NullSector => vector[k] # NullSector
         /\ \E history \in Histories : written' = [written EXCEPT ![f] = history]
         /\ DataInv(f)'
<1> DEFINE S == FULL_SECTOR_SIZE
           history == written[f]
<1>0. /\ S \in Nat \ {0} /\ c \in Calls /\ c.value \in Stored /\ c.offset \in Nat /\ c.size \in Nat
      /\ c.newSize \in Nat /\ fileSize[f] \in Nat /\ allocationSize[f] \in Nat
      /\ Len(sectors[f]) \in Nat /\ Len(vector) \in Nat
  BY SectorSizeAssumption, LenProperties DEF CallRuns, Calls, Typed
<1>1. PICK places \in SUBSET Nat : history \in [places -> Stored]
  BY DEF Typed, Histories
<1>2. /\ fileSize' = [fileSize EXCEPT ![f] = NewFileSize(f, c)] /\ fileSize'[f] = NewFileSize(f, c)
      /\ NewFileSize(f, c) \in Nat
  BY <1>0, NewSizes DEF Complete, Typed
<1>4. ASSUME NEW o \in Nat, o < NewFileSize(f, c)
      PROVE  /\ o < fileSize[f] => o \div S + 1 \in 1 .. Len(sectors[f])
             /\ o \div S + 1 \in 1 .. Len(vector)
  <2>1. Len(sectors[f]) * S \in Nat /\ Len(vector) * S \in Nat
    BY <1>0
  <2>2. o < Len(vector) * S
    BY <1>0, <1>2, <1>4, <2>1
  <2>3. ASSUME o < fileSize[f] PROVE o < Len(sectors[f]) * S
    <3>1. CASE fileSize[f] <= Len(sectors[f]) * S
      BY <1>0, <2>1, <2>3, <3>1
    <3>2. CASE Len(vector) = Len(sectors[f])
      BY <2>2, <3>2
    <3> QED BY <3>1, <3>2
  <2> HIDE DEF S
  <2> QED BY <1>0, <2>2, <2>3, PlaceInVector
<1>5. \A o \in DOMAIN history :
        /\ o \in Nat /\ o < fileSize[f]
        /\ o \div S + 1 <= Len(sectors[f]) /\ sectors[f][o \div S + 1] # NullSector =>
             sectors[f][o \div S + 1][o % S] = history[o]
  BY <1>1 DEF DataInv
<1> HIDE DEF S
<1>6. CASE c.op = "Write"
  <2> DEFINE range == c.offset .. c.offset + c.size - 1
             new == AfterWrite(vector, c.offset, c.size, c.value)
             longer == [o \in DOMAIN history \cup range |-> IF o \in range THEN c.value ELSE history[o]]
  <2>1. NewFileSize(f, c) = c.newSize /\ c.size \in Nat \ {0} /\ c.offset + c.size <= Len(vector) * S
    <3>1. NewFileSize(f, c) = c.newSize /\ c.size > 0 /\ c.offset + c.size <= c.newSize
      BY <1>6 DEF NewFileSize, SetsAllocation, CallRuns
    <3>2. Len(vector) * S \in Nat
      BY <1>0
    <3> QED BY <1>0, <3>1, <3>2 DEF S
  <2>2. /\ sectors' = [sectors EXCEPT ![f] = new] /\ written' = [written EXCEPT ![f] = longer]
        /\ sectors'[f] = new /\ written'[f] = longer
    BY <1>6 DEF Complete, Typed
  <2>3. /\ new \in Seq(Entries) /\ Len(new) = Len(vector)
        /\ \A k \in 1 .. Len(vector) : new[k] # NullSector => vector[k] # NullSector
        /\ \A o \in Nat :
             o \div S + 1 \in 1 .. Len(vector) /\ vector[o \div S + 1] # NullSector =>
               new[o \div S + 1][o % S] = IF o \in range THEN c.value ELSE vector[o \div S + 1][o % S]
    <3>1. c.offset + c.size <= Len(vector) * FULL_SECTOR_SIZE
      BY <2>1 DEF S
    <3>2. new \in Seq(Entries) /\ Len(new) = Len(vector)
      BY <1>0, <2>1, <3>1, AfterWriteFacts
    <3>3. \A k \in 1 .. Len(vector) : new[k] # NullSector => vector[k] # NullSector
      BY <1>0, <2>1, <3>1, AfterWriteFacts
    <3>4. ASSUME NEW o \in Nat,
                 o \div S + 1 \in 1 .. Len(vector), vector[o \div S + 1] # NullSector
          PROVE  new[o \div S + 1][o % S] =
                   IF o \in range THEN c.value ELSE vector[o \div S + 1][o % S]
      <4> DEFINE offset == c.offset
                 size == c.size
                 value == c.value
      <4>1. offset \in Nat /\ size \in Nat \ {0} /\ value \in Stored
        BY <1>0, <2>1
      <4>2. offset + size <= Len(vector) * FULL_SECTOR_SIZE
        BY <3>1
      <4> HIDE DEF offset, size, value
      <4>3. AfterWrite(vector, offset, size, value)[o \div S + 1][o % S] =
              IF o \in offset .. offset + size - 1 THEN value ELSE vector[o \div S + 1][o % S]
        BY <3>4, <4>1, <4>2, AfterWriteFacts DEF S
      <4> QED BY <4>3 DEF offset, size, value
    <3> QED BY <3>2, <3>3, <3>4
  <2>4. longer \in Histories
    <3>1. range \in SUBSET Nat
      BY <1>0
    <3>2. DOMAIN history \cup range \in SUBSET Nat
      BY <1>1, <3>1
    <3>3. longer \in [DOMAIN history \cup range -> Stored]
      BY <1>0, <1>1
    <3> QED BY <3>2, <3>3 DEF Histories
  <2>5. ASSUME NEW o \in DOMAIN longer
        PROVE  /\ o < c.newSize
               /\ new[o \div S + 1] # NullSector => new[o \div S + 1][o % S] = longer[o]
    <3>1. o \in Nat /\ o < c.newSize
      <4>1. CASE o \in range
        BY <1>0, <1>6, <4>1 DEF CallRuns
      <4>2. CASE o \in DOMAIN history
        BY <1>0, <1>5, <1>6, <4>2
      <4> QED BY <4>1, <4>2
    <3>2. o \div S + 1 \in 1 .. Len(vector)
      BY <1>4, <2>1, <3>1
    <3>3. ASSUME new[o \div S + 1] # NullSector
          PROVE  new[o \div S + 1][o % S] = longer[o]
      <4>1. /\ vector[o \div S + 1] # NullSector
            /\ new[o \div S + 1][o % S] = IF o \in range THEN c.value ELSE vector[o \div S + 1][o % S]
        BY <2>3, <3>1, <3>2, <3>3
      <4>2. CASE o \notin range
        <5>1. o \in DOMAIN history /\ o \div S + 1 \in 1 .. Len(sectors[f])
          BY <1>4, <1>5, <2>1, <3>1, <4>2
        <5>2. vector[o \div S + 1] = sectors[f][o \div S + 1]
          BY <1>0, <3>2, <5>1
        <5> QED BY <1>5, <4>1, <4>2, <5>1, <5>2
      <4> QED BY <4>1, <4>2
    <3> QED BY <3>1, <3>3
  <2> HIDE DEF new, longer
  <2>6. DataInv(f)'
    BY <1>2, <2>1, <2>2, <2>5 DEF DataInv, S
  <2> QED BY <1>2, <2>2, <2>3, <2>4, <2>6
<1>7. CASE c.op # "Write"
  <2> DEFINE shorter == Below(history, NewFileSize(f, c))
  <2>1. /\ sectors' = [sectors EXCEPT ![f] = vector] /\ sectors'[f] = vector
        /\ written' = [written EXCEPT ![f] = shorter] /\ written'[f] = shorter
    BY <1>7 DEF Complete, Typed
  <2>2. /\ DOMAIN shorter = {o \in DOMAIN history : o < NewFileSize(f, c)}
        /\ \A o \in DOMAIN shorter : shorter[o] = history[o]
    BY DEF Below, Restrict
  <2>3. shorter \in Histories
    <3>1. DOMAIN shorter \in SUBSET Nat
      BY <1>1, <2>2
    <3>2. shorter \in [DOMAIN shorter -> Stored]
      BY <1>1 DEF Below, Restrict
    <3> QED BY <3>1, <3>2 DEF Histories
  <2> HIDE DEF shorter
  <2>4. ASSUME NEW o \in DOMAIN shorter
        PROVE  /\ o < NewFileSize(f, c)
               /\ vector[o \div S + 1] # NullSector => vector[o \div S + 1][o % S] = shorter[o]
    <3>1. o \in Nat /\ o \in DOMAIN history /\ o < fileSize[f] /\ o < NewFileSize(f, c)
      BY <1>5, <2>2
    <3>2. /\ o \div S + 1 \in 1 .. Len(sectors[f]) /\ o \div S + 1 \in 1 .. Len(vector)
      BY <1>4, <3>1
    <3>3. vector[o \div S + 1] = sectors[f][o \div S + 1]
      BY <1>0, <3>2
    <3>4. o \div S + 1 <= Len(sectors[f])
      BY <1>0, <3>2
    <3> QED BY <1>5, <2>2, <3>1, <3>3, <3>4
  <2>5. DataInv(f)'
    BY <1>2, <2>1, <2>4 DEF DataInv, S
  <2> QED BY <1>2, <2>1, <2>3, <2>5
<1> QED BY <1>6, <1>7

-----------------------------------------------------------------------------
(* One step changes one file. *)

OthersKept(f) ==
  \A g \in Files \ {f} :
    /\ sectors'[g] = sectors[g] /\ fileSize'[g] = fileSize[g]
    /\ allocationSize'[g] = allocationSize[g] /\ call'[g] = call[g] /\ pc'[g] = pc[g]
    /\ owed'[g] = owed[g] /\ written'[g] = written[g]

TypedFunctions ==
  /\ exists \subseteq Files
  /\ fileSize \in [Files -> Nat] /\ allocationSize \in [Files -> Nat]
  /\ call \in [Files -> Calls]
  /\ pc \in [Files -> PCs]
  /\ written \in [Files -> Histories]

\* What room the heap has is all that growing takes.
TakesRoom(f, vector) ==
  \A k \in 1 .. Len(vector) : vector[k] # NullSector =>
    IF k <= Len(sectors[f]) THEN sectors[f][k] # NullSector ELSE k <= Len(sectors[f]) + HeapRoom

LEMMA InvAfter ==
  ASSUME Inv, NEW f \in Files, NEW vector \in Seq(Entries), NEW debt \in Nat, NEW gone \in Nat,
         sectors' = [sectors EXCEPT ![f] = vector], owed' = [owed EXCEPT ![f] = debt], lost' = gone,
         allocatedSectors' = allocatedSectors + (Len(vector) + debt + gone) - (Share(f) + lost),
         TakesRoom(f, vector), TypedFunctions', OthersKept(f), FileInv(f)'
  PROVE  Inv'
<1>0. Typed /\ CounterInv /\ RoomInv
  BY DEF Inv
<1>1. CounterInv' /\ allocatedSectors' \in Nat
  BY <1>0, CounterKept
<1>2. RoomInv'
  BY <1>0, RoomKept DEF TakesRoom
<1>3. sectors' \in [Files -> Seq(Entries)] /\ owed' \in [Files -> Nat] /\ lost' \in Nat
  BY <1>0 DEF Typed
<1>4. Typed'
  BY <1>1, <1>3 DEF Typed, TypedFunctions
<1>5. ASSUME NEW g \in Files \ {f} PROVE FileInv(g)'
  <2>1. FileInv(g)
    BY DEF Inv
  <2>2. /\ sectors'[g] = sectors[g] /\ fileSize'[g] = fileSize[g]
        /\ allocationSize'[g] = allocationSize[g] /\ call'[g] = call[g] /\ pc'[g] = pc[g]
        /\ owed'[g] = owed[g] /\ written'[g] = written[g]
    BY DEF OthersKept
  <2>3. Wanted(g)' = Wanted(g)
    BY <2>2 DEF Wanted
  <2>4. CallInv(g)'
    BY <2>1, <2>2, <2>3 DEF FileInv, CallInv
  <2>5. NestedInv(g)' /\ DataInv(g)'
    BY <2>1, <2>2 DEF FileInv, NestedInv, DataInv, Usable
  <2> QED BY <2>4, <2>5 DEF FileInv
<1> QED BY <1>1, <1>2, <1>4, <1>5 DEF Inv

\* A step that leaves the vectors.
LEMMA InvAfterReckoning ==
  ASSUME Inv, NEW f \in Files, NEW debt \in Nat, NEW gone \in Nat,
         UNCHANGED sectors, owed' = [owed EXCEPT ![f] = debt], lost' = gone,
         allocatedSectors' = allocatedSectors + (debt + gone) - (owed[f] + lost),
         TypedFunctions', OthersKept(f), FileInv(f)'
  PROVE  Inv'
<1>1. PICK vector \in Seq(Entries) :
        /\ vector = sectors[f] /\ sectors' = [sectors EXCEPT ![f] = vector]
        /\ Len(vector) \in Nat /\ allocatedSectors \in Nat /\ owed[f] \in Nat /\ lost \in Nat
  BY LenProperties DEF Inv, Typed
<1>2. allocatedSectors' = allocatedSectors + (Len(vector) + debt + gone) - (Share(f) + lost)
  BY <1>1 DEF Share
<1>3. TakesRoom(f, vector)
  BY <1>1 DEF TakesRoom
<1> QED BY <1>1, <1>2, <1>3, InvAfter

\* A step that leaves what is counted.
LEMMA InvAfterQuietStep ==
  ASSUME Inv, NEW f \in Files, UNCHANGED <<sectors, counters>>,
         TypedFunctions', OthersKept(f), FileInv(f)'
  PROVE  Inv'
<1>1. PICK debt \in Nat, gone \in Nat : debt = owed[f] /\ gone = lost
  BY DEF Inv, Typed
<1>2. /\ owed' = [owed EXCEPT ![f] = debt] /\ lost' = gone
      /\ allocatedSectors' = allocatedSectors + (debt + gone) - (owed[f] + lost)
  BY <1>1 DEF Inv, Typed, counters
<1>3. UNCHANGED sectors
  OBVIOUS
<1> QED BY <1>2, <1>3, InvAfterReckoning

LEMMA NoCallIsCall == NoCall \in Calls /\ NoCall.op = "none"
BY DEF NoCall, Call, Calls, Stored

LEMMA EndCallFacts ==
  ASSUME Inv, NEW f \in Files, EndCall(f)
  PROVE  /\ call' \in [Files -> Calls] /\ pc' \in [Files -> PCs]
         /\ call'[f].op = "none" /\ pc'[f] = "idle"
         /\ \A g \in Files \ {f} : call'[g] = call[g] /\ pc'[g] = pc[g]
<1>1. call'[f] = NoCall /\ pc'[f] = "idle" /\ call' \in [Files -> Calls]
  BY NoCallIsCall DEF Inv, Typed, EndCall
<1>2. pc' \in [Files -> PCs]
  BY DEF Inv, Typed, EndCall, PCs
<1>3. \A g \in Files \ {f} : call'[g] = call[g] /\ pc'[g] = pc[g]
  BY DEF Inv, Typed, EndCall
<1> QED BY <1>1, <1>2, <1>3, NoCallIsCall

LEMMA DestroyFacts ==
  ASSUME Inv, NEW f \in Files, NEW op \in {"CreateUndone", "Delete"}, Destroy(f, op)
  PROVE  /\ call' \in [Files -> Calls] /\ pc' \in [Files -> PCs]
         /\ call'[f].op = op /\ pc'[f] = "reallocate"
         /\ \A g \in Files \ {f} : call'[g] = call[g] /\ pc'[g] = pc[g]
<1>0. /\ Call(op, 0, 0, 0, Uninitialised) \in Calls
      /\ Call(op, 0, 0, 0, Uninitialised).op = op
  BY DEF Call, Calls, Stored
<1>1. PICK c \in Calls : c = Call(op, 0, 0, 0, Uninitialised) /\ c.op = op
  BY <1>0
<1>2. call' = [call EXCEPT ![f] = c] /\ pc' = [pc EXCEPT ![f] = "reallocate"]
  BY <1>1 DEF Destroy
<1> QED BY <1>1, <1>2 DEF Inv, Typed, PCs

-----------------------------------------------------------------------------
(* The steps. *)

LEMMA BeginKeepsInv ==
  ASSUME Inv, NEW f \in Files, NEW c, CallRuns(c), c.op = "Write" => fileSize[f] <= c.newSize, Begin(f, c)
  PROVE  Inv'
<1>0. /\ pc[f] = "idle" /\ UNCHANGED <<exists, allocationSize, counters>>
      /\ Typed /\ FileInv(f) /\ c \in Calls /\ owed[f] = 0
  BY DEF Begin, Inv, CallRuns, FileInv, CallInv
<1>1. CASE NeedsAllocation(f, c)
  <2>1. /\ call' = [call EXCEPT ![f] = c] /\ pc' = [pc EXCEPT ![f] = "check"]
        /\ UNCHANGED <<sectors, fileSize, written>> /\ owed' = owed
    BY <1>0, <1>1 DEF Begin, counters
  <2>2. call'[f] = c /\ pc'[f] = "check"
    BY <1>0, <2>1 DEF Typed
  <2>3. TypedFunctions' /\ OthersKept(f)
    BY <1>0, <2>1 DEF Typed, TypedFunctions, OthersKept, PCs
  <2>4. CallInv(f)'
    BY <1>0, <2>1, <2>2 DEF CallInv, CallRuns
  <2>5. NestedInv(f)' /\ DataInv(f)'
    BY <1>0, <2>1, <2>2 DEF FileInv, NestedInv, DataInv, Usable
  <2> QED BY <1>0, <2>1, <2>3, <2>4, <2>5, InvAfterQuietStep DEF FileInv
<1>2. CASE ~NeedsAllocation(f, c)
  <2>0. PICK vector \in Seq(Entries) : vector = sectors[f]
    BY <1>0 DEF Typed
  <2>1. Complete(f, c, vector) /\ UNCHANGED <<call, pc>>
    BY <1>2, <2>0 DEF Begin
  <2>2. /\ vector = sectors[f] /\ Len(vector) \in Nat /\ FULL_SECTOR_SIZE \in Nat
        /\ allocationSize[f] \in Nat /\ fileSize[f] \in Nat /\ c.newSize \in Nat
        /\ NewFileSize(f, c) \in Nat
    BY <1>0, <2>0, LenProperties, SectorSizeAssumption, NewSizes DEF Typed, Calls
  <2>3. NewFileSize(f, c) <= allocationSize[f]
    BY <1>0, <1>2, <2>2 DEF NeedsAllocation, NewFileSize, SetsAllocation, MinOf, FileInv, NestedInv
  <2>4. NewFileSize(f, c) <= Len(vector) * FULL_SECTOR_SIZE
    <3>1. Len(vector) * FULL_SECTOR_SIZE \in Nat
      BY <2>2
    <3> QED BY <1>0, <2>2, <2>3, <3>1 DEF FileInv, NestedInv, Usable
  <2>5. /\ fileSize' = [fileSize EXCEPT ![f] = NewFileSize(f, c)]
        /\ \E new \in Seq(Entries) :
             /\ sectors' = [sectors EXCEPT ![f] = new] /\ Len(new) = Len(vector)
             /\ \A k \in 1 .. Len(vector) : new[k] # NullSector => vector[k] # NullSector
        /\ \E history \in Histories : written' = [written EXCEPT ![f] = history]
        /\ DataInv(f)'
    <3>1. /\ DataInv(f) /\ Len(vector) = Len(sectors[f])
          /\ \A k \in 1 .. Len(vector) : k <= Len(sectors[f]) => vector[k] = sectors[f][k]
      BY <1>0, <2>2 DEF FileInv
    <3>2. Typed /\ CallRuns(c) /\ (c.op = "Write" => fileSize[f] <= c.newSize)
      BY <1>0
    <3>3. Complete(f, c, vector)
      BY <2>1
    <3>4. fileSize[f] <= Len(sectors[f]) * FULL_SECTOR_SIZE \/ Len(vector) = Len(sectors[f])
      BY <3>1
    <3>5. c.op = "Write" => fileSize[f] <= c.newSize
      BY <3>2
    <3> QED BY ONLY <2>4, <3>1, <3>2, <3>3, <3>4, <3>5, CompleteFacts, Zenon
  <2>6. PICK new \in Seq(Entries) :
             /\ sectors' = [sectors EXCEPT ![f] = new] /\ Len(new) = Len(vector)
             /\ \A k \in 1 .. Len(vector) : new[k] # NullSector => vector[k] # NullSector
    BY <2>5
  <2>7. PICK history \in Histories : written' = [written EXCEPT ![f] = history]
    BY <2>5
  <2>8. TypedFunctions' /\ OthersKept(f)
    BY <1>0, <2>1, <2>2, <2>5, <2>6, <2>7 DEF Typed, TypedFunctions, OthersKept, counters
  <2>9. sectors'[f] = new /\ fileSize'[f] = NewFileSize(f, c)
    BY <1>0, <2>5, <2>6 DEF Typed
  <2>10. FileInv(f)'
    <3>1. CallInv(f)'
      BY <1>0, <2>1 DEF FileInv, CallInv, counters
    <3>2. NestedInv(f)'
      BY <1>0, <2>0, <2>3, <2>6, <2>9 DEF FileInv, NestedInv, Usable
    <3> QED BY <2>5, <3>1, <3>2 DEF FileInv
  <2>11. TakesRoom(f, new)
    BY <2>2, <2>6 DEF TakesRoom
  <2>12. PICK gone \in Nat : gone = lost
    BY <1>0 DEF Typed
  <2>13. /\ allocatedSectors' = allocatedSectors + (Len(new) + 0 + gone) - (Share(f) + lost)
         /\ owed' = [owed EXCEPT ![f] = 0] /\ lost' = gone
    BY <1>0, <2>2, <2>6, <2>12 DEF Typed, Share, counters
  <2> QED BY <2>6, <2>8, <2>10, <2>11, <2>13, InvAfter
<1> QED BY <1>1, <1>2

LEMMA CheckLimitKeepsInv ==
  ASSUME Inv, NEW f \in Files, CheckLimit(f)
  PROVE  Inv'
<1>0. /\ pc[f] = "check" /\ UNCHANGED <<exists, sectors, sizes, counters, written>>
      /\ Typed /\ FileInv(f) /\ owed[f] = 0 /\ owed' = owed
  BY DEF CheckLimit, Inv, FileInv, CallInv, counters
<1>1. CASE EndCall(f)
  <2>1. TypedFunctions' /\ OthersKept(f)
    BY <1>0, <1>1, EndCallFacts DEF Typed, TypedFunctions, OthersKept, sizes
  <2>2. FileInv(f)'
    BY <1>0, <1>1, EndCallFacts DEF FileInv, CallInv, NestedInv, DataInv, Usable, sizes
  <2> QED BY <1>0, <2>1, <2>2, InvAfterQuietStep
<1>2. CASE pc' = [pc EXCEPT ![f] = "reallocate"] /\ UNCHANGED call
  <2>1. TypedFunctions' /\ OthersKept(f) /\ pc'[f] = "reallocate"
    BY <1>0, <1>2 DEF Typed, TypedFunctions, OthersKept, sizes, PCs
  <2>2. FileInv(f)'
    BY <1>0, <1>2, <2>1 DEF FileInv, CallInv, NestedInv, DataInv, Usable, sizes
  <2> QED BY <1>0, <2>1, <2>2, InvAfterQuietStep
<1> QED BY <1>1, <1>2 DEF CheckLimit

LEMMA CreateCheckKeepsInv ==
  ASSUME Inv, NEW f \in Files, CreateCheck(f)
  PROVE  Inv'
<1>1. PICK size \in Sizes : call' = [call EXCEPT ![f] = Call("Create", size, 0, 0, Uninitialised)]
  BY DEF CreateCheck
<1>2. /\ pc[f] = "idle" /\ pc' = [pc EXCEPT ![f] = "reallocate"] /\ Typed /\ FileInv(f)
      /\ UNCHANGED <<exists, sectors, sizes, counters, written>> /\ owed' = owed
  BY DEF CreateCheck, Inv, counters
<1>3. Call("Create", size, 0, 0, Uninitialised) \in Calls
  BY SizesAssumption DEF Call, Calls, Stored, Sizes
<1>4. call'[f].op = "Create" /\ pc'[f] = "reallocate"
  BY <1>1, <1>2 DEF Typed, Call
<1>5. FileInv(f)'
  BY <1>2, <1>4 DEF FileInv, CallInv, NestedInv, DataInv, Usable, sizes
<1>6. TypedFunctions' /\ OthersKept(f)
  BY <1>1, <1>2, <1>3 DEF Typed, TypedFunctions, OthersKept, sizes, PCs
<1> QED BY <1>2, <1>5, <1>6, InvAfterQuietStep

LEMMA DeleteKeepsInv ==
  ASSUME Inv, NEW f \in Files, Delete(f)
  PROVE  Inv'
<1>1. /\ Typed /\ FileInv(f) /\ pc[f] = "idle" /\ exists' = exists \ {f} /\ Destroy(f, "Delete")
      /\ UNCHANGED <<sectors, sizes, counters, written>> /\ owed' = owed
  BY DEF Inv, Delete, counters
<1>2. /\ call' \in [Files -> Calls] /\ pc' \in [Files -> PCs]
      /\ call'[f].op = "Delete" /\ pc'[f] = "reallocate"
      /\ \A g \in Files \ {f} : call'[g] = call[g] /\ pc'[g] = pc[g]
  BY <1>1, DestroyFacts
<1>3. FileInv(f)'
  BY <1>1, <1>2 DEF FileInv, CallInv, NestedInv, DataInv, Usable, sizes
<1>4. TypedFunctions' /\ OthersKept(f)
  BY <1>1, <1>2 DEF Typed, TypedFunctions, OthersKept, sizes
<1> QED BY <1>1, <1>3, <1>4, InvAfterQuietStep

-----------------------------------------------------------------------------
(* ReAllocate. *)

LEMMA HeapRoomIs ==
  ASSUME Inv
  PROVE  HeapRoom \in Nat
<1>1. Cardinality(AllPresent) \in Nat
  BY PresentIsCounted DEF Inv
<1> QED BY <1>1, SizesAssumption DEF Inv, RoomInv, HeapRoom, AllPresent

\* Growing takes only what room there is, and shrinking none.
LEMMA ResizedTakesRoom ==
  ASSUME Inv, NEW f \in Files, NEW n \in Nat, NEW vector \in Seq(Entries), Len(vector) = n,
         \A k \in 1 .. n :
           vector[k] # NullSector => Resized(sectors[f], n, HeapRoom)[k] # NullSector
  PROVE  TakesRoom(f, vector)
<1>1. PICK old \in Seq(Entries), room \in Nat : old = sectors[f] /\ room = HeapRoom
  BY HeapRoomIs DEF Inv, Typed
<1>2. Len(old) \in Nat /\ room \in Int
  BY LenProperties
<1>3. /\ \A k \in 1 .. n : k <= Len(old) => Resized(old, n, room)[k] = old[k]
      /\ \A k \in 1 .. n : k > Len(old) + room /\ k > Len(old) => Resized(old, n, room)[k] = NullSector
  BY <1>2, ResizedFacts
<1>4. ASSUME NEW k \in 1 .. n, vector[k] # NullSector
      PROVE  IF k <= Len(old) THEN old[k] # NullSector ELSE k <= Len(old) + room
  <2>1. Resized(old, n, room)[k] # NullSector
    BY <1>1, <1>4
  <2> QED BY <1>2, <1>3, <2>1
<1> QED BY <1>1, <1>4 DEF TakesRoom

\* The vector a resize to the size wanted leaves.
LEMMA ResizedToWanted ==
  ASSUME Inv, NEW f \in Files
  PROVE  /\ Wanted(f) \in Nat
         /\ \E vector \in Seq(Entries) :
              /\ vector = Resized(sectors[f], Wanted(f), HeapRoom) /\ Len(vector) = Wanted(f)
              /\ \A k \in 1 .. Len(vector) : k <= Len(sectors[f]) => vector[k] = sectors[f][k]
              /\ TakesRoom(f, vector)
<1>1. PICK c \in Calls, old \in Seq(Entries), room \in Nat :
        c = call[f] /\ old = sectors[f] /\ room = HeapRoom
  BY HeapRoomIs DEF Inv, Typed
<1>2. PICK n \in Nat : n = Wanted(f)
  BY <1>1, NewSizes DEF Wanted, Inv
<1>3. room \in Int
  OBVIOUS
<1>4. PICK vector \in Seq(Entries) :
        /\ vector = Resized(old, n, room) /\ Len(vector) = n
        /\ \A k \in 1 .. n : k <= Len(old) => vector[k] = old[k]
  BY <1>3, ResizedFacts
<1>5. TakesRoom(f, vector)
  BY <1>1, <1>4, ResizedTakesRoom
<1> QED BY <1>1, <1>2, <1>4, <1>5

\* A call whose file has the vector wanted.
LEMMA SucceedKeepsInv ==
  ASSUME Inv, NEW f \in Files, NEW vector \in Seq(Entries), Succeed(f, vector), pc[f] # "idle",
         Len(vector) = Wanted(f), Usable(f) \/ Len(vector) = Len(sectors[f]), TakesRoom(f, vector),
         \A k \in 1 .. Len(vector) : k <= Len(sectors[f]) => vector[k] = sectors[f][k],
         owed' = [owed EXCEPT ![f] = 0], UNCHANGED lost,
         allocatedSectors' = allocatedSectors + Len(vector) - Share(f)
  PROVE  Inv'
<1>1. PICK c \in Calls : c = call[f]
  BY DEF Inv, Typed
<1>2. /\ EndCall(f) /\ allocationSize' = [allocationSize EXCEPT ![f] = NewAllocation(c)]
      /\ Complete(f, c, vector) /\ exists' \subseteq exists \cup {f}
  BY <1>1 DEF Succeed
<1>3. /\ Typed /\ FileInv(f) /\ NestedInv(f) /\ DataInv(f)
      /\ CallRuns(c) /\ (c.op = "Write" => fileSize[f] <= c.newSize)
  BY <1>1 DEF Inv, FileInv, CallInv, CallRuns
<1>4. /\ NewFileSize(f, c) \in Nat /\ NewAllocation(c) \in Nat
      /\ NewFileSize(f, c) <= NewAllocation(c) /\ NewAllocation(c) <= Len(vector) * FULL_SECTOR_SIZE
  <2>1. c.newSize \in Nat
    BY DEF Calls
  <2> QED BY <1>1, <1>3, <2>1, NewSizes DEF Wanted
<1>5. NewFileSize(f, c) <= Len(vector) * FULL_SECTOR_SIZE
  <2>1. Len(vector) * FULL_SECTOR_SIZE \in Nat
    BY LenProperties, SectorSizeAssumption
  <2> QED BY <1>4, <2>1
<1>6. fileSize[f] <= Len(sectors[f]) * FULL_SECTOR_SIZE \/ Len(vector) = Len(sectors[f])
  <2>1. ASSUME Usable(f) PROVE fileSize[f] <= Len(sectors[f]) * FULL_SECTOR_SIZE
    <3>1. fileSize[f] <= allocationSize[f] /\ allocationSize[f] <= Len(sectors[f]) * FULL_SECTOR_SIZE
      BY <1>3, <2>1 DEF NestedInv
    <3>2. /\ fileSize[f] \in Nat /\ allocationSize[f] \in Nat
          /\ Len(sectors[f]) \in Nat /\ FULL_SECTOR_SIZE \in Nat
      BY <1>3, LenProperties, SectorSizeAssumption DEF Typed
    <3>3. Len(sectors[f]) * FULL_SECTOR_SIZE \in Nat
      BY <3>2
    <3> QED BY <3>1, <3>2, <3>3
  <2> QED BY <2>1
<1>7. /\ fileSize' = [fileSize EXCEPT ![f] = NewFileSize(f, c)]
      /\ \E new \in Seq(Entries) :
           /\ sectors' = [sectors EXCEPT ![f] = new] /\ Len(new) = Len(vector)
           /\ \A k \in 1 .. Len(vector) : new[k] # NullSector => vector[k] # NullSector
      /\ \E history \in Histories : written' = [written EXCEPT ![f] = history]
      /\ DataInv(f)'
  <2>1. Typed /\ DataInv(f) /\ CallRuns(c) /\ Complete(f, c, vector)
    BY <1>2, <1>3
  <2>2. c.op = "Write" => fileSize[f] <= c.newSize
    BY <1>3
  <2>3. \A k \in 1 .. Len(vector) : k <= Len(sectors[f]) => vector[k] = sectors[f][k]
    OBVIOUS
  <2> QED BY ONLY <1>5, <1>6, <2>1, <2>2, <2>3, CompleteFacts, Zenon
<1>8. PICK new \in Seq(Entries) :
        /\ sectors' = [sectors EXCEPT ![f] = new] /\ Len(new) = Len(vector)
        /\ \A k \in 1 .. Len(vector) : new[k] # NullSector => vector[k] # NullSector
  BY <1>7
<1>9. PICK history \in Histories : written' = [written EXCEPT ![f] = history]
  BY <1>7
<1>10. /\ sectors'[f] = new /\ fileSize'[f] = NewFileSize(f, c)
       /\ allocationSize'[f] = NewAllocation(c) /\ owed'[f] = 0
  BY <1>2, <1>3, <1>7, <1>8 DEF Typed
<1>11. TypedFunctions'
  <2>1. /\ fileSize' \in [Files -> Nat] /\ allocationSize' \in [Files -> Nat]
        /\ written' \in [Files -> Histories] /\ exists' \subseteq Files
    BY <1>2, <1>3, <1>4, <1>7, <1>9 DEF Typed
  <2>2. call' \in [Files -> Calls] /\ pc' \in [Files -> PCs]
    BY <1>2, EndCallFacts
  <2> QED BY <2>1, <2>2 DEF TypedFunctions
<1>12. OthersKept(f)
  <2>1. \A g \in Files \ {f} : call'[g] = call[g] /\ pc'[g] = pc[g]
    BY <1>2, EndCallFacts
  <2> QED BY <1>2, <1>3, <1>7, <1>8, <1>9, <2>1 DEF Typed, OthersKept
<1>13. FileInv(f)'
  <2>1. CallInv(f)'
    BY <1>2, <1>10, EndCallFacts DEF CallInv
  <2>2. NestedInv(f)'
    BY <1>4, <1>8, <1>10 DEF NestedInv
  <2> QED BY <1>7, <2>1, <2>2 DEF FileInv
<1>14. TakesRoom(f, new)
  BY <1>8 DEF TakesRoom
<1>15. PICK gone \in Nat : gone = lost /\ lost' = gone
  BY <1>3 DEF Typed
<1>16. allocatedSectors' = allocatedSectors + (Len(new) + 0 + gone) - (Share(f) + lost)
  <2>1. Len(vector) \in Nat /\ Share(f) \in Nat /\ allocatedSectors \in Nat
    BY <1>3, LenProperties, ShareType DEF Typed
  <2> QED BY <1>8, <1>15, <2>1
<1> QED BY <1>8, <1>11, <1>12, <1>13, <1>14, <1>15, <1>16, InvAfter

\* What a vector keeps when it grows or is cut.
LEMMA ResizedKeepsData ==
  ASSUME Inv, NEW f \in Files, NEW vector \in Seq(Entries), sectors'[f] = vector,
         \A k \in 1 .. Len(vector) : k <= Len(sectors[f]) => vector[k] = sectors[f][k],
         Usable(f), UNCHANGED <<fileSize, written>>
  PROVE  DataInv(f)'
<1> DEFINE S == FULL_SECTOR_SIZE
           n == Len(sectors[f])
<1>1. /\ S \in Nat \ {0} /\ fileSize[f] \in Nat /\ allocationSize[f] \in Nat
      /\ n \in Nat /\ Len(vector) \in Nat /\ n * S \in Nat
  <2>1. S \in Nat \ {0} /\ n \in Nat /\ Len(vector) \in Nat
    BY SectorSizeAssumption, LenProperties DEF Inv, Typed
  <2> HIDE DEF S, n
  <2> QED BY <2>1 DEF Inv, Typed
<1>2. fileSize[f] <= allocationSize[f] /\ allocationSize[f] <= n * S /\ DataInv(f)
  BY DEF Inv, FileInv, NestedInv
<1> SUFFICES ASSUME NEW o \in DOMAIN written[f]
             PROVE  /\ o < fileSize[f]
                    /\ o \div S + 1 <= Len(vector) /\ vector[o \div S + 1] # NullSector =>
                         vector[o \div S + 1][o % S] = written[f][o]
  BY DEF DataInv
<1>3. /\ o \in Nat /\ o < fileSize[f]
      /\ o \div S + 1 <= n /\ sectors[f][o \div S + 1] # NullSector =>
           sectors[f][o \div S + 1][o % S] = written[f][o]
  <2>1. written[f] \in Histories
    BY DEF Inv, Typed
  <2>2. DOMAIN written[f] \subseteq Nat
    BY <2>1 DEF Histories
  <2> QED BY <1>2, <2>2 DEF DataInv
<1>4. o \div S + 1 \in 1 .. n
  <2>1. o < n * S
    BY <1>1, <1>2, <1>3
  <2> HIDE DEF S, n
  <2> QED BY <1>1, <1>3, <2>1, PlaceInVector
<1>5. ASSUME o \div S + 1 <= Len(vector) PROVE vector[o \div S + 1] = sectors[f][o \div S + 1]
  <2>1. o \div S + 1 \in 1 .. Len(vector)
    BY <1>1, <1>4, <1>5
  <2> QED BY <1>4, <2>1
<1> HIDE DEF S, n
<1>6. o \div S + 1 <= n
  BY <1>1, <1>4
<1> QED BY <1>3, <1>5, <1>6

LEMMA ReserveKeepsInv ==
  ASSUME Inv, NEW f \in Files, Reserve(f)
  PROVE  Inv'
<1>1. /\ Typed /\ FileInv(f) /\ pc[f] = "reallocate" /\ owed[f] = 0 /\ UNCHANGED sectors /\ lost \in Nat
      /\ Wanted(f) \in Nat /\ Len(sectors[f]) \in Nat /\ allocatedSectors \in Nat
  BY ResizedToWanted, ShareType DEF Reserve, Inv, Typed, FileInv, CallInv
<1>2. Wanted(f) > Len(sectors[f])
  BY DEF Reserve
<1>3. PICK debt \in Nat : debt = Wanted(f) - Len(sectors[f])
  BY <1>1, <1>2
<1>4. PICK gone \in Nat : gone = lost
  BY <1>1
<1>5. /\ owed' = [owed EXCEPT ![f] = debt] /\ pc' = [pc EXCEPT ![f] = "grow"]
      /\ UNCHANGED <<exists, sizes, lost, call, written>> /\ allocatedSectors' = allocatedSectors + debt
  BY <1>3 DEF Reserve
<1>6. owed'[f] = debt /\ pc'[f] = "grow" /\ Wanted(f)' = Wanted(f)
  BY <1>1, <1>5 DEF Typed, Wanted
<1>7. FileInv(f)'
  <2>1. CallInv(f)'
    BY <1>1, <1>3, <1>5, <1>6 DEF FileInv, CallInv, sizes
  <2>2. NestedInv(f)' /\ DataInv(f)'
    BY <1>1, <1>5, <1>6 DEF FileInv, NestedInv, DataInv, Usable, sizes
  <2> QED BY <2>1, <2>2 DEF FileInv
<1>8. TypedFunctions' /\ OthersKept(f)
  BY <1>1, <1>5 DEF Typed, TypedFunctions, OthersKept, sizes, PCs
<1>9. allocatedSectors' = allocatedSectors + (debt + gone) - (owed[f] + lost)
  BY <1>1, <1>4, <1>5
<1>10. lost' = gone
  BY <1>4, <1>5
<1> QED BY <1>1, <1>5, <1>7, <1>8, <1>9, <1>10, InvAfterReckoning

LEMMA ResizeThrowsKeepsInv ==
  ASSUME Inv, NEW f \in Files, ResizeThrows(f)
  PROVE  Inv'
<1>1. /\ Typed /\ FileInv(f) /\ pc[f] = "grow" /\ owed' = [owed EXCEPT ![f] = 0] /\ EndCall(f)
      /\ UNCHANGED <<exists, sectors, sizes, allocatedSectors, written>>
      /\ owed[f] \in Nat /\ lost \in Nat /\ allocatedSectors \in Nat
  BY DEF ResizeThrows, Inv, Typed
<1>2. PICK gone \in Nat : gone = lost + owed[f] /\ lost' = gone
  BY <1>1 DEF ResizeThrows
<1>3. FileInv(f)'
  <2>1. owed'[f] = 0
    BY <1>1 DEF Typed
  <2>2. CallInv(f)'
    BY <1>1, <2>1, EndCallFacts DEF CallInv
  <2>3. NestedInv(f)' /\ DataInv(f)'
    BY <1>1 DEF FileInv, NestedInv, DataInv, Usable, sizes
  <2> QED BY <2>2, <2>3 DEF FileInv
<1>4. TypedFunctions' /\ OthersKept(f)
  BY <1>1, EndCallFacts DEF Typed, TypedFunctions, OthersKept, sizes
<1>5. allocatedSectors' = allocatedSectors + (0 + gone) - (owed[f] + lost)
  BY <1>1, <1>2
<1>6. UNCHANGED sectors
  BY <1>1
<1> QED BY <1>1, <1>2, <1>3, <1>4, <1>5, <1>6, InvAfterReckoning

LEMMA HeapAllocFailsKeepsInv ==
  ASSUME Inv, NEW f \in Files, HeapAllocFails(f)
  PROVE  Inv'
<1>1. PICK vector \in Seq(Entries) :
        /\ vector = Resized(sectors[f], Wanted(f), HeapRoom) /\ Len(vector) = Wanted(f)
        /\ \A k \in 1 .. Len(vector) : k <= Len(sectors[f]) => vector[k] = sectors[f][k]
        /\ TakesRoom(f, vector)
  BY ResizedToWanted
<1>2. /\ pc[f] = "grow" /\ owed' = [owed EXCEPT ![f] = 0] /\ sectors' = [sectors EXCEPT ![f] = vector]
      /\ UNCHANGED <<exists, sizes, allocatedSectors, lost, written>>
      /\ Destroy(f, "CreateUndone") \/ EndCall(f)
  BY <1>1 DEF HeapAllocFails
<1>3. /\ Typed /\ FileInv(f) /\ Wanted(f) = Len(sectors[f]) + owed[f] /\ Usable(f)
      /\ sectors'[f] = vector /\ owed'[f] = 0
  BY <1>2 DEF Inv, Typed, FileInv, CallInv, Usable
<1>4. /\ call' \in [Files -> Calls] /\ pc' \in [Files -> PCs]
      /\ call'[f].op # "Write" /\ pc'[f] \in {"idle", "reallocate"}
      /\ \A g \in Files \ {f} : call'[g] = call[g] /\ pc'[g] = pc[g]
  <2>1. CASE EndCall(f)
    BY <2>1, EndCallFacts
  <2>2. CASE Destroy(f, "CreateUndone")
    BY <2>2, DestroyFacts
  <2> QED BY <1>2, <2>1, <2>2
<1>5. DataInv(f)'
  BY <1>1, <1>2, <1>3, ResizedKeepsData DEF sizes
<1>6. NestedInv(f)'
  <2> DEFINE S == FULL_SECTOR_SIZE
             n == Len(sectors[f])
             m == Len(vector)
  <2>1. /\ S \in Nat \ {0} /\ n \in Nat /\ m \in Nat /\ n <= m
        /\ fileSize[f] \in Nat /\ allocationSize[f] \in Nat
    <3>1. owed[f] \in Nat /\ n \in Nat
      BY <1>3, ShareType
    <3> QED BY <1>1, <1>3, <3>1, SectorSizeAssumption DEF Typed
  <2>2. fileSize[f] <= allocationSize[f] /\ allocationSize[f] <= n * S
    BY <1>3 DEF FileInv, NestedInv
  <2> HIDE DEF S, n, m
  <2>3. S * n <= S * m
    BY <2>1, MultipleNotAbove
  <2>4. S * n = n * S /\ S * m = m * S /\ n * S \in Nat /\ m * S \in Nat
    BY <2>1
  <2>5. allocationSize[f] <= m * S
    BY <2>1, <2>2, <2>3, <2>4
  <2> QED BY <1>2, <1>3, <2>2, <2>5 DEF NestedInv, S, m, sizes
<1>7. CallInv(f)'
  BY <1>3, <1>4 DEF CallInv
<1>8. TypedFunctions' /\ OthersKept(f)
  BY <1>2, <1>3, <1>4 DEF Typed, TypedFunctions, OthersKept, sizes
<1>9. PICK gone \in Nat : gone = lost /\ lost' = gone
  BY <1>2, <1>3 DEF Typed
<1>10. allocatedSectors' = allocatedSectors + (Len(vector) + 0 + gone) - (Share(f) + lost)
  <2>1. Len(vector) = Share(f) /\ Share(f) \in Nat /\ allocatedSectors \in Nat
    BY <1>1, <1>3, ShareType DEF Share, Typed
  <2> QED BY <1>2, <1>9, <2>1
<1>11. FileInv(f)'
  BY <1>5, <1>6, <1>7 DEF FileInv
<1> QED BY <1>1, <1>2, <1>8, <1>9, <1>10, <1>11, InvAfter

LEMMA ShrinkKeepsInv ==
  ASSUME Inv, NEW f \in Files, Shrink(f)
  PROVE  Inv'
<1>1. /\ Wanted(f) \in Nat
      /\ \E vector \in Seq(Entries) :
           /\ vector = Resized(sectors[f], Wanted(f), HeapRoom) /\ Len(vector) = Wanted(f)
           /\ \A k \in 1 .. Len(vector) : k <= Len(sectors[f]) => vector[k] = sectors[f][k]
           /\ TakesRoom(f, vector)
  BY ResizedToWanted
<1>2. PICK vector \in Seq(Entries) :
        /\ vector = Resized(sectors[f], Wanted(f), HeapRoom) /\ Len(vector) = Wanted(f)
        /\ \A k \in 1 .. Len(vector) : k <= Len(sectors[f]) => vector[k] = sectors[f][k]
        /\ TakesRoom(f, vector)
  BY <1>1
<1>3. /\ Typed /\ FileInv(f) /\ pc[f] = "reallocate" /\ Usable(f) /\ owed[f] = 0
      /\ Len(sectors[f]) \in Nat /\ lost \in Nat /\ allocatedSectors \in Nat
  BY ShareType DEF Shrink, Inv, Typed, FileInv, CallInv, Usable
<1>4. PICK debt \in Nat : debt = Len(sectors[f]) - Wanted(f)
  <2>1. Wanted(f) < Len(sectors[f])
    BY DEF Shrink
  <2> QED BY <1>1, <1>3, <2>1
<1>5. /\ sectors' = [sectors EXCEPT ![f] = vector] /\ owed' = [owed EXCEPT ![f] = debt]
      /\ pc' = [pc EXCEPT ![f] = "subtract"]
      /\ UNCHANGED <<exists, sizes, allocatedSectors, lost, call, written>>
  BY <1>2, <1>4 DEF Shrink
<1>6. sectors'[f] = vector /\ pc'[f] = "subtract" /\ Wanted(f)' = Wanted(f)
  BY <1>3, <1>5 DEF Typed, Wanted
<1>7. FileInv(f)'
  <2>1. CallInv(f)'
    BY <1>2, <1>3, <1>5, <1>6 DEF FileInv, CallInv, sizes
  <2>2. NestedInv(f)'
    BY <1>3, <1>5, <1>6 DEF FileInv, NestedInv, Usable, sizes
  <2>3. DataInv(f)'
    BY <1>2, <1>3, <1>5, <1>6, ResizedKeepsData DEF sizes
  <2> QED BY <2>1, <2>2, <2>3 DEF FileInv
<1>8. TypedFunctions' /\ OthersKept(f)
  BY <1>3, <1>5 DEF Typed, TypedFunctions, OthersKept, sizes, PCs
<1>9. PICK gone \in Nat : gone = lost /\ lost' = gone
  BY <1>3, <1>5
<1>10. allocatedSectors' = allocatedSectors + (Len(vector) + debt + gone) - (Share(f) + lost)
  BY <1>1, <1>2, <1>3, <1>4, <1>5, <1>9 DEF Share
<1> QED BY <1>2, <1>5, <1>7, <1>8, <1>9, <1>10, InvAfter

LEMMA ReAllocateKeepsInv ==
  ASSUME Inv, NEW f \in Files, ReAllocate(f)
  PROVE  Inv'
<1>0. /\ Typed /\ CallInv(f) /\ Len(sectors[f]) \in Nat /\ owed[f] \in Nat /\ allocatedSectors \in Nat
      /\ Share(f) \in Nat
  BY ShareType DEF Inv, FileInv, Typed
<1>1. PICK old \in Seq(Entries) : old = sectors[f] /\ Len(old) \in Nat
  BY <1>0 DEF Typed
<1>2. TakesRoom(f, old)
  BY <1>1 DEF TakesRoom
<1>3. CASE KeepVector(f)
  <2>1. /\ pc[f] = "reallocate" /\ Len(old) = Wanted(f) /\ Succeed(f, old) /\ owed[f] = 0
        /\ UNCHANGED <<allocatedSectors, owed, lost>>
    BY <1>0, <1>1, <1>3 DEF KeepVector, CallInv, counters
  <2>2. owed' = [owed EXCEPT ![f] = 0]
    BY <1>0, <2>1 DEF Typed
  <2>3. allocatedSectors' = allocatedSectors + Len(old) - Share(f)
    BY <1>0, <1>1, <2>1 DEF Share
  <2> QED BY <1>1, <1>2, <2>1, <2>2, <2>3, SucceedKeepsInv
<1>4. CASE Subtract(f)
  <2>1. /\ pc[f] = "subtract" /\ Len(old) = Wanted(f) /\ Succeed(f, old)
        /\ owed' = [owed EXCEPT ![f] = 0] /\ UNCHANGED lost /\ allocatedSectors' = allocatedSectors - owed[f]
    BY <1>0, <1>1, <1>4 DEF Subtract, CallInv
  <2>2. allocatedSectors' = allocatedSectors + Len(old) - Share(f)
    BY <1>0, <1>1, <2>1 DEF Share
  <2> QED BY <1>1, <1>2, <2>1, <2>2, SucceedKeepsInv
<1>5. CASE Grow(f)
  <2>1. PICK vector \in Seq(Entries) :
          /\ vector = Resized(sectors[f], Wanted(f), HeapRoom) /\ Len(vector) = Wanted(f)
          /\ \A k \in 1 .. Len(vector) : k <= Len(sectors[f]) => vector[k] = sectors[f][k]
          /\ TakesRoom(f, vector)
    BY ResizedToWanted
  <2>2. /\ pc[f] = "grow" /\ Succeed(f, vector) /\ owed' = [owed EXCEPT ![f] = 0]
        /\ UNCHANGED <<allocatedSectors, lost>> /\ Len(vector) = Share(f) /\ Usable(f)
    BY <1>0, <1>5, <2>1 DEF Grow, CallInv, Share, Usable
  <2>3. allocatedSectors' = allocatedSectors + Len(vector) - Share(f)
    BY <1>0, <2>2
  <2> QED BY <2>1, <2>2, <2>3, SucceedKeepsInv
<1>6. CASE Reserve(f) \/ ResizeThrows(f)
  BY <1>6, ReserveKeepsInv, ResizeThrowsKeepsInv
<1>7. CASE HeapAllocFails(f) \/ Shrink(f)
  BY <1>7, HeapAllocFailsKeepsInv, ShrinkKeepsInv
<1> QED BY <1>3, <1>4, <1>5, <1>6, <1>7 DEF ReAllocate

LEMMA EmptyIsHistory == <<>> \in Histories /\ <<>> \in Seq(Entries) /\ DOMAIN <<>> = {} /\ Len(<<>>) = 0
<1>1. <<>> \in Seq(Stored) /\ <<>> \in Seq(Entries) /\ Len(<<>>) = 0
  OBVIOUS
<1>2. DOMAIN <<>> = 1 .. Len(<<>>) /\ <<>> \in [1 .. Len(<<>>) -> Stored]
  BY <1>1, LenProperties
<1>3. 1 .. Len(<<>>) = {}
  BY <1>1
<1>4. {} \in SUBSET Nat
  OBVIOUS
<1> QED BY <1>1, <1>2, <1>3, <1>4 DEF Histories

\* What each call hands over is a call that can run.
LEMMA CallsKeepInv ==
  ASSUME Inv, NEW f \in Files,
         SetFileSize(f) \/ Write(f) \/ Overwrite(f) \/ CleanupSetAllocationSize(f)
  PROVE  Inv'
<1>0. Typed /\ fileSize[f] \in Nat /\ Sizes \subseteq Nat
  BY SizesAssumption DEF Inv, Typed, Sizes
<1>1. ASSUME NEW op \in {"SetFileSize", "SetAllocationSize", "Overwrite", "Cleanup"}, NEW newSize \in Nat,
             Begin(f, Call(op, newSize, 0, 0, Uninitialised))
      PROVE  Inv'
  <2>1. PICK c : c = Call(op, newSize, 0, 0, Uninitialised)
    OBVIOUS
  <2>2. CallRuns(c) /\ c.op # "Write"
    BY <2>1 DEF Call, Calls, CallRuns, Stored
  <2> QED BY <1>1, <2>1, <2>2, BeginKeepsInv
<1>2. CASE SetFileSize(f)
  <2>1. PICK newSize \in Sizes :
          \/ Begin(f, Call("SetFileSize", newSize, 0, 0, Uninitialised))
          \/ Begin(f, Call("SetAllocationSize", newSize, 0, 0, Uninitialised))
    BY <1>2 DEF SetFileSize
  <2> QED BY <1>0, <1>1, <2>1
<1>3. CASE Overwrite(f)
  <2>1. PICK newSize \in Sizes : Begin(f, Call("Overwrite", newSize, 0, 0, Uninitialised))
    BY <1>3 DEF Overwrite
  <2> QED BY <1>0, <1>1, <2>1
<1>4. CASE CleanupSetAllocationSize(f)
  <2>1. AlignUp(fileSize[f]) \in Nat
    <3>1. /\ FULL_SECTOR_SIZE \in Nat \ {0}
          /\ fileSize[f] % FULL_SECTOR_SIZE \in 0 .. FULL_SECTOR_SIZE - 1
      BY <1>0, SectorSizeAssumption, DivMod
    <3> QED BY <1>0, <3>1 DEF AlignUp
  <2> QED BY <1>1, <1>4, <2>1 DEF CleanupSetAllocationSize
<1>5. CASE Write(f)
  <2>1. PICK offset \in Nat, endOffset \in Nat, newSize \in Nat, value \in Values :
          /\ endOffset > offset
          /\ newSize = IF endOffset > fileSize[f] THEN endOffset ELSE fileSize[f]
          /\ Begin(f, Call("Write", newSize, offset, endOffset - offset, value))
    <3>1. PICK offset \in Sizes, size \in Sizes, value \in Values, constrainedIo \in BOOLEAN :
            LET endOffset == IF constrainedIo THEN MinOf(offset + size, fileSize[f]) ELSE offset + size
                newSize == IF endOffset > fileSize[f] THEN endOffset ELSE fileSize[f]
            IN  /\ size > 0 /\ endOffset > offset /\ endOffset <= MaxFileSize
                /\ Begin(f, Call("Write", newSize, offset, endOffset - offset, value))
      BY <1>5 DEF Write
    <3> DEFINE endOffset == IF constrainedIo THEN MinOf(offset + size, fileSize[f]) ELSE offset + size
               newSize == IF endOffset > fileSize[f] THEN endOffset ELSE fileSize[f]
    <3>2. offset \in Nat /\ endOffset \in Nat
      BY <1>0 DEF MinOf
    <3>3. newSize \in Nat /\ endOffset > offset
          /\ Begin(f, Call("Write", newSize, offset, endOffset - offset, value))
      BY <1>0, <3>1, <3>2
    <3> HIDE DEF endOffset
    <3>4. newSize = IF endOffset > fileSize[f] THEN endOffset ELSE fileSize[f]
      OBVIOUS
    <3> HIDE DEF newSize
    <3> QED BY <3>2, <3>3, <3>4
  <2>2. PICK c : c = Call("Write", newSize, offset, endOffset - offset, value)
    OBVIOUS
  <2>3. /\ endOffset - offset \in Nat /\ endOffset - offset > 0
        /\ offset + (endOffset - offset) <= newSize /\ fileSize[f] <= newSize
    BY <1>0, <2>1
  <2>4. /\ c.op = "Write" /\ c.newSize = newSize /\ c.offset = offset
        /\ c.size = endOffset - offset /\ c \in Calls
    BY <2>2, <2>3 DEF Call, Calls, Stored
  <2>5. CallRuns(c) /\ fileSize[f] <= c.newSize
    BY <2>3, <2>4 DEF CallRuns
  <2> QED BY <2>1, <2>2, <2>5, BeginKeepsInv
<1> QED BY <1>2, <1>3, <1>4, <1>5

LEMMA InitInv == Init => Inv
<1> SUFFICES ASSUME Init PROVE Inv
  OBVIOUS
<1>1. Typed
  BY NoCallIsCall, EmptyIsHistory DEF Init, Typed, PCs
<1>2. Counted(Files) = {} /\ AllPresent = {}
  <2>1. \A f \in Files : Len(sectors[f]) + owed[f] = 0 /\ 1 .. 0 = {}
    BY EmptyIsHistory DEF Init
  <2> QED BY <2>1, EmptyIsHistory DEF Init, Counted, AllPresent, PresentSectors
<1>3. CounterInv /\ RoomInv
  BY <1>2, FS_EmptySet, SizesAssumption DEF Init, CounterInv, RoomInv
<1>4. ASSUME NEW f \in Files PROVE FileInv(f)
  <2>1. call[f].op = "none" /\ pc[f] = "idle" /\ owed[f] = 0
    BY NoCallIsCall DEF Init
  <2>2. CallInv(f) /\ DataInv(f)
    BY <2>1, EmptyIsHistory DEF Init, CallInv, DataInv
  <2>3. NestedInv(f)
    BY EmptyIsHistory, SectorSizeAssumption DEF Init, NestedInv
  <2> QED BY <2>2, <2>3 DEF FileInv
<1> QED BY <1>1, <1>3, <1>4 DEF Inv

LEMMA StepInv == Inv /\ [Next]_vars => Inv'
<1> SUFFICES ASSUME Inv, [Next]_vars PROVE Inv'
  OBVIOUS
<1>1. CASE UNCHANGED vars
  <2>1. \A f \in Files : Wanted(f)' = Wanted(f)
    BY <1>1 DEF vars, Wanted
  <2>2. ASSUME NEW f \in Files PROVE FileInv(f)'
    <3>1. FileInv(f) /\ Wanted(f)' = Wanted(f)
      BY <2>1 DEF Inv
    <3> QED BY <1>1, <3>1 DEF vars, sizes, counters, FileInv, CallInv, NestedInv, DataInv, Usable
  <2>3. Typed'
    BY <1>1 DEF vars, sizes, counters, Inv, Typed
  <2>4. CounterInv' /\ RoomInv'
    BY <1>1 DEF vars, sizes, counters, Inv, CounterInv, RoomInv, Counted, AllPresent, PresentSectors
  <2> QED BY <2>2, <2>3, <2>4 DEF Inv
<1>2. CASE Next
  <2>1. PICK f \in Files :
          \/ CreateCheck(f) \/ Delete(f) \/ CheckLimit(f) \/ ReAllocate(f)
          \/ SetFileSize(f) \/ Write(f) \/ Overwrite(f) \/ CleanupSetAllocationSize(f)
    BY <1>2 DEF Next
  <2>2. CASE CreateCheck(f)
    BY <2>2, CreateCheckKeepsInv
  <2>3. CASE Delete(f)
    BY <2>3, DeleteKeepsInv
  <2>4. CASE SetFileSize(f) \/ Write(f) \/ Overwrite(f) \/ CleanupSetAllocationSize(f)
    BY <2>4, CallsKeepInv
  <2>5. CASE CheckLimit(f)
    BY <2>5, CheckLimitKeepsInv
  <2>6. CASE ReAllocate(f)
    BY <2>6, ReAllocateKeepsInv
  <2> QED BY <2>1, <2>2, <2>3, <2>4, <2>5, <2>6
<1> QED BY <1>1, <1>2

LEMMA Invariance == Spec => []Inv
BY InitInv, StepInv, PTL DEF Spec

-----------------------------------------------------------------------------
(* The theorems. *)

\* Every variable has its type, and the counter never goes below zero.
THEOREM TypeCorrect == Spec => []TypeOK
<1>1. Inv => TypeOK
  <2> SUFFICES ASSUME Inv PROVE TypeOK
    OBVIOUS
  <2>1. Typed
    BY DEF Inv
  <2>2. ASSUME NEW f \in Files, NEW k \in DOMAIN sectors[f]
        PROVE  \/ sectors[f][k] = NullSector
               \/ sectors[f][k] \in [0 .. FULL_SECTOR_SIZE - 1 -> Values \cup {Uninitialised}]
    <3>1. sectors[f] \in Seq(Entries)
      BY <2>1 DEF Typed
    <3> QED BY <2>2, <3>1, EntryTypes DEF SectorContents, Stored
  <2>3. ASSUME NEW f \in Files PROVE DOMAIN written[f] \subseteq Nat
    <3>1. written[f] \in Histories
      BY <2>1 DEF Typed
    <3> QED BY <3>1 DEF Histories
  <2> QED BY <2>1, <2>2, <2>3 DEF Typed, TypeOK, PCs
<1> QED BY <1>1, Invariance, PTL

\* Whatever failed before, a file's size is within its allocation and that within
\* the sectors it has.
THEOREM SizesStayNested == Spec => []SizesNested
<1>1. Inv => SizesNested
  BY DEF Inv, FileInv, NestedInv, SizesNested
<1> QED BY <1>1, Invariance, PTL

\* The sectors of a file hold every range below its size.
LEMMA RangeInVector ==
  ASSUME Inv, NEW f \in Files, Usable(f),
         NEW offset \in Nat, NEW size \in Nat \ {0}, offset + size <= fileSize[f]
  PROVE  SectorsFor(offset + size) <= Len(sectors[f]) /\ Len(sectors[f]) \in Nat
<1> DEFINE n == Len(sectors[f])
<1>1. n \in Nat /\ fileSize[f] \in Nat /\ allocationSize[f] \in Nat /\ FULL_SECTOR_SIZE \in Nat \ {0}
  BY SectorSizeAssumption, LenProperties DEF Inv, Typed
<1>2. fileSize[f] <= allocationSize[f] /\ allocationSize[f] <= n * FULL_SECTOR_SIZE
  BY DEF Inv, FileInv, NestedInv
<1> HIDE DEF n
<1>3. n * FULL_SECTOR_SIZE = FULL_SECTOR_SIZE * n /\ FULL_SECTOR_SIZE * n \in Nat
  BY <1>1
<1>4. offset + size <= FULL_SECTOR_SIZE * n
  BY <1>1, <1>2, <1>3
<1> QED BY <1>1, <1>4, SectorsForLeast DEF n

\* No byte below the file size is out of reach of a Read or Write.
THEOREM RangesAreAccepted == Spec => []RangesBelowFileSizeAccepted
<1>1. Inv => RangesBelowFileSizeAccepted
  <2> SUFFICES ASSUME Inv, NEW f \in exists, Usable(f),
                      NEW offset \in 0 .. fileSize[f] - 1, NEW size \in 1 .. fileSize[f] - offset
               PROVE  ~Rejected(offset, size, Len(sectors[f]))
    BY DEF RangesBelowFileSizeAccepted
  <2>1. f \in Files /\ fileSize[f] \in Nat
    BY DEF Inv, Typed
  <2>2. offset \in Nat /\ size \in Nat \ {0} /\ offset + size <= fileSize[f]
    BY <2>1
  <2> QED BY <2>1, <2>2, RangeInVector, RangeInVectorIsSafe
<1> QED BY <1>1, Invariance, PTL

\* The total in use covers the sectors of each file, so the subtraction of the
\* check of the limit never wraps.
THEOREM QuotaIsExact == Spec => []QuotaNeverWraps
<1>1. Inv => QuotaNeverWraps
  <2> SUFFICES ASSUME Inv, NEW f \in Files PROVE ApproximateSize(f) <= GetUsedTotalSize
    BY DEF QuotaNeverWraps
  <2> DEFINE n == Len(sectors[f])
             cost == FULL_SECTOR_SIZE + PointerSize
             nodes == (Cardinality(exists) * NodeSize) % UlongModulus
  <2>1. n \in Nat /\ cost \in Nat \ {0} /\ allocatedSectors \in Nat /\ n <= allocatedSectors
    <3>1. /\ Cardinality(Counted(Files \ {f})) \in Nat
          /\ allocatedSectors = Cardinality(Counted(Files \ {f})) + Share(f) + lost
      BY CounterOf DEF Inv
    <3>2. n \in Nat /\ owed[f] \in Nat /\ lost \in Nat /\ allocatedSectors \in Nat /\ Share(f) = n + owed[f]
      BY ShareType DEF Inv, Typed, Share
    <3> QED BY <3>1, <3>2, SectorSizeAssumption, SizesAssumption
  <2>2. nodes \in Nat
    <3>1. Cardinality(exists) \in Nat
      BY SizesAssumption, FS_Subset, FS_CardinalityType DEF Inv, Typed
    <3>2. Cardinality(exists) * NodeSize \in Nat /\ UlongModulus \in Nat \ {0}
      BY <3>1, SizesAssumption
    <3> QED BY <3>2, DivMod
  <2>3. ApproximateSize(f) = n * cost /\ GetUsedTotalSize = nodes + allocatedSectors * cost
    BY DEF ApproximateSize, GetUsedTotalSize
  <2> HIDE DEF n, cost, nodes
  <2>4. /\ cost * n <= cost * allocatedSectors
        /\ cost * n = n * cost /\ cost * allocatedSectors = allocatedSectors * cost
        /\ n * cost \in Int /\ allocatedSectors * cost \in Int
    BY <2>1, MultipleNotAbove
  <2> QED BY <2>2, <2>3, <2>4
<1> QED BY <1>1, Invariance, PTL

LEMMA RemainderIsSmaller ==
  ASSUME NEW x \in Nat, NEW s \in Nat \ {0}
  PROVE  x % s \in Nat /\ x % s <= x
<1> DEFINE q == x \div s
           r == x % s
<1>1. q \in Nat /\ r \in 0 .. s - 1 /\ x = s * q + r
  BY DivMod
<1> HIDE DEF q, r
<1>2. s * q \in Nat
  BY <1>1
<1>3. r \in Nat /\ r <= x
  BY <1>1, <1>2
<1> QED BY <1>3 DEF r

\* Only the check of the limit ends a call that waits for it.
LEMMA OnlyTheLimitRefuses ==
  ASSUME Inv, Next, NEW f \in Files, pc[f] = "check", pc'[f] = "idle"
  PROVE  CheckLimit(f) /\ EndCall(f) /\ UNCHANGED <<exists, sectors>>
<1>1. PICK g \in Files :
        \/ CreateCheck(g) \/ Delete(g) \/ CheckLimit(g) \/ ReAllocate(g)
        \/ SetFileSize(g) \/ Write(g) \/ Overwrite(g) \/ CleanupSetAllocationSize(g)
  BY DEF Next
<1>2. pc \in [Files -> PCs]
  BY DEF Inv, Typed
<1>3. ASSUME NEW h \in Files, NEW c, Begin(h, c) PROVE FALSE
  BY <1>2, <1>3 DEF Begin
<1>4. CASE SetFileSize(g) \/ Write(g) \/ Overwrite(g) \/ CleanupSetAllocationSize(g)
  <2>1. \E c : Begin(g, c)
    <3>1. CASE SetFileSize(g)
      BY <3>1 DEF SetFileSize
    <3>2. CASE Write(g)
      BY <3>2 DEF Write
    <3>3. CASE Overwrite(g) \/ CleanupSetAllocationSize(g)
      BY <3>3 DEF Overwrite, CleanupSetAllocationSize
    <3> QED BY <1>4, <3>1, <3>2, <3>3
  <2> QED BY <1>3, <2>1
<1>5. CASE CreateCheck(g) \/ Delete(g) \/ ReAllocate(g)
  <2>1. pc[g] # "check" /\ \E step \in PCs : pc' = [pc EXCEPT ![g] = step]
    <3>1. CASE CreateCheck(g) \/ Delete(g)
      BY <3>1 DEF CreateCheck, Delete, Destroy, PCs
    <3>2. CASE KeepVector(g) \/ Grow(g) \/ Subtract(g)
      BY <3>2 DEF KeepVector, Grow, Subtract, Succeed, EndCall, PCs
    <3>3. CASE Reserve(g) \/ ResizeThrows(g) \/ Shrink(g)
      BY <3>3 DEF Reserve, ResizeThrows, Shrink, EndCall, PCs
    <3>4. CASE HeapAllocFails(g)
      BY <3>4 DEF HeapAllocFails, Destroy, EndCall, PCs
    <3> QED BY <1>5, <3>1, <3>2, <3>3, <3>4 DEF ReAllocate
  <2> QED BY <1>2, <2>1
<1>6. CASE CheckLimit(g)
  <2>1. g = f
    BY <1>2, <1>6 DEF CheckLimit, EndCall
  <2>2. EndCall(f)
    BY <1>2, <1>6, <2>1 DEF CheckLimit
  <2> QED BY <1>6, <2>1, <2>2 DEF CheckLimit
<1> QED BY <1>1, <1>4, <1>5, <1>6

\* Every STATUS_DISK_FULL is accounted for by what the files have, what calls
\* under way have reserved or not given back, and what is lost.
THEOREM RefusalsAreAccountedFor == Spec => RefusedOnlyWhenFull
<1> DEFINE Refused(f) ==
             pc[f] = "check" /\ pc'[f] = "idle" =>
               Cardinality(exists) * NodeSize
               + (Cardinality(Counted(Files \ {f})) + lost + Wanted(f)) * (FULL_SECTOR_SIZE + PointerSize)
               > CalculateMaxTotalSize
<1>1. Inv /\ [Next]_vars => [\A f \in Files : Refused(f)]_vars
  <2> SUFFICES ASSUME Inv, Next, NEW f \in Files, pc[f] = "check", pc'[f] = "idle"
               PROVE  Cardinality(exists) * NodeSize
                      + (Cardinality(Counted(Files \ {f})) + lost + Wanted(f)) * (FULL_SECTOR_SIZE + PointerSize)
                      > CalculateMaxTotalSize
    OBVIOUS
  <2> DEFINE n == Len(sectors[f])
             others == Cardinality(Counted(Files \ {f})) + lost
             cost == FULL_SECTOR_SIZE + PointerSize
             nodes == Cardinality(exists) * NodeSize
             counted == nodes % UlongModulus
             asked == NewAllocation(call[f])
             wanted == Wanted(f)
  <2>1. SizeAfter(f, asked) > CalculateMaxTotalSize
    <3>1. CheckLimit(f) /\ EndCall(f)
      BY OnlyTheLimitRefuses
    <3>2. ~(pc' = [pc EXCEPT ![f] = "reallocate"])
      BY DEF Inv, Typed
    <3> QED BY <3>1, <3>2 DEF CheckLimit
  <2>2. /\ n \in Nat /\ others \in Nat /\ allocatedSectors = others + n
        /\ FULL_SECTOR_SIZE \in Nat \ {0} /\ PointerSize \in Nat \ {0} /\ cost \in Nat \ {0}
        /\ CalculateMaxTotalSize \in Nat
    <3>1. /\ Cardinality(Counted(Files \ {f})) \in Nat /\ lost \in Nat /\ n \in Nat
          /\ allocatedSectors = Cardinality(Counted(Files \ {f})) + Share(f) + lost
      BY CounterOf, ShareType DEF Inv, Typed
    <3>2. Share(f) = n
      <4>1. owed[f] = 0
        BY DEF Inv, FileInv, CallInv
      <4> QED BY <3>1, <4>1 DEF Share
    <3> QED BY <3>1, <3>2, SectorSizeAssumption, SizesAssumption DEF CalculateMaxTotalSize
  <2>3. nodes \in Nat /\ counted \in Nat /\ counted <= nodes
    <3>1. Cardinality(exists) \in Nat
      BY SizesAssumption, FS_Subset, FS_CardinalityType DEF Inv, Typed
    <3>2. nodes \in Nat /\ UlongModulus \in Nat \ {0}
      BY <3>1, SizesAssumption
    <3> HIDE DEF nodes
    <3> QED BY <3>2, RemainderIsSmaller
  <2>4. /\ asked \in Nat /\ wanted \in Nat /\ asked <= wanted * FULL_SECTOR_SIZE
    BY NewSizes DEF Inv, Typed, Wanted
  <2>5. SizeAfter(f, asked) = asked - n * cost + (counted + allocatedSectors * cost)
    BY DEF SizeAfter, ApproximateSize, GetUsedTotalSize
  <2> HIDE DEF n, others, cost, nodes, counted, asked, wanted
  <2>6. /\ n * cost \in Nat /\ others * cost \in Nat /\ wanted * cost \in Nat
        /\ (others + n) * cost = others * cost + n * cost
        /\ (others + wanted) * cost = others * cost + wanted * cost
    BY <2>2, <2>4
  <2>7. asked <= wanted * cost
    <3>1. wanted * cost = wanted * FULL_SECTOR_SIZE + wanted * PointerSize
      BY <2>2, <2>4 DEF cost
    <3>2. wanted * FULL_SECTOR_SIZE \in Nat /\ wanted * PointerSize \in Nat
      BY <2>2, <2>4
    <3> QED BY <2>4, <2>6, <3>1, <3>2
  <2>8. SizeAfter(f, asked) = asked + counted + others * cost
    BY <2>2, <2>3, <2>4, <2>5, <2>6
  <2>9. nodes + (others + wanted) * cost > CalculateMaxTotalSize
    BY <2>1, <2>2, <2>3, <2>4, <2>6, <2>7, <2>8
  <2> QED BY <2>9 DEF nodes, others, wanted, cost
<1> QED BY <1>1, Invariance, PTL DEF Spec, RefusedOnlyWhenFull

\* A Read within the file size fills its buffer with what was last written to
\* each of its bytes, whatever happened to the file in between.
THEOREM ReadsAreFaithful == Spec => []ReadsWhatWasWritten
<1>1. Inv => ReadsWhatWasWritten
  <2> SUFFICES ASSUME Inv, NEW f \in exists, Usable(f), NEW offset \in 0 .. fileSize[f] - 1,
                      NEW size \in 1 .. fileSize[f] - offset,
                      SectorsThere(sectors[f], offset, size)
               PROVE  /\ DOMAIN ReadBuffer(f, offset, size) = 0 .. size - 1
                      /\ \A k \in DOMAIN ReadBuffer(f, offset, size) :
                           offset + k \in DOMAIN written[f] =>
                             ReadBuffer(f, offset, size)[k] = written[f][offset + k]
    BY DEF ReadsWhatWasWritten
  <2> DEFINE S == FULL_SECTOR_SIZE
             last == SectorEnd(offset, size, Len(sectors[f]))
  <2>1. f \in Files /\ fileSize[f] \in Nat /\ S \in Nat \ {0}
    BY SectorSizeAssumption DEF Inv, Typed
  <2>2. offset \in Nat /\ size \in Nat \ {0} /\ offset + size <= fileSize[f]
    BY <2>1
  <2>3. SectorsFor(offset + size) <= Len(sectors[f]) /\ Len(sectors[f]) \in Nat
    BY <2>1, <2>2, RangeInVector
  <2>4. Transfer(offset, size, Len(sectors[f])) =
          [k \in 0 .. size - 1 |-> <<(offset + k) \div S, (offset + k) % S>>]
    BY <2>2, <2>3, TransferIsExact
  <2>5. last \in offset \div S .. Len(sectors[f]) - 1 /\ offset + size <= S * (last + 1)
    BY <2>2, <2>3, LastHoldsTheEnd
  <2>6. OffsetSectorBegin(offset) = offset \div S
    BY <2>2, BeginFacts
  <2>7. \A i \in offset \div S .. last : sectors[f][i + 1] # NullSector
    BY <2>6 DEF SectorsThere
  <2> HIDE DEF S, last
  <2>8. ReadBuffer(f, offset, size) =
          [k \in 0 .. size - 1 |-> sectors[f][(offset + k) \div S + 1][(offset + k) % S]]
    BY <2>4 DEF ReadBuffer
  <2>9. ASSUME NEW k \in 0 .. size - 1, offset + k \in DOMAIN written[f]
        PROVE  sectors[f][(offset + k) \div S + 1][(offset + k) % S] = written[f][offset + k]
    <3>1. PICK o \in Nat : o = offset + k
      BY <2>2
    <3>2. o \div S \in offset \div S .. last
      <4> DEFINE p == o \div S
                 begin == offset \div S
                 r == o % S
                 first == offset % S
      <4>1. begin \in Nat /\ first \in 0 .. S - 1 /\ offset = S * begin + first
        BY <2>1, <2>2, DivMod
      <4>2. p \in Nat /\ r \in 0 .. S - 1 /\ o = S * p + r
        BY <2>1, DivMod
      <4>3. last \in begin .. Len(sectors[f]) - 1
        BY <2>5
      <4> HIDE DEF p, begin, r, first
      <4>4. /\ S * (p + 1) = S * p + S /\ S * p \in Int /\ S * begin \in Int
            /\ S * (last + 1) \in Int /\ last + 1 \in Int
        BY <2>1, <2>3, <4>1, <4>2, <4>3, Distributes
      <4>5. S * begin < S * (p + 1) /\ S * p < S * (last + 1)
        BY <2>1, <2>2, <2>5, <3>1, <4>1, <4>2, <4>4
      <4>6. begin < p + 1 /\ p < last + 1
        BY <2>1, <4>1, <4>2, <4>4, <4>5, MultipleBelow
      <4>7. p \in begin .. last
        BY <2>3, <4>1, <4>2, <4>3, <4>6
      <4> QED BY <4>7 DEF p, begin
    <3>3. sectors[f][o \div S + 1] # NullSector
      BY <2>7, <3>2
    <3>4. o \div S + 1 <= Len(sectors[f])
      BY <2>1, <2>2, <2>3, <2>5, <3>2
    <3>5. sectors[f][o \div S + 1][o % S] = written[f][o]
      BY <2>1, <2>9, <3>1, <3>3, <3>4 DEF Inv, FileInv, DataInv, S
    <3> QED BY <3>1, <3>5
  <2> QED BY <2>8, <2>9
<1> QED BY <1>1, Invariance, PTL

=============================================================================
