--------------------------- MODULE MetadataProofs ---------------------------
(***************************************************************************)
(* Extended attributes, reparse points and types of the metadata, for any  *)
(* number of files, names and EAs a call.                                  *)
(***************************************************************************)
EXTENDS Metadata, FiniteSetTheorems, SequenceTheorems, WellFoundedInduction, TLAPS

-----------------------------------------------------------------------------
(* The inductive invariant. *)

Maps ==
  UNION {[names -> 0 .. MaxValueLength] : names \in {some \in SUBSET EaNames : IsFiniteSet(some)}}

SizeRange == 0 .. UlongModulus - 1

States == [map : Maps, size : SizeRange]

Data == Tags \X Payloads

Typed ==
  /\ nodes \subseteq Nodes /\ children \subseteq Files /\ easThroughStream \subseteq Files
  /\ FileAttributes \in [Files -> SUBSET Attributes] /\ ReparseTag \in [Files -> Tags \cup {0}]
  /\ EaSize \in [Nodes -> SizeRange]
  /\ reparseData \in [Files -> Data \cup {NoData}]
  /\ eaMap \in [Files -> Maps]
  /\ fileSecurity \in [Files -> Descriptors \cup {NoData}]

\* A stream's file is there.
StreamsInv == \A n \in nodes : Main(FileOf(n)) \in nodes

\* What the size says covers the names and headers of the EAs.
Announced(state) == Cardinality(DOMAIN state.map) * EaOverhead <= state.size

\* The most a call can make of a size it was allowed to start from.
MostEas == MaxEaSize + MaxEas * (EaOverhead + MaxValueLength)

\* The books of a file, as long as no EA was set through its stream.
BooksInv(f) ==
  f \notin easThroughStream =>
    Cardinality(DOMAIN eaMap[f]) * EaOverhead <= EaSize[Main(f)] /\ EaSize[Main(f)] <= MostEas

\* Tag, data and attribute agree, and a file that is not there has none.
ReparseInv(f) ==
  /\ reparseData[f] = NoData <=> ReparseTag[f] = 0
  /\ reparseData[f] # NoData => reparseData[f][1] = ReparseTag[f]
  /\ "REPARSE_POINT" \in FileAttributes[f] => reparseData[f] # NoData
  /\ Main(f) \notin nodes => ReparseTag[f] = 0

Inv == Typed /\ StreamsInv /\ \A f \in Files : BooksInv(f) /\ ReparseInv(f)

-----------------------------------------------------------------------------
(* Numbers. *)

LEMMA LeastNumber ==
  ASSUME NEW S \in SUBSET Nat, S # {}
  PROVE  \E n \in S : \A m \in S : n <= m
<1>1. PICK n \in S : \A m \in S : <<m, n>> \notin OpToRel(<, Nat)
  BY NatLessThanWellFounded, WFMin
<1>2. OpToRel(<, Nat) = {pair \in Nat \X Nat : pair[1] < pair[2]}
  BY DEF OpToRel
<1>3. \A m \in S : ~(m < n)
  BY <1>1, <1>2
<1> QED BY <1>3

LEMMA Remainder ==
  ASSUME NEW x \in Int, NEW m \in Nat \ {0}
  PROVE  x % m \in 0 .. m - 1 /\ (x \in 0 .. m - 1 => x % m = x)
OBVIOUS

LEMMA Distributes ==
  ASSUME NEW a \in Int, NEW b \in Int
  PROVE  a * b \in Int /\ (a + 1) * b = a * b + b /\ (a - 1) * b = a * b - b
OBVIOUS

LEMMA Product ==
  ASSUME NEW a \in Nat, NEW b \in Nat
  PROVE  a * b \in Nat /\ (a >= 1 => b <= a * b)
OBVIOUS

LEMMA ProductGrows ==
  ASSUME NEW a \in Nat, NEW b \in Nat, NEW c \in Nat, a <= b
  PROVE  a * c <= b * c
OBVIOUS

LEMMA UlongIsPositive == UlongModulus \in Nat \ {0}
<1>1. MaxEas * (EaOverhead + MaxValueLength) \in Nat
  BY EaAssumption
<1> QED BY <1>1, EaAssumption

LEMMA MostEasFacts == MostEas \in Nat /\ MaxEaSize \in Nat /\ MaxEaSize <= MostEas
<1>1. MaxEas * (EaOverhead + MaxValueLength) \in Nat
  BY EaAssumption
<1> QED BY <1>1, EaAssumption DEF MostEas

-----------------------------------------------------------------------------
(* FileNode::SetEa. *)

LEMMA MapFacts ==
  ASSUME NEW map \in Maps
  PROVE  /\ DOMAIN map \subseteq EaNames /\ IsFiniteSet(DOMAIN map)
         /\ Cardinality(DOMAIN map) \in Nat
         /\ map \in [DOMAIN map -> 0 .. MaxValueLength]
<1>1. PICK names \in SUBSET EaNames : IsFiniteSet(names) /\ map \in [names -> 0 .. MaxValueLength]
  BY DEF Maps
<1>2. DOMAIN map = names
  BY <1>1
<1>3. Cardinality(names) \in Nat
  BY <1>1, FS_CardinalityType
<1> QED BY <1>1, <1>2, <1>3

LEMMA MakeMap ==
  ASSUME NEW names \in SUBSET EaNames, IsFiniteSet(names), NEW map \in [names -> 0 .. MaxValueLength]
  PROVE  map \in Maps
BY DEF Maps

\* The EA that goes: its name leaves the map, if it was there.
LEMMA ErasedFacts ==
  ASSUME NEW map \in Maps, NEW ea \in Eas
  PROVE  /\ Erased(map, ea) \in Maps /\ DOMAIN Erased(map, ea) = DOMAIN map \ {ea[1]}
         /\ Cardinality(DOMAIN map \ {ea[1]}) =
              IF ea[1] \in DOMAIN map THEN Cardinality(DOMAIN map) - 1 ELSE Cardinality(DOMAIN map)
<1> DEFINE left == DOMAIN map \ {ea[1]}
<1>1. /\ DOMAIN map \subseteq EaNames /\ IsFiniteSet(DOMAIN map)
      /\ map \in [DOMAIN map -> 0 .. MaxValueLength]
  BY MapFacts
<1>2. Erased(map, ea) = [name \in left |-> map[name]]
  BY DEF Erased, Restrict
<1>3. /\ IsFiniteSet(left)
      /\ Cardinality(left) = IF ea[1] \in DOMAIN map THEN Cardinality(DOMAIN map) - 1 ELSE Cardinality(DOMAIN map)
  BY <1>1, FS_RemoveElement
<1>4. Erased(map, ea) \in [left -> 0 .. MaxValueLength] /\ left \in SUBSET EaNames
  BY <1>1, <1>2
<1>5. Erased(map, ea) \in Maps /\ DOMAIN Erased(map, ea) = left
  BY <1>3, <1>4, MakeMap
<1> QED BY <1>3, <1>5

\* One SetEa keeps the books: the size grows by one packed EA at most and goes
\* on covering the names there are.
LEMMA AfterSetEaFacts ==
  ASSUME NEW state \in States, NEW ea \in Eas
  PROVE  /\ AfterSetEa(state, ea) \in States
         /\ Announced(state) /\ state.size + EaOverhead + MaxValueLength < UlongModulus =>
              /\ Announced(AfterSetEa(state, ea))
              /\ AfterSetEa(state, ea).size <= state.size + EaOverhead + MaxValueLength
<1> DEFINE map == state.map
           before == state.size
           O == EaOverhead
           count == Cardinality(DOMAIN map)
           after == AfterSetEa(state, ea)
<1>0. /\ O \in Nat \ {0} /\ MaxValueLength \in Nat /\ UlongModulus \in Nat \ {0}
      /\ ea[1] \in EaNames /\ ea[2] \in 0 .. MaxValueLength
      /\ map \in Maps /\ before \in 0 .. UlongModulus - 1
  BY EaAssumption, UlongIsPositive DEF States, SizeRange, Eas
<1>1. DOMAIN map \subseteq EaNames /\ IsFiniteSet(DOMAIN map) /\ count \in Nat
      /\ map \in [DOMAIN map -> 0 .. MaxValueLength]
  BY <1>0, MapFacts
<1> DEFINE plus == SizePlus(ea)
           minus == SizeMinus(map, ea)
<1>2. /\ after.size = (before + plus - minus) % UlongModulus
      /\ after = [map |-> after.map, size |-> after.size]
      /\ after.map = IF ea[2] = 0 THEN Erased(map, ea)
                     ELSE [name \in DOMAIN map \cup {ea[1]} |-> IF name = ea[1] THEN ea[2] ELSE map[name]]
  BY DEF AfterSetEa
<1>3. /\ plus = (IF ea[2] # 0 THEN O + ea[2] ELSE 0)
      /\ minus = (IF ea[1] \in DOMAIN map THEN O + ea[2] ELSE 0)
  BY DEF SizePlus, SizeMinus, PackedSize
<1>4. plus \in Int /\ minus \in Int /\ before + plus - minus \in Int
  BY <1>0, <1>3
<1>5. after.size \in SizeRange
  BY <1>0, <1>2, <1>4, Remainder DEF SizeRange
<1>6. after.map \in Maps /\ DOMAIN after.map =
        (IF ea[2] = 0 THEN DOMAIN map \ {ea[1]} ELSE DOMAIN map \cup {ea[1]})
  <2>1. CASE ea[2] = 0
    BY <1>0, <1>2, <2>1, ErasedFacts
  <2>2. CASE ea[2] # 0
    <3> DEFINE new == [name \in DOMAIN map \cup {ea[1]} |-> IF name = ea[1] THEN ea[2] ELSE map[name]]
    <3>1. IsFiniteSet(DOMAIN map \cup {ea[1]}) /\ DOMAIN map \cup {ea[1]} \in SUBSET EaNames
      BY <1>0, <1>1, FS_AddElement
    <3>2. new \in [DOMAIN map \cup {ea[1]} -> 0 .. MaxValueLength]
      BY <1>0, <1>1
    <3>3. new \in Maps
      BY <3>1, <3>2, MakeMap
    <3> QED BY <1>2, <2>2, <3>3
  <2> QED BY <2>1, <2>2
<1>7. after \in States
  BY <1>2, <1>5, <1>6 DEF States
<1>8. ASSUME Announced(state), before + O + MaxValueLength < UlongModulus
      PROVE  Announced(after) /\ after.size <= before + O + MaxValueLength
  <2> DEFINE left == Cardinality(DOMAIN after.map)
  <2>1. count * O <= before /\ count * O \in Nat /\ (count >= 1 => O <= count * O)
    BY <1>0, <1>1, <1>8, Product DEF Announced
  <2>2. ea[1] \in DOMAIN map => count >= 1
    <3>1. ea[1] \in DOMAIN map => count # 0
      BY <1>1, FS_EmptySet
    <3> QED BY <1>1, <3>1
  <2>3. left = IF ea[1] \in DOMAIN map
               THEN IF ea[2] = 0 THEN count - 1 ELSE count
               ELSE IF ea[2] = 0 THEN count ELSE count + 1
    <3>1. CASE ea[2] = 0
      BY <1>0, <1>6, <3>1, ErasedFacts
    <3>2. CASE ea[2] # 0
      <4>1. Cardinality(DOMAIN map \cup {ea[1]}) = IF ea[1] \in DOMAIN map THEN count ELSE count + 1
        BY <1>1, FS_AddElement
      <4> QED BY <1>6, <3>2, <4>1
    <3> QED BY <3>1, <3>2
  <2>4. /\ (count + 1) * O = count * O + O /\ (count - 1) * O = count * O - O
    BY <1>0, <1>1, Distributes
  <2>5. before + plus - minus \in 0 .. UlongModulus - 1
    BY <1>0, <1>3, <1>8, <2>1, <2>2
  <2>6. after.size = before + plus - minus
    BY <1>0, <1>2, <1>4, <2>5, Remainder
  <2>7. left * O <= before + plus - minus
    <3>1. CASE ea[1] \in DOMAIN map /\ ea[2] = 0
      BY <1>0, <1>3, <2>1, <2>3, <2>4, <3>1
    <3>2. CASE ea[1] \in DOMAIN map /\ ea[2] # 0
      BY <1>0, <1>3, <2>1, <2>3, <3>2
    <3>3. CASE ea[1] \notin DOMAIN map /\ ea[2] = 0
      BY <1>0, <1>3, <2>1, <2>3, <3>3
    <3>4. CASE ea[1] \notin DOMAIN map /\ ea[2] # 0
      BY <1>0, <1>3, <2>1, <2>3, <2>4, <3>4
    <3> QED BY <3>1, <3>2, <3>3, <3>4
  <2>8. before + plus - minus <= before + O + MaxValueLength
    BY <1>0, <1>3
  <2> QED BY <2>6, <2>7, <2>8 DEF Announced
<1> QED BY <1>7, <1>8

LEMMA FailedSetEaFacts ==
  ASSUME NEW state \in States, NEW ea \in Eas
  PROVE  /\ AfterFailedSetEa(state, ea) \in States
         /\ AfterFailedSetEa(state, ea).size = state.size
         /\ Announced(state) => Announced(AfterFailedSetEa(state, ea))
<1> DEFINE after == AfterFailedSetEa(state, ea)
<1>1. after = [map |-> Erased(state.map, ea), size |-> state.size]
      /\ state.map \in Maps /\ state.size \in SizeRange /\ state.size \in Nat
  BY DEF AfterFailedSetEa, States, SizeRange
<1> DEFINE left == Erased(state.map, ea)
<1>4. /\ left \in Maps /\ DOMAIN left = DOMAIN state.map \ {ea[1]}
      /\ Cardinality(DOMAIN state.map \ {ea[1]}) =
           IF ea[1] \in DOMAIN state.map THEN Cardinality(DOMAIN state.map) - 1
           ELSE Cardinality(DOMAIN state.map)
  <2>1. PICK map \in Maps : map = state.map
    BY <1>1
  <2> QED BY <2>1, ErasedFacts
<1> HIDE DEF left
<1>2. after.map = left /\ after.size = state.size /\ after \in States
  BY <1>1, <1>4 DEF States, left
<1>3. Announced(state) => Announced(after)
  <2>1. PICK count \in Nat, fewer \in Nat :
          /\ count = Cardinality(DOMAIN state.map) /\ fewer = Cardinality(DOMAIN after.map) /\ fewer <= count
    <3>1. Cardinality(DOMAIN state.map) \in Nat /\ Cardinality(DOMAIN left) \in Nat
      BY <1>1, <1>4, MapFacts
    <3> QED BY <1>2, <1>4, <3>1
  <2>2. fewer * EaOverhead <= count * EaOverhead /\ fewer * EaOverhead \in Nat /\ count * EaOverhead \in Nat
    BY <2>1, EaAssumption, ProductGrows, Product
  <2> QED BY <1>1, <2>1, <2>2 DEF Announced
<1> QED BY <1>1, <1>2, <1>3

-----------------------------------------------------------------------------
(* A list of EAs. *)

LEMMA ListFacts ==
  ASSUME NEW list \in EaLists
  PROVE  Len(list) \in 1 .. MaxEas /\ DOMAIN list = 1 .. Len(list) /\ \A k \in 1 .. Len(list) : list[k] \in Eas
<1>1. PICK count \in 1 .. MaxEas : list \in [1 .. count -> Eas]
  BY DEF EaLists
<1>2. count \in Nat /\ DOMAIN list = 1 .. count
  BY <1>1, EaAssumption
<1>3. list \in Seq(Eas)
  BY <1>1, <1>2
<1>4. Len(list) \in Nat /\ 1 .. Len(list) = 1 .. count
  BY <1>2, <1>3, LenProperties
<1>5. Len(list) = count
  BY <1>2, <1>4
<1> QED BY <1>1, <1>5

\* The books after each EA of the list: the recursion has a solution.
LEMMA BooksAre ==
  ASSUME NEW state, NEW list, Len(list) \in Nat
  PROVE  Books(state, list) =
           [k \in 0 .. Len(list) |->
              IF k = 0 THEN state ELSE AfterSetEa(Books(state, list)[k - 1], list[k])]
<1> DEFINE Solves(g, n) ==
             g = [k \in 0 .. n |-> IF k = 0 THEN state ELSE AfterSetEa(g[k - 1], list[k])]
           bad == {n \in Nat : ~ \E g : Solves(g, n)}
<1>1. bad = {}
  <2> SUFFICES ASSUME bad # {} PROVE FALSE
    OBVIOUS
  <2>1. PICK n \in bad : \A m \in bad : n <= m
    <3>1. bad \in SUBSET Nat
      OBVIOUS
    <3> HIDE DEF bad
    <3> QED BY <3>1, LeastNumber
  <2>2. n \in Nat /\ ~ \E g : Solves(g, n)
    BY <2>1
  <2>3. CASE n = 0
    <3>1. Solves([k \in 0 .. 0 |-> state], 0)
      OBVIOUS
    <3> QED BY <2>2, <2>3, <3>1
  <2>4. CASE n # 0
    <3>1. n - 1 \in Nat /\ n - 1 \notin bad
      BY <2>1, <2>2, <2>4
    <3>2. PICK g : Solves(g, n - 1)
      BY <3>1
    <3> DEFINE longer == [k \in 0 .. n |-> IF k = 0 THEN state ELSE AfterSetEa(g[k - 1], list[k])]
    <3>3. ASSUME NEW k \in 1 .. n PROVE longer[k - 1] = g[k - 1]
      <4>1. k - 1 \in 0 .. n - 1 /\ k - 1 \in 0 .. n
        BY <2>2
      <4>2. g[k - 1] = IF k - 1 = 0 THEN state ELSE AfterSetEa(g[(k - 1) - 1], list[k - 1])
        BY <3>2, <4>1
      <4> QED BY <4>1, <4>2
    <3>4. \A k \in 0 .. n : (IF k = 0 THEN state ELSE AfterSetEa(g[k - 1], list[k]))
                          = (IF k = 0 THEN state ELSE AfterSetEa(longer[k - 1], list[k]))
      <4> HIDE DEF longer
      <4> QED BY <2>2, <3>3
    <3>5. Solves(longer, n)
      BY <3>4
    <3> QED BY <2>2, <3>5
  <2> QED BY <2>3, <2>4
<1>2. \E g : Solves(g, Len(list))
  BY <1>1
<1>3. Books(state, list) = CHOOSE g : Solves(g, Len(list))
  BY DEF Books
<1>4. Solves(Books(state, list), Len(list))
  <2> HIDE DEF Solves
  <2> QED BY <1>2, <1>3
<1> QED BY <1>4

\* A list keeps the books as each of its EAs does.
LEMMA BooksFacts ==
  ASSUME NEW state \in States, NEW list \in EaLists, NEW k \in 0 .. Len(list)
  PROVE  /\ Books(state, list)[k] \in States
         /\ Announced(state) /\ state.size <= MaxEaSize =>
              /\ Announced(Books(state, list)[k])
              /\ Books(state, list)[k].size <= MostEas
<1> DEFINE L == EaOverhead + MaxValueLength
           book(i) == Books(state, list)[i]
           Good(i) == /\ book(i) \in States
                      /\ Announced(state) /\ state.size <= MaxEaSize =>
                           Announced(book(i)) /\ book(i).size <= MaxEaSize + i * L
           bad == {i \in 0 .. Len(list) : ~Good(i)}
<1>0. /\ Len(list) \in 1 .. MaxEas /\ Len(list) \in Nat /\ MaxEas \in Nat /\ L \in Nat
      /\ MaxEaSize \in Nat /\ UlongModulus \in Nat /\ MaxEaSize + MaxEas * L < UlongModulus
  BY ListFacts, EaAssumption
<1>1. \A i \in 0 .. Len(list) : book(i) = IF i = 0 THEN state ELSE AfterSetEa(book(i - 1), list[i])
  <2>1. PICK books : books = Books(state, list)
    OBVIOUS
  <2>2. books = [i \in 0 .. Len(list) |-> IF i = 0 THEN state ELSE AfterSetEa(books[i - 1], list[i])]
    BY <1>0, <2>1, BooksAre
  <2>3. \A i \in 0 .. Len(list) : books[i] = IF i = 0 THEN state ELSE AfterSetEa(books[i - 1], list[i])
    BY <2>2
  <2> QED BY <2>1, <2>3
<1> HIDE DEF book
<1>2. bad = {}
  <2> SUFFICES ASSUME bad # {} PROVE FALSE
    OBVIOUS
  <2>1. PICK i \in bad : \A j \in bad : i <= j
    <3>1. bad \in SUBSET Nat
      BY <1>0
    <3> HIDE DEF bad
    <3> QED BY <3>1, LeastNumber
  <2>2. i \in Nat /\ i \in 0 .. Len(list) /\ ~Good(i)
    BY <1>0, <2>1
  <2>3. i # 0
    <3>1. 0 * L = 0 /\ book(0) = state
      BY <1>0, <1>1
    <3>2. Good(0)
      BY <1>0, <3>1
    <3> QED BY <2>2, <3>2
  <2>4. i - 1 \in 0 .. Len(list) /\ i - 1 \in Nat /\ i \in 1 .. Len(list) /\ Good(i - 1)
    <3>1. i - 1 \in 0 .. Len(list) /\ i - 1 \in Nat /\ i \in 1 .. Len(list)
      BY <1>0, <2>2, <2>3
    <3>2. i - 1 \notin bad
      BY <2>1, <2>2, <3>1
    <3> QED BY <3>1, <3>2
  <2>5. book(i) = AfterSetEa(book(i - 1), list[i]) /\ list[i] \in Eas
    BY <1>1, <2>2, <2>3, <2>4, ListFacts
  <2>6. book(i - 1) \in States /\ book(i) \in States
    BY <2>4, <2>5, AfterSetEaFacts
  <2>7. ASSUME Announced(state), state.size <= MaxEaSize
        PROVE  Announced(book(i)) /\ book(i).size <= MaxEaSize + i * L
    <3>1. Announced(book(i - 1)) /\ book(i - 1).size <= MaxEaSize + (i - 1) * L
      BY <2>4, <2>7
    <3>2. (i - 1) * L = i * L - L /\ i * L \in Int /\ i * L <= MaxEas * L /\ MaxEas * L \in Int
      BY <1>0, <2>2, <2>4, Distributes, ProductGrows
    <3>3. book(i - 1).size \in Int /\ book(i).size \in Int
      BY <2>6, UlongIsPositive DEF States, SizeRange
    <3>4. book(i - 1).size + L <= MaxEaSize + i * L /\ book(i - 1).size + L < UlongModulus
      <4>1. PICK b \in Int, before \in Int, after \in Int, most \in Int :
              /\ b = book(i - 1).size /\ before = (i - 1) * L
              /\ after = i * L /\ most = MaxEas * L
        <5>1. /\ book(i - 1).size \in Int /\ (i - 1) * L \in Int
              /\ i * L \in Int /\ MaxEas * L \in Int
          BY <1>0, <3>2, <3>3
        <5> QED BY <5>1
      <4>2. b <= MaxEaSize + before /\ before = after - L /\ after <= most
        BY <3>1, <3>2, <4>1
      <4>3. MaxEaSize + most < UlongModulus
        BY <1>0, <4>1, EaAssumption
      <4>4. MaxEaSize \in Int /\ L \in Int /\ UlongModulus \in Int
        BY <1>0, EaAssumption, UlongIsPositive
      <4>5. b + L <= MaxEaSize + after /\ b + L < UlongModulus
        BY <4>2, <4>3, <4>4
      <4> QED BY <4>1, <4>5
    <3>5. /\ Announced(AfterSetEa(book(i - 1), list[i]))
          /\ AfterSetEa(book(i - 1), list[i]).size <= book(i - 1).size + EaOverhead + MaxValueLength
      <4>1. book(i - 1).size + EaOverhead + MaxValueLength < UlongModulus
        BY <3>3, <3>4, EaAssumption
      <4> QED BY <2>5, <2>6, <3>1, <4>1, AfterSetEaFacts
    <3> QED BY <1>0, <2>5, <3>2, <3>3, <3>4, <3>5, EaAssumption
  <2> QED BY <2>2, <2>6, <2>7
<1>3. Good(k) /\ k \in Nat /\ k <= MaxEas
  BY <1>0, <1>2
<1>4. ASSUME Announced(state), state.size <= MaxEaSize
      PROVE  book(k).size <= MostEas
  <2>1. PICK most \in Int, here \in Int, size \in Int :
          most = MaxEas * L /\ here = k * L /\ size = book(k).size
    <3>1. MaxEas * L \in Int /\ k * L \in Int /\ book(k).size \in Int
      BY <1>0, <1>3, Product, UlongIsPositive DEF States, SizeRange
    <3> QED BY <3>1
  <2>2. here <= most
    BY <1>0, <1>3, <2>1, ProductGrows
  <2>3. size <= MaxEaSize + here
    BY <1>3, <1>4, <2>1
  <2>4. MostEas = MaxEaSize + most
    BY <2>1 DEF MostEas
  <2> QED BY <1>0, <2>1, <2>2, <2>3, <2>4
<1> QED BY <1>3, <1>4 DEF book

\* What a call can leave of the books: all of its EAs, or those before one that fails.
LEMMA OutcomesKeepBooks ==
  ASSUME NEW state \in States, NEW list \in EaLists,
         NEW after \in {AfterSetEas(state, list)} \cup FailuresOf(state, list)
  PROVE  /\ after \in States
         /\ Announced(state) /\ state.size <= MaxEaSize => Announced(after) /\ after.size <= MostEas
<1>0. Len(list) \in Nat /\ Len(list) \in 0 .. Len(list) /\ DOMAIN list = 1 .. Len(list)
  BY ListFacts
<1>1. CASE after = AfterSetEas(state, list)
  BY <1>0, <1>1, BooksFacts DEF AfterSetEas
<1>2. CASE after \in FailuresOf(state, list)
  <2>1. PICK k \in 1 .. Len(list) : after = AfterFailedSetEa(Books(state, list)[k - 1], list[k])
    BY <1>0, <1>2 DEF FailuresOf
  <2>2. k - 1 \in 0 .. Len(list) /\ list[k] \in Eas
    BY <1>0, ListFacts
  <2>3. /\ Books(state, list)[k - 1] \in States
        /\ Announced(state) /\ state.size <= MaxEaSize =>
             Announced(Books(state, list)[k - 1]) /\ Books(state, list)[k - 1].size <= MostEas
    BY <2>2, BooksFacts
  <2> QED BY <2>1, <2>2, <2>3, FailedSetEaFacts
<1> QED BY <1>1, <1>2

-----------------------------------------------------------------------------
(* The steps. *)

LEMMA NodeFacts ==
  /\ \A f \in Files : /\ Main(f) \in Nodes /\ Stream(f) \in Nodes /\ Main(f) # Stream(f)
                      /\ FileOf(Main(f)) = f /\ FileOf(Stream(f)) = f
                      /\ IsMainNode(Main(f)) /\ ~IsMainNode(Stream(f))
  /\ \A n \in Nodes : /\ FileOf(n) \in Files /\ (n = Main(FileOf(n)) \/ n = Stream(FileOf(n)))
                      /\ (IsMainNode(n) <=> n = Main(FileOf(n)))
  /\ \A f, g : Main(f) = Main(g) => f = g
  /\ \A f, g : Main(f) # Stream(g)
BY DEF Main, Stream, Nodes, FileOf, IsMainNode

LEMMA NoEasFacts == NoEas \in Maps /\ DOMAIN NoEas = {} /\ Cardinality(DOMAIN NoEas) = 0
<1>1. DOMAIN NoEas = {} /\ NoEas \in [{} -> 0 .. MaxValueLength]
  BY DEF NoEas
<1>2. IsFiniteSet({}) /\ Cardinality({}) = 0
  BY FS_EmptySet
<1>3. {} \in SUBSET EaNames
  OBVIOUS
<1> QED BY <1>1, <1>2, <1>3, MakeMap

LEMMA StatesOfNodes ==
  ASSUME Typed, NEW n \in Nodes
  PROVE  /\ StateOf(n) \in States /\ EasDeleted(n) \in States
         /\ EasDeleted(n).size = EaSize[n] /\ StateOf(n).size = EaSize[n]
         /\ StateOf(n).map = eaMap[FileOf(n)]
         /\ Announced(StateOf(n)) => Announced(EasDeleted(n))
<1>1. FileOf(n) \in Files
  BY NodeFacts
<1>2. /\ StateOf(n) = [map |-> eaMap[FileOf(n)], size |-> EaSize[n]]
      /\ eaMap[FileOf(n)] \in Maps /\ EaSize[n] \in SizeRange
  BY <1>1 DEF Typed, StateOf
<1>3. StateOf(n) \in States
  BY <1>2 DEF States
<1>4. CASE IsMainNode(n)
  <2>1. EasDeleted(n) = [map |-> NoEas, size |-> EaSize[n]]
    BY <1>2, <1>4 DEF EasDeleted
  <2>2. EasDeleted(n) \in States
    BY <1>2, <2>1, NoEasFacts DEF States
  <2>3. 0 * EaOverhead = 0 /\ EaSize[n] \in Nat
    BY <1>2, EaAssumption, UlongIsPositive DEF SizeRange
  <2>4. Announced(EasDeleted(n))
    BY <2>1, <2>3, NoEasFacts, EaAssumption DEF Announced
  <2> QED BY <1>2, <1>3, <2>1, <2>2, <2>4
<1>5. CASE ~IsMainNode(n)
  BY <1>2, <1>3, <1>5 DEF EasDeleted
<1> QED BY <1>4, <1>5

\* The EAs after a call: those of other files stay, and the books are kept.
BooksStep == easThroughStream' \subseteq Files /\ EaSize' \in [Nodes -> SizeRange]
             /\ eaMap' \in [Files -> Maps] /\ \A f \in Files : BooksInv(f)'

LEMMA BecomesKeepsBooks ==
  ASSUME Inv, NEW n \in Nodes, NEW state \in States, Becomes(n, state),
         Announced(StateOf(n)) /\ EaSize[n] <= MaxEaSize => Announced(state) /\ state.size <= MostEas
  PROVE  BooksStep
<1> DEFINE f == FileOf(n)
<1>1. /\ f \in Files /\ Typed /\ state.map \in Maps /\ state.size \in SizeRange
  BY NodeFacts DEF Inv, States
<1>2. /\ eaMap' = [eaMap EXCEPT ![f] = state.map] /\ EaSize' = [EaSize EXCEPT ![n] = state.size]
      /\ easThroughStream' = easThroughStream \cup (IF IsMainNode(n) THEN {} ELSE {f})
      /\ (f \in easThroughStream' \/ EaSize[n] <= MaxEaSize)
  BY DEF Becomes, Touched
<1>3. /\ easThroughStream' \subseteq Files /\ EaSize' \in [Nodes -> SizeRange]
      /\ eaMap' \in [Files -> Maps]
  BY <1>1, <1>2 DEF Typed
<1>4. ASSUME NEW g \in Files, g # f PROVE BooksInv(g)'
  <2>1. Main(g) # n /\ Main(g) \in Nodes
    BY <1>4, NodeFacts
  <2>2. eaMap'[g] = eaMap[g] /\ EaSize'[Main(g)] = EaSize[Main(g)]
        /\ (g \in easThroughStream' <=> g \in easThroughStream)
    BY <1>1, <1>2, <1>4, <2>1 DEF Typed
  <2> QED BY <1>4, <2>2 DEF Inv, BooksInv
<1>5. BooksInv(f)'
  <2> SUFFICES ASSUME f \notin easThroughStream'
               PROVE  /\ Cardinality(DOMAIN eaMap'[f]) * EaOverhead <= EaSize'[Main(f)]
                      /\ EaSize'[Main(f)] <= MostEas
    BY DEF BooksInv
  <2>1. IsMainNode(n) /\ n = Main(f) /\ f \notin easThroughStream
    BY <1>2, NodeFacts
  <2>2. eaMap'[f] = state.map /\ EaSize'[n] = state.size /\ EaSize[n] <= MaxEaSize
    BY <1>1, <1>2 DEF Typed
  <2>3. Cardinality(DOMAIN eaMap[f]) * EaOverhead <= EaSize[n]
    BY <1>1, <2>1 DEF Inv, BooksInv
  <2>4. Announced(StateOf(n))
    BY <1>1, <2>3, StatesOfNodes DEF Announced
  <2> QED BY <2>1, <2>2, <2>3, <2>4 DEF Announced
<1> QED BY <1>3, <1>4, <1>5 DEF BooksStep

\* Calls that bring a list of EAs.
LEMMA ListsKeepBooks ==
  ASSUME Inv, NEW n \in Nodes, NEW list \in EaLists, NEW before \in {StateOf(n), EasDeleted(n)},
         NEW state \in {AfterSetEas(before, list)} \cup FailuresOf(before, list), Becomes(n, state)
  PROVE  BooksStep
<1>1. /\ before \in States /\ before.size = EaSize[n]
      /\ Announced(StateOf(n)) => Announced(before)
  BY StatesOfNodes DEF Inv
<1>2. state \in States /\ (Announced(before) /\ before.size <= MaxEaSize => Announced(state) /\ state.size <= MostEas)
  BY <1>1, OutcomesKeepBooks
<1>3. Announced(StateOf(n)) /\ EaSize[n] <= MaxEaSize => Announced(state) /\ state.size <= MostEas
  BY <1>1, <1>2
<1> QED BY <1>2, <1>3, BecomesKeepsBooks

LEMMA UnchangedKeepsBooks ==
  ASSUME Inv, UNCHANGED eas
  PROVE  BooksStep
<1>1. UNCHANGED <<EaSize, eaMap, easThroughStream>>
  BY DEF eas
<1>2. \A f \in Files : BooksInv(f)'
  BY <1>1 DEF Inv, BooksInv
<1> QED BY <1>1, <1>2 DEF Inv, Typed, BooksStep

\* Everything but the EAs after a call.
RestStep ==
  /\ nodes' \subseteq Nodes /\ children' \subseteq Files
  /\ FileAttributes' \in [Files -> SUBSET Attributes] /\ ReparseTag' \in [Files -> Tags \cup {0}]
  /\ reparseData' \in [Files -> Data \cup {NoData}]
  /\ fileSecurity' \in [Files -> Descriptors \cup {NoData}]
  /\ StreamsInv' /\ \A f \in Files : ReparseInv(f)'

TagStep ==
  \A f \in Files : ReparseTag[f] # 0 /\ ReparseTag'[f] # 0 => ReparseTag'[f] = ReparseTag[f]

LEMMA StepsTogether ==
  ASSUME Inv, BooksStep, RestStep
  PROVE  Inv'
BY DEF BooksStep, RestStep, Inv, Typed

\* A call that leaves the nodes and the reparse points, and adds no attribute
\* REPARSE_POINT.
LEMMA AttributesChange ==
  ASSUME Inv, UNCHANGED <<nodes, reparse>>, FileAttributes' \in [Files -> SUBSET Attributes],
         \A f \in Files : "REPARSE_POINT" \in FileAttributes'[f] => "REPARSE_POINT" \in FileAttributes[f],
         children' \subseteq Files, fileSecurity' \in [Files -> Descriptors \cup {NoData}]
  PROVE  RestStep /\ TagStep
<1>1. UNCHANGED <<ReparseTag, reparseData>> /\ Typed
  BY DEF reparse, Inv
<1>2. \A f \in Files : ReparseInv(f)'
  BY <1>1 DEF Inv, ReparseInv
<1>3. StreamsInv'
  BY DEF Inv, StreamsInv
<1> QED BY <1>1, <1>2, <1>3 DEF RestStep, TagStep, Typed

\* A call that changes the reparse point, the attributes or the presence of one file.
LEMMA ReparseChange ==
  ASSUME Inv, NEW f \in Files, NEW attributes \in SUBSET Attributes, NEW tag \in Tags \cup {0},
         NEW data \in Data \cup {NoData},
         FileAttributes' = [FileAttributes EXCEPT ![f] = attributes],
         ReparseTag' = [ReparseTag EXCEPT ![f] = tag], reparseData' = [reparseData EXCEPT ![f] = data],
         data = NoData <=> tag = 0, data # NoData => data[1] = tag,
         "REPARSE_POINT" \in attributes => data # NoData,
         Main(f) \notin nodes' => tag = 0, nodes' \subseteq Nodes,
         \A g \in Files \ {f} : Main(g) \in nodes' <=> Main(g) \in nodes,
         children' \subseteq Files, fileSecurity' \in [Files -> Descriptors \cup {NoData}],
         StreamsInv'
  PROVE  RestStep
<1>1. /\ FileAttributes' \in [Files -> SUBSET Attributes] /\ ReparseTag' \in [Files -> Tags \cup {0}]
      /\ reparseData' \in [Files -> Data \cup {NoData}]
  BY DEF Inv, Typed
<1>2. /\ FileAttributes'[f] = attributes /\ ReparseTag'[f] = tag /\ reparseData'[f] = data
      /\ \A g \in Files \ {f} : /\ FileAttributes'[g] = FileAttributes[g] /\ ReparseTag'[g] = ReparseTag[g]
                                /\ reparseData'[g] = reparseData[g]
  BY DEF Inv, Typed
<1>3. ReparseInv(f)'
  BY <1>2 DEF ReparseInv
<1>4. \A g \in Files \ {f} : ReparseInv(g)'
  BY <1>2 DEF Inv, ReparseInv
<1> QED BY <1>1, <1>3, <1>4 DEF RestStep

LEMMA CreateStep ==
  ASSUME Inv, NEW f \in Files, Create(f)
  PROVE  Inv' /\ TagStep
<1>1. PICK attributes \in {{"DIRECTORY"}, {"ARCHIVE"}}, descriptor \in Descriptors :
        /\ fileSecurity' = [fileSecurity EXCEPT ![f] = descriptor]
        /\ \/ /\ FileAttributes' = [FileAttributes EXCEPT ![f] = attributes]
              /\ \/ UNCHANGED eas
                 \/ \E list \in EaLists : Becomes(Main(f), AfterSetEas(StateOf(Main(f)), list))
              /\ UNCHANGED reparse
           \/ \E data \in Tags \X Payloads :
                /\ FileAttributes' = [FileAttributes EXCEPT ![f] = attributes \cup {"REPARSE_POINT"}]
                /\ reparseData' = [reparseData EXCEPT ![f] = data]
                /\ ReparseTag' = [ReparseTag EXCEPT ![f] = data[1]]
                /\ UNCHANGED eas
  BY DEF Create
<1>2. /\ Main(f) \notin nodes /\ nodes' = nodes \cup {Main(f)} /\ UNCHANGED children
      /\ Typed /\ StreamsInv /\ Main(f) \in Nodes /\ FileOf(Main(f)) = f
      /\ ReparseTag[f] = 0 /\ reparseData[f] = NoData
  BY NodeFacts DEF Create, Inv, ReparseInv
<1>3. BooksStep
  <2>1. CASE UNCHANGED eas
    BY <2>1, UnchangedKeepsBooks
  <2>2. CASE \E list \in EaLists : Becomes(Main(f), AfterSetEas(StateOf(Main(f)), list))
    <3>1. PICK list \in EaLists : Becomes(Main(f), AfterSetEas(StateOf(Main(f)), list))
      BY <2>2
    <3>2. PICK before \in {StateOf(Main(f)), EasDeleted(Main(f))} : before = StateOf(Main(f))
      OBVIOUS
    <3>3. PICK state \in {AfterSetEas(before, list)} \cup FailuresOf(before, list) : Becomes(Main(f), state)
      BY <3>1, <3>2
    <3> QED BY <1>2, <3>3, ListsKeepBooks
  <2> QED BY <1>1, <2>1, <2>2
<1>4. /\ nodes' \subseteq Nodes /\ children' \subseteq Files /\ Main(f) \in nodes'
      /\ fileSecurity' \in [Files -> Descriptors \cup {NoData}]
      /\ \A g \in Files \ {f} : Main(g) \in nodes' <=> Main(g) \in nodes
  BY <1>1, <1>2, NodeFacts DEF Typed
<1>5. StreamsInv'
  BY <1>2 DEF StreamsInv
<1>6. RestStep
  <2>1. CASE UNCHANGED reparse /\ FileAttributes' = [FileAttributes EXCEPT ![f] = attributes]
    <3>1. /\ ReparseTag' = [ReparseTag EXCEPT ![f] = 0] /\ reparseData' = [reparseData EXCEPT ![f] = NoData]
      BY <1>2, <2>1 DEF reparse, Typed
    <3>2. attributes \in SUBSET Attributes /\ "REPARSE_POINT" \notin attributes
      BY DEF Attributes
    <3> QED BY <1>4, <1>5, <2>1, <3>1, <3>2, ReparseChange
  <2>2. CASE \E data \in Tags \X Payloads :
                /\ FileAttributes' = [FileAttributes EXCEPT ![f] = attributes \cup {"REPARSE_POINT"}]
                /\ reparseData' = [reparseData EXCEPT ![f] = data]
                /\ ReparseTag' = [ReparseTag EXCEPT ![f] = data[1]]
    <3>1. PICK data \in Tags \X Payloads :
                /\ FileAttributes' = [FileAttributes EXCEPT ![f] = attributes \cup {"REPARSE_POINT"}]
                /\ reparseData' = [reparseData EXCEPT ![f] = data]
                /\ ReparseTag' = [ReparseTag EXCEPT ![f] = data[1]]
      BY <2>2
    <3>2. PICK new, tag : new = attributes \cup {"REPARSE_POINT"} /\ tag = data[1]
      OBVIOUS
    <3>3. /\ data \in Data \cup {NoData} /\ data # NoData /\ tag \in Tags \cup {0} /\ tag # 0
          /\ new \in SUBSET Attributes
      BY <3>2, EaAssumption DEF Data, Attributes
    <3> QED BY <1>4, <1>5, <3>1, <3>2, <3>3, ReparseChange
  <2> QED BY <1>1, <2>1, <2>2
<1>7. TagStep
  <2>1. \A g \in Files \ {f} : ReparseTag'[g] = ReparseTag[g]
    BY <1>1, <1>2 DEF reparse, Typed
  <2> QED BY <1>2, <2>1 DEF TagStep
<1> QED BY <1>3, <1>6, <1>7, StepsTogether

LEMMA CreateStreamStep ==
  ASSUME Inv, NEW f \in Files, CreateStream(f)
  PROVE  Inv' /\ TagStep
<1>0. /\ Main(f) \in nodes /\ (nodes' = nodes \/ nodes' = nodes \cup {Stream(f)})
      /\ UNCHANGED <<FileAttributes, reparse, fileSecurity, children>>
  BY DEF CreateStream
<1>1. BooksStep
  <2>1. CASE UNCHANGED eas
    BY <2>1, UnchangedKeepsBooks
  <2>2. CASE \E list \in EaLists : Becomes(Stream(f), AfterSetEas(StateOf(Stream(f)), list))
    <3>1. PICK list \in EaLists : Becomes(Stream(f), AfterSetEas(StateOf(Stream(f)), list))
      BY <2>2
    <3>2. PICK before \in {StateOf(Stream(f)), EasDeleted(Stream(f))} : before = StateOf(Stream(f))
      OBVIOUS
    <3>3. PICK state \in {AfterSetEas(before, list)} \cup FailuresOf(before, list) : Becomes(Stream(f), state)
      BY <3>1, <3>2
    <3> QED BY <3>3, ListsKeepBooks, NodeFacts
  <2>3. CASE \E list \in EaLists : \E state \in FailuresOf(StateOf(Stream(f)), list) :
               /\ eaMap' = [eaMap EXCEPT ![f] = state.map]
               /\ Touched(Stream(f)) /\ UNCHANGED <<nodes, EaSize>>
    <3>1. PICK list \in EaLists : \E state \in FailuresOf(StateOf(Stream(f)), list) :
               /\ eaMap' = [eaMap EXCEPT ![f] = state.map]
               /\ Touched(Stream(f)) /\ UNCHANGED <<nodes, EaSize>>
      BY <2>3
    <3>2. PICK state \in FailuresOf(StateOf(Stream(f)), list) :
               /\ eaMap' = [eaMap EXCEPT ![f] = state.map]
               /\ Touched(Stream(f)) /\ UNCHANGED <<nodes, EaSize>>
      BY <3>1
    <3>3. state.map \in Maps
      <4>1. StateOf(Stream(f)) \in States
        BY StatesOfNodes, NodeFacts DEF Inv
      <4>2. state \in States
        BY <4>1, OutcomesKeepBooks
      <4> QED BY <4>2 DEF States
    <3>4. easThroughStream' = easThroughStream \cup {f}
      BY <3>2, NodeFacts DEF Touched
    <3>5. \A g \in Files : BooksInv(g)'
      BY <3>2, <3>4 DEF Inv, Typed, BooksInv
    <3> QED BY <3>2, <3>3, <3>4, <3>5 DEF Inv, Typed, BooksStep
  <2> QED BY <2>1, <2>2, <2>3 DEF CreateStream
<1>2. RestStep
  <2>1. UNCHANGED <<ReparseTag, reparseData>>
    BY <1>0 DEF reparse
  <2>2. nodes' \subseteq Nodes /\ StreamsInv'
    BY <1>0, NodeFacts DEF Inv, Typed, StreamsInv
  <2>3. \A g \in Files : ReparseInv(g)'
    BY <1>0, <2>1 DEF Inv, ReparseInv
  <2> QED BY <1>0, <2>1, <2>2, <2>3 DEF Inv, Typed, RestStep
<1>3. TagStep
  BY <1>0 DEF reparse, TagStep
<1> QED BY <1>1, <1>2, <1>3, StepsTogether

LEMMA DeleteStep ==
  ASSUME Inv, NEW f \in Files, Delete(f)
  PROVE  Inv' /\ TagStep
<1>0. /\ Typed /\ StreamsInv /\ nodes' = nodes \ {Main(f), Stream(f)} /\ UNCHANGED children
      /\ FileAttributes' = [FileAttributes EXCEPT ![f] = {}] /\ ReparseTag' = [ReparseTag EXCEPT ![f] = 0]
      /\ EaSize' = [EaSize EXCEPT ![Main(f)] = 0, ![Stream(f)] = 0]
      /\ reparseData' = [reparseData EXCEPT ![f] = NoData] /\ eaMap' = [eaMap EXCEPT ![f] = NoEas]
      /\ easThroughStream' = easThroughStream \ {f} /\ fileSecurity' = [fileSecurity EXCEPT ![f] = NoData]
  BY DEF Inv, Delete
<1>1. BooksStep
  <2>1. 0 \in SizeRange /\ 0 * EaOverhead = 0 /\ 0 <= MostEas
    BY UlongIsPositive, MostEasFacts, EaAssumption DEF SizeRange
  <2>2. EaSize' \in [Nodes -> SizeRange] /\ eaMap' \in [Files -> Maps] /\ easThroughStream' \subseteq Files
    BY <1>0, <2>1, NoEasFacts DEF Typed
  <2>3. BooksInv(f)'
    <3>1. EaSize'[Main(f)] = 0 /\ eaMap'[f] = NoEas
      BY <1>0, NodeFacts DEF Typed
    <3> QED BY <2>1, <3>1, NoEasFacts DEF BooksInv
  <2>4. ASSUME NEW g \in Files \ {f} PROVE BooksInv(g)'
    <3>1. Main(g) # Main(f) /\ Main(g) # Stream(f) /\ Main(g) \in Nodes
      BY NodeFacts
    <3>2. EaSize'[Main(g)] = EaSize[Main(g)] /\ eaMap'[g] = eaMap[g]
      BY <1>0, <3>1 DEF Typed
    <3> QED BY <1>0, <3>2 DEF Inv, BooksInv
  <2> QED BY <2>2, <2>3, <2>4 DEF BooksStep
<1>2. RestStep
  <2>1. /\ nodes' \subseteq Nodes /\ children' \subseteq Files
        /\ fileSecurity' \in [Files -> Descriptors \cup {NoData}]
        /\ \A g \in Files \ {f} : Main(g) \in nodes' <=> Main(g) \in nodes
    BY <1>0, NodeFacts DEF Typed
  <2>2. StreamsInv'
    <3> SUFFICES ASSUME NEW n \in nodes' PROVE Main(FileOf(n)) \in nodes'
      BY DEF StreamsInv
    <3>1. n \in nodes /\ n \in Nodes /\ n # Main(f) /\ n # Stream(f) /\ Main(FileOf(n)) \in nodes
      BY <1>0 DEF StreamsInv, Typed
    <3>2. FileOf(n) # f
      BY <3>1, NodeFacts
    <3> QED BY <1>0, <3>1, <3>2, NodeFacts
  <2>3. {} \in SUBSET Attributes /\ 0 \in Tags \cup {0} /\ NoData \in Data \cup {NoData}
    OBVIOUS
  <2> QED BY <1>0, <2>1, <2>2, <2>3, ReparseChange
<1>3. TagStep
  BY <1>0 DEF Typed, TagStep
<1> QED BY <1>1, <1>2, <1>3, StepsTogether

LEMMA DeleteStreamStep ==
  ASSUME Inv, NEW f \in Files, DeleteStream(f)
  PROVE  Inv' /\ TagStep
<1>0. /\ Typed /\ StreamsInv /\ nodes' = nodes \ {Stream(f)} /\ EaSize' = [EaSize EXCEPT ![Stream(f)] = 0]
      /\ UNCHANGED <<FileAttributes, reparse, eaMap, easThroughStream, fileSecurity, children>>
  BY DEF Inv, DeleteStream
<1>1. BooksStep
  <2>1. 0 \in SizeRange
    BY UlongIsPositive DEF SizeRange
  <2>2. \A g \in Files : EaSize'[Main(g)] = EaSize[Main(g)]
    BY <1>0, NodeFacts DEF Typed
  <2>3. \A g \in Files : BooksInv(g)'
    BY <1>0, <2>2 DEF Inv, BooksInv
  <2> QED BY <1>0, <2>1, <2>3 DEF Typed, BooksStep
<1>2. RestStep
  <2>1. UNCHANGED <<ReparseTag, reparseData>> /\ \A g \in Files : Main(g) \in nodes' <=> Main(g) \in nodes
    BY <1>0, NodeFacts DEF reparse
  <2>2. \A g \in Files : ReparseInv(g)'
    BY <1>0, <2>1 DEF Inv, ReparseInv
  <2>3. StreamsInv' /\ nodes' \subseteq Nodes
    BY <1>0, NodeFacts DEF StreamsInv, Typed
  <2> QED BY <1>0, <2>1, <2>2, <2>3 DEF Typed, RestStep
<1>3. TagStep
  BY <1>0 DEF reparse, TagStep
<1> QED BY <1>1, <1>2, <1>3, StepsTogether

\* The calls that change the EAs of a node there is.
LEMMA EaSteps ==
  ASSUME Inv, NEW n \in Nodes, SetEa(n) \/ Overwrite(n) \/ OverwriteFails(n)
  PROVE  Inv' /\ TagStep
<1>0. /\ Typed /\ FileOf(n) \in Files /\ UNCHANGED <<nodes, reparse, fileSecurity, children>>
  BY NodeFacts DEF Inv, SetEa, Overwrite, OverwriteFails
<1>1. BooksStep
  <2>1. ASSUME NEW before \in {StateOf(n), EasDeleted(n)}, NEW list \in EaLists,
               NEW state \in {AfterSetEas(before, list)} \cup FailuresOf(before, list), Becomes(n, state)
        PROVE  BooksStep
    BY <2>1, ListsKeepBooks
  <2>2. CASE SetEa(n)
    <3>1. PICK list \in EaLists :
            \/ Becomes(n, AfterSetEas(StateOf(n), list))
            \/ \E state \in FailuresOf(StateOf(n), list) : Becomes(n, state)
      BY <2>2 DEF SetEa
    <3> QED BY <2>1, <3>1
  <2>3. CASE Overwrite(n)
    <3>1. CASE \E list \in EaLists : Becomes(n, AfterSetEas(EasDeleted(n), list))
      BY <2>1, <3>1
    <3>2. CASE IF IsMainNode(n) THEN Becomes(n, EasDeleted(n)) ELSE UNCHANGED eas
      <4>1. CASE UNCHANGED eas
        BY <4>1, UnchangedKeepsBooks
      <4>2. CASE Becomes(n, EasDeleted(n))
        <5>1. /\ EasDeleted(n) \in States /\ EasDeleted(n).size = EaSize[n] /\ EaSize[n] \in Nat
              /\ Announced(StateOf(n)) => Announced(EasDeleted(n))
          BY <1>0, StatesOfNodes, UlongIsPositive DEF Typed, SizeRange
        <5>2. EaSize[n] <= MaxEaSize => EasDeleted(n).size <= MostEas
          BY <5>1, MostEasFacts
        <5> QED BY <4>2, <5>1, <5>2, BecomesKeepsBooks
      <4> QED BY <3>2, <4>1, <4>2
    <3> QED BY <2>3, <3>1, <3>2 DEF Overwrite
  <2>4. CASE OverwriteFails(n)
    <3>1. PICK list \in EaLists : \E state \in FailuresOf(EasDeleted(n), list) : Becomes(n, state)
      BY <2>4 DEF OverwriteFails
    <3> QED BY <2>1, <3>1
  <2> QED BY <2>2, <2>3, <2>4
<1>2. RestStep /\ TagStep
  <2>1. \/ UNCHANGED FileAttributes
        \/ \E attributes \in Overwritten(FileAttributes[FileOf(n)]) :
             FileAttributes' = [FileAttributes EXCEPT ![FileOf(n)] = attributes]
    BY DEF SetEa, Overwrite, OverwriteFails
  <2>2. CASE UNCHANGED FileAttributes
    BY <1>0, <2>2, AttributesChange DEF Typed
  <2>3. CASE \E attributes \in Overwritten(FileAttributes[FileOf(n)]) :
             FileAttributes' = [FileAttributes EXCEPT ![FileOf(n)] = attributes]
    <3>1. PICK attributes \in Overwritten(FileAttributes[FileOf(n)]) :
             FileAttributes' = [FileAttributes EXCEPT ![FileOf(n)] = attributes]
      BY <2>3
    <3>2. /\ attributes \in SUBSET Attributes
          /\ "REPARSE_POINT" \in attributes => "REPARSE_POINT" \in FileAttributes[FileOf(n)]
      BY <1>0 DEF Typed, Overwritten, Attributes
    <3>3. /\ FileAttributes' \in [Files -> SUBSET Attributes]
          /\ \A f \in Files : "REPARSE_POINT" \in FileAttributes'[f] => "REPARSE_POINT" \in FileAttributes[f]
      BY <1>0, <3>1, <3>2 DEF Typed
    <3> QED BY <1>0, <3>3, AttributesChange DEF Typed
  <2> QED BY <2>1, <2>2, <2>3
<1> QED BY <1>1, <1>2, StepsTogether

\* The calls that leave EAs and reparse points.
LEMMA QuietSteps ==
  ASSUME Inv,
         \/ \E f \in Files : ChildrenChange(f)
         \/ \E n \in Nodes : SetBasicInfo(n) \/ CleanupSetArchiveBit(n) \/ SetSecurity(n)
  PROVE  Inv' /\ TagStep
<1>0. Typed /\ UNCHANGED <<nodes, reparse, eas>>
  BY DEF Inv, ChildrenChange, SetBasicInfo, CleanupSetArchiveBit, SetSecurity
<1>1. BooksStep
  BY <1>0, UnchangedKeepsBooks
<1>2. CASE \E f \in Files : ChildrenChange(f)
  <2>1. UNCHANGED <<FileAttributes, fileSecurity>> /\ children' \subseteq Files
    BY <1>0, <1>2 DEF ChildrenChange, Typed
  <2>2. RestStep /\ TagStep
    BY <1>0, <2>1, AttributesChange DEF Typed
  <2> QED BY <1>1, <2>2, StepsTogether
<1>3. ASSUME NEW n \in Nodes, SetSecurity(n) PROVE Inv' /\ TagStep
  <2>1. UNCHANGED <<FileAttributes, children>> /\ fileSecurity' \in [Files -> Descriptors \cup {NoData}]
    BY <1>0, <1>3 DEF SetSecurity, Typed
  <2>2. RestStep /\ TagStep
    BY <1>0, <2>1, AttributesChange DEF Typed
  <2> QED BY <1>1, <2>2, StepsTogether
<1>4. ASSUME NEW n \in Nodes, SetBasicInfo(n) \/ CleanupSetArchiveBit(n) PROVE Inv' /\ TagStep
  <2>1. FileOf(n) \in Files /\ UNCHANGED <<fileSecurity, children>>
    BY <1>4, NodeFacts DEF SetBasicInfo, CleanupSetArchiveBit
  <2>2. PICK attributes \in SUBSET Attributes :
          /\ "REPARSE_POINT" \in attributes => "REPARSE_POINT" \in FileAttributes[FileOf(n)]
          /\ FileAttributes' = [FileAttributes EXCEPT ![FileOf(n)] = attributes]
    <3>1. CASE SetBasicInfo(n)
      BY <3>1 DEF SetBasicInfo, MayBecome
    <3>2. CASE CleanupSetArchiveBit(n)
      <4>1. FileAttributes[FileOf(n)] \cup {"ARCHIVE"} \in SUBSET Attributes
        BY <1>0, <2>1 DEF Typed, Attributes
      <4>2. FileAttributes' = [FileAttributes EXCEPT ![FileOf(n)] = FileAttributes[FileOf(n)] \cup {"ARCHIVE"}]
        BY <3>2 DEF CleanupSetArchiveBit
      <4> QED BY <4>1, <4>2
    <3> QED BY <1>4, <3>1, <3>2
  <2>3. /\ FileAttributes' \in [Files -> SUBSET Attributes]
        /\ \A f \in Files : "REPARSE_POINT" \in FileAttributes'[f] => "REPARSE_POINT" \in FileAttributes[f]
    BY <1>0, <2>1, <2>2 DEF Typed
  <2>4. RestStep /\ TagStep
    BY <1>0, <2>1, <2>3, AttributesChange DEF Typed
  <2> QED BY <1>1, <2>4, StepsTogether
<1> QED BY <1>2, <1>3, <1>4

LEMMA ReparseSteps ==
  ASSUME Inv, NEW n \in Nodes, SetReparsePoint(n) \/ DeleteReparsePoint(n)
  PROVE  Inv' /\ TagStep
<1> DEFINE f == FileOf(n)
<1>0. /\ Typed /\ f \in Files /\ n \in nodes /\ Main(f) \in nodes /\ ReparseInv(f)
      /\ UNCHANGED <<nodes, eas, fileSecurity, children>>
  BY NodeFacts DEF Inv, StreamsInv, SetReparsePoint, DeleteReparsePoint, Opened
<1> HIDE DEF f
<1>1. BooksStep
  BY <1>0, UnchangedKeepsBooks
<1>2. StreamsInv'
  BY <1>0 DEF Inv, StreamsInv
<1>3. PICK attributes \in SUBSET Attributes, tag \in Tags \cup {0}, data \in Data \cup {NoData} :
        /\ FileAttributes' = [FileAttributes EXCEPT ![f] = attributes]
        /\ ReparseTag' = [ReparseTag EXCEPT ![f] = tag] /\ reparseData' = [reparseData EXCEPT ![f] = data]
        /\ data = NoData <=> tag = 0
        /\ data # NoData => data[1] = tag
        /\ "REPARSE_POINT" \in attributes => data # NoData
        /\ tag # 0 /\ reparseData[f] # NoData => reparseData[f][1] = tag
  <2>1. CASE SetReparsePoint(n)
    <3>1. PICK data \in Tags \X Payloads :
            /\ CanReplace(reparseData[f], data) /\ reparseData' = [reparseData EXCEPT ![f] = data]
            /\ ReparseTag' = [ReparseTag EXCEPT ![f] = data[1]]
      BY <2>1 DEF SetReparsePoint, f
    <3>2. FileAttributes' = [FileAttributes EXCEPT ![f] = FileAttributes[f] \cup {"REPARSE_POINT"}]
      BY <2>1 DEF SetReparsePoint, f
    <3>3. FileAttributes[f] \cup {"REPARSE_POINT"} \in SUBSET Attributes
      BY <1>0 DEF Typed, Attributes
    <3>4. data \in Data \cup {NoData} /\ data[1] \in Tags \cup {0} /\ data # NoData /\ data[1] # 0
      BY EaAssumption DEF Data
    <3>5. reparseData[f] # NoData => reparseData[f][1] = data[1]
      BY <3>1 DEF CanReplace
    <3> QED BY <3>1, <3>2, <3>3, <3>4, <3>5
  <2>2. CASE DeleteReparsePoint(n)
    <3>1. /\ reparseData' = [reparseData EXCEPT ![f] = NoData] /\ ReparseTag' = [ReparseTag EXCEPT ![f] = 0]
          /\ FileAttributes' = [FileAttributes EXCEPT ![f] = FileAttributes[f] \ {"REPARSE_POINT"}]
      BY <2>2 DEF DeleteReparsePoint, f
    <3>2. /\ FileAttributes[f] \ {"REPARSE_POINT"} \in SUBSET Attributes
          /\ NoData \in Data \cup {NoData} /\ 0 \in Tags \cup {0}
      BY <1>0 DEF Typed
    <3> QED BY <3>1, <3>2
  <2> QED BY <2>1, <2>2
<1>4. RestStep
  BY <1>0, <1>2, <1>3, ReparseChange DEF Typed
<1>5. TagStep
  <2>1. \A g \in Files \ {f} : ReparseTag'[g] = ReparseTag[g]
    BY <1>0, <1>3 DEF Typed
  <2>2. ReparseTag'[f] = tag
    BY <1>0, <1>3 DEF Typed
  <2>3. ReparseTag[f] # 0 /\ tag # 0 => tag = ReparseTag[f]
    BY <1>0, <1>3 DEF ReparseInv
  <2> QED BY <2>1, <2>2, <2>3 DEF TagStep
<1> QED BY <1>1, <1>4, <1>5, StepsTogether

LEMMA InitInv == Init => Inv
<1> SUFFICES ASSUME Init PROVE Inv
  OBVIOUS
<1>1. 0 \in SizeRange /\ 0 * EaOverhead = 0 /\ 0 <= MostEas
  BY UlongIsPositive, MostEasFacts, EaAssumption DEF SizeRange
<1>2. Typed
  BY <1>1, NoEasFacts DEF Init, Typed
<1>3. StreamsInv
  BY DEF Init, StreamsInv
<1>4. ASSUME NEW f \in Files PROVE BooksInv(f) /\ ReparseInv(f)
  BY <1>1, NodeFacts, NoEasFacts DEF Init, BooksInv, ReparseInv
<1> QED BY <1>2, <1>3, <1>4 DEF Inv

LEMMA NextStep ==
  ASSUME Inv, Next
  PROVE  Inv' /\ TagStep
<1>1. CASE \E f \in Files : Create(f) \/ CreateStream(f) \/ Delete(f) \/ DeleteStream(f) \/ ChildrenChange(f)
  BY <1>1, CreateStep, CreateStreamStep, DeleteStep, DeleteStreamStep, QuietSteps
<1>2. CASE \E n \in Nodes :
             \/ SetEa(n) \/ Overwrite(n) \/ OverwriteFails(n) \/ SetBasicInfo(n)
             \/ CleanupSetArchiveBit(n) \/ SetReparsePoint(n) \/ DeleteReparsePoint(n) \/ SetSecurity(n)
  BY <1>2, EaSteps, QuietSteps, ReparseSteps
<1> QED BY <1>1, <1>2 DEF Next

LEMMA StutterStep ==
  ASSUME Inv, UNCHANGED vars
  PROVE  Inv' /\ TagStep
BY DEF vars, reparse, eas, Inv, Typed, StreamsInv, BooksInv, ReparseInv, TagStep

LEMMA Invariance == Spec => []Inv
<1>1. Inv /\ [Next]_vars => Inv'
  BY NextStep, StutterStep
<1> QED BY <1>1, InitInv, PTL DEF Spec

-----------------------------------------------------------------------------
(* The theorems. *)

\* Every variable has its type, and a stream's file is there.
THEOREM TypeCorrect == Spec => []TypeOK
<1>1. Inv => TypeOK
  <2> SUFFICES ASSUME Inv PROVE TypeOK
    OBVIOUS
  <2>1. \A f \in Files : DOMAIN eaMap[f] \subseteq EaNames
    BY MapFacts DEF Inv, Typed
  <2> QED BY <2>1 DEF Inv, Typed, StreamsInv, SizeRange, Data, TypeOK
<1> QED BY <1>1, Invariance, PTL

\* What a handle reports as the size of the EAs covers their names and headers
\* and has not wrapped, through any lists of EAs and any failure in the middle
\* of one.
THEOREM EasAreAlwaysAnnounced == Spec => []EasAreAnnounced
<1>1. Inv => EasAreAnnounced
  <2> SUFFICES ASSUME Inv, NEW n \in nodes, FileOf(n) \notin easThroughStream
               PROVE  /\ CopyFileInfo(n).EaSize >= Cardinality(DOMAIN GetEa(n)) * EaOverhead
                      /\ CopyFileInfo(n).EaSize <= MaxEaSize + MaxEas * (EaOverhead + MaxValueLength)
    BY DEF EasAreAnnounced
  <2>1. FileOf(n) \in Files
    BY NodeFacts DEF Inv, Typed
  <2>2. Cardinality(DOMAIN eaMap[FileOf(n)]) * EaOverhead <= EaSize[Main(FileOf(n))]
        /\ EaSize[Main(FileOf(n))] <= MaxEaSize + MaxEas * (EaOverhead + MaxValueLength)
    BY <2>1 DEF Inv, BooksInv, MostEas
  <2>3. CopyFileInfo(n).EaSize = EaSize[Main(FileOf(n))] /\ GetEa(n) = eaMap[FileOf(n)]
    BY DEF CopyFileInfo, GetEa
  <2>4. EaSize[Main(FileOf(n))] \in Nat /\ Cardinality(DOMAIN eaMap[FileOf(n)]) * EaOverhead \in Nat
    BY <2>1, NodeFacts, MapFacts, UlongIsPositive, EaAssumption DEF Inv, Typed, SizeRange
  <2> QED BY <2>2, <2>3, <2>4
<1> QED BY <1>1, Invariance, PTL

\* The attribute, the tag and the data of a reparse point agree.
THEOREM ReparsePointsConsistent == Spec => []ReparsePointConsistent
<1>1. Inv => ReparsePointConsistent
  <2> SUFFICES ASSUME Inv, NEW n \in nodes
               PROVE  /\ "REPARSE_POINT" \in CopyFileInfo(n).FileAttributes =>
                           GetReparsePoint(n) # NoData /\ GetReparsePoint(n)[1] = CopyFileInfo(n).ReparseTag
                      /\ reparseData[FileOf(n)] = NoData <=> CopyFileInfo(n).ReparseTag = 0
    BY DEF ReparsePointConsistent
  <2>1. FileOf(n) \in Files /\ ReparseInv(FileOf(n))
    BY NodeFacts DEF Inv, Typed
  <2>2. /\ CopyFileInfo(n).ReparseTag = ReparseTag[FileOf(n)]
        /\ "REPARSE_POINT" \in CopyFileInfo(n).FileAttributes <=> "REPARSE_POINT" \in FileAttributes[FileOf(n)]
    BY DEF CopyFileInfo
  <2>3. "REPARSE_POINT" \in FileAttributes[FileOf(n)] => GetReparsePoint(n) = reparseData[FileOf(n)]
    BY DEF GetReparsePoint
  <2> QED BY <2>1, <2>2, <2>3 DEF ReparseInv
<1> QED BY <1>1, Invariance, PTL

\* The data of a reparse point is replaced by data with the same tag only.
THEOREM TagsAreKept == Spec => TagKept
<1>1. Inv /\ [Next]_vars => [\A f \in Files : ReparseTag[f] # 0 /\ ReparseTag'[f] # 0 => ReparseTag'[f] = ReparseTag[f]]_vars
  BY NextStep DEF TagStep
<1> QED BY <1>1, Invariance, PTL DEF Spec, TagKept

=============================================================================
