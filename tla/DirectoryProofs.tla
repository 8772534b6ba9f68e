--------------------------- MODULE DirectoryProofs ---------------------------
(***************************************************************************)
(* The order of the file map, the walks over it and the listing of a       *)
(* directory, for names of any length, trees of any depth and maps of any  *)
(* size, as long as FileNameCompare keeps to its fast loop (OnlyAscii).    *)
(*                                                                         *)
(* On the names the map holds FileNameCompare, with all its loops, orders  *)
(* as the plain lexicographic order of the characters would, a colon being *)
(* the least of them and a backslash the next.  Everything else is proved  *)
(* from that.                                                              *)
(***************************************************************************)
EXTENDS Directory, SequenceTheorems, FunctionTheorems, FiniteSetTheorems,
        NaturalsInduction, WellFoundedInduction, TLAPS

-----------------------------------------------------------------------------
(* Least and greatest numbers. *)

LEMMA LeastNumber ==
  ASSUME NEW S \in SUBSET Nat, S # {}
  PROVE  \E n \in S : \A m \in S : n <= m
<1>1. PICK n \in S : \A m \in S : <<m, n>> \notin OpToRel(<, Nat)
  BY NatLessThanWellFounded, WFMin, Zenon
<1>2. OpToRel(<, Nat) = {pair \in Nat \X Nat : pair[1] < pair[2]}
  BY Zenon DEF OpToRel
<1>3. \A m \in S : ~(m < n)
  BY <1>1, <1>2
<1> QED BY <1>3

LEMMA GreatestNumber ==
  ASSUME NEW S \in SUBSET Nat, S # {}, NEW bound \in Nat, \A m \in S : m <= bound
  PROVE  \E n \in S : \A m \in S : m <= n
<1> DEFINE T == {bound - m : m \in S}
<1>0. \A m \in S : bound - m \in Nat
  OBVIOUS
<1>1. T \in SUBSET Nat /\ T # {}
  BY <1>0
<1> HIDE DEF T
<1>2. PICK t \in T : \A u \in T : t <= u
  BY <1>1, LeastNumber
<1>3. PICK n \in S : t = bound - n
  BY DEF T
<1>4. ASSUME NEW m \in S PROVE m <= n
  <2>1. bound - m \in T
    BY DEF T
  <2> QED BY <1>2, <1>3, <2>1
<1> QED BY <1>4

LEMMA MinIs ==
  ASSUME NEW S \in SUBSET Nat, S # {}
  PROVE  Min(S) \in S /\ \A m \in S : Min(S) <= m
BY LeastNumber DEF Min

LEMMA MaxIs ==
  ASSUME NEW S \in SUBSET Nat, S # {}, NEW bound \in Nat, \A m \in S : m <= bound
  PROVE  Max(S) \in S /\ \A m \in S : m <= Max(S)
<1>1. \E n \in S : \A m \in S : n >= m
  BY GreatestNumber
<1> QED BY <1>1 DEF Max

-----------------------------------------------------------------------------
(* Characters. *)

\* What the map's names consist of.
Chars == {c \in Nat : CaseInsensitive => c <= 127}

\* The bit trick makes capitals of the small letters of ASCII and leaves
\* every other character of ASCII alone.
THEOREM UpperCharIsUpperCase ==
  ASSUME NEW c \in 0 .. 127
  PROVE  UpperChar(c) = IF c \in 97 .. 122 THEN c - 32 ELSE c
<1>1. CASE c < 97
  <2>1. (c - 97) % 512 = c + 415 /\ (c - 123) % 512 = c + 389
    BY <1>1
  <2>2. (c + 415) \div 256 = 1 /\ (c + 389) \div 256 = 1
    BY <1>1
  <2> QED BY <1>1, <2>1, <2>2 DEF UpperChar, SignBit
<1>2. CASE c \in 97 .. 122
  <2>1. (c - 97) % 512 = c - 97 /\ (c - 123) % 512 = c + 389
    BY <1>2
  <2>2. (c - 97) \div 256 = 0 /\ (c + 389) \div 256 = 1
    BY <1>2
  <2>3. c \div 32 = 3
    BY <1>2
  <2> QED BY <1>2, <2>1, <2>2, <2>3 DEF UpperChar, SignBit
<1>3. CASE c > 122
  <2>1. (c - 97) % 512 = c - 97 /\ (c - 123) % 512 = c - 123
    BY <1>3
  <2>2. (c - 97) \div 256 = 0 /\ (c - 123) \div 256 = 0
    BY <1>3
  <2> QED BY <1>3, <2>1, <2>2 DEF UpperChar, SignBit
<1> QED BY <1>1, <1>2, <1>3

\* What a character is ordered by inside a component.
CaseOf(c) == IF CaseInsensitive THEN UpperChar(c) ELSE c

\* What it is ordered by in a name.
Key(c) == IF c = Colon THEN -2 ELSE IF c = Backslash THEN -1 ELSE CaseOf(c)

LEMMA CaseOfFacts ==
  ASSUME NEW c \in Chars
  PROVE  /\ CaseOf(c) \in Nat
         /\ CaseInsensitive => CaseOf(c) = IF c \in 97 .. 122 THEN c - 32 ELSE c
         /\ ~CaseInsensitive => CaseOf(c) = c
BY UpperCharIsUpperCase DEF CaseOf, Chars

LEMMA KeyFacts ==
  ASSUME NEW c \in Chars
  PROVE  /\ Key(c) \in Int /\ Key(c) > -3
         /\ Separator(c) <=> Key(c) < 0
         /\ ~Separator(c) => Key(c) = CaseOf(c)
BY CaseOfFacts DEF Key, Separator, Colon, Backslash

LEMMA SeparatorsByKey ==
  ASSUME NEW c \in Chars, NEW d \in Chars, Separator(c), Key(c) = Key(d)
  PROVE  c = d
<1>1. Separator(d)
  BY KeyFacts
<1> QED BY <1>1 DEF Key, Separator, Colon, Backslash

-----------------------------------------------------------------------------
(* The lexicographic order. *)

\* Behind its end a name has what is less than any character.
KeyAt(a, k) == IF k \in 1 .. Len(a) THEN Key(a[k]) ELSE -3

Place == Nat \ {0}

AgreeBefore(a, b, k) == \A j \in Place : j < k => KeyAt(a, j) = KeyAt(b, j)

\* The first place where a and b differ.
DifferAt(a, b, k) == AgreeBefore(a, b, k) /\ KeyAt(a, k) # KeyAt(b, k)

Before(a, b) == \E k \in Place : AgreeBefore(a, b, k) /\ KeyAt(a, k) < KeyAt(b, k)

Alike(a, b) == \A k \in Place : KeyAt(a, k) = KeyAt(b, k)

Codes == Seq(Chars)

LEMMA KeyAtType ==
  ASSUME NEW a \in Codes, NEW k \in Place
  PROVE  /\ KeyAt(a, k) \in Int /\ KeyAt(a, k) >= -3
         /\ KeyAt(a, k) = -3 <=> k > Len(a)
         /\ k <= Len(a) => a[k] \in Chars /\ KeyAt(a, k) = Key(a[k])
         /\ k <= Len(a) => (Separator(a[k]) <=> KeyAt(a, k) < 0)
<1>1. Len(a) \in Nat
  BY LenProperties DEF Codes
<1>2. CASE k <= Len(a)
  <2>1. k \in 1 .. Len(a)
    BY <1>1, <1>2 DEF Place
  <2>2. a[k] \in Chars
    BY <2>1, ElementOfSeq DEF Codes
  <2> QED BY <1>1, <1>2, <2>1, <2>2, KeyFacts DEF KeyAt, Place
<1>3. CASE k > Len(a)
  BY <1>1, <1>3 DEF KeyAt, Place
<1> QED BY <1>1, <1>2, <1>3 DEF Place

LEMMA FirstDifference ==
  ASSUME NEW a, NEW b, ~Alike(a, b)
  PROVE  \E k \in Place : DifferAt(a, b, k)
<1> DEFINE S == {k \in Place : KeyAt(a, k) # KeyAt(b, k)}
<1>1. S \in SUBSET Nat /\ S # {}
  BY DEF Alike, Place
<1>2. PICK k \in S : \A m \in S : k <= m
  BY <1>1, LeastNumber
<1> QED BY <1>2 DEF DifferAt, AgreeBefore, Place

LEMMA BeforeIsTotal ==
  ASSUME NEW a \in Codes, NEW b \in Codes
  PROVE  Alike(a, b) \/ Before(a, b) \/ Before(b, a)
<1>1. SUFFICES ASSUME ~Alike(a, b) PROVE Before(a, b) \/ Before(b, a)
  OBVIOUS
<1>2. PICK k \in Place : DifferAt(a, b, k)
  BY <1>1, FirstDifference
<1>3. KeyAt(a, k) \in Int /\ KeyAt(b, k) \in Int
  BY KeyAtType
<1> QED BY <1>2, <1>3 DEF Before, DifferAt, AgreeBefore

\* The first difference decides.
LEMMA BeforeAt ==
  ASSUME NEW a \in Codes, NEW b \in Codes, NEW k \in Place, DifferAt(a, b, k)
  PROVE  /\ Before(a, b) <=> KeyAt(a, k) < KeyAt(b, k)
         /\ ~Alike(a, b)
<1>1. ASSUME NEW j \in Place, AgreeBefore(a, b, j), KeyAt(a, j) < KeyAt(b, j)
      PROVE  j = k
  BY <1>1, KeyAtType DEF DifferAt, AgreeBefore, Place
<1> QED BY <1>1 DEF Before, Alike, DifferAt

LEMMA BeforeIsStrict ==
  ASSUME NEW a \in Codes, NEW b \in Codes, Before(a, b)
  PROVE  ~Before(b, a) /\ ~Alike(a, b) /\ ~Alike(b, a)
<1>1. PICK k \in Place : AgreeBefore(a, b, k) /\ KeyAt(a, k) < KeyAt(b, k)
  BY DEF Before
<1>2. KeyAt(a, k) \in Int /\ KeyAt(b, k) \in Int
  BY KeyAtType
<1>3. DifferAt(b, a, k)
  BY <1>1, <1>2 DEF DifferAt, AgreeBefore
<1>4. ~(KeyAt(b, k) < KeyAt(a, k)) /\ KeyAt(a, k) # KeyAt(b, k)
  BY <1>1, <1>2
<1> QED BY <1>3, <1>4, BeforeAt DEF Alike

LEMMA BeforeIsTransitive ==
  ASSUME NEW a \in Codes, NEW b \in Codes, NEW c \in Codes, Before(a, b), Before(b, c)
  PROVE  Before(a, c)
<1>1. PICK j \in Place : AgreeBefore(a, b, j) /\ KeyAt(a, j) < KeyAt(b, j)
  BY DEF Before
<1>2. PICK k \in Place : AgreeBefore(b, c, k) /\ KeyAt(b, k) < KeyAt(c, k)
  BY DEF Before
<1>3. \A x \in Codes, i \in Place : KeyAt(x, i) \in Int
  BY KeyAtType
<1>4. CASE j <= k
  <2>1. AgreeBefore(a, c, j)
    BY <1>1, <1>2, <1>4 DEF AgreeBefore, Place
  <2>2. KeyAt(a, j) < KeyAt(c, j)
    BY <1>1, <1>2, <1>3, <1>4 DEF AgreeBefore, Place
  <2> QED BY <2>1, <2>2 DEF Before
<1>5. CASE k < j
  <2>1. AgreeBefore(a, c, k)
    BY <1>1, <1>2, <1>5 DEF AgreeBefore, Place
  <2>2. KeyAt(a, k) < KeyAt(c, k)
    BY <1>1, <1>2, <1>3, <1>5 DEF AgreeBefore, Place
  <2> QED BY <2>1, <2>2 DEF Before
<1> QED BY <1>4, <1>5 DEF Place

-----------------------------------------------------------------------------
(* One component against another. *)

\* The first character that differs decides, upper case or not.
LEMMA FirstCharacterDecides ==
  ASSUME NEW s \in Codes, NEW t \in Codes, NEW n \in Nat, n <= Len(s), n <= Len(t),
         NEW res, res = IF CaseInsensitive THEN EfficientWcsnicmp(s, t, n)
                        ELSE Lexicographic(s, t, n)
  PROVE  /\ (\A k \in 1 .. n : CaseOf(s[k]) = CaseOf(t[k])) => res = 0
         /\ \A k \in 1 .. n :
              (\A j \in 1 .. k - 1 : CaseOf(s[j]) = CaseOf(t[j])) /\ CaseOf(s[k]) # CaseOf(t[k])
              => res = CaseOf(s[k]) - CaseOf(t[k])
<1>0. \A k \in 1 .. n : /\ s[k] \in Chars /\ t[k] \in Chars
                        /\ CaseOf(s[k]) \in Nat /\ CaseOf(t[k]) \in Nat
  <2>1. Len(s) \in Nat /\ Len(t) \in Nat
    BY LenProperties DEF Codes
  <2>2. \A k \in 1 .. n : k \in 1 .. Len(s) /\ k \in 1 .. Len(t)
    BY <2>1
  <2>3. \A k \in 1 .. n : s[k] \in Chars /\ t[k] \in Chars
    BY <2>2, ElementOfSeq DEF Codes
  <2> QED BY <2>3, CaseOfFacts
<1> DEFINE differ == {k \in 1 .. n : CaseOf(s[k]) # CaseOf(t[k])}
<1>1. res = IF differ = {} THEN 0 ELSE CaseOf(s[Min(differ)]) - CaseOf(t[Min(differ)])
  <2>1. CASE CaseInsensitive
    <3> DEFINE foreign == {k \in 1 .. n : s[k] > 127 \/ t[k] > 127}
    <3>1. foreign = {}
      BY <1>0, <2>1 DEF Chars
    <3>2. {k \in 1 .. n : UpperChar(s[k]) # UpperChar(t[k])} = differ
      BY <2>1 DEF CaseOf
    <3>3. foreign \cup {k \in 1 .. n : UpperChar(s[k]) # UpperChar(t[k])} = differ
      BY <3>1, <3>2
    <3>4. ASSUME differ # {} PROVE Min(differ) # 0
      <4>1. differ \in SUBSET Nat
        OBVIOUS
      <4>2. Min(differ) \in differ
        BY <3>4, <4>1, MinIs
      <4> QED BY <4>2
    <3> HIDE DEF differ, foreign
    <3>5. EfficientWcsnicmp(s, t, n) =
            IF differ = {} THEN 0 ELSE UpperChar(s[Min(differ)]) - UpperChar(t[Min(differ)])
      BY <3>1, <3>3, <3>4 DEF EfficientWcsnicmp, foreign
    <3> QED BY <2>1, <3>5 DEF CaseOf
  <2>2. CASE ~CaseInsensitive
    <3>1. \A c : CaseOf(c) = c
      BY <2>2 DEF CaseOf
    <3>2. {k \in 1 .. n : s[k] # t[k]} = differ
      BY <3>1
    <3> HIDE DEF differ
    <3>3. Lexicographic(s, t, n) = IF differ = {} THEN 0 ELSE s[Min(differ)] - t[Min(differ)]
      BY <3>2, Zenon DEF Lexicographic
    <3> QED BY <2>2, <3>1, <3>3
  <2> QED BY <2>1, <2>2
<1>2. ASSUME NEW k \in 1 .. n, \A j \in 1 .. k - 1 : CaseOf(s[j]) = CaseOf(t[j]),
             CaseOf(s[k]) # CaseOf(t[k])
      PROVE  res = CaseOf(s[k]) - CaseOf(t[k])
  <2>1. k \in differ /\ differ \in SUBSET Nat
    BY <1>2
  <2>2. Min(differ) \in differ /\ Min(differ) <= k
    BY <2>1, MinIs
  <2>3. PICK m \in 1 .. n : m = Min(differ) /\ m <= k /\ CaseOf(s[m]) # CaseOf(t[m])
    BY <2>2
  <2>4. m = k
    BY <1>2, <2>3
  <2> HIDE DEF differ
  <2> QED BY <1>1, <2>1, <2>3, <2>4
<1>3. ASSUME \A k \in 1 .. n : CaseOf(s[k]) = CaseOf(t[k]) PROVE res = 0
  BY <1>1, <1>3
<1> QED BY <1>2, <1>3

LEMMA PartCompareFacts ==
  ASSUME NEW s \in Codes, NEW t \in Codes
  PROVE  /\ \A k \in Place :
              /\ k <= Len(s) /\ k <= Len(t) /\ CaseOf(s[k]) # CaseOf(t[k])
              /\ \A j \in Place : j < k => CaseOf(s[j]) = CaseOf(t[j])
              => PartCompare(s, t) = CaseOf(s[k]) - CaseOf(t[k])
         /\ (\A k \in Place : k <= Len(s) /\ k <= Len(t) => CaseOf(s[k]) = CaseOf(t[k]))
            => PartCompare(s, t) = Len(s) - Len(t)
<1>1. Len(s) \in Nat /\ Len(t) \in Nat
  BY LenProperties DEF Codes
<1> DEFINE n == Min({Len(s), Len(t)})
           res == IF CaseInsensitive THEN EfficientWcsnicmp(s, t, n) ELSE Lexicographic(s, t, n)
<1>2. n \in Nat /\ n <= Len(s) /\ n <= Len(t) /\ n \in {Len(s), Len(t)}
  <2>1. {Len(s), Len(t)} \in SUBSET Nat
    BY <1>1
  <2> QED BY <2>1, MinIs
<1>3. PartCompare(s, t) = IF res # 0 THEN res ELSE Len(s) - Len(t)
  BY DEF PartCompare
<1> HIDE DEF n
<1>4. /\ (\A k \in 1 .. n : CaseOf(s[k]) = CaseOf(t[k])) => res = 0
      /\ \A k \in 1 .. n :
           (\A j \in 1 .. k - 1 : CaseOf(s[j]) = CaseOf(t[j])) /\ CaseOf(s[k]) # CaseOf(t[k])
           => res = CaseOf(s[k]) - CaseOf(t[k])
  <2> HIDE DEF res
  <2>1. res = IF CaseInsensitive THEN EfficientWcsnicmp(s, t, n) ELSE Lexicographic(s, t, n)
    BY DEF res
  <2> QED BY <1>2, <2>1, FirstCharacterDecides
<1> HIDE DEF res
<1>5. ASSUME NEW k \in Place, k <= Len(s), k <= Len(t), CaseOf(s[k]) # CaseOf(t[k]),
             \A j \in Place : j < k => CaseOf(s[j]) = CaseOf(t[j])
      PROVE  PartCompare(s, t) = CaseOf(s[k]) - CaseOf(t[k])
  <2>1. k \in 1 .. n /\ \A j \in 1 .. k - 1 : CaseOf(s[j]) = CaseOf(t[j])
    BY <1>1, <1>2, <1>5 DEF Place
  <2>2. res = CaseOf(s[k]) - CaseOf(t[k])
    BY <1>4, <1>5, <2>1
  <2>3. CaseOf(s[k]) \in Nat /\ CaseOf(t[k]) \in Nat
    BY <1>5, KeyAtType, CaseOfFacts
  <2> QED BY <1>3, <1>5, <2>2, <2>3
<1>6. ASSUME \A k \in Place : k <= Len(s) /\ k <= Len(t) => CaseOf(s[k]) = CaseOf(t[k])
      PROVE  PartCompare(s, t) = Len(s) - Len(t)
  <2>1. \A k \in 1 .. n : CaseOf(s[k]) = CaseOf(t[k])
    BY <1>1, <1>2, <1>6 DEF Place
  <2> QED BY <1>3, <1>4, <2>1
<1> QED BY <1>5, <1>6

\* Two components are held equal if they are the same in upper case.
LEMMA PartsHeldEqual ==
  ASSUME NEW s \in Codes, NEW t \in Codes
  PROVE  PartCompare(s, t) = 0 <=>
           Len(s) = Len(t) /\ \A k \in Place : k <= Len(s) => CaseOf(s[k]) = CaseOf(t[k])
<1>1. Len(s) \in Nat /\ Len(t) \in Nat
  BY LenProperties DEF Codes
<1> DEFINE S == {k \in Place : k <= Len(s) /\ k <= Len(t) /\ CaseOf(s[k]) # CaseOf(t[k])}
<1>2. CASE S = {}
  <2>1. PartCompare(s, t) = Len(s) - Len(t)
    BY <1>2, PartCompareFacts
  <2> QED BY <1>1, <1>2, <2>1
<1>3. CASE S # {}
  <2>1. S \in SUBSET Nat
    BY DEF Place
  <2>2. PICK k \in S : \A m \in S : k <= m
    BY <1>3, <2>1, LeastNumber
  <2>3. \A j \in Place : j < k => CaseOf(s[j]) = CaseOf(t[j])
    BY <1>1, <2>2 DEF Place
  <2>4. PartCompare(s, t) = CaseOf(s[k]) - CaseOf(t[k])
    BY <2>2, <2>3, PartCompareFacts
  <2>5. CaseOf(s[k]) \in Nat /\ CaseOf(t[k]) \in Nat
    BY <2>2, KeyAtType, CaseOfFacts
  <2> QED BY <2>2, <2>4, <2>5
<1> QED BY <1>2, <1>3

-----------------------------------------------------------------------------
(* Whole names. *)

\* What the kernel hands over: a separator first, and never two in a row.
WellSpelled(a) ==
  /\ a \in Codes /\ Len(a) >= 1 /\ Separator(a[1])
  /\ \A k \in Place : k + 1 <= Len(a) => ~(Separator(a[k]) /\ Separator(a[k + 1]))

LEMMA PartBeginIs ==
  ASSUME NEW a, Len(a) \in Nat, NEW p \in 1 .. Len(a) + 1
  PROVE  /\ PartBegin(a, p) \in p .. Len(a) + 1
         /\ \A k \in p .. PartBegin(a, p) - 1 : Separator(a[k])
         /\ PartBegin(a, p) <= Len(a) => ~Separator(a[PartBegin(a, p)])
<1> DEFINE S == {k \in p .. Len(a) : ~Separator(a[k])} \cup {Len(a) + 1}
<1>1. S \in SUBSET Nat /\ Len(a) + 1 \in S
  OBVIOUS
<1>2. PartBegin(a, p) = Min(S)
  BY DEF PartBegin, Seek
<1> HIDE DEF S
<1>3. Min(S) \in S /\ \A m \in S : Min(S) <= m
  BY <1>1, MinIs
<1>4. PICK b \in S : b = PartBegin(a, p) /\ \A m \in S : b <= m
  BY <1>2, <1>3
<1>5. b \in p .. Len(a) + 1 /\ (b <= Len(a) => ~Separator(a[b]))
  BY DEF S
<1>6. ASSUME NEW k \in p .. b - 1 PROVE Separator(a[k])
  <2>1. k \in p .. Len(a) /\ k \notin S
    BY <1>4, <1>5
  <2> QED BY <2>1 DEF S
<1> QED BY <1>4, <1>5, <1>6

LEMMA PartEndIs ==
  ASSUME NEW a, Len(a) \in Nat, NEW p \in 1 .. Len(a) + 1
  PROVE  /\ PartEnd(a, p) \in p .. Len(a) + 1
         /\ \A k \in p .. PartEnd(a, p) - 1 : ~Separator(a[k])
         /\ PartEnd(a, p) <= Len(a) => Separator(a[PartEnd(a, p)])
<1> DEFINE S == {k \in p .. Len(a) : Separator(a[k])} \cup {Len(a) + 1}
<1>1. S \in SUBSET Nat /\ Len(a) + 1 \in S
  OBVIOUS
<1>2. PartEnd(a, p) = Min(S)
  BY DEF PartEnd, Seek
<1> HIDE DEF S
<1>3. Min(S) \in S /\ \A m \in S : Min(S) <= m
  BY <1>1, MinIs
<1>4. PICK b \in S : b = PartEnd(a, p) /\ \A m \in S : b <= m
  BY <1>2, <1>3
<1>5. b \in p .. Len(a) + 1 /\ (b <= Len(a) => Separator(a[b]))
  BY DEF S
<1>6. ASSUME NEW k \in p .. b - 1 PROVE ~Separator(a[k])
  <2>1. k \in p .. Len(a) /\ k \notin S
    BY <1>4, <1>5
  <2> QED BY <2>1 DEF S
<1> QED BY <1>4, <1>5, <1>6

LEMMA PartMovesOn ==
  ASSUME NEW a, Len(a) \in Nat, NEW p \in 1 .. Len(a)
  PROVE  PartEnd(a, PartBegin(a, p)) \in p + 1 .. Len(a) + 1
<1>1. PICK b \in p .. Len(a) + 1 : b = PartBegin(a, p) /\ (b <= Len(a) => ~Separator(a[b]))
  BY PartBeginIs
<1>2. PICK e \in b .. Len(a) + 1 : e = PartEnd(a, b) /\ (e <= Len(a) => Separator(a[e]))
  BY PartEndIs
<1> QED BY <1>1, <1>2

\* One round of the loop, what is left being compared as rest says.
Round(a, b, p, q, rest) ==
  IF p > Len(a) \/ q > Len(b)
  THEN (IF q > Len(b) THEN 1 ELSE 0) - (IF p > Len(a) THEN 1 ELSE 0)
  ELSE LET partp == PartBegin(a, p)
           partq == PartBegin(b, q)
           endp == PartEnd(a, partp)
           endq == PartEnd(b, partq)
           rank == SeparatorRank(a, p, partp) - SeparatorRank(b, q, partq)
           part == PartCompare(SubSeq(a, partp, endp - 1), SubSeq(b, partq, endq - 1))
       IN  IF rank # 0 THEN rank ELSE IF part # 0 THEN part ELSE rest[endp][endq]

\* The loop comes to an end: there is a function that its rounds agree with.
LEMMA LoopIsRounds ==
  ASSUME NEW a, NEW b, Len(a) \in Nat, Len(b) \in Nat
  PROVE  \E f : /\ FileNameCompare(a, b) = f[1][1]
                /\ \A p \in 1 .. Len(a) + 1, q \in 1 .. Len(b) + 1 :
                     f[p][q] = Round(a, b, p, q, f)
<1> DEFINE L == Len(a) + 1
           M == Len(b) + 1
           Row(f, p) == [q \in 1 .. M |-> Round(a, b, p, q, f)]
           Loop(f) == [p \in 1 .. L |-> Row(f, p)]
           S == {m \in 1 .. L + 1 : \E f : \A p \in m .. L : f[p] = Row(f, p)}
<1>1. FileNameCompare(a, b) = (CHOOSE f : f = Loop(f))[1][1]
  BY Zenon DEF FileNameCompare, Round
<1>2. ASSUME NEW f, NEW g, NEW p \in 1 .. L, \A r \in p + 1 .. L : f[r] = g[r]
      PROVE  Row(f, p) = Row(g, p)
  <2>1. ASSUME NEW q \in 1 .. M PROVE Round(a, b, p, q, f) = Round(a, b, p, q, g)
    <3>1. CASE p > Len(a) \/ q > Len(b)
      BY <3>1 DEF Round
    <3>2. CASE p <= Len(a) /\ q <= Len(b)
      <4>1. PartEnd(a, PartBegin(a, p)) \in p + 1 .. L
        BY <3>2, PartMovesOn
      <4>2. f[PartEnd(a, PartBegin(a, p))] = g[PartEnd(a, PartBegin(a, p))]
        BY <1>2, <4>1
      <4> QED BY <3>2, <4>2 DEF Round
    <3> QED BY <3>1, <3>2
  <2> QED BY <2>1
<1>3. L + 1 \in S
  <2>1. \A p \in L + 1 .. L : FALSE
    OBVIOUS
  <2>2. L + 1 \in 1 .. L + 1
    OBVIOUS
  <2> HIDE DEF L, Row
  <2>3. \E f : \A p \in L + 1 .. L : f[p] = Row(f, p)
    BY <2>1
  <2> QED BY <2>2, <2>3
<1>4. S \in SUBSET Nat
  OBVIOUS
<1>5. PICK m \in S : \A n \in S : m <= n
  <2> HIDE DEF S
  <2> QED BY <1>3, <1>4, LeastNumber
<1>6. PICK f : \A p \in m .. L : f[p] = Row(f, p)
  OBVIOUS
<1>7. m = 1
  <2>1. SUFFICES ASSUME m # 1 PROVE FALSE
    OBVIOUS
  <2>2. m \in Nat /\ m - 1 \in 1 .. L /\ m - 1 \in 1 .. L + 1 /\ ~(m <= m - 1)
    BY <2>1
  <2> DEFINE g == [p \in 1 .. L |-> IF p = m - 1 THEN Row(f, m - 1) ELSE f[p]]
  <2>3. ASSUME NEW p \in m - 1 .. L PROVE g[p] = Row(g, p)
    <3>1. p \in 1 .. L
      BY <2>2
    <3>2. \A r \in p + 1 .. L : g[r] = f[r]
      BY <2>2
    <3> HIDE DEF Row
    <3>3. g[p] = Row(f, p)
      BY <1>6, <2>2, <3>1
    <3> HIDE DEF g
    <3> QED BY <1>2, <3>1, <3>2, <3>3
  <2>4. m - 1 \in S
    <3> HIDE DEF g, Row
    <3> QED BY <2>2, <2>3
  <2> HIDE DEF S
  <2> QED BY <1>5, <2>2, <2>4
<1> DEFINE h == [p \in 1 .. L |-> f[p]]
<1>8. h = Loop(h)
  <2>1. ASSUME NEW p \in 1 .. L PROVE f[p] = Row(h, p)
    <3>1. \A r \in p + 1 .. L : h[r] = f[r]
      OBVIOUS
    <3> HIDE DEF Row, h
    <3>2. f[p] = Row(f, p)
      BY <1>6, <1>7
    <3> QED BY <1>2, <3>1, <3>2
  <2> HIDE DEF Row
  <2> QED BY <2>1
<1>9. PICK c : c = Loop(c) /\ FileNameCompare(a, b) = c[1][1]
  <2> HIDE DEF h, Loop
  <2> QED BY <1>1, <1>8
<1>10. ASSUME NEW p \in 1 .. L, NEW q \in 1 .. M PROVE c[p][q] = Round(a, b, p, q, c)
  <2>1. c[p] = Row(c, p)
    BY <1>9
  <2> QED BY <2>1
<1> QED BY <1>9, <1>10

LEMMA PartBehind ==
  ASSUME NEW a, WellSpelled(a), NEW p \in Place, p <= Len(a), Separator(a[p])
  PROVE  \E e \in p + 1 .. Len(a) + 1 :
           /\ PartBegin(a, p) = p + 1
           /\ PartEnd(a, p + 1) = e
           /\ SeparatorRank(a, p, p + 1) = IF a[p] = Colon THEN 1 ELSE 2
           /\ \A k \in p + 1 .. e - 1 : ~Separator(a[k])
           /\ e <= Len(a) => Separator(a[e])
           /\ SubSeq(a, p + 1, e - 1) \in Codes
           /\ Len(SubSeq(a, p + 1, e - 1)) = e - p - 1
           /\ \A j \in Place : j <= e - p - 1 => SubSeq(a, p + 1, e - 1)[j] = a[p + j]
<1>0. Len(a) \in Nat /\ p \in Nat \ {0}
  BY LenProperties DEF WellSpelled, Codes, Place
<1>1. PICK b \in p .. Len(a) + 1 : /\ b = PartBegin(a, p)
                                   /\ \A k \in p .. b - 1 : Separator(a[k])
                                   /\ b <= Len(a) => ~Separator(a[b])
  BY <1>0, PartBeginIs
<1>2. b = p + 1
  <2>1. b # p
    BY <1>0, <1>1
  <2>2. ~(p + 1 \in p .. b - 1)
    BY <1>0, <1>1 DEF WellSpelled
  <2> QED BY <1>0, <1>1, <2>1, <2>2
<1>3. PICK e \in p + 1 .. Len(a) + 1 : /\ e = PartEnd(a, p + 1)
                                       /\ \A k \in p + 1 .. e - 1 : ~Separator(a[k])
                                       /\ e <= Len(a) => Separator(a[e])
  <2>1. p + 1 \in 1 .. Len(a) + 1
    BY <1>0
  <2> QED BY <1>0, <2>1, PartEndIs
<1>4. SeparatorRank(a, p, p + 1) = IF a[p] = Colon THEN 1 ELSE 2
  BY <1>0 DEF SeparatorRank
<1>5. \A k \in p + 1 .. e - 1 : a[k] \in Chars
  BY <1>0, <1>3, ElementOfSeq DEF WellSpelled, Codes
<1>6. /\ SubSeq(a, p + 1, e - 1) \in Seq(Chars)
      /\ Len(SubSeq(a, p + 1, e - 1)) = IF p + 1 <= e - 1 THEN (e - 1) - (p + 1) + 1 ELSE 0
      /\ \A i \in 1 .. (e - 1) - (p + 1) + 1 : SubSeq(a, p + 1, e - 1)[i] = a[(p + 1) + i - 1]
  <2>1. p + 1 \in Int /\ e - 1 \in Int
    BY <1>0
  <2> QED BY <1>5, <2>1, SubSeqProperties
<1>7. Len(SubSeq(a, p + 1, e - 1)) = e - p - 1
  BY <1>0, <1>3, <1>6
<1>8. ASSUME NEW j \in Place, j <= e - p - 1
      PROVE  SubSeq(a, p + 1, e - 1)[j] = a[p + j]
  <2>1. j \in 1 .. (e - 1) - (p + 1) + 1 /\ (p + 1) + j - 1 = p + j
    BY <1>0, <1>3, <1>8 DEF Place
  <2> QED BY <1>6, <2>1
<1> QED BY <1>1, <1>2, <1>3, <1>4, <1>6, <1>7, <1>8 DEF Codes

\* What a comparison of a and b has to return.
Decides(a, b, res) ==
  /\ res \in Int
  /\ res < 0 <=> Before(a, b)
  /\ res = 0 <=> Alike(a, b)

LEMMA DecidedAt ==
  ASSUME NEW a \in Codes, NEW b \in Codes, NEW k \in Place, AgreeBefore(a, b, k),
         NEW res \in Int, res # 0, KeyAt(a, k) # KeyAt(b, k),
         res < 0 <=> KeyAt(a, k) < KeyAt(b, k)
  PROVE  Decides(a, b, res)
BY BeforeAt DEF Decides, DifferAt

\* The head of the loop: p and q are at one place, and a and b agree up to it.
LoopHead(a, b, p) ==
  /\ p \in Place /\ p <= Len(a) + 1 /\ p <= Len(b) + 1
  /\ AgreeBefore(a, b, p)
  /\ p <= Len(a) => Separator(a[p])
  /\ p <= Len(b) => Separator(b[p])

\* A round finds the first difference or passes one part that is alike.
LEMMA RoundDecidesOrPasses ==
  ASSUME NEW a, NEW b, WellSpelled(a), WellSpelled(b), NEW p, LoopHead(a, b, p), NEW f
  PROVE  \/ Decides(a, b, Round(a, b, p, p, f))
         \/ \E e \in Place : /\ e > p /\ LoopHead(a, b, e)
                             /\ Round(a, b, p, p, f) = f[e][e]
<1>0. /\ a \in Codes /\ b \in Codes /\ Len(a) \in Nat /\ Len(b) \in Nat
      /\ p \in Nat \ {0} /\ p \in Place /\ AgreeBefore(a, b, p)
      /\ p <= Len(a) + 1 /\ p <= Len(b) + 1
  BY LenProperties DEF WellSpelled, Codes, Place, LoopHead
<1>1. CASE p > Len(a) /\ p > Len(b)
  <2>1. Round(a, b, p, p, f) = 0
    BY <1>1 DEF Round
  <2>2. Len(a) = p - 1 /\ Len(b) = p - 1
    BY <1>0, <1>1
  <2>3. \A k \in Place : k >= p => KeyAt(a, k) = KeyAt(b, k)
    BY <1>0, <2>2 DEF Place, KeyAt
  <2>4. Alike(a, b)
    BY <1>0, <2>3 DEF Alike, AgreeBefore, Place
  <2>5. ~Before(a, b)
    BY <1>0, <2>4, BeforeIsStrict
  <2> QED BY <2>1, <2>4, <2>5 DEF Decides
<1>2. CASE p > Len(a) /\ p <= Len(b)
  <2>1. Round(a, b, p, p, f) = -1
    BY <1>0, <1>2 DEF Round
  <2>2. KeyAt(a, p) = -3 /\ KeyAt(b, p) > -3 /\ KeyAt(b, p) \in Int
    BY <1>0, <1>2, KeyAtType
  <2> QED BY <1>0, <2>1, <2>2, DecidedAt
<1>3. CASE p <= Len(a) /\ p > Len(b)
  <2>1. Round(a, b, p, p, f) = 1
    BY <1>0, <1>3 DEF Round
  <2>2. KeyAt(b, p) = -3 /\ KeyAt(a, p) > -3 /\ KeyAt(a, p) \in Int
    BY <1>0, <1>3, KeyAtType
  <2> QED BY <1>0, <2>1, <2>2, DecidedAt
<1>4. CASE p <= Len(a) /\ p <= Len(b)
  <2>0. Separator(a[p]) /\ Separator(b[p])
    BY <1>4 DEF LoopHead
  <2>1. PICK e \in p + 1 .. Len(a) + 1 :
           /\ PartBegin(a, p) = p + 1
           /\ PartEnd(a, p + 1) = e
           /\ SeparatorRank(a, p, p + 1) = IF a[p] = Colon THEN 1 ELSE 2
           /\ \A k \in p + 1 .. e - 1 : ~Separator(a[k])
           /\ e <= Len(a) => Separator(a[e])
           /\ SubSeq(a, p + 1, e - 1) \in Codes
           /\ Len(SubSeq(a, p + 1, e - 1)) = e - p - 1
           /\ \A j \in Place : j <= e - p - 1 => SubSeq(a, p + 1, e - 1)[j] = a[p + j]
    BY <1>0, <1>4, <2>0, PartBehind
  <2>2. PICK d \in p + 1 .. Len(b) + 1 :
           /\ PartBegin(b, p) = p + 1
           /\ PartEnd(b, p + 1) = d
           /\ SeparatorRank(b, p, p + 1) = IF b[p] = Colon THEN 1 ELSE 2
           /\ \A k \in p + 1 .. d - 1 : ~Separator(b[k])
           /\ d <= Len(b) => Separator(b[d])
           /\ SubSeq(b, p + 1, d - 1) \in Codes
           /\ Len(SubSeq(b, p + 1, d - 1)) = d - p - 1
           /\ \A j \in Place : j <= d - p - 1 => SubSeq(b, p + 1, d - 1)[j] = b[p + j]
    BY <1>0, <1>4, <2>0, PartBehind
  <2>3. PICK s \in Codes : s = SubSeq(a, p + 1, e - 1)
    BY <2>1
  <2>4. PICK t \in Codes : t = SubSeq(b, p + 1, d - 1)
    BY <2>2
  <2> DEFINE rank == SeparatorRank(a, p, p + 1) - SeparatorRank(b, p, p + 1)
             part == PartCompare(s, t)
  <2>5. Round(a, b, p, p, f) = IF rank # 0 THEN rank ELSE IF part # 0 THEN part ELSE f[e][d]
    <3>1. ~(p > Len(a) \/ p > Len(b))
      BY <1>0, <1>4
    <3> QED BY <2>1, <2>2, <2>3, <2>4, <3>1, Zenon DEF Round
  <2>6. /\ e \in Place /\ e > p /\ e <= Len(a) + 1 /\ d \in Place /\ d > p /\ d <= Len(b) + 1
        /\ a[p] \in Chars /\ b[p] \in Chars /\ KeyAt(a, p) = Key(a[p]) /\ KeyAt(b, p) = Key(b[p])
    <3>1. e \in Place /\ e > p /\ e <= Len(a) + 1 /\ d \in Place /\ d > p /\ d <= Len(b) + 1
      BY <1>0, <2>1, <2>2 DEF Place
    <3> QED BY <1>0, <1>4, <3>1, KeyAtType
  <2>7. CASE a[p] # b[p]
    <3>1. KeyAt(a, p) # KeyAt(b, p) /\ rank \in Int /\ rank # 0
          /\ (rank < 0 <=> KeyAt(a, p) < KeyAt(b, p))
      <4>1. (a[p] = Colon /\ b[p] = Backslash) \/ (a[p] = Backslash /\ b[p] = Colon)
        BY <2>0, <2>7 DEF Separator
      <4>2. Colon # Backslash /\ Key(Colon) = -2 /\ Key(Backslash) = -1
        BY DEF Key, Colon, Backslash
      <4>3. CASE a[p] = Colon /\ b[p] = Backslash
        <5>1. rank = -1
          BY <2>1, <2>2, <4>2, <4>3
        <5> HIDE DEF rank
        <5> QED BY <2>6, <4>2, <4>3, <5>1
      <4>4. CASE a[p] = Backslash /\ b[p] = Colon
        <5>1. rank = 1
          BY <2>1, <2>2, <4>2, <4>4
        <5> HIDE DEF rank
        <5> QED BY <2>6, <4>2, <4>4, <5>1
      <4> QED BY <4>1, <4>3, <4>4
    <3>2. Round(a, b, p, p, f) = rank
      BY <2>5, <3>1
    <3> HIDE DEF rank
    <3> QED BY <1>0, <3>1, <3>2, DecidedAt
  <2>8. CASE a[p] = b[p]
    <3>1. rank = 0
      BY <2>1, <2>2, <2>8
    <3>2. Round(a, b, p, p, f) = IF part # 0 THEN part ELSE f[e][d]
      BY <2>5, <3>1
    <3>3. ASSUME NEW j \in Place, j <= e - p - 1
          PROVE  /\ p + j \in Place /\ s[j] = a[p + j] /\ a[p + j] \in Chars
                 /\ KeyAt(a, p + j) = CaseOf(s[j]) /\ CaseOf(s[j]) \in Nat
      <4>1. p + j \in p + 1 .. e - 1 /\ p + j <= Len(a) /\ p + j \in Place
        BY <1>0, <2>6, <3>3 DEF Place
      <4>2. s[j] = a[p + j] /\ ~Separator(a[p + j])
        BY <2>1, <2>3, <3>3, <4>1
      <4>3. a[p + j] \in Chars /\ KeyAt(a, p + j) = Key(a[p + j])
        BY <1>0, <4>1, KeyAtType
      <4> QED BY <4>1, <4>2, <4>3, KeyFacts, CaseOfFacts
    <3>4. ASSUME NEW j \in Place, j <= d - p - 1
          PROVE  /\ p + j \in Place /\ t[j] = b[p + j] /\ b[p + j] \in Chars
                 /\ KeyAt(b, p + j) = CaseOf(t[j]) /\ CaseOf(t[j]) \in Nat
      <4>1. p + j \in p + 1 .. d - 1 /\ p + j <= Len(b) /\ p + j \in Place
        BY <1>0, <2>6, <3>4 DEF Place
      <4>2. t[j] = b[p + j] /\ ~Separator(b[p + j])
        BY <2>2, <2>4, <3>4, <4>1
      <4>3. b[p + j] \in Chars /\ KeyAt(b, p + j) = Key(b[p + j])
        BY <1>0, <4>1, KeyAtType
      <4> QED BY <4>1, <4>2, <4>3, KeyFacts, CaseOfFacts
    <3>5. AgreeBefore(a, b, p + 1)
      BY <1>0, <2>6, <2>8 DEF AgreeBefore, Place
    <3> DEFINE differ == {j \in Place : j <= e - p - 1 /\ j <= d - p - 1 /\ CaseOf(s[j]) # CaseOf(t[j])}
    <3>6. Len(s) = e - p - 1 /\ Len(t) = d - p - 1
      BY <2>1, <2>2, <2>3, <2>4
    <3>7. ASSUME NEW i \in Place, i <= e - p, i <= d - p, \A j \in Place : j < i => j \notin differ
          PROVE  AgreeBefore(a, b, p + i)
      <4>1. ASSUME NEW k \in Place, k < p + i, k > p PROVE KeyAt(a, k) = KeyAt(b, k)
        <5>1. k - p \in Place /\ k - p < i /\ k - p <= e - p - 1 /\ k - p <= d - p - 1 /\ p + (k - p) = k
          BY <1>0, <2>6, <3>7, <4>1 DEF Place
        <5>2. k - p \notin differ
          BY <3>7, <5>1
        <5>3. CaseOf(s[k - p]) = CaseOf(t[k - p])
          BY <5>1, <5>2
        <5> QED BY <3>3, <3>4, <5>1, <5>3
      <4> QED BY <1>0, <3>5, <4>1 DEF AgreeBefore, Place
    <3>8. CASE differ # {}
      <4>1. differ \in SUBSET Nat
        BY DEF Place
      <4>2. PICK i \in differ : \A j \in differ : i <= j
        <5> HIDE DEF differ
        <5> QED BY <3>8, <4>1, LeastNumber
      <4>3. i \in Place /\ i <= e - p - 1 /\ i <= d - p - 1 /\ CaseOf(s[i]) # CaseOf(t[i])
        BY <4>2
      <4>4. \A j \in Place : j < i => j \notin differ
        BY <4>2, <4>3 DEF Place
      <4>5. AgreeBefore(a, b, p + i)
        <5> HIDE DEF differ
        <5>1. i <= e - p /\ i <= d - p
          BY <1>0, <2>6, <4>3 DEF Place
        <5> QED BY <3>7, <4>3, <4>4, <5>1
      <4>6. ASSUME NEW j \in Place, j < i PROVE CaseOf(s[j]) = CaseOf(t[j])
        <5>1. j <= e - p - 1 /\ j <= d - p - 1
          BY <1>0, <2>6, <4>3, <4>6 DEF Place
        <5>2. j \notin differ
          BY <4>4, <4>6
        <5> QED BY <5>1, <5>2
      <4>7. part = CaseOf(s[i]) - CaseOf(t[i])
        BY <3>6, <4>3, <4>6, PartCompareFacts
      <4>8. /\ KeyAt(a, p + i) = CaseOf(s[i]) /\ KeyAt(b, p + i) = CaseOf(t[i]) /\ p + i \in Place
            /\ CaseOf(s[i]) \in Nat /\ CaseOf(t[i]) \in Nat
        BY <3>3, <3>4, <4>3
      <4> HIDE DEF part, differ
      <4>9. part \in Int /\ part # 0 /\ (part < 0 <=> KeyAt(a, p + i) < KeyAt(b, p + i))
        BY <4>3, <4>7, <4>8
      <4>10. Round(a, b, p, p, f) = part /\ KeyAt(a, p + i) # KeyAt(b, p + i)
        BY <3>2, <4>3, <4>8, <4>9
      <4> QED BY <1>0, <4>5, <4>8, <4>9, <4>10, DecidedAt
    <3>9. CASE differ = {}
      <4>1. part = e - d
        <5>1. \A j \in Place : j <= Len(s) /\ j <= Len(t) => CaseOf(s[j]) = CaseOf(t[j])
          BY <3>6, <3>9
        <5>2. part = Len(s) - Len(t)
          BY <5>1, PartCompareFacts
        <5> QED BY <1>0, <2>6, <3>6, <5>2 DEF Place
      <4>2. ASSUME NEW k \in Place, k > p, k <= e, k <= d PROVE AgreeBefore(a, b, k)
        <5>1. k - p \in Place /\ k - p <= e - p /\ k - p <= d - p /\ p + (k - p) = k
          BY <1>0, <2>6, <4>2 DEF Place
        <5> HIDE DEF differ
        <5> QED BY <3>7, <3>9, <5>1
      <4> HIDE DEF part, differ
      <4>3. CASE e < d
        <5>1. KeyAt(a, e) < 0 /\ KeyAt(b, e) >= 0 /\ KeyAt(a, e) \in Int /\ KeyAt(b, e) \in Int
          <6>1. KeyAt(a, e) < 0 /\ KeyAt(a, e) \in Int /\ KeyAt(b, e) \in Int
            <7>1. e \in Int /\ (e <= Len(a) => KeyAt(a, e) < 0) /\ (e > Len(a) => KeyAt(a, e) = -3)
              <8>1. e <= Len(a) => Separator(a[e])
                BY <2>1
              <8>2. e <= Len(a) => (Separator(a[e]) <=> KeyAt(a, e) < 0)
                BY <1>0, <2>6, KeyAtType
              <8>3. e > Len(a) => KeyAt(a, e) = -3
                BY <1>0, <2>6, KeyAtType
              <8> QED BY <2>6, <8>1, <8>2, <8>3 DEF Place
            <7> QED BY <1>0, <2>6, <7>1, KeyAtType
          <6>2. e \in p + 1 .. d - 1 /\ e <= Len(b)
            BY <1>0, <2>6, <4>3 DEF Place
          <6> QED BY <1>0, <2>2, <2>6, <6>1, <6>2, KeyAtType
        <5>2. part \in Int /\ part < 0
          BY <2>6, <4>1, <4>3 DEF Place
        <5>3. AgreeBefore(a, b, e)
          BY <2>6, <4>2, <4>3 DEF Place
        <5>4. Round(a, b, p, p, f) = part
          BY <3>2, <5>2
        <5>5. KeyAt(a, e) < KeyAt(b, e) /\ KeyAt(a, e) # KeyAt(b, e) /\ part # 0
          BY <5>1, <5>2
        <5> QED BY <1>0, <2>6, <5>2, <5>3, <5>4, <5>5, DecidedAt
      <4>4. CASE d < e
        <5>1. KeyAt(b, d) < 0 /\ KeyAt(a, d) >= 0 /\ KeyAt(a, d) \in Int /\ KeyAt(b, d) \in Int
          <6>1. KeyAt(b, d) < 0 /\ KeyAt(a, d) \in Int /\ KeyAt(b, d) \in Int
            <7>1. d \in Int /\ (d <= Len(b) => KeyAt(b, d) < 0) /\ (d > Len(b) => KeyAt(b, d) = -3)
              <8>1. d <= Len(b) => Separator(b[d])
                BY <2>2
              <8>2. d <= Len(b) => (Separator(b[d]) <=> KeyAt(b, d) < 0)
                BY <1>0, <2>6, KeyAtType
              <8>3. d > Len(b) => KeyAt(b, d) = -3
                BY <1>0, <2>6, KeyAtType
              <8> QED BY <2>6, <8>1, <8>2, <8>3 DEF Place
            <7> QED BY <1>0, <2>6, <7>1, KeyAtType
          <6>2. d \in p + 1 .. e - 1 /\ d <= Len(a)
            BY <1>0, <2>6, <4>4 DEF Place
          <6> QED BY <1>0, <2>1, <2>6, <6>1, <6>2, KeyAtType
        <5>2. part \in Int /\ part > 0
          BY <2>6, <4>1, <4>4 DEF Place
        <5>3. AgreeBefore(a, b, d)
          BY <2>6, <4>2, <4>4 DEF Place
        <5>4. Round(a, b, p, p, f) = part
          BY <3>2, <5>2
        <5>5. ~(KeyAt(a, d) < KeyAt(b, d)) /\ KeyAt(a, d) # KeyAt(b, d) /\ part # 0 /\ ~(part < 0)
          BY <5>1, <5>2
        <5> QED BY <1>0, <2>6, <5>2, <5>3, <5>4, <5>5, DecidedAt
      <4>5. CASE e = d
        <5>1. Round(a, b, p, p, f) = f[e][e]
          BY <2>6, <3>2, <4>1, <4>5 DEF Place
        <5>2. AgreeBefore(a, b, e)
          BY <2>6, <4>2, <4>5 DEF Place
        <5>3. LoopHead(a, b, e)
          BY <2>1, <2>2, <2>6, <4>5, <5>2 DEF LoopHead
        <5> QED BY <2>6, <5>1, <5>3
      <4> QED BY <2>6, <4>3, <4>4, <4>5 DEF Place
    <3> QED BY <3>8, <3>9
  <2> QED BY <2>7, <2>8
<1> QED BY <1>0, <1>1, <1>2, <1>3, <1>4

\* FileNameCompare, component by component, orders names as their characters
\* do from left to right, the separators before all others.
THEOREM CompareIsLexicographic ==
  ASSUME NEW a, NEW b, WellSpelled(a), WellSpelled(b)
  PROVE  /\ FileNameCompare(a, b) \in Int
         /\ FileNameCompare(a, b) < 0 <=> Before(a, b)
         /\ FileNameCompare(a, b) = 0 <=> Alike(a, b)
<1>0. Len(a) \in Nat /\ Len(b) \in Nat /\ Len(a) >= 1 /\ Len(b) >= 1
  BY LenProperties DEF WellSpelled, Codes
<1>1. PICK f : /\ FileNameCompare(a, b) = f[1][1]
               /\ \A p \in 1 .. Len(a) + 1, q \in 1 .. Len(b) + 1 :
                    f[p][q] = Round(a, b, p, q, f)
  BY <1>0, LoopIsRounds
<1> DEFINE S == {p \in Place : LoopHead(a, b, p) /\ f[p][p] = f[1][1]}
<1>2. 1 \in S
  <2>1. AgreeBefore(a, b, 1)
    BY DEF AgreeBefore, Place
  <2> QED BY <1>0, <2>1 DEF LoopHead, WellSpelled, Place
<1>3. S \in SUBSET Nat /\ Len(a) + 1 \in Nat /\ \A p \in S : p <= Len(a) + 1
  BY <1>0 DEF LoopHead, Place
<1>4. PICK p \in S : \A m \in S : m <= p
  <2> HIDE DEF S
  <2> QED BY <1>2, <1>3, GreatestNumber
<1>5. p \in Place /\ LoopHead(a, b, p) /\ f[p][p] = f[1][1]
  OBVIOUS
<1>6. f[p][p] = Round(a, b, p, p, f)
  <2>1. p \in 1 .. Len(a) + 1 /\ p \in 1 .. Len(b) + 1
    BY <1>0, <1>5 DEF LoopHead, Place
  <2> QED BY <1>1, <2>1
<1>7. ASSUME NEW e \in Place, e > p, LoopHead(a, b, e), Round(a, b, p, p, f) = f[e][e]
      PROVE  FALSE
  <2>1. e \in S
    BY <1>5, <1>6, <1>7
  <2> HIDE DEF S
  <2> QED BY <1>4, <1>5, <1>7, <2>1 DEF Place
<1>8. Decides(a, b, Round(a, b, p, p, f))
  BY <1>5, <1>7, RoundDecidesOrPasses
<1> QED BY <1>1, <1>5, <1>6, <1>8 DEF Decides

-----------------------------------------------------------------------------
(* How names are spelled. *)

\* One component or the name of one stream.
IsPart(c) ==
  /\ c \in Codes /\ Len(c) \in Nat \ {0}
  /\ \A k \in 1 .. Len(c) : ~Separator(c[k])

LEMMA PartsAreParts ==
  ASSUME OnlyAscii, NEW c \in Components \cup Streams
  PROVE  IsPart(c)
<1>1. c \in Seq(Nat) /\ c # <<>>
  BY SpellingAssumption
<1>2. Len(c) \in Nat \ {0} /\ DOMAIN c = 1 .. Len(c)
  BY <1>1, EmptySeq, LenProperties
<1>3. ASSUME NEW k \in 1 .. Len(c) PROVE c[k] \in Chars /\ ~Separator(c[k])
  <2>1. c[k] \in Nat
    BY <1>1, ElementOfSeq
  <2> QED BY <1>2, <2>1, SpellingAssumption DEF OnlyAscii, Chars
<1>4. c \in Seq(Chars)
  <2>1. c = [k \in 1 .. Len(c) |-> c[k]]
    BY <1>1, LenProperties
  <2>2. [k \in 1 .. Len(c) |-> c[k]] \in Seq(Chars)
    BY <1>2, <1>3, IsASeq
  <2> QED BY <2>1, <2>2
<1> QED BY <1>2, <1>3, <1>4 DEF IsPart, Codes

LEMMA PartsDiffer ==
  ASSUME OnlyAscii, NEW S, S = Components \/ S = Streams, NEW c \in S, NEW e \in S,
         Len(c) = Len(e), \A k \in 1 .. Len(c) : CaseOf(c[k]) = CaseOf(e[k])
  PROVE  c = e
<1>1. IsPart(c) /\ IsPart(e)
  BY PartsAreParts
<1>2. DOMAIN c = 1 .. Len(c) /\ DOMAIN e = 1 .. Len(e)
  BY <1>1, LenProperties DEF IsPart, Codes
<1>3. \A k \in 1 .. Len(c) : c[k] \in Chars /\ e[k] \in Chars
  BY <1>1, ElementOfSeq DEF IsPart, Codes
<1>4. CASE CaseInsensitive
  <2>1. \A k \in 1 .. Len(c) : /\ CaseOf(c[k]) = IF c[k] \in 97 .. 122 THEN c[k] - 32 ELSE c[k]
                               /\ CaseOf(e[k]) = IF e[k] \in 97 .. 122 THEN e[k] - 32 ELSE e[k]
    BY <1>3, <1>4, CaseOfFacts
  <2>2. Folded(c) = [k \in 1 .. Len(c) |-> CaseOf(c[k])]
    BY <1>2, <2>1 DEF Folded
  <2>3. Folded(e) = [k \in 1 .. Len(c) |-> CaseOf(e[k])]
    BY <1>2, <2>1 DEF Folded
  <2>4. Folded(c) = Folded(e)
    BY <2>2, <2>3
  <2>5. IsInjective([name \in S |-> Folded(name)])
    BY <1>4, SpellingAssumption
  <2> QED BY <2>4, <2>5 DEF IsInjective
<1>5. CASE ~CaseInsensitive
  <2>1. \A k \in 1 .. Len(c) : c[k] = e[k]
    BY <1>5 DEF CaseOf
  <2> QED BY <1>1, <2>1, SeqEqual DEF IsPart, Codes
<1> QED BY <1>4, <1>5

LEMMA FlattenRounds ==
  ASSUME NEW s, Len(s) \in Nat \ {0}
  PROVE  \E f : /\ FlattenSeq(s) = f[Len(s)] /\ f[1] = s[1]
                /\ \A i \in 2 .. Len(s) : f[i] = f[i - 1] \o s[i]
<1> DEFINE n == Len(s)
           Loop(f) == [i \in 1 .. n |-> IF i = 1 THEN s[i] ELSE f[i - 1] \o s[i]]
           S == {m \in 1 .. n : \E f : f[1] = s[1] /\ \A i \in 2 .. m : f[i] = f[i - 1] \o s[i]}
<1>1. FlattenSeq(s) = (CHOOSE f : f = Loop(f))[n]
  <2>1. Len(s) # 0
    OBVIOUS
  <2> QED BY <2>1, Zenon DEF FlattenSeq
<1>2. 1 \in S
  <2>1. [i \in {1} |-> s[1]][1] = s[1] /\ 1 \in 1 .. n /\ \A i \in 2 .. 1 : FALSE
    OBVIOUS
  <2> HIDE DEF n
  <2>2. \E f : f[1] = s[1] /\ \A i \in 2 .. 1 : f[i] = f[i - 1] \o s[i]
    BY <2>1
  <2> QED BY <2>1, <2>2
<1>3. S \subseteq 1 .. n
  BY Zenon
<1>4. PICK m \in S : \A k \in S : k <= m
  <2> HIDE DEF S
  <2>1. S \in SUBSET Nat /\ n \in Nat /\ \A k \in S : k <= n
    BY <1>3
  <2> HIDE DEF n
  <2> QED BY <1>2, <2>1, GreatestNumber
<1>5. PICK f : f[1] = s[1] /\ \A i \in 2 .. m : f[i] = f[i - 1] \o s[i]
  OBVIOUS
<1>6. m = n
  <2>1. SUFFICES ASSUME m # n PROVE FALSE
    OBVIOUS
  <2>2. m \in Nat /\ m >= 1 /\ m + 1 \in 1 .. n /\ ~(m + 1 <= m)
    BY <2>1
  <2> DEFINE g == [i \in 1 .. m + 1 |-> IF i = m + 1 THEN f[m] \o s[m + 1] ELSE f[i]]
  <2>3. g[1] = s[1]
    BY <1>5, <2>2
  <2>4. ASSUME NEW i \in 2 .. m + 1 PROVE g[i] = g[i - 1] \o s[i]
    <3>1. CASE i = m + 1
      <4>1. m \in 1 .. m + 1 /\ m + 1 \in 1 .. m + 1 /\ m # m + 1 /\ i - 1 = m
        BY <2>2, <3>1
      <4>2. g[m] = f[m] /\ g[m + 1] = f[m] \o s[m + 1]
        BY <4>1
      <4> QED BY <3>1, <4>1, <4>2
    <3>2. CASE i # m + 1
      <4>1. i \in 2 .. m /\ i \in 1 .. m + 1 /\ i - 1 \in 1 .. m + 1 /\ i - 1 # m + 1
        BY <2>2, <3>2
      <4>2. g[i] = f[i] /\ g[i - 1] = f[i - 1]
        BY <3>2, <4>1
      <4> QED BY <1>5, <4>1, <4>2
    <3> QED BY <3>1, <3>2
  <2>5. m + 1 \in S
    <3> HIDE DEF g, n
    <3> QED BY <2>2, <2>3, <2>4
  <2> HIDE DEF S
  <2> QED BY <1>4, <2>2, <2>5
<1> DEFINE h == [i \in 1 .. n |-> f[i]]
<1>7. h = Loop(h)
  <2>1. ASSUME NEW i \in 1 .. n
        PROVE  f[i] = IF i = 1 THEN s[i] ELSE h[i - 1] \o s[i]
    <3>1. CASE i = 1
      BY <1>5, <3>1
    <3>2. CASE i # 1
      <4>1. i \in 2 .. m /\ i - 1 \in 1 .. n
        BY <1>6, <3>2
      <4>2. h[i - 1] = f[i - 1]
        BY <4>1
      <4> QED BY <1>5, <3>2, <4>1, <4>2
    <3> QED BY <3>1, <3>2
  <2> QED BY <2>1
<1>8. PICK c : c = Loop(c) /\ FlattenSeq(s) = c[n]
  <2> HIDE DEF h, Loop
  <2> QED BY <1>1, <1>7
<1>9. c[1] = s[1]
  <2>1. 1 \in 1 .. n
    OBVIOUS
  <2>2. c[1] = Loop(c)[1]
    BY <1>8
  <2> QED BY <2>1, <2>2
<1>10. ASSUME NEW i \in 2 .. n PROVE c[i] = c[i - 1] \o s[i]
  <2>1. i \in 1 .. n /\ i # 1
    OBVIOUS
  <2>2. c[i] = Loop(c)[i]
    BY <1>8
  <2> QED BY <2>1, <2>2
<1> QED BY <1>8, <1>9, <1>10

\* Flattening goes from left to right.
LEMMA FlattenStep ==
  ASSUME NEW s, NEW t, NEW n \in Nat \ {0}, Len(s) = n + 1, Len(t) = n,
         \A i \in 1 .. n : t[i] = s[i]
  PROVE  FlattenSeq(s) = FlattenSeq(t) \o s[n + 1]
<1>0. Len(s) \in Nat \ {0} /\ Len(t) \in Nat \ {0} /\ (n + 1) - 1 = n /\ n + 1 \in 2 .. n + 1
  OBVIOUS
<1>1. PICK f : /\ FlattenSeq(s) = f[n + 1] /\ f[1] = s[1]
               /\ \A i \in 2 .. n + 1 : f[i] = f[i - 1] \o s[i]
  <2>1. \E f : /\ FlattenSeq(s) = f[Len(s)] /\ f[1] = s[1]
               /\ \A i \in 2 .. Len(s) : f[i] = f[i - 1] \o s[i]
    BY <1>0, FlattenRounds
  <2> QED BY <2>1
<1>2. PICK g : /\ FlattenSeq(t) = g[n] /\ g[1] = t[1]
               /\ \A i \in 2 .. n : g[i] = g[i - 1] \o t[i]
  <2>1. \E h : /\ FlattenSeq(t) = h[Len(t)] /\ h[1] = t[1]
               /\ \A i \in 2 .. Len(t) : h[i] = h[i - 1] \o t[i]
    BY <1>0, FlattenRounds
  <2> QED BY <2>1
<1> DEFINE S == {i \in 1 .. n : f[i] # g[i]}
<1>3. S = {}
  <2>1. SUFFICES ASSUME S # {} PROVE FALSE
    OBVIOUS
  <2>2. S \in SUBSET Nat
    OBVIOUS
  <2>3. PICK i \in S : \A j \in S : i <= j
    <3> HIDE DEF S
    <3> QED BY <2>1, <2>2, LeastNumber
  <2>4. i \in 1 .. n /\ f[i] # g[i]
    OBVIOUS
  <2>5. i # 1
    BY <1>1, <1>2, <2>4
  <2>6. i - 1 \in 1 .. n /\ i \in 2 .. n /\ i \in 2 .. n + 1 /\ ~(i <= i - 1)
    BY <2>4, <2>5
  <2>7. f[i - 1] = g[i - 1]
    BY <2>3, <2>6
  <2> QED BY <1>1, <1>2, <2>4, <2>6, <2>7
<1>4. f[n] = g[n]
  <2>1. n \in 1 .. n
    OBVIOUS
  <2> QED BY <1>3, <2>1
<1> QED BY <1>0, <1>1, <1>2, <1>4

LEMMA FlattenOne ==
  ASSUME NEW s, Len(s) = 1
  PROVE  FlattenSeq(s) = s[1]
<1>1. Len(s) \in Nat \ {0}
  OBVIOUS
<1>2. PICK f : FlattenSeq(s) = f[Len(s)] /\ f[1] = s[1]
  BY <1>1, FlattenRounds
<1> QED BY <1>2

LEMMA NamePaths ==
  ASSUME NEW name \in Names
  PROVE  /\ name = Name(name.path, name.stream)
         /\ name.path \in Seq(Components)
         /\ Len(name.path) \in Nat
         /\ name # Root => Len(name.path) \in 1 .. MAX_PATH
         /\ name.stream \in Streams \cup {NoStream}
<1>1. CASE name = Root
  BY <1>1, EmptySeq DEF Root, Name
<1>2. CASE name # Root
  <2>0. PICK n \in 1 .. MAX_PATH :
          \E p \in [1 .. n -> Components], s \in Streams \cup {NoStream} : name = Name(p, s)
    BY <1>2 DEF Names
  <2>1. PICK p \in [1 .. n -> Components], s \in Streams \cup {NoStream} : name = Name(p, s)
    BY <2>0
  <2>2. name.path = p /\ name.stream = s
    BY <2>1 DEF Name
  <2>3. n \in Nat /\ p \in Seq(Components) /\ Len(p) = n
    BY PathAssumption, SeqDef
  <2> QED BY <2>1, <2>2, <2>3
<1> QED BY <1>1, <1>2

LEMMA NamesOfPaths ==
  ASSUME NEW p \in Seq(Components), NEW s \in Streams \cup {NoStream}, Len(p) \in 1 .. MAX_PATH
  PROVE  Name(p, s) \in Names
<1>1. p \in [1 .. Len(p) -> Components]
  BY LenProperties
<1> QED BY <1>1 DEF Names

LEMMA FrontOf ==
  ASSUME NEW S, NEW p \in Seq(S), NEW k \in Nat, Len(p) = k + 1
  PROVE  /\ Front(p) \in Seq(S) /\ Len(Front(p)) = k
         /\ \A i \in 1 .. k : Front(p)[i] = p[i]
         /\ p[k + 1] \in S
<1>1. \A i \in 1 .. k : p[i] \in S
  BY ElementOfSeq
<1>2. Front(p) = SubSeq(p, 1, k)
  BY DEF Front
<1>3. /\ SubSeq(p, 1, k) \in Seq(S)
      /\ Len(SubSeq(p, 1, k)) = IF 1 <= k THEN k - 1 + 1 ELSE 0
      /\ \A i \in 1 .. k - 1 + 1 : SubSeq(p, 1, k)[i] = p[1 + i - 1]
  <2>1. 1 \in Int /\ k \in Int
    OBVIOUS
  <2> QED BY <1>1, <2>1, SubSeqProperties
<1>4. p[k + 1] \in S
  <2>1. k + 1 \in 1 .. Len(p)
    OBVIOUS
  <2> QED BY <2>1, ElementOfSeq
<1>5. \A i \in 1 .. k : SubSeq(p, 1, k)[i] = p[i]
  <2>1. \A i \in 1 .. k : i \in 1 .. k - 1 + 1 /\ 1 + i - 1 = i
    OBVIOUS
  <2> QED BY <1>3, <2>1
<1>6. Len(SubSeq(p, 1, k)) = k
  BY <1>3
<1> QED BY <1>2, <1>3, <1>4, <1>5, <1>6

\* s is u, a separator and c, one behind the other.
IsJoined(s, u, sep, c) ==
  /\ s \in Codes /\ u \in Codes
  /\ Len(s) = Len(u) + 1 + Len(c)
  /\ \A i \in 1 .. Len(u) : s[i] = u[i]
  /\ s[Len(u) + 1] = sep
  /\ \A j \in 1 .. Len(c) : s[Len(u) + 1 + j] = c[j]

LEMMA Joining ==
  ASSUME NEW u \in Codes, NEW sep \in Chars, NEW c \in Codes
  PROVE  /\ IsJoined(u \o (<<sep>> \o c), u, sep, c)
         /\ (u \o <<sep>>) \o c = u \o (<<sep>> \o c)
<1>1. u \in Seq(Chars) /\ c \in Seq(Chars) /\ <<sep>> \in Seq(Chars) /\ Len(<<sep>>) = 1 /\ <<sep>>[1] = sep
  BY DEF Codes
<1>2. Len(u) \in Nat /\ Len(c) \in Nat
  BY <1>1, LenProperties
<1>3. (u \o <<sep>>) \o c = u \o (<<sep>> \o c)
  BY <1>1, ConcatAssociative
<1> DEFINE t == <<sep>> \o c
           s == u \o t
<1>4. /\ t \in Seq(Chars) /\ Len(t) = 1 + Len(c)
      /\ \A i \in 1 .. 1 + Len(c) : t[i] = IF i <= 1 THEN <<sep>>[i] ELSE c[i - 1]
  BY <1>1, ConcatProperties
<1> HIDE DEF t
<1>5. /\ s \in Seq(Chars) /\ Len(s) = Len(u) + Len(t)
      /\ \A i \in 1 .. Len(u) + Len(t) : s[i] = IF i <= Len(u) THEN u[i] ELSE t[i - Len(u)]
  BY <1>1, <1>4, ConcatProperties
<1> HIDE DEF s
<1>6. Len(s) = Len(u) + 1 + Len(c)
  BY <1>2, <1>4, <1>5
<1>7. \A i \in 1 .. Len(u) : s[i] = u[i]
  BY <1>2, <1>4, <1>5
<1>8. s[Len(u) + 1] = sep
  <2>1. Len(u) + 1 \in 1 .. Len(u) + Len(t) /\ ~(Len(u) + 1 <= Len(u)) /\ (Len(u) + 1) - Len(u) = 1
    BY <1>2, <1>4
  <2>2. s[Len(u) + 1] = t[1]
    BY <1>5, <2>1
  <2>3. 1 \in 1 .. 1 + Len(c)
    BY <1>2
  <2> QED BY <1>1, <1>4, <2>2, <2>3
<1>9. ASSUME NEW j \in 1 .. Len(c) PROVE s[Len(u) + 1 + j] = c[j]
  <2>1. /\ Len(u) + 1 + j \in 1 .. Len(u) + Len(t) /\ ~(Len(u) + 1 + j <= Len(u))
        /\ (Len(u) + 1 + j) - Len(u) = 1 + j
    BY <1>2, <1>4
  <2>2. s[Len(u) + 1 + j] = t[1 + j]
    BY <1>5, <2>1
  <2>3. 1 + j \in 1 .. 1 + Len(c) /\ ~(1 + j <= 1) /\ (1 + j) - 1 = j
    BY <1>2
  <2> QED BY <1>4, <2>2, <2>3
<1>10. IsJoined(s, u, sep, c)
  BY <1>1, <1>5, <1>6, <1>7, <1>8, <1>9 DEF IsJoined, Codes
<1> QED BY <1>3, <1>10 DEF s, t

LEMMA SeparatorsAreChars == Backslash \in Chars /\ Colon \in Chars /\ Backslash # Colon
BY DEF Backslash, Colon, Chars

LEMMA NothingIsSpelled == <<>> \in Codes /\ Len(<<>>) = 0
BY EmptySeq DEF Codes

\* A path as Spell has it, but for the root's.
PathSpelling(p) == FlattenSeq([k \in DOMAIN p |-> <<Backslash>> \o p[k]])

LEMMA OneComponent ==
  ASSUME OnlyAscii, NEW p \in Seq(Components), Len(p) = 1
  PROVE  PathSpelling(p) = <<>> \o (<<Backslash>> \o p[1]) /\ p[1] \in Components
<1> DEFINE s == [k \in DOMAIN p |-> <<Backslash>> \o p[k]]
<1>1. DOMAIN p = 1 .. 1 /\ p[1] \in Components
  <2>1. 1 \in 1 .. Len(p)
    OBVIOUS
  <2> QED BY <2>1, LenProperties, ElementOfSeq
<1>2. <<Backslash>> \o p[1] \in Seq(Chars)
  <2>1. IsPart(p[1])
    BY <1>1, PartsAreParts
  <2>2. <<Backslash>> \in Seq(Chars)
    BY SeparatorsAreChars
  <2> QED BY <2>1, <2>2, ConcatProperties DEF IsPart, Codes
<1>3. s \in [1 .. 1 -> Seq(Chars)] /\ s[1] = <<Backslash>> \o p[1]
  <2>1. \A k \in 1 .. 1 : k = 1
    OBVIOUS
  <2> QED BY <1>1, <1>2, <2>1
<1>4. Len(s) = 1
  <2> HIDE DEF s
  <2>1. s \in Seq(Seq(Chars))
    <3>1. \A S : [1 .. 1 -> S] \subseteq Seq(S)
      BY SeqDef
    <3> QED BY <1>3, <3>1
  <2>2. DOMAIN s = 1 .. 1 /\ DOMAIN s = 1 .. Len(s) /\ Len(s) \in Nat
    BY <1>3, <2>1, LenProperties
  <2> QED BY <2>2
<1>5. FlattenSeq(s) = s[1]
  <2> HIDE DEF s
  <2> QED BY <1>4, FlattenOne
<1>6. <<>> \o (<<Backslash>> \o p[1]) = <<Backslash>> \o p[1]
  BY <1>2, ConcatEmptySeq
<1> QED BY <1>1, <1>3, <1>5, <1>6 DEF PathSpelling

LEMMA OneComponentMore ==
  ASSUME OnlyAscii, NEW p \in Seq(Components), NEW n \in Nat \ {0}, Len(p) = n + 1
  PROVE  /\ PathSpelling(p) = PathSpelling(Front(p)) \o (<<Backslash>> \o p[n + 1])
         /\ p[n + 1] \in Components
<1> DEFINE f == Front(p)
           e(c) == <<Backslash>> \o c
           s == [k \in DOMAIN p |-> <<Backslash>> \o p[k]]
           t == [k \in DOMAIN f |-> <<Backslash>> \o f[k]]
<1>1. /\ f \in Seq(Components) /\ Len(f) = n /\ p[n + 1] \in Components
      /\ \A i \in 1 .. n : f[i] = p[i]
  BY FrontOf
<1> HIDE DEF f
<1>2. DOMAIN p = 1 .. n + 1 /\ DOMAIN f = 1 .. n
  BY <1>1, LenProperties
<1>3. \A c \in Components : e(c) \in Seq(Chars)
  <2>1. \A c \in Components : c \in Seq(Chars)
    BY PartsAreParts DEF IsPart, Codes
  <2>2. <<Backslash>> \in Seq(Chars)
    BY SeparatorsAreChars
  <2> QED BY <2>1, <2>2, ConcatProperties
<1>4. s \in Seq(Seq(Chars)) /\ t \in Seq(Seq(Chars))
  <2>1. \A k \in 1 .. n + 1 : e(p[k]) \in Seq(Chars)
    BY <1>3, ElementOfSeq
  <2>2. \A k \in 1 .. n : e(f[k]) \in Seq(Chars)
    BY <1>1, <1>3, ElementOfSeq
  <2> HIDE DEF e
  <2>3. n + 1 \in Nat
    OBVIOUS
  <2>4. [k \in 1 .. n + 1 |-> e(p[k])] \in Seq(Seq(Chars))
    BY <2>1, <2>3, IsASeq
  <2>5. [k \in 1 .. n |-> e(f[k])] \in Seq(Seq(Chars))
    BY <2>2, IsASeq
  <2> QED BY <1>2, <2>4, <2>5 DEF e
<1>5. Len(s) = n + 1 /\ Len(t) = n
  <2>1. DOMAIN s = 1 .. n + 1 /\ DOMAIN t = 1 .. n
    BY <1>2
  <2> HIDE DEF s, t
  <2>2. 1 .. Len(s) = 1 .. n + 1 /\ 1 .. Len(t) = 1 .. n /\ Len(s) \in Nat /\ Len(t) \in Nat
    BY <1>4, <2>1, LenProperties
  <2> QED BY <2>2
<1>6. \A i \in 1 .. n : t[i] = s[i]
  BY <1>1, <1>2
<1>7. s[n + 1] = <<Backslash>> \o p[n + 1]
  BY <1>2
<1>8. FlattenSeq(s) = FlattenSeq(t) \o s[n + 1]
  <2> HIDE DEF s, t
  <2> QED BY <1>5, <1>6, FlattenStep
<1> QED BY <1>1, <1>7, <1>8 DEF PathSpelling, f

LEMMA PathIsCodes ==
  ASSUME OnlyAscii, NEW p \in Seq(Components), NEW k \in Nat, Len(p) = k + 1
  PROVE  PathSpelling(p) \in Codes
<1> DEFINE S == {n \in Nat : \E q \in Seq(Components) : Len(q) = n + 1 /\ PathSpelling(q) \notin Codes}
<1>1. S = {}
  <2>1. SUFFICES ASSUME S # {} PROVE FALSE
    OBVIOUS
  <2>2. PICK n \in S : \A m \in S : n <= m
    <3>1. S \in SUBSET Nat
      OBVIOUS
    <3> HIDE DEF S
    <3> QED BY <2>1, <3>1, LeastNumber
  <2>3. PICK q \in Seq(Components) : n \in Nat /\ Len(q) = n + 1 /\ PathSpelling(q) \notin Codes
    OBVIOUS
  <2>4. \A c \in Components : c \in Codes
    BY PartsAreParts DEF IsPart
  <2>5. CASE n = 0
    <3>1. Len(q) = 1
      BY <2>3, <2>5
    <3>2. PathSpelling(q) = <<>> \o (<<Backslash>> \o q[1]) /\ q[1] \in Components
      BY <3>1, OneComponent
    <3> QED BY <2>3, <2>4, <3>2, Joining, NothingIsSpelled, SeparatorsAreChars DEF IsJoined
  <2>6. CASE n # 0
    <3>1. PICK m \in Nat : n = m + 1
      <4>1. n - 1 \in Nat /\ n = (n - 1) + 1
        BY <2>3, <2>6
      <4> QED BY <4>1
    <3>2. Front(q) \in Seq(Components) /\ Len(Front(q)) = m + 1
      BY <2>3, <3>1, FrontOf
    <3>3. PathSpelling(Front(q)) \in Codes
      <4>1. ~(n <= m)
        BY <3>1
      <4>2. m \notin S
        BY <2>2, <4>1
      <4> QED BY <3>2, <4>2
    <3>4. PathSpelling(q) = PathSpelling(Front(q)) \o (<<Backslash>> \o q[n + 1]) /\ q[n + 1] \in Components
      BY <2>3, <2>6, OneComponentMore
    <3> QED BY <2>3, <2>4, <3>3, <3>4, Joining, SeparatorsAreChars DEF IsJoined
  <2> QED BY <2>5, <2>6
<1> QED BY <1>1

\* The name a name is put together from, what follows it and behind what.
Up(n) == IF IsStream(n) THEN MainName(n) ELSE ParentName(n)

Sep(n) == IF IsStream(n) THEN Colon ELSE Backslash

Part(n) == IF IsStream(n) THEN n.stream ELSE n.path[Len(n.path)]

\* The backslash that the root is spelled by is the one in front of a component.
Stem(n) == IF n = Root THEN <<>> ELSE Spell(n)

LEMMA RootIs == Root \in Names /\ ~IsStream(Root) /\ Root.path = <<>> /\ Root.stream = NoStream
BY DEF Root, Names, Name, IsStream

LEMMA ParentIs ==
  ASSUME NEW n \in Names, n # Root
  PROVE  /\ ParentName(n) \in Names /\ ~IsStream(ParentName(n))
         /\ ParentName(n).path = Front(n.path)
         /\ Len(ParentName(n).path) = Len(n.path) - 1
         /\ ParentName(n) = Root <=> Len(n.path) = 1
<1>1. PICK k \in Nat : Len(n.path) = k + 1 /\ k + 1 \in 1 .. MAX_PATH
  <2>1. Len(n.path) - 1 \in Nat /\ Len(n.path) = (Len(n.path) - 1) + 1
    BY NamePaths, PathAssumption
  <2> QED BY <2>1, NamePaths
<1>2. Front(n.path) \in Seq(Components) /\ Len(Front(n.path)) = k
  BY <1>1, NamePaths, FrontOf
<1>3. /\ ParentName(n) = Name(Front(n.path), NoStream) /\ ParentName(n).path = Front(n.path)
      /\ ~IsStream(ParentName(n))
  BY DEF ParentName, Name, IsStream
<1>4. k = 0 => ParentName(n) = Root
  BY <1>2, <1>3, EmptySeq DEF Root
<1>5. k # 0 => ParentName(n) \in Names /\ ParentName(n) # Root
  <2>1. k # 0 => k \in 1 .. MAX_PATH
    BY <1>1, PathAssumption
  <2>2. k # 0 => ParentName(n) \in Names
    BY <1>2, <1>3, <2>1, NamesOfPaths
  <2>3. Len(Root.path) = 0
    BY RootIs, EmptySeq
  <2> QED BY <1>2, <1>3, <2>2, <2>3
<1> QED BY <1>1, <1>2, <1>3, <1>4, <1>5, RootIs

LEMMA MainIs ==
  ASSUME NEW n \in Names
  PROVE  /\ MainName(n) \in Names /\ ~IsStream(MainName(n))
         /\ MainName(n).path = n.path /\ MainName(n).stream = NoStream
         /\ ~IsStream(n) => MainName(n) = n
         /\ n # Root => MainName(n) # Root
<1>1. MainName(n) = Name(n.path, NoStream) /\ ~IsStream(MainName(n)) /\ MainName(n).path = n.path
      /\ MainName(n).stream = NoStream
  BY DEF MainName, Name, IsStream
<1>2. ~IsStream(n) => MainName(n) = n
  BY <1>1, NamePaths DEF IsStream
<1>3. CASE n = Root
  BY <1>1, <1>2, <1>3, RootIs
<1>4. CASE n # Root
  <2>1. MainName(n) \in Names
    BY <1>1, <1>4, NamePaths, NamesOfPaths
  <2>2. Len(n.path) # 0 /\ Len(Root.path) = 0
    BY <1>4, NamePaths, PathAssumption, RootIs, EmptySeq
  <2> QED BY <1>1, <1>2, <2>1, <2>2
<1> QED BY <1>3, <1>4

LEMMA UpIs ==
  ASSUME NEW n \in Names, n # Root
  PROVE  Up(n) \in Names /\ ~IsStream(Up(n)) /\ (IsStream(n) => Up(n) # Root)
BY ParentIs, MainIs DEF Up

\* What the root has and every other name has with the one it is put together
\* from, all names have.
LEMMA UpInduction ==
  ASSUME NEW T, Root \in T, \A n \in Names \ {Root} : Up(n) \in T => n \in T
  PROVE  \A n \in Names : n \in T
<1> DEFINE Bad == {n \in Names : ~IsStream(n) /\ n \notin T}
           S == {Len(n.path) : n \in Bad}
<1>1. Bad = {}
  <2>1. SUFFICES ASSUME Bad # {} PROVE FALSE
    OBVIOUS
  <2>2. S \in SUBSET Nat /\ S # {}
    <3>1. \A n \in Bad : Len(n.path) \in Nat
      BY NamePaths
    <3> HIDE DEF Bad
    <3> QED BY <2>1, <3>1
  <2>3. PICK k \in S : \A m \in S : k <= m
    <3> HIDE DEF S
    <3> QED BY <2>2, LeastNumber
  <2>4. PICK n \in Bad : k = Len(n.path)
    OBVIOUS
  <2>5. n \in Names /\ ~IsStream(n) /\ n \notin T /\ n # Root
    BY <2>4
  <2>6. Up(n) \in Names /\ ~IsStream(Up(n)) /\ Len(Up(n).path) = k - 1 /\ k \in Nat
    BY <2>4, <2>5, ParentIs, NamePaths DEF Up
  <2>7. Up(n) \notin Bad
    <3>1. ~(k <= k - 1)
      BY <2>6
    <3> HIDE DEF Bad
    <3> QED BY <2>3, <2>6, <3>1
  <2> QED BY <2>5, <2>6, <2>7
<1>2. ASSUME NEW n \in Names, n \notin T PROVE FALSE
  <2>1. IsStream(n) /\ n # Root
    BY <1>1, <1>2
  <2>2. Up(n) \in Names /\ ~IsStream(Up(n))
    BY <2>1, UpIs
  <2> QED BY <1>1, <1>2, <2>1, <2>2
<1> QED BY <1>2

LEMMA SpelledFile ==
  ASSUME OnlyAscii, NEW n \in Names, n # Root, ~IsStream(n)
  PROVE  Spell(n) = PathSpelling(n.path) /\ Spell(n) \in Codes
<1>1. PICK k \in Nat : Len(n.path) = k + 1
  <2>1. Len(n.path) - 1 \in Nat /\ Len(n.path) = (Len(n.path) - 1) + 1
    BY NamePaths, PathAssumption
  <2> QED BY <2>1
<1>2. PathSpelling(n.path) \in Seq(Chars)
  BY <1>1, NamePaths, PathIsCodes DEF Codes
<1>3. n.path # <<>>
  BY <1>1, EmptySeq
<1>4. Spell(n) = PathSpelling(n.path) \o <<>>
  BY <1>3, Zenon DEF Spell, PathSpelling
<1> QED BY <1>2, <1>4, ConcatEmptySeq DEF Codes

\* Every name but the root's is spelled as the one above it, a separator and a part.
LEMMA SpellStep ==
  ASSUME OnlyAscii, NEW n \in Names, n # Root
  PROVE  IsJoined(Spell(n), Stem(Up(n)), Sep(n), Part(n)) /\ IsPart(Part(n))
<1>1. CASE IsStream(n)
  <2>1. Up(n) = MainName(n) /\ Up(n) # Root /\ Up(n) \in Names /\ ~IsStream(Up(n))
    BY <1>1, MainIs DEF Up
  <2>2. Spell(Up(n)) = PathSpelling(n.path) /\ Spell(Up(n)) \in Codes
    BY <2>1, MainIs, SpelledFile
  <2>3. n.path # <<>>
    BY NamePaths, PathAssumption, EmptySeq
  <2>4. Spell(n) = PathSpelling(n.path) \o (<<Colon>> \o n.stream)
    BY <1>1, <2>3, Zenon DEF Spell, PathSpelling
  <2>5. n.stream \in Streams
    BY <1>1, NamePaths DEF IsStream
  <2>6. IsPart(n.stream)
    BY <2>5, PartsAreParts
  <2>7. IsJoined(PathSpelling(n.path) \o (<<Colon>> \o n.stream), PathSpelling(n.path), Colon, n.stream)
    BY <2>2, <2>6, Joining, SeparatorsAreChars DEF IsPart
  <2> QED BY <1>1, <2>1, <2>2, <2>4, <2>6, <2>7 DEF Stem, Sep, Part
<1>2. CASE ~IsStream(n)
  <2>1. PICK k \in Nat : Len(n.path) = k + 1
    <3>1. Len(n.path) - 1 \in Nat /\ Len(n.path) = (Len(n.path) - 1) + 1
      BY NamePaths, PathAssumption
    <3> QED BY <3>1
  <2>2. /\ Up(n) = ParentName(n) /\ Up(n) \in Names /\ ~IsStream(Up(n)) /\ Up(n).path = Front(n.path)
        /\ (Up(n) = Root <=> k = 0)
    <3>1. Up(n) = ParentName(n)
      BY <1>2 DEF Up
    <3>2. Len(n.path) = 1 <=> k = 0
      BY <2>1
    <3> QED BY <3>1, <3>2, ParentIs
  <2>3. Spell(n) = PathSpelling(n.path) /\ n.path \in Seq(Components)
    BY <1>2, SpelledFile, NamePaths
  <2>4. CASE k = 0
    <3>1. PathSpelling(n.path) = <<>> \o (<<Backslash>> \o n.path[1]) /\ n.path[1] \in Components
      BY <2>1, <2>3, <2>4, OneComponent
    <3>2. IsPart(n.path[1])
      BY <3>1, PartsAreParts
    <3>3. IsJoined(<<>> \o (<<Backslash>> \o n.path[1]), <<>>, Backslash, n.path[1])
      BY <3>2, Joining, SeparatorsAreChars, NothingIsSpelled DEF IsPart
    <3>4. Part(n) = n.path[1]
      BY <1>2, <2>1, <2>4 DEF Part
    <3> QED BY <1>2, <2>2, <2>3, <2>4, <3>1, <3>2, <3>3, <3>4 DEF Stem, Sep
  <2>5. CASE k # 0
    <3>1. PathSpelling(n.path) = PathSpelling(Front(n.path)) \o (<<Backslash>> \o n.path[k + 1])
          /\ n.path[k + 1] \in Components
      BY <2>1, <2>3, <2>5, OneComponentMore
    <3>2. Spell(Up(n)) = PathSpelling(Front(n.path)) /\ Spell(Up(n)) \in Codes
      BY <2>2, <2>5, SpelledFile
    <3>3. IsPart(n.path[k + 1])
      BY <3>1, PartsAreParts
    <3>4. IsJoined(PathSpelling(Front(n.path)) \o (<<Backslash>> \o n.path[k + 1]),
                   PathSpelling(Front(n.path)), Backslash, n.path[k + 1])
      BY <3>2, <3>3, Joining, SeparatorsAreChars DEF IsPart
    <3>5. Part(n) = n.path[k + 1] /\ Stem(Up(n)) = PathSpelling(Front(n.path)) /\ Sep(n) = Backslash
      BY <1>2, <2>1, <2>2, <2>5, <3>2 DEF Part, Stem, Sep
    <3> QED BY <2>3, <3>1, <3>3, <3>4, <3>5
  <2> QED BY <2>4, <2>5
<1> QED BY <1>1, <1>2

LEMMA RootIsSpelled ==
  Spell(Root) = <<Backslash>> /\ WellSpelled(Spell(Root)) /\ Len(Spell(Root)) = 1
<1>1. Spell(Root) = <<Backslash>> \o <<>>
  BY RootIs DEF Spell
<1>2. <<Backslash>> \in Seq(Chars) /\ Len(<<Backslash>>) = 1 /\ <<Backslash>>[1] = Backslash
  BY SeparatorsAreChars
<1>3. Spell(Root) = <<Backslash>>
  BY <1>1, <1>2, ConcatEmptySeq
<1>4. \A k \in Place : ~(k + 1 <= 1)
  BY DEF Place
<1> QED BY <1>2, <1>3, <1>4 DEF WellSpelled, Codes, Separator

\* Joined to what is spelled well, a part makes a name that is.
LEMMA JoinedIsWellSpelled ==
  ASSUME NEW s, NEW u, NEW sep, NEW c, IsJoined(s, u, sep, c), IsPart(c), Separator(sep),
         u = <<>> \/ (WellSpelled(u) /\ ~Separator(u[Len(u)]))
  PROVE  WellSpelled(s) /\ ~Separator(s[Len(s)]) /\ Len(s) > 1
<1>1. /\ s \in Codes /\ Len(u) \in Nat /\ Len(c) \in Nat \ {0} /\ Len(s) = Len(u) + 1 + Len(c)
      /\ \A i \in 1 .. Len(u) : s[i] = u[i]
      /\ s[Len(u) + 1] = sep
      /\ \A j \in 1 .. Len(c) : s[Len(u) + 1 + j] = c[j]
      /\ \A j \in 1 .. Len(c) : ~Separator(c[j])
  BY LenProperties DEF IsJoined, IsPart, Codes
<1>2. \A k \in Len(u) + 2 .. Len(s) : ~Separator(s[k])
  <2>1. ASSUME NEW k \in Len(u) + 2 .. Len(s) PROVE ~Separator(s[k])
    <3>1. k - (Len(u) + 1) \in 1 .. Len(c) /\ Len(u) + 1 + (k - (Len(u) + 1)) = k
      BY <1>1
    <3> QED BY <1>1, <3>1
  <2> QED BY <2>1
<1>3. ~Separator(s[Len(s)])
  <2>1. Len(s) \in Len(u) + 2 .. Len(s)
    BY <1>1
  <2> QED BY <1>2, <2>1
<1>4. Separator(s[1])
  <2>1. CASE Len(u) = 0
    BY <1>1, <2>1
  <2>2. CASE Len(u) # 0
    <3>1. 1 \in 1 .. Len(u) /\ u # <<>>
      BY <1>1, <2>2, EmptySeq
    <3> QED BY <1>1, <3>1 DEF WellSpelled
  <2> QED BY <2>1, <2>2
<1>5. ASSUME NEW k \in Place, k + 1 <= Len(s), Separator(s[k]), Separator(s[k + 1]) PROVE FALSE
  <2>1. k + 1 <= Len(u) + 1 /\ k \in 1 .. Len(u)
    <3>1. k \in Nat /\ k >= 1 /\ ~(k + 1 \in Len(u) + 2 .. Len(s))
      BY <1>2, <1>5 DEF Place
    <3> QED BY <1>1, <1>5, <3>1
  <2>2. u # <<>> /\ WellSpelled(u) /\ s[k] = u[k]
    BY <1>1, <2>1, EmptySeq
  <2>3. CASE k = Len(u)
    BY <1>5, <2>2, <2>3
  <2>4. CASE k # Len(u)
    <3>1. k + 1 \in 1 .. Len(u)
      BY <1>1, <2>1, <2>4
    <3>2. s[k + 1] = u[k + 1] /\ k + 1 <= Len(u)
      BY <1>1, <3>1
    <3> QED BY <1>5, <2>2, <3>2 DEF WellSpelled
  <2> QED BY <2>3, <2>4
<1> QED BY <1>1, <1>3, <1>4, <1>5 DEF WellSpelled

LEMMA SepIs == \A n : Separator(Sep(n))
BY DEF Sep, Separator

LEMMA NamesAreWellSpelled ==
  ASSUME OnlyAscii, NEW n \in Names
  PROVE  /\ WellSpelled(Spell(n)) /\ Spell(n) \in Codes /\ Len(Spell(n)) \in Nat \ {0}
         /\ n # Root => ~Separator(Spell(n)[Len(Spell(n))]) /\ Len(Spell(n)) > 1
<1> DEFINE Good(x) == /\ WellSpelled(Spell(x))
                      /\ x # Root => ~Separator(Spell(x)[Len(Spell(x))]) /\ Len(Spell(x)) > 1
           T == {x \in Names : Good(x)}
<1>1. Root \in T
  BY RootIs, RootIsSpelled
<1>2. ASSUME NEW x \in Names \ {Root}, Up(x) \in T PROVE x \in T
  <2>1. IsJoined(Spell(x), Stem(Up(x)), Sep(x), Part(x)) /\ IsPart(Part(x))
    BY SpellStep
  <2>2. Stem(Up(x)) = <<>> \/ (WellSpelled(Stem(Up(x))) /\ ~Separator(Stem(Up(x))[Len(Stem(Up(x)))]))
    BY <1>2 DEF Stem
  <2>3. Good(x)
    BY <2>1, <2>2, SepIs, JoinedIsWellSpelled
  <2> QED BY <2>3
<1>3. n \in T
  <2> HIDE DEF T
  <2> QED BY <1>1, <1>2, UpInduction
<1> QED BY <1>3, LenProperties DEF WellSpelled, Codes

-----------------------------------------------------------------------------
(* The order of names. *)

LEMMA SpellingIs == \A n \in Names : Spelling[n] = Spell(n)
BY DEF Spelling

\* Where the last separator of a joined name is.
LEMMA JoinedKeys ==
  ASSUME NEW s, NEW u, NEW sep, NEW c, IsJoined(s, u, sep, c), IsPart(c), Separator(sep)
  PROVE  /\ Len(u) \in Nat /\ Len(c) \in Nat \ {0} /\ Len(s) = Len(u) + 1 + Len(c) /\ Len(s) \in Nat
         /\ \A i \in Place : i <= Len(u) => s[i] = u[i] /\ KeyAt(s, i) = KeyAt(u, i)
         /\ s[Len(u) + 1] = sep /\ KeyAt(s, Len(u) + 1) = Key(sep) /\ KeyAt(s, Len(u) + 1) < 0
         /\ \A j \in 1 .. Len(c) : /\ s[Len(u) + 1 + j] = c[j] /\ KeyAt(s, Len(u) + 1 + j) = CaseOf(c[j])
                                   /\ ~Separator(c[j]) /\ c[j] \in Chars
         /\ \A k \in Place : Len(u) + 1 < k /\ k <= Len(s) => ~Separator(s[k]) /\ KeyAt(s, k) >= 0
<1>1. /\ s \in Codes /\ u \in Codes /\ c \in Codes
      /\ Len(u) \in Nat /\ Len(c) \in Nat \ {0} /\ Len(s) = Len(u) + 1 + Len(c) /\ Len(s) \in Nat
      /\ \A i \in 1 .. Len(u) : s[i] = u[i]
      /\ s[Len(u) + 1] = sep
      /\ \A j \in 1 .. Len(c) : s[Len(u) + 1 + j] = c[j] /\ ~Separator(c[j])
  BY LenProperties DEF IsJoined, IsPart, Codes
<1>2. ASSUME NEW i \in Place, i <= Len(u) PROVE s[i] = u[i] /\ KeyAt(s, i) = KeyAt(u, i)
  <2>1. i \in 1 .. Len(u) /\ i \in 1 .. Len(s)
    BY <1>1, <1>2 DEF Place
  <2> QED BY <1>1, <2>1 DEF KeyAt
<1>3. KeyAt(s, Len(u) + 1) = Key(sep) /\ KeyAt(s, Len(u) + 1) < 0
  <2>1. Len(u) + 1 \in Place /\ Len(u) + 1 <= Len(s)
    BY <1>1 DEF Place
  <2> QED BY <1>1, <2>1, KeyAtType
<1>4. ASSUME NEW j \in 1 .. Len(c)
      PROVE  /\ s[Len(u) + 1 + j] = c[j] /\ KeyAt(s, Len(u) + 1 + j) = CaseOf(c[j])
             /\ ~Separator(c[j]) /\ c[j] \in Chars
  <2>1. Len(u) + 1 + j \in Place /\ Len(u) + 1 + j <= Len(s)
    BY <1>1 DEF Place
  <2>2. c[j] \in Chars
    BY <1>1, ElementOfSeq DEF Codes
  <2>3. s[Len(u) + 1 + j] = c[j] /\ ~Separator(c[j])
    BY <1>1
  <2>4. KeyAt(s, Len(u) + 1 + j) = Key(c[j])
    BY <1>1, <2>1, <2>3, KeyAtType
  <2>5. Key(c[j]) = CaseOf(c[j])
    BY <2>2, <2>3, KeyFacts
  <2> QED BY <2>2, <2>3, <2>4, <2>5
<1>5. ASSUME NEW k \in Place, Len(u) + 1 < k, k <= Len(s) PROVE ~Separator(s[k]) /\ KeyAt(s, k) >= 0
  <2>1. k - (Len(u) + 1) \in 1 .. Len(c) /\ Len(u) + 1 + (k - (Len(u) + 1)) = k
    BY <1>1, <1>5 DEF Place
  <2>2. ~Separator(s[k])
    BY <1>1, <2>1
  <2>3. KeyAt(s, k) \in Int /\ (Separator(s[k]) <=> KeyAt(s, k) < 0)
    BY <1>1, <1>5, KeyAtType
  <2> QED BY <2>2, <2>3
<1> QED BY <1>1, <1>2, <1>3, <1>4, <1>5

LEMMA AlikeSameLength ==
  ASSUME NEW s \in Codes, NEW t \in Codes, Alike(s, t)
  PROVE  Len(s) = Len(t)
<1>1. Len(s) \in Nat /\ Len(t) \in Nat
  BY LenProperties DEF Codes
<1>2. ~(Len(s) < Len(t))
  <2>1. ASSUME Len(s) < Len(t) PROVE FALSE
    <3>1. Len(t) \in Place
      BY <1>1, <2>1 DEF Place
    <3>2. KeyAt(s, Len(t)) = -3 /\ ~(KeyAt(t, Len(t)) = -3)
      BY <1>1, <2>1, <3>1, KeyAtType
    <3> QED BY <3>1, <3>2 DEF Alike
  <2> QED BY <2>1
<1>3. ~(Len(t) < Len(s))
  <2>1. ASSUME Len(t) < Len(s) PROVE FALSE
    <3>1. Len(s) \in Place
      BY <1>1, <2>1 DEF Place
    <3>2. KeyAt(t, Len(s)) = -3 /\ ~(KeyAt(s, Len(s)) = -3)
      BY <1>1, <2>1, <3>1, KeyAtType
    <3> QED BY <3>1, <3>2 DEF Alike
  <2> QED BY <2>1
<1> QED BY <1>1, <1>2, <1>3

LEMMA AlikeToItself == \A a : Alike(a, a)
BY DEF Alike

\* Names that are alike are joined from what is alike.
LEMMA AlikeWhenJoined ==
  ASSUME NEW s, NEW u, NEW sep, NEW c, IsJoined(s, u, sep, c), IsPart(c), Separator(sep),
         NEW t, NEW v, NEW sepd, NEW d, IsJoined(t, v, sepd, d), IsPart(d), Separator(sepd),
         Alike(s, t)
  PROVE  /\ Len(u) = Len(v) /\ Alike(u, v) /\ sep = sepd
         /\ Len(c) = Len(d) /\ \A j \in 1 .. Len(c) : CaseOf(c[j]) = CaseOf(d[j])
<1>1. /\ Len(u) \in Nat /\ Len(c) \in Nat \ {0} /\ Len(s) = Len(u) + 1 + Len(c) /\ Len(s) \in Nat
      /\ \A i \in Place : i <= Len(u) => KeyAt(s, i) = KeyAt(u, i)
      /\ KeyAt(s, Len(u) + 1) = Key(sep) /\ KeyAt(s, Len(u) + 1) < 0
      /\ \A j \in 1 .. Len(c) : KeyAt(s, Len(u) + 1 + j) = CaseOf(c[j])
      /\ \A k \in Place : Len(u) + 1 < k /\ k <= Len(s) => KeyAt(s, k) >= 0
  BY JoinedKeys
<1>2. /\ Len(v) \in Nat /\ Len(d) \in Nat \ {0} /\ Len(t) = Len(v) + 1 + Len(d) /\ Len(t) \in Nat
      /\ \A i \in Place : i <= Len(v) => KeyAt(t, i) = KeyAt(v, i)
      /\ KeyAt(t, Len(v) + 1) = Key(sepd) /\ KeyAt(t, Len(v) + 1) < 0
      /\ \A j \in 1 .. Len(d) : KeyAt(t, Len(v) + 1 + j) = CaseOf(d[j])
      /\ \A k \in Place : Len(v) + 1 < k /\ k <= Len(t) => KeyAt(t, k) >= 0
  BY JoinedKeys
<1>3. s \in Codes /\ t \in Codes /\ u \in Codes /\ v \in Codes /\ Len(s) = Len(t)
  BY AlikeSameLength DEF IsJoined
<1>4. \A k \in Place : KeyAt(s, k) = KeyAt(t, k) /\ KeyAt(s, k) \in Int
  BY <1>3, KeyAtType DEF Alike
<1>5. Len(u) + 1 \in Place /\ Len(v) + 1 \in Place
  BY <1>1, <1>2 DEF Place
<1>6. ~(Len(u) < Len(v))
  <2>1. ASSUME Len(u) < Len(v) PROVE FALSE
    <3>1. Len(u) + 1 < Len(v) + 1 /\ Len(v) + 1 <= Len(s)
      BY <1>1, <1>2, <1>3, <2>1
    <3>2. KeyAt(s, Len(v) + 1) >= 0
      BY <1>1, <1>5, <3>1
    <3> QED BY <1>2, <1>4, <1>5, <3>2
  <2> QED BY <2>1
<1>7. ~(Len(v) < Len(u))
  <2>1. ASSUME Len(v) < Len(u) PROVE FALSE
    <3>1. Len(v) + 1 < Len(u) + 1 /\ Len(u) + 1 <= Len(t)
      BY <1>1, <1>2, <1>3, <2>1
    <3>2. KeyAt(t, Len(u) + 1) >= 0
      BY <1>2, <1>5, <3>1
    <3> QED BY <1>1, <1>4, <1>5, <3>2
  <2> QED BY <2>1
<1>8. Len(u) = Len(v) /\ Len(c) = Len(d)
  BY <1>1, <1>2, <1>3, <1>6, <1>7
<1>9. Alike(u, v)
  <2>1. ASSUME NEW k \in Place PROVE KeyAt(u, k) = KeyAt(v, k)
    <3>1. CASE k <= Len(u)
      BY <1>1, <1>2, <1>4, <1>8, <3>1
    <3>2. CASE k > Len(u)
      BY <1>3, <1>8, <3>2, KeyAtType
    <3> QED BY <1>1, <3>1, <3>2 DEF Place
  <2> QED BY <2>1 DEF Alike
<1>10. sep = sepd
  <2>1. Key(sep) = Key(sepd)
    BY <1>1, <1>2, <1>4, <1>5, <1>8
  <2>2. sep \in Chars /\ sepd \in Chars
    BY SeparatorsAreChars DEF Separator
  <2> QED BY <2>1, <2>2, SeparatorsByKey
<1>11. ASSUME NEW j \in 1 .. Len(c) PROVE CaseOf(c[j]) = CaseOf(d[j])
  <2>1. Len(u) + 1 + j \in Place /\ j \in 1 .. Len(d)
    BY <1>1, <1>8 DEF Place
  <2> QED BY <1>1, <1>2, <1>4, <1>8, <2>1
<1> QED BY <1>8, <1>9, <1>10, <1>11

LEMMA NameIsUpAndPart ==
  ASSUME NEW n \in Names, NEW m \in Names, n # Root, m # Root,
         Up(n) = Up(m), Sep(n) = Sep(m), Part(n) = Part(m)
  PROVE  n = m
<1>1. IsStream(n) <=> IsStream(m)
  BY SeparatorsAreChars DEF Sep
<1>2. CASE IsStream(n)
  <2>1. MainName(n) = MainName(m) /\ n.stream = m.stream
    BY <1>1, <1>2 DEF Up, Part
  <2>2. n.path = m.path
    BY <2>1, MainIs
  <2> QED BY <2>1, <2>2, NamePaths
<1>3. CASE ~IsStream(n)
  <2>1. ParentName(n) = ParentName(m) /\ n.path[Len(n.path)] = m.path[Len(m.path)]
    BY <1>1, <1>3 DEF Up, Part
  <2>2. PICK k \in Nat : Len(n.path) = k + 1
    <3>1. Len(n.path) - 1 \in Nat /\ Len(n.path) = (Len(n.path) - 1) + 1
      BY NamePaths, PathAssumption
    <3> QED BY <3>1
  <2>3. Len(m.path) = k + 1
    BY <2>1, <2>2, ParentIs, NamePaths
  <2>4. Front(n.path) = Front(m.path)
    BY <2>1, ParentIs
  <2>5. \A i \in 1 .. k : n.path[i] = m.path[i]
    <3>1. \A i \in 1 .. k : Front(n.path)[i] = n.path[i]
      BY <2>2, NamePaths, FrontOf
    <3>2. \A i \in 1 .. k : Front(m.path)[i] = m.path[i]
      BY <2>3, NamePaths, FrontOf
    <3> QED BY <2>4, <3>1, <3>2
  <2>6. \A i \in 1 .. k + 1 : n.path[i] = m.path[i]
    BY <2>1, <2>2, <2>3, <2>5
  <2>7. n.path = m.path
    BY <2>2, <2>3, <2>6, NamePaths, SeqEqual
  <2> QED BY <1>1, <1>3, <2>7, NamePaths DEF IsStream
<1> QED BY <1>2, <1>3

LEMMA PartIsIn ==
  ASSUME NEW n \in Names, n # Root
  PROVE  /\ IsStream(n) => Part(n) \in Streams
         /\ ~IsStream(n) => Part(n) \in Components
<1>1. Len(n.path) \in 1 .. Len(n.path) /\ n.path \in Seq(Components)
  BY NamePaths, PathAssumption
<1>2. n.path[Len(n.path)] \in Components
  BY <1>1, ElementOfSeq
<1> QED BY <1>2, NamePaths DEF Part, IsStream

\* No two names are spelled alike.
LEMMA AlikeNamesAreEqual ==
  ASSUME OnlyAscii, NEW n \in Names, NEW m \in Names, Alike(Spell(n), Spell(m))
  PROVE  n = m
<1> DEFINE T == {x \in Names : \A y \in Names : Alike(Spell(x), Spell(y)) => x = y}
<1>1. Root \in T
  <2>1. ASSUME NEW y \in Names, Alike(Spell(Root), Spell(y)) PROVE Root = y
    <3>1. Len(Spell(y)) = Len(Spell(Root))
      BY <2>1, RootIs, NamesAreWellSpelled, AlikeSameLength
    <3> QED BY <3>1, RootIsSpelled, NamesAreWellSpelled
  <2> QED BY <2>1, RootIs
<1>2. ASSUME NEW x \in Names \ {Root}, Up(x) \in T PROVE x \in T
  <2>1. ASSUME NEW y \in Names, Alike(Spell(x), Spell(y)) PROVE x = y
    <3>1. y # Root
      <4>1. Len(Spell(y)) = Len(Spell(x))
        BY <2>1, NamesAreWellSpelled, AlikeSameLength
      <4> QED BY <4>1, RootIsSpelled, NamesAreWellSpelled
    <3>2. /\ IsJoined(Spell(x), Stem(Up(x)), Sep(x), Part(x)) /\ IsPart(Part(x))
          /\ IsJoined(Spell(y), Stem(Up(y)), Sep(y), Part(y)) /\ IsPart(Part(y))
      BY <3>1, SpellStep
    <3>3. /\ Len(Stem(Up(x))) = Len(Stem(Up(y))) /\ Alike(Stem(Up(x)), Stem(Up(y))) /\ Sep(x) = Sep(y)
          /\ Len(Part(x)) = Len(Part(y))
          /\ \A j \in 1 .. Len(Part(x)) : CaseOf(Part(x)[j]) = CaseOf(Part(y)[j])
      BY <2>1, <3>2, SepIs, AlikeWhenJoined
    <3>4. Up(x) \in Names /\ Up(y) \in Names
      BY <3>1, UpIs
    <3>5. Up(x) = Up(y)
      <4>1. \A z \in Names : (z = Root <=> Len(Stem(z)) = 0)
        BY NamesAreWellSpelled, NothingIsSpelled DEF Stem
      <4>2. CASE Up(x) = Root
        BY <3>3, <3>4, <4>1, <4>2
      <4>3. CASE Up(x) # Root
        <5>1. Up(y) # Root
          BY <3>3, <3>4, <4>1, <4>3
        <5> QED BY <1>2, <3>3, <3>4, <4>3, <5>1 DEF Stem
      <4> QED BY <4>2, <4>3
    <3>6. Part(x) = Part(y)
      <4>1. IsStream(x) <=> IsStream(y)
        BY <3>3, SeparatorsAreChars DEF Sep
      <4>2. CASE IsStream(x)
        BY <3>1, <3>3, <4>1, <4>2, PartIsIn, PartsDiffer
      <4>3. CASE ~IsStream(x)
        BY <3>1, <3>3, <4>1, <4>3, PartIsIn, PartsDiffer
      <4> QED BY <4>2, <4>3
    <3> QED BY <3>1, <3>3, <3>5, <3>6, NameIsUpAndPart
  <2> QED BY <2>1
<1>3. n \in T
  <2> HIDE DEF T
  <2> QED BY <1>1, <1>2, UpInduction
<1> QED BY <1>3

LEMMA LessIsBefore ==
  ASSUME OnlyAscii, NEW a \in Names, NEW b \in Names
  PROVE  Less(a, b) <=> Before(Spell(a), Spell(b))
<1>1. Less(a, b) <=> FileNameCompare(Spelling[a], Spelling[b]) < 0
  BY DEF Less, Order
<1> QED BY <1>1, SpellingIs, NamesAreWellSpelled, CompareIsLexicographic

LEMMA SameNameCompares ==
  ASSUME OnlyAscii, NEW a \in Names, NEW b \in Names
  PROVE  FileNameCompare(Spelling[a], Spelling[b]) = 0 <=> a = b
BY SpellingIs, NamesAreWellSpelled, CompareIsLexicographic, AlikeNamesAreEqual, AlikeToItself

\* FileLess orders all the names there are strictly and totally.
LEMMA LessIsStrictOrder ==
  ASSUME OnlyAscii, NEW a \in Names, NEW b \in Names
  PROVE  /\ Less(a, b) => ~Less(b, a) /\ a # b
         /\ a # b => Less(a, b) \/ Less(b, a)
         /\ \A c \in Names : Less(a, b) /\ Less(b, c) => Less(a, c)
<1>1. \A n \in Names : Spell(n) \in Codes
  BY NamesAreWellSpelled
<1>2. Less(a, b) => ~Less(b, a) /\ a # b
  BY <1>1, LessIsBefore, BeforeIsStrict, AlikeToItself
<1>3. a # b => Less(a, b) \/ Less(b, a)
  BY <1>1, LessIsBefore, BeforeIsTotal, AlikeNamesAreEqual
<1>4. ASSUME NEW c \in Names, Less(a, b), Less(b, c) PROVE Less(a, c)
  BY <1>1, <1>4, LessIsBefore, BeforeIsTransitive
<1> QED BY <1>2, <1>3, <1>4


-----------------------------------------------------------------------------
(* What the walks tell from the spelling of a name. *)

\* y goes on where d ends, or ends there.
KeyPrefix(d, y) == Len(d) <= Len(y) /\ \A k \in Place : k <= Len(d) => KeyAt(y, k) = KeyAt(d, k)

LEMMA PieceOf ==
  ASSUME NEW a \in Codes, NEW p \in Nat, NEW q \in Nat, p <= q, q <= Len(a)
  PROVE  /\ SubSeq(a, p + 1, q) \in Codes
         /\ Len(SubSeq(a, p + 1, q)) = q - p
         /\ \A j \in 1 .. q - p : SubSeq(a, p + 1, q)[j] = a[p + j]
<1>1. Len(a) \in Nat
  BY LenProperties DEF Codes
<1>2. \A i \in p + 1 .. q : a[i] \in Chars
  <2>1. \A i \in p + 1 .. q : i \in 1 .. Len(a)
    BY <1>1
  <2> QED BY <2>1, ElementOfSeq DEF Codes
<1>3. /\ SubSeq(a, p + 1, q) \in Seq(Chars)
      /\ Len(SubSeq(a, p + 1, q)) = IF p + 1 <= q THEN q - (p + 1) + 1 ELSE 0
      /\ \A i \in 1 .. q - (p + 1) + 1 : SubSeq(a, p + 1, q)[i] = a[(p + 1) + i - 1]
  <2>1. p + 1 \in Int /\ q \in Int
    OBVIOUS
  <2> QED BY <1>2, <2>1, SubSeqProperties
<1>4. Len(SubSeq(a, p + 1, q)) = q - p
  BY <1>3
<1>5. ASSUME NEW j \in 1 .. q - p PROVE SubSeq(a, p + 1, q)[j] = a[p + j]
  <2>1. j \in 1 .. q - (p + 1) + 1 /\ (p + 1) + j - 1 = p + j
    OBVIOUS
  <2> QED BY <1>3, <2>1
<1> QED BY <1>3, <1>4, <1>5 DEF Codes

LEMMA AlikeIsKeyPrefix ==
  ASSUME NEW a \in Codes, NEW d \in Codes, Len(a) = Len(d)
  PROVE  Alike(a, d) <=> KeyPrefix(d, a)
<1>1. Len(a) \in Nat
  BY LenProperties DEF Codes
<1>2. \A k \in Place : k > Len(a) => KeyAt(a, k) = KeyAt(d, k)
  BY KeyAtType
<1> QED BY <1>1, <1>2 DEF Alike, KeyPrefix, Place

\* FileNameHasPrefix, which compares a piece of one name with the other name.
LEMMA PrefixIsKeyPrefix ==
  ASSUME NEW y, NEW d, WellSpelled(y), WellSpelled(d)
  PROVE  FileNameHasPrefix(y, d) <=>
           KeyPrefix(d, y) /\ (Len(y) = Len(d) \/ d = <<Backslash>> \/ Separator(y[Len(d) + 1]))
<1>1. y \in Codes /\ d \in Codes /\ Len(y) \in Nat /\ Len(d) \in Nat /\ Len(d) >= 1
  BY LenProperties DEF WellSpelled, Codes
<1>2. SUFFICES ASSUME Len(d) <= Len(y)
               PROVE FileNameCompare(SubSeq(y, 1, Len(d)), d) = 0 <=> KeyPrefix(d, y)
  BY <1>1 DEF FileNameHasPrefix, KeyPrefix
<1>3. PICK a \in Codes : /\ a = SubSeq(y, 1, Len(d)) /\ Len(a) = Len(d)
                         /\ \A j \in 1 .. Len(d) : a[j] = y[j]
  <2>1. 0 \in Nat /\ 0 + 1 = 1 /\ 0 <= Len(d)
    BY <1>1
  <2>2. /\ SubSeq(y, 0 + 1, Len(d)) \in Codes /\ Len(SubSeq(y, 0 + 1, Len(d))) = Len(d) - 0
        /\ \A j \in 1 .. Len(d) - 0 : SubSeq(y, 0 + 1, Len(d))[j] = y[0 + j]
    BY <1>1, <1>2, <2>1, PieceOf
  <2>3. Len(d) - 0 = Len(d) /\ \A j \in 1 .. Len(d) : 0 + j = j
    BY <1>1
  <2> QED BY <2>1, <2>2, <2>3
<1>4. WellSpelled(a)
  <2>1. a[1] = y[1]
    BY <1>1, <1>3
  <2>2. ASSUME NEW k \in Place, k + 1 <= Len(a) PROVE ~(Separator(a[k]) /\ Separator(a[k + 1]))
    <3>1. k \in 1 .. Len(d) /\ k + 1 \in 1 .. Len(d) /\ k + 1 <= Len(y)
      BY <1>1, <1>2, <1>3, <2>2 DEF Place
    <3>2. a[k] = y[k] /\ a[k + 1] = y[k + 1]
      BY <1>3, <3>1
    <3> QED BY <3>1, <3>2 DEF WellSpelled
  <2> QED BY <1>1, <1>3, <2>1, <2>2 DEF WellSpelled
<1>5. FileNameCompare(a, d) = 0 <=> KeyPrefix(d, a)
  BY <1>1, <1>3, <1>4, CompareIsLexicographic, AlikeIsKeyPrefix
<1>6. \A k \in Place : k <= Len(d) => KeyAt(a, k) = KeyAt(y, k)
  <2>1. ASSUME NEW k \in Place, k <= Len(d) PROVE KeyAt(a, k) = KeyAt(y, k)
    <3>1. k \in 1 .. Len(d) /\ k \in 1 .. Len(a) /\ k \in 1 .. Len(y)
      BY <1>1, <1>2, <1>3, <2>1 DEF Place
    <3> QED BY <1>3, <3>1 DEF KeyAt
  <2> QED BY <2>1
<1> QED BY <1>1, <1>2, <1>3, <1>5, <1>6 DEF KeyPrefix

\* What a name starts with does not sort behind it.
LEMMA PrefixIsNotBehind ==
  ASSUME NEW d \in Codes, NEW y \in Codes, KeyPrefix(d, y)
  PROVE  ~Before(y, d)
<1>1. Len(d) \in Nat /\ Len(y) \in Nat
  BY LenProperties DEF Codes
<1>2. ASSUME NEW k \in Place, KeyAt(y, k) < KeyAt(d, k) PROVE FALSE
  <2>1. KeyAt(y, k) \in Int /\ KeyAt(y, k) >= -3 /\ KeyAt(d, k) \in Int /\ (KeyAt(d, k) = -3 <=> k > Len(d))
    BY KeyAtType
  <2>2. CASE k <= Len(d)
    BY <1>2, <2>1, <2>2 DEF KeyPrefix
  <2>3. CASE k > Len(d)
    BY <1>2, <2>1, <2>3
  <2> QED BY <1>1, <2>2, <2>3 DEF Place
<1> QED BY <1>2 DEF Before

\* The names that go on where d ends are one stretch of the order, those with
\* the lower character behind d first.
LEMMA StretchOfPrefix ==
  ASSUME NEW d \in Codes, NEW x \in Codes, NEW y \in Codes,
         ~Before(x, d), ~Before(y, x), KeyPrefix(d, y)
  PROVE  KeyPrefix(d, x) /\ KeyAt(x, Len(d) + 1) <= KeyAt(y, Len(d) + 1)
<1>0. Len(d) \in Nat /\ Len(x) \in Nat /\ Len(y) \in Nat
  BY LenProperties DEF Codes
<1>1. Len(d) + 1 \in Place
  BY <1>0 DEF Place
<1>2. CASE Alike(x, y)
  <2>1. Len(x) = Len(y)
    BY <1>2, AlikeSameLength
  <2>2. \A k \in Place : KeyAt(x, k) = KeyAt(y, k)
    BY <1>2 DEF Alike
  <2>3. KeyAt(y, Len(d) + 1) \in Int
    BY <1>1, KeyAtType
  <2> QED BY <1>1, <2>1, <2>2, <2>3 DEF KeyPrefix
<1>3. CASE ~Alike(x, y)
  <2>1. Before(x, y)
    BY <1>3, BeforeIsTotal
  <2>2. PICK j \in Place : AgreeBefore(x, y, j) /\ KeyAt(x, j) < KeyAt(y, j)
    BY <2>1 DEF Before
  <2>3. ~(j <= Len(d))
    <3>1. ASSUME j <= Len(d) PROVE FALSE
      <4>1. KeyAt(y, j) = KeyAt(d, j)
        BY <3>1 DEF KeyPrefix
      <4>2. ASSUME NEW k \in Place, k < j PROVE KeyAt(x, k) = KeyAt(d, k)
        <5>1. k <= Len(d)
          BY <1>0, <3>1, <4>2 DEF Place
        <5> QED BY <2>2, <4>2, <5>1 DEF KeyPrefix, AgreeBefore
      <4>3. Before(x, d)
        BY <2>2, <4>1, <4>2 DEF Before, AgreeBefore
      <4> QED BY <4>3
    <3> QED BY <3>1
  <2>4. ASSUME NEW k \in Place, k <= Len(d) PROVE KeyAt(x, k) = KeyAt(d, k)
    <3>1. k < j
      BY <1>0, <2>3, <2>4 DEF Place
    <3> QED BY <2>2, <2>4, <3>1 DEF KeyPrefix, AgreeBefore
  <2>5. Len(d) <= Len(x)
    <3>1. ASSUME Len(d) > Len(x) PROVE FALSE
      <4>1. Len(d) \in Place
        BY <1>0, <3>1 DEF Place
      <4>2. KeyAt(x, Len(d)) = -3 /\ ~(KeyAt(d, Len(d)) = -3)
        BY <1>0, <3>1, <4>1, KeyAtType
      <4>3. KeyAt(x, Len(d)) = KeyAt(d, Len(d))
        BY <1>0, <2>4, <4>1
      <4> QED BY <4>2, <4>3
    <3> QED BY <1>0, <3>1
  <2>6. KeyAt(x, Len(d) + 1) <= KeyAt(y, Len(d) + 1)
    <3>1. KeyAt(x, Len(d) + 1) \in Int /\ KeyAt(y, Len(d) + 1) \in Int
      BY <1>1, KeyAtType
    <3>2. CASE j = Len(d) + 1
      BY <2>2, <3>1, <3>2
    <3>3. CASE j # Len(d) + 1
      <4>1. Len(d) + 1 < j
        BY <1>0, <2>3, <3>3 DEF Place
      <4> QED BY <1>1, <2>2, <3>1, <4>1 DEF AgreeBefore
    <3> QED BY <3>2, <3>3
  <2> QED BY <2>4, <2>5, <2>6 DEF KeyPrefix
<1> QED BY <1>2, <1>3

\* What FileNameHasPrefix tells of two names of the map.
LEMMA NameHasPrefix ==
  ASSUME OnlyAscii, NEW n \in Names, NEW d \in Names
  PROVE  FileNameHasPrefix(Spell(n), Spell(d)) <=>
           KeyPrefix(Spell(d), Spell(n)) /\ (d = Root \/ KeyAt(Spell(n), Len(Spell(d)) + 1) < 0)
<1>1. /\ WellSpelled(Spell(n)) /\ Spell(n) \in Codes /\ Len(Spell(n)) \in Nat \ {0}
      /\ WellSpelled(Spell(d)) /\ Len(Spell(d)) \in Nat \ {0}
  BY NamesAreWellSpelled
<1>2. d = Root <=> Spell(d) = <<Backslash>>
  <2>1. d = Root => Spell(d) = <<Backslash>>
    BY RootIsSpelled
  <2>2. Spell(d) = <<Backslash>> => ~(Len(Spell(d)) > 1)
    BY RootIsSpelled
  <2> QED BY <2>1, <2>2, NamesAreWellSpelled
<1>3. Len(Spell(d)) + 1 \in Place
  BY <1>1 DEF Place
<1>4. ASSUME KeyPrefix(Spell(d), Spell(n))
      PROVE (Len(Spell(n)) = Len(Spell(d)) \/ Separator(Spell(n)[Len(Spell(d)) + 1]))
            <=> KeyAt(Spell(n), Len(Spell(d)) + 1) < 0
  <2>1. CASE Len(Spell(n)) = Len(Spell(d))
    <3>1. KeyAt(Spell(n), Len(Spell(d)) + 1) = -3
      BY <1>1, <1>3, <2>1, KeyAtType
    <3> QED BY <2>1, <3>1
  <2>2. CASE Len(Spell(n)) # Len(Spell(d))
    <3>1. Len(Spell(d)) + 1 <= Len(Spell(n))
      BY <1>1, <1>4, <2>2 DEF KeyPrefix
    <3> QED BY <1>1, <1>3, <2>2, <3>1, KeyAtType
  <2> QED BY <2>1, <2>2
<1> QED BY <1>1, <1>2, <1>4, PrefixIsKeyPrefix

\* Spelled below another: it ends there or goes on with a separator.
SpelledBelow(n, d) == KeyPrefix(Spell(d), Spell(n)) /\ KeyAt(Spell(n), Len(Spell(d)) + 1) < 0

LEMMA BelowRoot ==
  ASSUME OnlyAscii, NEW n \in Names
  PROVE  KeyPrefix(Spell(Root), Spell(n))
<1> DEFINE T == {x \in Names : KeyAt(Spell(x), 1) = -1}
<1>1. 1 \in Place /\ \A k \in Place : k <= 1 => k = 1
  BY DEF Place
<1>2. Root \in T
  <2>1. 1 \in 1 .. Len(Spell(Root)) /\ Spell(Root)[1] = Backslash /\ Key(Backslash) = -1
    BY RootIsSpelled DEF Key, Backslash, Colon
  <2> QED BY <2>1, RootIs DEF KeyAt
<1>3. ASSUME NEW x \in Names \ {Root}, Up(x) \in T PROVE x \in T
  <2>1. /\ Len(Stem(Up(x))) \in Nat
        /\ \A i \in Place : i <= Len(Stem(Up(x))) => KeyAt(Spell(x), i) = KeyAt(Stem(Up(x)), i)
        /\ KeyAt(Spell(x), Len(Stem(Up(x))) + 1) = Key(Sep(x))
    BY SpellStep, SepIs, JoinedKeys
  <2>2. CASE Up(x) = Root
    <3>1. Len(Stem(Up(x))) + 1 = 1
      BY <2>2, NothingIsSpelled DEF Stem
    <3>2. Key(Sep(x)) = -1
      BY <2>2, UpIs DEF Sep, Key, Backslash, Colon
    <3> QED BY <2>1, <3>1, <3>2
  <2>3. CASE Up(x) # Root
    <3>1. Stem(Up(x)) = Spell(Up(x)) /\ 1 <= Len(Spell(Up(x)))
      BY <1>3, <2>3, NamesAreWellSpelled DEF Stem
    <3> QED BY <1>1, <1>3, <2>1, <3>1
  <2> QED BY <2>2, <2>3
<1>4. n \in T
  <2> HIDE DEF T
  <2> QED BY <1>2, <1>3, UpInduction
<1>5. KeyAt(Spell(Root), 1) = -1 /\ Len(Spell(Root)) = 1
  BY <1>2, RootIsSpelled
<1> QED BY <1>1, <1>4, <1>5, NamesAreWellSpelled DEF KeyPrefix

\* A name is spelled below d if it is d or what it is put together from is.
LEMMA SpelledBelowUp ==
  ASSUME OnlyAscii, NEW n \in Names, n # Root, NEW d \in Names, d # Root
  PROVE  SpelledBelow(n, d) <=> n = d \/ SpelledBelow(Up(n), d)
<1> DEFINE s == Spell(n)
           u == Stem(Up(n))
           e == Spell(d)
<1>1. /\ Len(u) \in Nat /\ Len(s) \in Nat /\ Len(s) > Len(u) + 1
      /\ \A i \in Place : i <= Len(u) => KeyAt(s, i) = KeyAt(u, i)
      /\ KeyAt(s, Len(u) + 1) < 0
      /\ \A k \in Place : Len(u) + 1 < k /\ k <= Len(s) => KeyAt(s, k) >= 0
  <2>1. IsJoined(s, u, Sep(n), Part(n)) /\ IsPart(Part(n)) /\ Separator(Sep(n))
    BY SpellStep, SepIs
  <2> HIDE DEF s, u
  <2>2. /\ Len(u) \in Nat /\ Len(Part(n)) \in Nat \ {0} /\ Len(s) = Len(u) + 1 + Len(Part(n)) /\ Len(s) \in Nat
        /\ \A i \in Place : i <= Len(u) => KeyAt(s, i) = KeyAt(u, i)
        /\ KeyAt(s, Len(u) + 1) < 0
        /\ \A k \in Place : Len(u) + 1 < k /\ k <= Len(s) => KeyAt(s, k) >= 0
    BY <2>1, JoinedKeys
  <2> QED BY <2>2
<1>2. s \in Codes /\ e \in Codes /\ Len(e) \in Nat /\ Len(e) > 1 /\ Up(n) \in Names
  BY NamesAreWellSpelled, UpIs
<1>3. Up(n) # Root => u = Spell(Up(n)) /\ u \in Codes
  BY <1>2, NamesAreWellSpelled DEF Stem
<1>4. Up(n) = Root => Len(u) = 0 /\ Len(Spell(Up(n))) = 1
  BY RootIsSpelled, NothingIsSpelled DEF Stem
<1>5. Len(e) + 1 \in Place
  BY <1>2 DEF Place
<1>6. n = d => SpelledBelow(n, d)
  <2>1. KeyAt(e, Len(e) + 1) = -3
    BY <1>2, <1>5, KeyAtType
  <2> QED BY <1>2, <2>1 DEF SpelledBelow, KeyPrefix
<1>7. n # d => ~(KeyPrefix(e, s) /\ Len(e) = Len(s))
  BY <1>2, AlikeIsKeyPrefix, AlikeNamesAreEqual
<1> HIDE DEF s, u, e
<1>8. CASE Len(e) <= Len(u)
  <2>1. u = Spell(Up(n)) /\ u \in Codes
    BY <1>1, <1>2, <1>3, <1>4, <1>8
  <2>2. KeyPrefix(e, s) <=> KeyPrefix(e, u)
    BY <1>1, <1>2, <1>8 DEF KeyPrefix, Place
  <2>3. KeyAt(s, Len(e) + 1) < 0 <=> KeyAt(u, Len(e) + 1) < 0
    <3>1. CASE Len(e) = Len(u)
      <4>1. KeyAt(u, Len(e) + 1) = -3
        BY <1>2, <1>5, <2>1, <3>1, KeyAtType
      <4> QED BY <1>1, <3>1, <4>1
    <3>2. CASE Len(e) < Len(u)
      <4>1. Len(e) + 1 <= Len(u)
        BY <1>1, <1>2, <3>2
      <4> QED BY <1>1, <1>5, <4>1
    <3> QED BY <1>1, <1>2, <1>8, <3>1, <3>2
  <2>4. n # d
    BY <1>1, <1>2, <1>8 DEF s, e
  <2> QED BY <2>1, <2>2, <2>3, <2>4 DEF SpelledBelow, s, e
<1>9. CASE Len(e) > Len(u)
  <2>1. ~SpelledBelow(Up(n), d)
    <3>1. Len(Spell(Up(n))) < Len(e)
      BY <1>2, <1>3, <1>4, <1>9
    <3>2. Len(Spell(Up(n))) \in Nat
      BY <1>2, NamesAreWellSpelled
    <3> QED BY <1>2, <3>1, <3>2 DEF SpelledBelow, KeyPrefix, e
  <2>2. ASSUME SpelledBelow(n, d), n # d PROVE FALSE
    <3>1. KeyPrefix(e, s) /\ KeyAt(s, Len(e) + 1) < 0
      BY <2>2 DEF SpelledBelow, s, e
    <3>2. Len(e) < Len(s)
      BY <1>1, <1>2, <1>7, <2>2, <3>1 DEF KeyPrefix
    <3>3. Len(u) + 1 < Len(e) + 1 /\ Len(e) + 1 <= Len(s)
      BY <1>1, <1>2, <1>9, <3>2
    <3>4. KeyAt(s, Len(e) + 1) >= 0
      BY <1>1, <1>5, <3>3
    <3>5. KeyAt(s, Len(e) + 1) \in Int
      BY <1>2, <1>5, KeyAtType
    <3> QED BY <3>1, <3>4, <3>5
  <2> QED BY <1>6, <2>1, <2>2
<1> QED BY <1>1, <1>2, <1>8, <1>9

LEMMA PrefixIs ==
  ASSUME NEW S, NEW p \in Seq(S), NEW q \in Seq(S)
  PROVE  IsPrefix(p, q) <=> Len(p) <= Len(q) /\ \A i \in 1 .. Len(p) : p[i] = q[i]
<1>1. Len(p) \in Nat
  BY LenProperties
<1> QED BY <1>1 DEF IsPrefix

LEMMA PrefixOfFront ==
  ASSUME NEW S, NEW p \in Seq(S), NEW q \in Seq(S), Len(q) \in Nat \ {0}
  PROVE  IsPrefix(p, q) <=> p = q \/ IsPrefix(p, Front(q))
<1>1. PICK k \in Nat : Len(q) = k + 1
  <2>1. Len(q) - 1 \in Nat /\ Len(q) = (Len(q) - 1) + 1
    OBVIOUS
  <2> QED BY <2>1
<1>2. /\ Front(q) \in Seq(S) /\ Len(Front(q)) = k
      /\ \A i \in 1 .. k : Front(q)[i] = q[i]
  BY <1>1, FrontOf
<1>3. Len(p) \in Nat
  BY LenProperties
<1>4. IsPrefix(p, q) <=> Len(p) <= Len(q) /\ \A i \in 1 .. Len(p) : p[i] = q[i]
  BY PrefixIs
<1>5. IsPrefix(p, Front(q)) <=> Len(p) <= k /\ \A i \in 1 .. Len(p) : p[i] = Front(q)[i]
  BY <1>2, PrefixIs
<1>6. CASE Len(p) <= k
  <2>1. p # q /\ Len(p) <= Len(q)
    BY <1>1, <1>3, <1>6
  <2>2. \A i \in 1 .. Len(p) : Front(q)[i] = q[i]
    BY <1>2, <1>3, <1>6
  <2> QED BY <1>4, <1>5, <1>6, <2>1, <2>2
<1>7. CASE Len(p) > k
  <2>1. Len(p) <= Len(q) => Len(p) = Len(q)
    BY <1>1, <1>3, <1>7
  <2>2. IsPrefix(p, q) => p = q
    BY <1>4, <2>1, SeqEqual
  <2>3. p = q => IsPrefix(p, q)
    BY <1>3, <1>4
  <2>4. ~(Len(p) <= k)
    BY <1>3, <1>7
  <2> QED BY <1>5, <2>2, <2>3, <2>4
<1> QED BY <1>3, <1>6, <1>7

\* HasPrefix goes the same way up.
LEMMA HasPrefixUp ==
  ASSUME NEW n \in Names, n # Root, NEW d \in Names, d # Root
  PROVE  HasPrefix(n, d) <=> n = d \/ HasPrefix(Up(n), d)
<1>1. n.path \in Seq(Components) /\ d.path \in Seq(Components) /\ Len(n.path) \in Nat \ {0}
  BY NamePaths, PathAssumption
<1>2. CASE IsStream(d)
  BY <1>2, UpIs DEF HasPrefix
<1>3. CASE ~IsStream(d) /\ IsStream(n)
  <2>1. HasPrefix(n, d) <=> IsPrefix(d.path, n.path)
    BY <1>3 DEF HasPrefix
  <2>2. HasPrefix(Up(n), d) <=> IsPrefix(d.path, n.path)
    BY <1>3, MainIs DEF HasPrefix, Up
  <2> QED BY <1>3, <2>1, <2>2
<1>4. CASE ~IsStream(d) /\ ~IsStream(n)
  <2>1. HasPrefix(n, d) <=> IsPrefix(d.path, n.path)
    BY <1>4 DEF HasPrefix
  <2>2. HasPrefix(Up(n), d) <=> IsPrefix(d.path, Front(n.path))
    BY <1>4, ParentIs DEF HasPrefix, Up
  <2>3. n = d <=> d.path = n.path
    BY <1>4, NamePaths DEF IsStream
  <2> QED BY <1>1, <2>1, <2>2, <2>3, PrefixOfFront
<1> QED BY <1>2, <1>3, <1>4

LEMMA EmptyPrefix ==
  ASSUME NEW S, NEW q \in Seq(S)
  PROVE  IsPrefix(<<>>, q)
<1>1. Len(<<>>) = 0 /\ Len(q) \in Nat
  BY EmptySeq, LenProperties
<1>2. SubSeq(<<>>, 1, 0) = <<>> /\ SubSeq(q, 1, 0) = <<>>
  <2>1. 0 < 1 /\ 0 \in Int /\ 1 \in Int
    OBVIOUS
  <2> QED BY <2>1, SubSeqEmpty
<1> QED BY <1>1, <1>2 DEF IsPrefix

\* FileNameHasPrefix finds in the spelling what HasPrefix says of the names.
THEOREM PrefixIsFaithful ==
  ASSUME OnlyAscii, NEW n \in Names, NEW d \in Names
  PROVE  FileNameHasPrefix(Spell(n), Spell(d)) <=> HasPrefix(n, d)
<1>1. CASE d = Root
  <2>1. HasPrefix(n, d)
    BY <1>1, NamePaths, RootIs, EmptyPrefix DEF HasPrefix
  <2> QED BY <1>1, <2>1, NameHasPrefix, BelowRoot
<1>2. CASE d # Root
  <2> DEFINE T == {x \in Names : SpelledBelow(x, d) <=> HasPrefix(x, d)}
  <2>1. Root \in T
    <3>1. ~SpelledBelow(Root, d)
      BY <1>2, RootIsSpelled, NamesAreWellSpelled DEF SpelledBelow, KeyPrefix
    <3>2. ~HasPrefix(Root, d)
      <4>1. Len(d.path) >= 1 /\ Len(Root.path) = 0
        BY <1>2, NamePaths, PathAssumption, RootIs, EmptySeq
      <4> QED BY <1>2, <4>1 DEF HasPrefix, IsPrefix
    <3> QED BY <3>1, <3>2, RootIs
  <2>2. ASSUME NEW x \in Names \ {Root}, Up(x) \in T PROVE x \in T
    BY <1>2, <2>2, SpelledBelowUp, HasPrefixUp
  <2>3. n \in T
    <3> HIDE DEF T
    <3> QED BY <2>1, <2>2, UpInduction
  <2> QED BY <1>2, <2>3, NameHasPrefix DEF SpelledBelow
<1> QED BY <1>1, <1>2

\* The keys of a name and the place of its last separator, in its spelling.
LEMMA SpelledFrom ==
  ASSUME OnlyAscii, NEW n \in Names, n # Root
  PROVE  /\ Spell(n) \in Codes /\ Stem(Up(n)) \in Codes /\ Part(n) \in Codes
         /\ Len(Spell(n)) \in Nat /\ Len(Stem(Up(n))) \in Nat /\ Len(Part(n)) \in Nat \ {0}
         /\ Len(Spell(n)) = Len(Stem(Up(n))) + 1 + Len(Part(n))
         /\ \A k \in 1 .. Len(Stem(Up(n))) : Spell(n)[k] = Stem(Up(n))[k]
         /\ Spell(n)[Len(Stem(Up(n))) + 1] = Sep(n)
         /\ \A j \in 1 .. Len(Part(n)) : Spell(n)[Len(Stem(Up(n))) + 1 + j] = Part(n)[j]
         /\ \A k \in Len(Stem(Up(n))) + 2 .. Len(Spell(n)) : ~Separator(Spell(n)[k])
<1>1. IsJoined(Spell(n), Stem(Up(n)), Sep(n), Part(n)) /\ IsPart(Part(n)) /\ Separator(Sep(n))
  BY SpellStep, SepIs
<1>2. PICK s, u, sep, c : s = Spell(n) /\ u = Stem(Up(n)) /\ sep = Sep(n) /\ c = Part(n)
  OBVIOUS
<1>3. IsJoined(s, u, sep, c) /\ IsPart(c) /\ Separator(sep)
  BY <1>1, <1>2
<1>4. /\ s \in Codes /\ u \in Codes /\ c \in Codes
      /\ Len(u) \in Nat /\ Len(c) \in Nat \ {0} /\ Len(s) = Len(u) + 1 + Len(c) /\ Len(s) \in Nat
      /\ \A k \in 1 .. Len(u) : s[k] = u[k]
      /\ s[Len(u) + 1] = sep
      /\ \A j \in 1 .. Len(c) : s[Len(u) + 1 + j] = c[j]
  BY <1>3, JoinedKeys DEF IsJoined, IsPart
<1>5. \A k \in Place : Len(u) + 1 < k /\ k <= Len(s) => ~Separator(s[k])
  BY <1>3, JoinedKeys
<1>6. \A k \in Len(u) + 2 .. Len(s) : ~Separator(s[k])
  BY <1>4, <1>5 DEF Place
<1> QED BY <1>2, <1>4, <1>6

LEMMA FilesHaveNoColon ==
  ASSUME OnlyAscii, NEW n \in Names, ~IsStream(n)
  PROVE  \A k \in 1 .. Len(Spell(n)) : Spell(n)[k] # Colon
<1> DEFINE Free(x) == \A k \in 1 .. Len(Spell(x)) : Spell(x)[k] # Colon
           T == {x \in Names : IsStream(x) \/ Free(x)}
<1>1. Root \in T
  <2>1. \A k \in 1 .. Len(Spell(Root)) : k = 1
    BY RootIsSpelled
  <2>2. Spell(Root)[1] = Backslash
    BY RootIsSpelled
  <2>3. Free(Root)
    BY <2>1, <2>2, SeparatorsAreChars
  <2> QED BY <2>3, RootIs
<1>2. ASSUME NEW x \in Names \ {Root}, Up(x) \in T PROVE x \in T
  <2>1. SUFFICES ASSUME ~IsStream(x), NEW k \in 1 .. Len(Spell(x)) PROVE Spell(x)[k] # Colon
    OBVIOUS
  <2>2. /\ Len(Spell(x)) \in Nat /\ Len(Stem(Up(x))) \in Nat
        /\ \A i \in 1 .. Len(Stem(Up(x))) : Spell(x)[i] = Stem(Up(x))[i]
        /\ Spell(x)[Len(Stem(Up(x))) + 1] = Backslash
        /\ \A i \in Len(Stem(Up(x))) + 2 .. Len(Spell(x)) : ~Separator(Spell(x)[i])
    BY <2>1, SpelledFrom DEF Sep
  <2>3. \A i \in 1 .. Len(Stem(Up(x))) : Stem(Up(x))[i] # Colon
    <3>1. CASE Up(x) = Root
      BY <3>1, NothingIsSpelled DEF Stem
    <3>2. CASE Up(x) # Root
      BY <1>2, <3>2, UpIs DEF Stem
    <3> QED BY <3>1, <3>2
  <2>4. CASE k <= Len(Stem(Up(x)))
    <3>1. k \in 1 .. Len(Stem(Up(x)))
      BY <2>2, <2>4
    <3> QED BY <2>2, <2>3, <3>1
  <2>5. CASE k = Len(Stem(Up(x))) + 1
    BY <2>2, <2>5, SeparatorsAreChars
  <2>6. CASE k > Len(Stem(Up(x))) + 1
    <3>1. k \in Len(Stem(Up(x))) + 2 .. Len(Spell(x))
      BY <2>2, <2>6
    <3> QED BY <2>2, <3>1 DEF Separator
  <2> QED BY <2>2, <2>4, <2>5, <2>6
<1>3. n \in T
  <2> HIDE DEF T
  <2> QED BY <1>1, <1>2, UpInduction
<1> QED BY <1>3

\* The one colon of the name of a stream stands behind the name of the file.
LEMMA ColonAt ==
  ASSUME OnlyAscii, NEW n \in Names, NEW k \in 1 .. Len(Spell(n))
  PROVE  Spell(n)[k] = Colon <=> IsStream(n) /\ k = Len(Spell(MainName(n))) + 1
<1>1. CASE ~IsStream(n)
  BY <1>1, FilesHaveNoColon
<1>2. CASE IsStream(n)
  <2>1. n # Root /\ Up(n) = MainName(n) /\ MainName(n) # Root
    BY <1>2, RootIs, MainIs DEF Up
  <2>2. PICK u : u = Spell(MainName(n)) /\ u = Stem(Up(n))
    BY <2>1 DEF Stem
  <2>3. \A i \in 1 .. Len(u) : u[i] # Colon
    <3>1. MainName(n) \in Names /\ ~IsStream(MainName(n))
      BY MainIs
    <3>2. \A i \in 1 .. Len(Spell(MainName(n))) : Spell(MainName(n))[i] # Colon
      BY <3>1, FilesHaveNoColon
    <3> QED BY <2>2, <3>2
  <2>4. /\ Len(Spell(n)) \in Nat /\ Len(u) \in Nat
        /\ \A i \in 1 .. Len(u) : Spell(n)[i] = u[i]
        /\ Spell(n)[Len(u) + 1] = Colon
        /\ \A i \in Len(u) + 2 .. Len(Spell(n)) : ~Separator(Spell(n)[i])
    BY <1>2, <2>1, <2>2, SpelledFrom DEF Sep
  <2>5. CASE k <= Len(u)
    <3>1. k \in 1 .. Len(u) /\ k # Len(u) + 1
      BY <2>4, <2>5
    <3> QED BY <2>2, <2>3, <2>4, <3>1
  <2>6. CASE k = Len(u) + 1
    BY <1>2, <2>2, <2>4, <2>6
  <2>7. CASE k > Len(u) + 1
    <3>1. k \in Len(u) + 2 .. Len(Spell(n)) /\ k # Len(u) + 1
      BY <2>4, <2>7
    <3> QED BY <2>2, <2>4, <3>1 DEF Separator
  <2> QED BY <2>4, <2>5, <2>6, <2>7
<1> QED BY <1>1, <1>2

LEMMA CodesDomain ==
  ASSUME NEW a \in Codes
  PROVE  DOMAIN a = 1 .. Len(a) /\ Len(a) \in Nat
BY LenProperties DEF Codes

\* HasColon tells a stream, and StreamName what it is called.
LEMMA StreamNameIs ==
  ASSUME OnlyAscii, NEW n \in Names
  PROVE  /\ HasColon(Spell(n)) <=> IsStream(n)
         /\ IsStream(n) => StreamName(Spell(n)) = n.stream
         /\ ~IsStream(n) => StreamName(Spell(n)) = <<>>
<1> DEFINE colons == {k \in DOMAIN Spell(n) : Spell(n)[k] = Colon}
           at == Len(Spell(MainName(n))) + 1
<1>1. Spell(n) \in Codes /\ DOMAIN Spell(n) = 1 .. Len(Spell(n)) /\ Len(Spell(n)) \in Nat
  BY NamesAreWellSpelled, CodesDomain
<1>2. colons = {k \in 1 .. Len(Spell(n)) : IsStream(n) /\ k = at}
  BY <1>1, ColonAt
<1>3. CASE ~IsStream(n)
  BY <1>2, <1>3 DEF HasColon, StreamName
<1>4. CASE IsStream(n)
  <2>1. n # Root /\ Up(n) = MainName(n) /\ MainName(n) # Root /\ Part(n) = n.stream
    BY <1>4, RootIs, MainIs DEF Up, Part
  <2>2. /\ Part(n) \in Codes /\ Len(Part(n)) \in Nat \ {0} /\ at - 1 \in Nat
        /\ Len(Spell(n)) = at + Len(Part(n))
        /\ \A j \in 1 .. Len(Part(n)) : Spell(n)[at + j] = Part(n)[j]
    <3>1. Stem(Up(n)) = Spell(MainName(n))
      BY <2>1 DEF Stem
    <3>2. /\ Part(n) \in Codes /\ Len(Part(n)) \in Nat \ {0} /\ Len(Stem(Up(n))) \in Nat
          /\ Len(Spell(n)) = Len(Stem(Up(n))) + 1 + Len(Part(n))
          /\ \A j \in 1 .. Len(Part(n)) : Spell(n)[Len(Stem(Up(n))) + 1 + j] = Part(n)[j]
      BY <2>1, SpelledFrom
    <3> QED BY <3>1, <3>2
  <2>3. at \in 1 .. Len(Spell(n))
    BY <1>1, <2>2
  <2>4. colons = {at}
    BY <1>2, <1>4, <2>3
  <2>5. HasColon(Spell(n)) /\ Min(colons) = at
    <3>1. at \in Nat /\ colons \in SUBSET Nat /\ colons # {}
      BY <2>3, <2>4
    <3>2. Min(colons) \in colons
      BY <3>1, MinIs
    <3>3. at \in colons
      BY <2>4
    <3> QED BY <2>4, <3>2, <3>3 DEF HasColon
  <2>6. StreamName(Spell(n)) = SubSeq(Spell(n), at + 1, Len(Spell(n)))
    BY <2>5 DEF StreamName
  <2>7. /\ SubSeq(Spell(n), at + 1, Len(Spell(n))) \in Codes
        /\ Len(SubSeq(Spell(n), at + 1, Len(Spell(n)))) = Len(Spell(n)) - at
        /\ \A j \in 1 .. Len(Spell(n)) - at : SubSeq(Spell(n), at + 1, Len(Spell(n)))[j] = Spell(n)[at + j]
    <3>1. at \in Nat /\ at <= Len(Spell(n)) /\ Len(Spell(n)) <= Len(Spell(n))
      BY <1>1, <2>2
    <3> HIDE DEF at
    <3> QED BY <1>1, <3>1, PieceOf
  <2> HIDE DEF at
  <2>8. Len(Spell(n)) - at = Len(Part(n))
    BY <2>2, <2>3
  <2>9. SubSeq(Spell(n), at + 1, Len(Spell(n))) = Part(n)
    BY <2>2, <2>7, <2>8, SeqEqual DEF Codes
  <2> QED BY <1>4, <2>1, <2>5, <2>6, <2>9
<1> QED BY <1>3, <1>4

LEMMA LastBackslashAt ==
  ASSUME NEW s \in Codes, NEW p \in 1 .. Len(s), s[p] = Backslash,
         \A k \in p + 1 .. Len(s) : s[k] # Backslash
  PROVE  LastBackslash(s) = p
<1> DEFINE S == {k \in 1 .. Len(s) : s[k] = Backslash} \cup {0}
<1>1. Len(s) \in Nat
  BY CodesDomain
<1>2. p \in S /\ \A k \in S : k \in Nat /\ k <= p
  BY <1>1
<1>3. LastBackslash(s) = Max(S)
  BY DEF LastBackslash
<1> HIDE DEF S
<1>4. S \in SUBSET Nat /\ S # {} /\ p \in Nat
  BY <1>2
<1>5. Max(S) \in S /\ \A k \in S : k <= Max(S)
  BY <1>2, <1>4, MaxIs
<1>6. PICK m : m = Max(S)
  OBVIOUS
<1>7. m \in Nat /\ m <= p /\ p <= m
  BY <1>2, <1>5, <1>6
<1> QED BY <1>3, <1>4, <1>6, <1>7

\* The last backslash of a name, a stream's too, is behind the directory.
LEMMA LastBackslashIs ==
  ASSUME OnlyAscii, NEW n \in Names, n # Root
  PROVE  /\ Len(Stem(ParentName(n))) + 1 \in 1 .. Len(Spell(n))
         /\ Spell(n)[Len(Stem(ParentName(n))) + 1] = Backslash
         /\ \A k \in 1 .. Len(Stem(ParentName(n))) : Spell(n)[k] = Stem(ParentName(n))[k]
         /\ LastBackslash(Spell(n)) = Len(Stem(ParentName(n))) + 1
<1>1. PICK f \in Names : f = MainName(n)
  BY MainIs
<1>2. f # Root /\ ~IsStream(f) /\ Up(f) = ParentName(n) /\ ParentName(f) = ParentName(n)
  BY <1>1, MainIs DEF Up, ParentName
<1>3. PICK u : u = Stem(ParentName(n))
  OBVIOUS
<1>4. PICK t : t = Spell(f)
  OBVIOUS
<1>5. /\ t \in Codes /\ u \in Codes /\ Len(t) \in Nat /\ Len(u) \in Nat /\ Len(t) > Len(u) + 1
      /\ \A k \in 1 .. Len(u) : t[k] = u[k]
      /\ t[Len(u) + 1] = Backslash
      /\ \A k \in Len(u) + 2 .. Len(t) : ~Separator(t[k])
  <2>1. /\ Spell(f) \in Codes /\ Stem(Up(f)) \in Codes /\ Part(f) \in Codes
        /\ Len(Spell(f)) \in Nat /\ Len(Stem(Up(f))) \in Nat /\ Len(Part(f)) \in Nat \ {0}
        /\ Len(Spell(f)) = Len(Stem(Up(f))) + 1 + Len(Part(f))
        /\ \A k \in 1 .. Len(Stem(Up(f))) : Spell(f)[k] = Stem(Up(f))[k]
        /\ Spell(f)[Len(Stem(Up(f))) + 1] = Sep(f)
        /\ \A k \in Len(Stem(Up(f))) + 2 .. Len(Spell(f)) : ~Separator(Spell(f)[k])
    BY <1>2, SpelledFrom
  <2>2. Sep(f) = Backslash
    BY <1>2 DEF Sep
  <2>3. Len(t) > Len(u) + 1
    BY <1>2, <1>3, <1>4, <2>1
  <2> QED BY <1>2, <1>3, <1>4, <2>1, <2>2, <2>3
<1>6. PICK s \in Codes : s = Spell(n) /\ Len(s) \in Nat
  BY NamesAreWellSpelled
<1>7. /\ Len(s) >= Len(t) /\ \A k \in 1 .. Len(t) : s[k] = t[k]
      /\ \A k \in Len(t) + 1 .. Len(s) : s[k] # Backslash
  <2>1. CASE ~IsStream(n)
    <3>1. s = t
      BY <1>1, <1>4, <1>6, <2>1, MainIs
    <3> QED BY <1>5, <3>1
  <2>2. CASE IsStream(n)
    <3>1. Stem(Up(n)) = t
      BY <1>1, <1>2, <1>4, <2>2 DEF Up, Stem
    <3>2. /\ Len(Spell(n)) = Len(Stem(Up(n))) + 1 + Len(Part(n)) /\ Len(Part(n)) \in Nat \ {0}
          /\ \A k \in 1 .. Len(Stem(Up(n))) : Spell(n)[k] = Stem(Up(n))[k]
          /\ Spell(n)[Len(Stem(Up(n))) + 1] = Sep(n)
          /\ \A k \in Len(Stem(Up(n))) + 2 .. Len(Spell(n)) : ~Separator(Spell(n)[k])
      BY SpelledFrom
    <3>3. Sep(n) = Colon
      BY <2>2 DEF Sep
    <3>4. Len(s) >= Len(t) /\ \A k \in 1 .. Len(t) : s[k] = t[k]
      BY <1>5, <1>6, <3>1, <3>2
    <3>5. ASSUME NEW k \in Len(t) + 1 .. Len(s) PROVE s[k] # Backslash
      <4>1. CASE k = Len(t) + 1
        BY <1>6, <3>1, <3>2, <3>3, <4>1, SeparatorsAreChars
      <4>2. CASE k # Len(t) + 1
        <5>1. k \in Len(t) + 2 .. Len(s)
          BY <1>5, <1>6, <4>2
        <5> QED BY <1>6, <3>1, <3>2, <5>1 DEF Separator
      <4> QED BY <4>1, <4>2
    <3> QED BY <3>4, <3>5
  <2> QED BY <2>1, <2>2
<1>8. Len(u) + 1 \in 1 .. Len(s) /\ Len(u) + 1 \in 1 .. Len(t) /\ \A k \in 1 .. Len(u) : k \in 1 .. Len(t)
  BY <1>5, <1>6, <1>7
<1>9. s[Len(u) + 1] = Backslash /\ \A k \in 1 .. Len(u) : s[k] = u[k]
  BY <1>5, <1>7, <1>8
<1>10. ASSUME NEW k \in (Len(u) + 1) + 1 .. Len(s) PROVE s[k] # Backslash
  <2>1. CASE k <= Len(t)
    <3>1. k \in 1 .. Len(t) /\ k \in Len(u) + 2 .. Len(t)
      BY <1>5, <1>6, <2>1
    <3> QED BY <1>5, <1>7, <3>1 DEF Separator
  <2>2. CASE k > Len(t)
    <3>1. k \in Len(t) + 1 .. Len(s)
      BY <1>5, <1>6, <2>2
    <3> QED BY <1>7, <3>1
  <2> QED BY <1>5, <2>1, <2>2
<1>11. LastBackslash(s) = Len(u) + 1
  BY <1>8, <1>9, <1>10, LastBackslashAt
<1> QED BY <1>3, <1>6, <1>8, <1>9, <1>11

LEMMA RootsBackslash == LastBackslash(Spell(Root)) = 1
<1>1. 1 \in 1 .. Len(Spell(Root)) /\ Spell(Root)[1] = Backslash /\ Spell(Root) \in Codes
      /\ \A k \in 1 + 1 .. Len(Spell(Root)) : FALSE
  BY RootIsSpelled DEF WellSpelled
<1> QED BY <1>1, LastBackslashAt

LEMMA RemainPrefixIs ==
  ASSUME OnlyAscii, NEW n \in Names
  PROVE  RemainPrefix(Spell(n)) = IF n = Root THEN Spell(Root) ELSE Spell(ParentName(n))
<1>1. CASE n = Root
  BY <1>1, RootsBackslash, RootIsSpelled DEF RemainPrefix
<1>2. CASE n # Root
  <2>1. PICK u : u = Stem(ParentName(n))
    OBVIOUS
  <2>2. PICK s \in Codes : s = Spell(n) /\ Len(s) \in Nat
    BY NamesAreWellSpelled
  <2>3. /\ Len(u) + 1 \in 1 .. Len(s) /\ \A k \in 1 .. Len(u) : s[k] = u[k]
        /\ LastBackslash(s) = Len(u) + 1
    BY <1>2, <2>1, <2>2, LastBackslashIs
  <2>4. CASE ParentName(n) = Root
    <3>1. Len(u) + 1 = 1
      BY <2>1, <2>4, NothingIsSpelled DEF Stem
    <3> QED BY <1>2, <2>2, <2>3, <2>4, <3>1, RootIsSpelled DEF RemainPrefix
  <2>5. CASE ParentName(n) # Root
    <3>1. u = Spell(ParentName(n)) /\ u \in Codes /\ Len(u) \in Nat \ {0}
      BY <1>2, <2>1, <2>5, ParentIs, NamesAreWellSpelled DEF Stem
    <3>2. RemainPrefix(s) = SubSeq(s, 1, Len(u))
      <4>1. (Len(u) + 1) - 1 = Len(u) /\ Len(u) + 1 # 0 /\ Len(u) + 1 # 1
        BY <3>1
      <4> QED BY <2>3, <4>1 DEF RemainPrefix
    <3>3. /\ SubSeq(s, 0 + 1, Len(u)) \in Codes /\ Len(SubSeq(s, 0 + 1, Len(u))) = Len(u) - 0
          /\ \A j \in 1 .. Len(u) - 0 : SubSeq(s, 0 + 1, Len(u))[j] = s[0 + j]
      <4>1. 0 \in Nat /\ Len(u) \in Nat /\ 0 <= Len(u) /\ Len(u) <= Len(s)
        BY <2>2, <2>3, <3>1
      <4> QED BY <4>1, PieceOf
    <3>4. 0 + 1 = 1 /\ Len(u) - 0 = Len(u) /\ \A j \in 1 .. Len(u) : 0 + j = j
      BY <3>1
    <3>5. SubSeq(s, 1, Len(u)) = u
      BY <2>3, <3>1, <3>3, <3>4, SeqEqual DEF Codes
    <3> QED BY <1>2, <2>2, <3>1, <3>2, <3>5
  <2> QED BY <2>4, <2>5
<1> QED BY <1>1, <1>2

\* What is listed of a child is its last component; the colon of a stream is
\* in what is left of it.
LEMMA SuffixIs ==
  ASSUME OnlyAscii, NEW n \in Names
  PROVE  /\ n # Root /\ ~IsStream(n) => Suffix(Spell(n)) = Part(n)
         /\ HasColon(Suffix(Spell(n))) <=> IsStream(n)
<1>1. PICK s \in Codes : s = Spell(n) /\ Len(s) \in Nat
  BY NamesAreWellSpelled
<1>2. CASE n = Root
  <2>1. Suffix(s) = SubSeq(s, 2, 1)
    <3>1. LastBackslash(s) = 1 /\ Len(s) = 1 /\ 1 + 1 = 2
      BY <1>1, <1>2, RootsBackslash, RootIsSpelled
    <3> QED BY <3>1 DEF Suffix
  <2>2. SubSeq(s, 2, 1) = <<>>
    <3>1. 1 < 2 /\ 2 \in Int /\ 1 \in Int
      OBVIOUS
    <3> QED BY <3>1, SubSeqEmpty
  <2>3. DOMAIN <<>> = {}
    BY NothingIsSpelled, CodesDomain
  <2> QED BY <1>1, <1>2, <2>1, <2>2, <2>3, RootIs DEF HasColon
<1>3. CASE n # Root
  <2>1. PICK u : u = Stem(ParentName(n))
    OBVIOUS
  <2>2. Len(u) + 1 \in 1 .. Len(s) /\ LastBackslash(s) = Len(u) + 1
    BY <1>1, <1>3, <2>1, LastBackslashIs
  <2>3. u \in Codes /\ Len(u) \in Nat
    <3>1. u \in Codes
      BY <1>3, <2>1, ParentIs, NamesAreWellSpelled, NothingIsSpelled DEF Stem
    <3> QED BY <3>1, CodesDomain
  <2>4. PICK c : c = SubSeq(s, (Len(u) + 1) + 1, Len(s))
    OBVIOUS
  <2>5. Suffix(s) = c
    BY <2>2, <2>3, <2>4 DEF Suffix
  <2>6. /\ c \in Codes /\ Len(c) = Len(s) - (Len(u) + 1)
        /\ \A j \in 1 .. Len(s) - (Len(u) + 1) : c[j] = s[(Len(u) + 1) + j]
    <3>1. Len(u) + 1 \in Nat /\ Len(u) + 1 <= Len(s) /\ Len(s) <= Len(s)
      BY <1>1, <2>2, <2>3
    <3>2. \A p \in Nat : p <= Len(s) =>
            /\ SubSeq(s, p + 1, Len(s)) \in Codes
            /\ Len(SubSeq(s, p + 1, Len(s))) = Len(s) - p
            /\ \A j \in 1 .. Len(s) - p : SubSeq(s, p + 1, Len(s))[j] = s[p + j]
      BY <1>1, PieceOf
    <3> QED BY <2>4, <3>1, <3>2
  <2>7. CASE ~IsStream(n)
    <3>1. Up(n) = ParentName(n)
      BY <2>7 DEF Up
    <3>2. /\ Part(n) \in Codes /\ Len(Part(n)) \in Nat \ {0}
          /\ Len(s) = Len(u) + 1 + Len(Part(n))
          /\ \A j \in 1 .. Len(Part(n)) : s[Len(u) + 1 + j] = Part(n)[j]
      BY <1>1, <1>3, <2>1, <3>1, SpelledFrom
    <3>3. Len(c) = Len(Part(n))
      BY <2>3, <2>6, <3>2
    <3>4. c = Part(n)
      BY <2>6, <3>2, <3>3, SeqEqual DEF Codes
    <3>5. ~HasColon(c)
      <4>1. \A j \in DOMAIN c : (Len(u) + 1) + j \in 1 .. Len(s)
        BY <2>3, <2>6, <3>2, CodesDomain
      <4>2. \A j \in DOMAIN c : c[j] # Colon
        BY <1>1, <2>6, <2>7, <4>1, FilesHaveNoColon, CodesDomain
      <4> QED BY <4>2 DEF HasColon
    <3> QED BY <1>1, <2>5, <2>7, <3>4, <3>5
  <2>8. CASE IsStream(n)
    <3>1. PICK f \in Names : f = MainName(n) /\ ~IsStream(f) /\ f # Root
      BY <1>3, MainIs
    <3>2. Up(n) = f /\ Stem(Up(n)) = Spell(f) /\ ParentName(f) = ParentName(n)
      BY <2>8, <3>1, MainIs DEF Up, Stem, ParentName
    <3>3. /\ Len(Spell(n)) = Len(Stem(Up(n))) + 1 + Len(Part(n)) /\ Len(Part(n)) \in Nat \ {0}
          /\ Spell(n)[Len(Stem(Up(n))) + 1] = Sep(n) /\ Len(Stem(Up(n))) \in Nat
      BY <1>3, SpelledFrom
    <3>4. Len(u) + 1 <= Len(Spell(f))
      <4>1. Len(Stem(ParentName(f))) + 1 \in 1 .. Len(Spell(f))
        BY <3>1, LastBackslashIs
      <4> QED BY <2>1, <2>3, <3>2, <3>3, <4>1
    <3>5. PICK e \in Nat : e = Len(Spell(f)) /\ s[e + 1] = Colon /\ e + 1 <= Len(s) /\ Len(u) + 1 <= e
      <4>1. Sep(n) = Colon
        BY <2>8 DEF Sep
      <4> QED BY <1>1, <3>2, <3>3, <3>4, <4>1
    <3>6. (e + 1) - (Len(u) + 1) \in 1 .. Len(s) - (Len(u) + 1)
          /\ (Len(u) + 1) + ((e + 1) - (Len(u) + 1)) = e + 1
      BY <1>1, <2>3, <3>5
    <3>7. c[(e + 1) - (Len(u) + 1)] = Colon /\ (e + 1) - (Len(u) + 1) \in DOMAIN c
      BY <2>6, <3>5, <3>6, CodesDomain
    <3> QED BY <1>1, <2>5, <2>8, <3>7 DEF HasColon
  <2> QED BY <2>7, <2>8
<1> QED BY <1>2, <1>3

LEMMA InDirectoryIs ==
  ASSUME OnlyAscii, NEW n \in Names, NEW d \in Names
  PROVE  InDirectory(n, d) <=> d = IF n = Root THEN Root ELSE ParentName(n)
<1>1. PICK p \in Names : p = IF n = Root THEN Root ELSE ParentName(n)
  BY RootIs, ParentIs
<1>2. RemainPrefix(Spelling[n]) = Spelling[p]
  BY <1>1, SpellingIs, RemainPrefixIs
<1>3. FileNameCompare(Spelling[p], Spelling[d]) = 0 <=> p = d
  BY SameNameCompares
<1> QED BY <1>1, <1>2, <1>3 DEF InDirectory

-----------------------------------------------------------------------------
(* The walks, for whatever names the map holds. *)

LEMMA NotLessIsNotBefore ==
  ASSUME OnlyAscii, NEW a \in Names, NEW b \in Names
  PROVE  ~Less(a, b) <=> ~Before(Spell(a), Spell(b))
BY LessIsBefore

\* What is below a directory comes behind it.
LEMMA PrefixComesFirst ==
  ASSUME OnlyAscii, NEW n \in Names, NEW d \in Names, HasPrefix(n, d)
  PROVE  /\ KeyPrefix(Spell(d), Spell(n))
         /\ ~Less(n, d)
         /\ n # d => Less(d, n)
<1>1. KeyPrefix(Spell(d), Spell(n))
  BY PrefixIsFaithful, NameHasPrefix
<1>2. ~Less(n, d)
  BY <1>1, NamesAreWellSpelled, PrefixIsNotBehind, LessIsBefore
<1> QED BY <1>1, <1>2, LessIsStrictOrder

\* What comes between a directory and something below it is below it, too.
LEMMA PrefixStretch ==
  ASSUME OnlyAscii, NEW n \in Names, NEW d \in Names, NEW m \in Names,
         HasPrefix(n, d), ~Less(m, d), ~Less(n, m)
  PROVE  /\ HasPrefix(m, d)
         /\ KeyAt(Spell(m), Len(Spell(d)) + 1) <= KeyAt(Spell(n), Len(Spell(d)) + 1)
<1>1. Spell(n) \in Codes /\ Spell(d) \in Codes /\ Spell(m) \in Codes /\ Len(Spell(d)) + 1 \in Place
  BY NamesAreWellSpelled DEF Place
<1>2. KeyPrefix(Spell(d), Spell(n)) /\ (d = Root \/ KeyAt(Spell(n), Len(Spell(d)) + 1) < 0)
  BY PrefixIsFaithful, NameHasPrefix
<1>3. ~Before(Spell(m), Spell(d)) /\ ~Before(Spell(n), Spell(m))
  BY NotLessIsNotBefore
<1>4. /\ KeyPrefix(Spell(d), Spell(m))
      /\ KeyAt(Spell(m), Len(Spell(d)) + 1) <= KeyAt(Spell(n), Len(Spell(d)) + 1)
  BY <1>1, <1>2, <1>3, StretchOfPrefix
<1>5. KeyAt(Spell(m), Len(Spell(d)) + 1) \in Int /\ KeyAt(Spell(n), Len(Spell(d)) + 1) \in Int
  BY <1>1, KeyAtType
<1>6. d = Root \/ KeyAt(Spell(m), Len(Spell(d)) + 1) < 0
  BY <1>2, <1>4, <1>5
<1>7. HasPrefix(m, d)
  BY <1>4, <1>6, PrefixIsFaithful, NameHasPrefix
<1> QED BY <1>4, <1>7

\* What the loop of EnumerateNamedStreams takes for a stream.
StreamFits(n, d) ==
  FileNameHasPrefix(Spelling[n], Spelling[d]) /\ Spelling[n][Len(Spelling[d]) + 1] = Colon

LEMMA StreamFitsIs ==
  ASSUME OnlyAscii, NEW n \in Names, NEW d \in Names, n # d
  PROVE  StreamFits(n, d) <=> IsStreamOf(n, d)
<1>1. /\ Spell(n) \in Codes /\ Len(Spell(n)) \in Nat /\ Spell(d) \in Codes /\ Len(Spell(d)) \in Nat
  BY NamesAreWellSpelled
<1>2. StreamFits(n, d) <=> HasPrefix(n, d) /\ Spell(n)[Len(Spell(d)) + 1] = Colon
  BY SpellingIs, PrefixIsFaithful DEF StreamFits
<1>3. ASSUME IsStreamOf(n, d) PROVE StreamFits(n, d)
  <2>1. IsStream(n) /\ d = MainName(n) /\ ~IsStream(d) /\ d.path = n.path
    BY <1>3, MainIs DEF IsStreamOf
  <2>2. n # Root /\ Up(n) = d /\ Stem(Up(n)) = Spell(d)
    BY <2>1, RootIs, MainIs DEF Up, Stem
  <2>3. Spell(n)[Len(Stem(Up(n))) + 1] = Sep(n) /\ Sep(n) = Colon
    BY <2>1, <2>2, SpelledFrom DEF Sep
  <2>4. HasPrefix(n, d)
    <3>1. d.path \in Seq(Components)
      BY NamePaths
    <3>2. IsPrefix(d.path, d.path)
      BY <3>1, PrefixIs, LenProperties
    <3> QED BY <2>1, <3>2 DEF HasPrefix
  <2> QED BY <1>2, <2>2, <2>3, <2>4
<1>4. ASSUME StreamFits(n, d) PROVE IsStreamOf(n, d)
  <2>1. KeyPrefix(Spell(d), Spell(n)) /\ Spell(n)[Len(Spell(d)) + 1] = Colon
    BY <1>2, <1>4, PrefixComesFirst
  <2>2. Len(Spell(d)) # Len(Spell(n))
    <3>1. ~Alike(Spell(n), Spell(d))
      BY AlikeNamesAreEqual
    <3> QED BY <1>1, <2>1, <3>1, AlikeIsKeyPrefix
  <2>3. Len(Spell(d)) + 1 \in 1 .. Len(Spell(n))
    BY <1>1, <2>1, <2>2 DEF KeyPrefix
  <2>4. IsStream(n) /\ Len(Spell(d)) + 1 = Len(Spell(MainName(n))) + 1
    BY <2>1, <2>3, ColonAt
  <2>5. PICK f \in Names : f = MainName(n)
    BY MainIs
  <2>6. Spell(f) \in Codes /\ Len(Spell(f)) \in Nat
    BY NamesAreWellSpelled
  <2>7. Len(Spell(f)) = Len(Spell(d))
    BY <1>1, <2>4, <2>5, <2>6
  <2>8. n # Root /\ Stem(Up(n)) = Spell(f)
    BY <2>4, <2>5, RootIs, MainIs DEF Up, Stem
  <2>9. KeyPrefix(Spell(f), Spell(n))
    <3>1. IsJoined(Spell(n), Spell(f), Sep(n), Part(n)) /\ IsPart(Part(n)) /\ Separator(Sep(n))
      BY <2>8, SpellStep, SepIs
    <3>2. PICK s, u : s = Spell(n) /\ u = Spell(f)
      OBVIOUS
    <3>3. \A i \in Place : i <= Len(u) => KeyAt(s, i) = KeyAt(u, i)
      BY <3>1, <3>2, JoinedKeys
    <3> QED BY <1>1, <2>3, <2>6, <2>7, <3>2, <3>3 DEF KeyPrefix
  <2>10. KeyPrefix(Spell(d), Spell(f))
    BY <2>1, <2>7, <2>9 DEF KeyPrefix
  <2>11. f = d
    BY <1>1, <2>6, <2>7, <2>10, AlikeIsKeyPrefix, AlikeNamesAreEqual
  <2> QED BY <2>4, <2>5, <2>11 DEF IsStreamOf
<1> QED BY <1>3, <1>4

LEMMA StreamComesBehind ==
  ASSUME OnlyAscii, NEW n \in Names, NEW d \in Names, IsStreamOf(n, d)
  PROVE  n # d /\ HasPrefix(n, d) /\ Less(d, n) /\ KeyAt(Spell(n), Len(Spell(d)) + 1) = -2
<1>1. n # d
  BY MainIs DEF IsStreamOf
<1>2. HasPrefix(n, d) /\ Spell(n)[Len(Spell(d)) + 1] = Colon
  BY <1>1, StreamFitsIs, SpellingIs, PrefixIsFaithful DEF StreamFits
<1>3. IsStream(n) /\ d = MainName(n) /\ n # Root /\ Up(n) = d /\ Stem(Up(n)) = Spell(d)
  BY RootIs, MainIs DEF IsStreamOf, Up, Stem
<1>4. Len(Spell(d)) + 1 \in 1 .. Len(Spell(n))
  BY <1>3, SpelledFrom
<1>5. KeyAt(Spell(n), Len(Spell(d)) + 1) = -2
  BY <1>2, <1>4 DEF KeyAt, Key
<1> QED BY <1>1, <1>2, <1>5, PrefixComesFirst

\* No name comes between a file and its streams.
LEMMA StreamStretch ==
  ASSUME OnlyAscii, NEW n \in Names, NEW d \in Names, NEW m \in Names,
         IsStreamOf(n, d), Less(d, m), ~Less(n, m)
  PROVE  IsStreamOf(m, d)
<1>1. ~Less(m, d) /\ m # d
  BY LessIsStrictOrder
<1>2. HasPrefix(n, d) /\ KeyAt(Spell(n), Len(Spell(d)) + 1) = -2
  BY StreamComesBehind
<1>3. HasPrefix(m, d) /\ KeyAt(Spell(m), Len(Spell(d)) + 1) <= -2
  BY <1>1, <1>2, PrefixStretch
<1>4. /\ Spell(m) \in Codes /\ Len(Spell(m)) \in Nat /\ Spell(d) \in Codes /\ Len(Spell(d)) \in Nat
      /\ Len(Spell(d)) + 1 \in Place
  BY NamesAreWellSpelled DEF Place
<1>5. KeyPrefix(Spell(d), Spell(m))
  BY <1>3, PrefixComesFirst
<1>6. Len(Spell(d)) # Len(Spell(m))
  <2>1. ~Alike(Spell(m), Spell(d))
    BY <1>1, AlikeNamesAreEqual
  <2> QED BY <1>4, <1>5, <2>1, AlikeIsKeyPrefix
<1>7. Len(Spell(d)) + 1 <= Len(Spell(m))
  BY <1>4, <1>5, <1>6 DEF KeyPrefix
<1>8. PICK c \in Chars : /\ c = Spell(m)[Len(Spell(d)) + 1]
                         /\ KeyAt(Spell(m), Len(Spell(d)) + 1) = Key(c)
  BY <1>4, <1>7, KeyAtType
<1>9. c = Colon
  <2>1. Key(c) \in Int /\ Key(c) <= -2 /\ (~Separator(c) => ~(Key(c) < 0))
    BY <1>3, <1>8, KeyFacts
  <2> QED BY <2>1 DEF Separator, Key, Backslash, Colon
<1>10. StreamFits(m, d)
  BY <1>3, <1>8, <1>9, SpellingIs, PrefixIsFaithful DEF StreamFits
<1> QED BY <1>1, <1>10, StreamFitsIs

\* EnumerateNamedStreams finds the streams of a file, whatever else there is.
LEMMA StreamsAreFound ==
  ASSUME OnlyAscii, fileMap \subseteq Names, NEW d \in Names
  PROVE  EnumerateNamedStreams(d) = {n \in fileMap : IsStreamOf(n, d)}
<1> DEFINE S == UpperBound(d)
<1>1. \A n \in S : n \in fileMap /\ n \in Names /\ Less(d, n) /\ n # d /\ ~Less(n, n)
  BY LessIsStrictOrder DEF UpperBound
<1>2. EnumerateNamedStreams(d) = {n \in S : \A m \in S : ~Less(n, m) => StreamFits(m, d)}
  BY DEF EnumerateNamedStreams, WalkWhile, StreamFits
<1>3. ASSUME NEW n \in S, \A m \in S : ~Less(n, m) => StreamFits(m, d)
      PROVE  IsStreamOf(n, d)
  BY <1>1, <1>3, StreamFitsIs
<1>4. ASSUME NEW n \in fileMap, IsStreamOf(n, d)
      PROVE  n \in S /\ \A m \in S : ~Less(n, m) => StreamFits(m, d)
  <2>1. n \in S
    BY <1>4, StreamComesBehind DEF UpperBound
  <2>2. ASSUME NEW m \in S, ~Less(n, m) PROVE StreamFits(m, d)
    <3>1. IsStreamOf(m, d)
      BY <1>1, <1>4, <2>1, <2>2, StreamStretch
    <3> QED BY <1>1, <3>1, StreamFitsIs
  <2> QED BY <2>1, <2>2
<1> HIDE DEF S
<1> QED BY <1>1, <1>2, <1>3, <1>4

LEMMA DescendantsAreFound ==
  ASSUME OnlyAscii, fileMap \subseteq Names, NEW d \in Names
  PROVE  EnumerateDescendants(d) = {n \in fileMap : HasPrefix(n, d)}
<1> DEFINE S == LowerBound(d)
<1>1. \A n \in S : n \in fileMap /\ n \in Names /\ ~Less(n, d) /\ ~Less(n, n)
  BY LessIsStrictOrder DEF LowerBound
<1>2. EnumerateDescendants(d) = {n \in S : \A m \in S : ~Less(n, m) => HasPrefix(m, d)}
  <2>1. \A m \in S : FileNameHasPrefix(Spelling[m], Spelling[d]) <=> HasPrefix(m, d)
    BY <1>1, SpellingIs, PrefixIsFaithful
  <2>2. EnumerateDescendants(d) =
          {n \in S : \A m \in S : ~Less(n, m) => FileNameHasPrefix(Spelling[m], Spelling[d])}
    BY DEF EnumerateDescendants, WalkWhile
  <2> HIDE DEF S
  <2> QED BY <2>1, <2>2
<1>3. ASSUME NEW n \in fileMap, HasPrefix(n, d)
      PROVE  n \in S /\ \A m \in S : ~Less(n, m) => HasPrefix(m, d)
  <2>1. n \in S
    BY <1>3, PrefixComesFirst DEF LowerBound
  <2>2. ASSUME NEW m \in S, ~Less(n, m) PROVE HasPrefix(m, d)
    BY <1>1, <1>3, <2>2, PrefixStretch
  <2> QED BY <2>1, <2>2
<1> HIDE DEF S
<1> QED BY <1>1, <1>2, <1>3

\* The children among names that come behind a directory.
LEMMA ChildrenAreFound ==
  ASSUME OnlyAscii, NEW d \in Names, NEW S, S \subseteq Names, \A n \in S : Less(d, n)
  PROVE  {n \in WalkWhile(S, LAMBDA x : FileNameHasPrefix(Spelling[x], Spelling[d])) :
            InDirectory(n, d) /\ ~HasColon(Suffix(Spelling[n]))}
         = {n \in S : IsChildOf(n, d)}
<1>1. \A n \in S : n \in Names /\ n # d /\ ~Less(n, d) /\ ~Less(n, n)
  BY LessIsStrictOrder
<1> DEFINE W == WalkWhile(S, LAMBDA x : FileNameHasPrefix(Spelling[x], Spelling[d]))
<1>2. W = {n \in S : \A m \in S : ~Less(n, m) => HasPrefix(m, d)}
  <2>1. \A m \in S : FileNameHasPrefix(Spelling[m], Spelling[d]) <=> HasPrefix(m, d)
    BY <1>1, SpellingIs, PrefixIsFaithful
  <2>2. W = {n \in S : \A m \in S : ~Less(n, m) => FileNameHasPrefix(Spelling[m], Spelling[d])}
    BY DEF WalkWhile
  <2> HIDE DEF W
  <2> QED BY <2>1, <2>2
<1> HIDE DEF W
<1>3. ASSUME NEW n \in S
      PROVE  InDirectory(n, d) /\ ~HasColon(Suffix(Spelling[n])) <=> IsChildOf(n, d)
  <2>1. HasColon(Suffix(Spelling[n])) <=> IsStream(n)
    BY <1>1, SpellingIs, SuffixIs
  <2>2. InDirectory(n, d) <=> d = IF n = Root THEN Root ELSE ParentName(n)
    BY <1>1, InDirectoryIs
  <2>3. n # Root => ~IsStream(ParentName(n))
    BY <1>1, ParentIs
  <2> QED BY <1>1, <2>1, <2>2, <2>3 DEF IsChildOf
<1>4. ASSUME NEW n \in S, IsChildOf(n, d) PROVE n \in W
  <2>1. HasPrefix(n, d)
    <3>1. n \in Names /\ n # Root /\ Up(n) = d
      BY <1>1, <1>4 DEF IsChildOf, Up
    <3>2. HasPrefix(d, d)
      <4>1. d.path \in Seq(Components)
        BY NamePaths
      <4>2. IsPrefix(d.path, d.path)
        BY <4>1, PrefixIs, LenProperties
      <4> QED BY <1>4, <4>2 DEF IsChildOf, HasPrefix
    <3>3. HasPrefix(n, Root)
      <4>1. n.path \in Seq(Components)
        BY <3>1, NamePaths
      <4> QED BY <4>1, RootIs, EmptyPrefix DEF HasPrefix
    <3> QED BY <3>1, <3>2, <3>3, HasPrefixUp
  <2>2. \A m \in S : ~Less(n, m) => HasPrefix(m, d)
    BY <1>1, <2>1, PrefixStretch
  <2> QED BY <1>2, <2>2
<1> QED BY <1>2, <1>3, <1>4 DEF W

-----------------------------------------------------------------------------
(* Names in the order of the map. *)

\* The names of S that come before n.
Below(S, n) == {m \in S : Less(m, n)}

LEMMA FewerBelow ==
  ASSUME OnlyAscii, NEW S, S \subseteq Names, IsFiniteSet(S), NEW m \in S, NEW n \in S, Less(m, n)
  PROVE  Cardinality(Below(S, m)) < Cardinality(Below(S, n))
<1>1. \A x \in S : IsFiniteSet(Below(S, x)) /\ Cardinality(Below(S, x)) \in Nat
  <2>1. \A x \in S : Below(S, x) \in SUBSET S
    BY DEF Below
  <2> QED BY <2>1, FS_Subset, FS_CardinalityType
<1>2. Below(S, m) \subseteq Below(S, n)
  BY LessIsStrictOrder DEF Below
<1>3. m \in Below(S, n) /\ m \notin Below(S, m)
  BY LessIsStrictOrder DEF Below
<1>4. Below(S, m) \in SUBSET Below(S, n) /\ Below(S, m) # Below(S, n)
  BY <1>2, <1>3
<1>5. Cardinality(Below(S, m)) <= Cardinality(Below(S, n))
      /\ Cardinality(Below(S, n)) # Cardinality(Below(S, m))
  BY <1>1, <1>4, FS_Subset
<1> QED BY <1>1, <1>5

\* An iterator comes to every name of S once, and to lower ones first.
LEMMA InOrderIs ==
  ASSUME OnlyAscii, NEW S, S \subseteq Names, IsFiniteSet(S)
  PROVE  /\ Cardinality(S) \in Nat
         /\ InOrder(S) \in [1 .. Cardinality(S) -> S]
         /\ InOrder(S) \in Seq(S) /\ Len(InOrder(S)) = Cardinality(S)
         /\ \A i, j \in 1 .. Cardinality(S) : i < j => Less(InOrder(S)[i], InOrder(S)[j])
         /\ \A n \in S : \E i \in 1 .. Cardinality(S) : InOrder(S)[i] = n
<1>1. PICK N \in Nat : N = Cardinality(S)
  BY FS_CardinalityType
<1>2. \A n \in S : /\ IsFiniteSet(Below(S, n)) /\ Cardinality(Below(S, n)) \in Nat
                   /\ Cardinality(Below(S, n)) < N
  <2>1. \A n \in S : Below(S, n) \in SUBSET S /\ Below(S, n) # S
    BY LessIsStrictOrder DEF Below
  <2> QED BY <1>1, <2>1, FS_Subset, FS_CardinalityType
<1> DEFINE rank == [n \in S |-> Cardinality(Below(S, n)) + 1]
<1>3. rank \in [S -> 1 .. N]
  BY <1>2
<1>4. \A m, n \in S : Less(m, n) => rank[m] < rank[n]
  BY <1>2, FewerBelow
<1> HIDE DEF rank
<1>5. \A m, n \in S : rank[m] = rank[n] => m = n
  <2>1. ASSUME NEW m \in S, NEW n \in S, rank[m] = rank[n], m # n PROVE FALSE
    <3>1. Less(m, n) \/ Less(n, m)
      BY <2>1, LessIsStrictOrder
    <3>2. rank[m] \in 1 .. N /\ rank[n] \in 1 .. N
      BY <1>3
    <3> QED BY <1>4, <2>1, <3>1, <3>2
  <2> QED BY <2>1
<1>6. \A i \in 1 .. N : \E n \in S : rank[n] = i
  <2>1. rank \in Injection(S, 1 .. N)
    BY <1>3, <1>5 DEF Injection, IsInjective
  <2>2. IsFiniteSet(1 .. N) /\ Cardinality(1 .. N) = N
    BY FS_Interval
  <2>3. rank \in Surjection(S, 1 .. N)
    BY <1>1, <2>1, <2>2, FS_Injection
  <2> QED BY <2>3 DEF Surjection
<1> DEFINE s == [i \in 1 .. N |-> CHOOSE n \in S : rank[n] = i]
<1>7. \A i \in 1 .. N : s[i] \in S /\ rank[s[i]] = i
  BY <1>6
<1>8. s \in [1 .. N -> S]
  BY <1>7
<1> HIDE DEF s
<1>9. \A i, j \in 1 .. N : i # j => s[i] # s[j]
  BY <1>7
<1>10. \A i, j \in 1 .. N : i < j => Less(s[i], s[j])
  <2>1. ASSUME NEW i \in 1 .. N, NEW j \in 1 .. N, i < j PROVE Less(s[i], s[j])
    <3>1. s[i] # s[j] /\ s[i] \in S /\ s[j] \in S /\ i # j
      BY <1>7, <1>9, <2>1
    <3>2. Less(s[i], s[j]) \/ Less(s[j], s[i])
      BY <3>1, LessIsStrictOrder
    <3>3. Less(s[j], s[i]) => j < i
      BY <1>4, <1>7, <3>1
    <3> QED BY <2>1, <3>2, <3>3
  <2> QED BY <2>1
<1>11. \A t \in [1 .. N -> S] : t \in Seq(S) /\ Len(t) = N
  <2>1. ASSUME NEW t \in [1 .. N -> S] PROVE t \in Seq(S) /\ Len(t) = N
    <3>1. t \in Seq(S)
      BY SeqDef
    <3>2. 1 .. Len(t) = 1 .. N /\ Len(t) \in Nat
      BY <3>1, LenProperties
    <3> QED BY <3>1, <3>2
  <2> QED BY <2>1
<1>12. s \in SetToSeqs(S) /\ IsSorted(s, Less)
  BY <1>1, <1>8, <1>9, <1>10, <1>11 DEF SetToSeqs, IsSorted
<1>13. InOrder(S) \in SetToSeqs(S) /\ IsSorted(InOrder(S), Less)
  BY <1>12 DEF InOrder
<1>14. PICK t : t = InOrder(S)
  OBVIOUS
<1>15. t \in [1 .. N -> S] /\ \A i, j \in 1 .. N : i # j => t[i] # t[j]
  BY <1>1, <1>13, <1>14 DEF SetToSeqs
<1>16. t \in Seq(S) /\ Len(t) = N /\ \A i, j \in 1 .. N : i < j => Less(t[i], t[j])
  BY <1>11, <1>13, <1>14, <1>15 DEF IsSorted
<1>17. \A n \in S : \E i \in 1 .. N : t[i] = n
  <2>1. t \in Injection(1 .. N, S)
    BY <1>15 DEF Injection, IsInjective
  <2>2. IsFiniteSet(1 .. N) /\ Cardinality(1 .. N) = N
    BY FS_Interval
  <2>3. t \in Surjection(1 .. N, S)
    BY <1>1, <2>1, <2>2, FS_Injection
  <2> QED BY <2>3 DEF Surjection
<1> QED BY <1>1, <1>14, <1>15, <1>16, <1>17

\* The first name of a walk is the least there is.
LEMMA FirstInOrder ==
  ASSUME OnlyAscii, NEW S, S \subseteq Names, IsFiniteSet(S)
  PROVE  /\ InOrder(S) = <<>> <=> S = {}
         /\ S # {} => InOrder(S)[1] \in S /\ \A n \in S : ~Less(n, InOrder(S)[1])
<1>0. PICK t, N : t = InOrder(S) /\ N = Cardinality(S)
  OBVIOUS
<1>1. /\ N \in Nat
      /\ t \in [1 .. N -> S] /\ t \in Seq(S) /\ Len(t) = N
      /\ \A i, j \in 1 .. N : i < j => Less(t[i], t[j])
      /\ \A n \in S : \E i \in 1 .. N : t[i] = n
  BY <1>0, InOrderIs
<1>2. N = 0 <=> S = {}
  BY <1>0, FS_EmptySet
<1>3. t = <<>> <=> N = 0
  BY <1>1, EmptySeq
<1>4. ASSUME S # {} PROVE t[1] \in S /\ \A n \in S : ~Less(n, t[1])
  <2>1. 1 \in 1 .. N
    BY <1>1, <1>2, <1>4
  <2>2. t[1] \in S
    BY <1>1, <2>1
  <2>3. ASSUME NEW n \in S PROVE ~Less(n, t[1])
    <3>1. PICK i \in 1 .. N : t[i] = n
      BY <1>1
    <3>2. CASE i = 1
      BY <2>2, <3>1, <3>2, LessIsStrictOrder
    <3>3. CASE i # 1
      <4>1. Less(t[1], n)
        BY <1>1, <2>1, <3>1, <3>3
      <4> QED BY <2>2, <4>1, LessIsStrictOrder
    <3> QED BY <3>2, <3>3
  <2> QED BY <2>2, <2>3
<1> QED BY <1>0, <1>2, <1>3, <1>4

-----------------------------------------------------------------------------
(* The names the map holds. *)

\* With a name the map holds its directory and, with a stream, its file.  No
\* name is as long as MEMFS_MAX_PATH.
TreeInv ==
  /\ fileMap \subseteq Names /\ IsFiniteSet(fileMap) /\ Root \in fileMap
  /\ \A n \in fileMap : MainName(n) \in fileMap /\ (n # Root => ParentName(n) \in fileMap)
  /\ \A n \in fileMap : Len(Spelling[n]) < MEMFS_MAX_PATH

LEMMA HasPrefixItself ==
  ASSUME NEW d \in Names
  PROVE  HasPrefix(d, d)
<1>1. d.path \in Seq(Components)
  BY NamePaths
<1>2. IsPrefix(d.path, d.path)
  BY <1>1, PrefixIs, LenProperties
<1> QED BY <1>2 DEF HasPrefix

LEMMA ChildHasPrefix ==
  ASSUME NEW n \in Names, NEW d \in Names, IsChildOf(n, d)
  PROVE  HasPrefix(n, d) /\ n # d
<1>1. n # Root /\ Up(n) = d /\ d = ParentName(n)
  BY DEF IsChildOf, Up
<1>2. HasPrefix(n, Root)
  <2>1. n.path \in Seq(Components)
    BY NamePaths
  <2> QED BY <2>1, RootIs, EmptyPrefix DEF HasPrefix
<1>3. HasPrefix(n, d)
  BY <1>1, <1>2, HasPrefixItself, HasPrefixUp
<1>4. n # d
  <2>1. Len(n.path) \in Nat /\ Len(d.path) = Len(n.path) - 1
    BY <1>1, ParentIs, NamePaths
  <2>2. Len(d.path) # Len(n.path)
    BY <2>1
  <2> QED BY <2>2
<1> QED BY <1>3, <1>4

\* The first name behind a directory that is no stream is a child of it if
\* there is any: what it is in has no place to be but at the directory.
LEMMA HasChildIs ==
  ASSUME OnlyAscii, TreeInv, NEW d \in fileMap
  PROVE  HasChild(d) <=> ChildrenOf(d) # {}
<1>1. d \in Names /\ fileMap \subseteq Names /\ IsFiniteSet(fileMap)
  BY DEF TreeInv
<1> DEFINE S == {n \in UpperBound(d) : ~HasColon(Spelling[n])}
<1>2. S = {n \in fileMap : Less(d, n) /\ ~IsStream(n)}
  BY <1>1, SpellingIs, StreamNameIs DEF UpperBound
<1>3. HasChild(d) <=> InOrder(S) # <<>> /\ InDirectory(InOrder(S)[1], d)
  BY DEF HasChild
<1> HIDE DEF S
<1>4. S \subseteq Names /\ IsFiniteSet(S)
  <2>1. S \in SUBSET fileMap
    BY <1>2
  <2> QED BY <1>1, <2>1, FS_Subset
<1>5. PICK first : first = InOrder(S)[1]
  OBVIOUS
<1>6. /\ InOrder(S) = <<>> <=> S = {}
      /\ S # {} => first \in S /\ \A n \in S : ~Less(n, first)
  BY <1>4, <1>5, FirstInOrder
<1>7. ASSUME S # {}, InDirectory(first, d) PROVE ChildrenOf(d) # {}
  <2>1. first \in fileMap /\ first \in Names /\ Less(d, first) /\ ~IsStream(first)
    BY <1>1, <1>2, <1>6, <1>7
  <2>2. d = IF first = Root THEN Root ELSE ParentName(first)
    BY <1>1, <1>7, <2>1, InDirectoryIs
  <2>3. first # d
    BY <1>1, <2>1, LessIsStrictOrder
  <2>4. first # Root /\ d = ParentName(first) /\ ~IsStream(d)
    BY <2>1, <2>2, <2>3, ParentIs
  <2> QED BY <2>1, <2>4 DEF ChildrenOf, IsChildOf
<1>8. ASSUME NEW c \in fileMap, IsChildOf(c, d) PROVE S # {} /\ InDirectory(first, d)
  <2>1. c \in Names /\ HasPrefix(c, d) /\ c # d /\ ~IsStream(c) /\ ~IsStream(d)
    BY <1>1, <1>8, ChildHasPrefix DEF IsChildOf
  <2>2. Less(d, c)
    BY <1>1, <2>1, PrefixComesFirst
  <2>3. c \in S
    BY <1>2, <1>8, <2>1, <2>2
  <2>4. /\ first \in S /\ \A n \in S : ~Less(n, first)
        /\ first \in fileMap /\ first \in Names /\ Less(d, first) /\ ~IsStream(first)
    BY <1>1, <1>2, <1>6, <2>3
  <2>5. ~Less(first, d) /\ first # d
    BY <1>1, <2>4, LessIsStrictOrder
  <2>6. HasPrefix(first, d)
    BY <1>1, <2>1, <2>3, <2>4, <2>5, PrefixStretch
  <2>7. first # Root
    <3>1. HasPrefix(d, Root)
      <4>1. d.path \in Seq(Components)
        BY <1>1, NamePaths
      <4> QED BY <4>1, RootIs, EmptyPrefix DEF HasPrefix
    <3>2. ~Less(d, Root)
      BY <1>1, <3>1, RootIs, PrefixComesFirst
    <3> QED BY <2>4, <3>2
  <2>8. PICK p \in fileMap : p = ParentName(first)
    BY <2>4, <2>7 DEF TreeInv
  <2>9. p \in Names /\ ~IsStream(p) /\ IsChildOf(first, p)
    BY <1>1, <2>4, <2>7, <2>8, ParentIs DEF IsChildOf
  <2>10. HasPrefix(p, d)
    <3>1. CASE d = Root
      <4>1. p.path \in Seq(Components)
        BY <2>9, NamePaths
      <4> QED BY <3>1, <4>1, RootIs, EmptyPrefix DEF HasPrefix
    <3>2. CASE d # Root
      <4>1. Up(first) = p
        BY <2>4, <2>8 DEF Up
      <4> QED BY <1>1, <2>4, <2>5, <2>6, <2>7, <3>2, <4>1, HasPrefixUp
    <3> QED BY <3>1, <3>2
  <2>11. p = d
    <3>1. ASSUME p # d PROVE FALSE
      <4>1. Less(d, p)
        BY <1>1, <2>9, <2>10, <3>1, PrefixComesFirst
      <4>2. p \in S
        BY <1>2, <2>9, <4>1
      <4>3. HasPrefix(first, p) /\ first # p
        BY <2>4, <2>9, ChildHasPrefix
      <4>4. Less(p, first)
        BY <2>4, <2>9, <4>3, PrefixComesFirst
      <4> QED BY <2>4, <4>2, <4>4
    <3> QED BY <3>1
  <2>12. InDirectory(first, d)
    BY <1>1, <2>4, <2>7, <2>8, <2>11, InDirectoryIs
  <2> QED BY <2>3, <2>12
<1>9. ChildrenOf(d) # {} => S # {} /\ InDirectory(first, d)
  BY <1>8 DEF ChildrenOf
<1> QED BY <1>3, <1>5, <1>6, <1>7, <1>9

LEMMA TreeInit == Init => TreeInv
<1>1. MainName(Root) = Root /\ Root \in Names /\ IsFiniteSet({Root})
  BY RootIs, MainIs, FS_Singleton
<1>2. Len(Spelling[Root]) < MEMFS_MAX_PATH
  BY <1>1, SpellingIs, RootIsSpelled, MaxPathAssumption
<1> QED BY <1>1, <1>2 DEF Init, TreeInv

LEMMA TreeCreate ==
  ASSUME TreeInv, NEW name \in Names, Create(name)
  PROVE  TreeInv'
<1>1. /\ fileMap' = fileMap \cup {name} /\ ParentName(name) \in fileMap
      /\ IsStream(name) => MainName(name) \in fileMap
      /\ Len(Spelling[name]) < MEMFS_MAX_PATH
  BY DEF Create
<1>2. IsFiniteSet(fileMap')
  BY <1>1, FS_AddElement DEF TreeInv
<1>3. MainName(name) \in fileMap'
  BY <1>1, MainIs
<1> QED BY <1>1, <1>2, <1>3 DEF TreeInv

LEMMA TreeDelete ==
  ASSUME OnlyAscii, TreeInv, NEW name \in Names, Delete(name)
  PROVE  /\ TreeInv'
         /\ name \in fileMap /\ ChildrenOf(name) = {}
         /\ fileMap' = fileMap \ ({name} \cup {n \in fileMap : IsStreamOf(n, name)})
<1>1. EnumerateNamedStreams(name) = {n \in fileMap : IsStreamOf(n, name)}
  BY StreamsAreFound DEF TreeInv
<1>2. /\ name \in fileMap /\ name # Root
      /\ fileMap' = fileMap \ ({name} \cup {n \in fileMap : IsStreamOf(n, name)})
  BY <1>1 DEF Delete
<1>3. ChildrenOf(name) = {}
  BY <1>2, HasChildIs DEF Delete
<1>4. fileMap' \subseteq Names /\ IsFiniteSet(fileMap')
  <2>1. fileMap' \in SUBSET fileMap
    BY <1>2
  <2> QED BY <2>1, FS_Subset DEF TreeInv
<1>5. Root \in fileMap'
  BY <1>2, RootIs DEF TreeInv, IsStreamOf
<1>6. ASSUME NEW n \in fileMap'
      PROVE  MainName(n) \in fileMap' /\ (n # Root => ParentName(n) \in fileMap')
  <2>1. /\ n \in fileMap /\ n # name /\ ~IsStreamOf(n, name) /\ n \in Names
        /\ MainName(n) \in fileMap /\ (n # Root => ParentName(n) \in fileMap)
    BY <1>2, <1>6 DEF TreeInv
  <2>2. MainName(n) \in Names /\ ~IsStream(MainName(n)) /\ (~IsStream(n) => MainName(n) = n)
        /\ (n # Root => MainName(n) # Root)
    BY <2>1, MainIs
  <2>3. MainName(n) # name
    BY <2>1, <2>2 DEF IsStreamOf
  <2>4. MainName(n) \in fileMap'
    BY <1>2, <2>1, <2>2, <2>3 DEF IsStreamOf
  <2>5. ASSUME n # Root PROVE ParentName(n) \in fileMap'
    <3>1. ParentName(n) \in fileMap /\ ~IsStream(ParentName(n))
      BY <2>1, <2>5, ParentIs
    <3>2. ParentName(MainName(n)) = ParentName(n)
      BY <2>1, MainIs DEF ParentName
    <3>3. ParentName(n) # name
      <4>1. IsChildOf(MainName(n), ParentName(n))
        BY <2>2, <2>5, <3>1, <3>2 DEF IsChildOf
      <4> QED BY <1>3, <2>1, <4>1 DEF ChildrenOf
    <3> QED BY <1>2, <3>1, <3>3 DEF IsStreamOf
  <2> QED BY <2>4, <2>5
<1>7. \A n \in fileMap' : Len(Spelling[n]) < MEMFS_MAX_PATH
  BY <1>2 DEF TreeInv
<1>8. TreeInv'
  BY <1>4, <1>5, <1>6, <1>7 DEF TreeInv
<1> QED BY <1>2, <1>3, <1>8

LEMMA TreeStep ==
  ASSUME OnlyAscii, TreeInv, [Next]_vars
  PROVE  TreeInv'
<1>1. ASSUME NEW name \in Names, Create(name) PROVE TreeInv'
  BY <1>1, TreeCreate
<1>2. ASSUME NEW name \in Names, Delete(name) PROVE TreeInv'
  BY <1>2, TreeDelete
<1>3. CASE UNCHANGED fileMap
  BY <1>3 DEF TreeInv
<1>4. ASSUME NEW name \in Names, BeginListing(name) PROVE UNCHANGED fileMap
  BY <1>4 DEF BeginListing
<1>5. ReadDirectory => UNCHANGED fileMap
  BY DEF ReadDirectory
<1>6. EndListing => UNCHANGED fileMap
  BY DEF EndListing
<1> QED BY <1>1, <1>2, <1>3, <1>4, <1>5, <1>6 DEF Next, vars

LEMMA TreeAlways == ASSUME OnlyAscii PROVE Spec => []TreeInv
<1>1. TreeInv /\ [Next]_vars => TreeInv'
  BY TreeStep
<1> QED BY <1>1, TreeInit, PTL DEF Spec

-----------------------------------------------------------------------------
(* The properties of the map in every state. *)

\* FileLess orders whatever names the map holds strictly and totally, as
\* std::map requires, if they are ASCII: a longer name, a separator against a
\* character below it and a difference in case only make no exception.
THEOREM OrderIsStrict == ASSUME OnlyAscii PROVE Spec => []StrictOrder
<1>1. TreeInv => StrictOrder
  <2> SUFFICES ASSUME TreeInv, NEW a \in fileMap, NEW b \in fileMap, NEW c \in fileMap
               PROVE  /\ Less(a, b) => ~Less(b, a)
                      /\ a # b => Less(a, b) \/ Less(b, a)
                      /\ Less(a, b) /\ Less(b, c) => Less(a, c)
    BY DEF StrictOrder
  <2>1. a \in Names /\ b \in Names /\ c \in Names
    BY DEF TreeInv
  <2> QED BY <2>1, LessIsStrictOrder
<1> QED BY <1>1, TreeAlways, PTL

\* HasChild, EnumerateNamedStreams, EnumerateDescendants and
\* EnumerateDirChildren, which stop at the first name that does not fit, find
\* all they should, whatever names there are.
THEOREM WalksFindAll == ASSUME OnlyAscii PROVE Spec => []WalksAreComplete
<1>1. TreeInv => WalksAreComplete
  <2> SUFFICES ASSUME TreeInv, NEW d \in fileMap
               PROVE  /\ HasChild(d) <=> ChildrenOf(d) # {}
                      /\ EnumerateNamedStreams(d) = {n \in fileMap : IsStreamOf(n, d)}
                      /\ EnumerateDescendants(d) = {n \in fileMap : HasPrefix(n, d)}
                      /\ EnumerateDirChildren(d, NoMarker) = ChildrenOf(d)
    BY DEF WalksAreComplete
  <2>1. d \in Names /\ fileMap \subseteq Names
    BY DEF TreeInv
  <2>2. EnumerateDirChildren(d, NoMarker) = {n \in UpperBound(d) : IsChildOf(n, d)}
    <3>1. UpperBound(d) \subseteq Names /\ \A n \in UpperBound(d) : Less(d, n)
      BY <2>1 DEF UpperBound
    <3>2. EnumerateDirChildren(d, NoMarker) =
            {n \in WalkWhile(UpperBound(d), LAMBDA x : FileNameHasPrefix(Spelling[x], Spelling[d])) :
               InDirectory(n, d) /\ ~HasColon(Suffix(Spelling[n]))}
      BY DEF EnumerateDirChildren
    <3> QED BY <2>1, <3>1, <3>2, ChildrenAreFound
  <2>3. \A n \in fileMap : IsChildOf(n, d) => n \in UpperBound(d)
    BY <2>1, ChildHasPrefix, PrefixComesFirst DEF UpperBound
  <2>4. EnumerateDirChildren(d, NoMarker) = ChildrenOf(d)
    BY <2>2, <2>3 DEF ChildrenOf, UpperBound
  <2> QED BY <2>1, <2>4, HasChildIs, StreamsAreFound, DescendantsAreFound
<1> QED BY <1>1, TreeAlways, PTL

-----------------------------------------------------------------------------
(* A name by its key, and the streams of a file. *)

LEMMA StemsDiffer ==
  ASSUME OnlyAscii, NEW a \in Names, NEW b \in Names, Alike(Stem(a), Stem(b))
  PROVE  a = b
<1>1. \A z \in Names : Stem(z) \in Codes /\ (z = Root <=> Len(Stem(z)) = 0)
  BY NamesAreWellSpelled, NothingIsSpelled DEF Stem
<1>2. Len(Stem(a)) = Len(Stem(b))
  BY <1>1, AlikeSameLength
<1>3. CASE a = Root
  BY <1>1, <1>2, <1>3
<1>4. CASE a # Root
  <2>1. b # Root
    BY <1>1, <1>2, <1>4
  <2> QED BY <1>4, <2>1, AlikeNamesAreEqual DEF Stem
<1> QED BY <1>3, <1>4

LEMMA JoinedAlike ==
  ASSUME NEW s, NEW u, NEW sep, NEW c, IsJoined(s, u, sep, c), IsPart(c), Separator(sep),
         NEW t, NEW e, IsJoined(t, u, sep, e), IsPart(e),
         Len(c) = Len(e), \A k \in Place : k <= Len(c) => CaseOf(c[k]) = CaseOf(e[k])
  PROVE  Alike(s, t)
<1>1. /\ Len(u) \in Nat /\ Len(c) \in Nat \ {0} /\ Len(s) = Len(u) + 1 + Len(c) /\ Len(s) \in Nat
      /\ \A i \in Place : i <= Len(u) => KeyAt(s, i) = KeyAt(u, i)
      /\ KeyAt(s, Len(u) + 1) = Key(sep)
      /\ \A j \in 1 .. Len(c) : KeyAt(s, Len(u) + 1 + j) = CaseOf(c[j])
  BY JoinedKeys
<1>2. /\ Len(t) = Len(u) + 1 + Len(e) /\ Len(t) \in Nat
      /\ \A i \in Place : i <= Len(u) => KeyAt(t, i) = KeyAt(u, i)
      /\ KeyAt(t, Len(u) + 1) = Key(sep)
      /\ \A j \in 1 .. Len(e) : KeyAt(t, Len(u) + 1 + j) = CaseOf(e[j])
  BY JoinedKeys
<1>3. s \in Codes /\ t \in Codes
  BY DEF IsJoined
<1>4. ASSUME NEW k \in Place PROVE KeyAt(s, k) = KeyAt(t, k)
  <2>1. CASE k <= Len(u)
    BY <1>1, <1>2, <2>1
  <2>2. CASE k = Len(u) + 1
    BY <1>1, <1>2, <2>2
  <2>3. CASE k > Len(u) + 1 /\ k <= Len(s)
    <3>1. PICK j \in 1 .. Len(c) : k = Len(u) + 1 + j
      <4>1. k - (Len(u) + 1) \in 1 .. Len(c) /\ k = Len(u) + 1 + (k - (Len(u) + 1))
        BY <1>1, <2>3 DEF Place
      <4> QED BY <4>1
    <3>2. j \in Place /\ j <= Len(c) /\ j \in 1 .. Len(e)
      BY <1>1 DEF Place
    <3> QED BY <1>1, <1>2, <3>1, <3>2
  <2>4. CASE k > Len(s)
    <3>1. KeyAt(s, k) = -3
      BY <1>3, <2>4, KeyAtType
    <3>2. k > Len(t)
      BY <1>1, <1>2, <2>4
    <3>3. KeyAt(t, k) = -3
      BY <1>3, <3>2, KeyAtType
    <3> QED BY <3>1, <3>3
  <2> QED BY <1>1, <2>1, <2>2, <2>3, <2>4 DEF Place
<1> QED BY <1>4 DEF Alike

\* What may be looked up: a component, or one in capital letters.
LEMMA EntryIsPart ==
  ASSUME OnlyAscii, NEW entry \in Components \cup {UpperCase(c) : c \in Components}
  PROVE  IsPart(entry)
<1>1. \A c \in Components : IsPart(c)
  BY PartsAreParts
<1>2. SUFFICES ASSUME NEW c \in Components, entry = UpperCase(c), CaseInsensitive PROVE IsPart(entry)
  BY <1>1 DEF UpperCase
<1>3. /\ c \in Seq(Chars) /\ Len(c) \in Nat \ {0} /\ DOMAIN c = 1 .. Len(c)
      /\ \A k \in 1 .. Len(c) : c[k] \in Chars /\ ~Separator(c[k])
  BY <1>1, LenProperties, ElementOfSeq DEF IsPart, Codes
<1>4. entry = [k \in 1 .. Len(c) |-> UpperChar(c[k])]
  BY <1>2, <1>3 DEF UpperCase
<1>5. \A k \in 1 .. Len(c) : UpperChar(c[k]) \in Chars /\ ~Separator(UpperChar(c[k]))
  <2>1. \A x \in Chars : ~Separator(x) => UpperChar(x) \in Chars /\ ~Separator(UpperChar(x))
    <3>1. ASSUME NEW x \in Chars, ~Separator(x) PROVE UpperChar(x) \in Chars /\ ~Separator(UpperChar(x))
      <4>1. UpperChar(x) = IF x \in 97 .. 122 THEN x - 32 ELSE x
        BY <1>2, CaseOfFacts DEF CaseOf
      <4>2. x \in Nat /\ x <= 127
        BY <1>2 DEF Chars
      <4> QED BY <3>1, <4>1, <4>2 DEF Chars, Separator, Backslash, Colon
    <3> QED BY <3>1
  <2> QED BY <1>3, <2>1
<1>6. entry \in Seq(Chars)
  BY <1>3, <1>4, <1>5, IsASeq
<1>7. Len(entry) = Len(c)
  <2>1. DOMAIN entry = 1 .. Len(c) /\ DOMAIN entry = 1 .. Len(entry) /\ Len(entry) \in Nat
    BY <1>4, <1>6, LenProperties
  <2> QED BY <1>3, <2>1
<1>8. \A k \in 1 .. Len(entry) : ~Separator(entry[k])
  BY <1>4, <1>5, <1>7
<1> QED BY <1>3, <1>6, <1>7, <1>8 DEF IsPart, Codes

LEMMA KeyIsJoined ==
  ASSUME OnlyAscii, NEW d \in Names, ~IsStream(d), NEW entry, IsPart(entry)
  PROVE  /\ IsJoined(LookupKey(d, entry), Stem(d), Backslash, entry)
         /\ WellSpelled(LookupKey(d, entry)) /\ Len(LookupKey(d, entry)) > 1
<1>1. entry \in Codes /\ Spell(d) \in Codes /\ Backslash \in Chars /\ <<>> \in Codes
      /\ Separator(Backslash)
  BY NamesAreWellSpelled, SeparatorsAreChars, NothingIsSpelled DEF IsPart, Separator
<1>2. CASE d = Root
  <2>1. LookupKey(d, entry) = (<<Backslash>> \o <<>>) \o entry
    <3>1. Spelling[d] = <<Backslash>> /\ Len(Spelling[d]) = 1
      BY <1>2, SpellingIs, RootIsSpelled
    <3>2. ~(Len(Spelling[d]) > 1)
      BY <3>1
    <3> QED BY <3>1, <3>2, Zenon DEF LookupKey
  <2>2. <<Backslash>> \o <<>> = <<Backslash>> /\ <<>> \o (<<Backslash>> \o entry) = <<Backslash>> \o entry
    <3>1. <<Backslash>> \in Seq(Chars)
      BY <1>1
    <3>2. <<Backslash>> \o entry \in Seq(Chars)
      BY <1>1, <3>1, ConcatProperties DEF Codes
    <3> QED BY <3>1, <3>2, ConcatEmptySeq
  <2>3. IsJoined(<<>> \o (<<Backslash>> \o entry), <<>>, Backslash, entry)
    BY <1>1, Joining
  <2>4. IsJoined(LookupKey(d, entry), Stem(d), Backslash, entry)
    BY <1>2, <2>1, <2>2, <2>3 DEF Stem
  <2> QED BY <1>1, <1>2, <2>4, JoinedIsWellSpelled DEF Stem
<1>3. CASE d # Root
  <2>1. WellSpelled(Spell(d)) /\ ~Separator(Spell(d)[Len(Spell(d))]) /\ Len(Spell(d)) > 1
    BY <1>3, NamesAreWellSpelled
  <2>2. LookupKey(d, entry) = (Spell(d) \o <<Backslash>>) \o entry
    BY <2>1, SpellingIs DEF LookupKey
  <2>3. /\ IsJoined(Spell(d) \o (<<Backslash>> \o entry), Spell(d), Backslash, entry)
        /\ (Spell(d) \o <<Backslash>>) \o entry = Spell(d) \o (<<Backslash>> \o entry)
    BY <1>1, Joining
  <2>4. IsJoined(LookupKey(d, entry), Stem(d), Backslash, entry)
    BY <1>3, <2>2, <2>3 DEF Stem
  <2>5. Stem(d) = Spell(d)
    BY <1>3 DEF Stem
  <2> QED BY <1>1, <2>1, <2>4, <2>5, JoinedIsWellSpelled
<1> QED BY <1>2, <1>3

\* The key of an entry leads to the child that is held equal to it.
LEMMA KeyFindsChild ==
  ASSUME OnlyAscii, NEW d \in Names, ~IsStream(d), NEW entry, IsPart(entry), NEW n \in Names
  PROVE  FileNameCompare(LookupKey(d, entry), Spelling[n]) = 0
           <=> IsChildOf(n, d) /\ PartCompare(Suffix(Spelling[n]), entry) = 0
<1>1. PICK key : key = LookupKey(d, entry)
  OBVIOUS
<1>2. /\ IsJoined(key, Stem(d), Backslash, entry) /\ WellSpelled(key) /\ Len(key) > 1
      /\ Separator(Backslash) /\ entry \in Codes /\ Len(entry) \in Nat
  BY <1>1, KeyIsJoined DEF Separator, IsPart
<1>3. FileNameCompare(key, Spelling[n]) = 0 <=> Alike(key, Spell(n))
  BY <1>2, SpellingIs, NamesAreWellSpelled, CompareIsLexicographic
<1>4. ASSUME n # Root
      PROVE /\ IsJoined(Spell(n), Stem(Up(n)), Sep(n), Part(n)) /\ IsPart(Part(n)) /\ Separator(Sep(n))
            /\ Up(n) \in Names /\ Part(n) \in Codes /\ Len(Part(n)) \in Nat
  BY <1>4, SpellStep, SepIs, UpIs DEF IsPart
<1>5. ASSUME Alike(key, Spell(n))
      PROVE  IsChildOf(n, d) /\ PartCompare(Suffix(Spelling[n]), entry) = 0
  <2>1. n # Root
    <3>1. Len(key) = Len(Spell(n))
      BY <1>2, <1>5, NamesAreWellSpelled, AlikeSameLength DEF WellSpelled
    <3> QED BY <1>2, <3>1, RootIsSpelled
  <2>2. /\ Alike(Stem(d), Stem(Up(n))) /\ Backslash = Sep(n)
        /\ Len(entry) = Len(Part(n)) /\ \A j \in 1 .. Len(entry) : CaseOf(entry[j]) = CaseOf(Part(n)[j])
    BY <1>2, <1>4, <1>5, <2>1, AlikeWhenJoined
  <2>3. Up(n) = d
    BY <1>4, <2>1, <2>2, StemsDiffer
  <2>4. ~IsStream(n)
    BY <2>2, SeparatorsAreChars DEF Sep
  <2>5. PartCompare(Part(n), entry) = 0
    <3>1. \A k \in Place : k <= Len(Part(n)) => CaseOf(Part(n)[k]) = CaseOf(entry[k])
      BY <1>2, <2>2 DEF Place
    <3> QED BY <1>2, <1>4, <2>1, <2>2, <3>1, PartsHeldEqual
  <2>6. Suffix(Spelling[n]) = Part(n)
    BY <2>1, <2>4, SpellingIs, SuffixIs
  <2> QED BY <2>1, <2>3, <2>4, <2>5, <2>6 DEF IsChildOf, Up
<1>6. ASSUME IsChildOf(n, d), PartCompare(Suffix(Spelling[n]), entry) = 0
      PROVE  Alike(key, Spell(n))
  <2>1. n # Root /\ ~IsStream(n) /\ Up(n) = d /\ Sep(n) = Backslash
    BY <1>6 DEF IsChildOf, Up, Sep
  <2>2. Suffix(Spelling[n]) = Part(n)
    BY <2>1, SpellingIs, SuffixIs
  <2>3. Len(Part(n)) = Len(entry) /\ \A k \in Place : k <= Len(Part(n)) => CaseOf(Part(n)[k]) = CaseOf(entry[k])
    BY <1>2, <1>4, <1>6, <2>1, <2>2, PartsHeldEqual
  <2>4. IsJoined(Spell(n), Stem(d), Backslash, Part(n)) /\ IsPart(Part(n))
    BY <1>4, <2>1
  <2>5. \A k \in Place : k <= Len(entry) => CaseOf(entry[k]) = CaseOf(Part(n)[k])
    BY <2>3
  <2> QED BY <1>2, <2>3, <2>4, <2>5, JoinedAlike
<1> QED BY <1>1, <1>3, <1>5, <1>6

\* The entries of a list of nodes: what each is called.
LEMMA EntriesAre ==
  ASSUME OnlyAscii, NEW S, S \subseteq Names, IsFiniteSet(S)
  PROVE  /\ Cardinality(S) \in Nat /\ DOMAIN EntriesOf(S) = 1 .. Cardinality(S)
         /\ \A k \in 1 .. Cardinality(S) : EntriesOf(S)[k] = Suffix(Spelling[InOrder(S)[k]])
         /\ Range(EntriesOf(S)) = {Suffix(Spelling[n]) : n \in S}
<1>1. PICK t : t = InOrder(S)
  OBVIOUS
<1>2. /\ Cardinality(S) \in Nat /\ t \in [1 .. Cardinality(S) -> S]
      /\ \A n \in S : \E i \in 1 .. Cardinality(S) : t[i] = n
  BY <1>1, InOrderIs
<1>3. EntriesOf(S) = [k \in 1 .. Cardinality(S) |-> Suffix(Spelling[t[k]])]
  BY <1>1, <1>2 DEF EntriesOf, SuffixesOf
<1>4. Range(EntriesOf(S)) = {Suffix(Spelling[n]) : n \in S}
  BY <1>2, <1>3 DEF Range
<1> QED BY <1>1, <1>2, <1>3, <1>4

\* A name that is found by the key of an entry is as long as the key.
LEMMA FoundIsAsLong ==
  ASSUME OnlyAscii, NEW d \in Names, ~IsStream(d), NEW entry, IsPart(entry), NEW n \in Names,
         FileNameCompare(LookupKey(d, entry), Spelling[n]) = 0
  PROVE  Len(Spelling[n]) = Len(LookupKey(d, entry))
<1>1. PICK key : key = LookupKey(d, entry)
  OBVIOUS
<1>2. WellSpelled(key) /\ key \in Codes
  BY <1>1, KeyIsJoined DEF WellSpelled
<1>3. WellSpelled(Spell(n)) /\ Spell(n) \in Codes
  BY NamesAreWellSpelled
<1>4. Alike(key, Spell(n))
  BY <1>1, <1>2, <1>3, SpellingIs, CompareIsLexicographic
<1> QED BY <1>1, <1>2, <1>3, <1>4, SpellingIs, AlikeSameLength

\* The test of the length turns a key down if no name can be so long, and the
\* longest one in the root.
LEMMA LengthOfKey ==
  ASSUME OnlyAscii, NEW d \in Names, ~IsStream(d), NEW entry, IsPart(entry)
  PROVE  MEMFS_MAX_PATH <= Len(Spelling[d]) + Len(entry) + 1
           <=> MEMFS_MAX_PATH <= Len(LookupKey(d, entry)) \/ IsLongestInRoot(d, entry)
<1>1. PICK key : key = LookupKey(d, entry)
  OBVIOUS
<1>2. Len(key) = Len(Stem(d)) + 1 + Len(entry) /\ Len(entry) \in Nat /\ MEMFS_MAX_PATH \in Nat
  BY <1>1, KeyIsJoined, MaxPathAssumption DEF IsJoined, IsPart
<1>3. CASE d = Root
  <2>1. Len(Spelling[d]) = 1 /\ Len(Stem(d)) = 0
    BY <1>3, SpellingIs, RootIsSpelled, EmptySeq DEF Stem
  <2> QED BY <1>1, <1>2, <1>3, <2>1 DEF IsLongestInRoot
<1>4. CASE d # Root
  <2>1. Len(Spelling[d]) = Len(Stem(d)) /\ Len(Stem(d)) \in Nat
    BY <1>4, SpellingIs, NamesAreWellSpelled DEF Stem
  <2> QED BY <1>1, <1>2, <1>4, <2>1 DEF IsLongestInRoot
<1> QED BY <1>3, <1>4

\* What GetDirInfoByName finds by the key of an entry is what a listing shows
\* under that name, but for the longest names in the root.
THEOREM LookupFindsWhatIsListed == ASSUME OnlyAscii PROVE Spec => []LookupAgreesWithListing
<1>1. TreeInv /\ WalksAreComplete => LookupAgreesWithListing
  <2> SUFFICES ASSUME TreeInv, WalksAreComplete, NEW d \in fileMap, ~IsStream(d),
                      NEW entry \in Components \cup {UpperCase(c) : c \in Components}
               PROVE  GetDirInfoByName(d, entry) =
                        {e \in Range(EntriesOf(EnumerateDirChildren(d, NoMarker))) :
                           PartCompare(e, entry) = 0 /\ ~IsLongestInRoot(d, entry)}
    BY DEF LookupAgreesWithListing
  <2>1. d \in Names /\ fileMap \subseteq Names /\ IsFiniteSet(fileMap)
    BY DEF TreeInv
  <2>2. EnumerateDirChildren(d, NoMarker) = ChildrenOf(d)
    BY DEF WalksAreComplete
  <2>3. ChildrenOf(d) \subseteq Names /\ IsFiniteSet(ChildrenOf(d))
    <3>1. ChildrenOf(d) \in SUBSET fileMap
      BY DEF ChildrenOf
    <3> QED BY <2>1, <3>1, FS_Subset
  <2>4. Range(EntriesOf(ChildrenOf(d))) = {Suffix(Spelling[n]) : n \in ChildrenOf(d)}
    BY <2>3, EntriesAre
  <2>5. IsPart(entry)
    BY EntryIsPart
  <2>6. \A n \in fileMap : FileNameCompare(LookupKey(d, entry), Spelling[n]) = 0
                             <=> IsChildOf(n, d) /\ PartCompare(Suffix(Spelling[n]), entry) = 0
    BY <2>1, <2>5, KeyFindsChild
  <2>7. FindFile(LookupKey(d, entry)) = {n \in ChildrenOf(d) : PartCompare(Suffix(Spelling[n]), entry) = 0}
    BY <2>6 DEF FindFile, ChildrenOf
  <2>8. MEMFS_MAX_PATH <= Len(Spelling[d]) + Len(entry) + 1
          <=> MEMFS_MAX_PATH <= Len(LookupKey(d, entry)) \/ IsLongestInRoot(d, entry)
    BY <2>1, <2>5, LengthOfKey
  <2>9. ASSUME MEMFS_MAX_PATH <= Len(LookupKey(d, entry))
        PROVE  FindFile(LookupKey(d, entry)) = {}
    <3>1. ASSUME NEW n \in fileMap, FileNameCompare(LookupKey(d, entry), Spelling[n]) = 0
          PROVE  FALSE
      <4>1. n \in Names /\ Len(Spelling[n]) < MEMFS_MAX_PATH
        BY <2>1 DEF TreeInv
      <4>2. Len(Spelling[n]) = Len(LookupKey(d, entry)) /\ Len(Spelling[n]) \in Nat
        BY <2>1, <2>5, <3>1, <4>1, FoundIsAsLong, SpellingIs, NamesAreWellSpelled
      <4> QED BY <2>9, <4>1, <4>2, MaxPathAssumption
    <3> QED BY <3>1 DEF FindFile
  <2>10. CASE IsLongestInRoot(d, entry)
    BY <2>8, <2>10 DEF GetDirInfoByName
  <2>11. CASE ~IsLongestInRoot(d, entry)
    <3>1. GetDirInfoByName(d, entry) = {Suffix(Spelling[n]) : n \in FindFile(LookupKey(d, entry))}
      <4>1. CASE MEMFS_MAX_PATH <= Len(LookupKey(d, entry))
        BY <2>8, <2>9, <4>1 DEF GetDirInfoByName
      <4>2. CASE ~(MEMFS_MAX_PATH <= Len(LookupKey(d, entry)))
        BY <2>8, <2>11, <4>2 DEF GetDirInfoByName
      <4> QED BY <4>1, <4>2
    <3> QED BY <2>2, <2>4, <2>7, <2>11, <3>1
  <2> QED BY <2>10, <2>11
<1> QED BY <1>1, TreeAlways, WalksFindAll, PTL

\* As much of a list as there is room for.
LEMMA BeginningOfList ==
  ASSUME NEW S, NEW list \in Seq(S), IsInjective(list), NEW room \in Nat
  PROVE  LET part == SubSeq(list, 1, Min({room, Len(list)}))
         IN  /\ IsInjective(part) /\ Range(part) \subseteq Range(list)
             /\ IF Len(list) <= room THEN Range(part) = Range(list) ELSE Len(part) = room
<1>1. Len(list) \in Nat /\ DOMAIN list = 1 .. Len(list) /\ \A i \in 1 .. Len(list) : list[i] \in S
  BY LenProperties
<1>2. PICK m \in 0 .. Len(list) :
        m = Min({room, Len(list)}) /\ m = IF Len(list) <= room THEN Len(list) ELSE room
  <2>1. {room, Len(list)} \in SUBSET Nat /\ {room, Len(list)} # {}
    BY <1>1
  <2>2. /\ Min({room, Len(list)}) \in {room, Len(list)}
        /\ Min({room, Len(list)}) <= room /\ Min({room, Len(list)}) <= Len(list)
    BY <2>1, MinIs
  <2>3. PICK k : k = Min({room, Len(list)})
    OBVIOUS
  <2>4. k \in 0 .. Len(list) /\ k = IF Len(list) <= room THEN Len(list) ELSE room
    BY <1>1, <2>2, <2>3
  <2> QED BY <2>3, <2>4
<1>3. PICK part : part = SubSeq(list, 1, m)
  OBVIOUS
<1>4. /\ part \in Seq(S) /\ Len(part) = m /\ DOMAIN part = 1 .. m
      /\ \A i \in 1 .. m : part[i] = list[i]
  <2>1. \A i \in 1 .. m : list[i] \in S
    BY <1>1, <1>2
  <2>0. 1 \in Int /\ m \in Int
    BY <1>1, <1>2
  <2>2. /\ part \in Seq(S)
        /\ Len(part) = IF 1 <= m THEN m - 1 + 1 ELSE 0
        /\ \A i \in 1 .. m - 1 + 1 : part[i] = list[1 + i - 1]
    BY <1>3, <2>0, <2>1, SubSeqProperties
  <2>3. Len(part) = m
    BY <1>1, <1>2, <2>2
  <2>4. \A i \in 1 .. m : i \in 1 .. m - 1 + 1 /\ 1 + i - 1 = i
    BY <1>1, <1>2
  <2> QED BY <2>2, <2>3, <2>4, LenProperties
<1>5. \A i \in 1 .. m : i \in DOMAIN list
  BY <1>1, <1>2
<1>6. IsInjective(part)
  BY <1>4, <1>5 DEF IsInjective
<1>7. Range(part) \subseteq Range(list)
  BY <1>4, <1>5 DEF Range
<1>8. Len(list) <= room => Range(part) = Range(list)
  BY <1>1, <1>2, <1>4 DEF Range
<1>9. ~(Len(list) <= room) => Len(part) = room
  BY <1>2, <1>4
<1> QED BY <1>2, <1>3, <1>6, <1>7, <1>8, <1>9

\* GetStreamInfo, of a file or through any of its streams, names each stream
\* of the file once and the file itself, and a directory's streams without it,
\* up to the first that does not fit into the buffer.
THEOREM StreamsAreAllNamed == ASSUME OnlyAscii PROVE Spec => []StreamInfoComplete
<1>1. TreeInv => StreamInfoComplete
  <2> SUFFICES ASSUME TreeInv, NEW n \in fileMap \ {Root}, NEW isDirectory \in BOOLEAN, NEW room \in 0 .. MaxNames
               PROVE  LET info == GetStreamInfo(n, isDirectory, room)
                          names == {s.stream : s \in {m \in fileMap : IsStreamOf(m, MainName(n))}}
                                   \cup (IF isDirectory THEN {} ELSE {<<>>})
                      IN  /\ IsInjective(info.names)
                          /\ Range(info.names) \subseteq names
                          /\ IF info.ended THEN Range(info.names) = names ELSE Len(info.names) = room
    BY DEF StreamInfoComplete
  <2>0. PICK names : names = {s.stream : s \in {m \in fileMap : IsStreamOf(m, MainName(n))}}
                             \cup (IF isDirectory THEN {} ELSE {<<>>})
    OBVIOUS
  <2>1. PICK f \in Names : f = MainName(n) /\ ~IsStream(f)
    BY MainIs DEF TreeInv
  <2>2. PICK S : S = {m \in fileMap : IsStreamOf(m, f)}
    OBVIOUS
  <2>3. S \subseteq Names /\ IsFiniteSet(S) /\ EnumerateNamedStreams(f) = S
    <3>1. S \in SUBSET fileMap
      BY <2>2
    <3> QED BY <2>2, <3>1, StreamsAreFound, FS_Subset DEF TreeInv
  <2>4. PICK t, N : t = InOrder(S) /\ N = Cardinality(S)
    OBVIOUS
  <2>5. /\ N \in Nat /\ t \in [1 .. N -> S] /\ DOMAIN t = 1 .. N
        /\ \A i, j \in 1 .. N : i < j => Less(t[i], t[j])
        /\ \A m \in S : \E i \in 1 .. N : t[i] = m
    BY <2>3, <2>4, InOrderIs
  <2>6. \A i, j \in 1 .. N : t[i] = t[j] => i = j
    <3>1. \A m \in S : ~Less(m, m)
      BY <2>3, LessIsStrictOrder
    <3> QED BY <2>5, <3>1
  <2>7. \A m \in S : StreamName(Spelling[m]) = m.stream /\ m.stream \in Streams /\ m.stream # <<>>
    <3>1. \A m \in S : IsStream(m) /\ m \in Names
      BY <2>2, <2>3 DEF IsStreamOf
    <3>2. <<>> \notin Streams
      BY SpellingAssumption
    <3> QED BY <3>1, <3>2, SpellingIs, StreamNameIs, NamePaths DEF IsStream
  <2>8. \A m, o \in S : m.stream = o.stream => m = o
    <3>1. ASSUME NEW m \in S, NEW o \in S, m.stream = o.stream PROVE m = o
      <4>1. m \in Names /\ o \in Names /\ MainName(m) = f /\ MainName(o) = f
        BY <2>2, <2>3 DEF IsStreamOf
      <4>2. m.path = o.path
        BY <4>1, MainIs
      <4> QED BY <3>1, <4>1, <4>2, NamePaths
    <3> QED BY <3>1
  <2>9. PICK u : u = [k \in 1 .. N |-> t[k].stream]
    OBVIOUS
  <2>10. u \in Seq(Streams) /\ Len(u) = N /\ DOMAIN u = 1 .. N
    <3>1. u \in [1 .. N -> Streams]
      BY <2>5, <2>7, <2>9
    <3>2. u \in Seq(Streams)
      BY <2>5, <3>1, SeqDef
    <3>3. 1 .. Len(u) = 1 .. N /\ Len(u) \in Nat
      BY <3>1, <3>2, LenProperties
    <3> QED BY <2>5, <3>1, <3>2, <3>3
  <2>11. /\ \A i, j \in 1 .. N : u[i] = u[j] => i = j
         /\ \A i \in 1 .. N : u[i] # <<>>
         /\ {u[i] : i \in 1 .. N} = {m.stream : m \in S}
    BY <2>5, <2>6, <2>7, <2>8, <2>9
  <2>12. StreamInfos(n, isDirectory) = (IF isDirectory THEN <<>> ELSE << <<>> >>) \o u
    <3>1. StreamName(Spelling[f]) = <<>>
      BY <2>1, SpellingIs, StreamNameIs
    <3>2. [k \in DOMAIN t |-> StreamName(Spelling[t[k]])] = u
      BY <2>5, <2>7, <2>9
    <3> QED BY <2>1, <2>3, <2>4, <3>1, <3>2, Zenon DEF StreamInfos, NamesOfStreams
  <2>13. PICK infos : infos = StreamInfos(n, isDirectory)
    OBVIOUS
  <2>14. ASSUME isDirectory
         PROVE  infos \in Seq(Streams \cup {<<>>}) /\ IsInjective(infos) /\ Range(infos) = names
    <3>1. infos = u
      BY <2>10, <2>12, <2>13, <2>14, ConcatEmptySeq
    <3>2. IsInjective(u)
      BY <2>10, <2>11 DEF IsInjective
    <3>3. Range(u) = {m.stream : m \in S}
      BY <2>10, <2>11 DEF Range
    <3>4. {s.stream : s \in {m \in fileMap : IsStreamOf(m, MainName(n))}} = {m.stream : m \in S}
      BY <2>1, <2>2
    <3>5. u \in Seq(Streams \cup {<<>>})
      BY <2>10, SeqDef
    <3> QED BY <2>0, <2>14, <3>1, <3>2, <3>3, <3>4, <3>5
  <2>15. ASSUME ~isDirectory
         PROVE  infos \in Seq(Streams \cup {<<>>}) /\ IsInjective(infos) /\ Range(infos) = names
    <3>1. PICK v : v = << <<>> >> \o u
      OBVIOUS
    <3>2. /\ v \in Seq(Streams \cup {<<>>}) /\ Len(v) = 1 + N /\ DOMAIN v = 1 .. N + 1
          /\ v[1] = <<>> /\ \A i \in 1 .. N : v[i + 1] = u[i]
      <4>1. << <<>> >> \in Seq(Streams \cup {<<>>}) /\ u \in Seq(Streams \cup {<<>>})
            /\ Len(<< <<>> >>) = 1 /\ << <<>> >>[1] = <<>>
        BY <2>10, LenProperties, SeqDef
      <4>2. /\ v \in Seq(Streams \cup {<<>>}) /\ Len(v) = 1 + N
            /\ \A i \in 1 .. 1 + N : v[i] = IF i <= 1 THEN << <<>> >>[i] ELSE u[i - 1]
        BY <2>10, <3>1, <4>1, ConcatProperties
      <4>3. DOMAIN v = 1 .. N + 1
        BY <2>5, <4>2, LenProperties
      <4>4. v[1] = <<>>
        BY <2>5, <4>1, <4>2
      <4>5. ASSUME NEW i \in 1 .. N PROVE v[i + 1] = u[i]
        <5>1. i + 1 \in 1 .. 1 + N /\ ~(i + 1 <= 1) /\ (i + 1) - 1 = i
          BY <2>5
        <5> QED BY <4>2, <5>1
      <4> QED BY <4>2, <4>3, <4>4, <4>5
    <3>3. \A i \in DOMAIN v : i = 1 \/ \E j \in 1 .. N : i = j + 1
      <4>1. \A i \in 1 .. N + 1 : i # 1 => i - 1 \in 1 .. N /\ i = (i - 1) + 1
        BY <2>5
      <4> QED BY <3>2, <4>1
    <3>4. IsInjective(v)
      BY <2>11, <3>2, <3>3 DEF IsInjective
    <3>5. Range(v) = {m.stream : m \in S} \cup {<<>>}
      <4>1. \A i \in DOMAIN v : v[i] \in {u[j] : j \in 1 .. N} \cup {<<>>}
        BY <3>2, <3>3
      <4>2. 1 \in DOMAIN v /\ \A j \in 1 .. N : j + 1 \in DOMAIN v
        BY <2>5, <3>2
      <4>3. Range(v) \subseteq {u[j] : j \in 1 .. N} \cup {<<>>}
        BY <4>1 DEF Range
      <4>4. \A j \in 1 .. N : u[j] \in Range(v)
        BY <3>2, <4>2, Zenon DEF Range
      <4>5. <<>> \in Range(v)
        BY <3>2, <4>2, Zenon DEF Range
      <4>6. Range(v) = {u[j] : j \in 1 .. N} \cup {<<>>}
        BY <4>3, <4>4, <4>5
      <4> QED BY <2>11, <4>6
    <3>6. infos = v
      BY <2>12, <2>13, <2>15, <3>1
    <3> QED BY <2>0, <2>1, <2>2, <2>15, <3>2, <3>4, <3>5, <3>6
  <2>16. infos \in Seq(Streams \cup {<<>>}) /\ IsInjective(infos) /\ Range(infos) = names
    BY <2>14, <2>15
  <2>17. room \in Nat
    BY NamesAssumption
  <2>18. PICK info : info = GetStreamInfo(n, isDirectory, room)
    OBVIOUS
  <2>19. info.names = SubSeq(infos, 1, Min({room, Len(infos)})) /\ info.ended = (Len(infos) <= room)
    BY <2>13, <2>18 DEF GetStreamInfo, AddedInfos
  <2>20. /\ IsInjective(info.names) /\ Range(info.names) \subseteq names
         /\ IF info.ended THEN Range(info.names) = names ELSE Len(info.names) = room
    BY <2>16, <2>17, <2>19, BeginningOfList
  <2> QED BY <2>0, <2>18, <2>20
<1> QED BY <1>1, TreeAlways, PTL

-----------------------------------------------------------------------------
(* The listing of a directory while names come and go. *)

Entries == Components \cup {Dot, DotDot}

\* The listing has got to the entry of n, which need not be there any more:
\* nothing behind n is listed yet, and nothing before n is missing.
ListedUpTo(n) ==
  /\ IsChildOf(n, dir) /\ marker = Part(n) /\ marker \in Range(listed)
  /\ \A m \in Names : IsChildOf(m, dir) /\ Part(m) \in Range(listed) => ~Less(n, m)
  /\ \A m \in stayed : Less(n, m) \/ Part(m) \in Range(listed)

ListingInv ==
  /\ phase \in {"idle", "listing", "listed"}
  /\ dir \in fileMap /\ ~IsStream(dir)
  /\ stayed \subseteq ChildrenOf(dir)
  /\ phase = "idle" => dir = Root /\ marker = NoMarker /\ listed = <<>> /\ stayed = {}
  /\ marker = NoMarker \/ marker \in Range(listed)
  /\ listed \in Seq(Entries) /\ IsInjective(listed)
  /\ phase = "listing" =>
       \/ marker = NoMarker /\ listed = <<>>
       \/ marker = Dot /\ listed = <<Dot>> /\ dir # Root
       \/ \E n \in Names : ListedUpTo(n)
  /\ phase = "listed" => \A m \in stayed : Part(m) \in Range(listed)

\* A list that new entries are put behind.
LEMMA AppendedEntries ==
  ASSUME NEW S, NEW s \in Seq(S), NEW t \in Seq(S), NEW k \in 0 .. Len(t), IsInjective(s),
         \A i \in 1 .. Len(t) : t[i] \notin Range(s),
         \A i, j \in 1 .. Len(t) : t[i] = t[j] => i = j
  PROVE  /\ s \o SubSeq(t, 1, k) \in Seq(S)
         /\ IsInjective(s \o SubSeq(t, 1, k))
         /\ Range(s \o SubSeq(t, 1, k)) = Range(s) \cup {t[i] : i \in 1 .. k}
<1>1. Len(s) \in Nat /\ Len(t) \in Nat /\ DOMAIN s = 1 .. Len(s)
  BY LenProperties
<1>2. PICK u : u = SubSeq(t, 1, k)
  OBVIOUS
<1>3. u \in Seq(S) /\ Len(u) = k /\ \A i \in 1 .. k : u[i] = t[i]
  <2>1. \A i \in 1 .. k : t[i] \in S
    BY <1>1, ElementOfSeq
  <2>2. /\ SubSeq(t, 1, k) \in Seq(S)
        /\ Len(SubSeq(t, 1, k)) = IF 1 <= k THEN k - 1 + 1 ELSE 0
        /\ \A i \in 1 .. k - 1 + 1 : SubSeq(t, 1, k)[i] = t[1 + i - 1]
    <3>1. 1 \in Int /\ k \in Int
      BY <1>1
    <3> QED BY <2>1, <3>1, SubSeqProperties
  <2>3. Len(u) = k
    BY <1>1, <1>2, <2>2
  <2>4. \A i \in 1 .. k : i \in 1 .. k - 1 + 1 /\ 1 + i - 1 = i
    BY <1>1
  <2> QED BY <1>2, <2>2, <2>3, <2>4
<1>4. PICK w : w = s \o u
  OBVIOUS
<1>5. /\ w \in Seq(S) /\ Len(w) = Len(s) + k
      /\ \A i \in 1 .. Len(s) + k : w[i] = IF i <= Len(s) THEN s[i] ELSE u[i - Len(s)]
  BY <1>3, <1>4, ConcatProperties
<1>6. DOMAIN w = 1 .. Len(s) + k
  BY <1>5, LenProperties
<1>7. \A i \in 1 .. Len(s) : i \in DOMAIN w /\ w[i] = s[i] /\ s[i] \in Range(s)
  BY <1>1, <1>5, <1>6 DEF Range
<1>8. \A i \in DOMAIN w : i \notin 1 .. Len(s) => i - Len(s) \in 1 .. k /\ w[i] = t[i - Len(s)]
  <2>1. \A i \in DOMAIN w : i \notin 1 .. Len(s) => i - Len(s) \in 1 .. k /\ ~(i <= Len(s))
    BY <1>1, <1>6
  <2> QED BY <1>3, <1>5, <1>6, <2>1
<1>9. \A i \in 1 .. k : i + Len(s) \in DOMAIN w /\ w[i + Len(s)] = t[i]
  <2>1. \A i \in 1 .. k : /\ i + Len(s) \in 1 .. Len(s) + k /\ ~(i + Len(s) <= Len(s))
                          /\ (i + Len(s)) - Len(s) = i
    BY <1>1
  <2> QED BY <1>3, <1>5, <1>6, <2>1
<1>10. IsInjective(w)
  <2> SUFFICES ASSUME NEW i \in DOMAIN w, NEW j \in DOMAIN w, w[i] = w[j] PROVE i = j
    BY DEF IsInjective
  <2>1. 1 .. k \subseteq 1 .. Len(t)
    BY <1>1
  <2>2. CASE i \in 1 .. Len(s) /\ j \in 1 .. Len(s)
    BY <1>1, <1>7, <2>2 DEF IsInjective
  <2>3. CASE i \in 1 .. Len(s) /\ j \notin 1 .. Len(s)
    BY <1>7, <1>8, <2>1, <2>3
  <2>4. CASE i \notin 1 .. Len(s) /\ j \in 1 .. Len(s)
    BY <1>7, <1>8, <2>1, <2>4
  <2>5. CASE i \notin 1 .. Len(s) /\ j \notin 1 .. Len(s)
    <3>1. i - Len(s) = j - Len(s)
      BY <1>8, <2>1, <2>5
    <3>2. i \in Int /\ j \in Int
      BY <1>1, <1>6
    <3> QED BY <1>1, <3>1, <3>2
  <2> QED BY <2>2, <2>3, <2>4, <2>5
<1>11. Range(w) = Range(s) \cup {t[i] : i \in 1 .. k}
  <2>1. \A i \in DOMAIN w : w[i] \in Range(s) \cup {t[j] : j \in 1 .. k}
    BY <1>7, <1>8
  <2>2. Range(w) \subseteq Range(s) \cup {t[j] : j \in 1 .. k}
    BY <2>1 DEF Range
  <2>3. Range(s) \subseteq Range(w)
    BY <1>1, <1>7 DEF Range
  <2>4. \A i \in 1 .. k : t[i] \in Range(w)
    BY <1>9, Zenon DEF Range
  <2> QED BY <2>2, <2>3, <2>4
<1> QED BY <1>2, <1>4, <1>5, <1>10, <1>11

\* A child is told from the others by its entry, which is no dot entry.
LEMMA ChildEntry ==
  ASSUME NEW d \in Names, NEW n \in Names, IsChildOf(n, d)
  PROVE  /\ n # Root /\ ~IsStream(n)
         /\ Part(n) \in Components /\ Part(n) \notin {Dot, DotDot} /\ Part(n) # NoMarker
         /\ \A m \in Names : IsChildOf(m, d) /\ Part(m) = Part(n) => m = n
<1>1. n # Root /\ ~IsStream(n) /\ Up(n) = d /\ Sep(n) = Backslash
  BY DEF IsChildOf, Up, Sep
<1>2. Part(n) \in Components
  BY <1>1, PartIsIn
<1>3. Part(n) \notin {Dot, DotDot} /\ Part(n) # NoMarker
  BY <1>2, SpellingAssumption DEF NoMarker
<1>4. ASSUME NEW m \in Names, IsChildOf(m, d), Part(m) = Part(n) PROVE m = n
  <2>1. m # Root /\ Up(m) = d /\ Sep(m) = Backslash
    BY <1>4 DEF IsChildOf, Up, Sep
  <2> QED BY <1>1, <1>4, <2>1, NameIsUpAndPart
<1> QED BY <1>1, <1>2, <1>3, <1>4

LEMMA DotsAre ==
  /\ Dot # DotDot /\ Dot # NoMarker /\ DotDot # NoMarker
<1>1. Len(Dot) = 1 /\ Len(DotDot) = 2
  BY DEF Dot, DotDot
<1>2. Len(NoMarker) = 0
  BY EmptySeq DEF NoMarker
<1> QED BY <1>1, <1>2

LEMMA BeforeOfAlike ==
  ASSUME NEW a, NEW b, NEW c, Alike(a, b)
  PROVE  Before(a, c) <=> Before(b, c)
BY DEF Alike, Before, AgreeBefore

\* From a marker a walk starts behind the name it stands for, there or not.
LEMMA WalkFromMarker ==
  ASSUME OnlyAscii, fileMap \subseteq Names, NEW d \in Names, NEW n \in Names, IsChildOf(n, d)
  PROVE  EnumerateDirChildren(d, Part(n)) = {m \in ChildrenOf(d) : Less(n, m)}
<1>1. n # Root /\ ~IsStream(n) /\ ~IsStream(d) /\ Part(n) \in Components /\ Part(n) # NoMarker
  BY ChildEntry DEF IsChildOf
<1>2. PICK key : key = MarkerKey(d, Part(n))
  OBVIOUS
<1>3. key = LookupKey(d, Part(n))
  <2>1. d = Root <=> ~(Len(Spelling[d]) > 1)
    <3>1. d = Root => ~(Len(Spelling[d]) > 1)
      <4>1. ASSUME d = Root PROVE ~(Len(Spelling[d]) > 1)
        <5>1. Len(Spelling[d]) = 1
          BY <4>1, SpellingIs, RootIsSpelled
        <5> QED BY <5>1
      <4> QED BY <4>1
    <3> QED BY <3>1, SpellingIs, NamesAreWellSpelled
  <2> QED BY <1>2, <2>1, Zenon DEF MarkerKey, LookupKey
<1>4. IsPart(Part(n))
  BY <1>1, PartsAreParts
<1>5. WellSpelled(key)
  BY <1>1, <1>3, <1>4, KeyIsJoined
<1>6. Alike(key, Spell(n))
  <2>1. PartCompare(Suffix(Spelling[n]), Part(n)) = 0
    <3>1. Suffix(Spelling[n]) = Part(n)
      BY <1>1, SpellingIs, SuffixIs
    <3> QED BY <1>4, <3>1, PartsHeldEqual DEF IsPart
  <2>2. FileNameCompare(key, Spelling[n]) = 0
    BY <1>1, <1>3, <1>4, <2>1, KeyFindsChild
  <2> QED BY <1>5, <2>2, SpellingIs, NamesAreWellSpelled, CompareIsLexicographic
<1>7. \A m \in fileMap : FileNameCompare(key, Spelling[m]) < 0 <=> Less(n, m)
  <2>1. ASSUME NEW m \in fileMap PROVE FileNameCompare(key, Spelling[m]) < 0 <=> Less(n, m)
    <3>1. FileNameCompare(key, Spelling[m]) < 0 <=> Before(key, Spell(m))
      BY <1>5, SpellingIs, NamesAreWellSpelled, CompareIsLexicographic
    <3> QED BY <1>6, <3>1, BeforeOfAlike, LessIsBefore
  <2> QED BY <2>1
<1> DEFINE S == UpperBoundOfKey(key)
<1>8. S = {m \in fileMap : Less(n, m)}
  BY <1>7 DEF UpperBoundOfKey
<1>9. EnumerateDirChildren(d, Part(n)) =
        {m \in WalkWhile(S, LAMBDA x : FileNameHasPrefix(Spelling[x], Spelling[d])) :
           InDirectory(m, d) /\ ~HasColon(Suffix(Spelling[m]))}
  BY <1>1, <1>2 DEF EnumerateDirChildren
<1> HIDE DEF S
<1>10. S \subseteq Names /\ \A m \in S : Less(d, m)
  <2>1. Less(d, n)
    BY ChildHasPrefix, PrefixComesFirst
  <2> QED BY <1>8, <2>1, LessIsStrictOrder
<1>11. EnumerateDirChildren(d, Part(n)) = {m \in S : IsChildOf(m, d)}
  BY <1>9, <1>10, ChildrenAreFound
<1> QED BY <1>8, <1>11 DEF ChildrenOf

\* What a call of ReadDirectory has to offer: h dot entries and the entries of
\* the children t, none of them listed yet and none before one that is.
IsRead(entries, h, N, t) ==
  /\ h \in Nat /\ N \in Nat /\ entries \in Seq(Entries) /\ Len(entries) = h + N
  /\ \A i \in 1 .. h : entries[i] = DotDot \/ (entries[i] = Dot /\ i = 1 /\ dir # Root /\ listed = <<>>)
  /\ \A i \in 1 .. N : t[i] \in ChildrenOf(dir) /\ entries[h + i] = Part(t[i])
  /\ \A i, j \in 1 .. N : i < j => Less(t[i], t[j])
  /\ \A i \in 1 .. h + N : entries[i] \notin Range(listed)
  /\ \A i, j \in 1 .. h + N : entries[i] = entries[j] => i = j
  /\ \A m \in Names : IsChildOf(m, dir) /\ Part(m) \in Range(listed) => \A i \in 1 .. N : Less(m, t[i])
  /\ \A m \in stayed : Part(m) \in Range(listed) \/ \E i \in 1 .. N : m = t[i]

LEMMA FewDots ==
  ASSUME ListingInv, phase = "listing"
  PROVE  /\ DotEntries(dir, marker) \in Seq(Entries) /\ Len(DotEntries(dir, marker)) \in Nat
         /\ \A i \in 1 .. Len(DotEntries(dir, marker)) :
              /\ \/ DotEntries(dir, marker)[i] = DotDot
                 \/ DotEntries(dir, marker)[i] = Dot /\ i = 1 /\ dir # Root /\ listed = <<>>
              /\ DotEntries(dir, marker)[i] \notin Range(listed)
         /\ \A i, j \in 1 .. Len(DotEntries(dir, marker)) :
              DotEntries(dir, marker)[i] = DotEntries(dir, marker)[j] => i = j
<1>1. PICK D : D = DotEntries(dir, marker)
  OBVIOUS
<1>2. Dot \in Entries /\ DotDot \in Entries
  BY DEF Entries
<1>3. CASE D = <<>>
  BY <1>1, <1>3, EmptySeq
<1>4. CASE D # <<>>
  <2>1. dir # Root /\ marker \in {NoMarker, Dot}
    BY <1>1, <1>4, Zenon DEF DotEntries
  <2>2. dir \in Names \/ dir \notin Names
    OBVIOUS
  <2>3. ASSUME NEW n \in Names, IsChildOf(n, dir), marker = Part(n) PROVE FALSE
    <3>1. n # Root /\ ~IsStream(n)
      BY <2>3 DEF IsChildOf
    <3>2. Part(n) \in Components
      BY <3>1, PartIsIn
    <3> QED BY <2>1, <2>3, <3>2, SpellingAssumption DEF NoMarker
  <2>4. \/ marker = NoMarker /\ listed = <<>>
        \/ marker = Dot /\ listed = <<Dot>>
    BY <2>3 DEF ListingInv, ListedUpTo
  <2>5. CASE marker = NoMarker /\ listed = <<>>
    <3>1. D = <<Dot, DotDot>>
      BY <1>1, <2>1, <2>5, DotsAre, Zenon DEF DotEntries
    <3>2. Range(listed) = {}
      BY <2>5, EmptySeq DEF Range
    <3>3. /\ <<Dot, DotDot>> \in Seq(Entries) /\ Len(<<Dot, DotDot>>) = 2
          /\ <<Dot, DotDot>>[1] = Dot /\ <<Dot, DotDot>>[2] = DotDot /\ \A i \in 1 .. 2 : i = 1 \/ i = 2
      BY <1>2
    <3>4. Len(D) = 2 /\ D[1] = Dot /\ D[2] = DotDot /\ D \in Seq(Entries)
      BY <3>1, <3>3
    <3>5. \A i \in 1 .. 2 : /\ D[i] = DotDot \/ (D[i] = Dot /\ i = 1 /\ dir # Root /\ listed = <<>>)
                           /\ D[i] \notin Range(listed)
      BY <2>1, <2>5, <3>2, <3>3, <3>4
    <3>6. \A i, j \in 1 .. 2 : D[i] = D[j] => i = j
      BY <3>3, <3>4, DotsAre
    <3> QED BY <1>1, <3>4, <3>5, <3>6
  <2>6. CASE marker = Dot /\ listed = <<Dot>>
    <3>1. D = <<DotDot>>
      BY <1>1, <2>1, <2>6, DotsAre, Zenon DEF DotEntries
    <3>2. /\ <<DotDot>> \in Seq(Entries) /\ Len(<<DotDot>>) = 1
          /\ <<DotDot>>[1] = DotDot /\ \A i \in 1 .. 1 : i = 1
      BY <1>2
    <3>3. DotDot \notin Range(listed)
      <4>1. DOMAIN <<Dot>> = 1 .. 1 /\ <<Dot>>[1] = Dot
        OBVIOUS
      <4>2. \A i \in DOMAIN listed : listed[i] = Dot
        BY <2>6, <3>2, <4>1
      <4> QED BY <4>2, DotsAre DEF Range
    <3> QED BY <1>1, <3>1, <3>2, <3>3
  <2> QED BY <2>4, <2>5, <2>6
<1> QED BY <1>3, <1>4

\* The children a call comes to: those behind the marker.
LEMMA ChildrenRead ==
  ASSUME OnlyAscii, TreeInv, ListingInv, phase = "listing",
         NEW S, S = EnumerateDirChildren(dir, ChildMarker(dir, marker))
  PROVE  /\ S \subseteq ChildrenOf(dir)
         /\ \A m \in Names : IsChildOf(m, dir) /\ Part(m) \in Range(listed) => \A x \in S : Less(m, x)
         /\ \A m \in stayed : Part(m) \in Range(listed) \/ m \in S
<1>1. dir \in Names /\ fileMap \subseteq Names /\ ChildrenOf(dir) \subseteq Names
      /\ stayed \subseteq ChildrenOf(dir)
  BY DEF TreeInv, ListingInv, ChildrenOf
<1>2. \A m \in Names : IsChildOf(m, dir) => Part(m) \in Components /\ Part(m) \notin {Dot, DotDot}
  BY <1>1, ChildEntry
<1>3. CASE \E n \in Names : ListedUpTo(n)
  <2>1. PICK n \in Names : ListedUpTo(n)
    BY <1>3
  <2>2. /\ IsChildOf(n, dir) /\ marker = Part(n)
        /\ \A m \in Names : IsChildOf(m, dir) /\ Part(m) \in Range(listed) => ~Less(n, m)
        /\ \A m \in stayed : Less(n, m) \/ Part(m) \in Range(listed)
    BY <2>1 DEF ListedUpTo
  <2>3. ChildMarker(dir, marker) = Part(n)
    BY <1>2, <2>2, Zenon DEF ChildMarker
  <2>4. S = {m \in ChildrenOf(dir) : Less(n, m)}
    BY <1>1, <2>2, <2>3, WalkFromMarker
  <2>5. ASSUME NEW m \in Names, IsChildOf(m, dir), Part(m) \in Range(listed), NEW x \in S
        PROVE  Less(m, x)
    <3>1. ~Less(n, m) /\ Less(n, x) /\ x \in Names
      BY <1>1, <2>2, <2>4, <2>5
    <3>2. m = n \/ Less(m, n)
      BY <3>1, LessIsStrictOrder
    <3> QED BY <3>1, <3>2, LessIsStrictOrder
  <2> QED BY <1>1, <2>2, <2>4, <2>5
<1>4. CASE ~\E n \in Names : ListedUpTo(n)
  <2>1. \/ marker = NoMarker /\ listed = <<>>
        \/ marker = Dot /\ listed = <<Dot>> /\ dir # Root
    BY <1>4 DEF ListingInv
  <2>2. ChildMarker(dir, marker) = NoMarker
    BY <2>1, Zenon DEF ChildMarker
  <2>3. S = {n \in UpperBound(dir) : IsChildOf(n, dir)}
    <3>1. UpperBound(dir) \subseteq Names /\ \A n \in UpperBound(dir) : Less(dir, n)
      BY <1>1 DEF UpperBound
    <3>2. EnumerateDirChildren(dir, NoMarker) =
            {n \in WalkWhile(UpperBound(dir), LAMBDA x : FileNameHasPrefix(Spelling[x], Spelling[dir])) :
               InDirectory(n, dir) /\ ~HasColon(Suffix(Spelling[n]))}
      BY DEF EnumerateDirChildren
    <3> QED BY <1>1, <2>2, <3>1, <3>2, ChildrenAreFound
  <2>4. \A n \in fileMap : IsChildOf(n, dir) => n \in UpperBound(dir)
    BY <1>1, ChildHasPrefix, PrefixComesFirst DEF UpperBound
  <2>5. S = ChildrenOf(dir)
    BY <2>3, <2>4 DEF ChildrenOf, UpperBound
  <2>6. \A m \in Names : IsChildOf(m, dir) => Part(m) \notin Range(listed)
    <3>1. \A i \in DOMAIN listed : listed[i] = Dot
      <4>1. DOMAIN <<>> = {} /\ DOMAIN <<Dot>> = 1 .. 1 /\ <<Dot>>[1] = Dot /\ \A i \in 1 .. 1 : i = 1
        BY EmptySeq
      <4> QED BY <2>1, <4>1
    <3> QED BY <1>2, <3>1 DEF Range
  <2> QED BY <1>1, <2>5, <2>6
<1> QED BY <1>3, <1>4

LEMMA WhatIsRead ==
  ASSUME OnlyAscii, TreeInv, ListingInv, phase = "listing",
         NEW entries, entries = DotEntries(dir, marker)
                                \o EntriesOf(EnumerateDirChildren(dir, ChildMarker(dir, marker)))
  PROVE  \E h, N, t : IsRead(entries, h, N, t)
<1>1. PICK D, S : D = DotEntries(dir, marker) /\ S = EnumerateDirChildren(dir, ChildMarker(dir, marker))
  OBVIOUS
<1>2. PICK h : h = Len(D)
  OBVIOUS
<1>3. /\ D \in Seq(Entries) /\ h \in Nat
      /\ \A i \in 1 .. h : /\ D[i] = DotDot \/ (D[i] = Dot /\ i = 1 /\ dir # Root /\ listed = <<>>)
                           /\ D[i] \notin Range(listed)
      /\ \A i, j \in 1 .. h : D[i] = D[j] => i = j
  BY <1>1, <1>2, FewDots
<1>4. /\ S \subseteq ChildrenOf(dir)
      /\ \A m \in Names : IsChildOf(m, dir) /\ Part(m) \in Range(listed) => \A x \in S : Less(m, x)
      /\ \A m \in stayed : Part(m) \in Range(listed) \/ m \in S
  BY <1>1, ChildrenRead
<1>5. dir \in Names /\ S \subseteq Names /\ IsFiniteSet(S) /\ \A x \in S : IsChildOf(x, dir)
  <2>1. S \in SUBSET fileMap
    BY <1>4 DEF ChildrenOf
  <2> QED BY <1>4, <2>1, FS_Subset DEF TreeInv, ListingInv, ChildrenOf
<1>6. PICK t, N : t = InOrder(S) /\ N = Cardinality(S)
  OBVIOUS
<1>7. /\ N \in Nat /\ t \in [1 .. N -> S]
      /\ \A i, j \in 1 .. N : i < j => Less(t[i], t[j])
      /\ \A n \in S : \E i \in 1 .. N : t[i] = n
  BY <1>5, <1>6, InOrderIs
<1>8. PICK E : E = EntriesOf(S)
  OBVIOUS
<1>9. DOMAIN E = 1 .. N /\ \A i \in 1 .. N : E[i] = Part(t[i]) /\ E[i] \in Components /\ E[i] \notin {Dot, DotDot}
  <2>1. DOMAIN E = 1 .. N /\ \A i \in 1 .. N : E[i] = Suffix(Spelling[t[i]])
    BY <1>5, <1>6, <1>8, EntriesAre
  <2>2. \A x \in S : /\ Suffix(Spelling[x]) = Part(x)
                     /\ Part(x) \in Components /\ Part(x) \notin {Dot, DotDot}
    <3>1. ASSUME NEW x \in S
          PROVE  /\ Suffix(Spelling[x]) = Part(x)
                 /\ Part(x) \in Components /\ Part(x) \notin {Dot, DotDot}
      <4>1. x \in Names /\ IsChildOf(x, dir)
        BY <1>5
      <4>2. x # Root /\ ~IsStream(x) /\ Part(x) \in Components /\ Part(x) \notin {Dot, DotDot}
        BY <1>5, <4>1, ChildEntry
      <4> QED BY <4>1, <4>2, SpellingIs, SuffixIs
    <3> QED BY <3>1
  <2> QED BY <1>7, <2>1, <2>2
<1>10. E \in Seq(Entries) /\ Len(E) = N
  <2>1. E = [i \in 1 .. N |-> E[i]]
    BY <1>8, <1>9 DEF EntriesOf, SuffixesOf
  <2>2. \A i \in 1 .. N : E[i] \in Entries
    BY <1>9 DEF Entries
  <2>3. [i \in 1 .. N |-> E[i]] \in Seq(Entries)
    BY <1>7, <2>2, IsASeq
  <2>4. 1 .. Len(E) = 1 .. N /\ Len(E) \in Nat
    BY <1>9, <2>1, <2>3, LenProperties
  <2>5. Len(E) = N
    BY <1>7, <2>4
  <2> QED BY <2>1, <2>3, <2>5
<1>11. /\ entries \in Seq(Entries) /\ Len(entries) = h + N
       /\ \A i \in 1 .. h + N : entries[i] = IF i <= h THEN D[i] ELSE E[i - h]
  <2>1. entries = D \o E
    BY <1>1, <1>8
  <2> QED BY <1>2, <1>3, <1>10, <2>1, ConcatProperties
<1>12. \A i \in 1 .. h : i \in 1 .. h + N /\ entries[i] = D[i]
  BY <1>3, <1>7, <1>11
<1>13. \A i \in 1 .. N : h + i \in 1 .. h + N /\ entries[h + i] = Part(t[i]) /\ t[i] \in S
  <2>1. \A i \in 1 .. N : h + i \in 1 .. h + N /\ ~(h + i <= h) /\ (h + i) - h = i
    BY <1>3, <1>7
  <2> QED BY <1>7, <1>9, <1>11, <2>1
<1>14. ASSUME NEW i \in 1 .. h + N
       PROVE  (i \in 1 .. h /\ entries[i] = D[i]) \/ \E k \in 1 .. N : i = h + k /\ entries[i] = Part(t[k])
  <2>1. CASE i \in 1 .. h
    BY <1>12, <2>1
  <2>2. CASE i \notin 1 .. h
    <3>1. i - h \in 1 .. N /\ i = h + (i - h)
      BY <1>3, <1>7, <2>2
    <3>2. PICK k \in 1 .. N : i = h + k
      BY <3>1
    <3> QED BY <1>13, <3>2
  <2> QED BY <2>1, <2>2
<1>15. \A i \in 1 .. N : Part(t[i]) \notin Range(listed)
  BY <1>4, <1>5, <1>7, LessIsStrictOrder
<1>16. \A i, j \in 1 .. N : Part(t[i]) = Part(t[j]) => i = j
  <2>1. ASSUME NEW i \in 1 .. N, NEW j \in 1 .. N, Part(t[i]) = Part(t[j]) PROVE i = j
    <3>1. t[i] \in Names /\ t[j] \in Names /\ IsChildOf(t[i], dir) /\ IsChildOf(t[j], dir)
      BY <1>5, <1>7
    <3>2. t[i] = t[j]
      BY <1>5, <2>1, <3>1, ChildEntry
    <3>3. ~Less(t[i], t[j]) /\ ~Less(t[j], t[i])
      BY <3>1, <3>2, LessIsStrictOrder
    <3> QED BY <1>7, <3>3
  <2> QED BY <2>1
<1>17. \A i \in 1 .. h + N : entries[i] \notin Range(listed)
  <2>1. ASSUME NEW i \in 1 .. h + N PROVE entries[i] \notin Range(listed)
    <3>1. CASE i \in 1 .. h /\ entries[i] = D[i]
      BY <1>3, <3>1
    <3>2. CASE \E k \in 1 .. N : i = h + k /\ entries[i] = Part(t[k])
      BY <1>15, <3>2
    <3> QED BY <1>14, <3>1, <3>2
  <2> QED BY <2>1
<1>18. \A i, j \in 1 .. h + N : entries[i] = entries[j] => i = j
  <2> SUFFICES ASSUME NEW i \in 1 .. h + N, NEW j \in 1 .. h + N, entries[i] = entries[j] PROVE i = j
    OBVIOUS
  <2>1. \A k \in 1 .. h, l \in 1 .. N : D[k] # Part(t[l])
    BY <1>3, <1>9
  <2>2. (i \in 1 .. h /\ entries[i] = D[i]) \/ \E k \in 1 .. N : i = h + k /\ entries[i] = Part(t[k])
    BY <1>14
  <2>3. (j \in 1 .. h /\ entries[j] = D[j]) \/ \E k \in 1 .. N : j = h + k /\ entries[j] = Part(t[k])
    BY <1>14
  <2>4. CASE i \in 1 .. h /\ entries[i] = D[i]
    <3>1. j \in 1 .. h /\ entries[j] = D[j]
      BY <2>1, <2>3, <2>4
    <3> QED BY <1>3, <2>4, <3>1
  <2>5. CASE \E k \in 1 .. N : i = h + k /\ entries[i] = Part(t[k])
    <3>1. PICK k \in 1 .. N : i = h + k /\ entries[i] = Part(t[k])
      BY <2>5
    <3>2. PICK l \in 1 .. N : j = h + l /\ entries[j] = Part(t[l])
      BY <2>1, <2>3, <3>1
    <3>3. k = l
      BY <1>16, <3>1, <3>2
    <3> QED BY <3>1, <3>2, <3>3
  <2> QED BY <2>2, <2>4, <2>5
<1>19. \A m \in stayed : Part(m) \in Range(listed) \/ \E i \in 1 .. N : m = t[i]
  BY <1>4, <1>7
<1>20. \A m \in Names : IsChildOf(m, dir) /\ Part(m) \in Range(listed) => \A i \in 1 .. N : Less(m, t[i])
  BY <1>4, <1>7
<1>21. \A i \in 1 .. N : t[i] \in ChildrenOf(dir)
  BY <1>4, <1>7
<1>22. IsRead(entries, h, N, t)
  BY <1>3, <1>7, <1>11, <1>12, <1>13, <1>17, <1>18, <1>19, <1>20, <1>21 DEF IsRead
<1> QED BY <1>22

LEMMA ReadIsAppended ==
  ASSUME ListingInv, NEW entries, NEW h, NEW N, NEW t, IsRead(entries, h, N, t),
         NEW k \in 0 .. h + N
  PROVE  /\ listed \o SubSeq(entries, 1, k) \in Seq(Entries)
         /\ IsInjective(listed \o SubSeq(entries, 1, k))
         /\ Range(listed \o SubSeq(entries, 1, k)) = Range(listed) \cup {entries[i] : i \in 1 .. k}
<1>1. /\ entries \in Seq(Entries) /\ Len(entries) = h + N /\ listed \in Seq(Entries) /\ IsInjective(listed)
      /\ \A i \in 1 .. Len(entries) : entries[i] \notin Range(listed)
      /\ \A i, j \in 1 .. Len(entries) : entries[i] = entries[j] => i = j
      /\ k \in 0 .. Len(entries)
  BY DEF IsRead, ListingInv
<1> QED BY <1>1, AppendedEntries

LEMMA WholeList ==
  ASSUME NEW S, NEW s \in Seq(S)
  PROVE  SubSeq(s, 1, Len(s)) = s
<1>1. Len(s) \in Nat /\ \A i \in 1 .. Len(s) : s[i] \in S
  BY LenProperties, ElementOfSeq
<1>2. PICK u : u = SubSeq(s, 1, Len(s))
  OBVIOUS
<1>3. /\ u \in Seq(S) /\ Len(u) = IF 1 <= Len(s) THEN Len(s) - 1 + 1 ELSE 0
      /\ \A i \in 1 .. Len(s) - 1 + 1 : u[i] = s[1 + i - 1]
  <2>1. 1 \in Int /\ Len(s) \in Int
    BY <1>1
  <2> QED BY <1>1, <1>2, <2>1, SubSeqProperties
<1>4. Len(u) = Len(s)
  BY <1>1, <1>3
<1>5. ASSUME NEW i \in 1 .. Len(u) PROVE u[i] = s[i]
  <2>1. i \in 1 .. Len(s) - 1 + 1 /\ 1 + i - 1 = i
    BY <1>1, <1>4
  <2> QED BY <1>3, <2>1
<1> QED BY <1>2, <1>3, <1>4, <1>5, SeqEqual

\* The last call lists all that is left.
LEMMA ReadEnds ==
  ASSUME OnlyAscii, TreeInv, ListingInv, NEW entries, NEW h, NEW N, NEW t, IsRead(entries, h, N, t),
         phase = "listing", phase' = "listed", listed' = listed \o entries,
         UNCHANGED <<fileMap, dir, marker, stayed>>
  PROVE  ListingInv'
<1>1. /\ h \in Nat /\ N \in Nat /\ entries \in Seq(Entries) /\ Len(entries) = h + N
      /\ \A i \in 1 .. N : t[i] \in ChildrenOf(dir) /\ entries[h + i] = Part(t[i])
      /\ \A m \in stayed : Part(m) \in Range(listed) \/ \E i \in 1 .. N : m = t[i]
  BY DEF IsRead
<1>2. listed' = listed \o SubSeq(entries, 1, h + N)
  BY <1>1, WholeList
<1>3. h + N \in 0 .. h + N /\ \A i \in 1 .. N : h + i \in 1 .. h + N
  BY <1>1
<1>4. /\ listed' \in Seq(Entries) /\ IsInjective(listed')
      /\ Range(listed') = Range(listed) \cup {entries[i] : i \in 1 .. h + N}
  BY <1>2, <1>3, ReadIsAppended
<1>5. \A m \in stayed : Part(m) \in Range(listed')
  <2>1. \A i \in 1 .. N : entries[h + i] \in Range(listed')
    BY <1>3, <1>4
  <2> QED BY <1>1, <1>4, <2>1
<1>6. marker = NoMarker \/ marker \in Range(listed')
  BY <1>4 DEF ListingInv
<1>7. /\ dir' \in fileMap' /\ ~IsStream(dir') /\ stayed' \subseteq ChildrenOf(dir)'
      /\ \A m \in stayed' : Part(m) \in Range(listed')
      /\ marker' = NoMarker \/ marker' \in Range(listed')
  BY <1>5, <1>6 DEF ListingInv, ChildrenOf
<1> QED BY <1>4, <1>7 DEF ListingInv

\* A call that fills the buffer leaves the rest for the next one.
LEMMA ReadGoesOn ==
  ASSUME OnlyAscii, TreeInv, ListingInv, NEW entries, NEW h, NEW N, NEW t, IsRead(entries, h, N, t),
         phase = "listing", phase' = "listing", NEW count \in 1 .. h + N,
         entries[count] # DotDot, marker' = entries[count],
         listed' = listed \o SubSeq(entries, 1, count),
         UNCHANGED <<fileMap, dir, stayed>>
  PROVE  ListingInv'
<1>1. /\ h \in Nat /\ N \in Nat /\ entries \in Seq(Entries) /\ Len(entries) = h + N
      /\ \A i \in 1 .. h : entries[i] = DotDot \/ (entries[i] = Dot /\ i = 1 /\ dir # Root /\ listed = <<>>)
      /\ \A i \in 1 .. N : t[i] \in ChildrenOf(dir) /\ entries[h + i] = Part(t[i])
      /\ \A i, j \in 1 .. N : i < j => Less(t[i], t[j])
      /\ \A m \in Names : IsChildOf(m, dir) /\ Part(m) \in Range(listed) => \A i \in 1 .. N : Less(m, t[i])
      /\ \A m \in stayed : Part(m) \in Range(listed) \/ \E i \in 1 .. N : m = t[i]
  BY DEF IsRead
<1>2. /\ listed' \in Seq(Entries) /\ IsInjective(listed')
      /\ Range(listed') = Range(listed) \cup {entries[i] : i \in 1 .. count}
  <2>1. count \in 0 .. h + N
    BY <1>1
  <2> QED BY <2>1, ReadIsAppended
<1>3. marker' \in Range(listed')
  <2>1. count \in 1 .. count
    BY <1>1
  <2> QED BY <1>2, <2>1
<1>4. dir \in Names /\ \A i \in 1 .. N : t[i] \in Names /\ IsChildOf(t[i], dir)
  BY <1>1 DEF TreeInv, ListingInv, ChildrenOf
<1>5. \/ marker' = Dot /\ listed' = <<Dot>> /\ dir # Root
      \/ \E n \in Names : ListedUpTo(n)'
  <2>1. CASE count \in 1 .. h
    <3>1. entries[1] = Dot /\ count = 1 /\ dir # Root /\ listed = <<>>
      BY <1>1, <2>1
    <3>2. SubSeq(entries, 1, 1) = <<Dot>>
      <4>1. \A i \in 1 .. 1 : i = 1 /\ 1 + i - 1 = 1 /\ i \in 1 .. 1 - 1 + 1
        OBVIOUS
      <4>2. \A i \in 1 .. 1 : entries[i] \in Entries
        BY <3>1, <4>1 DEF Entries
      <4>3. PICK u : u = SubSeq(entries, 1, 1)
        OBVIOUS
      <4>4. /\ u \in Seq(Entries) /\ Len(u) = IF 1 <= 1 THEN 1 - 1 + 1 ELSE 0
            /\ \A i \in 1 .. 1 - 1 + 1 : u[i] = entries[1 + i - 1]
        <5>1. 1 \in Int
          OBVIOUS
        <5> QED BY <4>2, <4>3, <5>1, SubSeqProperties
      <4>5. Len(u) = 1 /\ \A i \in 1 .. 1 : u[i] = Dot
        BY <3>1, <4>1, <4>4
      <4>6. <<Dot>> \in Seq(Entries) /\ Len(<<Dot>>) = 1 /\ \A i \in 1 .. 1 : <<Dot>>[i] = Dot
        BY <4>1 DEF Entries
      <4> QED BY <4>3, <4>4, <4>5, <4>6, SeqEqual
    <3>3. listed' = <<>> \o <<Dot>>
      BY <3>1, <3>2
    <3>4. <<Dot>> \in Seq(Entries)
      BY DEF Entries
    <3>5. listed' = <<Dot>>
      BY <3>3, <3>4, ConcatEmptySeq
    <3> QED BY <3>1, <3>5
  <2>2. CASE count \notin 1 .. h
    <3>1. PICK j \in 1 .. N : count = h + j
      <4>1. count - h \in 1 .. N /\ count = h + (count - h)
        BY <1>1, <2>2
      <4> QED BY <4>1
    <3>2. PICK n \in Names : n = t[j] /\ IsChildOf(n, dir) /\ Part(n) = entries[count]
      BY <1>1, <1>4, <3>1
    <3>3. Part(n) \in Components /\ Part(n) \notin {Dot, DotDot}
      BY <1>4, <3>2, ChildEntry
    <3>4. ASSUME NEW m \in Names, IsChildOf(m, dir), Part(m) \in Range(listed') PROVE ~Less(n, m)
      <4>1. Part(m) \notin {Dot, DotDot}
        BY <1>4, <3>4, ChildEntry
      <4>2. CASE Part(m) \in Range(listed)
        <5>1. Less(m, n)
          BY <1>1, <3>2, <3>4, <4>2
        <5> QED BY <5>1, LessIsStrictOrder
      <4>3. CASE \E i \in 1 .. count : Part(m) = entries[i]
        <5>1. PICK i \in 1 .. count : Part(m) = entries[i]
          BY <4>3
        <5>2. i \notin 1 .. h
          BY <1>1, <4>1, <5>1
        <5>3. PICK l \in 1 .. N : i = h + l /\ l <= j
          <6>1. i - h \in 1 .. N /\ i = h + (i - h) /\ i - h <= j
            BY <1>1, <3>1, <5>2
          <6> QED BY <6>1
        <5>4. Part(m) = Part(t[l]) /\ t[l] \in Names /\ IsChildOf(t[l], dir)
          BY <1>1, <1>4, <5>1, <5>3
        <5>5. m = t[l]
          BY <1>4, <3>4, <5>4, ChildEntry
        <5>6. CASE l = j
          BY <3>2, <5>5, <5>6, LessIsStrictOrder
        <5>7. CASE l # j
          <6>1. l < j
            BY <5>3, <5>7
          <6>2. Less(m, n)
            BY <1>1, <3>2, <5>5, <6>1
          <6> QED BY <6>2, LessIsStrictOrder
        <5> QED BY <5>6, <5>7
      <4> QED BY <1>2, <3>4, <4>2, <4>3
    <3>5. ASSUME NEW m \in stayed PROVE Less(n, m) \/ Part(m) \in Range(listed')
      <4>1. CASE Part(m) \in Range(listed)
        BY <1>2, <4>1
      <4>2. CASE \E i \in 1 .. N : m = t[i]
        <5>1. PICK i \in 1 .. N : m = t[i]
          BY <4>2
        <5>2. CASE i <= j
          <6>1. h + i \in 1 .. count
            BY <1>1, <3>1, <5>2
          <6> QED BY <1>1, <1>2, <5>1, <6>1
        <5>3. CASE i > j
          BY <1>1, <3>2, <5>1, <5>3
        <5> QED BY <5>2, <5>3
      <4> QED BY <1>1, <4>1, <4>2
    <3>6. ListedUpTo(n)'
      BY <1>3, <3>2, <3>4, <3>5 DEF ListedUpTo
    <3> QED BY <3>6
  <2> QED BY <2>1, <2>2
<1>6. dir' \in fileMap' /\ ~IsStream(dir') /\ stayed' \subseteq ChildrenOf(dir)'
  BY DEF ListingInv, ChildrenOf
<1> QED BY <1>2, <1>3, <1>5, <1>6 DEF ListingInv

LEMMA ReadKeepsListing ==
  ASSUME OnlyAscii, TreeInv, ListingInv, ReadDirectory
  PROVE  ListingInv'
<1>1. PICK entries : entries = DotEntries(dir, marker)
                               \o EntriesOf(EnumerateDirChildren(dir, ChildMarker(dir, marker)))
  OBVIOUS
<1>2. /\ phase = "listing" /\ UNCHANGED <<fileMap, dir, stayed>>
      /\ \/ /\ phase' = "listed"
            /\ listed' = listed \o entries
            /\ UNCHANGED marker
         \/ \E count \in 1 .. Len(entries) :
              /\ entries[count] # DotDot
              /\ marker' = entries[count]
              /\ listed' = listed \o SubSeq(entries, 1, count)
              /\ UNCHANGED phase
  BY <1>1, Zenon DEF ReadDirectory, FillBuffer, MayFillUpWith
<1>3. PICK h, N, t : IsRead(entries, h, N, t)
  BY <1>1, <1>2, WhatIsRead
<1>4. CASE phase' = "listed" /\ listed' = listed \o entries /\ UNCHANGED marker
  BY <1>2, <1>3, <1>4, ReadEnds
<1>5. ASSUME NEW count \in 1 .. Len(entries), entries[count] # DotDot, marker' = entries[count],
             listed' = listed \o SubSeq(entries, 1, count), UNCHANGED phase
      PROVE  ListingInv'
  <2>1. count \in 1 .. h + N
    BY <1>3 DEF IsRead
  <2> QED BY <1>2, <1>3, <1>5, <2>1, ReadGoesOn
<1> QED BY <1>2, <1>4, <1>5

\* While a directory is listed the entries listed and the marker mean the same,
\* whatever comes and goes beside them.
LEMMA ListedUpToStays ==
  ASSUME UNCHANGED <<dir, marker, listed>>, stayed' \subseteq stayed, NEW n, ListedUpTo(n)
  PROVE  ListedUpTo(n)'
BY DEF ListedUpTo

LEMMA CreateKeepsListing ==
  ASSUME ListingInv, NEW name \in Names, Create(name)
  PROVE  ListingInv'
<1>1. fileMap' = fileMap \cup {name} /\ UNCHANGED <<phase, dir, marker, listed, stayed>>
  BY DEF Create, listing
<1>2. dir' \in fileMap' /\ ~IsStream(dir') /\ stayed' \subseteq ChildrenOf(dir)'
  BY <1>1 DEF ListingInv, ChildrenOf
<1>3. \A n \in Names : ListedUpTo(n) => ListedUpTo(n)'
  BY <1>1, ListedUpToStays
<1> QED BY <1>1, <1>2, <1>3 DEF ListingInv

LEMMA DeleteKeepsListing ==
  ASSUME OnlyAscii, TreeInv, ListingInv, NEW name \in Names, Delete(name)
  PROVE  ListingInv'
<1>1. PICK removed : removed = {name} \cup EnumerateNamedStreams(name)
  OBVIOUS
<1>2. /\ name # Root /\ (phase # "idle" => name # dir)
      /\ fileMap' = fileMap \ removed /\ stayed' = stayed \ removed
      /\ UNCHANGED <<phase, dir, marker, listed>>
  BY <1>1 DEF Delete
<1>3. removed = {name} \cup {n \in fileMap : IsStreamOf(n, name)}
  BY <1>1, StreamsAreFound DEF TreeInv
<1>4. dir \notin removed
  <2>1. name # dir
    BY <1>2 DEF ListingInv
  <2> QED BY <1>3, <2>1 DEF ListingInv, IsStreamOf
<1>5. dir' \in fileMap' /\ ~IsStream(dir') /\ stayed' \subseteq ChildrenOf(dir)'
  BY <1>2, <1>4 DEF ListingInv, ChildrenOf
<1>6. \A n \in Names : ListedUpTo(n) => ListedUpTo(n)'
  BY <1>2, ListedUpToStays
<1> QED BY <1>2, <1>5, <1>6 DEF ListingInv

LEMMA ListingInit == Init => ListingInv
<1> SUFFICES ASSUME Init PROVE ListingInv
  OBVIOUS
<1>1. /\ fileMap = {Root} /\ phase = "idle" /\ dir = Root /\ marker = NoMarker
      /\ listed = <<>> /\ stayed = {}
  BY DEF Init
<1>2. <<>> \in Seq(Entries) /\ DOMAIN <<>> = {}
  BY EmptySeq
<1> QED BY <1>1, <1>2, RootIs DEF ListingInv, IsInjective

LEMMA ListingStep ==
  ASSUME OnlyAscii, TreeInv, ListingInv, [Next]_vars
  PROVE  ListingInv'
<1>1. ASSUME NEW name \in Names, Create(name) PROVE ListingInv'
  BY <1>1, CreateKeepsListing
<1>2. ASSUME NEW name \in Names, Delete(name) PROVE ListingInv'
  BY <1>2, DeleteKeepsListing
<1>3. ASSUME NEW name \in Names, BeginListing(name) PROVE ListingInv'
  <2>1. /\ phase = "idle" /\ name \in fileMap /\ ~IsStream(name)
        /\ phase' = "listing" /\ dir' = name /\ stayed' = ChildrenOf(name)
        /\ UNCHANGED <<fileMap, marker, listed>>
    BY <1>3 DEF BeginListing
  <2>2. marker = NoMarker /\ listed = <<>>
    BY <2>1 DEF ListingInv
  <2>3. stayed' \subseteq ChildrenOf(dir)'
    BY <2>1 DEF ChildrenOf
  <2> QED BY <2>1, <2>2, <2>3 DEF ListingInv
<1>4. CASE ReadDirectory
  BY <1>4, ReadKeepsListing
<1>5. CASE EndListing
  <2>1. /\ phase' = "idle" /\ dir' = Root /\ marker' = NoMarker /\ listed' = <<>> /\ stayed' = {}
        /\ UNCHANGED fileMap
    BY <1>5 DEF EndListing
  <2>2. <<>> \in Seq(Entries) /\ DOMAIN <<>> = {}
    BY EmptySeq
  <2> QED BY <2>1, <2>2, RootIs DEF ListingInv, TreeInv, IsInjective
<1>6. CASE UNCHANGED vars
  <2>1. UNCHANGED <<fileMap, phase, dir, marker, listed, stayed>>
    BY <1>6 DEF vars, listing
  <2>2. stayed' \subseteq ChildrenOf(dir)'
    BY <2>1 DEF ListingInv, ChildrenOf
  <2>3. \A n \in Names : ListedUpTo(n) => ListedUpTo(n)'
    BY <2>1, ListedUpToStays
  <2> QED BY <2>1, <2>2, <2>3 DEF ListingInv
<1> QED BY <1>1, <1>2, <1>3, <1>4, <1>5, <1>6 DEF Next

LEMMA ListingAlways == ASSUME OnlyAscii PROVE Spec => []ListingInv
<1>1. TreeInv /\ ListingInv /\ [Next]_vars => ListingInv'
  BY ListingStep
<1> QED BY <1>1, TreeAlways, ListingInit, PTL DEF Spec

\* Every variable keeps its type, the marker being one of the entries listed.
THEOREM TypesAreKept == ASSUME OnlyAscii PROVE Spec => []TypeOK
<1>1. TreeInv /\ ListingInv => TypeOK
  <2> SUFFICES ASSUME TreeInv, ListingInv PROVE TypeOK
    OBVIOUS
  <2>1. \A k \in DOMAIN listed : listed[k] \in Components \cup {Dot, DotDot}
    <3>1. listed \in Seq(Entries)
      BY DEF ListingInv
    <3> QED BY <3>1, ElementOfSeq, LenProperties DEF Entries
  <2>2. stayed \subseteq fileMap
    BY DEF ListingInv, ChildrenOf
  <2> QED BY <2>1, <2>2 DEF TreeInv, ListingInv, TypeOK
<1> QED BY <1>1, TreeAlways, ListingAlways, PTL

\* However many calls a listing takes and whatever is created or deleted
\* between them, the entry of the marker included, no entry comes twice, and
\* when it ends it has shown what was there all the while.
THEOREM ListingMissesNothing == ASSUME OnlyAscii PROVE Spec => []ListingIsFaithful
<1>1. TreeInv /\ ListingInv => ListingIsFaithful
  <2> SUFFICES ASSUME TreeInv, ListingInv PROVE ListingIsFaithful
    OBVIOUS
  <2>1. ASSUME phase = "listed", NEW n \in stayed PROVE Suffix(Spelling[n]) \in Range(listed)
    <3>1. n \in Names /\ IsChildOf(n, dir)
      BY DEF TreeInv, ListingInv, ChildrenOf
    <3>2. Suffix(Spelling[n]) = Part(n)
      BY <3>1, SpellingIs, SuffixIs DEF IsChildOf
    <3> QED BY <2>1, <3>2 DEF ListingInv
  <2> QED BY <2>1 DEF ListingInv, ListingIsFaithful
<1> QED BY <1>1, TreeAlways, ListingAlways, PTL
=============================================================================
