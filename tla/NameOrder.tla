------------------------------ MODULE NameOrder ------------------------------
(***************************************************************************)
(* The order of the file map: FileNameCompare, FileNameHasPrefix and the   *)
(* helpers they use (comparisons.cpp), and Utils::PathSuffix (utils.cpp).  *)
(* A file name is the sequence of its character codes.                     *)
(***************************************************************************)
EXTENDS Integers, Sequences, FiniteSetsExt

CONSTANTS
  CaseInsensitive,   \* -i
  Weight             \* what CompareStringW sorts a character by

Backslash == 92
Colon == 58

Separator(c) == c \in {Backslash, Colon}

-----------------------------------------------------------------------------
(* One component against another, as far as the shorter one goes. *)

\* Bit 0x100 of the unsigned difference of two characters.
SignBit(c, d) == ((c - d) % 512) \div 256

\* UpperChar with 'a' - 1 in the place of 'a'.
UpperCharOneEarly(c) ==
  IF SignBit(c, 96) # SignBit(c, 123) /\ (c \div 32) % 2 = 1 THEN c - 32 ELSE c

\* c & ~0x20 if the sign bits for 'a' and for 'z' + 1 differ.
UpperChar(c) ==
  IF SignBit(c, 97) # SignBit(c, 123) /\ (c \div 32) % 2 = 1 THEN c - 32 ELSE c

UpperCase(name) == IF CaseInsensitive THEN [k \in DOMAIN name |-> UpperChar(name[k])] ELSE name

\* wcsncmp
Lexicographic(s, t, n) ==
  LET differ == {k \in 1 .. n : s[k] # t[k]}
  IN  IF differ = {} THEN 0 ELSE s[Min(differ)] - t[Min(differ)]

\* CompareStringW with NORM_IGNORECASE, less CSTR_EQUAL (external).
CompareStringW(s, t, n) ==
  Lexicographic([k \in 1 .. n |-> Weight[s[k]]], [k \in 1 .. n |-> Weight[t[k]]], n)

\* The fast loop, up to the first character that is not ASCII.
EfficientWcsnicmp(s, t, n) ==
  LET foreign == {k \in 1 .. n : s[k] > 127 \/ t[k] > 127}
      differ == {k \in 1 .. n : UpperChar(s[k]) # UpperChar(t[k])}
      stop == IF foreign \cup differ = {} THEN 0 ELSE Min(foreign \cup differ)
  IN  CASE stop = 0         -> 0
        [] stop \in foreign -> CompareStringW(s, t, n)
        [] OTHER            -> UpperChar(s[stop]) - UpperChar(t[stop])

PartCompare(s, t) ==
  LET n == Min({Len(s), Len(t)})
      res == IF CaseInsensitive THEN EfficientWcsnicmp(s, t, n)
             ELSE Lexicographic(s, t, n)
  IN  IF res # 0 THEN res ELSE Len(s) - Len(t)

-----------------------------------------------------------------------------
(* Whole names, component by component. *)

\* The first position from p on that Test holds at, or the end.
Seek(a, p, Test(_)) == Min({k \in p .. Len(a) : Test(a[k])} \cup {Len(a) + 1})

PartBegin(a, p) == Seek(a, p, LAMBDA c : ~Separator(c))

PartEnd(a, p) == Seek(a, p, Separator)

\* A colon sorts before a backslash, and no separator before both.
SeparatorRank(a, p, q) ==
  IF p = q THEN 0 ELSE IF a[q - 1] = Colon THEN 1 ELSE 2

FileNameCompare(a, b) ==
  LET compare[p \in 1 .. Len(a) + 1] ==
        [q \in 1 .. Len(b) + 1 |->
          IF p > Len(a) \/ q > Len(b)
          THEN (IF q > Len(b) THEN 1 ELSE 0) - (IF p > Len(a) THEN 1 ELSE 0)
          ELSE LET partp == PartBegin(a, p)
                   partq == PartBegin(b, q)
                   endp == PartEnd(a, partp)
                   endq == PartEnd(b, partq)
                   rank == SeparatorRank(a, p, partp) - SeparatorRank(b, q, partq)
                   part == PartCompare(SubSeq(a, partp, endp - 1), SubSeq(b, partq, endq - 1))
               IN  IF rank # 0 THEN rank ELSE IF part # 0 THEN part ELSE compare[endp][endq]]
  IN  compare[1][1]

PrefixWithoutBoundary(a, b) ==
  Len(a) >= Len(b) /\ FileNameCompare(SubSeq(a, 1, Len(b)), b) = 0

FileNameHasPrefix(a, b) ==
  /\ Len(a) >= Len(b)
  /\ FileNameCompare(SubSeq(a, 1, Len(b)), b) = 0
  /\ Len(a) = Len(b) \/ b = <<Backslash>> \/ Separator(a[Len(b) + 1])

LastBackslash(path) == Max({k \in 1 .. Len(path) : path[k] = Backslash} \cup {0})

RemainPrefix(path) ==
  IF LastBackslash(path) = 0 THEN path
  ELSE IF LastBackslash(path) = 1 THEN <<Backslash>>
  ELSE SubSeq(path, 1, LastBackslash(path) - 1)

SuffixWithBackslash(path) ==
  IF LastBackslash(path) = 0 THEN <<>> ELSE SubSeq(path, LastBackslash(path), Len(path))

Suffix(path) ==
  IF LastBackslash(path) = 0 THEN <<>> ELSE SubSeq(path, LastBackslash(path) + 1, Len(path))

=============================================================================
