----------------------------- MODULE MCDirectory -----------------------------
(***************************************************************************)
(* Small instances of Directory for TLC.                                   *)
(***************************************************************************)
EXTENDS Directory

\* "a", "a!", "@" and "`": a name that continues another with a character
\* below both separators, and two that differ in the bit of the case only.
\* "bbbbb" is as long as a name may be in the root, and "a!" is in "\a!".
AsciiNames == {<<97>>, <<97, 33>>, <<64>>, <<96>>, <<98, 98, 98, 98, 98>>}

\* "Z", "_" and "e" with an acute accent.
MixedNames == {<<90>>, <<95>>, <<233>>}

\* The stream "s".
StreamNames == {<<115>>}

\* No stream has the empty name.
Empty == <<>>

\* CompareStringW sorts symbols before letters, and letters by the alphabet.
CollationWeight == [c \in {33, 64, 90, 95, 96, 97, 98, 115, 233} |->
  CASE c \in {33, 64, 95, 96} -> 1
    [] c = 97  -> 11
    [] c = 98  -> 12
    [] c = 233 -> 15
    [] c = 115 -> 29
    [] c = 90  -> 36]

\* The theorems of DirectoryProofs are about names like these.
ASSUME Components = AsciiNames => OnlyAscii

=============================================================================
