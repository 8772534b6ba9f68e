------------------------------- MODULE MCFileIO -------------------------------
(***************************************************************************)
(* Small instances of FileIO for TLC.                                      *)
(***************************************************************************)
EXTENDS FileIO, TLC

\* Files are interchangeable, and so are the values written.
Symmetry == Permutations(Files) \cup Permutations(Values)

HoldsData(f) ==
  \/ call[f].op = "Write"
  \/ \E k \in PresentSectors(f) : Range(sectors[f][k]) \cap Values # {}

\* Bound: what a file may have, or ask for, beside another one.
SharedSize == 3

IsLarge(f) == allocationSize[f] > SharedSize \/ call[f].newSize > SharedSize

\* Bound: beside a file that is written to, or large, another one does nothing
\* but keep one sector allocated, or is not there.  It shares nothing with the
\* file's data but the room that is left, and for that a Write is a
\* SetFileSize, which runs beside anything.  A constraint of the run.
WritersAreAlone ==
  \A f \in Files : HoldsData(f) \/ IsLarge(f) =>
    \A g \in Files \ {f} :
      pc[g] = "idle" /\ (g \in exists => fileSize[g] = 0 /\ allocationSize[g] = FULL_SECTOR_SIZE
                                          /\ Len(sectors[g]) = 1)

=============================================================================
