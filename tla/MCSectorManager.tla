--------------------------- MODULE MCSectorManager ---------------------------
(***************************************************************************)
(* Small instances of SectorManager for TLC.                               *)
(***************************************************************************)
EXTENDS SectorManager, TLC

\* Blocks are interchangeable, and so are the nodes and the threads.
Symmetry ==
  Permutations(HeapSectors) \cup Permutations(SectorNodes) \cup Permutations(Threads)

=============================================================================
