-------------------------- MODULE SectorArithmetic --------------------------
(***************************************************************************)
(* The byte/sector arithmetic of sectors.cpp: how a byte size becomes a    *)
(* number of sectors, and which sectors a byte range touches.              *)
(***************************************************************************)
EXTENDS Integers

CONSTANT FULL_SECTOR_SIZE      \* bytes in one Sector (globalincludes.h: 512 * 1)

ASSUME SectorSizeAssumption == FULL_SECTOR_SIZE \in Nat \ {0}

MinOf(a, b) == IF a < b THEN a ELSE b

\* AlignSize(size, alignUp)
AlignUp(size) ==
  IF size % FULL_SECTOR_SIZE = 0
  THEN size
  ELSE size + FULL_SECTOR_SIZE - (size % FULL_SECTOR_SIZE)

AlignDown(size) == size - (size % FULL_SECTOR_SIZE)

GetSectorAmount(alignedSize) == alignedSize \div FULL_SECTOR_SIZE

\* The sectors a vector must have to hold size bytes.
SectorsFor(size) == GetSectorAmount(AlignUp(size))

-----------------------------------------------------------------------------
(* What ReadWrite derives from its arguments and from the vector's length. *)

OffsetSectorBegin(offset) == GetSectorAmount(AlignDown(offset))

OffsetOffset(offset) == offset - AlignDown(offset)

\* The last sector visited: one more than the size alone asks for when the
\* range starts inside a sector and the vector has a further sector.
SectorEnd(offset, size, sectorCount) ==
  LET last == OffsetSectorBegin(offset) + SectorsFor(size) - 1
  IN  IF OffsetOffset(offset) > 0 /\ sectorCount > last + 1
      THEN last + 1
      ELSE last

\* The early "return false" of ReadWrite.
Rejected(offset, size, sectorCount) ==
  \/ OffsetSectorBegin(offset) >= sectorCount
  \/ SectorEnd(offset, size, sectorCount) > sectorCount
  \/ OffsetOffset(offset) > FULL_SECTOR_SIZE

=============================================================================
