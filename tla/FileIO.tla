------------------------------- MODULE FileIO -------------------------------
(***************************************************************************)
(* The size and the data of files (io.cpp, nodes-compat.cpp, and the size  *)
(* changes of fileinfo.cpp, filecreate.cpp and other.cpp) and the limit on *)
(* the total size (totalsize.cpp).                                         *)
(*                                                                         *)
(* The kernel serialises the calls on one file, so a file has at most one  *)
(* call that changes it under way and no Read or Write beside it; calls on *)
(* different files interleave between the check of the limit, the changes  *)
(* ReAllocate makes to the shared counter and those it makes to the vector *)
(* of the file.  SectorManager takes ReAllocate apart further.  A call     *)
(* that fails before it changes anything is a stuttering step, and so is   *)
(* an Overwrite whose EAs fail, as far as sizes go; the kernel completes a *)
(* Write of nothing.                                                       *)
(***************************************************************************)
EXTENDS SectorArithmetic, Sequences, FiniteSets, Functions

CONSTANTS
  Files,
  Values,           \* what a Write may store in its bytes
  Uninitialised,    \* what HeapAlloc leaves in them
  NullSector,       \* a null pointer in the vector of sectors
  HeapSectors,      \* how many sectors the heap can hold
  PointerSize,      \* sizeof(Sector*)
  NodeSize,         \* what the limit counts for a node: 256 characters and sizeof(FileNode)
  maxFsSize,        \* MemFs::maxFsSize, the limit given with -s (not 0)
  UlongModulus,     \* 2^32: a ULONG holds what the nodes count for
  MaxFileSize,      \* bound on the sizes asked for
  ThrowBound        \* bound: resize may throw bad_alloc while allocatedSectors is at
                    \* most this (each throw leaves the counter higher); 0: never

ASSUME SizesAssumption ==
  /\ PointerSize \in Nat \ {0} /\ NodeSize \in Nat /\ maxFsSize \in Nat \ {0}
  /\ UlongModulus \in Nat \ {0} /\ MaxFileSize \in Nat /\ HeapSectors \in Nat
  /\ ThrowBound \in Nat
  /\ IsFiniteSet(Files)

VARIABLES
  exists,                      \* the files there are
  sectors,                     \* SectorNode::Sectors, each with what it holds
  fileSize, allocationSize,    \* FSP_FSCTL_FILE_INFO of the node
  allocatedSectors,            \* SectorManager::allocatedSectors
  call,                        \* the call under way that needs an allocation
  pc,                          \* "idle", "check", "reallocate", "grow" or "subtract"
  owed,                        \* sectorDifference: what the counter has of the file beyond
                               \* its vector, reserved or not yet subtracted
  written,                     \* history: what Writes stored below the file size
  lost                         \* history: what calls reserved whose resize threw

sizes == <<fileSize, allocationSize>>
counters == <<allocatedSectors, owed, lost>>
vars == <<exists, sectors, sizes, counters, call, pc, written>>

-----------------------------------------------------------------------------
(* totalsize.cpp, with a limit given. *)

GetUsedTotalSize ==
  ((Cardinality(exists) * NodeSize) % UlongModulus)
  + allocatedSectors * (FULL_SECTOR_SIZE + PointerSize)

CalculateMaxTotalSize == maxFsSize

CalculateAvailableTotalSize ==
  IF GetUsedTotalSize >= CalculateMaxTotalSize
  THEN 0
  ELSE CalculateMaxTotalSize - GetUsedTotalSize

ApproximateSize(f) == Len(sectors[f]) * (FULL_SECTOR_SIZE + PointerSize)

\* newSize - oldSize + used, modulo 2^64 in the code (see QuotaNeverWraps).
SizeAfterIgnoringOld(f, newSize) == newSize + GetUsedTotalSize

SizeAfter(f, newSize) == newSize - ApproximateSize(f) + GetUsedTotalSize

-----------------------------------------------------------------------------
(* ReAllocate and ReadWrite, as sectors.cpp defines them. *)

FreshSector == [b \in 0 .. FULL_SECTOR_SIZE - 1 |-> Uninitialised]

\* The first n entries; new ones are fresh as far as the heap has room.
Resized(vector, n, room) ==
  [k \in 1 .. n |-> IF k <= Len(vector) THEN vector[k]
                    ELSE IF k <= Len(vector) + room THEN FreshSector ELSE NullSector]

PresentSectors(f) == {k \in DOMAIN sectors[f] : sectors[f][k] # NullSector}

HeapRoom == HeapSectors - Cardinality(UNION {{f} \X PresentSectors(f) : f \in Files})

\* The bytes of the buffer copied when the loop has done sector i.
BytesCopied(offset, size, last) ==
  LET begin == OffsetSectorBegin(offset)
      byteAmount[i \in begin .. last] ==
        IF i = begin
        THEN MinOf(size, FULL_SECTOR_SIZE - OffsetOffset(offset))
        ELSE byteAmount[i - 1] + MinOf(FULL_SECTOR_SIZE, size - byteAmount[i - 1])
  IN  byteAmount

\* Where byte k of the buffer lives: a place for each byte some memcpy moves.
LosesTheOffset(offset, size, sectorCount) ==
  LET begin == OffsetSectorBegin(offset)
      last == SectorEnd(offset, size, sectorCount)
      copied == BytesCopied(offset, size, last)
  IN  [k \in 0 .. copied[last] - 1 |->
         LET i == CHOOSE s \in begin .. last :
                    k < copied[s] /\ (s = begin \/ k >= copied[s - 1])
         IN  IF i = begin THEN <<i, k>> ELSE <<i, k - copied[i - 1]>>]

Transfer(offset, size, sectorCount) ==
  LET begin == OffsetSectorBegin(offset)
      last == SectorEnd(offset, size, sectorCount)
      copied == BytesCopied(offset, size, last)
  IN  [k \in 0 .. copied[last] - 1 |->
         LET i == CHOOSE s \in begin .. last :
                    k < copied[s] /\ (s = begin \/ k >= copied[s - 1])
         IN  IF i = begin THEN <<i, OffsetOffset(offset) + k>> ELSE <<i, k - copied[i - 1]>>]

\* The process does not survive a copy from or to a null sector.
SectorsThere(vector, offset, size) ==
  \A i \in OffsetSectorBegin(offset) .. SectorEnd(offset, size, Len(vector)) :
    vector[i + 1] # NullSector

\* What a Write of value leaves in the sectors.
AfterWrite(vector, offset, size, value) ==
  LET hit == Range(Transfer(offset, size, Len(vector)))
  IN  [k \in DOMAIN vector |->
         IF vector[k] = NullSector THEN NullSector
         ELSE [b \in DOMAIN vector[k] |-> IF <<k - 1, b>> \in hit THEN value ELSE vector[k][b]]]

\* What a Read puts at each place of its buffer.
ReadBuffer(f, offset, size) ==
  LET place == Transfer(offset, size, Len(sectors[f]))
  IN  [k \in DOMAIN place |-> sectors[f][place[k][1] + 1][place[k][2]]]

-----------------------------------------------------------------------------
(* A call is a record: its operation, the size it sets, and what it writes. *)

Sizes == 0 .. MaxFileSize

Call(op, newSize, offset, size, value) ==
  [op |-> op, newSize |-> newSize, offset |-> offset, size |-> size, value |-> value]

NoCall == Call("none", 0, 0, 0, Uninitialised)

\* The size is an allocation size, as setAllocationSize of
\* CompatSetFileSizeInternal says; the file size follows it down.
SetsAllocation(c) ==
  c.op \in {"SetAllocationSize", "Overwrite", "Cleanup", "Create", "CreateUndone", "Delete"}

IgnoresAllocation(f, c) ==
  IF SetsAllocation(c)
  THEN allocationSize[f] # c.newSize
  ELSE fileSize[f] < c.newSize /\ allocationSize[f] = 0 /\ c.newSize > 0

NeedsAllocation(f, c) ==
  IF SetsAllocation(c)
  THEN allocationSize[f] # c.newSize
  ELSE fileSize[f] # c.newSize /\ allocationSize[f] < c.newSize

NewAllocation(c) == IF SetsAllocation(c) THEN c.newSize ELSE AlignUp(c.newSize)

\* FileSize when the call returns success.
KeepsFileSize(f, c) ==
  IF c.op = "Overwrite" THEN 0
  ELSE IF SetsAllocation(c) THEN fileSize[f] ELSE c.newSize

NewFileSize(f, c) ==
  IF c.op = "Overwrite" THEN 0
  ELSE IF SetsAllocation(c) THEN MinOf(fileSize[f], c.newSize) ELSE c.newSize

Below(function, n) == Restrict(function, {o \in DOMAIN function : o < n})

\* The rest of the call once the file has its allocation.
Complete(f, c, vector) ==
  LET range == c.offset .. c.offset + c.size - 1 IN
  /\ fileSize' = [fileSize EXCEPT ![f] = NewFileSize(f, c)]
  /\ IF c.op = "Write"
     THEN /\ SectorsThere(vector, c.offset, c.size)
          /\ sectors' = [sectors EXCEPT ![f] = AfterWrite(vector, c.offset, c.size, c.value)]
          /\ written' = [written EXCEPT ![f] =
                           [o \in DOMAIN @ \cup range |-> IF o \in range THEN c.value ELSE @[o]]]
     ELSE /\ sectors' = [sectors EXCEPT ![f] = vector]
          /\ written' = [written EXCEPT ![f] = Below(@, NewFileSize(f, c))]

Begin(f, c) ==
  /\ f \in exists /\ pc[f] = "idle"
  /\ IF NeedsAllocation(f, c)
     THEN /\ call' = [call EXCEPT ![f] = c]
          /\ pc' = [pc EXCEPT ![f] = "check"]
          /\ UNCHANGED <<sectors, fileSize, written>>
     ELSE Complete(f, c, sectors[f]) /\ UNCHANGED <<call, pc>>
  /\ UNCHANGED <<exists, allocationSize, counters>>

\* SetFileSize of fileinfo.cpp, either way.
SetFileSize(f) ==
  \E newSize \in Sizes :
    \/ Begin(f, Call("SetFileSize", newSize, 0, 0, Uninitialised))
    \/ Begin(f, Call("SetAllocationSize", newSize, 0, 0, Uninitialised))

\* Write: past the end it sets the file size first, constrained it is cut off.
\* With writeToEndOfFile the offset is the file size, one of those there are.
Write(f) ==
  \E offset, size \in Sizes, value \in Values, constrainedIo \in BOOLEAN :
    LET endOffset == IF constrainedIo THEN MinOf(offset + size, fileSize[f]) ELSE offset + size
        newSize == IF endOffset > fileSize[f] THEN endOffset ELSE fileSize[f]
    IN  /\ size > 0 /\ endOffset > offset /\ endOffset <= MaxFileSize
        /\ Begin(f, Call("Write", newSize, offset, endOffset - offset, value))

\* The operation guard runs Create and Overwrite one at a time (external).
MayRunExclusive == \A f \in Files : call[f].op \notin {"Create", "CreateUndone", "Overwrite"}

Overwrite(f) ==
  /\ MayRunExclusive
  /\ \E newSize \in Sizes : Begin(f, Call("Overwrite", newSize, 0, 0, Uninitialised))

\* Cleanup with FspCleanupSetAllocationSize.
CleanupSetAllocationSize(f) ==
  Begin(f, Call("Cleanup", AlignUp(fileSize[f]), 0, 0, Uninitialised))

EndCall(f) ==
  /\ call' = [call EXCEPT ![f] = NoCall]
  /\ pc' = [pc EXCEPT ![f] = "idle"]

\* The limit: STATUS_DISK_FULL, or on to ReAllocate.
CheckLimit(f) ==
  /\ pc[f] = "check"
  /\ IF SizeAfter(f, NewAllocation(call[f])) > CalculateMaxTotalSize
     THEN EndCall(f)
     ELSE pc' = [pc EXCEPT ![f] = "reallocate"] /\ UNCHANGED call
  /\ UNCHANGED <<exists, sectors, sizes, counters, written>>

\* Create: the check of the limit, then ReAllocate and InsertNode.
CreateCheck(f) ==
  /\ f \notin exists /\ pc[f] = "idle" /\ MayRunExclusive
  /\ \E size \in Sizes :
       /\ size <= CalculateAvailableTotalSize
       /\ call' = [call EXCEPT ![f] = Call("Create", size, 0, 0, Uninitialised)]
  /\ pc' = [pc EXCEPT ![f] = "reallocate"]
  /\ UNCHANGED <<exists, sectors, sizes, counters, written>>

\* The destructor of the SectorNode frees the sectors: ReAllocate to 0.
Destroy(f, op) ==
  /\ call' = [call EXCEPT ![f] = Call(op, 0, 0, 0, Uninitialised)]
  /\ pc' = [pc EXCEPT ![f] = "reallocate"]

\* The last Dereference of a node the map no longer has.
Delete(f) ==
  /\ f \in exists /\ pc[f] = "idle"
  /\ exists' = exists \ {f}
  /\ Destroy(f, "Delete")
  /\ UNCHANGED <<sectors, sizes, counters, written>>

-----------------------------------------------------------------------------
(* ReAllocate: the counter goes up before the vector and the memory are     *)
(* there, and down after they are gone.                                     *)

Wanted(f) == SectorsFor(NewAllocation(call[f]))

\* It returned true: the rest of the call.
Succeed(f, vector) ==
  /\ allocationSize' = [allocationSize EXCEPT ![f] = NewAllocation(call[f])]
  /\ Complete(f, call[f], vector)
  /\ exists' = IF call[f].op = "Create" THEN exists \cup {f} ELSE exists
  /\ EndCall(f)

\* The vector has the length wanted, or Create wants nothing.
KeepVector(f) ==
  /\ pc[f] = "reallocate" /\ Wanted(f) = Len(sectors[f])
  /\ Succeed(f, sectors[f])
  /\ UNCHANGED counters

ReservesNothing(f) ==
  /\ pc[f] = "reallocate" /\ Wanted(f) > Len(sectors[f])
  /\ owed' = [owed EXCEPT ![f] = Wanted(f) - Len(sectors[f])]
  /\ pc' = [pc EXCEPT ![f] = "grow"]
  /\ UNCHANGED <<exists, sectors, sizes, allocatedSectors, lost, call, written>>

Reserve(f) ==
  LET sectorDifference == Wanted(f) - Len(sectors[f]) IN
  /\ pc[f] = "reallocate" /\ Wanted(f) > Len(sectors[f])
  /\ allocatedSectors' = allocatedSectors + sectorDifference
  /\ owed' = [owed EXCEPT ![f] = sectorDifference]
  /\ pc' = [pc EXCEPT ![f] = "grow"]
  /\ UNCHANGED <<exists, sectors, sizes, lost, call, written>>

Grow(f) ==
  /\ pc[f] = "grow" /\ owed[f] <= HeapRoom
  /\ Succeed(f, Resized(sectors[f], Wanted(f), HeapRoom))
  /\ owed' = [owed EXCEPT ![f] = 0]
  /\ UNCHANGED <<allocatedSectors, lost>>

\* bad_alloc from resize: nobody gives the reservation back, for the test
\* that guards the roll-back is never true, and a node a Create destroys has
\* no vector to give it back with.
ResizeThrows(f) ==
  /\ pc[f] = "grow" /\ allocatedSectors <= ThrowBound
  /\ lost' = lost + owed[f]
  /\ owed' = [owed EXCEPT ![f] = 0]
  /\ EndCall(f)
  /\ UNCHANGED <<exists, sectors, sizes, allocatedSectors, written>>

\* HeapAlloc fails: the vector keeps its new length, with null pointers, and
\* the counter the reservation; the file keeps its sizes
\* (STATUS_INSUFFICIENT_RESOURCES), and the node of a Create is destroyed.
HeapAllocFails(f) ==
  /\ pc[f] = "grow" /\ owed[f] > HeapRoom
  /\ sectors' = [sectors EXCEPT ![f] = Resized(@, Wanted(f), HeapRoom)]
  /\ owed' = [owed EXCEPT ![f] = 0]
  /\ IF call[f].op = "Create" THEN Destroy(f, "CreateUndone") ELSE EndCall(f)
  /\ UNCHANGED <<exists, sizes, allocatedSectors, lost, written>>

Shrink(f) ==
  /\ pc[f] = "reallocate" /\ Wanted(f) < Len(sectors[f])
  /\ sectors' = [sectors EXCEPT ![f] = Resized(@, Wanted(f), HeapRoom)]
  /\ owed' = [owed EXCEPT ![f] = Len(sectors[f]) - Wanted(f)]
  /\ pc' = [pc EXCEPT ![f] = "subtract"]
  /\ UNCHANGED <<exists, sizes, allocatedSectors, lost, call, written>>

\* The difference is taken from the vector as it is by then.
SubtractsNothing(f) ==
  /\ pc[f] = "subtract"
  /\ owed' = [owed EXCEPT ![f] = 0]
  /\ Succeed(f, sectors[f])
  /\ UNCHANGED <<allocatedSectors, lost>>

Subtract(f) ==
  /\ pc[f] = "subtract"
  /\ allocatedSectors' = allocatedSectors - owed[f]
  /\ owed' = [owed EXCEPT ![f] = 0]
  /\ Succeed(f, sectors[f])
  /\ UNCHANGED lost

-----------------------------------------------------------------------------
Init ==
  /\ exists = {}
  /\ sectors = [f \in Files |-> <<>>]
  /\ fileSize = [f \in Files |-> 0]
  /\ allocationSize = [f \in Files |-> 0]
  /\ allocatedSectors = 0
  /\ call = [f \in Files |-> NoCall]
  /\ pc = [f \in Files |-> "idle"]
  /\ owed = [f \in Files |-> 0]
  /\ written = [f \in Files |-> <<>>]
  /\ lost = 0

ReAllocate(f) ==
  \/ KeepVector(f) \/ Reserve(f) \/ Grow(f) \/ ResizeThrows(f) \/ HeapAllocFails(f)
  \/ Shrink(f) \/ Subtract(f)

Next ==
  \E f \in Files :
    \/ CreateCheck(f) \/ Delete(f) \/ CheckLimit(f) \/ ReAllocate(f)
    \/ SetFileSize(f) \/ Write(f) \/ Overwrite(f) \/ CleanupSetAllocationSize(f)

Spec == Init /\ [][Next]_vars

-----------------------------------------------------------------------------
(***************************************************************************)
(* Properties.                                                             *)
(***************************************************************************)

\* Every variable has its type; the counter of sectors never goes below zero.
TypeOK ==
  /\ exists \subseteq Files
  /\ \A f \in Files :
       \A k \in DOMAIN sectors[f] :
         sectors[f][k] = NullSector
         \/ sectors[f][k] \in [0 .. FULL_SECTOR_SIZE - 1 -> Values \cup {Uninitialised}]
  /\ fileSize \in [Files -> Nat]
  /\ allocationSize \in [Files -> Nat]
  /\ allocatedSectors \in Nat /\ lost \in Nat
  /\ owed \in [Files -> Nat]
  /\ pc \in [Files -> {"idle", "check", "reallocate", "grow", "subtract"}]
  /\ \A f \in Files : DOMAIN written[f] \subseteq Nat

\* Between the cut of its vector and its new sizes a file is not read or
\* written: the kernel serialises the calls on it.
Usable(f) == pc[f] # "subtract"

\* A file's size never exceeds its allocation, nor its allocation the sectors
\* it has, wherever a call failed before: the range Read and Write take from
\* the file size is in the vector.
SizesNested ==
  \A f \in Files :
    /\ fileSize[f] <= allocationSize[f]
    /\ Usable(f) => allocationSize[f] <= Len(sectors[f]) * FULL_SECTOR_SIZE

\* Read returns what the last Write stored in each byte, whatever was
\* truncated, extended, reallocated or refused in between, and wherever the
\* range begins and ends within its sectors: no byte is lost, moved or left
\* out of the buffer.  Nothing is said of the bytes nobody wrote.
ReadsWhatWasWritten ==
  \A f \in {g \in exists : Usable(g) /\ DOMAIN written[g] # {}} :
  \A offset \in 0 .. fileSize[f] - 1 : \A size \in 1 .. fileSize[f] - offset :
    ~Rejected(offset, size, Len(sectors[f])) /\ SectorsThere(sectors[f], offset, size) =>
      LET buffer == ReadBuffer(f, offset, size)
      IN  /\ DOMAIN buffer = 0 .. size - 1
          /\ \A k \in DOMAIN buffer :
               offset + k \in DOMAIN written[f] => buffer[k] = written[f][offset + k]

\* No byte below the file size is out of reach of a Read or Write.
RangesBelowFileSizeAccepted ==
  \A f \in {g \in exists : Usable(g)} :
  \A offset \in 0 .. fileSize[f] - 1 : \A size \in 1 .. fileSize[f] - offset :
    ~Rejected(offset, size, Len(sectors[f]))

\* The check of the limit subtracts a file's old size from a sum it computes
\* in unsigned 64-bit arithmetic: the total in use, read at the same moment,
\* covers that size whatever calls on other files are doing, so the result
\* never wraps around to an enormous size.
QuotaNeverWraps == \A f \in Files : ApproximateSize(f) <= GetUsedTotalSize

\* The sectors some files account for: those of their vectors, and those a
\* call under way has reserved or freed without subtracting them.
Counted(files) == UNION {{f} \X (1 .. Len(sectors[f]) + owed[f]) : f \in files}

\* Every STATUS_DISK_FULL is accounted for: when a size change is refused, the
\* nodes, the sectors the other files account for, what calls whose resize
\* threw have left in the counter, and the sectors asked for are above the
\* limit together.  With nothing lost and no other call under way that is
\* what the files really have.
RefusedOnlyWhenFull ==
  [][\A f \in Files :
       pc[f] = "check" /\ pc'[f] = "idle" =>
         Cardinality(exists) * NodeSize
         + (Cardinality(Counted(Files \ {f})) + lost + Wanted(f)) * (FULL_SECTOR_SIZE + PointerSize)
         > CalculateMaxTotalSize]_vars

=============================================================================
