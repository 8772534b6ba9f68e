---------------------------- MODULE SectorManager ----------------------------
(***************************************************************************)
(* SectorManager and SectorNode of sectors.cpp, called by many threads.    *)
(*                                                                         *)
(* A SectorNode holds a vector of pointers to sectors that live on one     *)
(* private heap.  ReAllocate changes the vector under the node's mutex     *)
(* held exclusively; ReadWrite walks it under the same mutex held shared;  *)
(* allocatedSectors is shared by all nodes and changed only by interlocked *)
(* additions.  Every action below is one access to shared state.           *)
(***************************************************************************)
EXTENDS SectorArithmetic, Sequences, FiniteSets

CONSTANTS
  Threads,          \* the dispatcher threads that call in
  SectorNodes,      \* the SectorNode objects, one per FileNode
  HeapSectors,      \* the blocks the heap can hand out; HeapAlloc fails when none is left
  nullptr,
  NoNode,
  MaxSectors,       \* bound on the sectors a caller asks for
  ThrowBound        \* bound: resize may throw bad_alloc while allocatedSectors is at
                    \* most this (each throw leaves the counter higher); 0: never

ASSUME ThreadsAssumption == IsFiniteSet(Threads)
ASSUME NodesAssumption   == IsFiniteSet(SectorNodes) /\ NoNode \notin SectorNodes
ASSUME HeapAssumption    == nullptr \notin HeapSectors
ASSUME BoundAssumption   == MaxSectors \in Nat /\ ThrowBound \in Nat

VARIABLES
  Sectors,            \* SectorNode::Sectors
  exclusive, shared,  \* SectorNode::SectorsMutex: the threads that hold it either way
  allocatedSectors,   \* SectorManager::allocatedSectors
  heap,               \* blocks handed out by HeapAlloc and not yet given to HeapFree
  pc,                 \* where each thread is
  node, wanted,       \* locals of ReAllocate: its node, the sectors wanted,
  vectorSize,         \* the size read under the lock,
  i,                  \* and the loop index (of ReadWrite's loop too)
  offset, size,       \* arguments and locals of ReadWrite
  sectorEnd,
  granted             \* history: sectors promised by the node's last successful ReAllocate

arguments == <<node, wanted, offset, size>>
locals    == <<vectorSize, i, sectorEnd>>
mutex     == <<exclusive, shared>>
vars == <<Sectors, mutex, allocatedSectors, heap, pc, arguments, locals, granted>>

-----------------------------------------------------------------------------
Pointers == HeapSectors \cup {nullptr}

Bytes == 0 .. MaxSectors * FULL_SECTOR_SIZE

\* std::vector::resize: new elements are value-initialised, that is, null.
Resized(vector, n) ==
  [k \in 1 .. n |-> IF k <= Len(vector) THEN vector[k] ELSE nullptr]

VectorSize(n) == Len(Sectors[n])

\* The sector a thread's loop is at.
CurrentSector(t) == Sectors[node[t]][i[t] + 1]

Goto(t, label) == pc' = [pc EXCEPT ![t] = label]

InReAllocate(t) ==
  pc[t] \in {"lock", "reserve", "resize", "alloc", "free", "shrink",
             "subtract", "return", "failed"}

InReadWrite(t) == pc[t] \in {"lockShared", "copy"}

\* The sectors the bytes of a ReadWrite lie in end here.
RangeEnd(t) == SectorsFor(offset[t] + size[t])

\* Entering and leaving a call.
Enter(t, n, wantedSectorCount, o, s) ==
  /\ node' = [node EXCEPT ![t] = n]
  /\ wanted' = [wanted EXCEPT ![t] = wantedSectorCount]
  /\ offset' = [offset EXCEPT ![t] = o]
  /\ size' = [size EXCEPT ![t] = s]
  /\ UNCHANGED locals

Return(t) ==
  /\ Goto(t, "idle")
  /\ node' = [node EXCEPT ![t] = NoNode]
  /\ wanted' = [wanted EXCEPT ![t] = 0]
  /\ offset' = [offset EXCEPT ![t] = 0]
  /\ size' = [size EXCEPT ![t] = 0]
  /\ vectorSize' = [vectorSize EXCEPT ![t] = 0]
  /\ i' = [i EXCEPT ![t] = 0]
  /\ sectorEnd' = [sectorEnd EXCEPT ![t] = 0]

\* std::unique_lock and std::shared_lock of the node's std::shared_mutex.
LocksOverReaders(n) == exclusive[n] = {}

MayLockExclusive(n) == exclusive[n] = {} /\ shared[n] = {}

LocksOverWriter(n) == TRUE

MayLockShared(n) == exclusive[n] = {}

UnlockExclusive(n) == exclusive' = [exclusive EXCEPT ![n] = {}] /\ UNCHANGED shared

-----------------------------------------------------------------------------
Init ==
  /\ Sectors = [n \in SectorNodes |-> <<>>]
  /\ exclusive = [n \in SectorNodes |-> {}]
  /\ shared = [n \in SectorNodes |-> {}]
  /\ allocatedSectors = 0
  /\ heap = {}
  /\ pc = [t \in Threads |-> "idle"]
  /\ node = [t \in Threads |-> NoNode]
  /\ wanted = [t \in Threads |-> 0]
  /\ vectorSize = [t \in Threads |-> 0]
  /\ i = [t \in Threads |-> 0]
  /\ offset = [t \in Threads |-> 0]
  /\ size = [t \in Threads |-> 0]
  /\ sectorEnd = [t \in Threads |-> 0]
  /\ granted = [n \in SectorNodes |-> 0]

(***************************************************************************)
(* ReAllocate(node, newSize); Free(node) and the destructor of a SectorNode *)
(* are ReAllocate(node, 0).  A caller shrinks a file only when no transfer *)
(* of the part it cuts off is outstanding.                                 *)
(***************************************************************************)
CallReAllocate(t, n, newSize) ==
  /\ pc[t] = "idle"
  /\ \A u \in Threads : InReadWrite(u) /\ node[u] = n => RangeEnd(u) <= SectorsFor(newSize)
  /\ Enter(t, n, SectorsFor(newSize), 0, 0)
  /\ Goto(t, "lock")
  /\ UNCHANGED <<Sectors, mutex, allocatedSectors, heap, granted>>

\* Where the loops of ReAllocate start: at the first sector to add or to free.
StartsOneEarly(n, wantedSectorCount) ==
  IF VectorSize(n) > wantedSectorCount /\ wantedSectorCount > 0
  THEN wantedSectorCount - 1
  ELSE MinOf(VectorSize(n), wantedSectorCount)

FirstChanged(n, wantedSectorCount) == MinOf(VectorSize(n), wantedSectorCount)

LockExclusive(t) ==
  LET n == node[t] IN
  /\ pc[t] = "lock"
  /\ MayLockExclusive(n)
  /\ exclusive' = [exclusive EXCEPT ![n] = {t}]
  /\ vectorSize' = [vectorSize EXCEPT ![t] = VectorSize(n)]
  /\ i' = [i EXCEPT ![t] = FirstChanged(n, wanted[t])]
  /\ Goto(t, IF VectorSize(n) < wanted[t] THEN "reserve"
             ELSE IF VectorSize(n) > wanted[t] THEN "free"
             ELSE "return")
  /\ UNCHANGED <<Sectors, shared, allocatedSectors, heap, arguments, sectorEnd, granted>>

ReservesNothing(t) ==
  /\ pc[t] = "reserve"
  /\ Goto(t, "resize")
  /\ UNCHANGED <<Sectors, mutex, allocatedSectors, heap, arguments, locals, granted>>

\* InterlockedExchangeAdd, before the memory is there.
Reserve(t) ==
  /\ pc[t] = "reserve"
  /\ allocatedSectors' = allocatedSectors + wanted[t] - vectorSize[t]
  /\ Goto(t, "resize")
  /\ UNCHANGED <<Sectors, mutex, heap, arguments, locals, granted>>

GrowVector(t) ==
  /\ pc[t] = "resize"
  /\ Sectors' = [Sectors EXCEPT ![node[t]] = Resized(@, wanted[t])]
  /\ Goto(t, "alloc")
  /\ UNCHANGED <<mutex, allocatedSectors, heap, arguments, locals, granted>>

\* bad_alloc from resize, which leaves the vector as it was.
GrowVectorThrows(t) ==
  /\ pc[t] = "resize"
  /\ allocatedSectors <= ThrowBound
  /\ Goto(t, "failed")
  /\ UNCHANGED <<Sectors, mutex, allocatedSectors, heap, arguments, locals, granted>>

AllocSector(t) ==
  /\ pc[t] = "alloc"
  /\ \E allocPtr \in HeapSectors \ heap :
       /\ heap' = heap \cup {allocPtr}
       /\ Sectors' = [Sectors EXCEPT ![node[t]] = [@ EXCEPT ![i[t] + 1] = allocPtr]]
  /\ i' = [i EXCEPT ![t] = i[t] + 1]
  /\ Goto(t, IF i[t] + 1 < wanted[t] THEN "alloc" ELSE "return")
  /\ UNCHANGED <<mutex, allocatedSectors, arguments, vectorSize, sectorEnd, granted>>

\* HeapAlloc returned null; the code throws bad_alloc itself and catches it.
AllocSectorFails(t) ==
  /\ pc[t] = "alloc"
  /\ heap = HeapSectors
  /\ Goto(t, "failed")
  /\ UNCHANGED <<Sectors, mutex, allocatedSectors, heap, arguments, locals, granted>>

MoreToFreeButOne(t) == i[t] + 2 < vectorSize[t]

MoreToFree(t) == i[t] + 1 < vectorSize[t]

\* HeapFree of one sector; the vector still holds the pointer.
FreeSector(t) ==
  /\ pc[t] = "free"
  /\ heap' = heap \ {CurrentSector(t)}
  /\ i' = [i EXCEPT ![t] = i[t] + 1]
  /\ Goto(t, IF MoreToFree(t) THEN "free" ELSE "shrink")
  /\ UNCHANGED <<Sectors, mutex, allocatedSectors, arguments, vectorSize, sectorEnd, granted>>

ShrinkVector(t) ==
  /\ pc[t] = "shrink"
  /\ Sectors' = [Sectors EXCEPT ![node[t]] = Resized(@, wanted[t])]
  /\ Goto(t, "subtract")
  /\ UNCHANGED <<mutex, allocatedSectors, heap, arguments, locals, granted>>

SubtractsDifferenceOfNewSize(t) ==
  /\ pc[t] = "subtract"
  /\ allocatedSectors' = allocatedSectors - (VectorSize(node[t]) - wanted[t])
  /\ Goto(t, "return")
  /\ UNCHANGED <<Sectors, mutex, heap, arguments, locals, granted>>

\* InterlockedExchangeSubtract, after the memory is gone.
Subtract(t) ==
  /\ pc[t] = "subtract"
  /\ allocatedSectors' = allocatedSectors - (vectorSize[t] - wanted[t])
  /\ Goto(t, "return")
  /\ UNCHANGED <<Sectors, mutex, heap, arguments, locals, granted>>

\* return true: the lock guard releases the mutex.
ReturnTrue(t) ==
  /\ pc[t] = "return"
  /\ UnlockExclusive(node[t])
  /\ granted' = [granted EXCEPT ![node[t]] = wanted[t]]
  /\ Return(t)
  /\ UNCHANGED <<Sectors, allocatedSectors, heap>>

GivesBackReservationOnly(t) ==
  /\ pc[t] = "failed"
  /\ UnlockExclusive(node[t])
  /\ allocatedSectors' = allocatedSectors - (wanted[t] - vectorSize[t])
  /\ Return(t)
  /\ UNCHANGED <<Sectors, heap, granted>>

RollsBackLocked(t) ==
  /\ pc[t] = "failed"
  /\ wanted' = [wanted EXCEPT ![t] = vectorSize[t]]
  /\ Goto(t, "lock")
  /\ UNCHANGED <<Sectors, mutex, allocatedSectors, heap, node, offset, size, locals, granted>>

ReturnsLocked(t) ==
  /\ pc[t] = "failed"
  /\ Return(t)
  /\ UNCHANGED <<Sectors, mutex, allocatedSectors, heap, granted>>

\* The test that guards the roll-back in both catch blocks: oldSize, a byte
\* count, against vectorSize, a sector count.
RollsBack(t) == vectorSize[t] * FULL_SECTOR_SIZE < vectorSize[t]

\* A catch block: unlock and ReAllocate back to the old size, or return
\* false, which unlocks too.
HandleBadAlloc(t) ==
  /\ pc[t] = "failed"
  /\ UnlockExclusive(node[t])
  /\ IF RollsBack(t)
     THEN /\ wanted' = [wanted EXCEPT ![t] = SectorsFor(vectorSize[t] * FULL_SECTOR_SIZE)]
          /\ Goto(t, "lock")
          /\ UNCHANGED <<node, offset, size, locals>>
     ELSE Return(t)
  /\ UNCHANGED <<Sectors, allocatedSectors, heap, granted>>

-----------------------------------------------------------------------------
(***************************************************************************)
(* ReadWrite(node, buffer, s, o).  Read and Write of io.cpp bound the      *)
(* range by the file size, so it lies in the sectors granted and no        *)
(* ReAllocate that would cut it off is under way.  A size of 0 returns     *)
(* before the lock and touches nothing.                                    *)
(***************************************************************************)
CallReadWrite(t, n, o, s) ==
  /\ pc[t] = "idle"
  /\ s > 0
  /\ o + s <= granted[n] * FULL_SECTOR_SIZE
  /\ \A u \in Threads : InReAllocate(u) /\ node[u] = n => SectorsFor(o + s) <= wanted[u]
  /\ Enter(t, n, 0, o, s)
  /\ Goto(t, "lockShared")
  /\ UNCHANGED <<Sectors, mutex, allocatedSectors, heap, granted>>

RejectsLastSector(t) ==
  \/ Rejected(offset[t], size[t], VectorSize(node[t]))
  \/ SectorEnd(offset[t], size[t], VectorSize(node[t])) + 1 >= VectorSize(node[t])

RangeRejected(t) == Rejected(offset[t], size[t], VectorSize(node[t]))

\* The range is checked under the lock; return false releases it at once.
LockShared(t) ==
  /\ pc[t] = "lockShared"
  /\ MayLockShared(node[t])
  /\ IF RangeRejected(t)
     THEN Return(t) /\ UNCHANGED shared
     ELSE /\ shared' = [shared EXCEPT ![node[t]] = @ \cup {t}]
          /\ i' = [i EXCEPT ![t] = OffsetSectorBegin(offset[t])]
          /\ sectorEnd' = [sectorEnd EXCEPT ![t] =
                             SectorEnd(offset[t], size[t], VectorSize(node[t]))]
          /\ Goto(t, "copy")
          /\ UNCHANGED <<arguments, vectorSize>>
  /\ UNCHANGED <<Sectors, exclusive, allocatedSectors, heap, granted>>

\* One memcpy, from or to sector i, with more to come.
CopySector(t) ==
  /\ pc[t] = "copy"
  /\ i[t] < sectorEnd[t]
  /\ i' = [i EXCEPT ![t] = i[t] + 1]
  /\ UNCHANGED <<Sectors, mutex, allocatedSectors, heap, pc, arguments, vectorSize,
                 sectorEnd, granted>>

\* The last memcpy and return true.
CopyLastSector(t) ==
  /\ pc[t] = "copy"
  /\ i[t] >= sectorEnd[t]
  /\ shared' = [shared EXCEPT ![node[t]] = @ \ {t}]
  /\ Return(t)
  /\ UNCHANGED <<Sectors, exclusive, allocatedSectors, heap, granted>>

-----------------------------------------------------------------------------
Call(t) ==
  \E n \in SectorNodes :
    \/ \E newSize \in Bytes : CallReAllocate(t, n, newSize)
    \/ \E o, s \in Bytes : CallReadWrite(t, n, o, s)

\* A step of a call that has begun.
Step(t) ==
  \/ LockExclusive(t)
  \/ Reserve(t)
  \/ GrowVector(t)
  \/ GrowVectorThrows(t)
  \/ AllocSector(t)
  \/ AllocSectorFails(t)
  \/ FreeSector(t)
  \/ ShrinkVector(t)
  \/ Subtract(t)
  \/ ReturnTrue(t)
  \/ HandleBadAlloc(t)
  \/ LockShared(t)
  \/ CopySector(t)
  \/ CopyLastSector(t)

Next == \E t \in Threads : Call(t) \/ Step(t)

Spec == Init /\ [][Next]_vars

\* A thread inside the manager keeps running; nothing is assumed about the
\* order in which a contended mutex is handed over.
FairSpec == Spec /\ \A t \in Threads : WF_vars(Step(t))

-----------------------------------------------------------------------------
(***************************************************************************)
(* Properties.                                                             *)
(***************************************************************************)

Labels == {"idle", "lock", "reserve", "resize", "alloc", "free", "shrink",
           "subtract", "return", "failed", "lockShared", "copy"}

HoldsExclusive(t) ==
  pc[t] \in {"reserve", "resize", "alloc", "free", "shrink", "subtract",
             "return", "failed"}

HoldsShared(t) == pc[t] = "copy"

Typed ==
  /\ Sectors \in [SectorNodes -> Seq(Pointers)]
  /\ exclusive \in [SectorNodes -> SUBSET Threads]
  /\ shared \in [SectorNodes -> SUBSET Threads]
  /\ allocatedSectors \in Int
  /\ heap \in SUBSET HeapSectors
  /\ pc \in [Threads -> Labels]
  /\ node \in [Threads -> SectorNodes \cup {NoNode}]
  /\ wanted \in [Threads -> Nat]
  /\ vectorSize \in [Threads -> Nat]
  /\ i \in [Threads -> Nat]
  /\ offset \in [Threads -> Nat]
  /\ size \in [Threads -> Nat]
  /\ sectorEnd \in [Threads -> Int]
  /\ granted \in [SectorNodes -> Nat]
  /\ \A t \in Threads : pc[t] # "idle" => node[t] \in SectorNodes

\* Every variable has its type, a thread inside a call has a node, and the
\* unsigned counter never wraps below zero, in whatever order the additions
\* and subtractions of concurrent calls fall.
TypeOK == Typed /\ allocatedSectors >= 0

\* Places whose block has gone back to the heap while the vector still holds
\* the pointer: between HeapFree and the resize that drops it.
Released(n, k) ==
  \E t \in Threads :
    /\ pc[t] \in {"free", "shrink"}
    /\ node[t] = n
    /\ wanted[t] < k /\ k <= i[t]

\* Place k of n's vector owns block b.
Owns(n, k, b) == k \in 1 .. VectorSize(n) /\ Sectors[n][k] = b /\ ~Released(n, k)

\* Between any two steps of any threads, the blocks taken from the heap are
\* exactly those some vector still owns: ReAllocate loses no block, not even
\* when it fails half way, and keeps none it has given back.
HeapExact ==
  \A b \in HeapSectors :
    b \in heap <=> \E n \in SectorNodes : \E k \in 1 .. VectorSize(n) : Owns(n, k, b)

\* No block belongs to two places of the vectors, although a freed pointer
\* stays in its vector until the resize and the heap may hand the block to
\* another node meanwhile: what is written to one file never shows in another.
NoSharedSector ==
  \A b \in HeapSectors, m, n \in SectorNodes :
    \A j \in 1 .. VectorSize(m), k \in 1 .. VectorSize(n) :
      Owns(m, j, b) /\ Owns(n, k, b) => m = n /\ j = k

Slots == UNION {{n} \X (1 .. VectorSize(n)) : n \in SectorNodes}

\* Slots beyond the end of the vector that the counter includes: reserved and
\* not yet there, or gone and not yet subtracted.
Reserved(t) ==
  IF pc[t] = "resize"
  THEN {node[t]} \X (vectorSize[t] + 1 .. wanted[t])
  ELSE IF pc[t] = "subtract"
  THEN {node[t]} \X (wanted[t] + 1 .. vectorSize[t])
  ELSE {}

CountedSlots == Slots \cup UNION {Reserved(t) : t \in Threads}

\* As long as no vector growth throws, allocatedSectors is the number of
\* sectors in all vectors, plus what calls under way have reserved or not yet
\* given back: no interleaving of the interlocked additions loses an update,
\* and at rest the counter is exact.
CounterExact == allocatedSectors = Cardinality(CountedSlots)

\* Whatever fails, and between any two steps, the counter never says less
\* than the vectors hold, so the free size the volume reports and the disk
\* full test built on it never promise a sector that is in use.
CounterNeverUnderReports == allocatedSectors >= Cardinality(Slots)

\* A sector that ReadWrite copies from or to is inside the vector and
\* allocated while it is copied: no other thread's ReAllocate frees or moves
\* it between the check of the range and the last memcpy.
CopiesAllocatedSector ==
  \A t \in Threads :
    pc[t] = "copy" => i[t] < VectorSize(node[t]) /\ CurrentSector(t) \in heap

\* The same when allocations may fail: the sector copied may be missing (see
\* GrantedSectorsPresent) but is never one that was given back to the heap.
CopiesNoFreedSector ==
  \A t \in Threads :
    pc[t] = "copy" => i[t] < VectorSize(node[t]) /\ CurrentSector(t) \in heap \cup {nullptr}

\* A range the caller was granted is never turned down, whatever other calls
\* do to the node between the caller's check of the file size and the lock.
GrantedRangeAccepted ==
  \A t \in Threads : pc[t] = "lockShared" /\ MayLockShared(node[t]) => ~RangeRejected(t)

\* No step changes a vector while another thread copies its sectors.
VectorStableUnderReaders ==
  [][\A t \in Threads : pc[t] = "copy" => Sectors'[node[t]] = Sectors[node[t]]]_vars

(* Under the mutex a growth is not there yet and what a shrink cuts off is  *)
(* gone already, so that a block given back may turn up in another node.   *)
VisibleSectors(n) ==
  IF exclusive[n] = {} THEN Sectors[n]
  ELSE LET t == CHOOSE u \in Threads : u \in exclusive[n]
       IN  SubSeq(Sectors[n], 1, MinOf(wanted[t], vectorSize[t]))

RunningTransfer(t) ==
  IF pc[t] = "copy" THEN <<node[t], OffsetSectorBegin(offset[t]) + 1, sectorEnd[t] + 1>> ELSE <<>>

Store == INSTANCE SectorStore WITH
  Blocks <- HeapSectors, Missing <- nullptr,
  store <- [n \in SectorNodes |-> VisibleSectors(n)],
  transfer <- [t \in Threads |-> RunningTransfer(t)]

\* Seen by callers, ReAllocate changes a node at one instant and never while a
\* ReadWrite of it copies; the blocks it adds are nobody else's, although the
\* code frees and allocates them one by one outside any lock the nodes share.
ImplementsSectorStore == Store!Spec

\* Whoever takes a mutex gives it back, on every path out of ReAllocate,
\* bad_alloc included.
EveryHolderReleases ==
  \A n \in SectorNodes, t \in Threads :
    t \in exclusive[n] \cup shared[n] ~> t \notin exclusive[n] \cup shared[n]

\* Once calls stop coming every call under way returns: no thread waits
\* forever for a mutex, its own or another's, or loops.
CallsReturn ==
  <>[][\A t \in Threads : ~Call(t)]_vars => <>[](\A t \in Threads : pc[t] = "idle")

\* "Deallocate again to old size after failed allocation" (sectors.cpp), so
\* that a later call starts afresh: every sector below the size of the last
\* ReAllocate that returned true is there, unless a call that changes the node
\* is under way.
GrantedSectorsPresent ==
  \A n \in SectorNodes :
    (\A t \in Threads : InReAllocate(t) => node[t] # n)
      => \A k \in 1 .. granted[n] : Sectors[n][k] # nullptr

=============================================================================
