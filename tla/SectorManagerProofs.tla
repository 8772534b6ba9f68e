------------------------- MODULE SectorManagerProofs -------------------------
(***************************************************************************)
(* What SectorManager guarantees for any number of threads, nodes and      *)
(* sectors, any sector size and any heap: its safety; that it implements   *)
(* SectorStore, whatever allocation fails; and what holds besides as long  *)
(* as HeapAlloc has never failed.                                          *)
(***************************************************************************)
EXTENDS SectorManager, SectorArithmeticProofs, SequenceTheorems, FiniteSetTheorems, TLAPS

-----------------------------------------------------------------------------
(* The vector operations. *)

LEMMA ResizedFacts ==
  ASSUME NEW vector \in Seq(Pointers), NEW n \in Nat
  PROVE  /\ Resized(vector, n) \in Seq(Pointers)
         /\ Len(Resized(vector, n)) = n
         /\ \A k \in 1 .. n :
              Resized(vector, n)[k] = IF k <= Len(vector) THEN vector[k] ELSE nullptr
<1> DEFINE e(k) == IF k <= Len(vector) THEN vector[k] ELSE nullptr
<1>1. \A k \in 1 .. n : e(k) \in Pointers
  BY LenProperties, ElementOfSeq DEF Pointers
<1>2. [k \in 1 .. n |-> e(k)] \in Seq(Pointers)
  BY <1>1, IsASeq
<1>3. Len([k \in 1 .. n |-> e(k)]) = n
  BY <1>1
<1> QED BY <1>2, <1>3 DEF Resized

LEMMA SetElementFacts ==
  ASSUME NEW vector \in Seq(Pointers), NEW j \in 1 .. Len(vector), NEW p \in Pointers
  PROVE  /\ [vector EXCEPT ![j] = p] \in Seq(Pointers)
         /\ Len([vector EXCEPT ![j] = p]) = Len(vector)
         /\ \A k \in 1 .. Len(vector) :
              [vector EXCEPT ![j] = p][k] = IF k = j THEN p ELSE vector[k]
BY ExceptSeq

LEMMA SetElementType ==
  ASSUME NEW vector \in Seq(Pointers), NEW j, NEW p \in Pointers
  PROVE  [vector EXCEPT ![j] = p] \in Seq(Pointers)
<1>1. vector \in [1 .. Len(vector) -> Pointers] /\ Len(vector) \in Nat
  BY LenProperties
<1>2. [vector EXCEPT ![j] = p] \in [1 .. Len(vector) -> Pointers]
  BY <1>1
<1> QED BY <1>1, <1>2, SeqDef

LEMMA SizeFacts ==
  ASSUME Typed, NEW n \in SectorNodes
  PROVE  /\ Sectors[n] \in Seq(Pointers)
         /\ VectorSize(n) \in Nat
         /\ \A k \in 1 .. VectorSize(n) : Sectors[n][k] \in Pointers
BY LenProperties, ElementOfSeq DEF Typed, VectorSize

LEMMA SectorsForType ==
  ASSUME NEW bytes \in Nat
  PROVE  SectorsFor(bytes) \in Nat
BY SectorSizeAssumption DEF SectorsFor, AlignUp, GetSectorAmount

\* Behind GrantedSectorsPresent: a sector count is never above its own byte
\* count, so the test of the catch blocks fails whatever the sector size and
\* the vector: the roll-back they announce never runs.
THEOREM RollBackUnreachable ==
  ASSUME NEW t \in Threads, vectorSize[t] \in Nat
  PROVE  ~RollsBack(t)
<1>1. \A v \in Nat, s \in Nat \ {0} : ~(v * s < v)
  OBVIOUS
<1> QED BY <1>1, SectorSizeAssumption DEF RollsBack

LEMMA BytesAreNat == Bytes \subseteq Nat
BY SectorSizeAssumption, BoundAssumption DEF Bytes

LEMMA RangeTypes ==
  ASSUME NEW o \in Nat, NEW s \in Nat, NEW count \in Nat
  PROVE  /\ OffsetSectorBegin(o) \in Nat
         /\ SectorEnd(o, s, count) \in Int
<1>1. OffsetSectorBegin(o) \in Nat
  BY SectorSizeAssumption DEF OffsetSectorBegin, GetSectorAmount, AlignDown
<1>2. SectorsFor(s) \in Nat
  BY SectorsForType
<1> QED BY <1>1, <1>2 DEF SectorEnd

-----------------------------------------------------------------------------
(* Type correctness. *)

LEMMA TypeInit == Init => Typed
BY EmptySeq DEF Init, Typed, Labels, Pointers

LEMMA TypeCall ==
  ASSUME Typed, NEW t \in Threads, Call(t)
  PROVE  Typed'
<1> USE DEF Typed, Labels, Goto, Enter, locals, mutex
<1>1. ASSUME NEW n \in SectorNodes, NEW newSize \in Bytes, CallReAllocate(t, n, newSize)
      PROVE  Typed'
  <2>1. SectorsFor(newSize) \in Nat
    BY SectorsForType, BytesAreNat
  <2> QED BY <1>1, <2>1 DEF CallReAllocate
<1>2. ASSUME NEW n \in SectorNodes, NEW o \in Bytes, NEW s \in Bytes,
             CallReadWrite(t, n, o, s)
      PROVE  Typed'
  <2>1. o \in Nat /\ s \in Nat
    BY BytesAreNat
  <2> QED BY <1>2, <2>1 DEF CallReadWrite
<1> QED BY <1>1, <1>2 DEF Call

\* A failed ReAllocate does nothing but unlock and return.
LEMMA HandleBadAllocReturns ==
  ASSUME Typed, NEW t \in Threads, HandleBadAlloc(t)
  PROVE  /\ pc[t] = "failed"
         /\ UnlockExclusive(node[t])
         /\ Return(t)
         /\ UNCHANGED <<Sectors, allocatedSectors, heap, granted>>
<1>1. ~RollsBack(t)
  BY RollBackUnreachable DEF Typed
<1> QED BY <1>1 DEF HandleBadAlloc

LEMMA TypeStep ==
  ASSUME Typed, NEW t \in Threads, Step(t)
  PROVE  Typed'
<1>0. pc[t] # "idle" => node[t] \in SectorNodes
  BY DEF Typed
<1>1. CASE LockExclusive(t)
  BY <1>0, <1>1, SizeFacts
     DEF LockExclusive, FirstChanged, MinOf, Typed, Labels, Goto, arguments
<1>2. CASE Reserve(t)
  BY <1>2 DEF Reserve, Typed, Labels, Goto, mutex, arguments, locals
<1>3. CASE GrowVector(t)
  BY <1>0, <1>3, ResizedFacts DEF GrowVector, Typed, Labels, Goto, mutex, arguments, locals
<1>4. CASE GrowVectorThrows(t)
  BY <1>4 DEF GrowVectorThrows, Typed, Labels, Goto, mutex, arguments, locals
<1>5. CASE AllocSector(t)
  <2>1. PICK allocPtr \in HeapSectors \ heap :
             /\ heap' = heap \cup {allocPtr}
             /\ Sectors' = [Sectors EXCEPT ![node[t]] = [@ EXCEPT ![i[t] + 1] = allocPtr]]
    BY <1>5 DEF AllocSector
  <2>2. [Sectors[node[t]] EXCEPT ![i[t] + 1] = allocPtr] \in Seq(Pointers)
    BY <1>0, <1>5, SetElementType DEF AllocSector, Pointers, Typed
  <2> QED BY <1>5, <2>1, <2>2 DEF AllocSector, Typed, Labels, Goto, mutex, arguments
<1>6. CASE AllocSectorFails(t)
  BY <1>6 DEF AllocSectorFails, Typed, Labels, Goto, mutex, arguments, locals
<1>7. CASE FreeSector(t)
  BY <1>0, <1>7 DEF FreeSector, Typed, Labels, Goto, mutex, arguments
<1>8. CASE ShrinkVector(t)
  BY <1>0, <1>8, ResizedFacts
     DEF ShrinkVector, Typed, Labels, Goto, mutex, arguments, locals
<1>9. CASE Subtract(t)
  BY <1>9 DEF Subtract, Typed, Labels, Goto, mutex, arguments, locals
<1>10. CASE ReturnTrue(t)
  BY <1>0, <1>10 DEF ReturnTrue, UnlockExclusive, Return, Typed, Labels, Goto
<1>11. CASE HandleBadAlloc(t)
  <2>1. /\ pc[t] = "failed" /\ UnlockExclusive(node[t]) /\ Return(t)
        /\ UNCHANGED <<Sectors, allocatedSectors, heap, granted>>
    BY <1>11, HandleBadAllocReturns
  <2> QED BY <1>0, <2>1 DEF UnlockExclusive, Return, Typed, Labels, Goto
<1>12. CASE LockShared(t)
  <2>1. /\ OffsetSectorBegin(offset[t]) \in Nat
        /\ SectorEnd(offset[t], size[t], VectorSize(node[t])) \in Int
    BY <1>0, <1>12, SizeFacts, RangeTypes DEF LockShared, Typed
  <2>2. CASE RangeRejected(t)
    <3>1. Return(t) /\ UNCHANGED <<shared, Sectors, exclusive, allocatedSectors, heap, granted>>
      BY <1>12, <2>2 DEF LockShared
    <3> QED BY <3>1 DEF Return, Typed, Labels, Goto
  <2>3. CASE ~RangeRejected(t)
    <3>1. PICK b \in Nat, e \in Int :
               /\ i' = [i EXCEPT ![t] = b]
               /\ sectorEnd' = [sectorEnd EXCEPT ![t] = e]
      BY <1>12, <2>1, <2>3 DEF LockShared
    <3>2. /\ pc[t] # "idle" /\ Goto(t, "copy")
          /\ shared' = [shared EXCEPT ![node[t]] = @ \cup {t}]
          /\ UNCHANGED <<arguments, vectorSize, Sectors, exclusive, allocatedSectors, heap,
                         granted>>
      BY <1>12, <2>3 DEF LockShared
    <3> QED BY <1>0, <3>1, <3>2 DEF Typed, Labels, Goto, arguments
  <2> QED BY <2>2, <2>3
<1>13. CASE CopySector(t)
  BY <1>0, <1>13 DEF CopySector, Typed, Labels, mutex, arguments
<1>14. CASE CopyLastSector(t)
  BY <1>0, <1>14 DEF CopyLastSector, Return, Typed, Labels, Goto
<1> QED BY <1>1, <1>2, <1>3, <1>4, <1>5, <1>6, <1>7, <1>8, <1>9, <1>10, <1>11,
           <1>12, <1>13, <1>14 DEF Step

\* Every variable keeps its type.
LEMMA TypesAreInv == Spec => []Typed
<1>1. Typed /\ [Next]_vars => Typed'
  <2> SUFFICES ASSUME Typed, [Next]_vars PROVE Typed'
    OBVIOUS
  <2>1. CASE Next
    BY <2>1, TypeCall, TypeStep DEF Next
  <2>2. CASE UNCHANGED vars
    BY <2>2 DEF vars, mutex, arguments, locals, Typed
  <2> QED BY <2>1, <2>2
<1> QED BY <1>1, TypeInit, PTL DEF Spec

-----------------------------------------------------------------------------
(* The locks. *)

\* The mutex of a node is held by the threads whose pc says so, by one thread
\* if exclusively, and never both ways.
LockInv ==
  /\ \A n \in SectorNodes, t \in Threads :
       /\ t \in exclusive[n] <=> HoldsExclusive(t) /\ node[t] = n
       /\ t \in shared[n] <=> HoldsShared(t) /\ node[t] = n
  /\ \A n \in SectorNodes :
       /\ \A t, u \in exclusive[n] : t = u
       /\ exclusive[n] # {} => shared[n] = {}

\* A thread changes its own pc and locals only.
OwnLocalsOnly(t) ==
  \A u \in Threads \ {t} :
    /\ pc'[u] = pc[u] /\ node'[u] = node[u] /\ wanted'[u] = wanted[u]
    /\ offset'[u] = offset[u] /\ size'[u] = size[u]
    /\ vectorSize'[u] = vectorSize[u] /\ i'[u] = i[u] /\ sectorEnd'[u] = sectorEnd[u]

LEMMA CallOwnLocals ==
  ASSUME Typed, NEW t \in Threads, Call(t)
  PROVE  OwnLocalsOnly(t)
BY DEF Call, CallReAllocate, CallReadWrite, Enter, Goto, locals, Typed, OwnLocalsOnly

LEMMA StepOwnLocals ==
  ASSUME Typed, NEW t \in Threads, Step(t)
  PROVE  OwnLocalsOnly(t)
<1> USE DEF OwnLocalsOnly, Goto, arguments, locals, Return
<1>1. CASE LockExclusive(t)
  BY <1>1 DEF LockExclusive, Typed
<1>2. CASE Reserve(t) \/ GrowVector(t) \/ GrowVectorThrows(t)
  BY <1>2 DEF Reserve, GrowVector, GrowVectorThrows, Typed
<1>3. CASE AllocSector(t) \/ AllocSectorFails(t)
  BY <1>3 DEF AllocSector, AllocSectorFails, Typed
<1>4. CASE FreeSector(t) \/ ShrinkVector(t) \/ Subtract(t)
  BY <1>4 DEF FreeSector, ShrinkVector, Subtract, Typed
<1>5. CASE ReturnTrue(t)
  BY <1>5 DEF ReturnTrue, Typed
<1>6. CASE HandleBadAlloc(t)
  <2>1. Return(t)
    BY <1>6, HandleBadAllocReturns
  <2> QED BY <2>1 DEF Typed
<1>7. CASE LockShared(t)
  BY <1>7 DEF LockShared, Typed
<1>8. CASE CopySector(t) \/ CopyLastSector(t)
  BY <1>8 DEF CopySector, CopyLastSector, Typed
<1> QED BY <1>1, <1>2, <1>3, <1>4, <1>5, <1>6, <1>7, <1>8 DEF Step

LEMMA LockInit == Init => LockInv
BY DEF Init, LockInv, HoldsExclusive, HoldsShared

\* A step of t that leaves the mutexes alone and does not change what t holds.
LEMMA LockKept ==
  ASSUME LockInv, NEW t \in Threads, OwnLocalsOnly(t),
         UNCHANGED mutex,
         HoldsExclusive(t)' <=> HoldsExclusive(t),
         HoldsShared(t)' <=> HoldsShared(t),
         HoldsExclusive(t) \/ HoldsShared(t) => node'[t] = node[t]
  PROVE  LockInv'
<1>1. \A u \in Threads : /\ HoldsExclusive(u)' <=> HoldsExclusive(u)
                         /\ HoldsShared(u)' <=> HoldsShared(u)
                         /\ HoldsExclusive(u) \/ HoldsShared(u) => node'[u] = node[u]
  BY DEF OwnLocalsOnly, HoldsExclusive, HoldsShared
<1> QED BY <1>1 DEF LockInv, mutex

LEMMA LockCall ==
  ASSUME Typed, LockInv, NEW t \in Threads, Call(t)
  PROVE  LockInv'
<1>1. /\ pc[t] = "idle" /\ pc'[t] \in {"lock", "lockShared"}
      /\ UNCHANGED mutex
  BY DEF Call, CallReAllocate, CallReadWrite, Goto, Typed
<1> QED BY <1>1, CallOwnLocals, LockKept DEF HoldsExclusive, HoldsShared

LEMMA LockStep ==
  ASSUME Typed, LockInv, NEW t \in Threads, Step(t)
  PROVE  LockInv'
<1> DEFINE n == node[t]
<1>0. pc[t] # "idle" => n \in SectorNodes
  BY DEF Typed
<1>1. /\ pc \in [Threads -> Labels] /\ node \in [Threads -> SectorNodes \cup {NoNode}]
      /\ exclusive \in [SectorNodes -> SUBSET Threads]
      /\ shared \in [SectorNodes -> SUBSET Threads]
  BY DEF Typed
<1>2. \A u \in Threads \ {t} : /\ HoldsExclusive(u)' <=> HoldsExclusive(u)
                               /\ HoldsShared(u)' <=> HoldsShared(u)
                               /\ node'[u] = node[u]
  BY StepOwnLocals DEF OwnLocalsOnly, HoldsExclusive, HoldsShared
<1>3. CASE LockExclusive(t)
  <2>1. /\ n \in SectorNodes /\ node' = node
        /\ exclusive[n] = {} /\ shared[n] = {} /\ shared' = shared
        /\ exclusive' = [exclusive EXCEPT ![n] = {t}]
        /\ HoldsExclusive(t)' /\ ~HoldsShared(t)' /\ ~HoldsShared(t)
    BY <1>0, <1>1, <1>3
       DEF LockExclusive, MayLockExclusive, Goto, arguments, HoldsExclusive, HoldsShared
  <2> QED BY <1>1, <1>2, <2>1 DEF LockInv
<1>4. CASE ReturnTrue(t) \/ HandleBadAlloc(t)
  <2>1. /\ HoldsExclusive(t) /\ pc[t] # "copy"
        /\ UnlockExclusive(n) /\ Return(t)
    BY <1>4, HandleBadAllocReturns DEF ReturnTrue, HoldsExclusive
  <2>2. /\ n \in SectorNodes /\ shared' = shared /\ exclusive' = [exclusive EXCEPT ![n] = {}]
        /\ ~HoldsExclusive(t)' /\ ~HoldsShared(t)' /\ ~HoldsShared(t)
    BY <1>0, <1>1, <2>1 DEF UnlockExclusive, Return, Goto, HoldsExclusive, HoldsShared
  <2> QED BY <1>1, <1>2, <2>1, <2>2 DEF LockInv
<1>5. CASE LockShared(t)
  <2>1. CASE RangeRejected(t)
    <3>1. /\ UNCHANGED mutex /\ ~HoldsExclusive(t) /\ ~HoldsShared(t)
          /\ ~HoldsExclusive(t)' /\ ~HoldsShared(t)'
      BY <1>1, <1>5, <2>1 DEF LockShared, Return, Goto, mutex, HoldsExclusive, HoldsShared
    <3> QED BY <3>1, StepOwnLocals, LockKept
  <2>2. CASE ~RangeRejected(t)
    <3>1. /\ n \in SectorNodes /\ node' = node
          /\ exclusive[n] = {} /\ exclusive' = exclusive
          /\ shared' = [shared EXCEPT ![n] = shared[n] \cup {t}]
          /\ ~HoldsExclusive(t)' /\ ~HoldsExclusive(t) /\ HoldsShared(t)'
      BY <1>0, <1>1, <1>5, <2>2
         DEF LockShared, MayLockShared, Goto, arguments, HoldsExclusive, HoldsShared
    <3> QED BY <1>1, <1>2, <3>1 DEF LockInv
  <2> QED BY <2>1, <2>2
<1>6. CASE CopyLastSector(t)
  <2>1. /\ n \in SectorNodes /\ exclusive' = exclusive
        /\ shared' = [shared EXCEPT ![n] = shared[n] \ {t}]
        /\ ~HoldsExclusive(t) /\ ~HoldsExclusive(t)' /\ ~HoldsShared(t)' /\ HoldsShared(t)
    BY <1>0, <1>1, <1>6 DEF CopyLastSector, Return, Goto, HoldsExclusive, HoldsShared
  <2> QED BY <1>1, <1>2, <2>1 DEF LockInv
<1>7. CASE CopySector(t)
  <2>1. UNCHANGED <<mutex, pc, node>>
    BY <1>7 DEF CopySector, arguments
  <2> QED BY <2>1, StepOwnLocals, LockKept DEF HoldsExclusive, HoldsShared
<1>8. CASE Reserve(t) \/ GrowVector(t) \/ GrowVectorThrows(t) \/ AllocSector(t)
           \/ AllocSectorFails(t) \/ FreeSector(t) \/ ShrinkVector(t) \/ Subtract(t)
  <2>1. /\ HoldsExclusive(t) /\ UNCHANGED <<mutex, node>> /\ HoldsExclusive(t)'
        /\ ~HoldsShared(t) /\ ~HoldsShared(t)'
    BY <1>1, <1>8
       DEF Reserve, GrowVector, GrowVectorThrows, AllocSector, AllocSectorFails,
           FreeSector, ShrinkVector, Subtract, HoldsExclusive, HoldsShared, Goto,
           arguments
  <2> QED BY <2>1, StepOwnLocals, LockKept
<1> QED BY <1>3, <1>4, <1>5, <1>6, <1>7, <1>8 DEF Step

\* The mutex excludes a writer from everyone else, in every reachable state.
THEOREM LocksExclude == Spec => []LockInv
<1>1. Typed /\ LockInv /\ [Next]_vars => LockInv'
  <2> SUFFICES ASSUME Typed, LockInv, [Next]_vars PROVE LockInv'
    OBVIOUS
  <2>1. CASE Next
    BY <2>1, LockCall, LockStep DEF Next
  <2>2. CASE UNCHANGED vars
    BY <2>2 DEF vars, mutex, arguments, LockInv, HoldsExclusive, HoldsShared
  <2> QED BY <2>1, <2>2
<1> QED BY <1>1, LockInit, TypesAreInv, PTL DEF Spec

-----------------------------------------------------------------------------
(* Who may change a vector, and what a call knows of the one it holds. *)

\* A step changes no vector but the one its thread holds exclusively.
LEMMA StepVectors ==
  ASSUME Typed, NEW t \in Threads, Step(t), NEW n \in SectorNodes,
         ~(HoldsExclusive(t) /\ node[t] = n)
  PROVE  Sectors'[n] = Sectors[n]
<1>1. CASE GrowVector(t) \/ ShrinkVector(t)
  BY <1>1 DEF GrowVector, ShrinkVector, HoldsExclusive, Typed
<1>2. CASE AllocSector(t)
  BY <1>2 DEF AllocSector, HoldsExclusive, Typed
<1>3. CASE HandleBadAlloc(t)
  BY <1>3, HandleBadAllocReturns
<1> QED BY <1>1, <1>2, <1>3
        DEF Step, LockExclusive, Reserve, GrowVectorThrows, AllocSectorFails, FreeSector,
            Subtract, ReturnTrue, LockShared, CopySector, CopyLastSector

\* While a thread holds a mutex, the others leave the vector alone.
LEMMA HeldVectorStable ==
  ASSUME Typed, LockInv, NEW t \in Threads, Step(t), NEW u \in Threads, u # t,
         HoldsExclusive(u) \/ HoldsShared(u)
  PROVE  Sectors'[node[u]] = Sectors[node[u]]
<1>1. node[u] \in SectorNodes
  BY DEF Typed, HoldsExclusive, HoldsShared
<1>2. ~(HoldsExclusive(t) /\ node[t] = node[u])
  BY <1>1 DEF LockInv
<1> QED BY <1>1, <1>2, StepVectors

\* No step changes a vector that a thread is copying from or to.
THEOREM ReadersSeeStableVectors == Spec => VectorStableUnderReaders
<1>1. Typed /\ LockInv /\ [Next]_vars
        => [\A t \in Threads : pc[t] = "copy" => Sectors'[node[t]] = Sectors[node[t]]]_vars
  <2> SUFFICES ASSUME Typed, LockInv, Next, NEW u \in Threads, pc[u] = "copy"
               PROVE  Sectors'[node[u]] = Sectors[node[u]]
    BY DEF vars
  <2>1. PICK t \in Threads : Call(t) \/ Step(t)
    BY DEF Next
  <2>2. node[u] \in SectorNodes /\ HoldsShared(u) /\ ~HoldsExclusive(u)
    BY DEF Typed, HoldsShared, HoldsExclusive
  <2>3. CASE Call(t)
    BY <2>3 DEF Call, CallReAllocate, CallReadWrite
  <2>4. CASE Step(t) /\ u # t
    BY <2>2, <2>4, HeldVectorStable
  <2>5. CASE Step(t) /\ u = t
    BY <2>2, <2>5, StepVectors
  <2> QED BY <2>1, <2>3, <2>4, <2>5
<1> QED BY <1>1, TypesAreInv, LocksExclude, PTL DEF Spec, VectorStableUnderReaders

\* What ReAllocate knows of its vector at each point of its way.
CallInv(t) ==
  LET n == node[t] IN
  /\ pc[t] \in {"reserve", "resize"} =>
       VectorSize(n) = vectorSize[t] /\ vectorSize[t] < wanted[t] /\ i[t] = vectorSize[t]
  /\ pc[t] = "alloc" =>
       /\ VectorSize(n) = wanted[t] /\ vectorSize[t] <= i[t] /\ i[t] < wanted[t]
       /\ \A k \in i[t] + 1 .. wanted[t] : Sectors[n][k] = nullptr
  /\ pc[t] = "free" =>
       VectorSize(n) = vectorSize[t] /\ wanted[t] <= i[t] /\ i[t] < vectorSize[t]
  /\ pc[t] = "shrink" =>
       VectorSize(n) = vectorSize[t] /\ wanted[t] < vectorSize[t] /\ i[t] = vectorSize[t]
  /\ pc[t] = "subtract" => VectorSize(n) = wanted[t] /\ wanted[t] < vectorSize[t]
  /\ pc[t] = "return" => VectorSize(n) = wanted[t]
  /\ pc[t] = "failed" => VectorSize(n) \in {vectorSize[t], wanted[t]} /\ vectorSize[t] < wanted[t]

LEMMA CallInvOthers ==
  ASSUME Typed, LockInv, NEW t \in Threads, Step(t), NEW u \in Threads, u # t, CallInv(u)
  PROVE  CallInv(u)'
<1>1. /\ pc'[u] = pc[u] /\ node'[u] = node[u] /\ wanted'[u] = wanted[u]
      /\ vectorSize'[u] = vectorSize[u] /\ i'[u] = i[u]
  BY StepOwnLocals DEF OwnLocalsOnly
<1>2. HoldsExclusive(u) => Sectors'[node[u]] = Sectors[node[u]]
  BY HeldVectorStable
<1> QED BY <1>1, <1>2 DEF CallInv, HoldsExclusive, VectorSize

LEMMA CallInvStep ==
  ASSUME Typed, LockInv, NEW t \in Threads, Step(t), CallInv(t)
  PROVE  CallInv(t)'
<1> DEFINE n == node[t]
<1>0. /\ pc[t] # "idle" /\ n \in SectorNodes /\ Sectors[n] \in Seq(Pointers)
      /\ Sectors \in [SectorNodes -> Seq(Pointers)]
      /\ VectorSize(n) \in Nat /\ wanted[t] \in Nat /\ vectorSize[t] \in Nat /\ i[t] \in Nat
  BY SizeFacts
     DEF Typed, Step, LockExclusive, Reserve, GrowVector, GrowVectorThrows, AllocSector,
         AllocSectorFails, FreeSector, ShrinkVector, Subtract, ReturnTrue, HandleBadAlloc,
         LockShared, CopySector, CopyLastSector
<1>1. pc \in [Threads -> Labels] /\ i \in [Threads -> Nat] /\ vectorSize \in [Threads -> Nat]
  BY DEF Typed
<1>2. CASE LockExclusive(t)
  BY <1>0, <1>1, <1>2
     DEF LockExclusive, CallInv, Goto, FirstChanged, MinOf, arguments, VectorSize
<1>3. CASE Reserve(t)
  BY <1>1, <1>3 DEF Reserve, CallInv, Goto, arguments, locals, VectorSize
<1>4. CASE GrowVector(t)
  <2>1. /\ Sectors'[n] = Resized(Sectors[n], wanted[t]) /\ pc'[t] = "alloc" /\ pc[t] = "resize"
        /\ UNCHANGED <<node, wanted, vectorSize, i>>
    BY <1>0, <1>1, <1>4 DEF GrowVector, Goto, arguments, locals
  <2>2. /\ Len(Sectors'[n]) = wanted[t]
        /\ \A k \in 1 .. wanted[t] :
             Sectors'[n][k] = IF k <= VectorSize(n) THEN Sectors[n][k] ELSE nullptr
    BY <1>0, <2>1, ResizedFacts DEF VectorSize
  <2> QED BY <1>0, <2>1, <2>2 DEF CallInv, VectorSize
<1>5. CASE GrowVectorThrows(t)
  BY <1>1, <1>5 DEF GrowVectorThrows, CallInv, Goto, arguments, locals, VectorSize
<1>6. CASE AllocSector(t)
  <2>1. PICK allocPtr \in HeapSectors \ heap :
             Sectors' = [Sectors EXCEPT ![n] = [@ EXCEPT ![i[t] + 1] = allocPtr]]
    BY <1>6 DEF AllocSector
  <2>2. /\ pc[t] = "alloc" /\ pc'[t] = (IF i[t] + 1 < wanted[t] THEN "alloc" ELSE "return")
        /\ i'[t] = i[t] + 1 /\ UNCHANGED <<node, wanted, vectorSize>>
    BY <1>1, <1>6 DEF AllocSector, Goto, arguments
  <2>3. i[t] + 1 \in 1 .. Len(Sectors[n])
    BY <1>0, <2>2 DEF CallInv, VectorSize
  <2>4. /\ Len(Sectors'[n]) = Len(Sectors[n])
        /\ \A k \in 1 .. Len(Sectors[n]) :
             Sectors'[n][k] = IF k = i[t] + 1 THEN allocPtr ELSE Sectors[n][k]
    BY <1>0, <2>1, <2>3, SetElementFacts DEF Pointers
  <2>5. /\ Len(Sectors[n]) = wanted[t] /\ vectorSize[t] <= i[t] /\ i[t] < wanted[t]
        /\ \A k \in i[t] + 1 .. wanted[t] : Sectors[n][k] = nullptr
    BY <2>2 DEF CallInv, VectorSize
  <2>6. \A k \in i[t] + 2 .. wanted[t] : Sectors'[n][k] = nullptr
    BY <1>0, <2>4, <2>5
  <2> QED BY <1>0, <2>2, <2>4, <2>5, <2>6 DEF CallInv, VectorSize
<1>7. CASE AllocSectorFails(t)
  BY <1>0, <1>1, <1>7 DEF AllocSectorFails, CallInv, Goto, arguments, locals, VectorSize
<1>8. CASE FreeSector(t)
  BY <1>0, <1>1, <1>8 DEF FreeSector, MoreToFree, CallInv, Goto, arguments, VectorSize
<1>9. CASE ShrinkVector(t)
  <2>1. /\ Sectors'[n] = Resized(Sectors[n], wanted[t]) /\ pc'[t] = "subtract"
        /\ pc[t] = "shrink" /\ UNCHANGED <<node, wanted, vectorSize, i>>
    BY <1>0, <1>1, <1>9 DEF ShrinkVector, Goto, arguments, locals
  <2>2. Len(Sectors'[n]) = wanted[t]
    BY <1>0, <2>1, ResizedFacts
  <2> QED BY <1>0, <2>1, <2>2 DEF CallInv, VectorSize
<1>10. CASE Subtract(t)
  BY <1>1, <1>10 DEF Subtract, CallInv, Goto, arguments, locals, VectorSize
<1>11. CASE ReturnTrue(t) \/ HandleBadAlloc(t)
  <2>1. Return(t)
    BY <1>11, HandleBadAllocReturns DEF ReturnTrue
  <2> QED BY <1>1, <2>1 DEF Return, Goto, CallInv
<1>12. CASE LockShared(t)
  <2>1. pc'[t] \in {"idle", "copy"}
    BY <1>1, <1>12 DEF LockShared, Return, Goto
  <2> QED BY <2>1 DEF CallInv
<1>13. CASE CopySector(t)
  BY <1>13 DEF CopySector, CallInv
<1>14. CASE CopyLastSector(t)
  BY <1>1, <1>14 DEF CopyLastSector, Return, Goto, CallInv
<1> QED BY <1>2, <1>3, <1>4, <1>5, <1>6, <1>7, <1>8, <1>9, <1>10, <1>11, <1>12,
           <1>13, <1>14 DEF Step

LEMMA CallsKnowTheirVector == Spec => [](\A t \in Threads : CallInv(t))
<1> DEFINE Inv == \A t \in Threads : CallInv(t)
<1>1. Init => Inv
  BY DEF Init, CallInv
<1>2. Typed /\ LockInv /\ Inv /\ [Next]_vars => Inv'
  <2> SUFFICES ASSUME Typed, LockInv, Inv, [Next]_vars, NEW u \in Threads PROVE CallInv(u)'
    OBVIOUS
  <2>1. ASSUME NEW t \in Threads, Call(t) PROVE CallInv(u)'
    <3>1. /\ pc'[t] \in {"lock", "lockShared"} /\ UNCHANGED Sectors
      BY <2>1 DEF Call, CallReAllocate, CallReadWrite, Goto, Typed
    <3>2. CASE u = t
      BY <3>1, <3>2 DEF CallInv
    <3>3. CASE u # t
      BY <2>1, <3>1, <3>3, CallOwnLocals DEF OwnLocalsOnly, CallInv, VectorSize
    <3> QED BY <3>2, <3>3
  <2>2. ASSUME NEW t \in Threads, Step(t) PROVE CallInv(u)'
    BY <2>2, CallInvStep, CallInvOthers
  <2>3. CASE UNCHANGED vars
    BY <2>3 DEF vars, arguments, locals, CallInv, VectorSize
  <2> QED BY <2>1, <2>2, <2>3 DEF Next
<1> QED BY <1>1, <1>2, TypesAreInv, LocksExclude, PTL DEF Spec

-----------------------------------------------------------------------------
(* The heap. *)

HeapInv == HeapExact /\ NoSharedSector

LEMMA HeapInit == Init => HeapInv
BY DEF Init, HeapInv, HeapExact, NoSharedSector, Owns, VectorSize

\* A step after which every place owns what it owned before.
LEMMA HeapKept ==
  ASSUME HeapInv, UNCHANGED heap,
         \A n \in SectorNodes, b \in HeapSectors : \A k : Owns(n, k, b)' <=> Owns(n, k, b)
  PROVE  HeapInv'
<1>1. \A n \in SectorNodes, b \in HeapSectors : \A k :
        /\ Owns(n, k, b) => k \in 1 .. VectorSize(n)
        /\ Owns(n, k, b)' => k \in 1 .. VectorSize(n)'
  BY DEF Owns
<1>2. HeapExact'
  BY <1>1 DEF HeapInv, HeapExact
<1>3. NoSharedSector'
  BY <1>1 DEF HeapInv, NoSharedSector
<1> QED BY <1>2, <1>3 DEF HeapInv

\* What one thread has given back of n's vector.
ReleasedBy(t, n, k) ==
  /\ pc[t] \in {"free", "shrink"} /\ node[t] = n
  /\ wanted[t] < k /\ k <= i[t]

LEMMA ReleasedByOthers ==
  ASSUME NEW t \in Threads, OwnLocalsOnly(t), NEW n, NEW k,
         ReleasedBy(t, n, k)' <=> ReleasedBy(t, n, k)
  PROVE  Released(n, k)' <=> Released(n, k)
<1>1. \A u \in Threads : ReleasedBy(u, n, k)' <=> ReleasedBy(u, n, k)
  BY DEF OwnLocalsOnly, ReleasedBy
<1> QED BY <1>1 DEF Released, ReleasedBy

\* Only the holder of n's mutex can have released a part of it.
LEMMA ReleasedByHolder ==
  ASSUME Typed, LockInv, NEW t \in Threads, HoldsExclusive(t), NEW k
  PROVE  Released(node[t], k) <=> ReleasedBy(t, node[t], k)
<1>1. node[t] \in SectorNodes
  BY DEF Typed, HoldsExclusive
<1>2. ASSUME NEW u \in Threads, ReleasedBy(u, node[t], k) PROVE u = t
  <2>1. HoldsExclusive(u) /\ node[u] = node[t]
    BY <1>2 DEF ReleasedBy, HoldsExclusive
  <2> QED BY <1>1, <2>1 DEF LockInv
<1> QED BY <1>2 DEF Released, ReleasedBy

\* Steps that change neither a vector, nor the heap, nor what is released.
LEMMA HeapQuiet ==
  ASSUME HeapInv, NEW t \in Threads, OwnLocalsOnly(t), UNCHANGED <<heap, Sectors>>,
         \A n, k : ReleasedBy(t, n, k)' <=> ReleasedBy(t, n, k)
  PROVE  HeapInv'
<1>1. \A n, k : Released(n, k)' <=> Released(n, k)
  BY ReleasedByOthers
<1> QED BY <1>1, HeapKept DEF Owns, VectorSize

LEMMA HeapCall ==
  ASSUME Typed, HeapInv, NEW t \in Threads, Call(t)
  PROVE  HeapInv'
<1>1. /\ pc[t] = "idle" /\ pc'[t] \in {"lock", "lockShared"}
      /\ UNCHANGED <<heap, Sectors>>
  BY DEF Call, CallReAllocate, CallReadWrite, Goto, Typed
<1> QED BY <1>1, CallOwnLocals, HeapQuiet DEF ReleasedBy

LEMMA HeapGrow ==
  ASSUME Typed, LockInv, HeapInv, NEW t \in Threads, GrowVector(t), OwnLocalsOnly(t),
         CallInv(t)
  PROVE  HeapInv'
<1> DEFINE n == node[t]
<1>1. /\ n \in SectorNodes /\ Sectors[n] \in Seq(Pointers) /\ VectorSize(n) \in Nat
      /\ wanted[t] \in Nat /\ VectorSize(n) < wanted[t]
  BY SizeFacts DEF Typed, GrowVector, CallInv
<1>2. /\ Sectors' = [Sectors EXCEPT ![n] = Resized(Sectors[n], wanted[t])] /\ heap' = heap
      /\ pc[t] = "resize" /\ pc'[t] = "alloc"
  BY DEF Typed, GrowVector, Goto
<1>3. /\ Len(Sectors'[n]) = wanted[t]
      /\ \A k \in 1 .. wanted[t] :
           Sectors'[n][k] = IF k <= Len(Sectors[n]) THEN Sectors[n][k] ELSE nullptr
      /\ \A m \in SectorNodes \ {n} : Sectors'[m] = Sectors[m]
  BY <1>1, <1>2, ResizedFacts DEF Typed
<1>4. \A m, k : Released(m, k)' <=> Released(m, k)
  BY <1>2, ReleasedByOthers DEF ReleasedBy
<1>5. \A k : ~Released(n, k)
  BY <1>2, ReleasedByHolder DEF ReleasedBy, HoldsExclusive
<1>6. ASSUME NEW m \in SectorNodes, NEW b \in HeapSectors, NEW k
      PROVE  Owns(m, k, b)' <=> Owns(m, k, b)
  <2>1. CASE m = n
    BY <1>1, <1>3, <1>4, <1>5, <2>1, HeapAssumption DEF Owns, VectorSize
  <2>2. CASE m # n
    BY <1>3, <1>4, <2>2 DEF Owns, VectorSize
  <2> QED BY <2>1, <2>2
<1> QED BY <1>2, <1>6, HeapKept

LEMMA HeapShrink ==
  ASSUME Typed, LockInv, HeapInv, NEW t \in Threads, ShrinkVector(t), OwnLocalsOnly(t),
         CallInv(t)
  PROVE  HeapInv'
<1> DEFINE n == node[t]
<1>1. /\ n \in SectorNodes /\ Sectors[n] \in Seq(Pointers) /\ VectorSize(n) \in Nat
      /\ wanted[t] \in Nat /\ wanted[t] < VectorSize(n) /\ i[t] = VectorSize(n)
  BY SizeFacts DEF Typed, ShrinkVector, CallInv
<1>2. /\ Sectors' = [Sectors EXCEPT ![n] = Resized(Sectors[n], wanted[t])] /\ heap' = heap
      /\ pc[t] = "shrink" /\ pc'[t] = "subtract" /\ node' = node
  BY DEF Typed, ShrinkVector, Goto, arguments
<1>3. /\ Len(Sectors'[n]) = wanted[t]
      /\ \A k \in 1 .. wanted[t] :
           Sectors'[n][k] = IF k <= Len(Sectors[n]) THEN Sectors[n][k] ELSE nullptr
      /\ \A m \in SectorNodes \ {n} : Sectors'[m] = Sectors[m]
  BY <1>1, <1>2, ResizedFacts DEF Typed
<1>4. \A k : Released(n, k) <=> wanted[t] < k /\ k <= VectorSize(n)
  BY <1>1, <1>2, ReleasedByHolder DEF ReleasedBy, HoldsExclusive
<1>5. \A k : ~Released(n, k)'
  <2>1. ASSUME NEW u \in Threads, NEW k, ReleasedBy(u, n, k)' PROVE FALSE
    <3>1. CASE u = t
      BY <1>2, <2>1, <3>1 DEF ReleasedBy
    <3>2. CASE u # t
      <4>1. HoldsExclusive(u) /\ node[u] = n /\ HoldsExclusive(t)
        BY <1>2, <2>1, <3>2 DEF ReleasedBy, OwnLocalsOnly, HoldsExclusive
      <4> QED BY <1>1, <3>2, <4>1 DEF LockInv
    <3> QED BY <3>1, <3>2
  <2> QED BY <2>1 DEF Released, ReleasedBy
<1>6. \A m \in SectorNodes \ {n} : \A k : Released(m, k)' <=> Released(m, k)
  BY <1>2, ReleasedByOthers DEF ReleasedBy
<1>7. ASSUME NEW m \in SectorNodes, NEW b \in HeapSectors, NEW k
      PROVE  Owns(m, k, b)' <=> Owns(m, k, b)
  <2>1. CASE m = n
    <3>1. (k \in 1 .. VectorSize(n) /\ ~Released(n, k)) <=> k \in 1 .. wanted[t]
      BY <1>1, <1>4
    <3>2. k \in 1 .. wanted[t] => Sectors'[n][k] = Sectors[n][k]
      BY <1>1, <1>3 DEF VectorSize
    <3>3. VectorSize(m)' = wanted[t] /\ ~Released(m, k)'
      BY <1>2, <1>3, <1>5, <2>1 DEF VectorSize
    <3> QED BY <2>1, <3>1, <3>2, <3>3 DEF Owns
  <2>2. CASE m # n
    BY <1>3, <1>6, <2>2 DEF Owns, VectorSize
  <2> QED BY <2>1, <2>2
<1> QED BY <1>2, <1>7, HeapKept

LEMMA HeapAlloc ==
  ASSUME Typed, LockInv, HeapInv, NEW t \in Threads, AllocSector(t), OwnLocalsOnly(t),
         CallInv(t)
  PROVE  HeapInv'
<1> DEFINE n == node[t]
<1>1. /\ n \in SectorNodes /\ Sectors[n] \in Seq(Pointers) /\ VectorSize(n) \in Nat
      /\ i[t] \in Nat /\ i[t] < VectorSize(n) /\ Sectors[n][i[t] + 1] = nullptr
  <2>1. pc[t] = "alloc" /\ n \in SectorNodes /\ i[t] \in Nat /\ wanted[t] \in Nat
    BY DEF Typed, AllocSector
  <2>2. /\ VectorSize(n) = wanted[t] /\ i[t] < wanted[t]
        /\ \A k \in i[t] + 1 .. wanted[t] : Sectors[n][k] = nullptr
    BY <2>1 DEF CallInv
  <2>3. i[t] + 1 \in i[t] + 1 .. wanted[t]
    BY <2>1, <2>2
  <2> QED BY <2>1, <2>2, <2>3 DEF Typed
<1>2. PICK b \in HeapSectors \ heap :
           /\ heap' = heap \cup {b}
           /\ Sectors' = [Sectors EXCEPT ![n] = [@ EXCEPT ![i[t] + 1] = b]]
  BY DEF AllocSector
<1>3. pc[t] = "alloc" /\ pc'[t] \in {"alloc", "return"}
  BY DEF Typed, AllocSector, Goto
<1>4. /\ Len(Sectors'[n]) = Len(Sectors[n])
      /\ \A k \in 1 .. Len(Sectors[n]) :
           Sectors'[n][k] = IF k = i[t] + 1 THEN b ELSE Sectors[n][k]
      /\ \A m \in SectorNodes \ {n} : Sectors'[m] = Sectors[m]
  BY <1>1, <1>2, SetElementFacts DEF Typed, VectorSize, Pointers
<1>5. \A m, k : Released(m, k)' <=> Released(m, k)
  BY <1>3, ReleasedByOthers DEF ReleasedBy
<1>6. \A k : ~Released(n, k)
  BY <1>3, ReleasedByHolder DEF ReleasedBy, HoldsExclusive
<1>7. ASSUME NEW m \in SectorNodes, NEW c \in HeapSectors, NEW k
      PROVE  Owns(m, k, c)' <=> Owns(m, k, c) \/ (m = n /\ k = i[t] + 1 /\ c = b)
  <2>1. CASE m = n
    BY <1>1, <1>4, <1>5, <1>6, <2>1, HeapAssumption DEF Owns, VectorSize
  <2>2. CASE m # n
    BY <1>4, <1>5, <2>2 DEF Owns, VectorSize
  <2> QED BY <2>1, <2>2
<1>8. \A m \in SectorNodes : \A k : ~Owns(m, k, b)
  BY <1>2 DEF HeapInv, HeapExact, Owns
<1>9. \A m \in SectorNodes : VectorSize(m)' = VectorSize(m)
  BY <1>4 DEF VectorSize
<1>10. HeapExact'
  <2>1. ASSUME NEW c \in HeapSectors, c \in heap'
        PROVE  \E m \in SectorNodes : \E k \in 1 .. VectorSize(m)' : Owns(m, k, c)'
    <3>1. CASE c = b
      BY <1>1, <1>7, <1>9, <3>1
    <3>2. CASE c # b
      BY <1>2, <1>7, <1>9, <2>1, <3>2 DEF HeapInv, HeapExact
    <3> QED BY <3>1, <3>2
  <2>2. ASSUME NEW c \in HeapSectors, NEW m \in SectorNodes, NEW k, Owns(m, k, c)'
        PROVE  c \in heap'
    BY <1>2, <1>7, <2>2 DEF HeapInv, HeapExact, Owns
  <2> QED BY <2>1, <2>2 DEF HeapExact
<1>11. NoSharedSector'
  <2> SUFFICES ASSUME NEW c \in HeapSectors, NEW m1 \in SectorNodes, NEW m2 \in SectorNodes,
                      NEW k1, NEW k2, Owns(m1, k1, c)', Owns(m2, k2, c)'
               PROVE  m1 = m2 /\ k1 = k2
    BY DEF NoSharedSector
  <2>1. CASE c = b
    BY <1>7, <1>8, <2>1
  <2>2. CASE c # b
    BY <1>7, <2>2 DEF HeapInv, NoSharedSector, Owns
  <2> QED BY <2>1, <2>2
<1> QED BY <1>10, <1>11 DEF HeapInv

LEMMA HeapFree ==
  ASSUME Typed, LockInv, HeapInv, NEW t \in Threads, FreeSector(t), OwnLocalsOnly(t),
         CallInv(t)
  PROVE  HeapInv'
<1> DEFINE n == node[t]
           p == Sectors[n][i[t] + 1]
<1>1. /\ n \in SectorNodes /\ VectorSize(n) \in Nat
      /\ i[t] \in Nat /\ wanted[t] <= i[t] /\ i[t] < VectorSize(n) /\ wanted[t] \in Nat
  BY SizeFacts DEF Typed, FreeSector, CallInv
<1>2. /\ heap' = heap \ {p} /\ Sectors' = Sectors
      /\ pc[t] = "free" /\ pc'[t] \in {"free", "shrink"} /\ i'[t] = i[t] + 1
      /\ UNCHANGED <<node, wanted>>
  BY DEF Typed, FreeSector, Goto, CurrentSector, arguments
<1>3. \A k : k \in Nat =>
        (ReleasedBy(t, n, k)' <=> ReleasedBy(t, n, k) \/ k = i[t] + 1)
  BY <1>1, <1>2 DEF ReleasedBy
<1>4. \A m \in SectorNodes \ {n} : \A k : Released(m, k)' <=> Released(m, k)
  BY <1>2, ReleasedByOthers DEF ReleasedBy
<1>5. \A k \in Nat : Released(n, k) <=> ReleasedBy(t, n, k)
  BY <1>2, ReleasedByHolder DEF HoldsExclusive
<1>6. \A k \in Nat : Released(n, k)' <=> ReleasedBy(t, n, k)'
  <2>1. ASSUME NEW u \in Threads \ {t}, NEW k \in Nat, ReleasedBy(u, n, k)' PROVE FALSE
    <3>1. HoldsExclusive(u) /\ node[u] = n /\ HoldsExclusive(t)
      BY <1>2, <2>1 DEF ReleasedBy, OwnLocalsOnly, HoldsExclusive
    <3> QED BY <1>1, <3>1 DEF LockInv
  <2> QED BY <2>1 DEF Released, ReleasedBy
<1>7. ASSUME NEW m \in SectorNodes, NEW c \in HeapSectors, NEW k
      PROVE  Owns(m, k, c)' <=> Owns(m, k, c) /\ ~(m = n /\ k = i[t] + 1)
  <2>1. CASE m = n
    <3>1. k \in 1 .. VectorSize(n) => k \in Nat
      BY <1>1
    <3> QED BY <1>1, <1>2, <1>3, <1>5, <1>6, <2>1, <3>1 DEF Owns, VectorSize
  <2>2. CASE m # n
    BY <1>2, <1>4, <2>2 DEF Owns, VectorSize
  <2> QED BY <2>1, <2>2
<1>8. p \in HeapSectors => Owns(n, i[t] + 1, p)
  BY <1>1, <1>2, <1>5 DEF Owns, ReleasedBy
<1>9. \A m \in SectorNodes : VectorSize(m)' = VectorSize(m)
  BY <1>2 DEF VectorSize
<1>10. HeapExact'
  <2>1. ASSUME NEW c \in HeapSectors, c \in heap'
        PROVE  \E m \in SectorNodes : \E k \in 1 .. VectorSize(m)' : Owns(m, k, c)'
    <3>1. c # p /\ c \in heap
      BY <1>2, <2>1
    <3>2. PICK m \in SectorNodes : \E k \in 1 .. VectorSize(m) : Owns(m, k, c)
      BY <3>1 DEF HeapInv, HeapExact
    <3>3. PICK k \in 1 .. VectorSize(m) : Owns(m, k, c)
      BY <3>2
    <3>4. ~(m = n /\ k = i[t] + 1)
      BY <3>1, <3>3 DEF Owns
    <3> QED BY <1>7, <1>9, <3>3, <3>4
  <2>2. ASSUME NEW c \in HeapSectors, NEW m \in SectorNodes, NEW k, Owns(m, k, c)'
        PROVE  c \in heap'
    <3>1. Owns(m, k, c) /\ ~(m = n /\ k = i[t] + 1) /\ k \in 1 .. VectorSize(m)
      BY <1>7, <2>2 DEF Owns
    <3>2. c \in heap
      BY <3>1 DEF HeapInv, HeapExact
    <3>3. c # p
      BY <1>1, <1>8, <3>1 DEF HeapInv, NoSharedSector
    <3> QED BY <1>2, <3>2, <3>3
  <2> QED BY <2>1, <2>2 DEF HeapExact
<1>11. NoSharedSector'
  BY <1>7, <1>9 DEF HeapInv, NoSharedSector
<1> QED BY <1>10, <1>11 DEF HeapInv

LEMMA HeapStep ==
  ASSUME Typed, LockInv, HeapInv, NEW t \in Threads, Step(t), CallInv(t)
  PROVE  HeapInv'
<1>0. OwnLocalsOnly(t)
  BY StepOwnLocals
<1>1. CASE LockExclusive(t)
  <2>1. UNCHANGED <<heap, Sectors>>
    BY <1>1 DEF LockExclusive
  <2>2. /\ pc[t] = "lock" /\ wanted' = wanted
        /\ pc'[t] \in {"reserve", "free", "return"}
        /\ pc'[t] = "free" => i'[t] = wanted[t] /\ wanted[t] \in Nat
    <3>1. VectorSize(node[t]) \in Nat
      BY <1>1, SizeFacts DEF LockExclusive, Typed
    <3> QED BY <1>1, <3>1 DEF LockExclusive, Typed, Goto, FirstChanged, MinOf, arguments
  <2>3. \A n, k : ~ReleasedBy(t, n, k) /\ (k \in Int => ~ReleasedBy(t, n, k)')
    BY <2>2 DEF ReleasedBy
  <2>4. \A n, k : k \in Int => (Released(n, k)' <=> Released(n, k))
    BY <1>0, <2>3, ReleasedByOthers
  <2>5. \A n \in SectorNodes, b \in HeapSectors : \A k : Owns(n, k, b)' <=> Owns(n, k, b)
    BY <2>1, <2>4, SizeFacts DEF Owns, VectorSize
  <2> QED BY <2>1, <2>5, HeapKept
<1>2. CASE Reserve(t) \/ GrowVectorThrows(t) \/ AllocSectorFails(t) \/ Subtract(t)
           \/ ReturnTrue(t) \/ HandleBadAlloc(t) \/ LockShared(t) \/ CopyLastSector(t)
  <2>1. /\ pc[t] \notin {"free", "shrink"} /\ pc'[t] \notin {"free", "shrink"}
        /\ UNCHANGED <<heap, Sectors>>
    BY <1>2, HandleBadAllocReturns
       DEF Reserve, GrowVectorThrows, AllocSectorFails, Subtract, ReturnTrue, LockShared,
           CopyLastSector, Return, Goto, Typed
  <2> QED BY <1>0, <2>1, HeapQuiet DEF ReleasedBy
<1>3. CASE CopySector(t)
  <2>1. pc[t] = "copy" /\ UNCHANGED <<heap, Sectors, pc>>
    BY <1>3 DEF CopySector
  <2> QED BY <1>0, <2>1, HeapQuiet DEF ReleasedBy
<1> QED BY <1>0, <1>1, <1>2, <1>3, HeapGrow, HeapAlloc, HeapFree, HeapShrink DEF Step

\* Whatever the threads do and whatever fails, the blocks taken from the heap
\* are the blocks in the vectors, each in one place.
LEMMA HeapIsInv == Spec => []HeapInv
<1>1. /\ Typed /\ LockInv /\ (\A t \in Threads : CallInv(t)) /\ HeapInv /\ [Next]_vars
      => HeapInv'
  <2> SUFFICES ASSUME Typed, LockInv, \A t \in Threads : CallInv(t), HeapInv, [Next]_vars
               PROVE  HeapInv'
    OBVIOUS
  <2>1. CASE Next
    BY <2>1, HeapCall, HeapStep DEF Next
  <2>2. CASE UNCHANGED vars
    BY <2>2
       DEF vars, arguments, locals, HeapInv, HeapExact, NoSharedSector, Owns, Released,
           VectorSize
  <2> QED BY <2>1, <2>2
<1> QED BY <1>1, HeapInit, TypesAreInv, LocksExclude, CallsKnowTheirVector, PTL DEF Spec

THEOREM HeapIsExact == Spec => []HeapExact
BY HeapIsInv, PTL DEF HeapInv

THEOREM SectorsAreNotShared == Spec => []NoSharedSector
BY HeapIsInv, PTL DEF HeapInv

-----------------------------------------------------------------------------
(* The ranges that are read and written. *)

\* A node's vector is as long as its caller was told, up to the moment a
\* shrinking call is about to tell it otherwise.
GrantedInv ==
  \A n \in SectorNodes :
    \/ granted[n] <= VectorSize(n)
    \/ \E u \in Threads : pc[u] \in {"subtract", "return"} /\ node[u] = n

\* A range being read or written lies in the vector, and no call under way
\* will cut it off.
RangeInv(t) ==
  InReadWrite(t) =>
    /\ size[t] > 0
    /\ RangeEnd(t) <= VectorSize(node[t])
    /\ \A u \in Threads : InReAllocate(u) /\ node[u] = node[t] => RangeEnd(t) <= wanted[u]

\* The copy loop stays inside the vector.
CopyInv(t) == pc[t] = "copy" => i[t] <= sectorEnd[t] /\ sectorEnd[t] < VectorSize(node[t])

RangesInv == GrantedInv /\ \A t \in Threads : RangeInv(t) /\ CopyInv(t)

LEMMA RangesInit == Init => RangesInv
BY DEF Init, RangesInv, GrantedInv, RangeInv, CopyInv, InReadWrite, VectorSize

\* How a step changes the length of the vectors: only growing and shrinking to
\* what the thread wants does.
LEMMA StepLengths ==
  ASSUME Typed, NEW t \in Threads, CallInv(t), Step(t), NEW n \in SectorNodes
  PROVE  \/ VectorSize(n)' = VectorSize(n)
         \/ /\ node[t] = n /\ node'[t] = n /\ VectorSize(n)' = wanted[t]
            /\ \/ VectorSize(n) < wanted[t]
               \/ pc'[t] = "subtract"
<1>1. CASE ~(HoldsExclusive(t) /\ node[t] = n)
  BY <1>1, StepVectors DEF VectorSize
<1>2. CASE HoldsExclusive(t) /\ node[t] = n
  <2>0. /\ Sectors[n] \in Seq(Pointers) /\ wanted[t] \in Nat /\ VectorSize(n) \in Nat
        /\ Sectors \in [SectorNodes -> Seq(Pointers)] /\ pc \in [Threads -> Labels]
    BY SizeFacts DEF Typed
  <2>1. CASE GrowVector(t)
    <3>1. Sectors'[n] = Resized(Sectors[n], wanted[t]) /\ node' = node
      BY <1>2, <2>0, <2>1 DEF GrowVector, arguments
    <3>2. VectorSize(n)' = wanted[t]
      BY <2>0, <3>1, ResizedFacts DEF VectorSize
    <3>3. VectorSize(n) < wanted[t]
      BY <1>2, <2>1 DEF GrowVector, CallInv
    <3> QED BY <1>2, <3>1, <3>2, <3>3
  <2>2. CASE ShrinkVector(t)
    <3>1. Sectors'[n] = Resized(Sectors[n], wanted[t])
      BY <1>2, <2>0, <2>2 DEF ShrinkVector
    <3>2. VectorSize(n)' = wanted[t]
      BY <2>0, <3>1, ResizedFacts DEF VectorSize
    <3>3. node' = node /\ pc'[t] = "subtract"
      BY <1>2, <2>0, <2>2 DEF ShrinkVector, arguments, Goto
    <3> QED BY <1>2, <3>2, <3>3
  <2>3. CASE AllocSector(t)
    <3>1. PICK p \in HeapSectors : Sectors' = [Sectors EXCEPT ![n] = [@ EXCEPT ![i[t] + 1] = p]]
      BY <1>2, <2>3 DEF AllocSector
    <3>2. i[t] + 1 \in 1 .. Len(Sectors[n])
      BY <1>2, <2>0, <2>3 DEF AllocSector, CallInv, VectorSize, Typed
    <3> QED BY <2>0, <3>1, <3>2, SetElementFacts DEF VectorSize, Pointers
  <2>4. CASE HandleBadAlloc(t)
    BY <2>4, HandleBadAllocReturns DEF VectorSize
  <2> QED BY <2>1, <2>2, <2>3, <2>4
          DEF Step, LockExclusive, Reserve, GrowVectorThrows, AllocSectorFails, FreeSector,
              Subtract, ReturnTrue, LockShared, CopySector, CopyLastSector, VectorSize
<1> QED BY <1>1, <1>2

\* A step returns to the caller or stays in its call with the same arguments.
LEMMA StepArguments ==
  ASSUME Typed, NEW t \in Threads, Step(t)
  PROVE  \/ pc'[t] = "idle"
         \/ /\ UNCHANGED arguments
            /\ InReAllocate(t)' <=> InReAllocate(t)
            /\ InReadWrite(t)' <=> InReadWrite(t)
<1>0. pc \in [Threads -> Labels]
  BY DEF Typed
<1>1. CASE ReturnTrue(t) \/ HandleBadAlloc(t) \/ CopyLastSector(t)
  BY <1>0, <1>1, HandleBadAllocReturns DEF ReturnTrue, CopyLastSector, Return, Goto
<1>2. CASE LockShared(t)
  BY <1>0, <1>2 DEF LockShared, Return, Goto, InReAllocate, InReadWrite
<1>3. CASE LockExclusive(t) \/ Reserve(t) \/ GrowVector(t) \/ GrowVectorThrows(t)
  BY <1>0, <1>3
     DEF LockExclusive, Reserve, GrowVector, GrowVectorThrows, Goto, InReAllocate, InReadWrite
<1>4. CASE AllocSector(t) \/ AllocSectorFails(t) \/ FreeSector(t) \/ ShrinkVector(t)
           \/ Subtract(t)
  BY <1>0, <1>4
     DEF AllocSector, AllocSectorFails, FreeSector, ShrinkVector, Subtract, Goto,
         InReAllocate, InReadWrite
<1>5. CASE CopySector(t)
  BY <1>5 DEF CopySector, InReAllocate, InReadWrite
<1> QED BY <1>1, <1>2, <1>3, <1>4, <1>5 DEF Step

LEMMA RangesCall ==
  ASSUME Typed, RangesInv, \A u \in Threads : CallInv(u), NEW t \in Threads, Call(t)
  PROVE  RangesInv'
<1>0. /\ pc \in [Threads -> Labels] /\ OwnLocalsOnly(t) /\ UNCHANGED <<Sectors, granted>>
      /\ pc[t] = "idle" /\ pc'[t] \in {"lock", "lockShared"}
  BY CallOwnLocals DEF Typed, Call, CallReAllocate, CallReadWrite, Goto
<1>1. \A u \in Threads \ {t} : RangeEnd(u)' = RangeEnd(u)
  BY <1>0 DEF OwnLocalsOnly, RangeEnd
<1>2. GrantedInv'
  BY <1>0 DEF RangesInv, GrantedInv, VectorSize, OwnLocalsOnly
<1>3. \A u \in Threads : CopyInv(u)'
  BY <1>0 DEF RangesInv, CopyInv, VectorSize, OwnLocalsOnly
<1>4. ASSUME NEW u \in Threads PROVE RangeInv(u)'
  <2>1. ASSUME NEW n \in SectorNodes, NEW newSize \in Bytes, CallReAllocate(t, n, newSize)
        PROVE  RangeInv(u)'
    <3>1. pc'[t] = "lock" /\ node'[t] = n /\ wanted'[t] = SectorsFor(newSize)
      BY <1>0, <2>1 DEF CallReAllocate, Enter, Goto, Typed
    <3>2. CASE u = t
      BY <3>1, <3>2 DEF RangeInv, InReadWrite
    <3>3. CASE u # t
      <4>1. InReadWrite(u) /\ node[u] = n => RangeEnd(u) <= SectorsFor(newSize)
        BY <2>1 DEF CallReAllocate
      <4>2. RangeInv(u)
        BY DEF RangesInv
      <4> QED BY <1>0, <1>1, <3>1, <3>3, <4>1, <4>2
              DEF RangeInv, InReadWrite, InReAllocate, OwnLocalsOnly, VectorSize
    <3> QED BY <3>2, <3>3
  <2>2. ASSUME NEW n \in SectorNodes, NEW o \in Bytes, NEW s \in Bytes,
               CallReadWrite(t, n, o, s)
        PROVE  RangeInv(u)'
    <3>1. /\ pc'[t] = "lockShared" /\ node'[t] = n /\ offset'[t] = o /\ size'[t] = s /\ s > 0
      BY <1>0, <2>2 DEF CallReadWrite, Enter, Goto, Typed
    <3>2. CASE u # t
      <4>1. RangeInv(u)
        BY DEF RangesInv
      <4> QED BY <1>0, <1>1, <3>1, <3>2, <4>1
              DEF RangeInv, InReadWrite, InReAllocate, OwnLocalsOnly, VectorSize
    <3>3. CASE u = t
      <4>1. \A v \in Threads : InReAllocate(v) /\ node[v] = n => SectorsFor(o + s) <= wanted[v]
        BY <2>2 DEF CallReadWrite
      <4>2. SectorsFor(o + s) <= granted[n]
        <5>1. o + s \in Nat /\ granted[n] \in Nat
          BY <2>2, BytesAreNat DEF Typed
        <5>2. o + s <= FULL_SECTOR_SIZE * granted[n]
          BY <2>2, <5>1, SectorSizeAssumption DEF CallReadWrite
        <5> QED BY <5>1, <5>2, SectorsForLeast
      <4>3. SectorsFor(o + s) <= VectorSize(n)
        <5>1. SectorsFor(o + s) \in Nat /\ granted[n] \in Nat /\ VectorSize(n) \in Nat
          <6>1. o + s \in Nat
            BY <2>2, BytesAreNat
          <6> QED BY <2>2, <6>1, SectorsForType, SizeFacts DEF Typed
        <5>2. CASE granted[n] <= VectorSize(n)
          BY <4>2, <5>1, <5>2
        <5>3. ASSUME NEW v \in Threads, pc[v] \in {"subtract", "return"}, node[v] = n
              PROVE  SectorsFor(o + s) <= VectorSize(n)
          <6>1. VectorSize(n) = wanted[v]
            BY <5>3 DEF CallInv
          <6> QED BY <4>1, <5>3, <6>1 DEF InReAllocate
        <5> QED BY <5>2, <5>3 DEF RangesInv, GrantedInv
      <4>4. RangeEnd(t)' = SectorsFor(o + s) /\ VectorSize(n)' = VectorSize(n)
        BY <1>0, <3>1 DEF RangeEnd, VectorSize
      <4> QED BY <1>0, <3>1, <3>3, <4>1, <4>3, <4>4
              DEF RangeInv, InReadWrite, InReAllocate, OwnLocalsOnly
    <3> QED BY <3>2, <3>3
  <2> QED BY <2>1, <2>2 DEF Call
<1> QED BY <1>2, <1>3, <1>4 DEF RangesInv

LEMMA RangesStep ==
  ASSUME Typed, LockInv, RangesInv, \A u \in Threads : CallInv(u),
         NEW t \in Threads, Step(t)
  PROVE  RangesInv'
<1>0. /\ pc \in [Threads -> Labels] /\ OwnLocalsOnly(t)
      /\ \A n \in SectorNodes : VectorSize(n) \in Nat /\ granted[n] \in Nat
      /\ \A u \in Threads : wanted[u] \in Nat /\ SectorsFor(offset[u] + size[u]) \in Nat
  <2>1. \A u \in Threads : wanted[u] \in Nat /\ offset[u] + size[u] \in Nat
    BY DEF Typed
  <2>2. \A n \in SectorNodes : VectorSize(n) \in Nat
    BY SizeFacts
  <2>3. \A u \in Threads : SectorsFor(offset[u] + size[u]) \in Nat
    BY <2>1, SectorsForType
  <2>4. pc \in [Threads -> Labels] /\ granted \in [SectorNodes -> Nat]
    BY DEF Typed
  <2> QED BY <2>1, <2>2, <2>3, <2>4, StepOwnLocals
<1>1. GrantedInv'
  <2> SUFFICES ASSUME NEW n \in SectorNodes
               PROVE  \/ granted'[n] <= VectorSize(n)'
                      \/ \E u \in Threads : pc'[u] \in {"subtract", "return"} /\ node'[u] = n
    BY DEF GrantedInv
  <2>1. CASE ReturnTrue(t)
    <3>1. /\ UNCHANGED Sectors /\ granted' = [granted EXCEPT ![node[t]] = wanted[t]]
          /\ VectorSize(node[t]) = wanted[t]
      BY <2>1 DEF ReturnTrue, CallInv
    <3>2. CASE node[t] = n
      BY <1>0, <3>1, <3>2 DEF VectorSize, Typed
    <3>3. CASE node[t] # n
      <4>1. granted'[n] = granted[n] /\ VectorSize(n)' = VectorSize(n)
        BY <3>1, <3>3 DEF VectorSize, Typed
      <4>2. pc[t] = "return"
        BY <2>1 DEF ReturnTrue
      <4>3. ASSUME NEW u \in Threads, pc[u] \in {"subtract", "return"}, node[u] = n
            PROVE  pc'[u] \in {"subtract", "return"} /\ node'[u] = n
        BY <1>0, <3>3, <4>3 DEF OwnLocalsOnly
      <4> QED BY <4>1, <4>3 DEF RangesInv, GrantedInv
    <3> QED BY <3>2, <3>3
  <2>2. CASE ~ReturnTrue(t)
    <3>1. granted' = granted
      BY <2>2, HandleBadAllocReturns
         DEF Step, LockExclusive, Reserve, GrowVector, GrowVectorThrows, AllocSector,
             AllocSectorFails, FreeSector, ShrinkVector, Subtract, LockShared, CopySector,
             CopyLastSector
    <3>2. pc[t] \in {"subtract", "return"} => pc'[t] = "return" /\ node'[t] = node[t]
      BY <2>2
         DEF Step, LockExclusive, Reserve, GrowVector, GrowVectorThrows, AllocSector,
             AllocSectorFails, FreeSector, ShrinkVector, Subtract, HandleBadAlloc, LockShared,
             CopySector, CopyLastSector, Goto, arguments, Typed
    <3>3. ASSUME NEW u \in Threads, pc[u] \in {"subtract", "return"}, node[u] = n
          PROVE  \E v \in Threads : pc'[v] \in {"subtract", "return"} /\ node'[v] = n
      BY <1>0, <3>2, <3>3 DEF OwnLocalsOnly
    <3>4. CASE granted[n] <= VectorSize(n)
      BY <1>0, <3>1, <3>4, StepLengths
    <3> QED BY <3>3, <3>4 DEF RangesInv, GrantedInv
  <2> QED BY <2>1, <2>2
<1>2. ASSUME NEW u \in Threads PROVE RangeInv(u)'
  <2> SUFFICES ASSUME InReadWrite(u)'
               PROVE  /\ size'[u] > 0
                      /\ RangeEnd(u)' <= VectorSize(node[u])'
                      /\ node'[u] = node[u]
                      /\ \A v \in Threads : InReAllocate(v)' /\ node'[v] = node[u]
                                              => RangeEnd(u)' <= wanted'[v]
    BY DEF RangeInv, VectorSize
  <2>1. \A v \in Threads : pc'[v] # "idle" =>
          /\ node'[v] = node[v] /\ wanted'[v] = wanted[v]
          /\ offset'[v] = offset[v] /\ size'[v] = size[v]
          /\ InReAllocate(v)' <=> InReAllocate(v)
          /\ InReadWrite(v)' <=> InReadWrite(v)
    BY <1>0, StepArguments DEF OwnLocalsOnly, arguments, InReAllocate, InReadWrite
  <2>2. InReadWrite(u) /\ node'[u] = node[u] /\ size'[u] = size[u] /\ RangeEnd(u)' = RangeEnd(u)
    BY <2>1 DEF InReadWrite, RangeEnd
  <2>3. /\ size[u] > 0 /\ RangeEnd(u) <= VectorSize(node[u]) /\ node[u] \in SectorNodes
        /\ \A v \in Threads : InReAllocate(v) /\ node[v] = node[u] => RangeEnd(u) <= wanted[v]
        /\ RangeEnd(u) \in Nat
    BY <1>0, <2>2 DEF RangesInv, RangeInv, InReadWrite, Typed, RangeEnd
  <2>4. \A v \in Threads : InReAllocate(v)' /\ node'[v] = node[u] => RangeEnd(u) <= wanted'[v]
    BY <2>1, <2>3 DEF InReAllocate
  <2>5. RangeEnd(u) <= Len(Sectors'[node[u]])
    <3>1. CASE VectorSize(node[u])' = VectorSize(node[u])
      BY <2>2, <2>3, <3>1 DEF VectorSize
    <3>2. CASE /\ node[t] = node[u] /\ Len(Sectors'[node[u]]) = wanted[t]
               /\ VectorSize(node[u]) < wanted[t]
      BY <1>0, <2>3, <3>2
    <3>3. CASE /\ node[t] = node[u] /\ Len(Sectors'[node[u]]) = wanted[t]
               /\ pc'[t] = "subtract"
      BY <2>1, <2>3, <3>3 DEF InReAllocate
    <3> QED BY <2>2, <2>3, <3>1, <3>2, <3>3, StepLengths DEF VectorSize
  <2> QED BY <2>2, <2>3, <2>4, <2>5 DEF VectorSize
<1>3. ASSUME NEW u \in Threads PROVE CopyInv(u)'
  <2>1. CASE u # t
    <3>1. HoldsShared(u) => Sectors'[node[u]] = Sectors[node[u]]
      BY <2>1, HeldVectorStable
    <3> QED BY <1>0, <2>1, <3>1
            DEF RangesInv, CopyInv, OwnLocalsOnly, VectorSize, HoldsShared
  <2>2. CASE u = t /\ LockShared(t)
    <3>1. CASE RangeRejected(t)
      BY <1>0, <2>2, <3>1 DEF LockShared, Return, Goto, CopyInv
    <3>2. CASE ~RangeRejected(t)
      <4>1. /\ node' = node /\ Sectors' = Sectors
            /\ i'[t] = OffsetSectorBegin(offset[t])
            /\ sectorEnd'[t] = SectorEnd(offset[t], size[t], VectorSize(node[t]))
        BY <2>2, <3>2 DEF LockShared, arguments, Typed
      <4>2. /\ offset[t] \in Nat /\ size[t] \in Nat \ {0} /\ VectorSize(node[t]) \in Nat
            /\ SectorsFor(offset[t] + size[t]) <= VectorSize(node[t])
        BY <1>0, <2>2 DEF LockShared, RangesInv, RangeInv, InReadWrite, RangeEnd, Typed
      <4>3. /\ OffsetSectorBegin(offset[t]) \in Nat
            /\ SectorEnd(offset[t], size[t], VectorSize(node[t]))
                 \in OffsetSectorBegin(offset[t]) .. VectorSize(node[t]) - 1
        BY <4>2, RangeInVectorIsSafe
      <4> QED BY <2>2, <4>1, <4>2, <4>3 DEF CopyInv, VectorSize
    <3> QED BY <3>1, <3>2
  <2>3. CASE u = t /\ CopySector(t)
    BY <2>3 DEF CopySector, RangesInv, CopyInv, arguments, VectorSize, Typed
  <2>4. CASE u = t /\ ~LockShared(t) /\ ~CopySector(t)
    <3>1. pc'[t] # "copy"
      BY <1>0, <2>4, HandleBadAllocReturns
         DEF Step, LockExclusive, Reserve, GrowVector, GrowVectorThrows, AllocSector,
             AllocSectorFails, FreeSector, ShrinkVector, Subtract, ReturnTrue,
             CopyLastSector, Return, Goto
    <3> QED BY <2>4, <3>1 DEF CopyInv
  <2> QED BY <2>1, <2>2, <2>3, <2>4
<1> QED BY <1>1, <1>2, <1>3 DEF RangesInv

LEMMA RangesAreInv == Spec => []RangesInv
<1>1. /\ Typed /\ LockInv /\ (\A t \in Threads : CallInv(t)) /\ RangesInv /\ [Next]_vars
      => RangesInv'
  <2> SUFFICES ASSUME Typed, LockInv, \A t \in Threads : CallInv(t), RangesInv, [Next]_vars
               PROVE  RangesInv'
    OBVIOUS
  <2>1. CASE Next
    BY <2>1, RangesCall, RangesStep DEF Next
  <2>2. CASE UNCHANGED vars
    BY <2>2
       DEF vars, arguments, locals, RangesInv, GrantedInv, RangeInv, CopyInv, RangeEnd,
           InReadWrite, InReAllocate, VectorSize
  <2> QED BY <2>1, <2>2
<1> QED BY <1>1, RangesInit, TypesAreInv, LocksExclude, CallsKnowTheirVector, PTL DEF Spec

\* A range below the granted size is never rejected, in any interleaving with
\* calls that resize the node.
THEOREM GrantedRangesAreAccepted == Spec => []GrantedRangeAccepted
<1>1. Typed /\ RangesInv => GrantedRangeAccepted
  <2> SUFFICES ASSUME Typed, RangesInv, NEW t \in Threads, pc[t] = "lockShared"
               PROVE  ~RangeRejected(t)
    BY DEF GrantedRangeAccepted
  <2>1. /\ offset[t] \in Nat /\ size[t] \in Nat \ {0} /\ VectorSize(node[t]) \in Nat
        /\ SectorsFor(offset[t] + size[t]) <= VectorSize(node[t])
    BY SizeFacts DEF RangesInv, RangeInv, InReadWrite, RangeEnd, Typed
  <2> QED BY <2>1, RangeInVectorIsSafe DEF RangeRejected
<1> QED BY <1>1, TypesAreInv, RangesAreInv, PTL

\* What ReadWrite copies from or to lies inside the vector and was not given
\* back to the heap, in any interleaving and whatever allocation fails.
THEOREM CopiesAreSafe == Spec => []CopiesNoFreedSector
<1>1. Typed /\ LockInv /\ RangesInv /\ HeapInv => CopiesNoFreedSector
  <2> SUFFICES ASSUME Typed, LockInv, RangesInv, HeapInv, NEW t \in Threads, pc[t] = "copy"
               PROVE  /\ i[t] < VectorSize(node[t])
                      /\ CurrentSector(t) \in heap \cup {nullptr}
    BY DEF CopiesNoFreedSector
  <2>1. /\ node[t] \in SectorNodes /\ VectorSize(node[t]) \in Nat /\ i[t] \in Nat
        /\ i[t] <= sectorEnd[t] /\ sectorEnd[t] < VectorSize(node[t]) /\ sectorEnd[t] \in Int
    BY SizeFacts DEF RangesInv, CopyInv, Typed
  <2>2. i[t] < VectorSize(node[t]) /\ i[t] + 1 \in 1 .. VectorSize(node[t])
    BY <2>1
  <2>3. ~Released(node[t], i[t] + 1)
    <3>1. \A u \in Threads : ~(HoldsExclusive(u) /\ node[u] = node[t])
      BY <2>1 DEF LockInv, HoldsShared
    <3> QED BY <3>1 DEF Released, HoldsExclusive
  <2>4. CurrentSector(t) \in HeapSectors \cup {nullptr}
    BY <2>1, <2>2, SizeFacts DEF CurrentSector, Pointers
  <2>5. CurrentSector(t) \in HeapSectors => CurrentSector(t) \in heap
    BY <2>1, <2>2, <2>3 DEF CurrentSector, HeapInv, HeapExact, Owns
  <2> QED BY <2>2, <2>4, <2>5
<1> QED BY <1>1, TypesAreInv, LocksExclude, RangesAreInv, HeapIsInv, PTL

-----------------------------------------------------------------------------
(* The counter. *)

ReservedBy(t, n, k) ==
  /\ node[t] = n
  /\ \/ pc[t] = "resize" /\ vectorSize[t] < k /\ k <= wanted[t]
     \/ pc[t] = "subtract" /\ wanted[t] < k /\ k <= vectorSize[t]

Counted(n, k) == k \in 1 .. VectorSize(n) \/ \E t \in Threads : ReservedBy(t, n, k)

CountedSlotsForm == CountedSlots = {s \in SectorNodes \X Nat : Counted(s[1], s[2])}

LEMMA CountedSlotsAre == Typed => CountedSlotsForm
<1> SUFFICES ASSUME Typed
             PROVE  CountedSlots = {s \in SectorNodes \X Nat : Counted(s[1], s[2])}
  BY DEF CountedSlotsForm
<1>1. \A n \in SectorNodes : VectorSize(n) \in Nat
  BY SizeFacts
<1>2. \A t \in Threads :
        Reserved(t) = {s \in SectorNodes \X Nat : ReservedBy(t, s[1], s[2])}
  <2> SUFFICES ASSUME NEW t \in Threads
               PROVE  Reserved(t) = {s \in SectorNodes \X Nat : ReservedBy(t, s[1], s[2])}
    OBVIOUS
  <2>1. /\ vectorSize[t] \in Nat /\ wanted[t] \in Nat
        /\ pc[t] # "idle" => node[t] \in SectorNodes
    BY DEF Typed
  <2> QED BY <2>1 DEF Reserved, ReservedBy
<1>3. Slots = {s \in SectorNodes \X Nat : s[2] \in 1 .. VectorSize(s[1])}
  BY <1>1 DEF Slots
<1> QED BY <1>2, <1>3 DEF CountedSlots, Counted

LEMMA CountedSlotsAreAfter == Typed' => CountedSlotsForm'
BY CountedSlotsAre, PTL

\* The sectors from a to b of one node.
Span(n, a, b) == {n} \X (a + 1 .. b)

LEMMA SpanSize ==
  ASSUME NEW n, NEW a \in Nat, NEW b \in Nat, a < b
  PROVE  IsFiniteSet(Span(n, a, b)) /\ Cardinality(Span(n, a, b)) = b - a
<1>1. IsFiniteSet(a + 1 .. b) /\ Cardinality(a + 1 .. b) = b - a
  BY FS_Interval
<1>2. IsFiniteSet({n}) /\ Cardinality({n}) = 1
  BY FS_Singleton
<1>3. /\ IsFiniteSet({n} \X (a + 1 .. b))
      /\ Cardinality({n} \X (a + 1 .. b)) = Cardinality({n}) * Cardinality(a + 1 .. b)
  BY <1>1, <1>2, FS_Product
<1> QED BY <1>1, <1>2, <1>3 DEF Span

LEMMA AddSpan ==
  ASSUME NEW S, IsFiniteSet(S), NEW n, NEW a \in Nat, NEW b \in Nat, a < b,
         Span(n, a, b) \cap S = {}
  PROVE  /\ IsFiniteSet(S \cup Span(n, a, b))
         /\ Cardinality(S \cup Span(n, a, b)) = Cardinality(S) + b - a
<1>1. IsFiniteSet(Span(n, a, b)) /\ Cardinality(Span(n, a, b)) = b - a
  BY SpanSize
<1>2. Cardinality(S \cap Span(n, a, b)) = 0
  BY FS_EmptySet
<1>3. /\ IsFiniteSet(S \cup Span(n, a, b))
      /\ Cardinality(S \cup Span(n, a, b))
           = Cardinality(S) + Cardinality(Span(n, a, b)) - Cardinality(S \cap Span(n, a, b))
  BY <1>1, FS_Union
<1>4. Cardinality(S) \in Nat
  BY FS_CardinalityType
<1> QED BY <1>1, <1>2, <1>3, <1>4

LEMMA RemoveSpan ==
  ASSUME NEW S, IsFiniteSet(S), NEW n, NEW a \in Nat, NEW b \in Nat, a < b,
         Span(n, a, b) \subseteq S
  PROVE  /\ IsFiniteSet(S \ Span(n, a, b))
         /\ Cardinality(S \ Span(n, a, b)) = Cardinality(S) - (b - a)
<1> DEFINE R == S \ Span(n, a, b)
<1>1. IsFiniteSet(R) /\ Span(n, a, b) \cap R = {} /\ R \cup Span(n, a, b) = S
  BY FS_Subset
<1> HIDE DEF R
<1>2. Cardinality(S) = Cardinality(R) + b - a
  BY <1>1, AddSpan
<1>3. Cardinality(R) \in Int
  BY <1>1, FS_CardinalityType
<1> QED BY <1>1, <1>2, <1>3 DEF R

\* Only the holder of n's mutex has sectors of n pending.
HolderCounts ==
  \A t \in Threads : HoldsExclusive(t) =>
    \A k : Counted(node[t], k) <=>
            k \in 1 .. VectorSize(node[t]) \/ ReservedBy(t, node[t], k)

LEMMA CountedByHolder == Typed /\ LockInv => HolderCounts
<1> SUFFICES ASSUME Typed, LockInv, NEW t \in Threads, HoldsExclusive(t), NEW k
             PROVE  Counted(node[t], k) <=>
                      k \in 1 .. VectorSize(node[t]) \/ ReservedBy(t, node[t], k)
  BY DEF HolderCounts
<1>1. node[t] \in SectorNodes
  BY DEF Typed, HoldsExclusive
<1>2. ASSUME NEW u \in Threads, ReservedBy(u, node[t], k) PROVE u = t
  <2>1. HoldsExclusive(u) /\ node[u] = node[t]
    BY <1>2 DEF ReservedBy, HoldsExclusive
  <2> QED BY <1>1, <2>1 DEF LockInv
<1> QED BY <1>2 DEF Counted

LEMMA CountedByHolderAfter == Typed' /\ LockInv' => HolderCounts'
BY CountedByHolder, PTL

LEMMA CountedOthers ==
  ASSUME Typed, NEW t \in Threads, Step(t), NEW n \in SectorNodes, NEW k,
         VectorSize(n)' = VectorSize(n),
         ReservedBy(t, n, k)' <=> ReservedBy(t, n, k)
  PROVE  Counted(n, k)' <=> Counted(n, k)
<1>1. \A u \in Threads : ReservedBy(u, n, k)' <=> ReservedBy(u, n, k)
  BY StepOwnLocals DEF OwnLocalsOnly, ReservedBy
<1> QED BY <1>1 DEF Counted

\* Reserve and Subtract move the counter by what they add to or take from the
\* counted slots; a throwing resize forgets the slots it was to add; no other
\* step changes either.
LEMMA CountedStep ==
  ASSUME Typed, LockInv, NEW t \in Threads, CallInv(t), Step(t)
  PROVE  \/ /\ Reserve(t)
            /\ CountedSlots' = CountedSlots \cup Span(node[t], vectorSize[t], wanted[t])
            /\ Span(node[t], vectorSize[t], wanted[t]) \cap CountedSlots = {}
         \/ /\ Subtract(t)
            /\ CountedSlots' = CountedSlots \ Span(node[t], wanted[t], vectorSize[t])
            /\ Span(node[t], wanted[t], vectorSize[t]) \subseteq CountedSlots
         \/ /\ GrowVectorThrows(t)
            /\ CountedSlots' \subseteq CountedSlots
            /\ CountedSlots # {}
         \/ ~GrowVectorThrows(t) /\ UNCHANGED <<CountedSlots, allocatedSectors>>
<1> DEFINE n == node[t]
<1>0. /\ Typed' /\ vectorSize[t] \in Nat /\ wanted[t] \in Nat /\ i[t] \in Nat
      /\ \A m \in SectorNodes : VectorSize(m) \in Nat
      /\ pc \in [Threads -> Labels]
      /\ pc[t] # "idle" => n \in SectorNodes
  <2>1. \A m \in SectorNodes : VectorSize(m) \in Nat
    BY SizeFacts
  <2> QED BY <2>1, TypeStep DEF Typed
<1>1. /\ CountedSlots = {s \in SectorNodes \X Nat : Counted(s[1], s[2])}
      /\ CountedSlots' = {s \in SectorNodes \X Nat : Counted(s[1], s[2])'}
  BY <1>0, CountedSlotsAre, CountedSlotsAreAfter DEF CountedSlotsForm
<1>2. ASSUME UNCHANGED allocatedSectors,
             \A m \in SectorNodes : VectorSize(m)' = VectorSize(m),
             pc[t] \notin {"resize", "subtract"}, pc'[t] \notin {"resize", "subtract"}
      PROVE  UNCHANGED <<CountedSlots, allocatedSectors>>
  <2>1. \A m \in SectorNodes, k \in Nat : Counted(m, k)' <=> Counted(m, k)
    BY <1>2, CountedOthers DEF ReservedBy
  <2> QED BY <1>1, <1>2, <2>1
<1>3. \A m \in SectorNodes, k \in Nat : m # n =>
        /\ VectorSize(m)' = VectorSize(m)
        /\ node'[t] = n => (Counted(m, k)' <=> Counted(m, k))
  <2>1. \A m \in SectorNodes : m # n => VectorSize(m)' = VectorSize(m)
    BY StepVectors DEF VectorSize
  <2> QED BY <2>1, CountedOthers DEF ReservedBy
<1>4. HoldsExclusive(t) => \A k : Counted(n, k) <=> k \in 1 .. VectorSize(n) \/ ReservedBy(t, n, k)
  BY CountedByHolder DEF HolderCounts
<1>5. HoldsExclusive(t)' /\ node'[t] = n =>
        \A k : Counted(n, k)' <=> k \in 1 .. Len(Sectors'[n]) \/ ReservedBy(t, n, k)'
  <2>1. LockInv'
    BY LockStep
  <2> QED BY <1>0, <2>1, CountedByHolderAfter DEF HolderCounts, VectorSize
<1>6. CASE Reserve(t)
  <2>1. /\ pc[t] = "reserve" /\ pc'[t] = "resize" /\ VectorSize(n) = vectorSize[t]
        /\ vectorSize[t] < wanted[t] /\ UNCHANGED <<Sectors, node, vectorSize, wanted>>
    BY <1>0, <1>6 DEF Reserve, CallInv, Goto, arguments, locals
  <2>2. \A k \in Nat :
          /\ Counted(n, k) <=> k \in 1 .. vectorSize[t]
          /\ Counted(n, k)' <=> k \in 1 .. vectorSize[t] \/ (vectorSize[t] < k /\ k <= wanted[t])
    BY <1>0, <1>4, <1>5, <2>1 DEF HoldsExclusive, ReservedBy, VectorSize
  <2> QED BY <1>0, <1>1, <1>3, <1>6, <2>1, <2>2 DEF Span
<1>7. CASE GrowVector(t)
  <2>1. /\ pc[t] = "resize" /\ pc'[t] = "alloc" /\ VectorSize(n) = vectorSize[t]
        /\ vectorSize[t] < wanted[t]
        /\ UNCHANGED <<node, vectorSize, wanted, allocatedSectors>>
        /\ Len(Sectors'[n]) = wanted[t]
    <3>1. Sectors'[n] = Resized(Sectors[n], wanted[t]) /\ Sectors[n] \in Seq(Pointers)
      BY <1>0, <1>7 DEF GrowVector, Typed
    <3>2. Len(Sectors'[n]) = wanted[t]
      BY <1>0, <3>1, ResizedFacts
    <3> QED BY <1>0, <1>7, <3>2 DEF GrowVector, CallInv, Goto, arguments, locals
  <2>2. \A k \in Nat : Counted(n, k)' <=> Counted(n, k)
    BY <1>0, <1>4, <1>5, <2>1 DEF HoldsExclusive, ReservedBy
  <2>3. ~GrowVectorThrows(t)
    BY <1>0, <2>1 DEF GrowVectorThrows, Goto
  <2> QED BY <1>1, <1>3, <2>1, <2>2, <2>3
<1>8. CASE GrowVectorThrows(t)
  <2>1. /\ pc[t] = "resize" /\ pc'[t] = "failed" /\ VectorSize(n) = vectorSize[t]
        /\ vectorSize[t] < wanted[t] /\ UNCHANGED <<Sectors, node, vectorSize, wanted>>
    BY <1>0, <1>8 DEF GrowVectorThrows, CallInv, Goto, arguments, locals
  <2>2. \A k \in Nat : Counted(n, k)' => Counted(n, k)
    BY <1>0, <1>4, <1>5, <2>1 DEF HoldsExclusive, ReservedBy, VectorSize
  <2>3. Counted(n, wanted[t])
    BY <1>0, <1>4, <2>1 DEF HoldsExclusive, ReservedBy
  <2>4. <<n, wanted[t]>> \in CountedSlots
    BY <1>0, <1>1, <2>1, <2>3
  <2> QED BY <1>1, <1>3, <1>8, <2>1, <2>2, <2>4
<1>9. CASE ShrinkVector(t)
  <2>1. /\ pc[t] = "shrink" /\ pc'[t] = "subtract" /\ VectorSize(n) = vectorSize[t]
        /\ wanted[t] < vectorSize[t]
        /\ UNCHANGED <<node, vectorSize, wanted, allocatedSectors>>
        /\ Len(Sectors'[n]) = wanted[t]
    <3>1. Sectors'[n] = Resized(Sectors[n], wanted[t]) /\ Sectors[n] \in Seq(Pointers)
      BY <1>0, <1>9 DEF ShrinkVector, Typed
    <3>2. Len(Sectors'[n]) = wanted[t]
      BY <1>0, <3>1, ResizedFacts
    <3> QED BY <1>0, <1>9, <3>2 DEF ShrinkVector, CallInv, Goto, arguments, locals
  <2>2. \A k \in Nat : Counted(n, k)' <=> Counted(n, k)
    BY <1>0, <1>4, <1>5, <2>1 DEF HoldsExclusive, ReservedBy
  <2>3. ~GrowVectorThrows(t)
    BY <1>0, <2>1 DEF GrowVectorThrows, Goto
  <2> QED BY <1>1, <1>3, <2>1, <2>2, <2>3
<1>10. CASE Subtract(t)
  <2>1. /\ pc[t] = "subtract" /\ pc'[t] = "return" /\ VectorSize(n) = wanted[t]
        /\ wanted[t] < vectorSize[t] /\ UNCHANGED <<Sectors, node, vectorSize, wanted>>
    BY <1>0, <1>10 DEF Subtract, CallInv, Goto, arguments, locals
  <2>2. \A k \in Nat :
          /\ Counted(n, k)' <=> k \in 1 .. wanted[t]
          /\ Counted(n, k) <=> k \in 1 .. wanted[t] \/ (wanted[t] < k /\ k <= vectorSize[t])
    BY <1>0, <1>4, <1>5, <2>1 DEF HoldsExclusive, ReservedBy, VectorSize
  <2> QED BY <1>0, <1>1, <1>3, <1>10, <2>1, <2>2 DEF Span
<1>11. CASE ~Reserve(t) /\ ~GrowVector(t) /\ ~GrowVectorThrows(t) /\ ~ShrinkVector(t) /\ ~Subtract(t)
  <2>1. UNCHANGED allocatedSectors /\ pc[t] \notin {"resize", "subtract"}
        /\ pc'[t] \notin {"resize", "subtract"}
    BY <1>0, <1>11, HandleBadAllocReturns
       DEF Step, LockExclusive, AllocSector, AllocSectorFails, FreeSector, ReturnTrue,
           LockShared, CopySector, CopyLastSector, Return, Goto
  <2>2. \A m \in SectorNodes : VectorSize(m)' = VectorSize(m)
    <3>1. CASE AllocSector(t)
      BY <1>0, <3>1, StepLengths DEF AllocSector, CallInv, Goto
    <3>2. CASE ~AllocSector(t)
      BY <1>11, <3>2, HandleBadAllocReturns
         DEF Step, LockExclusive, AllocSectorFails, FreeSector, ReturnTrue, LockShared,
             CopySector, CopyLastSector, VectorSize
    <3> QED BY <3>1, <3>2
  <2> QED BY <1>2, <1>11, <2>1, <2>2
<1> QED BY <1>6, <1>7, <1>8, <1>9, <1>10, <1>11

LEMMA CountedCall ==
  ASSUME Typed, NEW t \in Threads, Call(t)
  PROVE  UNCHANGED <<CountedSlots, allocatedSectors>>
<1>1. /\ pc[t] = "idle" /\ pc'[t] \in {"lock", "lockShared"}
      /\ UNCHANGED <<Sectors, allocatedSectors>>
  BY DEF Call, CallReAllocate, CallReadWrite, Goto, Typed
<1>2. \A u \in Threads : Reserved(u)' = Reserved(u)
  BY <1>1, CallOwnLocals DEF OwnLocalsOnly, Reserved
<1> QED BY <1>1, <1>2 DEF CountedSlots, Slots, VectorSize

LEMMA SlotsAreCounted ==
  Typed /\ IsFiniteSet(CountedSlots)
    => IsFiniteSet(Slots) /\ Cardinality(Slots) <= Cardinality(CountedSlots)
BY FS_Subset DEF CountedSlots

\* The counter is never below the slots counted.
CounterInv == IsFiniteSet(CountedSlots) /\ Cardinality(CountedSlots) <= allocatedSectors

LEMMA CountedInit == Init => CountedSlots = {} /\ allocatedSectors = 0
BY DEF Init, CountedSlots, Slots, Reserved, VectorSize

\* How one step moves the number of counted slots and the counter.
LEMMA CounterStep ==
  ASSUME Typed, LockInv, NEW t \in Threads, CallInv(t), Step(t), IsFiniteSet(CountedSlots)
  PROVE  /\ IsFiniteSet(CountedSlots')
         /\ allocatedSectors' - allocatedSectors
              = (IF GrowVectorThrows(t)
                 THEN 0 ELSE Cardinality(CountedSlots') - Cardinality(CountedSlots))
         /\ GrowVectorThrows(t) =>
              Cardinality(CountedSlots') <= Cardinality(CountedSlots) /\ CountedSlots # {}
<1>0. /\ allocatedSectors \in Int /\ vectorSize[t] \in Nat /\ wanted[t] \in Nat
      /\ Cardinality(CountedSlots) \in Nat
  BY FS_CardinalityType DEF Typed
<1>1. CASE /\ Reserve(t)
           /\ CountedSlots' = CountedSlots \cup Span(node[t], vectorSize[t], wanted[t])
           /\ Span(node[t], vectorSize[t], wanted[t]) \cap CountedSlots = {}
  <2>1. /\ allocatedSectors' = allocatedSectors + wanted[t] - vectorSize[t]
        /\ vectorSize[t] < wanted[t] /\ ~GrowVectorThrows(t)
    BY <1>1 DEF Reserve, CallInv, GrowVectorThrows
  <2>2. /\ IsFiniteSet(CountedSlots')
        /\ Cardinality(CountedSlots') = Cardinality(CountedSlots) + wanted[t] - vectorSize[t]
    BY <1>0, <1>1, <2>1, AddSpan
  <2> QED BY <1>0, <2>1, <2>2
<1>2. CASE /\ Subtract(t)
           /\ CountedSlots' = CountedSlots \ Span(node[t], wanted[t], vectorSize[t])
           /\ Span(node[t], wanted[t], vectorSize[t]) \subseteq CountedSlots
  <2>1. /\ allocatedSectors' = allocatedSectors - (vectorSize[t] - wanted[t])
        /\ wanted[t] < vectorSize[t] /\ ~GrowVectorThrows(t)
    BY <1>2 DEF Subtract, CallInv, GrowVectorThrows
  <2>2. /\ IsFiniteSet(CountedSlots')
        /\ Cardinality(CountedSlots') = Cardinality(CountedSlots) - (vectorSize[t] - wanted[t])
    BY <1>0, <1>2, <2>1, RemoveSpan
  <2> QED BY <1>0, <2>1, <2>2
<1>3. CASE GrowVectorThrows(t) /\ CountedSlots' \subseteq CountedSlots /\ CountedSlots # {}
  <2>1. allocatedSectors' = allocatedSectors
    BY <1>3 DEF GrowVectorThrows
  <2>2. IsFiniteSet(CountedSlots') /\ Cardinality(CountedSlots') <= Cardinality(CountedSlots)
    BY <1>3, FS_Subset
  <2> QED BY <1>0, <1>3, <2>1, <2>2
<1>4. CASE ~GrowVectorThrows(t) /\ UNCHANGED <<CountedSlots, allocatedSectors>>
  BY <1>0, <1>4
<1> QED BY <1>1, <1>2, <1>3, <1>4, CountedStep

LEMMA CounterIsInv == Spec => []CounterInv
<1>1. Init => CounterInv
  BY CountedInit, FS_EmptySet DEF CounterInv
<1>2. /\ Typed /\ LockInv /\ (\A t \in Threads : CallInv(t)) /\ CounterInv /\ [Next]_vars
      => CounterInv'
  <2> SUFFICES ASSUME Typed, LockInv, \A t \in Threads : CallInv(t), CounterInv, [Next]_vars
               PROVE  CounterInv'
    OBVIOUS
  <2>0. allocatedSectors \in Int /\ Cardinality(CountedSlots) \in Nat
    BY FS_CardinalityType DEF CounterInv, Typed
  <2>1. ASSUME NEW t \in Threads, Call(t) PROVE CounterInv'
    BY <2>1, CountedCall DEF CounterInv
  <2>2. ASSUME NEW t \in Threads, Step(t) PROVE CounterInv'
    <3>1. Typed'
      BY <2>2, TypeStep
    <3>2. IsFiniteSet(CountedSlots')
      BY <2>2, CounterStep DEF CounterInv
    <3>3. allocatedSectors' \in Int /\ Cardinality(CountedSlots') \in Nat
      BY <3>1, <3>2, FS_CardinalityType DEF Typed
    <3> QED BY <2>0, <2>2, <3>2, <3>3, CounterStep DEF CounterInv
  <2>3. CASE UNCHANGED vars
    <3>1. Slots' = Slots
      BY <2>3 DEF vars, Slots, VectorSize
    <3>2. \A t \in Threads : Reserved(t)' = Reserved(t)
      BY <2>3 DEF vars, arguments, locals, Reserved
    <3> QED BY <2>3, <3>1, <3>2 DEF vars, CounterInv, CountedSlots
  <2> QED BY <2>1, <2>2, <2>3 DEF Next
<1> QED BY <1>1, <1>2, TypesAreInv, LocksExclude, CallsKnowTheirVector, PTL DEF Spec

\* Whatever fails, the counter never says less than the vectors hold.
THEOREM CounterIsNeverBelow == Spec => []CounterNeverUnderReports
<1>1. Typed /\ CounterInv => CounterNeverUnderReports
  <2> SUFFICES ASSUME Typed, CounterInv PROVE allocatedSectors >= Cardinality(Slots)
    BY DEF CounterNeverUnderReports
  <2>1. IsFiniteSet(Slots) /\ Cardinality(Slots) <= Cardinality(CountedSlots)
    BY SlotsAreCounted DEF CounterInv
  <2>2. Cardinality(Slots) \in Nat /\ Cardinality(CountedSlots) \in Nat
    BY <2>1, FS_CardinalityType DEF CounterInv
  <2> QED BY <2>1, <2>2 DEF CounterInv, Typed
<1> QED BY <1>1, TypesAreInv, CounterIsInv, PTL

\* Every variable keeps its type for any threads, nodes, heap and sector size,
\* and the counter, unsigned in the code, never wraps below zero.
THEOREM TypeCorrect == Spec => []TypeOK
<1>1. Typed /\ CounterInv => TypeOK
  <2> SUFFICES ASSUME Typed, CounterInv PROVE allocatedSectors >= 0
    BY DEF TypeOK
  <2>1. Cardinality(CountedSlots) \in Nat
    BY FS_CardinalityType DEF CounterInv
  <2> QED BY <2>1 DEF CounterInv, Typed
<1> QED BY <1>1, TypesAreInv, CounterIsInv, PTL

\* When growing a vector never throws, the counter is exact at every step,
\* calls under way included: interleaved calls lose no update of it.
THEOREM CounterIsExact ==
  ASSUME ThrowBound = 0
  PROVE  Spec => []CounterExact
<1> DEFINE Inv == IsFiniteSet(CountedSlots) /\ CounterExact
<1>1. Init => Inv
  BY CountedInit, FS_EmptySet DEF CounterExact
<1>2. Typed /\ LockInv /\ (\A t \in Threads : CallInv(t)) /\ Inv /\ [Next]_vars => Inv'
  <2> SUFFICES ASSUME Typed, LockInv, \A t \in Threads : CallInv(t), Inv, [Next]_vars
               PROVE  Inv'
    OBVIOUS
  <2>0. allocatedSectors \in Int /\ Cardinality(CountedSlots) \in Nat
    BY FS_CardinalityType DEF Typed
  <2>1. ASSUME NEW t \in Threads, Call(t) PROVE Inv'
    BY <2>1, CountedCall DEF CounterExact
  <2>2. ASSUME NEW t \in Threads, Step(t) PROVE Inv'
    <3>1. Typed'
      BY <2>2, TypeStep
    <3>2. IsFiniteSet(CountedSlots')
      BY <2>2, CounterStep
    <3>3. allocatedSectors' \in Int /\ Cardinality(CountedSlots') \in Nat
      BY <3>1, <3>2, FS_CardinalityType DEF Typed
    <3>4. ~GrowVectorThrows(t)
      <4>1. CountedSlots # {} => allocatedSectors > 0
        BY <2>0, FS_EmptySet DEF CounterExact
      <4>2. GrowVectorThrows(t) => CountedSlots # {} /\ allocatedSectors <= 0
        BY <2>2, CounterStep DEF GrowVectorThrows
      <4> QED BY <2>0, <4>1, <4>2
    <3> QED BY <2>0, <2>2, <3>2, <3>3, <3>4, CounterStep DEF CounterExact
  <2>3. CASE UNCHANGED vars
    <3>1. Slots' = Slots
      BY <2>3 DEF vars, Slots, VectorSize
    <3>2. \A t \in Threads : Reserved(t)' = Reserved(t)
      BY <2>3 DEF vars, arguments, locals, Reserved
    <3> QED BY <2>3, <3>1, <3>2 DEF vars, CounterExact, CountedSlots
  <2> QED BY <2>1, <2>2, <2>3 DEF Next
<1> QED BY <1>1, <1>2, TypesAreInv, LocksExclude, CallsKnowTheirVector, PTL DEF Spec

-----------------------------------------------------------------------------
(* What callers see of a node. *)

CallsInv == \A t \in Threads : CallInv(t)

\* The invariant of the refinement.
RefinementInv == Typed /\ LockInv /\ CallsInv /\ HeapInv /\ RangesInv

LEMMA RefinementInvHolds == Spec => []RefinementInv
BY TypesAreInv, LocksExclude, CallsKnowTheirVector, HeapIsInv, RangesAreInv, PTL
   DEF RefinementInv, CallsInv

Seen(t) == MinOf(wanted[t], vectorSize[t])

LEMMA PrefixFacts ==
  ASSUME NEW vector \in Seq(Pointers), NEW n \in 0 .. Len(vector)
  PROVE  /\ SubSeq(vector, 1, n) \in Seq(Pointers)
         /\ Len(SubSeq(vector, 1, n)) = n
         /\ \A k \in 1 .. n : SubSeq(vector, 1, n)[k] = vector[k]
         /\ n = Len(vector) => SubSeq(vector, 1, n) = vector
<1>1. Len(vector) \in Nat
  BY LenProperties
<1>2. CASE n = 0
  BY <1>1, <1>2, SubSeqProperties, SubSeqFull
<1>3. CASE n > 0
  <2>1. 1 \in 1 .. Len(vector) + 1 /\ n \in 1 - 1 .. Len(vector)
    BY <1>1, <1>3
  <2> QED BY <1>1, <1>3, <2>1, SubSeqProperties, SubSeqFull
<1> QED BY <1>2, <1>3

\* A node nobody holds exclusively is seen as it is; a held one up to what its
\* holder neither adds nor cuts off.
LEMMA VisibleAtRest ==
  ASSUME NEW n \in SectorNodes, exclusive[n] = {}
  PROVE  VisibleSectors(n) = Sectors[n]
BY DEF VisibleSectors

LEMMA VisibleWhenHeld ==
  ASSUME Typed, LockInv, NEW t \in Threads, HoldsExclusive(t)
  PROVE  /\ VisibleSectors(node[t]) = SubSeq(Sectors[node[t]], 1, Seen(t))
         /\ exclusive[node[t]] = {t}
<1>1. node[t] \in SectorNodes
  BY DEF Typed, HoldsExclusive
<1>2. t \in exclusive[node[t]] /\ \A u \in exclusive[node[t]] : u = t
  BY <1>1 DEF LockInv
<1>3. exclusive[node[t]] = {t}
  BY <1>2
<1>4. (CHOOSE u \in Threads : u \in exclusive[node[t]]) = t
  BY <1>3
<1> QED BY <1>3, <1>4 DEF VisibleSectors, Seen

LEMMA HolderExists ==
  ASSUME Typed, LockInv, NEW n \in SectorNodes, exclusive[n] # {}
  PROVE  \E t \in Threads : HoldsExclusive(t) /\ node[t] = n
BY DEF Typed, LockInv

\* While t holds its node, what is seen of it lies in the vector.
LEMMA SeenInVector ==
  ASSUME Typed, NEW t \in Threads, HoldsExclusive(t), CallInv(t)
  PROVE  /\ Seen(t) \in 0 .. Len(Sectors[node[t]])
         /\ Sectors[node[t]] \in Seq(Pointers)
<1>1. /\ node[t] \in SectorNodes /\ wanted[t] \in Nat /\ vectorSize[t] \in Nat
  BY DEF Typed, HoldsExclusive
<1>2. Sectors[node[t]] \in Seq(Pointers) /\ VectorSize(node[t]) \in Nat
  BY <1>1, SizeFacts
<1>3. VectorSize(node[t]) >= Seen(t) /\ Seen(t) \in Nat
  BY <1>1, <1>2 DEF CallInv, HoldsExclusive, Seen, MinOf, Typed
<1> QED BY <1>1, <1>2, <1>3 DEF VectorSize

\* No block that callers see has gone back to the heap.
LEMMA VisibleIsOwned ==
  ASSUME RefinementInv, NEW n \in SectorNodes
  PROVE  /\ VisibleSectors(n) \in Seq(Pointers)
         /\ Len(VisibleSectors(n)) <= VectorSize(n)
         /\ \A k \in 1 .. Len(VisibleSectors(n)) :
              /\ k \in 1 .. VectorSize(n)
              /\ VisibleSectors(n)[k] = Sectors[n][k]
              /\ ~Released(n, k)
<1>0. Typed /\ LockInv /\ CallsInv
  BY DEF RefinementInv
<1>1. Sectors[n] \in Seq(Pointers) /\ VectorSize(n) \in Nat
  BY <1>0, SizeFacts
<1>2. CASE exclusive[n] = {}
  <2>1. \A u \in Threads : ~(HoldsExclusive(u) /\ node[u] = n)
    BY <1>0, <1>2 DEF LockInv
  <2>2. \A k : ~Released(n, k)
    BY <2>1 DEF Released, HoldsExclusive
  <2> QED BY <1>1, <1>2, <2>2, VisibleAtRest DEF VectorSize
<1>3. CASE exclusive[n] # {}
  <2>1. PICK t \in Threads : HoldsExclusive(t) /\ node[t] = n
    BY <1>0, <1>3, HolderExists
  <2>2. CallInv(t)
    BY <1>0 DEF CallsInv
  <2>3. Seen(t) \in 0 .. Len(Sectors[n]) /\ VisibleSectors(n) = SubSeq(Sectors[n], 1, Seen(t))
    BY <1>0, <2>1, <2>2, SeenInVector, VisibleWhenHeld
  <2>4. /\ VisibleSectors(n) \in Seq(Pointers) /\ Len(VisibleSectors(n)) = Seen(t)
        /\ \A k \in 1 .. Seen(t) : VisibleSectors(n)[k] = Sectors[n][k]
    BY <1>1, <2>3, PrefixFacts
  <2>5. wanted[t] \in Nat /\ vectorSize[t] \in Nat
    BY <1>0 DEF Typed
  <2>6. \A k \in 1 .. Seen(t) : ~Released(n, k)
    <3>1. \A k \in 1 .. Seen(t) : ~ReleasedBy(t, n, k)
      BY <2>5 DEF ReleasedBy, Seen, MinOf
    <3> QED BY <1>0, <2>1, <3>1, ReleasedByHolder
  <2> QED BY <1>1, <2>3, <2>4, <2>6 DEF VectorSize
<1> QED BY <1>2, <1>3

SeenInv ==
  \A n \in SectorNodes :
    /\ exclusive[n] = {} => VisibleSectors(n) = Sectors[n]
    /\ \A t \in Threads :
         HoldsExclusive(t) /\ node[t] = n
           => VisibleSectors(n) = SubSeq(Sectors[n], 1, Seen(t))
    /\ VisibleSectors(n) \in Seq(Pointers)
    /\ \A k \in 1 .. Len(VisibleSectors(n)) :
         /\ k \in 1 .. VectorSize(n)
         /\ VisibleSectors(n)[k] = Sectors[n][k]
         /\ ~Released(n, k)

LEMMA SeenIs == RefinementInv => SeenInv
<1> SUFFICES ASSUME RefinementInv PROVE SeenInv
  OBVIOUS
<1>1. Typed /\ LockInv
  BY DEF RefinementInv
<1> QED BY <1>1, VisibleAtRest, VisibleWhenHeld, VisibleIsOwned DEF SeenInv

LEMMA SeenIsAfter == RefinementInv' => SeenInv'
BY SeenIs, PTL

\* A step is not seen in a node that its thread does not hold before or after.
LEMMA VisibleElsewhere ==
  ASSUME RefinementInv, RefinementInv', NEW t \in Threads, Step(t), NEW n \in SectorNodes,
         ~(HoldsExclusive(t) /\ node[t] = n), ~(HoldsExclusive(t)' /\ node'[t] = n)
  PROVE  VisibleSectors(n)' = VisibleSectors(n)
<1>0. /\ Typed /\ LockInv /\ Typed' /\ LockInv' /\ SeenInv /\ SeenInv' /\ OwnLocalsOnly(t)
  BY SeenIs, SeenIsAfter, StepOwnLocals DEF RefinementInv
<1>1. Sectors'[n] = Sectors[n]
  BY <1>0, StepVectors
<1>2. \A u \in Threads \ {t} : /\ HoldsExclusive(u)' <=> HoldsExclusive(u)
                               /\ node'[u] = node[u] /\ Seen(u)' = Seen(u)
  BY <1>0 DEF OwnLocalsOnly, HoldsExclusive, Seen
<1>3. CASE exclusive[n] = {}
  <2>1. \A u \in Threads : ~(HoldsExclusive(u)' /\ node'[u] = n)
    BY <1>0, <1>2, <1>3 DEF LockInv
  <2>2. exclusive'[n] = {}
    BY <1>0, <2>1 DEF LockInv, Typed
  <2> QED BY <1>0, <1>1, <1>3, <2>2 DEF SeenInv
<1>4. CASE exclusive[n] # {}
  <2>1. PICK u \in Threads : HoldsExclusive(u) /\ node[u] = n
    BY <1>0, <1>4, HolderExists
  <2>2. u # t
    BY <2>1
  <2> QED BY <1>0, <1>1, <1>2, <2>1, <2>2 DEF SeenInv
<1> QED BY <1>3, <1>4

\* The steps of ReAllocate between taking the mutex and returning.
InnerStep(t) ==
  \/ Reserve(t) \/ GrowVector(t) \/ GrowVectorThrows(t) \/ AllocSector(t)
  \/ AllocSectorFails(t) \/ FreeSector(t) \/ ShrinkVector(t) \/ Subtract(t)

LEMMA InnerStepFacts ==
  ASSUME Typed, NEW t \in Threads, InnerStep(t)
  PROVE  /\ HoldsExclusive(t) /\ HoldsExclusive(t)'
         /\ UNCHANGED <<node, wanted, vectorSize, exclusive, shared>>
         /\ Seen(t)' = Seen(t)
<1>1. UNCHANGED <<node, wanted, vectorSize, exclusive, shared>>
  BY DEF InnerStep, Reserve, GrowVector, GrowVectorThrows, AllocSector, AllocSectorFails,
         FreeSector, ShrinkVector, Subtract, arguments, locals, mutex
<1>2. HoldsExclusive(t) /\ HoldsExclusive(t)'
  BY DEF InnerStep, Reserve, GrowVector, GrowVectorThrows, AllocSector, AllocSectorFails,
         FreeSector, ShrinkVector, Subtract, Goto, HoldsExclusive, Typed
<1> QED BY <1>1, <1>2 DEF Seen

\* They change nothing below what is seen.
LEMMA InnerStepKeepsSeen ==
  ASSUME Typed, NEW t \in Threads, CallInv(t), InnerStep(t), NEW k \in 1 .. Seen(t)
  PROVE  Sectors'[node[t]][k] = Sectors[node[t]][k]
<1> DEFINE n == node[t]
<1>0. /\ HoldsExclusive(t) /\ n \in SectorNodes /\ wanted[t] \in Nat /\ vectorSize[t] \in Nat
      /\ i[t] \in Nat /\ Sectors[n] \in Seq(Pointers)
      /\ Sectors \in [SectorNodes -> Seq(Pointers)] /\ VectorSize(n) \in Nat
  <2>1. HoldsExclusive(t)
    BY InnerStepFacts
  <2> QED BY <2>1, SizeFacts DEF Typed, HoldsExclusive
<1>1. k \in Nat /\ 1 <= k /\ k <= wanted[t] /\ k <= vectorSize[t]
  BY <1>0 DEF Seen, MinOf
<1>2. CASE GrowVector(t) \/ ShrinkVector(t)
  <2>1. Sectors'[n] = Resized(Sectors[n], wanted[t])
    BY <1>0, <1>2 DEF GrowVector, ShrinkVector
  <2>2. k <= VectorSize(n)
    BY <1>1, <1>2 DEF GrowVector, ShrinkVector, CallInv
  <2>3. k \in 1 .. wanted[t] /\ k <= Len(Sectors[n])
    BY <1>0, <1>1, <2>2 DEF VectorSize
  <2>4. Resized(Sectors[n], wanted[t])[k] = Sectors[n][k]
    BY <1>0, <2>3, ResizedFacts
  <2> QED BY <2>1, <2>4
<1>3. CASE AllocSector(t)
  <2>1. PICK p \in HeapSectors : Sectors' = [Sectors EXCEPT ![n] = [@ EXCEPT ![i[t] + 1] = p]]
    BY <1>3 DEF AllocSector
  <2>2. i[t] + 1 \in 1 .. Len(Sectors[n]) /\ k \in 1 .. Len(Sectors[n]) /\ k # i[t] + 1
    BY <1>0, <1>1, <1>3 DEF AllocSector, CallInv, VectorSize
  <2>3. Sectors'[n] = [Sectors[n] EXCEPT ![i[t] + 1] = p]
    BY <1>0, <2>1
  <2> QED BY <1>0, <2>2, <2>3, SetElementFacts DEF Pointers
<1> QED BY <1>2, <1>3
        DEF InnerStep, Reserve, GrowVectorThrows, AllocSectorFails, FreeSector, Subtract

LEMMA InnerStepUnseen ==
  ASSUME RefinementInv, RefinementInv', NEW t \in Threads, InnerStep(t)
  PROVE  \A n \in SectorNodes : VisibleSectors(n)' = VisibleSectors(n)
<1>0. /\ Typed /\ LockInv /\ CallInv(t) /\ Typed' /\ SeenInv /\ SeenInv'
  BY SeenIs, SeenIsAfter DEF RefinementInv, CallsInv
<1>1. /\ HoldsExclusive(t) /\ HoldsExclusive(t)' /\ node' = node /\ Seen(t)' = Seen(t)
      /\ node[t] \in SectorNodes /\ Step(t)
  BY <1>0, InnerStepFacts DEF InnerStep, Step, Typed, HoldsExclusive
<1>2. VisibleSectors(node[t])' = VisibleSectors(node[t])
  <2>1. /\ VisibleSectors(node[t]) = SubSeq(Sectors[node[t]], 1, Seen(t))
        /\ VisibleSectors(node[t])' = SubSeq(Sectors'[node[t]], 1, Seen(t))
    BY <1>0, <1>1 DEF SeenInv
  <2>2. /\ Sectors[node[t]] \in Seq(Pointers) /\ Sectors'[node[t]] \in Seq(Pointers)
        /\ Seen(t) \in 0 .. Len(Sectors[node[t]])
    BY <1>0, <1>1, SeenInVector DEF Typed
  <2>3. Seen(t) \in 0 .. Len(Sectors'[node[t]])
    <3>1. CallInv(t)'
      BY DEF RefinementInv, CallsInv
    <3>2. Len(Sectors'[node[t]]) \in Nat /\ Seen(t) \in Nat
      BY <2>2, LenProperties
    <3>3. /\ wanted'[t] \in Nat /\ vectorSize'[t] \in Nat
          /\ Seen(t) = IF wanted'[t] < vectorSize'[t] THEN wanted'[t] ELSE vectorSize'[t]
      BY <1>0, <1>1 DEF Seen, MinOf, Typed
    <3> QED BY <1>1, <3>1, <3>2, <3>3 DEF CallInv, HoldsExclusive, VectorSize
  <2>4. \A k \in 1 .. Seen(t) : Sectors'[node[t]][k] = Sectors[node[t]][k]
    BY <1>0, InnerStepKeepsSeen
  <2> QED BY <2>1, <2>2, <2>3, <2>4, PrefixFacts, SeqEqual
<1> QED BY <1>1, <1>2, VisibleElsewhere

-----------------------------------------------------------------------------
(* What each step is in SectorStore. *)

seenStore == [n \in SectorNodes |-> VisibleSectors(n)]
seenTransfer == [t \in Threads |-> RunningTransfer(t)]

LEMMA TransfersOfOthers ==
  ASSUME NEW t \in Threads, OwnLocalsOnly(t)
  PROVE  \A u \in Threads \ {t} : RunningTransfer(u)' = RunningTransfer(u)
BY DEF OwnLocalsOnly, RunningTransfer

\* A step of ReAllocate neither begins nor ends a transfer.
LEMMA NoTransferStep ==
  ASSUME NEW t \in Threads, OwnLocalsOnly(t), pc[t] # "copy", pc'[t] # "copy"
  PROVE  seenTransfer' = seenTransfer
<1>1. RunningTransfer(t)' = RunningTransfer(t)
  BY DEF RunningTransfer
<1> QED BY <1>1, TransfersOfOthers DEF seenTransfer

\* Under the exclusive lock, or before it, nobody copies.
LEMMA NobodyCopies ==
  ASSUME LockInv, NEW n \in SectorNodes, shared[n] = {}
  PROVE  \A t \in Threads : RunningTransfer(t) # <<>> => RunningTransfer(t)[1] # n
<1>1. \A t \in Threads : pc[t] = "copy" => node[t] # n
  BY DEF LockInv, HoldsShared
<1> QED BY <1>1 DEF RunningTransfer

\* Only one node changes, so its new value says it all.
LEMMA OneNodeChanges ==
  ASSUME NEW n \in SectorNodes,
         \A m \in SectorNodes \ {n} : VisibleSectors(m)' = VisibleSectors(m)
  PROVE  seenStore' = [seenStore EXCEPT ![n] = seenStore'[n]]
BY DEF seenStore

\* A resize that cuts off the tail.
LEMMA ShrinkIsResize ==
  ASSUME SeenInv, SeenInv', LockInv, NEW n \in SectorNodes, shared[n] = {},
         \A m \in SectorNodes \ {n} : VisibleSectors(m)' = VisibleSectors(m),
         seenTransfer' = seenTransfer,
         NEW k \in 0 .. Len(VisibleSectors(n)),
         VisibleSectors(n)' = SubSeq(VisibleSectors(n), 1, k)
  PROVE  Store!Resize(n)
<1>1. VisibleSectors(n) \in Seq(Pointers) /\ VisibleSectors(n)' \in Seq(Pointers)
  BY DEF SeenInv
<1>2. Len(VisibleSectors(n)') = k /\ Len(VisibleSectors(n)) \in Nat
  BY <1>1, PrefixFacts, LenProperties
<1>3. SubSeq(VisibleSectors(n)', 1, k) = SubSeq(VisibleSectors(n), 1, k)
  BY <1>1, <1>2, PrefixFacts
<1>4. Store!IsPrefix(VisibleSectors(n)', VisibleSectors(n))
  BY <1>2, <1>3 DEF Store!IsPrefix
<1>5. ~Store!InTransfer(n)
  BY NobodyCopies DEF Store!InTransfer, Store!NoTransfer
<1>6. seenStore' = [seenStore EXCEPT ![n] = seenStore'[n]]
  BY OneNodeChanges
<1> QED BY <1>4, <1>5, <1>6 DEF Store!Resize, seenStore, seenTransfer

\* A resize that appends: what is new was nobody's, or could not be had.
LEMMA GrowIsResize ==
  ASSUME SeenInv, SeenInv', LockInv, NoSharedSector', NEW n \in SectorNodes, shared[n] = {},
         \A m \in SectorNodes \ {n} : VisibleSectors(m)' = VisibleSectors(m),
         seenTransfer' = seenTransfer,
         VisibleSectors(n) = SubSeq(VisibleSectors(n)', 1, Len(VisibleSectors(n))),
         Len(VisibleSectors(n)) <= Len(VisibleSectors(n)')
  PROVE  Store!Resize(n)
<1>1. VisibleSectors(n) \in Seq(Pointers) /\ VisibleSectors(n)' \in Seq(Pointers)
  BY DEF SeenInv
<1>2. Len(VisibleSectors(n)) \in Nat /\ Len(VisibleSectors(n)') \in Nat
  BY <1>1, LenProperties
<1>3. SubSeq(VisibleSectors(n), 1, Len(VisibleSectors(n))) = VisibleSectors(n)
  BY <1>1, <1>2, PrefixFacts
<1>4. Store!IsPrefix(VisibleSectors(n), VisibleSectors(n)')
  BY <1>3 DEF Store!IsPrefix
<1>5. ASSUME NEW b \in HeapSectors, NEW k \in 1 .. Len(VisibleSectors(n)'),
             NEW m \in SectorNodes, NEW j \in 1 .. Len(VisibleSectors(m)'),
             VisibleSectors(n)'[k] = b, VisibleSectors(m)'[j] = b
      PROVE  m = n /\ j = k
  <2>1. /\ k \in 1 .. VectorSize(n)' /\ Sectors'[n][k] = b /\ ~Released(n, k)'
        /\ j \in 1 .. VectorSize(m)' /\ Sectors'[m][j] = b /\ ~Released(m, j)'
    BY <1>5 DEF SeenInv
  <2>2. Owns(n, k, b)' /\ Owns(m, j, b)'
    BY <2>1 DEF Owns
  <2> QED BY <2>1, <2>2 DEF NoSharedSector
<1>6. ASSUME NEW k \in Len(VisibleSectors(n)) + 1 .. Len(VisibleSectors(n)')
      PROVE  \/ VisibleSectors(n)'[k] = nullptr
             \/ /\ VisibleSectors(n)'[k] \in HeapSectors
                /\ ~Store!HeldElsewhere(n, k, VisibleSectors(n)'[k])
  <2>1. k \in 1 .. Len(VisibleSectors(n)')
    BY <1>2
  <2>2. VisibleSectors(n)'[k] \in HeapSectors \cup {nullptr}
    BY <1>1, <2>1, ElementOfSeq DEF Pointers
  <2>3. CASE VisibleSectors(n)'[k] \in HeapSectors
    <3>1. ASSUME NEW m \in SectorNodes, NEW j \in DOMAIN VisibleSectors(m)',
                 VisibleSectors(m)'[j] = VisibleSectors(n)'[k]
          PROVE  <<m, j>> = <<n, k>>
      <4>1. VisibleSectors(m)' \in Seq(Pointers)
        BY DEF SeenInv
      <4>2. j \in 1 .. Len(VisibleSectors(m)')
        BY <4>1, LenProperties
      <4> QED BY <1>5, <2>1, <2>3, <3>1, <4>2
    <3> QED BY <2>3, <3>1 DEF Store!HeldElsewhere
  <2> QED BY <2>2, <2>3
<1>7. ~Store!InTransfer(n)
  BY NobodyCopies DEF Store!InTransfer, Store!NoTransfer
<1>8. seenStore' = [seenStore EXCEPT ![n] = seenStore'[n]]
  BY OneNodeChanges
<1> QED BY <1>4, <1>6, <1>7, <1>8 DEF Store!Resize, seenStore, seenTransfer

\* Taking the mutex: a call that shrinks is seen at this instant.
LEMMA LockIsSeen ==
  ASSUME RefinementInv, RefinementInv', NEW t \in Threads, LockExclusive(t)
  PROVE  Store!Resize(node[t])
<1> DEFINE n == node[t]
<1>0. /\ Typed /\ LockInv /\ Typed' /\ LockInv' /\ SeenInv /\ SeenInv' /\ OwnLocalsOnly(t)
      /\ Step(t)
  BY SeenIs, SeenIsAfter, StepOwnLocals DEF RefinementInv, Step
<1>1. /\ pc[t] = "lock" /\ n \in SectorNodes /\ exclusive[n] = {} /\ shared[n] = {}
      /\ node' = node /\ wanted' = wanted /\ Sectors' = Sectors
      /\ vectorSize'[t] = VectorSize(n)
      /\ HoldsExclusive(t)' /\ ~HoldsExclusive(t)
      /\ pc'[t] # "copy"
  BY <1>0 DEF LockExclusive, MayLockExclusive, Typed, arguments, Goto, HoldsExclusive
<1>2. Sectors[n] \in Seq(Pointers) /\ VectorSize(n) \in Nat /\ wanted[t] \in Nat
  BY <1>0, <1>1, SizeFacts DEF Typed
<1>3. VisibleSectors(n) = Sectors[n]
  BY <1>0, <1>1 DEF SeenInv
<1>4. Seen(t)' = MinOf(wanted[t], VectorSize(n))
  BY <1>1 DEF Seen
<1>5. /\ Seen(t)' \in 0 .. Len(VisibleSectors(n))
      /\ VisibleSectors(n)' = SubSeq(VisibleSectors(n), 1, Seen(t)')
  BY <1>0, <1>1, <1>2, <1>3, <1>4 DEF SeenInv, MinOf, VectorSize
<1>6. seenTransfer' = seenTransfer
  BY <1>0, <1>1, NoTransferStep
<1>7. \A m \in SectorNodes \ {n} : VisibleSectors(m)' = VisibleSectors(m)
  BY <1>0, <1>1, VisibleElsewhere
<1>8. Seen(t)' \in 0 .. Len(VisibleSectors(n)) => Store!Resize(n)
  BY <1>0, <1>1, <1>5, <1>6, <1>7, ShrinkIsResize
<1> QED BY <1>5, <1>8

\* Returning, with success or after a failure: what was appended is seen.
LEMMA ReturnIsSeen ==
  ASSUME RefinementInv, RefinementInv', NEW t \in Threads, ReturnTrue(t) \/ HandleBadAlloc(t)
  PROVE  Store!Resize(node[t])
<1>0. /\ Typed /\ LockInv /\ Typed' /\ LockInv' /\ SeenInv /\ SeenInv' /\ CallInv(t)
      /\ HeapInv' /\ OwnLocalsOnly(t) /\ Step(t)
  BY SeenIs, SeenIsAfter, StepOwnLocals DEF RefinementInv, CallsInv, Step
<1> SUFFICES ASSUME NEW n \in SectorNodes, node[t] = n PROVE Store!Resize(n)
  BY <1>0 DEF ReturnTrue, HandleBadAlloc, Typed
<1>1. /\ HoldsExclusive(t) /\ pc[t] # "copy" /\ UnlockExclusive(n) /\ Return(t)
      /\ Sectors' = Sectors
  BY <1>0, HandleBadAllocReturns DEF ReturnTrue, HoldsExclusive
<1>2. /\ exclusive'[n] = {} /\ ~HoldsExclusive(t)' /\ pc'[t] # "copy"
  BY <1>0, <1>1 DEF UnlockExclusive, Return, Goto, Typed, HoldsExclusive
<1>3. shared[n] = {}
  BY <1>0, <1>1, <1>2 DEF LockInv
<1>4. /\ Sectors[n] \in Seq(Pointers) /\ Seen(t) \in 0 .. Len(Sectors[n])
      /\ Len(Sectors[n]) \in Nat
  BY <1>0, <1>1, SeenInVector, LenProperties
<1>5. VisibleSectors(n)' = Sectors[n] /\ VisibleSectors(n) = SubSeq(Sectors[n], 1, Seen(t))
  BY <1>0, <1>1, <1>2 DEF SeenInv
<1>6. Len(VisibleSectors(n)) = Seen(t)
  BY <1>4, <1>5, PrefixFacts
<1>7. seenTransfer' = seenTransfer
  BY <1>0, <1>1, <1>2, NoTransferStep
<1>8. \A m \in SectorNodes \ {n} : VisibleSectors(m)' = VisibleSectors(m)
  BY <1>0, <1>1, <1>2, VisibleElsewhere
<1>9. NoSharedSector'
  BY <1>0 DEF HeapInv
<1>10. /\ VisibleSectors(n) = SubSeq(VisibleSectors(n)', 1, Len(VisibleSectors(n)))
       /\ Len(VisibleSectors(n)) <= Len(VisibleSectors(n)')
  BY <1>4, <1>5, <1>6
<1> QED BY <1>0, <1>2, <1>3, <1>7, <1>8, <1>9, <1>10, GrowIsResize

LEMMA StoreUnseen ==
  ASSUME \A n \in SectorNodes : VisibleSectors(n)' = VisibleSectors(n),
         seenTransfer' = seenTransfer
  PROVE  UNCHANGED Store!vars
BY DEF Store!vars, seenStore, seenTransfer

\* A transfer begins when ReadWrite has found its range and ends behind the
\* last memcpy.
LEMMA TransferIsSeen ==
  ASSUME RefinementInv, RefinementInv', NEW t \in Threads,
         LockShared(t) \/ CopySector(t) \/ CopyLastSector(t)
  PROVE  \/ Store!BeginTransfer(t, node[t])
         \/ Store!EndTransfer(t)
         \/ UNCHANGED Store!vars
<1> DEFINE n == node[t]
<1>0. /\ Typed /\ LockInv /\ Typed' /\ LockInv' /\ SeenInv /\ SeenInv' /\ OwnLocalsOnly(t)
      /\ Step(t) /\ RangeInv(t) /\ CopyInv(t)'
  BY SeenIs, SeenIsAfter, StepOwnLocals DEF RefinementInv, RangesInv, Step
<1>1. /\ n \in SectorNodes /\ ~HoldsExclusive(t) /\ ~HoldsExclusive(t)'
      /\ pc \in [Threads -> Labels] /\ pc[t] \in {"lockShared", "copy"}
  BY <1>0 DEF LockShared, CopySector, CopyLastSector, Typed, HoldsExclusive, Goto, Return
<1>2. \A m \in SectorNodes : VisibleSectors(m)' = VisibleSectors(m)
  BY <1>0, <1>1, VisibleElsewhere
<1>3. \A u \in Threads \ {t} : RunningTransfer(u)' = RunningTransfer(u)
  BY <1>0, TransfersOfOthers
<1>4. seenStore' = seenStore /\ seenTransfer' = [seenTransfer EXCEPT ![t] = RunningTransfer(t)']
  BY <1>2, <1>3 DEF seenStore, seenTransfer
<1>5. CASE LockShared(t) /\ RangeRejected(t)
  <2>1. pc[t] = "lockShared" /\ pc'[t] = "idle"
    BY <1>1, <1>5 DEF LockShared, Return, Goto
  <2> QED BY <1>0, <1>2, <2>1, NoTransferStep, StoreUnseen
<1>6. CASE LockShared(t) /\ ~RangeRejected(t)
  <2>1. /\ pc[t] = "lockShared" /\ pc'[t] = "copy" /\ exclusive[n] = {}
        /\ node' = node /\ offset' = offset /\ size' = size /\ Sectors' = Sectors
        /\ i'[t] = OffsetSectorBegin(offset[t])
        /\ sectorEnd'[t] = SectorEnd(offset[t], size[t], VectorSize(n))
    BY <1>0, <1>1, <1>6 DEF LockShared, MayLockShared, Goto, arguments, Typed
  <2>2. VisibleSectors(n) = Sectors[n] /\ Sectors[n] \in Seq(Pointers)
    BY <1>0, <1>1, <2>1 DEF SeenInv, Typed
  <2>3. /\ RunningTransfer(t) = <<>>
        /\ RunningTransfer(t)' = <<n, OffsetSectorBegin(offset[t]) + 1, sectorEnd'[t] + 1>>
    BY <2>1 DEF RunningTransfer
  <2>4. /\ OffsetSectorBegin(offset[t]) \in Nat
        /\ sectorEnd'[t] \in OffsetSectorBegin(offset[t]) .. VectorSize(n) - 1
    <3>1. /\ offset[t] \in Nat /\ size[t] \in Nat \ {0} /\ VectorSize(n) \in Nat
          /\ SectorsFor(offset[t] + size[t]) <= VectorSize(n)
      <4>1. VectorSize(n) \in Nat
        BY <1>0, <1>1, SizeFacts
      <4>2. size[t] > 0 /\ RangeEnd(t) <= VectorSize(n)
        BY <1>0, <2>1 DEF RangeInv, InReadWrite
      <4>3. offset[t] \in Nat /\ size[t] \in Nat
        BY <1>0 DEF Typed
      <4> QED BY <4>1, <4>2, <4>3 DEF RangeEnd
    <3> QED BY <2>1, <3>1, RangeInVectorIsSafe
  <2>5. /\ OffsetSectorBegin(offset[t]) + 1 \in DOMAIN seenStore[n]
        /\ sectorEnd'[t] + 1 \in DOMAIN seenStore[n]
        /\ OffsetSectorBegin(offset[t]) + 1 <= sectorEnd'[t] + 1
    BY <1>1, <2>2, <2>4, LenProperties DEF seenStore, VectorSize
  <2>6. seenTransfer[t] = Store!NoTransfer
    BY <2>3 DEF seenTransfer, Store!NoTransfer
  <2>7. seenTransfer' = [seenTransfer EXCEPT ![t] =
                           <<n, OffsetSectorBegin(offset[t]) + 1, sectorEnd'[t] + 1>>]
    BY <1>4, <2>3
  <2>8. \E first, last \in DOMAIN seenStore[n] :
          first <= last /\ seenTransfer' = [seenTransfer EXCEPT ![t] = <<n, first, last>>]
    BY <2>5, <2>7
  <2> QED BY <1>4, <2>6, <2>8 DEF Store!BeginTransfer, seenStore, seenTransfer
<1>7. CASE CopySector(t)
  <2>1. RunningTransfer(t)' = RunningTransfer(t)
    BY <1>7 DEF CopySector, RunningTransfer, arguments
  <2>2. seenTransfer' = seenTransfer
    BY <1>3, <2>1 DEF seenTransfer
  <2> QED BY <1>2, <2>2, StoreUnseen
<1>8. CASE CopyLastSector(t)
  <2>1. pc[t] = "copy" /\ pc'[t] = "idle"
    BY <1>1, <1>8 DEF CopyLastSector, Return, Goto
  <2>2. RunningTransfer(t) # <<>> /\ RunningTransfer(t)' = <<>>
    BY <2>1 DEF RunningTransfer
  <2> QED BY <1>4, <2>2 DEF Store!EndTransfer, Store!NoTransfer, seenStore, seenTransfer
<1> QED BY <1>5, <1>6, <1>7, <1>8

LEMMA CallIsUnseen ==
  ASSUME RefinementInv, RefinementInv', NEW t \in Threads, Call(t)
  PROVE  UNCHANGED Store!vars
<1>0. /\ Typed /\ LockInv /\ SeenInv /\ SeenInv' /\ OwnLocalsOnly(t) /\ LockInv'
  BY SeenIs, SeenIsAfter, CallOwnLocals DEF RefinementInv
<1>1. /\ pc[t] = "idle" /\ pc'[t] \in {"lock", "lockShared"} /\ UNCHANGED <<Sectors, exclusive>>
  BY <1>0 DEF Call, CallReAllocate, CallReadWrite, Goto, Typed, mutex
<1>2. seenTransfer' = seenTransfer
  BY <1>0, <1>1, NoTransferStep
<1>3. ASSUME NEW n \in SectorNodes PROVE VisibleSectors(n)' = VisibleSectors(n)
  <2>1. CASE exclusive[n] = {}
    BY <1>0, <1>1, <2>1 DEF SeenInv
  <2>2. CASE exclusive[n] # {}
    <3>1. PICK u \in Threads : HoldsExclusive(u) /\ node[u] = n
      BY <1>0, <2>2, HolderExists
    <3>2. u # t
      BY <1>1, <3>1 DEF HoldsExclusive
    <3>3. HoldsExclusive(u)' /\ node'[u] = n /\ Seen(u)' = Seen(u)
      BY <1>0, <3>1, <3>2 DEF OwnLocalsOnly, HoldsExclusive, Seen
    <3> QED BY <1>0, <1>1, <3>1, <3>3 DEF SeenInv
  <2> QED BY <2>1, <2>2
<1> QED BY <1>2, <1>3, StoreUnseen

\* Every step of SectorManager is a step of SectorStore or is not seen.
LEMMA StepRefines ==
  ASSUME RefinementInv, RefinementInv', [Next]_vars
  PROVE  [Store!Next]_(Store!vars)
<1>1. ASSUME NEW t \in Threads, Call(t) PROVE [Store!Next]_(Store!vars)
  BY <1>1, CallIsUnseen
<1>2. ASSUME NEW t \in Threads, Step(t) PROVE [Store!Next]_(Store!vars)
  <2>0. node[t] \in SectorNodes
    BY <1>2
       DEF RefinementInv, Typed, Step, LockExclusive, Reserve, GrowVector, GrowVectorThrows,
           AllocSector, AllocSectorFails, FreeSector, ShrinkVector, Subtract, ReturnTrue,
           HandleBadAlloc, LockShared, CopySector, CopyLastSector
  <2>1. CASE LockExclusive(t)
    BY <2>0, <2>1, LockIsSeen DEF Store!Next
  <2>2. CASE ReturnTrue(t) \/ HandleBadAlloc(t)
    BY <2>0, <2>2, ReturnIsSeen DEF Store!Next
  <2>3. CASE LockShared(t) \/ CopySector(t) \/ CopyLastSector(t)
    BY <2>0, <2>3, TransferIsSeen DEF Store!Next
  <2>4. CASE InnerStep(t)
    <3>1. OwnLocalsOnly(t) /\ Typed
      BY <1>2, StepOwnLocals DEF RefinementInv
    <3>2. pc[t] # "copy" /\ pc'[t] # "copy"
      BY <2>4, <3>1, InnerStepFacts DEF HoldsExclusive
    <3> QED BY <2>4, <3>1, <3>2, NoTransferStep, InnerStepUnseen, StoreUnseen
  <2> QED BY <1>2, <2>1, <2>2, <2>3, <2>4 DEF Step, InnerStep
<1>3. CASE UNCHANGED vars
  <2>1. seenTransfer' = seenTransfer
    BY <1>3 DEF vars, arguments, locals, seenTransfer, RunningTransfer
  <2>2. \A n \in SectorNodes : VisibleSectors(n)' = VisibleSectors(n)
    BY <1>3 DEF vars, arguments, locals, mutex, VisibleSectors
  <2> QED BY <2>1, <2>2, StoreUnseen
<1> QED BY <1>1, <1>2, <1>3 DEF Next

LEMMA InitRefines == Init => Store!Init
BY DEF Init, Store!Init, Store!NoTransfer, VisibleSectors, RunningTransfer

\* Callers may think of SectorManager as of SectorStore: blocks of their own,
\* resized at one instant and never under a transfer, although the code takes
\* and frees them one by one outside any lock the nodes share, with any number
\* of threads and nodes and whatever allocation fails.
THEOREM Implements == Spec => ImplementsSectorStore
<1>1. RefinementInv /\ RefinementInv' /\ [Next]_vars => [Store!Next]_(Store!vars)
  BY StepRefines
<1> QED BY <1>1, InitRefines, RefinementInvHolds, PTL DEF Spec, ImplementsSectorStore, Store!Spec

-----------------------------------------------------------------------------
(* As long as HeapAlloc succeeds.  Growing a vector may still throw. *)

HeapAllocSucceeds == [][\A t \in Threads : ~AllocSectorFails(t)]_vars

\* A null pointer in a vector is one that its holder is about to replace.
PresentInv ==
  \A n \in SectorNodes : \A k \in 1 .. VectorSize(n) :
    Sectors[n][k] = nullptr => \E t \in Threads : pc[t] = "alloc" /\ node[t] = n /\ i[t] < k

\* Under a mutex held for anything but allocating, nothing is missing.
LEMMA HeldIsPresent ==
  ASSUME Typed, LockInv, PresentInv, NEW t \in Threads, HoldsExclusive(t), pc[t] # "alloc",
         NEW k \in 1 .. VectorSize(node[t])
  PROVE  Sectors[node[t]][k] # nullptr
<1>1. node[t] \in SectorNodes
  BY DEF Typed, HoldsExclusive
<1>2. ASSUME NEW u \in Threads, pc[u] = "alloc", node[u] = node[t] PROVE FALSE
  <2>1. HoldsExclusive(u)
    BY <1>2 DEF HoldsExclusive
  <2> QED BY <1>1, <1>2, <2>1 DEF LockInv
<1> QED BY <1>1, <1>2 DEF PresentInv

LEMMA PresentStep ==
  ASSUME Typed, LockInv, PresentInv, NEW t \in Threads, CallInv(t), Step(t),
         ~AllocSectorFails(t)
  PROVE  PresentInv'
<1>0. /\ pc \in [Threads -> Labels] /\ Sectors \in [SectorNodes -> Seq(Pointers)]
      /\ wanted[t] \in Nat /\ vectorSize[t] \in Nat /\ i[t] \in Nat /\ OwnLocalsOnly(t)
      /\ node[t] \in SectorNodes => VectorSize(node[t]) \in Nat
      /\ node[t] \in SectorNodes => Sectors[node[t]] \in Seq(Pointers)
  BY StepOwnLocals, SizeFacts DEF Typed
<1> SUFFICES ASSUME NEW n \in SectorNodes, NEW k \in 1 .. Len(Sectors'[n]),
                    Sectors'[n][k] = nullptr
             PROVE  \E u \in Threads : pc'[u] = "alloc" /\ node'[u] = n /\ i'[u] < k
  BY DEF PresentInv, VectorSize
<1>1. CASE Sectors'[n] = Sectors[n] /\ pc[t] # "alloc"
  <2>1. PICK u \in Threads : pc[u] = "alloc" /\ node[u] = n /\ i[u] < k
    BY <1>1 DEF PresentInv, VectorSize
  <2> QED BY <1>0, <1>1, <2>1 DEF OwnLocalsOnly
<1>2. CASE node[t] # n
  <2>1. Sectors'[n] = Sectors[n]
    BY <1>2, StepVectors
  <2>2. PICK u \in Threads : pc[u] = "alloc" /\ node[u] = n /\ i[u] < k
    BY <2>1 DEF PresentInv, VectorSize
  <2> QED BY <1>0, <1>2, <2>2 DEF OwnLocalsOnly
<1>3. CASE GrowVector(t) /\ node[t] = n
  <2>1. /\ Sectors'[n] = Resized(Sectors[n], wanted[t]) /\ pc'[t] = "alloc"
        /\ node' = node /\ i' = i /\ i[t] = VectorSize(n)
        /\ HoldsExclusive(t) /\ pc[t] # "alloc"
    BY <1>0, <1>3 DEF GrowVector, CallInv, arguments, locals, Goto, HoldsExclusive
  <2>2. k \in 1 .. wanted[t]
    BY <1>0, <1>3, <2>1, ResizedFacts
  <2>3. ~(k <= Len(Sectors[n]))
    <3> SUFFICES ASSUME k <= Len(Sectors[n]) PROVE FALSE
      OBVIOUS
    <3>1. Sectors[n][k] = nullptr
      BY <1>0, <1>3, <2>1, <2>2, ResizedFacts
    <3> QED BY <1>0, <1>3, <2>1, <3>1, HeldIsPresent DEF VectorSize
  <2> QED BY <1>0, <1>3, <2>1, <2>2, <2>3 DEF VectorSize
<1>4. CASE ShrinkVector(t) /\ node[t] = n
  <2>1. /\ Sectors'[n] = Resized(Sectors[n], wanted[t])
        /\ HoldsExclusive(t) /\ pc[t] # "alloc" /\ wanted[t] < VectorSize(n)
    BY <1>0, <1>4 DEF ShrinkVector, CallInv, HoldsExclusive
  <2>2. k \in 1 .. wanted[t]
    BY <1>0, <1>4, <2>1, ResizedFacts
  <2>3. k \in 1 .. VectorSize(n) /\ k <= Len(Sectors[n])
    BY <1>0, <1>4, <2>1, <2>2 DEF VectorSize
  <2>4. Sectors[n][k] = nullptr
    <3>1. Resized(Sectors[n], wanted[t])[k] = Sectors[n][k]
      BY <1>0, <1>4, <2>2, <2>3, ResizedFacts
    <3> QED BY <2>1, <3>1
  <2> QED BY <1>4, <2>1, <2>3, <2>4, HeldIsPresent
<1>5. CASE AllocSector(t) /\ node[t] = n
  <2>1. PICK p \in HeapSectors :
             Sectors' = [Sectors EXCEPT ![n] = [@ EXCEPT ![i[t] + 1] = p]]
    BY <1>5 DEF AllocSector
  <2>2. /\ Sectors'[n] = [Sectors[n] EXCEPT ![i[t] + 1] = p]
        /\ i'[t] = i[t] + 1 /\ node' = node
        /\ pc'[t] = IF i[t] + 1 < wanted[t] THEN "alloc" ELSE "return"
    BY <1>0, <1>5, <2>1 DEF AllocSector, arguments, Goto, Typed
  <2>3. /\ VectorSize(n) = wanted[t] /\ i[t] + 1 \in 1 .. Len(Sectors[n]) /\ pc[t] = "alloc"
    BY <1>0, <1>5 DEF AllocSector, CallInv, VectorSize
  <2>4. k \in 1 .. Len(Sectors[n]) /\ k # i[t] + 1 /\ Sectors[n][k] = nullptr
    BY <1>0, <1>5, <2>2, <2>3, SetElementFacts, HeapAssumption DEF Pointers
  <2>5. PICK u \in Threads : pc[u] = "alloc" /\ node[u] = n /\ i[u] < k
    BY <2>4 DEF PresentInv, VectorSize
  <2>6. u = t
    BY <1>5, <2>3, <2>5 DEF LockInv, HoldsExclusive
  <2>7. i[t] + 1 < k /\ i[t] + 1 < wanted[t]
    BY <1>0, <2>3, <2>4, <2>5, <2>6 DEF VectorSize
  <2> QED BY <1>5, <2>2, <2>7
<1>6. CASE HandleBadAlloc(t)
  BY <1>1, <1>6, HandleBadAllocReturns
<1> QED BY <1>1, <1>2, <1>3, <1>4, <1>5, <1>6
        DEF Step, LockExclusive, Reserve, GrowVectorThrows, FreeSector, Subtract, ReturnTrue,
            LockShared, CopySector, CopyLastSector

LEMMA PresentIsInv == Spec /\ HeapAllocSucceeds => []PresentInv
<1>1. Init => PresentInv
  BY DEF Init, PresentInv, VectorSize
<1>2. /\ RefinementInv /\ PresentInv /\ [Next]_vars
      /\ [\A t \in Threads : ~AllocSectorFails(t)]_vars
      => PresentInv'
  <2> SUFFICES ASSUME RefinementInv, PresentInv, [Next]_vars,
                      [\A t \in Threads : ~AllocSectorFails(t)]_vars
               PROVE  PresentInv'
    OBVIOUS
  <2>1. CASE UNCHANGED vars
    BY <2>1 DEF vars, arguments, locals, PresentInv, VectorSize
  <2>2. ASSUME NEW t \in Threads, Call(t) PROVE PresentInv'
    <3>1. /\ OwnLocalsOnly(t) /\ UNCHANGED Sectors /\ pc[t] # "alloc"
      BY <2>2, CallOwnLocals DEF RefinementInv, Call, CallReAllocate, CallReadWrite
    <3> QED BY <3>1 DEF PresentInv, VectorSize, OwnLocalsOnly
  <2>3. ASSUME NEW t \in Threads, Step(t), \A u \in Threads : ~AllocSectorFails(u)
        PROVE  PresentInv'
    BY <2>3, PresentStep DEF RefinementInv, CallsInv
  <2> QED BY <2>1, <2>2, <2>3 DEF Next
<1> QED BY <1>1, <1>2, RefinementInvHolds, PTL DEF Spec, HeapAllocSucceeds

\* What ReadWrite copies from or to is allocated, as long as HeapAlloc has
\* never failed: the code does not look before it copies.
THEOREM CopiesFindTheirSector == Spec /\ HeapAllocSucceeds => []CopiesAllocatedSector
<1>1. RefinementInv /\ PresentInv /\ CopiesNoFreedSector => CopiesAllocatedSector
  <2> SUFFICES ASSUME RefinementInv, PresentInv, CopiesNoFreedSector,
                      NEW t \in Threads, pc[t] = "copy"
               PROVE  i[t] < VectorSize(node[t]) /\ CurrentSector(t) \in heap
    BY DEF CopiesAllocatedSector
  <2>1. /\ node[t] \in SectorNodes /\ i[t] \in Nat /\ Typed /\ LockInv
    BY DEF RefinementInv, Typed
  <2>2. i[t] < VectorSize(node[t]) /\ CurrentSector(t) \in heap \cup {nullptr}
    BY DEF CopiesNoFreedSector
  <2>3. ASSUME NEW u \in Threads, pc[u] = "alloc", node[u] = node[t] PROVE FALSE
    BY <2>1, <2>3 DEF LockInv, HoldsShared, HoldsExclusive
  <2>4. i[t] + 1 \in 1 .. VectorSize(node[t])
    BY <2>1, <2>2, SizeFacts
  <2>5. CurrentSector(t) # nullptr
    BY <2>1, <2>3, <2>4 DEF PresentInv, CurrentSector
  <2> QED BY <2>2, <2>5
<1> QED BY <1>1, RefinementInvHolds, PresentIsInv, CopiesAreSafe, PTL

\* And the sectors a caller was granted are there, which is what the code
\* means a failed allocation to preserve and does not (RollBackUnreachable):
\* nothing but a failure of HeapAlloc breaks it.
THEOREM GrantedSectorsStayPresent == Spec /\ HeapAllocSucceeds => []GrantedSectorsPresent
<1>1. RefinementInv /\ PresentInv => GrantedSectorsPresent
  <2> SUFFICES ASSUME RefinementInv, PresentInv, NEW n \in SectorNodes,
                      \A t \in Threads : InReAllocate(t) => node[t] # n,
                      NEW k \in 1 .. granted[n]
               PROVE  Sectors[n][k] # nullptr
    BY DEF GrantedSectorsPresent
  <2>1. granted[n] <= VectorSize(n)
    BY DEF RefinementInv, RangesInv, GrantedInv, InReAllocate
  <2>2. granted[n] \in Nat /\ VectorSize(n) \in Nat
    BY SizeFacts DEF RefinementInv, Typed
  <2>3. k \in 1 .. VectorSize(n)
    BY <2>1, <2>2
  <2> QED BY <2>3 DEF PresentInv, InReAllocate
<1> QED BY <1>1, RefinementInvHolds, PresentIsInv, PTL

=============================================================================
