----------------------------- MODULE SectorStore -----------------------------
(***************************************************************************)
(* What SectorManager promises the file system that calls it: each node    *)
(* has a sequence of blocks of its own, a call changes its length at one   *)
(* instant, and a transfer that has begun finds the same blocks until it   *)
(* ends.  Locks, the counter and the steps of an allocation are not seen.  *)
(***************************************************************************)
EXTENDS Naturals, Sequences, SequencesExt

CONSTANTS
  Threads, SectorNodes,
  Blocks,     \* what a heap hands out
  Missing     \* in the place of a block that could not be had

VARIABLES
  store,      \* the blocks of each node
  transfer    \* what each thread copies: a node and the places of its blocks, or nothing

vars == <<store, transfer>>

NoTransfer == <<>>

Init ==
  /\ store = [n \in SectorNodes |-> <<>>]
  /\ transfer = [t \in Threads |-> NoTransfer]

InTransfer(n) == \E t \in Threads : transfer[t] # NoTransfer /\ transfer[t][1] = n

HeldElsewhere(n, k, b) ==
  \E m \in SectorNodes : \E j \in DOMAIN store'[m] : store'[m][j] = b /\ <<m, j>> # <<n, k>>

\* The tail goes, or blocks that nobody has are appended.
Resize(n) ==
  /\ ~InTransfer(n)
  /\ store' = [store EXCEPT ![n] = store'[n]]
  /\ \/ IsPrefix(store'[n], store[n])
     \/ /\ IsPrefix(store[n], store'[n])
        /\ \A k \in Len(store[n]) + 1 .. Len(store'[n]) :
             \/ store'[n][k] = Missing
             \/ store'[n][k] \in Blocks /\ ~HeldElsewhere(n, k, store'[n][k])
  /\ UNCHANGED transfer

BeginTransfer(t, n) ==
  /\ transfer[t] = NoTransfer
  /\ \E first, last \in DOMAIN store[n] :
       first <= last /\ transfer' = [transfer EXCEPT ![t] = <<n, first, last>>]
  /\ UNCHANGED store

EndTransfer(t) ==
  /\ transfer[t] # NoTransfer
  /\ transfer' = [transfer EXCEPT ![t] = NoTransfer]
  /\ UNCHANGED store

Next ==
  \/ \E n \in SectorNodes : Resize(n)
  \/ \E t \in Threads : (\E n \in SectorNodes : BeginTransfer(t, n)) \/ EndTransfer(t)

Spec == Init /\ [][Next]_vars

=============================================================================
