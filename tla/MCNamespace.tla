----------------------------- MODULE MCNamespace -----------------------------
(***************************************************************************)
(* Small instances of Namespace for TLC.                                   *)
(***************************************************************************)
EXTENDS Namespace, TLC

\* Addresses are interchangeable, and so are the threads and the components.
Symmetry ==
  Permutations(FileNodes) \cup Permutations(Threads) \cup Permutations(Components)

=============================================================================
