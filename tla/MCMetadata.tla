----------------------------- MODULE MCMetadata -----------------------------
(***************************************************************************)
(* Small instances of Metadata for TLC.                                    *)
(***************************************************************************)
EXTENDS Metadata, TLC

\* Tags are numbers, since 0 is none of them; names and payloads are
\* interchangeable.
Symmetry == Permutations(Payloads) \cup Permutations(EaNames) \cup Permutations(Descriptors)

=============================================================================
