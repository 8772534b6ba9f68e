------------------------------ MODULE FileNames ------------------------------
(***************************************************************************)
(* The names of files, directories and named streams, as far as the code   *)
(* that keeps the file map tells them apart.  "\a\b:s" is the path <<a, b>> *)
(* with stream s.  A member of Components stands for every spelling that   *)
(* FileNameCompare holds equal.                                            *)
(***************************************************************************)
EXTENDS Naturals, Sequences, SequencesExt

CONSTANTS
  Components,    \* what may stand between two backslashes
  Streams,       \* names of named streams
  NoStream,
  MAX_PATH       \* bound on the length of a path, in components

ASSUME StreamsAssumption == NoStream \notin Streams
ASSUME PathAssumption == MAX_PATH \in Nat

Name(path, stream) == [path |-> path, stream |-> stream]

Root == Name(<<>>, NoStream)

\* Streams of the root directory are left out: they sort before the root.
Names ==
  {Root} \cup
  {Name(p, s) : p \in UNION {[1 .. n -> Components] : n \in 1 .. MAX_PATH},
                s \in Streams \cup {NoStream}}

IsStream(name) == name.stream # NoStream

\* FindMainFromStream cuts the name at the colon.
MainName(name) == Name(name.path, NoStream)

\* Utils::PathSuffix, the part before the last backslash: a stream has the
\* parent of its file.
ParentName(name) == Name(Front(name.path), NoStream)

\* FileNameHasPrefix: the name itself, its streams and all below it.
HasPrefix(name, prefix) ==
  IF IsStream(prefix) THEN name = prefix ELSE IsPrefix(prefix.path, name.path)

\* HasChild and EnumerateNamedStreams skip, or look for, the colon.
IsChildOf(name, parent) ==
  name # Root /\ ~IsStream(name) /\ ~IsStream(parent) /\ ParentName(name) = parent

IsStreamOf(name, main) == IsStream(name) /\ MainName(name) = main

\* What Rename makes of the name of a descendant.
Renamed(name, old, new) ==
  Name(new.path \o SubSeq(name.path, Len(old.path) + 1, Len(name.path)), name.stream)

=============================================================================
