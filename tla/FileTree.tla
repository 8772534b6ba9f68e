------------------------------- MODULE FileTree -------------------------------
(***************************************************************************)
(* What the namespace promises: a tree of names that each call changes in  *)
(* one step.  Namespace implements it.                                     *)
(***************************************************************************)
EXTENDS FileNames, Functions

CONSTANT FileNodes

VARIABLE tree      \* the node each name present stands for

Occupied(name) == name \in DOMAIN tree

StreamsOf(name) == {s \in DOMAIN tree : IsStreamOf(s, name)}

Init == \E root \in FileNodes : tree = [name \in {Root} |-> root]

\* A new name appears in an existing directory, for a node in no other place.
Add(name, n) ==
  /\ ~Occupied(name) /\ Occupied(ParentName(name))
  /\ \A other \in DOMAIN tree : tree[other] # n
  /\ tree' = [x \in DOMAIN tree \cup {name} |-> IF x = name THEN n ELSE tree[x]]

\* A name without children disappears together with its streams.
Delete(name) ==
  /\ Occupied(name) /\ name # Root
  /\ \A other \in DOMAIN tree : ~IsChildOf(other, name)
  /\ tree' = Restrict(tree, DOMAIN tree \ ({name} \cup StreamsOf(name)))

\* Some streams of a file disappear and nothing else changes.
DropStreams(name, S) ==
  /\ Occupied(name) /\ S \subseteq StreamsOf(name)
  /\ tree' = Restrict(tree, DOMAIN tree \ S)

\* A name, its streams and all below it move; what stood at the new name is
\* gone with its streams; every node that moves keeps its place below.
Move(old, new) ==
  LET moving == {name \in DOMAIN tree : HasPrefix(name, old)}
      staying == DOMAIN tree \ (moving \cup {new} \cup StreamsOf(new))
      arrivals == {Renamed(name, old, new) : name \in moving}
      At(name) == CHOOSE m \in moving : Renamed(m, old, new) = name
  IN  /\ Occupied(old) /\ old # Root /\ Occupied(ParentName(new))
      /\ HasPrefix(new, old) => new = old
      /\ tree' = [name \in staying \cup arrivals |->
                    IF name \in arrivals THEN tree[At(name)] ELSE tree[name]]

Next ==
  \/ \E name \in Names, n \in FileNodes : Add(name, n)
  \/ \E name \in Names : Delete(name) \/ \E S \in SUBSET StreamsOf(name) : DropStreams(name, S)
  \/ \E old, new \in Names : Move(old, new)

Spec == Init /\ [][Next]_tree

=============================================================================
