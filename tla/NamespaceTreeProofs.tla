------------------------- MODULE NamespaceTreeProofs -------------------------
(***************************************************************************)
(* The file map is a tree, no main node of an open stream is deleted, and  *)
(* Namespace implements FileTree, as long as Rename replaces no file with  *)
(* streams: what the map is while a call runs, relative to what it was     *)
(* when the last one returned.                                             *)
(***************************************************************************)
EXTENDS NamespaceProofs, NaturalsInduction, WellFoundedInduction

-----------------------------------------------------------------------------
(* Parents, main files and prefixes. *)

LEMMA MainIsName ==
  ASSUME NEW name \in Names
  PROVE  /\ MainName(name) \in Names /\ ~IsStream(MainName(name))
         /\ MainName(name).path = name.path /\ MainName(name).stream = NoStream
         /\ name # Root => MainName(name) # Root
<1>1. CASE name = Root
  BY <1>1, RootIsName DEF MainName, Root, Name, IsStream
<1>2. CASE name # Root
  <2>1. PICK p \in Seq(Components) : p = name.path /\ Len(p) \in 1 .. MAX_PATH
    BY <1>2, NamePaths
  <2>2. Name(p, NoStream) \in Names
    BY <2>1, NamesOfPaths
  <2>3. Name(p, NoStream) # Root
    <3>1. Len(<<>>) = 0 /\ ~(0 \in 1 .. MAX_PATH)
      BY PathAssumption
    <3> QED BY <2>1, <3>1 DEF Name, Root
  <2> QED BY <2>1, <2>2, <2>3 DEF MainName, Name, IsStream
<1> QED BY <1>1, <1>2

LEMMA ParentIsName ==
  ASSUME NEW name \in Names, name # Root
  PROVE  /\ ParentName(name) \in Names /\ ~IsStream(ParentName(name))
         /\ ParentName(name).stream = NoStream
         /\ ParentName(name).path \in Seq(Components)
         /\ Len(ParentName(name).path) = Len(name.path) - 1
         /\ \A i \in 1 .. Len(name.path) - 1 : ParentName(name).path[i] = name.path[i]
<1>1. PICK p \in Seq(Components), k \in Nat : p = name.path /\ k + 1 = Len(p) /\ Len(p) \in 1 .. MAX_PATH
  <2>1. Len(name.path) \in 1 .. MAX_PATH
    BY NamePaths
  <2>2. Len(name.path) - 1 \in Nat /\ Len(name.path) - 1 + 1 = Len(name.path)
    BY <2>1, PathAssumption
  <2> QED BY <2>1, <2>2, NamePaths
<1> DEFINE f == SubSeq(p, 1, k)
<1>2. ParentName(name) = Name(f, NoStream)
  <2>1. Len(p) - 1 = k
    BY <1>1
  <2> QED BY <1>1, <2>1 DEF ParentName, Front
<1>3. f \in Seq(Components) /\ Len(f) = k /\ \A i \in 1 .. k : f[i] = p[i]
  <2>1. k <= Len(p)
    BY <1>1
  <2> QED BY <2>1, CutBegin
<1> HIDE DEF f
<1>4. Name(f, NoStream) \in Names
  <2>1. CASE k = 0
    <3>1. f = <<>>
      BY <1>3, <2>1, EmptySeq
    <3> QED BY <3>1, RootIsName DEF Root
  <2>2. CASE k # 0
    <3>1. Len(f) \in 1 .. MAX_PATH
      BY <1>1, <1>3, <2>2, PathAssumption
    <3> QED BY <1>3, <3>1, NamesOfPaths
  <2> QED BY <2>1, <2>2
<1>5. k = Len(name.path) - 1
  BY <1>1
<1>6. /\ ParentName(name).path = f /\ ParentName(name).stream = NoStream
      /\ ~IsStream(ParentName(name))
  BY <1>2 DEF Name, IsStream
<1>7. \A i \in 1 .. k : f[i] = name.path[i]
  BY <1>1, <1>3
<1> QED BY <1>2, <1>3, <1>4, <1>5, <1>6, <1>7

LEMMA ParentOfMain ==
  ASSUME NEW name
  PROVE  ParentName(MainName(name)) = ParentName(name)
BY DEF ParentName, MainName, Name

\* A prefix, place by place.
LEMMA PrefixOf ==
  ASSUME NEW name \in Names, NEW old \in Names, ~IsStream(old)
  PROVE  /\ Len(name.path) \in Nat /\ Len(old.path) \in Nat
         /\ HasPrefix(name, old) <=>
              Len(old.path) <= Len(name.path)
                /\ \A i \in 1 .. Len(old.path) : name.path[i] = old.path[i]
BY NamePaths, PrefixByPlace DEF HasPrefix

LEMMA PrefixOfParent ==
  ASSUME NEW name \in Names, name # Root, NEW old \in Names, ~IsStream(old)
  PROVE  HasPrefix(ParentName(name), old) <=>
           HasPrefix(name, old) /\ Len(old.path) < Len(name.path)
<1>1. PICK m \in Nat, k \in Nat : m = Len(name.path) /\ k = Len(old.path)
  BY PrefixOf
<1>2. PICK parent \in Names : parent = ParentName(name)
  BY ParentIsName
<1>3. Len(parent.path) = m - 1 /\ \A i \in 1 .. m - 1 : parent.path[i] = name.path[i]
  BY <1>1, <1>2, ParentIsName
<1>4. HasPrefix(parent, old) <=> k <= m - 1 /\ \A i \in 1 .. k : parent.path[i] = old.path[i]
  BY <1>1, <1>3, PrefixOf
<1>5. HasPrefix(name, old) <=> k <= m /\ \A i \in 1 .. k : name.path[i] = old.path[i]
  BY <1>1, PrefixOf
<1>6. k <= m - 1 <=> k <= m /\ k < m
  OBVIOUS
<1>7. k <= m - 1 => \A i \in 1 .. k : parent.path[i] = name.path[i]
  BY <1>3
<1> QED BY <1>1, <1>2, <1>4, <1>5, <1>6, <1>7

LEMMA PrefixOfMain ==
  ASSUME NEW name \in Names, NEW old \in Names, ~IsStream(old)
  PROVE  HasPrefix(MainName(name), old) <=> HasPrefix(name, old)
BY DEF HasPrefix, MainName, Name

\* A name with a prefix of the same length is the prefix or a stream of it.
LEMMA PrefixOfSameLength ==
  ASSUME NEW name \in Names, NEW old \in Names, ~IsStream(old),
         HasPrefix(name, old), Len(name.path) = Len(old.path)
  PROVE  /\ name.path = old.path /\ MainName(name) = old
         /\ ParentName(name) = ParentName(old)
         /\ name = old \/ IsStreamOf(name, old)
<1>1. PICK p \in Seq(Components), q \in Seq(Components) : p = name.path /\ q = old.path
  BY NamePaths
<1>2. p = q
  <2>1. \A i \in 1 .. Len(q) : p[i] = q[i]
    BY <1>1, PrefixOf
  <2> QED BY <1>1, <2>1, SeqEqual
<1>3. old = Name(q, NoStream)
  BY <1>1, NamePaths DEF IsStream
<1>4. MainName(name) = old
  BY <1>1, <1>2, <1>3 DEF MainName
<1>5. ~IsStream(name) => name = old
  BY <1>1, <1>2, <1>3, NamePaths DEF IsStream
<1> QED BY <1>1, <1>2, <1>3, <1>4, <1>5 DEF ParentName, IsStreamOf

\* The parent of a name does not begin with the name.
LEMMA ParentIsShorter ==
  ASSUME NEW name \in Names, name # Root, ~IsStream(name)
  PROVE  ~HasPrefix(ParentName(name), name) /\ ParentName(name) # name
<1>1. Len(name.path) \in Nat /\ ~(Len(name.path) < Len(name.path))
  BY NamePaths
<1>2. ~HasPrefix(ParentName(name), name)
  BY <1>1, PrefixOfParent
<1> QED BY <1>2, PrefixOfItself

LEMMA PrefixIsNotRoot ==
  ASSUME NEW name \in Names, NEW old \in Names, old # Root, ~IsStream(old), HasPrefix(name, old)
  PROVE  name # Root /\ 0 < Len(old.path)
<1>1. Len(old.path) \in 1 .. MAX_PATH
  BY NamePaths
<1>2. Len(old.path) <= Len(name.path)
  BY PrefixOf
<1>3. 0 < Len(old.path)
  BY <1>1, PathAssumption
<1>4. Len(Root.path) = 0
  BY DEF Root, Name
<1> QED BY <1>1, <1>2, <1>3, <1>4

-----------------------------------------------------------------------------
(* Renamed names. *)

LEMMA RenamedPrefix ==
  ASSUME NEW name \in Names, NEW old \in Names, NEW new \in Names,
         HasPrefix(name, old), ~IsStream(old), ~IsStream(new)
  PROVE  /\ HasPrefix(Renamed(name, old, new), new)
         /\ IsStream(Renamed(name, old, new)) <=> IsStream(name)
         /\ Renamed(name, old, new).path \in Seq(Components)
<1>1. PICK p \in Seq(Components), q \in Seq(Components) :
        p = Renamed(name, old, new).path /\ q = new.path
  BY NamePaths, RenamedLength
<1>2. Len(p) = Len(q) + (Len(name.path) - Len(old.path)) /\ \A i \in 1 .. Len(q) : p[i] = q[i]
  BY <1>1, RenamedLength
<1>3. Len(name.path) \in Nat /\ Len(old.path) \in Nat /\ Len(old.path) <= Len(name.path)
  BY PrefixOf
<1>4. Len(q) <= Len(p)
  <2>1. PICK a \in Nat, b \in Nat, c \in Nat : a = Len(name.path) /\ b = Len(old.path) /\ c = Len(q)
    BY <1>3, LenProperties
  <2> QED BY <1>2, <1>3, <2>1
<1>5. IsPrefix(q, p)
  BY <1>2, <1>4, PrefixByPlace
<1> QED BY <1>1, <1>5, RenamedPath DEF HasPrefix, IsStream

LEMMA RenamedMain ==
  ASSUME NEW name \in Names, NEW old \in Names, NEW new \in Names
  PROVE  MainName(Renamed(name, old, new)) = Renamed(MainName(name), old, new)
BY DEF MainName, Renamed, Name

LEMMA RenamedInjective ==
  ASSUME NEW x \in Names, NEW y \in Names, NEW old \in Names, NEW new \in Names,
         HasPrefix(x, old), HasPrefix(y, old), ~IsStream(old),
         Renamed(x, old, new) = Renamed(y, old, new)
  PROVE  x = y
<1>1. PICK p \in Seq(Components), q \in Seq(Components), o \in Seq(Components),
           w \in Seq(Components), r \in Seq(Components) :
        p = x.path /\ q = y.path /\ o = old.path /\ w = new.path /\ r = Renamed(x, old, new).path
  BY NamePaths, RenamedLength
<1>2. /\ Len(p) \in Nat /\ Len(q) \in Nat /\ Len(o) \in Nat /\ Len(w) \in Nat /\ Len(r) \in Nat
      /\ Len(o) <= Len(p) /\ Len(o) <= Len(q)
      /\ \A i \in 1 .. Len(o) : p[i] = o[i] /\ q[i] = o[i]
  BY <1>1, PrefixOf, LenProperties
<1>3. /\ Len(r) = Len(w) + (Len(p) - Len(o))
      /\ \A i \in Len(w) + 1 .. Len(r) : r[i] = p[Len(o) + (i - Len(w))]
  <2>1. /\ Len(Renamed(x, old, new).path) = Len(new.path) + (Len(x.path) - Len(old.path))
        /\ \A i \in Len(new.path) + 1 .. Len(Renamed(x, old, new).path) :
             Renamed(x, old, new).path[i] = x.path[Len(old.path) + (i - Len(new.path))]
    BY RenamedLength
  <2> QED BY <1>1, <2>1
<1>4. /\ Len(r) = Len(w) + (Len(q) - Len(o))
      /\ \A i \in Len(w) + 1 .. Len(r) : r[i] = q[Len(o) + (i - Len(w))]
  <2>1. /\ Len(Renamed(y, old, new).path) = Len(new.path) + (Len(y.path) - Len(old.path))
        /\ \A i \in Len(new.path) + 1 .. Len(Renamed(y, old, new).path) :
             Renamed(y, old, new).path[i] = y.path[Len(old.path) + (i - Len(new.path))]
    BY RenamedLength
  <2>2. r = Renamed(y, old, new).path
    BY <1>1
  <2> QED BY <1>1, <2>1, <2>2
<1>5. Len(p) = Len(q)
  BY <1>2, <1>3, <1>4
<1>6. ASSUME NEW i \in 1 .. Len(p) PROVE p[i] = q[i]
  <2>1. CASE i <= Len(o)
    BY <1>2, <2>1
  <2>2. CASE ~(i <= Len(o))
    <3>1. PICK a \in Nat, b \in Nat, c \in Nat, l \in Nat :
            a = Len(p) /\ b = Len(o) /\ c = Len(w) /\ l = Len(r)
      BY <1>2
    <3>2. PICK j \in Int : j = (i - b) + c
      <4>1. i \in Int
        BY <1>2
      <4>2. (i - b) + c \in Int
        BY <4>1
      <4> QED BY <4>2
    <3>3. j \in c + 1 .. l /\ b + (j - c) = i
      BY <1>2, <1>3, <2>2, <3>1, <3>2
    <3>4. r[j] = p[b + (j - c)] /\ r[j] = q[b + (j - c)]
      BY <1>3, <1>4, <3>1, <3>3
    <3> QED BY <3>3, <3>4
  <2> QED BY <2>1, <2>2
<1>7. p = q
  BY <1>5, <1>6, SeqEqual
<1>8. x.stream = y.stream
  <2>1. Renamed(x, old, new).stream = x.stream /\ Renamed(y, old, new).stream = y.stream
    BY RenamedPath
  <2> QED BY <2>1
<1>9. x = Name(p, x.stream) /\ y = Name(q, y.stream)
  BY <1>1, NamePaths
<1> QED BY <1>7, <1>8, <1>9

LEMMA RenamedOld ==
  ASSUME NEW old \in Names, NEW new \in Names, ~IsStream(old), ~IsStream(new)
  PROVE  Renamed(old, old, new) = new
<1>1. HasPrefix(old, old)
  BY PrefixOfItself
<1>2. PICK p \in Seq(Components), q \in Seq(Components) :
        p = Renamed(old, old, new).path /\ q = new.path
  BY <1>1, NamePaths, RenamedLength
<1>3. /\ Len(p) = Len(q) + (Len(old.path) - Len(old.path)) /\ \A i \in 1 .. Len(q) : p[i] = q[i]
      /\ Len(old.path) \in Nat /\ Len(q) \in Nat
  BY <1>1, <1>2, NamePaths, RenamedLength, LenProperties
<1>4. Len(p) = Len(q)
  BY <1>3
<1>5. p = q
  BY <1>3, <1>4, SeqEqual
<1> QED BY <1>2, <1>5, NamePaths DEF Renamed, Name, IsStream

\* A descendant goes where its parent went, the node itself to the new parent.
LEMMA RenamedParent ==
  ASSUME NEW name \in Names, NEW old \in Names, NEW new \in Names,
         HasPrefix(name, old), ~IsStream(old), ~IsStream(new), old # Root
  PROVE  /\ Len(old.path) = Len(name.path) =>
              ParentName(Renamed(name, old, new)) = ParentName(new)
         /\ Len(old.path) < Len(name.path) =>
              ParentName(Renamed(name, old, new)) = Renamed(ParentName(name), old, new)
<1>1. CASE Len(old.path) = Len(name.path)
  <2>1. name.path = old.path
    BY <1>1, PrefixOfSameLength
  <2>2. Renamed(name, old, new).path = Renamed(old, old, new).path
    BY <2>1 DEF Renamed, Name
  <2>3. Renamed(name, old, new).path = new.path
    BY <2>2, RenamedOld
  <2>4. ~(Len(old.path) < Len(name.path))
    BY <1>1, PrefixOf
  <2> QED BY <2>3, <2>4 DEF ParentName
<1>2. CASE Len(old.path) < Len(name.path)
  <2>1. name # Root
    BY PrefixIsNotRoot
  <2>2. PICK parent \in Names : parent = ParentName(name)
    BY <2>1, ParentIsName
  <2>3. HasPrefix(parent, old) /\ ~IsStream(parent)
    BY <1>2, <2>1, <2>2, PrefixOfParent, ParentIsName
  <2>4. PICK p \in Seq(Components), q \in Seq(Components) :
          p = Renamed(name, old, new).path /\ q = Renamed(parent, old, new).path
    BY <2>3, RenamedLength
  <2>5. PICK m \in Nat, k \in Nat, l \in Nat :
          m = Len(name.path) /\ k = Len(old.path) /\ l = Len(new.path)
    BY NamePaths
  <2>6. Len(parent.path) = m - 1 /\ \A i \in 1 .. m - 1 : parent.path[i] = name.path[i]
    BY <2>1, <2>2, <2>5, ParentIsName
  <2>7. /\ Len(p) = l + (m - k) /\ \A i \in 1 .. l : p[i] = new.path[i]
        /\ \A i \in l + 1 .. Len(p) : p[i] = name.path[k + (i - l)]
    <3>1. /\ Len(Renamed(name, old, new).path) = Len(new.path) + (Len(name.path) - Len(old.path))
          /\ \A i \in 1 .. Len(new.path) : Renamed(name, old, new).path[i] = new.path[i]
          /\ \A i \in Len(new.path) + 1 .. Len(Renamed(name, old, new).path) :
               Renamed(name, old, new).path[i] = name.path[Len(old.path) + (i - Len(new.path))]
      BY RenamedLength
    <3> QED BY <2>4, <2>5, <3>1
  <2>8. /\ Len(q) = l + ((m - 1) - k) /\ \A i \in 1 .. l : q[i] = new.path[i]
        /\ \A i \in l + 1 .. Len(q) : q[i] = parent.path[k + (i - l)]
    <3>1. /\ Len(Renamed(parent, old, new).path) = Len(new.path) + (Len(parent.path) - Len(old.path))
          /\ \A i \in 1 .. Len(new.path) : Renamed(parent, old, new).path[i] = new.path[i]
          /\ \A i \in Len(new.path) + 1 .. Len(Renamed(parent, old, new).path) :
               Renamed(parent, old, new).path[i] = parent.path[Len(old.path) + (i - Len(new.path))]
      BY <2>3, RenamedLength
    <3> QED BY <2>4, <2>5, <2>6, <3>1
  <2>9. PICK n \in Nat : n = Len(q) /\ n = Len(p) - 1 /\ n = l + ((m - 1) - k)
    <3>1. k < m
      BY <1>2, <2>5
    <3>2. l + ((m - 1) - k) \in Nat /\ l + ((m - 1) - k) = l + (m - k) - 1
      BY <3>1
    <3> QED BY <2>7, <2>8, <3>2
  <2> DEFINE f == SubSeq(p, 1, n)
  <2>10. f \in Seq(Components) /\ Len(f) = n /\ \A i \in 1 .. n : f[i] = p[i]
    <3>1. n <= Len(p)
      BY <2>7, <2>9
    <3> QED BY <3>1, CutBegin
  <2>11. ParentName(Renamed(name, old, new)) = Name(f, NoStream)
    BY <2>4, <2>9 DEF ParentName, Front
  <2> HIDE DEF f
  <2>12. ASSUME NEW i \in 1 .. n PROVE p[i] = q[i]
    <3>1. CASE i <= l
      BY <2>7, <2>8, <3>1
    <3>2. CASE ~(i <= l)
      <4>1. PICK j \in Int : j = k + (i - l)
        OBVIOUS
      <4>2. j \in 1 .. m - 1 /\ i \in l + 1 .. Len(p) /\ i \in l + 1 .. Len(q)
        <5>1. k < m /\ Len(p) = l + (m - k) /\ Len(q) = l + ((m - 1) - k)
          BY <1>2, <2>5, <2>7, <2>8
        <5>2. n = l + ((m - 1) - k)
          BY <2>9
        <5> QED BY <3>2, <4>1, <5>1, <5>2
      <4>3. p[i] = name.path[j] /\ q[i] = parent.path[j]
        BY <2>7, <2>8, <4>1, <4>2
      <4> QED BY <2>6, <4>2, <4>3
    <3> QED BY <3>1, <3>2
  <2>13. f = q
    BY <2>9, <2>10, <2>12, SeqEqual
  <2>14. Renamed(parent, old, new) = Name(q, NoStream)
    BY <2>3, <2>4 DEF Renamed, Name, IsStream
  <2>15. Len(old.path) # Len(name.path)
    BY <1>2, <2>5
  <2> QED BY <2>2, <2>11, <2>13, <2>14, <2>15
<1>3. Len(old.path) \in Nat /\ Len(name.path) \in Nat
  BY PrefixOf
<1> QED BY <1>1, <1>2, <1>3

-----------------------------------------------------------------------------
(* The inductive invariant. *)

MainOf(tree, name) == IF IsStream(name) THEN tree[MainName(name)] ELSE nullptr

\* Every name has its parent, and every stream its file.
IsTree(tree) ==
  /\ DOMAIN tree \subseteq Names /\ tree \in [DOMAIN tree -> FileNodes]
  /\ \A x, y \in DOMAIN tree : tree[x] = tree[y] => x = y
  /\ \A x \in DOMAIN tree : x # Root => ParentName(x) \in DOMAIN tree
  /\ \A x \in DOMAIN tree : IsStream(x) => MainName(x) \in DOMAIN tree

\* Nodes are what their names say, as long as they are alive.
IsParent(n) == n \in alive => n \in directories

HasMain(n, main) == n \in alive => mainFileNode[n] = main

TreeNodes(tree) ==
  /\ \A x \in DOMAIN tree : x # Root => IsParent(tree[ParentName(x)])
  /\ \A x \in DOMAIN tree : HasMain(tree[x], MainOf(tree, x))

SettledInv == IsTree(settled) /\ TreeNodes(settled)

RestInv == (\A t \in Threads : ~Guarded(t)) => fileMap = settled

Created(t) ==
  \E name \in Names \ DOMAIN settled :
    /\ DOMAIN fileMap = DOMAIN settled \cup {name}
    /\ fileMap[name] = node[t]
    /\ \A x \in DOMAIN settled : fileMap[x] = settled[x]
    /\ ParentName(name) \in DOMAIN settled /\ IsParent(settled[ParentName(name)])
    /\ IsStream(name) => MainName(name) \in DOMAIN settled
    /\ HasMain(node[t], MainOf(settled, name))

\* The map is what it was at rest but for some streams of a file.
LacksStreamsOf(name) ==
  /\ name \in DOMAIN fileMap
  /\ DOMAIN fileMap \subseteq DOMAIN settled
  /\ \A x \in DOMAIN fileMap : fileMap[x] = settled[x]
  /\ \A x \in DOMAIN settled \ DOMAIN fileMap : IsStreamOf(x, name)

Drops(t, name) ==
  /\ LacksStreamsOf(name) /\ fileMap[name] = node[t]
  /\ \A s \in todo[t] : \E x \in DOMAIN settled : settled[x] = s /\ IsStreamOf(x, name)

Dropping(t) == \E name \in Names : Drops(t, name)

Deletes(t, name) ==
  /\ name # Root
  /\ \A x \in DOMAIN settled : x # Root => ParentName(x) # name
  /\ \A x \in DOMAIN fileMap : IsStreamOf(x, name) => fileMap[x] \in todo[t]

Deleting(t) == \E name \in Names : Drops(t, name) /\ Deletes(t, name)

\* The names that Rename changes, and what it makes of them.
Moving(t) == {x \in DOMAIN settled : HasPrefix(x, oldName[t])}

Target(t, x) == Renamed(x, oldName[t], newFileName[t])

\* The node has its new name already.
Moved(t, n) == n \notin todo[t] \/ (pc[t] = "renameRelease" /\ n = item[t])

\* What Rename found when it began.
MoveBegun(t) ==
  /\ oldName[t] \in DOMAIN settled /\ settled[oldName[t]] = node[t] /\ oldName[t] # Root
  /\ ParentName(newFileName[t]) \in DOMAIN settled
  /\ IsParent(settled[ParentName(newFileName[t])])
  /\ \A x \in DOMAIN settled :
       HasPrefix(x, newFileName[t]) => x = newFileName[t] \/ newFileName[t] = oldName[t]

\* What it has still to do.
MoveLeft(t) ==
  /\ \A d \in todo[t] : \E x \in Moving(t) : settled[x] = d
  /\ pc[t] \in {"renameReference", "renameRemove", "renameDereference"} =>
       \A x \in Moving(t) : settled[x] \in todo[t]
  /\ pc[t] = "renameRelink" =>
       \E x \in Moving(t) : settled[x] = item[t] /\ fileName[item[t]] = x

Stays(t, x) == x \in DOMAIN settled \ Moving(t) /\ x # newFileName[t]

Waits(t, x) == x \in Moving(t) /\ settled[x] \in Unmoved(t) /\ x # newFileName[t]

\* What the map is made of once the new name is free.
HalfMoved(t) ==
  /\ \A x \in DOMAIN settled : Stays(t, x) \/ Waits(t, x) => Present(x) /\ fileMap[x] = settled[x]
  /\ \A x \in Moving(t) :
       Moved(t, settled[x]) => Present(Target(t, x)) /\ fileMap[Target(t, x)] = settled[x]
  /\ \A y \in DOMAIN fileMap :
       \/ Stays(t, y) \/ Waits(t, y)
       \/ \E x \in Moving(t) : Moved(t, settled[x]) /\ y = Target(t, x)

MapMoving(t) ==
  IF pc[t] \in {"renameReference", "renameRemove"} THEN fileMap = settled ELSE HalfMoved(t)

PhaseInv(t) ==
  /\ pc[t] = "createReference" => Created(t)
  /\ pc[t] \in {"overwrite", "overwriteRemove"} => Dropping(t)
  /\ pc[t] = "cleanup" => Deleting(t)
  /\ pc[t] \in Renaming => MoveBegun(t) /\ MoveLeft(t) /\ MapMoving(t)

\* The file of a stream that is open, or being opened, is open.
MainOpen(n) == mainFileNode[n] # nullptr => opened[mainFileNode[n]] > 0

OpenInv ==
  /\ \A n \in FileNodes : opened[n] > 0 => MainOpen(n)
  /\ \A t \in Threads : pc[t] \in {"open", "createReference"} => MainOpen(node[t])

\* A deleting Cleanup gives up one of several handles, or no stream is open.
LastHandle(n) ==
  opened[n] > 1 \/ \A s \in FileNodes : mainFileNode[s] = n => opened[s] = 0

LastHandleInv == \A t \in Threads : pc[t] = "cleanup" => LastHandle(node[t])

TreeInv ==
  /\ Inv /\ SettledInv /\ RestInv /\ OpenInv /\ LastHandleInv
  /\ \A t \in Threads : PhaseInv(t)

-----------------------------------------------------------------------------
(* What every step but those of Create leaves of the nodes.                  *)

Keeps ==
  /\ alive' \subseteq alive
  /\ \A m \in alive' : mainFileNode'[m] = mainFileNode[m] /\ (m \in directories => m \in directories')
  /\ \A m \in FileNodes : mainFileNode'[m] = mainFileNode[m] \/ mainFileNode'[m] = nullptr

LEMMA UnchangedKeeps ==
  ASSUME UNCHANGED <<alive, mainFileNode, directories>>
  PROVE  Keeps
BY DEF Keeps

LEMMA DereferenceKeeps ==
  ASSUME TypeOK, NEW n \in FileNodes, Dereference(n)
  PROVE  Keeps
<1>1. CASE refCount[n] = 1
  BY <1>1 DEF TypeOK, Dereference, Keeps
<1>2. CASE refCount[n] # 1
  BY <1>2 DEF Dereference, Keeps, members
<1> QED BY <1>1, <1>2

LEMMA RemoveKeeps ==
  ASSUME TypeOK, NEW n \in FileNodes, RemoveNode(n)
  PROVE  Keeps
<1>1. CASE Present(fileName[n])
  BY <1>1, DereferenceKeeps DEF RemoveNode
<1>2. CASE ~Present(fileName[n])
  BY <1>2, UnchangedKeeps DEF RemoveNode, members
<1> QED BY <1>1, <1>2

LEMMA IsParentKept ==
  ASSUME Keeps, NEW n, IsParent(n)
  PROVE  n \in alive' => n \in directories'
BY DEF Keeps, IsParent

LEMMA HasMainKept ==
  ASSUME Keeps, NEW n, NEW main, HasMain(n, main)
  PROVE  n \in alive' => mainFileNode'[n] = main
BY DEF Keeps, HasMain

LEMMA SettledKept ==
  ASSUME SettledInv, Keeps, settled' = settled
  PROVE  SettledInv'
<1>1. IsTree(settled)'
  BY DEF SettledInv, IsTree
<1>2. TreeNodes(settled)'
  <2>1. \A x \in DOMAIN settled : x # Root =>
          (settled[ParentName(x)] \in alive' => settled[ParentName(x)] \in directories')
    BY IsParentKept DEF SettledInv, TreeNodes
  <2>2. \A x \in DOMAIN settled :
          settled[x] \in alive' => mainFileNode'[settled[x]] = MainOf(settled, x)
    BY HasMainKept DEF SettledInv, TreeNodes
  <2> QED BY <2>1, <2>2 DEF TreeNodes, IsParent, HasMain, MainOf
<1> QED BY <1>1, <1>2 DEF SettledInv

\* A step that opens nothing and closes nothing.
LEMMA MainOpenKept ==
  ASSUME TypeOK, Keeps, opened' = opened, NEW n \in FileNodes, MainOpen(n)
  PROVE  MainOpen(n)'
BY DEF MainOpen, Keeps

LEMMA OpenKept ==
  ASSUME Inv, OpenInv, Keeps, opened' = opened,
         \A u \in Threads : pc'[u] \in {"open", "createReference"} =>
           pc[u] \in {"open", "createReference"} /\ node'[u] = node[u]
  PROVE  OpenInv'
<1>1. ASSUME NEW n \in FileNodes, opened'[n] > 0 PROVE MainOpen(n)'
  BY <1>1, MainOpenKept DEF OpenInv, Inv
<1>2. ASSUME NEW u \in Threads, pc'[u] \in {"open", "createReference"} PROVE MainOpen(node[u])'
  <2>1. PICK n : n = node[u]
    OBVIOUS
  <2>2. n \in FileNodes /\ MainOpen(n) /\ node'[u] = n
    BY <1>2, <2>1 DEF OpenInv, Inv, CallInv, FoundInv
  <2>3. MainOpen(n)'
    BY <2>2, MainOpenKept DEF Inv
  <2> QED BY <2>2, <2>3 DEF MainOpen
<1> QED BY <1>1, <1>2 DEF OpenInv

LEMMA LastHandleKept ==
  ASSUME Keeps, opened' = opened, NEW n \in FileNodes, LastHandle(n)
  PROVE  opened'[n] > 1 \/ \A s \in FileNodes : mainFileNode'[s] = n => opened'[s] = 0
BY NodesAssumption DEF Keeps, LastHandle

-----------------------------------------------------------------------------
(* Putting a step of a call together.                                        *)

LEMMA IdlePhase ==
  ASSUME NEW u, pc'[u] \in {"idle", "open"}
  PROVE  PhaseInv(u)'
BY DEF PhaseInv, Renaming

\* The call goes on.
LEMMA TreeStep ==
  ASSUME TreeInv, Inv', NEW t \in Threads, Others(t), OthersKept(t),
         Keeps, settled' = settled, opened' = opened,
         pc'[t] \notin {"idle", "open", "createReference"},
         pc'[t] = "cleanup" => node'[t] \in FileNodes /\ LastHandle(node'[t]),
         PhaseInv(t)'
  PROVE  TreeInv'
<1>1. \A u \in Threads : u # t => pc'[u] = "idle"
  BY DEF Others, OthersKept
<1>2. SettledInv'
  BY SettledKept DEF TreeInv
<1>3. RestInv'
  BY DEF RestInv, Guarded
<1>4. OpenInv'
  BY <1>1, OpenKept DEF TreeInv
<1>5. LastHandleInv'
  <2>1. ASSUME NEW n \in FileNodes, LastHandle(n) PROVE LastHandle(n)'
    BY <2>1, LastHandleKept DEF LastHandle
  <2>2. ASSUME NEW u \in Threads, pc'[u] = "cleanup" PROVE LastHandle(node[u])'
    <3>1. u = t
      BY <1>1, <2>2
    <3>2. PICK n \in FileNodes : n = node'[t] /\ LastHandle(n)
      BY <2>2, <3>1
    <3>3. LastHandle(n)'
      BY <2>1, <3>2
    <3> QED BY <3>1, <3>2, <3>3 DEF LastHandle
  <2> QED BY <2>2 DEF LastHandleInv
<1>6. \A u \in Threads : PhaseInv(u)'
  BY <1>1, IdlePhase
<1> QED BY <1>2, <1>3, <1>4, <1>5, <1>6 DEF TreeInv

\* The call returns.
LEMMA TreeReturn ==
  ASSUME TreeInv, Inv', NEW t \in Threads, Others(t), OthersKept(t), pc'[t] = "idle",
         settled' = fileMap', IsTree(fileMap)', TreeNodes(fileMap)', OpenInv'
  PROVE  TreeInv'
<1>1. \A u \in Threads : pc'[u] = "idle"
  BY DEF Others, OthersKept
<1>2. SettledInv'
  BY DEF SettledInv, IsTree, TreeNodes, MainOf, IsParent, HasMain
<1>3. RestInv' /\ LastHandleInv'
  BY <1>1 DEF RestInv, LastHandleInv
<1>4. \A u \in Threads : PhaseInv(u)'
  BY <1>1, IdlePhase
<1> QED BY <1>2, <1>3, <1>4 DEF TreeInv

\* At rest the file map is what it was when the last call returned.
LEMMA AtRestFacts ==
  ASSUME TreeInv, \A t \in Threads : pc[t] \in {"idle", "open"}
  PROVE  /\ fileMap = settled /\ IsTree(fileMap)
         /\ \A x \in DOMAIN fileMap :
              /\ fileMap[x] \in FileNodes /\ fileMap[x] \in alive
              /\ x # Root => fileMap[ParentName(x)] \in directories
              /\ mainFileNode[fileMap[x]] = MainOf(fileMap, x)
<1>1. fileMap = settled
  BY DEF TreeInv, RestInv, Guarded
<1>2. IsTree(fileMap) /\ TreeNodes(fileMap)
  BY <1>1 DEF TreeInv, SettledInv
<1>3. \A x \in DOMAIN fileMap : fileMap[x] \in FileNodes /\ fileMap[x] \in alive
  <2> SUFFICES ASSUME NEW x \in DOMAIN fileMap PROVE fileMap[x] \in FileNodes /\ fileMap[x] \in alive
    OBVIOUS
  <2>1. PICK n : n = fileMap[x]
    OBVIOUS
  <2>2. n \in FileNodes /\ Mapped(n)
    BY <2>1 DEF TreeInv, Inv, TypeOK, Mapped
  <2> QED BY <2>1, <2>2, UsedIsAlive DEF TreeInv
<1> QED BY <1>1, <1>2, <1>3 DEF IsTree, TreeNodes, IsParent, HasMain

\* The nodes in the map are alive, whoever runs.
LEMMA MappedIsAlive ==
  ASSUME Inv, NEW x \in DOMAIN fileMap
  PROVE  fileMap[x] \in FileNodes /\ fileMap[x] \in alive
<1>1. PICK n : n = fileMap[x]
  OBVIOUS
<1>2. n \in FileNodes /\ Mapped(n)
  BY <1>1 DEF Inv, TypeOK, Mapped
<1> QED BY <1>1, <1>2, UsedIsAlive

LEMMA MapIsInjective ==
  ASSUME Inv
  PROVE  /\ DOMAIN fileMap \subseteq Names /\ fileMap \in [DOMAIN fileMap -> FileNodes]
         /\ \A x, y \in DOMAIN fileMap : fileMap[x] = fileMap[y] => x = y
BY DEF Inv, TypeOK, LinkInv

-----------------------------------------------------------------------------
(* Create and Open. *)

LEMMA TreeInit == Init => TreeInv
<1> SUFFICES ASSUME Init PROVE TreeInv
  OBVIOUS
<1>1. Inv
  BY InvInit
<1>2. PICK root \in FileNodes :
        /\ fileMap = [name \in {Root} |-> root] /\ settled = fileMap
        /\ mainFileNode = [n \in FileNodes |-> nullptr]
        /\ opened = [n \in FileNodes |-> 0]
        /\ pc = [t \in Threads |-> "idle"]
  BY DEF Init
<1>3. ~IsStream(Root)
  BY DEF Root, Name, IsStream
<1>4. IsTree(settled)
  BY <1>2, <1>3, RootIsName DEF IsTree
<1>5. TreeNodes(settled)
  BY <1>2, <1>3 DEF TreeNodes, HasMain, MainOf
<1>6. RestInv /\ OpenInv /\ LastHandleInv
  BY <1>2 DEF RestInv, OpenInv, LastHandleInv
<1>7. \A t \in Threads : PhaseInv(t)
  BY <1>2 DEF PhaseInv, Renaming
<1> QED BY <1>1, <1>4, <1>5, <1>6, <1>7 DEF TreeInv, SettledInv

\* The new node has the file of the stream for its main node.
LEMMA FoundMain ==
  ASSUME NEW name \in Names, ~Present(name)
  PROVE  /\ IsStream(name) => MainName(name) \in Names
         /\ FindMainFromStream(name) =
              IF Present(MainName(name)) THEN fileMap[MainName(name)] ELSE nullptr
         /\ ~IsStream(name) => FindMainFromStream(name) = nullptr
BY MainIsName, MainOfFile DEF FindMainFromStream

\* A node that nothing refers to is built while no call runs.
LEMMA NewNodeKeeps ==
  ASSUME TreeInv, NEW t \in Threads, MayRunExclusive, NEW n \in FileNodes \ alive,
         NEW name \in Names, NEW isDirectory, NewNode(n, name, isDirectory),
         UNCHANGED <<opened, settled>>
  PROVE  /\ SettledInv'
         /\ \A m \in FileNodes : opened'[m] > 0 => MainOpen(m)'
         /\ \A m \in FileNodes : m # n => (MainOpen(m) => MainOpen(m)')
         /\ mainFileNode'[n] = FindMainFromStream(name)
<1>1. \A u \in Threads : pc[u] \in {"idle", "open"}
  BY DEF MayRunExclusive
<1>2. /\ fileMap = settled /\ IsTree(fileMap)
      /\ \A x \in DOMAIN fileMap :
              /\ fileMap[x] \in FileNodes /\ fileMap[x] \in alive
              /\ x # Root => fileMap[ParentName(x)] \in directories
              /\ mainFileNode[fileMap[x]] = MainOf(fileMap, x)
  BY <1>1, AtRestFacts
<1>3. Inv /\ TypeOK /\ OpenInv
  BY DEF TreeInv, Inv
<1>4. /\ mainFileNode' = [mainFileNode EXCEPT ![n] = FindMainFromStream(name)]
      /\ alive' = alive \cup {n} /\ directories \subseteq directories'
  BY DEF NewNode
<1>5. /\ mainFileNode'[n] = FindMainFromStream(name)
      /\ \A m \in FileNodes : m # n => mainFileNode'[m] = mainFileNode[m]
  BY <1>3, <1>4 DEF TypeOK
<1>6. opened[n] = 0
  BY <1>3, FreshIsUnused
<1>7. SettledInv'
  <2>1. IsTree(settled)'
    BY <1>2 DEF IsTree
  <2>2. \A x \in DOMAIN settled : mainFileNode'[settled[x]] = MainOf(settled, x)
    BY <1>2, <1>5
  <2>3. \A x \in DOMAIN settled : x # Root => settled[ParentName(x)] \in directories'
    BY <1>2, <1>4
  <2> QED BY <2>1, <2>2, <2>3 DEF SettledInv, TreeNodes, IsParent, HasMain, MainOf
<1>8. \A m \in FileNodes : m # n => (MainOpen(m) => MainOpen(m)')
  BY <1>5 DEF MainOpen
<1>9. \A m \in FileNodes : opened'[m] > 0 => MainOpen(m)'
  BY <1>3, <1>6, <1>8 DEF OpenInv
<1> QED BY <1>5, <1>7, <1>8, <1>9

LEMMA TreeCreateInsert ==
  ASSUME TreeInv, NEW t \in Threads, NEW name \in Names, NEW isDirectory,
         CreateInsert(t, name, isDirectory)
  PROVE  TreeInv'
<1>1. PICK n \in FileNodes \ alive :
        NewNode(n, name, isDirectory) /\ fileMap' = Emplaced(name, n) /\ node' = [node EXCEPT ![t] = n]
  BY DEF CreateInsert
<1>2. /\ MayRunExclusive /\ MainIsOpen(name) /\ ~Present(name) /\ IsDirectory(ParentName(name))
      /\ pc' = [pc EXCEPT ![t] = "createReference"]
      /\ opened' = opened /\ settled' = settled
  BY DEF CreateInsert, MayCreate, Goto, handles, history
<1>3. Inv /\ TypeOK /\ OpenInv /\ Inv'
  BY InvCreateInsert DEF TreeInv, Inv
<1>4. /\ SettledInv'
      /\ \A m \in FileNodes : opened'[m] > 0 => MainOpen(m)'
      /\ mainFileNode'[n] = FindMainFromStream(name)
  BY <1>1, <1>2, NewNodeKeeps
<1>5. \A u \in Threads : pc[u] = "idle"
  BY <1>2 DEF MayRunExclusive
<1>6. /\ pc'[t] = "createReference" /\ node'[t] = n
      /\ \A u \in Threads : u # t => pc'[u] = "idle"
  BY <1>1, <1>2, <1>3, <1>5 DEF TypeOK
<1>7. fileMap = settled /\ IsTree(fileMap)
  BY <1>5, AtRestFacts
<1>8. /\ DOMAIN fileMap' = DOMAIN fileMap \cup {name} /\ fileMap'[name] = n
      /\ \A x \in DOMAIN fileMap : fileMap'[x] = fileMap[x]
      /\ name \notin DOMAIN fileMap
  BY <1>1, <1>2 DEF Emplaced, Present
<1>9. IsStream(name) => /\ MainName(name) \in DOMAIN fileMap
                        /\ FindMainFromStream(name) = fileMap[MainName(name)]
                        /\ opened[fileMap[MainName(name)]] > 0
  BY <1>2 DEF MainIsOpen, FindMainFromStream, Present
<1>10. ~IsStream(name) => FindMainFromStream(name) = nullptr
  BY <1>2, FoundMain
<1>11. MainOpen(n)'
  BY <1>2, <1>4, <1>9, <1>10 DEF MainOpen
<1>12. OpenInv'
  <2>1. ASSUME NEW u \in Threads, pc'[u] \in {"open", "createReference"} PROVE MainOpen(node[u])'
    <3>1. node'[u] = n
      BY <1>6, <2>1
    <3> QED BY <1>11, <3>1 DEF MainOpen
  <2> QED BY <1>4, <2>1 DEF OpenInv
<1>13. PhaseInv(t)'
  <2>2. /\ ParentName(name) \in DOMAIN settled
        /\ settled[ParentName(name)] \in directories'
    BY <1>1, <1>2, <1>7 DEF IsDirectory, Present, NewNode
  <2>3. mainFileNode'[n] = MainOf(settled, name)
    BY <1>4, <1>7, <1>9, <1>10 DEF MainOf
  <2>4. Created(t)'
    BY <1>2, <1>6, <1>7, <1>8, <1>9, <2>2, <2>3
       DEF Created, IsParent, HasMain, MainOf
  <2> QED BY <1>6, <2>4 DEF PhaseInv, Renaming
<1>14. RestInv' /\ LastHandleInv'
  BY <1>6 DEF RestInv, LastHandleInv, Guarded
<1>15. \A u \in Threads : PhaseInv(u)'
  BY <1>6, <1>13, IdlePhase
<1> QED BY <1>3, <1>4, <1>12, <1>14, <1>15 DEF TreeInv

\* emplace throws: the node is built, and no name and no handle leads to it.
LEMMA TreeCreateInsertThrows ==
  ASSUME TreeInv, NEW t \in Threads, NEW name \in Names, NEW isDirectory,
         CreateInsertThrows(t, name, isDirectory)
  PROVE  TreeInv'
<1>1. PICK n \in FileNodes \ alive : NewNode(n, name, isDirectory)
  BY DEF CreateInsertThrows
<1>2. /\ MayRunExclusive /\ pc' = pc /\ fileMap' = fileMap /\ opened' = opened /\ settled' = settled
  BY DEF CreateInsertThrows, handles
<1>3. Inv'
  BY InvCreateInsertThrows DEF TreeInv
<1>4. SettledInv' /\ \A m \in FileNodes : opened'[m] > 0 => MainOpen(m)'
  BY <1>1, <1>2, NewNodeKeeps
<1>5. \A u \in Threads : pc'[u] = "idle"
  BY <1>2 DEF MayRunExclusive
<1>6. OpenInv' /\ LastHandleInv'
  BY <1>4, <1>5 DEF OpenInv, LastHandleInv
<1>7. RestInv'
  BY <1>2 DEF TreeInv, RestInv, Guarded
<1>8. \A u \in Threads : PhaseInv(u)'
  BY <1>5, IdlePhase
<1> QED BY <1>3, <1>4, <1>6, <1>7, <1>8 DEF TreeInv

\* The handle that Create and Open return.
LEMMA OpenOneMore ==
  ASSUME TypeOK, OpenInv, NEW n \in FileNodes, MainOpen(n),
         opened' = [opened EXCEPT ![n] = @ + 1], UNCHANGED mainFileNode
  PROVE  /\ \A m \in FileNodes : opened'[m] > 0 => MainOpen(m)'
         /\ \A m \in FileNodes : MainOpen(m) => MainOpen(m)'
<1>1. \A m \in FileNodes : opened[m] > 0 => opened'[m] > 0
  BY DEF TypeOK
<1>2. \A m \in FileNodes : m # n => opened'[m] = opened[m]
  BY DEF TypeOK
<1>3. \A m \in FileNodes : MainOpen(m) => MainOpen(m)'
  BY <1>1 DEF MainOpen, TypeOK
<1>4. ASSUME NEW m \in FileNodes, opened'[m] > 0 PROVE MainOpen(m)'
  <2>1. MainOpen(m)
    BY <1>2, <1>4 DEF OpenInv
  <2> QED BY <1>3, <2>1
<1> QED BY <1>3, <1>4

\* What Create leaves is a tree.
LEMMA CreatedTree ==
  ASSUME TreeInv, NEW t \in Threads, Created(t)
  PROVE  IsTree(fileMap) /\ TreeNodes(fileMap)
<1>1. PICK name \in Names \ DOMAIN settled :
        /\ DOMAIN fileMap = DOMAIN settled \cup {name}
        /\ fileMap[name] = node[t]
        /\ \A x \in DOMAIN settled : fileMap[x] = settled[x]
        /\ ParentName(name) \in DOMAIN settled /\ IsParent(settled[ParentName(name)])
        /\ IsStream(name) => MainName(name) \in DOMAIN settled
        /\ HasMain(node[t], MainOf(settled, name))
  BY DEF Created
<1>2. IsTree(settled) /\ TreeNodes(settled)
  BY DEF TreeInv, SettledInv
<1>3. \A x \in DOMAIN fileMap : x # Root =>
        ParentName(x) \in DOMAIN settled /\ IsParent(settled[ParentName(x)])
  BY <1>1, <1>2 DEF IsTree, TreeNodes
<1>4. \A x \in DOMAIN fileMap : IsStream(x) => MainName(x) \in DOMAIN settled
  BY <1>1, <1>2 DEF IsTree
<1>5. \A x \in DOMAIN fileMap : HasMain(fileMap[x], MainOf(settled, x))
  BY <1>1, <1>2 DEF TreeNodes
<1>6. \A x \in DOMAIN fileMap : MainOf(fileMap, x) = MainOf(settled, x)
  BY <1>1, <1>4 DEF MainOf
<1>7. IsTree(fileMap)
  BY <1>1, <1>3, <1>4, MapIsInjective DEF IsTree, TreeInv
<1>8. TreeNodes(fileMap)
  BY <1>1, <1>3, <1>5, <1>6 DEF TreeNodes
<1> QED BY <1>7, <1>8

\* A tree is one as long as the map and its nodes stay what they are.
LEMMA TreeStays ==
  ASSUME IsTree(fileMap), TreeNodes(fileMap), UNCHANGED <<fileMap, members>>
  PROVE  IsTree(fileMap)' /\ TreeNodes(fileMap)'
BY DEF IsTree, TreeNodes, IsParent, HasMain, MainOf, members

LEMMA TreeCreateReference ==
  ASSUME TreeInv, NEW t \in Threads, CreateReference(t)
  PROVE  TreeInv'
<1>1. PICK n : n = node[t]
  OBVIOUS
<1>2. /\ pc[t] = "createReference" /\ opened' = [opened EXCEPT ![n] = @ + 1]
      /\ Return(t) /\ settled' = fileMap' /\ UNCHANGED <<fileMap, members>>
  BY <1>1 DEF CreateReference, ReturnExclusive
<1>3. Inv /\ TypeOK /\ OpenInv /\ CallInv(t) /\ Inv' /\ PhaseInv(t)
  BY InvCreateReference DEF TreeInv, Inv
<1>4. Others(t)
  BY <1>2, <1>3, GuardedAlone DEF Guarded, Inv
<1>5. pc'[t] = "idle" /\ OthersKept(t)
  BY <1>2, <1>3, Returned
<1>6. n \in FileNodes /\ MainOpen(n)
  BY <1>1, <1>2, <1>3 DEF CallInv, FoundInv, OpenInv
<1>7. \A m \in FileNodes : opened'[m] > 0 => MainOpen(m)'
  BY <1>2, <1>3, <1>6, OpenOneMore DEF members
<1>8. OpenInv'
  BY <1>4, <1>5, <1>7 DEF OpenInv, Others, OthersKept
<1>9. IsTree(fileMap)' /\ TreeNodes(fileMap)'
  BY <1>2, <1>3, CreatedTree, TreeStays DEF PhaseInv
<1> QED BY <1>2, <1>3, <1>4, <1>5, <1>8, <1>9, TreeReturn

\* An Open runs while no exclusive call does.
LEMMA TreeOpens ==
  ASSUME TreeInv, Inv', NEW t \in Threads, \A u \in Threads : pc[u] \in {"idle", "open"},
         \A u \in Threads : pc'[u] \in {"idle", "open"},
         UNCHANGED <<fileMap, members, settled>>, OpenInv'
  PROVE  TreeInv'
<1>1. SettledInv'
  BY SettledKept, UnchangedKeeps DEF TreeInv, members
<1>2. RestInv'
  BY DEF TreeInv, RestInv, Guarded
<1>3. LastHandleInv'
  BY DEF LastHandleInv
<1>4. \A u \in Threads : PhaseInv(u)'
  BY IdlePhase
<1> QED BY <1>1, <1>2, <1>3, <1>4 DEF TreeInv

LEMMA TreeOpenFind ==
  ASSUME TreeInv, NEW t \in Threads, NEW name \in Names, OpenFind(t, name)
  PROVE  TreeInv'
<1>1. /\ MayRunShared /\ MainIsOpen(name) /\ name \in DOMAIN fileMap
      /\ node' = [node EXCEPT ![t] = fileMap[name]] /\ pc' = [pc EXCEPT ![t] = "open"]
      /\ UNCHANGED <<fileMap, members, settled>> /\ opened' = opened
  BY DEF OpenFind, Goto, Present, handles, history
<1>2. Inv /\ TypeOK /\ OpenInv /\ Inv'
  BY InvOpenFind DEF TreeInv, Inv
<1>3. \A u \in Threads : pc[u] \in {"idle", "open"}
  BY <1>1 DEF MayRunShared
<1>4. /\ pc'[t] = "open" /\ node'[t] = fileMap[name]
      /\ \A u \in Threads : u # t => pc'[u] = pc[u] /\ node'[u] = node[u]
  BY <1>1, <1>2 DEF TypeOK
<1>5. IsTree(fileMap) /\ mainFileNode[fileMap[name]] = MainOf(fileMap, name)
  BY <1>1, <1>3, AtRestFacts
<1>6. MainOpen(fileMap[name])
  BY <1>1, <1>5 DEF MainOpen, MainOf, MainIsOpen
<1>7. \A m : MainOpen(m)' <=> MainOpen(m)
  BY <1>1 DEF MainOpen, members
<1>8. OpenInv'
  <2>1. \A m \in FileNodes : opened'[m] > 0 => MainOpen(m)'
    BY <1>1, <1>2, <1>7 DEF OpenInv
  <2>2. ASSUME NEW u \in Threads, pc'[u] \in {"open", "createReference"} PROVE MainOpen(node[u])'
    <3>1. PICK m : m = node'[u]
      OBVIOUS
    <3>2. MainOpen(m)
      <4>1. CASE u = t
        BY <1>4, <1>6, <3>1, <4>1
      <4>2. CASE u # t
        BY <1>2, <1>4, <2>2, <3>1, <4>2 DEF OpenInv
      <4> QED BY <4>1, <4>2
    <3>3. MainOpen(m)'
      BY <1>7, <3>2
    <3> QED BY <3>1, <3>3 DEF MainOpen
  <2> QED BY <2>1, <2>2 DEF OpenInv
<1> QED BY <1>1, <1>2, <1>3, <1>4, <1>8, TreeOpens

LEMMA TreeOpenReference ==
  ASSUME TreeInv, NEW t \in Threads, OpenReference(t)
  PROVE  TreeInv'
<1>1. PICK n : n = node[t]
  OBVIOUS
<1>2. /\ pc[t] = "open" /\ opened' = [opened EXCEPT ![n] = @ + 1]
      /\ Return(t) /\ UNCHANGED <<fileMap, members, settled>>
  BY <1>1 DEF OpenReference, history
<1>3. Inv /\ TypeOK /\ OpenInv /\ CallInv(t) /\ AloneInv /\ Inv'
  BY InvOpenReference DEF TreeInv, Inv
<1>4. \A u \in Threads : pc[u] \in {"idle", "open"}
  BY <1>2, <1>3 DEF AloneInv, Guarded
<1>5. pc'[t] = "idle" /\ OthersKept(t)
  BY <1>2, <1>3, Returned
<1>6. n \in FileNodes /\ MainOpen(n)
  BY <1>1, <1>2, <1>3 DEF CallInv, FoundInv, OpenInv
<1>7. /\ \A m \in FileNodes : opened'[m] > 0 => MainOpen(m)'
      /\ \A m \in FileNodes : MainOpen(m) => MainOpen(m)'
  BY <1>2, <1>3, <1>6, OpenOneMore DEF members
<1>8. OpenInv'
  <2>1. ASSUME NEW u \in Threads, pc'[u] \in {"open", "createReference"} PROVE MainOpen(node[u])'
    <3>1. u # t /\ pc[u] = "open" /\ node'[u] = node[u]
      BY <1>4, <1>5, <2>1 DEF OthersKept
    <3>2. PICK m : m = node[u]
      OBVIOUS
    <3>3. m \in FileNodes /\ MainOpen(m)
      BY <1>3, <3>1, <3>2 DEF OpenInv, Inv, CallInv, FoundInv
    <3>4. MainOpen(m)'
      BY <1>7, <3>3
    <3> QED BY <3>1, <3>2, <3>4 DEF MainOpen
  <2> QED BY <1>7, <2>1 DEF OpenInv
<1>9. \A u \in Threads : pc'[u] \in {"idle", "open"}
  BY <1>4, <1>5 DEF OthersKept
<1> QED BY <1>2, <1>3, <1>4, <1>8, <1>9, TreeOpens

-----------------------------------------------------------------------------
(* Overwrite. *)

\* The enumeration finds the map as it is at rest.
LEMMA DropsBegin ==
  ASSUME TreeInv, NEW t \in Threads, \A u \in Threads : pc[u] \in {"idle", "open"},
         NEW n \in FileNodes, Linked(n),
         node'[t] = n, todo'[t] = EnumerateNamedStreams(n), UNCHANGED <<fileMap, settled>>
  PROVE  \E name \in Names : name = fileName[n] /\ Drops(t, name)'
<1>1. fileMap = settled
  BY AtRestFacts
<1>2. PICK name : name = fileName[n]
  OBVIOUS
<1>3. name \in Names /\ name \in DOMAIN fileMap /\ fileMap[name] = n
  BY <1>2 DEF TreeInv, Inv, TypeOK, Linked, Present
<1>4. \A s \in todo'[t] : \E x \in DOMAIN settled : settled[x] = s /\ IsStreamOf(x, name)
  BY <1>1, <1>2 DEF EnumerateNamedStreams, Nodes
<1>5. Drops(t, name)'
  BY <1>1, <1>3, <1>4 DEF Drops, LacksStreamsOf
<1> QED BY <1>2, <1>3, <1>5

LEMMA TreeOverwriteEnumerate ==
  ASSUME TreeInv, NEW t \in Threads, NEW n \in alive, OverwriteEnumerate(t, n)
  PROVE  TreeInv'
<1>1. /\ MayRunExclusive /\ Linked(n)
      /\ todo' = [todo EXCEPT ![t] = EnumerateNamedStreams(n)]
      /\ node' = [node EXCEPT ![t] = n] /\ pc' = [pc EXCEPT ![t] = "overwrite"]
      /\ item' = item
      /\ UNCHANGED <<fileMap, members, opened, settled>>
  BY DEF OverwriteEnumerate, Goto, handles, history
<1>2. Inv /\ TypeOK /\ n \in FileNodes /\ Inv'
  BY InvOverwriteEnumerate DEF TreeInv, Inv, TypeOK
<1>3. /\ pc'[t] = "overwrite" /\ node'[t] = n /\ todo'[t] = EnumerateNamedStreams(n)
      /\ OthersKept(t) /\ Others(t) /\ \A u \in Threads : pc[u] \in {"idle", "open"}
  BY <1>1, <1>2 DEF TypeOK, OthersKept, Others, MayRunExclusive
<1>4. PICK name \in Names : Drops(t, name)'
  BY <1>1, <1>2, <1>3, DropsBegin
<1>5. PhaseInv(t)'
  BY <1>3, <1>4 DEF PhaseInv, Dropping, Renaming
<1> QED BY <1>1, <1>2, <1>3, <1>5, TreeStep, UnchangedKeeps DEF members

LEMMA TreeOverwriteTest ==
  ASSUME TreeInv, NEW t \in Threads, OverwriteTest(t)
  PROVE  TreeInv'
<1>1. /\ pc[t] = "overwrite" /\ UNCHANGED <<fileMap, members, opened, node, settled>>
  BY DEF OverwriteTest, handles
<1>2. Inv /\ TypeOK /\ Inv' /\ PhaseInv(t)
  BY InvOverwriteTest DEF TreeInv, Inv
<1>3. Others(t)
  BY <1>1, <1>2, GuardedAlone DEF Guarded, Inv
<1>4. /\ pc'[t] \in {"overwrite", "overwriteRemove"} /\ todo'[t] \subseteq todo[t] /\ OthersKept(t)
  <2>1. PICK s \in todo[t] :
          IF OnlyMapAndEnumeration(s)
          THEN /\ item' = [item EXCEPT ![t] = s] /\ Goto(t, "overwriteRemove")
               /\ UNCHANGED <<todo, leaked>>
          ELSE DropEnumerated(t, s) /\ UNCHANGED <<item, pc>>
    BY DEF OverwriteTest
  <2>2. CASE OnlyMapAndEnumeration(s)
    BY <1>1, <1>2, <2>1, <2>2 DEF TypeOK, Goto, OthersKept
  <2>3. CASE ~OnlyMapAndEnumeration(s)
    BY <1>1, <1>2, <2>1, <2>3 DEF TypeOK, DropEnumerated, OthersKept
  <2> QED BY <2>2, <2>3
<1>5. PICK name \in Names : Drops(t, name)
  BY <1>1, <1>2 DEF PhaseInv, Dropping
<1>6. Drops(t, name)'
  BY <1>1, <1>4, <1>5 DEF Drops, LacksStreamsOf
<1>7. PhaseInv(t)'
  BY <1>4, <1>6 DEF PhaseInv, Dropping, Renaming
<1> QED BY <1>1, <1>2, <1>3, <1>4, <1>7, TreeStep, UnchangedKeeps DEF members

\* Removing one of the streams.
LEMMA DropsOne ==
  ASSUME TreeInv, NEW t \in Threads, NEW name \in Names, Drops(t, name),
         NEW s \in todo[t], s \in FileNodes, Mapped(s), RemoveNode(s),
         node'[t] = node[t], todo'[t] = todo[t] \ {s}, settled' = settled
  PROVE  /\ Drops(t, name)'
         /\ DOMAIN fileMap' = DOMAIN fileMap \ {fileName[s]}
         /\ \A x \in DOMAIN fileMap' : fileMap'[x] = fileMap[x]
         /\ fileName[s] \in DOMAIN fileMap /\ fileMap[fileName[s]] = s
<1>1. Inv /\ TypeOK /\ LinkInv /\ AliveInv
  BY DEF TreeInv, Inv
<1>2. PICK y : y = fileName[s]
  OBVIOUS
<1>3. y \in DOMAIN fileMap /\ fileMap[y] = s
  BY <1>1, <1>2, MappedIsLinked DEF Linked, Present
<1>4. DOMAIN fileMap' = DOMAIN fileMap \ {y} /\ \A x \in DOMAIN fileMap' : fileMap'[x] = fileMap[x]
  <2>1. refCount[s] > 0
    BY <1>1, RemoveCounts
  <2> QED BY <1>1, <1>2, <2>1, RemoveFacts
<1>5. PICK z \in DOMAIN settled : settled[z] = s /\ IsStreamOf(z, name)
  BY DEF Drops
<1>6. y = z
  BY <1>3, <1>5 DEF TreeInv, SettledInv, IsTree, Drops, LacksStreamsOf
<1>7. y # name
  <2>1. ~IsStream(name)
    BY <1>5, MainIsName DEF IsStreamOf, IsStream, MainName, Name
  <2> QED BY <1>5, <1>6, <2>1 DEF IsStreamOf
<1>8. LacksStreamsOf(name)'
  BY <1>4, <1>5, <1>6, <1>7 DEF Drops, LacksStreamsOf
<1>9. Drops(t, name)'
  BY <1>4, <1>7, <1>8 DEF Drops, LacksStreamsOf
<1> QED BY <1>2, <1>3, <1>4, <1>9

LEMMA TreeOverwriteRemove ==
  ASSUME TreeInv, NEW t \in Threads, OverwriteRemove(t)
  PROVE  TreeInv'
<1>1. PICK s : s = item[t]
  OBVIOUS
<1>2. /\ pc[t] = "overwriteRemove" /\ RemoveNode(s)
      /\ todo' = [todo EXCEPT ![t] = @ \ {s}]
      /\ item' = [item EXCEPT ![t] = nullptr] /\ pc' = [pc EXCEPT ![t] = "overwrite"]
      /\ UNCHANGED <<opened, node, settled>>
  BY <1>1 DEF OverwriteRemove, DropEnumerated, Goto, handles
<1>3. Inv /\ TypeOK /\ CallInv(t) /\ Inv' /\ PhaseInv(t)
  BY InvOverwriteRemove DEF TreeInv, Inv
<1>4. s \in todo[t] /\ s \in FileNodes /\ Mapped(s)
  BY <1>1, <1>2, <1>3 DEF TypeOK, CallInv, OverwriteInv
<1>5. /\ pc'[t] = "overwrite" /\ todo'[t] = todo[t] \ {s} /\ node'[t] = node[t]
      /\ OthersKept(t) /\ Others(t)
  BY <1>2, <1>3, GuardedAlone DEF TypeOK, OthersKept, Guarded, Inv
<1>6. PICK name \in Names : Drops(t, name)
  BY <1>2, <1>3 DEF PhaseInv, Dropping
<1>7. Drops(t, name)'
  BY <1>2, <1>4, <1>5, <1>6, DropsOne
<1>8. PhaseInv(t)'
  BY <1>5, <1>7 DEF PhaseInv, Dropping, Renaming
<1> QED BY <1>2, <1>3, <1>4, <1>5, <1>8, TreeStep, RemoveKeeps

\* A tree without some streams of a file is a tree.
LEMMA DroppedTree ==
  ASSUME TreeInv, NEW t \in Threads, NEW name \in Names, Drops(t, name)
  PROVE  IsTree(fileMap) /\ TreeNodes(fileMap)
<1>1. IsTree(settled) /\ TreeNodes(settled)
  BY DEF TreeInv, SettledInv
<1>2. /\ DOMAIN fileMap \subseteq DOMAIN settled
      /\ \A x \in DOMAIN fileMap : fileMap[x] = settled[x]
      /\ \A x \in DOMAIN settled \ DOMAIN fileMap : IsStreamOf(x, name)
  BY DEF Drops, LacksStreamsOf
<1>3. \A x \in DOMAIN fileMap : x # Root => ParentName(x) \in DOMAIN fileMap
  BY <1>1, <1>2, ParentIsName DEF IsTree, IsStreamOf
<1>4. \A x \in DOMAIN fileMap : IsStream(x) => MainName(x) \in DOMAIN fileMap
  BY <1>1, <1>2, MainIsName DEF IsTree, IsStreamOf
<1>5. IsTree(fileMap)
  BY <1>3, <1>4, MapIsInjective DEF IsTree, TreeInv
<1>6. TreeNodes(fileMap)
  BY <1>1, <1>2, <1>3, <1>4 DEF TreeNodes, MainOf
<1> QED BY <1>5, <1>6

\* A call that changes no node on its return.
LEMMA TreePlainReturn ==
  ASSUME TreeInv, Inv', NEW t \in Threads, Guarded(t), pc[t] # "createReference", ReturnExclusive(t),
         UNCHANGED <<fileMap, members, opened>>, IsTree(fileMap), TreeNodes(fileMap)
  PROVE  TreeInv'
<1>1. Inv /\ TypeOK /\ OpenInv
  BY DEF TreeInv, Inv
<1>2. Others(t)
  BY <1>1, GuardedAlone DEF Inv
<1>3. pc'[t] = "idle" /\ OthersKept(t) /\ settled' = fileMap'
  BY <1>1, Returned DEF ReturnExclusive
<1>4. OpenInv'
  BY <1>1, <1>2, <1>3, OpenKept, UnchangedKeeps DEF members, Others, OthersKept
<1>5. IsTree(fileMap)' /\ TreeNodes(fileMap)'
  BY TreeStays
<1> QED BY <1>2, <1>3, <1>4, <1>5, TreeReturn

LEMMA TreeOverwriteReturn ==
  ASSUME TreeInv, NEW t \in Threads, OverwriteReturn(t)
  PROVE  TreeInv'
<1>1. /\ pc[t] = "overwrite" /\ ReturnExclusive(t) /\ UNCHANGED <<fileMap, members, opened>>
  BY DEF OverwriteReturn, handles
<1>2. Inv'
  BY InvOverwriteReturn DEF TreeInv
<1>3. PICK name \in Names : Drops(t, name)
  BY <1>1 DEF TreeInv, PhaseInv, Dropping
<1>4. IsTree(fileMap) /\ TreeNodes(fileMap)
  BY <1>3, DroppedTree
<1> QED BY <1>1, <1>2, <1>4, TreePlainReturn DEF Guarded

-----------------------------------------------------------------------------
(* Cleanup and Close. *)

LEMMA SpareBound ==
  ASSUME Inv, NEW n \in FileNodes
  PROVE  /\ Spare(n) \in Int /\ Spare(n) <= opened[n]
         /\ \A u \in Threads : Guarded(u) /\ node[u] = n => Spare(n) <= opened[n] - 1
<1>1. opened[n] \in Nat /\ TypeOK /\ AloneInv
  BY DEF Inv, TypeOK
<1>2. CASE Threads = {}
  <2>1. {t \in Threads : node[t] = n /\ pc[t] # "open"} = {}
    BY <1>2
  <2>2. Spare(n) = opened[n] - Cardinality({})
    BY <2>1 DEF Spare
  <2> QED BY <1>1, <1>2, <2>2, FS_EmptySet
<1>3. CASE Threads # {}
  <2>1. PICK t \in Threads : \A u \in Threads : u # t => pc[u] \in {"idle", "open"}
    BY <1>1, <1>3, SomeoneAlone
  <2>2. Spare(n) = opened[n] - Indicator(Guarded(t) /\ node[t] = n)
    BY <1>1, <2>1, SpareFacts DEF Inv
  <2>3. \A u \in Threads : Guarded(u) => u = t
    BY <2>1 DEF Guarded
  <2>4. Indicator(Guarded(t) /\ node[t] = n) \in Nat
          /\ (Guarded(t) /\ node[t] = n => Indicator(Guarded(t) /\ node[t] = n) = 1)
    BY DEF Indicator
  <2> QED BY <1>1, <2>2, <2>3, <2>4
<1> QED BY <1>2, <1>3

\* No stream of the file is open or being opened.
NoStreamInUse(n) ==
  /\ \A s \in FileNodes : mainFileNode[s] = n => opened[s] = 0
  /\ \A u \in Threads : pc[u] \in {"open", "createReference"} => mainFileNode[node[u]] # n

LEMMA CleanUpFacts ==
  ASSUME Inv, NEW n \in FileNodes, MayCleanUp(n)
  PROVE  /\ opened[n] > 0 /\ (opened[n] > 1 \/ NoStreamInUse(n))
         /\ \A u \in Threads : Guarded(u) /\ node[u] = n => opened[n] > 2 \/ NoStreamInUse(n)
<1>1. opened[n] \in Nat
  BY DEF Inv, TypeOK
<1>2. Spare(n) > 0 /\ (Spare(n) > 1 \/ NoStreamInUse(n))
  <2>1. \A s \in FileNodes : opened[s] # 0 => s \in alive
    <3>1. \A s \in FileNodes : opened[s] \in Nat
      BY DEF Inv, TypeOK
    <3> QED BY <3>1, UsedIsAlive
  <2> QED BY <2>1 DEF MayCleanUp, NoStreamInUse
<1> QED BY <1>1, <1>2, SpareBound

\* The last handle of a file goes when no stream is open.
LEMMA OpenAfterCleanUp ==
  ASSUME Inv, OpenInv, NEW n \in FileNodes, opened[n] > 0, opened[n] > 1 \/ NoStreamInUse(n),
         opened' = [opened EXCEPT ![n] = @ - 1],
         \A m \in FileNodes : mainFileNode'[m] = mainFileNode[m] \/ mainFileNode'[m] = nullptr,
         \A u \in Threads : pc'[u] \in {"open", "createReference"} =>
           pc[u] \in {"open", "createReference"} /\ node'[u] = node[u]
  PROVE  OpenInv'
<1>1. \A m \in FileNodes : opened[m] \in Nat /\ opened'[m] = IF m = n THEN opened[n] - 1 ELSE opened[m]
  BY DEF Inv, TypeOK
<1>2. \A m \in FileNodes : mainFileNode[m] \in FileNodes \cup {nullptr}
  BY DEF Inv, TypeOK
<1>3. ASSUME NEW m \in FileNodes, MainOpen(m), opened[n] > 1 \/ mainFileNode[m] # n
      PROVE  MainOpen(m)'
  <2>1. CASE mainFileNode'[m] = nullptr
    BY <2>1 DEF MainOpen
  <2>2. CASE mainFileNode'[m] # nullptr
    <3>1. PICK f \in FileNodes : f = mainFileNode[m] /\ mainFileNode'[m] = f /\ opened[f] > 0
      BY <1>2, <1>3, <2>2 DEF MainOpen
    <3>2. opened'[f] > 0
      BY <1>1, <1>3, <3>1
    <3> QED BY <3>1, <3>2 DEF MainOpen
  <2> QED BY <2>1, <2>2
<1>4. ASSUME NEW m \in FileNodes, opened'[m] > 0 PROVE MainOpen(m)'
  <2>1. opened[m] > 0
    BY <1>1, <1>4
  <2>2. opened[n] > 1 \/ mainFileNode[m] # n
    BY <2>1 DEF NoStreamInUse
  <2> QED BY <1>3, <2>1, <2>2 DEF OpenInv
<1>5. ASSUME NEW u \in Threads, pc'[u] \in {"open", "createReference"} PROVE MainOpen(node[u])'
  <2>1. PICK m : m = node[u]
    OBVIOUS
  <2>2. /\ m \in FileNodes /\ MainOpen(m) /\ node'[u] = m
        /\ opened[n] > 1 \/ mainFileNode[m] # n
    BY <1>5, <2>1 DEF OpenInv, Inv, CallInv, FoundInv, NoStreamInUse
  <2>3. MainOpen(m)'
    BY <1>3, <2>2
  <2> QED BY <2>2, <2>3 DEF MainOpen
<1> QED BY <1>4, <1>5 DEF OpenInv

\* What runs next to a call leaves its progress alone.
LEMMA PhaseFrame ==
  ASSUME NEW u \in Threads, PhaseInv(u), Keeps, UNCHANGED <<fileMap, pc, locals, settled>>,
         pc[u] = "renameRelink" => fileName'[item[u]] = fileName[item[u]]
  PROVE  PhaseInv(u)'
<1>1. /\ pc' = pc /\ node' = node /\ item' = item /\ todo' = todo
      /\ oldName' = oldName /\ newFileName' = newFileName
      /\ fileMap' = fileMap /\ settled' = settled
  BY DEF locals
<1>2. ASSUME NEW n, IsParent(n) PROVE IsParent(n)'
  BY <1>2, IsParentKept DEF IsParent
<1>3. ASSUME NEW n, NEW main, HasMain(n, main) PROVE HasMain(n, main)'
  BY <1>3, HasMainKept DEF HasMain
<1>4. ASSUME pc[u] = "createReference" PROVE Created(u)'
  <2>1. PICK name \in Names \ DOMAIN settled :
        /\ DOMAIN fileMap = DOMAIN settled \cup {name}
        /\ fileMap[name] = node[u]
        /\ \A x \in DOMAIN settled : fileMap[x] = settled[x]
        /\ ParentName(name) \in DOMAIN settled /\ IsParent(settled[ParentName(name)])
        /\ IsStream(name) => MainName(name) \in DOMAIN settled
        /\ HasMain(node[u], MainOf(settled, name))
    BY <1>4 DEF PhaseInv, Created
  <2>2. PICK p, n, main :
          p = settled[ParentName(name)] /\ n = node[u] /\ main = MainOf(settled, name)
    OBVIOUS
  <2>3. IsParent(p)' /\ HasMain(n, main)'
    BY <1>2, <1>3, <2>1, <2>2
  <2> QED BY <1>1, <2>1, <2>2, <2>3 DEF Created, IsParent, HasMain, MainOf
<1>5. ASSUME pc[u] \in {"overwrite", "overwriteRemove"} PROVE Dropping(u)'
  BY <1>1, <1>5 DEF PhaseInv, Dropping, Drops, LacksStreamsOf
<1>6. ASSUME pc[u] = "cleanup" PROVE Deleting(u)'
  BY <1>1, <1>6 DEF PhaseInv, Deleting, Drops, LacksStreamsOf, Deletes
<1>7. ASSUME pc[u] \in Renaming PROVE MoveBegun(u)' /\ MoveLeft(u)' /\ MapMoving(u)'
  <2>1. MoveBegun(u) /\ MoveLeft(u) /\ MapMoving(u)
    BY <1>7 DEF PhaseInv
  <2>2. MoveBegun(u)'
    <3>1. PICK p : p = settled[ParentName(newFileName[u])]
      OBVIOUS
    <3>2. IsParent(p)'
      BY <1>2, <2>1, <3>1 DEF MoveBegun
    <3> QED BY <1>1, <2>1, <3>1, <3>2 DEF MoveBegun, IsParent
  <2>3. MoveLeft(u)'
    BY <1>1, <2>1 DEF MoveLeft, Moving
  <2>4. MapMoving(u)'
    BY <1>1, <2>1
       DEF MapMoving, HalfMoved, Stays, Waits, Moved, Moving, Unmoved, Target, Present
  <2> QED BY <2>2, <2>3, <2>4
<1> QED BY <1>1, <1>4, <1>5, <1>6, <1>7 DEF PhaseInv

LEMMA TreeCleanup ==
  ASSUME TreeInv, NEW n \in FileNodes, Cleanup(n)
  PROVE  TreeInv'
<1>1. /\ MayCleanUp(n) /\ opened' = [opened EXCEPT ![n] = @ - 1]
      /\ UNCHANGED <<fileMap, members, pc, locals, settled>>
  BY DEF Cleanup, CleanUpHandle, history
<1>2. Inv /\ TypeOK /\ OpenInv /\ Inv'
  BY InvCleanup DEF TreeInv, Inv
<1>3. /\ opened[n] > 0 /\ (opened[n] > 1 \/ NoStreamInUse(n))
      /\ \A u \in Threads : Guarded(u) /\ node[u] = n => opened[n] > 2 \/ NoStreamInUse(n)
  BY <1>1, <1>2, CleanUpFacts
<1>4. Keeps
  BY <1>1, UnchangedKeeps DEF members
<1>5. SettledInv'
  BY <1>1, <1>4, SettledKept DEF TreeInv
<1>6. RestInv'
  BY <1>1 DEF TreeInv, RestInv, Guarded
<1>7. OpenInv'
  BY <1>1, <1>2, <1>3, OpenAfterCleanUp DEF members, locals
<1>8. ASSUME NEW u \in Threads, pc'[u] = "cleanup" PROVE LastHandle(node[u])'
  <2>1. PICK m : m = node[u]
    OBVIOUS
  <2>2. /\ pc[u] = "cleanup" /\ node'[u] = m /\ LastHandle(m) /\ m \in FileNodes /\ Guarded(u)
    BY <1>1, <1>8, <2>1
       DEF TreeInv, LastHandleInv, locals, Inv, CallInv, HandleInv, Guarded
  <2>3. \A s \in FileNodes :
          opened[s] \in Nat /\ opened'[s] = IF s = n THEN opened[n] - 1 ELSE opened[s]
    BY <1>1, <1>2 DEF TypeOK
  <2>4. mainFileNode' = mainFileNode
    BY <1>1 DEF members
  <2>5. CASE m = n
    <3>1. opened[m] > 2 \/ \A s \in FileNodes : mainFileNode[s] = m => opened[s] = 0
      BY <1>3, <2>1, <2>2, <2>5 DEF NoStreamInUse
    <3>2. opened'[m] > 1 \/ \A s \in FileNodes : mainFileNode[s] = m => opened[s] = 0 /\ s # n
      BY <1>3, <2>2, <2>3, <2>5, <3>1
    <3>3. opened'[m] > 1 \/ \A s \in FileNodes : mainFileNode'[s] = m => opened'[s] = 0
      BY <2>3, <2>4, <3>2
    <3> QED BY <2>2, <3>3 DEF LastHandle
  <2>6. CASE m # n
    <3>1. opened'[m] = opened[m] /\ \A s \in FileNodes : opened[s] = 0 => opened'[s] = 0
      BY <1>3, <2>2, <2>3, <2>6
    <3> QED BY <2>2, <2>4, <3>1 DEF LastHandle
  <2> QED BY <2>5, <2>6
<1>9. ASSUME NEW u \in Threads PROVE PhaseInv(u)'
  BY <1>1, <1>4, PhaseFrame DEF TreeInv, members
<1> QED BY <1>2, <1>5, <1>6, <1>7, <1>8, <1>9 DEF TreeInv, LastHandleInv

\* The name of a node that Rename has taken out of the map survives a Close.
LEMMA CloseKeepsName ==
  ASSUME Inv, NEW n \in FileNodes, cleaned[n] > 0, Dereference(n),
         NEW u \in Threads, pc[u] = "renameRelink"
  PROVE  fileName'[item[u]] = fileName[item[u]]
<1>1. PICK d : d = item[u]
  OBVIOUS
<1>2. TypeOK /\ AliveInv /\ RefCountExact /\ CallInv(u) /\ Others(u)
  BY GuardedFacts DEF Guarded
<1>3. d \in FileNodes /\ d \in todo[u]
  BY <1>1, <1>2 DEF CallInv, MoveInv, TypeOK
<1>4. HeldBy(pc[u], todo[u], item[u], d) # 0
  BY <1>3 DEF HeldBy, Indicator, Renaming
<1>5. \A v \in Threads : v # u => pc[v] \in {"idle", "open"}
  BY <1>2 DEF Others
<1>6. refCount[n] > 0 /\ (refCount[n] = 1 => HeldBy(pc[u], todo[u], item[u], n) = 0)
  BY <1>2, <1>5, SingleReference
<1>7. d # n \/ refCount[n] # 1
  BY <1>4, <1>6
<1>8. fileName'[d] = fileName[d]
  BY <1>2, <1>3, <1>6, <1>7, DereferenceFacts
<1> QED BY <1>1, <1>8

LEMMA TreeClose ==
  ASSUME TreeInv, NEW n \in FileNodes, Close(n)
  PROVE  TreeInv'
<1>1. /\ cleaned[n] > 0 /\ Dereference(n) /\ opened' = opened
      /\ UNCHANGED <<fileMap, pc, locals, settled>>
  BY DEF Close, history
<1>2. Inv /\ TypeOK /\ OpenInv /\ Inv'
  BY InvClose DEF TreeInv, Inv
<1>3. Keeps
  BY <1>1, <1>2, DereferenceKeeps
<1>4. SettledInv'
  BY <1>1, <1>3, SettledKept DEF TreeInv
<1>5. RestInv'
  BY <1>1 DEF TreeInv, RestInv, Guarded
<1>6. OpenInv'
  BY <1>1, <1>2, <1>3, OpenKept DEF locals
<1>7. ASSUME NEW u \in Threads, pc'[u] = "cleanup" PROVE LastHandle(node[u])'
  <2>1. PICK m : m = node[u]
    OBVIOUS
  <2>2. /\ node'[u] = m /\ LastHandle(m) /\ m \in FileNodes
    BY <1>1, <1>7, <2>1 DEF TreeInv, LastHandleInv, locals, Inv, CallInv, HandleInv
  <2>3. opened'[m] > 1 \/ \A s \in FileNodes : mainFileNode'[s] = m => opened'[s] = 0
    BY <1>1, <1>3, <2>2, LastHandleKept
  <2> QED BY <2>2, <2>3 DEF LastHandle
<1>8. ASSUME NEW u \in Threads PROVE PhaseInv(u)'
  <2>1. pc[u] = "renameRelink" => fileName'[item[u]] = fileName[item[u]]
    BY <1>1, <1>2, CloseKeepsName
  <2> QED BY <1>1, <1>3, <2>1, PhaseFrame DEF TreeInv
<1> QED BY <1>2, <1>4, <1>5, <1>6, <1>7, <1>8 DEF TreeInv, LastHandleInv

LEMMA TreeCleanupDelete ==
  ASSUME TreeInv, NEW t \in Threads, NEW n \in alive, CleanupDelete(t, n)
  PROVE  TreeInv'
<1>1. /\ MayRunExclusive /\ MayCleanUp(n) /\ Linked(n) /\ fileName[n] # Root /\ ~HasChild(n)
      /\ todo' = [todo EXCEPT ![t] = EnumerateNamedStreams(n)]
      /\ node' = [node EXCEPT ![t] = n] /\ pc' = [pc EXCEPT ![t] = "cleanup"]
      /\ UNCHANGED <<fileMap, members, opened, settled>> /\ item' = item
  BY DEF CleanupDelete, Goto, handles, history
<1>2. Inv /\ TypeOK /\ n \in FileNodes /\ Inv'
  BY InvCleanupDelete DEF TreeInv, Inv, TypeOK
<1>3. /\ pc'[t] = "cleanup" /\ node'[t] = n /\ todo'[t] = EnumerateNamedStreams(n)
      /\ OthersKept(t) /\ Others(t) /\ \A u \in Threads : pc[u] \in {"idle", "open"}
  BY <1>1, <1>2 DEF TypeOK, OthersKept, Others, MayRunExclusive
<1>4. PICK name \in Names : name = fileName[n] /\ Drops(t, name)'
  BY <1>1, <1>2, <1>3, DropsBegin
<1>5. LastHandle(n)
  BY <1>1, <1>2, CleanUpFacts DEF NoStreamInUse, LastHandle
<1>6. fileMap = settled /\ IsTree(fileMap)
  BY <1>3, AtRestFacts
<1>7. ASSUME NEW x \in DOMAIN settled, x # Root, ParentName(x) = name PROVE FALSE
  <2>1. ~IsStream(name) /\ x \in Names
    BY <1>6, <1>7, ParentIsName DEF IsTree
  <2>2. CASE ~IsStream(x)
    BY <1>1, <1>4, <1>6, <1>7, <2>1, <2>2 DEF HasChild, IsChildOf
  <2>3. CASE IsStream(x)
    <3>1. MainName(x) \in DOMAIN fileMap /\ MainName(x) # Root /\ ~IsStream(MainName(x))
      BY <1>6, <1>7, <2>1, <2>3, MainIsName DEF IsTree
    <3>2. ParentName(MainName(x)) = name
      BY <1>7, ParentOfMain
    <3> QED BY <1>1, <1>4, <2>1, <3>1, <3>2 DEF HasChild, IsChildOf
  <2> QED BY <2>2, <2>3
<1>8. \A x \in DOMAIN fileMap : IsStreamOf(x, name) => fileMap[x] \in todo'[t]
  BY <1>3, <1>4 DEF EnumerateNamedStreams, Nodes
<1>9. Deletes(t, name)'
  BY <1>1, <1>4, <1>7, <1>8 DEF Deletes
<1>10. PhaseInv(t)'
  BY <1>3, <1>4, <1>9 DEF PhaseInv, Deleting, Renaming
<1> QED BY <1>1, <1>2, <1>3, <1>5, <1>10, TreeStep, UnchangedKeeps DEF members

LEMMA TreeCleanupRemoveStream ==
  ASSUME TreeInv, NEW t \in Threads, CleanupRemoveStream(t)
  PROVE  TreeInv'
<1>1. PICK s \in todo[t] : RemoveNode(s) /\ todo' = [todo EXCEPT ![t] = @ \ {s}]
  BY DEF CleanupRemoveStream
<1>2. pc[t] = "cleanup" /\ UNCHANGED <<opened, pc, node, item, settled>>
  BY DEF CleanupRemoveStream, handles, history
<1>3. Inv /\ TypeOK /\ CallInv(t) /\ Inv' /\ PhaseInv(t)
  BY InvCleanupRemoveStream DEF TreeInv, Inv
<1>4. s \in FileNodes /\ Mapped(s) /\ node[t] \in FileNodes /\ LastHandle(node[t])
  BY <1>1, <1>2, <1>3
     DEF TypeOK, CallInv, CleanupInv, HandleInv, TreeInv, LastHandleInv
<1>5. /\ pc'[t] = "cleanup" /\ todo'[t] = todo[t] \ {s} /\ node'[t] = node[t]
      /\ OthersKept(t) /\ Others(t)
  BY <1>1, <1>2, <1>3, GuardedAlone DEF TypeOK, OthersKept, Guarded, Inv
<1>6. PICK name \in Names : Drops(t, name) /\ Deletes(t, name)
  BY <1>2, <1>3 DEF PhaseInv, Deleting
<1>7. /\ Drops(t, name)'
      /\ DOMAIN fileMap' = DOMAIN fileMap \ {fileName[s]}
      /\ \A x \in DOMAIN fileMap' : fileMap'[x] = fileMap[x]
      /\ fileName[s] \in DOMAIN fileMap /\ fileMap[fileName[s]] = s
  BY <1>1, <1>2, <1>4, <1>5, <1>6, DropsOne
<1>8. \A x \in DOMAIN fileMap' : IsStreamOf(x, name) => fileMap'[x] \in todo'[t]
  <2> SUFFICES ASSUME NEW x \in DOMAIN fileMap', IsStreamOf(x, name) PROVE fileMap'[x] \in todo'[t]
    OBVIOUS
  <2>1. x \in DOMAIN fileMap /\ x # fileName[s] /\ fileMap[x] \in todo[t]
    BY <1>6, <1>7 DEF Deletes
  <2>2. fileMap[x] # s
    BY <1>3, <1>7, <2>1, MapIsInjective
  <2> QED BY <1>5, <1>7, <2>1, <2>2
<1>9. Deletes(t, name)'
  BY <1>2, <1>6, <1>8 DEF Deletes
<1>10. PhaseInv(t)'
  BY <1>5, <1>7, <1>9 DEF PhaseInv, Deleting, Renaming
<1>11. Keeps
  BY <1>1, <1>3, <1>4, RemoveKeeps
<1> QED BY <1>2, <1>3, <1>4, <1>5, <1>10, <1>11, TreeStep

\* A tree without a name that has no children and no streams is a tree.
LEMMA DeletedTree ==
  ASSUME TreeInv, NEW t \in Threads, NEW name \in Names, Drops(t, name), Deletes(t, name),
         todo[t] = {}, NEW n \in FileNodes, n = node[t], Mapped(n), RemoveNode(n), Inv'
  PROVE  /\ IsTree(fileMap)' /\ TreeNodes(fileMap)'
         /\ DOMAIN fileMap' = DOMAIN fileMap \ {name}
         /\ \A x \in DOMAIN fileMap' : fileMap'[x] = fileMap[x]
<1>1. Inv /\ TypeOK /\ LinkInv /\ AliveInv
  BY DEF TreeInv, Inv
<1>2. name \in DOMAIN fileMap /\ fileMap[name] = n /\ fileName[n] = name
  BY <1>1 DEF Drops, LacksStreamsOf, LinkInv
<1>3. DOMAIN fileMap' = DOMAIN fileMap \ {name} /\ \A x \in DOMAIN fileMap' : fileMap'[x] = fileMap[x]
  <2>1. refCount[n] > 0
    BY <1>1, RemoveCounts
  <2> QED BY <1>1, <1>2, <2>1, RemoveFacts
<1>4. IsTree(fileMap) /\ TreeNodes(fileMap)
  BY DroppedTree
<1>5. \A x \in DOMAIN fileMap : x # Root => ParentName(x) # name
  BY DEF Deletes, Drops, LacksStreamsOf
<1>6. \A x \in DOMAIN fileMap : IsStream(x) => MainName(x) # name
  BY DEF Deletes, IsStreamOf
<1>7. \A x \in DOMAIN fileMap' : x # Root => ParentName(x) \in DOMAIN fileMap'
  BY <1>3, <1>4, <1>5 DEF IsTree
<1>8. \A x \in DOMAIN fileMap' : IsStream(x) => MainName(x) \in DOMAIN fileMap'
  BY <1>3, <1>4, <1>6 DEF IsTree
<1>9. IsTree(fileMap)'
  <2>1. DOMAIN fileMap' \subseteq Names /\ fileMap' \in [DOMAIN fileMap' -> FileNodes]
    BY DEF Inv, TypeOK
  <2>2. \A x, y \in DOMAIN fileMap' : fileMap'[x] = fileMap'[y] => x = y
    BY <1>3, <1>4 DEF IsTree
  <2> QED BY <1>7, <1>8, <2>1, <2>2 DEF IsTree
<1>10. Keeps
  BY <1>1, RemoveKeeps
<1>11. \A x \in DOMAIN fileMap' : x # Root =>
         (fileMap'[ParentName(x)] \in alive' => fileMap'[ParentName(x)] \in directories')
  BY <1>3, <1>4, <1>7, <1>10, IsParentKept DEF TreeNodes
<1>12. \A x \in DOMAIN fileMap' : fileMap'[x] \in alive' => mainFileNode'[fileMap'[x]] = MainOf(fileMap, x)
  BY <1>3, <1>4, <1>10, HasMainKept DEF TreeNodes
<1>13. \A x \in DOMAIN fileMap' : MainOf(fileMap, x) = MainOf(fileMap, x)'
  BY <1>3, <1>8 DEF MainOf
<1>14. TreeNodes(fileMap)'
  BY <1>11, <1>12, <1>13 DEF TreeNodes, IsParent, HasMain
<1> QED BY <1>3, <1>9, <1>14

LEMMA TreeCleanupRemoveNode ==
  ASSUME TreeInv, NEW t \in Threads, CleanupRemoveNode(t)
  PROVE  TreeInv'
<1>1. PICK n : n = node[t]
  OBVIOUS
<1>2. /\ pc[t] = "cleanup" /\ todo[t] = {} /\ RemoveNode(n)
      /\ opened' = [opened EXCEPT ![n] = @ - 1] /\ Return(t) /\ settled' = fileMap'
  BY <1>1 DEF CleanupRemoveNode, CleanUpHandle, ReturnExclusive
<1>3. Inv /\ TypeOK /\ OpenInv /\ CallInv(t) /\ Inv' /\ PhaseInv(t)
  BY InvCleanupRemoveNode DEF TreeInv, Inv
<1>4. n \in FileNodes /\ Mapped(n) /\ opened[n] > 0 /\ LastHandle(n)
  BY <1>1, <1>2, <1>3 DEF CallInv, CleanupInv, HandleInv, TreeInv, LastHandleInv
<1>5. Others(t) /\ pc'[t] = "idle" /\ OthersKept(t)
  BY <1>2, <1>3, GuardedAlone, Returned DEF Guarded, Inv
<1>6. PICK name \in Names : Drops(t, name) /\ Deletes(t, name)
  BY <1>2, <1>3 DEF PhaseInv, Deleting
<1>7. IsTree(fileMap)' /\ TreeNodes(fileMap)'
  BY <1>1, <1>2, <1>3, <1>4, <1>6, DeletedTree
<1>8. OpenInv'
  <2>1. \A m \in FileNodes : mainFileNode'[m] = mainFileNode[m] \/ mainFileNode'[m] = nullptr
    BY <1>2, <1>3, <1>4, RemoveKeeps DEF Keeps
  <2>2. \A u \in Threads : pc'[u] = "idle" /\ pc[u] \notin {"open", "createReference"}
    BY <1>2, <1>5 DEF Others, OthersKept
  <2>3. opened[n] > 1 \/ NoStreamInUse(n)
    BY <1>4, <2>2 DEF LastHandle, NoStreamInUse
  <2> QED BY <1>2, <1>3, <1>4, <2>1, <2>2, <2>3, OpenAfterCleanUp
<1> QED BY <1>2, <1>3, <1>5, <1>7, <1>8, TreeReturn

-----------------------------------------------------------------------------
(* Rename begins. *)

LEMMA LeastNumber ==
  ASSUME NEW S \in SUBSET Nat, S # {}
  PROVE  \E n \in S : \A m \in S : n <= m
<1>1. PICK n \in S : \A m \in S : <<m, n>> \notin OpToRel(<, Nat)
  BY NatLessThanWellFounded, WFMin, Zenon
<1>2. OpToRel(<, Nat) = {pair \in Nat \X Nat : pair[1] < pair[2]}
  BY Zenon DEF OpToRel
<1>3. \A m \in S : ~(m < n)
  BY <1>1, <1>2
<1> QED BY <1>3

\* All the names above a name in a tree are in it.
LEMMA AncestorIsPresent ==
  ASSUME NEW tree, IsTree(tree), NEW new \in Names, ~IsStream(new), new # Root,
         NEW y \in DOMAIN tree, HasPrefix(y, new)
  PROVE  /\ new \in DOMAIN tree
         /\ y = new \/ IsStreamOf(y, new) \/ \E z \in DOMAIN tree : z # Root /\ ParentName(z) = new
<1>1. DOMAIN tree \subseteq Names
  BY DEF IsTree
<1>2. PICK k \in Nat : k = Len(new.path)
  BY NamePaths
<1> DEFINE D == {z \in DOMAIN tree : HasPrefix(z, new) /\ k < Len(z.path)}
           S == {Len(z.path) : z \in D}
<1>3. \A z \in DOMAIN tree : Len(z.path) \in Nat
  BY <1>1, NamePaths
<1>4. CASE D = {}
  <2>1. Len(y.path) = k
    BY <1>1, <1>2, <1>3, <1>4, PrefixOf
  <2>2. MainName(y) = new /\ (y = new \/ IsStreamOf(y, new))
    BY <1>1, <1>2, <2>1, PrefixOfSameLength
  <2> QED BY <2>2 DEF IsTree, IsStreamOf
<1>5. CASE D # {}
  <2>1. S \in SUBSET Nat /\ S # {}
    BY <1>3, <1>5
  <2> HIDE DEF S
  <2>2. PICK n \in S : \A m \in S : n <= m
    BY <2>1, LeastNumber
  <2>3. PICK z \in D : n = Len(z.path)
    BY DEF S
  <2>4. z \in Names /\ z # Root
    BY <1>1, <2>3, PrefixIsNotRoot
  <2>5. PICK w \in DOMAIN tree : w = ParentName(z)
    BY <2>3, <2>4 DEF IsTree
  <2>6. HasPrefix(w, new) /\ ~IsStream(w) /\ Len(w.path) = n - 1 /\ n \in Nat
    BY <1>2, <1>3, <2>3, <2>4, <2>5, PrefixOfParent, ParentIsName
  <2>7. ~(k < Len(w.path))
    <3>1. CASE k < Len(w.path)
      <4>1. Len(w.path) \in S
        BY <2>6, <3>1 DEF S
      <4> QED BY <2>2, <2>6, <4>1
    <3> QED BY <3>1
  <2>8. Len(w.path) = Len(new.path)
    BY <1>1, <1>2, <1>3, <2>6, <2>7, PrefixOf
  <2>9. w = new
    BY <1>1, <2>6, <2>8, PrefixOfSameLength DEF IsStreamOf
  <2> QED BY <2>3, <2>4, <2>5, <2>9
<1> QED BY <1>4, <1>5

\* Nothing is below the new name but what Rename moves away.
LEMMA NothingBelowTarget ==
  ASSUME ReplacesStreams = FALSE, TreeInv, \A u \in Threads : pc[u] \in {"idle", "open"},
         NEW n \in FileNodes, Linked(n), NEW new \in Names, ~IsStream(new), new # Root,
         MayReplace(n, new), WithinBounds(n, new),
         NEW x \in DOMAIN fileMap, HasPrefix(x, new), x # new
  PROVE  new = fileName[n]
<1>1. /\ IsTree(fileMap)
      /\ \A y \in DOMAIN fileMap : y # Root => fileMap[ParentName(y)] \in directories
  BY AtRestFacts
<1>2. /\ new \in DOMAIN fileMap
      /\ IsStreamOf(x, new) \/ \E z \in DOMAIN fileMap : z # Root /\ ParentName(z) = new
  BY <1>1, AncestorIsPresent
<1>3. fileName[fileMap[new]] = new
  BY <1>2 DEF TreeInv, Inv, LinkInv
<1>4. CASE fileMap[new] = n
  BY <1>3, <1>4
<1>5. CASE fileMap[new] # n
  <2>1. fileMap[new] \notin directories
    BY <1>2, <1>5 DEF MayReplace, Present
  <2>2. IsStreamOf(x, new)
    BY <1>1, <1>2, <2>1
  <2>3. fileMap[x] \in EnumerateNamedStreams(fileMap[new])
    BY <1>3, <2>2 DEF EnumerateNamedStreams, Nodes
  <2> QED BY <1>2, <1>5, <2>3 DEF WithinBounds, Present
<1> QED BY <1>4, <1>5

LEMMA TreeRenameEnumerate ==
  ASSUME ReplacesStreams = FALSE, TreeInv, NEW t \in Threads, NEW n \in alive, NEW new \in Names,
         RenameEnumerate(t, n, new)
  PROVE  TreeInv'
<1>1. PICK S, old : S = EnumerateDescendants(n) /\ old = fileName[n]
  OBVIOUS
<1>2. /\ MayRunExclusive /\ MayRename(n, new) /\ MayReplace(n, new) /\ WithinBounds(n, new)
      /\ UNCHANGED <<fileMap, members, opened, settled>>
  BY DEF RenameEnumerate, handles
<1>3. Inv /\ TypeOK /\ OpenInv /\ n \in FileNodes /\ Inv'
  BY InvRenameEnumerate DEF TreeInv, Inv, TypeOK
<1>4. /\ \A u \in Threads : pc[u] = "idle"
      /\ \A u \in Threads : pc[u] \in {"idle", "open"}
  BY <1>2 DEF MayRunExclusive
<1>5. fileMap = settled /\ IsTree(fileMap)
  BY <1>4, AtRestFacts
<1>6. Keeps
  BY <1>2, UnchangedKeeps DEF members
<1>7. CASE \E d \in S : TooLong(fileName[d], n, new)
  <2>1. UNCHANGED <<pc, locals>>
    BY <1>1, <1>7 DEF RenameEnumerate
  <2>2. OpenInv'
    BY <1>2, <1>3, <1>6, <2>1, OpenKept DEF locals
  <2> QED BY <1>2, <1>3, <1>4, <2>1, <2>2, TreeOpens
<1>8. CASE ~ \E d \in S : TooLong(fileName[d], n, new)
  <2>1. /\ node' = [node EXCEPT ![t] = n] /\ todo' = [todo EXCEPT ![t] = S]
        /\ item' = [item EXCEPT ![t] = FindMainFromStream(new)]
        /\ oldName' = [oldName EXCEPT ![t] = old]
        /\ newFileName' = [newFileName EXCEPT ![t] = new]
        /\ pc' = [pc EXCEPT ![t] = IF Present(new) THEN "renameReference" ELSE "rename"]
    BY <1>1, <1>8 DEF RenameEnumerate, Goto
  <2>2. /\ node'[t] = n /\ todo'[t] = S /\ oldName'[t] = old /\ newFileName'[t] = new
        /\ pc'[t] = (IF Present(new) THEN "renameReference" ELSE "rename")
        /\ OthersKept(t) /\ Others(t)
    BY <1>3, <1>4, <2>1 DEF TypeOK, OthersKept, Others
  <2>3. /\ Linked(n) /\ old # Root /\ ~IsStream(new) /\ new # Root
        /\ ParentName(new) \in DOMAIN settled /\ settled[ParentName(new)] \in directories
        /\ old \in DOMAIN settled /\ settled[old] = n
    BY <1>1, <1>2, <1>5 DEF MayRename, IsDirectory, Present, Linked
  <2>4. \A x \in DOMAIN settled : HasPrefix(x, new) => x = new \/ new = old
    BY <1>1, <1>2, <1>3, <1>4, <1>5, <2>3, NothingBelowTarget
  <2>5. MoveBegun(t)'
    BY <1>2, <2>2, <2>3, <2>4 DEF MoveBegun, IsParent, members
  <2>6. Moving(t)' = {x \in DOMAIN fileMap : HasPrefix(x, old)}
    BY <1>2, <1>5, <2>2 DEF Moving
  <2>7. S = {fileMap[x] : x \in Moving(t)'}
    BY <1>1, <2>6 DEF EnumerateDescendants, Nodes
  <2>8. \A x \in Moving(t)' : settled[x] \in S
    BY <1>5, <2>6, <2>7
  <2>9. MoveLeft(t)'
    BY <1>2, <1>5, <2>2, <2>6, <2>7, <2>8 DEF MoveLeft
  <2>10. MapMoving(t)'
    <3>1. CASE Present(new)
      BY <1>2, <1>5, <2>2, <3>1 DEF MapMoving
    <3>2. CASE ~Present(new)
      <4>1. \A x \in DOMAIN fileMap : x # new
        BY <3>2 DEF Present
      <4>2. \A x \in Moving(t)' : ~Moved(t, settled[x])' /\ settled[x] \in Unmoved(t)'
        BY <1>2, <2>2, <2>8, <3>2 DEF Moved, Unmoved
      <4>3. \A x \in DOMAIN settled : Stays(t, x)' \/ Waits(t, x)'
        BY <1>2, <1>5, <2>2, <4>1, <4>2 DEF Stays, Waits
      <4>4. HalfMoved(t)'
        BY <1>2, <1>5, <4>2, <4>3 DEF HalfMoved, Present, Moved, Stays, Waits
      <4> QED BY <2>2, <3>2, <4>4 DEF MapMoving
    <3> QED BY <3>1, <3>2
  <2>11. PhaseInv(t)'
    BY <2>2, <2>5, <2>9, <2>10 DEF PhaseInv, Renaming
  <2> QED BY <1>2, <1>3, <1>6, <2>2, <2>11, TreeStep
<1> QED BY <1>7, <1>8

-----------------------------------------------------------------------------
(* Rename goes on. *)

LEMMA RenameFacts ==
  ASSUME TreeInv, NEW t \in Threads, pc[t] \in Renaming
  PROVE  /\ oldName[t] \in Names /\ newFileName[t] \in Names
         /\ ~IsStream(oldName[t]) /\ ~IsStream(newFileName[t])
         /\ oldName[t] # Root /\ newFileName[t] # Root
         /\ HasPrefix(newFileName[t], oldName[t]) => newFileName[t] = oldName[t]
         /\ \A x \in Moving(t) : x \in Names /\ HasPrefix(x, oldName[t]) /\ x \in DOMAIN settled
         /\ \A x, y \in DOMAIN settled : settled[x] = settled[y] => x = y
         /\ DOMAIN settled \subseteq Names /\ settled \in [DOMAIN settled -> FileNodes]
         /\ MoveBegun(t) /\ MoveLeft(t) /\ MapMoving(t)
         /\ Inv /\ TypeOK /\ CallInv(t) /\ Others(t)
<1>1. Inv /\ TypeOK /\ CallInv(t) /\ AloneInv
  BY DEF TreeInv, Inv
<1>2. MoveBegun(t) /\ MoveLeft(t) /\ MapMoving(t)
  BY DEF TreeInv, PhaseInv
<1>3. Others(t)
  BY <1>1, GuardedAlone DEF Guarded, Renaming
<1>4. /\ oldName[t] \in Names /\ newFileName[t] \in Names /\ oldName[t] # Root
      /\ ~IsStream(oldName[t]) /\ ~IsStream(newFileName[t]) /\ newFileName[t] # Root
      /\ HasPrefix(newFileName[t], oldName[t]) => newFileName[t] = oldName[t]
  BY <1>1, <1>2 DEF CallInv, RenameInv, TypeOK, MoveBegun
<1>5. /\ \A x, y \in DOMAIN settled : settled[x] = settled[y] => x = y
      /\ DOMAIN settled \subseteq Names /\ settled \in [DOMAIN settled -> FileNodes]
  BY DEF TreeInv, SettledInv, IsTree
<1> QED BY <1>1, <1>2, <1>3, <1>4, <1>5 DEF Moving

LEMMA TreeMoves ==
  ASSUME TreeInv, Inv', NEW t \in Threads, pc[t] \in Renaming, pc'[t] \in Renaming,
         OthersKept(t), Keeps, settled' = settled, opened' = opened,
         node'[t] = node[t], oldName'[t] = oldName[t], newFileName'[t] = newFileName[t],
         MoveLeft(t)', MapMoving(t)'
  PROVE  TreeInv'
<1>1. MoveBegun(t) /\ Others(t)
  BY RenameFacts
<1>2. PICK p : p = settled[ParentName(newFileName[t])]
  OBVIOUS
<1>3. p \in alive' => p \in directories'
  BY <1>1, <1>2, IsParentKept DEF MoveBegun
<1>4. MoveBegun(t)'
  BY <1>1, <1>2, <1>3 DEF MoveBegun, IsParent
<1>5. PhaseInv(t)'
  BY <1>4 DEF PhaseInv, Renaming
<1>6. pc'[t] \notin {"idle", "open", "createReference", "cleanup"}
  BY DEF Renaming
<1> QED BY <1>1, <1>5, <1>6, TreeStep

\* The names a call has still to deal with, and those it has dealt with.
LEMMA HalfMovedKept ==
  ASSUME NEW t \in Threads, HalfMoved(t), UNCHANGED <<fileMap, settled>>,
         oldName'[t] = oldName[t], newFileName'[t] = newFileName[t],
         \A n : n \in Unmoved(t)' <=> n \in Unmoved(t),
         \A n : Moved(t, n)' <=> Moved(t, n)
  PROVE  HalfMoved(t)'
<1>1. Moving(t)' = Moving(t) /\ \A x : Target(t, x)' = Target(t, x)
  BY DEF Moving, Target
<1>2. \A x : (Stays(t, x)' <=> Stays(t, x)) /\ (Waits(t, x)' <=> Waits(t, x))
  BY <1>1 DEF Stays, Waits
<1>3. \A x : Moved(t, settled[x])' <=> Moved(t, settled[x])
  BY DEF Moved
<1> QED BY <1>1, <1>2, <1>3 DEF HalfMoved, Present

LEMMA TreeRenameReference ==
  ASSUME TreeInv, NEW t \in Threads, RenameReference(t)
  PROVE  TreeInv'
<1>1. /\ pc[t] = "renameReference" /\ pc' = [pc EXCEPT ![t] = "renameRemove"]
      /\ UNCHANGED <<fileMap, members, opened, locals, settled>>
  BY DEF RenameReference, Goto, handles, history
<1>2. pc[t] \in Renaming
  BY <1>1 DEF Renaming
<1>3. Inv /\ TypeOK /\ MoveLeft(t) /\ MapMoving(t) /\ Inv'
  BY <1>2, RenameFacts, InvRenameReference
<1>4. /\ pc'[t] = "renameRemove" /\ OthersKept(t) /\ node' = node /\ todo' = todo
      /\ oldName' = oldName /\ newFileName' = newFileName
  BY <1>1, <1>3 DEF TypeOK, OthersKept, locals
<1>5. MoveLeft(t)' /\ MapMoving(t)'
  BY <1>1, <1>3, <1>4 DEF MoveLeft, MapMoving, Moving
<1>6. pc'[t] \in Renaming
  BY <1>4 DEF Renaming
<1> QED BY <1>1, <1>2, <1>3, <1>4, <1>5, <1>6, TreeMoves, UnchangedKeeps DEF members

LEMMA TreeRenameRemove ==
  ASSUME TreeInv, NEW t \in Threads, RenameRemove(t)
  PROVE  TreeInv'
<1>1. PICK d, new : d = item[t] /\ new = newFileName[t]
  OBVIOUS
<1>2. /\ pc[t] = "renameRemove" /\ RemoveNode(d) /\ pc' = [pc EXCEPT ![t] = "renameDereference"]
      /\ UNCHANGED <<opened, locals, settled>>
  BY <1>1 DEF RenameRemove, Goto, handles, history
<1>3. pc[t] \in Renaming
  BY <1>2 DEF Renaming
<1>4. Inv /\ TypeOK /\ CallInv(t) /\ MoveLeft(t) /\ MapMoving(t) /\ Inv'
  BY <1>3, RenameFacts, InvRenameRemove
<1>5. /\ pc'[t] = "renameDereference" /\ OthersKept(t) /\ node' = node /\ todo' = todo
      /\ oldName' = oldName /\ newFileName' = newFileName
  BY <1>2, <1>4 DEF TypeOK, OthersKept, locals
<1>6. d \in FileNodes /\ Mapped(d) /\ fileName[d] = new
  BY <1>1, <1>2, <1>4 DEF CallInv, ReplaceInv
<1>7. DOMAIN fileMap' = DOMAIN fileMap \ {new} /\ \A x \in DOMAIN fileMap' : fileMap'[x] = fileMap[x]
  <2>1. refCount[d] > 0
    BY <1>2, <1>4, <1>6, RemoveCounts
  <2> QED BY <1>2, <1>4, <1>6, <2>1, RemoveFacts DEF Inv
<1>8. fileMap = settled
  BY <1>2, <1>4 DEF MapMoving
<1>9. Moving(t)' = Moving(t) /\ Moving(t) \subseteq DOMAIN settled
  BY <1>2, <1>5 DEF Moving
<1>10. MoveLeft(t)'
  BY <1>2, <1>4, <1>5, <1>9 DEF MoveLeft
<1>11. \A x \in Moving(t) : settled[x] \in todo[t]
  BY <1>2, <1>4 DEF MoveLeft
<1>12. \A x \in Moving(t) : ~Moved(t, settled[x])' /\ settled[x] \in Unmoved(t)'
  BY <1>2, <1>5, <1>11 DEF Moved, Unmoved
<1>13. \A x \in DOMAIN settled : Stays(t, x)' \/ Waits(t, x)' <=> x # new
  BY <1>1, <1>2, <1>5, <1>9, <1>12 DEF Stays, Waits
<1>14. HalfMoved(t)'
  BY <1>2, <1>7, <1>8, <1>9, <1>12, <1>13 DEF HalfMoved, Present, Moved, Stays, Waits
<1>15. MapMoving(t)' /\ pc'[t] \in Renaming
  BY <1>5, <1>14 DEF MapMoving, Renaming
<1>16. Keeps
  BY <1>2, <1>4, <1>6, RemoveKeeps
<1> QED BY <1>2, <1>3, <1>4, <1>5, <1>10, <1>15, <1>16, TreeMoves

LEMMA TreeRenameDereference ==
  ASSUME TreeInv, NEW t \in Threads, RenameDereference(t)
  PROVE  TreeInv'
<1>1. PICK d : d = item[t]
  OBVIOUS
<1>2. /\ pc[t] = "renameDereference" /\ Dereference(d)
      /\ item' = [item EXCEPT ![t] = nullptr] /\ pc' = [pc EXCEPT ![t] = "rename"]
      /\ UNCHANGED <<fileMap, opened, node, todo, oldName, newFileName, settled>>
  BY <1>1 DEF RenameDereference, Goto, handles, history
<1>3. pc[t] \in Renaming
  BY <1>2 DEF Renaming
<1>4. Inv /\ TypeOK /\ CallInv(t) /\ MoveLeft(t) /\ MapMoving(t) /\ Inv'
  BY <1>3, RenameFacts, InvRenameDereference
<1>5. pc'[t] = "rename" /\ OthersKept(t) /\ d \in FileNodes
  BY <1>1, <1>2, <1>4 DEF TypeOK, OthersKept, CallInv, ReplaceInv
<1>6. MoveLeft(t)'
  BY <1>2, <1>4, <1>5 DEF MoveLeft, Moving
<1>7. HalfMoved(t)
  BY <1>2, <1>4 DEF MapMoving
<1>8. HalfMoved(t)'
  <2>1. \A n : n \in Unmoved(t)' <=> n \in Unmoved(t)
    BY <1>2, <1>5 DEF Unmoved
  <2>2. \A n : Moved(t, n)' <=> Moved(t, n)
    BY <1>2, <1>5 DEF Moved
  <2> QED BY <1>2, <1>7, <2>1, <2>2, HalfMovedKept
<1>9. MapMoving(t)' /\ pc'[t] \in Renaming
  BY <1>5, <1>8 DEF MapMoving, Renaming
<1>10. Keeps
  BY <1>2, <1>4, <1>5, DereferenceKeeps
<1> QED BY <1>2, <1>3, <1>4, <1>5, <1>6, <1>9, <1>10, TreeMoves

-----------------------------------------------------------------------------
(* Rename moves the nodes one by one. *)

\* A node that has still to move has the name it had at rest.
LEMMA UnmovedName ==
  ASSUME TreeInv, NEW t \in Threads, pc[t] = "rename", NEW d \in todo[t],
         NEW x \in Moving(t), settled[x] = d
  PROVE  /\ d \in FileNodes /\ fileName[d] = x
         /\ Mapped(d) => Present(x) /\ fileMap[x] = d
         /\ ~Mapped(d) => ~Present(x)
<1>1. pc[t] \in Renaming
  BY DEF Renaming
<1>2. /\ Inv /\ TypeOK /\ CallInv(t) /\ MoveBegun(t) /\ MapMoving(t) /\ x \in DOMAIN settled
      /\ \A y, z \in DOMAIN settled : settled[y] = settled[z] => y = z
  BY <1>1, RenameFacts
<1>3. d \in FileNodes /\ Movable(t, d) /\ InPlace(t, d) /\ HalfMoved(t)
  BY <1>1, <1>2 DEF TypeOK, CallInv, RenameInv, Unmoved, MapMoving
<1>4. CASE Mapped(d)
  <2>1. PICK y : y = fileName[d]
    OBVIOUS
  <2>2. y \in DOMAIN fileMap /\ fileMap[y] = d
    BY <1>2, <1>4, <2>1, MappedIsLinked DEF Inv, Linked, Present
  <2>3. CASE Stays(t, y) \/ Waits(t, y)
    <3>1. y \in DOMAIN settled
      BY <2>3 DEF Stays, Waits, Moving
    <3>2. fileMap[y] = settled[y]
      BY <1>3, <2>3, <3>1 DEF HalfMoved
    <3> QED BY <1>2, <1>3, <1>4, <2>1, <2>2, <3>1, <3>2 DEF Present
  <2>4. ASSUME NEW z \in Moving(t), Moved(t, settled[z]), y = Target(t, z) PROVE FALSE
    <3>1. fileMap[y] = settled[z]
      BY <1>3, <2>4 DEF HalfMoved
    <3> QED BY <2>2, <2>4, <3>1 DEF Moved
  <2> QED BY <1>3, <2>2, <2>3, <2>4 DEF HalfMoved
<1>5. CASE ~Mapped(d)
  <2>1. d = node[t] /\ ~Present(oldName[t]) /\ fileName[d] = oldName[t]
    BY <1>3, <1>5 DEF InPlace, Movable
  <2>2. x = oldName[t]
    BY <1>2, <2>1 DEF MoveBegun
  <2> QED BY <1>3, <1>5, <2>1, <2>2
<1> QED BY <1>4, <1>5

LEMMA TreeRenameUnlink ==
  ASSUME TreeInv, NEW t \in Threads, RenameUnlink(t)
  PROVE  TreeInv'
<1>1. PICK d \in todo[t] : RemoveNode(d) /\ item' = [item EXCEPT ![t] = d]
  BY DEF RenameUnlink
<1>2. /\ pc[t] = "rename" /\ pc' = [pc EXCEPT ![t] = "renameRelink"]
      /\ UNCHANGED <<opened, node, todo, oldName, newFileName, settled>>
  BY DEF RenameUnlink, Goto, handles, history
<1>3. pc[t] \in Renaming
  BY <1>2 DEF Renaming
<1>4. /\ Inv /\ TypeOK /\ CallInv(t) /\ MoveLeft(t) /\ HalfMoved(t) /\ Inv'
      /\ \A y, z \in DOMAIN settled : settled[y] = settled[z] => y = z
      /\ Moving(t) \subseteq DOMAIN settled
  BY <1>2, <1>3, RenameFacts, InvRenameUnlink DEF MapMoving
<1>5. PICK x \in Moving(t) : settled[x] = d
  BY <1>4 DEF MoveLeft
<1>6. /\ d \in FileNodes /\ fileName[d] = x
      /\ Mapped(d) => Present(x) /\ fileMap[x] = d
      /\ ~Mapped(d) => ~Present(x)
  BY <1>2, <1>5, UnmovedName
<1>7. UNCHANGED members
  BY <1>1, <1>2, <1>4, UnlinkFacts
<1>8. /\ pc'[t] = "renameRelink" /\ item'[t] = d /\ OthersKept(t) /\ todo' = todo /\ node' = node
      /\ oldName' = oldName /\ newFileName' = newFileName
  BY <1>1, <1>2, <1>4, <1>6 DEF TypeOK, OthersKept
<1>9. DOMAIN fileMap' = DOMAIN fileMap \ {x} /\ \A y \in DOMAIN fileMap' : fileMap'[y] = fileMap[y]
  <2>1. CASE Mapped(d)
    <3>1. refCount[d] > 0
      BY <1>1, <1>4, <1>6, <2>1, RemoveCounts
    <3> QED BY <1>1, <1>4, <1>6, <2>1, <3>1, RemoveFacts DEF Inv
  <2>2. CASE ~Mapped(d)
    BY <1>1, <1>6, <2>2 DEF RemoveNode, Present
  <2> QED BY <2>1, <2>2
<1>10. /\ Moving(t)' = Moving(t) /\ \A z : Target(t, z)' = Target(t, z)
       /\ \A z : Stays(t, z)' <=> Stays(t, z)
       /\ \A z : Waits(t, z)' <=> Waits(t, z) /\ settled[z] # d
       /\ \A n : Moved(t, n)' <=> Moved(t, n)
  BY <1>2, <1>8 DEF Moving, Target, Stays, Waits, Unmoved, Moved
<1>11. MoveLeft(t)'
  <2>1. \A n \in todo'[t] : \E z \in Moving(t)' : settled'[z] = n
    BY <1>2, <1>4, <1>8, <1>10 DEF MoveLeft
  <2>2. \E z \in Moving(t)' : settled'[z] = item'[t] /\ fileName'[item'[t]] = z
    BY <1>2, <1>5, <1>6, <1>7, <1>8, <1>10 DEF members
  <2> QED BY <1>8, <2>1, <2>2 DEF MoveLeft
<1>12. HalfMoved(t)'
  <2>1. ASSUME NEW z \in DOMAIN settled, Stays(t, z) \/ (Waits(t, z) /\ settled[z] # d)
        PROVE  z \in DOMAIN fileMap' /\ fileMap'[z] = settled[z]
    <3>1. z # x
      BY <1>5, <2>1 DEF Stays
    <3>2. Present(z) /\ fileMap[z] = settled[z]
      BY <1>4, <2>1 DEF HalfMoved
    <3> QED BY <1>9, <3>1, <3>2 DEF Present
  <2>2. ASSUME NEW z \in Moving(t), Moved(t, settled[z])
        PROVE  Target(t, z) \in DOMAIN fileMap' /\ fileMap'[Target(t, z)] = settled[z]
    <3>1. Present(Target(t, z)) /\ fileMap[Target(t, z)] = settled[z]
      BY <1>4, <2>2 DEF HalfMoved
    <3>2. settled[z] # d
      BY <1>2, <2>2 DEF Moved
    <3>3. Target(t, z) # x
      BY <1>6, <3>1, <3>2
    <3> QED BY <1>9, <3>1, <3>3 DEF Present
  <2>3. ASSUME NEW y \in DOMAIN fileMap'
        PROVE  \/ Stays(t, y) \/ (Waits(t, y) /\ settled[y] # d)
               \/ \E z \in Moving(t) : Moved(t, settled[z]) /\ y = Target(t, z)
    <3>1. y \in DOMAIN fileMap /\ y # x
      BY <1>9
    <3>2. Waits(t, y) => settled[y] # d
      BY <1>4, <1>5, <3>1 DEF Waits
    <3> QED BY <1>4, <3>1, <3>2 DEF HalfMoved
  <2> QED BY <1>2, <1>10, <2>1, <2>2, <2>3 DEF HalfMoved, Present
<1>13. MapMoving(t)' /\ pc'[t] \in Renaming
  BY <1>8, <1>12 DEF MapMoving, Renaming
<1>14. Keeps
  BY <1>7, UnchangedKeeps DEF members
<1> QED BY <1>2, <1>3, <1>4, <1>8, <1>11, <1>13, <1>14, TreeMoves

\* The new name of the node that moves is free.
LEMMA TargetIsFree ==
  ASSUME TreeInv, NEW t \in Threads, pc[t] = "renameRelink",
         NEW x \in Moving(t), settled[x] = item[t]
  PROVE  ~Present(Target(t, x))
<1>1. pc[t] \in Renaming
  BY DEF Renaming
<1>2. /\ oldName[t] \in Names /\ newFileName[t] \in Names
      /\ ~IsStream(oldName[t]) /\ ~IsStream(newFileName[t])
      /\ \A z \in Moving(t) : z \in Names /\ HasPrefix(z, oldName[t]) /\ z \in DOMAIN settled
      /\ MoveBegun(t) /\ CallInv(t) /\ MapMoving(t)
  BY <1>1, RenameFacts
<1>3. HalfMoved(t) /\ item[t] \in todo[t]
  BY <1>2 DEF MapMoving, CallInv, MoveInv
<1>4. PICK y : y = Target(t, x)
  OBVIOUS
<1>5. HasPrefix(y, newFileName[t])
  BY <1>2, <1>4, RenamedPrefix DEF Target
<1>6. newFileName[t] = oldName[t] => y = x
  BY <1>2, <1>4, RenamedToItself DEF Target
<1>7. ~Stays(t, y)
  BY <1>2, <1>5, <1>6 DEF MoveBegun, Stays
<1>8. ~Waits(t, y)
  <2> SUFFICES ASSUME Waits(t, y) PROVE FALSE
    OBVIOUS
  <2>1. y \in DOMAIN settled /\ y # newFileName[t] /\ settled[y] # item[t]
    BY <1>2 DEF Waits, Unmoved
  <2> QED BY <1>2, <1>5, <1>6, <2>1 DEF MoveBegun
<1>9. ASSUME NEW z \in Moving(t), Moved(t, settled[z]), y = Target(t, z) PROVE FALSE
  <2>1. z = x
    BY <1>2, <1>4, <1>9, RenamedInjective DEF Target
  <2> QED BY <1>3, <1>9, <2>1 DEF Moved
<1>10. y \notin DOMAIN fileMap
  BY <1>3, <1>7, <1>8, <1>9 DEF HalfMoved
<1> QED BY <1>4, <1>10 DEF Present

LEMMA TreeRenameRelink ==
  ASSUME TreeInv, NEW t \in Threads, RenameRelink(t)
  PROVE  TreeInv'
<1>1. PICK d : d = item[t]
  OBVIOUS
<1>2. pc[t] = "renameRelink" /\ pc[t] \in Renaming
  BY DEF RenameRelink, Renaming
<1>3. /\ Inv /\ TypeOK /\ CallInv(t) /\ MoveLeft(t) /\ HalfMoved(t) /\ Inv'
      /\ \A y, z \in DOMAIN settled : settled[y] = settled[z] => y = z
      /\ Moving(t) \subseteq DOMAIN settled
  BY <1>2, RenameFacts, InvRenameRelink DEF MapMoving
<1>4. d \in FileNodes /\ d \in todo[t]
  BY <1>1, <1>2, <1>3 DEF CallInv, MoveInv, TypeOK
<1>5. PICK x \in Moving(t) : settled[x] = d /\ fileName[d] = x
  BY <1>1, <1>2, <1>3 DEF MoveLeft
<1>6. PICK name : name = Target(t, x)
  OBVIOUS
<1>7. name \notin DOMAIN fileMap
  BY <1>1, <1>2, <1>5, <1>6, TargetIsFree DEF Present
<1>8. /\ fileMap' = Emplaced(name, d) /\ pc' = [pc EXCEPT ![t] = "renameRelease"]
      /\ UNCHANGED <<alive, mainFileNode, directories, opened, locals, settled>>
  BY <1>1, <1>5, <1>6 DEF RenameRelink, Goto, Target, handles, history
<1>9. /\ DOMAIN fileMap' = DOMAIN fileMap \cup {name}
      /\ \A y \in DOMAIN fileMap : fileMap'[y] = fileMap[y]
      /\ fileMap'[name] = d
  BY <1>7, <1>8 DEF Emplaced
<1>10. /\ pc'[t] = "renameRelease" /\ item' = item /\ OthersKept(t) /\ todo' = todo /\ node' = node
       /\ oldName' = oldName /\ newFileName' = newFileName
  BY <1>3, <1>8 DEF TypeOK, OthersKept, locals
<1>11. /\ Moving(t)' = Moving(t) /\ \A z : Target(t, z)' = Target(t, z)
       /\ \A z : Stays(t, z)' <=> Stays(t, z)
       /\ \A z : Waits(t, z)' <=> Waits(t, z)
       /\ \A n : Moved(t, n)' <=> Moved(t, n) \/ n = d
  BY <1>1, <1>2, <1>8, <1>10 DEF Moving, Target, Stays, Waits, Unmoved, Moved
<1>12. MoveLeft(t)'
  BY <1>3, <1>8, <1>10, <1>11 DEF MoveLeft
<1>13. HalfMoved(t)'
  <2>1. ASSUME NEW z \in DOMAIN settled, Stays(t, z) \/ Waits(t, z)
        PROVE  z \in DOMAIN fileMap' /\ fileMap'[z] = settled[z]
    BY <1>3, <1>9, <2>1 DEF HalfMoved, Present
  <2>2. ASSUME NEW z \in Moving(t), Moved(t, settled[z]) \/ settled[z] = d
        PROVE  Target(t, z) \in DOMAIN fileMap' /\ fileMap'[Target(t, z)] = settled[z]
    <3>1. CASE settled[z] = d
      <4>1. z = x
        BY <1>3, <1>5, <3>1
      <4> QED BY <1>6, <1>9, <3>1, <4>1
    <3>2. CASE Moved(t, settled[z])
      BY <1>3, <1>9, <3>2 DEF HalfMoved, Present
    <3> QED BY <2>2, <3>1, <3>2
  <2>3. ASSUME NEW y \in DOMAIN fileMap'
        PROVE  \/ Stays(t, y) \/ Waits(t, y)
               \/ \E z \in Moving(t) : (Moved(t, settled[z]) \/ settled[z] = d) /\ y = Target(t, z)
    <3>1. CASE y = name
      BY <1>5, <1>6, <3>1
    <3>2. CASE y # name
      BY <1>3, <1>9, <3>2 DEF HalfMoved
    <3> QED BY <3>1, <3>2
  <2> QED BY <1>8, <1>11, <2>1, <2>2, <2>3 DEF HalfMoved, Present
<1>14. MapMoving(t)' /\ pc'[t] \in Renaming
  BY <1>10, <1>13 DEF MapMoving, Renaming
<1>15. Keeps
  BY <1>8, UnchangedKeeps
<1> QED BY <1>2, <1>3, <1>8, <1>10, <1>12, <1>14, <1>15, TreeMoves

LEMMA TreeRenameRelease ==
  ASSUME TreeInv, NEW t \in Threads, RenameRelease(t)
  PROVE  TreeInv'
<1>1. PICK d : d = item[t]
  OBVIOUS
<1>2. /\ pc[t] = "renameRelease" /\ Dereference(d)
      /\ todo' = [todo EXCEPT ![t] = @ \ {d}] /\ pc' = [pc EXCEPT ![t] = "rename"]
      /\ item' = [item EXCEPT ![t] = nullptr]
      /\ UNCHANGED <<fileMap, opened, node, oldName, newFileName, settled>>
  BY <1>1 DEF RenameRelease, Goto, handles, history
<1>3. pc[t] \in Renaming
  BY <1>2 DEF Renaming
<1>4. Inv /\ TypeOK /\ CallInv(t) /\ MoveLeft(t) /\ MapMoving(t) /\ Inv'
  BY <1>3, RenameFacts, InvRenameRelease
<1>5. pc'[t] = "rename" /\ todo'[t] = todo[t] \ {d} /\ OthersKept(t) /\ d \in FileNodes
  BY <1>1, <1>2, <1>4 DEF TypeOK, OthersKept, CallInv, MoveInv
<1>6. MoveLeft(t)'
  BY <1>2, <1>4, <1>5 DEF MoveLeft, Moving
<1>7. HalfMoved(t)
  BY <1>2, <1>4 DEF MapMoving
<1>8. HalfMoved(t)'
  <2>1. \A n : n \in Unmoved(t)' <=> n \in Unmoved(t)
    BY <1>1, <1>2, <1>5 DEF Unmoved
  <2>2. \A n : Moved(t, n)' <=> Moved(t, n)
    BY <1>1, <1>2, <1>5 DEF Moved
  <2> QED BY <1>2, <1>7, <2>1, <2>2, HalfMovedKept
<1>9. MapMoving(t)' /\ pc'[t] \in Renaming
  BY <1>5, <1>8 DEF MapMoving, Renaming
<1>10. Keeps
  BY <1>2, <1>4, <1>5, DereferenceKeeps
<1> QED BY <1>2, <1>3, <1>4, <1>5, <1>6, <1>9, <1>10, TreeMoves

-----------------------------------------------------------------------------
(* Rename returns. *)

\* Everything has moved.
MovedAll(t) ==
  /\ \A x \in DOMAIN settled : Stays(t, x) => Present(x) /\ fileMap[x] = settled[x]
  /\ \A x \in Moving(t) : Present(Target(t, x)) /\ fileMap[Target(t, x)] = settled[x]
  /\ \A y \in DOMAIN fileMap : Stays(t, y) \/ \E x \in Moving(t) : y = Target(t, x)

LEMMA RenameDone ==
  ASSUME TreeInv, NEW t \in Threads, pc[t] = "rename", todo[t] = {}
  PROVE  MovedAll(t) /\ MoveBegun(t)
<1>1. HalfMoved(t) /\ MoveBegun(t)
  BY DEF TreeInv, PhaseInv, MapMoving, Renaming
<1>2. \A n : Moved(t, n) /\ n \notin Unmoved(t)
  BY DEF Moved, Unmoved
<1> QED BY <1>1, <1>2 DEF HalfMoved, MovedAll, Waits

\* What a name that stays leans on stays too.
LEMMA SupportStays ==
  ASSUME NEW t \in Threads, MoveBegun(t), NEW y \in DOMAIN settled, Stays(t, y),
         NEW z \in DOMAIN settled,
         HasPrefix(z, oldName[t]) => HasPrefix(y, oldName[t]),
         z = newFileName[t] => HasPrefix(y, newFileName[t])
  PROVE  Stays(t, z)
BY DEF MoveBegun, Stays, Moving

\* Where the parent and the file of a name are after the move.
LEMMA PlaceAfterMove ==
  ASSUME TreeInv, NEW t \in Threads, pc[t] = "rename", todo[t] = {}, NEW y \in DOMAIN fileMap
  PROVE  /\ y # Root => /\ ParentName(y) \in DOMAIN fileMap
                        /\ IsParent(fileMap[ParentName(y)])
         /\ IsStream(y) => MainName(y) \in DOMAIN fileMap
         /\ HasMain(fileMap[y], MainOf(fileMap, y))
<1>1. PICK old, new : old = oldName[t] /\ new = newFileName[t]
  OBVIOUS
<1>2. /\ old \in Names /\ new \in Names /\ ~IsStream(old) /\ ~IsStream(new)
      /\ old # Root /\ new # Root /\ (HasPrefix(new, old) => new = old)
      /\ \A x \in Moving(t) : x \in Names /\ HasPrefix(x, old) /\ x \in DOMAIN settled
      /\ DOMAIN settled \subseteq Names
  BY <1>1, RenameFacts DEF Renaming
<1>3. MovedAll(t) /\ MoveBegun(t)
  BY RenameDone
<1>4. IsTree(settled) /\ TreeNodes(settled)
  BY DEF TreeInv, SettledInv
<1>5. \A z \in DOMAIN settled : Stays(t, z) => z \in DOMAIN fileMap /\ fileMap[z] = settled[z]
  BY <1>3 DEF MovedAll, Present
<1>6. \A x \in Moving(t) : Target(t, x) \in DOMAIN fileMap /\ fileMap[Target(t, x)] = settled[x]
  BY <1>3 DEF MovedAll, Present
<1>7. CASE Stays(t, y)
  <2>1. y \in Names /\ y \in DOMAIN settled /\ fileMap[y] = settled[y]
    BY <1>2, <1>5, <1>7 DEF Stays
  <2>2. ASSUME y # Root PROVE ParentName(y) \in DOMAIN fileMap /\ IsParent(fileMap[ParentName(y)])
    <3>1. PICK p \in DOMAIN settled : p = ParentName(y)
      BY <1>4, <2>1, <2>2 DEF IsTree
    <3>2. HasPrefix(p, old) => HasPrefix(y, old)
      BY <1>2, <2>1, <2>2, <3>1, PrefixOfParent
    <3>3. HasPrefix(p, new) => HasPrefix(y, new)
      BY <1>2, <2>1, <2>2, <3>1, PrefixOfParent
    <3>4. p = new => HasPrefix(y, new)
      BY <1>2, <3>3, PrefixOfItself
    <3>5. Stays(t, p)
      BY <1>1, <1>3, <1>7, <2>1, <3>2, <3>4, SupportStays
    <3>6. IsParent(settled[p])
      BY <1>4, <2>1, <2>2, <3>1 DEF TreeNodes
    <3> QED BY <1>5, <3>1, <3>5, <3>6
  <2>3. ASSUME IsStream(y)
        PROVE  MainName(y) \in DOMAIN fileMap /\ fileMap[MainName(y)] = settled[MainName(y)]
    <3>1. PICK m \in DOMAIN settled : m = MainName(y)
      BY <1>4, <2>1, <2>3 DEF IsTree
    <3>2. (HasPrefix(m, old) <=> HasPrefix(y, old)) /\ (HasPrefix(m, new) <=> HasPrefix(y, new))
      BY <1>2, <2>1, <3>1, PrefixOfMain
    <3>3. m = new => HasPrefix(y, new)
      BY <1>2, <3>2, PrefixOfItself
    <3>4. Stays(t, m)
      BY <1>1, <1>3, <1>7, <2>1, <3>2, <3>3, SupportStays
    <3> QED BY <1>5, <3>1, <3>4
  <2>4. HasMain(fileMap[y], MainOf(fileMap, y))
    BY <1>4, <2>1, <2>3 DEF TreeNodes, MainOf
  <2> QED BY <2>2, <2>3, <2>4
<1>8. ASSUME NEW x \in Moving(t), y = Target(t, x)
      PROVE  /\ y # Root => /\ ParentName(y) \in DOMAIN fileMap
                            /\ IsParent(fileMap[ParentName(y)])
             /\ IsStream(y) => MainName(y) \in DOMAIN fileMap
             /\ HasMain(fileMap[y], MainOf(fileMap, y))
  <2>1. /\ x \in Names /\ x \in DOMAIN settled /\ HasPrefix(x, old) /\ x # Root
        /\ y = Renamed(x, old, new) /\ fileMap[y] = settled[x]
    BY <1>1, <1>2, <1>6, <1>8, PrefixIsNotRoot DEF Target
  <2>2. IsStream(y) <=> IsStream(x)
    BY <1>2, <2>1, RenamedPrefix
  <2>3. ASSUME Len(old.path) = Len(x.path)
        PROVE  ParentName(y) \in DOMAIN fileMap /\ IsParent(fileMap[ParentName(y)])
    <3>1. PICK q \in DOMAIN settled : q = ParentName(new) /\ IsParent(settled[q])
      BY <1>1, <1>3 DEF MoveBegun
    <3>2. ParentName(y) = q
      BY <1>2, <2>1, <2>3, <3>1, RenamedParent
    <3>3. ~HasPrefix(q, new) /\ q # new
      BY <1>2, <3>1, ParentIsShorter
    <3>4. ~HasPrefix(q, old)
      <4>1. HasPrefix(q, old) => HasPrefix(new, old)
        BY <1>2, <3>1, PrefixOfParent
      <4> QED BY <1>2, <3>3, <4>1
    <3>5. Stays(t, q)
      BY <1>1, <3>3, <3>4 DEF Stays, Moving
    <3> QED BY <1>5, <3>1, <3>2, <3>5
  <2>4. ASSUME Len(old.path) < Len(x.path)
        PROVE  ParentName(y) \in DOMAIN fileMap /\ IsParent(fileMap[ParentName(y)])
    <3>1. PICK p \in DOMAIN settled : p = ParentName(x) /\ IsParent(settled[p])
      BY <1>4, <2>1 DEF IsTree, TreeNodes
    <3>2. p \in Moving(t)
      <4>1. HasPrefix(p, old)
        BY <1>2, <2>1, <2>4, <3>1, PrefixOfParent
      <4> QED BY <1>1, <4>1 DEF Moving
    <3>3. ParentName(y) = Target(t, p)
      BY <1>1, <1>2, <2>1, <2>4, <3>1, RenamedParent DEF Target
    <3> QED BY <1>6, <3>1, <3>2, <3>3
  <2>5. Len(old.path) = Len(x.path) \/ Len(old.path) < Len(x.path)
    <3>1. Len(old.path) \in Nat /\ Len(x.path) \in Nat /\ Len(old.path) <= Len(x.path)
      BY <1>2, <2>1, PrefixOf
    <3> QED BY <3>1
  <2>6. ASSUME IsStream(y)
        PROVE  MainName(y) \in DOMAIN fileMap /\ fileMap[MainName(y)] = settled[MainName(x)]
    <3>1. PICK m \in DOMAIN settled : m = MainName(x)
      BY <1>4, <2>1, <2>2, <2>6 DEF IsTree
    <3>2. m \in Moving(t)
      <4>1. HasPrefix(m, old)
        BY <1>2, <2>1, <3>1, PrefixOfMain
      <4> QED BY <1>1, <4>1 DEF Moving
    <3>3. MainName(y) = Target(t, m)
      BY <1>1, <1>2, <2>1, <3>1, RenamedMain DEF Target
    <3> QED BY <1>6, <3>1, <3>2, <3>3
  <2>7. HasMain(fileMap[y], MainOf(fileMap, y))
    BY <1>4, <2>1, <2>2, <2>6 DEF TreeNodes, MainOf
  <2> QED BY <2>3, <2>4, <2>5, <2>6, <2>7
<1> QED BY <1>3, <1>7, <1>8 DEF MovedAll

LEMMA TreeRenameReturn ==
  ASSUME TreeInv, NEW t \in Threads, RenameReturn(t)
  PROVE  TreeInv'
<1>1. /\ pc[t] = "rename" /\ todo[t] = {} /\ ReturnExclusive(t)
      /\ UNCHANGED <<fileMap, members, opened>>
  BY DEF RenameReturn, handles
<1>2. Inv'
  BY InvRenameReturn DEF TreeInv
<1>3. /\ \A y \in DOMAIN fileMap : y # Root =>
           ParentName(y) \in DOMAIN fileMap /\ IsParent(fileMap[ParentName(y)])
      /\ \A y \in DOMAIN fileMap : IsStream(y) => MainName(y) \in DOMAIN fileMap
      /\ \A y \in DOMAIN fileMap : HasMain(fileMap[y], MainOf(fileMap, y))
  BY <1>1, PlaceAfterMove
<1>4. IsTree(fileMap)
  BY <1>3, MapIsInjective DEF IsTree, TreeInv
<1>5. TreeNodes(fileMap)
  BY <1>3 DEF TreeNodes
<1> QED BY <1>1, <1>2, <1>4, <1>5, TreePlainReturn DEF Guarded

-----------------------------------------------------------------------------
(* The invariant holds always. *)

LEMMA TreeUnchanged ==
  ASSUME TreeInv, UNCHANGED vars
  PROVE  TreeInv'
<1>1. Inv'
  BY InvNext DEF TreeInv
<1>2. /\ UNCHANGED <<fileMap, alive, fileName, mainFileNode, directories, opened>>
      /\ UNCHANGED <<pc, node, item, todo, oldName, newFileName, settled>>
  BY DEF vars, members, handles, locals, history
<1>3. SettledInv' /\ RestInv' /\ OpenInv' /\ LastHandleInv'
  BY <1>2
     DEF TreeInv, SettledInv, IsTree, TreeNodes, IsParent, HasMain, MainOf, RestInv, Guarded,
         OpenInv, MainOpen, LastHandleInv, LastHandle
<1>4. ASSUME NEW t \in Threads PROVE PhaseInv(t)'
  <2>1. PhaseInv(t)
    BY DEF TreeInv
  <2>2. pc'[t] = "createReference" => Created(t)'
    BY <1>2, <2>1 DEF PhaseInv, Created, IsParent, HasMain, MainOf
  <2>3. \A name : Drops(t, name)' <=> Drops(t, name)
    BY <1>2 DEF Drops, LacksStreamsOf
  <2>4. pc'[t] \in {"overwrite", "overwriteRemove"} => Dropping(t)'
    BY <1>2, <2>1, <2>3 DEF PhaseInv, Dropping
  <2>5. pc'[t] = "cleanup" => Deleting(t)'
    BY <1>2, <2>1, <2>3 DEF PhaseInv, Deleting, Deletes
  <2>6. ASSUME pc'[t] \in Renaming PROVE MoveBegun(t)' /\ MoveLeft(t)' /\ MapMoving(t)'
    <3>1. MoveBegun(t) /\ MoveLeft(t) /\ MapMoving(t)
      BY <1>2, <2>1, <2>6 DEF PhaseInv
    <3>2. MoveBegun(t)' /\ MoveLeft(t)'
      BY <1>2, <3>1 DEF MoveBegun, MoveLeft, Moving, IsParent
    <3>3. HalfMoved(t) => HalfMoved(t)'
      BY <1>2, HalfMovedKept DEF Unmoved, Moved
    <3> QED BY <1>2, <3>1, <3>2, <3>3 DEF MapMoving
  <2> QED BY <2>2, <2>4, <2>5, <2>6 DEF PhaseInv
<1> QED BY <1>1, <1>3, <1>4 DEF TreeInv

LEMMA TreeNext ==
  ASSUME ReplacesStreams = FALSE, TreeInv, [Next]_vars
  PROVE  TreeInv'
<1>1. ASSUME NEW t \in Threads, Exclusive(t) PROVE TreeInv'
  <2>1. ASSUME NEW name \in Names, NEW isDirectory \in BOOLEAN,
               CreateInsert(t, name, isDirectory) \/ CreateInsertThrows(t, name, isDirectory)
        PROVE  TreeInv'
    BY <2>1, TreeCreateInsert, TreeCreateInsertThrows
  <2>2. CASE CreateReference(t)
    BY <2>2, TreeCreateReference
  <2>3. ASSUME NEW n \in alive, OverwriteEnumerate(t, n) \/ CleanupDelete(t, n) PROVE TreeInv'
    BY <2>3, TreeOverwriteEnumerate, TreeCleanupDelete
  <2>4. CASE OverwriteTest(t) \/ OverwriteRemove(t) \/ OverwriteReturn(t)
    BY <2>4, TreeOverwriteTest, TreeOverwriteRemove, TreeOverwriteReturn
  <2>5. CASE CleanupRemoveStream(t) \/ CleanupRemoveNode(t)
    BY <2>5, TreeCleanupRemoveStream, TreeCleanupRemoveNode
  <2>6. ASSUME NEW n \in alive, NEW new \in Names, RenameEnumerate(t, n, new) PROVE TreeInv'
    BY <2>6, TreeRenameEnumerate
  <2>7. CASE RenameReference(t) \/ RenameRemove(t) \/ RenameDereference(t)
    BY <2>7, TreeRenameReference, TreeRenameRemove, TreeRenameDereference
  <2>8. CASE RenameUnlink(t) \/ RenameRelink(t) \/ RenameRelease(t) \/ RenameReturn(t)
    BY <2>8, TreeRenameUnlink, TreeRenameRelink, TreeRenameRelease, TreeRenameReturn
  <2> QED BY <1>1, <2>1, <2>2, <2>3, <2>4, <2>5, <2>6, <2>7, <2>8 DEF Exclusive
<1>2. ASSUME NEW t \in Threads, Shared(t) PROVE TreeInv'
  BY <1>2, TreeOpenFind, TreeOpenReference DEF Shared
<1>3. ASSUME NEW n \in FileNodes, Unguarded(n) PROVE TreeInv'
  BY <1>3, TreeCleanup, TreeClose DEF Unguarded
<1> QED BY <1>1, <1>2, <1>3, TreeUnchanged DEF Next

LEMMA TreeAlways ==
  ASSUME ReplacesStreams = FALSE
  PROVE  Spec => []TreeInv
<1>1. Init => TreeInv
  BY TreeInit
<1>2. TreeInv /\ [Next]_vars => TreeInv'
  BY TreeNext
<1> QED BY <1>1, <1>2, PTL DEF Spec

\* As long as Rename replaces no file that has named streams, no step of any
\* call will read or release a FileNode that was deleted: neither those the
\* map, a handle or a local points at, nor the file of an open stream.
THEOREM NoCallDangles ==
  ASSUME ReplacesStreams = FALSE
  PROVE  Spec => []NothingDangles
<1>1. TreeInv => NothingDangles
  <2> SUFFICES ASSUME TreeInv PROVE NothingDangles
    OBVIOUS
  <2>1. Inv /\ OpenInv /\ TypeOK
    BY DEF TreeInv, Inv
  <2>2. ASSUME NEW n \in FileNodes, MainOpen(n) PROVE mainFileNode[n] \in alive \cup {nullptr}
    <3>1. PICK m : m = mainFileNode[n]
      OBVIOUS
    <3>2. m = nullptr \/ (m \in FileNodes /\ opened[m] > 0)
      BY <2>1, <2>2, <3>1 DEF MainOpen, TypeOK
    <3> QED BY <2>1, <3>1, <3>2, UsedIsAlive
  <2>3. NodesInUseAlive
    <3>1. \A n \in FileNodes : opened[n] + cleaned[n] > 0 => n \in alive
      <4> SUFFICES ASSUME NEW n \in FileNodes, opened[n] + cleaned[n] > 0 PROVE n \in alive
        OBVIOUS
      <4>1. opened[n] > 0 \/ cleaned[n] > 0
        BY <2>1 DEF TypeOK
      <4> QED BY <2>1, <4>1, UsedIsAlive
    <3> QED BY <2>1, <3>1, MappedIsAlive, CallUsesAlive DEF NodesInUseAlive
  <2>4. \A n \in FileNodes : opened[n] > 0 => mainFileNode[n] \in alive \cup {nullptr}
    BY <2>1, <2>2 DEF OpenInv
  <2>5. ASSUME NEW t \in Threads, pc[t] = "open" PROVE mainFileNode[node[t]] \in alive \cup {nullptr}
    <3>1. PICK n : n = node[t]
      OBVIOUS
    <3>2. n \in FileNodes /\ MainOpen(n)
      BY <2>1, <2>5, <3>1 DEF Inv, CallInv, FoundInv, OpenInv
    <3> QED BY <2>2, <3>1, <3>2
  <2> QED BY <2>3, <2>4, <2>5 DEF NothingDangles, NodesInUseAlive
<1> QED BY <1>1, TreeAlways, PTL

\* Under the same condition the map is a tree whenever no exclusive call is
\* under way: Create, Overwrite, Cleanup and Rename leave, on every path, each
\* name in an existing directory and each named stream with its file.
THEOREM MapIsTree ==
  ASSUME ReplacesStreams = FALSE
  PROVE  Spec => []TreeShape
<1>1. TreeInv => TreeShape
  <2> SUFFICES ASSUME TreeInv, AtRest, NEW x \in DOMAIN fileMap
               PROVE  /\ fileName[fileMap[x]] = x
                      /\ x # Root => IsDirectory(ParentName(x))
                      /\ mainFileNode[fileMap[x]] =
                           IF IsStream(x) THEN FindMainFromStream(x) ELSE nullptr
    BY DEF TreeShape
  <2>1. fileName[fileMap[x]] = x
    BY DEF TreeInv, Inv, LinkInv
  <2>2. /\ IsTree(fileMap) /\ (x # Root => fileMap[ParentName(x)] \in directories)
        /\ mainFileNode[fileMap[x]] = MainOf(fileMap, x)
    BY AtRestFacts DEF AtRest
  <2> QED BY <2>1, <2>2 DEF IsTree, IsDirectory, Present, MainOf, FindMainFromStream
<1> QED BY <1>1, TreeAlways, PTL

-----------------------------------------------------------------------------
(* The refinement of FileTree. *)

\* FileTree speaks of the same names.
LEMMA SameNames ==
  /\ Tree!Names = Names /\ Tree!Root = Root
  /\ \A x : Tree!IsStream(x) = IsStream(x) /\ Tree!MainName(x) = MainName(x)
              /\ Tree!ParentName(x) = ParentName(x)
  /\ \A x, y : /\ Tree!HasPrefix(x, y) = HasPrefix(x, y)
               /\ Tree!IsChildOf(x, y) = IsChildOf(x, y) /\ Tree!IsStreamOf(x, y) = IsStreamOf(x, y)
  /\ \A x, y, z : Tree!Renamed(x, y, z) = Renamed(x, y, z)
  /\ \A f, S : Tree!Restrict(f, S) = Restrict(f, S)
BY DEF Tree!Names, Names, Tree!Root, Root, Tree!Name, Name, Tree!IsStream, IsStream,
       Tree!MainName, MainName, Tree!ParentName, ParentName, Tree!HasPrefix, HasPrefix,
       Tree!IsChildOf, IsChildOf, Tree!IsStreamOf, IsStreamOf, Tree!Renamed, Renamed,
       Tree!Restrict, Restrict, Tree!IsPrefix, IsPrefix, Tree!Front, Front

LEMMA StreamsOfSettled ==
  \A name : Tree!StreamsOf(name) = {s \in DOMAIN settled : IsStreamOf(s, name)}
BY SameNames DEF Tree!StreamsOf

LEMMA TreeAdds ==
  ASSUME TreeInv, NEW t \in Threads, CreateReference(t)
  PROVE  Tree!Next
<1>1. PICK n : n = node[t]
  OBVIOUS
<1>2. pc[t] = "createReference" /\ settled' = fileMap
  BY DEF CreateReference, ReturnExclusive
<1>3. Inv /\ Created(t) /\ CallInv(t)
  BY <1>2 DEF TreeInv, PhaseInv, Inv
<1>4. PICK name \in Names \ DOMAIN settled :
        /\ DOMAIN fileMap = DOMAIN settled \cup {name} /\ fileMap[name] = n
        /\ \A x \in DOMAIN settled : fileMap[x] = settled[x]
        /\ ParentName(name) \in DOMAIN settled
  BY <1>1, <1>3 DEF Created
<1>5. n \in FileNodes
  BY <1>1, <1>2, <1>3 DEF CallInv, FoundInv
<1>6. \A other \in DOMAIN settled : settled[other] # n
  BY <1>3, <1>4, MapIsInjective
<1>7. fileMap = [x \in DOMAIN settled \cup {name} |-> IF x = name THEN n ELSE settled[x]]
  BY <1>3, <1>4, MapIsInjective
<1>8. Tree!Add(name, n)
  BY <1>2, <1>4, <1>6, <1>7, SameNames DEF Tree!Add, Tree!Occupied
<1> QED BY <1>4, <1>5, <1>8, SameNames DEF Tree!Next

LEMMA TreeDrops ==
  ASSUME TreeInv, NEW t \in Threads, OverwriteReturn(t)
  PROVE  Tree!Next
<1>1. pc[t] = "overwrite" /\ settled' = fileMap
  BY DEF OverwriteReturn, ReturnExclusive
<1>2. PICK name \in Names : Drops(t, name)
  BY <1>1 DEF TreeInv, PhaseInv, Dropping
<1>3. /\ name \in DOMAIN settled /\ DOMAIN fileMap \subseteq DOMAIN settled
      /\ \A x \in DOMAIN fileMap : fileMap[x] = settled[x]
      /\ \A x \in DOMAIN settled \ DOMAIN fileMap : IsStreamOf(x, name)
  BY <1>2 DEF Drops, LacksStreamsOf
<1>4. PICK S \in SUBSET DOMAIN settled : S = DOMAIN settled \ DOMAIN fileMap
  OBVIOUS
<1>5. S \in SUBSET Tree!StreamsOf(name)
  BY <1>3, <1>4, StreamsOfSettled
<1>6. fileMap = Restrict(settled, DOMAIN settled \ S)
  <2>1. DOMAIN settled \ S = DOMAIN fileMap
    BY <1>3, <1>4
  <2>2. fileMap = [x \in DOMAIN fileMap |-> settled[x]]
    BY <1>3, MapIsInjective DEF TreeInv
  <2> QED BY <2>1, <2>2 DEF Restrict
<1>7. Tree!DropStreams(name, S)
  BY <1>1, <1>3, <1>5, <1>6, SameNames DEF Tree!DropStreams, Tree!Occupied
<1> QED BY <1>2, <1>5, <1>7, SameNames DEF Tree!Next

LEMMA TreeDeletes ==
  ASSUME TreeInv, NEW t \in Threads, CleanupRemoveNode(t)
  PROVE  Tree!Next
<1>1. PICK n : n = node[t]
  OBVIOUS
<1>2. pc[t] = "cleanup" /\ todo[t] = {} /\ RemoveNode(n) /\ settled' = fileMap'
  BY <1>1 DEF CleanupRemoveNode, ReturnExclusive
<1>3. Inv /\ CallInv(t) /\ Inv' /\ PhaseInv(t)
  BY InvCleanupRemoveNode DEF TreeInv, Inv
<1>4. n \in FileNodes /\ Mapped(n)
  BY <1>1, <1>2, <1>3 DEF CallInv, CleanupInv, HandleInv
<1>5. PICK name \in Names : Drops(t, name) /\ Deletes(t, name)
  BY <1>2, <1>3 DEF PhaseInv, Deleting
<1>6. DOMAIN fileMap' = DOMAIN fileMap \ {name} /\ \A x \in DOMAIN fileMap' : fileMap'[x] = fileMap[x]
  BY <1>1, <1>2, <1>3, <1>4, <1>5, DeletedTree
<1>7. /\ name \in DOMAIN settled /\ DOMAIN fileMap \subseteq DOMAIN settled
      /\ \A x \in DOMAIN fileMap : fileMap[x] = settled[x]
      /\ \A x \in DOMAIN settled \ DOMAIN fileMap : IsStreamOf(x, name)
  BY <1>5 DEF Drops, LacksStreamsOf
<1>8. /\ name # Root /\ \A x \in DOMAIN settled : ~IsChildOf(x, name)
      /\ \A x \in DOMAIN fileMap : ~IsStreamOf(x, name)
  BY <1>2, <1>5 DEF Deletes, IsChildOf
<1>9. DOMAIN fileMap' = DOMAIN settled \ ({name} \cup Tree!StreamsOf(name))
  BY <1>6, <1>7, <1>8, StreamsOfSettled
<1>10. fileMap' = [x \in DOMAIN fileMap' |-> settled[x]]
  BY <1>3, <1>6, <1>7 DEF Inv, TypeOK
<1>11. Tree!Delete(name)
  BY <1>2, <1>7, <1>8, <1>9, <1>10, SameNames DEF Tree!Delete, Tree!Occupied, Tree!Restrict
<1> QED BY <1>5, <1>11, SameNames DEF Tree!Next

LEMMA TreeMovesAtOnce ==
  ASSUME TreeInv, NEW t \in Threads, RenameReturn(t)
  PROVE  Tree!Next
<1>1. PICK old, new : old = oldName[t] /\ new = newFileName[t]
  OBVIOUS
<1>2. pc[t] = "rename" /\ todo[t] = {} /\ settled' = fileMap
  BY DEF RenameReturn, ReturnExclusive
<1>3. /\ Inv /\ old \in Names /\ new \in Names /\ ~IsStream(old) /\ ~IsStream(new)
      /\ old # Root /\ (HasPrefix(new, old) => new = old)
      /\ \A x \in Moving(t) : x \in Names /\ HasPrefix(x, old) /\ x \in DOMAIN settled
      /\ DOMAIN settled \subseteq Names
  BY <1>1, <1>2, RenameFacts DEF Renaming
<1>4. MovedAll(t) /\ MoveBegun(t)
  BY <1>2, RenameDone
<1> DEFINE moving   == {name \in DOMAIN settled : HasPrefix(name, old)}
           staying  == DOMAIN settled \ (moving \cup {new} \cup Tree!StreamsOf(new))
           arrivals == {Renamed(name, old, new) : name \in moving}
           At(name) == CHOOSE m \in moving : Renamed(m, old, new) = name
<1>5. moving = Moving(t) /\ \A x : Target(t, x) = Renamed(x, old, new)
  BY <1>1 DEF Moving, Target
<1>6. ASSUME NEW y \in DOMAIN settled PROVE y \in staying <=> Stays(t, y)
  <2>1. ASSUME Stays(t, y), IsStreamOf(y, new) PROVE FALSE
    <3>1. HasPrefix(y, new)
      BY <1>3, <2>1, PrefixOfMain, PrefixOfItself DEF IsStreamOf
    <3> QED BY <1>1, <1>4, <1>5, <2>1, <3>1 DEF MoveBegun, Stays
  <2> QED BY <1>1, <1>5, <2>1, StreamsOfSettled DEF Stays
<1>7. /\ \A y \in staying : y \in DOMAIN fileMap /\ fileMap[y] = settled[y]
      /\ \A x \in moving : Renamed(x, old, new) \in DOMAIN fileMap
                             /\ fileMap[Renamed(x, old, new)] = settled[x]
      /\ \A y \in DOMAIN fileMap : y \in staying \/ \E x \in moving : y = Renamed(x, old, new)
  <2>1. \A y \in staying : y \in DOMAIN fileMap /\ fileMap[y] = settled[y]
    BY <1>4, <1>6 DEF MovedAll, Present
  <2>2. \A x \in moving : Renamed(x, old, new) \in DOMAIN fileMap
                            /\ fileMap[Renamed(x, old, new)] = settled[x]
    BY <1>4, <1>5 DEF MovedAll, Present
  <2>3. \A y \in DOMAIN fileMap : Stays(t, y) \/ \E x \in moving : y = Renamed(x, old, new)
    BY <1>4, <1>5 DEF MovedAll
  <2>4. \A y : Stays(t, y) => y \in DOMAIN settled
    BY DEF Stays
  <2> QED BY <1>6, <2>1, <2>2, <2>3, <2>4
<1>8. \A x \in moving : At(Renamed(x, old, new)) = x
  <2> SUFFICES ASSUME NEW x \in moving PROVE At(Renamed(x, old, new)) = x
    OBVIOUS
  <2>1. \A m \in moving : Renamed(m, old, new) = Renamed(x, old, new) => m = x
    BY <1>3, <1>5, RenamedInjective
  <2>2. At(Renamed(x, old, new)) \in moving
          /\ Renamed(At(Renamed(x, old, new)), old, new) = Renamed(x, old, new)
    OBVIOUS
  <2> HIDE DEF At
  <2> QED BY <2>1, <2>2
<1> HIDE DEF At
<1>9. fileMap = [name \in staying \cup arrivals |->
                   IF name \in arrivals THEN settled[At(name)] ELSE settled[name]]
  <2>1. DOMAIN fileMap = staying \cup arrivals
    BY <1>7
  <2>2. ASSUME NEW y \in DOMAIN fileMap
        PROVE  fileMap[y] = IF y \in arrivals THEN settled[At(y)] ELSE settled[y]
    <3>1. CASE y \in arrivals
      <4>1. PICK x \in moving : y = Renamed(x, old, new)
        BY <3>1
      <4> QED BY <1>7, <1>8, <3>1, <4>1
    <3>2. CASE y \notin arrivals
      BY <1>7, <3>2
    <3> QED BY <3>1, <3>2
  <2>3. fileMap = [y \in DOMAIN fileMap |-> fileMap[y]]
    BY <1>3, MapIsInjective
  <2> HIDE DEF arrivals, staying
  <2> QED BY <2>1, <2>2, <2>3
<1>10. old \in DOMAIN settled /\ ParentName(new) \in DOMAIN settled
  BY <1>1, <1>4 DEF MoveBegun
<1>11. Tree!Move(old, new)
  BY <1>2, <1>3, <1>9, <1>10, SameNames DEF Tree!Move, Tree!Occupied, At
<1> QED BY <1>3, <1>11, SameNames DEF Tree!Next

LEMMA TreeStepOrStutter ==
  ASSUME TreeInv, [Next]_vars
  PROVE  [Tree!Next]_settled
<1>1. CASE UNCHANGED vars
  BY <1>1 DEF vars, history
<1>2. ASSUME NEW t \in Threads, Exclusive(t) PROVE Tree!Next \/ UNCHANGED settled
  <2>1. ASSUME NEW name \in Names, NEW isDirectory \in BOOLEAN,
               CreateInsert(t, name, isDirectory) \/ CreateInsertThrows(t, name, isDirectory)
        PROVE  UNCHANGED settled
    BY <2>1 DEF CreateInsert, CreateInsertThrows, history
  <2>2. CASE CreateReference(t) \/ OverwriteReturn(t) \/ CleanupRemoveNode(t) \/ RenameReturn(t)
    BY <2>2, TreeAdds, TreeDrops, TreeDeletes, TreeMovesAtOnce
  <2>3. ASSUME NEW n \in alive, OverwriteEnumerate(t, n) \/ CleanupDelete(t, n)
        PROVE  UNCHANGED settled
    BY <2>3 DEF OverwriteEnumerate, CleanupDelete, history
  <2>4. CASE OverwriteTest(t) \/ OverwriteRemove(t) \/ CleanupRemoveStream(t)
    BY <2>4 DEF OverwriteTest, OverwriteRemove, CleanupRemoveStream, history
  <2>5. ASSUME NEW n \in alive, NEW new \in Names, RenameEnumerate(t, n, new)
        PROVE  UNCHANGED settled
    BY <2>5 DEF RenameEnumerate, history
  <2>6. CASE RenameReference(t) \/ RenameRemove(t) \/ RenameDereference(t)
    BY <2>6 DEF RenameReference, RenameRemove, RenameDereference, history
  <2>7. CASE RenameUnlink(t) \/ RenameRelink(t) \/ RenameRelease(t)
    BY <2>7 DEF RenameUnlink, RenameRelink, RenameRelease, history
  <2> QED BY <1>2, <2>1, <2>2, <2>3, <2>4, <2>5, <2>6, <2>7 DEF Exclusive
<1>3. ASSUME NEW t \in Threads, Shared(t) PROVE UNCHANGED settled
  BY <1>3 DEF Shared, OpenFind, OpenReference, history
<1>4. ASSUME NEW n \in FileNodes, Unguarded(n) PROVE UNCHANGED settled
  BY <1>4 DEF Unguarded, Cleanup, Close, history
<1> QED BY <1>1, <1>2, <1>3, <1>4 DEF Next

\* Under the same condition every exclusive call has, when it returns, the
\* effect of one step of FileTree: Create adds a name, Overwrite drops streams,
\* Cleanup deletes a name with its streams, and Rename, which takes the nodes
\* out of the map and puts them back one by one, moves them all at once.
THEOREM NamespaceImplementsFileTree ==
  ASSUME ReplacesStreams = FALSE
  PROVE  Spec => ImplementsFileTree
<1>1. Init => Tree!Init
  BY SameNames DEF Init, Tree!Init
<1>2. TreeInv /\ [Next]_vars => [Tree!Next]_settled
  BY TreeStepOrStutter
<1> QED BY <1>1, <1>2, TreeAlways, PTL DEF Spec, ImplementsFileTree, Tree!Spec

=============================================================================
