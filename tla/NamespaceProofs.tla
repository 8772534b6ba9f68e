--------------------------- MODULE NamespaceProofs ---------------------------
(***************************************************************************)
(* Types and reference counts of Namespace, for any names, nodes and       *)
(* threads and without any bound on handles.                               *)
(***************************************************************************)
EXTENDS Namespace, SequenceTheorems, FiniteSetTheorems, TLAPS

-----------------------------------------------------------------------------
(* Names. *)

LEMMA NamePaths ==
  ASSUME NEW name \in Names
  PROVE  /\ name = Name(name.path, name.stream)
         /\ name.path \in Seq(Components)
         /\ Len(name.path) \in Nat
         /\ name # Root => Len(name.path) \in 1 .. MAX_PATH
         /\ name.stream \in Streams \cup {NoStream}
<1>1. CASE name = Root
  BY <1>1, EmptySeq DEF Root, Name
<1>2. CASE name # Root
  <2>0. PICK n \in 1 .. MAX_PATH :
          \E p \in [1 .. n -> Components], s \in Streams \cup {NoStream} : name = Name(p, s)
    BY <1>2 DEF Names
  <2>1. PICK p \in [1 .. n -> Components], s \in Streams \cup {NoStream} : name = Name(p, s)
    BY <2>0
  <2>2. name.path = p /\ name.stream = s
    BY <2>1 DEF Name
  <2>3. n \in Nat /\ p \in Seq(Components) /\ Len(p) = n
    BY PathAssumption, SeqDef
  <2> QED BY <2>1, <2>2, <2>3
<1> QED BY <1>1, <1>2

LEMMA NamesOfPaths ==
  ASSUME NEW p \in Seq(Components), NEW s \in Streams \cup {NoStream}, Len(p) \in 1 .. MAX_PATH
  PROVE  Name(p, s) \in Names
<1>1. p \in [1 .. Len(p) -> Components]
  BY LenProperties
<1> QED BY <1>1 DEF Names

LEMMA MainOfFile ==
  ASSUME NEW name \in Names, ~IsStream(name)
  PROVE  MainName(name) = name
BY NamePaths DEF MainName, IsStream

LEMMA PrefixOfItself ==
  ASSUME NEW name \in Names
  PROVE  HasPrefix(name, name)
BY NamePaths DEF HasPrefix, IsPrefix

LEMMA CutBegin ==
  ASSUME NEW S, NEW s \in Seq(S), NEW k \in Nat, k <= Len(s)
  PROVE  /\ SubSeq(s, 1, k) \in Seq(S)
         /\ Len(SubSeq(s, 1, k)) = k
         /\ \A i \in 1 .. k : SubSeq(s, 1, k)[i] = s[i]
<1>1. Len(s) \in Nat
  BY LenProperties
<1>2. \A i \in 1 .. k : s[i] \in S
  BY <1>1, ElementOfSeq
<1>3. /\ SubSeq(s, 1, k) \in Seq(S)
      /\ Len(SubSeq(s, 1, k)) = IF 1 <= k THEN k - 1 + 1 ELSE 0
      /\ \A i \in 1 .. k - 1 + 1 : SubSeq(s, 1, k)[i] = s[1 + i - 1]
  BY <1>2, SubSeqProperties
<1> DEFINE c == SubSeq(s, 1, k)
<1> HIDE DEF c
<1>4. c \in Seq(S) /\ Len(c) = k
  BY <1>3 DEF c
<1>5. \A i \in 1 .. k : c[i] = s[i]
  <2> SUFFICES ASSUME NEW i \in 1 .. k PROVE c[i] = s[i]
    OBVIOUS
  <2>1. i \in 1 .. k - 1 + 1 /\ 1 + i - 1 = i
    OBVIOUS
  <2> QED BY <1>3, <2>1 DEF c
<1> QED BY <1>4, <1>5 DEF c

LEMMA CutEnd ==
  ASSUME NEW S, NEW s \in Seq(S), NEW k \in Nat, k <= Len(s)
  PROVE  /\ SubSeq(s, k + 1, Len(s)) \in Seq(S)
         /\ Len(SubSeq(s, k + 1, Len(s))) = Len(s) - k
         /\ \A i \in 1 .. Len(s) - k : SubSeq(s, k + 1, Len(s))[i] = s[k + i]
<1>1. PICK n \in Nat : n = Len(s)
  BY LenProperties
<1>2. k + 1 \in Int /\ \A i \in k + 1 .. n : s[i] \in S
  BY <1>1, ElementOfSeq
<1>3. /\ SubSeq(s, k + 1, n) \in Seq(S)
      /\ Len(SubSeq(s, k + 1, n)) = IF k + 1 <= n THEN n - (k + 1) + 1 ELSE 0
      /\ \A i \in 1 .. n - (k + 1) + 1 : SubSeq(s, k + 1, n)[i] = s[k + 1 + i - 1]
  BY <1>2, SubSeqProperties
<1> DEFINE c == SubSeq(s, k + 1, n)
<1> HIDE DEF c
<1>4. c \in Seq(S) /\ Len(c) = n - k
  BY <1>1, <1>3 DEF c
<1>5. \A i \in 1 .. n - k : c[i] = s[k + i]
  <2> SUFFICES ASSUME NEW i \in 1 .. n - k PROVE c[i] = s[k + i]
    OBVIOUS
  <2>1. i \in 1 .. n - (k + 1) + 1 /\ k + 1 + i - 1 = k + i
    OBVIOUS
  <2> QED BY <1>3, <2>1 DEF c
<1> QED BY <1>1, <1>4, <1>5 DEF c

\* Prefixes, place by place.
LEMMA PrefixByPlace ==
  ASSUME NEW S, NEW s \in Seq(S), NEW t \in Seq(S)
  PROVE  IsPrefix(s, t) <=> Len(s) <= Len(t) /\ \A i \in 1 .. Len(s) : t[i] = s[i]
<1>1. PICK n \in Nat : n = Len(s)
  BY LenProperties
<1>2. SubSeq(s, 1, n) = s
  BY <1>1, SubSeqFull
<1>3. CASE n <= Len(t)
  <2> DEFINE c == SubSeq(t, 1, n)
  <2> HIDE DEF c
  <2>1. c \in Seq(S) /\ Len(c) = n /\ \A i \in 1 .. n : c[i] = t[i]
    BY <1>3, CutBegin DEF c
  <2>2. s = c <=> \A i \in 1 .. n : c[i] = s[i]
    BY <1>1, <2>1, SeqEqual
  <2> QED BY <1>1, <1>2, <1>3, <2>1, <2>2 DEF IsPrefix, c
<1>4. CASE ~(n <= Len(t))
  BY <1>1, <1>4 DEF IsPrefix
<1> QED BY <1>3, <1>4

\* What Rename keeps of the path of a descendant.
Below(name, old) == SubSeq(name.path, Len(old.path) + 1, Len(name.path))

LEMMA RenamedPath ==
  ASSUME NEW name \in Names, NEW old \in Names, NEW new \in Names,
         HasPrefix(name, old), ~IsStream(old)
  PROVE  /\ Renamed(name, old, new) = Name(new.path \o Below(name, old), name.stream)
         /\ Renamed(name, old, new).path = new.path \o Below(name, old)
         /\ Renamed(name, old, new).stream = name.stream
         /\ Below(name, old) \in Seq(Components)
         /\ Len(Below(name, old)) = Len(name.path) - Len(old.path)
         /\ Len(old.path) <= Len(name.path)
         /\ \A i \in 1 .. Len(name.path) - Len(old.path) :
              Below(name, old)[i] = name.path[Len(old.path) + i]
<1>1. /\ name.path \in Seq(Components) /\ old.path \in Seq(Components)
      /\ Len(name.path) \in Nat /\ Len(old.path) \in Nat
  BY NamePaths
<1>2. Len(old.path) <= Len(name.path)
  BY DEF HasPrefix, IsPrefix
<1>3. PICK s \in Seq(Components), k \in Nat : s = name.path /\ k = Len(old.path)
  BY <1>1
<1>4. /\ SubSeq(s, k + 1, Len(s)) \in Seq(Components)
      /\ Len(SubSeq(s, k + 1, Len(s))) = Len(s) - k
      /\ \A i \in 1 .. Len(s) - k : SubSeq(s, k + 1, Len(s))[i] = s[k + i]
  BY <1>2, <1>3, CutEnd
<1> QED BY <1>2, <1>3, <1>4 DEF Below, Renamed, Name

LEMMA RenamedLength ==
  ASSUME NEW name \in Names, NEW old \in Names, NEW new \in Names,
         HasPrefix(name, old), ~IsStream(old)
  PROVE  /\ Renamed(name, old, new).path \in Seq(Components)
         /\ Len(Renamed(name, old, new).path) = Len(new.path) + (Len(name.path) - Len(old.path))
         /\ \A i \in 1 .. Len(new.path) : Renamed(name, old, new).path[i] = new.path[i]
         /\ \A i \in Len(new.path) + 1 .. Len(Renamed(name, old, new).path) :
              Renamed(name, old, new).path[i] = name.path[Len(old.path) + (i - Len(new.path))]
<1>0. PICK s \in Seq(Components), r \in Seq(Components) : s = new.path /\ r = Below(name, old)
  BY NamePaths, RenamedPath
<1>1. PICK p \in Seq(Components) : p = Renamed(name, old, new).path
  <2>1. Renamed(name, old, new).path = s \o r
    BY <1>0, RenamedPath
  <2> QED BY <2>1, ConcatProperties
<1>2. /\ p = s \o r /\ Len(r) = Len(name.path) - Len(old.path)
      /\ Len(old.path) <= Len(name.path)
      /\ \A i \in 1 .. Len(name.path) - Len(old.path) : r[i] = name.path[Len(old.path) + i]
  BY <1>0, <1>1, RenamedPath
<1>3. /\ s \o r \in Seq(Components) /\ Len(s \o r) = Len(s) + Len(r)
      /\ \A i \in 1 .. Len(s) + Len(r) : (s \o r)[i] = IF i <= Len(s) THEN s[i] ELSE r[i - Len(s)]
  BY ConcatProperties
<1>4. Len(s) \in Nat /\ Len(r) \in Nat /\ Len(name.path) \in Nat /\ Len(old.path) \in Nat
  BY NamePaths, LenProperties
<1>5. \A i \in 1 .. Len(s) : p[i] = s[i]
  BY <1>2, <1>3, <1>4
<1>6. \A i \in Len(s) + 1 .. Len(s) + Len(r) : p[i] = name.path[Len(old.path) + (i - Len(s))]
  <2> SUFFICES ASSUME NEW i \in Len(s) + 1 .. Len(s) + Len(r)
               PROVE  p[i] = name.path[Len(old.path) + (i - Len(s))]
    OBVIOUS
  <2>0. PICK m \in Nat, n \in Nat : m = Len(s) /\ n = Len(r)
    BY LenProperties
  <2>1. PICK k \in Int : k = i /\ m + 1 <= k /\ k <= m + n
    BY <2>0
  <2>2. i \in 1 .. m + n /\ ~(i <= m) /\ i - m \in 1 .. n
    BY <2>0, <2>1
  <2>3. p[i] = r[i - m]
    BY <1>2, <1>3, <2>0, <2>1, <2>2
  <2> QED BY <1>2, <2>0, <2>1, <2>3
<1> QED BY <1>0, <1>1, <1>2, <1>3, <1>5, <1>6

LEMMA RenamedIsName ==
  ASSUME NEW name \in Names, NEW old \in Names, NEW new \in Names,
         HasPrefix(name, old), ~IsStream(old), new # Root,
         ~(Len(Renamed(name, old, new).path) > MAX_PATH)
  PROVE  Renamed(name, old, new) \in Names
<1>1. PICK p \in Seq(Components) : p = Renamed(name, old, new).path
  BY RenamedLength
<1>2. Renamed(name, old, new) = Name(p, name.stream)
  BY <1>1 DEF Renamed, Name
<1>6. name.stream \in Streams \cup {NoStream}
  BY NamePaths
<1>3. Len(p) = Len(new.path) + (Len(name.path) - Len(old.path)) /\ Len(old.path) <= Len(name.path)
  BY <1>1, RenamedLength, RenamedPath
<1>4. Len(name.path) \in Nat /\ Len(old.path) \in Nat /\ Len(new.path) \in 1 .. MAX_PATH
  BY NamePaths
<1>5. Len(p) \in 1 .. MAX_PATH
  <2>1. PICK a \in Nat, b \in Nat, c \in 1 .. MAX_PATH, l \in Nat :
          a = Len(name.path) /\ b = Len(old.path) /\ c = Len(new.path) /\ l = Len(p)
    BY <1>4, LenProperties
  <2>2. l = c + (a - b) /\ b <= a /\ ~(l > MAX_PATH)
    BY <1>1, <1>3, <2>1
  <2>3. l >= 1 /\ l <= MAX_PATH
    BY <2>2, PathAssumption
  <2> QED BY <2>1, <2>3, PathAssumption
<1> QED BY <1>2, <1>6, <1>5, NamesOfPaths

\* A rename to the same name changes no name.
LEMMA RenamedToItself ==
  ASSUME NEW name \in Names, NEW old \in Names, HasPrefix(name, old), ~IsStream(old)
  PROVE  Renamed(name, old, old) = name
<1>1. PICK p \in Seq(Components) : p = Renamed(name, old, old).path
  BY RenamedLength
<1>2. PICK q \in Seq(Components), o \in Seq(Components) : q = name.path /\ o = old.path
  BY NamePaths
<1>3. Len(q) \in Nat /\ Len(o) \in Nat
  BY LenProperties
<1>4. /\ Len(p) = Len(o) + (Len(q) - Len(o))
      /\ \A i \in 1 .. Len(o) : p[i] = o[i]
      /\ \A i \in Len(o) + 1 .. Len(p) : p[i] = q[Len(o) + (i - Len(o))]
  BY <1>1, <1>2, RenamedLength
<1>5. \A i \in 1 .. Len(o) : q[i] = o[i]
  BY <1>2, PrefixByPlace DEF HasPrefix
<1>6. Len(p) = Len(q) /\ \A i \in Len(o) + 1 .. Len(p) : Len(o) + (i - Len(o)) = i
  BY <1>3, <1>4
<1>7. \A i \in 1 .. Len(p) : p[i] = q[i]
  BY <1>3, <1>4, <1>5, <1>6
<1>8. p = q
  BY <1>6, <1>7, SeqEqual
<1>9. Renamed(name, old, old) = Name(p, name.stream)
  BY <1>1 DEF Renamed, Name
<1>10. name = Name(name.path, name.stream)
  BY NamePaths
<1> QED BY <1>2, <1>8, <1>9, <1>10

-----------------------------------------------------------------------------
(* The inductive invariant. *)

Guarded(t) == pc[t] \notin {"idle", "open"}

\* A guarded call runs alone.
AloneInv == \A t, u \in Threads : Guarded(t) /\ u # t => pc[u] = "idle"

\* A node in the map carries the name it is found under.
LinkInv == \A name \in DOMAIN fileMap : fileName[fileMap[name]] = name

\* What is counted has not been deleted.
AliveInv == \A n \in FileNodes : refCount[n] > 0 => n \in alive

IdleInv(t) == pc[t] = "idle" => node[t] = nullptr /\ item[t] = nullptr /\ todo[t] = {}

FoundInv(t) ==
  pc[t] \in {"open", "createReference"} =>
    node[t] \in FileNodes /\ Mapped(node[t]) /\ item[t] = nullptr /\ todo[t] = {}

\* Overwrite, Cleanup and Rename are called through a handle.
HandleInv(t) ==
  pc[t] \in {"overwrite", "overwriteRemove", "cleanup"} \cup Renaming =>
    node[t] \in FileNodes /\ opened[node[t]] > 0

OverwriteInv(t) ==
  /\ pc[t] \in {"overwrite", "overwriteRemove"} => \A s \in todo[t] : Mapped(s)
  /\ pc[t] = "overwrite" => item[t] = nullptr
  /\ pc[t] = "overwriteRemove" => item[t] \in todo[t] /\ opened[item[t]] + cleaned[item[t]] = 0

CleanupInv(t) ==
  pc[t] = "cleanup" =>
    /\ item[t] = nullptr
    /\ Mapped(node[t]) /\ node[t] \notin todo[t]
    /\ \A s \in todo[t] : Mapped(s)

\* A node that Rename has still to move.
Movable(t, d) ==
  /\ HasPrefix(fileName[d], oldName[t])
  /\ d = node[t] <=> fileName[d] = oldName[t]
  /\ ~(Len(Renamed(fileName[d], oldName[t], newFileName[t]).path) > MAX_PATH)

\* It is in the map, unless it was removed as what stood under the new name.
InPlace(t, d) ==
  Mapped(d) \/ (d = node[t] /\ newFileName[t] = oldName[t] /\ ~Present(oldName[t]))

Unmoved(t) == IF pc[t] \in {"renameRelink", "renameRelease"} THEN todo[t] \ {item[t]} ELSE todo[t]

RenameInv(t) ==
  pc[t] \in Renaming =>
    /\ ~IsStream(oldName[t]) /\ newFileName[t] # Root /\ ~IsStream(newFileName[t])
    /\ HasPrefix(newFileName[t], oldName[t]) => newFileName[t] = oldName[t]
    /\ \A d \in Unmoved(t) : Movable(t, d) /\ InPlace(t, d)

ReplaceInv(t) ==
  /\ pc[t] \in {"renameReference", "renameRemove"} =>
       /\ item[t] \in FileNodes /\ Mapped(item[t]) /\ fileName[item[t]] = newFileName[t]
       /\ \A d \in todo[t] : Mapped(d)
  /\ pc[t] = "renameDereference" =>
       /\ item[t] \in FileNodes /\ ~Mapped(item[t]) /\ fileName[item[t]] = newFileName[t]
       /\ ~Present(newFileName[t])

MoveInv(t) ==
  /\ pc[t] = "rename" => item[t] \in {nullptr}
  /\ pc[t] = "renameRelink" =>
       item[t] \in todo[t] /\ ~Mapped(item[t]) /\ Movable(t, item[t])
  /\ pc[t] = "renameRelease" => item[t] \in todo[t]

CallInv(t) ==
  /\ IdleInv(t) /\ FoundInv(t) /\ HandleInv(t) /\ OverwriteInv(t) /\ CleanupInv(t)
  /\ RenameInv(t) /\ ReplaceInv(t) /\ MoveInv(t)

Inv ==
  /\ TypeOK /\ RefCountExact /\ AloneInv /\ LinkInv /\ AliveInv
  /\ \A t \in Threads : CallInv(t)

-----------------------------------------------------------------------------
(* References held by calls. *)

\* Held, of any labels, enumerations and targets.
HeldOf(labels, enumerations, targets, n) ==
  Cardinality({t \in Threads :
                 labels[t] \in {"overwrite", "overwriteRemove"} \cup Renaming
                   /\ n \in enumerations[t]})
  + Cardinality({t \in Threads :
                   labels[t] \in {"renameRemove", "renameDereference"} /\ n = targets[t]})

HeldBy(label, enumeration, target, n) ==
  Indicator(label \in {"overwrite", "overwriteRemove"} \cup Renaming /\ n \in enumeration)
  + Indicator(label \in {"renameRemove", "renameDereference"} /\ n = target)

LEMMA CountOne ==
  ASSUME NEW T, NEW t \in T, NEW S, S \in SUBSET {t}
  PROVE  Cardinality(S) = Indicator(t \in S)
<1>1. S = {} \/ S = {t}
  OBVIOUS
<1>2. Cardinality({}) = 0 /\ Cardinality({t}) = 1
  BY FS_EmptySet, FS_Singleton
<1> QED BY <1>1, <1>2 DEF Indicator

LEMMA HeldByOne ==
  ASSUME NEW labels, NEW enumerations, NEW targets, NEW n, NEW t \in Threads,
         \A u \in Threads : u # t => labels[u] \in {"idle", "open"}
  PROVE  HeldOf(labels, enumerations, targets, n) =
           HeldBy(labels[t], enumerations[t], targets[t], n)
<1> DEFINE S == {u \in Threads : labels[u] \in {"overwrite", "overwriteRemove"} \cup Renaming
                                   /\ n \in enumerations[u]}
           T == {u \in Threads :
                   labels[u] \in {"renameRemove", "renameDereference"} /\ n = targets[u]}
<1>1. S \in SUBSET {t} /\ T \in SUBSET {t}
  BY DEF Renaming
<1>2. /\ t \in S <=> labels[t] \in {"overwrite", "overwriteRemove"} \cup Renaming
                       /\ n \in enumerations[t]
      /\ t \in T <=> labels[t] \in {"renameRemove", "renameDereference"} /\ n = targets[t]
  OBVIOUS
<1> HIDE DEF S, T
<1>3. Cardinality(S) = Indicator(t \in S) /\ Cardinality(T) = Indicator(t \in T)
  BY <1>1, CountOne
<1> QED BY <1>2, <1>3 DEF HeldOf, HeldBy, S, T

LEMMA HeldNow == \A n : Held(n) = HeldOf(pc, todo, item, n)
BY DEF Held, HeldOf

LEMMA HeldNext == \A n : Held(n)' = HeldOf(pc', todo', item', n)
BY DEF Held, HeldOf

Others(t) == \A u \in Threads : u # t => pc[u] = "idle"

\* What a reference count is made of while t runs, or may run, alone.
LEMMA CountNow ==
  ASSUME RefCountExact, NEW t \in Threads, \A u \in Threads : u # t => pc[u] \in {"idle", "open"}
  PROVE  \A n \in FileNodes :
           refCount[n] = Indicator(Mapped(n)) + opened[n] + cleaned[n]
                           + HeldBy(pc[t], todo[t], item[t], n) + leaked[n]
<1> SUFFICES ASSUME NEW n \in FileNodes
             PROVE  refCount[n] = Indicator(Mapped(n)) + opened[n] + cleaned[n]
                                    + HeldBy(pc[t], todo[t], item[t], n) + leaked[n]
  OBVIOUS
<1>1. Held(n) = HeldBy(pc[t], todo[t], item[t], n)
  BY HeldNow, HeldByOne
<1> QED BY <1>1 DEF RefCountExact

LEMMA CountNext ==
  ASSUME NEW t \in Threads, \A u \in Threads : u # t => pc'[u] \in {"idle", "open"},
         \A n \in FileNodes :
           refCount'[n] = Indicator(Mapped(n)') + opened'[n] + cleaned'[n]
                           + HeldBy(pc'[t], todo'[t], item'[t], n) + leaked'[n]
  PROVE  RefCountExact'
<1> SUFFICES ASSUME NEW n \in FileNodes
             PROVE  refCount'[n] = Indicator(Mapped(n)') + opened'[n] + cleaned'[n]
                                    + Held(n)' + leaked'[n]
  BY DEF RefCountExact, Indicator
<1>1. Held(n)' = HeldBy(pc'[t], todo'[t], item'[t], n)
  BY HeldNext, HeldByOne
<1> QED BY <1>1

LEMMA HeldByIsNat ==
  ASSUME NEW label, NEW S, NEW m, NEW n
  PROVE  HeldBy(label, S, m, n) \in Nat
BY DEF HeldBy, Indicator

\* A count of one is a single reference.
LEMMA SingleReference ==
  ASSUME TypeOK, RefCountExact, NEW t \in Threads, NEW n \in FileNodes,
         \A u \in Threads : u # t => pc[u] \in {"idle", "open"}
  PROVE  /\ Mapped(n) \/ opened[n] > 0 \/ cleaned[n] > 0
              \/ HeldBy(pc[t], todo[t], item[t], n) > 0 => refCount[n] > 0
         /\ refCount[n] = 1 /\ cleaned[n] > 0 =>
              ~Mapped(n) /\ opened[n] = 0 /\ HeldBy(pc[t], todo[t], item[t], n) = 0
         /\ refCount[n] = 1 /\ HeldBy(pc[t], todo[t], item[t], n) > 0 =>
              ~Mapped(n) /\ opened[n] = 0 /\ HeldBy(pc[t], todo[t], item[t], n) = 1
         /\ Mapped(n) /\ refCount[n] = 1 => opened[n] = 0 /\ cleaned[n] = 0
         /\ Mapped(n) /\ HeldBy(pc[t], todo[t], item[t], n) > 0 => refCount[n] > 1
         /\ Mapped(n) /\ opened[n] > 0 => refCount[n] > 1
<1>1. refCount[n] = Indicator(Mapped(n)) + opened[n] + cleaned[n]
                      + HeldBy(pc[t], todo[t], item[t], n) + leaked[n]
  BY CountNow
<1>2. opened[n] \in Nat /\ cleaned[n] \in Nat /\ leaked[n] \in Nat
  BY DEF TypeOK
<1> QED BY <1>1, <1>2, HeldByIsNat DEF Indicator

-----------------------------------------------------------------------------
(* The elementary steps of the handlers. *)

LEMMA MappedIsLinked ==
  ASSUME LinkInv, NEW n, Mapped(n)
  PROVE  Linked(n)
BY DEF LinkInv, Mapped, Linked, Present

LEMMA RootIsName == Root \in Names
BY DEF Names

LEMMA DereferenceFacts ==
  ASSUME TypeOK, AliveInv, NEW n \in FileNodes, refCount[n] > 0, Dereference(n)
  PROVE  /\ alive' \in SUBSET FileNodes /\ directories' \in SUBSET FileNodes
         /\ fileName' \in [FileNodes -> Names]
         /\ mainFileNode' \in [FileNodes -> FileNodes \cup {nullptr}]
         /\ refCount' \in [FileNodes -> Nat]
         /\ \A m \in FileNodes : refCount'[m] = refCount[m] - Indicator(m = n)
         /\ AliveInv'
         /\ \A m \in FileNodes :
              m # n \/ refCount[n] # 1 =>
                /\ fileName'[m] = fileName[m] /\ mainFileNode'[m] = mainFileNode[m]
                /\ m \in alive' <=> m \in alive
                /\ m \in directories' <=> m \in directories
         /\ refCount[n] # 1 => UNCHANGED members
<1>1. \A m \in FileNodes : refCount[m] \in Nat /\ refCount'[m] = refCount[m] - Indicator(m = n)
  BY DEF TypeOK, Dereference, Indicator
<1>2. refCount' \in [FileNodes -> Nat]
  BY DEF TypeOK, Dereference
<1>3. CASE refCount[n] = 1
  BY <1>1, <1>2, <1>3, RootIsName DEF TypeOK, Dereference, AliveInv, Indicator
<1>4. CASE refCount[n] # 1
  BY <1>1, <1>2, <1>4 DEF TypeOK, Dereference, AliveInv, Indicator, members
<1> QED BY <1>3, <1>4

\* What RemoveNode does to a node in the map.
LEMMA RemoveFacts ==
  ASSUME TypeOK, AliveInv, LinkInv, NEW n \in FileNodes, refCount[n] > 0, Mapped(n), RemoveNode(n)
  PROVE  /\ Dereference(n)
         /\ DOMAIN fileMap' = DOMAIN fileMap \ {fileName[n]}
         /\ \A x \in DOMAIN fileMap' : fileMap'[x] = fileMap[x]
         /\ DOMAIN fileMap' \subseteq Names /\ fileMap' \in [DOMAIN fileMap' -> FileNodes]
         /\ ~Mapped(n)'
         /\ \A m \in FileNodes : m # n => (Mapped(m)' <=> Mapped(m))
         /\ LinkInv'
<1>1. Linked(n)
  BY MappedIsLinked
<1>2. fileMap' = Restrict(fileMap, DOMAIN fileMap \ {fileName[n]}) /\ Dereference(n)
  BY <1>1 DEF RemoveNode, Linked
<1>3. /\ DOMAIN fileMap' = DOMAIN fileMap \ {fileName[n]}
      /\ \A x \in DOMAIN fileMap' : fileMap'[x] = fileMap[x]
      /\ fileMap' \in [DOMAIN fileMap' -> FileNodes]
  BY <1>2 DEF Restrict, TypeOK
<1>4. \A x \in DOMAIN fileMap' : fileMap[x] \in FileNodes /\ fileMap[x] # n
  BY <1>3 DEF LinkInv, TypeOK
<1>5. LinkInv'
  <2> SUFFICES ASSUME NEW x \in DOMAIN fileMap' PROVE fileName'[fileMap'[x]] = x
    BY DEF LinkInv
  <2>1. PICK m \in FileNodes : m = fileMap[x] /\ m # n
    BY <1>4
  <2>2. fileName'[m] = fileName[m]
    BY <1>2, <2>1, DereferenceFacts
  <2> QED BY <1>3, <2>1, <2>2 DEF LinkInv
<1>6. ~Mapped(n)'
  BY <1>3, <1>4 DEF Mapped
<1>7. \A m \in FileNodes : m # n => (Mapped(m)' <=> Mapped(m))
  BY <1>1, <1>3 DEF Mapped, Linked
<1> QED BY <1>2, <1>3, <1>5, <1>6, <1>7 DEF TypeOK

-----------------------------------------------------------------------------
(* Putting a step together: what it does to the thread that takes it, and    *)
(* the others idle.                                                          *)

OthersKept(t) ==
  \A u \in Threads : u # t =>
    pc'[u] = pc[u] /\ node'[u] = node[u] /\ item'[u] = item[u] /\ todo'[u] = todo[u]

LEMMA IdleCall ==
  ASSUME NEW u, pc'[u] = "idle", node'[u] = nullptr, item'[u] = nullptr, todo'[u] = {}
  PROVE  CallInv(u)'
BY DEF CallInv, IdleInv, FoundInv, HandleInv, OverwriteInv, CleanupInv, RenameInv, ReplaceInv,
       MoveInv, Renaming

LEMMA StepAlone ==
  ASSUME Inv, NEW t \in Threads, Others(t), OthersKept(t),
         TypeOK', LinkInv', AliveInv', CallInv(t)',
         \A n \in FileNodes :
           refCount'[n] = Indicator(Mapped(n)') + opened'[n] + cleaned'[n]
                           + HeldBy(pc'[t], todo'[t], item'[t], n) + leaked'[n]
  PROVE  Inv'
<1>1. \A u \in Threads : u # t => pc'[u] = "idle" /\ pc[u] = "idle"
  BY DEF Others, OthersKept
<1>2. RefCountExact'
  BY <1>1, CountNext
<1>3. AloneInv'
  BY <1>1 DEF AloneInv, Guarded
<1>4. ASSUME NEW u \in Threads PROVE CallInv(u)'
  <2>1. CASE u = t
    BY <2>1
  <2>2. CASE u # t
    <3>1. CallInv(u)
      BY DEF Inv
    <3>2. pc'[u] = "idle" /\ node'[u] = nullptr /\ item'[u] = nullptr /\ todo'[u] = {}
      BY <1>1, <2>2, <3>1 DEF OthersKept, CallInv, IdleInv
    <3> QED BY <3>2, IdleCall
  <2> QED BY <2>1, <2>2
<1> QED BY <1>2, <1>3, <1>4 DEF Inv

LEMMA GuardedAlone ==
  ASSUME AloneInv, NEW t \in Threads, Guarded(t)
  PROVE  Others(t)
BY DEF AloneInv, Others

\* A call that returns leaves nothing behind in its locals.
LEMMA Returned ==
  ASSUME TypeOK, NEW t \in Threads, Return(t)
  PROVE  /\ pc'[t] = "idle" /\ node'[t] = nullptr /\ item'[t] = nullptr /\ todo'[t] = {}
         /\ OthersKept(t) /\ CallInv(t)'
         /\ pc' \in [Threads -> Labels]
         /\ node' \in [Threads -> FileNodes \cup {nullptr}]
         /\ item' \in [Threads -> FileNodes \cup {nullptr}]
         /\ todo' \in [Threads -> SUBSET FileNodes]
         /\ oldName' \in [Threads -> Names] /\ newFileName' \in [Threads -> Names]
<1>1. pc'[t] = "idle" /\ node'[t] = nullptr /\ item'[t] = nullptr /\ todo'[t] = {}
  BY DEF TypeOK, Return, Goto
<1>2. OthersKept(t)
  BY DEF TypeOK, Return, Goto, OthersKept
<1>3. CallInv(t)'
  BY <1>1, IdleCall
<1>4. pc' \in [Threads -> Labels]
  BY DEF TypeOK, Return, Goto, Labels
<1> QED BY <1>1, <1>2, <1>3, <1>4, RootIsName DEF TypeOK, Return

\* No call is made through a handle of the node beyond those that are spare.
LEMMA SpareFacts ==
  ASSUME TypeOK, NEW t \in Threads, NEW n \in FileNodes, CallInv(t),
         \A u \in Threads : u # t => CallInv(u) /\ pc[u] \in {"idle", "open"}
  PROVE  Spare(n) = opened[n] - Indicator(Guarded(t) /\ node[t] = n)
<1> DEFINE S == {u \in Threads : node[u] = n /\ pc[u] # "open"}
<1>1. \A u \in Threads : pc[u] = "idle" => node[u] # n
  BY NodesAssumption DEF CallInv, IdleInv, Inv
<1>2. S \in SUBSET {t}
  BY <1>1
<1>3. t \in S <=> Guarded(t) /\ node[t] = n
  BY <1>1 DEF Guarded
<1> HIDE DEF S
<1>4. Cardinality(S) = Indicator(t \in S)
  BY <1>2, CountOne
<1> QED BY <1>3, <1>4 DEF Spare, S

\* Threads that run at the same time all only open.
LEMMA SomeoneAlone ==
  ASSUME AloneInv, Threads # {}
  PROVE  \E t \in Threads : \A u \in Threads : u # t => pc[u] \in {"idle", "open"}
BY DEF AloneInv, Guarded

-----------------------------------------------------------------------------
(* The initial states. *)

LEMMA InvInit == Init => Inv
<1> SUFFICES ASSUME Init PROVE Inv
  OBVIOUS
<1>1. PICK root \in FileNodes :
        /\ fileMap = [name \in {Root} |-> root]
        /\ alive = {root} /\ directories = {root}
        /\ refCount = [n \in FileNodes |-> IF n = root THEN 1 ELSE 0]
        /\ fileName = [n \in FileNodes |-> Root]
        /\ mainFileNode = [n \in FileNodes |-> nullptr]
        /\ opened = [n \in FileNodes |-> 0] /\ cleaned = [n \in FileNodes |-> 0]
        /\ pc = [t \in Threads |-> "idle"] /\ node = [t \in Threads |-> nullptr]
        /\ item = [t \in Threads |-> nullptr] /\ todo = [t \in Threads |-> {}]
        /\ oldName = [t \in Threads |-> Root] /\ newFileName = [t \in Threads |-> Root]
        /\ leaked = [n \in FileNodes |-> 0] /\ abandoned = {}
  BY DEF Init
<1>2. TypeOK
  BY <1>1, RootIsName DEF TypeOK, Labels
<1>3. \A n \in FileNodes : Held(n) = 0
  <2>1. \A n : {t \in Threads : pc[t] \in {"overwrite", "overwriteRemove"} \cup Renaming
                                 /\ n \in todo[t]} = {}
    BY <1>1
  <2>2. \A n : {t \in Threads : pc[t] \in {"renameRemove", "renameDereference"}
                                 /\ n = item[t]} = {}
    BY <1>1
  <2> QED BY <2>1, <2>2, FS_EmptySet DEF Held
<1>4. RefCountExact
  <2> SUFFICES ASSUME NEW n \in FileNodes
               PROVE  refCount[n] = Indicator(Mapped(n)) + opened[n] + cleaned[n] + Held(n)
                                      + leaked[n]
    BY DEF RefCountExact
  <2>1. Mapped(n) <=> n = root
    BY <1>1 DEF Mapped
  <2> QED BY <1>1, <1>3, <2>1 DEF Indicator
<1>5. AloneInv /\ LinkInv /\ AliveInv
  BY <1>1 DEF AloneInv, Guarded, LinkInv, AliveInv
<1>6. \A t \in Threads : CallInv(t)
  BY <1>1 DEF CallInv, IdleInv, FoundInv, HandleInv, OverwriteInv, CleanupInv, RenameInv,
              ReplaceInv, MoveInv, Renaming
<1> QED BY <1>2, <1>4, <1>5, <1>6 DEF Inv

-----------------------------------------------------------------------------
(* Create and Open. *)

\* What Create builds has no references yet, from anywhere.
LEMMA FreshIsUnused ==
  ASSUME Inv, NEW t \in Threads, MayRunExclusive, NEW n \in FileNodes \ alive
  PROVE  /\ refCount[n] = 0 /\ ~Mapped(n)
         /\ opened[n] = 0 /\ cleaned[n] = 0 /\ leaked[n] = 0
         /\ \A m \in FileNodes : HeldBy(pc[t], todo[t], item[t], m) = 0
<1>1. \A u \in Threads : pc[u] = "idle"
  BY DEF MayRunExclusive
<1>2. \A m \in FileNodes : HeldBy(pc[t], todo[t], item[t], m) = 0
  BY <1>1 DEF HeldBy, Indicator, Renaming
<1>3. refCount[n] = 0
  BY DEF Inv, TypeOK, AliveInv
<1>4. refCount[n] = Indicator(Mapped(n)) + opened[n] + cleaned[n]
                      + HeldBy(pc[t], todo[t], item[t], n) + leaked[n]
  BY <1>1, CountNow DEF Inv
<1>5. opened[n] \in Nat /\ cleaned[n] \in Nat /\ leaked[n] \in Nat
  BY DEF Inv, TypeOK
<1>6. Indicator(Mapped(n)) \in Nat /\ (Mapped(n) => Indicator(Mapped(n)) = 1)
  BY DEF Indicator
<1>7. HeldBy(pc[t], todo[t], item[t], n) = 0
  BY <1>2
<1>8. PICK i \in Nat, o \in Nat, c \in Nat, l \in Nat :
        i = Indicator(Mapped(n)) /\ o = opened[n] /\ c = cleaned[n] /\ l = leaked[n]
  BY <1>5, <1>6
<1>9. i + o + c + 0 + l = 0
  BY <1>3, <1>4, <1>7, <1>8
<1>10. i = 0 /\ o = 0 /\ c = 0 /\ l = 0
  BY <1>9
<1>11. ~Mapped(n)
  BY <1>6, <1>8, <1>10
<1> QED BY <1>2, <1>3, <1>8, <1>10, <1>11

LEMMA NewNodeFacts ==
  ASSUME Inv, NEW name \in Names, NEW isDirectory, NEW n \in FileNodes,
         NewNode(n, name, isDirectory)
  PROVE  /\ alive' \in SUBSET FileNodes /\ directories' \in SUBSET FileNodes
         /\ fileName' \in [FileNodes -> Names]
         /\ mainFileNode' \in [FileNodes -> FileNodes \cup {nullptr}]
         /\ n \in alive' /\ alive \subseteq alive'
         /\ fileName'[n] = name /\ \A m \in FileNodes : m # n => fileName'[m] = fileName[m]
<1>1. FindMainFromStream(name) \in FileNodes \cup {nullptr}
  BY DEF Inv, TypeOK, FindMainFromStream, Present
<1> QED BY <1>1 DEF Inv, TypeOK, NewNode

LEMMA InvCreateInsert ==
  ASSUME Inv, NEW t \in Threads, NEW name \in Names, NEW isDirectory,
         CreateInsert(t, name, isDirectory)
  PROVE  Inv'
<1>1. PICK n \in FileNodes \ alive :
        /\ NewNode(n, name, isDirectory)
        /\ fileMap' = Emplaced(name, n)
        /\ refCount' = [refCount EXCEPT ![n] = 1]
        /\ node' = [node EXCEPT ![t] = n]
  BY DEF CreateInsert
<1>2. /\ MayRunExclusive /\ ~Present(name) /\ pc' = [pc EXCEPT ![t] = "createReference"]
      /\ UNCHANGED <<handles, item, todo, oldName, newFileName, history>>
  BY DEF CreateInsert, MayCreate, Goto
<1>3. TypeOK /\ LinkInv /\ AliveInv /\ CallInv(t) /\ RefCountExact
  BY DEF Inv
<1>4. pc[t] = "idle" /\ Others(t) /\ item[t] = nullptr /\ todo[t] = {}
  BY <1>2, <1>3 DEF MayRunExclusive, Others, CallInv, IdleInv
<1>5. OthersKept(t)
  BY <1>1, <1>2, <1>3 DEF OthersKept, TypeOK
<1>6. /\ refCount[n] = 0 /\ ~Mapped(n) /\ opened[n] = 0 /\ cleaned[n] = 0 /\ leaked[n] = 0
      /\ \A m \in FileNodes : HeldBy(pc[t], todo[t], item[t], m) = 0
  BY <1>2, FreshIsUnused
<1>7. /\ DOMAIN fileMap' = DOMAIN fileMap \cup {name} /\ fileMap'[name] = n
      /\ \A x \in DOMAIN fileMap : fileMap'[x] = fileMap[x] /\ x # name /\ fileMap[x] # n
  BY <1>1, <1>2, <1>6 DEF Emplaced, Present, Mapped
<1>8. Mapped(n)' /\ \A m \in FileNodes : m # n => (Mapped(m)' <=> Mapped(m))
  BY <1>7 DEF Mapped
<1>9. TypeOK'
  <2>1. DOMAIN fileMap' \subseteq Names /\ fileMap' \in [DOMAIN fileMap' -> FileNodes]
    <3>1. \A x \in DOMAIN fileMap' : fileMap'[x] \in FileNodes
      BY <1>3, <1>7 DEF TypeOK
    <3> QED BY <1>1, <1>3, <1>7, <3>1 DEF TypeOK, Emplaced
  <2>2. pc' \in [Threads -> Labels]
    BY <1>2, <1>3 DEF TypeOK, Labels
  <2> QED BY <1>1, <1>2, <1>3, <2>1, <2>2, NewNodeFacts DEF TypeOK, handles, history
<1>10. LinkInv'
  <2> SUFFICES ASSUME NEW x \in DOMAIN fileMap' PROVE fileName'[fileMap'[x]] = x
    BY DEF LinkInv
  <2>1. CASE x = name
    BY <1>1, <1>7, <2>1, NewNodeFacts
  <2>2. CASE x # name
    BY <1>1, <1>3, <1>7, <2>2, NewNodeFacts DEF LinkInv, TypeOK
  <2> QED BY <2>1, <2>2
<1>11. AliveInv'
  BY <1>1, <1>3, NewNodeFacts DEF AliveInv, TypeOK
<1>12. pc'[t] = "createReference" /\ node'[t] = n /\ item'[t] = nullptr /\ todo'[t] = {}
  BY <1>1, <1>2, <1>3, <1>4 DEF TypeOK
<1>13. CallInv(t)'
  BY <1>8, <1>12 DEF CallInv, IdleInv, FoundInv, HandleInv, OverwriteInv, CleanupInv, RenameInv,
                     ReplaceInv, MoveInv, Renaming
<1>14. ASSUME NEW m \in FileNodes
       PROVE  refCount'[m] = Indicator(Mapped(m)') + opened'[m] + cleaned'[m]
                               + HeldBy(pc'[t], todo'[t], item'[t], m) + leaked'[m]
  <2>1. HeldBy(pc'[t], todo'[t], item'[t], m) = 0
    BY <1>12 DEF HeldBy, Indicator, Renaming
  <2>2. CASE m = n
    BY <1>1, <1>2, <1>3, <1>6, <1>8, <2>1, <2>2 DEF TypeOK, Indicator, handles, history
  <2>3. CASE m # n
    <3>1. refCount[m] = Indicator(Mapped(m)) + opened[m] + cleaned[m] + 0 + leaked[m]
      BY <1>3, <1>4, <1>6, CountNow DEF Others
    <3>2. refCount'[m] = refCount[m]
      BY <1>1, <1>3, <2>3 DEF TypeOK
    <3> QED BY <1>2, <1>8, <2>1, <2>3, <3>1, <3>2 DEF Indicator, handles, history
  <2> QED BY <2>2, <2>3
<1> QED BY <1>4, <1>5, <1>9, <1>10, <1>11, <1>13, <1>14, StepAlone

LEMMA InvCreateInsertThrows ==
  ASSUME Inv, NEW t \in Threads, NEW name \in Names, NEW isDirectory,
         CreateInsertThrows(t, name, isDirectory)
  PROVE  Inv'
<1>1. PICK n \in FileNodes \ alive : NewNode(n, name, isDirectory) /\ abandoned' = abandoned \cup {n}
  BY DEF CreateInsertThrows
<1>2. /\ MayRunExclusive
      /\ UNCHANGED <<fileMap, refCount, handles, pc, locals, leaked, settled>>
  BY DEF CreateInsertThrows
<1>3. TypeOK /\ LinkInv /\ AliveInv /\ CallInv(t) /\ RefCountExact
  BY DEF Inv
<1>4. pc[t] = "idle" /\ Others(t) /\ node[t] = nullptr /\ item[t] = nullptr /\ todo[t] = {}
  BY <1>2, <1>3 DEF MayRunExclusive, Others, CallInv, IdleInv
<1>5. OthersKept(t)
  BY <1>2 DEF OthersKept, locals
<1>6. ~Mapped(n) /\ \A m : Mapped(m)' <=> Mapped(m)
  BY <1>2, FreshIsUnused DEF Mapped
<1>7. TypeOK'
  BY <1>1, <1>2, <1>3, NewNodeFacts DEF TypeOK, handles, locals
<1>8. LinkInv'
  BY <1>1, <1>2, <1>3, <1>6, NewNodeFacts DEF LinkInv, TypeOK, Mapped
<1>9. AliveInv'
  BY <1>1, <1>2, <1>3, NewNodeFacts DEF AliveInv
<1>10. CallInv(t)'
  BY <1>2, <1>4, IdleCall DEF locals
<1>11. ASSUME NEW m \in FileNodes
       PROVE  refCount'[m] = Indicator(Mapped(m)') + opened'[m] + cleaned'[m]
                               + HeldBy(pc'[t], todo'[t], item'[t], m) + leaked'[m]
  <2>1. refCount[m] = Indicator(Mapped(m)) + opened[m] + cleaned[m]
                        + HeldBy(pc[t], todo[t], item[t], m) + leaked[m]
    BY <1>3, <1>4, CountNow DEF Others
  <2> QED BY <1>2, <1>6, <2>1 DEF handles, locals, Indicator
<1> QED BY <1>4, <1>5, <1>7, <1>8, <1>9, <1>10, <1>11, StepAlone

\* Reference and the new handle, of Create and Open.
LEMMA ReferencedOne ==
  ASSUME TypeOK, AliveInv, NEW n \in FileNodes, n \in alive,
         refCount' = Referenced({n}), opened' = [opened EXCEPT ![n] = @ + 1],
         UNCHANGED <<members, cleaned>>
  PROVE  /\ refCount' \in [FileNodes -> Nat] /\ opened' \in [FileNodes -> Nat]
         /\ AliveInv'
         /\ \A m \in FileNodes : refCount'[m] = refCount[m] + Indicator(m = n)
         /\ \A m \in FileNodes : opened'[m] = opened[m] + Indicator(m = n)
<1>1. \A m \in FileNodes : refCount'[m] = refCount[m] + Indicator(m = n)
  BY DEF Referenced, Indicator
<1>2. \A m \in FileNodes : opened'[m] = opened[m] + Indicator(m = n)
  BY DEF TypeOK, Indicator
<1>3. refCount' \in [FileNodes -> Nat]
  BY DEF TypeOK, Referenced
<1>4. opened' \in [FileNodes -> Nat]
  BY DEF TypeOK
<1>5. AliveInv'
  <2> SUFFICES ASSUME NEW m \in FileNodes, refCount'[m] > 0 PROVE m \in alive'
    BY DEF AliveInv
  <2>1. alive' = alive
    BY DEF members
  <2>2. m # n => refCount'[m] = refCount[m]
    <3>1. refCount[m] \in Nat
      BY DEF TypeOK
    <3> QED BY <3>1 DEF Referenced
  <2> QED BY <2>1, <2>2 DEF AliveInv
<1> QED BY <1>1, <1>2, <1>3, <1>4, <1>5

LEMMA InvCreateReference ==
  ASSUME Inv, NEW t \in Threads, CreateReference(t)
  PROVE  Inv'
<1> DEFINE n == node[t]
<1>1. /\ pc[t] = "createReference" /\ refCount' = Referenced({n})
      /\ opened' = [opened EXCEPT ![n] = @ + 1]
      /\ UNCHANGED <<fileMap, members, cleaned, leaked, abandoned>> /\ Return(t)
  BY DEF CreateReference, ReturnExclusive
<1>2. TypeOK /\ LinkInv /\ AliveInv /\ CallInv(t) /\ RefCountExact /\ AloneInv
  BY DEF Inv
<1>3. Others(t)
  BY <1>1, <1>2, GuardedAlone DEF Guarded
<1>4. n \in FileNodes /\ Mapped(n)
  BY <1>1, <1>2 DEF CallInv, FoundInv
<1>5. \A m \in FileNodes : HeldBy(pc[t], todo[t], item[t], m) = 0
  BY <1>1 DEF HeldBy, Indicator, Renaming
<1>6. n \in alive
  BY <1>2, <1>3, <1>4, SingleReference DEF Others, AliveInv
<1> HIDE DEF n
<1>7. /\ refCount' \in [FileNodes -> Nat] /\ opened' \in [FileNodes -> Nat] /\ AliveInv'
      /\ \A m \in FileNodes : refCount'[m] = refCount[m] + Indicator(m = n)
      /\ \A m \in FileNodes : opened'[m] = opened[m] + Indicator(m = n)
  BY <1>1, <1>2, <1>4, <1>6, ReferencedOne
<1>8. /\ pc'[t] = "idle" /\ OthersKept(t) /\ CallInv(t)'
      /\ pc' \in [Threads -> Labels]
      /\ node' \in [Threads -> FileNodes \cup {nullptr}]
      /\ item' \in [Threads -> FileNodes \cup {nullptr}]
      /\ todo' \in [Threads -> SUBSET FileNodes]
      /\ oldName' \in [Threads -> Names] /\ newFileName' \in [Threads -> Names]
  BY <1>1, <1>2, Returned
<1>9. TypeOK'
  BY <1>1, <1>2, <1>7, <1>8 DEF TypeOK, members
<1>10. LinkInv'
  BY <1>1, <1>2 DEF LinkInv, members
<1>11. ASSUME NEW m \in FileNodes
       PROVE  refCount'[m] = Indicator(Mapped(m)') + opened'[m] + cleaned'[m]
                               + HeldBy(pc'[t], todo'[t], item'[t], m) + leaked'[m]
  <2>1. refCount[m] = Indicator(Mapped(m)) + opened[m] + cleaned[m] + 0 + leaked[m]
    BY <1>2, <1>3, <1>5, CountNow DEF Others
  <2>2. HeldBy(pc'[t], todo'[t], item'[t], m) = 0
    BY <1>8 DEF HeldBy, Indicator, Renaming
  <2>3. Indicator(Mapped(m)') = Indicator(Mapped(m))
    BY <1>1 DEF Mapped
  <2>4. /\ opened[m] \in Nat /\ cleaned[m] \in Nat /\ leaked[m] \in Nat
        /\ Indicator(Mapped(m)) \in Nat /\ Indicator(m = n) \in Nat
    BY <1>2 DEF TypeOK, Indicator
  <2>5. /\ refCount'[m] = refCount[m] + Indicator(m = n)
        /\ opened'[m] = opened[m] + Indicator(m = n)
        /\ cleaned'[m] = cleaned[m] /\ leaked'[m] = leaked[m]
    BY <1>1, <1>7
  <2> QED BY <2>1, <2>2, <2>3, <2>4, <2>5
<1> QED BY <1>3, <1>7, <1>8, <1>9, <1>10, <1>11, StepAlone

\* Like StepAlone, next to threads that open.
LEMMA StepShared ==
  ASSUME Inv, NEW t \in Threads, \A u \in Threads : u # t => pc[u] \in {"idle", "open"},
         OthersKept(t), pc'[t] \in {"idle", "open"},
         UNCHANGED fileMap, TypeOK', LinkInv', AliveInv', CallInv(t)',
         \A n \in FileNodes :
           refCount'[n] = Indicator(Mapped(n)') + opened'[n] + cleaned'[n]
                           + HeldBy(pc'[t], todo'[t], item'[t], n) + leaked'[n]
  PROVE  Inv'
<1>1. \A u \in Threads : pc'[u] \in {"idle", "open"}
  BY DEF OthersKept
<1>2. RefCountExact'
  BY <1>1, CountNext
<1>3. AloneInv'
  BY <1>1 DEF AloneInv, Guarded
<1>4. ASSUME NEW u \in Threads PROVE CallInv(u)'
  <2>1. CASE u = t
    BY <2>1
  <2>2. CASE u # t
    <3>1. CallInv(u)
      BY DEF Inv
    <3>2. /\ pc'[u] = pc[u] /\ node'[u] = node[u] /\ item'[u] = item[u] /\ todo'[u] = todo[u]
          /\ pc[u] \in {"idle", "open"}
      BY <2>2 DEF OthersKept
    <3>3. CASE pc[u] = "idle"
      BY <3>1, <3>2, <3>3, IdleCall DEF CallInv, IdleInv
    <3>4. CASE pc[u] = "open"
      <4>1. node[u] \in FileNodes /\ Mapped(node[u]) /\ item[u] = nullptr /\ todo[u] = {}
        BY <3>1, <3>4 DEF CallInv, FoundInv
      <4>2. Mapped(node[u])'
        BY <3>2, <4>1 DEF Mapped
      <4> QED BY <3>2, <3>4, <4>1, <4>2
              DEF CallInv, IdleInv, FoundInv, HandleInv, OverwriteInv, CleanupInv, RenameInv,
                  ReplaceInv, MoveInv, Renaming
    <3> QED BY <3>2, <3>3, <3>4
  <2> QED BY <2>1, <2>2
<1> QED BY <1>2, <1>3, <1>4 DEF Inv

LEMMA InvOpenFind ==
  ASSUME Inv, NEW t \in Threads, NEW name \in Names, OpenFind(t, name)
  PROVE  Inv'
<1>1. /\ pc[t] = "idle" /\ MayRunShared /\ Present(name)
      /\ node' = [node EXCEPT ![t] = fileMap[name]] /\ pc' = [pc EXCEPT ![t] = "open"]
      /\ UNCHANGED <<fileMap, members, refCount, handles, item, todo, oldName, newFileName, history>>
  BY DEF OpenFind, Goto
<1>2. TypeOK /\ LinkInv /\ AliveInv /\ CallInv(t) /\ RefCountExact
  BY DEF Inv
<1>3. \A u \in Threads : u # t => pc[u] \in {"idle", "open"}
  BY <1>1 DEF MayRunShared
<1>4. fileMap[name] \in FileNodes /\ name \in DOMAIN fileMap'
  BY <1>1, <1>2 DEF TypeOK, Present, Mapped
<1>5. /\ pc'[t] = "open" /\ node'[t] = fileMap[name] /\ item'[t] = nullptr /\ todo'[t] = {}
      /\ OthersKept(t)
  BY <1>1, <1>2 DEF TypeOK, CallInv, IdleInv, OthersKept
<1>6. TypeOK'
  BY <1>1, <1>2, <1>4 DEF TypeOK, Labels, members, handles, history
<1>7. LinkInv' /\ AliveInv'
  BY <1>1, <1>2 DEF LinkInv, AliveInv, members
<1>8. CallInv(t)'
  BY <1>1, <1>4, <1>5 DEF Mapped, CallInv, IdleInv, FoundInv, HandleInv, OverwriteInv, CleanupInv, RenameInv,
                    ReplaceInv, MoveInv, Renaming
<1>9. ASSUME NEW m \in FileNodes
      PROVE  refCount'[m] = Indicator(Mapped(m)') + opened'[m] + cleaned'[m]
                              + HeldBy(pc'[t], todo'[t], item'[t], m) + leaked'[m]
  <2>1. refCount[m] = Indicator(Mapped(m)) + opened[m] + cleaned[m]
                        + HeldBy(pc[t], todo[t], item[t], m) + leaked[m]
    BY <1>2, <1>3, CountNow
  <2>2. HeldBy(pc'[t], todo'[t], item'[t], m) = HeldBy(pc[t], todo[t], item[t], m)
    BY <1>1, <1>5 DEF HeldBy, Indicator, Renaming
  <2>3. Indicator(Mapped(m)') = Indicator(Mapped(m))
    BY <1>1 DEF Mapped
  <2> QED BY <1>1, <2>1, <2>2, <2>3 DEF handles, history
<1> QED BY <1>1, <1>3, <1>5, <1>6, <1>7, <1>8, <1>9, StepShared

LEMMA InvOpenReference ==
  ASSUME Inv, NEW t \in Threads, OpenReference(t)
  PROVE  Inv'
<1> DEFINE n == node[t]
<1>1. /\ pc[t] = "open" /\ refCount' = Referenced({n})
      /\ opened' = [opened EXCEPT ![n] = @ + 1]
      /\ UNCHANGED <<fileMap, members, cleaned, history>> /\ Return(t)
  BY DEF OpenReference
<1>2. TypeOK /\ LinkInv /\ AliveInv /\ CallInv(t) /\ RefCountExact /\ AloneInv
  BY DEF Inv
<1>3. \A u \in Threads : u # t => pc[u] \in {"idle", "open"}
  BY <1>1, <1>2 DEF AloneInv, Guarded
<1>4. n \in FileNodes /\ Mapped(n)
  BY <1>1, <1>2 DEF CallInv, FoundInv
<1>5. \A m \in FileNodes : HeldBy(pc[t], todo[t], item[t], m) = 0
  BY <1>1 DEF HeldBy, Indicator, Renaming
<1>6. n \in alive
  BY <1>2, <1>3, <1>4, SingleReference DEF AliveInv
<1> HIDE DEF n
<1>7. /\ refCount' \in [FileNodes -> Nat] /\ opened' \in [FileNodes -> Nat] /\ AliveInv'
      /\ \A m \in FileNodes : refCount'[m] = refCount[m] + Indicator(m = n)
      /\ \A m \in FileNodes : opened'[m] = opened[m] + Indicator(m = n)
  BY <1>1, <1>2, <1>4, <1>6, ReferencedOne
<1>8. /\ pc'[t] = "idle" /\ OthersKept(t) /\ CallInv(t)'
      /\ pc' \in [Threads -> Labels]
      /\ node' \in [Threads -> FileNodes \cup {nullptr}]
      /\ item' \in [Threads -> FileNodes \cup {nullptr}]
      /\ todo' \in [Threads -> SUBSET FileNodes]
      /\ oldName' \in [Threads -> Names] /\ newFileName' \in [Threads -> Names]
  BY <1>1, <1>2, Returned
<1>9. TypeOK'
  BY <1>1, <1>2, <1>7, <1>8 DEF TypeOK, members, history
<1>10. LinkInv'
  BY <1>1, <1>2 DEF LinkInv, members
<1>11. ASSUME NEW m \in FileNodes
       PROVE  refCount'[m] = Indicator(Mapped(m)') + opened'[m] + cleaned'[m]
                               + HeldBy(pc'[t], todo'[t], item'[t], m) + leaked'[m]
  <2>1. refCount[m] = Indicator(Mapped(m)) + opened[m] + cleaned[m] + 0 + leaked[m]
    BY <1>2, <1>3, <1>5, CountNow
  <2>2. HeldBy(pc'[t], todo'[t], item'[t], m) = 0
    BY <1>8 DEF HeldBy, Indicator, Renaming
  <2>3. Indicator(Mapped(m)') = Indicator(Mapped(m))
    BY <1>1 DEF Mapped
  <2>4. /\ opened[m] \in Nat /\ cleaned[m] \in Nat /\ leaked[m] \in Nat
        /\ Indicator(Mapped(m)) \in Nat /\ Indicator(m = n) \in Nat
    BY <1>2 DEF TypeOK, Indicator
  <2>5. /\ refCount'[m] = refCount[m] + Indicator(m = n)
        /\ opened'[m] = opened[m] + Indicator(m = n)
        /\ cleaned'[m] = cleaned[m] /\ leaked'[m] = leaked[m]
    BY <1>1, <1>7 DEF history
  <2> QED BY <2>1, <2>2, <2>3, <2>4, <2>5
<1> QED BY <1>1, <1>3, <1>7, <1>8, <1>9, <1>10, <1>11, StepShared

-----------------------------------------------------------------------------
(* Cleanup and Close outside the guard, next to any call. *)

LEMMA HeldIsNat ==
  ASSUME AloneInv, NEW n
  PROVE  Held(n) \in Nat
<1>1. CASE Threads = {}
  <2>1. /\ {t \in Threads : pc[t] \in {"overwrite", "overwriteRemove"} \cup Renaming
                              /\ n \in todo[t]} = {}
        /\ {t \in Threads : pc[t] \in {"renameRemove", "renameDereference"} /\ n = item[t]} = {}
    BY <1>1
  <2>2. Held(n) = Cardinality({}) + Cardinality({})
    BY <2>1 DEF Held
  <2> QED BY <2>2, FS_EmptySet
<1>2. CASE Threads # {}
  <2>1. PICK t \in Threads : \A u \in Threads : u # t => pc[u] \in {"idle", "open"}
    BY <1>2, SomeoneAlone
  <2> QED BY <2>1, HeldNow, HeldByOne, HeldByIsNat
<1> QED BY <1>1, <1>2

\* A step of somebody else leaves a call under way what it relies on.
LEMMA CallFrame ==
  ASSUME NEW u \in Threads, CallInv(u), NEW n \in FileNodes,
         UNCHANGED <<fileMap, pc, locals>>,
         \A m \in FileNodes : fileName'[m] = fileName[m] \/ m = n,
         fileName'[n] = fileName[n]
           \/ (~Mapped(n) /\ HeldBy(pc[u], todo[u], item[u], n) = 0),
         HandleInv(u)',
         pc[u] = "overwriteRemove" => opened'[item[u]] + cleaned'[item[u]] = 0,
         todo[u] \in SUBSET FileNodes
  PROVE  CallInv(u)'
<1>1. \A m : Mapped(m)' <=> Mapped(m)
  BY DEF Mapped
<1>2. /\ pc' = pc /\ node' = node /\ item' = item /\ todo' = todo
      /\ oldName' = oldName /\ newFileName' = newFileName /\ fileMap' = fileMap
  BY DEF locals
<1>3. IdleInv(u)' /\ FoundInv(u)' /\ CleanupInv(u)'
  BY <1>1, <1>2 DEF CallInv, IdleInv, FoundInv, CleanupInv, Mapped
<1>4. OverwriteInv(u)'
  BY <1>1, <1>2 DEF CallInv, OverwriteInv, Mapped
<1>5. \A d \in todo[u] : pc[u] \in Renaming => fileName'[d] = fileName[d]
  <2> SUFFICES ASSUME NEW d \in todo[u], pc[u] \in Renaming, fileName'[d] # fileName[d]
               PROVE  FALSE
    OBVIOUS
  <2>1. d = n
    OBVIOUS
  <2>2. HeldBy(pc[u], todo[u], item[u], n) # 0
    BY <2>1 DEF HeldBy, Indicator
  <2> QED BY <2>1, <2>2
<1>6. RenameInv(u)'
  <2>1. Unmoved(u)' = Unmoved(u) /\ Unmoved(u) \subseteq todo[u]
    BY <1>2 DEF Unmoved
  <2>2. \A d \in Unmoved(u) : pc[u] \in Renaming /\ Movable(u, d) /\ InPlace(u, d) =>
                                Movable(u, d)' /\ InPlace(u, d)'
    BY <1>1, <1>2, <1>5, <2>1 DEF Movable, InPlace, Present
  <2> QED BY <1>2, <2>1, <2>2 DEF CallInv, RenameInv
<1>7. ReplaceInv(u)'
  <2>1. pc[u] \in {"renameReference", "renameRemove"} =>
          item[u] \in FileNodes /\ Mapped(item[u]) /\ fileName[item[u]] = newFileName[u]
            /\ \A d \in todo[u] : Mapped(d)
    BY DEF CallInv, ReplaceInv
  <2>2. pc[u] \in {"renameReference", "renameRemove"} => fileName'[item[u]] = fileName[item[u]]
    BY <2>1
  <2>3. pc[u] = "renameDereference" =>
          item[u] \in FileNodes /\ ~Mapped(item[u]) /\ fileName[item[u]] = newFileName[u]
            /\ ~Present(newFileName[u])
    BY DEF CallInv, ReplaceInv
  <2>4. pc[u] = "renameDereference" => fileName'[item[u]] = fileName[item[u]]
    BY <2>3 DEF HeldBy, Indicator
  <2> QED BY <1>1, <1>2, <2>1, <2>2, <2>3, <2>4 DEF ReplaceInv, Mapped, Present
<1>8. MoveInv(u)'
  <2>1. pc[u] \in {"rename", "renameRelink", "renameRelease"} => pc[u] \in Renaming
    BY DEF Renaming
  <2>2. pc[u] = "renameRelink" => item[u] \in todo[u] /\ fileName'[item[u]] = fileName[item[u]]
    BY <1>5, <2>1 DEF CallInv, MoveInv
  <2> QED BY <1>1, <1>2, <2>2 DEF CallInv, MoveInv, Movable, Mapped
<1> QED BY <1>3, <1>4, <1>6, <1>7, <1>8 DEF CallInv

LEMMA OthersAreFrames ==
  ASSUME Inv, NEW u \in Threads
  PROVE  /\ CallInv(u) /\ todo[u] \in SUBSET FileNodes
         /\ Guarded(u) => \A v \in Threads : v # u => pc[v] \in {"idle", "open"}
BY DEF Inv, TypeOK, AloneInv, Guarded

LEMMA InvCleanup ==
  ASSUME Inv, NEW n \in FileNodes, Cleanup(n)
  PROVE  Inv'
<1>1. /\ Spare(n) > 0 /\ opened' = [opened EXCEPT ![n] = @ - 1]
      /\ cleaned' = [cleaned EXCEPT ![n] = @ + 1]
      /\ UNCHANGED <<fileMap, members, refCount, pc, locals, history>>
  BY DEF Cleanup, MayCleanUp, CleanUpHandle
<1>2. TypeOK /\ LinkInv /\ AliveInv /\ RefCountExact /\ AloneInv
  BY DEF Inv
<1>3. opened[n] \in Nat /\ cleaned[n] \in Nat
  BY <1>2 DEF TypeOK
<1>4. opened[n] > 0 /\ \A u \in Threads : Guarded(u) /\ node[u] = n => opened[n] > 1
  <2>1. CASE Threads = {}
    <3>1. {t \in Threads : node[t] = n /\ pc[t] # "open"} = {}
      BY <2>1
    <3> QED BY <1>1, <1>3, <2>1, <3>1, FS_EmptySet DEF Spare
  <2>2. CASE Threads # {}
    <3>1. PICK t \in Threads : \A u \in Threads : u # t => pc[u] \in {"idle", "open"}
      BY <1>2, <2>2, SomeoneAlone
    <3>2. Spare(n) = opened[n] - Indicator(Guarded(t) /\ node[t] = n)
      BY <1>2, <3>1, SpareFacts DEF Inv
    <3>3. \A u \in Threads : Guarded(u) => u = t
      BY <3>1 DEF Guarded
    <3>4. Indicator(Guarded(t) /\ node[t] = n) \in Nat
          /\ (Guarded(t) /\ node[t] = n => Indicator(Guarded(t) /\ node[t] = n) = 1)
      BY DEF Indicator
    <3> QED BY <1>1, <1>3, <3>2, <3>3, <3>4
  <2> QED BY <2>1, <2>2
<1>5. opened' \in [FileNodes -> Nat] /\ cleaned' \in [FileNodes -> Nat]
  BY <1>1, <1>2, <1>4 DEF TypeOK
<1>6. \A m \in FileNodes : opened'[m] + cleaned'[m] = opened[m] + cleaned[m]
  BY <1>1, <1>2 DEF TypeOK
<1>7. TypeOK'
  BY <1>1, <1>2, <1>5 DEF TypeOK, members, locals, history
<1>8. LinkInv' /\ AliveInv' /\ AloneInv'
  BY <1>1, <1>2 DEF LinkInv, AliveInv, AloneInv, Guarded, members
<1>9. RefCountExact'
  <2> SUFFICES ASSUME NEW m \in FileNodes
               PROVE  refCount'[m] = Indicator(Mapped(m)') + opened'[m] + cleaned'[m]
                                      + Held(m)' + leaked'[m]
    BY DEF RefCountExact, Indicator
  <2>1. refCount[m] = Indicator(Mapped(m)) + opened[m] + cleaned[m] + Held(m) + leaked[m]
    BY <1>2 DEF RefCountExact
  <2>2. Held(m)' = Held(m) /\ Indicator(Mapped(m)') = Indicator(Mapped(m))
    BY <1>1 DEF Held, Mapped, locals
  <2>3. /\ opened[m] \in Nat /\ cleaned[m] \in Nat /\ opened'[m] \in Nat /\ cleaned'[m] \in Nat
        /\ Indicator(Mapped(m)) \in Nat /\ Held(m) \in Nat /\ leaked[m] \in Nat
    BY <1>2, <1>5, HeldIsNat DEF TypeOK, Indicator
  <2>4. refCount'[m] = refCount[m] /\ leaked'[m] = leaked[m]
    BY <1>1 DEF history
  <2> QED BY <1>6, <2>1, <2>2, <2>3, <2>4
<1>10. ASSUME NEW u \in Threads PROVE CallInv(u)'
  <2>1. CallInv(u) /\ todo[u] \in SUBSET FileNodes
    BY OthersAreFrames
  <2>2. HandleInv(u)'
    <3>1. pc[u] \in {"overwrite", "overwriteRemove", "cleanup"} \cup Renaming => Guarded(u)
      BY DEF Guarded, Renaming
    <3> QED BY <1>1, <1>2, <1>3, <1>4, <2>1, <3>1 DEF CallInv, HandleInv, TypeOK, locals
  <2>3. pc[u] = "overwriteRemove" => opened'[item[u]] + cleaned'[item[u]] = 0
    <3>1. pc[u] = "overwriteRemove" => item[u] \in FileNodes /\ opened[item[u]] + cleaned[item[u]] = 0
      BY <2>1 DEF CallInv, OverwriteInv
    <3> QED BY <1>6, <3>1
  <2>4. fileName'[n] = fileName[n] /\ \A m \in FileNodes : fileName'[m] = fileName[m]
    BY <1>1 DEF members
  <2>5. UNCHANGED <<fileMap, pc, locals>>
    BY <1>1
  <2> QED BY <2>1, <2>2, <2>3, <2>4, <2>5, CallFrame
<1> QED BY <1>7, <1>8, <1>9, <1>10 DEF Inv

LEMMA InvClose ==
  ASSUME Inv, NEW n \in FileNodes, Close(n)
  PROVE  Inv'
<1>1. /\ cleaned[n] > 0 /\ cleaned' = [cleaned EXCEPT ![n] = @ - 1] /\ Dereference(n)
      /\ UNCHANGED <<fileMap, opened, pc, locals, history>>
  BY DEF Close
<1>2. TypeOK /\ LinkInv /\ AliveInv /\ RefCountExact /\ AloneInv
  BY DEF Inv
<1>3. cleaned' \in [FileNodes -> Nat] /\ \A m \in FileNodes : cleaned'[m] = cleaned[m] - Indicator(m = n)
  BY <1>1, <1>2 DEF TypeOK, Indicator
<1>4. \A m \in FileNodes :
        /\ refCount[m] = Indicator(Mapped(m)) + opened[m] + cleaned[m] + Held(m) + leaked[m]
        /\ opened[m] \in Nat /\ cleaned[m] \in Nat /\ Held(m) \in Nat /\ leaked[m] \in Nat
        /\ Indicator(Mapped(m)) \in Nat /\ (Mapped(m) => Indicator(Mapped(m)) = 1)
  BY <1>2, HeldIsNat DEF RefCountExact, TypeOK, Indicator
<1>5. refCount[n] > 0 /\ (refCount[n] = 1 => ~Mapped(n) /\ opened[n] = 0 /\ Held(n) = 0)
  <2>1. PICK i \in Nat, o \in Nat, c \in Nat, h \in Nat, l \in Nat :
          i = Indicator(Mapped(n)) /\ o = opened[n] /\ c = cleaned[n] /\ h = Held(n) /\ l = leaked[n]
    BY <1>4
  <2>2. refCount[n] = i + o + c + h + l /\ c > 0 /\ (Mapped(n) => i = 1)
    BY <1>1, <1>4, <2>1
  <2>3. refCount[n] > 0 /\ (refCount[n] = 1 => i = 0 /\ o = 0 /\ h = 0)
    BY <2>2
  <2> QED BY <2>1, <2>2, <2>3
<1>6. /\ alive' \in SUBSET FileNodes /\ directories' \in SUBSET FileNodes
      /\ fileName' \in [FileNodes -> Names]
      /\ mainFileNode' \in [FileNodes -> FileNodes \cup {nullptr}]
      /\ refCount' \in [FileNodes -> Nat]
      /\ \A m \in FileNodes : refCount'[m] = refCount[m] - Indicator(m = n)
      /\ AliveInv'
      /\ \A m \in FileNodes : m # n \/ refCount[n] # 1 => fileName'[m] = fileName[m]
  BY <1>1, <1>2, <1>5, DereferenceFacts
<1>7. TypeOK'
  BY <1>1, <1>2, <1>3, <1>6 DEF TypeOK, locals, history
<1>8. LinkInv' /\ AloneInv'
  <2>1. AloneInv'
    BY <1>1, <1>2 DEF AloneInv, Guarded
  <2>2. \A x \in DOMAIN fileMap : fileMap[x] \in FileNodes /\ Mapped(fileMap[x])
    BY <1>2 DEF TypeOK, Mapped
  <2>3. \A x \in DOMAIN fileMap : fileName'[fileMap[x]] = fileName[fileMap[x]]
    BY <1>5, <1>6, <2>2
  <2> QED BY <1>1, <1>2, <2>1, <2>3 DEF LinkInv
<1>9. RefCountExact'
  <2> SUFFICES ASSUME NEW m \in FileNodes
               PROVE  refCount'[m] = Indicator(Mapped(m)') + opened'[m] + cleaned'[m]
                                      + Held(m)' + leaked'[m]
    BY DEF RefCountExact, Indicator
  <2>1. Held(m)' = Held(m) /\ Indicator(Mapped(m)') = Indicator(Mapped(m))
    BY <1>1 DEF Held, Mapped, locals
  <2>2. /\ opened'[m] = opened[m] /\ leaked'[m] = leaked[m]
        /\ cleaned'[m] = cleaned[m] - Indicator(m = n)
        /\ refCount'[m] = refCount[m] - Indicator(m = n) /\ Indicator(m = n) \in Nat
    BY <1>1, <1>3, <1>6 DEF history, Indicator
  <2> QED BY <1>4, <2>1, <2>2
<1>10. ASSUME NEW u \in Threads PROVE CallInv(u)'
  <2>1. CallInv(u) /\ todo[u] \in SUBSET FileNodes
    BY OthersAreFrames
  <2>2. HandleInv(u)'
    BY <1>1, <2>1 DEF CallInv, HandleInv, locals
  <2>3. pc[u] = "overwriteRemove" => opened'[item[u]] + cleaned'[item[u]] = 0
    <3>1. pc[u] = "overwriteRemove" => item[u] \in FileNodes /\ opened[item[u]] + cleaned[item[u]] = 0
      BY <2>1 DEF CallInv, OverwriteInv
    <3>2. pc[u] = "overwriteRemove" => item[u] # n
      BY <1>1, <1>4, <3>1
    <3>3. pc[u] = "overwriteRemove" => cleaned'[item[u]] = cleaned[item[u]]
      BY <1>1, <1>2, <3>1, <3>2 DEF TypeOK
    <3> QED BY <1>1, <3>1, <3>3
  <2>4. fileName'[n] = fileName[n] \/ (~Mapped(n) /\ HeldBy(pc[u], todo[u], item[u], n) = 0)
    <3>1. CASE refCount[n] # 1
      <4>1. fileName'[n] = fileName[n]
        BY <1>6, <3>1
      <4> QED BY <4>1
    <3>2. CASE refCount[n] = 1
      <4>1. ~Mapped(n) /\ Held(n) = 0
        BY <1>5, <3>2
      <4>2. CASE Guarded(u)
        <5>1. \A v \in Threads : v # u => pc[v] \in {"idle", "open"}
          BY <4>2, OthersAreFrames
        <5>2. Held(n) = HeldBy(pc[u], todo[u], item[u], n)
          BY <5>1, HeldNow, HeldByOne
        <5> QED BY <4>1, <5>2
      <4>3. CASE ~Guarded(u)
        BY <4>1, <4>3 DEF Guarded, HeldBy, Indicator, Renaming
      <4> QED BY <4>2, <4>3
    <3> QED BY <3>1, <3>2
  <2> QED BY <1>1, <1>6, <2>1, <2>2, <2>3, <2>4, CallFrame
<1> QED BY <1>6, <1>7, <1>8, <1>9, <1>10 DEF Inv

-----------------------------------------------------------------------------
(* Overwrite. *)

LEMMA UsedIsAlive ==
  ASSUME Inv, NEW n \in FileNodes, Mapped(n) \/ opened[n] > 0 \/ cleaned[n] > 0 \/ Held(n) > 0
  PROVE  n \in alive
<1>1. PICK i \in Nat, o \in Nat, c \in Nat, h \in Nat, l \in Nat :
        i = Indicator(Mapped(n)) /\ o = opened[n] /\ c = cleaned[n] /\ h = Held(n) /\ l = leaked[n]
  BY HeldIsNat DEF Inv, TypeOK, Indicator
<1>2. refCount[n] = i + o + c + h + l /\ (Mapped(n) => i = 1)
  BY <1>1 DEF Inv, RefCountExact, Indicator
<1>3. i > 0 \/ o > 0 \/ c > 0 \/ h > 0
  BY <1>1, <1>2
<1>4. refCount[n] > 0
  BY <1>2, <1>3
<1> QED BY <1>4 DEF Inv, AliveInv

\* An exclusive call starts when nobody else runs.
LEMMA StartFacts ==
  ASSUME Inv, NEW t \in Threads, MayRunExclusive
  PROVE  /\ TypeOK /\ LinkInv /\ AliveInv /\ CallInv(t) /\ RefCountExact
         /\ pc[t] = "idle" /\ Others(t)
         /\ node[t] = nullptr /\ item[t] = nullptr /\ todo[t] = {}
         /\ \A m : HeldBy(pc[t], todo[t], item[t], m) = 0
         /\ \A m \in FileNodes :
              refCount[m] = Indicator(Mapped(m)) + opened[m] + cleaned[m] + 0 + leaked[m]
<1>1. /\ TypeOK /\ LinkInv /\ AliveInv /\ CallInv(t) /\ RefCountExact
      /\ pc[t] = "idle" /\ Others(t)
  BY DEF Inv, MayRunExclusive, Others
<1>2. node[t] = nullptr /\ item[t] = nullptr /\ todo[t] = {}
  BY <1>1 DEF CallInv, IdleInv
<1>3. \A m : HeldBy(pc[t], todo[t], item[t], m) = 0
  BY <1>1 DEF HeldBy, Indicator, Renaming
<1>4. \A m \in FileNodes :
        refCount[m] = Indicator(Mapped(m)) + opened[m] + cleaned[m] + 0 + leaked[m]
  BY <1>1, <1>3, CountNow DEF Others
<1> QED BY <1>1, <1>2, <1>3, <1>4

LEMMA GuardedFacts ==
  ASSUME Inv, NEW t \in Threads, Guarded(t)
  PROVE  /\ TypeOK /\ LinkInv /\ AliveInv /\ CallInv(t) /\ RefCountExact /\ Others(t)
         /\ \A m \in FileNodes :
              refCount[m] = Indicator(Mapped(m)) + opened[m] + cleaned[m]
                              + HeldBy(pc[t], todo[t], item[t], m) + leaked[m]
<1>1. Others(t)
  BY GuardedAlone DEF Inv
<1> QED BY <1>1, CountNow DEF Inv, Others

LEMMA ReferencedSet ==
  ASSUME TypeOK, AliveInv, NEW S \in SUBSET FileNodes, S \subseteq alive,
         refCount' = Referenced(S), UNCHANGED alive
  PROVE  /\ refCount' \in [FileNodes -> Nat]
         /\ \A m \in FileNodes : refCount'[m] = refCount[m] + Indicator(m \in S)
         /\ AliveInv'
<1>1. \A m \in FileNodes : refCount'[m] = refCount[m] + Indicator(m \in S)
  BY DEF Referenced, Indicator
<1>2. refCount' \in [FileNodes -> Nat]
  BY DEF TypeOK, Referenced
<1>3. AliveInv'
  <2> SUFFICES ASSUME NEW m \in FileNodes, refCount'[m] > 0 PROVE m \in alive'
    BY DEF AliveInv
  <2>1. refCount[m] \in Nat
    BY DEF TypeOK
  <2>2. m \notin S => refCount'[m] = refCount[m]
    BY <2>1 DEF Referenced
  <2> QED BY <2>2 DEF AliveInv
<1> QED BY <1>1, <1>2, <1>3

LEMMA EnumeratedFacts ==
  ASSUME Inv, NEW S, S \subseteq DOMAIN fileMap
  PROVE  /\ Nodes(S) \in SUBSET FileNodes
         /\ Nodes(S) \subseteq alive
         /\ \A m \in Nodes(S) : Mapped(m) /\ fileName[m] \in S
<1> SUFFICES ASSUME NEW m \in Nodes(S)
             PROVE  m \in FileNodes /\ m \in alive /\ Mapped(m) /\ fileName[m] \in S
  OBVIOUS
<1>1. PICK x \in S : m = fileMap[x]
  BY DEF Nodes
<1>2. m \in FileNodes /\ Mapped(m) /\ fileName[m] = x
  BY <1>1 DEF Inv, TypeOK, LinkInv, Mapped
<1> QED BY <1>1, <1>2, UsedIsAlive

LEMMA InvOverwriteEnumerate ==
  ASSUME Inv, NEW t \in Threads, NEW n \in alive, OverwriteEnumerate(t, n)
  PROVE  Inv'
<1>1. PICK S : S = EnumerateNamedStreams(n)
  OBVIOUS
<1>2. /\ MayRunExclusive /\ opened[n] > 0
      /\ todo' = [todo EXCEPT ![t] = S] /\ refCount' = Referenced(S)
      /\ node' = [node EXCEPT ![t] = n] /\ pc' = [pc EXCEPT ![t] = "overwrite"]
      /\ UNCHANGED <<fileMap, members, handles, item, oldName, newFileName, history>>
  BY <1>1 DEF OverwriteEnumerate, Goto
<1>3. /\ TypeOK /\ LinkInv /\ AliveInv /\ CallInv(t) /\ RefCountExact
      /\ pc[t] = "idle" /\ Others(t)
      /\ node[t] = nullptr /\ item[t] = nullptr /\ todo[t] = {}
      /\ \A m \in FileNodes :
           refCount[m] = Indicator(Mapped(m)) + opened[m] + cleaned[m] + 0 + leaked[m]
  BY <1>2, StartFacts
<1>4. n \in FileNodes
  BY <1>3 DEF TypeOK
<1>5. S \in SUBSET FileNodes /\ S \subseteq alive /\ \A m \in S : Mapped(m)
  BY <1>1, EnumeratedFacts DEF EnumerateNamedStreams
<1>6. /\ refCount' \in [FileNodes -> Nat]
      /\ \A m \in FileNodes : refCount'[m] = refCount[m] + Indicator(m \in S)
      /\ AliveInv'
  BY <1>2, <1>3, <1>5, ReferencedSet DEF members
<1>7. pc'[t] = "overwrite" /\ node'[t] = n /\ item'[t] = nullptr /\ todo'[t] = S /\ OthersKept(t)
  BY <1>2, <1>3 DEF TypeOK, OthersKept
<1>8. TypeOK'
  <2>1. pc' \in [Threads -> Labels]
    BY <1>2, <1>3 DEF TypeOK, Labels
  <2> QED BY <1>2, <1>3, <1>4, <1>5, <1>6, <2>1 DEF TypeOK, members, handles, history
<1>9. LinkInv'
  BY <1>2, <1>3 DEF LinkInv, members
<1>10. CallInv(t)'
  BY <1>2, <1>4, <1>5, <1>7
     DEF CallInv, IdleInv, FoundInv, HandleInv, OverwriteInv, CleanupInv, RenameInv, ReplaceInv,
         MoveInv, Renaming, Mapped, handles
<1>11. ASSUME NEW m \in FileNodes
       PROVE  refCount'[m] = Indicator(Mapped(m)') + opened'[m] + cleaned'[m]
                               + HeldBy(pc'[t], todo'[t], item'[t], m) + leaked'[m]
  <2>1. HeldBy(pc'[t], todo'[t], item'[t], m) = Indicator(m \in S) + 0
    BY <1>7 DEF HeldBy, Indicator
  <2>2. Indicator(Mapped(m)') = Indicator(Mapped(m))
    BY <1>2 DEF Mapped
  <2>3. /\ opened[m] \in Nat /\ cleaned[m] \in Nat /\ leaked[m] \in Nat
        /\ Indicator(Mapped(m)) \in Nat /\ Indicator(m \in S) \in Nat
    BY <1>3 DEF TypeOK, Indicator
  <2>4. /\ refCount[m] = Indicator(Mapped(m)) + opened[m] + cleaned[m] + 0 + leaked[m]
        /\ refCount'[m] = refCount[m] + Indicator(m \in S)
        /\ opened'[m] = opened[m] /\ cleaned'[m] = cleaned[m] /\ leaked'[m] = leaked[m]
    BY <1>2, <1>3, <1>6 DEF handles, history
  <2> QED BY <2>1, <2>2, <2>3, <2>4
<1> QED BY <1>3, <1>6, <1>7, <1>8, <1>9, <1>10, <1>11, StepAlone

LEMMA InvOverwriteTest ==
  ASSUME Inv, NEW t \in Threads, OverwriteTest(t)
  PROVE  Inv'
<1>1. PICK s \in todo[t] :
        IF OnlyMapAndEnumeration(s)
        THEN /\ item' = [item EXCEPT ![t] = s] /\ pc' = [pc EXCEPT ![t] = "overwriteRemove"]
             /\ UNCHANGED <<todo, leaked>>
        ELSE DropEnumerated(t, s) /\ UNCHANGED <<item, pc>>
  BY DEF OverwriteTest, Goto
<1>2. /\ pc[t] = "overwrite"
      /\ UNCHANGED <<fileMap, members, refCount, handles, node, oldName, newFileName, abandoned, settled>>
  BY DEF OverwriteTest
<1>3. /\ TypeOK /\ LinkInv /\ AliveInv /\ CallInv(t) /\ RefCountExact /\ Others(t)
      /\ \A m \in FileNodes :
           refCount[m] = Indicator(Mapped(m)) + opened[m] + cleaned[m]
                           + HeldBy(pc[t], todo[t], item[t], m) + leaked[m]
  BY <1>2, GuardedFacts DEF Guarded
<1>4. /\ s \in FileNodes /\ item[t] = nullptr /\ node[t] \in FileNodes /\ opened[node[t]] > 0
      /\ \A m \in todo[t] : Mapped(m)
  BY <1>2, <1>3 DEF TypeOK, CallInv, OverwriteInv, HandleInv
<1>5. \A m : HeldBy(pc[t], todo[t], item[t], m) = Indicator(m \in todo[t])
  BY <1>2 DEF HeldBy, Indicator
<1>6. /\ node'[t] = node[t] /\ fileMap' = fileMap /\ opened' = opened /\ cleaned' = cleaned
      /\ refCount' = refCount /\ fileName' = fileName /\ alive' = alive
  BY <1>2 DEF handles, members
<1>7. LinkInv' /\ AliveInv'
  BY <1>3, <1>6 DEF LinkInv, AliveInv
<1>8. CASE OnlyMapAndEnumeration(s)
  <2>1. /\ item' = [item EXCEPT ![t] = s] /\ pc' = [pc EXCEPT ![t] = "overwriteRemove"]
        /\ todo' = todo /\ leaked' = leaked
    BY <1>1, <1>8
  <2>2. pc'[t] = "overwriteRemove" /\ item'[t] = s /\ todo'[t] = todo[t] /\ OthersKept(t)
    BY <1>2, <1>3, <2>1 DEF TypeOK, OthersKept
  <2>3. opened[s] + cleaned[s] = 0
    <3>1. 2 >= refCount[s] /\ Indicator(s \in todo[t]) = 1 /\ Indicator(Mapped(s)) = 1
      BY <1>4, <1>8 DEF OnlyMapAndEnumeration, Indicator
    <3>2. opened[s] \in Nat /\ cleaned[s] \in Nat /\ leaked[s] \in Nat
      BY <1>3, <1>4 DEF TypeOK
    <3>3. refCount[s] = 1 + opened[s] + cleaned[s] + 1 + leaked[s]
      BY <1>3, <1>4, <1>5, <3>1
    <3> QED BY <3>1, <3>2, <3>3
  <2>4. TypeOK'
    <3>1. pc' \in [Threads -> Labels]
      BY <1>3, <2>1 DEF TypeOK, Labels
    <3> QED BY <1>2, <1>3, <1>4, <2>1, <3>1 DEF TypeOK, members, handles
  <2>5. CallInv(t)'
    BY <1>4, <1>6, <2>2, <2>3
       DEF CallInv, IdleInv, FoundInv, HandleInv, OverwriteInv, CleanupInv, RenameInv, ReplaceInv,
           MoveInv, Renaming, Mapped
  <2>6. ASSUME NEW m \in FileNodes
        PROVE  refCount'[m] = Indicator(Mapped(m)') + opened'[m] + cleaned'[m]
                                + HeldBy(pc'[t], todo'[t], item'[t], m) + leaked'[m]
    <3>1. HeldBy(pc'[t], todo'[t], item'[t], m) = HeldBy(pc[t], todo[t], item[t], m)
      BY <1>2, <2>2 DEF HeldBy, Indicator
    <3>2. Indicator(Mapped(m)') = Indicator(Mapped(m))
      BY <1>6 DEF Mapped
    <3> QED BY <1>3, <1>6, <2>1, <3>1, <3>2
  <2> QED BY <1>3, <1>7, <2>2, <2>4, <2>5, <2>6, StepAlone
<1>9. CASE ~OnlyMapAndEnumeration(s)
  <2>1. /\ todo' = [todo EXCEPT ![t] = @ \ {s}] /\ leaked' = [leaked EXCEPT ![s] = @ + 1]
        /\ item' = item /\ pc' = pc
    BY <1>1, <1>9 DEF DropEnumerated
  <2>2. pc'[t] = "overwrite" /\ item'[t] = nullptr /\ todo'[t] = todo[t] \ {s} /\ OthersKept(t)
    BY <1>2, <1>3, <1>4, <2>1 DEF TypeOK, OthersKept
  <2>3. TypeOK'
    BY <1>2, <1>3, <1>4, <2>1 DEF TypeOK, members, handles
  <2>4. CallInv(t)'
    BY <1>4, <1>6, <2>2
       DEF CallInv, IdleInv, FoundInv, HandleInv, OverwriteInv, CleanupInv, RenameInv, ReplaceInv,
           MoveInv, Renaming, Mapped
  <2>5. ASSUME NEW m \in FileNodes
        PROVE  refCount'[m] = Indicator(Mapped(m)') + opened'[m] + cleaned'[m]
                                + HeldBy(pc'[t], todo'[t], item'[t], m) + leaked'[m]
    <3>1. HeldBy(pc'[t], todo'[t], item'[t], m) = Indicator(m \in todo[t] /\ m # s)
      BY <2>2 DEF HeldBy, Indicator
    <3>2. Indicator(Mapped(m)') = Indicator(Mapped(m))
      BY <1>6 DEF Mapped
    <3>3. leaked'[m] = leaked[m] + Indicator(m = s)
      BY <1>3, <1>4, <2>1 DEF TypeOK, Indicator
    <3>4. Indicator(m \in todo[t]) = Indicator(m \in todo[t] /\ m # s) + Indicator(m = s)
      BY DEF Indicator
    <3>5. /\ opened[m] \in Nat /\ cleaned[m] \in Nat /\ leaked[m] \in Nat
          /\ Indicator(Mapped(m)) \in Nat /\ Indicator(m = s) \in Nat
          /\ Indicator(m \in todo[t] /\ m # s) \in Nat
      BY <1>3 DEF TypeOK, Indicator
    <3>6. refCount[m] = Indicator(Mapped(m)) + opened[m] + cleaned[m] + Indicator(m \in todo[t]) + leaked[m]
      BY <1>3, <1>5
    <3>7. refCount'[m] = refCount[m] /\ opened'[m] = opened[m] /\ cleaned'[m] = cleaned[m]
      BY <1>6
    <3> QED BY <3>1, <3>2, <3>3, <3>4, <3>5, <3>6, <3>7
  <2> QED BY <1>3, <1>7, <2>2, <2>3, <2>4, <2>5, StepAlone
<1> QED BY <1>8, <1>9

\* RemoveNode of a node that is mapped, as far as the counts are concerned.
LEMMA RemoveCounts ==
  ASSUME Inv, NEW n \in FileNodes, Mapped(n), RemoveNode(n)
  PROVE  /\ refCount[n] > 0
         /\ alive' \in SUBSET FileNodes /\ directories' \in SUBSET FileNodes
         /\ fileName' \in [FileNodes -> Names]
         /\ mainFileNode' \in [FileNodes -> FileNodes \cup {nullptr}]
         /\ refCount' \in [FileNodes -> Nat]
         /\ DOMAIN fileMap' \subseteq Names /\ fileMap' \in [DOMAIN fileMap' -> FileNodes]
         /\ AliveInv' /\ LinkInv'
         /\ ~Mapped(n)' /\ \A m \in FileNodes : m # n => (Mapped(m)' <=> Mapped(m))
         /\ DOMAIN fileMap' = DOMAIN fileMap \ {fileName[n]}
         /\ \A m \in FileNodes : refCount'[m] = refCount[m] - Indicator(m = n)
         /\ \A m \in FileNodes : Indicator(Mapped(m)') = Indicator(Mapped(m)) - Indicator(m = n)
         /\ \A m \in FileNodes : m # n \/ refCount[n] # 1 => fileName'[m] = fileName[m]
<1>1. refCount[n] > 0
  <2>1. PICK i \in Nat, o \in Nat, c \in Nat, h \in Nat, l \in Nat :
          i = Indicator(Mapped(n)) /\ o = opened[n] /\ c = cleaned[n] /\ h = Held(n) /\ l = leaked[n]
    BY HeldIsNat DEF Inv, TypeOK, Indicator
  <2>2. refCount[n] = i + o + c + h + l /\ i = 1
    BY <2>1 DEF Inv, RefCountExact, Indicator
  <2> QED BY <2>2
<1>2. TypeOK /\ AliveInv /\ LinkInv
  BY DEF Inv
<1>3. /\ Dereference(n)
      /\ DOMAIN fileMap' = DOMAIN fileMap \ {fileName[n]}
      /\ DOMAIN fileMap' \subseteq Names /\ fileMap' \in [DOMAIN fileMap' -> FileNodes]
      /\ ~Mapped(n)' /\ \A m \in FileNodes : m # n => (Mapped(m)' <=> Mapped(m))
      /\ LinkInv'
  BY <1>1, <1>2, RemoveFacts
<1>4. /\ alive' \in SUBSET FileNodes /\ directories' \in SUBSET FileNodes
      /\ fileName' \in [FileNodes -> Names]
      /\ mainFileNode' \in [FileNodes -> FileNodes \cup {nullptr}]
      /\ refCount' \in [FileNodes -> Nat] /\ AliveInv'
      /\ \A m \in FileNodes : refCount'[m] = refCount[m] - Indicator(m = n)
      /\ \A m \in FileNodes : m # n \/ refCount[n] # 1 => fileName'[m] = fileName[m]
  BY <1>1, <1>2, <1>3, DereferenceFacts
<1>5. \A m \in FileNodes : Indicator(Mapped(m)') = Indicator(Mapped(m)) - Indicator(m = n)
  BY <1>3 DEF Indicator
<1> QED BY <1>1, <1>3, <1>4, <1>5

LEMMA InvOverwriteRemove ==
  ASSUME Inv, NEW t \in Threads, OverwriteRemove(t)
  PROVE  Inv'
<1>1. PICK s : s = item[t]
  OBVIOUS
<1>2. /\ pc[t] = "overwriteRemove" /\ RemoveNode(s)
      /\ todo' = [todo EXCEPT ![t] = @ \ {s}] /\ leaked' = [leaked EXCEPT ![s] = @ + 1]
      /\ item' = [item EXCEPT ![t] = nullptr] /\ pc' = [pc EXCEPT ![t] = "overwrite"]
      /\ UNCHANGED <<handles, node, oldName, newFileName, abandoned, settled>>
  BY <1>1 DEF OverwriteRemove, DropEnumerated, Goto
<1>3. /\ TypeOK /\ LinkInv /\ AliveInv /\ CallInv(t) /\ RefCountExact /\ Others(t)
      /\ \A m \in FileNodes :
           refCount[m] = Indicator(Mapped(m)) + opened[m] + cleaned[m]
                           + HeldBy(pc[t], todo[t], item[t], m) + leaked[m]
  BY <1>2, GuardedFacts DEF Guarded
<1>4. /\ s \in todo[t] /\ s \in FileNodes /\ node[t] \in FileNodes /\ opened[node[t]] > 0
      /\ \A m \in todo[t] : Mapped(m)
  BY <1>1, <1>2, <1>3 DEF TypeOK, CallInv, OverwriteInv, HandleInv
<1>5. /\ alive' \in SUBSET FileNodes /\ directories' \in SUBSET FileNodes
      /\ fileName' \in [FileNodes -> Names]
      /\ mainFileNode' \in [FileNodes -> FileNodes \cup {nullptr}]
      /\ refCount' \in [FileNodes -> Nat]
      /\ DOMAIN fileMap' \subseteq Names /\ fileMap' \in [DOMAIN fileMap' -> FileNodes]
      /\ AliveInv' /\ LinkInv'
      /\ \A m \in FileNodes : m # s => (Mapped(m)' <=> Mapped(m))
      /\ \A m \in FileNodes : refCount'[m] = refCount[m] - Indicator(m = s)
      /\ \A m \in FileNodes : Indicator(Mapped(m)') = Indicator(Mapped(m)) - Indicator(m = s)
  BY <1>2, <1>4, RemoveCounts
<1>6. /\ pc'[t] = "overwrite" /\ item'[t] = nullptr /\ todo'[t] = todo[t] \ {s} /\ node'[t] = node[t]
      /\ OthersKept(t)
  BY <1>2, <1>3 DEF TypeOK, OthersKept
<1>7. TypeOK'
  <2>1. pc' \in [Threads -> Labels]
    BY <1>2, <1>3 DEF TypeOK, Labels
  <2> QED BY <1>2, <1>3, <1>4, <1>5, <2>1 DEF TypeOK, handles
<1>8. CallInv(t)'
  <2>1. \A m \in todo'[t] : Mapped(m)'
    BY <1>3, <1>4, <1>5, <1>6 DEF TypeOK
  <2> QED BY <1>2, <1>4, <1>6, <2>1
     DEF CallInv, IdleInv, FoundInv, HandleInv, OverwriteInv, CleanupInv, RenameInv, ReplaceInv,
         MoveInv, Renaming, handles, Mapped
<1>9. ASSUME NEW m \in FileNodes
      PROVE  refCount'[m] = Indicator(Mapped(m)') + opened'[m] + cleaned'[m]
                              + HeldBy(pc'[t], todo'[t], item'[t], m) + leaked'[m]
  <2>1. /\ HeldBy(pc[t], todo[t], item[t], m) = Indicator(m \in todo[t])
        /\ HeldBy(pc'[t], todo'[t], item'[t], m) = Indicator(m \in todo[t] /\ m # s)
    BY <1>2, <1>6 DEF HeldBy, Indicator
  <2>2. leaked'[m] = leaked[m] + Indicator(m = s)
    BY <1>2, <1>3, <1>4 DEF TypeOK, Indicator
  <2>3. Indicator(m \in todo[t]) = Indicator(m \in todo[t] /\ m # s) + Indicator(m = s)
    BY <1>4 DEF Indicator
  <2>4. /\ opened[m] \in Nat /\ cleaned[m] \in Nat /\ leaked[m] \in Nat
        /\ Indicator(Mapped(m)) \in Nat /\ Indicator(m = s) \in Nat
        /\ Indicator(m \in todo[t] /\ m # s) \in Nat
    BY <1>3 DEF TypeOK, Indicator
  <2>5. refCount[m] = Indicator(Mapped(m)) + opened[m] + cleaned[m] + Indicator(m \in todo[t]) + leaked[m]
    BY <1>3, <2>1
  <2>6. /\ opened'[m] = opened[m] /\ cleaned'[m] = cleaned[m]
        /\ refCount'[m] = refCount[m] - Indicator(m = s)
        /\ Indicator(Mapped(m)') = Indicator(Mapped(m)) - Indicator(m = s)
    BY <1>2, <1>5 DEF handles
  <2> QED BY <2>1, <2>2, <2>3, <2>4, <2>5, <2>6
<1> QED BY <1>3, <1>5, <1>6, <1>7, <1>8, <1>9, StepAlone

\* A call that has given back all it held returns.
LEMMA InvReturn ==
  ASSUME Inv, NEW t \in Threads, Guarded(t), Return(t), todo[t] = {},
         pc[t] \notin {"renameRemove", "renameDereference"},
         UNCHANGED <<fileMap, members, refCount, handles, leaked, abandoned>>
  PROVE  Inv'
<1>1. /\ TypeOK /\ LinkInv /\ AliveInv /\ Others(t)
      /\ \A m \in FileNodes :
           refCount[m] = Indicator(Mapped(m)) + opened[m] + cleaned[m]
                           + HeldBy(pc[t], todo[t], item[t], m) + leaked[m]
  BY GuardedFacts
<1>2. /\ pc'[t] = "idle" /\ OthersKept(t) /\ CallInv(t)'
      /\ pc' \in [Threads -> Labels]
      /\ node' \in [Threads -> FileNodes \cup {nullptr}]
      /\ item' \in [Threads -> FileNodes \cup {nullptr}]
      /\ todo' \in [Threads -> SUBSET FileNodes]
      /\ oldName' \in [Threads -> Names] /\ newFileName' \in [Threads -> Names]
  BY <1>1, Returned
<1>3. TypeOK'
  BY <1>1, <1>2 DEF TypeOK, members, handles
<1>4. LinkInv' /\ AliveInv'
  BY <1>1 DEF LinkInv, AliveInv, members
<1>5. ASSUME NEW m \in FileNodes
      PROVE  refCount'[m] = Indicator(Mapped(m)') + opened'[m] + cleaned'[m]
                              + HeldBy(pc'[t], todo'[t], item'[t], m) + leaked'[m]
  <2>1. HeldBy(pc'[t], todo'[t], item'[t], m) = 0 /\ HeldBy(pc[t], todo[t], item[t], m) = 0
    BY <1>2 DEF HeldBy, Indicator, Renaming
  <2>2. Indicator(Mapped(m)') = Indicator(Mapped(m))
    BY DEF Mapped
  <2> QED BY <1>1, <2>1, <2>2 DEF handles
<1> QED BY <1>1, <1>2, <1>3, <1>4, <1>5, StepAlone

LEMMA InvOverwriteReturn ==
  ASSUME Inv, NEW t \in Threads, OverwriteReturn(t)
  PROVE  Inv'
BY InvReturn DEF OverwriteReturn, ReturnExclusive, Guarded

-----------------------------------------------------------------------------
(* A deleting Cleanup. *)

LEMMA InvCleanupDelete ==
  ASSUME Inv, NEW t \in Threads, NEW n \in alive, CleanupDelete(t, n)
  PROVE  Inv'
<1>1. PICK S : S = EnumerateNamedStreams(n)
  OBVIOUS
<1>2. /\ MayRunExclusive /\ MayCleanUp(n) /\ Linked(n)
      /\ todo' = [todo EXCEPT ![t] = S] /\ node' = [node EXCEPT ![t] = n]
      /\ pc' = [pc EXCEPT ![t] = "cleanup"]
      /\ UNCHANGED <<fileMap, members, refCount, handles, item, oldName, newFileName, history>>
  BY <1>1 DEF CleanupDelete, Goto
<1>3. /\ TypeOK /\ LinkInv /\ AliveInv /\ CallInv(t) /\ RefCountExact
      /\ pc[t] = "idle" /\ Others(t)
      /\ node[t] = nullptr /\ item[t] = nullptr /\ todo[t] = {}
      /\ \A m \in FileNodes :
           refCount[m] = Indicator(Mapped(m)) + opened[m] + cleaned[m] + 0 + leaked[m]
  BY <1>2, StartFacts
<1>4. n \in FileNodes /\ Mapped(n)
  BY <1>2, <1>3 DEF TypeOK, Linked, Present, Mapped
<1>5. S \in SUBSET FileNodes /\ \A m \in S : Mapped(m) /\ IsStreamOf(fileName[m], fileName[n])
  BY <1>1, EnumeratedFacts DEF EnumerateNamedStreams
<1>6. n \notin S
  <2>1. fileName[n] \in Names
    BY <1>3, <1>4 DEF TypeOK
  <2>2. ~IsStreamOf(fileName[n], fileName[n])
    BY <2>1, NamePaths DEF IsStreamOf, IsStream, MainName, Name
  <2> QED BY <1>5, <2>2
<1>7. opened[n] > 0
  <2>1. Spare(n) = opened[n] - Indicator(Guarded(t) /\ node[t] = n) /\ Spare(n) > 0
    BY <1>2, <1>3, <1>4, SpareFacts DEF MayRunExclusive, MayCleanUp, Inv
  <2>2. Indicator(Guarded(t) /\ node[t] = n) = 0 /\ opened[n] \in Nat
    BY <1>3, <1>4 DEF Guarded, Indicator, TypeOK
  <2> QED BY <2>1, <2>2
<1>8. pc'[t] = "cleanup" /\ node'[t] = n /\ item'[t] = nullptr /\ todo'[t] = S /\ OthersKept(t)
  BY <1>2, <1>3 DEF TypeOK, OthersKept
<1>9. TypeOK'
  <2>1. pc' \in [Threads -> Labels]
    BY <1>2, <1>3 DEF TypeOK, Labels
  <2> QED BY <1>2, <1>3, <1>4, <1>5, <2>1 DEF TypeOK, members, handles, history
<1>10. LinkInv' /\ AliveInv'
  BY <1>2, <1>3 DEF LinkInv, AliveInv, members
<1>11. CallInv(t)'
  BY <1>2, <1>4, <1>5, <1>6, <1>7, <1>8
     DEF CallInv, IdleInv, FoundInv, HandleInv, OverwriteInv, CleanupInv, RenameInv, ReplaceInv,
         MoveInv, Renaming, Mapped, handles
<1>12. ASSUME NEW m \in FileNodes
       PROVE  refCount'[m] = Indicator(Mapped(m)') + opened'[m] + cleaned'[m]
                               + HeldBy(pc'[t], todo'[t], item'[t], m) + leaked'[m]
  <2>1. HeldBy(pc'[t], todo'[t], item'[t], m) = 0
    BY <1>8 DEF HeldBy, Indicator, Renaming
  <2>2. Indicator(Mapped(m)') = Indicator(Mapped(m))
    BY <1>2 DEF Mapped
  <2> QED BY <1>2, <1>3, <2>1, <2>2 DEF handles, history
<1> QED BY <1>3, <1>8, <1>9, <1>10, <1>11, <1>12, StepAlone

LEMMA InvCleanupRemoveStream ==
  ASSUME Inv, NEW t \in Threads, CleanupRemoveStream(t)
  PROVE  Inv'
<1>1. PICK s \in todo[t] : RemoveNode(s) /\ todo' = [todo EXCEPT ![t] = @ \ {s}]
  BY DEF CleanupRemoveStream
<1>2. pc[t] = "cleanup" /\ UNCHANGED <<handles, pc, node, item, oldName, newFileName, history>>
  BY DEF CleanupRemoveStream
<1>3. /\ TypeOK /\ LinkInv /\ AliveInv /\ CallInv(t) /\ RefCountExact /\ Others(t)
      /\ \A m \in FileNodes :
           refCount[m] = Indicator(Mapped(m)) + opened[m] + cleaned[m]
                           + HeldBy(pc[t], todo[t], item[t], m) + leaked[m]
  BY <1>2, GuardedFacts DEF Guarded
<1>4. /\ s \in FileNodes /\ node[t] \in FileNodes /\ opened[node[t]] > 0 /\ item[t] = nullptr
      /\ Mapped(node[t]) /\ node[t] \notin todo[t] /\ \A m \in todo[t] : Mapped(m)
  BY <1>2, <1>3 DEF TypeOK, CallInv, CleanupInv, HandleInv
<1>5. /\ alive' \in SUBSET FileNodes /\ directories' \in SUBSET FileNodes
      /\ fileName' \in [FileNodes -> Names]
      /\ mainFileNode' \in [FileNodes -> FileNodes \cup {nullptr}]
      /\ refCount' \in [FileNodes -> Nat]
      /\ DOMAIN fileMap' \subseteq Names /\ fileMap' \in [DOMAIN fileMap' -> FileNodes]
      /\ AliveInv' /\ LinkInv'
      /\ \A m \in FileNodes : m # s => (Mapped(m)' <=> Mapped(m))
      /\ \A m \in FileNodes : refCount'[m] = refCount[m] - Indicator(m = s)
      /\ \A m \in FileNodes : Indicator(Mapped(m)') = Indicator(Mapped(m)) - Indicator(m = s)
  BY <1>1, <1>4, RemoveCounts
<1>6. /\ pc'[t] = "cleanup" /\ item'[t] = nullptr /\ todo'[t] = todo[t] \ {s} /\ node'[t] = node[t]
      /\ OthersKept(t)
  BY <1>1, <1>2, <1>3, <1>4 DEF TypeOK, OthersKept
<1>7. TypeOK'
  BY <1>1, <1>2, <1>3, <1>4, <1>5 DEF TypeOK, handles, history
<1>8. CallInv(t)'
  <2>1. /\ \A m \in todo'[t] : Mapped(m)'
        /\ \E x \in DOMAIN fileMap' : fileMap'[x] = node[t]
    BY <1>1, <1>3, <1>4, <1>5, <1>6 DEF TypeOK, Mapped
  <2> QED BY <1>2, <1>4, <1>6, <2>1
     DEF CallInv, IdleInv, FoundInv, HandleInv, OverwriteInv, CleanupInv, RenameInv, ReplaceInv,
         MoveInv, Renaming, handles, Mapped
<1>9. ASSUME NEW m \in FileNodes
      PROVE  refCount'[m] = Indicator(Mapped(m)') + opened'[m] + cleaned'[m]
                              + HeldBy(pc'[t], todo'[t], item'[t], m) + leaked'[m]
  <2>1. HeldBy(pc[t], todo[t], item[t], m) = 0 /\ HeldBy(pc'[t], todo'[t], item'[t], m) = 0
    BY <1>2, <1>6 DEF HeldBy, Indicator, Renaming
  <2>2. /\ opened[m] \in Nat /\ cleaned[m] \in Nat /\ leaked[m] \in Nat
        /\ Indicator(Mapped(m)) \in Nat /\ Indicator(m = s) \in Nat
    BY <1>3 DEF TypeOK, Indicator
  <2>3. /\ opened'[m] = opened[m] /\ cleaned'[m] = cleaned[m] /\ leaked'[m] = leaked[m]
        /\ refCount'[m] = refCount[m] - Indicator(m = s)
        /\ Indicator(Mapped(m)') = Indicator(Mapped(m)) - Indicator(m = s)
    BY <1>2, <1>5 DEF handles, history
  <2> QED BY <1>3, <2>1, <2>2, <2>3
<1> QED BY <1>3, <1>5, <1>6, <1>7, <1>8, <1>9, StepAlone

LEMMA InvCleanupRemoveNode ==
  ASSUME Inv, NEW t \in Threads, CleanupRemoveNode(t)
  PROVE  Inv'
<1>1. PICK n : n = node[t]
  OBVIOUS
<1>2. /\ pc[t] = "cleanup" /\ todo[t] = {} /\ RemoveNode(n)
      /\ opened' = [opened EXCEPT ![n] = @ - 1] /\ cleaned' = [cleaned EXCEPT ![n] = @ + 1]
      /\ Return(t) /\ UNCHANGED <<leaked, abandoned>>
  BY <1>1 DEF CleanupRemoveNode, CleanUpHandle, ReturnExclusive
<1>3. /\ TypeOK /\ LinkInv /\ AliveInv /\ CallInv(t) /\ RefCountExact /\ Others(t)
      /\ \A m \in FileNodes :
           refCount[m] = Indicator(Mapped(m)) + opened[m] + cleaned[m]
                           + HeldBy(pc[t], todo[t], item[t], m) + leaked[m]
  BY <1>2, GuardedFacts DEF Guarded
<1>4. n \in FileNodes /\ opened[n] > 0 /\ Mapped(n)
  BY <1>1, <1>2, <1>3 DEF TypeOK, CallInv, CleanupInv, HandleInv
<1>5. /\ alive' \in SUBSET FileNodes /\ directories' \in SUBSET FileNodes
      /\ fileName' \in [FileNodes -> Names]
      /\ mainFileNode' \in [FileNodes -> FileNodes \cup {nullptr}]
      /\ refCount' \in [FileNodes -> Nat]
      /\ DOMAIN fileMap' \subseteq Names /\ fileMap' \in [DOMAIN fileMap' -> FileNodes]
      /\ AliveInv' /\ LinkInv'
      /\ \A m \in FileNodes : refCount'[m] = refCount[m] - Indicator(m = n)
      /\ \A m \in FileNodes : Indicator(Mapped(m)') = Indicator(Mapped(m)) - Indicator(m = n)
  BY <1>2, <1>4, RemoveCounts
<1>6. /\ pc'[t] = "idle" /\ OthersKept(t) /\ CallInv(t)'
      /\ pc' \in [Threads -> Labels]
      /\ node' \in [Threads -> FileNodes \cup {nullptr}]
      /\ item' \in [Threads -> FileNodes \cup {nullptr}]
      /\ todo' \in [Threads -> SUBSET FileNodes]
      /\ oldName' \in [Threads -> Names] /\ newFileName' \in [Threads -> Names]
  BY <1>2, <1>3, Returned
<1>7. opened' \in [FileNodes -> Nat] /\ cleaned' \in [FileNodes -> Nat]
  BY <1>2, <1>3, <1>4 DEF TypeOK
<1>8. TypeOK'
  BY <1>2, <1>3, <1>5, <1>6, <1>7 DEF TypeOK
<1>9. ASSUME NEW m \in FileNodes
      PROVE  refCount'[m] = Indicator(Mapped(m)') + opened'[m] + cleaned'[m]
                              + HeldBy(pc'[t], todo'[t], item'[t], m) + leaked'[m]
  <2>1. HeldBy(pc[t], todo[t], item[t], m) = 0 /\ HeldBy(pc'[t], todo'[t], item'[t], m) = 0
    BY <1>2, <1>6 DEF HeldBy, Indicator, Renaming
  <2>2. /\ opened[m] \in Nat /\ cleaned[m] \in Nat /\ leaked[m] \in Nat
        /\ Indicator(Mapped(m)) \in Nat /\ Indicator(m = n) \in Nat
    BY <1>3 DEF TypeOK, Indicator
  <2>3. opened'[m] = opened[m] - Indicator(m = n) /\ cleaned'[m] = cleaned[m] + Indicator(m = n)
    BY <1>2, <1>3, <1>4 DEF TypeOK, Indicator
  <2>4. /\ leaked'[m] = leaked[m]
        /\ refCount'[m] = refCount[m] - Indicator(m = n)
        /\ Indicator(Mapped(m)') = Indicator(Mapped(m)) - Indicator(m = n)
    BY <1>2, <1>5
  <2> QED BY <1>3, <2>1, <2>2, <2>3, <2>4
<1> QED BY <1>3, <1>5, <1>6, <1>8, <1>9, StepAlone

-----------------------------------------------------------------------------
(* Rename. *)

\* What RenameEnumerate finds.
LEMMA DescendantFacts ==
  ASSUME Inv, NEW n \in FileNodes, Linked(n), NEW S, S = EnumerateDescendants(n)
  PROVE  /\ S \in SUBSET FileNodes /\ S \subseteq alive
         /\ \A d \in S : /\ Mapped(d) /\ HasPrefix(fileName[d], fileName[n])
                         /\ d = n <=> fileName[d] = fileName[n]
<1>1. /\ S \in SUBSET FileNodes /\ S \subseteq alive
      /\ \A d \in S : Mapped(d) /\ HasPrefix(fileName[d], fileName[n])
  BY EnumeratedFacts DEF EnumerateDescendants
<1>2. ASSUME NEW d \in S, fileName[d] = fileName[n] PROVE d = n
  <2>1. Linked(d)
    BY <1>1, MappedIsLinked DEF Inv
  <2> QED BY <1>2, <2>1 DEF Linked
<1> QED BY <1>1, <1>2

LEMMA InvRenameGivesUp ==
  ASSUME Inv, NEW t \in Threads, MayRunExclusive, NEW S \in SUBSET FileNodes, S \subseteq alive,
         refCount' = Referenced(S),
         leaked' = [d \in FileNodes |-> leaked[d] + (IF d \in S THEN 1 ELSE 0)],
         UNCHANGED <<pc, locals, fileMap, members, handles, abandoned, settled>>
  PROVE  Inv'
<1>1. /\ TypeOK /\ LinkInv /\ AliveInv /\ CallInv(t) /\ RefCountExact
      /\ pc[t] = "idle" /\ Others(t)
      /\ node[t] = nullptr /\ item[t] = nullptr /\ todo[t] = {}
      /\ \A m \in FileNodes :
           refCount[m] = Indicator(Mapped(m)) + opened[m] + cleaned[m] + 0 + leaked[m]
  BY StartFacts
<1>2. /\ refCount' \in [FileNodes -> Nat]
      /\ \A m \in FileNodes : refCount'[m] = refCount[m] + Indicator(m \in S)
      /\ AliveInv'
  BY <1>1, ReferencedSet DEF members
<1>3. /\ leaked' \in [FileNodes -> Nat]
      /\ \A m \in FileNodes : leaked'[m] = leaked[m] + Indicator(m \in S)
  BY <1>1 DEF TypeOK, Indicator
<1>4. TypeOK'
  BY <1>1, <1>2, <1>3 DEF TypeOK, locals, members, handles
<1>5. LinkInv' /\ OthersKept(t)
  BY <1>1 DEF LinkInv, members, locals, OthersKept
<1>6. CallInv(t)'
  BY <1>1, IdleCall DEF locals
<1>7. ASSUME NEW m \in FileNodes
      PROVE  refCount'[m] = Indicator(Mapped(m)') + opened'[m] + cleaned'[m]
                              + HeldBy(pc'[t], todo'[t], item'[t], m) + leaked'[m]
  <2>1. HeldBy(pc'[t], todo'[t], item'[t], m) = 0
    BY <1>1 DEF HeldBy, Indicator, Renaming
  <2>2. Indicator(Mapped(m)') = Indicator(Mapped(m))
    BY DEF Mapped
  <2>3. /\ opened[m] \in Nat /\ cleaned[m] \in Nat /\ leaked[m] \in Nat
        /\ Indicator(Mapped(m)) \in Nat /\ Indicator(m \in S) \in Nat
    BY <1>1 DEF TypeOK, Indicator
  <2> QED BY <1>1, <1>2, <1>3, <2>1, <2>2, <2>3 DEF handles
<1> QED BY <1>1, <1>2, <1>4, <1>5, <1>6, <1>7, StepAlone

LEMMA InvRenameEnumerate ==
  ASSUME Inv, NEW t \in Threads, NEW n \in alive, NEW new \in Names, RenameEnumerate(t, n, new)
  PROVE  Inv'
<1>1. PICK S : S = EnumerateDescendants(n)
  OBVIOUS
<1>2. /\ MayRunExclusive /\ MayRename(n, new) /\ refCount' = Referenced(S)
      /\ UNCHANGED <<fileMap, members, handles, abandoned, settled>>
  BY <1>1 DEF RenameEnumerate
<1>3. /\ TypeOK /\ LinkInv /\ AliveInv /\ CallInv(t) /\ RefCountExact
      /\ pc[t] = "idle" /\ Others(t)
      /\ node[t] = nullptr /\ item[t] = nullptr /\ todo[t] = {}
      /\ \A m \in FileNodes :
           refCount[m] = Indicator(Mapped(m)) + opened[m] + cleaned[m] + 0 + leaked[m]
  BY <1>2, StartFacts
<1>4. /\ n \in FileNodes /\ opened[n] > 0 /\ Linked(n) /\ ~IsStream(fileName[n])
      /\ new # Root /\ ~IsStream(new)
      /\ HasPrefix(new, fileName[n]) => new = fileName[n]
  BY <1>2, <1>3 DEF TypeOK, MayRename
<1>5. /\ S \in SUBSET FileNodes /\ S \subseteq alive
      /\ \A d \in S : /\ Mapped(d) /\ HasPrefix(fileName[d], fileName[n])
                      /\ d = n <=> fileName[d] = fileName[n]
  BY <1>1, <1>4, DescendantFacts
<1>6. CASE \E d \in S : TooLong(fileName[d], n, new)
  <2>1. /\ leaked' = [d \in FileNodes |-> leaked[d] + (IF d \in S THEN 1 ELSE 0)]
        /\ UNCHANGED <<pc, locals>>
    BY <1>1, <1>6 DEF RenameEnumerate
  <2> QED BY <1>2, <1>5, <2>1, InvRenameGivesUp
<1>7. CASE ~ \E d \in S : TooLong(fileName[d], n, new)
  <2>1. /\ node' = [node EXCEPT ![t] = n] /\ todo' = [todo EXCEPT ![t] = S]
        /\ item' = [item EXCEPT ![t] = FindMainFromStream(new)]
        /\ oldName' = [oldName EXCEPT ![t] = fileName[n]]
        /\ newFileName' = [newFileName EXCEPT ![t] = new]
        /\ pc' = [pc EXCEPT ![t] = IF Present(new) THEN "renameReference" ELSE "rename"]
        /\ leaked' = leaked
    BY <1>1, <1>7 DEF RenameEnumerate, Goto
  <2>2. MainName(new) = new
    BY <1>4, MainOfFile
  <2>3. /\ Present(new) => /\ FindMainFromStream(new) \in FileNodes
                           /\ FindMainFromStream(new) = fileMap[new]
        /\ ~Present(new) => FindMainFromStream(new) = nullptr
    BY <1>3, <2>2 DEF FindMainFromStream, TypeOK, Present
  <2>4. /\ refCount' \in [FileNodes -> Nat]
        /\ \A m \in FileNodes : refCount'[m] = refCount[m] + Indicator(m \in S)
        /\ AliveInv'
    BY <1>2, <1>3, <1>5, ReferencedSet DEF members
  <2>5. /\ node'[t] = n /\ todo'[t] = S /\ item'[t] = FindMainFromStream(new)
        /\ oldName'[t] = fileName[n] /\ newFileName'[t] = new
        /\ pc'[t] = IF Present(new) THEN "renameReference" ELSE "rename"
        /\ OthersKept(t)
    BY <1>3, <2>1 DEF TypeOK, OthersKept
  <2>6. TypeOK'
    <3>1. pc' \in [Threads -> Labels]
      BY <1>3, <2>1 DEF TypeOK, Labels
    <3>2. item' \in [Threads -> FileNodes \cup {nullptr}]
      BY <1>3, <2>1, <2>3 DEF TypeOK
    <3>3. oldName' \in [Threads -> Names] /\ newFileName' \in [Threads -> Names]
      BY <1>3, <1>4, <2>1 DEF TypeOK
    <3> QED BY <1>2, <1>3, <1>4, <1>5, <2>1, <2>4, <3>1, <3>2, <3>3 DEF TypeOK, members, handles
  <2>7. LinkInv'
    BY <1>2, <1>3 DEF LinkInv, members
  <2>8. fileMap' = fileMap /\ fileName' = fileName /\ opened' = opened
    BY <1>2 DEF members, handles
  <2>9. CallInv(t)'
    <3>1. pc'[t] \in {"rename", "renameReference"}
      BY <2>5
    <3>2. IdleInv(t)' /\ FoundInv(t)' /\ HandleInv(t)' /\ OverwriteInv(t)' /\ CleanupInv(t)'
      BY <1>4, <2>5, <2>8, <3>1
         DEF IdleInv, FoundInv, HandleInv, OverwriteInv, CleanupInv, Renaming
    <3>3. RenameInv(t)'
      <4>1. Unmoved(t)' = S
        BY <2>5, <3>1 DEF Unmoved
      <4>2. \A d \in S : Movable(t, d)' /\ InPlace(t, d)'
        BY <1>5, <1>7, <2>5, <2>8 DEF Movable, InPlace, TooLong, Mapped
      <4> QED BY <1>4, <2>5, <4>1, <4>2 DEF RenameInv
    <3>4. ReplaceInv(t)'
      <4>1. CASE Present(new)
        <5>1. Mapped(item[t])' /\ fileName'[item'[t]] = newFileName'[t] /\ item'[t] \in FileNodes
          BY <1>3, <2>3, <2>5, <2>8, <4>1 DEF Mapped, LinkInv, Present
        <5>2. \A d \in S : Mapped(d)'
          BY <1>5, <2>8 DEF Mapped
        <5> QED BY <2>5, <4>1, <5>1, <5>2 DEF ReplaceInv
      <4>2. CASE ~Present(new)
        BY <2>5, <4>2 DEF ReplaceInv
      <4> QED BY <4>1, <4>2
    <3>5. MoveInv(t)'
      BY <2>3, <2>5 DEF MoveInv
    <3> QED BY <3>2, <3>3, <3>4, <3>5 DEF CallInv
  <2>10. ASSUME NEW m \in FileNodes
         PROVE  refCount'[m] = Indicator(Mapped(m)') + opened'[m] + cleaned'[m]
                                 + HeldBy(pc'[t], todo'[t], item'[t], m) + leaked'[m]
    <3>1. HeldBy(pc'[t], todo'[t], item'[t], m) = Indicator(m \in S)
      BY <2>5 DEF HeldBy, Indicator, Renaming
    <3>2. Indicator(Mapped(m)') = Indicator(Mapped(m))
      BY <2>8 DEF Mapped
    <3>3. /\ opened[m] \in Nat /\ cleaned[m] \in Nat /\ leaked[m] \in Nat
          /\ Indicator(Mapped(m)) \in Nat /\ Indicator(m \in S) \in Nat
      BY <1>3 DEF TypeOK, Indicator
    <3>4. /\ refCount[m] = Indicator(Mapped(m)) + opened[m] + cleaned[m] + 0 + leaked[m]
          /\ refCount'[m] = refCount[m] + Indicator(m \in S)
          /\ opened'[m] = opened[m] /\ cleaned'[m] = cleaned[m] /\ leaked'[m] = leaked[m]
      BY <1>2, <1>3, <2>1, <2>4 DEF handles
    <3> QED BY <3>1, <3>2, <3>3, <3>4
  <2> QED BY <1>3, <2>4, <2>5, <2>6, <2>7, <2>9, <2>10, StepAlone
<1> QED BY <1>6, <1>7

LEMMA InvRenameReference ==
  ASSUME Inv, NEW t \in Threads, RenameReference(t)
  PROVE  Inv'
<1>1. PICK d : d = item[t]
  OBVIOUS
<1>2. /\ pc[t] = "renameReference" /\ refCount' = Referenced({d})
      /\ pc' = [pc EXCEPT ![t] = "renameRemove"]
      /\ UNCHANGED <<fileMap, members, handles, locals, history>>
  BY <1>1 DEF RenameReference, Goto
<1>3. /\ TypeOK /\ LinkInv /\ AliveInv /\ CallInv(t) /\ RefCountExact /\ Others(t)
      /\ \A m \in FileNodes :
           refCount[m] = Indicator(Mapped(m)) + opened[m] + cleaned[m]
                           + HeldBy(pc[t], todo[t], item[t], m) + leaked[m]
  BY <1>2, GuardedFacts DEF Guarded
<1>4. d \in FileNodes /\ Mapped(d)
  BY <1>1, <1>2, <1>3 DEF CallInv, ReplaceInv
<1>5. {d} \in SUBSET FileNodes /\ {d} \subseteq alive
  BY <1>4, UsedIsAlive
<1>6. /\ refCount' \in [FileNodes -> Nat]
      /\ \A m \in FileNodes : refCount'[m] = refCount[m] + Indicator(m \in {d})
      /\ AliveInv'
  BY <1>2, <1>3, <1>5, ReferencedSet DEF members
<1>7. /\ pc'[t] = "renameRemove" /\ OthersKept(t) /\ fileMap' = fileMap /\ fileName' = fileName
      /\ opened' = opened /\ node' = node /\ item' = item /\ todo' = todo
      /\ oldName' = oldName /\ newFileName' = newFileName
  BY <1>2, <1>3 DEF TypeOK, OthersKept, locals, members, handles
<1>8. TypeOK'
  <2>1. pc' \in [Threads -> Labels]
    BY <1>2, <1>3 DEF TypeOK, Labels
  <2> QED BY <1>2, <1>3, <1>6, <2>1 DEF TypeOK, members, handles, locals, history
<1>9. LinkInv'
  BY <1>3, <1>7 DEF LinkInv
<1>10. CallInv(t)'
  <2>1. /\ IdleInv(t)' /\ FoundInv(t)' /\ HandleInv(t)' /\ OverwriteInv(t)' /\ CleanupInv(t)'
        /\ MoveInv(t)'
    BY <1>2, <1>3, <1>7
       DEF CallInv, IdleInv, FoundInv, HandleInv, OverwriteInv, CleanupInv, MoveInv, Renaming
  <2>2. RenameInv(t)'
    <3>1. Unmoved(t)' = Unmoved(t)
      BY <1>2, <1>7 DEF Unmoved
    <3>2. \A m \in Unmoved(t) : Movable(t, m) /\ InPlace(t, m) => Movable(t, m)' /\ InPlace(t, m)'
      BY <1>7 DEF Movable, InPlace, Mapped, Present
    <3> QED BY <1>2, <1>3, <1>7, <3>1, <3>2 DEF CallInv, RenameInv, Renaming
  <2>3. ReplaceInv(t)'
    BY <1>2, <1>3, <1>7 DEF CallInv, ReplaceInv, Mapped
  <2> QED BY <2>1, <2>2, <2>3 DEF CallInv
<1>11. ASSUME NEW m \in FileNodes
       PROVE  refCount'[m] = Indicator(Mapped(m)') + opened'[m] + cleaned'[m]
                               + HeldBy(pc'[t], todo'[t], item'[t], m) + leaked'[m]
  <2>1. /\ HeldBy(pc[t], todo[t], item[t], m) = Indicator(m \in todo[t])
        /\ HeldBy(pc'[t], todo'[t], item'[t], m) = Indicator(m \in todo[t]) + Indicator(m \in {d})
    BY <1>1, <1>2, <1>7 DEF HeldBy, Indicator, Renaming
  <2>2. Indicator(Mapped(m)') = Indicator(Mapped(m))
    BY <1>7 DEF Mapped
  <2>3. /\ opened[m] \in Nat /\ cleaned[m] \in Nat /\ leaked[m] \in Nat
        /\ Indicator(Mapped(m)) \in Nat /\ Indicator(m \in {d}) \in Nat /\ Indicator(m \in todo[t]) \in Nat
    BY <1>3 DEF TypeOK, Indicator
  <2>4. /\ refCount'[m] = refCount[m] + Indicator(m \in {d})
        /\ opened'[m] = opened[m] /\ cleaned'[m] = cleaned[m] /\ leaked'[m] = leaked[m]
    BY <1>2, <1>6 DEF handles, history
  <2> QED BY <1>3, <2>1, <2>2, <2>3, <2>4
<1> QED BY <1>3, <1>6, <1>7, <1>8, <1>9, <1>10, <1>11, StepAlone

\* A node that the call holds a reference to outlives its removal.
LEMMA RemoveHeld ==
  ASSUME Inv, NEW t \in Threads, Guarded(t), NEW n \in FileNodes, Mapped(n), RemoveNode(n),
         HeldBy(pc[t], todo[t], item[t], n) > 0
  PROVE  UNCHANGED members
<1>1. /\ TypeOK /\ LinkInv /\ AliveInv /\ RefCountExact
      /\ \A u \in Threads : u # t => pc[u] \in {"idle", "open"}
  BY GuardedFacts DEF Others
<1>2. refCount[n] > 1
  BY <1>1, SingleReference
<1>3. refCount[n] \in Nat /\ refCount[n] > 0 /\ refCount[n] # 1
  BY <1>1, <1>2 DEF TypeOK
<1>4. Dereference(n)
  BY <1>1, <1>3, RemoveFacts
<1> QED BY <1>1, <1>3, <1>4, DereferenceFacts

LEMMA InvRenameRemove ==
  ASSUME Inv, NEW t \in Threads, RenameRemove(t)
  PROVE  Inv'
<1>1. PICK d : d = item[t]
  OBVIOUS
<1>2. /\ pc[t] = "renameRemove" /\ RemoveNode(d)
      /\ pc' = [pc EXCEPT ![t] = "renameDereference"]
      /\ UNCHANGED <<handles, locals, history>>
  BY <1>1 DEF RenameRemove, Goto
<1>3. /\ TypeOK /\ LinkInv /\ AliveInv /\ CallInv(t) /\ RefCountExact /\ Others(t)
      /\ \A m \in FileNodes :
           refCount[m] = Indicator(Mapped(m)) + opened[m] + cleaned[m]
                           + HeldBy(pc[t], todo[t], item[t], m) + leaked[m]
  BY <1>2, GuardedFacts DEF Guarded
<1>4. /\ d \in FileNodes /\ Mapped(d) /\ fileName[d] = newFileName[t]
      /\ \A m \in todo[t] : Mapped(m)
  BY <1>1, <1>2, <1>3 DEF CallInv, ReplaceInv
<1>5. /\ alive' \in SUBSET FileNodes /\ directories' \in SUBSET FileNodes
      /\ fileName' \in [FileNodes -> Names]
      /\ mainFileNode' \in [FileNodes -> FileNodes \cup {nullptr}]
      /\ refCount' \in [FileNodes -> Nat]
      /\ DOMAIN fileMap' \subseteq Names /\ fileMap' \in [DOMAIN fileMap' -> FileNodes]
      /\ AliveInv' /\ LinkInv'
      /\ ~Mapped(d)' /\ \A m \in FileNodes : m # d => (Mapped(m)' <=> Mapped(m))
      /\ DOMAIN fileMap' = DOMAIN fileMap \ {fileName[d]}
      /\ \A m \in FileNodes : refCount'[m] = refCount[m] - Indicator(m = d)
      /\ \A m \in FileNodes : Indicator(Mapped(m)') = Indicator(Mapped(m)) - Indicator(m = d)
  BY <1>2, <1>4, RemoveCounts
<1>6. UNCHANGED members
  <2>1. HeldBy(pc[t], todo[t], item[t], d) > 0
    BY <1>1, <1>2 DEF HeldBy, Indicator
  <2> QED BY <1>2, <1>4, <2>1, RemoveHeld DEF Guarded
<1>7. /\ pc'[t] = "renameDereference" /\ OthersKept(t) /\ fileName' = fileName
      /\ opened' = opened /\ node' = node /\ item' = item /\ todo' = todo
      /\ oldName' = oldName /\ newFileName' = newFileName
  BY <1>2, <1>3, <1>6 DEF TypeOK, OthersKept, locals, members, handles
<1>8. TypeOK'
  <2>1. pc' \in [Threads -> Labels]
    BY <1>2, <1>3 DEF TypeOK, Labels
  <2> QED BY <1>2, <1>3, <1>5, <2>1 DEF TypeOK, handles, locals, history
<1>9. CallInv(t)'
  <2>1. /\ IdleInv(t)' /\ FoundInv(t)' /\ HandleInv(t)' /\ OverwriteInv(t)' /\ CleanupInv(t)'
        /\ MoveInv(t)'
    BY <1>2, <1>3, <1>7
       DEF CallInv, IdleInv, FoundInv, HandleInv, OverwriteInv, CleanupInv, MoveInv, Renaming
  <2>2. RenameInv(t)'
    <3>1. Unmoved(t)' = todo[t] /\ Unmoved(t) = todo[t]
      BY <1>2, <1>7 DEF Unmoved
    <3>2. /\ HasPrefix(newFileName[t], oldName[t]) => newFileName[t] = oldName[t]
          /\ \A m \in todo[t] : Movable(t, m)
      BY <1>2, <1>3, <3>1 DEF CallInv, RenameInv, Renaming
    <3>3. ASSUME NEW m \in todo[t] PROVE Movable(t, m)' /\ InPlace(t, m)'
      <4>1. Movable(t, m)'
        BY <1>7, <3>2 DEF Movable
      <4>2. CASE m = d
        <5>1. newFileName[t] = oldName[t] /\ m = node[t]
          BY <1>4, <3>2, <4>2 DEF Movable
        <5>2. ~Present(oldName[t])'
          BY <1>4, <1>5, <1>7, <5>1 DEF Present
        <5> QED BY <1>7, <4>1, <5>1, <5>2 DEF InPlace
      <4>3. CASE m # d
        <5>1. Mapped(m)'
          BY <1>3, <1>4, <1>5, <4>3 DEF TypeOK
        <5> QED BY <4>1, <5>1 DEF InPlace, Mapped
      <4> QED BY <4>2, <4>3
    <3> QED BY <1>2, <1>3, <1>7, <3>1, <3>3 DEF CallInv, RenameInv, Renaming
  <2>3. ReplaceInv(t)'
    <3>1. ~Present(newFileName[t])'
      BY <1>4, <1>5, <1>7 DEF Present
    <3>2. ~Mapped(item[t])'
      BY <1>1, <1>5, <1>7 DEF Mapped
    <3>3. item'[t] \in FileNodes /\ fileName'[item'[t]] = newFileName'[t]
      BY <1>1, <1>4, <1>7
    <3> QED BY <1>7, <3>1, <3>2, <3>3 DEF ReplaceInv
  <2> QED BY <2>1, <2>2, <2>3 DEF CallInv
<1>10. ASSUME NEW m \in FileNodes
       PROVE  refCount'[m] = Indicator(Mapped(m)') + opened'[m] + cleaned'[m]
                               + HeldBy(pc'[t], todo'[t], item'[t], m) + leaked'[m]
  <2>1. HeldBy(pc'[t], todo'[t], item'[t], m) = HeldBy(pc[t], todo[t], item[t], m)
    BY <1>2, <1>7 DEF HeldBy, Indicator, Renaming
  <2>2. /\ opened[m] \in Nat /\ cleaned[m] \in Nat /\ leaked[m] \in Nat
        /\ HeldBy(pc[t], todo[t], item[t], m) \in Nat
        /\ Indicator(Mapped(m)) \in Nat /\ Indicator(m = d) \in Nat
    BY <1>3, HeldByIsNat DEF TypeOK, Indicator
  <2>3. /\ refCount'[m] = refCount[m] - Indicator(m = d)
        /\ Indicator(Mapped(m)') = Indicator(Mapped(m)) - Indicator(m = d)
        /\ opened'[m] = opened[m] /\ cleaned'[m] = cleaned[m] /\ leaked'[m] = leaked[m]
    BY <1>2, <1>5 DEF handles, history
  <2>4. refCount[m] = Indicator(Mapped(m)) + opened[m] + cleaned[m]
                        + HeldBy(pc[t], todo[t], item[t], m) + leaked[m]
    BY <1>3
  <2> QED BY <2>1, <2>2, <2>3, <2>4
<1> QED BY <1>3, <1>5, <1>7, <1>8, <1>9, <1>10, StepAlone

LEMMA InvRenameDereference ==
  ASSUME Inv, NEW t \in Threads, RenameDereference(t)
  PROVE  Inv'
<1>1. PICK d : d = item[t]
  OBVIOUS
<1>2. /\ pc[t] = "renameDereference" /\ Dereference(d)
      /\ item' = [item EXCEPT ![t] = nullptr] /\ pc' = [pc EXCEPT ![t] = "rename"]
      /\ UNCHANGED <<fileMap, handles, node, todo, oldName, newFileName, history>>
  BY <1>1 DEF RenameDereference, Goto
<1>3. /\ TypeOK /\ LinkInv /\ AliveInv /\ CallInv(t) /\ RefCountExact /\ Others(t)
      /\ \A m \in FileNodes :
           refCount[m] = Indicator(Mapped(m)) + opened[m] + cleaned[m]
                           + HeldBy(pc[t], todo[t], item[t], m) + leaked[m]
  BY <1>2, GuardedFacts DEF Guarded
<1>4. d \in FileNodes /\ ~Mapped(d)
  BY <1>1, <1>2, <1>3 DEF CallInv, ReplaceInv
<1>5. /\ HeldBy(pc[t], todo[t], item[t], d) = 1 + Indicator(d \in todo[t])
      /\ HeldBy(pc[t], todo[t], item[t], d) > 0
  BY <1>1, <1>2 DEF HeldBy, Indicator, Renaming
<1>6. /\ refCount[d] > 0
      /\ refCount[d] = 1 => d \notin todo[t]
  <2>1. \A u \in Threads : u # t => pc[u] \in {"idle", "open"}
    BY <1>3 DEF Others
  <2>2. /\ refCount[d] > 0
        /\ refCount[d] = 1 => HeldBy(pc[t], todo[t], item[t], d) = 1
    BY <1>3, <1>4, <1>5, <2>1, SingleReference
  <2> QED BY <1>5, <2>2 DEF Indicator
<1>7. /\ alive' \in SUBSET FileNodes /\ directories' \in SUBSET FileNodes
      /\ fileName' \in [FileNodes -> Names]
      /\ mainFileNode' \in [FileNodes -> FileNodes \cup {nullptr}]
      /\ refCount' \in [FileNodes -> Nat]
      /\ \A m \in FileNodes : refCount'[m] = refCount[m] - Indicator(m = d)
      /\ AliveInv'
      /\ \A m \in FileNodes : m # d \/ refCount[d] # 1 => fileName'[m] = fileName[m]
  BY <1>2, <1>3, <1>4, <1>6, DereferenceFacts
<1>8. /\ pc'[t] = "rename" /\ item'[t] = nullptr /\ OthersKept(t) /\ fileMap' = fileMap
      /\ opened' = opened /\ node' = node /\ todo' = todo
      /\ oldName' = oldName /\ newFileName' = newFileName
  BY <1>2, <1>3 DEF TypeOK, OthersKept, handles
<1>9. TypeOK'
  <2>1. pc' \in [Threads -> Labels]
    BY <1>2, <1>3 DEF TypeOK, Labels
  <2>2. item' \in [Threads -> FileNodes \cup {nullptr}]
    BY <1>2, <1>3 DEF TypeOK
  <2> QED BY <1>2, <1>3, <1>7, <2>1, <2>2 DEF TypeOK, handles, history
<1>10. LinkInv'
  <2> SUFFICES ASSUME NEW x \in DOMAIN fileMap PROVE fileName'[fileMap[x]] = x
    BY <1>8 DEF LinkInv
  <2>1. fileMap[x] \in FileNodes /\ fileMap[x] # d /\ fileName[fileMap[x]] = x
    BY <1>3, <1>4 DEF TypeOK, LinkInv, Mapped
  <2> QED BY <1>7, <2>1
<1>11. CallInv(t)'
  <2>1. /\ IdleInv(t)' /\ FoundInv(t)' /\ HandleInv(t)' /\ OverwriteInv(t)' /\ CleanupInv(t)'
        /\ ReplaceInv(t)' /\ MoveInv(t)'
    BY <1>2, <1>3, <1>8
       DEF CallInv, IdleInv, FoundInv, HandleInv, OverwriteInv, CleanupInv, ReplaceInv, MoveInv,
           Renaming
  <2>2. RenameInv(t)'
    <3>1. Unmoved(t)' = todo[t] /\ Unmoved(t) = todo[t]
      BY <1>2, <1>8 DEF Unmoved
    <3>2. \A m \in todo[t] : fileName'[m] = fileName[m]
      BY <1>3, <1>6, <1>7 DEF TypeOK
    <3>3. \A m \in todo[t] : Movable(t, m) /\ InPlace(t, m) => Movable(t, m)' /\ InPlace(t, m)'
      BY <1>8, <3>2 DEF Movable, InPlace, Mapped, Present
    <3> QED BY <1>2, <1>3, <1>8, <3>1, <3>3 DEF CallInv, RenameInv, Renaming
  <2> QED BY <2>1, <2>2 DEF CallInv
<1>12. ASSUME NEW m \in FileNodes
       PROVE  refCount'[m] = Indicator(Mapped(m)') + opened'[m] + cleaned'[m]
                               + HeldBy(pc'[t], todo'[t], item'[t], m) + leaked'[m]
  <2>1. /\ HeldBy(pc[t], todo[t], item[t], m) = Indicator(m \in todo[t]) + Indicator(m = d)
        /\ HeldBy(pc'[t], todo'[t], item'[t], m) = Indicator(m \in todo[t])
    BY <1>1, <1>2, <1>8 DEF HeldBy, Indicator, Renaming
  <2>2. Indicator(Mapped(m)') = Indicator(Mapped(m))
    BY <1>8 DEF Mapped
  <2>3. /\ opened[m] \in Nat /\ cleaned[m] \in Nat /\ leaked[m] \in Nat
        /\ Indicator(Mapped(m)) \in Nat /\ Indicator(m = d) \in Nat /\ Indicator(m \in todo[t]) \in Nat
    BY <1>3 DEF TypeOK, Indicator
  <2>4. /\ refCount'[m] = refCount[m] - Indicator(m = d)
        /\ opened'[m] = opened[m] /\ cleaned'[m] = cleaned[m] /\ leaked'[m] = leaked[m]
    BY <1>2, <1>7 DEF handles, history
  <2>5. refCount[m] = Indicator(Mapped(m)) + opened[m] + cleaned[m]
                        + HeldBy(pc[t], todo[t], item[t], m) + leaked[m]
    BY <1>3
  <2> QED BY <2>1, <2>2, <2>3, <2>4, <2>5
<1> QED BY <1>3, <1>7, <1>8, <1>9, <1>10, <1>11, <1>12, StepAlone

\* Taking a node out of the map, whether it was still in it or not.
LEMMA UnlinkFacts ==
  ASSUME Inv, NEW t \in Threads, pc[t] = "rename", NEW d \in todo[t], RemoveNode(d)
  PROVE  /\ d \in FileNodes /\ UNCHANGED members
         /\ refCount' \in [FileNodes -> Nat] /\ AliveInv' /\ LinkInv'
         /\ DOMAIN fileMap' \subseteq Names /\ fileMap' \in [DOMAIN fileMap' -> FileNodes]
         /\ DOMAIN fileMap' \subseteq DOMAIN fileMap
         /\ ~Mapped(d)' /\ \A m \in FileNodes : m # d => (Mapped(m)' <=> Mapped(m))
         /\ \A m \in FileNodes :
              refCount'[m] - Indicator(Mapped(m)') = refCount[m] - Indicator(Mapped(m))
<1>1. /\ TypeOK /\ LinkInv /\ AliveInv /\ CallInv(t) /\ d \in FileNodes
  BY DEF Inv, TypeOK
<1>2. /\ ~IsStream(oldName[t]) /\ Movable(t, d) /\ InPlace(t, d)
  BY <1>1 DEF CallInv, RenameInv, Renaming, Unmoved
<1>3. CASE Mapped(d)
  <2>1. HeldBy(pc[t], todo[t], item[t], d) > 0
    BY DEF HeldBy, Indicator, Renaming
  <2>2. UNCHANGED members
    BY <1>1, <1>3, <2>1, RemoveHeld DEF Guarded
  <2>3. /\ refCount' \in [FileNodes -> Nat] /\ AliveInv' /\ LinkInv'
        /\ DOMAIN fileMap' \subseteq Names /\ fileMap' \in [DOMAIN fileMap' -> FileNodes]
        /\ DOMAIN fileMap' = DOMAIN fileMap \ {fileName[d]}
        /\ ~Mapped(d)' /\ \A m \in FileNodes : m # d => (Mapped(m)' <=> Mapped(m))
        /\ \A m \in FileNodes : refCount'[m] = refCount[m] - Indicator(m = d)
        /\ \A m \in FileNodes : Indicator(Mapped(m)') = Indicator(Mapped(m)) - Indicator(m = d)
    BY <1>1, <1>3, RemoveCounts
  <2>4. ASSUME NEW m \in FileNodes
        PROVE  refCount'[m] - Indicator(Mapped(m)') = refCount[m] - Indicator(Mapped(m))
    <3>1. refCount[m] \in Nat /\ Indicator(Mapped(m)) \in Nat /\ Indicator(m = d) \in Nat
      BY <1>1 DEF TypeOK, Indicator
    <3> QED BY <2>3, <3>1
  <2> QED BY <1>1, <2>2, <2>3, <2>4
<1>4. CASE ~Mapped(d)
  <2>1. ~Present(fileName[d])
    BY <1>2, <1>4 DEF InPlace, Movable
  <2>2. UNCHANGED <<fileMap, members, refCount>>
    BY <2>1 DEF RemoveNode
  <2>3. LinkInv' /\ AliveInv'
    BY <1>1, <2>2 DEF LinkInv, AliveInv, members
  <2>4. \A m : Mapped(m)' <=> Mapped(m)
    BY <2>2 DEF Mapped
  <2>5. \A m : Indicator(Mapped(m)') = Indicator(Mapped(m))
    BY <2>4 DEF Indicator
  <2> QED BY <1>1, <1>4, <2>2, <2>3, <2>4, <2>5 DEF TypeOK
<1> QED BY <1>3, <1>4

LEMMA InvRenameUnlink ==
  ASSUME Inv, NEW t \in Threads, RenameUnlink(t)
  PROVE  Inv'
<1>1. PICK d \in todo[t] : RemoveNode(d) /\ item' = [item EXCEPT ![t] = d]
  BY DEF RenameUnlink
<1>2. /\ pc[t] = "rename" /\ pc' = [pc EXCEPT ![t] = "renameRelink"]
      /\ UNCHANGED <<handles, node, todo, oldName, newFileName, history>>
  BY DEF RenameUnlink, Goto
<1>3. /\ TypeOK /\ LinkInv /\ AliveInv /\ CallInv(t) /\ RefCountExact /\ Others(t)
      /\ \A m \in FileNodes :
           refCount[m] = Indicator(Mapped(m)) + opened[m] + cleaned[m]
                           + HeldBy(pc[t], todo[t], item[t], m) + leaked[m]
  BY <1>2, GuardedFacts DEF Guarded
<1>4. /\ d \in FileNodes /\ UNCHANGED members
      /\ refCount' \in [FileNodes -> Nat] /\ AliveInv' /\ LinkInv'
      /\ DOMAIN fileMap' \subseteq Names /\ fileMap' \in [DOMAIN fileMap' -> FileNodes]
      /\ DOMAIN fileMap' \subseteq DOMAIN fileMap
      /\ ~Mapped(d)' /\ \A m \in FileNodes : m # d => (Mapped(m)' <=> Mapped(m))
      /\ \A m \in FileNodes :
           refCount'[m] - Indicator(Mapped(m)') = refCount[m] - Indicator(Mapped(m))
  BY <1>1, <1>2, UnlinkFacts
<1>5. /\ pc'[t] = "renameRelink" /\ item'[t] = d /\ OthersKept(t) /\ fileName' = fileName
      /\ opened' = opened /\ node' = node /\ todo' = todo
      /\ oldName' = oldName /\ newFileName' = newFileName
  BY <1>1, <1>2, <1>3, <1>4 DEF TypeOK, OthersKept, members, handles
<1>6. TypeOK'
  <2>1. pc' \in [Threads -> Labels]
    BY <1>2, <1>3 DEF TypeOK, Labels
  <2>2. item' \in [Threads -> FileNodes \cup {nullptr}]
    BY <1>1, <1>3, <1>4 DEF TypeOK
  <2> QED BY <1>2, <1>3, <1>4, <2>1, <2>2 DEF TypeOK, members, handles, history
<1>7. CallInv(t)'
  <2>1. /\ IdleInv(t)' /\ FoundInv(t)' /\ HandleInv(t)' /\ OverwriteInv(t)' /\ CleanupInv(t)'
        /\ ReplaceInv(t)'
    BY <1>2, <1>3, <1>5
       DEF CallInv, IdleInv, FoundInv, HandleInv, OverwriteInv, CleanupInv, ReplaceInv, Renaming
  <2>2. Unmoved(t)' = todo[t] \ {d} /\ Unmoved(t) = todo[t]
    BY <1>2, <1>5 DEF Unmoved
  <2>3. \A m \in todo[t] : Movable(t, m) /\ InPlace(t, m)
    BY <1>2, <1>3, <2>2 DEF CallInv, RenameInv, Renaming
  <2>4. \A m \in todo[t] : Movable(t, m)'
    BY <1>5, <2>3 DEF Movable
  <2>5. ASSUME NEW m \in todo[t] \ {d} PROVE InPlace(t, m)'
    <3>1. CASE Mapped(m)
      <4>1. Mapped(m)'
        BY <1>3, <1>4, <3>1 DEF TypeOK
      <4> QED BY <4>1 DEF InPlace, Mapped
    <3>2. CASE ~Mapped(m)
      BY <1>4, <1>5, <2>3, <3>2 DEF InPlace, Present
    <3> QED BY <3>1, <3>2
  <2>6. RenameInv(t)'
    BY <1>2, <1>3, <1>5, <2>2, <2>4, <2>5 DEF CallInv, RenameInv, Renaming
  <2>7. MoveInv(t)'
    <3>1. ~Mapped(item[t])'
      BY <1>4, <1>5 DEF Mapped
    <3>2. Movable(t, item[t])'
      BY <1>5, <2>4 DEF Movable
    <3> QED BY <1>5, <3>1, <3>2 DEF MoveInv
  <2> QED BY <2>1, <2>6, <2>7 DEF CallInv
<1>8. ASSUME NEW m \in FileNodes
      PROVE  refCount'[m] = Indicator(Mapped(m)') + opened'[m] + cleaned'[m]
                              + HeldBy(pc'[t], todo'[t], item'[t], m) + leaked'[m]
  <2>1. HeldBy(pc'[t], todo'[t], item'[t], m) = HeldBy(pc[t], todo[t], item[t], m)
    BY <1>2, <1>5 DEF HeldBy, Indicator, Renaming
  <2>2. /\ opened[m] \in Nat /\ cleaned[m] \in Nat /\ leaked[m] \in Nat
        /\ HeldBy(pc[t], todo[t], item[t], m) \in Nat
        /\ Indicator(Mapped(m)) \in Nat /\ Indicator(Mapped(m)') \in Nat
    BY <1>3, HeldByIsNat DEF TypeOK, Indicator
  <2>3. /\ refCount'[m] - Indicator(Mapped(m)') = refCount[m] - Indicator(Mapped(m))
        /\ refCount'[m] \in Nat
        /\ opened'[m] = opened[m] /\ cleaned'[m] = cleaned[m] /\ leaked'[m] = leaked[m]
    BY <1>2, <1>4 DEF handles, history
  <2>4. refCount[m] = Indicator(Mapped(m)) + opened[m] + cleaned[m]
                        + HeldBy(pc[t], todo[t], item[t], m) + leaked[m]
    BY <1>3
  <2> QED BY <2>1, <2>2, <2>3, <2>4
<1> QED BY <1>3, <1>4, <1>5, <1>6, <1>7, <1>8, StepAlone

LEMMA InvRenameRelease ==
  ASSUME Inv, NEW t \in Threads, RenameRelease(t)
  PROVE  Inv'
<1>1. PICK d : d = item[t]
  OBVIOUS
<1>2. /\ pc[t] = "renameRelease" /\ Dereference(d)
      /\ item' = [item EXCEPT ![t] = nullptr] /\ pc' = [pc EXCEPT ![t] = "rename"]
      /\ todo' = [todo EXCEPT ![t] = @ \ {d}]
      /\ UNCHANGED <<fileMap, handles, node, oldName, newFileName, history>>
  BY <1>1 DEF RenameRelease, Goto
<1>3. /\ TypeOK /\ LinkInv /\ AliveInv /\ CallInv(t) /\ RefCountExact /\ Others(t)
      /\ \A m \in FileNodes :
           refCount[m] = Indicator(Mapped(m)) + opened[m] + cleaned[m]
                           + HeldBy(pc[t], todo[t], item[t], m) + leaked[m]
  BY <1>2, GuardedFacts DEF Guarded
<1>4. d \in FileNodes /\ d \in todo[t]
  BY <1>1, <1>2, <1>3 DEF CallInv, MoveInv, TypeOK
<1>5. /\ HeldBy(pc[t], todo[t], item[t], d) = 1
      /\ HeldBy(pc[t], todo[t], item[t], d) > 0
  BY <1>2, <1>4 DEF HeldBy, Indicator, Renaming
<1>6. refCount[d] > 0 /\ (refCount[d] = 1 => ~Mapped(d))
  <2>1. \A u \in Threads : u # t => pc[u] \in {"idle", "open"}
    BY <1>3 DEF Others
  <2> QED BY <1>3, <1>4, <1>5, <2>1, SingleReference
<1>7. /\ alive' \in SUBSET FileNodes /\ directories' \in SUBSET FileNodes
      /\ fileName' \in [FileNodes -> Names]
      /\ mainFileNode' \in [FileNodes -> FileNodes \cup {nullptr}]
      /\ refCount' \in [FileNodes -> Nat]
      /\ \A m \in FileNodes : refCount'[m] = refCount[m] - Indicator(m = d)
      /\ AliveInv'
      /\ \A m \in FileNodes : m # d \/ refCount[d] # 1 => fileName'[m] = fileName[m]
  BY <1>2, <1>3, <1>4, <1>6, DereferenceFacts
<1>8. /\ pc'[t] = "rename" /\ item'[t] = nullptr /\ OthersKept(t) /\ fileMap' = fileMap
      /\ todo'[t] = todo[t] \ {d} /\ opened' = opened /\ node' = node
      /\ oldName' = oldName /\ newFileName' = newFileName
  BY <1>2, <1>3 DEF TypeOK, OthersKept, handles
<1>9. TypeOK'
  <2>1. pc' \in [Threads -> Labels]
    BY <1>2, <1>3 DEF TypeOK, Labels
  <2>2. item' \in [Threads -> FileNodes \cup {nullptr}]
    BY <1>2, <1>3 DEF TypeOK
  <2>3. todo' \in [Threads -> SUBSET FileNodes]
    BY <1>2, <1>3 DEF TypeOK
  <2> QED BY <1>2, <1>3, <1>7, <2>1, <2>2, <2>3 DEF TypeOK, handles, history
<1>10. LinkInv'
  <2> SUFFICES ASSUME NEW x \in DOMAIN fileMap PROVE fileName'[fileMap[x]] = x
    BY <1>8 DEF LinkInv
  <2>1. fileMap[x] \in FileNodes /\ fileName[fileMap[x]] = x
    BY <1>3 DEF TypeOK, LinkInv
  <2>2. refCount[d] = 1 => fileMap[x] # d
    BY <1>6 DEF Mapped
  <2> QED BY <1>7, <2>1, <2>2
<1>11. CallInv(t)'
  <2>1. /\ IdleInv(t)' /\ FoundInv(t)' /\ HandleInv(t)' /\ OverwriteInv(t)' /\ CleanupInv(t)'
        /\ ReplaceInv(t)' /\ MoveInv(t)'
    BY <1>2, <1>3, <1>8
       DEF CallInv, IdleInv, FoundInv, HandleInv, OverwriteInv, CleanupInv, ReplaceInv, MoveInv,
           Renaming
  <2>2. RenameInv(t)'
    <3>1. Unmoved(t)' = todo[t] \ {d} /\ Unmoved(t) = todo[t] \ {d}
      BY <1>1, <1>2, <1>8 DEF Unmoved
    <3>2. \A m \in todo[t] \ {d} : fileName'[m] = fileName[m]
      BY <1>3, <1>7 DEF TypeOK
    <3>3. \A m \in todo[t] \ {d} :
            Movable(t, m) /\ InPlace(t, m) => Movable(t, m)' /\ InPlace(t, m)'
      BY <1>8, <3>2 DEF Movable, InPlace, Mapped, Present
    <3> QED BY <1>2, <1>3, <1>8, <3>1, <3>3 DEF CallInv, RenameInv, Renaming
  <2> QED BY <2>1, <2>2 DEF CallInv
<1>12. ASSUME NEW m \in FileNodes
       PROVE  refCount'[m] = Indicator(Mapped(m)') + opened'[m] + cleaned'[m]
                               + HeldBy(pc'[t], todo'[t], item'[t], m) + leaked'[m]
  <2>1. /\ HeldBy(pc[t], todo[t], item[t], m) = Indicator(m \in todo[t])
        /\ HeldBy(pc'[t], todo'[t], item'[t], m) = Indicator(m \in todo[t] /\ m # d)
    BY <1>1, <1>2, <1>8 DEF HeldBy, Indicator, Renaming
  <2>2. Indicator(Mapped(m)') = Indicator(Mapped(m))
    BY <1>8 DEF Mapped
  <2>3. Indicator(m \in todo[t]) = Indicator(m \in todo[t] /\ m # d) + Indicator(m = d)
    BY <1>4 DEF Indicator
  <2>4. /\ opened[m] \in Nat /\ cleaned[m] \in Nat /\ leaked[m] \in Nat
        /\ Indicator(Mapped(m)) \in Nat /\ Indicator(m = d) \in Nat
        /\ Indicator(m \in todo[t] /\ m # d) \in Nat
    BY <1>3 DEF TypeOK, Indicator
  <2>5. /\ refCount'[m] = refCount[m] - Indicator(m = d)
        /\ opened'[m] = opened[m] /\ cleaned'[m] = cleaned[m] /\ leaked'[m] = leaked[m]
    BY <1>2, <1>7 DEF handles, history
  <2>6. refCount[m] = Indicator(Mapped(m)) + opened[m] + cleaned[m]
                        + Indicator(m \in todo[t]) + leaked[m]
    BY <1>3, <2>1
  <2> QED BY <2>1, <2>2, <2>3, <2>4, <2>5, <2>6
<1> QED BY <1>3, <1>7, <1>8, <1>9, <1>10, <1>11, <1>12, StepAlone

LEMMA InvRenameReturn ==
  ASSUME Inv, NEW t \in Threads, RenameReturn(t)
  PROVE  Inv'
BY InvReturn DEF RenameReturn, ReturnExclusive, Guarded

\* Putting the node into the map under its new name, if that is free.
LEMMA RelinkFacts ==
  ASSUME Inv, NEW t \in Threads, NEW d \in FileNodes, NEW name \in Names,
         ~Mapped(d), HeldBy(pc[t], todo[t], item[t], d) > 0, Others(t),
         fileName' = [fileName EXCEPT ![d] = name],
         fileMap' = Emplaced(name, d),
         refCount' = IF Present(name) THEN refCount ELSE Referenced({d}),
         UNCHANGED alive
  PROVE  /\ refCount' \in [FileNodes -> Nat] /\ AliveInv' /\ LinkInv'
         /\ DOMAIN fileMap' \subseteq Names /\ fileMap' \in [DOMAIN fileMap' -> FileNodes]
         /\ DOMAIN fileMap' = DOMAIN fileMap \cup {name}
         /\ \A m \in FileNodes : Mapped(m) => Mapped(m)'
         /\ \A m \in FileNodes :
              refCount'[m] - Indicator(Mapped(m)') = refCount[m] - Indicator(Mapped(m))
<1>1. /\ TypeOK /\ LinkInv /\ AliveInv /\ RefCountExact
      /\ \A u \in Threads : u # t => pc[u] \in {"idle", "open"}
  BY DEF Inv, Others
<1>2. {d} \in SUBSET FileNodes /\ {d} \subseteq alive
  <2>1. refCount[d] > 0
    BY <1>1, SingleReference
  <2> QED BY <1>1, <2>1 DEF AliveInv
<1>3. /\ DOMAIN fileMap' = DOMAIN fileMap \cup {name}
      /\ \A x \in DOMAIN fileMap : fileMap'[x] = fileMap[x] /\ fileMap[x] \in FileNodes
      /\ name \notin DOMAIN fileMap => fileMap'[name] = d
      /\ fileMap' \in [DOMAIN fileMap' -> FileNodes]
  BY <1>1 DEF Emplaced, TypeOK
<1>4. LinkInv'
  <2> SUFFICES ASSUME NEW x \in DOMAIN fileMap' PROVE fileName'[fileMap'[x]] = x
    BY DEF LinkInv
  <2>1. CASE x \in DOMAIN fileMap
    <3>1. fileMap[x] \in FileNodes /\ fileMap[x] # d /\ fileName[fileMap[x]] = x
      BY <1>1, <1>3, <2>1 DEF Mapped, LinkInv
    <3> QED BY <1>1, <1>3, <2>1, <3>1 DEF TypeOK
  <2>2. CASE x \notin DOMAIN fileMap
    BY <1>1, <1>3, <2>2 DEF TypeOK
  <2> QED BY <2>1, <2>2
<1>5. \A m \in FileNodes : Mapped(m) => Mapped(m)'
  BY <1>3 DEF Mapped
<1>6. CASE Present(name)
  <2>1. \A m : Mapped(m)' <=> Mapped(m)
    BY <1>3, <1>6 DEF Mapped, Present
  <2>2. \A m : Indicator(Mapped(m)') = Indicator(Mapped(m))
    BY <2>1 DEF Indicator
  <2>3. AliveInv'
    BY <1>1, <1>6 DEF AliveInv
  <2> QED BY <1>1, <1>3, <1>4, <1>5, <1>6, <2>2, <2>3 DEF TypeOK
<1>7. CASE ~Present(name)
  <2>1. \A m \in FileNodes : Mapped(m)' <=> (Mapped(m) \/ m = d)
    BY <1>3, <1>7 DEF Mapped, Present
  <2>2. \A m \in FileNodes : Indicator(Mapped(m)') = Indicator(Mapped(m)) + Indicator(m = d)
    BY <2>1 DEF Indicator
  <2>3. /\ refCount' \in [FileNodes -> Nat]
        /\ \A m \in FileNodes : refCount'[m] = refCount[m] + Indicator(m \in {d})
        /\ AliveInv'
    BY <1>1, <1>2, <1>7, ReferencedSet
  <2>4. ASSUME NEW m \in FileNodes
        PROVE  refCount'[m] - Indicator(Mapped(m)') = refCount[m] - Indicator(Mapped(m))
    <3>1. refCount[m] \in Nat /\ Indicator(Mapped(m)) \in Nat /\ Indicator(m = d) \in Nat
      BY <1>1 DEF TypeOK, Indicator
    <3>2. /\ Indicator(Mapped(m)') = Indicator(Mapped(m)) + Indicator(m = d)
          /\ refCount'[m] = refCount[m] + Indicator(m = d)
      BY <2>2, <2>3 DEF Indicator
    <3> QED BY <3>1, <3>2
  <2> QED BY <1>1, <1>3, <1>4, <1>5, <2>3, <2>4 DEF TypeOK
<1> QED BY <1>6, <1>7

LEMMA InvRenameRelink ==
  ASSUME Inv, NEW t \in Threads, RenameRelink(t)
  PROVE  Inv'
<1>1. PICK d, old, new : d = item[t] /\ old = oldName[t] /\ new = newFileName[t]
  OBVIOUS
<1>2. PICK name : name = Renamed(fileName[d], old, new)
  OBVIOUS
<1>3. /\ pc[t] = "renameRelink" /\ fileName' = [fileName EXCEPT ![d] = name]
      /\ fileMap' = Emplaced(name, d)
      /\ refCount' = (IF Present(name) THEN refCount ELSE Referenced({d}))
      /\ pc' = [pc EXCEPT ![t] = "renameRelease"]
      /\ UNCHANGED <<alive, mainFileNode, directories, handles, locals, history>>
  BY <1>1, <1>2 DEF RenameRelink, Goto
<1>4. /\ TypeOK /\ LinkInv /\ AliveInv /\ CallInv(t) /\ RefCountExact /\ Others(t)
      /\ \A m \in FileNodes :
           refCount[m] = Indicator(Mapped(m)) + opened[m] + cleaned[m]
                           + HeldBy(pc[t], todo[t], item[t], m) + leaked[m]
  BY <1>3, GuardedFacts DEF Guarded
<1>5. /\ d \in FileNodes /\ d \in todo[t] /\ ~Mapped(d) /\ Movable(t, d)
      /\ fileName[d] \in Names /\ old \in Names /\ new \in Names
  BY <1>1, <1>3, <1>4 DEF CallInv, MoveInv, TypeOK
<1>6. /\ ~IsStream(old) /\ new # Root /\ Unmoved(t) = todo[t] \ {d}
      /\ \A m \in todo[t] \ {d} : Movable(t, m) /\ InPlace(t, m)
  BY <1>1, <1>3, <1>4 DEF CallInv, RenameInv, Renaming, Unmoved
<1>7. name \in Names
  <2>1. PICK x \in Names : x = fileName[d]
    BY <1>5
  <2>2. HasPrefix(x, old) /\ ~(Len(Renamed(x, old, new).path) > MAX_PATH)
    BY <1>1, <1>5, <2>1 DEF Movable
  <2> QED BY <1>2, <1>5, <1>6, <2>1, <2>2, RenamedIsName
<1>8. /\ refCount' \in [FileNodes -> Nat] /\ AliveInv' /\ LinkInv'
      /\ DOMAIN fileMap' \subseteq Names /\ fileMap' \in [DOMAIN fileMap' -> FileNodes]
      /\ DOMAIN fileMap' = DOMAIN fileMap \cup {name}
      /\ \A m \in FileNodes : Mapped(m) => Mapped(m)'
      /\ \A m \in FileNodes :
           refCount'[m] - Indicator(Mapped(m)') = refCount[m] - Indicator(Mapped(m))
  <2>1. HeldBy(pc[t], todo[t], item[t], d) > 0
    BY <1>3, <1>5 DEF HeldBy, Indicator, Renaming
  <2> QED BY <1>3, <1>4, <1>5, <1>7, <2>1, RelinkFacts
<1>9. /\ pc'[t] = "renameRelease" /\ OthersKept(t)
      /\ \A m \in FileNodes : m # d => fileName'[m] = fileName[m]
      /\ opened' = opened /\ node' = node /\ item' = item /\ todo' = todo
      /\ oldName' = oldName /\ newFileName' = newFileName
  BY <1>3, <1>4 DEF TypeOK, OthersKept, locals, handles
<1>10. TypeOK'
  <2>1. pc' \in [Threads -> Labels]
    BY <1>3, <1>4 DEF TypeOK, Labels
  <2>2. fileName' \in [FileNodes -> Names]
    BY <1>3, <1>4, <1>7 DEF TypeOK
  <2> QED BY <1>3, <1>4, <1>8, <2>1, <2>2 DEF TypeOK, handles, locals, history
<1>11. CallInv(t)'
  <2>1. /\ IdleInv(t)' /\ FoundInv(t)' /\ HandleInv(t)' /\ OverwriteInv(t)' /\ CleanupInv(t)'
        /\ ReplaceInv(t)'
    BY <1>3, <1>4, <1>9
       DEF CallInv, IdleInv, FoundInv, HandleInv, OverwriteInv, CleanupInv, ReplaceInv, Renaming
  <2>2. Unmoved(t)' = todo[t] \ {d}
    BY <1>1, <1>9 DEF Unmoved
  <2>3. ASSUME NEW m \in todo[t] \ {d} PROVE Movable(t, m)' /\ InPlace(t, m)'
    <3>1. m \in FileNodes /\ fileName'[m] = fileName[m]
      BY <1>4, <1>9 DEF TypeOK
    <3>2. Movable(t, m)'
      BY <1>6, <1>9, <3>1 DEF Movable
    <3>3. CASE Mapped(m)
      <4>1. Mapped(m)'
        BY <1>8, <3>1, <3>3
      <4> QED BY <3>2, <4>1 DEF InPlace, Mapped
    <3>4. CASE ~Mapped(m)
      <4>1. m = node[t] /\ new = old /\ ~Present(old)
        BY <1>1, <1>6, <3>4 DEF InPlace
      <4>2. fileName[d] # old /\ HasPrefix(fileName[d], old)
        BY <1>1, <1>5, <4>1 DEF Movable
      <4>3. name = fileName[d]
        <5>1. PICK x \in Names : x = fileName[d]
          BY <1>5
        <5> QED BY <1>2, <1>5, <1>6, <4>1, <4>2, <5>1, RenamedToItself
      <4>4. ~Present(oldName[t])'
        BY <1>1, <1>8, <1>9, <4>1, <4>2, <4>3 DEF Present
      <4> QED BY <1>1, <1>9, <3>2, <4>1, <4>4 DEF InPlace, Mapped, Present
    <3> QED BY <3>2, <3>3, <3>4
  <2>4. RenameInv(t)'
    BY <1>3, <1>4, <1>9, <2>2, <2>3 DEF CallInv, RenameInv, Renaming
  <2>5. MoveInv(t)'
    BY <1>1, <1>5, <1>9 DEF MoveInv
  <2> QED BY <2>1, <2>4, <2>5 DEF CallInv
<1>12. ASSUME NEW m \in FileNodes
       PROVE  refCount'[m] = Indicator(Mapped(m)') + opened'[m] + cleaned'[m]
                               + HeldBy(pc'[t], todo'[t], item'[t], m) + leaked'[m]
  <2>1. HeldBy(pc'[t], todo'[t], item'[t], m) = HeldBy(pc[t], todo[t], item[t], m)
    BY <1>3, <1>9 DEF HeldBy, Indicator, Renaming
  <2>2. /\ opened[m] \in Nat /\ cleaned[m] \in Nat /\ leaked[m] \in Nat
        /\ HeldBy(pc[t], todo[t], item[t], m) \in Nat
        /\ Indicator(Mapped(m)) \in Nat /\ Indicator(Mapped(m)') \in Nat
    BY <1>4, HeldByIsNat DEF TypeOK, Indicator
  <2>3. /\ refCount'[m] - Indicator(Mapped(m)') = refCount[m] - Indicator(Mapped(m))
        /\ refCount'[m] \in Nat
        /\ opened'[m] = opened[m] /\ cleaned'[m] = cleaned[m] /\ leaked'[m] = leaked[m]
    BY <1>3, <1>8 DEF handles, history
  <2>4. refCount[m] = Indicator(Mapped(m)) + opened[m] + cleaned[m]
                        + HeldBy(pc[t], todo[t], item[t], m) + leaked[m]
    BY <1>4
  <2> QED BY <2>1, <2>2, <2>3, <2>4
<1> QED BY <1>4, <1>8, <1>9, <1>10, <1>11, <1>12, StepAlone

-----------------------------------------------------------------------------
(* The theorems. *)

LEMMA InvNext ==
  ASSUME Inv, [Next]_vars
  PROVE  Inv'
<1>1. CASE UNCHANGED vars
  <2>1. TypeOK' /\ AloneInv' /\ LinkInv' /\ AliveInv'
    BY <1>1
       DEF vars, members, handles, locals, history, Inv, TypeOK, AloneInv, LinkInv, AliveInv, Guarded
  <2>2. RefCountExact'
    BY <1>1
       DEF vars, members, handles, locals, history, Inv, RefCountExact, Mapped, Held
  <2>3. ASSUME NEW u \in Threads PROVE CallInv(u)'
    <3>1. CallInv(u)
      BY DEF Inv
    <3>2. IdleInv(u)' /\ FoundInv(u)' /\ HandleInv(u)' /\ OverwriteInv(u)' /\ CleanupInv(u)'
      BY <1>1, <3>1
         DEF vars, members, handles, locals, CallInv, IdleInv, FoundInv, HandleInv, OverwriteInv,
             CleanupInv, Mapped
    <3>3. RenameInv(u)' /\ ReplaceInv(u)' /\ MoveInv(u)'
      BY <1>1, <3>1
         DEF vars, members, handles, locals, CallInv, RenameInv, ReplaceInv, MoveInv, Mapped,
             Movable, InPlace, Unmoved, Present
    <3> QED BY <3>2, <3>3 DEF CallInv
  <2> QED BY <2>1, <2>2, <2>3 DEF Inv
<1>2. ASSUME NEW t \in Threads, Exclusive(t) PROVE Inv'
  <2>1. ASSUME NEW name \in Names, NEW isDirectory \in BOOLEAN,
               CreateInsert(t, name, isDirectory) \/ CreateInsertThrows(t, name, isDirectory)
        PROVE  Inv'
    BY <2>1, InvCreateInsert, InvCreateInsertThrows
  <2>2. CASE CreateReference(t)
    BY <2>2, InvCreateReference
  <2>3. ASSUME NEW n \in alive, OverwriteEnumerate(t, n) \/ CleanupDelete(t, n) PROVE Inv'
    BY <2>3, InvOverwriteEnumerate, InvCleanupDelete
  <2>4. CASE OverwriteTest(t) \/ OverwriteRemove(t) \/ OverwriteReturn(t)
    BY <2>4, InvOverwriteTest, InvOverwriteRemove, InvOverwriteReturn
  <2>5. CASE CleanupRemoveStream(t) \/ CleanupRemoveNode(t)
    BY <2>5, InvCleanupRemoveStream, InvCleanupRemoveNode
  <2>6. ASSUME NEW n \in alive, NEW new \in Names, RenameEnumerate(t, n, new) PROVE Inv'
    BY <2>6, InvRenameEnumerate
  <2>7. CASE RenameReference(t) \/ RenameRemove(t) \/ RenameDereference(t)
    BY <2>7, InvRenameReference, InvRenameRemove, InvRenameDereference
  <2>8. CASE RenameUnlink(t) \/ RenameRelink(t) \/ RenameRelease(t) \/ RenameReturn(t)
    BY <2>8, InvRenameUnlink, InvRenameRelink, InvRenameRelease, InvRenameReturn
  <2> QED BY <1>2, <2>1, <2>2, <2>3, <2>4, <2>5, <2>6, <2>7, <2>8 DEF Exclusive
<1>3. ASSUME NEW t \in Threads, Shared(t) PROVE Inv'
  BY <1>3, InvOpenFind, InvOpenReference DEF Shared
<1>4. ASSUME NEW n \in FileNodes, Unguarded(n) PROVE Inv'
  BY <1>4, InvCleanup, InvClose DEF Unguarded
<1> QED BY <1>1, <1>2, <1>3, <1>4 DEF Next

LEMMA InvAlways == Spec => []Inv
<1>1. Init => Inv
  BY InvInit
<1>2. Inv /\ [Next]_vars => Inv'
  BY InvNext
<1> QED BY <1>1, <1>2, PTL DEF Spec

\* Every variable keeps its type, and no count of references or handles of
\* filemap.cpp and nodes.cpp becomes negative.
THEOREM TypeCorrect == Spec => []TypeOK
<1>1. Inv => TypeOK
  BY DEF Inv
<1> QED BY <1>1, InvAlways, PTL

\* FileNode::Reference and Dereference stay balanced through every path of
\* Create, Open, Overwrite, Cleanup, Close and Rename, however they interleave.
THEOREM ReferencesAreExact == Spec => []RefCountExact
<1>1. Inv => RefCountExact
  BY DEF Inv
<1> QED BY <1>1, InvAlways, PTL

\* A node that a call under way has a reference to, or finds in the map.
LEMMA CallUsesAlive ==
  ASSUME Inv, NEW t \in Threads
  PROVE  ({node[t], item[t]} \ {nullptr}) \cup todo[t] \subseteq alive
<1>1. CallInv(t) /\ TypeOK
  BY DEF Inv
<1>2. CASE ~Guarded(t)
  <2>1. item[t] = nullptr /\ todo[t] = {}
    BY <1>1, <1>2 DEF Guarded, CallInv, IdleInv, FoundInv
  <2>2. node[t] = nullptr \/ (node[t] \in FileNodes /\ Mapped(node[t]))
    BY <1>1, <1>2 DEF Guarded, CallInv, IdleInv, FoundInv
  <2>3. node[t] = nullptr \/ node[t] \in alive
    <3>1. PICK n : n = node[t]
      OBVIOUS
    <3> QED BY <2>2, <3>1, UsedIsAlive
  <2> QED BY <2>1, <2>3
<1>3. CASE Guarded(t)
  <2>1. \A n : Held(n) = HeldBy(pc[t], todo[t], item[t], n)
    BY <1>3, GuardedFacts, HeldNow, HeldByOne DEF Others
  <2>2. pc[t] \in Labels \ {"idle", "open"}
    BY <1>1, <1>3 DEF TypeOK, Guarded
  <2>3. ASSUME NEW n \in todo[t] PROVE n \in alive
    <3>1. n \in FileNodes
      BY <1>1 DEF TypeOK
    <3>2. CASE pc[t] \in {"overwrite", "overwriteRemove"} \cup Renaming
      BY <2>1, <3>1, <3>2, UsedIsAlive DEF HeldBy, Indicator
    <3>3. CASE pc[t] = "createReference"
      BY <1>1, <3>3 DEF CallInv, FoundInv
    <3>4. CASE pc[t] = "cleanup"
      BY <1>1, <3>1, <3>4, UsedIsAlive DEF CallInv, CleanupInv
    <3> QED BY <2>2, <3>2, <3>3, <3>4 DEF Labels, Renaming
  <2>4. node[t] \in alive
    <3>1. node[t] \in FileNodes /\ (Mapped(node[t]) \/ opened[node[t]] > 0)
      BY <1>1, <2>2 DEF CallInv, FoundInv, HandleInv, Labels, Renaming
    <3>2. PICK n : n = node[t]
      OBVIOUS
    <3> QED BY <3>1, <3>2, UsedIsAlive
  <2>5. item[t] = nullptr \/ item[t] \in todo[t]
          \/ (item[t] \in FileNodes /\ (Mapped(item[t]) \/ pc[t] = "renameDereference"))
    BY <1>1, <2>2 DEF CallInv, FoundInv, OverwriteInv, CleanupInv, ReplaceInv, MoveInv, Labels
  <2>6. item[t] = nullptr \/ item[t] \in alive
    <3>1. PICK n : n = item[t]
      OBVIOUS
    <3>2. pc[t] = "renameDereference" => Held(n) > 0
      BY <2>1, <3>1 DEF HeldBy, Indicator
    <3> QED BY <2>3, <2>5, <3>1, <3>2, UsedIsAlive
  <2> QED BY <2>3, <2>4, <2>6
<1> QED BY <1>2, <1>3

\* What of NothingDangles the reference counts alone are for: the nodes in the
\* map, behind a handle and in a local of a call.
NodesInUseAlive ==
  /\ \A name \in DOMAIN fileMap : fileMap[name] \in alive
  /\ \A n \in FileNodes : opened[n] + cleaned[n] > 0 => n \in alive
  /\ \A t \in Threads : ({node[t], item[t]} \ {nullptr}) \cup todo[t] \subseteq alive

\* No FileNode is deleted while the map, a handle or a call under way leads to
\* it, whatever is renamed over what, and whether or not an emplace throws.
THEOREM NoNodeInUseIsDeleted == Spec => []NodesInUseAlive
<1>1. Inv => NodesInUseAlive
  <2> SUFFICES ASSUME Inv PROVE NodesInUseAlive
    OBVIOUS
  <2>1. ASSUME NEW name \in DOMAIN fileMap PROVE fileMap[name] \in alive
    <3>1. PICK n : n = fileMap[name]
      OBVIOUS
    <3>2. n \in FileNodes /\ Mapped(n)
      BY <3>1 DEF Inv, TypeOK, Mapped
    <3> QED BY <3>1, <3>2, UsedIsAlive
  <2>2. ASSUME NEW n \in FileNodes, opened[n] + cleaned[n] > 0 PROVE n \in alive
    <3>1. opened[n] > 0 \/ cleaned[n] > 0
      BY <2>2 DEF Inv, TypeOK
    <3> QED BY <3>1, UsedIsAlive
  <2> QED BY <2>1, <2>2, CallUsesAlive DEF NodesInUseAlive
<1> QED BY <1>1, InvAlways, PTL

\* Between the test of the reference count in the loop of Overwrite and the
\* removal, no handle of the stream appears: whatever closes meanwhile, the
\* stream that goes is one nobody has open.
THEOREM OverwriteSparesOpenStreams == Spec => OverwriteKeepsOpenStreams
<1>1. Inv => (\A t \in Threads : pc[t] = "overwriteRemove" /\ pc'[t] = "overwrite"
                                   => opened[item[t]] + cleaned[item[t]] = 0)
  BY DEF Inv, CallInv, OverwriteInv
<1> QED BY <1>1, InvAlways, PTL DEF OverwriteKeepsOpenStreams

=============================================================================
