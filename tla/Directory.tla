------------------------------ MODULE Directory ------------------------------
(***************************************************************************)
(* The walks over the ordered file map (filemap.cpp) and the listing of a  *)
(* directory in several calls (dirinfo.cpp) while names come and go.       *)
(*                                                                         *)
(* The map is kept as the set of names in it: std::map visits them in the  *)
(* order of FileNameCompare.  A name of FileNames is spelled out here, its *)
(* components being sequences of characters; every name that is not a      *)
(* stream stands for a directory, which may have streams too.              *)
(***************************************************************************)
EXTENDS FileNames, NameOrder

CONSTANTS
  MEMFS_MAX_PATH,      \* the length that no name reaches, in characters
  MaxNames             \* bound on the names in the map

Dot == <<46>>
DotDot == <<46, 46>>

ASSUME NamesAssumption == MaxNames \in Nat
ASSUME MaxPathAssumption == MEMFS_MAX_PATH \in Nat /\ MEMFS_MAX_PATH > 1

\* A letter in upper case, as ASCII has it.
Folded(name) ==
  [k \in DOMAIN name |-> IF name[k] \in 97 .. 122 THEN name[k] - 32 ELSE name[k]]

\* A component and the name of a stream are what stands between separators,
\* and no component is a dot entry; a volume that does not tell the case has
\* every name in one spelling only.
ASSUME SpellingAssumption ==
  /\ Components \cup Streams \subseteq Seq(Nat) \ {<<>>}
  /\ \A name \in Components \cup Streams : \A k \in DOMAIN name : ~Separator(name[k])
  /\ {Dot, DotDot} \cap Components = {}
  /\ CaseInsensitive => IsInjective([name \in Components |-> Folded(name)])
                        /\ IsInjective([name \in Streams |-> Folded(name)])

\* FileNameCompare keeps to its fast loop.
OnlyAscii ==
  CaseInsensitive => \A name \in Components \cup Streams : \A k \in DOMAIN name : name[k] <= 127

VARIABLES
  fileMap,       \* the names in MemFs::fileMap
  phase,         \* "idle", "listing" or "listed"
  dir,           \* the directory being listed
  marker,        \* the last entry the kernel has got
  listed,        \* history: all entries it has got
  stayed         \* history: children that have been there since the listing began

listing == <<phase, dir, marker, listed, stayed>>
vars == <<fileMap, listing>>

-----------------------------------------------------------------------------
\* A name as the code sees it.
Spell(name) ==
  (IF name.path = <<>> THEN <<Backslash>>
   ELSE FlattenSeq([k \in DOMAIN name.path |-> <<Backslash>> \o name.path[k]]))
  \o (IF IsStream(name) THEN <<Colon>> \o name.stream ELSE <<>>)

Spelling == [name \in Names |-> Spell(name)]

Order == [a \in Names |-> [b \in Names |-> FileNameCompare(Spelling[a], Spelling[b])]]

\* FileLess
Less(a, b) == Order[a][b] < 0

\* What an iterator of the map comes to, one after the other.
InOrder(S) == CHOOSE s \in SetToSeqs(S) : IsSorted(s, Less)

LowerBound(name) == {n \in fileMap : ~Less(n, name)}

UpperBound(name) == {n \in fileMap : Less(name, n)}

LowerBoundOfKey(key) == {n \in fileMap : FileNameCompare(key, Spelling[n]) <= 0}

UpperBoundOfKey(key) == {n \in fileMap : FileNameCompare(key, Spelling[n]) < 0}

\* The names of a walk that stops at the first one that does not fit.
WalkWhile(S, Fits(_)) == {n \in S : \A m \in S : ~Less(n, m) => Fits(m)}

HasColon(codes) == \E k \in DOMAIN codes : codes[k] = Colon

InDirectory(n, d) == FileNameCompare(RemainPrefix(Spelling[n]), Spelling[d]) = 0

\* The first name after the directory that is not a stream decides.
HasChild(d) ==
  LET rest == InOrder({n \in UpperBound(d) : ~HasColon(Spelling[n])})
  IN  rest # <<>> /\ InDirectory(rest[1], d)

EnumerateNamedStreams(f) ==
  WalkWhile(UpperBound(f),
            LAMBDA n : /\ FileNameHasPrefix(Spelling[n], Spelling[f])
                       /\ Spelling[n][Len(Spelling[f]) + 1] = Colon)

EnumerateDescendants(f) ==
  WalkWhile(LowerBound(f), LAMBDA n : FileNameHasPrefix(Spelling[n], Spelling[f]))

NoMarker == <<>>

\* The name a marker stands for.
MarkerKey(d, m) == Spelling[d] \o (IF d = Root THEN <<>> ELSE <<Backslash>>) \o m

EnumerateDirChildren(d, m) ==
  LET start == IF m = NoMarker THEN UpperBound(d) ELSE UpperBoundOfKey(MarkerKey(d, m))
  IN  {n \in WalkWhile(start, LAMBDA x : FileNameHasPrefix(Spelling[x], Spelling[d])) :
         InDirectory(n, d) /\ ~HasColon(Suffix(Spelling[n]))}

\* FindFile: what the key leads to, or nothing.
FindFile(key) == {n \in fileMap : FileNameCompare(key, Spelling[n]) = 0}

ForgetsTheSlash(d, entry) == Spelling[d] \o entry

LookupKey(d, entry) ==
  Spelling[d] \o (IF Len(Spelling[d]) > 1 THEN <<Backslash>> ELSE <<>>) \o entry

\* GetDirInfoByName: the entry as it is spelled in the map.  The test of the
\* length counts a backslash behind the root, too, where none is put.
GetDirInfoByName(d, entry) ==
  IF MEMFS_MAX_PATH <= Len(Spelling[d]) + Len(entry) + 1
  THEN {}
  ELSE {Suffix(Spelling[n]) : n \in FindFile(LookupKey(d, entry))}

\* What CompatAddStreamInfo calls a stream: all after the first colon.
StreamName(codes) ==
  IF HasColon(codes)
  THEN SubSeq(codes, Min({k \in DOMAIN codes : codes[k] = Colon}) + 1, Len(codes))
  ELSE <<>>

NamesOfStreams(streams) == [k \in DOMAIN streams |-> StreamName(Spelling[streams[k]])]

\* What GetStreamInfo adds to the buffer: a directory has no stream without a
\* name.
StreamInfos(n, isDirectory) ==
  (IF isDirectory THEN <<>> ELSE <<StreamName(Spelling[MainName(n)])>>)
  \o NamesOfStreams(InOrder(EnumerateNamedStreams(MainName(n))))

\* A list whose end is told even if the buffer is full.
EndsFullLists(infos, room) ==
  [names |-> SubSeq(infos, 1, Min({room, Len(infos)})), ended |-> TRUE]

\* With room for so many entries it stops at the first that does not fit, and
\* then does not say that the list is at its end.
AddedInfos(infos, room) ==
  [names |-> SubSeq(infos, 1, Min({room, Len(infos)})), ended |-> Len(infos) <= room]

GetStreamInfo(n, isDirectory, room) == AddedInfos(StreamInfos(n, isDirectory), room)

-----------------------------------------------------------------------------
Init ==
  /\ fileMap = {Root}
  /\ phase = "idle"
  /\ dir = Root
  /\ marker = NoMarker
  /\ listed = <<>>
  /\ stayed = {}

\* InsertNode under Create, which turns longer names down.
Create(name) ==
  /\ Len(Spelling[name]) < MEMFS_MAX_PATH
  /\ name \notin fileMap /\ ParentName(name) \in fileMap
  /\ IsStream(name) => MainName(name) \in fileMap
  /\ Cardinality(fileMap) < MaxNames
  /\ fileMap' = fileMap \cup {name}
  /\ UNCHANGED listing

\* The RemoveNodes of a deleting Cleanup; a directory being listed is open.
Delete(name) ==
  LET removed == {name} \cup EnumerateNamedStreams(name) IN
  /\ name \in fileMap \ {Root}
  /\ phase # "idle" => name # dir
  /\ ~HasChild(name)
  /\ fileMap' = fileMap \ removed
  /\ stayed' = stayed \ removed
  /\ UNCHANGED <<phase, dir, marker, listed>>

ChildrenOf(d) == {n \in fileMap : IsChildOf(n, d)}

BeginListing(d) ==
  /\ phase = "idle"
  /\ d \in fileMap /\ ~IsStream(d)
  /\ phase' = "listing"
  /\ dir' = d
  /\ stayed' = ChildrenOf(d)
  /\ UNCHANGED <<fileMap, marker, listed>>

\* The dot entries ReadDirectory lists before the children, but for the root.
DotEntries(d, m) ==
  IF d = Root THEN <<>>
  ELSE CASE m = NoMarker -> <<Dot, DotDot>>
         [] m = Dot      -> <<DotDot>>
         [] OTHER        -> <<>>

\* The marker reset after the dot entries.
ChildMarker(d, m) == IF d # Root /\ m = Dot THEN NoMarker ELSE m

SuffixesOf(names) == [k \in DOMAIN names |-> Suffix(Spelling[names[k]])]

EntriesOf(nodes) == SuffixesOf(InOrder(nodes))

\* The buffer the kernel offers takes at least one entry, and never the dot
\* entries alone (external).
MayFillUpWith(entry) == entry # DotDot

\* All entries fit and the list is at its end, or the buffer is full, perhaps
\* with the last entry there is.
FillBuffer(entries) ==
  \/ /\ phase' = "listed"
     /\ listed' = listed \o entries
     /\ UNCHANGED marker
  \/ \E count \in 1 .. Len(entries) :
       /\ MayFillUpWith(entries[count])
       /\ marker' = entries[count]
       /\ listed' = listed \o SubSeq(entries, 1, count)
       /\ UNCHANGED phase

\* One call of ReadDirectory.
ReadDirectory ==
  /\ phase = "listing"
  /\ FillBuffer(DotEntries(dir, marker)
                \o EntriesOf(EnumerateDirChildren(dir, ChildMarker(dir, marker))))
  /\ UNCHANGED <<fileMap, dir, stayed>>

EndListing ==
  /\ phase = "listed"
  /\ phase' = "idle" /\ dir' = Root /\ marker' = NoMarker /\ listed' = <<>> /\ stayed' = {}
  /\ UNCHANGED fileMap

Next ==
  \/ \E name \in Names : Create(name) \/ Delete(name) \/ BeginListing(name)
  \/ ReadDirectory
  \/ EndListing

Spec == Init /\ [][Next]_vars

-----------------------------------------------------------------------------
(***************************************************************************)
(* Properties.                                                             *)
(***************************************************************************)

\* Every variable has its type, and what is listed besides the dot entries
\* are names of the model.
TypeOK ==
  /\ fileMap \subseteq Names
  /\ phase \in {"idle", "listing", "listed"}
  /\ dir \in fileMap
  /\ marker = NoMarker \/ marker \in Range(listed)
  /\ \A k \in DOMAIN listed : listed[k] \in Components \cup {Dot, DotDot}
  /\ stayed \subseteq fileMap

\* FileLess is a strict total order on the names present, which std::map
\* requires: otherwise a name that is in the map may not be found.
StrictOrder ==
  \A a, b, c \in fileMap :
    /\ Less(a, b) => ~Less(b, a)
    /\ a # b => Less(a, b) \/ Less(b, a)
    /\ Less(a, b) /\ Less(b, c) => Less(a, c)

\* The walks, which stop at the first name that does not fit, find all they
\* should: whatever names there are, the streams of a file come right behind
\* it, its descendants are one stretch of the map, and the first name behind
\* a directory that is no stream is a child if there is one.
WalksAreComplete ==
  \A d \in fileMap :
    /\ HasChild(d) <=> ChildrenOf(d) # {}
    /\ EnumerateNamedStreams(d) = {n \in fileMap : IsStreamOf(n, d)}
    /\ EnumerateDescendants(d) = {n \in fileMap : HasPrefix(n, d)}
    /\ EnumerateDirChildren(d, NoMarker) = ChildrenOf(d)

\* A directory listed in several calls: no entry comes twice, and what was
\* there from the first call to the last is listed, whatever was created or
\* deleted in between, the entry of the marker included.
ListingIsFaithful ==
  /\ IsInjective(listed)
  /\ phase = "listed" => \A n \in stayed : Suffix(Spelling[n]) \in Range(listed)

\* The name of an entry of the root that is as long as a name may be.
IsLongestInRoot(d, entry) == d = Root /\ Len(LookupKey(d, entry)) = MEMFS_MAX_PATH - 1

\* Whatever a listing shows can be looked up by its name, however its letters
\* are cased when the volume does not tell them apart, and what a lookup finds
\* a listing shows: the two ways from a directory to an entry, one by a walk
\* and one by a key put together, lead to the same names.  There is one
\* exception, and no other: an entry of the root whose name is as long as
\* Create lets it be is listed, but not found.
LookupAgreesWithListing ==
  \A d \in {n \in fileMap : ~IsStream(n)} :
    LET shown == Range(EntriesOf(EnumerateDirChildren(d, NoMarker)))
    IN  \A entry \in Components \cup {UpperCase(c) : c \in Components} :
          GetDirInfoByName(d, entry) =
            {e \in shown : PartCompare(e, entry) = 0 /\ ~IsLongestInRoot(d, entry)}

\* Through a file or any of its streams GetStreamInfo names streams the file
\* has, as the caller may open them, each once.  When it says the list is at
\* its end no stream is missing, and when it does not the buffer is full, so
\* that the caller can tell and ask again with a larger one.
StreamInfoComplete ==
  \A n \in fileMap \ {Root} : \A isDirectory \in BOOLEAN : \A room \in 0 .. MaxNames :
  \A info \in {GetStreamInfo(n, isDirectory, room)} :
    LET names == {s.stream : s \in {m \in fileMap : IsStreamOf(m, MainName(n))}}
                 \cup (IF isDirectory THEN {} ELSE {<<>>})
    IN  /\ IsInjective(info.names)
        /\ Range(info.names) \subseteq names
        /\ IF info.ended THEN Range(info.names) = names ELSE Len(info.names) = room

=============================================================================
