------------------------------ MODULE Namespace ------------------------------
(***************************************************************************)
(* The file map of MemFs and the reference-counted FileNodes in it         *)
(* (filemap.cpp, nodes.cpp), under Create, Open, Overwrite, Cleanup, Close *)
(* (filecreate.cpp, other.cpp) and Rename (fileinfo.cpp).                  *)
(*                                                                         *)
(* WinFsp calls these from several threads.  Its default guard lets Create,*)
(* Overwrite, a deleting Cleanup and Rename run alone, and Opens only next *)
(* to Opens; Close and an ordinary Cleanup are not guarded.  A call that   *)
(* fails before it changes anything is a stuttering step.                  *)
(***************************************************************************)
EXTENDS FileNames, Integers, FiniteSets, FiniteSetsExt, Functions

CONSTANTS
  Threads,           \* the dispatcher threads
  FileNodes,         \* the addresses a FileNode may be allocated at
  nullptr,
  MaxOpens,          \* bound on the handles open, or not yet closed, at once
  MaxLeaks,          \* bound on the references to one node that are lost for good
  ReplacesStreams,   \* bound: FALSE if Rename never replaces a file with streams
  EmplaceThrows      \* bound: FALSE if memory for the map never runs out

ASSUME NodesAssumption == nullptr \notin FileNodes /\ FileNodes # {}
ASSUME BoundsAssumption ==
  MaxOpens \in Nat /\ MaxLeaks \in Nat /\ ReplacesStreams \in BOOLEAN /\ EmplaceThrows \in BOOLEAN

VARIABLES
  fileMap,        \* MemFs::fileMap, a function on the names present
  alive,          \* FileNodes allocated and not deleted
  fileName, mainFileNode, refCount,   \* members of a FileNode
  directories,    \* FileNodes with FILE_ATTRIBUTE_DIRECTORY
  opened,         \* handles the kernel has open on a node
  cleaned,        \* handles cleaned up and not yet closed
  pc,             \* where each thread is; "idle" outside a guarded call
  node, item,     \* locals: the call's node, the node its loop is at,
  todo,           \* the nodes enumerated and not yet dealt with,
  oldName, newFileName,               \* and the names of Rename
  leaked,         \* history: references no code will ever give back
  abandoned,      \* history: nodes allocated by an insertion that failed
  settled         \* history: the file map when the last exclusive call returned

members == <<alive, fileName, mainFileNode, directories>>
handles == <<opened, cleaned>>
locals  == <<node, item, todo, oldName, newFileName>>
history == <<leaked, abandoned, settled>>
vars == <<fileMap, members, refCount, handles, pc, locals, history>>

-----------------------------------------------------------------------------
Present(name) == name \in DOMAIN fileMap

Nodes(S) == {fileMap[name] : name \in S}

\* The node is in the map under its own name.
Linked(n) == Present(fileName[n]) /\ fileMap[fileName[n]] = n

\* FindParent
IsDirectory(name) == Present(name) /\ fileMap[name] \in directories

\* FindMainFromStream, for a name not in the map.
FindMainFromStream(name) ==
  IF Present(MainName(name)) THEN fileMap[MainName(name)] ELSE nullptr

HasNoChild(n) == FALSE

HasChild(n) == \E name \in DOMAIN fileMap : IsChildOf(name, fileName[n])

FindsNoStreams(n) == {}

EnumerateNamedStreams(n) ==
  Nodes({name \in DOMAIN fileMap : IsStreamOf(name, fileName[n])})

EnumerateDescendants(n) ==
  Nodes({name \in DOMAIN fileMap : HasPrefix(name, fileName[n])})

\* FileNode::Reference and Dereference; delete this at zero.
Referenced(S) == [n \in FileNodes |-> refCount[n] + (IF n \in S THEN 1 ELSE 0)]

Dereference(n) ==
  /\ refCount' = [refCount EXCEPT ![n] = @ - 1]
  /\ IF refCount[n] = 1
     THEN /\ alive' = alive \ {n}
          /\ directories' = directories \ {n}
          /\ fileName' = [fileName EXCEPT ![n] = Root]
          /\ mainFileNode' = [mainFileNode EXCEPT ![n] = nullptr]
     ELSE UNCHANGED members

\* RemoveNode: erase by name and give back the reference of the map.
ErasesOnly(n) ==
  /\ fileMap' = Restrict(fileMap, DOMAIN fileMap \ {fileName[n]})
  /\ UNCHANGED <<members, refCount>>

RemoveNode(n) ==
  IF Present(fileName[n])
  THEN fileMap' = Restrict(fileMap, DOMAIN fileMap \ {fileName[n]}) /\ Dereference(n)
  ELSE UNCHANGED <<fileMap, members, refCount>>

\* emplace of InsertNode does nothing when the name is taken.
Emplaced(name, n) ==
  [x \in DOMAIN fileMap \cup {name} |-> IF x \in DOMAIN fileMap THEN fileMap[x] ELSE n]

-----------------------------------------------------------------------------
(* The operation guard and the kernel, as src relies on them (external).   *)

MayRunExclusive == \A t \in Threads : pc[t] = "idle"

MayRunShared == \A t \in Threads : pc[t] \in {"idle", "open"}

HandlesInUse ==
  SumFunction(opened) + SumFunction(cleaned) + Cardinality({t \in Threads : pc[t] = "open"})

\* A stream is opened or created through an open, linked main file.
MainIsOpen(name) ==
  IsStream(name) => Present(MainName(name)) /\ opened[fileMap[MainName(name)]] > 0

\* Handles of n that no call under way was made through.
Spare(n) == opened[n] - Cardinality({t \in Threads : node[t] = n /\ pc[t] # "open"})

\* A handle is cleaned up when no call uses it; while a stream is open, or
\* being opened, the kernel keeps a handle of its file open.
MayCleanUp(n) ==
  /\ Spare(n) > 0
  /\ \/ Spare(n) > 1
     \/ /\ \A s \in alive : mainFileNode[s] = n => opened[s] = 0
        /\ \A t \in Threads :
             pc[t] \in {"open", "createReference"} => mainFileNode[node[t]] # n

Goto(t, label) == pc' = [pc EXCEPT ![t] = label]

Return(t) ==
  /\ Goto(t, "idle")
  /\ node' = [node EXCEPT ![t] = nullptr]
  /\ item' = [item EXCEPT ![t] = nullptr]
  /\ todo' = [todo EXCEPT ![t] = {}]
  /\ oldName' = [oldName EXCEPT ![t] = Root]
  /\ newFileName' = [newFileName EXCEPT ![t] = Root]

\* An exclusive call returns: what it did to the map is visible from here on.
ReturnExclusive(t) == Return(t) /\ settled' = fileMap'

Init ==
  \E root \in FileNodes :
    /\ fileMap = [name \in {Root} |-> root]
    /\ alive = {root}
    /\ directories = {root}
    /\ refCount = [n \in FileNodes |-> IF n = root THEN 1 ELSE 0]
    /\ fileName = [n \in FileNodes |-> Root]
    /\ mainFileNode = [n \in FileNodes |-> nullptr]
    /\ opened = [n \in FileNodes |-> 0]
    /\ cleaned = [n \in FileNodes |-> 0]
    /\ pc = [t \in Threads |-> "idle"]
    /\ node = [t \in Threads |-> nullptr]
    /\ item = [t \in Threads |-> nullptr]
    /\ todo = [t \in Threads |-> {}]
    /\ oldName = [t \in Threads |-> Root]
    /\ newFileName = [t \in Threads |-> Root]
    /\ leaked = [n \in FileNodes |-> 0]
    /\ abandoned = {}
    /\ settled = fileMap

-----------------------------------------------------------------------------
(* Create *)

\* The FileNode Create builds and moves to the heap before it is in the map.
NewNode(n, name, isDirectory) ==
  /\ alive' = alive \cup {n}
  /\ fileName' = [fileName EXCEPT ![n] = name]
  /\ mainFileNode' = [mainFileNode EXCEPT ![n] = FindMainFromStream(name)]
  /\ directories' = IF isDirectory THEN directories \cup {n} ELSE directories

MayCreate(name, isDirectory) ==
  /\ ~Present(name)
  /\ IsDirectory(ParentName(name))
  /\ IsStream(name) => ~isDirectory

CreateInsert(t, name, isDirectory) ==
  /\ MayRunExclusive /\ MainIsOpen(name) /\ HandlesInUse < MaxOpens
  /\ MayCreate(name, isDirectory)
  /\ \E n \in FileNodes \ alive :
       /\ NewNode(n, name, isDirectory)
       /\ fileMap' = Emplaced(name, n)
       /\ refCount' = [refCount EXCEPT ![n] = 1]
       /\ node' = [node EXCEPT ![t] = n]
  /\ Goto(t, "createReference")
  /\ UNCHANGED <<handles, item, todo, oldName, newFileName, history>>

\* emplace throws: the node stays allocated, and nothing refers to it.
CreateInsertThrows(t, name, isDirectory) ==
  /\ EmplaceThrows
  /\ MayRunExclusive /\ MainIsOpen(name) /\ HandlesInUse < MaxOpens
  /\ MayCreate(name, isDirectory)
  /\ \E n \in FileNodes \ alive :
       /\ NewNode(n, name, isDirectory)
       /\ abandoned' = abandoned \cup {n}
  /\ UNCHANGED <<fileMap, refCount, handles, pc, locals, leaked, settled>>

CreateReference(t) ==
  /\ pc[t] = "createReference"
  /\ refCount' = Referenced({node[t]})
  /\ opened' = [opened EXCEPT ![node[t]] = @ + 1]
  /\ UNCHANGED <<fileMap, members, cleaned, leaked, abandoned>>
  /\ ReturnExclusive(t)

-----------------------------------------------------------------------------
(* Open *)

OpenFind(t, name) ==
  /\ pc[t] = "idle"
  /\ MayRunShared /\ MainIsOpen(name) /\ HandlesInUse < MaxOpens
  /\ Present(name)
  /\ node' = [node EXCEPT ![t] = fileMap[name]]
  /\ Goto(t, "open")
  /\ UNCHANGED <<fileMap, members, refCount, handles, item, todo, oldName, newFileName,
                 history>>

OpensUncounted(t) ==
  /\ pc[t] = "open"
  /\ opened' = [opened EXCEPT ![node[t]] = @ + 1]
  /\ Return(t)
  /\ UNCHANGED <<fileMap, members, refCount, cleaned, history>>

\* Reference and CopyFileInfo, which reads the main node of a stream.
OpenReference(t) ==
  /\ pc[t] = "open"
  /\ refCount' = Referenced({node[t]})
  /\ opened' = [opened EXCEPT ![node[t]] = @ + 1]
  /\ Return(t)
  /\ UNCHANGED <<fileMap, members, cleaned, history>>

-----------------------------------------------------------------------------
(* Overwrite: the named streams go; the data and EAs are not modelled here. *)

OverwriteEnumerate(t, n) ==
  /\ MayRunExclusive
  /\ opened[n] > 0 /\ Linked(n) /\ n \notin directories
  /\ \A s \in EnumerateNamedStreams(n) : leaked[s] < MaxLeaks
  /\ todo' = [todo EXCEPT ![t] = EnumerateNamedStreams(n)]
  /\ refCount' = Referenced(EnumerateNamedStreams(n))
  /\ node' = [node EXCEPT ![t] = n]
  /\ Goto(t, "overwrite")
  /\ UNCHANGED <<fileMap, members, handles, item, oldName, newFileName, history>>

\* The loop goes on; the reference the enumeration took is not given back.
DropEnumerated(t, n) ==
  /\ todo' = [todo EXCEPT ![t] = @ \ {n}]
  /\ leaked' = [leaked EXCEPT ![n] = @ + 1]

NeedsNoMoreReferences(n) == 3 >= refCount[n]

\* 2 >= refCount: the map's reference and the enumeration's.
OnlyMapAndEnumeration(n) == 2 >= refCount[n]

OverwriteTest(t) ==
  /\ pc[t] = "overwrite"
  /\ \E s \in todo[t] :
       IF OnlyMapAndEnumeration(s)
       THEN /\ item' = [item EXCEPT ![t] = s]
            /\ Goto(t, "overwriteRemove")
            /\ UNCHANGED <<todo, leaked>>
       ELSE DropEnumerated(t, s) /\ UNCHANGED <<item, pc>>
  /\ UNCHANGED <<fileMap, members, refCount, handles, node, oldName, newFileName, abandoned,
                 settled>>

OverwriteRemove(t) ==
  /\ pc[t] = "overwriteRemove"
  /\ RemoveNode(item[t])
  /\ DropEnumerated(t, item[t])
  /\ item' = [item EXCEPT ![t] = nullptr]
  /\ Goto(t, "overwrite")
  /\ UNCHANGED <<handles, node, oldName, newFileName, abandoned, settled>>

\* Whether setting EAs and the size succeeds or not.
OverwriteReturn(t) ==
  /\ pc[t] = "overwrite" /\ todo[t] = {}
  /\ UNCHANGED <<fileMap, members, refCount, handles, leaked, abandoned>>
  /\ ReturnExclusive(t)

-----------------------------------------------------------------------------
(* Cleanup and Close *)

CleanUpHandle(n) ==
  /\ opened' = [opened EXCEPT ![n] = @ - 1]
  /\ cleaned' = [cleaned EXCEPT ![n] = @ + 1]

\* Cleanup without FspCleanupDelete, or of a directory that has a child.
Cleanup(n) ==
  /\ MayCleanUp(n)
  /\ CleanUpHandle(n)
  /\ UNCHANGED <<fileMap, members, refCount, pc, locals, history>>

CleanupDelete(t, n) ==
  /\ MayRunExclusive
  /\ MayCleanUp(n) /\ Linked(n) /\ fileName[n] # Root
  /\ ~HasChild(n)
  /\ node' = [node EXCEPT ![t] = n]
  /\ todo' = [todo EXCEPT ![t] = EnumerateNamedStreams(n)]
  /\ Goto(t, "cleanup")
  /\ UNCHANGED <<fileMap, members, refCount, handles, item, oldName, newFileName, history>>

CleanupRemoveStream(t) ==
  /\ pc[t] = "cleanup"
  /\ \E s \in todo[t] :
       /\ RemoveNode(s)
       /\ todo' = [todo EXCEPT ![t] = @ \ {s}]
  /\ UNCHANGED <<handles, pc, node, item, oldName, newFileName, history>>

CleanupRemoveNode(t) ==
  /\ pc[t] = "cleanup" /\ todo[t] = {}
  /\ RemoveNode(node[t])
  /\ CleanUpHandle(node[t])
  /\ ReturnExclusive(t)
  /\ UNCHANGED <<leaked, abandoned>>

Close(n) ==
  /\ cleaned[n] > 0
  /\ cleaned' = [cleaned EXCEPT ![n] = @ - 1]
  /\ Dereference(n)
  /\ UNCHANGED <<fileMap, opened, pc, locals, history>>

-----------------------------------------------------------------------------
(* Rename *)

\* Only linked files and directories are renamed, to a name in an existing
\* directory that is not below the old name; the kernel sees to it.
MayRename(n, new) ==
  /\ opened[n] > 0 /\ Linked(n) /\ fileName[n] # Root /\ ~IsStream(fileName[n])
  /\ new # Root /\ ~IsStream(new) /\ IsDirectory(ParentName(new))
  /\ HasPrefix(new, fileName[n]) => new = fileName[n]

\* What Rename finds under the new name may be replaced (replaceIfExists).
MayReplace(n, new) == Present(new) /\ fileMap[new] # n => fileMap[new] \notin directories

WithinBounds(n, new) ==
  Present(new) /\ fileMap[new] # n /\ EnumerateNamedStreams(fileMap[new]) # {}
    => ReplacesStreams

TooLong(name, n, new) == Len(Renamed(name, fileName[n], new).path) > MAX_PATH

\* The check of MEMFS_MAX_PATH comes after the descendants are referenced,
\* and its early return keeps the references.
RenameEnumerate(t, n, new) ==
  /\ MayRunExclusive /\ MayRename(n, new) /\ MayReplace(n, new) /\ WithinBounds(n, new)
  /\ refCount' = Referenced(EnumerateDescendants(n))
  /\ IF \E d \in EnumerateDescendants(n) : TooLong(fileName[d], n, new)
     THEN /\ \A d \in EnumerateDescendants(n) : leaked[d] < MaxLeaks
          /\ leaked' = [d \in FileNodes |->
                          leaked[d] + (IF d \in EnumerateDescendants(n) THEN 1 ELSE 0)]
          /\ UNCHANGED <<pc, locals>>
     ELSE /\ node' = [node EXCEPT ![t] = n]
          /\ todo' = [todo EXCEPT ![t] = EnumerateDescendants(n)]
          /\ item' = [item EXCEPT ![t] = FindMainFromStream(new)]
          /\ oldName' = [oldName EXCEPT ![t] = fileName[n]]
          /\ newFileName' = [newFileName EXCEPT ![t] = new]
          /\ Goto(t, IF Present(new) THEN "renameReference" ELSE "rename")
          /\ UNCHANGED leaked
  /\ UNCHANGED <<fileMap, members, handles, abandoned, settled>>

\* The node found under the new name is kept alive while it is removed.
SkipsReference(t) ==
  /\ pc[t] = "renameReference"
  /\ Goto(t, "renameRemove")
  /\ UNCHANGED <<fileMap, members, refCount, handles, locals, history>>

RenameReference(t) ==
  /\ pc[t] = "renameReference"
  /\ refCount' = Referenced({item[t]})
  /\ Goto(t, "renameRemove")
  /\ UNCHANGED <<fileMap, members, handles, locals, history>>

RenameRemove(t) ==
  /\ pc[t] = "renameRemove"
  /\ RemoveNode(item[t])
  /\ Goto(t, "renameDereference")
  /\ UNCHANGED <<handles, locals, history>>

RenameDereference(t) ==
  /\ pc[t] = "renameDereference"
  /\ Dereference(item[t])
  /\ item' = [item EXCEPT ![t] = nullptr]
  /\ Goto(t, "rename")
  /\ UNCHANGED <<fileMap, handles, node, todo, oldName, newFileName, history>>

RenameUnlink(t) ==
  /\ pc[t] = "rename"
  /\ \E d \in todo[t] : RemoveNode(d) /\ item' = [item EXCEPT ![t] = d]
  /\ Goto(t, "renameRelink")
  /\ UNCHANGED <<handles, node, todo, oldName, newFileName, history>>

RenameRelink(t) ==
  LET d == item[t]
      name == Renamed(fileName[d], oldName[t], newFileName[t]) IN
  /\ pc[t] = "renameRelink"
  /\ fileName' = [fileName EXCEPT ![d] = name]
  /\ fileMap' = Emplaced(name, d)
  /\ refCount' = IF Present(name) THEN refCount ELSE Referenced({d})
  /\ Goto(t, "renameRelease")
  /\ UNCHANGED <<alive, mainFileNode, directories, handles, locals, history>>

RenameRelease(t) ==
  /\ pc[t] = "renameRelease"
  /\ Dereference(item[t])
  /\ item' = [item EXCEPT ![t] = nullptr]
  /\ todo' = [todo EXCEPT ![t] = @ \ {item[t]}]
  /\ Goto(t, "rename")
  /\ UNCHANGED <<fileMap, handles, node, oldName, newFileName, history>>

RenameReturn(t) ==
  /\ pc[t] = "rename" /\ todo[t] = {}
  /\ UNCHANGED <<fileMap, members, refCount, handles, leaked, abandoned>>
  /\ ReturnExclusive(t)

-----------------------------------------------------------------------------
Exclusive(t) ==
  \/ \E name \in Names, isDirectory \in BOOLEAN :
       CreateInsert(t, name, isDirectory) \/ CreateInsertThrows(t, name, isDirectory)
  \/ CreateReference(t)
  \/ \E n \in alive : OverwriteEnumerate(t, n) \/ CleanupDelete(t, n)
  \/ OverwriteTest(t) \/ OverwriteRemove(t) \/ OverwriteReturn(t)
  \/ CleanupRemoveStream(t) \/ CleanupRemoveNode(t)
  \/ \E n \in alive, new \in Names : RenameEnumerate(t, n, new)
  \/ RenameReference(t) \/ RenameRemove(t) \/ RenameDereference(t)
  \/ RenameUnlink(t) \/ RenameRelink(t) \/ RenameRelease(t) \/ RenameReturn(t)

Shared(t) == (\E name \in Names : OpenFind(t, name)) \/ OpenReference(t)

Unguarded(n) == Cleanup(n) \/ Close(n)

Next ==
  \/ \E t \in Threads : Exclusive(t) \/ Shared(t)
  \/ \E n \in FileNodes : Unguarded(n)

Spec == Init /\ [][Next]_vars

-----------------------------------------------------------------------------
(***************************************************************************)
(* Properties.                                                             *)
(***************************************************************************)

Labels == {"idle", "createReference", "open", "overwrite", "overwriteRemove", "cleanup",
           "rename", "renameReference", "renameRemove", "renameDereference",
           "renameRelink", "renameRelease"}

AtRest == \A t \in Threads : pc[t] \in {"idle", "open"}

\* Every variable has its type; refCount and the handle counts are never
\* negative.
TypeOK ==
  /\ DOMAIN fileMap \subseteq Names
  /\ fileMap \in [DOMAIN fileMap -> FileNodes]
  /\ alive \subseteq FileNodes /\ directories \subseteq FileNodes /\ abandoned \subseteq FileNodes
  /\ fileName \in [FileNodes -> Names]
  /\ mainFileNode \in [FileNodes -> FileNodes \cup {nullptr}]
  /\ refCount \in [FileNodes -> Nat]
  /\ opened \in [FileNodes -> Nat] /\ cleaned \in [FileNodes -> Nat] /\ leaked \in [FileNodes -> Nat]
  /\ pc \in [Threads -> Labels]
  /\ node \in [Threads -> FileNodes \cup {nullptr}]
  /\ item \in [Threads -> FileNodes \cup {nullptr}]
  /\ todo \in [Threads -> SUBSET FileNodes]
  /\ oldName \in [Threads -> Names] /\ newFileName \in [Threads -> Names]

Indicator(b) == IF b THEN 1 ELSE 0

Renaming == {"rename", "renameReference", "renameRemove", "renameDereference",
             "renameRelink", "renameRelease"}

\* References calls under way hold to n: for an enumeration, and for the node
\* that Rename is about to replace.
Held(n) ==
  Cardinality({t \in Threads :
                 pc[t] \in {"overwrite", "overwriteRemove"} \cup Renaming /\ n \in todo[t]})
  + Cardinality({t \in Threads : pc[t] \in {"renameRemove", "renameDereference"} /\ n = item[t]})

Mapped(n) == \E name \in DOMAIN fileMap : fileMap[name] = n

\* Between any two steps the reference count of a node is one for the map,
\* one for each handle not yet closed, one for each reference a call under
\* way holds and one for each that is lost for good: no path through Create,
\* Overwrite, Cleanup, Rename and a concurrent Close counts one twice or
\* forgets one.
RefCountExact ==
  \A n \in FileNodes :
    refCount[n] = Indicator(Mapped(n)) + opened[n] + cleaned[n] + Held(n) + leaked[n]

\* Nothing that a later step will dereference has been deleted: not the nodes
\* in the map, behind a handle or in a local of a call, and not the main node
\* of a stream that is open or being opened.
NothingDangles ==
  /\ \A name \in DOMAIN fileMap : fileMap[name] \in alive
  /\ \A n \in FileNodes : opened[n] + cleaned[n] > 0 => n \in alive
  /\ \A n \in FileNodes : opened[n] > 0 => mainFileNode[n] \in alive \cup {nullptr}
  /\ \A t \in Threads :
       /\ ({node[t], item[t]} \ {nullptr}) \cup todo[t] \subseteq alive
       /\ pc[t] = "open" => mainFileNode[node[t]] \in alive \cup {nullptr}

\* Whenever no exclusive call is under way, every name is in a directory that
\* exists and is the name its node carries, and a named stream points at the
\* node of its file: what an Open finds is a tree, whatever calls came before
\* and wherever they gave up.
TreeShape ==
  AtRest =>
    \A name \in DOMAIN fileMap :
      /\ fileName[fileMap[name]] = name
      /\ name # Root => IsDirectory(ParentName(name))
      /\ mainFileNode[fileMap[name]] =
           IF IsStream(name) THEN FindMainFromStream(name) ELSE nullptr

\* Overwrite removes a stream on a reference count it read before, and a Close
\* may change the count meanwhile: no stream goes while anyone has it open.
OverwriteKeepsOpenStreams ==
  [][\A t \in Threads : pc[t] = "overwriteRemove" /\ pc'[t] = "overwrite"
                           => opened[item[t]] + cleaned[item[t]] = 0]_vars

\* The file map at rest changes as the abstract tree does: every exclusive
\* call has, when it returns, the effect of one atomic operation, and none
\* lost, doubled or misplaced a node.
Tree == INSTANCE FileTree WITH tree <- settled

ImplementsFileTree == Tree!Spec

\* "only allocates the memory actually needed" (README): a FileNode that no
\* name, handle or call under way leads to has been deleted.
UnreachableNodesDeleted ==
  \A n \in alive : Mapped(n) \/ opened[n] + cleaned[n] + Held(n) > 0

\* "guaranteeing memory [...] safety" (README): the main node of every named
\* stream in the map, which the next Open of the stream reads, is alive.
MainNodesAlive ==
  \A name \in DOMAIN fileMap : mainFileNode[fileMap[name]] \in alive \cup {nullptr}

=============================================================================
