------------------------------ MODULE Metadata ------------------------------
(***************************************************************************)
(* Attributes, reparse points, extended attributes and security of files   *)
(* and their streams (ea.cpp, reparse.cpp, security.cpp, the EAs of        *)
(* nodes.cpp, and what Create, Overwrite, SetBasicInfo and Cleanup do to   *)
(* them).  A stream has a node of its own but shares its file's metadata.  *)
(*                                                                         *)
(* The kernel serialises the calls that change a file's metadata, so each  *)
(* is one step.  A call that fails before it changes anything stutters; an *)
(* allocation of SetEa that throws bad_alloc ends the process.             *)
(***************************************************************************)
EXTENDS Integers, Sequences, FiniteSets, Functions

CONSTANTS
  Files,
  Tags, Payloads,      \* reparse data is a tag and what follows it
  NoData,              \* a DynamicStruct that holds nothing
  EaNames,             \* up to case
  MaxValueLength,      \* of the EAs that callers set; 0 deletes
  MaxEas,              \* bound on the EAs one call brings
  EaOverhead,          \* what a name and the header of an EA take when packed
  UlongModulus,        \* 2^32: EaSize is a ULONG
  MaxEaSize,           \* bound on EaSize before a call that changes EAs
  Descriptors

ASSUME EaAssumption ==
  /\ MaxValueLength \in Nat /\ MaxEas \in Nat /\ EaOverhead \in Nat \ {0}
  /\ MaxEaSize \in Nat /\ UlongModulus \in Nat
  /\ MaxEaSize + MaxEas * (EaOverhead + MaxValueLength) < UlongModulus
  /\ 0 \notin Tags /\ NoData \notin Tags \X Payloads

VARIABLES
  nodes,            \* the main nodes and streams there are
  FileAttributes, ReparseTag, EaSize,  \* FSP_FSCTL_FILE_INFO of each node
  reparseData, eaMap, fileSecurity,    \* of each file's main node
  children,         \* the directories that are not empty
  easThroughStream  \* history: files whose EAs were set through a stream

reparse == <<ReparseTag, reparseData>>
eas == <<EaSize, eaMap, easThroughStream>>
vars == <<nodes, FileAttributes, fileSecurity, children, reparse, eas>>

-----------------------------------------------------------------------------
Main(f) == <<f, "main">>
Stream(f) == <<f, "stream">>
Nodes == Files \X {"main", "stream"}

\* GetMainNode, where a node is not its own.
FileOf(n) == n[1]
IsMainNode(n) == n = Main(FileOf(n))

\* A handle's node, and the file behind it that has the metadata.
Opened(n) == n \in nodes

NoEas == [name \in {} |-> 0]
Attributes == {"DIRECTORY", "ARCHIVE", "REPARSE_POINT"}

Init ==
  /\ nodes = {} /\ children = {} /\ easThroughStream = {}
  /\ FileAttributes = [f \in Files |-> {}] /\ ReparseTag = [f \in Files |-> 0]
  /\ EaSize = [n \in Nodes |-> 0]
  /\ reparseData = [f \in Files |-> NoData]
  /\ eaMap = [f \in Files |-> NoEas]
  /\ fileSecurity = [f \in Files |-> NoData]

-----------------------------------------------------------------------------
(* FileNode::SetEa, on the map of the main node and the size of the node. *)

Eas == EaNames \X (0 .. MaxValueLength)
EaLists == UNION {[1 .. count -> Eas] : count \in 1 .. MaxEas}

\* FspFileSystemGetEaPackedSize.
PackedSize(ea) == EaOverhead + ea[2]

SizePlus(ea) == IF ea[2] # 0 THEN PackedSize(ea) ELSE 0

MinusAlways(map, ea) == PackedSize(ea)

\* The size of the EA that comes is taken off, not that of the one that goes.
SizeMinus(map, ea) == IF ea[1] \in DOMAIN map THEN PackedSize(ea) ELSE 0

Erased(map, ea) == Restrict(map, DOMAIN map \ {ea[1]})

AfterSetEa(state, ea) ==
  [map |-> IF ea[2] = 0 THEN Erased(state.map, ea)
           ELSE [name \in DOMAIN state.map \cup {ea[1]} |->
                   IF name = ea[1] THEN ea[2] ELSE state.map[name]],
   size |-> (state.size + SizePlus(ea) - SizeMinus(state.map, ea)) % UlongModulus]

\* insert throws: the old EA is gone and the size as it was.
AfterFailedSetEa(state, ea) == [state EXCEPT !.map = Erased(@, ea)]

\* CompatFspFileNodeSetEa for one EA after the other: what is left after k of them.
Books(state, list) ==
  LET after[k \in 0 .. Len(list)] ==
        IF k = 0 THEN state ELSE AfterSetEa(after[k - 1], list[k])
  IN  after

AfterSetEas(state, list) == Books(state, list)[Len(list)]

\* The call ends at the first EA that cannot be inserted.
FailuresOf(state, list) ==
  {AfterFailedSetEa(Books(state, list)[k - 1], list[k]) : k \in {j \in DOMAIN list : list[j][2] # 0}}

StateOf(n) == [map |-> eaMap[FileOf(n)], size |-> EaSize[n]]

Touched(n) ==
  easThroughStream' = easThroughStream \cup (IF IsMainNode(n) THEN {} ELSE {FileOf(n)})

\* Whatever a call makes of the size; from beyond MaxEaSize no call is made.
Becomes(n, state) ==
  /\ eaMap' = [eaMap EXCEPT ![FileOf(n)] = state.map]
  /\ EaSize' = [EaSize EXCEPT ![n] = state.size]
  /\ Touched(n)
  /\ FileOf(n) \in easThroughStream' \/ EaSize[n] <= MaxEaSize

SetEa(n) ==
  /\ Opened(n)
  /\ \E list \in EaLists :
       \/ Becomes(n, AfterSetEas(StateOf(n), list))
       \/ \E state \in FailuresOf(StateOf(n), list) : Becomes(n, state)
  /\ UNCHANGED <<nodes, FileAttributes, reparse, fileSecurity, children>>

-----------------------------------------------------------------------------
(* Create and Overwrite, Cleanup and SetBasicInfo. *)

\* Windows never adds REPARSE_POINT and keeps DIRECTORY.
MayBecome(attributes) ==
  {asked \in SUBSET Attributes :
     /\ "DIRECTORY" \in asked <=> "DIRECTORY" \in attributes
     /\ "REPARSE_POINT" \in asked => "REPARSE_POINT" \in attributes}

\* A new file, with EAs, reparse data or neither; Create answers for a failure
\* of the EAs before the node is in the map.
Create(f) ==
  /\ Main(f) \notin nodes
  /\ nodes' = nodes \cup {Main(f)}
  /\ \E attributes \in {{"DIRECTORY"}, {"ARCHIVE"}}, descriptor \in Descriptors :
       /\ fileSecurity' = [fileSecurity EXCEPT ![f] = descriptor]
       /\ \/ /\ FileAttributes' = [FileAttributes EXCEPT ![f] = attributes]
             /\ \/ UNCHANGED eas
                \/ \E list \in EaLists : Becomes(Main(f), AfterSetEas(StateOf(Main(f)), list))
             /\ UNCHANGED reparse
          \/ \E data \in Tags \X Payloads :
               /\ FileAttributes' = [FileAttributes EXCEPT ![f] = attributes \cup {"REPARSE_POINT"}]
               /\ reparseData' = [reparseData EXCEPT ![f] = data]
               /\ ReparseTag' = [ReparseTag EXCEPT ![f] = data[1]]
               /\ UNCHANGED eas
  /\ UNCHANGED children

\* The EAs of a new stream go to its file, also when Create then fails.
CreateStream(f) ==
  /\ Main(f) \in nodes /\ Stream(f) \notin nodes
  /\ \/ nodes' = nodes \cup {Stream(f)} /\ UNCHANGED eas
     \/ \E list \in EaLists :
          \/ /\ nodes' = nodes \cup {Stream(f)}
             /\ Becomes(Stream(f), AfterSetEas(StateOf(Stream(f)), list))
          \/ \E state \in FailuresOf(StateOf(Stream(f)), list) :
               /\ eaMap' = [eaMap EXCEPT ![f] = state.map]
               /\ Touched(Stream(f)) /\ UNCHANGED <<nodes, EaSize>>
  /\ UNCHANGED <<FileAttributes, reparse, fileSecurity, children>>

\* DeleteEaMap: of a stream's own map, which is always empty.
EasDeleted(n) == IF IsMainNode(n) THEN [StateOf(n) EXCEPT !.map = NoEas] ELSE StateOf(n)

\* replaceFileAttributes or not; a size that cannot be set ends it before.
Overwritten(attributes) == {{"ARCHIVE"}, attributes \cup {"ARCHIVE"}}

Overwrite(n) ==
  /\ Opened(n) /\ "DIRECTORY" \notin FileAttributes[FileOf(n)]
  /\ \/ IF IsMainNode(n) THEN Becomes(n, EasDeleted(n)) ELSE UNCHANGED eas
     \/ \E list \in EaLists : Becomes(n, AfterSetEas(EasDeleted(n), list))
  /\ \/ UNCHANGED FileAttributes
     \/ /\ IsMainNode(n)
        /\ \E attributes \in Overwritten(FileAttributes[FileOf(n)]) :
             FileAttributes' = [FileAttributes EXCEPT ![FileOf(n)] = attributes]
  /\ UNCHANGED <<nodes, reparse, fileSecurity, children>>

\* An EA of Overwrite's list that cannot be inserted: the old EAs are gone.
OverwriteFails(n) ==
  /\ Opened(n) /\ "DIRECTORY" \notin FileAttributes[FileOf(n)]
  /\ \E list \in EaLists : \E state \in FailuresOf(EasDeleted(n), list) : Becomes(n, state)
  /\ UNCHANGED <<nodes, FileAttributes, reparse, fileSecurity, children>>

SetBasicInfo(n) ==
  /\ Opened(n)
  /\ \E attributes \in MayBecome(FileAttributes[FileOf(n)]) :
       FileAttributes' = [FileAttributes EXCEPT ![FileOf(n)] = attributes]
  /\ UNCHANGED <<nodes, reparse, eas, fileSecurity, children>>

CleanupSetArchiveBit(n) ==
  /\ Opened(n) /\ "DIRECTORY" \notin FileAttributes[FileOf(n)]
  /\ FileAttributes' = [FileAttributes EXCEPT ![FileOf(n)] = @ \cup {"ARCHIVE"}]
  /\ UNCHANGED <<nodes, reparse, eas, fileSecurity, children>>

LeavesTheStream(f) ==
  /\ Main(f) \in nodes /\ f \notin children
  /\ nodes' = nodes \ {Main(f)}
  /\ FileAttributes' = [FileAttributes EXCEPT ![f] = {}]
  /\ ReparseTag' = [ReparseTag EXCEPT ![f] = 0]
  /\ EaSize' = [EaSize EXCEPT ![Main(f)] = 0, ![Stream(f)] = 0]
  /\ reparseData' = [reparseData EXCEPT ![f] = NoData]
  /\ eaMap' = [eaMap EXCEPT ![f] = NoEas]
  /\ easThroughStream' = easThroughStream \ {f}
  /\ fileSecurity' = [fileSecurity EXCEPT ![f] = NoData]
  /\ UNCHANGED children

\* A deleted file takes its stream along; a new one starts with nothing.
Delete(f) ==
  /\ Main(f) \in nodes /\ f \notin children
  /\ nodes' = nodes \ {Main(f), Stream(f)}
  /\ FileAttributes' = [FileAttributes EXCEPT ![f] = {}]
  /\ ReparseTag' = [ReparseTag EXCEPT ![f] = 0]
  /\ EaSize' = [EaSize EXCEPT ![Main(f)] = 0, ![Stream(f)] = 0]
  /\ reparseData' = [reparseData EXCEPT ![f] = NoData]
  /\ eaMap' = [eaMap EXCEPT ![f] = NoEas]
  /\ easThroughStream' = easThroughStream \ {f}
  /\ fileSecurity' = [fileSecurity EXCEPT ![f] = NoData]
  /\ UNCHANGED children

DeleteStream(f) ==
  /\ Stream(f) \in nodes
  /\ nodes' = nodes \ {Stream(f)}
  /\ EaSize' = [EaSize EXCEPT ![Stream(f)] = 0]
  /\ UNCHANGED <<FileAttributes, reparse, eaMap, easThroughStream, fileSecurity, children>>

\* Other files come and go in a directory.
ChildrenChange(f) ==
  /\ Main(f) \in nodes /\ "DIRECTORY" \in FileAttributes[f]
  /\ children' = IF f \in children THEN children \ {f} ELSE children \cup {f}
  /\ UNCHANGED <<nodes, FileAttributes, reparse, eas, fileSecurity>>

-----------------------------------------------------------------------------
(* reparse.cpp; a step is a call that succeeds. *)

\* FspFileSystemCanReplaceReparsePoint: STATUS_IO_REPARSE_TAG_MISMATCH.
CanReplace(held, data) == held # NoData => held[1] = data[1]

ChecksTheAttribute(n) ==
  LET f == FileOf(n) IN
  /\ Opened(n) /\ f \notin children
  /\ \E data \in Tags \X Payloads :
       /\ "REPARSE_POINT" \in FileAttributes[f] => CanReplace(reparseData[f], data)
       /\ reparseData' = [reparseData EXCEPT ![f] = data]
       /\ ReparseTag' = [ReparseTag EXCEPT ![f] = data[1]]
  /\ FileAttributes' = [FileAttributes EXCEPT ![f] = @ \cup {"REPARSE_POINT"}]
  /\ UNCHANGED <<nodes, eas, fileSecurity, children>>

SetReparsePoint(n) ==
  LET f == FileOf(n) IN
  /\ Opened(n) /\ f \notin children
  /\ \E data \in Tags \X Payloads :
       /\ CanReplace(reparseData[f], data)
       /\ reparseData' = [reparseData EXCEPT ![f] = data]
       /\ ReparseTag' = [ReparseTag EXCEPT ![f] = data[1]]
  /\ FileAttributes' = [FileAttributes EXCEPT ![f] = @ \cup {"REPARSE_POINT"}]
  /\ UNCHANGED <<nodes, eas, fileSecurity, children>>

KeepsTheAttribute(n) ==
  LET f == FileOf(n) IN
  /\ Opened(n) /\ reparseData[f] # NoData
  /\ reparseData' = [reparseData EXCEPT ![f] = NoData]
  /\ ReparseTag' = [ReparseTag EXCEPT ![f] = 0]
  /\ UNCHANGED <<nodes, FileAttributes, eas, fileSecurity, children>>

\* The caller has to name the tag the file has.
DeleteReparsePoint(n) ==
  LET f == FileOf(n) IN
  /\ Opened(n) /\ reparseData[f] # NoData
  /\ reparseData' = [reparseData EXCEPT ![f] = NoData]
  /\ ReparseTag' = [ReparseTag EXCEPT ![f] = 0]
  /\ FileAttributes' = [FileAttributes EXCEPT ![f] = @ \ {"REPARSE_POINT"}]
  /\ UNCHANGED <<nodes, eas, fileSecurity, children>>

SetSecurity(n) ==
  /\ Opened(n)
  /\ \E descriptor \in Descriptors :
       fileSecurity' = [fileSecurity EXCEPT ![FileOf(n)] = descriptor]
  /\ UNCHANGED <<nodes, FileAttributes, reparse, eas, children>>

-----------------------------------------------------------------------------
(* What callers see through a handle. *)

OwnEaSize(n) ==
  [FileAttributes |-> FileAttributes[FileOf(n)] \ (IF IsMainNode(n) THEN {} ELSE {"DIRECTORY"}),
   ReparseTag |-> ReparseTag[FileOf(n)], EaSize |-> EaSize[n]]

CopyFileInfo(n) ==
  [FileAttributes |-> FileAttributes[FileOf(n)] \ (IF IsMainNode(n) THEN {} ELSE {"DIRECTORY"}),
   ReparseTag |-> ReparseTag[FileOf(n)], EaSize |-> EaSize[Main(FileOf(n))]]

GetEa(n) == eaMap[FileOf(n)]

GetReparsePoint(n) ==
  IF "REPARSE_POINT" \in FileAttributes[FileOf(n)] THEN reparseData[FileOf(n)] ELSE NoData

Next ==
  \/ \E f \in Files : Create(f) \/ CreateStream(f) \/ Delete(f) \/ DeleteStream(f) \/ ChildrenChange(f)
  \/ \E n \in Nodes :
       \/ SetEa(n) \/ Overwrite(n) \/ OverwriteFails(n) \/ SetBasicInfo(n)
       \/ CleanupSetArchiveBit(n) \/ SetReparsePoint(n) \/ DeleteReparsePoint(n) \/ SetSecurity(n)

Spec == Init /\ [][Next]_vars

-----------------------------------------------------------------------------
\* Types; and a stream's metadata is that of a file that is there.
TypeOK ==
  /\ \A n \in nodes : Main(FileOf(n)) \in nodes
  /\ nodes \subseteq Nodes /\ children \subseteq Files /\ easThroughStream \subseteq Files
  /\ FileAttributes \in [Files -> SUBSET Attributes] /\ ReparseTag \in [Files -> Tags \cup {0}]
  /\ EaSize \in [Nodes -> 0 .. UlongModulus - 1]
  /\ reparseData \in [Files -> Tags \X Payloads \cup {NoData}]
  /\ \A f \in Files : DOMAIN eaMap[f] \subseteq EaNames
  /\ fileSecurity \in [Files -> Descriptors \cup {NoData}]

\* What a handle reports as the size of its EAs never says less than their
\* names and headers take, however often EAs were replaced, deleted, lost to a
\* failed insertion or dropped by Overwrite: the books SetEa keeps by addition
\* and subtraction do not fall behind, nor do they run below zero, where they
\* would turn into numbers no call can have reached by adding.  EAs set through
\* a stream go to the books of the stream, which nobody reads.
EasAreAnnounced ==
  \A n \in nodes : FileOf(n) \notin easThroughStream =>
    /\ CopyFileInfo(n).EaSize >= Cardinality(DOMAIN GetEa(n)) * EaOverhead
    /\ CopyFileInfo(n).EaSize <= MaxEaSize + MaxEas * (EaOverhead + MaxValueLength)

\* A handle that reports a reparse point finds its data, and with the tag it
\* reports: the attribute, the tag and the data, which Create, Overwrite,
\* SetBasicInfo, Set- and DeleteReparsePoint each change in part, agree.
ReparsePointConsistent ==
  \A n \in nodes :
    /\ "REPARSE_POINT" \in CopyFileInfo(n).FileAttributes =>
         GetReparsePoint(n) # NoData /\ GetReparsePoint(n)[1] = CopyFileInfo(n).ReparseTag
    /\ reparseData[FileOf(n)] = NoData <=> CopyFileInfo(n).ReparseTag = 0

\* The data of a reparse point is replaced by data with the same tag only,
\* also when an Overwrite or SetBasicInfo has taken the attribute away.
TagKept ==
  [][\A f \in Files : ReparseTag[f] # 0 /\ ReparseTag'[f] # 0 => ReparseTag'[f] = ReparseTag[f]]_vars

=============================================================================
