# TLA+ models of MemExtendedFs (memefs)

memefs is a user-mode RAM disk on WinFsp. This directory holds TLA+ modules
that model its core, TLC configurations that check them on small instances,
and TLAPS proofs of what holds for instances of any size. Paths below are
relative to `src/WinFsp-MemFs-Extended/`.

Every module is checked with `tlc -config <run>.cfg <module>` and proved with
`tlapm <module>`. `PROJECT.json` lists the runs, maps each definition to the
lines it models, and names for each property a change of the code's logic that
breaks it.

## 1. The system

WinFsp's driver turns file-system requests into calls of the functions in
`memfs-interface.h`, which several dispatcher threads make at once. The calls
work on these parts:

| Part | State | Operations | Modules |
|---|---|---|---|
| Sector manager (`sectors.cpp`) | per file a vector of pointers to 512-byte sectors and a `shared_mutex`; one heap; a global counter | `ReAllocate`, `Free`, `ReadWrite`, `GetAllocatedSectors` | `SectorArithmetic`, `SectorStore`, `SectorManager` |
| File map (`filemap.cpp`) | an ordered map from names to `FileNode*` | find, insert, remove, enumerate streams and descendants, test for children | `FileNames`, `Namespace` |
| Node lifetime (`nodes.cpp`) | a reference count and a raw pointer to the main node in each `FileNode` | `Reference`, `Dereference` (deletes at zero) | `Namespace` |
| Create, Open, Overwrite, Close (`filecreate.cpp`), Cleanup (`other.cpp`), Rename (`fileinfo.cpp`) | none of their own | sequences of the above | `Namespace`, sizes in `FileIO` |
| Sizes and data (`io.cpp`, `nodes-compat.cpp`) | `FileSize`, `AllocationSize` | Read, Write, SetFileSize | `FileIO` |
| Limit (`totalsize.cpp`) | `maxFsSize` and, without `-s`, a cache of the free memory | used, maximum and available size | `FileIO` (fixed limit) |
| Name comparison (`comparisons.cpp`, `utils.cpp`) | none | the order of the map | `NameOrder`; `FileNames` in `Namespace` |
| Listings (`dirinfo.cpp`, the walks of `filemap.cpp`) | none of their own: the kernel's marker | ReadDirectory in several calls, GetDirInfoByName, GetStreamInfo, `HasChild`, the enumerations | `Directory` |
| Metadata (`ea.cpp`, `reparse.cpp`, `security.cpp`, `SetEa` in `nodes.cpp`) | attributes, EAs and their size, reparse data and tag, security descriptor of each file, shared by its streams | Set and get of each; Create, Overwrite, SetBasicInfo and Cleanup change them too | `Metadata` |
| Life cycle (`main.cpp`, `create.cpp`), label (`basic.cpp`, `volumeinfo.cpp`) | the options, the one `MemFs` with its WinFsp object and heap, `MEMFS_SINGLETON`, the volume label | SvcStart with its command line, SvcStop, constructor and destructor, SetVolumeLabel, GetVolumeInfo | `Service` |

What makes these parts correct:

* Sector manager: a sector belongs to one place of one file, is neither leaked
  nor used after it was freed, the counter never lies in the dangerous
  direction, and nobody waits forever.
* File map and nodes: reference counts are exact, nothing that will be used
  was deleted, the names form a tree, and each call changes the tree at once.
* Names and listings: the comparison is a strict total order in which a file,
  its streams and what is below it are neighbours, since every walk stops at
  the first name that does not fit; a listing shows each name once and misses
  none that was there all the time.
* Metadata: what a handle announces (attributes, tag, size of the EAs) agrees
  with what it then finds, whichever calls changed which part of it.
* Life cycle: the file system exists as long as a call runs, is deleted once on
  every way out, options mean what is written, and stopping ends.
* Sizes: `FileSize <= AllocationSize <= sectors`, Reads return what was
  written, the limit is neither bypassed nor enforced for no reason.

What makes them hard: `ReAllocate` and `ReadWrite` of all threads interleave;
the counter is shared by all files; allocation fails half way; Close is not
covered by WinFsp's operation guard and may delete a node while an exclusive
call runs; enumerations hand out references somebody has to give back; the
limit is checked long before the memory is taken; a listing goes on from a
name that may be gone; two names are compared by ASCII code or by
`CompareStringW`, depending on both; EA sizes are kept by adding and
subtracting; a start can fail at nine places, before and after there is
something to take down; a stop comes while calls are under way.

## 2. Modules

* `SectorArithmetic`: bytes to sectors (`AlignSize`, `GetSectorAmount`) and the
  sectors a byte range touches, as `ReadWrite` computes them. Pure operators.
* `SectorManager`: every access of `ReAllocate` and `ReadWrite` to shared state
  is one action of a thread: taking the lock and reading the vector's size,
  the interlocked addition, `resize` (or its exception), each `HeapAlloc` and
  `HeapFree`, each `memcpy`, the return that unlocks. `Sectors[n]` is the
  vector, `heap` the blocks handed out, `exclusive`/`shared` the mutex.
  `Free` and the destructor are `ReAllocate(node, 0)`.
* `SectorStore`: the abstract specification of the sector manager. Its state is
  the sectors of each node as callers may rely on them and who copies; a
  ReAllocate cuts a node or appends sectors nobody else has at one instant, one
  that fails leaves places where a sector is missing, and no node with a
  transfer under way changes. `SectorManager` implements it (`ImplementsSectorStore`):
  its `VisibleSectors` and `RunningTransfer` are the refinement mapping.
* `FileNames`: a name is a path and a stream; prefix, parent, stream-of and the
  renaming of descendants as the code computes them.
* `Namespace`: `fileMap`, the live `FileNode`s with name, main node and
  reference count, the kernel's open and cleaned-up handles, and the place of
  each thread. Create, Overwrite, a deleting Cleanup and Rename are split where
  an unguarded Close or Cleanup can come between two of their steps; Open is
  split between finding the node and referencing it.
* `FileTree`: the abstract specification. Its only state is a partial function
  from names to nodes; it changes by `Add`, `Delete`, `DropStreams` and `Move`.
* `FileIO`: per file the contents of its sectors, the two sizes, and the call
  that waits for an allocation; the limit, the counter and the heap's capacity
  are shared. The check of the limit is one step, and `ReAllocate` is two: up go
  the counter (`Reserve`) and then the vector (`Grow`, `ResizeThrows`,
  `HeapAllocFails`), down go the vector (`Shrink`) and then the counter
  (`Subtract`). `owed` is what the counter has of a file beyond its vector between
  the two, `lost` what calls whose `resize` threw have left in it for good. A
  Create reserves for a node that is not in the map; if the heap fails, the
  node's destructor gives everything back in steps of its own. Deleting a file
  ends with the same destructor.
* `NameOrder`: `FileNameCompare` with the fast loop of `EfficientWcsnicmp` and
  its upper-case bit trick, `FileNameHasPrefix` and `PathSuffix`, on sequences
  of character codes. Pure operators; the loop over the components is a
  recursive function of the two positions it has reached, the loops inside it
  are minima of sets of positions.
* `Directory`: the map as the set of names in it, walked in the order of
  `NameOrder` by `HasChild` and the three enumerations as the code does, from
  `upper_bound` or `lower_bound` to the first misfit. `WalkWhile` is such a walk
  as a set, the names with no misfit before or at them; `InOrder` is the
  sequence an iterator comes to where the order of the answer counts. Further
  `ReadDirectory` called until the end is reached while names are created and
  deleted; `GetDirInfoByName` tests a length, puts a key together and
  searches for it, and `GetStreamInfo` names the streams of a file for which the
  buffer has room and says whether that is all. `FileNames` and `Namespace` use sets where the code walks;
  `WalksAreComplete` is what justifies that.
* `Metadata`: per file the attributes, the tag and data of the reparse point,
  the EAs and the security descriptor, and per node the `EaSize` it keeps. A
  call is one step; `SetEa` is folded over the list of EAs as WinFsp's
  enumeration does, up to the insertion that throws. `CopyFileInfo`, `GetEa` and
  `GetReparsePoint` are what callers see; the properties are about them.
* `Service`: the command line as a sequence of words read like `SvcStart`'s
  loop, then one action per step of `SvcStart`, of the constructor and of
  `SvcStop`, each with its failures, and dispatcher threads that are inside
  calls, of which `SetVolumeLabel` and `GetVolumeInfo` use the label. `Destroy` is the one function all ways out share.
* `MC...` modules add symmetry sets, names and weights.
* `SectorArithmeticProofs`, `SectorManagerProofs`, `FileIOProofs`,
  `MetadataProofs`, `ServiceProofs`, `NamespaceProofs`, `NamespaceTreeProofs` and
  `DirectoryProofs` hold the theorems of section 5.

## 3. What is assumed about the outside

Callers of the sector manager (`CallReAllocate`, `CallReadWrite`): the kernel
holds its per-file locks, so no transfer runs beyond the size a concurrent
change of the same file cuts it to, and `io.cpp` keeps each range below the
file size. Without this the code itself does not protect the transfer (the
test at `sectors.cpp:136` lets `sectorEnd = sectorCount` pass).

WinFsp (external definitions of `Namespace`): `src/` chooses no guard
strategy, so the default applies: Create, Overwrite, a deleting Cleanup and
Rename run alone, Open runs next to other Opens, Close and other Cleanups are
not guarded. A call starts in the model when it has the guard. The kernel
names only files that are in the map in Overwrite, Rename and Cleanup, never
renames or deletes the root or renames a stream, renames only into an existing
directory outside the renamed subtree, and keeps a file open while one of its
streams is open. Streams of the root directory are left out.

`FileIO` additionally lets the kernel serialise the calls on one file, Reads
beside size changes included (the properties about Reads are stated where none
cuts the vector, `Usable`); calls on different files interleave freely, except
that Create and Overwrite exclude each other. A Create whose `InsertNode` throws
is in `Namespace` only; the sectors of the node it leaks stay counted.

`Directory`: WinFsp's buffer takes at least one entry and never ends right
behind "..": if it did, `ReadDirectory` would go on behind the name ".." and
skip every child that sorts before it (`dirinfo.cpp:33` resets the marker
only after `.`). A directory being listed is open and so not deleted.
`CompareStringW` is external: it compares character by character with the
weights of `MCDirectory`, symbols before letters and letters by the alphabet.
Real collation has more levels; the finding needs only this much of it. Every
name that is not a stream counts as a directory here. `SpellingAssumption` says
what names the map holds: components and stream names are not empty, contain no
separator, no component is `.` or `..`, and with `-i` no two are equal but for the
case of their letters (one spelling stands for all, as the map has one node for
all of them; the others occur as keys of `LookupAgreesWithListing`). A caller's
buffer for `GetStreamInfo` has room for any number of entries, also none.

`FileIO` stops a file at a null sector: a copy to or from it ends the process.
The exception that `Rename` throws when `InsertNode` fails also ends the
process and is not modelled.

`Metadata`: the kernel serialises calls that change one file's metadata. An
attribute mask that Windows passes never adds `REPARSE_POINT` nor changes
`DIRECTORY` (`MayBecome`); if it did, a file could be a reparse point without
data. `FspFileSystemGetEaPackedSize` is a constant for the name plus the length
of the value.

`Service`: the service runner calls SvcStop once, after a SvcStart that
succeeded, and `FspFileSystemStopDispatcher` returns when no thread is inside a
call and takes no new one. Windows and WinFsp may refuse each step they are
asked for. `memcpy_s` with a source longer than its array calls the C library's
handler for invalid parameters; `src/` sets none, and the default one ends the
process: `GetVolumeInfo` with a label of more than 32 characters is the phase
"crashed". An exception that nobody catches ends the process (`Terminate`).

What is abstracted everywhere: a call that fails before it changed anything is
a stuttering step; times are left out; `Namespace` has of the attributes the
directory bit only; the order in which loops visit enumerated nodes is left open
(the model allows every order); `Dereference` with its `delete` is one step,
and so is an enumeration with its `Reference`s (it runs under the guard); sizes
are mathematical integers. The 64-bit wrap-around of the disk-full test is a
property (`QuotaNeverWraps`), the 32-bit one of the node size is in the model
(`UlongModulus`); `AlignSize` of sizes within 512 bytes of 2^64 is not.

## 4. Runs

Passing runs:

| Run | Question | Size |
|---|---|---|
| `SectorManager_safety` | Three threads on two nodes, a heap that suffices: types, exact counter, no copy beyond or behind the vector, granted ranges accepted, stable vectors under readers | 60 thousand states |
| `SectorManager_failures` | Two threads, a heap that runs out and `resize` that throws: no sector lost or shared, the counter never too low, refinement of `SectorStore`, mutexes are given back and calls return | 210 thousand |
| `Namespace_tree` | Paths of two components, one stream name, two threads, insertions that fail: reference counts, dangling pointers, the tree, open streams survive Overwrite, and refinement of `FileTree` | 570 thousand |
| `FileIO` | Two files, sizes of up to five bytes, every alignment: Reads return what was written, nested sizes, and the disk-full test near the limit and near the end of the heap, with a `resize` that throws | 400 thousand |
| `Directory_listing` | Names of two components that differ in the case bit only, or by a character below both separators, and a stream: the order, the walks, lookups by name, streams in buffers of any size, and listings in several calls while names come and go | 76 thousand |
| `Metadata` | A file or directory with a stream: EAs, attributes, reparse point and security changed through both nodes, with failures | 73 thousand |
| `Service_lifecycle` | Every command line of up to four words of nine, every failing step of start and stop, two dispatcher threads, labels around and above the array they are copied to | 92 thousand |

Runs in which TLC finds a violation, each a disagreement between the code and
its own text:

| Run | What it shows |
|---|---|
| `SectorManager_retry` | The roll-back after a failed allocation never happens (`sectors.cpp:65`, `:84` compare bytes with sectors). A second call then succeeds without allocating and grants a null sector. |
| `Namespace_orphans` | Rename over a file with streams leaves the streams in the map, pointing at the deleted node (`fileinfo.cpp:97`). |
| `Namespace_overwrite_leak` | The references Overwrite takes to streams are never given back (`filecreate.cpp:194`), so removed streams are never freed. |
| `Directory_order` | The order of names is not transitive with `-i`: Z < _ < é < Z, because the ASCII loop and `CompareStringW` (`comparisons.cpp:36`) order differently. |
| `Service_options` | `-f` and `-i` overwrite each other's flag (`main.cpp:85`, `:91`): of the two, the volume has the one given last. |

Six more behaviours were met while modelling. They have no run of their own,
since no text of the repository says otherwise; each is in the models, and the
properties name it where it is an exception.

* The path-length check of Rename returns without giving back the descendants'
  references (`fileinfo.cpp:89`), and a Create whose `InsertNode` fails loses the
  moved node (`filecreate.cpp:119`). `RefCountExact` counts such references as
  lost; `Namespace_overwrite_leak` reaches neither path.
* The disk-full test (`nodes-compat.cpp:29`) does not count what
  `GetUsedTotalSize` later reports for pointers and nodes, and it runs before
  the allocation, so the total may pass the `-s` limit by that much and by what
  concurrent calls add.
* A `resize` that throws leaves its reservation in the counter
  (`sectors.cpp:59`), and what another call has reserved or not yet subtracted
  counts as well: a size change that fits may be refused. `RefusedOnlyWhenFull`
  says that each refusal is accounted for, with both of these in the account.
* `GetDirInfoByName` counts a backslash behind the root that it does not put
  (`dirinfo.cpp:53`): an entry of the root as long as Create allows is listed but
  not found (`IsLongestInRoot` in `LookupAgreesWithListing`). WinFsp's and the
  kernel's own limit of 255 characters for a component may keep such a name away
  (external); `Directory` has it.
* A label of more than 32 characters given with `-l` is copied as it is
  (`create.cpp:79`, `volumeinfo.cpp:16`) and ends the process at the first
  `GetVolumeInfo`, unless the label was set before. `OnlyOptionLabelCrashes` says
  that no other label does.
* `SetEa` takes off the size of the EA that comes, not of the one that goes
  (`nodes.cpp:143`): after a replacement by a longer value `EaSize` is below the
  packed size of what is there. `EasAreAnnounced` is about names and headers.

### Bounds

* `MaxSectors = 2`, a sector of 2 bytes: a range can begin inside a sector,
  cross a boundary and end inside one; a vector can grow and shrink by one and
  by two. Three threads: two on one node and one on another, or a writer with
  two readers. In `SectorManager_failures` a sector has one byte, two threads
  want up to four sectors and two are there.
* `ThrowBound`: a throwing `resize` leaves the counter higher for good, so it
  may only throw while the counter is at most this; 0 means never.
* `MaxOpens` bounds handles at once, `MaxLeaks` the references one node loses
  for good (Overwrite can lose one each time), `EmplaceThrows` and
  `ReplacesStreams` switch the map's out-of-memory path and the replacement of
  files with streams. The latter is off in the passing runs because of
  `Namespace_orphans`: once a stream has lost its file, the tree is broken and
  later steps add nothing.
* `MAX_PATH` is in components: one or two. A Rename to a longer path is what
  reaches the early return.
* `FileIO`: five bytes in sectors of two, so that every alignment of a range
  and a third, partly filled sector occur; a heap of three sectors and a limit
  of ten, which three sectors with their pointers and two nodes pass, so that
  both the limit and the heap stop calls. One value is enough for the data: a
  byte that is lost, moved or left out reads as uninitialised. `ThrowBound = 1`
  lets `resize` throw until the counter is at two sectors. `WritersAreAlone` is a
  constraint on the states that are explored: beside a file that is written to,
  or one that has or asks for more than `SharedSize = 3` bytes, the other file is
  absent or keeps one sector and does nothing. Data is not shared between
  files, and two files of up to two sectors each already compete for three;
  what the larger sizes add is found by one file alone. The run does not check for deadlock, since a Write that meets
  a null sector (see `SectorManager_retry`) ends the process.
* `Metadata`: two EA names, lengths 0 (a deletion), 1 and 2, lists of up to two
  EAs: replaced by a longer and a shorter one, deleted when present and when
  not, failing at the first or the second. `MaxEaSize` bounds the size from which
  a call that changes a file's EAs starts, which Overwrite lets grow; what the
  call makes of it is not restricted. `UlongModulus` is beyond `MaxEaSize` by more
  than a list adds, so that a sum over the top does not occur and one that ran
  below zero may show as a size no list can have reached.
* `Service`: four words are an option with a value twice, or two options and a
  switch; the lengths of labels, those of `-l` and those that calls set,
  are below, at and above `MAX_VOLUME_LABEL_STR_LENGTH`.
* `Directory_listing`: at most `MaxNames = 4` names with the root, from the
  components `a`, `a!`, `@` and `` ` `` (the neighbours of the upper- and
  lower-case alphabets) and `bbbbb`, paths of one or two components and one
  stream. `MEMFS_MAX_PATH = 7` makes `bbbbb` the longest name Create allows, and
  that in the root only; the others fit everywhere but in it. Four
  names are a directory with two children, or a file with a stream, a child
  and a neighbour; five give the same verdict and take minutes. The case-
  sensitive order (`CaseInsensitive = FALSE`) is in the module but has no run.

### Fairness

`SectorManager_failures` assumes weak fairness of each thread's `Step`, that
is, a thread inside the manager that can go on does. The operating system
schedules runnable threads, and every blocking point of the code is a mutex.
Nothing is assumed about who gets a contended mutex, so `CallsReturn` is
conditional on calls ceasing: with an endless stream of readers a writer may
starve.

`Service_lifecycle` assumes weak fairness of the runner's own steps (`Runner`,
without `Stop`, which Windows need never ask for) and of each call's return:
the handlers are finite, and that those which wait for a mutex return is
`CallsReturn`. Nothing is assumed about new calls.

## 5. Proofs

`SectorArithmeticProofs` proves the arithmetic for every sector size:
`SectorsFor(size)` is the least number of sectors that hold `size` bytes
(`SectorsForBounds`, `SectorsForLeast`), it is monotonic, and
`RangeInVectorIsSafe`: a range that ends inside the vector is accepted and
touches only sectors of the vector. The tolerant test at `sectors.cpp:136` is
therefore harmless for callers that stay below the file size.

`SectorManagerProofs` proves, for any number of threads, nodes and sectors and
from the named assumptions on the constants only:

* `LocksExclude`: who is inside a node's mutex is exactly who the labels say,
  and a writer is alone. This is the base of everything else.
* `ReadersSeeStableVectors`: the action property, from `LocksExclude`.
* `HeapIsExact` and `SectorsAreNotShared`. Neither is inductive: a freed pointer
  stays in its vector until the resize, so the invariant speaks about *owned*
  places, and it needs what the locals of `ReAllocate` say about the vector
  (its size has not changed since the lock was taken, the places from `i` on
  are null while allocating, those below are released while freeing).
* `GrantedRangesAreAccepted` and `CopiesAreSafe`: from the relation between the
  range of a transfer, what the node was granted and what a concurrent
  `ReAllocate` wants.
* `CounterIsExact` and `CounterIsNeverBelow`: the counter is the cardinality of
  the set of counted places, so each step adds or removes a set of known size.
  `CounterIsExact` assumes `ThrowBound = 0`; `CounterIsNeverBelow` does not.
* `TypeCorrect`, whose last conjunct (the unsigned counter does not wrap)
  follows from `CounterIsNeverBelow`.
* `RollBackUnreachable`: the condition of the roll-back is false for every
  sector size of at least one byte;

and, on top of that, that what callers see of the sector manager is the
abstract store, and what of it holds only while the heap suffices:

* `Implements`: `Spec => ImplementsSectorStore`. The invariants above make each
  action a step of the store under the mapping `VisibleSectors`,
  `RunningTransfer`: what a shrinking call cuts off is gone when it takes the
  lock, what a growing one adds is there when it unlocks, everything between is
  a stutter.
* `CopiesFindTheirSector` and `GrantedSectorsStayPresent` assume
  `HeapAllocSucceeds`, the action property that no step is a failed `HeapAlloc`,
  and nothing else. The assumption is needed: `SectorManager_retry` shows
  `GrantedSectorsPresent` violated without it.

`ServiceProofs`, for any words, numbers of words, threads and labels:

* `TypeCorrect`, `CallsAlwaysHaveFileSystem` and `DeletesOnce` from `PhaseInv`,
  which says what of the file system, the heap, the root's descriptor and the
  two pointers exists in each phase of start, stop and exit.
* `OptionsAlwaysAsWritten` from `ParseInv`: there is a set of positions at which
  an option starts, and `SvcStart` has read by it as far as it has come. That
  the set is unique is proved through the least position where two differ.
* `OnlyLabelOfOptionCrashes` from `LabelInv`: a label that does not fit is the one
  of the last `-l`, still unchanged, whatever its length; every label set later is
  cut by the code.

`FileIOProofs`, for any finite set of files, sector size, limit and heap:

* `TypeCorrect`, `SizesStayNested` and `RangesAreAccepted` from `NestedInv`,
  together with what a call that waits for its allocation has checked (`CallInv`).
* `QuotaIsExact` and `RefusalsAreAccountedFor` from `CounterInv`: the counter is
  the cardinality of the set of entries of all vectors and of what calls under
  way owe (`Counted`), plus `lost`. That a refusal is accounted for is then
  arithmetic: the test subtracts from the sum no more than the file itself
  accounts for.
* `ReadsAreFaithful` from `DataInv`, which says in which byte of which sector
  each written byte lives, and from `TransferIsExact`: the recursive function
  that runs the loop of `ReadWrite` is solved in closed form, for every sector
  size, offset and length.

`MetadataProofs`, for any files, tags, EA names and lists of EAs:

* `EasAreAlwaysAnnounced`: `SetEa` folded over a list is a chain of states, and
  the size covers the map in each of them, by the least state in which it would
  not, and bounded by what the EAs before added. `EaAssumption` keeps the sums
  below `UlongModulus`: that a call starts from a size far from the end of a `ULONG`
  (`MaxEaSize`) is a bound of the model, which the code does not test; what it ends
  with is proved.
* `ReparsePointsConsistent` from `ReparseInv`, and the action property `TagsAreKept`.

`NamespaceProofs`, for any names, nodes, threads, and number of handles, and
whether or not insertions fail or files with streams are replaced:

* `ReferencesAreExact` and `TypeCorrect`. `RefCountExact` is not inductive: what
  a step does to a count depends on whether the node is in the map, and what a
  call under way will do depends on where its loop stands. `Inv` adds that a
  guarded call is alone (`AloneInv`), that a node is found under its own name
  (`LinkInv`), that what is counted is alive (`AliveInv`), and for each label
  what the locals of the call say: what Overwrite enumerated is in the map until
  it is removed; what Rename enumerated begins with the old name, fits
  `MAX_PATH` under the new one and is in the map, except the renamed node itself
  when it was removed as what stood under the new name (`Movable`, `InPlace`).
  Since at most one thread holds references, what is held is a sum of two
  indicators (`HeldByOne`).
* `NoNodeInUseIsDeleted`: the part of `NothingDangles` that reference counts are
  for, also for Renames that leave orphaned streams behind. The main node of an
  open stream is kept alive by the kernel's handles and the shape of the tree,
  not by a count; that part is in `NoCallDangles`.
* `OverwriteSparesOpenStreams` from the invariant of the loop of Overwrite.

`NamespaceTreeProofs`, for the same, as long as Rename replaces no file that has
streams (`ReplacesStreams = FALSE`, a hypothesis of the three theorems, not of the
module: `Namespace_orphans` shows what becomes of the tree without it):

* `MapIsTree`. That the map is a tree is true only at rest, so the invariant,
  `TreeInv`, says of the map at the last return (`settled`) that it is a tree
  whose parents are directories and whose streams have their files as main nodes
  (`SettledInv`), and of the map while a call runs how it differs from that
  (`PhaseInv`): by one new name in Create; by some streams of one file in
  Overwrite and Cleanup, which moreover enumerated all of them and found no
  child; and in Rename by the descendants that are under their new names already
  and the one that is under none (`HalfMoved`), which needs what Rename found
  when it began (`MoveBegun`: the new parent is a directory, nothing but the moved
  nodes is below the new name) and that a node which has still to move has its
  old name (`UnmovedName`). That the tree Rename leaves is one is
  `PlaceAfterMove`, from lemmas on names: renaming is injective, and it commutes
  with the parent (`RenamedParent`) and the main name (`RenamedMain`).
* `NoCallDangles`: the whole of `NothingDangles`. `OpenInv` and `LastHandleInv` add
  that the file of an open stream, or of one being opened, is open.
* `NamespaceImplementsFileTree`: `settled` changes at the returns of Create,
  Overwrite, Cleanup and Rename only, and there `PhaseInv` makes it a step of
  `FileTree`: `Add`, `DropStreams`, `Delete`, `Move`. Everything else stutters.

`DirectoryProofs`, for names of any length, trees of any depth, maps of any size
and listings of any number of calls. Its theorems about the runs' properties have
one hypothesis, `OnlyAscii`: with `-i`, no character is above 127, so that
`EfficientWcsnicmp` never leaves its fast loop. Without `-i` it says nothing, and
the theorems hold for all names, which also answers for the case-sensitive order
that has no run. With `-i` it cannot be dropped: `Directory_order` shows an order
that is not transitive.

* `CompareIsLexicographic`: `FileNameCompare` skips separators, compares
  components and ranks the separators it skipped; the theorem says that on the
  names the map holds all this is the lexicographic order of the characters in
  which a colon is least, a backslash next and letters are folded
  (`UpperCharIsUpperCase`). The recursive function is followed round by round: as
  long as the names agree, both positions are the same and at a separator, and
  the round in which they stop agreeing returns the sign of the first difference.
  Instead of an induction, which no backend can instantiate, the proof takes the
  last such position from which the result is still the whole result; the
  induction over the components of a name (`UpInduction`) takes a shortest name.
* `OrderIsStrict` follows, since a first difference decides and two spellings
  without one are equal; with `-i`, this is where `SpellingAssumption` is used.
* `PrefixIsFaithful`: the test `FileNameHasPrefix` makes on the characters holds of
  a name and a name below it, or a stream of it, and of no other pair.
* `WalksFindAll`. A walk that stops at the first misfit finds all if what it looks
  for is one stretch of the order that begins where the walk does:
  `StretchOfPrefix` says that a name between a directory and a name which begins
  with it begins with it too, and goes on with no greater character; because a
  colon is below a backslash and both are below all others, a file's streams come
  right behind it and then what is below it. `HasChild`
  reads one name only, and is right because the map is closed under parents
  (`TreeInv`, inductive by itself): the first descendant is a child.
* `LookupFindsWhatIsListed` (the key put together is the spelling of the child, but
  for the case; two such spellings are equally long, and `TreeInv` has that none
  in the map reaches `MEMFS_MAX_PATH`, so that the length test turns down the
  longest names of the root and no other) and `StreamsAreAllNamed`, both from the
  walks.
* `TypesAreKept` and `ListingMissesNothing` from `ListingInv`. `ListingIsFaithful` is
  not inductive: the next call goes on from the marker alone, whose name may have
  been deleted. The invariant says that there is a name `n` the listing has got to
  (`ListedUpTo`), in the map or not: nothing listed comes after it, and nothing
  that stayed and is not listed comes before it. A call that begins at the upper
  bound of the marker's key then shows just what comes after `n`.

What stays with TLC:

* Liveness: `EveryHolderReleases`, `CallsReturn`, `StopCompletes`. TLAPS does not
  reason about ENABLED.

And outside both: names with characters above 127 on a case-insensitive volume,
whose order is that of `CompareStringW`, which is not part of the code.

## 6. Hazards

`PROJECT.json` lists the hazards with their lines and the properties that cover
them. Not covered: the cached automatic limit (`totalsize.cpp:26`), the `ULONG` that
counts the nodes (`totalsize.cpp:8`), which wraps in `FileIO` too and only makes
the total too small, the values' part of `EaSize` (`nodes.cpp:143`), streams of
the root directory (`filemap.cpp:115`), which sort before the root and so are
never enumerated, and EAs set through a stream (`nodes.cpp:155`): `Metadata` has
them, they make the announced size too small, and `EasAreAnnounced` excepts the
files concerned, because `src/` does not say whether Windows allows it. Not
covered by their nature: `GetStreamInfo` and `SetReparsePoint` walking the map
without the guard (`other.cpp:72`, `reparse.cpp:45`), which is undefined
behaviour under a concurrent Create or Rename, exceptions that leave a callback
and end the process, and overlapping Writes under the shared lock, which only
the kernel prevents.

## 7. Not modelled, and why

* The automatic limit without `-s`: its answer depends on the machine's free
  memory and on a clock, and nothing is promised about it. What follows from
  any answer, a refusal or an allocation that fails, is in `FileIO`.
* Times: `TouchParent` and the handlers assign the current time; no property
  relates two of them.
* `NeedsEa` and the check in Open that uses it, and the statuses of
  GetSecurityByName: they read state and change none.
* The ROT13 device control transforms a buffer and has no state.
* How security descriptors are merged and reparse points resolved: WinFsp does.
* `memfs-interface.h`, `exceptions.*` and `dynamicstruct.h`: the table of
  callbacks, exception classes and an owning buffer.
* The stress testers, the random files tester, Fsbench and the installer are
  programs around the file system, not part of it.

## 8. State

All components but those of section 7 are modelled and checked, and every safety
property of the passing runs is proved. What could be added: a model of the
automatic limit, and a weaker hypothesis than `OnlyAscii` that says of
`CompareStringW` just what the order needs (on the characters that occur, it
agrees with the fast loop and is a total order).
