------------------------------- MODULE Service -------------------------------
(***************************************************************************)
(* The life of the process: the command line and the start and the stop of *)
(* the service (main.cpp), construction and destruction of the one MemFs   *)
(* (create.cpp), and the volume label (basic.cpp, volumeinfo.cpp).         *)
(*                                                                         *)
(* SvcStart and SvcStop run on threads of WinFsp's service runner, the     *)
(* file system's calls on dispatcher threads.  What WinFsp and Windows do  *)
(* is assumed where a definition says so; what they may refuse, they       *)
(* refuse here too.  A word of the command line is known here by what it   *)
(* is used for: the option it names, a number, and its length.             *)
(***************************************************************************)
EXTENDS Naturals, Sequences, FiniteSets, SequencesExt

nullptr == "nullptr"

\* The options, by their letters: those without a value and those with one.
Switches == {"f", "i"}

Valued == {"d", "D", "F", "S", "m", "s", "u", "l"}

Numeric == {"d", "s"}

Flag == [letter \in Switches |->
           IF letter = "f" THEN "MemfsFlushAndPurgeOnCleanup" ELSE "MemfsCaseInsensitive"]

CONSTANTS
  Words,        \* what the command line may be made of
  OptionOf,     \* the option a word names: its second character, behind a dash
  Length,       \* the characters of each word, as the label counts them
  Numbers,      \* the words wcstoll reads to their end
  MaxWords,     \* bound on the number of words
  Threads,      \* dispatcher threads
  Labels,       \* the lengths of the labels Windows asks for
  MAX_VOLUME_LABEL_STR_LENGTH

ASSUME WordsAssumption ==
  /\ OptionOf \in [Words -> Switches \cup Valued \cup {nullptr}] /\ nullptr \notin Words
  /\ Length \in [Words -> Nat] /\ Numbers \subseteq Words /\ MaxWords \in Nat
  /\ Labels \subseteq Nat /\ MAX_VOLUME_LABEL_STR_LENGTH \in Nat \ {0}

VARIABLES
  phase,          \* where SvcStart, SvcStop and the process are
  argv,           \* the words after the program's name
  argp,           \* how many of them have been read
  wanted,         \* the option whose value comes next
  options,        \* SvcStart's locals: the word given for each option,
  flags,          \* and the flags
  otherFlags,
  held,           \* whether MemFs::fileSystem holds the file system
  deleted,        \* how often FspFileSystemDelete was called with it
  volume,         \* the volume parameters it was created with
  heap,           \* the sector manager's heap
  GlobalMemFs,    \* main.cpp's pointer to the MemFs, once it is constructed
  rootSecurity,   \* the descriptor the constructor converts
  MEMFS_SINGLETON,
  dispatching,    \* whether the dispatcher takes calls
  calls,          \* the dispatcher threads inside a call
  volumeLabel     \* the length of MemFs::volumeLabel

commandLine == <<argv, argp, wanted, options, flags, otherFlags>>
resources == <<held, deleted, volume, heap, rootSecurity, GlobalMemFs, MEMFS_SINGLETON>>
serving == <<dispatching, calls, volumeLabel>>
vars == <<phase, commandLine, resources, serving>>

this == "this"

DefaultLabel == 6    \* the characters of "MEMEFS"

ASSUME LabelAssumption == DefaultLabel < MAX_VOLUME_LABEL_STR_LENGTH

-----------------------------------------------------------------------------
Init ==
  /\ phase = "parse" /\ argv \in SeqOf(Words, MaxWords) /\ argp = 0 /\ wanted = nullptr
  /\ options = [letter \in Valued |-> nullptr] /\ flags = "MemfsDisk" /\ otherFlags = {}
  /\ held = FALSE /\ deleted = 0 /\ volume = {} /\ heap = FALSE /\ rootSecurity = FALSE
  /\ GlobalMemFs = nullptr /\ MEMFS_SINGLETON = nullptr
  /\ dispatching = FALSE /\ calls = {} /\ volumeLabel = DefaultLabel

Goto(from, to) == phase = from /\ phase' = to

(* SvcStart's loop over the command line, one word at a time. *)

word == argv[argp + 1]

OperandWanted == wanted # nullptr /\ (argp < Len(argv) => OptionOf[word] = nullptr)

\* The next word is a value, whatever it looks like.
ValueWanted == wanted # nullptr

\* argtos, argtol and argtoll: a word that is not a number leaves the old one.
TakeValue ==
  /\ ValueWanted
  /\ options' = IF wanted \in Numeric /\ word \notin Numbers THEN options
                ELSE [options EXCEPT ![wanted] = word]
  /\ flags' = IF wanted = "u" /\ Length[word] > 0 THEN "MemfsNet" ELSE flags
  /\ wanted' = nullptr
  /\ UNCHANGED otherFlags

TakeSwitch ==
  /\ ~ValueWanted /\ OptionOf[word] \in Switches
  /\ otherFlags' = {Flag[OptionOf[word]]}
  /\ UNCHANGED <<wanted, options, flags>>

TakeOption ==
  /\ ~ValueWanted /\ OptionOf[word] \in Valued
  /\ wanted' = OptionOf[word]
  /\ UNCHANGED <<options, flags, otherFlags>>

ReadWord ==
  /\ phase = "parse" /\ argp < Len(argv)
  /\ TakeValue \/ TakeSwitch \/ TakeOption
  /\ argp' = argp + 1
  /\ UNCHANGED <<phase, argv, resources, serving>>

NoMountPoint == flags = "MemfsDisk" /\ options["m"] = nullptr

Usage ==
  /\ \/ argp < Len(argv) /\ ~ValueWanted /\ OptionOf[word] = nullptr
     \/ argp = Len(argv) /\ (ValueWanted \/ NoMountPoint)
  /\ Goto("parse", "usage")
  /\ UNCHANGED <<commandLine, resources, serving>>

AcceptOptions ==
  /\ argp = Len(argv) /\ ~ValueWanted /\ ~NoMountPoint
  /\ Goto("parse", "log")
  /\ UNCHANGED <<commandLine, resources, serving>>

\* A log file that cannot be opened ends like wrong options.
OpenDebugLog ==
  /\ \/ Goto("log", "construct")
     \/ options["D"] # nullptr /\ Goto("log", "failed")
  /\ UNCHANGED <<commandLine, resources, serving>>

(* MemFs::MemFs.  A CreateException unwinds the members and is caught, any *)
(* other exception ends the process.                                       *)

\* The member SectorManager, before the constructor's body.
CreateHeap ==
  /\ Goto("construct", "security")
  /\ heap' = TRUE
  /\ UNCHANGED <<commandLine, held, deleted, volume, rootSecurity, GlobalMemFs,
                 MEMFS_SINGLETON, serving>>

\* Windows and WinFsp may refuse the next two steps.
ConvertRootSecurity ==
  /\ \/ Goto("security", "create") /\ rootSecurity' = TRUE /\ UNCHANGED heap
     \/ Goto("security", "exit") /\ heap' = FALSE /\ UNCHANGED rootSecurity
  /\ UNCHANGED <<commandLine, held, deleted, volume, GlobalMemFs, MEMFS_SINGLETON, serving>>

CreateFileSystem ==
  /\ \/ /\ Goto("create", "root")
        /\ held' = TRUE
        /\ volume' = otherFlags
        /\ volumeLabel' = IF options["l"] = nullptr THEN volumeLabel
                          ELSE Length[options["l"]]
        /\ UNCHANGED <<heap, rootSecurity>>
     \/ /\ Goto("create", "exit")
        /\ rootSecurity' = FALSE /\ heap' = FALSE
        /\ UNCHANGED <<held, volume, volumeLabel>>
  /\ UNCHANGED <<commandLine, deleted, GlobalMemFs, MEMFS_SINGLETON, dispatching, calls>>

DeletesWithoutRelease ==
  /\ deleted' = IF held THEN deleted + 1 ELSE deleted
  /\ held' = held

\* MemFs::Destroy.
Destroy ==
  /\ deleted' = IF held THEN deleted + 1 ELSE deleted
  /\ held' = FALSE

\* The root may not fit into the map.
InsertRoot ==
  /\ \/ /\ Goto("root", "mount")
        /\ GlobalMemFs' = this /\ MEMFS_SINGLETON' = this
        /\ UNCHANGED <<held, deleted, heap>>
     \/ /\ Goto("root", "exit")
        /\ Destroy
        /\ heap' = FALSE
        /\ UNCHANGED <<GlobalMemFs, MEMFS_SINGLETON>>
  /\ rootSecurity' = FALSE
  /\ UNCHANGED <<commandLine, volume, serving>>

\* No heap, no memory, or a name too long for the volume parameters.
Terminate ==
  /\ phase \in {"construct", "security", "create", "root"}
  /\ phase' = "terminated"
  /\ UNCHANGED <<commandLine, resources, serving>>

-----------------------------------------------------------------------------
(* The rest of SvcStart: WinFsp may refuse the mount point and the start. *)

SetMountPoint ==
  /\ \/ Goto("mount", "start")
     \/ /\ options["m"] # nullptr /\ Length[options["m"]] > 0
        /\ Goto("mount", "exit")
  /\ UNCHANGED <<commandLine, resources, serving>>

Start ==
  /\ \/ Goto("start", "running") /\ dispatching' = TRUE
     \/ Goto("start", "exit") /\ UNCHANGED dispatching
  /\ UNCHANGED <<commandLine, resources, calls, volumeLabel>>

ExitLabel ==
  /\ Goto("exit", "failed")
  /\ IF GlobalMemFs # nullptr THEN Destroy ELSE UNCHANGED <<deleted, held>>
  /\ UNCHANGED <<commandLine, volume, heap, rootSecurity, GlobalMemFs, MEMFS_SINGLETON, serving>>

(* SvcStop, called by the service runner once SvcStart has succeeded. *)

DestroysBeforeStop ==
  /\ Goto("running", "stopping")
  /\ Destroy
  /\ dispatching' = FALSE
  /\ UNCHANGED <<commandLine, volume, heap, rootSecurity, GlobalMemFs, MEMFS_SINGLETON,
                 calls, volumeLabel>>

KeepsDispatching == Goto("running", "stopping") /\ UNCHANGED <<commandLine, resources, serving>>

Stop ==
  /\ Goto("running", "stopping")
  /\ dispatching' = FALSE
  /\ UNCHANGED <<commandLine, resources, calls, volumeLabel>>

\* FspFileSystemStopDispatcher waits for the threads, external to src/.
StopDispatcherReturns == calls = {}

StopDestroys ==
  /\ StopDispatcherReturns
  /\ Goto("stopping", "reset")
  /\ Destroy
  /\ UNCHANGED <<commandLine, volume, heap, rootSecurity, GlobalMemFs, MEMFS_SINGLETON, serving>>

\* ~MemFs, run by GlobalMemFs.reset or when the process ends, if it is set.
DeleteMemFs ==
  IF GlobalMemFs = nullptr THEN UNCHANGED resources
  ELSE /\ Destroy
       /\ heap' = FALSE /\ GlobalMemFs' = nullptr
       /\ MEMFS_SINGLETON' = IF MEMFS_SINGLETON = GlobalMemFs THEN nullptr ELSE MEMFS_SINGLETON
       /\ UNCHANGED <<volume, rootSecurity>>

Reset == Goto("reset", "stopped") /\ DeleteMemFs /\ UNCHANGED <<commandLine, serving>>

ExitProcess ==
  /\ phase \in {"usage", "failed", "stopped"} /\ phase' = "exited"
  /\ DeleteMemFs
  /\ UNCHANGED <<commandLine, serving>>

-----------------------------------------------------------------------------
(* Calls.  WinFsp runs SetVolumeLabel alone and GetVolumeInfo beside others. *)

BeginCall(t) ==
  /\ dispatching /\ t \notin calls
  /\ calls' = calls \cup {t}
  /\ UNCHANGED <<phase, commandLine, resources, dispatching, volumeLabel>>

LabelFits == volumeLabel <= MAX_VOLUME_LABEL_STR_LENGTH

\* memcpy_s finds the array too short for the label: its default handler ends
\* the process (external), the threads with it.
GetVolumeInfo(t) ==
  /\ t \in calls
  /\ IF LabelFits
     THEN calls' = calls \ {t} /\ UNCHANGED <<phase, dispatching>>
     ELSE phase' = "crashed" /\ calls' = {} /\ dispatching' = FALSE
  /\ UNCHANGED <<commandLine, resources, volumeLabel>>

KeepsLongLabels(t) ==
  /\ t \in calls
  /\ \E asked \in Labels : volumeLabel' = asked
  /\ calls' = calls \ {t}
  /\ UNCHANGED <<phase, commandLine, resources, dispatching>>

\* The GetVolumeInfo at its end finds a label that fits.
SetVolumeLabel(t) ==
  /\ t \in calls
  /\ \E asked \in Labels :
       volumeLabel' = IF asked >= MAX_VOLUME_LABEL_STR_LENGTH
                      THEN MAX_VOLUME_LABEL_STR_LENGTH - 1 ELSE asked
  /\ calls' = calls \ {t}
  /\ UNCHANGED <<phase, commandLine, resources, dispatching>>

\* Every other call: nothing of this module changes.
EndCall(t) ==
  /\ t \in calls
  /\ calls' = calls \ {t}
  /\ UNCHANGED <<phase, commandLine, resources, dispatching, volumeLabel>>

CallReturns(t) == GetVolumeInfo(t) \/ SetVolumeLabel(t) \/ EndCall(t)

\* What the runner does on its own, and what the dispatcher's threads do.
Runner ==
  \/ ReadWord \/ Usage \/ AcceptOptions \/ OpenDebugLog \/ CreateHeap \/ ConvertRootSecurity \/ CreateFileSystem
  \/ InsertRoot \/ Terminate \/ SetMountPoint \/ Start \/ ExitLabel \/ StopDestroys \/ Reset
  \/ ExitProcess

Ended == phase \in {"exited", "terminated", "crashed"} /\ UNCHANGED vars

Next ==
  \/ Runner \/ Stop \/ Ended
  \/ \E t \in Threads : BeginCall(t) \/ CallReturns(t)

Spec == Init /\ [][Next]_vars

FairSpec == Spec /\ WF_vars(Runner) /\ \A t \in Threads : WF_vars(CallReturns(t))

-----------------------------------------------------------------------------
TypeOK ==
  /\ phase \in {"parse", "usage", "log", "construct", "security", "create", "root", "mount",
                "start", "running", "stopping", "reset", "stopped", "exit", "failed", "exited",
                "terminated", "crashed"}
  /\ argv \in Seq(Words) /\ argp \in 0 .. Len(argv) /\ wanted \in Valued \cup {nullptr}
  /\ options \in [Valued -> Words \cup {nullptr}] /\ flags \in {"MemfsDisk", "MemfsNet"}
  /\ otherFlags \subseteq {Flag[letter] : letter \in Switches}
  /\ held \in BOOLEAN /\ deleted \in 0 .. 1
  /\ volume \subseteq {Flag[letter] : letter \in Switches}
  /\ heap \in BOOLEAN /\ rootSecurity \in BOOLEAN
  /\ GlobalMemFs \in {nullptr, this} /\ MEMFS_SINGLETON \in {nullptr, this}
  /\ dispatching \in BOOLEAN /\ calls \subseteq Threads /\ volumeLabel \in Nat

\* A call finds the file system, the MemFs its handlers and destructors reach
\* through UserContext and MEMFS_SINGLETON, and the heap of its sectors:
\* SvcStop tears them down only behind the last call.
CallsHaveFileSystem ==
  calls # {} => held /\ heap /\ GlobalMemFs = this /\ MEMFS_SINGLETON = this

\* WinFsp is asked to delete the file system once and no more, and only when
\* it was created: Destroy runs on every path that fails, in SvcStop and in the
\* destructor, which must find nothing left.  A process that exits has done so,
\* has freed its heap and the root's descriptor, and its unique_ptr, whose
\* deleter is not WinFsp's, holds nothing.
DeletedOnce ==
  /\ deleted + (IF held THEN 1 ELSE 0) <= 1
  /\ phase = "exited" =>
       /\ ~held /\ ~heap /\ ~rootSecurity
       /\ GlobalMemFs = nullptr /\ MEMFS_SINGLETON = nullptr

\* A call that ends the process found a label too long for the array of
\* MAX_VOLUME_LABEL_STR_LENGTH characters (volumeinfo.cpp:16), and that label
\* is the one given with -l, which create.cpp:79 takes whatever its length: no
\* label Windows has set, in whatever order the calls came, does that, and a
\* volume whose label was set once is safe from the one given.
OnlyOptionLabelCrashes ==
  phase = "crashed" => /\ ~LabelFits
                       /\ options["l"] # nullptr /\ volumeLabel = Length[options["l"]]

\* The ways to cut words into options, each with its value: where they start.
Cuts(words) ==
  {starts \in SUBSET DOMAIN words :
     /\ \A k \in starts : OptionOf[words[k]] # nullptr
     /\ \A k \in DOMAIN words :
          (k \in starts) # (k - 1 \in starts /\ OptionOf[words[k - 1]] \in Valued)
     /\ Len(words) \in starts => OptionOf[words[Len(words)]] \in Switches}

\* The places of the values that starts gives an option.
ValuesOf(words, starts, letter) ==
  {k \in DOMAIN words :
     /\ k - 1 \in starts /\ OptionOf[words[k - 1]] = letter
     /\ letter \in Numeric => words[k] \in Numbers}

LastValue(words, starts, letter) ==
  LET values == ValuesOf(words, starts, letter)
  IN  IF values = {} THEN nullptr
      ELSE words[CHOOSE k \in values : \A j \in values : j <= k]

\* A command line is refused exactly when it cannot be cut into options, each
\* with its value, or names neither a mount point nor a prefix; otherwise the
\* last value given for an option is the one used (the last number for -d and -s), and
\* no value is taken for an option nor an option for a value.
OptionsAsWritten ==
  /\ phase = "usage" =>
       \A starts \in Cuts(argv) :
         /\ ValuesOf(argv, starts, "m") = {}
         /\ \A k \in ValuesOf(argv, starts, "u") : Length[argv[k]] = 0
  /\ phase \notin {"parse", "usage", "exited"} =>
       \E starts \in Cuts(argv) :
         \A letter \in Valued : options[letter] = LastValue(argv, starts, letter)

\* README.md and the usage text: "-i [case insensitive file system]", "-f
\* [flush and purge cache on cleanup]".  The volume has what was asked for.
OptionsHonoured ==
  phase = "running" =>
    \A starts \in Cuts(argv) : \A k \in starts :
      OptionOf[argv[k]] \in Switches => Flag[OptionOf[argv[k]]] \in volume

\* Once Windows asks the service to stop, the process ends: SvcStop's wait
\* for the dispatcher ends because no call starts any more and each returns,
\* or ends the process before.
StopCompletes == phase = "stopping" ~> phase \in {"exited", "crashed"}

=============================================================================
