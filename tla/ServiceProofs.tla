---------------------------- MODULE ServiceProofs ----------------------------
(***************************************************************************)
(* The life of the process for any command line, any number of dispatcher  *)
(* threads and any labels: what each phase holds, and how the command line *)
(* is read.                                                                *)
(***************************************************************************)
EXTENDS Service, SequenceTheorems, WellFoundedInduction, TLAPS

-----------------------------------------------------------------------------
(* What the process holds in each phase. *)

\* Nothing is left, or nothing was made yet.
Clean ==
  ~held /\ ~heap /\ ~rootSecurity /\ GlobalMemFs = nullptr /\ MEMFS_SINGLETON = nullptr

Complete ==
  /\ held /\ heap /\ ~rootSecurity /\ deleted = 0
  /\ GlobalMemFs = this /\ MEMFS_SINGLETON = this

\* WinFsp's object is gone, the MemFs is not.
Destroyed ==
  /\ ~held /\ heap /\ ~rootSecurity /\ deleted = 1
  /\ GlobalMemFs = this /\ MEMFS_SINGLETON = this

NotYetBuilt == deleted = 0 /\ GlobalMemFs = nullptr /\ MEMFS_SINGLETON = nullptr

PhaseInv ==
  /\ phase \in {"parse", "usage", "log", "construct"} => Clean /\ deleted = 0
  /\ phase = "security" => heap /\ ~rootSecurity /\ ~held /\ NotYetBuilt
  /\ phase = "create" => heap /\ rootSecurity /\ ~held /\ NotYetBuilt
  /\ phase = "root" => heap /\ rootSecurity /\ held /\ NotYetBuilt
  /\ phase \in {"mount", "start", "running", "stopping", "crashed"} => Complete
  /\ phase = "reset" => Destroyed
  /\ phase = "exit" => Complete \/ Clean
  /\ phase = "failed" => Destroyed \/ Clean
  /\ phase \in {"stopped", "exited"} => Clean
  /\ phase = "terminated" => deleted = 0
  /\ dispatching => phase = "running"
  /\ calls # {} => phase \in {"running", "stopping"}

ServiceInv == TypeOK /\ PhaseInv

-----------------------------------------------------------------------------
(* The two halves of the type invariant. *)

CommandLineOK ==
  /\ argv \in Seq(Words) /\ argp \in 0 .. Len(argv) /\ wanted \in Valued \cup {nullptr}
  /\ options \in [Valued -> Words \cup {nullptr}] /\ flags \in {"MemfsDisk", "MemfsNet"}
  /\ otherFlags \subseteq {Flag[letter] : letter \in Switches}

ProcessOK ==
  /\ phase \in {"parse", "usage", "log", "construct", "security", "create", "root", "mount",
                "start", "running", "stopping", "reset", "stopped", "exit", "failed", "exited",
                "terminated", "crashed"}
  /\ held \in BOOLEAN /\ deleted \in 0 .. 1
  /\ volume \subseteq {Flag[letter] : letter \in Switches}
  /\ heap \in BOOLEAN /\ rootSecurity \in BOOLEAN
  /\ GlobalMemFs \in {nullptr, this} /\ MEMFS_SINGLETON \in {nullptr, this}
  /\ dispatching \in BOOLEAN /\ calls \subseteq Threads /\ volumeLabel \in Nat

LEMMA TypeHalves == TypeOK <=> CommandLineOK /\ ProcessOK
BY DEF TypeOK, CommandLineOK, ProcessOK

LEMMA TypeHalvesAfter == (TypeOK <=> CommandLineOK /\ ProcessOK)'
BY TypeHalves, PTL

LEMMA CommandLineKept ==
  ASSUME CommandLineOK, UNCHANGED commandLine
  PROVE  CommandLineOK'
BY DEF CommandLineOK, commandLine

LEMMA ArgvType == ASSUME NEW words \in SeqOf(Words, MaxWords) PROVE words \in Seq(Words)
<1>1. PICK m \in 0 .. MaxWords : words \in [1 .. m -> Words]
  BY DEF SeqOf
<1> QED BY <1>1, SeqDef, WordsAssumption

LEMMA ServiceInit == Init => ServiceInv
<1> SUFFICES ASSUME Init PROVE ServiceInv
  OBVIOUS
<1>1. argv \in Seq(Words) /\ Len(argv) \in Nat
  BY ArgvType, LenProperties DEF Init
<1>2. CommandLineOK
  <2>1. argp = 0 /\ argp \in 0 .. Len(argv)
    BY <1>1 DEF Init
  <2>2. options \in [Valued -> Words \cup {nullptr}]
    BY DEF Init
  <2>3. wanted = nullptr /\ flags = "MemfsDisk" /\ otherFlags = {}
    BY DEF Init
  <2> QED BY <1>1, <2>1, <2>2, <2>3 DEF CommandLineOK
<1>4. ProcessOK
  <2>1. held = FALSE /\ heap = FALSE /\ rootSecurity = FALSE /\ dispatching = FALSE
    BY DEF Init
  <2>2. phase = "parse" /\ deleted = 0 /\ volume = {} /\ calls = {} /\ volumeLabel = 6
    BY DEF Init, DefaultLabel
  <2>3. GlobalMemFs = nullptr /\ MEMFS_SINGLETON = nullptr
    BY DEF Init
  <2>4. /\ deleted \in 0 .. 1 /\ volumeLabel \in Nat
        /\ volume \subseteq {Flag[letter] : letter \in Switches} /\ calls \subseteq Threads
    BY <2>2
  <2> QED BY <2>1, <2>2, <2>3, <2>4, Zenon DEF ProcessOK
<1>3. PhaseInv
  BY DEF Init, PhaseInv, Clean
<1> QED BY <1>2, <1>3, <1>4, TypeHalves DEF ServiceInv

LEMMA WordType ==
  ASSUME TypeOK, argp < Len(argv)
  PROVE  /\ word \in Words /\ argp + 1 \in 0 .. Len(argv)
         /\ OptionOf[word] \in Switches \cup Valued \cup {nullptr}
<1>1. argp \in Nat /\ Len(argv) \in Nat /\ argp + 1 \in 1 .. Len(argv)
  BY LenProperties DEF TypeOK
<1>2. word \in Words
  BY <1>1, ElementOfSeq DEF TypeOK, word
<1> QED BY <1>1, <1>2, WordsAssumption

\* The steps on the command line make nothing.
LEMMA ReadWordKeepsInv ==
  ASSUME ServiceInv, ReadWord
  PROVE  ServiceInv'
<1>1. /\ word \in Words /\ argp + 1 \in 0 .. Len(argv)
      /\ OptionOf[word] \in Switches \cup Valued \cup {nullptr}
      /\ UNCHANGED <<phase, argv, resources, serving>> /\ argp' = argp + 1
  BY WordType DEF ServiceInv, ReadWord
<1>2. CommandLineOK /\ ProcessOK
  BY TypeHalves DEF ServiceInv
<1>3. CommandLineOK'
  <2>1. CASE TakeValue
    BY <1>1, <1>2, <2>1 DEF CommandLineOK, TakeValue, ValueWanted
  <2>2. CASE TakeSwitch
    BY <1>1, <1>2, <2>2 DEF CommandLineOK, TakeSwitch
  <2>3. CASE TakeOption
    BY <1>1, <1>2, <2>3 DEF CommandLineOK, TakeOption
  <2> QED BY <2>1, <2>2, <2>3 DEF ReadWord
<1>4. ProcessOK'
  BY <1>1, <1>2 DEF ProcessOK, resources, serving
<1>5. PhaseInv'
  BY <1>1
     DEF ServiceInv, PhaseInv, Clean, Complete, Destroyed, NotYetBuilt, resources, serving
<1> QED BY <1>3, <1>4, <1>5, TypeHalvesAfter DEF ServiceInv

\* Every other step leaves the command line as it was read.
LEMMA OtherSteps ==
  ASSUME Next, ~ReadWord
  PROVE  UNCHANGED commandLine
BY DEF Next, Runner, Usage, AcceptOptions, OpenDebugLog, CreateHeap, ConvertRootSecurity,
       CreateFileSystem, InsertRoot, Terminate, SetMountPoint, Start, ExitLabel, StopDestroys,
       Reset, ExitProcess, Stop, Ended, vars, BeginCall, CallReturns, GetVolumeInfo, SetVolumeLabel,
       EndCall

ProcessInv == ProcessOK /\ PhaseInv

\* Steps to a phase that holds everything or nothing.
LEMMA ToEnd ==
  ASSUME \/ phase' = "exit" /\ (Complete \/ Clean)'
         \/ phase' = "failed" /\ (Destroyed \/ Clean)'
         \/ phase' = "reset" /\ Destroyed'
         \/ phase' \in {"stopped", "exited"} /\ Clean',
         dispatching' = FALSE, calls' = {}
  PROVE  PhaseInv'
BY DEF PhaseInv

\* No call outside the phases of the dispatcher.
LEMMA NoCalls ==
  ASSUME ProcessInv, phase \notin {"running", "stopping"}
  PROVE  dispatching = FALSE /\ calls = {}
BY DEF ProcessInv, ProcessOK, PhaseInv

LEMMA StepKeepsProcessInv ==
  ASSUME CommandLineOK, ProcessInv, Next, ~ReadWord
  PROVE  ProcessInv'
<1> USE DEF ProcessInv, ProcessOK, PhaseInv, Clean, Complete, Destroyed, NotYetBuilt,
            Goto, resources, serving, nullptr, this
<1>1. CASE Usage \/ AcceptOptions
  BY <1>1 DEF Usage, AcceptOptions
<1>2. CASE OpenDebugLog
  <2>1. /\ phase = "log" /\ phase' \in {"construct", "failed"}
        /\ UNCHANGED <<resources, serving>>
    BY <1>2 DEF OpenDebugLog
  <2> QED BY <2>1
<1>3. CASE CreateHeap
  BY <1>3 DEF CreateHeap
<1>4. CASE ConvertRootSecurity
  <2>1. CASE phase' = "create"
    BY <1>4, <2>1 DEF ConvertRootSecurity
  <2>2. CASE phase' = "exit"
    <3>1. /\ phase = "security" /\ heap' = FALSE
          /\ UNCHANGED <<held, deleted, volume, rootSecurity, GlobalMemFs, MEMFS_SINGLETON,
                         serving>>
      BY <1>4, <2>2 DEF ConvertRootSecurity
    <3>2. ProcessOK'
      BY <2>2, <3>1
    <3>3. Clean'
      BY <3>1
    <3> QED BY <2>2, <3>1, <3>2, <3>3, NoCalls, ToEnd
  <2> QED BY <1>4, <2>1, <2>2 DEF ConvertRootSecurity
<1>5. CASE CreateFileSystem
  <2>1. options["l"] # "nullptr" => Length[options["l"]] \in Nat
    BY WordsAssumption DEF CommandLineOK, Valued
  <2>2. volumeLabel' \in Nat
    BY <1>5, <2>1 DEF CreateFileSystem
  <2>3. volume' \subseteq {Flag[letter] : letter \in Switches}
    BY <1>5 DEF CreateFileSystem, CommandLineOK
  <2>4. CASE phase' = "root"
    <3>1. /\ phase = "create" /\ held' = TRUE
          /\ UNCHANGED <<heap, rootSecurity, deleted, GlobalMemFs, MEMFS_SINGLETON,
                         dispatching, calls>>
      BY <1>5, <2>4 DEF CreateFileSystem
    <3> QED BY <2>2, <2>3, <2>4, <3>1
  <2>5. CASE phase' = "exit"
    <3>1. /\ phase = "create" /\ heap' = FALSE /\ rootSecurity' = FALSE
          /\ UNCHANGED <<held, deleted, GlobalMemFs, MEMFS_SINGLETON, dispatching, calls>>
      BY <1>5, <2>5 DEF CreateFileSystem
    <3> QED BY <2>2, <2>3, <2>5, <3>1
  <2> QED BY <1>5, <2>4, <2>5 DEF CreateFileSystem
<1>6. CASE InsertRoot
  <2>1. CASE phase' = "mount"
    BY <1>6, <2>1 DEF InsertRoot
  <2>2. CASE phase' = "exit"
    <3>1. /\ phase = "root" /\ deleted' = 1 /\ held' = FALSE /\ heap' = FALSE
          /\ rootSecurity' = FALSE
          /\ UNCHANGED <<GlobalMemFs, MEMFS_SINGLETON, volume, serving>>
      BY <1>6, <2>2 DEF InsertRoot, Destroy
    <3>2. ProcessOK'
      <4>1. held' \in BOOLEAN /\ heap' \in BOOLEAN /\ rootSecurity' \in BOOLEAN
        BY <3>1
      <4>2. deleted' \in 0 .. 1
        BY <3>1
      <4>3. /\ dispatching' = dispatching /\ calls' = calls /\ volumeLabel' = volumeLabel
            /\ GlobalMemFs' = GlobalMemFs /\ MEMFS_SINGLETON' = MEMFS_SINGLETON
            /\ volume' = volume
        BY <3>1
      <4> QED BY <2>2, <4>1, <4>2, <4>3
    <3>3. Clean'
      BY <3>1
    <3> QED BY <2>2, <3>1, <3>2, <3>3, NoCalls, ToEnd
  <2> QED BY <1>6, <2>1, <2>2 DEF InsertRoot
<1>7. CASE Terminate
  BY <1>7 DEF Terminate
<1>8. CASE SetMountPoint
  BY <1>8 DEF SetMountPoint
<1>9. CASE Start
  <2>1. /\ phase = "start" /\ UNCHANGED <<resources, calls, volumeLabel>>
        /\ \/ phase' = "running" /\ dispatching' = TRUE
           \/ phase' = "exit" /\ dispatching' = dispatching
    BY <1>9 DEF Start
  <2>2. CASE phase' = "running"
    BY <2>1, <2>2
  <2>3. CASE phase' = "exit"
    <3>1. Complete' /\ dispatching' = dispatching
      BY <2>1, <2>3
    <3>2. ProcessOK'
      BY <2>1, <2>3, <3>1
    <3> QED BY <2>1, <2>3, <3>1, <3>2, NoCalls, ToEnd
  <2> QED BY <2>1, <2>2, <2>3
<1>10. CASE ExitLabel
  <2>1. /\ phase = "exit" /\ phase' = "failed"
        /\ UNCHANGED <<volume, heap, rootSecurity, GlobalMemFs, MEMFS_SINGLETON, serving>>
    BY <1>10 DEF ExitLabel
  <2>2. (Destroyed \/ Clean)' /\ held' \in BOOLEAN /\ deleted' \in 0 .. 1
    <3>1. CASE Complete
      <4>1. deleted' = 1 /\ held' = FALSE
        BY <1>10, <3>1 DEF ExitLabel, Destroy
      <4>2. Destroyed'
        BY <2>1, <3>1, <4>1
      <4>3. held' \in BOOLEAN
        BY <4>1, Zenon
      <4>4. deleted' \in 0 .. 1
        BY <4>1
      <4> HIDE DEF Destroyed, Clean, ProcessInv
      <4> QED BY <4>2, <4>3, <4>4
    <3>2. CASE Clean
      <4>1. UNCHANGED <<deleted, held>>
        BY <1>10, <3>2 DEF ExitLabel
      <4>2. Clean'
        BY <2>1, <3>2, <4>1
      <4> QED BY <4>1, <4>2
    <3> QED BY <2>1, <3>1, <3>2
  <2>3. ProcessOK'
    BY <2>1, <2>2
  <2> QED BY <2>1, <2>2, <2>3, NoCalls, ToEnd
<1>11. CASE StopDestroys
  <2>1. /\ phase = "stopping" /\ phase' = "reset" /\ calls = {} /\ dispatching = FALSE
        /\ UNCHANGED <<volume, heap, rootSecurity, GlobalMemFs, MEMFS_SINGLETON, serving>>
    BY <1>11 DEF StopDestroys, StopDispatcherReturns
  <2>2. deleted' = 1 /\ held' = FALSE
    BY <1>11, <2>1 DEF StopDestroys, Destroy
  <2>3. ProcessOK'
    <3>1. held' \in BOOLEAN
      BY <2>2, Zenon
    <3>2. deleted' \in 0 .. 1
      BY <2>2
    <3> QED BY <2>1, <3>1, <3>2
  <2>4. Destroyed'
    BY <2>1, <2>2
  <2> QED BY <2>1, <2>3, <2>4, ToEnd
<1>12. CASE Reset
  <2>1. phase = "reset" /\ phase' = "stopped" /\ DeleteMemFs /\ UNCHANGED serving
    BY <1>12 DEF Reset
  <2>2. /\ GlobalMemFs' = "nullptr" /\ MEMFS_SINGLETON' = "nullptr" /\ heap' = FALSE
        /\ held' = FALSE /\ UNCHANGED <<deleted, volume, rootSecurity>>
    BY <2>1 DEF DeleteMemFs, Destroy
  <2>3. ProcessOK'
    BY <2>1, <2>2
  <2>4. Clean'
    BY <2>1, <2>2
  <2> QED BY <2>1, <2>3, <2>4, NoCalls, ToEnd
<1>13. CASE ExitProcess
  <2>1. /\ phase \in {"usage", "failed", "stopped"} /\ phase' = "exited" /\ DeleteMemFs
        /\ UNCHANGED serving
    BY <1>13 DEF ExitProcess
  <2>2. ProcessOK' /\ Clean'
    <3>1. CASE GlobalMemFs = "nullptr"
      <4>1. Clean /\ UNCHANGED resources
        BY <2>1, <3>1 DEF DeleteMemFs
      <4>2. ProcessOK'
        BY <2>1, <4>1
      <4> QED BY <4>1, <4>2
    <3>2. CASE GlobalMemFs # "nullptr"
      <4>1. Destroyed /\ phase = "failed"
        BY <2>1, <3>2
      <4>2. /\ GlobalMemFs' = "nullptr" /\ MEMFS_SINGLETON' = "nullptr" /\ heap' = FALSE
            /\ held' = FALSE /\ UNCHANGED <<deleted, volume, rootSecurity>>
        BY <2>1, <4>1 DEF DeleteMemFs, Destroy
      <4>3. ProcessOK'
        BY <2>1, <4>2
      <4>4. Clean'
        BY <4>1, <4>2
      <4> QED BY <4>3, <4>4
    <3> QED BY <3>1, <3>2
  <2> QED BY <2>1, <2>2, NoCalls, ToEnd
<1>14. CASE Stop
  BY <1>14 DEF Stop
<1>15. ASSUME NEW t \in Threads, BeginCall(t) PROVE ProcessInv'
  BY <1>15 DEF BeginCall
<1>16. ASSUME NEW t \in Threads, SetVolumeLabel(t) PROVE ProcessInv'
  BY <1>16, WordsAssumption DEF SetVolumeLabel
<1>17. ASSUME NEW t \in Threads, EndCall(t) PROVE ProcessInv'
  BY <1>17 DEF EndCall
<1>18. ASSUME NEW t \in Threads, GetVolumeInfo(t) PROVE ProcessInv'
  <2>1. phase \in {"running", "stopping"} /\ UNCHANGED resources /\ volumeLabel' = volumeLabel
    BY <1>18 DEF GetVolumeInfo
  <2>2. CASE LabelFits
    BY <1>18, <2>1, <2>2 DEF GetVolumeInfo
  <2>3. CASE ~LabelFits
    <3>1. phase' = "crashed" /\ dispatching' = FALSE /\ calls' = {}
      BY <1>18, <2>3 DEF GetVolumeInfo
    <3>2. ProcessOK'
      <4>1. dispatching' \in BOOLEAN /\ calls' \subseteq Threads
        BY <3>1
      <4>2. /\ UNCHANGED <<held, deleted, volume, heap, rootSecurity, GlobalMemFs, MEMFS_SINGLETON>>
            /\ volumeLabel' = volumeLabel
        BY <2>1
      <4> QED BY <3>1, <4>1, <4>2
    <3>3. Complete'
      BY <2>1
    <3>4. PhaseInv'
      BY <3>1, <3>3
    <3> QED BY <3>2, <3>4
  <2> QED BY <2>2, <2>3
<1>19. CASE Ended
  BY <1>19 DEF Ended, vars
<1> QED BY <1>1, <1>2, <1>3, <1>4, <1>5, <1>6, <1>7, <1>8, <1>9, <1>10, <1>11, <1>12, <1>13,
           <1>14, <1>15, <1>16, <1>17, <1>18, <1>19 DEF Next, Runner, CallReturns

LEMMA ServiceIsInv == Spec => []ServiceInv
<1>1. ServiceInv /\ [Next]_vars => ServiceInv'
  <2> SUFFICES ASSUME ServiceInv, [Next]_vars PROVE ServiceInv'
    OBVIOUS
  <2>0. CommandLineOK /\ ProcessInv
    BY TypeHalves DEF ServiceInv, ProcessInv
  <2>1. CASE ReadWord
    BY <2>1, ReadWordKeepsInv
  <2>2. CASE Next /\ ~ReadWord
    BY <2>0, <2>2, OtherSteps, CommandLineKept, StepKeepsProcessInv, TypeHalvesAfter
       DEF ServiceInv, ProcessInv
  <2>3. CASE UNCHANGED vars
    <3>1. ProcessInv'
      BY <2>0, <2>3
         DEF vars, resources, serving, ProcessInv, ProcessOK, PhaseInv, Clean, Complete,
             Destroyed, NotYetBuilt
    <3> QED BY <2>0, <2>3, <3>1, CommandLineKept, TypeHalvesAfter
            DEF vars, ServiceInv, ProcessInv
  <2> QED BY <2>1, <2>2, <2>3 DEF Next
<1> QED BY <1>1, ServiceInit, PTL DEF Spec

\* Every variable keeps its type, and the file system is deleted at most once.
THEOREM TypeCorrect == Spec => []TypeOK
BY ServiceIsInv, PTL DEF ServiceInv

\* A call never meets a file system, a MemFs or a heap that is not there yet or
\* no longer, however many dispatcher threads there are.
THEOREM CallsAlwaysHaveFileSystem == Spec => []CallsHaveFileSystem
<1>1. ServiceInv => CallsHaveFileSystem
  BY DEF ServiceInv, PhaseInv, Complete, CallsHaveFileSystem
<1> QED BY <1>1, ServiceIsInv, PTL

\* One deletion on every path through construction, start, stop and exit, and
\* nothing is left when the process exits.
THEOREM DeletesOnce == Spec => []DeletedOnce
<1>1. ServiceInv => DeletedOnce
  BY DEF ServiceInv, TypeOK, PhaseInv, Clean, Complete, Destroyed, NotYetBuilt, DeletedOnce
<1> QED BY <1>1, ServiceIsInv, PTL

-----------------------------------------------------------------------------
(* The label. *)

\* A label that does not fit is the one given with -l, once it has been read.
LabelInv ==
  /\ \/ LabelFits
     \/ /\ phase # "parse"
        /\ options["l"] # nullptr /\ volumeLabel = Length[options["l"]]
  /\ phase = "crashed" => ~LabelFits

LEMMA StepKeepsLabel ==
  ASSUME ServiceInv, LabelInv, Next
  PROVE  LabelInv'
<1> USE WordsAssumption DEF LabelInv, LabelFits, Goto
<1>1. CASE CreateFileSystem
  BY <1>1 DEF CreateFileSystem, commandLine
<1>2. ASSUME NEW t \in Threads, SetVolumeLabel(t) PROVE LabelInv'
  <2>1. t \in calls /\ UNCHANGED <<phase, options>>
    BY <1>2 DEF SetVolumeLabel, commandLine
  <2>2. phase # "crashed"
    BY <2>1 DEF ServiceInv, PhaseInv
  <2>3. PICK asked \in Labels :
          volumeLabel' = IF asked >= MAX_VOLUME_LABEL_STR_LENGTH
                         THEN MAX_VOLUME_LABEL_STR_LENGTH - 1 ELSE asked
    BY <1>2 DEF SetVolumeLabel
  <2>4. volumeLabel' <= MAX_VOLUME_LABEL_STR_LENGTH
    <3>1. asked \in Nat /\ MAX_VOLUME_LABEL_STR_LENGTH \in Nat \ {0}
      OBVIOUS
    <3> QED BY ONLY <2>3, <3>1
  <2> QED BY <2>1, <2>2, <2>4
<1>3. ASSUME NEW t \in Threads, GetVolumeInfo(t) PROVE LabelInv'
  <2>1. t \in calls /\ UNCHANGED <<options, volumeLabel>>
    BY <1>3 DEF GetVolumeInfo, commandLine
  <2>2. phase \in {"running", "stopping"}
    BY <2>1 DEF ServiceInv, PhaseInv
  <2>3. phase' = phase \/ (phase' = "crashed" /\ ~LabelFits)
    BY <1>3 DEF GetVolumeInfo
  <2> QED BY <2>1, <2>2, <2>3
<1>4. CASE ReadWord
  BY <1>4 DEF ReadWord, serving
<1>5. ASSUME UNCHANGED <<volumeLabel, options>>, phase' = phase \/ phase' \notin {"parse", "crashed"}
      PROVE  LabelInv'
  BY <1>5
<1>6. CASE Runner /\ ~CreateFileSystem /\ ~ReadWord
  BY <1>5, <1>6
     DEF Runner, Usage, AcceptOptions, OpenDebugLog, CreateHeap, ConvertRootSecurity, InsertRoot,
         Terminate, SetMountPoint, Start, ExitLabel, StopDestroys, Reset, ExitProcess, serving, commandLine
<1>7. CASE Stop \/ Ended \/ \E t \in Threads : BeginCall(t) \/ EndCall(t)
  BY <1>5, <1>7 DEF Stop, Ended, vars, serving, commandLine, BeginCall, EndCall
<1> QED BY <1>1, <1>2, <1>3, <1>4, <1>6, <1>7 DEF Next, CallReturns

\* Whatever labels Windows asks for and in whatever order calls come, the only
\* label a call may end the process for is the one of -l.
THEOREM OnlyLabelOfOptionCrashes == Spec => []OnlyOptionLabelCrashes
<1>1. Init => LabelInv
  BY WordsAssumption, LabelAssumption DEF Init, LabelInv, LabelFits, DefaultLabel
<1>2. ServiceInv /\ LabelInv /\ [Next]_vars => LabelInv'
  BY StepKeepsLabel DEF vars, serving, commandLine, LabelInv, LabelFits
<1>3. LabelInv => OnlyOptionLabelCrashes
  BY DEF LabelInv, OnlyOptionLabelCrashes
<1> QED BY <1>1, <1>2, <1>3, ServiceIsInv, PTL DEF Spec

-----------------------------------------------------------------------------
(* The command line.  The options start where the words are cut in the only *)
(* possible way, and SvcStart's locals hold what the words read so far say.  *)

CutTo(words, starts, n) ==
  /\ \A k \in starts : OptionOf[words[k]] # nullptr
  /\ \A k \in 1 .. n :
       (k \in starts) # (k - 1 \in starts /\ OptionOf[words[k - 1]] \in Valued)

ValuesTo(words, starts, letter, n) ==
  {k \in 1 .. n :
     /\ k - 1 \in starts /\ OptionOf[words[k - 1]] = letter
     /\ letter \in Numeric => words[k] \in Numbers}

IsLastOf(value, words, values) ==
  \/ values = {} /\ value = nullptr
  \/ \E k \in values : (\A j \in values : j <= k) /\ value = words[k]

WantsValue(words, starts, n, letter) ==
  n \in starts /\ OptionOf[words[n]] \in Valued /\ OptionOf[words[n]] = letter

ReadTo(starts) ==
  /\ CutTo(argv, starts, argp)
  /\ \A letter \in Valued :
       IsLastOf(options[letter], argv, ValuesTo(argv, starts, letter, argp))
  /\ \A letter \in Valued : wanted = letter <=> WantsValue(argv, starts, argp, letter)
  /\ flags = "MemfsDisk" <=> \A k \in ValuesTo(argv, starts, "u", argp) : Length[argv[k]] = 0

Refused ==
  \/ argp < Len(argv) /\ ~ValueWanted /\ OptionOf[word] = nullptr
  \/ argp = Len(argv) /\ (ValueWanted \/ NoMountPoint)

ParseInv ==
  /\ \E starts \in SUBSET (1 .. argp) : ReadTo(starts)
  /\ phase = "usage" => Refused
  /\ phase \notin {"parse", "usage", "exited"} => argp = Len(argv) /\ ~ValueWanted

\* A set of numbers that is not empty has a least one.
LEMMA LeastNumber ==
  ASSUME NEW S \in SUBSET Nat, S # {}
  PROVE  \E n \in S : \A m \in S : n <= m
<1>1. PICK n \in S : \A m \in S : <<m, n>> \notin OpToRel(<, Nat)
  BY NatLessThanWellFounded, WFMin
<1>2. OpToRel(<, Nat) = {pair \in Nat \X Nat : pair[1] < pair[2]}
  BY DEF OpToRel
<1>3. \A m \in S : ~(m < n)
  BY <1>1, <1>2
<1> QED BY <1>3

\* Words can be cut in one way only.
LEMMA OneCut ==
  ASSUME NEW words, NEW n \in Nat, NEW starts, NEW others,
         0 \notin starts, 0 \notin others, CutTo(words, starts, n), CutTo(words, others, n)
  PROVE  \A k \in 1 .. n : k \in starts <=> k \in others
<1> DEFINE differ == {k \in 1 .. n : ~(k \in starts <=> k \in others)}
<1> SUFFICES ASSUME differ # {} PROVE FALSE
  OBVIOUS
<1>0. differ \in SUBSET Nat
  OBVIOUS
<1>1. PICK k \in differ : \A j \in differ : k <= j
  <2> HIDE DEF differ
  <2> QED BY <1>0, LeastNumber
<1>2. k - 1 \in starts <=> k - 1 \in others
  <2>1. CASE k = 1
    BY <2>1
  <2>2. CASE k # 1
    <3>1. k - 1 \in 1 .. n /\ k - 1 \notin differ
      BY <1>1, <2>2
    <3> QED BY <3>1
  <2> QED BY <2>1, <2>2
<1> QED BY <1>2 DEF CutTo

\* Behind an option that wants a value comes the value, and nothing starts there.
LEMMA ValueRead ==
  ASSUME NEW words, NEW n \in Nat, NEW starts \in SUBSET (1 .. n), CutTo(words, starts, n),
         n \in starts, OptionOf[words[n]] \in Valued
  PROVE  /\ CutTo(words, starts, n + 1)
         /\ \A letter \in Valued :
              ValuesTo(words, starts, letter, n + 1) =
                IF OptionOf[words[n]] = letter /\ (letter \in Numeric => words[n + 1] \in Numbers)
                THEN ValuesTo(words, starts, letter, n) \cup {n + 1}
                ELSE ValuesTo(words, starts, letter, n)
<1>1. n + 1 \notin starts /\ 1 .. n + 1 = (1 .. n) \cup {n + 1} /\ (n + 1) - 1 = n
  OBVIOUS
<1> QED BY <1>1 DEF CutTo, ValuesTo

\* Anywhere else a word must start an option, and gives no value.
LEMMA StartRead ==
  ASSUME NEW words, NEW n \in Nat, NEW starts \in SUBSET (1 .. n), CutTo(words, starts, n),
         ~(n \in starts /\ OptionOf[words[n]] \in Valued), OptionOf[words[n + 1]] # nullptr
  PROVE  /\ CutTo(words, starts \cup {n + 1}, n + 1)
         /\ \A letter \in Valued :
              ValuesTo(words, starts \cup {n + 1}, letter, n + 1) = ValuesTo(words, starts, letter, n)
<1>1. n + 1 \notin starts /\ 1 .. n + 1 = (1 .. n) \cup {n + 1} /\ (n + 1) - 1 = n
  OBVIOUS
<1>2. \A k \in 1 .. n + 1 : k - 1 \in starts \cup {n + 1} <=> k - 1 \in starts
  OBVIOUS
<1>3. CutTo(words, starts \cup {n + 1}, n + 1)
  BY <1>1, <1>2 DEF CutTo
<1>4. ASSUME NEW letter \in Valued
      PROVE  ValuesTo(words, starts \cup {n + 1}, letter, n + 1) = ValuesTo(words, starts, letter, n)
  BY <1>1, <1>2 DEF ValuesTo
<1> QED BY <1>3, <1>4

LEMMA LastRead ==
  ASSUME NEW words, NEW n \in Nat, NEW values \in SUBSET (1 .. n)
  PROVE  IsLastOf(words[n + 1], words, values \cup {n + 1})
<1>1. \A j \in values \cup {n + 1} : j <= n + 1
  OBVIOUS
<1> QED BY <1>1 DEF IsLastOf

LEMMA ReadWordKeepsParse ==
  ASSUME ServiceInv, ParseInv, ReadWord
  PROVE  ParseInv'
<1>1. /\ word \in Words /\ argp \in Nat /\ argp' = argp + 1 /\ argv' = argv
      /\ phase = "parse" /\ phase' = "parse" /\ OptionOf[word] \in Switches \cup Valued \cup {nullptr}
  <2>1. argp \in Nat
    BY LenProperties DEF ServiceInv, TypeOK
  <2> QED BY <2>1, WordType DEF ServiceInv, ReadWord
<1>2. PICK starts \in SUBSET (1 .. argp) : ReadTo(starts)
  BY DEF ParseInv
<1>3. wanted \in Valued \cup {nullptr} /\ options \in [Valued -> Words \cup {nullptr}] /\ nullptr \notin Valued
  BY DEF ServiceInv, TypeOK, Valued, nullptr
<1>4. \E more \in SUBSET (1 .. argp + 1) : ReadTo(more)'
  <2>1. CASE TakeValue
    <3>1. /\ wanted \in Valued /\ argp \in starts /\ OptionOf[argv[argp]] = wanted
          /\ wanted' = nullptr
      BY <1>2, <1>3, <2>1 DEF ReadTo, WantsValue, TakeValue, ValueWanted
    <3>2. CutTo(argv, starts, argp + 1)
      BY <1>1, <1>2, <3>1, ValueRead DEF ReadTo
    <3>3. \A letter \in Valued :
            ValuesTo(argv, starts, letter, argp + 1) =
              IF wanted = letter /\ (letter \in Numeric => word \in Numbers)
              THEN ValuesTo(argv, starts, letter, argp) \cup {argp + 1}
              ELSE ValuesTo(argv, starts, letter, argp)
      BY <1>1, <1>2, <3>1, ValueRead DEF ReadTo, word
    <3>4. ASSUME NEW letter \in Valued
          PROVE  IsLastOf(options'[letter], argv, ValuesTo(argv, starts, letter, argp + 1))
      <4>1. CASE wanted = letter /\ (letter \in Numeric => word \in Numbers)
        <5>1. options'[letter] = argv[argp + 1]
          BY <1>3, <2>1, <4>1 DEF TakeValue, word
        <5>2. ValuesTo(argv, starts, letter, argp) \in SUBSET (1 .. argp)
          BY DEF ValuesTo
        <5>3. IsLastOf(argv[argp + 1], argv, ValuesTo(argv, starts, letter, argp) \cup {argp + 1})
          BY <1>1, <5>2, LastRead
        <5>4. ValuesTo(argv, starts, letter, argp + 1) =
                ValuesTo(argv, starts, letter, argp) \cup {argp + 1}
          BY <3>3, <4>1
        <5> QED BY <5>1, <5>3, <5>4
      <4>2. CASE ~(wanted = letter /\ (letter \in Numeric => word \in Numbers))
        <5>1. options'[letter] = options[letter]
          BY <1>3, <2>1, <4>2 DEF TakeValue
        <5> QED BY <1>2, <3>3, <4>2, <5>1 DEF ReadTo
      <4> QED BY <4>1, <4>2
    <3>5. ASSUME NEW letter \in Valued
          PROVE  wanted' = letter <=> WantsValue(argv, starts, argp + 1, letter)
      BY <1>1, <1>3, <3>1 DEF WantsValue
    <3>6. flags' = "MemfsDisk" <=>
            \A k \in ValuesTo(argv, starts, "u", argp + 1) : Length[argv[k]] = 0
      <4>1. "u" \in Valued /\ "u" \notin Numeric
        BY DEF Valued, Numeric
      <4>2. Length[word] \in Nat
        BY <1>1, WordsAssumption
      <4>3. ValuesTo(argv, starts, "u", argp + 1) =
              IF wanted = "u" THEN ValuesTo(argv, starts, "u", argp) \cup {argp + 1}
              ELSE ValuesTo(argv, starts, "u", argp)
        BY <3>3, <4>1
      <4>4. flags' = IF wanted = "u" /\ Length[argv[argp + 1]] > 0 THEN "MemfsNet" ELSE flags
        BY <2>1 DEF TakeValue, word
      <4>5. flags = "MemfsDisk" <=>
              \A k \in ValuesTo(argv, starts, "u", argp) : Length[argv[k]] = 0
        BY <1>2 DEF ReadTo
      <4> QED BY <4>2, <4>3, <4>4, <4>5 DEF word
    <3>7. ReadTo(starts)'
      BY <1>1, <3>2, <3>4, <3>5, <3>6 DEF ReadTo
    <3> QED BY <1>1, <3>7
  <2>2. CASE TakeSwitch \/ TakeOption
    <3>0. PICK more \in SUBSET (1 .. argp + 1) : more = starts \cup {argp + 1}
      <4>1. starts \cup {argp + 1} \in SUBSET (1 .. argp + 1)
        BY <1>1
      <4> QED BY <4>1
    <3>1. /\ wanted = nullptr /\ OptionOf[word] # nullptr /\ UNCHANGED <<options, flags>>
          /\ wanted' = IF OptionOf[word] \in Valued THEN OptionOf[word] ELSE nullptr
      <4>1. \A letter \in Switches : letter \notin Valued /\ letter # nullptr
        BY DEF Switches, Valued, nullptr
      <4>2. CASE TakeSwitch
        BY <4>1, <4>2 DEF TakeSwitch, ValueWanted
      <4>3. CASE TakeOption
        BY <1>3, <4>3 DEF TakeOption, ValueWanted
      <4> QED BY <2>2, <4>2, <4>3
    <3>2. ~(argp \in starts /\ OptionOf[argv[argp]] \in Valued)
      BY <1>2, <1>3, <3>1 DEF ReadTo, WantsValue
    <3>3. CutTo(argv, more, argp + 1)
      BY <1>1, <1>2, <3>0, <3>1, <3>2, StartRead DEF ReadTo, word
    <3>4. \A letter \in Valued :
            ValuesTo(argv, more, letter, argp + 1) = ValuesTo(argv, starts, letter, argp)
      BY <1>1, <1>2, <3>0, <3>1, <3>2, StartRead DEF ReadTo, word
    <3>5. \A letter \in Valued :
            IsLastOf(options'[letter], argv, ValuesTo(argv, more, letter, argp + 1))
      BY <1>2, <3>1, <3>4 DEF ReadTo
    <3>6. ASSUME NEW letter \in Valued
          PROVE  wanted' = letter <=> WantsValue(argv, more, argp + 1, letter)
      BY <1>1, <1>3, <3>0, <3>1 DEF WantsValue, word
    <3>7. flags' = "MemfsDisk" <=>
            \A k \in ValuesTo(argv, more, "u", argp + 1) : Length[argv[k]] = 0
      BY <1>2, <3>1, <3>4 DEF ReadTo, Valued
    <3>8. ReadTo(more)'
      BY <1>1, <3>3, <3>5, <3>6, <3>7 DEF ReadTo
    <3> QED BY <3>8
  <2> QED BY <2>1, <2>2 DEF ReadWord
<1> QED BY <1>1, <1>4 DEF ParseInv

LEMMA ParseInit == Init => ParseInv
<1> SUFFICES ASSUME Init PROVE ParseInv
  OBVIOUS
<1>1. argp = 0 /\ wanted = nullptr /\ flags = "MemfsDisk" /\ phase = "parse" /\ nullptr \notin Valued
  BY DEF Init, Valued, nullptr
<1>2. \A letter \in Valued : options[letter] = nullptr /\ ValuesTo(argv, {}, letter, 0) = {}
  BY DEF Init, ValuesTo
<1>3. CutTo(argv, {}, 0) /\ ValuesTo(argv, {}, "u", 0) = {}
  BY DEF CutTo, ValuesTo
<1>4. ReadTo({})
  BY <1>1, <1>2, <1>3 DEF ReadTo, IsLastOf, WantsValue
<1>5. {} \in SUBSET (1 .. argp)
  OBVIOUS
<1> QED BY <1>1, <1>4, <1>5 DEF ParseInv

\* The steps behind the loop leave what was read, and never parse again.
LEMMA OtherStepsKeepParse ==
  ASSUME ParseInv, UNCHANGED commandLine,
         \/ Goto("parse", "usage") /\ Refused
         \/ Goto("parse", "log") /\ argp = Len(argv) /\ ~ValueWanted
         \/ phase \notin {"parse", "usage"} /\ phase' \notin {"parse", "usage"}
            /\ (phase = "exited" => phase' = "exited")
         \/ phase = "usage" /\ phase' = "exited"
         \/ phase' = phase
  PROVE  ParseInv'
<1>1. /\ argv' = argv /\ argp' = argp /\ wanted' = wanted /\ options' = options
      /\ flags' = flags
  BY DEF commandLine
<1>2. PICK starts \in SUBSET (1 .. argp) : ReadTo(starts)
  BY DEF ParseInv
<1>3. ReadTo(starts)'
  BY <1>1, <1>2 DEF ReadTo
<1>4. Refused' <=> Refused
  BY <1>1 DEF Refused, ValueWanted, NoMountPoint, word
<1>5. (argp = Len(argv) /\ ~ValueWanted)' <=> argp = Len(argv) /\ ~ValueWanted
  BY <1>1 DEF ValueWanted
<1> QED BY <1>1, <1>3, <1>4, <1>5 DEF ParseInv, Goto

LEMMA StepKeepsParse ==
  ASSUME ServiceInv, ParseInv, [Next]_vars
  PROVE  ParseInv'
<1>1. CASE ReadWord
  BY <1>1, ReadWordKeepsParse
<1>2. CASE Next /\ ~ReadWord
  <2>1. UNCHANGED commandLine
    BY <1>2, OtherSteps
  <2>2. \/ Goto("parse", "usage") /\ Refused
        \/ Goto("parse", "log") /\ argp = Len(argv) /\ ~ValueWanted
        \/ phase \notin {"parse", "usage"} /\ phase' \notin {"parse", "usage"}
           /\ (phase = "exited" => phase' = "exited")
        \/ phase = "usage" /\ phase' = "exited"
        \/ phase' = phase
    <3> USE DEF Goto
    <3>1. CASE Usage \/ AcceptOptions
      BY <3>1 DEF Usage, AcceptOptions, Refused
    <3>2. CASE OpenDebugLog \/ CreateHeap \/ ConvertRootSecurity \/ CreateFileSystem \/ InsertRoot
      BY <3>2 DEF OpenDebugLog, CreateHeap, ConvertRootSecurity, CreateFileSystem, InsertRoot
    <3>3. CASE Terminate \/ SetMountPoint \/ Start \/ ExitLabel \/ StopDestroys \/ Stop
      BY <3>3 DEF Terminate, SetMountPoint, Start, ExitLabel, StopDestroys, Stop
    <3>4. CASE Reset \/ ExitProcess
      BY <3>4 DEF Reset, ExitProcess
    <3>5. CASE Ended \/ \E t \in Threads : BeginCall(t) \/ SetVolumeLabel(t) \/ EndCall(t)
      BY <3>5 DEF Ended, vars, BeginCall, SetVolumeLabel, EndCall
    <3>6. ASSUME NEW t \in Threads, GetVolumeInfo(t)
          PROVE  phase' = phase \/ (phase \in {"running", "stopping"} /\ phase' = "crashed")
      BY <3>6 DEF GetVolumeInfo, ServiceInv, PhaseInv
    <3> QED BY <1>2, <3>1, <3>2, <3>3, <3>4, <3>5, <3>6 DEF Next, Runner, CallReturns
  <2> QED BY <2>1, <2>2, OtherStepsKeepParse
<1>3. CASE UNCHANGED vars
  BY <1>3, OtherStepsKeepParse DEF vars
<1> QED BY <1>1, <1>2, <1>3 DEF Next

LEMMA ParseIsInv == Spec => []ParseInv
<1>1. ServiceInv /\ ParseInv /\ [Next]_vars => ParseInv'
  BY StepKeepsParse
<1> QED BY <1>1, ParseInit, ServiceIsInv, PTL DEF Spec

\* A refused command line that can be cut ends in no option that wants a value.
LEMMA CutIsRead ==
  ASSUME ServiceInv, ParseInv, NEW starts \in SUBSET (1 .. argp), ReadTo(starts),
         NEW cut \in Cuts(argv)
  PROVE  /\ cut \subseteq 1 .. Len(argv) /\ argp \in Nat /\ argp <= Len(argv)
         /\ \A k \in 1 .. argp : k \in cut <=> k \in starts
<1>1. /\ argv \in Seq(Words) /\ argp \in Nat /\ argp <= Len(argv) /\ Len(argv) \in Nat
      /\ DOMAIN argv = 1 .. Len(argv)
  BY LenProperties DEF ServiceInv, TypeOK
<1>2. cut \subseteq 1 .. Len(argv) /\ CutTo(argv, cut, argp)
  BY <1>1 DEF Cuts, CutTo
<1>3. \A k \in 1 .. argp : k \in starts <=> k \in cut
  BY <1>1, <1>2, OneCut DEF ReadTo
<1> QED BY <1>1, <1>2, <1>3

LEMMA LastValueIsLast ==
  ASSUME NEW words, NEW starts, NEW letter, NEW n \in Nat, DOMAIN words = 1 .. n, NEW value,
         IsLastOf(value, words, ValuesTo(words, starts, letter, n))
  PROVE  value = LastValue(words, starts, letter)
<1> DEFINE values == ValuesTo(words, starts, letter, n)
<1>1. ValuesOf(words, starts, letter) = values
  BY DEF ValuesOf, ValuesTo
<1>2. LastValue(words, starts, letter) =
        IF values = {} THEN nullptr ELSE words[CHOOSE i \in values : \A j \in values : j <= i]
  <2> HIDE DEF values
  <2> QED BY <1>1 DEF LastValue
<1>3. CASE values = {}
  BY <1>2, <1>3 DEF IsLastOf
<1>4. CASE values # {}
  <2>1. PICK k \in values : (\A j \in values : j <= k) /\ value = words[k]
    BY <1>4 DEF IsLastOf
  <2>2. \A i \in values : (\A j \in values : j <= i) => i = k
    <3>1. values \in SUBSET Int
      BY DEF ValuesTo
    <3> HIDE DEF values
    <3> QED BY <2>1, <3>1
  <2>3. (CHOOSE i \in values : \A j \in values : j <= i) = k
    <3> HIDE DEF values
    <3> QED BY <2>1, <2>2
  <2> QED
    <3> HIDE DEF values
    <3> QED BY <1>2, <1>4, <2>1, <2>3
<1> QED BY <1>3, <1>4

\* A command line is refused exactly when it must be, and every option has the
\* last value written for it, whatever the words are and however many there are.
THEOREM OptionsAlwaysAsWritten == Spec => []OptionsAsWritten
<1>1. ServiceInv /\ ParseInv => OptionsAsWritten
  <2> SUFFICES ASSUME ServiceInv, ParseInv PROVE OptionsAsWritten
    OBVIOUS
  <2>1. PICK starts \in SUBSET (1 .. argp) : ReadTo(starts)
    BY DEF ParseInv
  <2>2. /\ argv \in Seq(Words) /\ Len(argv) \in Nat /\ DOMAIN argv = 1 .. Len(argv)
        /\ argp \in 0 .. Len(argv) /\ wanted \in Valued \cup {nullptr} /\ nullptr \notin Words
    BY LenProperties, WordsAssumption DEF ServiceInv, TypeOK
  <2>3. wanted # nullptr <=> argp \in starts /\ OptionOf[argv[argp]] \in Valued
    BY <2>1, <2>2 DEF ReadTo, WantsValue, Valued, nullptr
  <2>4. ASSUME phase = "usage", NEW cut \in Cuts(argv)
        PROVE  /\ ValuesOf(argv, cut, "m") = {}
               /\ \A k \in ValuesOf(argv, cut, "u") : Length[argv[k]] = 0
    <3>1. \A k \in 1 .. argp : k \in cut <=> k \in starts
      BY <2>1, CutIsRead
    <3>2. CASE argp < Len(argv) /\ ~ValueWanted /\ OptionOf[word] = nullptr
      <4>1. argp + 1 \in 1 .. Len(argv) /\ argp + 1 \notin cut /\ (argp + 1) - 1 = argp
        BY <2>2, <3>2 DEF Cuts, word
      <4>2. argp \in cut /\ OptionOf[argv[argp]] \in Valued
        BY <2>2, <4>1 DEF Cuts
      <4>3. argp \in 1 .. argp
        BY <2>2, <4>2 DEF Cuts
      <4> QED BY <2>3, <3>1, <3>2, <4>2, <4>3 DEF ValueWanted
    <3>3. CASE argp = Len(argv) /\ ValueWanted
      <4>1. argp \in starts /\ OptionOf[argv[argp]] \in Valued
        BY <2>3, <3>3 DEF ValueWanted
      <4>2. OptionOf[argv[argp]] \in Switches
        BY <2>1, <3>1, <3>3, <4>1 DEF Cuts
      <4> QED BY <4>1, <4>2 DEF Switches, Valued
    <3>4. CASE argp = Len(argv) /\ NoMountPoint
      <4>1. ASSUME NEW letter
            PROVE  ValuesOf(argv, cut, letter) = ValuesTo(argv, starts, letter, argp)
        <5>1. \A k \in 1 .. argp : k - 1 \in cut <=> k - 1 \in starts
          BY <2>2, <3>1, <3>4 DEF Cuts
        <5> QED BY <2>2, <3>4, <5>1 DEF ValuesOf, ValuesTo
      <4>2. \A k \in ValuesOf(argv, cut, "u") : Length[argv[k]] = 0
        BY <2>1, <3>4, <4>1 DEF ReadTo, NoMountPoint
      <4>3. ValuesTo(argv, starts, "m", argp) = {}
        <5>1. IsLastOf(nullptr, argv, ValuesTo(argv, starts, "m", argp))
          BY <2>1, <3>4 DEF ReadTo, NoMountPoint, Valued
        <5>2. \A k \in ValuesTo(argv, starts, "m", argp) : argv[k] # nullptr
          BY <2>2, <3>4, ElementOfSeq DEF ValuesTo
        <5> QED BY <5>1, <5>2 DEF IsLastOf
      <4> QED BY <4>1, <4>2, <4>3
    <3> QED BY <2>4, <3>2, <3>3, <3>4 DEF ParseInv, Refused
  <2>5. ASSUME phase \notin {"parse", "usage", "exited"}
        PROVE  \E cut \in Cuts(argv) :
                 \A letter \in Valued : options[letter] = LastValue(argv, cut, letter)
    <3>1. argp = Len(argv) /\ ~ValueWanted
      BY <2>5 DEF ParseInv
    <3>2. starts \in Cuts(argv)
      <4>1. starts \in SUBSET DOMAIN argv
        BY <2>2, <3>1
      <4>2. CutTo(argv, starts, Len(argv))
        BY <2>1, <3>1 DEF ReadTo
      <4>3. Len(argv) \in starts => OptionOf[argv[Len(argv)]] \in Switches
        <5>1. ASSUME Len(argv) \in starts PROVE argv[Len(argv)] \in Words
          BY <2>2, <4>1, <5>1, ElementOfSeq
        <5> QED BY <2>3, <3>1, <4>2, <5>1, WordsAssumption DEF ValueWanted, CutTo
      <4> QED BY <2>2, <4>1, <4>2, <4>3 DEF Cuts, CutTo
    <3>3. ASSUME NEW letter \in Valued
          PROVE  options[letter] = LastValue(argv, starts, letter)
      BY <2>1, <2>2, <3>1, LastValueIsLast DEF ReadTo
    <3> QED BY <3>2, <3>3
  <2> QED BY <2>4, <2>5 DEF OptionsAsWritten
<1> QED BY <1>1, ServiceIsInv, ParseIsInv, PTL

=============================================================================
