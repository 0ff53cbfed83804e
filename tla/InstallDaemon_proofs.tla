------------------------ MODULE InstallDaemon_proofs ------------------------
(***************************************************************************)
(* Theorems about InstallExecutor and InstallDaemon, for every set of      *)
(* requests, modes and disks.                                              *)
(*                                                                         *)
(* What a run may rely on is said twice: of the run (RunOK: what is        *)
(* mounted is still what it was when the tree was written, the tree was    *)
(* evaluated, the disko configuration is this run's) and of the files      *)
(* below /mnt (MntOK), both by the call the run is about to make.  Every   *)
(* step but disko either writes one file system that is as its next call   *)
(* expects it, or touches none.                                            *)
(***************************************************************************)
EXTENDS InstallDaemon, TLAPS

(* From here on the tree is below /mnt: the calls that follow its creation, and
   again those that follow the second hardware module. *)
WithTree == (BeforeDisko \ {"source"}) \cup {"nixos", "verify", "flag", "ok"}

(* What the call at place relies on having below /mnt; kept says that a lock
   could not be removed. *)
MntOK(place, fs, kept) ==
    /\ place \in WithTree => fs.dirs
    /\ place \in {"hardware", "modules", "lock"} /\ fs.lock # Absent => kept
    /\ place = "lock" => fs.plan = cur
    /\ place \in {"gate", "eval", "config", "mode", "disko"} \cup AfterDisko
         /\ mounted = treeAt /\ fs.dirs => fs.plan = cur /\ (fs.lock = cur \/ kept)
    /\ place \in {"nixos", "verify", "flag", "ok"} => fs.hardware = mounted
    /\ place \in {"verify", "flag", "ok"} /\ mounted = treeAt => fs.system = cur
    /\ place = "flag" => fs.store /\ fs.system # Absent
    /\ place = "ok" => fs.flag

(* What it relies on having done. *)
RunOK ==
    /\ pc # "idle" => cur \in Requests
    /\ pc \in BeforeDisko => mounted = treeAt
    /\ pc \in {"config", "mode", "disko"} => evaluated
    /\ pc \in {"mode", "disko"} => conf \in Disks /\ (foreign \/ conf = target[cur])
    /\ pc \in {"flag", "ok"} => target[cur] \in gpt

Flagged(fs) == fs.flag => fs.store /\ fs.system # Absent

EInv == TypeOK /\ RunOK /\ MntOK(pc, Mnt, lockKept) /\ FlagMeansInstalled

-----------------------------------------------------------------------------
(* File systems *)

LEMMA EmptyIsFS == EmptyFS \in FileSystem /\ ~EmptyFS.dirs /\ ~EmptyFS.flag
BY DEF EmptyFS, FileSystem

LEMMA MntIsFS == ASSUME TypeOK PROVE Mnt \in FileSystem
BY DEF TypeOK, Mnt

(* A write below /mnt changes the file system that is mounted and no other. *)
LEMMA Written ==
    ASSUME TypeOK, NEW fs \in FileSystem, WriteMnt(fs)
    PROVE  /\ Mnt' = fs
           /\ mounted' = mounted /\ gpt' = gpt
           /\ live' \in {live, fs}
           /\ root' \in [Disks -> FileSystem]
           /\ \A d \in Disks : root'[d] \in {root[d], fs}
<1>1. CASE mounted = NoDisk
  BY <1>1 DEF WriteMnt, Mnt, TypeOK
<1>2. CASE mounted # NoDisk
  <2>1. mounted \in Disks /\ root \in [Disks -> FileSystem]
    BY <1>2 DEF TypeOK
  <2>2. root' = [root EXCEPT ![mounted] = fs] /\ live' = live /\ mounted' = mounted /\ gpt' = gpt
    BY <1>2 DEF WriteMnt
  <2> QED BY <1>2, <2>1, <2>2 DEF Mnt
<1> QED BY <1>1, <1>2

LEMMA InitEInv == Init => EInv
<1> SUFFICES ASSUME Init PROVE EInv
  OBVIOUS
<1>1. TypeOK
  BY EmptyIsFS DEF Init, TypeOK, Places
<1>2. RunOK
  BY DEF Init, RunOK, BeforeDisko
<1>3. MntOK(pc, Mnt, lockKept)
  BY DEF Init, MntOK, WithTree, BeforeDisko, AfterDisko
<1>4. FlagMeansInstalled
  BY EmptyIsFS DEF Init, FlagMeansInstalled
<1> QED BY <1>1, <1>2, <1>3, <1>4 DEF EInv

-----------------------------------------------------------------------------
(* The steps of a run *)

(* A call that writes one file system, sound and as the next call expects it,
   and learns whether a lock was kept. *)
LEMMA WriteStepKept ==
    ASSUME EInv, NEW place \in Places, NEW fs \in FileSystem, NEW kept \in BOOLEAN,
           pc # "idle", pc' = place, WriteMnt(fs), lockKept' = kept,
           UNCHANGED <<planVars, cur, todo, conf, evaluated, treeAt, foreign>>,
           MntOK(place, fs, kept), Flagged(fs),
           place \notin {"config", "mode", "disko", "flag"},
           place \in BeforeDisko => pc \in BeforeDisko,
           place = "ok" => pc = "flag"
    PROVE  EInv'
<1>1. /\ Mnt' = fs
      /\ mounted' = mounted /\ gpt' = gpt
      /\ live' \in {live, fs}
      /\ root' \in [Disks -> FileSystem]
      /\ \A d \in Disks : root'[d] \in {root[d], fs}
  BY Written DEF EInv
<1>2. TypeOK'
  <2>1. lockKept' \in BOOLEAN
    OBVIOUS
  <2> QED BY <1>1, <2>1 DEF EInv, TypeOK, planVars
<1>3. RunOK'
  BY <1>1 DEF EInv, RunOK, planVars
<1>4. MntOK(pc, Mnt, lockKept)'
  BY <1>1 DEF MntOK
<1>5. FlagMeansInstalled'
  BY <1>1 DEF EInv, FlagMeansInstalled, Flagged
<1> QED BY <1>2, <1>3, <1>4, <1>5 DEF EInv

(* The same for the calls that keep no lock. *)
LEMMA WriteStep ==
    ASSUME EInv, NEW place \in Places, NEW fs \in FileSystem,
           pc # "idle", pc' = place, WriteMnt(fs),
           UNCHANGED <<planVars, cur, todo, conf, history>>,
           MntOK(place, fs, lockKept), Flagged(fs),
           place \notin {"config", "mode", "disko", "flag"},
           place \in BeforeDisko => pc \in BeforeDisko,
           place = "ok" => pc = "flag"
    PROVE  EInv'
<1>1. lockKept \in BOOLEAN
  BY DEF EInv, TypeOK
<1> QED BY <1>1, WriteStepKept DEF history

(* A call that touches no file system and no disk. *)
LEMMA MoveStep ==
    ASSUME EInv, NEW place \in Places,
           pc' = place, UNCHANGED <<planVars, cur, todo, world, treeAt, lockKept>>,
           conf' \in Disks \cup {Absent}, evaluated' \in BOOLEAN, foreign' \in BOOLEAN,
           MntOK(place, Mnt, lockKept), RunOK'
    PROVE  EInv'
<1>1. Mnt' = Mnt
  BY DEF Mnt, world
<1>2. TypeOK'
  BY DEF EInv, TypeOK, planVars, world
<1>3. MntOK(pc, Mnt, lockKept)'
  BY <1>1 DEF MntOK, world
<1>4. FlagMeansInstalled'
  BY DEF EInv, FlagMeansInstalled, world
<1> QED BY <1>2, <1>3, <1>4 DEF EInv

(* A call that failed and changed nothing. *)
LEMMA FailStep ==
    ASSUME EInv, pc # "idle", Fail, UNCHANGED <<planVars, cur, todo>>
    PROVE  EInv'
<1>1. RunOK'
  BY DEF Fail, EInv, RunOK, BeforeDisko
<1>2. MntOK("failed", Mnt, lockKept)
  BY DEF MntOK, WithTree, BeforeDisko, AfterDisko
<1> QED BY <1>1, <1>2, MoveStep DEF Fail, Places, world, history, EInv, TypeOK

LEMMA MntFlagged == ASSUME EInv PROVE Flagged(Mnt)
<1>1. CASE mounted = NoDisk
  BY <1>1 DEF EInv, FlagMeansInstalled, Flagged, Mnt
<1>2. CASE mounted # NoDisk
  <2>1. mounted \in Disks
    BY <1>2 DEF EInv, TypeOK
  <2> QED BY <1>2, <2>1 DEF EInv, FlagMeansInstalled, Flagged, Mnt
<1> QED BY <1>1, <1>2

LEMMA StartKeepsEInv == ASSUME EInv, NEW r \in Requests, Start(r) PROVE EInv'
<1> USE DEF Start, Goto, planVars, world
<1>1. TypeOK'
  BY DEF EInv, TypeOK, Places, BeforeDisko
<1>2. RunOK'
  BY DEF RunOK, BeforeDisko
<1>3. MntOK(pc, Mnt, lockKept)'
  BY DEF MntOK, WithTree, BeforeDisko, AfterDisko
<1>4. FlagMeansInstalled'
  BY DEF EInv, FlagMeansInstalled
<1> QED BY <1>1, <1>2, <1>3, <1>4 DEF EInv

LEMMA SkeletonKeepsEInv == ASSUME EInv, CreateSkeleton PROVE EInv'
<1> DEFINE fs == [Mnt EXCEPT !.dirs = TRUE]
<1> USE DEF CreateSkeleton, At, Goto
<1>1. CASE pc' = "copy" /\ WriteMnt(fs) /\ UNCHANGED <<conf, history>>
  <2>1. fs \in FileSystem /\ fs.dirs /\ Flagged(fs)
    BY MntIsFS, MntFlagged DEF EInv, FileSystem, Flagged
  <2>2. MntOK("copy", fs, lockKept)
    BY <2>1 DEF MntOK, AfterDisko
  <2> HIDE DEF fs
  <2> QED BY <1>1, <2>1, <2>2, WriteStep DEF Places, BeforeDisko
<1>2. CASE Fail
  BY <1>2, FailStep
<1> QED BY <1>1, <1>2

LEMMA CopyKeepsEInv == ASSUME EInv, CopyEngine PROVE EInv'
<1> USE DEF CopyEngine, At, Goto
<1>1. ASSUME NEW flake \in BOOLEAN, NEW lock \in {Absent, Mnt.lock},
             pc' = "hardware", WriteMnt([Mnt EXCEPT !.engine = flake, !.lock = lock]),
             lockKept' = (lock # Absent), UNCHANGED <<evaluated, treeAt, foreign>>
      PROVE  EInv'
  <2> DEFINE fs == [Mnt EXCEPT !.engine = flake, !.lock = lock]
             kept == lock # Absent
  <2>1. Mnt.dirs
    BY DEF EInv, MntOK, WithTree, BeforeDisko
  <2>2. fs \in FileSystem /\ fs.dirs /\ fs.lock = lock /\ Flagged(fs)
    BY <2>1, MntIsFS, MntFlagged DEF EInv, FileSystem, Flagged
  <2>3. MntOK("hardware", fs, kept)
    BY <2>2 DEF MntOK, AfterDisko
  <2>4. kept \in BOOLEAN /\ lockKept' = kept
    BY <1>1
  <2> HIDE DEF fs, kept
  <2>5. WriteMnt(fs)
    BY <1>1 DEF fs
  <2> QED BY <1>1, <2>2, <2>3, <2>4, <2>5, WriteStepKept DEF Places, BeforeDisko
<1>2. ASSUME NEW flake \in BOOLEAN,
             pc' = "failed", WriteMnt([Mnt EXCEPT !.engine = flake]), UNCHANGED history
      PROVE  EInv'
  <2> DEFINE fs == [Mnt EXCEPT !.engine = flake]
  <2>1. fs \in FileSystem /\ Flagged(fs)
    BY MntIsFS, MntFlagged DEF EInv, FileSystem, Flagged
  <2>2. MntOK("failed", fs, lockKept)
    BY DEF MntOK, WithTree, BeforeDisko, AfterDisko
  <2> HIDE DEF fs
  <2>3. WriteMnt(fs)
    BY <1>2 DEF fs
  <2> QED BY <1>2, <2>1, <2>2, <2>3, WriteStep DEF Places, BeforeDisko
<1> QED BY <1>1, <1>2

LEMMA HardwareKeepsEInv ==
    ASSUME EInv, GenerateHardware \/ RegenerateHardware PROVE EInv'
<1> DEFINE fs == [Mnt EXCEPT !.hardware = mounted]
<1> USE DEF GenerateHardware, RegenerateHardware, WriteHardware, At, Goto
<1>1. CASE Fail
  BY <1>1, FailStep
<1>2. ASSUME ~Fail
      PROVE  /\ Mnt.dirs /\ WriteMnt(fs) /\ UNCHANGED <<planVars, cur, todo, conf, history>>
             /\ \/ pc = "hardware" /\ pc' = "modules"
                \/ pc = "regenerate" /\ pc' = "nixos"
  BY <1>2
<1>3. CASE ~Fail
  <2>1. fs \in FileSystem /\ fs.dirs /\ Flagged(fs) /\ fs.hardware = mounted
    BY <1>2, <1>3, MntIsFS, MntFlagged DEF EInv, TypeOK, FileSystem, Flagged
  <2>2. fs.plan = Mnt.plan /\ fs.lock = Mnt.lock
    OBVIOUS
  <2>3. pc = "hardware" => MntOK("modules", fs, lockKept)
    BY <2>1, <2>2 DEF EInv, MntOK, AfterDisko
  <2>4. pc = "regenerate" => MntOK("nixos", fs, lockKept)
    BY <1>2, <1>3, <2>1, <2>2 DEF EInv, MntOK, AfterDisko
  <2> HIDE DEF fs
  <2> QED BY <1>2, <1>3, <2>1, <2>3, <2>4, WriteStep DEF Places, BeforeDisko, AfterDisko
<1> QED BY <1>1, <1>3

LEMMA ModulesKeepEInv == ASSUME EInv, WriteModules PROVE EInv'
<1> USE DEF WriteModules, At, Goto
<1>0. cur \in Requests /\ Mnt.dirs
  BY DEF EInv, RunOK, MntOK, WithTree, BeforeDisko
<1>1. CASE pc' = "lock" /\ WriteMnt([Mnt EXCEPT !.plan = cur])
  <2> DEFINE fs == [Mnt EXCEPT !.plan = cur]
  <2>1. fs \in FileSystem /\ fs.dirs /\ fs.plan = cur /\ fs.lock = Mnt.lock /\ Flagged(fs)
    BY <1>0, MntIsFS, MntFlagged DEF EInv, FileSystem, Flagged
  <2>2. MntOK("lock", fs, lockKept)
    BY <2>1 DEF EInv, MntOK, AfterDisko
  <2> HIDE DEF fs
  <2>3. WriteMnt(fs)
    BY <1>1 DEF fs
  <2> QED BY <1>1, <2>1, <2>2, <2>3, WriteStep DEF Places, BeforeDisko
<1>2. ASSUME NEW left \in {Mnt.plan, cur, Mixed},
             pc' = "failed", WriteMnt([Mnt EXCEPT !.plan = left])
      PROVE  EInv'
  <2> DEFINE fs == [Mnt EXCEPT !.plan = left]
  <2>1. fs \in FileSystem /\ Flagged(fs)
    BY <1>0, MntIsFS, MntFlagged DEF EInv, FileSystem, Flagged
  <2>2. MntOK("failed", fs, lockKept)
    BY DEF MntOK, WithTree, BeforeDisko, AfterDisko
  <2> HIDE DEF fs
  <2>3. WriteMnt(fs)
    BY <1>2 DEF fs
  <2> QED BY <1>2, <2>1, <2>2, <2>3, WriteStep DEF Places, BeforeDisko
<1> QED BY <1>1, <1>2

LEMMA LockKeepsEInv == ASSUME EInv, PreLock PROVE EInv'
<1> USE DEF PreLock, At, Goto
<1>1. ASSUME NEW lock \in {cur, Mnt.lock} \ {Absent},
             pc' = "gate", WriteMnt([Mnt EXCEPT !.lock = lock]), UNCHANGED <<conf, history>>
      PROVE  EInv'
  <2> DEFINE fs == [Mnt EXCEPT !.lock = lock]
  <2>1. cur \in Requests /\ Mnt.dirs /\ Mnt.plan = cur /\ (lock = cur \/ lockKept)
    BY DEF EInv, RunOK, MntOK, WithTree, BeforeDisko
  <2>2. fs \in FileSystem /\ fs.dirs /\ fs.plan = cur /\ fs.lock = lock /\ Flagged(fs)
    BY <2>1, MntIsFS, MntFlagged DEF EInv, FileSystem, Flagged
  <2>3. MntOK("gate", fs, lockKept)
    BY <2>1, <2>2 DEF MntOK
  <2> HIDE DEF fs
  <2>4. WriteMnt(fs)
    BY <1>1 DEF fs
  <2> QED BY <1>1, <2>2, <2>3, <2>4, WriteStep DEF Places, BeforeDisko
<1>2. CASE Fail
  BY <1>2, FailStep
<1> QED BY <1>1, <1>2

(* The calls that touch no file below /mnt before disko runs. *)
LEMMA ChecksKeepEInv ==
    ASSUME EInv, PreflightGate \/ EvalTargetFlake \/ WriteDiskoConfig \/ CheckDiskoMode
    PROVE  EInv'
<1> USE DEF At, Goto, history
<1>1. CASE Fail
  <2>1. pc # "idle" /\ UNCHANGED <<planVars, cur, todo>>
    BY DEF PreflightGate, EvalTargetFlake, WriteDiskoConfig, CheckDiskoMode
  <2> QED BY <1>1, <2>1, FailStep
<1>2. CASE PreflightGate /\ ~Fail
  <2>1. MntOK("eval", Mnt, lockKept)
    BY <1>2 DEF PreflightGate, EInv, MntOK, WithTree, BeforeDisko
  <2>2. RunOK'
    BY <1>2 DEF PreflightGate, EInv, RunOK, BeforeDisko, world
  <2> QED BY <1>2, <2>1, <2>2, MoveStep
          DEF PreflightGate, Places, BeforeDisko, EInv, TypeOK
<1>3. CASE EvalTargetFlake /\ ~Fail
  <2>1. MntOK("config", Mnt, lockKept)
    BY <1>3 DEF EvalTargetFlake, EInv, MntOK, WithTree, BeforeDisko
  <2>2. RunOK'
    BY <1>3 DEF EvalTargetFlake, EInv, RunOK, BeforeDisko, world
  <2> QED BY <1>3, <2>1, <2>2, MoveStep
          DEF EvalTargetFlake, Places, BeforeDisko, EInv, TypeOK
<1>4. CASE WriteDiskoConfig /\ ~Fail
  <2>1. MntOK("mode", Mnt, lockKept)
    BY <1>4 DEF WriteDiskoConfig, EInv, MntOK, WithTree, BeforeDisko
  <2>2. cur \in Requests /\ target[cur] \in Disks
    BY <1>4 DEF WriteDiskoConfig, EInv, RunOK, TypeOK
  <2>3. evaluated /\ mounted = treeAt
    BY <1>4 DEF WriteDiskoConfig, EInv, RunOK, BeforeDisko
  <2>4. pc' = "mode" /\ conf' = target[cur] /\ target' = target /\ cur' = cur
        /\ evaluated' = evaluated /\ mounted' = mounted /\ treeAt' = treeAt
    BY <1>4 DEF WriteDiskoConfig, world, planVars
  <2>5. RunOK'
    BY <2>2, <2>3, <2>4 DEF RunOK
  <2> QED BY <1>4, <2>1, <2>2, <2>5, MoveStep
          DEF WriteDiskoConfig, Places, BeforeDisko, EInv, TypeOK
<1>5. CASE CheckDiskoMode /\ pc' = "disko"
  <2>1. MntOK("disko", Mnt, lockKept)
    BY <1>5 DEF CheckDiskoMode, EInv, MntOK, WithTree, BeforeDisko
  <2>2. RunOK'
    BY <1>5 DEF CheckDiskoMode, EInv, RunOK, BeforeDisko, world, planVars
  <2> QED BY <1>5, <2>1, <2>2, MoveStep
          DEF CheckDiskoMode, Places, BeforeDisko, EInv, TypeOK
<1>6. CASE CheckDiskoMode /\ pc' # "disko"
  BY <1>1, <1>6 DEF CheckDiskoMode, Fail
<1> QED BY <1>1, <1>2, <1>3, <1>4, <1>5, <1>6

-----------------------------------------------------------------------------
(* disko, and what follows it *)

(* disko empties the root of the disk its configuration names or leaves it
   alone, and mounts that disk or leaves /mnt alone. *)
LEMMA DiskoDoes ==
    ASSUME EInv, RunDisko
    PROVE  /\ pc = "disko" /\ pc' \in {"regenerate", "failed"}
           /\ conf \in Disks
           /\ root' \in {root, [root EXCEPT ![conf] = EmptyFS]}
           /\ mounted' \in {mounted, conf}
           /\ gpt' \in {gpt, gpt \cup {conf}}
           /\ UNCHANGED <<planVars, cur, todo, live, conf, history>>
<1>1. pc = "disko" /\ UNCHANGED <<planVars, cur, todo, live, conf, history>>
  BY DEF RunDisko, At
<1>2. conf \in Disks
  BY <1>1 DEF EInv, RunOK
<1>3. DiskoPartitions(mode[cur], conf) \/ UNCHANGED <<root, gpt, mounted>>
  BY DEF RunDisko
<1>4. pc' \in {"regenerate", "failed"} /\ mounted' \in {mounted, conf}
  BY DEF RunDisko, Goto
<1> QED BY <1>1, <1>2, <1>3, <1>4 DEF DiskoPartitions

LEMMA DiskoKeepsEInv == ASSUME EInv, RunDisko PROVE EInv'
<1> USE DiskoDoes
<1>1. TypeOK'
  BY EmptyIsFS DEF EInv, TypeOK, planVars, history, Places, AfterDisko
<1>2. RunOK'
  <2>1. cur \in Requests
    BY DEF EInv, RunOK
  <2> QED BY <2>1 DEF RunOK, BeforeDisko, planVars
<1>3. FlagMeansInstalled'
  BY EmptyIsFS DEF EInv, TypeOK, FlagMeansInstalled
<1>4. mounted = treeAt /\ MntOK("disko", Mnt, lockKept)
  BY DEF EInv, RunOK, BeforeDisko
<1>5. mounted' = treeAt' /\ Mnt'.dirs => Mnt' = Mnt
  BY <1>4, EmptyIsFS DEF EInv, TypeOK, Mnt, history
<1>6. MntOK(pc, Mnt, lockKept)'
  BY <1>4, <1>5 DEF MntOK, WithTree, BeforeDisko, AfterDisko, history
<1> QED BY <1>1, <1>2, <1>3, <1>6 DEF EInv

LEMMA NixosInstallKeepsEInv == ASSUME EInv, NixosInstall PROVE EInv'
<1> USE DEF NixosInstall, At, Goto
<1>1. CASE /\ pc' = "verify" /\ Mnt.plan # Absent
           /\ WriteMnt([Mnt EXCEPT !.store = TRUE, !.system = Mnt.plan])
  <2> DEFINE fs == [Mnt EXCEPT !.store = TRUE, !.system = Mnt.plan]
  <2>1. MntOK("nixos", Mnt, lockKept) /\ Mnt.dirs
    BY DEF EInv, MntOK, WithTree
  <2>2. fs \in FileSystem /\ Flagged(fs)
    BY <1>1, MntIsFS DEF EInv, FileSystem, Flagged
  <2>3. /\ fs.dirs /\ fs.plan = Mnt.plan /\ fs.lock = Mnt.lock
        /\ fs.hardware = Mnt.hardware /\ fs.system = Mnt.plan
    BY <2>1, MntIsFS DEF EInv, FileSystem
  <2>4. MntOK("verify", fs, lockKept)
    BY <2>1, <2>3 DEF MntOK, AfterDisko
  <2> HIDE DEF fs
  <2>5. WriteMnt(fs)
    BY <1>1 DEF fs
  <2> QED BY <1>1, <2>2, <2>4, <2>5, WriteStep DEF Places, BeforeDisko, AfterDisko
<1>2. ASSUME NEW filled \in BOOLEAN,
             pc' = "failed", WriteMnt([Mnt EXCEPT !.store = Mnt.store \/ filled])
      PROVE  EInv'
  <2> DEFINE fs == [Mnt EXCEPT !.store = Mnt.store \/ filled]
  <2>1. fs \in FileSystem /\ Flagged(fs)
    BY MntIsFS, MntFlagged DEF EInv, FileSystem, Flagged
  <2>2. MntOK("failed", fs, lockKept)
    BY DEF MntOK, WithTree, BeforeDisko, AfterDisko
  <2> HIDE DEF fs
  <2>3. WriteMnt(fs)
    BY <1>2 DEF fs
  <2> QED BY <1>2, <2>1, <2>2, <2>3, WriteStep DEF Places, BeforeDisko
<1> QED BY <1>1, <1>2

LEMMA VerifyKeepsEInv == ASSUME EInv, VerifyDiskInstall PROVE EInv'
<1> USE DEF VerifyDiskInstall, At, Goto
<1>1. CASE Fail
  BY <1>1, FailStep
<1>2. CASE ~Fail
  <2>1. pc' = "flag" /\ UNCHANGED <<planVars, cur, todo, world, conf, history>>
    BY <1>2
  <2>2. MntOK("flag", Mnt, lockKept)
    BY <1>2 DEF EInv, MntOK, WithTree, AfterDisko
  <2>3. RunOK'
    BY <1>2, <2>1 DEF EInv, RunOK, BeforeDisko, planVars, world
  <2> QED BY <2>1, <2>2, <2>3, MoveStep DEF EInv, TypeOK, Places, AfterDisko, history
<1> QED BY <1>1, <1>2

LEMMA FlagKeepsEInv == ASSUME EInv, WriteInstallFlag PROVE EInv'
<1> DEFINE fs == [Mnt EXCEPT !.flag = TRUE]
<1> USE DEF WriteInstallFlag, At, Goto
<1>1. CASE Fail
  BY <1>1, FailStep
<1>2. CASE pc' = "ok" /\ WriteMnt(fs) /\ UNCHANGED <<conf, history>>
  <2>1. MntOK("flag", Mnt, lockKept) /\ Mnt.dirs /\ Mnt.store /\ Mnt.system # Absent
    BY DEF EInv, MntOK, WithTree
  <2>2. /\ fs.dirs = Mnt.dirs /\ fs.hardware = Mnt.hardware /\ fs.system = Mnt.system
        /\ fs.store = Mnt.store /\ fs.flag
    BY MntIsFS DEF EInv, FileSystem
  <2>3. fs \in FileSystem /\ Flagged(fs)
    BY <2>1, <2>2, MntIsFS DEF EInv, FileSystem, Flagged
  <2>4. MntOK("ok", fs, lockKept)
    BY <2>1, <2>2 DEF MntOK, AfterDisko
  <2> HIDE DEF fs
  <2> QED BY <1>2, <2>3, <2>4, WriteStep DEF Places, BeforeDisko
<1> QED BY <1>1, <1>2

(* The run returns, the daemon dies, or the operator unmounts: nothing is
   relied on in a place where nothing runs. *)
LEMMA IdleKeepsEInv == ASSUME EInv, Return \/ Crash \/ Unmount PROVE EInv'
<1>1. /\ pc' = "idle" /\ cur' \in {cur, Absent} /\ mounted' \in {mounted, NoDisk}
      /\ UNCHANGED <<planVars, todo, conf, live, root, gpt, history>>
  BY DEF Return, Crash, Unmount, Goto, world
<1>2. TypeOK'
  BY <1>1 DEF EInv, TypeOK, planVars, history, Places
<1>3. RunOK'
  BY <1>1 DEF RunOK, BeforeDisko
<1>4. MntOK(pc, Mnt, lockKept)'
  BY <1>1 DEF MntOK, WithTree, BeforeDisko, AfterDisko
<1>5. FlagMeansInstalled'
  BY <1>1 DEF EInv, FlagMeansInstalled
<1> QED BY <1>2, <1>3, <1>4, <1>5 DEF EInv

LEMMA DryRunKeepsEInv == ASSUME EInv, NEW d \in Disks, DryRunWrites(d) PROVE EInv'
<1>1. RunOK'
  BY DEF DryRunWrites, EInv, RunOK, planVars, world
<1>2. pc \in Places /\ MntOK(pc, Mnt, lockKept)
  BY DEF EInv, TypeOK
<1> QED BY <1>1, <1>2, MoveStep DEF DryRunWrites, EInv, TypeOK

LEMMA NextKeepsEInv == EInv /\ [Next]_execVars => EInv'
<1> SUFFICES ASSUME EInv, [Next]_execVars PROVE EInv'
  OBVIOUS
<1>1. CASE UNCHANGED execVars
  <2>1. TypeOK' /\ RunOK'
    BY <1>1 DEF EInv, execVars, TypeOK, RunOK
  <2>2. Mnt' = Mnt
    BY <1>1 DEF execVars, Mnt
  <2>3. MntOK(pc, Mnt, lockKept)' /\ FlagMeansInstalled'
    BY <1>1, <2>2 DEF EInv, execVars, MntOK, FlagMeansInstalled
  <2> QED BY <2>1, <2>3 DEF EInv
<1>2. CASE Step
  BY <1>2, SkeletonKeepsEInv, CopyKeepsEInv, HardwareKeepsEInv, ModulesKeepEInv,
     LockKeepsEInv, ChecksKeepEInv, DiskoKeepsEInv, NixosInstallKeepsEInv,
     VerifyKeepsEInv, FlagKeepsEInv, IdleKeepsEInv DEF Step
<1> QED BY <1>1, <1>2, StartKeepsEInv, DryRunKeepsEInv, IdleKeepsEInv DEF Next

-----------------------------------------------------------------------------
(* What is destroyed *)

Destroyed(d) == Wiped(d) \/ (d \in gpt' /\ d \notin gpt)

(* A write leaves the tree where it is, so it empties nothing. *)
LEMMA WriteDestroysNothing ==
    ASSUME EInv, NEW fs \in FileSystem, WriteMnt(fs), fs.dirs, NEW d \in Disks
    PROVE  ~Destroyed(d)
<1>1. gpt' = gpt /\ root'[d] \in {root[d], fs}
  BY Written DEF EInv
<1>2. fs # EmptyFS
  BY EmptyIsFS
<1> QED BY <1>1, <1>2 DEF Destroyed, Wiped

LEMMA OnlyDiskoDestroys ==
    ASSUME EInv, [Next]_execVars, NEW d \in Disks, Destroyed(d)
    PROVE  RunDisko /\ d = conf
<1> DEFINE Harmless == \/ \E fs \in FileSystem : WriteMnt(fs) /\ fs.dirs
                       \/ UNCHANGED <<root, gpt>>
<1>1. ~Harmless
  BY WriteDestroysNothing DEF Destroyed, Wiped
<1>2. Harmless \/ RunDisko
  <2> USE MntIsFS DEF At, Goto, world, Fail, WriteHardware
  <2>1. TypeOK /\ Mnt \in FileSystem
    BY DEF EInv
  <2>2. CreateSkeleton => Harmless
    <3>1. [Mnt EXCEPT !.dirs = TRUE] \in FileSystem /\ [Mnt EXCEPT !.dirs = TRUE].dirs
      BY <2>1 DEF FileSystem
    <3> QED BY <3>1 DEF CreateSkeleton
  <2>3. CopyEngine => Harmless
    <3> SUFFICES ASSUME CopyEngine PROVE Harmless
      OBVIOUS
    <3>1. Mnt.dirs
      BY DEF CopyEngine, EInv, MntOK, WithTree, BeforeDisko
    <3>2. \A flake \in BOOLEAN :
            /\ [Mnt EXCEPT !.engine = flake] \in FileSystem
            /\ [Mnt EXCEPT !.engine = flake].dirs
      BY <2>1, <3>1 DEF FileSystem
    <3>3. \A flake \in BOOLEAN, lock \in {Absent, Mnt.lock} :
            /\ [Mnt EXCEPT !.engine = flake, !.lock = lock] \in FileSystem
            /\ [Mnt EXCEPT !.engine = flake, !.lock = lock].dirs
      BY <2>1, <3>1 DEF FileSystem
    <3> QED BY <3>2, <3>3 DEF CopyEngine
  <2>4. GenerateHardware \/ RegenerateHardware => Harmless
    <3>1. Mnt.dirs => /\ [Mnt EXCEPT !.hardware = mounted] \in FileSystem
                      /\ [Mnt EXCEPT !.hardware = mounted].dirs
      BY <2>1 DEF FileSystem, TypeOK
    <3> QED BY <3>1 DEF GenerateHardware, RegenerateHardware
  <2>5. WriteModules \/ PreLock => Harmless
    <3> SUFFICES ASSUME WriteModules \/ PreLock PROVE Harmless
      OBVIOUS
    <3>1. Mnt.dirs /\ cur \in Requests
      BY DEF WriteModules, PreLock, EInv, MntOK, RunOK, WithTree, BeforeDisko
    <3>2. \A left \in {Mnt.plan, cur, Mixed} :
            [Mnt EXCEPT !.plan = left] \in FileSystem /\ [Mnt EXCEPT !.plan = left].dirs
      BY <2>1, <3>1 DEF FileSystem
    <3>3. \A lock \in {cur, Mnt.lock} :
            [Mnt EXCEPT !.lock = lock] \in FileSystem /\ [Mnt EXCEPT !.lock = lock].dirs
      BY <2>1, <3>1 DEF FileSystem
    <3> QED BY <3>2, <3>3 DEF WriteModules, PreLock
  <2>6. NixosInstall => Harmless
    <3> SUFFICES ASSUME NixosInstall PROVE Harmless
      OBVIOUS
    <3>1. Mnt.dirs
      BY DEF NixosInstall, EInv, MntOK, WithTree
    <3>2. /\ [Mnt EXCEPT !.store = TRUE, !.system = Mnt.plan] \in FileSystem
          /\ [Mnt EXCEPT !.store = TRUE, !.system = Mnt.plan].dirs
      BY <2>1, <3>1 DEF FileSystem
    <3>3. \A filled \in BOOLEAN :
            /\ [Mnt EXCEPT !.store = Mnt.store \/ filled] \in FileSystem
            /\ [Mnt EXCEPT !.store = Mnt.store \/ filled].dirs
      BY <2>1, <3>1 DEF FileSystem
    <3> QED BY <3>2, <3>3 DEF NixosInstall
  <2>7. WriteInstallFlag => Harmless
    <3> SUFFICES ASSUME WriteInstallFlag PROVE Harmless
      OBVIOUS
    <3>1. Mnt.dirs
      BY DEF WriteInstallFlag, EInv, MntOK, WithTree
    <3>2. [Mnt EXCEPT !.flag = TRUE] \in FileSystem /\ [Mnt EXCEPT !.flag = TRUE].dirs
      BY <2>1, <3>1 DEF FileSystem
    <3> QED BY <3>2 DEF WriteInstallFlag
  <2>8. \/ PreflightGate \/ EvalTargetFlake \/ WriteDiskoConfig \/ CheckDiskoMode
        \/ VerifyDiskInstall \/ Return
        => Harmless
    BY DEF PreflightGate, EvalTargetFlake, WriteDiskoConfig, CheckDiskoMode,
           VerifyDiskInstall, Return
  <2>9. (\E r \in Requests : Start(r)) \/ (\E e \in Disks : DryRunWrites(e))
        \/ Crash \/ Unmount \/ UNCHANGED execVars
        => Harmless
    BY DEF Start, DryRunWrites, Crash, Unmount, execVars
  <2> HIDE DEF Harmless
  <2> QED BY <2>2, <2>3, <2>4, <2>5, <2>6, <2>7, <2>8, <2>9 DEF Next, Step
<1>3. RunDisko
  BY <1>1, <1>2
<1>4. /\ root' \in {root, [root EXCEPT ![conf] = EmptyFS]}
      /\ gpt' \in {gpt, gpt \cup {conf}}
  BY <1>3, DiskoDoes
<1>5. d = conf
  BY <1>4 DEF Destroyed, Wiped, EInv, TypeOK
<1> QED BY <1>3, <1>5

LEMMA DestroysOnlyEvaluatedTarget ==
    ASSUME EInv, [Next]_execVars, NEW d \in Disks, Destroyed(d)
    PROVE  evaluated /\ (foreign \/ d = target[cur])
<1>1. RunDisko /\ d = conf
  BY OnlyDiskoDestroys
<1> QED BY <1>1, DiskoDoes DEF EInv, RunOK

-----------------------------------------------------------------------------
(* The executor's theorems *)

LEMMA EInvAlways == Spec => []EInv
<1>1. Init => EInv
  BY InitEInv
<1>2. EInv /\ [Next]_execVars => EInv'
  BY NextKeepsEInv
<1> QED BY <1>1, <1>2, PTL DEF Spec

(* Every variable of run_installation's world keeps its type. *)
THEOREM ExecutorTypes == Spec => []TypeOK
<1>1. EInv => TypeOK
  BY DEF EInv
<1> QED BY <1>1, EInvAlways, PTL

(* From the preflight gate on, the tree on an unchanged /mnt and its lock are
   those of the run that is going on; the lock may be an earlier one when
   finalize_engine could not remove it. *)
THEOREM TreeIsThisRunsAlways == Spec => []TreeIsThisRuns
<1>1. EInv => TreeIsThisRuns
  BY DEF EInv, MntOK, TreeIsThisRuns
<1> QED BY <1>1, EInvAlways, PTL

(* nixos-install gets a hardware module of the root that is mounted. *)
THEOREM HardwareMatchesMountAlways == Spec => []HardwareMatchesMount
<1>1. EInv => HardwareMatchesMount
  BY DEF EInv, MntOK, HardwareMatchesMount
<1> QED BY <1>1, EInvAlways, PTL

(* No sequence of runs, failures, crashes and unmounts leaves the flag of
   /api/validate-install where no system was installed. *)
THEOREM FlagMeansInstalledAlways == Spec => []FlagMeansInstalled
<1>1. EInv => FlagMeansInstalled
  BY DEF EInv
<1> QED BY <1>1, EInvAlways, PTL

(* Ok is only returned for a disk that holds this request's system. *)
THEOREM OkInstalledThisPlanAlways == Spec => []OkInstalledThisPlan
<1>1. EInv => OkInstalledThisPlan
  BY DEF EInv, RunOK, MntOK, OkInstalledThisPlan
<1> QED BY <1>1, EInvAlways, PTL

(* No disk is partitioned or wiped for a tree that nix did not evaluate. *)
THEOREM NothingDestroyedBeforeEvalAlways == Spec => NothingDestroyedBeforeEval
<1>1. EInv /\ [Next]_execVars =>
        [\A d \in Disks : Wiped(d) \/ (d \in gpt' /\ d \notin gpt) => evaluated]_execVars
  BY DestroysOnlyEvaluatedTarget DEF Destroyed
<1> QED BY <1>1, EInvAlways, PTL DEF Spec, NothingDestroyedBeforeEval

(* The only disk a run destroys is its target, unless a dry-run has rewritten
   the disko configuration they share. *)
THEOREM OnlyTargetDestroyedAlways == Spec => OnlyTargetDestroyed
<1>1. EInv /\ [Next]_execVars =>
        [\A d \in Disks :
           Wiped(d) \/ (d \in gpt' /\ d \notin gpt) => foreign \/ d = target[cur]]_execVars
  BY DestroysOnlyEvaluatedTarget DEF Destroyed
<1> QED BY <1>1, EInvAlways, PTL DEF Spec, OnlyTargetDestroyed

-----------------------------------------------------------------------------
(* The daemon runs an executor and a job *)

JP == INSTANCE InstallJob_proofs WITH Nobody <- NoRequest, Orphan <- Absent

LEMMA JobAssumptions ==
    NoRequest \notin Requests /\ Absent \notin Requests /\ NoRequest # Absent
BY DaemonAssumption, ExecutorAssumption

(* Every step of the daemon is a step of the executor, or leaves it alone. *)
LEMMA DaemonStepsExecutor == DaemonNext => [Next]_execVars
<1>1. UNCHANGED <<mode, diskVars>> => UNCHANGED execVars
  BY DEF diskVars, execVars
<1>2. HandlerStep => UNCHANGED <<mode, diskVars>>
  BY DEF HandlerStep, J!Receive, J!Answer, J!Disconnect, J!RefuseUnauthorized,
         J!ValidateOnly, J!RefuseMode, J!ValidatePlan, J!SafetyChecks, J!Conflict,
         J!Reserve, J!Spawn
<1>3. ReportStep => UNCHANGED <<mode, diskVars>>
  BY DEF ReportStep, J!ReportOk, J!ReportError
<1>4. RestartDaemon => UNCHANGED <<mode, diskVars>> \/ Crash
  BY DEF RestartDaemon, J!Restart
<1>5. ExecutorStep \/ OtherStep \/ (\E r \in Requests : EnterExecutor(r) \/ LeaveExecutor(r))
        => Next
  BY DEF ExecutorStep, OtherStep, EnterExecutor, LeaveExecutor, Next, Step
<1>6. Crash => Next
  BY DEF Next
<1> QED BY <1>1, <1>2, <1>3, <1>4, <1>5, <1>6 DEF DaemonNext

(* ... and a step of the job, or leaves that alone. *)
LEMMA DaemonStepsJob == DaemonNext => [JP!Next]_(JP!vars)
<1>1. ASSUME NEW r \in Requests PROVE J!Receive(r) \/ J!Disconnect(r) => JP!Next
  BY DEF J!Receive, J!Disconnect, J!Goto, J!slotVars,
         JP!Receive, JP!Disconnect, JP!Goto, JP!slotVars, JP!Next
<1>2. ASSUME NEW r \in Requests PROVE J!Answer(r) => JP!Next
  <2>1. J!Answer(r) => JP!Answer(r)
    BY DEF J!Answer, J!RefuseUnauthorized, J!ValidateOnly, J!RefuseMode,
           J!ValidatePlan, J!SafetyChecks, J!Conflict, J!Reserve, J!Spawn,
           J!Goto, J!slotVars, J!SaveInstallState, J!Unreadable, J!ExecutableModes,
           JP!Answer, JP!RefuseUnauthorized, JP!ValidateOnly, JP!RefuseMode,
           JP!ValidatePlan, JP!SafetyChecks, JP!Conflict, JP!Reserve, JP!Spawn,
           JP!Goto, JP!slotVars, JP!SaveInstallState, JP!Unreadable, JP!ExecutableModes
  <2> QED BY <2>1 DEF JP!Next
<1>3. ASSUME NEW r \in Requests
      PROVE  J!ExecutorReturns(r) \/ J!ReportOk(r) \/ J!ReportError(r) => JP!Next
  <2>1. J!ExecutorReturns(r) \/ J!ReportOk(r) \/ J!ReportError(r) => JP!Run(r)
    BY DEF J!ExecutorReturns, J!ReportOk, J!ReportError, J!SaveInstallState, J!Unreadable,
           JP!ExecutorReturns, JP!ReportOk, JP!ReportError, JP!SaveInstallState,
           JP!Unreadable, JP!Run
  <2> QED BY <2>1 DEF JP!Next
<1>4. J!Restart => JP!Next
  BY DEF J!Restart, J!LoadInstallState, J!Unreadable, J!DefaultStatus, J!InProgress,
         J!Active, JP!Restart, JP!LoadInstallState, JP!Unreadable, JP!DefaultStatus,
         JP!InProgress, JP!Active, JP!Next
<1>5. Step \/ (\E r \in Requests : Start(r)) \/ (\E d \in Disks : DryRunWrites(d)) \/ Unmount
        => UNCHANGED mode
  BY DEF Step, Start, DryRunWrites, Unmount, CreateSkeleton, CopyEngine,
         GenerateHardware, WriteModules, PreLock, PreflightGate, EvalTargetFlake,
         WriteDiskoConfig, CheckDiskoMode, RunDisko, RegenerateHardware, NixosInstall,
         VerifyDiskInstall, WriteInstallFlag, Return, At, planVars
<1>6. UNCHANGED <<mode, jobVars>> => UNCHANGED JP!vars
  BY DEF jobVars, JP!vars
<1>7. HandlerStep \/ ReportStep \/ RestartDaemon => JP!Next
  BY <1>1, <1>2, <1>3, <1>4 DEF HandlerStep, ReportStep, RestartDaemon
<1>8. (\E r \in Requests : LeaveExecutor(r)) => JP!Next
  BY <1>3 DEF LeaveExecutor
<1>9. ExecutorStep \/ OtherStep \/ (\E r \in Requests : EnterExecutor(r)) => UNCHANGED JP!vars
  BY <1>5, <1>6 DEF ExecutorStep, OtherStep, EnterExecutor
<1> QED BY <1>7, <1>8, <1>9 DEF DaemonNext

LEMMA DaemonStepsBoth ==
    [DaemonNext]_daemonVars => [Next]_execVars /\ [JP!Next]_(JP!vars)
BY DaemonStepsExecutor, DaemonStepsJob
   DEF daemonVars, execVars, diskVars, jobVars, JP!vars

LEMMA DaemonInitBoth == DaemonInit => Init /\ JP!Init
BY DEF DaemonInit, J!Init, J!DefaultStatus, J!Unreadable,
       JP!Init, JP!DefaultStatus, JP!Unreadable

(* The executor inside the daemon is the executor of InstallExecutor, and what
   is proved of that is true of the daemon's. *)
THEOREM DaemonImplementsExecutor == DaemonSpec => Spec
BY DaemonInitBoth, DaemonStepsBoth, PTL DEF DaemonSpec, Spec

(* POST /install with the executor inside it grants one slot, to one request at
   a time (InstallSlot). *)
THEOREM DaemonImplementsSlot == DaemonSpec => JP!ImplementsSlot
<1>1. DaemonSpec => JP!Spec
  BY DaemonInitBoth, DaemonStepsBoth, PTL DEF DaemonSpec, JP!Spec
<1>2. JP!Spec => JP!ImplementsSlot
  BY JobAssumptions, JP!JobImplementsSlot
<1> QED BY <1>1, <1>2

-----------------------------------------------------------------------------
(* The task and the executor it is in *)

(* Whoever is inside run_installation is a live task that called it once, and
   every live task was accepted, in a mode the handler lets through.  The
   executor gets no further than the check of that mode. *)
TaskInside ==
    /\ pc = "idle" => cur = Absent
    /\ pc # "idle" => job[cur] = "running" /\ cur \notin todo

TasksAccepted ==
    \A r \in Requests :
      /\ handler[r] \in {"validated", "checked", "reserved", "accepted"}
           => mode[r] \in {"install", "real"}
      /\ job[r] \in {"running", "returned_ok", "returned_err"} => handler[r] = "accepted"

StopsAtMode == pc \notin {"disko", "ok"} \cup AfterDisko

DInv == TaskInside /\ TasksAccepted /\ StopsAtMode

(* What the proofs below need of the two specifications the daemon implements. *)
Both == EInv /\ JP!IInv

LEMMA BothGive ==
    ASSUME Both
    PROVE  /\ handler \in [Requests -> J!HandlerStates] /\ job \in [Requests -> J!JobStates]
           /\ cur \in Requests \cup {Absent}
           /\ pc # "idle" => cur \in Requests
           /\ \A r \in Requests : job[r] # "none" => handler[r] \in {"accepted", "lost"}
           /\ \A r \in Requests : J!Owner(r) => status.running /\ latest = r
BY DEF Both, EInv, TypeOK, RunOK, JP!IInv, JP!TypeOK, JP!JobFollowsReservation,
       JP!OwnerIsLatest, JP!OwnerHoldsSlot, JP!Owner, J!Owner, JP!Active, J!Active,
       JP!HandlerStates, J!HandlerStates, JP!JobStates, J!JobStates

LEMMA InitDInv == DaemonInit => DInv
<1> SUFFICES ASSUME DaemonInit PROVE DInv
  OBVIOUS
<1> QED BY DEF DaemonInit, Init, J!Init, DInv, TaskInside, TasksAccepted, StopsAtMode,
               AfterDisko

(* A handler that moves changes its own place and, when it spawns, its task. *)
LEMMA HandlerKeepsDInv == ASSUME Both, DInv, HandlerStep PROVE DInv'
<1>1. PICK r \in Requests : J!Receive(r) \/ J!Answer(r) \/ J!Disconnect(r)
  BY DEF HandlerStep
<1> USE BothGive
<1>2. UNCHANGED <<mode, pc, cur, todo>>
  BY <1>1 DEF HandlerStep, diskVars, J!Receive, J!Answer, J!Disconnect,
         J!RefuseUnauthorized, J!ValidateOnly, J!RefuseMode, J!ValidatePlan,
         J!SafetyChecks, J!Conflict, J!Reserve, J!Spawn
<1>3. \/ /\ job' = job
         /\ \E place \in {"received", "refused", "validated_only", "validated", "checked",
                          "lost", "conflict", "reserved"} :
              /\ handler' = [handler EXCEPT ![r] = place]
              /\ handler[r] \in {"new", "received", "validated", "checked"}
              /\ place \in {"validated", "checked", "reserved"} =>
                   \/ mode[r] \in {"install", "real"}
                   \/ handler[r] \in {"validated", "checked"}
      \/ /\ handler[r] = "reserved" /\ handler' = [handler EXCEPT ![r] = "accepted"]
         /\ job' = [job EXCEPT ![r] = "running"]
  BY <1>1 DEF J!Receive, J!Answer, J!Disconnect, J!Goto, J!slotVars,
         J!RefuseUnauthorized, J!ValidateOnly, J!RefuseMode, J!ValidatePlan,
         J!SafetyChecks, J!Conflict, J!Reserve, J!Spawn, J!ExecutableModes
<1>4. TaskInside'
  BY <1>2, <1>3 DEF DInv, TaskInside, J!JobStates
<1>5. TasksAccepted'
  BY <1>2, <1>3 DEF DInv, TasksAccepted, J!JobStates
<1>6. StopsAtMode'
  BY <1>2 DEF DInv, StopsAtMode
<1> QED BY <1>4, <1>5, <1>6 DEF DInv

LEMMA ReportKeepsDInv == ASSUME Both, DInv, ReportStep PROVE DInv'
<1>1. PICK r \in Requests : J!ReportOk(r) \/ J!ReportError(r)
  BY DEF ReportStep
<1>2. /\ job[r] \in {"returned_ok", "returned_err"}
      /\ \E end \in {"finished_ok", "finished_err"} : job' = [job EXCEPT ![r] = end]
      /\ UNCHANGED <<handler, mode, pc, cur, todo>>
  BY <1>1 DEF ReportStep, diskVars, J!ReportOk, J!ReportError
<1> QED BY <1>2, BothGive DEF DInv, TaskInside, TasksAccepted, StopsAtMode

LEMMA RestartKeepsDInv == ASSUME Both, DInv, RestartDaemon PROVE DInv'
<1>1. /\ pc' = "idle" /\ cur' = Absent /\ mode' = mode
  BY DEF RestartDaemon, Crash, Goto, planVars, diskVars, DInv, TaskInside, J!Restart
<1>2. \A r \in Requests : job'[r] \notin {"running", "returned_ok", "returned_err"}
  BY DEF RestartDaemon, J!Restart, J!Active
<1>3. \A r \in Requests : handler'[r] \in {"lost", handler[r]}
  BY DEF RestartDaemon, J!Restart
<1> QED BY <1>1, <1>2, <1>3 DEF DInv, TaskInside, TasksAccepted, StopsAtMode, AfterDisko

(* The modes the handler lets through are none of disko's. *)
LEMMA StepStopsAtMode ==
    ASSUME Both, DInv, Step, pc \notin {"ok", "failed"}
    PROVE  /\ pc # "idle" /\ pc' # "idle" /\ UNCHANGED <<planVars, cur, todo>>
           /\ StopsAtMode'
<1>1. pc # "idle" /\ UNCHANGED <<planVars, cur, todo>>
  BY DEF Step, CreateSkeleton, CopyEngine, GenerateHardware, WriteModules, PreLock,
         PreflightGate, EvalTargetFlake, WriteDiskoConfig, CheckDiskoMode, RunDisko,
         RegenerateHardware, NixosInstall, VerifyDiskInstall, WriteInstallFlag, Return, At
<1>2. mode[cur] \notin DiskoModes
  BY <1>1, BothGive DEF DInv, TaskInside, TasksAccepted, DiskoModes
<1>3. pc \notin {"disko", "ok"} \cup AfterDisko
  BY DEF DInv, StopsAtMode
<1>4. pc' \in {"copy", "hardware", "modules", "lock", "gate", "eval", "config", "mode", "failed"}
  BY <1>2, <1>3
     DEF Step, CreateSkeleton, CopyEngine, GenerateHardware, WriteHardware, WriteModules,
         PreLock, PreflightGate, EvalTargetFlake, WriteDiskoConfig, CheckDiskoMode, RunDisko,
         RegenerateHardware, NixosInstall, VerifyDiskInstall, WriteInstallFlag, Return,
         At, Goto, Fail, AfterDisko
<1> QED BY <1>1, <1>4 DEF StopsAtMode, AfterDisko

LEMMA ExecutorKeepsDInv ==
    ASSUME Both, DInv,
           ExecutorStep \/ OtherStep \/ (\E r \in Requests : EnterExecutor(r) \/ LeaveExecutor(r))
    PROVE  DInv'
<1> USE BothGive DEF jobVars, planVars, Goto
<1>1. CASE ExecutorStep
  <2>1. /\ pc # "idle" /\ pc' # "idle" /\ StopsAtMode'
        /\ UNCHANGED <<mode, cur, todo, handler, job>>
    BY <1>1, StepStopsAtMode DEF ExecutorStep
  <2> QED BY <2>1 DEF DInv, TaskInside, TasksAccepted
<1>2. CASE OtherStep
  <2>1. UNCHANGED <<mode, pc, cur, todo, handler, job>>
    BY <1>2 DEF OtherStep, DryRunWrites, Unmount
  <2> QED BY <2>1 DEF DInv, TaskInside, TasksAccepted, StopsAtMode
<1>3. ASSUME NEW r \in Requests, EnterExecutor(r) PROVE DInv'
  <2>1. /\ job[r] = "running" /\ pc' = "source" /\ cur' = r /\ todo' = todo \ {r}
        /\ UNCHANGED <<mode, handler, job>>
    BY <1>3 DEF EnterExecutor, Start
  <2> QED BY <2>1 DEF DInv, TaskInside, TasksAccepted, StopsAtMode, AfterDisko
<1>4. ASSUME NEW r \in Requests, LeaveExecutor(r) PROVE DInv'
  <2>1. /\ pc' = "idle" /\ cur' = Absent /\ job[r] = "running"
        /\ \E result \in {"returned_ok", "returned_err"} : job' = [job EXCEPT ![r] = result]
        /\ UNCHANGED <<mode, handler>>
    BY <1>4 DEF LeaveExecutor, Return, J!ExecutorReturns
  <2> QED BY <2>1 DEF DInv, TaskInside, TasksAccepted, StopsAtMode, AfterDisko
<1> QED BY <1>1, <1>2, <1>3, <1>4

LEMMA NextKeepsDInv == Both /\ DInv /\ [DaemonNext]_daemonVars => DInv'
<1>1. DInv /\ UNCHANGED daemonVars => DInv'
  BY DEF DInv, daemonVars, diskVars, jobVars, TaskInside, TasksAccepted, StopsAtMode
<1> QED BY <1>1, HandlerKeepsDInv, ReportKeepsDInv, RestartKeepsDInv, ExecutorKeepsDInv
        DEF DaemonNext

LEMMA DInvAlways == DaemonSpec => []Both /\ []DInv
<1>1. DaemonSpec => JP!Spec
  BY DaemonInitBoth, DaemonStepsBoth, PTL DEF DaemonSpec, JP!Spec
<1>2. JP!Spec => []JP!IInv
  BY JobAssumptions, JP!IInvAlways
<1>3. EInv /\ JP!IInv => Both
  BY DEF Both
<1>4. DaemonSpec => []Both
  BY <1>1, <1>2, <1>3, DaemonImplementsExecutor, EInvAlways, PTL
<1> QED BY <1>4, InitDInv, NextKeepsDInv, PTL DEF DaemonSpec

(* Two run_installation never work on the same /mnt, whatever the handlers,
   restarts and outcomes: a task finds the executor idle, and the one inside
   owns the slot. *)
THEOREM ExecutorIsExclusiveAlways == DaemonSpec => []ExecutorIsExclusive
<1>1. Both /\ DInv => ExecutorIsExclusive
  <2> SUFFICES ASSUME Both, DInv PROVE ExecutorIsExclusive
    OBVIOUS
  <2>1. pc # "idle" => J!Owner(cur) /\ status.running /\ latest = cur /\ cur \notin todo
    BY BothGive DEF DInv, TaskInside, J!Owner, J!Active
  <2>2. ASSUME NEW r \in Requests, job[r] = "running", r \in todo PROVE pc = "idle"
    BY <2>1, <2>2, BothGive DEF J!Owner, J!Active
  <2> QED BY <2>1, <2>2 DEF ExecutorIsExclusive
<1> QED BY <1>1, DInvAlways, PTL

(* Only what the handler accepted, in a mode it lets through, reaches the
   executor. *)
THEOREM OnlyAcceptedPlansRunAlways == DaemonSpec => OnlyAcceptedPlansRun
<1> DEFINE A == pc # "idle" \/ pc' # "idle" =>
                  /\ cur' # Absent => handler[cur'] = "accepted"
                  /\ cur # Absent => mode[cur] \in J!ExecutableModes
<1>1. Both /\ DInv /\ [DaemonNext]_daemonVars => [A]_daemonVars
  <2> SUFFICES ASSUME Both, DInv, DaemonNext PROVE A
    OBVIOUS
  <2>1. cur # Absent => handler[cur] = "accepted" /\ mode[cur] \in J!ExecutableModes
    BY BothGive DEF DInv, TaskInside, TasksAccepted, J!ExecutableModes
  <2>2. \/ cur' \in {cur, Absent}
        \/ \E r \in Requests : EnterExecutor(r)
    <3>1. ExecutorStep \/ OtherStep => cur' = cur
      BY StepStopsAtMode DEF ExecutorStep, OtherStep, DryRunWrites, Unmount
    <3> QED BY <3>1
            DEF DaemonNext, HandlerStep, LeaveExecutor, Return, ReportStep, RestartDaemon,
                Crash, diskVars
  <2>3. ASSUME NEW r \in Requests, EnterExecutor(r) PROVE handler[cur'] = "accepted"
    BY <2>3 DEF EnterExecutor, Start, DInv, TasksAccepted
  <2> QED BY <2>1, <2>2, <2>3
<1> QED BY <1>1, DInvAlways, PTL DEF DaemonSpec, OnlyAcceptedPlansRun

(* No request to POST /install ever gets past the mode check of run_disko: the
   modes the handler lets through are none of those the executor runs, so no
   disk is partitioned, wiped, mounted or installed to. *)
THEOREM AcceptedInstallStopsAtMode == DaemonSpec => []StopsAtMode
<1>1. DInv => StopsAtMode
  BY DEF DInv
<1> QED BY <1>1, DInvAlways, PTL
=============================================================================
