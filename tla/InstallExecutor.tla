--------------------------- MODULE InstallExecutor ---------------------------
(***************************************************************************)
(* executor::run_installation, one step per call it awaits or group of     *)
(* writes with one outcome, with the files and disks it works on: the      *)
(* target tree under /mnt/etc/kryonixos, the disko configuration in /tmp   *)
(* (which POST /dry-run also writes), the partition tables, and what is    *)
(* mounted on /mnt.  A group that fails may have done part of its work; a  *)
(* daemon that dies inside one leaves what such a failure leaves.          *)
(*                                                                         *)
(* /mnt is modelled as the kernel has it: a directory of the live system   *)
(* until disko mounts the new root over it, and whatever was written below *)
(* /mnt before that is hidden from then on. A plan is its disk.mode and    *)
(* its disk.target; its disko configuration is named by the disk it        *)
(* partitions, the files rendered from it by the request it came with.     *)
(* disko, nix and nixos-install are external: they may fail at any call.   *)
(*                                                                         *)
(* The modes explored are those run_disko itself accepts and some it does  *)
(* not; which of them POST /install lets through is for InstallDaemon.     *)
(***************************************************************************)
CONSTANTS
    Requests,       \* calls of run_installation
    Modes,          \* the disk.mode values plans carry
    Disks,
    NoDisk,         \* nothing is mounted on /mnt
    Absent,         \* no such file
    Mixed           \* a tree some of whose files come from a write that failed

ASSUME ExecutorAssumption ==
    /\ NoDisk \notin Disks
    /\ Absent # Mixed /\ {Absent, Mixed} \cap (Disks \cup Requests) = {}

VARIABLES
    mode, target,   \* plan.disk.mode and plan.disk.target of each request
    cur,            \* the request the executor works for, Absent if idle
    pc,             \* the next call run_installation makes
    todo,           \* the requests whose run_installation was not called yet
    conf,           \* /tmp/kryonix-disko-config.nix: the disk it partitions
    live,           \* what the live system has under /mnt
    root,           \* what the root file system of each disk holds
    mounted,        \* the disk whose root is mounted on /mnt
    gpt,            \* the disks with a GPT partition table
    evaluated,      \* history: nix eval accepted the tree of this run
    treeAt,         \* history: what was mounted when the tree was generated
    foreign,        \* history: a dry-run rewrote conf since this run did
    lockKept        \* history: this run could not remove the lock it found

planVars == <<mode, target>>
world == <<live, root, mounted, gpt>>
history == <<evaluated, treeAt, foreign, lockKept>>
execVars == <<mode, target, cur, pc, todo, conf, live, root, mounted, gpt,
              evaluated, treeAt, foreign, lockKept>>

-----------------------------------------------------------------------------
(* State *)

(* What this program reads or writes below /mnt. *)
FileSystem ==
    [dirs     : BOOLEAN,                    \* etc/kryonixos/{engine,generated,state}
     engine   : BOOLEAN,                    \* engine/flake.nix is there
     plan     : Requests \cup {Absent, Mixed}, \* whose flake.nix, users, network, features
     lock     : Requests \cup {Absent},     \* who locked the tree
     hardware : Disks \cup {NoDisk, Absent},\* the root hardware.generated.nix describes
     store    : BOOLEAN,                    \* /nix/store has entries
     system   : Requests \cup {Absent, Mixed}, \* the plan a boot loader was installed for
     flag     : BOOLEAN]                    \* etc/kryonix-installed

EmptyFS ==
    [dirs |-> FALSE, engine |-> FALSE, plan |-> Absent, lock |-> Absent,
     hardware |-> Absent, store |-> FALSE, system |-> Absent, flag |-> FALSE]

BeforeDisko == {"source", "copy", "hardware", "modules", "lock", "gate", "eval",
                "config", "mode", "disko"}
AfterDisko == {"regenerate", "nixos", "verify", "flag"}
Places == {"idle", "ok", "failed"} \cup BeforeDisko \cup AfterDisko

TypeOK ==
    /\ mode \in [Requests -> Modes]
    /\ target \in [Requests -> Disks]
    /\ cur \in Requests \cup {Absent}
    /\ pc \in Places
    /\ todo \in SUBSET Requests
    /\ conf \in Disks \cup {Absent}
    /\ live \in FileSystem
    /\ root \in [Disks -> FileSystem]
    /\ mounted \in Disks \cup {NoDisk}
    /\ gpt \in SUBSET Disks
    /\ evaluated \in BOOLEAN
    /\ treeAt \in Disks \cup {NoDisk}
    /\ foreign \in BOOLEAN
    /\ lockKept \in BOOLEAN

(* A freshly booted live system: blank or used disks, nothing on /mnt. *)
Init ==
    /\ mode \in [Requests -> Modes]
    /\ target \in [Requests -> Disks]
    /\ cur = Absent
    /\ pc = "idle"
    /\ todo = Requests
    /\ conf = Absent
    /\ live = EmptyFS
    /\ root = [d \in Disks |-> EmptyFS]
    /\ mounted = NoDisk
    /\ gpt \in SUBSET Disks
    /\ evaluated = FALSE
    /\ treeAt = NoDisk
    /\ foreign = FALSE
    /\ lockKept = FALSE

-----------------------------------------------------------------------------
(* /mnt *)

Mnt == IF mounted = NoDisk THEN live ELSE root[mounted]

WriteMnt(fs) ==
    /\ IF mounted = NoDisk
         THEN live' = fs /\ UNCHANGED root
         ELSE root' = [root EXCEPT ![mounted] = fs] /\ UNCHANGED live
    /\ UNCHANGED <<mounted, gpt>>

At(place) == pc = place /\ UNCHANGED <<planVars, cur, todo>>

(* The `?` of a call that failed and changed nothing. *)
Fail == pc' = "failed" /\ UNCHANGED <<world, conf, history>>

Goto(place) == pc' = place

-----------------------------------------------------------------------------
(* generate_kryonixos_tree *)

Start(r) ==
    /\ pc = "idle"
    /\ r \in todo
    /\ todo' = todo \ {r}
    /\ cur' = r
    /\ Goto("source")
    /\ evaluated' = FALSE
    /\ treeAt' = mounted
    /\ foreign' = FALSE
    /\ lockKept' = FALSE
    /\ UNCHANGED <<planVars, conf, world>>

(* engine_source, then create_skeleton. *)
CreateSkeleton ==
    /\ At("source")
    /\ \/ /\ Goto("copy")
          /\ WriteMnt([Mnt EXCEPT !.dirs = TRUE])
          /\ UNCHANGED <<conf, history>>
       \/ Fail

(* Mutant: the lock of an earlier run is left for nix to bring up to date. *)
CopyEngine_KeepsLock ==
    /\ At("copy")
    /\ \E flake \in BOOLEAN : WriteMnt([Mnt EXCEPT !.engine = flake])
    /\ Goto("hardware") \/ Goto("failed")
    /\ UNCHANGED <<conf, history>>

(* copy_engine empties engine/ first: a failure may come before that or after
   any file was copied. A source whose flake.nix is a symlink is copied without
   it. finalize_engine then removes the lock of an earlier run, and goes on when
   that fails. *)
CopyEngine ==
    /\ At("copy")
    /\ \E flake \in BOOLEAN :
         \/ /\ Goto("hardware")
            /\ \E lock \in {Absent, Mnt.lock} :
                 /\ WriteMnt([Mnt EXCEPT !.engine = flake, !.lock = lock])
                 /\ lockKept' = (lock # Absent)
            /\ UNCHANGED <<evaluated, treeAt, foreign>>
         \/ /\ Goto("failed")
            /\ WriteMnt([Mnt EXCEPT !.engine = flake])
            /\ UNCHANGED history
    /\ UNCHANGED conf

(* write_hardware_generated: nixos-generate-config describes what is mounted on
   /mnt; the file can only be written where the tree is. *)
WriteHardware(next) ==
    \/ /\ Mnt.dirs
       /\ Goto(next)
       /\ WriteMnt([Mnt EXCEPT !.hardware = mounted])
       /\ UNCHANGED <<conf, history>>
    \/ Fail

GenerateHardware == At("hardware") /\ WriteHardware("modules")

(* The other generated modules, flake.nix, the state files and the symlink:
   each is truncated and written, so a failure leaves any part of them. The
   comment in storage.generated.nix that quotes /tmp is not modelled. *)
WriteModules ==
    /\ At("modules")
    /\ \/ Goto("lock") /\ WriteMnt([Mnt EXCEPT !.plan = cur])
       \/ /\ Goto("failed")
          /\ \E left \in {Mnt.plan, cur, Mixed} : WriteMnt([Mnt EXCEPT !.plan = left])
    /\ UNCHANGED <<conf, history>>

(* nix flake lock locks the tree, but may find a lock that is still there to be
   good enough. *)
PreLock ==
    /\ At("lock")
    /\ \/ /\ Goto("gate")
          /\ \E lock \in {cur, Mnt.lock} \ {Absent} : WriteMnt([Mnt EXCEPT !.lock = lock])
          /\ UNCHANGED <<conf, history>>
       \/ Fail

-----------------------------------------------------------------------------
(* The two checks before anything is destroyed *)

(* PreflightReport::passed; a bad reference fails it too. *)
PreflightGate ==
    /\ At("gate")
    /\ \/ /\ Mnt.engine /\ Mnt.plan # Absent /\ Mnt.hardware # Absent
          /\ Goto("eval")
          /\ UNCHANGED <<world, conf, history>>
       \/ Fail

(* Mutant: the exit status of nix eval is not looked at. *)
EvalTargetFlake_IgnoresStatus ==
    /\ At("eval")
    /\ Goto("config")
    /\ evaluated' \in BOOLEAN
    /\ UNCHANGED <<world, conf, treeAt, foreign, lockKept>>

EvalTargetFlake ==
    /\ At("eval")
    /\ \/ /\ Goto("config")
          /\ evaluated' = TRUE
          /\ UNCHANGED <<world, conf, treeAt, foreign, lockKept>>
       \/ Fail

-----------------------------------------------------------------------------
(* run_disko: the configuration is written before the mode is checked. *)

DiskoModes == {"disko", "mount", "format", "create", "zap_create_mount"}
WipingModes == {"disko", "zap_create_mount"}
MountingModes == {"disko", "mount", "zap_create_mount"}

(* Mutant: the result of the write is ignored, as save_install_state does. *)
WriteDiskoConfig_IgnoresFailure ==
    /\ At("config")
    /\ Goto("mode")
    /\ conf' \in {conf, target[cur]}
    /\ UNCHANGED <<world, history>>

(* Mutant: a configuration that is already there is taken for this run's. *)
WriteDiskoConfig_KeepsExisting ==
    /\ At("config")
    /\ Goto("mode")
    /\ conf' = IF conf = Absent THEN target[cur] ELSE conf
    /\ foreign' = FALSE
    /\ UNCHANGED <<world, evaluated, treeAt, lockKept>>

WriteDiskoConfig ==
    /\ At("config")
    /\ \/ /\ Goto("mode")
          /\ conf' = target[cur]
          /\ foreign' = FALSE
          /\ UNCHANGED <<world, evaluated, treeAt, lockKept>>
       \/ Fail

(* Mutant: an invalid mode is not returned as an error. *)
CheckDiskoMode_NoError ==
    /\ At("mode")
    /\ mode[cur] \in DiskoModes
    /\ Goto("disko")
    /\ UNCHANGED <<world, conf, history>>

CheckDiskoMode ==
    /\ At("mode")
    /\ \/ mode[cur] \in DiskoModes /\ Goto("disko")
       \/ mode[cur] \notin DiskoModes /\ Goto("failed")
    /\ UNCHANGED <<world, conf, history>>

(* What the disko command does to disk d. A wiping mode always makes a new file
   system; format and create make one unless there is one already; mount needs
   a partition table. Disks partitioned this way are GPT. *)
DiskoPartitions(m, d) ==
    /\ gpt' = IF m = "mount" THEN gpt ELSE gpt \cup {d}
    /\ \/ m \in WipingModes \cup {"format", "create"}
          /\ root' = [root EXCEPT ![d] = EmptyFS]
       \/ m \notin WipingModes /\ UNCHANGED root

(* A disko that fails has done some of this, and may have mounted the root. *)
RunDisko ==
    /\ At("disko")
    /\ \/ /\ mode[cur] = "mount" => conf \in gpt
          /\ DiskoPartitions(mode[cur], conf)
          /\ mounted' = IF mode[cur] \in MountingModes THEN conf ELSE mounted
          /\ Goto("regenerate")
       \/ /\ DiskoPartitions(mode[cur], conf)
          /\ mounted' \in {mounted} \cup {d \in gpt' : d = conf /\ mode[cur] \in MountingModes}
          /\ Goto("failed")
       \/ /\ Goto("failed")
          /\ UNCHANGED <<root, gpt, mounted>>
    /\ UNCHANGED <<live, conf, history>>

-----------------------------------------------------------------------------
(* The rest of the run *)

(* Mutant: the hardware module of before disko is good enough. *)
RegenerateHardware_Optional ==
    /\ At("regenerate")
    /\ \/ WriteHardware("nixos")
       \/ Goto("nixos") /\ UNCHANGED <<world, conf, history>>

RegenerateHardware == At("regenerate") /\ WriteHardware("nixos")

(* nixos-install builds the flake it finds in /mnt/etc/kryonixos; a run that
   fails may already have filled the store. *)
(* Mutant: the exit status of nixos-install is not looked at. *)
NixosInstall_IgnoresStatus ==
    /\ At("nixos")
    /\ Goto("verify")
    /\ \/ WriteMnt([Mnt EXCEPT !.store = TRUE, !.system = Mnt.plan])
       \/ WriteMnt(Mnt)
    /\ UNCHANGED <<conf, history>>

(* Mutant: the flag is written with the command, before it is known to have
   worked. *)
NixosInstall_FlagsFirst ==
    /\ At("nixos")
    /\ \/ /\ Mnt.plan # Absent /\ Mnt.engine
          /\ Goto("verify")
          /\ WriteMnt([Mnt EXCEPT !.store = TRUE, !.system = Mnt.plan, !.flag = TRUE])
       \/ /\ Goto("failed")
          /\ WriteMnt([Mnt EXCEPT !.flag = TRUE])
    /\ UNCHANGED <<conf, history>>

NixosInstall ==
    /\ At("nixos")
    /\ \/ /\ Mnt.plan # Absent /\ Mnt.engine
          /\ Goto("verify")
          /\ WriteMnt([Mnt EXCEPT !.store = TRUE, !.system = Mnt.plan])
       \/ /\ Goto("failed")
          /\ \E filled \in BOOLEAN :
               WriteMnt([Mnt EXCEPT !.store = Mnt.store \/ filled])
    /\ UNCHANGED <<conf, history>>

(* verify_disk_install: GPT on the target, a populated store and a boot loader
   under /mnt. It does not look at what /mnt is. *)
VerifyDiskInstall ==
    /\ At("verify")
    /\ \/ /\ target[cur] \in gpt /\ Mnt.store /\ Mnt.system # Absent
          /\ Goto("flag")
          /\ UNCHANGED <<world, conf, history>>
       \/ Fail

WriteInstallFlag ==
    /\ At("flag")
    /\ \/ /\ Goto("ok")
          /\ WriteMnt([Mnt EXCEPT !.flag = TRUE])
          /\ UNCHANGED <<conf, history>>
       \/ Fail

Return ==
    /\ pc \in {"ok", "failed"}
    /\ cur' = Absent
    /\ Goto("idle")
    /\ UNCHANGED <<planVars, todo, conf, world, history>>

-----------------------------------------------------------------------------
(* Around the executor *)

(* POST /dry-run writes its own configuration to the same file (DryRun). *)
DryRunWrites(d) ==
    /\ conf' = d
    /\ foreign' = TRUE
    /\ UNCHANGED <<planVars, cur, pc, todo, world, evaluated, treeAt, lockKept>>

(* The daemon dies: files, disks and mounts stay as they are. *)
Crash ==
    /\ pc # "idle"
    /\ cur' = Absent
    /\ Goto("idle")
    /\ UNCHANGED <<planVars, todo, conf, world, history>>

(* Between runs the operator unmounts the target to try again. *)
Unmount ==
    /\ pc = "idle"
    /\ mounted # NoDisk
    /\ mounted' = NoDisk
    /\ UNCHANGED <<planVars, cur, pc, todo, conf, live, root, gpt, history>>

Step ==
    \/ CreateSkeleton \/ CopyEngine \/ GenerateHardware \/ WriteModules \/ PreLock
    \/ PreflightGate \/ EvalTargetFlake
    \/ WriteDiskoConfig \/ CheckDiskoMode \/ RunDisko
    \/ RegenerateHardware \/ NixosInstall \/ VerifyDiskInstall \/ WriteInstallFlag
    \/ Return

Next ==
    \/ \E r \in Requests : Start(r)
    \/ Step
    \/ \E d \in Disks : DryRunWrites(d)
    \/ Crash
    \/ Unmount

Spec == Init /\ [][Next]_execVars

(* Every command the executor waits for ends: none of them has a timeout. *)
FairSpec == Spec /\ WF_execVars(Step)

-----------------------------------------------------------------------------
(* Properties *)

Wiped(d) == root[d] # EmptyFS /\ root'[d] = EmptyFS

(* No disk is partitioned or wiped by a run whose tree nix eval has not
   accepted: a plan that does not evaluate leaves the disks as they were, in
   this run and after any crash and retry (the order of run_installation). *)
NothingDestroyedBeforeEval ==
    [][\A d \in Disks : Wiped(d) \/ (d \in gpt' /\ d \notin gpt) => evaluated]_execVars

(* Unless a dry-run rewrote the shared configuration meanwhile, the only disk
   a run partitions or wipes is its plan's target. *)
OnlyTargetDestroyed ==
    [][\A d \in Disks :
         Wiped(d) \/ (d \in gpt' /\ d \notin gpt) => foreign \/ d = target[cur]]_execVars

(* What nix evaluated is what nixos-install builds, as long as /mnt is still
   what it was when the tree was written: plan and lock are this run's, however
   many runs failed or crashed half-way before. The one way an earlier lock gets
   in is finalize_engine ignoring that it could not be removed. *)
TreeIsThisRuns ==
    pc \in {"gate", "eval", "config", "mode", "disko"} \cup AfterDisko
      /\ mounted = treeAt /\ Mnt.dirs
      => Mnt.plan = cur /\ (Mnt.lock = cur \/ lockKept)

(* nixos-install is handed a hardware module that describes the root mounted
   now, not the one the tree was generated under. *)
HardwareMatchesMount ==
    pc \in {"nixos", "verify", "flag", "ok"} => Mnt.hardware = mounted

(* The flag of GET /api/validate-install is only ever on a file system that has
   a populated store and a boot loader, whatever later runs do to it. *)
FlagMeansInstalled ==
    \A fs \in {live} \cup {root[d] : d \in Disks} :
      fs.flag => fs.store /\ fs.system # Absent

(* A run that returns Ok left a GPT target and, on a /mnt that is still the one
   it wrote its tree to, the system of its own plan: never the store or the
   boot loader that an earlier attempt had put there. *)
OkInstalledThisPlan ==
    pc = "ok" =>
      /\ target[cur] \in gpt
      /\ mounted = treeAt => Mnt.system = cur /\ Mnt.flag

(* Every run returns. *)
RunEnds == pc # "idle" ~> pc = "idle"
=============================================================================
