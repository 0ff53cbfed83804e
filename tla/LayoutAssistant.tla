--------------------------- MODULE LayoutAssistant ----------------------------
(* The partition layout assistant (ui/src/utils/layoutAssistant.js): what a
   preset would put on a disk, whether that is enough for an installation, how
   much of a disk a hand-made list of partitions allocates and what such a list
   still lacks.

   A disk has a path, sizeBytes (0 when the daemon's size could not be read) and
   partitions, each with its sizeBytes.  A partition of a plan has a device, a
   mountpoint ("" for none), a usage, an fstype and sizeBytes.  The two
   sizes the assistant knows are constants, 512 MiB and 20 GiB in the code: the
   unit does not matter to it. *)
EXTENDS StoragePlanner

CONSTANTS BootPartitionBytes, MinRootBytes, MiB,
          Sizes,      \* how large a disk may be
          Held,       \* what a disk may hold: lists of partitions
          HandMade    \* the lists of partitions a user may have made

ASSUME LayoutSizes ==
    /\ BootPartitionBytes \in Nat \ {0}
    /\ MinRootBytes \in Nat \ {0}
    /\ MiB \in Nat \ {0}

(* Every size is one that toBytes returns. *)
Partitions(list) == list \in Seq(ToSet(list)) /\ \A p \in ToSet(list) : p.sizeBytes \in Nat

ASSUME LayoutInputs == Sizes \subseteq Nat /\ \A list \in Held \cup HandMade : Partitions(list)

Presets == {"kryonix-default", "dual-boot", "manual"}

NonNegative(n) == IF n > 0 THEN n ELSE 0

(* "resto", "25%", "20GiB", or text that is none of these. *)
ParseSizeInput(input, totalBytes, freeBytes) ==
    CASE input.kind = "rest"    -> NonNegative(freeBytes)
      [] input.kind = "percent" ->
            ((IF input.n > 100 THEN 100 ELSE NonNegative(input.n)) * totalBytes) \div 100
      [] input.kind = "amount"  -> input.n * MiB
      [] OTHER -> 0

(* Partitions of no size are not partitions. *)
NormalizePartitions(disk) ==
    Kept(disk.partitions, {i \in DOMAIN disk.partitions : disk.partitions[i].sizeBytes > 0})

(* The sum of a list of sizes, a function over its prefixes that proofs can
   expand. *)
TotalBytes(sizes) ==
    LET total[n \in 0..Len(sizes)] == IF n = 0 THEN 0 ELSE total[n - 1] + sizes[n]
    IN  total[Len(sizes)]

UsedBytes(ps) == TotalBytes([i \in DOMAIN ps |-> ps[i].sizeBytes])

FreeBytes(disk) == NonNegative(disk.sizeBytes - UsedBytes(NormalizePartitions(disk)))

(* What the disk holds today: its partitions, then the free space if any. *)
CurrentBlocks(disk) ==
    [i \in DOMAIN NormalizePartitions(disk) |->
        [kind |-> "existing", bytes |-> NormalizePartitions(disk)[i].sizeBytes]]
    \o (IF FreeBytes(disk) > 0 THEN <<[kind |-> "free", bytes |-> FreeBytes(disk)]>> ELSE <<>>)

-----------------------------------------------------------------------------
(* Presets. *)

BootAndRoot(disk, rootBytes) ==
    << [device |-> disk.path, mountpoint |-> "/boot", fstype |-> "vfat",
        sizeBytes |-> BootPartitionBytes],
       [device |-> disk.path, mountpoint |-> "/", fstype |-> "btrfs",
        sizeBytes |-> rootBytes] >>

Layout(partitions, error, manual) ==
    [partitions |-> partitions, error |-> error, manual |-> manual]

(* Mutant: dual boot forgets that its boot partition needs room as well. *)
ProposedLayout_ForgetsBoot(disk, preset) ==
    CASE preset = "manual" -> Layout(<<>>, FALSE, TRUE)
      [] preset = "kryonix-default" ->
            Layout(BootAndRoot(disk, NonNegative(disk.sizeBytes - BootPartitionBytes)),
                   FALSE, FALSE)
      [] preset = "dual-boot" /\ FreeBytes(disk) >= MinRootBytes ->
            Layout(BootAndRoot(disk, FreeBytes(disk)), FALSE, FALSE)
      [] OTHER -> Layout(<<>>, TRUE, FALSE)

(* The default preset takes the whole disk, dual boot only what is free: no
   partition is ever shrunk. *)
ProposedLayout(disk, preset) ==
    CASE preset = "manual" -> Layout(<<>>, FALSE, TRUE)
      [] preset = "kryonix-default" ->
            Layout(BootAndRoot(disk, NonNegative(disk.sizeBytes - BootPartitionBytes)),
                   FALSE, FALSE)
      [] preset = "dual-boot" /\ FreeBytes(disk) >= BootPartitionBytes + MinRootBytes ->
            Layout(BootAndRoot(disk, FreeBytes(disk) - BootPartitionBytes), FALSE, FALSE)
      [] OTHER -> Layout(<<>>, TRUE, FALSE)

BootMountpoints == {"/boot", "/boot/efi", "/efi"}

(* The first partition with this mount point is too small. *)
FirstIsTooSmall(partitions, mountpoint) ==
    \E i \in DOMAIN partitions :
      /\ partitions[i].mountpoint = mountpoint
      /\ \A j \in 1..(i - 1) : partitions[j].mountpoint # mountpoint
      /\ partitions[i].sizeBytes < MinRootBytes

(* validateProposedLayout. *)
LayoutReasons(layout) ==
    IF layout.manual THEN {"undefined"}
    ELSE IF layout.error THEN {"preset"}
    ELSE LET mountpoints == {layout.partitions[i].mountpoint : i \in DOMAIN layout.partitions}
         IN  { r \in {"boot", "root", "rootTooSmall"} :
                 \/ r = "boot" /\ mountpoints \cap BootMountpoints = {}
                 \/ r = "root" /\ "/" \notin mountpoints
                 \/ r = "rootTooSmall" /\ FirstIsTooSmall(layout.partitions, "/") }

(* What the assistant accepts fits the disk, beside what dual boot keeps on it,
   and leaves room for a system. *)
PresetFits(disk, preset) ==
    LET layout == ProposedLayout(disk, preset)
        kept   == IF preset = "dual-boot" THEN UsedBytes(NormalizePartitions(disk)) ELSE 0
    IN  LayoutReasons(layout) = {} =>
          /\ DOMAIN layout.partitions = 1..2
          /\ layout.partitions[2].sizeBytes >= MinRootBytes
          /\ layout.partitions[1].sizeBytes + layout.partitions[2].sizeBytes + kept
                <= disk.sizeBytes

(* The presets that do not fit a disk although they are accepted for it. *)
PresetMisfits ==
    { c \in [sizeBytes : Sizes, partitions : Held, preset : Presets] :
        ~PresetFits([path |-> 1, sizeBytes |-> c.sizeBytes, partitions |-> c.partitions],
                    c.preset) }

-----------------------------------------------------------------------------
(* Partitions made by hand. *)

(* What a partition takes of a disk. *)
Share(disk, p) == IF p.device = disk.path THEN p.sizeBytes ELSE 0

AllocatedBytes(disk, partitions) ==
    TotalBytes([i \in DOMAIN partitions |-> Share(disk, partitions[i])])

(* validateDiskAllocation: nothing can be said of a disk of unknown size. *)
DiskAllocation(disk, partitions) ==
    IF disk.sizeBytes <= 0
    THEN [error |-> TRUE, full |-> FALSE, freeBytes |-> 0]
    ELSE [error     |-> AllocatedBytes(disk, partitions) > disk.sizeBytes,
          full      |-> AllocatedBytes(disk, partitions) = disk.sizeBytes,
          freeBytes |-> NonNegative(disk.sizeBytes - AllocatedBytes(disk, partitions))]

(* evaluateManualPartitioningState under UEFI: what makes the list invalid. *)
ManualReasons(ds, partitions) ==
    LET mounted == SelectSeq(partitions, LAMBDA p : p.mountpoint # "")
    IN  { r \in {"allocation", "root", "efi", "efiFormat", "duplicateMountpoint"} :
            \/ r = "allocation" /\ \E d \in ToSet(ds) : DiskAllocation(d, partitions).error
            \/ r = "root" /\ \A p \in ToSet(partitions) : p.mountpoint # "/"
            \/ r = "efi" /\ \A p \in ToSet(partitions) :
                              p.usage # "efi" /\ p.mountpoint \notin {"/boot", "/boot/efi"}
            \/ r = "efiFormat" /\ \E p \in ToSet(partitions) :
                                    p.usage = "efi" /\ p.fstype \notin {"fat32", "vfat"}
            \/ r = "duplicateMountpoint"
                 /\ \E i, j \in DOMAIN mounted :
                      i # j /\ mounted[i].mountpoint = mounted[j].mountpoint }
=============================================================================
