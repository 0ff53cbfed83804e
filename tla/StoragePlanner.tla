---------------------------- MODULE StoragePlanner ----------------------------
(* The browser's storage planner (ui/src/utils/storagePlanner.js): which disks
   may be installed on, what a layout still needs, which RAID levels the disks
   allow and what they would hold.  Everything here is a pure function of the
   disks the daemon listed.

   A path is a positive number, in the order of the sorted inventory; NoDisk
   is the empty string.  A disk as the daemon sends it has a path and is a device
   of some kind ("disk" for a physical one under /dev), says whether it is
   removable (or hot-plugged, or on USB) or read-only, carries a size and perhaps the daemon's verdict on it.  A size is
   a number of bytes or a label for people ("931.5 GiB"). *)
EXTENDS Integers, SequencesExt, FiniteSetsExt

NoDisk == 0

Verdicts == {"eligible", "ineligible", "absent"}

(* parseBytes: a label is not a number, and what is not a number is 0. *)
ParseBytes(size) == IF size.kind = "bytes" THEN size.bytes ELSE 0

NormalizeDiskRecord(d) ==
    [path |-> d.path, device |-> d.device, removable |-> d.removable,
     readOnly |-> d.readOnly, sizeBytes |-> ParseBytes(d.size),
     verdict |-> d.verdict]

(* A bare path is normalised to a disk of unknown size. *)
DiskFromPath(p) ==
    [path |-> p, device |-> "disk", removable |-> FALSE, readOnly |-> FALSE,
     sizeBytes |-> 0, verdict |-> "absent"]

(* Devices that are not physical disks, told by their path, or by the type that
   the daemon gives them. *)
InvalidDevices == {"loop", "zram", "ram", "sr", "fd", "md", "dm", "mapper", "nbd", "other"}

(* The browser's own rules, used when the daemon gave no verdict. *)
LocallyEligible(d) ==
    d.device \notin InvalidDevices /\ ~d.removable /\ ~d.readOnly /\ d.sizeBytes > 0

(* decorateDiskRecord: the daemon's verdict wins. *)
IsEligible(d) ==
    IF d.verdict = "absent" THEN LocallyEligible(d) ELSE d.verdict = "eligible"

(* What a filter leaves of s: the elements at the positions in I, in order.  Like
   the other recursions of this module a function over the prefixes of s, which
   proofs can expand. *)
Kept(s, I) ==
    LET upTo[n \in 0..Len(s)] ==
          IF n = 0 THEN <<>>
          ELSE IF n \in I THEN Append(upTo[n - 1], s[n]) ELSE upTo[n - 1]
    IN  upTo[Len(s)]

UniqueByPath(ds) ==
    Kept(ds, {i \in DOMAIN ds : /\ ds[i].path # NoDisk
                               /\ \A j \in 1..(i - 1) : ds[j].path # ds[i].path})

(* sort(compareDiskPath) of disks whose paths differ: each one is put in its
   place among those before it. *)
Inserted(ds, d) ==
    Kept(ds, {i \in DOMAIN ds : ds[i].path < d.path}) \o <<d>>
        \o Kept(ds, {i \in DOMAIN ds : d.path < ds[i].path})

Sorted(ds) ==
    LET upTo[n \in 0..Len(ds)] ==
          IF n = 0 THEN <<>> ELSE Inserted(upTo[n - 1], ds[n])
    IN  upTo[Len(ds)]

NormalizeDiskInventory(payload) ==
    Sorted(UniqueByPath([i \in DOMAIN payload |-> NormalizeDiskRecord(payload[i])]))

Paths(ds) == {d.path : d \in ToSet(ds)}

EligibleDisks(inventory) ==
    Kept(inventory, {i \in DOMAIN inventory : IsEligible(inventory[i])})

EligiblePaths(inventory) == Paths(EligibleDisks(inventory))

DiskByPath(inventory, p) == CHOOSE d \in ToSet(inventory) : d.path = p

SelectedDiskRecords(inventory, paths) ==
    LET listed == Kept(paths, {i \in DOMAIN paths : paths[i] \in Paths(inventory)})
    IN  UniqueByPath([i \in DOMAIN listed |-> DiskByPath(inventory, listed[i])])

-----------------------------------------------------------------------------
(* Layouts.  What still blocks a layout is a set of reasons; the empty set
   means the layout is valid. *)

FilesystemReasons(layout, rootFs, dataFs) ==
    { r \in {"rootFs", "dataFs"} :
        \/ r = "rootFs" /\ rootFs \notin (IF layout = "single" THEN {"btrfs", "zfs"}
                                          ELSE {"btrfs", "zfs", "ext4", "xfs"})
        \/ r = "dataFs" /\ layout \in {"split", "raid"} /\ dataFs \notin {"btrfs", "zfs"} }

(* pushEligibilityIssue, after the check that a path was given at all: a role is
   filled by a listed disk that is eligible. *)
RoleReasons(inventory, role, p) == {r \in {role} : p \notin EligiblePaths(inventory)}

SingleDiskReasons(inventory, sysDisk, rootFs, dataFs) ==
    FilesystemReasons("single", rootFs, dataFs) \cup RoleReasons(inventory, "root", sysDisk)

SplitDiskReasons(inventory, sysDisk, dataDisk, rootFs, dataFs) ==
    FilesystemReasons("split", rootFs, dataFs)
        \cup RoleReasons(inventory, "root", sysDisk)
        \cup RoleReasons(inventory, "data", dataDisk)
        \cup {r \in {"sameDisk"} : sysDisk # NoDisk /\ sysDisk = dataDisk}

-----------------------------------------------------------------------------
(* RAID. *)

RaidLevels == {"raid0", "raid1", "raid5", "raid10"}

RaidSpec ==
    [ level \in RaidLevels |->
        CASE level = "raid0"  -> [min |-> 2, even |-> FALSE, alike |-> FALSE]
          [] level = "raid1"  -> [min |-> 2, even |-> FALSE, alike |-> TRUE]
          [] level = "raid5"  -> [min |-> 3, even |-> FALSE, alike |-> TRUE]
          [] level = "raid10" -> [min |-> 4, even |-> TRUE,  alike |-> TRUE] ]

TolerancePercent == 5

KnownSizes(ds) == {d.sizeBytes : d \in ToSet(ds)} \ {0}
SmallestDisk(ds) == IF KnownSizes(ds) = {} THEN 0 ELSE Min(KnownSizes(ds))
LargestDisk(ds) == IF KnownSizes(ds) = {} THEN 0 ELSE Max(KnownSizes(ds))
RawBytes(ds) ==
    LET total[n \in 0..Len(ds)] == IF n = 0 THEN 0 ELSE total[n - 1] + ds[n].sizeBytes
    IN  total[Len(ds)]

(* (largest - smallest) / largest as a percentage, against the tolerance. *)
TooDifferent(ds) ==
    (LargestDisk(ds) - SmallestDisk(ds)) * 100 > TolerancePercent * LargestDisk(ds)

IsHomogeneousEnough(ds) == KnownSizes(ds) # {} /\ ~TooDifferent(ds)

(* Mutant: RAID 5 counts the member that holds the parity. *)
RaidUsable_CountsParity(level, count, smallest) ==
    CASE level \in {"raid0", "raid5"} -> count * smallest
      [] level = "raid1"  -> smallest
      [] level = "raid10" -> (count \div 2) * smallest

(* The capacity of count members whose smallest holds `smallest` bytes. *)
RaidUsable(level, count, smallest) ==
    CASE level = "raid0"  -> count * smallest
      [] level = "raid1"  -> smallest
      [] level = "raid5"  -> (IF count > 0 THEN count - 1 ELSE 0) * smallest
      [] level = "raid10" -> (count \div 2) * smallest

UsableBytes(ds, level) ==
    RaidUsable(level, Len(UniqueByPath(ds)), SmallestDisk(UniqueByPath(ds)))

RaidBlockingReasons(ds, level) ==
    LET spec == RaidSpec[level] IN
    { r \in {"duplicate", "ineligible", "tooFew", "odd", "sizeUnknown", "uneven"} :
        \/ r = "duplicate"   /\ Cardinality(Paths(ds)) < Len(ds)
        \/ r = "ineligible"  /\ \E d \in ToSet(ds) : ~IsEligible(d)
        \/ r = "tooFew"      /\ Len(ds) < spec.min
        \/ r = "odd"         /\ spec.even /\ Len(ds) % 2 # 0
        \/ r = "sizeUnknown" /\ spec.alike /\ Len(ds) >= spec.min /\ SmallestDisk(ds) = 0
        \/ r = "uneven"      /\ spec.alike /\ Len(ds) >= spec.min
                             /\ SmallestDisk(ds) > 0 /\ TooDifferent(ds) }

RaidSelectionReasons(ds, level, rootFs, dataFs) ==
    RaidBlockingReasons(UniqueByPath(ds), level) \cup FilesystemReasons("raid", rootFs, dataFs)

RaidOptionEnabled(ds, level) == RaidSelectionReasons(ds, level, "btrfs", "btrfs") = {}

(* getStorageRecommendation: the first redundant level that is enabled. *)
PreferredOrder(count) ==
    IF count >= 4 /\ count % 2 = 0 THEN <<"raid10", "raid5", "raid1">>
    ELSE IF count >= 3 THEN <<"raid5", "raid1", "raid10">>
    ELSE IF count = 2 THEN <<"raid1">> ELSE <<>>

RecommendedLevel(ds) ==
    LET members == UniqueByPath(ds)
        order   == PreferredOrder(Len(members))
        fitting == Kept(order, {i \in DOMAIN order : RaidOptionEnabled(members, order[i])})
    IN  IF fitting = <<>> THEN "single" ELSE Head(fitting)

-----------------------------------------------------------------------------
(* computeStorageValidation: every mode it does not name is validated as a
   single disk. *)
StorageReasons(layoutMode, inventory, sysDisk, dataDisk, members, level, rootFs, dataFs) ==
    CASE layoutMode = "raid"  -> RaidSelectionReasons(members, level, rootFs, dataFs)
      [] layoutMode = "split" -> SplitDiskReasons(inventory, sysDisk, dataDisk, rootFs, dataFs)
      [] OTHER                -> SingleDiskReasons(inventory, sysDisk, rootFs, dataFs)

(* useDiskTopology: the layout the page shows for the eligible disks. *)
DetectTopology(eligibleCount, storageMode) ==
    CASE storageMode = "raid" -> "raid"
      [] storageMode \in {"manual", "lvm"} -> "unsupported"
      [] eligibleCount >= 3 -> "raid"
      [] eligibleCount = 2  -> "split"
      [] OTHER              -> "single"
=============================================================================
