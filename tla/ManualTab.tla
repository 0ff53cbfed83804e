------------------------------ MODULE ManualTab -------------------------------
(* The manual tab of the disks step (TabManual in ui/src/pages/Disks.jsx), on the
   disks that the page lists as eligible: which disk a new partition goes to, and
   how large it is made.  The daemon sends no size the page can read, so the
   button is never enabled; what it would do is said here for disks whose sizes
   are known. *)
EXTENDS DisksPage, LayoutAssistant

CanCreatePartition(ds, partitions) ==
    \E d \in ToSet(ds) : LET a == DiskAllocation(d, partitions)
                         IN  ~a.error /\ a.freeBytes > 0

(* addPartition of the manual tab: what is left of the disk with the most room. *)
AddPartition(ds, partitions) ==
    LET free(d) == DiskAllocation(d, partitions).freeBytes
        best    == CHOOSE d \in ToSet(ds) : \A e \in ToSet(ds) : free(e) <= free(d)
    IN  IF CanCreatePartition(ds, partitions)
        THEN Append(partitions, [device |-> best.path, mountpoint |-> "/", usage |-> "root",
                                 fstype |-> "btrfs", sizeBytes |-> free(best)])
        ELSE partitions

(* The partition that is added fills up a disk, and overflows none. *)
AdditionFits(ds, partitions) ==
    LET list == AddPartition(ds, partitions)
    IN  CanCreatePartition(ds, partitions) =>
          /\ \E d \in ToSet(ds) : DiskAllocation(d, list).full
          /\ \A d \in ToSet(ds) : DiskAllocation(d, list).error
                                     => DiskAllocation(d, partitions).error

(* The disks the tab is given, were their sizes known: the first may differ from
   the others. *)
TabDisks ==
    LET listed == EligibleDisks(disks.inventory)
    IN  { [i \in DOMAIN listed |->
              [listed[i] EXCEPT !.sizeBytes = IF i = 1 THEN first ELSE other]] :
            first \in Sizes, other \in Sizes }

(* What the layout assistant accepts of a preset fits the disk, keeps what dual
   boot promises to keep and has room for a system; and the partition that the
   manual tab adds, for whatever inventory the page shows, fills a disk up and
   overflows none. *)
LayoutsFit ==
    /\ PresetMisfits = {}
    /\ (Loaded(disks) /\ draft.storageMode = "manual") =>
         \A ds \in TabDisks, list \in HandMade : AdditionFits(ds, list)
=============================================================================
