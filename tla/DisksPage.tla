------------------------------ MODULE DisksPage -------------------------------
(* The disks step of the wizard (ui/src/pages/Disks.jsx with useDiskTopology):
   the inventory the daemon answers with, the disks the user picks or the page
   picks for them, the confirmation that the disks will be erased, and what the
   page reports as blocking.

   `disks` is the page's own state.  It is forgotten when the page is left; its
   inventory is kept here, unused, as the last one the user was shown.  The
   page's effects (mirroring the confirmation, reporting what blocks, replacing
   a disk that went away) run after every render, before the user can act again:
   they are part of the action that caused them.

   The daemon sends sizes as labels for people, so the planner never knows a
   size: the buttons that need one (new partition, RAID level) are never
   enabled and have no action here. *)
EXTENDS InstallPlan

CONSTANTS Payloads   \* what the daemon may answer: sequences of disks

ASSUME PayloadsAssumption ==
    \A payload \in Payloads :
      /\ payload \in Seq(ToSet(payload))
      /\ \A i \in DOMAIN payload :
           payload[i].path \in Nat /\ payload[i].size.kind = "label"
             /\ payload[i].verdict \in {"eligible", "ineligible"}

VARIABLES draft, ui, disks

diskVars == <<draft, ui, disks>>

UnmountedDisks ==
    [mounted |-> FALSE, inventory |-> <<>>, loading |-> FALSE, error |-> FALSE,
     confirmed |-> FALSE]

-----------------------------------------------------------------------------
(* What the page derives from its state. *)

Eligible(d) == EligiblePaths(d.inventory)

FirstEligible(d) ==
    IF EligibleDisks(d.inventory) = <<>> THEN NoDisk ELSE Head(EligibleDisks(d.inventory)).path

ShownTopology(w, d) == DetectTopology(Len(EligibleDisks(d.inventory)), w.storageMode)

Loaded(d) == d.mounted /\ ~d.loading /\ ~d.error

(* storageIssues: the planner's reasons, and the confirmation once a disk is
   picked.  The page does not pass the file systems on: the planner judges its
   own default. *)
ReportedIssues(w, d) ==
    StorageReasons(w.storageMode, d.inventory, w.sysDisk, w.dataDisk, <<>>, "raid0",
                   "btrfs", "btrfs")
    \cup {i \in {"confirm"} : w.storageMode = "automatic" /\ w.sysDisk # NoDisk /\ ~d.confirmed}

(* Mutant: the report is not written again when it changes. *)
Settled_KeepsReport(w, u, d) ==
    IF d.mounted THEN Patched(u, [destructiveConfirmed |-> d.confirmed]) ELSE u

(* The effects have run: the confirmation and the report are the page's. *)
Settled(w, u, d) ==
    IF d.mounted
    THEN Patched(u, [destructiveConfirmed |-> d.confirmed,
                     storageBlockingIssues |-> ReportedIssues(w, d)])
    ELSE u

ChangeDisks(patch, d) ==
    /\ draft' = Patched(draft, patch)
    /\ ui' = Settled(Patched(draft, patch), Patched(ui, patch), d)
    /\ disks' = d

-----------------------------------------------------------------------------
(* The inventory. *)

FreshDisks ==
    [mounted |-> TRUE, inventory |-> <<>>, loading |-> TRUE, error |-> FALSE,
     confirmed |-> ui.destructiveConfirmed]

Mount ==
    /\ ~disks.mounted
    /\ ChangeDisks(<<>>, FreshDisks)

(* Mutant: only the system disk is looked after. *)
AutoFix_SystemDiskOnly(w, inventory) ==
    IF inventory = <<>> \/ w.sysDisk \in EligiblePaths(inventory) THEN w
    ELSE [w EXCEPT !.sysDisk = FirstEligible([inventory |-> inventory])]

(* Mutant: an inventory always selects its first eligible disk. *)
AutoFix_PrefersFirst(w, inventory) ==
    LET first == FirstEligible([inventory |-> inventory]) IN
    IF inventory = <<>> THEN w
    ELSE [w EXCEPT !.sysDisk = first, !.selectedDisks = <<first>>, !.dataDisk = NoDisk]

(* The first eligible disk replaces a system disk that is missing or went away,
   another one a data disk that went away; the paths of the selection that went
   away are dropped, and this wins over the selection the system disk implies. *)
AutoFix(w, inventory) ==
    LET eligible == EligiblePaths(inventory)
        first    == FirstEligible([inventory |-> inventory])
        fixSys   == \/ w.storageMode = "automatic" /\ w.sysDisk = NoDisk /\ first # NoDisk
                    \/ w.sysDisk # NoDisk /\ w.sysDisk \notin eligible
        fixData  == w.dataDisk # NoDisk /\ w.dataDisk \notin eligible
        fixRaid  == ~(ToSet(w.selectedDisks) \subseteq eligible)
        sysDisk  == IF fixSys THEN first ELSE w.sysDisk
        listed   == EligibleDisks(inventory)
        others   == Kept(listed, {i \in DOMAIN listed : listed[i].path # sysDisk})
    IN  IF inventory = <<>> THEN w
        ELSE [w EXCEPT
                !.sysDisk  = sysDisk,
                !.dataDisk = IF ~fixData THEN @
                             ELSE IF others = <<>> THEN NoDisk ELSE Head(others).path,
                !.selectedDisks =
                    IF fixRaid THEN Kept(@, {i \in DOMAIN @ : @[i] \in eligible})
                    ELSE IF fixSys /\ w.storageMode = "automatic"
                         THEN (IF first = NoDisk THEN <<>> ELSE <<first>>)
                    ELSE @]

DisksArrive ==
    /\ disks.mounted /\ disks.loading
    /\ \E payload \in Payloads :
         LET inventory == NormalizeDiskInventory(payload) IN
         ChangeDisks(AutoFix(draft, inventory),
                     [disks EXCEPT !.inventory = inventory, !.loading = FALSE])

DisksFail ==
    /\ disks.mounted /\ disks.loading
    /\ ChangeDisks(<<>>, [disks EXCEPT !.inventory = <<>>, !.loading = FALSE, !.error = TRUE])

(* The reload button is on the automatic tab, which an error hides. *)
Reload ==
    /\ Loaded(disks) /\ draft.storageMode = "automatic"
    /\ ChangeDisks(<<>>, [disks EXCEPT !.loading = TRUE])

-----------------------------------------------------------------------------
(* The user. *)

(* setActiveTab: only the first two tabs have a button. *)
ChooseTab ==
    /\ disks.mounted
    /\ \E mode \in {"automatic", "manual"} \ {draft.storageMode} :
         ChangeDisks([storageMode |-> mode], disks)

(* filter(Boolean): the roles that are filled. *)
Filled(paths) == Kept(paths, {i \in DOMAIN paths : paths[i] # NoDisk})

AsSystemDisk(p) ==
    IF ShownTopology(draft, disks) = "split" /\ draft.dataDisk = p
    THEN [sysDisk |-> p, dataDisk |-> draft.sysDisk,
          selectedDisks |-> Filled(<<p, draft.sysDisk>>)]
    ELSE [sysDisk |-> p, selectedDisks |-> <<p>>]

AsDataDisk(p) ==
    IF ShownTopology(draft, disks) = "split" /\ draft.sysDisk = p
    THEN [sysDisk |-> draft.dataDisk, dataDisk |-> p,
          selectedDisks |-> Filled(<<draft.dataDisk, p>>)]
    ELSE [dataDisk |-> p,
          selectedDisks |-> Filled(<<draft.sysDisk, p>>)]

(* With two disks a card that is not the system disk's becomes the data disk, or
   the system disk when there is none. *)
PickDiskPatch(p) ==
    IF ShownTopology(draft, disks) = "split" /\ p # draft.sysDisk
         /\ (p = draft.dataDisk \/ draft.sysDisk # NoDisk)
    THEN AsDataDisk(p)
    ELSE AsSystemDisk(p)

(* A card for each eligible disk; with three or more only for the first two. *)
EveryCard == Paths(EligibleDisks(disks.inventory))
RaidCards == Paths(SubSeq(EligibleDisks(disks.inventory), 1, 2))

Cards == IF ShownTopology(draft, disks) = "raid" THEN RaidCards ELSE EveryCard

PickDisk ==
    /\ Loaded(disks) /\ draft.storageMode = "automatic"
    /\ \E p \in Cards : ChangeDisks(PickDiskPatch(p), disks)

RootOptions ==
    IF ShownTopology(draft, disks) \in {"split", "raid"} THEN Filesystems ELSE {"btrfs", "zfs"}
DataOptions == Filesystems

(* The selects are shown with one eligible disk, or with two. *)
ChooseFilesystem ==
    /\ Loaded(disks) /\ draft.storageMode = "automatic"
    /\ \/ /\ Len(EligibleDisks(disks.inventory)) = 1 \/ ShownTopology(draft, disks) = "split"
          /\ \E fs \in RootOptions \ {draft.rootFs} : ChangeDisks([rootFs |-> fs], disks)
       \/ /\ ShownTopology(draft, disks) = "split"
          /\ \E fs \in DataOptions \ {draft.dataFs} : ChangeDisks([dataFs |-> fs], disks)

(* The box is greyed out without a disk, but answers to the keyboard. *)
ToggleConfirm ==
    /\ disks.mounted
    /\ ChangeDisks(<<>>, [disks EXCEPT !.confirmed = ~@])

(* The page is left: its state is gone, a pending answer is nobody's. *)
LeavesDisks ==
    [disks EXCEPT !.mounted = FALSE, !.loading = FALSE, !.error = FALSE, !.confirmed = FALSE]

UnmountDisks ==
    /\ disks.mounted
    /\ disks' = LeavesDisks
    /\ UNCHANGED <<draft, ui>>

-----------------------------------------------------------------------------
Init ==
    /\ draft = InitialDraft
    /\ ui = InitialUi
    /\ disks = UnmountedDisks

ByUser == ChooseTab \/ PickDisk \/ ChooseFilesystem \/ ToggleConfirm \/ UnmountDisks
ByPage == Mount \/ DisksArrive \/ DisksFail \/ Reload

Next == ByUser \/ ByPage

Spec == Init /\ [][Next]_diskVars

-----------------------------------------------------------------------------
(* Whatever was clicked, reloaded or unplugged, the automatic disks step lets the
   user on only with exactly one disk picked, which the last inventory lists as
   eligible, with the erasure of it confirmed. *)
PassedStepHasItsDisk ==
    (draft.storageMode = "automatic" /\ disks.mounted /\ DisksIssues(draft, ui) = {})
        => /\ draft.sysDisk \in Eligible(disks)
           /\ ToSet(draft.selectedDisks) \ {NoDisk} = {draft.sysDisk}
           /\ draft.dataDisk = NoDisk
           /\ ui.destructiveConfirmed
           /\ Topology(draft) = "single"

(* As long as the page shows an inventory that lists something, no part of the
   selection names a disk that is not in it or may not be installed on: a disk
   that was unplugged between two reloads does not stay selected. *)
SelectionIsEligible ==
    (Loaded(disks) /\ disks.inventory # <<>>)
        => {draft.sysDisk, draft.dataDisk} \cup ToSet(draft.selectedDisks)
             \subseteq Eligible(disks) \cup {NoDisk}

(* The page replaces the system disk of its own accord only when there was none
   or the one chosen is not on offer any more: an answer of the daemon never
   moves the installation to another disk behind the user's back. *)
DiskSwapsOnlyWhenGone ==
    [][ByPage => \/ draft'.sysDisk = draft.sysDisk
                 \/ draft.sysDisk = NoDisk
                 \/ draft.sysDisk \notin EligiblePaths(disks'.inventory)]_diskVars

(* How many members a level survives the loss of. *)
Survives(level, count) ==
    CASE level = "raid0" -> 0
      [] level = "raid1" -> count - 1
      [] level = "raid5" -> 1
      [] level = "raid10" -> 1

(* The first disks the page lists, were their sizes known: the first may differ
   from the others. *)
MemberLists ==
    { [i \in 1..n |-> [disks.inventory[i] EXCEPT !.sizeBytes = IF i = 1 THEN first ELSE other]] :
        n \in DOMAIN disks.inventory, first \in {60, 62, 100}, other \in {60, 100} }

(* Every RAID level the planner would enable for them has distinct eligible
   members enough, keeps what it promises to hold on what is left after the
   losses it survives, and the recommendation is a level it enables. *)
RaidOffersAreSound ==
    \A members \in MemberLists :
      /\ \A level \in RaidLevels : RaidOptionEnabled(members, level) =>
           /\ Len(members) >= RaidSpec[level].min
           /\ Paths(members) \subseteq Eligible(disks)
           /\ UsableBytes(members, level)
                <= RawBytes(members) - Survives(level, Len(members)) * SmallestDisk(members)
      /\ RecommendedLevel(members) # "single"
           => RaidOptionEnabled(members, RecommendedLevel(members))
=============================================================================
