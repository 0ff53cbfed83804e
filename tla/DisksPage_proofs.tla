--------------------------- MODULE DisksPage_proofs ---------------------------
(* The disks step, for every inventory the daemon may answer with, in any order:
   the step is left only with one eligible disk picked and its erasure confirmed,
   the page never moves the installation to another disk of its own accord while
   the one chosen is there, the selection names eligible disks only, and the RAID
   levels offered keep their promises.  After them, what the plan builder and the
   layout presets make of a draft and of a disk of any size.

   What makes the first inductive is that the page's report and confirmation are
   never behind its state (Reported), and that the draft never grows the two fields
   the topology is projected from (Fields).  For the selection it is that the
   inventory lists each path once (Listing), which takes what the planner's
   recursive functions compute: the part on sequences, by induction on prefixes. *)
EXTENDS ManualTab, WellFoundedInduction, TLAPS

PageFields == {"mounted", "inventory", "loading", "error", "confirmed"}
IsPage(d) == d = [f \in PageFields |-> d[f]]

Fields ==
    /\ DOMAIN draft = DraftFields
    /\ DOMAIN ui = UiFields
    /\ IsPage(disks)

Reported ==
    disks.mounted =>
      /\ ui.storageBlockingIssues = ReportedIssues(draft, disks)
      /\ ui.destructiveConfirmed = disks.confirmed

DInv == Fields /\ Reported

-----------------------------------------------------------------------------
LEMMA ReportFields == {"storageBlockingIssues", "destructiveConfirmed"} \subseteq UiFields
BY DEF UiFields, InitialUi

LEMMA DiskFields == {"sysDisk", "dataDisk", "storageMode", "selectedDisks"} \subseteq DraftFields
BY DEF DraftFields, InitialDraft

(* No draft has the fields the disks step projects a topology from. *)
LEMMA NoDiskProfile == {"diskProfile", "diskMode"} \cap DraftFields = {}
BY DEF DraftFields, InitialDraft

(* A patch without fields changes nothing. *)
LEMMA EmptyPatch ==
    ASSUME NEW record, NEW field \in DOMAIN record
    PROVE  Patched(record, <<>>)[field] = record[field]
BY DEF Patched

(* Whatever is changed, the effects that follow leave the report up to date. *)
LEMMA ChangeReports ==
    ASSUME DInv, NEW patch, NEW d, ChangeDisks(patch, d),
           IsPage(d)
    PROVE  DInv'
<1>1. DOMAIN draft' = DraftFields
  BY DEF DInv, Fields, ChangeDisks, Patched
<1>2. DOMAIN ui' = UiFields
  BY DEF DInv, Fields, ChangeDisks, Settled, Patched
<1>3. disks' = d
  BY DEF ChangeDisks
<1>4. ASSUME d.mounted
      PROVE  /\ ui'.storageBlockingIssues = ReportedIssues(draft', d)
             /\ ui'.destructiveConfirmed = d.confirmed
  <2> DEFINE report == [destructiveConfirmed |-> d.confirmed,
                        storageBlockingIssues |-> ReportedIssues(draft', d)]
             before == Patched(ui, patch)
  <2>1. DOMAIN before = UiFields
    BY DEF DInv, Fields, Patched
  <2>2. ui' = Patched(before, report)
    BY <1>4 DEF ChangeDisks, Settled
  <2>3. DOMAIN report = {"destructiveConfirmed", "storageBlockingIssues"}
    OBVIOUS
  <2> HIDE DEF before
  <2> QED BY <2>1, <2>2, <2>3, ReportFields DEF Patched
<1>5. Fields'
  BY <1>1, <1>2, <1>3 DEF Fields
<1> QED BY <1>3, <1>4, <1>5 DEF DInv, Reported

LEMMA InitDInv == Init => DInv
BY DEF Init, DInv, Fields, Reported, UnmountedDisks, DraftFields, UiFields, IsPage, PageFields

(* The empty patch and the patches of the user are all changes of this kind. *)
LEMMA StepKeepsDInv == ASSUME DInv, [Next]_diskVars PROVE DInv'
<1> USE DEF DInv
<1>1. CASE ChooseTab \/ PickDisk \/ ChooseFilesystem
  <2>1. \E patch : ChangeDisks(patch, disks)
    BY <1>1 DEF ChooseTab, PickDisk, ChooseFilesystem
  <2> QED BY <2>1, ChangeReports DEF Fields
<1>2. CASE ToggleConfirm
  <2> DEFINE d == [disks EXCEPT !.confirmed = ~@]
  <2>1. IsPage(d)
    BY DEF Fields, IsPage
  <2> QED BY <1>2, <2>1, ChangeReports DEF ToggleConfirm
<1>3. CASE Mount
  <2>1. ChangeDisks(<<>>, FreshDisks)
    BY <1>3 DEF Mount
  <2>2. IsPage(FreshDisks)
    BY DEF FreshDisks, IsPage, PageFields
  <2> QED BY <2>1, <2>2, ChangeReports
<1>4. CASE DisksArrive
  <2>1. PICK inventory, patch :
          ChangeDisks(patch, [disks EXCEPT !.inventory = inventory, !.loading = FALSE])
    BY <1>4 DEF DisksArrive
  <2> DEFINE d == [disks EXCEPT !.inventory = inventory, !.loading = FALSE]
  <2>2. IsPage(d)
    BY DEF Fields, IsPage
  <2> QED BY <2>1, <2>2, ChangeReports
<1>5. CASE DisksFail
  <2> DEFINE d == [disks EXCEPT !.inventory = <<>>, !.loading = FALSE, !.error = TRUE]
  <2>1. IsPage(d)
    BY DEF Fields, IsPage
  <2> QED BY <1>5, <2>1, ChangeReports DEF DisksFail
<1>6. CASE Reload
  <2> DEFINE d == [disks EXCEPT !.loading = TRUE]
  <2>1. IsPage(d)
    BY DEF Fields, IsPage
  <2> QED BY <1>6, <2>1, ChangeReports DEF Reload
<1>7. CASE UnmountDisks
  <2>1. disks' = [disks EXCEPT !.mounted = FALSE, !.loading = FALSE, !.error = FALSE,
                               !.confirmed = FALSE]
    BY <1>7 DEF UnmountDisks, LeavesDisks
  <2>2. ~disks'.mounted
    BY <2>1 DEF Fields, IsPage, PageFields
  <2>3. Fields'
    BY <1>7, <2>1 DEF UnmountDisks, Fields, IsPage
  <2> QED BY <2>2, <2>3 DEF Reported
<1>8. CASE UNCHANGED diskVars
  BY <1>8 DEF diskVars, Fields, Reported, ReportedIssues
<1> QED BY <1>1, <1>2, <1>3, <1>4, <1>5, <1>6, <1>7, <1>8 DEF Next, ByUser, ByPage

LEMMA ReportsAlways == Spec => []DInv
BY InitDInv, StepKeepsDInv, PTL DEF Spec

-----------------------------------------------------------------------------
(* The step is always judged as one that needs a single disk. *)
LEMMA JudgedAsSingle ==
    ASSUME DInv PROVE ProjectedTopology(draft) = "single"
<1>1. /\ Read(draft, "diskProfile") = "undefined"
      /\ Read(draft, "diskMode") = "undefined"
  BY NoDiskProfile DEF DInv, Fields, Read
<1> QED BY <1>1 DEF ProjectedTopology

(* What the page does not report about an automatic layout: the system disk is
   not among the eligible ones, or is not confirmed. *)
LEMMA NothingReported ==
    ASSUME NEW w, NEW d, w.storageMode = "automatic", ReportedIssues(w, d) = {}
    PROVE  /\ w.sysDisk \in Eligible(d)
           /\ w.sysDisk # NoDisk => d.confirmed
<1>1. "confirm" \notin ReportedIssues(w, d) /\ "root" \notin ReportedIssues(w, d)
  OBVIOUS
<1>2. StorageReasons(w.storageMode, d.inventory, w.sysDisk, w.dataDisk, <<>>, "raid0",
                     "btrfs", "btrfs")
        = SingleDiskReasons(d.inventory, w.sysDisk, "btrfs", "btrfs")
  BY DEF StorageReasons
<1>3. RoleReasons(d.inventory, "root", w.sysDisk) \subseteq ReportedIssues(w, d)
  BY <1>2 DEF ReportedIssues, SingleDiskReasons
<1>4. w.sysDisk \in Eligible(d)
  BY <1>1, <1>3 DEF RoleReasons, Eligible
<1>5. w.sysDisk # NoDisk => d.confirmed
  BY <1>1 DEF ReportedIssues
<1> QED BY <1>4, <1>5

(* What the wizard itself asks of the disks step when one disk is needed. *)
LEMMA NothingMissing ==
    ASSUME NEW w, NEW u, ProjectedTopology(w) = "single", DisksIssues(w, u) = {}
    PROVE  /\ u.storageBlockingIssues = {}
           /\ w.sysDisk # NoDisk
           /\ w.dataDisk = NoDisk
           /\ ToSet(w.selectedDisks) \ {NoDisk} = {w.sysDisk}
<1> DEFINE members == ToSet(w.selectedDisks) \ {NoDisk}
<1>1. u.storageBlockingIssues = {}
  BY DEF DisksIssues
<1>2. /\ "noSysDisk" \notin DisksIssues(w, u)
      /\ "sysDiskOutside" \notin DisksIssues(w, u)
      /\ "count" \notin DisksIssues(w, u)
      /\ "dataDisk" \notin DisksIssues(w, u)
  OBVIOUS
<1>3. w.sysDisk # NoDisk
  BY <1>2 DEF DisksIssues
<1>4. w.dataDisk = NoDisk
  BY <1>2 DEF DisksIssues
<1>5. \E p \in members : members = {p}
  BY <1>2 DEF DisksIssues
<1>6. members # {} => w.sysDisk \in members
  BY <1>2, <1>3 DEF DisksIssues
<1>7. members = {w.sysDisk}
  BY <1>5, <1>6
<1> QED BY <1>1, <1>3, <1>4, <1>7

LEMMA PassedIsSound == ASSUME DInv PROVE PassedStepHasItsDisk
<1> SUFFICES ASSUME draft.storageMode = "automatic", disks.mounted, DisksIssues(draft, ui) = {}
             PROVE  /\ draft.sysDisk \in Eligible(disks)
                    /\ ToSet(draft.selectedDisks) \ {NoDisk} = {draft.sysDisk}
                    /\ draft.dataDisk = NoDisk
                    /\ ui.destructiveConfirmed
                    /\ Topology(draft) = "single"
  BY DEF PassedStepHasItsDisk
<1>1. /\ ui.storageBlockingIssues = {}
      /\ draft.sysDisk # NoDisk
      /\ draft.dataDisk = NoDisk
      /\ ToSet(draft.selectedDisks) \ {NoDisk} = {draft.sysDisk}
  BY JudgedAsSingle, NothingMissing
<1>2. ReportedIssues(draft, disks) = {}
  BY <1>1 DEF DInv, Reported
<1>3. draft.sysDisk \in Eligible(disks) /\ disks.confirmed
  BY <1>1, <1>2, NothingReported
<1>4. ui.destructiveConfirmed
  BY <1>3 DEF DInv, Reported
<1>5. Topology(draft) = "single"
  BY <1>1 DEF Topology, HasSeparateDataDisk
<1> QED BY <1>1, <1>3, <1>4, <1>5

(* Whatever was clicked, reloaded or unplugged, the automatic disks step is left
   only with one eligible disk picked and confirmed. *)
THEOREM PassedStepIsSound == Spec => []PassedStepHasItsDisk
BY ReportsAlways, PassedIsSound, PTL

-----------------------------------------------------------------------------
(* The replacement of disks that went away never touches one that is there. *)
LEMMA AutoFixKeepsDisk ==
    ASSUME NEW w, NEW inventory, "sysDisk" \in DOMAIN w,
           w.sysDisk # NoDisk, w.sysDisk \in EligiblePaths(inventory)
    PROVE  AutoFix(w, inventory).sysDisk = w.sysDisk
BY DEF AutoFix

(* The page moves the installation to another disk only when none was chosen or
   the chosen one is not on offer any more. *)
THEOREM DiskStays == Spec => DiskSwapsOnlyWhenGone
<1> DEFINE Step == ByPage => \/ draft'.sysDisk = draft.sysDisk
                            \/ draft.sysDisk = NoDisk
                            \/ draft.sysDisk \notin EligiblePaths(disks'.inventory)
<1>1. ASSUME DInv, ByPage PROVE Step
  <2>1. CASE Mount \/ DisksFail \/ Reload
    <3>1. draft' = Patched(draft, <<>>)
      BY <2>1 DEF Mount, DisksFail, Reload, ChangeDisks
    <3>2. draft'.sysDisk = draft.sysDisk
      BY <3>1, <1>1, EmptyPatch, DiskFields DEF DInv, Fields
    <3> QED BY <3>2
  <2>2. CASE DisksArrive
    <3>1. PICK inventory :
            ChangeDisks(AutoFix(draft, inventory),
                        [disks EXCEPT !.inventory = inventory, !.loading = FALSE])
      BY <2>2 DEF DisksArrive
    <3>2. disks'.inventory = inventory
      BY <1>1, <3>1 DEF ChangeDisks, DInv, Fields, IsPage, PageFields
    <3>3. draft' = Patched(draft, AutoFix(draft, inventory))
      BY <3>1 DEF ChangeDisks
    <3>4. draft'.sysDisk \in {draft.sysDisk, AutoFix(draft, inventory).sysDisk}
      BY <1>1, <3>3, DiskFields DEF Patched, DInv, Fields
    <3>5. CASE draft.sysDisk # NoDisk /\ draft.sysDisk \in EligiblePaths(inventory)
      BY <1>1, <3>4, <3>5, AutoFixKeepsDisk, DiskFields DEF DInv, Fields
    <3> QED BY <3>2, <3>5
  <2> QED BY <1>1, <2>1, <2>2 DEF ByPage
<1>2. DInv /\ [Next]_diskVars => [Step]_diskVars
  BY <1>1
<1> QED BY <1>2, ReportsAlways, PTL DEF Spec, DiskSwapsOnlyWhenGone

-----------------------------------------------------------------------------
(* The pure parts behind the page, for every draft and every disk: the builder
   never makes a storage section that the daemon's schema refuses, and a preset
   of the layout assistant fits its disk. *)

(* Quotas are absent or valid: none of them has an input in the wizard. *)
QuotasWellFormed(w) ==
    {w.zfsUserRefquota, w.btrfsUserQgroupLimit} \subseteq {"", "valid"}

-----------------------------------------------------------------------------
(* The storage section. *)

(* What the builder has checked once it gets to the sections. *)
LEMMA BuilderChecks ==
    ASSUME NEW w, BuildReasons(w) = {}
    PROVE  /\ w.storageMode # "raid"
           /\ w.sysDisk # NoDisk
           /\ {w.rootFs, w.dataFs} \subseteq Filesystems
           /\ "zfs" \in {w.rootFs, w.dataFs} => w.zfsUserRefquota # ""
           /\ (Topology(w) = "split" /\ w.dataFs = "btrfs")
                => w.btrfsUserQgroupLimit # ""
<1>1. /\ "storageMode" \notin BuildReasons(w)
      /\ "noSystemDisk" \notin BuildReasons(w)
      /\ "filesystem" \notin BuildReasons(w)
      /\ "zfsQuota" \notin BuildReasons(w)
      /\ "btrfsQuota" \notin BuildReasons(w)
  OBVIOUS
<1>2. w.storageMode # "raid" /\ w.sysDisk # NoDisk
  BY <1>1 DEF BuildReasons
<1>3. {w.rootFs, w.dataFs} \subseteq Filesystems
  BY <1>1 DEF BuildReasons
<1>4. "zfs" \in {w.rootFs, w.dataFs} => w.zfsUserRefquota # ""
  BY <1>1 DEF BuildReasons
<1>5. (Topology(w) = "split" /\ w.dataFs = "btrfs") => w.btrfsUserQgroupLimit # ""
  BY <1>1 DEF BuildReasons
<1> QED BY <1>2, <1>3, <1>4, <1>5

(* A split layout has a data disk of its own. *)
LEMMA SplitHasDataDisk ==
    ASSUME NEW w, w.storageMode # "raid"
    PROVE  /\ Topology(w) \in {"single", "split"}
           /\ Topology(w) = "split" => w.dataDisk \notin {NoDisk, w.sysDisk}
BY DEF Topology, HasSeparateDataDisk

(* Whatever draft the builder accepts, with quotas that are absent or valid, the
   storage section it makes is one the schema of the daemon accepts: no draft
   passes the builder to be refused for its disks. *)
THEOREM BuiltStorageConforms ==
    ASSUME NEW w, BuildReasons(w) = {}, QuotasWellFormed(w)
    PROVE  StorageAllowed(StoragePlan(w))
<1> DEFINE plan == StoragePlan(w)
           split == Topology(w) = "split"
<1>1. /\ w.storageMode # "raid"
      /\ w.sysDisk # NoDisk
      /\ {w.rootFs, w.dataFs} \subseteq Filesystems
      /\ "zfs" \in {w.rootFs, w.dataFs} => w.zfsUserRefquota # ""
      /\ (split /\ w.dataFs = "btrfs") => w.btrfsUserQgroupLimit # ""
  BY BuilderChecks
<1>2. /\ Topology(w) \in {"single", "split"}
      /\ split => w.dataDisk \notin {NoDisk, w.sysDisk}
  BY <1>1, SplitHasDataDisk
<1>3. /\ plan.topology = Topology(w)
      /\ plan.systemDisks = <<w.sysDisk>>
      /\ plan.dataDisks = IF split THEN <<w.dataDisk>> ELSE <<>>
      /\ plan.root = FilesystemSection(w.rootFs)
      /\ plan.data = IF split THEN {FilesystemSection(w.dataFs)} ELSE {}
      /\ plan.zfs = IF "zfs" \in {w.rootFs, w.dataFs}
                    THEN {w.zfsUserRefquota} ELSE {}
      /\ plan.btrfs = IF split /\ w.dataFs = "btrfs"
                      THEN {w.btrfsUserQgroupLimit} ELSE {}
  BY DEF StoragePlan
<1> HIDE DEF plan, split
<1>4. plan.topology \in {"single", "split", "raid", "manual"}
  BY <1>2, <1>3
<1>5. \A ds \in {plan.systemDisks, plan.dataDisks} :
         /\ \A i \in DOMAIN ds : ds[i] # NoDisk
         /\ \A i, j \in DOMAIN ds : i # j => ds[i] # ds[j]
  <2>1. ASSUME NEW p, p # NoDisk, NEW ds, ds = <<p>> \/ ds = <<>>
        PROVE  /\ \A i \in DOMAIN ds : ds[i] # NoDisk
               /\ \A i, j \in DOMAIN ds : i # j => ds[i] # ds[j]
    BY <2>1
  <2>2. plan.systemDisks = <<w.sysDisk>>
    BY <1>3
  <2>3. plan.dataDisks = <<>> \/ (w.dataDisk # NoDisk /\ plan.dataDisks = <<w.dataDisk>>)
    BY <1>2, <1>3
  <2>4. \A ds \in {plan.systemDisks, plan.dataDisks} :
           ds = <<>> \/ \E p : p # NoDisk /\ ds = <<p>>
    BY <1>1, <2>2, <2>3
  <2> QED BY <2>1, <2>4
<1>6. \A fs \in {w.rootFs, w.dataFs} : SectionAllowed(FilesystemSection(fs))
  BY <1>1 DEF SectionAllowed, FilesystemSection
<1>7. \A section \in {plan.root} \cup plan.data : SectionAllowed(section)
  BY <1>3, <1>6
<1>8. \A q \in plan.zfs \cup plan.btrfs : QuotaAllowed(q)
  BY <1>1, <1>3 DEF QuotaAllowed, QuotasWellFormed
<1>9. QuotasPresent(plan)
  <2>1. \A fs : FilesystemSection(fs).filesystem = fs
    BY DEF FilesystemSection
  <2> QED BY <1>3, <2>1 DEF QuotasPresent
<1> QED BY <1>4, <1>5, <1>7, <1>8, <1>9 DEF StorageAllowed, plan

-----------------------------------------------------------------------------
(* Sequences.  What the recursive functions of the planner compute, by induction
   on the prefixes of their argument: the library's induction theorems are about
   a predicate, these are about a set of numbers. *)

IsSeq(s) == s \in Seq(ToSet(s))

LEMMA LessIsWellFounded ==
    \E R : IsWellFoundedOn(R, Nat) /\ \A x, y \in Nat : <<x, y>> \in R <=> x < y
<1>1. IsWellFoundedOn(OpToRel(<, Nat), Nat)
  BY NatLessThanWellFounded
<1>2. \A x, y \in Nat : <<x, y>> \in OpToRel(<, Nat) <=> x < y
  BY DEF OpToRel
<1> QED BY <1>1, <1>2

LEMMA LeastNumber ==
    ASSUME NEW T, T \subseteq Nat, T # {}
    PROVE  \E m \in T : \A k \in T : m <= k
<1>1. PICK R : IsWellFoundedOn(R, Nat) /\ \A x, y \in Nat : <<x, y>> \in R <=> x < y
  BY LessIsWellFounded
<1>2. IsWellFoundedOn(R, Nat)
  BY <1>1
<1>3. PICK m \in T : \A k \in T : ~(<<k, m>> \in R)
  BY <1>2, WFMin, Zenon
<1>4. ASSUME NEW k \in T PROVE m <= k
  <2>1. m \in Nat /\ k \in Nat
    OBVIOUS
  <2>2. ~(k < m)
    BY <1>1, <1>3, <2>1, Zenon
  <2> QED BY <2>1, <2>2
<1> QED BY <1>4

(* Induction up to a number. *)
LEMMA UpTo ==
    ASSUME NEW S, NEW top \in Nat, 0 \in S, \A n \in 1..top : n - 1 \in S => n \in S
    PROVE  top \in S
<1> DEFINE T == (0..top) \ S
<1>1. SUFFICES ASSUME T # {} PROVE FALSE
  OBVIOUS
<1>2. T \subseteq Nat
  OBVIOUS
<1>3. PICK m \in T : \A k \in T : m <= k
  <2> HIDE DEF T
  <2> QED BY <1>1, <1>2, LeastNumber
<1>4. m \in 1..top /\ m - 1 \notin T
  BY <1>3
<1> QED BY <1>3, <1>4

(* A recursion over 1..n has a solution. *)
Steps(step, n, V) == step \in [1..n -> [V -> V]]
Solves(f, step, first, n, V) ==
    f \in [0..n -> V] /\ f[0] = first /\ \A i \in 1..n : f[i] = step[i][f[i - 1]]

LEMMA Recursion ==
    ASSUME NEW V, NEW first \in V, NEW n \in Nat, NEW step, Steps(step, n, V)
    PROVE  \E f : Solves(f, step, first, n, V)
<1> DEFINE N == {k \in 0..n : \E f : Solves(f, step, first, k, V)}
<1>1. 0 \in N
  <2>1. Solves([i \in 0..0 |-> first], step, first, 0, V)
    BY DEF Solves
  <2> QED BY <2>1
<1>2. ASSUME NEW k \in 1..n, k - 1 \in N PROVE k \in N
  <2>1. PICK f : Solves(f, step, first, k - 1, V)
    BY <1>2
  <2> DEFINE g == [i \in 0..k |-> IF i = k THEN step[k][f[k - 1]] ELSE f[i]]
  <2>2. f[k - 1] \in V
    BY <2>1 DEF Solves
  <2>3. step[k][f[k - 1]] \in V
    BY <2>2 DEF Steps
  <2>4. g \in [0..k -> V]
    BY <2>1, <2>3 DEF Solves
  <2>5. g[0] = first
    BY <2>1 DEF Solves
  <2>6. ASSUME NEW i \in 1..k PROVE g[i] = step[i][g[i - 1]]
    <3>1. CASE i = k
      <4>1. k \in 0..k /\ k - 1 \in 0..k /\ k - 1 # k
        OBVIOUS
      <4>2. g[k] = step[k][f[k - 1]] /\ g[k - 1] = f[k - 1]
        BY <4>1
      <4> QED BY <3>1, <4>2
    <3>2. CASE i # k
      <4>1. i \in 1..(k - 1) /\ i - 1 \in 0..k /\ i - 1 # k
        BY <3>2
      <4>2. g[i] = f[i] /\ g[i - 1] = f[i - 1]
        BY <3>2, <4>1
      <4> QED BY <2>1, <4>1, <4>2 DEF Solves
    <3> QED BY <3>1, <3>2
  <2> HIDE DEF g
  <2>7. Solves(g, step, first, k, V)
    BY <2>4, <2>5, <2>6 DEF Solves
  <2> QED BY <2>7
<1>3. n \in N
  <2>1. \A k \in 1..n : k - 1 \in N => k \in N
    BY <1>2
  <2> HIDE DEF N
  <2> QED BY <1>1, <2>1, UpTo
<1> QED BY <1>3

-----------------------------------------------------------------------------
(* Filters. *)

LEMMA Elements ==
    ASSUME NEW A, NEW s \in Seq(A)
    PROVE  /\ Len(s) \in Nat
           /\ DOMAIN s = 1..Len(s)
           /\ ToSet(s) = {s[i] : i \in 1..Len(s)}
           /\ ToSet(s) \subseteq A
           /\ IsSeq(s)
<1>1. Len(s) \in Nat /\ DOMAIN s = 1..Len(s) /\ s \in [1..Len(s) -> A]
  OBVIOUS
<1>2. ToSet(s) = {s[i] : i \in 1..Len(s)} /\ ToSet(s) \subseteq A
  BY <1>1 DEF ToSet
<1>3. s \in [1..Len(s) -> ToSet(s)]
  BY <1>1, <1>2
<1>4. s \in Seq(ToSet(s))
  BY <1>1, <1>3
<1> QED BY <1>1, <1>2, <1>4 DEF IsSeq

LEMMA Appended ==
    ASSUME NEW A, NEW t \in Seq(A), NEW x \in A
    PROVE  /\ Append(t, x) \in Seq(A)
           /\ ToSet(Append(t, x)) = ToSet(t) \cup {x}
           /\ Len(Append(t, x)) = Len(t) + 1
           /\ \A i \in 1..Len(t) : Append(t, x)[i] = t[i]
           /\ Append(t, x)[Len(t) + 1] = x
<1>1. /\ Append(t, x) \in Seq(A)
      /\ Len(Append(t, x)) = Len(t) + 1
      /\ DOMAIN Append(t, x) = 1..(Len(t) + 1) /\ DOMAIN t = 1..Len(t) /\ Len(t) \in Nat
      /\ \A i \in 1..Len(t) : Append(t, x)[i] = t[i]
      /\ Append(t, x)[Len(t) + 1] = x
  OBVIOUS
<1>2. ASSUME NEW i \in 1..(Len(t) + 1), i \notin 1..Len(t) PROVE i = Len(t) + 1
  BY <1>1, <1>2
<1>3. 1..Len(t) \subseteq 1..(Len(t) + 1) /\ Len(t) + 1 \in 1..(Len(t) + 1)
  BY <1>1
<1>4. ToSet(Append(t, x)) = ToSet(t) \cup {x}
  BY <1>1, <1>2, <1>3 DEF ToSet
<1> QED BY <1>1, <1>4

(* What is kept of each prefix, given what is kept of the one before. *)
KeptStep(before, n, s, I) == IF n \in I THEN Append(before, s[n]) ELSE before
KeptPrefixes(f, s, I) == f[0] = <<>> /\ \A n \in 1..Len(s) : f[n] = KeptStep(f[n - 1], n, s, I)

LEMMA KeptRecurs ==
    ASSUME NEW A, NEW s \in Seq(A), NEW I
    PROVE  \E f : KeptPrefixes(f, s, I) /\ Kept(s, I) = f[Len(s)]
<1> DEFINE Rec(f) == [n \in 0..Len(s) |->
                        IF n = 0 THEN <<>>
                        ELSE IF n \in I THEN Append(f[n - 1], s[n]) ELSE f[n - 1]]
           step == [n \in 1..Len(s) |-> [t \in Seq(A) |-> KeptStep(t, n, s, I)]]
           upTo == CHOOSE f : f = Rec(f)
<1>1. Len(s) \in Nat /\ \A n \in 1..Len(s) : s[n] \in A
  OBVIOUS
<1>2. Steps(step, Len(s), Seq(A))
  <2>1. ASSUME NEW n \in 1..Len(s), NEW t \in Seq(A) PROVE KeptStep(t, n, s, I) \in Seq(A)
    BY <1>1, Appended DEF KeptStep
  <2> QED BY <2>1 DEF Steps
<1>3. <<>> \in Seq(A)
  OBVIOUS
<1>4. PICK f : Solves(f, step, <<>>, Len(s), Seq(A))
  <2> HIDE DEF step
  <2> QED BY <1>1, <1>2, <1>3, Recursion
<1>5. f = Rec(f)
  <2>1. ASSUME NEW n \in 0..Len(s) PROVE f[n] = Rec(f)[n]
    <3>1. CASE n = 0
      BY <1>4, <3>1 DEF Solves
    <3>2. CASE n # 0
      <4>1. n \in 1..Len(s) /\ f[n - 1] \in Seq(A)
        BY <1>1, <1>4, <3>2 DEF Solves
      <4>2. step[n][f[n - 1]] = KeptStep(f[n - 1], n, s, I)
        BY <4>1
      <4>3. Rec(f)[n] = KeptStep(f[n - 1], n, s, I)
        BY <3>2 DEF KeptStep
      <4> QED BY <1>4, <4>1, <4>2, <4>3 DEF Solves
    <3> QED BY <3>1, <3>2
  <2>2. f = [n \in 0..Len(s) |-> f[n]]
    BY <1>4 DEF Solves
  <2> QED BY <2>1, <2>2
<1>6. upTo = Rec(upTo)
  BY <1>5
<1>7. Kept(s, I) = upTo[Len(s)]
  BY DEF Kept
<1> HIDE DEF upTo
<1>8. KeptPrefixes(upTo, s, I)
  <2>1. upTo[0] = <<>>
    <3>1. 0 \in 0..Len(s)
      BY <1>1
    <3>2. Rec(upTo)[0] = <<>>
      BY <3>1
    <3> QED BY <1>6, <3>2
  <2>2. ASSUME NEW n \in 1..Len(s) PROVE upTo[n] = KeptStep(upTo[n - 1], n, s, I)
    <3>1. n \in 0..Len(s) /\ n # 0
      BY <1>1
    <3>2. Rec(upTo)[n] = KeptStep(upTo[n - 1], n, s, I)
      BY <3>1 DEF KeptStep
    <3> QED BY <1>6, <3>2
  <2> QED BY <2>1, <2>2 DEF KeptPrefixes
<1> QED BY <1>7, <1>8

(* A filter keeps the elements at the given positions and no others. *)
LEMMA KeptElements ==
    ASSUME NEW A, NEW s \in Seq(A), NEW I
    PROVE  /\ Kept(s, I) \in Seq(A)
           /\ ToSet(Kept(s, I)) = {s[i] : i \in I \cap DOMAIN s}
<1>1. PICK f : KeptPrefixes(f, s, I) /\ Kept(s, I) = f[Len(s)]
  BY KeptRecurs
<1>2. Len(s) \in Nat /\ DOMAIN s = 1..Len(s) /\ \A i \in 1..Len(s) : s[i] \in A
  OBVIOUS
<1> DEFINE picked(n) == {s[i] : i \in I \cap (1..n)}
           M == {n \in 0..Len(s) : f[n] \in Seq(A) /\ ToSet(f[n]) = picked(n)}
<1>3. 0 \in M
  <2>1. f[0] = <<>>
    BY <1>1 DEF KeptPrefixes
  <2>2. <<>> \in Seq(A) /\ ToSet(<<>>) = {} /\ 0 \in 0..Len(s)
    BY <1>2 DEF ToSet
  <2>3. picked(0) = {}
    OBVIOUS
  <2> HIDE DEF picked
  <2> QED BY <2>1, <2>2, <2>3
<1>4. ASSUME NEW n \in 1..Len(s), n - 1 \in M PROVE n \in M
  <2>1. f[n] = KeptStep(f[n - 1], n, s, I)
    BY <1>1 DEF KeptPrefixes
  <2>2. f[n - 1] \in Seq(A) /\ ToSet(f[n - 1]) = picked(n - 1)
    BY <1>4
  <2>3. CASE n \in I
    <3>1. picked(n) = picked(n - 1) \cup {s[n]}
      BY <2>3
    <3>2. /\ Append(f[n - 1], s[n]) \in Seq(A)
          /\ ToSet(Append(f[n - 1], s[n])) = ToSet(f[n - 1]) \cup {s[n]}
      BY <1>2, <2>2, Appended
    <3>3. f[n] = Append(f[n - 1], s[n])
      BY <2>1, <2>3 DEF KeptStep
    <3> HIDE DEF picked
    <3>4. f[n] \in Seq(A) /\ ToSet(f[n]) = picked(n) /\ n \in 0..Len(s)
      BY <1>2, <2>2, <3>1, <3>2, <3>3
    <3> QED BY <3>4
  <2>4. CASE n \notin I
    <3>1. picked(n) = picked(n - 1)
      BY <2>4
    <3> HIDE DEF picked
    <3> QED BY <2>1, <2>2, <2>4, <3>1 DEF KeptStep
  <2> QED BY <2>3, <2>4
<1>5. Len(s) \in M
  <2>1. \A n \in 1..Len(s) : n - 1 \in M => n \in M
    BY <1>4
  <2> HIDE DEF M
  <2> QED BY <1>2, <1>3, <2>1, UpTo
<1>6. f[Len(s)] \in Seq(A) /\ ToSet(f[Len(s)]) = picked(Len(s))
  BY <1>5
<1> QED BY <1>1, <1>2, <1>6

(* A filter that keeps every position keeps the sequence. *)
LEMMA KeptAll ==
    ASSUME NEW A, NEW s \in Seq(A), NEW I, DOMAIN s \subseteq I
    PROVE  Kept(s, I) = s
<1>1. PICK f : KeptPrefixes(f, s, I) /\ Kept(s, I) = f[Len(s)]
  BY KeptRecurs
<1>2. Len(s) \in Nat /\ DOMAIN s = 1..Len(s) /\ \A i \in 1..Len(s) : s[i] \in A
  OBVIOUS
<1> DEFINE Prefix(t, n) == t \in Seq(A) /\ Len(t) = n /\ \A i \in 1..n : t[i] = s[i]
           M == {n \in 0..Len(s) : Prefix(f[n], n)}
<1>3. 0 \in M
  <2>1. f[0] = <<>>
    BY <1>1 DEF KeptPrefixes
  <2>2. Prefix(<<>>, 0) /\ 0 \in 0..Len(s)
    BY <1>2
  <2> HIDE DEF Prefix
  <2> QED BY <2>1, <2>2
<1>4. ASSUME NEW n \in 1..Len(s), n - 1 \in M PROVE n \in M
  <2>1. f[n] = Append(f[n - 1], s[n])
    BY <1>1, <1>2 DEF KeptPrefixes, KeptStep
  <2>2. Prefix(f[n - 1], n - 1)
    BY <1>4
  <2>3. Prefix(f[n], n)
    <3>1. /\ Append(f[n - 1], s[n]) \in Seq(A)
          /\ Len(Append(f[n - 1], s[n])) = Len(f[n - 1]) + 1
          /\ \A i \in 1..Len(f[n - 1]) : Append(f[n - 1], s[n])[i] = f[n - 1][i]
          /\ Append(f[n - 1], s[n])[Len(f[n - 1]) + 1] = s[n]
      BY <1>2, <2>2, Appended
    <3>2. ASSUME NEW i \in 1..n PROVE f[n][i] = s[i]
      <4>1. CASE i \in 1..Len(f[n - 1])
        BY <2>1, <2>2, <3>1, <4>1
      <4>2. CASE i = Len(f[n - 1]) + 1
        BY <2>1, <2>2, <3>1, <4>2
      <4> QED BY <2>2, <4>1, <4>2
    <3> QED BY <2>1, <2>2, <3>1, <3>2
  <2> HIDE DEF Prefix
  <2> QED BY <2>3
<1>5. Len(s) \in M
  <2>1. \A n \in 1..Len(s) : n - 1 \in M => n \in M
    BY <1>4
  <2> HIDE DEF M
  <2> QED BY <1>2, <1>3, <2>1, UpTo
<1>6. Prefix(f[Len(s)], Len(s))
  BY <1>5
<1> QED BY <1>1, <1>2, <1>6

(* Paths that differ at the positions kept differ in what is kept. *)
DistinctPaths(ds) == \A i, j \in DOMAIN ds : i # j => ds[i].path # ds[j].path

LEMMA KeptDistinct ==
    ASSUME NEW A, NEW s \in Seq(A), NEW I,
           \A i, j \in I \cap DOMAIN s : i # j => s[i].path # s[j].path
    PROVE  DistinctPaths(Kept(s, I))
<1>1. PICK f : KeptPrefixes(f, s, I) /\ Kept(s, I) = f[Len(s)]
  BY KeptRecurs
<1>2. Len(s) \in Nat /\ DOMAIN s = 1..Len(s) /\ \A i \in 1..Len(s) : s[i] \in A
  OBVIOUS
<1> DEFINE Good(t, n) == /\ t \in Seq(A)
                         /\ DistinctPaths(t)
                         /\ \A k \in DOMAIN t : \E i \in I \cap (1..n) : t[k] = s[i]
           M == {n \in 0..Len(s) : Good(f[n], n)}
<1>3. 0 \in M
  <2>1. f[0] = <<>>
    BY <1>1 DEF KeptPrefixes
  <2>2. <<>> \in Seq(A) /\ DOMAIN <<>> = {} /\ 0 \in 0..Len(s)
    BY <1>2
  <2>3. Good(<<>>, 0)
    BY <2>2 DEF DistinctPaths
  <2> HIDE DEF Good
  <2> QED BY <2>1, <2>2, <2>3
<1>4. ASSUME NEW n \in 1..Len(s), n - 1 \in M PROVE n \in M
  <2> DEFINE t == f[n - 1]
  <2>1. f[n] = KeptStep(t, n, s, I)
    BY <1>1 DEF KeptPrefixes
  <2>2. Good(t, n - 1)
    BY <1>4
  <2> HIDE DEF t
  <2>3. CASE n \in I
    <3>1. /\ Append(t, s[n]) \in Seq(A)
          /\ Len(Append(t, s[n])) = Len(t) + 1
          /\ \A i \in 1..Len(t) : Append(t, s[n])[i] = t[i]
          /\ Append(t, s[n])[Len(t) + 1] = s[n]
          /\ Len(t) \in Nat /\ DOMAIN t = 1..Len(t)
          /\ DOMAIN Append(t, s[n]) = 1..(Len(t) + 1)
      BY <1>2, <2>2, Appended
    <3>2. ASSUME NEW k \in 1..Len(t) PROVE t[k].path # s[n].path
      <4>1. PICK i \in I \cap (1..(n - 1)) : t[k] = s[i]
        BY <2>2, <3>1
      <4> QED BY <1>2, <2>3, <4>1
    <3>3. DistinctPaths(Append(t, s[n]))
      <4>1. ASSUME NEW i \in 1..(Len(t) + 1), NEW j \in 1..(Len(t) + 1), i # j
            PROVE  Append(t, s[n])[i].path # Append(t, s[n])[j].path
        <5>1. CASE i \in 1..Len(t) /\ j \in 1..Len(t)
          BY <2>2, <3>1, <4>1, <5>1 DEF DistinctPaths
        <5>2. CASE i = Len(t) + 1
          BY <3>1, <3>2, <4>1, <5>2
        <5>3. CASE j = Len(t) + 1
          BY <3>1, <3>2, <4>1, <5>3
        <5> QED BY <3>1, <5>1, <5>2, <5>3
      <4> QED BY <3>1, <4>1 DEF DistinctPaths
    <3>4. ASSUME NEW k \in 1..(Len(t) + 1)
          PROVE  \E i \in I \cap (1..n) : Append(t, s[n])[k] = s[i]
      <4>1. CASE k \in 1..Len(t)
        <5>1. PICK i \in I \cap (1..(n - 1)) : t[k] = s[i]
          BY <2>2, <3>1, <4>1
        <5>2. i \in I \cap (1..n)
          BY <5>1
        <5> QED BY <3>1, <4>1, <5>1, <5>2
      <4>2. CASE k = Len(t) + 1
        BY <2>3, <3>1, <4>2
      <4> QED BY <3>1, <4>1, <4>2
    <3>5. f[n] = Append(t, s[n])
      BY <2>1, <2>3 DEF KeptStep
    <3>6. Good(Append(t, s[n]), n)
      BY <3>1, <3>3, <3>4
    <3> HIDE DEF Good
    <3>7. Good(f[n], n) /\ n \in 0..Len(s)
      BY <1>2, <3>5, <3>6
    <3> QED BY <3>7
  <2>4. CASE n \notin I
    <3>1. f[n] = t
      BY <2>1, <2>4 DEF KeptStep
    <3>2. \A k \in DOMAIN t : \E i \in I \cap (1..n) : t[k] = s[i]
      <4>1. 1..(n - 1) \subseteq 1..n
        OBVIOUS
      <4> QED BY <2>2, <4>1
    <3>3. Good(t, n) /\ n \in 0..Len(s)
      BY <1>2, <2>2, <3>2
    <3> HIDE DEF Good
    <3> QED BY <3>1, <3>3
  <2> QED BY <2>3, <2>4
<1>5. Len(s) \in M
  <2>1. \A n \in 1..Len(s) : n - 1 \in M => n \in M
    BY <1>4
  <2> HIDE DEF M
  <2> QED BY <1>2, <1>3, <2>1, UpTo
<1>6. Good(f[Len(s)], Len(s))
  BY <1>5
<1> QED BY <1>1, <1>6

-----------------------------------------------------------------------------
(* Sorting and summing. *)

LEMMA Joined ==
    ASSUME NEW A, NEW a \in Seq(A), NEW d \in A, NEW b \in Seq(A)
    PROVE  LET r == a \o <<d>> \o b IN
           /\ r \in Seq(A)
           /\ Len(r) = Len(a) + 1 + Len(b)
           /\ \A i \in 1..Len(a) : r[i] = a[i]
           /\ r[Len(a) + 1] = d
           /\ \A i \in 1..Len(b) : r[Len(a) + 1 + i] = b[i]
<1> DEFINE c == a \o <<d>>
<1>1. Len(a) \in Nat /\ Len(b) \in Nat /\ <<d>> \in Seq(A) /\ Len(<<d>>) = 1 /\ <<d>>[1] = d
  OBVIOUS
<1>2. /\ c \in Seq(A) /\ Len(c) = Len(a) + 1
      /\ \A i \in 1..Len(a) : c[i] = a[i]
      /\ c[Len(a) + 1] = d
  BY <1>1
<1> HIDE DEF c
<1>3. /\ c \o b \in Seq(A) /\ Len(c \o b) = Len(c) + Len(b)
      /\ \A i \in 1..Len(c) : (c \o b)[i] = c[i]
      /\ \A i \in 1..Len(b) : (c \o b)[Len(c) + i] = b[i]
  BY <1>1, <1>2
<1>4. /\ c \o b \in Seq(A)
      /\ Len(c \o b) = Len(a) + 1 + Len(b)
      /\ \A i \in 1..Len(a) : (c \o b)[i] = a[i]
      /\ (c \o b)[Len(a) + 1] = d
      /\ \A i \in 1..Len(b) : (c \o b)[Len(a) + 1 + i] = b[i]
  BY <1>1, <1>2, <1>3
<1> QED BY <1>4 DEF c

LEMMA KeptOfDistinct ==
    ASSUME NEW A, NEW s \in Seq(A), DistinctPaths(s), NEW I
    PROVE  /\ Kept(s, I) \in Seq(A)
           /\ DistinctPaths(Kept(s, I))
           /\ \A e \in ToSet(Kept(s, I)) : \E i \in I : e = s[i]
<1>1. Kept(s, I) \in Seq(A) /\ ToSet(Kept(s, I)) = {s[i] : i \in I \cap DOMAIN s}
  BY KeptElements
<1>2. \A i, j \in I \cap DOMAIN s : i # j => s[i].path # s[j].path
  BY DEF DistinctPaths
<1>3. DistinctPaths(Kept(s, I))
  BY <1>2, KeptDistinct
<1> QED BY <1>1, <1>3

(* An inserted disk has a path of its own: the one there was under it is gone. *)
LEMMA InsertedDistinct ==
    ASSUME NEW A, \A e \in A : e.path \in Nat,
           NEW ds \in Seq(A), DistinctPaths(ds), NEW d \in A
    PROVE  Inserted(ds, d) \in Seq(A) /\ DistinctPaths(Inserted(ds, d))
<1> DEFINE before == {i \in DOMAIN ds : ds[i].path < d.path}
           after == {i \in DOMAIN ds : d.path < ds[i].path}
           a == Kept(ds, before)
           b == Kept(ds, after)
           r == a \o <<d>> \o b
<1>1. a \in Seq(A) /\ DistinctPaths(a) /\ \A e \in ToSet(a) : e.path < d.path
  <2>1. \A i \in before : ds[i].path < d.path
    OBVIOUS
  <2> HIDE DEF before
  <2> QED BY <2>1, KeptOfDistinct
<1>2. b \in Seq(A) /\ DistinctPaths(b) /\ \A e \in ToSet(b) : d.path < e.path
  <2>1. \A i \in after : d.path < ds[i].path
    OBVIOUS
  <2> HIDE DEF after
  <2> QED BY <2>1, KeptOfDistinct
<1>3. Inserted(ds, d) = r
  BY DEF Inserted
<1> HIDE DEF a, b
<1>4. /\ r \in Seq(A)
      /\ Len(r) = Len(a) + 1 + Len(b)
      /\ \A i \in 1..Len(a) : r[i] = a[i]
      /\ r[Len(a) + 1] = d
      /\ \A i \in 1..Len(b) : r[Len(a) + 1 + i] = b[i]
  BY <1>1, <1>2, Joined
<1> HIDE DEF r
<1>5. /\ Len(a) \in Nat /\ DOMAIN a = 1..Len(a) /\ ToSet(a) = {a[i] : i \in 1..Len(a)}
      /\ Len(b) \in Nat /\ DOMAIN b = 1..Len(b) /\ ToSet(b) = {b[i] : i \in 1..Len(b)}
      /\ Len(r) \in Nat /\ DOMAIN r = 1..Len(r)
  BY <1>1, <1>2, <1>4, Elements
<1>6. /\ d.path \in Nat
      /\ \A i \in 1..Len(a) : a[i].path \in Nat /\ a[i].path < d.path
      /\ \A i \in 1..Len(b) : b[i].path \in Nat /\ d.path < b[i].path
  BY <1>1, <1>2, <1>5
(* The three parts of r. *)
<1> DEFINE low == 1..Len(a)
           high == (Len(a) + 2)..Len(r)
<1>7. DOMAIN r = low \cup {Len(a) + 1} \cup high
  BY <1>4, <1>5
<1>8. \A i \in low : r[i].path \in Nat /\ r[i].path < d.path
  BY <1>4, <1>6
<1>9. \A i \in high : i - (Len(a) + 1) \in 1..Len(b) /\ r[i] = b[i - (Len(a) + 1)]
  <2> SUFFICES ASSUME NEW i \in high
               PROVE  i - (Len(a) + 1) \in 1..Len(b) /\ r[i] = b[i - (Len(a) + 1)]
    OBVIOUS
  <2>1. i - (Len(a) + 1) \in 1..Len(b)
    BY <1>4, <1>5
  <2>2. r[Len(a) + 1 + (i - (Len(a) + 1))] = b[i - (Len(a) + 1)]
    BY <1>4, <2>1
  <2>3. Len(a) + 1 + (i - (Len(a) + 1)) = i
    BY <1>5
  <2> QED BY <2>1, <2>2, <2>3
<1>10. \A i \in high : r[i].path \in Nat /\ d.path < r[i].path
  BY <1>6, <1>9
<1>11. \A i, j \in low : i # j => r[i].path # r[j].path
  BY <1>1, <1>4, <1>5 DEF DistinctPaths
<1>12. \A i, j \in high : i # j => r[i].path # r[j].path
  <2> SUFFICES ASSUME NEW i \in high, NEW j \in high, i # j PROVE r[i].path # r[j].path
    OBVIOUS
  <2>1. i - (Len(a) + 1) # j - (Len(a) + 1)
    BY <1>5
  <2>2. \A k, l \in 1..Len(b) : k # l => b[k].path # b[l].path
    BY <1>2, <1>5 DEF DistinctPaths
  <2> QED BY <1>9, <2>1, <2>2
<1>13. DistinctPaths(r)
  <2> SUFFICES ASSUME NEW i \in DOMAIN r, NEW j \in DOMAIN r, i # j
               PROVE  r[i].path # r[j].path
    BY DEF DistinctPaths
  <2> HIDE DEF low, high
  <2>1. CASE i \in low /\ j \in low
    BY <1>11, <2>1
  <2>2. CASE i \in high /\ j \in high
    BY <1>12, <2>2
  <2>3. CASE i \in low /\ j \notin low
    BY <1>4, <1>6, <1>7, <1>8, <1>10, <2>3
  <2>4. CASE i = Len(a) + 1 /\ j # i
    BY <1>4, <1>6, <1>7, <1>8, <1>10, <2>4
  <2>5. CASE i \in high /\ j \notin high
    BY <1>4, <1>6, <1>7, <1>8, <1>10, <2>5
  <2> QED BY <1>7, <2>1, <2>2, <2>3, <2>4, <2>5
<1> QED BY <1>3, <1>4, <1>13

LEMMA SortedListing ==
    ASSUME NEW A, \A e \in A : e.path \in Nat, NEW ds \in Seq(A)
    PROVE  Sorted(ds) \in Seq(A) /\ DistinctPaths(Sorted(ds))
<1> DEFINE V == {t \in Seq(A) : DistinctPaths(t)}
           top == Len(ds)
           Rec(f) == [n \in 0..top |-> IF n = 0 THEN <<>> ELSE Inserted(f[n - 1], ds[n])]
           step == [n \in 1..top |-> [t \in V |-> Inserted(t, ds[n])]]
           upTo == CHOOSE f : f = Rec(f)
<1>1. top \in Nat /\ \A n \in 1..top : ds[n] \in A
  OBVIOUS
<1>2. Steps(step, top, V)
  <2>1. ASSUME NEW n \in 1..top, NEW t \in V PROVE Inserted(t, ds[n]) \in V
    BY <1>1, InsertedDistinct
  <2> HIDE DEF V
  <2> QED BY <2>1 DEF Steps
<1>3. <<>> \in V
  BY DEF DistinctPaths
<1>4. Sorted(ds) = upTo[top]
  BY DEF Sorted
<1> HIDE DEF V, top
<1>5. PICK f : Solves(f, step, <<>>, top, V)
  <2> HIDE DEF step
  <2> QED BY <1>1, <1>2, <1>3, Recursion
<1>6. f = Rec(f)
  <2>1. ASSUME NEW n \in 0..top PROVE f[n] = Rec(f)[n]
    <3>1. CASE n = 0
      BY <1>5, <3>1 DEF Solves
    <3>2. CASE n # 0
      <4>1. n \in 1..top /\ f[n - 1] \in V
        BY <1>1, <1>5, <3>2 DEF Solves
      <4>2. step[n][f[n - 1]] = Inserted(f[n - 1], ds[n])
        BY <4>1
      <4> QED BY <1>5, <3>2, <4>1, <4>2 DEF Solves
    <3> QED BY <3>1, <3>2
  <2>2. f = [n \in 0..top |-> f[n]]
    BY <1>5 DEF Solves
  <2> QED BY <2>1, <2>2
<1>7. upTo = Rec(upTo)
  BY <1>6
<1> HIDE DEF upTo
<1> DEFINE M == {n \in 0..top : upTo[n] \in V}
<1>8. 0 \in M
  <2>1. 0 \in 0..top
    BY <1>1
  <2>2. Rec(upTo)[0] = <<>>
    BY <2>1
  <2> QED BY <1>3, <1>7, <2>1, <2>2
<1>9. ASSUME NEW n \in 1..top, n - 1 \in M PROVE n \in M
  <2>1. n \in 0..top /\ n # 0
    BY <1>1
  <2>2. Rec(upTo)[n] = Inserted(upTo[n - 1], ds[n])
    BY <2>1
  <2>3. Inserted(upTo[n - 1], ds[n]) \in V
    BY <1>1, <1>9, InsertedDistinct DEF V
  <2> QED BY <1>7, <2>1, <2>2, <2>3
<1>10. top \in M
  <2>1. \A n \in 1..top : n - 1 \in M => n \in M
    BY <1>9
  <2> HIDE DEF M
  <2> QED BY <1>1, <1>8, <2>1, UpTo
<1>11. upTo[top] \in V
  BY <1>10
<1> QED BY <1>4, <1>11 DEF V

(* The sum of sizes that are none of them below a bound. *)
LEMMA RawIsAtLeast ==
    ASSUME NEW A, \A e \in A : e.sizeBytes \in Nat, NEW ds \in Seq(A),
           NEW m \in Nat, \A i \in DOMAIN ds : m <= ds[i].sizeBytes
    PROVE  RawBytes(ds) \in Nat /\ Len(ds) * m <= RawBytes(ds)
<1> DEFINE top == Len(ds)
           Rec(f) == [n \in 0..top |-> IF n = 0 THEN 0 ELSE f[n - 1] + ds[n].sizeBytes]
           step == [n \in 1..top |-> [v \in Nat |-> v + ds[n].sizeBytes]]
           total == CHOOSE f : f = Rec(f)
<1>1. /\ top \in Nat
      /\ \A n \in 1..top : ds[n].sizeBytes \in Nat /\ m <= ds[n].sizeBytes
  OBVIOUS
<1>2. RawBytes(ds) = total[top]
  BY DEF RawBytes
<1> HIDE DEF top
<1>3. Steps(step, top, Nat)
  <2>1. ASSUME NEW n \in 1..top, NEW v \in Nat PROVE v + ds[n].sizeBytes \in Nat
    BY <1>1
  <2> QED BY <2>1 DEF Steps
<1>4. PICK f : Solves(f, step, 0, top, Nat)
  <2> HIDE DEF step
  <2> QED BY <1>1, <1>3, Recursion
<1>5. f = Rec(f)
  <2>1. ASSUME NEW n \in 0..top PROVE f[n] = Rec(f)[n]
    <3>1. CASE n = 0
      BY <1>4, <3>1 DEF Solves
    <3>2. CASE n # 0
      <4>1. n \in 1..top /\ f[n - 1] \in Nat
        BY <1>1, <1>4, <3>2 DEF Solves
      <4>2. step[n][f[n - 1]] = f[n - 1] + ds[n].sizeBytes
        BY <4>1
      <4> QED BY <1>4, <3>2, <4>1, <4>2 DEF Solves
    <3> QED BY <3>1, <3>2
  <2>2. f = [n \in 0..top |-> f[n]]
    BY <1>4 DEF Solves
  <2> QED BY <2>1, <2>2
<1>6. total = Rec(total)
  BY <1>5
<1> HIDE DEF total
<1> DEFINE M == {n \in 0..top : total[n] \in Nat /\ n * m <= total[n]}
<1>7. 0 \in M
  <2>1. 0 \in 0..top
    BY <1>1
  <2>2. Rec(total)[0] = 0
    BY <2>1
  <2>3. 0 * m = 0
    OBVIOUS
  <2> QED BY <1>6, <2>1, <2>2, <2>3
<1>8. ASSUME NEW n \in 1..top, n - 1 \in M PROVE n \in M
  <2>1. n \in 0..top /\ n # 0
    BY <1>1
  <2>2. Rec(total)[n] = total[n - 1] + ds[n].sizeBytes
    BY <2>1
  <2>3. total[n - 1] \in Nat /\ (n - 1) * m <= total[n - 1]
    BY <1>8
  <2>4. n * m = (n - 1) * m + m /\ (n - 1) * m \in Int
    BY <2>1
  <2>5. total[n] \in Nat /\ n * m <= total[n]
    <3>1. total[n] = total[n - 1] + ds[n].sizeBytes
      BY <1>6, <2>2
    <3> QED BY <1>1, <2>3, <2>4, <3>1
  <2> QED BY <2>1, <2>5
<1>9. top \in M
  <2>1. \A n \in 1..top : n - 1 \in M => n \in M
    BY <1>8
  <2> HIDE DEF M
  <2> QED BY <1>1, <1>7, <2>1, UpTo
<1>10. total[top] \in Nat /\ top * m <= total[top]
  BY <1>9
<1> QED BY <1>2, <1>10 DEF top

-----------------------------------------------------------------------------
(* The inventory and what is selected from it. *)

Listing(inventory) ==
    /\ IsSeq(inventory)
    /\ DistinctPaths(inventory)
    /\ \A d \in ToSet(inventory) :
         /\ {"path", "sizeBytes", "verdict"} \subseteq DOMAIN d
         /\ d.path \in Nat \ {NoDisk}
         /\ d.verdict \in {"eligible", "ineligible"}

(* Whatever the daemon sends, the page lists every path once. *)
LEMMA AnswerIsListing ==
    ASSUME NEW payload \in Payloads PROVE Listing(NormalizeDiskInventory(payload))
<1> DEFINE ds == [i \in DOMAIN payload |-> NormalizeDiskRecord(payload[i])]
           A == {d \in ToSet(ds) : d.path # NoDisk}
           first == {i \in DOMAIN ds : /\ ds[i].path # NoDisk
                                       /\ \A j \in 1..(i - 1) : ds[j].path # ds[i].path}
           listed == UniqueByPath(ds)
<1>1. /\ Len(payload) \in Nat /\ DOMAIN payload = 1..Len(payload)
      /\ \A i \in 1..Len(payload) :
           payload[i].path \in Nat /\ payload[i].verdict \in {"eligible", "ineligible"}
  <2>1. /\ payload \in Seq(ToSet(payload))
        /\ \A i \in DOMAIN payload :
             payload[i].path \in Nat /\ payload[i].verdict \in {"eligible", "ineligible"}
    BY PayloadsAssumption
  <2>2. Len(payload) \in Nat /\ DOMAIN payload = 1..Len(payload)
    BY <2>1, Elements
  <2> QED BY <2>1, <2>2
<1>2. DOMAIN ds = 1..Len(payload) /\ ds \in Seq(ToSet(ds))
  BY <1>1 DEF ToSet
<1>3. \A d \in ToSet(ds) : /\ {"path", "sizeBytes", "verdict"} \subseteq DOMAIN d
                           /\ d.path \in Nat
                           /\ d.verdict \in {"eligible", "ineligible"}
  BY <1>1, <1>2 DEF ToSet, NormalizeDiskRecord
<1> HIDE DEF ds
<1>4. listed = Kept(ds, first)
  BY DEF UniqueByPath
<1>5. \A i, j \in first \cap DOMAIN ds : i # j => ds[i].path # ds[j].path
  <2> SUFFICES ASSUME NEW i \in first, NEW j \in first, i < j PROVE ds[i].path # ds[j].path
    BY <1>1, <1>2
  <2>1. i \in 1..(j - 1)
    BY <1>1, <1>2
  <2> QED BY <2>1
<1>6. \A i \in first : ds[i].path # NoDisk
  OBVIOUS
<1> HIDE DEF listed, first
<1>7. /\ listed \in Seq(ToSet(ds))
      /\ DistinctPaths(listed)
      /\ ToSet(listed) = {ds[i] : i \in first \cap DOMAIN ds}
  BY <1>2, <1>4, <1>5, KeptElements, KeptDistinct
<1>8. ToSet(listed) \subseteq A
  BY <1>6, <1>7 DEF ToSet
<1>9. listed \in Seq(A)
  <2>1. /\ Len(listed) \in Nat /\ DOMAIN listed = 1..Len(listed)
        /\ IsSeq(listed)
    BY <1>7, Elements
  <2> QED BY <1>8, <2>1 DEF IsSeq
<1>10. Sorted(listed) \in Seq(A) /\ DistinctPaths(Sorted(listed))
  <2>1. \A d \in A : d.path \in Nat
    BY <1>3
  <2> HIDE DEF A
  <2> QED BY <1>9, <2>1, SortedListing
<1>11. NormalizeDiskInventory(payload) = Sorted(listed)
  BY DEF NormalizeDiskInventory, listed, ds
<1>12. ToSet(Sorted(listed)) \subseteq A /\ IsSeq(Sorted(listed))
  <2> HIDE DEF A
  <2> QED BY <1>10, Elements
<1> QED BY <1>3, <1>10, <1>11, <1>12 DEF Listing

LEMMA EligibleListed ==
    ASSUME NEW inventory, IsSeq(inventory)
    PROVE  /\ EligibleDisks(inventory) \in Seq(ToSet(inventory))
           /\ ToSet(EligibleDisks(inventory)) = {d \in ToSet(inventory) : IsEligible(d)}
<1> DEFINE I == {i \in DOMAIN inventory : IsEligible(inventory[i])}
<1>1. EligibleDisks(inventory) = Kept(inventory, I)
  BY DEF EligibleDisks
<1>2. inventory \in Seq(ToSet(inventory))
  BY DEF IsSeq
<1>3. {inventory[i] : i \in I \cap DOMAIN inventory} = {d \in ToSet(inventory) : IsEligible(d)}
  BY DEF ToSet
<1> HIDE DEF I
<1> QED BY <1>1, <1>2, <1>3, KeptElements

LEMMA HeadIsElement ==
    ASSUME NEW A, NEW s \in Seq(A), s # <<>>
    PROVE  Head(s) \in ToSet(s)
<1>1. 1 \in DOMAIN s /\ Head(s) = s[1]
  OBVIOUS
<1> QED BY <1>1 DEF ToSet

LEMMA FirstIsEligible ==
    ASSUME NEW inventory, IsSeq(inventory)
    PROVE  FirstEligible([inventory |-> inventory]) \in EligiblePaths(inventory) \cup {NoDisk}
<1> DEFINE E == EligibleDisks(inventory)
<1>1. E \in Seq(ToSet(inventory))
  BY EligibleListed
<1>2. FirstEligible([inventory |-> inventory]) = IF E = <<>> THEN NoDisk ELSE Head(E).path
  BY DEF FirstEligible
<1>3. EligiblePaths(inventory) = {d.path : d \in ToSet(E)}
  BY DEF EligiblePaths, Paths
<1> HIDE DEF E
<1> QED BY <1>1, <1>2, <1>3, HeadIsElement

Selection(w) == {w.sysDisk, w.dataDisk} \cup ToSet(w.selectedDisks)

LEMMA KeptPaths ==
    ASSUME NEW s, IsSeq(s), NEW P
    PROVE  LET t == Kept(s, {i \in DOMAIN s : s[i] \in P})
           IN  IsSeq(t) /\ ToSet(t) = ToSet(s) \cap P
<1> DEFINE I == {i \in DOMAIN s : s[i] \in P}
<1>1. s \in Seq(ToSet(s))
  BY DEF IsSeq
<1>2. {s[i] : i \in I \cap DOMAIN s} = ToSet(s) \cap P
  BY DEF ToSet
<1> HIDE DEF I
<1>3. Kept(s, I) \in Seq(ToSet(s)) /\ ToSet(Kept(s, I)) = ToSet(s) \cap P
  BY <1>1, <1>2, KeptElements
<1>4. IsSeq(Kept(s, I))
  BY <1>3, Elements
<1> QED BY <1>3, <1>4 DEF I

(* After an answer nothing is selected that it does not offer. *)
LEMMA AutoFixSelects ==
    ASSUME NEW w, NEW inventory, IsSeq(inventory), inventory # <<>>,
           {"sysDisk", "dataDisk", "selectedDisks"} \subseteq DOMAIN w, IsSeq(w.selectedDisks)
    PROVE  /\ Selection(AutoFix(w, inventory)) \subseteq EligiblePaths(inventory) \cup {NoDisk}
           /\ IsSeq(AutoFix(w, inventory).selectedDisks)
           /\ DOMAIN AutoFix(w, inventory) = DOMAIN w
<1> DEFINE eligible == EligiblePaths(inventory)
           first    == FirstEligible([inventory |-> inventory])
           fixSys   == \/ w.storageMode = "automatic" /\ w.sysDisk = NoDisk /\ first # NoDisk
                       \/ w.sysDisk # NoDisk /\ w.sysDisk \notin eligible
           fixData  == w.dataDisk # NoDisk /\ w.dataDisk \notin eligible
           fixRaid  == ~(ToSet(w.selectedDisks) \subseteq eligible)
           sysDisk  == IF fixSys THEN first ELSE w.sysDisk
           listed   == EligibleDisks(inventory)
           others   == Kept(listed, {i \in DOMAIN listed : listed[i].path # sysDisk})
           dataDisk == IF ~fixData THEN w.dataDisk
                       ELSE IF others = <<>> THEN NoDisk ELSE Head(others).path
           kept     == Kept(w.selectedDisks,
                            {i \in DOMAIN w.selectedDisks : w.selectedDisks[i] \in eligible})
           selected == IF fixRaid THEN kept
                       ELSE IF fixSys /\ w.storageMode = "automatic"
                            THEN (IF first = NoDisk THEN <<>> ELSE <<first>>)
                       ELSE w.selectedDisks
           x == AutoFix(w, inventory)
<1>1. /\ x.sysDisk = sysDisk /\ x.dataDisk = dataDisk /\ x.selectedDisks = selected
      /\ DOMAIN x = DOMAIN w
  BY DEF AutoFix
<1>2. first \in eligible \cup {NoDisk}
  BY FirstIsEligible
<1>3. listed \in Seq(ToSet(inventory)) /\ eligible = {d.path : d \in ToSet(listed)}
  BY EligibleListed DEF EligiblePaths, Paths
<1>4. others \in Seq(ToSet(inventory)) /\ ToSet(others) \subseteq ToSet(listed)
  <2> DEFINE I == {i \in DOMAIN listed : listed[i].path # sysDisk}
  <2>1. others = Kept(listed, I)
    OBVIOUS
  <2> HIDE DEF I, listed, others
  <2>2. /\ others \in Seq(ToSet(inventory))
        /\ ToSet(others) = {listed[i] : i \in I \cap DOMAIN listed}
    BY <1>3, <2>1, KeptElements
  <2> QED BY <2>2 DEF ToSet
<1>5. IsSeq(kept) /\ ToSet(kept) = ToSet(w.selectedDisks) \cap eligible
  <2> HIDE DEF eligible
  <2> QED BY KeptPaths
<1> HIDE DEF eligible, first, listed, others, kept, x
<1>6. sysDisk \in eligible \cup {NoDisk}
  BY <1>2
<1>7. dataDisk \in eligible \cup {NoDisk}
  <2>1. others # <<>> => Head(others) \in ToSet(others)
    BY <1>4, HeadIsElement
  <2> QED BY <1>3, <1>4, <2>1
<1>8. IsSeq(selected) /\ ToSet(selected) \subseteq eligible \cup {NoDisk}
  <2>1. IsSeq(<<>>) /\ ToSet(<<>>) = {} /\ IsSeq(<<first>>) /\ ToSet(<<first>>) = {first}
    BY DEF IsSeq, ToSet
  <2> QED BY <1>2, <1>5, <2>1
<1> HIDE DEF sysDisk, dataDisk, selected
<1> QED BY <1>1, <1>6, <1>7, <1>8 DEF Selection, x, eligible

(* A card is an eligible disk of the inventory. *)
LEMMA CardIsEligible ==
    ASSUME IsSeq(disks.inventory), draft.storageMode = "automatic", NEW p \in Cards
    PROVE  p \in Eligible(disks) /\ disks.inventory # <<>>
<1> DEFINE inventory == disks.inventory
           E == EligibleDisks(inventory)
<1>1. /\ E \in Seq(ToSet(inventory))
      /\ ToSet(E) = {d \in ToSet(inventory) : IsEligible(d)}
  BY EligibleListed
<1>2. Len(E) \in Nat /\ DOMAIN E = 1..Len(E)
  BY <1>1
<1>3. Eligible(disks) = {d.path : d \in ToSet(E)}
  BY DEF Eligible, EligiblePaths, Paths
<1>4. ASSUME ShownTopology(draft, disks) = "raid" PROVE 3 <= Len(E)
  BY <1>4, <1>2 DEF ShownTopology, DetectTopology
<1>5. ASSUME 3 <= Len(E) PROVE ToSet(SubSeq(E, 1, 2)) \subseteq ToSet(E)
  <2> DEFINE t == SubSeq(E, 1, 2)
  <2>1. DOMAIN t = 1..2 /\ t[1] = E[1] /\ t[2] = E[2]
    BY <1>1, <1>2, <1>5
  <2>2. {1, 2} \subseteq DOMAIN E /\ 1..2 = {1, 2}
    BY <1>2, <1>5
  <2> HIDE DEF t, E
  <2> QED BY <2>1, <2>2 DEF ToSet
<1>6. p \in Eligible(disks)
  <2>1. CASE ShownTopology(draft, disks) = "raid"
    BY <1>3, <1>4, <1>5, <2>1 DEF Cards, RaidCards, Paths
  <2>2. CASE ShownTopology(draft, disks) # "raid"
    BY <1>3, <2>2 DEF Cards, EveryCard, Paths
  <2> QED BY <2>1, <2>2
<1>7. inventory # <<>>
  <2>1. ToSet(<<>>) = {}
    BY DEF ToSet
  <2> QED BY <1>1, <1>3, <1>6, <2>1
<1> QED BY <1>6, <1>7

LEMMA FilledPaths ==
    ASSUME NEW p, NEW q
    PROVE  IsSeq(Filled(<<p, q>>)) /\ ToSet(Filled(<<p, q>>)) \subseteq {p, q}
<1> DEFINE s == <<p, q>>
           I == {i \in DOMAIN s : s[i] # NoDisk}
<1>1. s \in Seq({p, q})
  OBVIOUS
<1>2. Filled(s) = Kept(s, I)
  BY DEF Filled
<1> HIDE DEF s, I
<1>3. Filled(s) \in Seq({p, q})
  BY <1>1, <1>2, KeptElements
<1> QED BY <1>3, Elements DEF s

(* A click selects the card's disk and disks that were selected before. *)
LEMMA PickSelects ==
    ASSUME Fields, NEW p, IsSeq(draft.selectedDisks)
    PROVE  LET w == Patched(draft, PickDiskPatch(p)) IN
           /\ Selection(w) \subseteq Selection(draft) \cup {p}
           /\ IsSeq(w.selectedDisks)
<1> DEFINE w == Patched(draft, PickDiskPatch(p))
<1>1. {"sysDisk", "dataDisk", "selectedDisks"} \subseteq DOMAIN draft
  BY DiskFields DEF Fields
<1>2. \A q, r : IsSeq(Filled(<<q, r>>)) /\ ToSet(Filled(<<q, r>>)) \subseteq {q, r}
  BY FilledPaths
<1>3. IsSeq(<<p>>) /\ ToSet(<<p>>) = {p}
  BY DEF IsSeq, ToSet
<1>4. ASSUME NEW patch, patch \in {AsSystemDisk(p), AsDataDisk(p)}
      PROVE  /\ Selection(Patched(draft, patch)) \subseteq Selection(draft) \cup {p}
             /\ IsSeq(Patched(draft, patch).selectedDisks)
  <2> DEFINE x == Patched(draft, patch)
  <2>1. CASE patch = AsSystemDisk(p)
    <3>1. CASE ShownTopology(draft, disks) = "split" /\ draft.dataDisk = p
      <4>1. patch = [sysDisk |-> p, dataDisk |-> draft.sysDisk,
                     selectedDisks |-> Filled(<<p, draft.sysDisk>>)]
        BY <2>1, <3>1 DEF AsSystemDisk
      <4>2. /\ x.sysDisk = p /\ x.dataDisk = draft.sysDisk
            /\ x.selectedDisks = Filled(<<p, draft.sysDisk>>)
        BY <1>1, <4>1 DEF Patched
      <4> HIDE DEF x
      <4> QED BY <1>2, <4>2 DEF Selection, x
    <3>2. CASE ~(ShownTopology(draft, disks) = "split" /\ draft.dataDisk = p)
      <4>1. patch = [sysDisk |-> p, selectedDisks |-> <<p>>]
        BY <2>1, <3>2 DEF AsSystemDisk
      <4>2. x.sysDisk = p /\ x.dataDisk = draft.dataDisk /\ x.selectedDisks = <<p>>
        BY <1>1, <4>1 DEF Patched
      <4> HIDE DEF x
      <4> QED BY <1>3, <4>2 DEF Selection, x
    <3> QED BY <3>1, <3>2
  <2>2. CASE patch = AsDataDisk(p)
    <3>1. CASE ShownTopology(draft, disks) = "split" /\ draft.sysDisk = p
      <4>1. patch = [sysDisk |-> draft.dataDisk, dataDisk |-> p,
                     selectedDisks |-> Filled(<<draft.dataDisk, p>>)]
        BY <2>2, <3>1 DEF AsDataDisk
      <4>2. /\ x.sysDisk = draft.dataDisk /\ x.dataDisk = p
            /\ x.selectedDisks = Filled(<<draft.dataDisk, p>>)
        BY <1>1, <4>1 DEF Patched
      <4> HIDE DEF x
      <4> QED BY <1>2, <4>2 DEF Selection, x
    <3>2. CASE ~(ShownTopology(draft, disks) = "split" /\ draft.sysDisk = p)
      <4>1. patch = [dataDisk |-> p, selectedDisks |-> Filled(<<draft.sysDisk, p>>)]
        BY <2>2, <3>2 DEF AsDataDisk
      <4>2. /\ x.sysDisk = draft.sysDisk /\ x.dataDisk = p
            /\ x.selectedDisks = Filled(<<draft.sysDisk, p>>)
        BY <1>1, <4>1 DEF Patched
      <4> HIDE DEF x
      <4> QED BY <1>2, <4>2 DEF Selection, x
    <3> QED BY <3>1, <3>2
  <2> QED BY <1>4, <2>1, <2>2
<1>5. PickDiskPatch(p) \in {AsSystemDisk(p), AsDataDisk(p)}
  BY DEF PickDiskPatch
<1> QED BY <1>4, <1>5

(* The inductive invariant: the inventory lists each path once, and as long as it
   is shown the selection is part of it; before, it is what an earlier one left. *)
SInv ==
    /\ Listing(disks.inventory)
    /\ IsSeq(draft.selectedDisks) /\ Selection(draft) \subseteq Nat
    /\ SelectionIsEligible

LEMMA EligibleNumbers ==
    ASSUME NEW inventory, Listing(inventory)
    PROVE  EligiblePaths(inventory) \subseteq Nat
<1>1. ToSet(EligibleDisks(inventory)) \subseteq ToSet(inventory)
  BY EligibleListed DEF Listing
<1>2. \A d \in ToSet(inventory) : d.path \in Nat
  BY DEF Listing
<1> QED BY <1>1, <1>2 DEF EligiblePaths, Paths

LEMMA InitSInv == Init => SInv
<1> SUFFICES ASSUME Init PROVE SInv
  OBVIOUS
<1>1. IsSeq(<<>>) /\ Listing(<<>>)
  BY DEF IsSeq, Listing, DistinctPaths, ToSet
<1>2. disks.inventory = <<>>
  BY DEF Init, UnmountedDisks
<1>3. draft.selectedDisks = <<>> /\ draft.sysDisk = 0 /\ draft.dataDisk = 0
  BY DEF Init, InitialDraft
<1>4. ToSet(<<>>) = {}
  BY DEF ToSet
<1> QED BY <1>1, <1>2, <1>3, <1>4 DEF SInv, SelectionIsEligible, Selection

(* What is neither picked nor listed anew stays as it was. *)
LEMMA SelectionKept ==
    ASSUME SInv, draft'.sysDisk = draft.sysDisk, draft'.dataDisk = draft.dataDisk,
           draft'.selectedDisks = draft.selectedDisks, disks'.inventory = disks.inventory,
           Loaded(disks)' => Loaded(disks)
    PROVE  SInv'
BY DEF SInv, SelectionIsEligible, Eligible, Selection

(* As long as nothing is listed, nothing is said of the selection. *)
LEMMA NothingListed ==
    ASSUME DInv, SInv, NEW d, ChangeDisks(<<>>, d), d.inventory = <<>>
    PROVE  SInv'
<1>1. {"sysDisk", "dataDisk", "selectedDisks"} \subseteq DOMAIN draft /\ DOMAIN << >> = {}
  BY DiskFields DEF DInv, Fields
<1>2. /\ disks'.inventory = <<>> /\ draft'.selectedDisks = draft.selectedDisks
      /\ draft'.sysDisk = draft.sysDisk /\ draft'.dataDisk = draft.dataDisk
  BY <1>1 DEF ChangeDisks, Patched
<1>3. Listing(<<>>)
  BY DEF IsSeq, Listing, DistinctPaths, ToSet
<1> QED BY <1>2, <1>3 DEF SInv, SelectionIsEligible, Selection

LEMMA StepKeepsSInv == ASSUME DInv, SInv, [Next]_diskVars PROVE SInv'
<1>1. /\ {"sysDisk", "dataDisk", "selectedDisks"} \subseteq DOMAIN draft
      /\ IsPage(disks)
  BY DiskFields DEF DInv, Fields
<1>2. ASSUME NEW patch, NEW d, ChangeDisks(patch, d),
             {"sysDisk", "dataDisk", "selectedDisks"} \cap DOMAIN patch = {}
      PROVE  /\ draft'.sysDisk = draft.sysDisk /\ draft'.dataDisk = draft.dataDisk
             /\ draft'.selectedDisks = draft.selectedDisks /\ disks' = d
  BY <1>1, <1>2 DEF ChangeDisks, Patched
<1>3. CASE ChooseTab
  <2>1. PICK mode : ChangeDisks([storageMode |-> mode], disks)
    BY <1>3 DEF ChooseTab
  <2> QED BY <1>2, <2>1, SelectionKept
<1>4. CASE ChooseFilesystem
  <2>1. \/ \E fs : ChangeDisks([rootFs |-> fs], disks)
        \/ \E fs : ChangeDisks([dataFs |-> fs], disks)
    BY <1>4 DEF ChooseFilesystem
  <2> QED BY <1>2, <2>1, SelectionKept
<1>5. CASE ToggleConfirm
  <2> DEFINE d == [disks EXCEPT !.confirmed = ~@]
  <2>1. ChangeDisks(<<>>, d)
    BY <1>5 DEF ToggleConfirm
  <2>2. d.inventory = disks.inventory /\ (Loaded(d) => Loaded(disks))
    BY <1>1 DEF Loaded, IsPage, PageFields
  <2> HIDE DEF d
  <2> QED BY <1>2, <2>1, <2>2, SelectionKept DEF Loaded
<1>6. CASE Reload
  <2> DEFINE d == [disks EXCEPT !.loading = TRUE]
  <2>1. ChangeDisks(<<>>, d)
    BY <1>6 DEF Reload
  <2>2. d.inventory = disks.inventory /\ ~Loaded(d)
    BY <1>1 DEF Loaded, IsPage, PageFields
  <2> HIDE DEF d
  <2> QED BY <1>2, <2>1, <2>2, SelectionKept DEF Loaded
<1>7. CASE Mount \/ DisksFail
  <2> DEFINE failed == [disks EXCEPT !.inventory = <<>>, !.loading = FALSE, !.error = TRUE]
  <2>1. ChangeDisks(<<>>, FreshDisks) \/ ChangeDisks(<<>>, failed)
    BY <1>7 DEF Mount, DisksFail
  <2>2. FreshDisks.inventory = <<>> /\ failed.inventory = <<>>
    BY <1>1 DEF FreshDisks, IsPage, PageFields
  <2> HIDE DEF failed
  <2> QED BY <2>1, <2>2, NothingListed
<1>8. CASE UnmountDisks
  <2>1. draft' = draft /\ disks' = LeavesDisks
    BY <1>8 DEF UnmountDisks
  <2>2. LeavesDisks.inventory = disks.inventory /\ ~Loaded(LeavesDisks)
    BY <1>1 DEF LeavesDisks, Loaded, IsPage, PageFields
  <2> QED BY <2>1, <2>2, SelectionKept DEF Loaded
<1>9. CASE DisksArrive
  <2>1. PICK payload \in Payloads :
          ChangeDisks(AutoFix(draft, NormalizeDiskInventory(payload)),
                      [disks EXCEPT !.inventory = NormalizeDiskInventory(payload),
                                    !.loading = FALSE])
    BY <1>9 DEF DisksArrive
  <2> DEFINE inventory == NormalizeDiskInventory(payload)
             x == AutoFix(draft, inventory)
  <2>2. Listing(inventory)
    BY AnswerIsListing
  <2> HIDE DEF inventory
  <2>3. disks'.inventory = inventory
    BY <1>1, <2>1 DEF ChangeDisks, IsPage, PageFields, inventory
  <2>4. draft' = Patched(draft, x)
    BY <2>1 DEF ChangeDisks, inventory
  <2>5. CASE inventory = <<>>
    <3>1. x = draft
      BY <2>5 DEF AutoFix
    <3>2. /\ draft'.selectedDisks = draft.selectedDisks
          /\ draft'.sysDisk = draft.sysDisk /\ draft'.dataDisk = draft.dataDisk
      BY <1>1, <2>4, <3>1 DEF Patched
    <3> QED BY <2>2, <2>3, <2>5, <3>2 DEF SInv, SelectionIsEligible, Selection
  <2>6. CASE inventory # <<>>
    <3>1. /\ Selection(x) \subseteq EligiblePaths(inventory) \cup {NoDisk}
          /\ IsSeq(x.selectedDisks)
          /\ DOMAIN x = DOMAIN draft
      BY <1>1, <2>2, <2>6, AutoFixSelects DEF SInv, Listing
    <3> HIDE DEF x
    <3>2. /\ draft'.sysDisk = x.sysDisk /\ draft'.dataDisk = x.dataDisk
          /\ draft'.selectedDisks = x.selectedDisks
      BY <1>1, <2>4, <3>1 DEF Patched
    <3>3. SelectionIsEligible'
      BY <2>3, <3>1, <3>2 DEF SelectionIsEligible, Selection, Eligible
    <3>4. (Selection(draft) \subseteq Nat)'
      BY <2>2, <3>1, <3>2, EligibleNumbers DEF Selection, NoDisk
    <3> QED BY <2>2, <2>3, <3>1, <3>2, <3>3, <3>4 DEF SInv
  <2> QED BY <2>5, <2>6
<1>10. CASE PickDisk
  <2>1. PICK p \in Cards : ChangeDisks(PickDiskPatch(p), disks)
    BY <1>10 DEF PickDisk
  <2>2. Loaded(disks) /\ draft.storageMode = "automatic"
    BY <1>10 DEF PickDisk
  <2>3. p \in Eligible(disks) /\ disks.inventory # <<>>
    BY <2>2, CardIsEligible DEF SInv, Listing
  <2> DEFINE w == Patched(draft, PickDiskPatch(p))
  <2>4. draft' = w /\ disks' = disks
    BY <2>1 DEF ChangeDisks
  <2>5. Selection(w) \subseteq Selection(draft) \cup {p} /\ IsSeq(w.selectedDisks)
    BY PickSelects DEF DInv, SInv
  <2> HIDE DEF w
  <2>6. Selection(draft) \subseteq Eligible(disks) \cup {NoDisk}
    BY <2>2, <2>3 DEF SInv, SelectionIsEligible, Selection
  <2>7. SelectionIsEligible'
    BY <2>3, <2>4, <2>5, <2>6 DEF SelectionIsEligible, Selection, Eligible
  <2>8. p \in Nat
    BY <2>3, EligibleNumbers DEF SInv, Eligible
  <2>9. (Selection(draft) \subseteq Nat)'
    BY <2>4, <2>5, <2>8 DEF SInv, Selection
  <2> QED BY <2>4, <2>5, <2>7, <2>9 DEF SInv
<1>11. CASE UNCHANGED diskVars
  BY <1>11 DEF diskVars, SInv, SelectionIsEligible, Loaded, Eligible, Selection
<1> QED BY <1>3, <1>4, <1>5, <1>6, <1>7, <1>8, <1>9, <1>10, <1>11 DEF Next, ByUser, ByPage

LEMMA SInvAlways == Spec => []SInv
BY InitSInv, StepKeepsSInv, InitDInv, StepKeepsDInv, PTL DEF Spec

(* As long as an inventory with something in it is shown, no part of the selection
   names a disk that is not in it or may not be installed on. *)
THEOREM SelectionStaysEligible == Spec => []SelectionIsEligible
<1>1. SInv => SelectionIsEligible
  BY DEF SInv
<1> QED BY <1>1, SInvAlways, PTL

-----------------------------------------------------------------------------
(* RAID offers, for any list of disks of known sizes. *)

Sized(ds) ==
    /\ IsSeq(ds) /\ ds # <<>> /\ DistinctPaths(ds)
    /\ \A d \in ToSet(ds) : d.path # NoDisk /\ d.sizeBytes \in Nat \ {0}

LEMMA SizedIsUnique == ASSUME NEW ds, Sized(ds) PROVE UniqueByPath(ds) = ds
<1> DEFINE first == {i \in DOMAIN ds : /\ ds[i].path # NoDisk
                                       /\ \A j \in 1..(i - 1) : ds[j].path # ds[i].path}
<1>1. ds \in Seq(ToSet(ds)) /\ Len(ds) \in Nat /\ DOMAIN ds = 1..Len(ds)
  BY Elements DEF Sized, IsSeq
<1>2. ASSUME NEW i \in DOMAIN ds PROVE i \in first
  <2>1. ds[i].path # NoDisk
    BY DEF Sized, ToSet
  <2>2. ASSUME NEW j \in 1..(i - 1) PROVE ds[j].path # ds[i].path
    <3>1. j \in DOMAIN ds /\ j # i
      BY <1>1
    <3> QED BY <3>1 DEF Sized, DistinctPaths
  <2> QED BY <2>1, <2>2
<1>3. DOMAIN ds \subseteq first
  BY <1>2
<1>4. UniqueByPath(ds) = Kept(ds, first)
  BY DEF UniqueByPath
<1> HIDE DEF first
<1> QED BY <1>1, <1>3, <1>4, KeptAll

LEMMA SmallestIsLeast ==
    ASSUME NEW ds, Sized(ds)
    PROVE  /\ SmallestDisk(ds) \in Nat
           /\ \A i \in DOMAIN ds : SmallestDisk(ds) <= ds[i].sizeBytes
<1> DEFINE sizes == KnownSizes(ds)
<1>1. ds \in Seq(ToSet(ds)) /\ Len(ds) \in Nat /\ DOMAIN ds = 1..Len(ds) /\ 1 \in DOMAIN ds
  <2>1. ds \in Seq(ToSet(ds)) /\ ds # <<>>
    BY DEF Sized, IsSeq
  <2> QED BY <2>1
<1>2. sizes = {d.sizeBytes : d \in ToSet(ds)} /\ sizes \subseteq Nat
  BY DEF KnownSizes, Sized
<1>3. \A i \in DOMAIN ds : ds[i].sizeBytes \in sizes
  BY <1>2 DEF ToSet
<1>4. sizes # {}
  BY <1>1, <1>3
<1> HIDE DEF sizes
<1>5. \E m \in sizes : \A k \in sizes : m <= k
  BY <1>2, <1>4, LeastNumber
<1>6. Min(sizes) \in sizes /\ \A k \in sizes : Min(sizes) <= k
  BY <1>5 DEF Min
<1>7. SmallestDisk(ds) = Min(sizes)
  BY <1>4 DEF SmallestDisk, sizes
<1> QED BY <1>2, <1>3, <1>6, <1>7

LEMMA Monotone ==
    ASSUME NEW a \in Nat, NEW b \in Nat, a <= b, NEW m \in Nat PROVE a * m <= b * m
<1>1. (b - a) * m \in Nat
  <2>1. b - a \in Nat
    OBVIOUS
  <2> QED BY <2>1
<1>2. b * m = a * m + (b - a) * m
  OBVIOUS
<1> QED BY <1>1, <1>2

(* A level that is offered has the members it needs, all eligible, and promises no
   more than is left after the losses it survives. *)
THEOREM OfferIsSound ==
    ASSUME NEW ds, Sized(ds), NEW level \in RaidLevels, RaidOptionEnabled(ds, level)
    PROVE  /\ Len(ds) >= RaidSpec[level].min
           /\ \A d \in ToSet(ds) : IsEligible(d)
           /\ UsableBytes(ds, level)
                <= RawBytes(ds) - Survives(level, Len(ds)) * SmallestDisk(ds)
<1> DEFINE count == Len(ds)
           m == SmallestDisk(ds)
           raw == RawBytes(ds)
<1>1. RaidBlockingReasons(ds, level) = {}
  BY SizedIsUnique DEF RaidOptionEnabled, RaidSelectionReasons
<1>2. "tooFew" \notin RaidBlockingReasons(ds, level) /\ "ineligible" \notin RaidBlockingReasons(ds, level)
  BY <1>1
<1>3. \A d \in ToSet(ds) : IsEligible(d)
  BY <1>2 DEF RaidBlockingReasons
<1>4. ~(count < RaidSpec[level].min)
  BY <1>2 DEF RaidBlockingReasons
<1>5. count \in Nat /\ m \in Nat /\ \A i \in DOMAIN ds : m <= ds[i].sizeBytes
  BY Elements, SmallestIsLeast DEF Sized, IsSeq
<1>6. raw \in Nat /\ count * m <= raw
  <2>1. ds \in Seq(ToSet(ds)) /\ \A d \in ToSet(ds) : d.sizeBytes \in Nat
    BY DEF Sized, IsSeq
  <2> QED BY <1>5, <2>1, RawIsAtLeast
<1>7. UsableBytes(ds, level) = RaidUsable(level, count, m)
  BY SizedIsUnique DEF UsableBytes
<1> HIDE DEF count, m, raw
<1>8. RaidSpec[level].min \in Nat /\ count >= RaidSpec[level].min
  <2>1. RaidSpec[level].min \in Nat
    BY DEF RaidSpec, RaidLevels
  <2> QED BY <1>4, <1>5, <2>1
<1>9. RaidUsable(level, count, m) <= raw - Survives(level, count) * m
  <2>1. CASE level = "raid0"
    BY <1>5, <1>6, <2>1 DEF RaidUsable, Survives
  <2>2. CASE level = "raid1"
    <3>1. count * m = m + (count - 1) * m /\ (count - 1) * m \in Int
      BY <1>5
    <3> QED BY <1>5, <1>6, <2>2, <3>1 DEF RaidUsable, Survives
  <2>3. CASE level = "raid5"
    <3>1. count > 0
      BY <1>5, <1>8, <2>3 DEF RaidSpec, RaidLevels
    <3>2. count * m = (count - 1) * m + m /\ (count - 1) * m \in Int /\ 1 * m = m
      BY <1>5
    <3> QED BY <1>5, <1>6, <2>3, <3>1, <3>2 DEF RaidUsable, Survives
  <2>4. CASE level = "raid10"
    <3>1. count >= 4
      BY <1>5, <1>8, <2>4 DEF RaidSpec, RaidLevels
    <3>2. count \div 2 \in Nat /\ count \div 2 <= count - 1 /\ count - 1 \in Nat
      BY <1>5, <3>1
    <3>3. (count \div 2) * m <= (count - 1) * m
      BY <1>5, <3>2, Monotone
    <3>4. count * m = (count - 1) * m + m /\ (count - 1) * m \in Int /\ 1 * m = m
          /\ (count \div 2) * m \in Int
      BY <1>5, <3>2
    <3> QED BY <1>5, <1>6, <2>4, <3>3, <3>4 DEF RaidUsable, Survives
  <2> QED BY <2>1, <2>2, <2>3, <2>4 DEF RaidLevels
<1> QED BY <1>3, <1>7, <1>8, <1>9 DEF count, m, raw

(* What is recommended is offered. *)
LEMMA RecommendedIsOffered ==
    ASSUME NEW ds, Sized(ds), RecommendedLevel(ds) # "single"
    PROVE  RaidOptionEnabled(ds, RecommendedLevel(ds))
<1> DEFINE order == PreferredOrder(Len(ds))
           I == {i \in DOMAIN order : RaidOptionEnabled(ds, order[i])}
           fitting == Kept(order, I)
<1>1. RecommendedLevel(ds) = IF fitting = <<>> THEN "single" ELSE Head(fitting)
  BY SizedIsUnique DEF RecommendedLevel
<1>2. order \in Seq(RaidLevels)
  <2>1. order \in {<<"raid10", "raid5", "raid1">>, <<"raid5", "raid1", "raid10">>,
                   <<"raid1">>, <<>>}
    BY DEF PreferredOrder
  <2>2. /\ <<"raid10", "raid5", "raid1">> \in Seq(RaidLevels)
        /\ <<"raid5", "raid1", "raid10">> \in Seq(RaidLevels)
        /\ <<"raid1">> \in Seq(RaidLevels)
        /\ <<>> \in Seq(RaidLevels)
    BY DEF RaidLevels
  <2> HIDE DEF order
  <2> QED BY <2>1, <2>2
<1>3. \A i \in I : RaidOptionEnabled(ds, order[i])
  OBVIOUS
<1> HIDE DEF I, order
<1>4. fitting \in Seq(RaidLevels) /\ ToSet(fitting) = {order[i] : i \in I \cap DOMAIN order}
  BY <1>2, KeptElements
<1> HIDE DEF fitting
<1>5. fitting # <<>>
  BY <1>1
<1>6. Head(fitting) \in ToSet(fitting)
  BY <1>4, <1>5, HeadIsElement
<1> QED BY <1>1, <1>3, <1>4, <1>5, <1>6

LEMMA MembersAreSized ==
    ASSUME Listing(disks.inventory), NEW members \in MemberLists
    PROVE  /\ Sized(members)
           /\ (\A d \in ToSet(members) : IsEligible(d)) => Paths(members) \subseteq Eligible(disks)
<1> DEFINE inventory == disks.inventory
<1>1. PICK n \in DOMAIN inventory, first \in {60, 62, 100}, other \in {60, 100} :
        members = [i \in 1..n |-> [inventory[i] EXCEPT !.sizeBytes = IF i = 1 THEN first ELSE other]]
  BY DEF MemberLists
<1>2. inventory \in Seq(ToSet(inventory)) /\ Len(inventory) \in Nat /\ DOMAIN inventory = 1..Len(inventory)
  BY Elements DEF Listing, IsSeq
<1>3. \A i \in DOMAIN inventory :
        /\ inventory[i] \in ToSet(inventory)
        /\ {"path", "sizeBytes", "verdict"} \subseteq DOMAIN inventory[i]
        /\ inventory[i].path \in Nat \ {NoDisk}
        /\ inventory[i].verdict \in {"eligible", "ineligible"}
  BY DEF Listing, ToSet
<1>4. n \in Nat /\ n # 0 /\ 1..n \subseteq DOMAIN inventory /\ DOMAIN members = 1..n
  BY <1>1, <1>2
<1>5. \A i \in 1..n : /\ members[i].path = inventory[i].path
                      /\ members[i].verdict = inventory[i].verdict
                      /\ members[i].sizeBytes \in {60, 62, 100}
  BY <1>1, <1>3, <1>4
<1>6. IsSeq(members) /\ members # <<>>
  <2>1. members \in [1..n -> ToSet(members)]
    BY <1>1, <1>4 DEF ToSet
  <2>2. members \in Seq(ToSet(members))
    BY <1>4, <2>1
  <2> QED BY <1>4, <2>2 DEF IsSeq
<1>7. DistinctPaths(members)
  BY <1>4, <1>5 DEF DistinctPaths, Listing
<1>8. \A d \in ToSet(members) : d.path # NoDisk /\ d.sizeBytes \in Nat \ {0}
  BY <1>3, <1>4, <1>5 DEF ToSet
<1>9. ASSUME \A d \in ToSet(members) : IsEligible(d)
      PROVE  Paths(members) \subseteq Eligible(disks)
  <2>1. Eligible(disks) = {d.path : d \in {e \in ToSet(inventory) : IsEligible(e)}}
    BY EligibleListed DEF Eligible, EligiblePaths, Paths, Listing
  <2>2. ASSUME NEW i \in 1..n PROVE members[i].path \in Eligible(disks)
    <3>1. IsEligible(members[i])
      BY <1>4, <1>9 DEF ToSet
    <3>2. IsEligible(inventory[i])
      BY <1>3, <1>4, <1>5, <3>1 DEF IsEligible
    <3> QED BY <1>3, <1>4, <1>5, <2>1, <3>2
  <2> QED BY <1>4, <2>2 DEF Paths, ToSet
<1> QED BY <1>6, <1>7, <1>8, <1>9 DEF Sized

(* Whatever the daemon lists, and however large its disks were: a RAID level that
   is enabled has distinct eligible members enough and keeps what it promises to
   hold after the losses it survives, and the recommended level is enabled. *)
THEOREM RaidOffersStaySound == Spec => []RaidOffersAreSound
<1>1. ASSUME SInv PROVE RaidOffersAreSound
  <2> SUFFICES ASSUME NEW members \in MemberLists
      PROVE
        /\ \A level \in RaidLevels : RaidOptionEnabled(members, level) =>
             /\ Len(members) >= RaidSpec[level].min
             /\ Paths(members) \subseteq Eligible(disks)
             /\ UsableBytes(members, level)
                  <= RawBytes(members) - Survives(level, Len(members)) * SmallestDisk(members)
        /\ RecommendedLevel(members) # "single"
             => RaidOptionEnabled(members, RecommendedLevel(members))
    BY DEF RaidOffersAreSound
  <2>1. /\ Sized(members)
        /\ (\A d \in ToSet(members) : IsEligible(d)) => Paths(members) \subseteq Eligible(disks)
    BY <1>1, MembersAreSized DEF SInv
  <2>2. ASSUME NEW level \in RaidLevels, RaidOptionEnabled(members, level)
        PROVE  /\ Len(members) >= RaidSpec[level].min
               /\ Paths(members) \subseteq Eligible(disks)
               /\ UsableBytes(members, level)
                    <= RawBytes(members) - Survives(level, Len(members)) * SmallestDisk(members)
    BY <2>1, <2>2, OfferIsSound
  <2>3. RecommendedLevel(members) # "single"
          => RaidOptionEnabled(members, RecommendedLevel(members))
    BY <2>1, RecommendedIsOffered
  <2> QED BY <2>2, <2>3
<1> QED BY <1>1, SInvAlways, PTL
-----------------------------------------------------------------------------
(* The layout assistant, for disks of any size and with any partitions on them. *)

(* The sum of a list of sizes is the last of the sums of its prefixes. *)
Sums(f, sizes) ==
    /\ f \in [0..Len(sizes) -> Nat]
    /\ f[0] = 0
    /\ \A n \in 1..Len(sizes) : f[n] = f[n - 1] + sizes[n]

LEMMA TotalRecurs ==
    ASSUME NEW sizes \in Seq(Nat)
    PROVE  \E f : Sums(f, sizes) /\ TotalBytes(sizes) = f[Len(sizes)]
<1> DEFINE top == Len(sizes)
           Rec(f) == [n \in 0..top |-> IF n = 0 THEN 0 ELSE f[n - 1] + sizes[n]]
           step == [n \in 1..top |-> [v \in Nat |-> v + sizes[n]]]
           total == CHOOSE f : f = Rec(f)
<1>1. top \in Nat /\ DOMAIN sizes = 1..top
  OBVIOUS
<1>2. \A n \in 1..top : sizes[n] \in Nat
  OBVIOUS
<1>3. TotalBytes(sizes) = total[top]
  BY DEF TotalBytes
<1> HIDE DEF top
<1>4. Steps(step, top, Nat)
  <2>1. ASSUME NEW n \in 1..top, NEW v \in Nat PROVE v + sizes[n] \in Nat
    BY <1>2
  <2> QED BY <2>1 DEF Steps
<1>5. PICK f : Solves(f, step, 0, top, Nat)
  <2> HIDE DEF step
  <2> QED BY <1>1, <1>4, Recursion
<1>6. f = Rec(f)
  <2>1. ASSUME NEW n \in 0..top PROVE f[n] = Rec(f)[n]
    <3>1. CASE n = 0
      BY <1>5, <3>1 DEF Solves
    <3>2. CASE n # 0
      <4>1. n \in 1..top /\ f[n - 1] \in Nat
        BY <1>1, <1>5, <3>2 DEF Solves
      <4>2. step[n][f[n - 1]] = f[n - 1] + sizes[n]
        BY <4>1
      <4> QED BY <1>5, <3>2, <4>1, <4>2 DEF Solves
    <3> QED BY <3>1, <3>2
  <2>2. f = [n \in 0..top |-> f[n]]
    BY <1>5 DEF Solves
  <2> QED BY <2>1, <2>2
<1>7. total = Rec(total)
  BY <1>6
<1> HIDE DEF total
<1>8. /\ total = [n \in 0..top |-> total[n]]
      /\ total[0] = 0
      /\ \A n \in 1..top : total[n] = total[n - 1] + sizes[n]
  <2>1. 0 \in 0..top /\ \A n \in 1..top : n \in 0..top /\ n # 0
    BY <1>1
  <2>2. Rec(total)[0] = 0 /\ \A n \in 1..top : Rec(total)[n] = total[n - 1] + sizes[n]
    BY <2>1
  <2>3. Rec(total) = [n \in 0..top |-> Rec(total)[n]]
    OBVIOUS
  <2> QED BY <1>7, <2>2, <2>3
<1>9. ASSUME NEW k \in 0..top PROVE total[k] \in Nat
  <2> DEFINE M == {n \in 0..top : total[n] \in Nat}
  <2>1. 0 \in M
    BY <1>1, <1>8
  <2>2. \A n \in 1..k : n - 1 \in M => n \in M
    BY <1>1, <1>2, <1>8
  <2>3. k \in Nat
    BY <1>1
  <2>4. k \in M
    <3> HIDE DEF M
    <3> QED BY <2>1, <2>2, <2>3, UpTo
  <2> QED BY <2>4
<1>10. Sums(total, sizes)
  BY <1>8, <1>9 DEF Sums, top
<1> QED BY <1>3, <1>10 DEF top

(* What is in use of a disk is a number of bytes. *)
LEMMA UsedIsNat ==
    ASSUME NEW disk, Partitions(disk.partitions)
    PROVE  UsedBytes(NormalizePartitions(disk)) \in Nat
<1> DEFINE all == disk.partitions
           kept == NormalizePartitions(disk)
           sizes == [i \in DOMAIN kept |-> kept[i].sizeBytes]
<1>1. kept \in Seq(ToSet(all))
  BY KeptElements DEF NormalizePartitions, Partitions
<1> HIDE DEF kept
<1>2. ASSUME NEW i \in 1..Len(kept) PROVE kept[i].sizeBytes \in Nat
  BY <1>1 DEF Partitions
<1>3. sizes \in Seq(Nat)
  BY <1>1, <1>2
<1>4. UsedBytes(kept) = TotalBytes(sizes)
  BY DEF UsedBytes
<1> HIDE DEF sizes
<1>5. PICK f : Sums(f, sizes) /\ TotalBytes(sizes) = f[Len(sizes)]
  BY <1>3, TotalRecurs
<1>6. Len(sizes) \in 0..Len(sizes)
  BY <1>3
<1> QED BY <1>4, <1>5, <1>6 DEF Sums, kept

(* The layout of a preset that was accepted. *)
PresetLayout(disk, bytes) == Layout(BootAndRoot(disk, bytes), FALSE, FALSE)

LEMMA FreeIsWhatIsLeft ==
    ASSUME NEW disk, disk.sizeBytes \in Nat, UsedBytes(NormalizePartitions(disk)) \in Nat
    PROVE  /\ FreeBytes(disk) \in Nat
           /\ FreeBytes(disk) > 0
                => FreeBytes(disk) + UsedBytes(NormalizePartitions(disk)) = disk.sizeBytes
BY DEF FreeBytes, NonNegative

(* Two partitions of which the second is the root: it must not be too small. *)
LEMMA RootIsRoomy ==
    ASSUME NEW disk, NEW bytes, LayoutReasons(PresetLayout(disk, bytes)) = {}
    PROVE  ~(bytes < MinRootBytes)
<1> DEFINE layout == PresetLayout(disk, bytes)
           partitions == BootAndRoot(disk, bytes)
<1>1. /\ layout.partitions = partitions
      /\ ~layout.manual
      /\ ~layout.error
  BY DEF Layout, PresetLayout
<1>2. /\ DOMAIN partitions = 1..2
      /\ partitions[1].mountpoint = "/boot"
      /\ partitions[2].mountpoint = "/"
      /\ partitions[2].sizeBytes = bytes
  BY DEF BootAndRoot
<1> HIDE DEF partitions
<1>3. bytes < MinRootBytes => FirstIsTooSmall(partitions, "/")
  <2> SUFFICES ASSUME bytes < MinRootBytes PROVE FirstIsTooSmall(partitions, "/")
    OBVIOUS
  <2>1. \A j \in 1..(2 - 1) : j = 1
    OBVIOUS
  <2> QED BY <1>2, <2>1 DEF FirstIsTooSmall
<1>4. FirstIsTooSmall(partitions, "/") => "rootTooSmall" \in LayoutReasons(layout)
  BY <1>1 DEF LayoutReasons
<1> QED BY <1>3, <1>4

LEMMA TwoPartitions ==
    ASSUME NEW disk, NEW bytes, NEW layout,
           layout = PresetLayout(disk, bytes)
    PROVE  /\ DOMAIN layout.partitions = 1..2
           /\ layout.partitions[1].sizeBytes = BootPartitionBytes
           /\ layout.partitions[2].sizeBytes = bytes
BY DEF PresetLayout, Layout, BootAndRoot

(* What the assistant accepts of a preset fits every disk, however full and
   however large: dual boot never grows over the partitions it keeps, and the
   root has the room the assistant asks for. *)
THEOREM PresetFitsDisk ==
    ASSUME NEW disk, NEW preset \in Presets,
           disk.sizeBytes \in Nat, Partitions(disk.partitions)
    PROVE  PresetFits(disk, preset)
<1> DEFINE used == UsedBytes(NormalizePartitions(disk))
           rest == NonNegative(disk.sizeBytes - BootPartitionBytes)
           layout == ProposedLayout(disk, preset)
           kept == IF preset = "dual-boot" THEN used ELSE 0
<1> SUFFICES ASSUME LayoutReasons(layout) = {}
             PROVE  /\ DOMAIN layout.partitions = 1..2
                    /\ layout.partitions[2].sizeBytes >= MinRootBytes
                    /\ layout.partitions[1].sizeBytes + layout.partitions[2].sizeBytes + kept
                         <= disk.sizeBytes
  BY DEF PresetFits
<1>1. /\ BootPartitionBytes \in Nat \ {0}
      /\ MinRootBytes \in Nat \ {0}
      /\ used \in Nat
  BY LayoutSizes, UsedIsNat
<1>2. ~layout.manual /\ ~layout.error
  BY DEF LayoutReasons
<1>3. CASE layout = PresetLayout(disk, rest) /\ preset = "kryonix-default"
  <2>1. ~(rest < MinRootBytes)
    BY <1>3, RootIsRoomy
  <2>2. rest \in Nat /\ kept = 0
    BY <1>1, <1>3 DEF NonNegative
  <2>3. rest >= MinRootBytes
    BY <1>1, <2>1, <2>2
  <2>4. rest + BootPartitionBytes = disk.sizeBytes
    BY <1>1, <2>3 DEF NonNegative
  <2> HIDE DEF layout, kept, rest
  <2>5. /\ DOMAIN layout.partitions = 1..2
        /\ layout.partitions[1].sizeBytes = BootPartitionBytes
        /\ layout.partitions[2].sizeBytes = rest
    BY <1>3, TwoPartitions
  <2> QED BY <1>1, <2>2, <2>3, <2>4, <2>5
<1>4. CASE /\ layout = PresetLayout(disk, FreeBytes(disk) - BootPartitionBytes)
           /\ FreeBytes(disk) >= BootPartitionBytes + MinRootBytes
  <2>1. FreeBytes(disk) \in Nat /\ FreeBytes(disk) + used = disk.sizeBytes
    BY <1>1, <1>4, FreeIsWhatIsLeft
  <2>2. used \in Nat /\ kept \in Nat /\ kept <= used
    BY <1>1
  <2>3. /\ DOMAIN layout.partitions = 1..2
        /\ layout.partitions[1].sizeBytes = BootPartitionBytes
        /\ layout.partitions[2].sizeBytes = FreeBytes(disk) - BootPartitionBytes
    BY <1>4, TwoPartitions
  <2> HIDE DEF layout, kept, used
  <2>4. layout.partitions[2].sizeBytes >= MinRootBytes
    BY <1>1, <1>4, <2>1, <2>3
  <2>5. layout.partitions[1].sizeBytes + layout.partitions[2].sizeBytes = FreeBytes(disk)
    BY <1>1, <2>1, <2>3
  <2>6. FreeBytes(disk) + kept <= disk.sizeBytes
    BY <2>1, <2>2
  <2> QED BY <2>3, <2>4, <2>5, <2>6
<1> QED
  <2>1. preset \in {"kryonix-default", "dual-boot", "manual"}
    BY DEF Presets
  <2>2. \/ layout = Layout(<<>>, FALSE, TRUE)
        \/ layout = Layout(<<>>, TRUE, FALSE)
        \/ layout = PresetLayout(disk, rest) /\ preset = "kryonix-default"
        \/ /\ layout = PresetLayout(disk, FreeBytes(disk) - BootPartitionBytes)
           /\ FreeBytes(disk) >= BootPartitionBytes + MinRootBytes
    BY <2>1 DEF ProposedLayout, PresetLayout
  <2>3. /\ Layout(<<>>, FALSE, TRUE).manual
        /\ Layout(<<>>, TRUE, FALSE).error
    BY DEF Layout
  <2> QED BY <1>2, <1>3, <1>4, <2>2, <2>3

-----------------------------------------------------------------------------
(* Partitions made by hand, for any list of disks and of partitions. *)

LEMMA ShareIsNat ==
    ASSUME NEW disk, NEW p, p.sizeBytes \in Nat PROVE Share(disk, p) \in Nat
BY DEF Share

(* The allocation of a disk, likewise. *)
Totals(f, disk, list) ==
    /\ f \in [0..Len(list) -> Nat]
    /\ f[0] = 0
    /\ \A n \in 1..Len(list) : f[n] = f[n - 1] + Share(disk, list[n])

LEMMA AllocatedRecurs ==
    ASSUME NEW disk, NEW list, Partitions(list)
    PROVE  \E f : Totals(f, disk, list) /\ AllocatedBytes(disk, list) = f[Len(list)]
<1> DEFINE shares == [i \in DOMAIN list |-> Share(disk, list[i])]
<1>1. Len(list) \in Nat /\ DOMAIN list = 1..Len(list)
  BY DEF Partitions
<1>2. ASSUME NEW n \in 1..Len(list) PROVE Share(disk, list[n]) \in Nat
  <2>1. list[n] \in ToSet(list)
    BY <1>1 DEF ToSet
  <2> QED BY <2>1, ShareIsNat DEF Partitions
<1>3. /\ shares \in Seq(Nat) /\ Len(shares) = Len(list)
      /\ \A n \in 1..Len(list) : shares[n] = Share(disk, list[n])
  BY <1>1, <1>2
<1>4. AllocatedBytes(disk, list) = TotalBytes(shares)
  BY DEF AllocatedBytes
<1> HIDE DEF shares
<1>5. PICK f : Sums(f, shares) /\ TotalBytes(shares) = f[Len(shares)]
  BY <1>3, TotalRecurs
<1>6. Totals(f, disk, list)
  BY <1>3, <1>5 DEF Sums, Totals
<1> QED BY <1>3, <1>4, <1>5, <1>6

LEMMA AllocatedAppend ==
    ASSUME NEW disk, NEW list, Partitions(list), NEW p, p.sizeBytes \in Nat
    PROVE  /\ AllocatedBytes(disk, list) \in Nat
           /\ AllocatedBytes(disk, Append(list, p)) = AllocatedBytes(disk, list) + Share(disk, p)
<1> DEFINE longer == Append(list, p)
           top == Len(list)
           A == ToSet(list) \cup {p}
<1>1. list \in Seq(A) /\ p \in A
  BY DEF Partitions
<1>2. /\ top \in Nat
      /\ Len(longer) = top + 1
      /\ \A n \in 1..top : longer[n] = list[n]
      /\ longer[top + 1] = p
      /\ ToSet(longer) = A
      /\ longer \in Seq(A)
  <2> HIDE DEF A
  <2>1. ToSet(Append(list, p)) = ToSet(list) \cup {p}
    BY <1>1, Appended
  <2>2. ToSet(longer) = A
    BY <2>1 DEF A
  <2> QED BY <1>1, <2>2, Appended, Elements
<1>3. Partitions(longer)
  BY <1>2 DEF Partitions
<1> HIDE DEF longer, A
<1>4. PICK f : Totals(f, disk, list) /\ AllocatedBytes(disk, list) = f[top]
  BY AllocatedRecurs
<1>5. PICK g : Totals(g, disk, longer) /\ AllocatedBytes(disk, longer) = g[top + 1]
  BY <1>2, <1>3, AllocatedRecurs
<1> DEFINE M == {n \in 0..top : f[n] = g[n]}
<1>6. 0 \in M
  BY <1>2, <1>4, <1>5 DEF Totals
<1>7. ASSUME NEW n \in 1..top, n - 1 \in M PROVE n \in M
  <2>1. n \in 1..(top + 1) /\ n \in 0..top
    BY <1>2
  <2>2. f[n] = f[n - 1] + Share(disk, list[n]) /\ g[n] = g[n - 1] + Share(disk, longer[n])
    BY <1>2, <1>4, <1>5, <2>1 DEF Totals
  <2> QED BY <1>2, <1>7, <2>1, <2>2
<1>8. top \in M
  <2>1. \A n \in 1..top : n - 1 \in M => n \in M
    BY <1>7
  <2> HIDE DEF M
  <2> QED BY <1>2, <1>6, <2>1, UpTo
<1>9. g[top + 1] = g[top] + Share(disk, p)
  <2>1. top + 1 \in 1..(top + 1) /\ (top + 1) - 1 = top
    BY <1>2
  <2> QED BY <1>2, <1>5, <2>1 DEF Totals
<1>10. f[top] \in Nat
  BY <1>2, <1>4 DEF Totals
<1> QED BY <1>4, <1>5, <1>8, <1>9, <1>10 DEF longer

(* Of the disks in a list one has the most room. *)
LEMMA OneHasMost ==
    ASSUME NEW ds, IsSeq(ds), ds # <<>>, NEW free, \A d \in ToSet(ds) : free[d] \in Nat
    PROVE  \E d \in ToSet(ds) : \A e \in ToSet(ds) : free[e] <= free[d]
<1> DEFINE top == Len(ds)
           M == {n \in 0..top : n > 0 => \E j \in 1..n : \A i \in 1..n : free[ds[i]] <= free[ds[j]]}
<1>1. /\ top \in Nat \ {0}
      /\ ToSet(ds) = {ds[i] : i \in 1..top}
  <2>1. Len(ds) \in Nat /\ ToSet(ds) = {ds[i] : i \in 1..Len(ds)}
    BY Elements DEF IsSeq
  <2>2. Len(ds) # 0
    BY DEF IsSeq
  <2> QED BY <2>1, <2>2
<1>2. \A i \in 1..top : free[ds[i]] \in Nat
  BY <1>1
<1> HIDE DEF top
<1>3. 0 \in M
  BY <1>1
<1>4. ASSUME NEW n \in 1..top, n - 1 \in M PROVE n \in M
  <2>0. n \in 0..top /\ n \in 1..n
    BY <1>1
  <2>1. CASE n = 1
    <3>1. \A i \in 1..n : free[ds[i]] <= free[ds[1]]
      BY <1>2, <2>1
    <3> QED BY <2>0, <2>1, <3>1
  <2>2. CASE n # 1
    <3>1. PICK j \in 1..(n - 1) : \A i \in 1..(n - 1) : free[ds[i]] <= free[ds[j]]
      BY <1>4, <2>2
    <3>2. \A i \in 1..n : i \in 1..top /\ (i \in 1..(n - 1) \/ i = n)
      BY <1>1
    <3>3. CASE free[ds[n]] <= free[ds[j]]
      <4>1. j \in 1..n /\ \A i \in 1..n : free[ds[i]] <= free[ds[j]]
        BY <3>1, <3>2, <3>3
      <4> QED BY <2>0, <4>1
    <3>4. CASE ~(free[ds[n]] <= free[ds[j]])
      <4>0. j \in 1..top
        BY <1>1, <3>1
      <4>1. free[ds[j]] <= free[ds[n]]
        BY <1>2, <3>4, <4>0
      <4>2. ASSUME NEW i \in 1..n PROVE free[ds[i]] <= free[ds[n]]
        BY <1>2, <3>1, <3>2, <4>0, <4>1
      <4> QED BY <2>0, <4>2
    <3> QED BY <3>3, <3>4
  <2> QED BY <2>1, <2>2
<1>5. top \in M
  <2>1. \A n \in 1..top : n - 1 \in M => n \in M
    BY <1>4
  <2> HIDE DEF M
  <2> QED BY <1>1, <1>3, <2>1, UpTo
<1>6. PICK j \in 1..top : \A i \in 1..top : free[ds[i]] <= free[ds[j]]
  BY <1>1, <1>5
<1> QED BY <1>1, <1>6

(* The partition the manual tab adds fills a disk up and overflows none, whatever
   the disks and the partitions so far. *)
THEOREM AddedPartitionFits ==
    ASSUME NEW ds, IsSeq(ds), \A d \in ToSet(ds) : d.sizeBytes \in Nat,
           \A d, e \in ToSet(ds) : d.path = e.path => d = e,
           NEW list, Partitions(list)
    PROVE  AdditionFits(ds, list)
<1> DEFINE free(d) == DiskAllocation(d, list).freeBytes
           room == [d \in ToSet(ds) |-> free(d)]
           best == CHOOSE d \in ToSet(ds) : \A e \in ToSet(ds) : free(e) <= free(d)
           added == [device |-> best.path, mountpoint |-> "/", usage |-> "root",
                     fstype |-> "btrfs", sizeBytes |-> free(best)]
           longer == Append(list, added)
<1> SUFFICES ASSUME CanCreatePartition(ds, list)
             PROVE  /\ \E d \in ToSet(ds) : DiskAllocation(d, longer).full
                    /\ \A d \in ToSet(ds) : DiskAllocation(d, longer).error
                                              => DiskAllocation(d, list).error
  BY DEF AdditionFits, AddPartition
<1>1. \A d \in ToSet(ds) : AllocatedBytes(d, list) \in Nat
  <2>1. [sizeBytes |-> 0].sizeBytes \in Nat
    OBVIOUS
  <2> QED BY <2>1, AllocatedAppend
<1>2. ASSUME NEW d \in ToSet(ds)
      PROVE  /\ free(d) \in Nat
             /\ free(d) = IF d.sizeBytes <= AllocatedBytes(d, list) THEN 0
                          ELSE d.sizeBytes - AllocatedBytes(d, list)
  BY <1>1 DEF DiskAllocation, NonNegative
<1>3. ds # <<>>
  BY DEF CanCreatePartition, ToSet
<1>4. \E d \in ToSet(ds) : \A e \in ToSet(ds) : free(e) <= free(d)
  <2>1. \A d \in ToSet(ds) : room[d] \in Nat /\ room[d] = free(d)
    BY <1>2
  <2> HIDE DEF room, free
  <2>2. \E d \in ToSet(ds) : \A e \in ToSet(ds) : room[e] <= room[d]
    BY <1>3, <2>1, OneHasMost
  <2> QED BY <2>1, <2>2
<1>5. best \in ToSet(ds) /\ \A e \in ToSet(ds) : free(e) <= free(best)
  <2> HIDE DEF free
  <2> QED BY <1>4
<1>6. \E d \in ToSet(ds) : free(d) > 0
  BY DEF CanCreatePartition
<1>7. free(best) \in Nat /\ free(best) > 0
  BY <1>2, <1>5, <1>6
<1>8. added.device = best.path /\ added.sizeBytes = free(best)
  OBVIOUS
<1> HIDE DEF free, room, best, added
<1>9. ASSUME NEW d \in ToSet(ds)
      PROVE  AllocatedBytes(d, longer) = AllocatedBytes(d, list) + (IF d = best THEN free(best) ELSE 0)
  <2>1. Share(d, added) = IF d = best THEN free(best) ELSE 0
    BY <1>5, <1>8 DEF Share
  <2> QED BY <1>7, <1>8, <2>1, AllocatedAppend
<1> HIDE DEF longer
<1>10. AllocatedBytes(best, longer) = best.sizeBytes /\ best.sizeBytes > 0
  BY <1>1, <1>2, <1>5, <1>7, <1>9
<1>11. DiskAllocation(best, longer).full /\ ~DiskAllocation(best, longer).error
  <2>1. best.sizeBytes \in Nat
    BY <1>5
  <2>2. ~(best.sizeBytes <= 0) /\ ~(AllocatedBytes(best, longer) > best.sizeBytes)
    BY <1>10, <2>1
  <2> QED BY <1>10, <2>2, Zenon DEF DiskAllocation
<1>12. ASSUME NEW d \in ToSet(ds), DiskAllocation(d, longer).error
       PROVE  DiskAllocation(d, list).error
  <2>1. d # best
    BY <1>11, <1>12
  <2>2. AllocatedBytes(d, longer) = AllocatedBytes(d, list)
    BY <1>1, <1>9, <2>1
  <2> QED BY <1>12, <2>2 DEF DiskAllocation
<1> QED BY <1>5, <1>11, <1>12

(* The disks of the tab are those of the inventory, each once. *)
LEMMA TabDisksAreDistinct ==
    ASSUME Listing(disks.inventory), NEW ds \in TabDisks
    PROVE  /\ IsSeq(ds)
           /\ \A d \in ToSet(ds) : d.sizeBytes \in Nat
           /\ \A d, e \in ToSet(ds) : d.path = e.path => d = e
<1> DEFINE listed == EligibleDisks(disks.inventory)
<1>1. PICK first \in Sizes, other \in Sizes :
        ds = [i \in DOMAIN listed |->
                [listed[i] EXCEPT !.sizeBytes = IF i = 1 THEN first ELSE other]]
  BY DEF TabDisks
<1>2. /\ listed \in Seq(ToSet(disks.inventory))
      /\ DistinctPaths(listed)
      /\ \A d \in ToSet(disks.inventory) : {"path", "sizeBytes"} \subseteq DOMAIN d
  BY KeptOfDistinct DEF Listing, EligibleDisks, IsSeq
<1> HIDE DEF listed
<1>3. /\ DOMAIN listed = 1..Len(listed) /\ Len(listed) \in Nat
      /\ \A i \in DOMAIN listed : {"path", "sizeBytes"} \subseteq DOMAIN listed[i]
  BY <1>2
<1>4. \A i \in DOMAIN listed : /\ ds[i].path = listed[i].path
                               /\ ds[i].sizeBytes = IF i = 1 THEN first ELSE other
  BY <1>1, <1>3
<1>5. DOMAIN ds = DOMAIN listed /\ ToSet(ds) = {ds[i] : i \in DOMAIN listed}
  BY <1>1 DEF ToSet
<1>6. IsSeq(ds)
  <2>1. ds \in [1..Len(listed) -> ToSet(ds)]
    BY <1>1, <1>3, <1>5
  <2> QED BY <1>3, <2>1 DEF IsSeq
<1>7. ASSUME NEW i \in DOMAIN listed, NEW j \in DOMAIN listed, ds[i].path = ds[j].path
      PROVE  ds[i] = ds[j]
  BY <1>2, <1>4, <1>7 DEF DistinctPaths
<1>8. \A d \in ToSet(ds) : d.sizeBytes \in Nat
  BY <1>4, <1>5, LayoutInputs
<1> QED BY <1>5, <1>6, <1>7, <1>8

(* Whatever the sizes, no preset that is accepted misfits its disk; and whatever
   the daemon lists, the partition the manual tab adds fills a disk up and
   overflows none. *)
THEOREM LayoutsAlwaysFit == Spec => []LayoutsFit
<1>1. PresetMisfits = {}
  <2>1. ASSUME NEW c \in [sizeBytes : Sizes, partitions : Held, preset : Presets]
        PROVE  PresetFits([path |-> 1, sizeBytes |-> c.sizeBytes, partitions |-> c.partitions],
                          c.preset)
    <3> DEFINE disk == [path |-> 1, sizeBytes |-> c.sizeBytes, partitions |-> c.partitions]
    <3>1. disk.sizeBytes \in Nat /\ Partitions(disk.partitions) /\ c.preset \in Presets
      BY LayoutInputs
    <3> HIDE DEF disk
    <3>2. PresetFits(disk, c.preset)
      BY <3>1, PresetFitsDisk
    <3> QED BY <3>2 DEF disk
  <2> QED BY <2>1 DEF PresetMisfits
<1>2. ASSUME SInv, NEW ds \in TabDisks, NEW list \in HandMade PROVE AdditionFits(ds, list)
  <2>1. Partitions(list)
    BY LayoutInputs
  <2>2. /\ IsSeq(ds)
        /\ \A d \in ToSet(ds) : d.sizeBytes \in Nat
        /\ \A d, e \in ToSet(ds) : d.path = e.path => d = e
    BY <1>2, TabDisksAreDistinct DEF SInv
  <2> QED BY <2>1, <2>2, AddedPartitionFits
<1>3. SInv => LayoutsFit
  BY <1>1, <1>2 DEF LayoutsFit
<1> QED BY <1>3, SInvAlways, PTL
=============================================================================
