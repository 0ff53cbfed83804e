----------------------------- MODULE InstallPlan ------------------------------
(* The installation plan (ui/src/utils/installPlan.js, with the schema generated
   from the daemon's types): the plan a draft yields, when building it throws,
   what the schema refuses, and what keeps the wizard on each of its steps.

   Errors are sets of reasons; the empty set means there is none. *)
EXTENDS StoragePlanner, FeatureCatalog, WizardState

(* A field that is not in the draft reads as undefined. *)
Read(draft, field) == IF field \in DOMAIN draft THEN draft[field] ELSE "undefined"

-----------------------------------------------------------------------------
(* buildNetworkPlan: no interface or no host name, no network; an uplink needs
   an interface of its own and, over PPPoE, a user.  What may be null is a set
   of at most one. *)

UplinkPlan(draft) ==
    IF draft.wanInterface \in {NoIface, draft.mgmtInterface}
         \/ (draft.wanMode = "pppoe" /\ draft.pppoeUser = "")
    THEN {}
    ELSE {[interface |-> draft.wanInterface, mode |-> draft.wanMode,
          addresses |-> IF draft.wanMode = "static" THEN {draft.wanAddress, draft.wanGateway} ELSE {},
          dns |-> IF draft.wanMode = "static" THEN draft.wanDns ELSE "",
          users |-> IF draft.wanMode = "pppoe" THEN {draft.pppoeUser} ELSE {}]}

NetworkPlan(draft) ==
    IF draft.mgmtInterface = NoIface \/ draft.hostName = "" THEN {}
    ELSE {[interface |-> draft.mgmtInterface, mode |-> draft.mgmtMode,
          hostname |-> draft.hostName,
          addresses |-> IF draft.mgmtMode = "static" THEN {draft.serverIp, draft.mgmtGateway} ELSE {},
          dns |-> IF draft.mgmtMode = "static" THEN draft.mgmtDns ELSE "",
          wan |-> UplinkPlan(draft)]}

-----------------------------------------------------------------------------
(* buildInstallPlanPayload. *)

HasSeparateDataDisk(draft) == draft.dataDisk # NoDisk /\ draft.dataDisk # draft.sysDisk

PlanDisks(draft) == {draft.sysDisk, draft.dataDisk} \ {NoDisk}

Topology(draft) ==
    CASE draft.storageMode = "raid" -> "raid"
      [] Cardinality(PlanDisks(draft)) >= 2 /\ HasSeparateDataDisk(draft) -> "split"
      [] OTHER -> "single"

BuildReasons(draft) ==
    FeatureReasons(draft.selectedFeatures) \cup
    { r \in {"storageMode", "luks", "noSystemDisk", "filesystem", "zfsQuota", "btrfsQuota"} :
        \/ r = "storageMode"  /\ draft.storageMode \in {"raid", "manual", "lvm"}
        \/ r = "luks"         /\ draft.luksEnabled
        \/ r = "noSystemDisk" /\ draft.sysDisk = NoDisk
        \/ r = "filesystem"   /\ ~({draft.rootFs, draft.dataFs} \subseteq Filesystems)
        \/ r = "zfsQuota"     /\ "zfs" \in {draft.rootFs, draft.dataFs}
                              /\ draft.zfsUserRefquota = ""
        \/ r = "btrfsQuota"   /\ Topology(draft) = "split" /\ draft.dataFs = "btrfs"
                              /\ draft.btrfsUserQgroupLimit = "" }

(* What is in no catalogue is left out of the plan without a word. *)
PlanFeatures(draft) == draft.selectedFeatures \cap DOMAIN Catalog

(* Nothing is ever encrypted. *)
FilesystemSection(fs) == [filesystem |-> fs, encryption |-> "none"]

(* The file system of the data disk counts for the quotas also when there is no
   data disk. *)
StoragePlan(draft) ==
    LET split == Topology(draft) = "split" IN
    [topology    |-> Topology(draft),
     systemDisks |-> <<draft.sysDisk>>,
     dataDisks   |-> IF split THEN <<draft.dataDisk>> ELSE <<>>,
     root        |-> FilesystemSection(draft.rootFs),
     data        |-> IF split THEN {FilesystemSection(draft.dataFs)} ELSE {},
     zfs         |-> IF "zfs" \in {draft.rootFs, draft.dataFs}
                     THEN {draft.zfsUserRefquota} ELSE {},
     btrfs       |-> IF split /\ draft.dataFs = "btrfs"
                     THEN {draft.btrfsUserQgroupLimit} ELSE {}]

(* The repository is the one in the draft whatever the kind of source chosen;
   an empty one means the project's own. *)
Plan(draft) ==
    [repository |-> draft.sourceRepoUrl, network |-> NetworkPlan(draft),
     storage |-> StoragePlan(draft), features |-> PlanFeatures(draft)]

-----------------------------------------------------------------------------
(* The schema: an address is absent or an IPv4 address, no name server is named
   twice, a repository is reached over https, what a file system needs is
   there. *)

AddressAllowed(a) == a \in {"", "valid"}
DnsAllowed(list) == list \in {"", "valid"}

ManagementAllowed(n) ==
    /\ n.interface # NoIface /\ n.hostname # ""
    /\ n.mode \in {"dhcp", "static"}
    /\ \A a \in n.addresses : AddressAllowed(a)
    /\ DnsAllowed(n.dns)

UplinkAllowed(u) ==
    /\ u.interface # NoIface
    /\ u.mode \in {"dhcp", "static", "pppoe"}
    /\ \A a \in u.addresses : AddressAllowed(a)
    /\ DnsAllowed(u.dns)
    /\ "" \notin u.users

NetworkAllowed(n) == ManagementAllowed(n) /\ \A u \in n.wan : UplinkAllowed(u)

QuotaAllowed(q) == q = "valid"

SectionAllowed(section) ==
    section.filesystem \in Filesystems /\ section.encryption \in {"none", "luks2"}

(* A quota goes with ZFS anywhere, and with btrfs on a data disk. *)
QuotasPresent(storage) ==
    /\ (\E s \in {storage.root} \cup storage.data : s.filesystem = "zfs") => storage.zfs # {}
    /\ (\E s \in storage.data : s.filesystem = "btrfs") => storage.btrfs # {}

StorageAllowed(storage) ==
    /\ storage.topology \in {"single", "split", "raid", "manual"}
    /\ \A disks \in {storage.systemDisks, storage.dataDisks} :
         /\ \A i \in DOMAIN disks : disks[i] # NoDisk
         /\ \A i, j \in DOMAIN disks : i # j => disks[i] # disks[j]
    /\ \A section \in {storage.root} \cup storage.data : SectionAllowed(section)
    /\ \A q \in storage.zfs \cup storage.btrfs : QuotaAllowed(q)
    /\ QuotasPresent(storage)

RepositoryAllowed(repo, insecureRepos) == repo \notin insecureRepos

SchemaReasons(plan, insecureRepos) ==
    { r \in {"repository", "network", "storage"} :
        \/ r = "repository" /\ ~RepositoryAllowed(plan.repository, insecureRepos)
        \/ r = "network" /\ ~\A n \in plan.network : NetworkAllowed(n)
        \/ r = "storage" /\ ~StorageAllowed(plan.storage) }

(* getInstallPlanCompatibilityIssues: a plan has no file system beside those of its
   sections, so whatever is raid is refused. *)
CompatibilityReasons(plan) == {r \in {"raidFilesystem"} : plan.storage.topology = "raid"}

PlanReasons(draft, insecureRepos) ==
    IF BuildReasons(draft) # {} THEN BuildReasons(draft)
    ELSE SchemaReasons(Plan(draft), insecureRepos) \cup CompatibilityReasons(Plan(draft))

-----------------------------------------------------------------------------
(* validateStep, step by step. *)

EulaIssues(ui) == {i \in {"eula"} : ~ui.eulaAccepted}

SourceIssues(draft, ui) ==
    { i \in {"repoUrl", "notReady", "comingSoon"} :
        \/ i = "repoUrl"    /\ draft.sourceKind = "github-user-repo" /\ draft.sourceRepoUrl = NoRepo
        \/ i = "notReady"   /\ draft.sourceKind = "github-user-repo" /\ draft.sourceRepoUrl # NoRepo
                            /\ ui.githubSourceStatus # "ready"
        \/ i = "comingSoon" /\ draft.sourceKind = "github-create-from-template" }

(* What is not of the form Area/Place is "invalid". *)
CanonicalTimezone(zone) == zone \notin {NoZone, "invalid"}

TimezoneIssues(draft) == {i \in {"timeZone"} : ~CanonicalTimezone(draft.timeZone)}

(* A list with the same server twice is a valid list here. *)
ValidDns(list) == list \in {"valid", "twice"}

(* The two netmasks are left out: both are chosen from a list of valid ones. *)
NetworkIssues(draft, ui) ==
    LET static == draft.mgmtMode = "static"
        wan    == draft.wanInterface # NoIface
    IN { i \in {"hostName", "connectivity", "mgmtInterface", "sameInterface", "serverIp",
                "mgmtGateway", "mgmtDns", "httpPort", "wanAddress", "wanGateway", "wanDns",
                "pppoeUser", "pppoePassword"} :
        \/ i = "hostName"      /\ draft.hostName # "valid"
        \/ i = "connectivity"  /\ ~ui.netConnected /\ ~ui.netOffline
        \/ i = "mgmtInterface" /\ draft.mgmtInterface = NoIface
        \/ i = "sameInterface" /\ wan /\ draft.wanInterface = draft.mgmtInterface
        \/ i = "serverIp"      /\ static /\ draft.serverIp # "valid"
        \/ i = "mgmtGateway"   /\ static /\ draft.mgmtGateway # "valid"
        \/ i = "mgmtDns"       /\ static /\ ~ValidDns(draft.mgmtDns)
        \/ i = "httpPort"      /\ draft.httpPort # "valid"
        \/ i = "wanAddress"    /\ wan /\ draft.wanMode = "static" /\ draft.wanAddress # "valid"
        \/ i = "wanGateway"    /\ wan /\ draft.wanMode = "static" /\ draft.wanGateway # "valid"
        \/ i = "wanDns"        /\ wan /\ draft.wanMode = "static" /\ ~ValidDns(draft.wanDns)
        \/ i = "pppoeUser"     /\ wan /\ draft.wanMode = "pppoe" /\ draft.pppoeUser = ""
        \/ i = "pppoePassword" /\ wan /\ draft.wanMode = "pppoe" /\ draft.pppoePassword = "" }

(* buildValidationProjection: the topology the disks step is judged by comes
   from two fields no draft has. *)
ProjectedTopology(draft) ==
    CASE Read(draft, "diskProfile") \in {"raid", "manual"} -> Read(draft, "diskProfile")
      [] Read(draft, "diskMode") = "two" -> "split"
      [] OTHER -> "single"

(* Only the branches a projected topology selects: a raid or manual projection
   is always blocked. *)
DisksIssues(draft, ui) ==
    LET members  == ToSet(draft.selectedDisks) \ {NoDisk}
        topology == ProjectedTopology(draft)
    IN ui.storageBlockingIssues \cup
       { i \in {"duplicate", "noDisk", "noSysDisk", "sysDiskOutside", "unsupported", "count",
                "noDataDisk", "sameDisk", "dataDisk"} :
        \/ i = "duplicate"      /\ Cardinality(members) # Len(draft.selectedDisks)
        \/ i = "noDisk"         /\ members = {}
        \/ i = "noSysDisk"      /\ draft.sysDisk = NoDisk
        \/ i = "sysDiskOutside" /\ draft.sysDisk # NoDisk /\ members # {}
                                /\ draft.sysDisk \notin members
        \/ i = "unsupported"    /\ topology \in {"raid", "manual"}
        \/ i = "count"          /\ topology = "single" /\ ~\E p \in members : members = {p}
        \/ i = "count"          /\ topology = "split"
                                /\ ~\E p, q \in members : p # q /\ members = {p, q}
        \/ i = "noDataDisk"     /\ topology = "split" /\ draft.dataDisk = NoDisk
        \/ i = "sameDisk"       /\ topology = "split" /\ draft.dataDisk # NoDisk
                                /\ draft.dataDisk = draft.sysDisk
        \/ i = "dataDisk"       /\ topology \in {"single", "manual"} /\ draft.dataDisk # NoDisk }

(* buildInstallSecretsPayload: what is sent beside the plan. *)
Secrets(draft) ==
    [adminPassword |-> draft.adminPassword,
     adminPasswordConfirm |-> draft.adminPasswordConfirm,
     wanPppoePassword |-> IF draft.wanMode = "pppoe" THEN {draft.pppoePassword} ELSE {}]

PasswordIssues(draft) ==
    LET secrets == Secrets(draft) IN
    { i \in {"noPassword", "weakPassword", "mismatch"} :
        \/ i = "noPassword"   /\ secrets.adminPassword = ""
        \/ i = "weakPassword" /\ secrets.adminPassword = "weak" /\ ~draft.allowWeakPassword
        \/ i = "mismatch"     /\ secrets.adminPassword # secrets.adminPasswordConfirm }

UsersIssues(draft) ==
    PasswordIssues(draft) \cup
    { i \in {"adminUser", "adminFullName", "adminEmail"} :
        \/ i = "adminUser"     /\ draft.adminUser = ""
        \/ i = "adminFullName" /\ draft.adminFullName = ""
        \/ i = "adminEmail"    /\ draft.adminEmail # "valid" }

(* Mutant: the confirmation is asked on the disks step alone. *)
FinalIssues_Unconfirmed(draft, ui, insecureRepos) ==
    PlanReasons(draft, insecureRepos) \cup PasswordIssues(draft) \cup ui.storageBlockingIssues

(* Summary and install are judged alike: the plan, the passwords, what the
   disks page last said, and the confirmation. *)
FinalIssues(draft, ui, insecureRepos) ==
    PlanReasons(draft, insecureRepos) \cup PasswordIssues(draft) \cup ui.storageBlockingIssues
        \cup {i \in {"unconfirmed"} : ~ui.destructiveConfirmed}

ValidateStep(step, draft, ui, insecureRepos) ==
    CASE step = "eula"     -> EulaIssues(ui)
      [] step = "source"   -> SourceIssues(draft, ui)
      [] step = "timezone" -> TimezoneIssues(draft)
      [] step = "network"  -> NetworkIssues(draft, ui)
      [] step = "disks"    -> DisksIssues(draft, ui)
      [] step = "users"    -> UsersIssues(draft)
      [] step \in {"summary", "install"} -> FinalIssues(draft, ui, insecureRepos)
      [] OTHER -> {}
=============================================================================
