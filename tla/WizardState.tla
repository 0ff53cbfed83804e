----------------------------- MODULE WizardState ------------------------------
(* What the wizard remembers (ui/src/state/wizardState.js): the draft of the
   plan and the transient state of the pages, both kept in the browser's
   storage, and how a page changes them.

   Names, addresses and passwords are classes of values, as far as anything in
   the wizard tells them apart: "" is empty, "valid" and "invalid" what the
   validators say; a list of name servers may also hold one twice.  Interfaces,
   repositories and disks are positive numbers, 0 is none.  A password is "",
   "weak" or "strong".  The pin on the map, with its coordinates and country, is
   the zone it stands for. *)
LOCAL INSTANCE Integers
LOCAL INSTANCE FiniteSets
LOCAL INSTANCE Sequences

NoRepo == 0
NoIface == 0
NoZone == ""

SourceKinds == {"offline-defaults", "github-user-repo", "github-create-from-template", "template"}
CloneStates == {"idle", "none", "cloning", "ready", "error"}
Values == {"", "valid", "invalid", "twice"}
Passwords == {"", "weak", "strong"}
StorageModes == {"automatic", "manual", "lvm", "raid"}
Filesystems == {"btrfs", "zfs", "ext4", "xfs"}

InitialDraft ==
    [sourceKind |-> "offline-defaults", sourceRepoUrl |-> NoRepo,
     profileId |-> "desktop", selectedFeatures |-> {},
     uiLanguage |-> "pt-BR", country |-> "BR", consoleKeymap |-> "br-abnt2",
     keyMap |-> "br-abnt2", timeZone |-> "America/Cuiaba",
     hostName |-> "valid", mgmtInterface |-> NoIface, mgmtMode |-> "dhcp",
     serverIp |-> "", mgmtGateway |-> "", mgmtDns |-> "valid", httpPort |-> "valid",
     wanInterface |-> NoIface, wanMode |-> "dhcp", wanAddress |-> "", wanGateway |-> "",
     wanDns |-> "", pppoeUser |-> "", pppoePassword |-> "",
     storageMode |-> "automatic", sysDisk |-> 0, dataDisk |-> 0, selectedDisks |-> <<>>,
     rootFs |-> "btrfs", dataFs |-> "btrfs", luksEnabled |-> FALSE,
     zfsUserRefquota |-> "", btrfsUserQgroupLimit |-> "",
     adminUser |-> "valid", adminFullName |-> "", adminEmail |-> "valid",
     adminPassword |-> "", adminPasswordConfirm |-> "", allowWeakPassword |-> FALSE,
     adminAuthorizedKeys |-> ""]

InitialUi ==
    [eulaAccepted |-> FALSE, timeZonePin |-> NoZone, githubSourceStatus |-> "idle",
     netConnected |-> FALSE, netOffline |-> FALSE, netApplyBusy |-> FALSE,
     lanIdentified |-> FALSE,
     storageBlockingIssues |-> {}, destructiveConfirmed |-> FALSE, installRunning |-> FALSE]

DraftFields == DOMAIN InitialDraft
UiFields == DOMAIN InitialUi

NumberFields == {"sourceRepoUrl", "mgmtInterface", "wanInterface", "sysDisk", "dataDisk"}
ClassFields ==
    {"hostName", "serverIp", "mgmtGateway", "mgmtDns", "httpPort", "wanAddress", "wanGateway",
     "wanDns", "pppoeUser", "pppoePassword", "zfsUserRefquota", "btrfsUserQgroupLimit",
     "adminUser", "adminFullName", "adminEmail", "adminAuthorizedKeys"}

(* What a field of the draft may hold; the profile, the features and the texts of
   the locale are judged by the catalogues. *)
DraftHolds(field, value) ==
    CASE field \in NumberFields -> value \in Nat
      [] field \in ClassFields -> value \in Values
      [] field = "sourceKind" -> value \in SourceKinds
      [] field = "mgmtMode" -> value \in {"dhcp", "static"}
      [] field = "wanMode" -> value \in {"dhcp", "static", "pppoe"}
      [] field = "storageMode" -> value \in StorageModes
      [] field = "selectedDisks" -> value \in Seq(Nat)
      [] field \in {"rootFs", "dataFs"} -> value \in Filesystems
      [] field \in {"adminPassword", "adminPasswordConfirm"} -> value \in Passwords
      [] field \in {"luksEnabled", "allowWeakPassword"} -> value \in BOOLEAN
      [] OTHER -> TRUE

UiHolds(field, value) ==
    CASE field = "githubSourceStatus" -> value \in CloneStates
      [] field = "timeZonePin" -> TRUE
      [] field = "storageBlockingIssues" -> IsFiniteSet(value)
      [] OTHER -> value \in BOOLEAN

DraftTypeOK(draft) ==
    DOMAIN draft = DraftFields /\ \A f \in DraftFields : DraftHolds(f, draft[f])

UiTypeOK(ui) == DOMAIN ui = UiFields /\ \A f \in UiFields : UiHolds(f, ui[f])

(* Mutant: a key that the record does not know is kept. *)
Patched_KeepsUnknownKeys(record, patch) ==
    [f \in DOMAIN record \cup DOMAIN patch |->
        IF f \in DOMAIN patch THEN patch[f] ELSE record[f]]

(* createInstallPlanDraft, extractUiTransientState: the fields of the patch
   that the record knows; a key it does not know is dropped without a word. *)
Patched(record, patch) ==
    [f \in DOMAIN record |-> IF f \in DOMAIN patch THEN patch[f] ELSE record[f]]
=============================================================================
