----------------------------- MODULE Wizard_proofs -----------------------------
(***************************************************************************)
(* The wizard, for every set of repositories, interfaces, inventories and  *)
(* imported files, and however the user moves about.                       *)
(*                                                                         *)
(* A step is left forwards only when its page has nothing to complain of,  *)
(* but it is left for good: nothing looks again at the source, the zone or *)
(* the network before the installation.  What makes them still true there  *)
(* is that no later page and no late answer touches what they are about,   *)
(* which is said here field by field (Only) and step by step (Passed).     *)
(***************************************************************************)
EXTENDS Wizard, TLAPS

(* What each step demands, as conditions on the fields it looks at. *)
SourceOK(w, u) ==
    /\ w.sourceKind = "github-user-repo"
         => w.sourceRepoUrl # NoRepo /\ u.githubSourceStatus = "ready"
    /\ w.sourceKind # "github-create-from-template"

AddressingOK(w) ==
    w.mgmtMode = "static" => /\ w.serverIp = "valid" /\ w.mgmtGateway = "valid"
                             /\ ValidDns(w.mgmtDns)

UplinkOK(w) ==
    w.wanInterface # NoIface =>
      /\ w.wanInterface # w.mgmtInterface
      /\ w.wanMode = "static" => /\ w.wanAddress = "valid" /\ w.wanGateway = "valid"
                                 /\ ValidDns(w.wanDns)
      /\ w.wanMode = "pppoe" => w.pppoeUser # "" /\ w.pppoePassword # ""

NetworkOK(w) ==
    /\ w.hostName = "valid" /\ w.mgmtInterface # NoIface /\ w.httpPort = "valid"
    /\ AddressingOK(w)
    /\ UplinkOK(w)

UsersOK(w) ==
    /\ w.adminPassword # "" /\ w.adminPassword = w.adminPasswordConfirm
    /\ w.adminPassword = "weak" => w.allowWeakPassword
    /\ w.adminUser # "" /\ w.adminFullName # "" /\ w.adminEmail = "valid"

(* One disk, of those the last inventory lists as eligible. *)
DiskOK(w, d) ==
    /\ w.sysDisk \in Disks!Eligible(d)
    /\ w.dataDisk = NoDisk

-----------------------------------------------------------------------------
(* The inductive invariant. *)

PageFields == {"mounted", "inventory", "loading", "error", "confirmed"}
NetFields == {"mounted", "booting", "names", "checks", "applying"}

Shape ==
    /\ DOMAIN draft = DraftFields /\ DOMAIN ui = UiFields
    /\ disks = [f \in PageFields |-> disks[f]]
    /\ net = [f \in NetFields |-> net[f]]
    /\ stepIndex \in 1..10
    /\ blank => stepIndex = 10

(* A page is mounted while its step is shown; the network is only applied while
   its page holds the wizard. *)
PagesShown ==
    /\ disks.mounted <=> stepIndex = 7
    /\ net.mounted <=> stepIndex = 5
    /\ net.applying => ui.netApplyBusy /\ stepIndex = 5

(* The disks page has reported what it shows. *)
Reported ==
    disks.mounted => ui.storageBlockingIssues = Disks!ReportedIssues(draft, disks)

(* A clone that nothing overtook is the one the wizard waits for. *)
CloneIsForThisSource ==
    ~detour => \/ clones = {}
               \/ /\ clones = {draft.sourceRepoUrl}
                  /\ ui.githubSourceStatus = "cloning"
                  /\ draft.sourceKind = "github-user-repo"

(* What the steps passed demanded still holds. *)
Passed ==
    ~imported =>
      /\ draft.storageMode \in {"automatic", "manual"}
      /\ stepIndex > 3 => SourceOK(draft, ui) \/ detour
      /\ stepIndex > 4 => CanonicalTimezone(draft.timeZone)
      /\ stepIndex > 5 => NetworkOK(draft)
      /\ stepIndex > 7 => DiskOK(draft, disks)
      /\ stepIndex > 8 => UsersOK(draft)

WInv ==
    /\ Shape
    /\ PagesShown
    /\ Reported
    /\ EulaFirst
    /\ CloneIsForThisSource
    /\ ReadyIsForThisSource
    /\ Passed

-----------------------------------------------------------------------------
(* Fields *)

(* Nothing but these fields is changed. *)
Only(fields) ==
    /\ DOMAIN draft' = DOMAIN draft /\ DOMAIN ui' = DOMAIN ui
    /\ \A f \in DOMAIN draft \ fields : draft'[f] = draft[f]
    /\ \A f \in DOMAIN ui \ fields : ui'[f] = ui[f]

SourceFields == {"sourceKind", "sourceRepoUrl", "githubSourceStatus"}
ZoneFields == {"country", "locale", "timeZone", "keyMap", "consoleKeymap", "uiLanguage",
               "timeZonePin"}
AddressFields == {"hostName", "mgmtInterface", "mgmtMode", "serverIp", "mgmtGateway",
                  "mgmtDns", "httpPort"}
UplinkFields == {"wanInterface", "wanMode", "wanAddress", "wanGateway", "wanDns",
                 "pppoeUser", "pppoePassword"}
LinkFields == {"netConnected", "netOffline", "netApplyBusy", "lanIdentified"}
NetworkFields == AddressFields \cup UplinkFields \cup LinkFields
FeatureFields == {"profileId", "selectedFeatures"}
DiskFields == {"sysDisk", "dataDisk", "selectedDisks", "rootFs", "dataFs",
               "storageBlockingIssues", "destructiveConfirmed"}
UserFields == {"adminUser", "adminFullName", "adminEmail", "adminAuthorizedKeys",
               "adminPassword", "adminPasswordConfirm", "allowWeakPassword"}

LEMMA DraftHas ==
    {"sourceKind", "sourceRepoUrl", "timeZone", "storageMode", "sysDisk", "dataDisk"}
      \cup AddressFields \cup UplinkFields \cup UserFields \subseteq DraftFields
BY DEF DraftFields, InitialDraft, AddressFields, UplinkFields, UserFields

LEMMA UiHas ==
    /\ {"eulaAccepted", "githubSourceStatus", "netApplyBusy", "storageBlockingIssues",
        "destructiveConfirmed"} \subseteq UiFields
    /\ UiFields \cap DraftFields = {}
BY DEF UiFields, InitialUi, DraftFields, InitialDraft

LEMMA ChangeOnly ==
    ASSUME NEW patch, NEW fields, DOMAIN patch \subseteq fields, Change(patch)
    PROVE  Only(fields)
BY DEF Change, Patched, Only

LEMMA NothingChanged ==
    ASSUME UNCHANGED <<draft, ui>>, NEW fields PROVE Only(fields)
BY DEF Only

(* The pages change the same draft as the wizard. *)
LEMMA SourceChange == ASSUME NEW patch, Source!Change(patch) PROVE Change(patch)
BY DEF Source!Change, Source!Patched, Change, Patched

LEMMA NetworkChange == ASSUME NEW patch, Network!Change(patch) PROVE Change(patch)
BY DEF Network!Change, Network!Patched, Change, Patched

LEMMA FeaturesChange == ASSUME NEW patch, Features!Change(patch) PROVE Change(patch)
BY DEF Features!Change, Features!Patched, Change, Patched

-----------------------------------------------------------------------------
(* What each step of the wizard touches. *)

LEMMA EulaTouches == ASSUME AcceptEula PROVE Only({"eulaAccepted"})
<1> DEFINE patch == [eulaAccepted |-> ~ui.eulaAccepted]
<1>1. Change(patch) /\ DOMAIN patch = {"eulaAccepted"}
  BY DEF AcceptEula
<1> HIDE DEF patch
<1> QED BY <1>1, ChangeOnly

LEMMA WelcomeTouches == ASSUME WelcomePageStep PROVE Only(ZoneFields)
<1>1. ASSUME NEW country, ApplyCountry(country) PROVE Only(ZoneFields)
  <2>1. \E patch : Change(patch) /\ DOMAIN patch \subseteq ZoneFields
    <3>1. CASE country \in DOMAIN CountryPresets
      <4> DEFINE preset == CountryPresets[country]
                 patch == [country |-> country, locale |-> country, timeZone |-> preset[1],
                           keyMap |-> preset[2], consoleKeymap |-> preset[2],
                           timeZonePin |-> NoZone]
      <4>1. Change(patch)
        BY <1>1, <3>1 DEF ApplyCountry
      <4>2. DOMAIN patch \subseteq ZoneFields
        BY DEF ZoneFields
      <4> HIDE DEF patch
      <4> QED BY <4>1, <4>2
    <3>2. CASE country \notin DOMAIN CountryPresets
      <4> DEFINE patch == [country |-> country]
      <4>1. Change(patch)
        BY <1>1, <3>2 DEF ApplyCountry
      <4>2. DOMAIN patch \subseteq ZoneFields
        BY DEF ZoneFields
      <4> HIDE DEF patch
      <4> QED BY <4>1, <4>2
    <3> QED BY <3>1, <3>2
  <2> QED BY <2>1, ChangeOnly
<1>2. ASSUME NEW language, ChooseLanguage(language) PROVE Only(ZoneFields)
  <2> DEFINE patch == [uiLanguage |-> language]
  <2>1. Change(patch) /\ DOMAIN patch \subseteq ZoneFields
    BY <1>2 DEF ChooseLanguage, ZoneFields
  <2> HIDE DEF patch
  <2> QED BY <2>1, ChangeOnly
<1>3. ASSUME NEW keymap, ChooseKeymap(keymap) PROVE Only(ZoneFields)
  <2> DEFINE patch == [keyMap |-> keymap, consoleKeymap |-> keymap]
  <2>1. Change(patch) /\ DOMAIN patch \subseteq ZoneFields
    BY <1>3 DEF ChooseKeymap, ZoneFields
  <2> HIDE DEF patch
  <2> QED BY <2>1, ChangeOnly
<1> QED BY <1>1, <1>2, <1>3 DEF WelcomePageStep

LEMMA TimezoneTouches == ASSUME TimezonePageStep PROVE Only(ZoneFields)
<1>1. PICK zone : ApplyLocation(zone)
  BY DEF TimezonePageStep, ChooseFromList, ClickMap, SwitchToUtc
<1> DEFINE patch == [timeZone |-> zone, timeZonePin |-> zone]
<1>2. Change(patch) /\ DOMAIN patch \subseteq ZoneFields
  BY <1>1 DEF ApplyLocation, ZoneFields
<1> HIDE DEF patch
<1> QED BY <1>2, ChangeOnly

LEMMA UserTouches == ASSUME EditUser PROVE Only(UserFields)
<1>1. \E patch : Change(patch) /\ DOMAIN patch \subseteq UserFields
  BY DEF EditUser, UserFields
<1> QED BY <1>1, ChangeOnly

LEMMA ConfirmTouches == ASSUME ConfirmDestruction PROVE Only({"destructiveConfirmed"})
<1> DEFINE patch == [destructiveConfirmed |-> ~ui.destructiveConfirmed]
<1>1. Change(patch) /\ DOMAIN patch = {"destructiveConfirmed"}
  BY DEF ConfirmDestruction
<1> HIDE DEF patch
<1> QED BY <1>1, ChangeOnly

LEMMA ImportTouches == ASSUME ImportPlan PROVE Only(ImportedFields)
<1>1. PICK file \in Imports :
        draft' = Patched(draft, ImportedPatch(file)) /\ ui' = Patched(ui, ImportedPatch(file))
  BY DEF ImportPlan
<1>2. DOMAIN ImportedPatch(file) \subseteq ImportedFields
  BY DEF ImportedPatch
<1> QED BY <1>1, <1>2, ChangeOnly DEF Change

LEMMA SourceTouches == ASSUME SourcePageStep \/ CloneAnswered PROVE Only(SourceFields)
<1>1. ASSUME NEW kind, Source!ChooseKind(kind) PROVE Only(SourceFields)
  <2>1. CASE kind \in Source!GithubKinds
    <3> DEFINE patch == [sourceKind |-> kind, githubSourceStatus |-> "none"]
    <3>1. Source!Change(patch) /\ DOMAIN patch \subseteq SourceFields
      BY <1>1, <2>1 DEF Source!ChooseKind, SourceFields
    <3> HIDE DEF patch
    <3> QED BY <3>1, SourceChange, ChangeOnly
  <2>2. CASE kind \notin Source!GithubKinds
    <3> DEFINE patch == [sourceKind |-> kind]
    <3>1. Source!Change(patch) /\ DOMAIN patch \subseteq SourceFields
      BY <1>1, <2>2 DEF Source!ChooseKind, SourceFields
    <3> HIDE DEF patch
    <3> QED BY <3>1, SourceChange, ChangeOnly
  <2> QED BY <2>1, <2>2
<1>2. ASSUME NEW repo, Source!EditRepository(repo) PROVE Only(SourceFields)
  <2> DEFINE patch == [sourceRepoUrl |-> repo, githubSourceStatus |-> "none"]
  <2>1. Source!Change(patch) /\ DOMAIN patch \subseteq SourceFields
    BY <1>2 DEF Source!EditRepository, SourceFields
  <2> HIDE DEF patch
  <2> QED BY <2>1, SourceChange, ChangeOnly
<1>3. ASSUME NEW status, Source!Change([githubSourceStatus |-> status])
      PROVE  Only(SourceFields)
  <2> DEFINE patch == [githubSourceStatus |-> status]
  <2>1. Source!Change(patch) /\ DOMAIN patch \subseteq SourceFields
    BY <1>3 DEF SourceFields
  <2> HIDE DEF patch
  <2> QED BY <2>1, SourceChange, ChangeOnly
<1> QED
  BY <1>1, <1>2, <1>3
     DEF SourcePageStep, CloneAnswered, Source!PrepareRepo, Source!CloneSucceeds,
         Source!CloneFails

LEMMA FeaturesTouch == ASSUME FeaturesPageStep PROVE Only(FeatureFields)
<1>1. ASSUME NEW features, Features!Select(features) PROVE Only(FeatureFields)
  <2> DEFINE patch == [selectedFeatures |-> features]
  <2>1. Features!Change(patch) /\ DOMAIN patch \subseteq FeatureFields
    BY <1>1 DEF Features!Select, FeatureFields
  <2> HIDE DEF patch
  <2> QED BY <2>1, FeaturesChange, ChangeOnly
<1>2. ASSUME NEW profile, Features!SelectProfile(profile) PROVE Only(FeatureFields)
  <2> DEFINE patch == [profileId |-> profile, selectedFeatures |-> Features!ProfileFeatures[profile]]
  <2>1. Features!Change(patch) /\ DOMAIN patch \subseteq FeatureFields
    BY <1>2 DEF Features!SelectProfile, FeatureFields
  <2> HIDE DEF patch
  <2> QED BY <2>1, FeaturesChange, ChangeOnly
<1> QED
  BY <1>1, <1>2, NothingChanged
     DEF FeaturesPageStep, Features!ToggleFeature, Features!ApplyPreset,
         Features!RestoreProfile, Features!ClearSystemFeatures,
         Features!ConfirmFeature, Features!CancelFeature

(* Whether the network is being applied is only said by applying it and by its
   answers. *)
QuietFields == NetworkFields \ {"netApplyBusy"}
Applies == \/ Network!ApplyNetwork \/ Network!NetworkApplied
           \/ Network!NetworkNotApplied \/ Network!ApplyFails

LEMMA NetworkTouches ==
    ASSUME NetworkPageStep \/ NetworkAnswered
    PROVE  Only(NetworkFields) /\ (Only(QuietFields) \/ Applies)
<1>1. ASSUME NEW field \in QuietFields, NEW value, Network!Change([f \in {field} |-> value])
      PROVE  Only(QuietFields)
  <2> DEFINE patch == [f \in {field} |-> value]
  <2>1. Network!Change(patch) /\ DOMAIN patch \subseteq QuietFields
    BY <1>1
  <2> HIDE DEF patch
  <2> QED BY <2>1, NetworkChange, ChangeOnly
<1>2. ASSUME NEW i, Network!ChooseInterface(i) PROVE Only(QuietFields)
  <2> DEFINE patch == [mgmtInterface |-> i, lanIdentified |-> FALSE]
  <2>1. Network!Change(patch) /\ DOMAIN patch \subseteq QuietFields
    BY <1>2 DEF Network!ChooseInterface, QuietFields, NetworkFields, AddressFields, LinkFields
  <2> HIDE DEF patch
  <2> QED BY <2>1, NetworkChange, ChangeOnly
<1>3. ASSUME NEW i, Network!ChooseUplink(i) PROVE Only(QuietFields)
  <2>1. CASE i # NoIface
    <3> DEFINE patch == [wanInterface |-> i]
    <3>1. Network!Change(patch) /\ DOMAIN patch \subseteq QuietFields
      BY <1>3, <2>1 DEF Network!ChooseUplink, QuietFields, NetworkFields, UplinkFields, NoIface, Network!NoIface
    <3> HIDE DEF patch
    <3> QED BY <3>1, NetworkChange, ChangeOnly
  <2>2. CASE i = NoIface
    <3> DEFINE patch == [wanInterface |-> NoIface, wanMode |-> "dhcp", wanAddress |-> "",
                         wanGateway |-> "", wanDns |-> "", pppoeUser |-> "",
                         pppoePassword |-> ""]
    <3>1. Network!Change(patch)
      BY <1>3, <2>2 DEF Network!ChooseUplink, NoIface, Network!NoIface
    <3>2. DOMAIN patch \subseteq QuietFields
      BY DEF QuietFields, NetworkFields, UplinkFields
    <3> HIDE DEF patch
    <3> QED BY <3>1, <3>2, NetworkChange, ChangeOnly
  <2> QED BY <2>1, <2>2
<1>4. ASSUME NEW mode, Network!ChooseMode(mode) PROVE Only(QuietFields)
  <2> DEFINE patch == [mgmtMode |-> mode]
  <2>1. Network!Change(patch) /\ DOMAIN patch \subseteq QuietFields
    BY <1>4 DEF Network!ChooseMode, QuietFields, NetworkFields, AddressFields
  <2> HIDE DEF patch
  <2> QED BY <2>1, NetworkChange, ChangeOnly
<1>5. ASSUME NEW mode, Network!ChooseUplinkMode(mode) PROVE Only(QuietFields)
  <2> DEFINE patch == [wanMode |-> mode]
  <2>1. Network!Change(patch) /\ DOMAIN patch \subseteq QuietFields
    BY <1>5 DEF Network!ChooseUplinkMode, QuietFields, NetworkFields, UplinkFields
  <2> HIDE DEF patch
  <2> QED BY <2>1, NetworkChange, ChangeOnly
<1>6. ASSUME NEW field, NEW value, Network!EditField(field, value) PROVE Only(QuietFields)
  <2>1. Network!ShownFields \subseteq QuietFields
    BY DEF Network!ShownFields, Network!LanFields, Network!UplinkFields,
           QuietFields, NetworkFields, AddressFields, UplinkFields
  <2>2. field \in QuietFields /\ Network!Change([f \in {field} |-> value])
    BY <1>6, <2>1 DEF Network!EditField
  <2> QED BY <1>1, <2>2
<1>7. ASSUME Network!IdentifyLan PROVE Only(QuietFields)
  <2> DEFINE patch == [lanIdentified |-> ~ui.lanIdentified]
  <2>1. Network!Change(patch) /\ DOMAIN patch \subseteq QuietFields
    BY <1>7 DEF Network!IdentifyLan, QuietFields, NetworkFields, LinkFields
  <2> HIDE DEF patch
  <2> QED BY <2>1, NetworkChange, ChangeOnly
<1>8. ASSUME Network!ContinueOffline PROVE Only(QuietFields)
  <2> DEFINE patch == [netOffline |-> TRUE, netConnected |-> FALSE]
  <2>1. Network!Change(patch) /\ DOMAIN patch \subseteq QuietFields
    BY <1>8 DEF Network!ContinueOffline, QuietFields, NetworkFields, LinkFields
  <2> HIDE DEF patch
  <2> QED BY <2>1, NetworkChange, ChangeOnly
<1>9. ASSUME NEW busy, Network!Change([netApplyBusy |-> busy]) PROVE Only(NetworkFields)
  <2> DEFINE patch == [netApplyBusy |-> busy]
  <2>1. Network!Change(patch) /\ DOMAIN patch \subseteq NetworkFields
    BY <1>9 DEF NetworkFields, LinkFields
  <2> HIDE DEF patch
  <2> QED BY <2>1, NetworkChange, ChangeOnly
<1>10. ASSUME NEW i, Network!Change([mgmtInterface |-> i]) PROVE Only(QuietFields)
  <2> DEFINE patch == [mgmtInterface |-> i]
  <2>1. Network!Change(patch) /\ DOMAIN patch \subseteq QuietFields
    BY <1>10 DEF QuietFields, NetworkFields, AddressFields
  <2> HIDE DEF patch
  <2> QED BY <2>1, NetworkChange, ChangeOnly
<1>11. ASSUME Network!StatusArrives PROVE Only(QuietFields)
  <2>1. ASSUME Network!Change([netConnected |-> TRUE, netOffline |-> FALSE,
                               serverIp |-> "valid"])
        PROVE  Only(QuietFields)
    <3> DEFINE patch == [netConnected |-> TRUE, netOffline |-> FALSE, serverIp |-> "valid"]
    <3>1. Network!Change(patch) /\ DOMAIN patch \subseteq QuietFields
      BY <2>1 DEF QuietFields, NetworkFields, AddressFields, LinkFields
    <3> HIDE DEF patch
    <3> QED BY <3>1, NetworkChange, ChangeOnly
  <2>2. ASSUME Network!Change([netConnected |-> FALSE]) PROVE Only(QuietFields)
    <3> DEFINE patch == [netConnected |-> FALSE]
    <3>1. Network!Change(patch) /\ DOMAIN patch \subseteq QuietFields
      BY <2>2 DEF QuietFields, NetworkFields, LinkFields
    <3> HIDE DEF patch
    <3> QED BY <3>1, NetworkChange, ChangeOnly
  <2> QED BY <1>11, <2>1, <2>2, NothingChanged DEF Network!StatusArrives
<1>12. ASSUME Network!NetworkApplied PROVE Only(NetworkFields)
  <2>1. ASSUME NEW gateway, NEW dns,
               Network!Change([netApplyBusy |-> FALSE, serverIp |-> "valid",
                               mgmtGateway |-> gateway, mgmtDns |-> dns])
        PROVE  Only(NetworkFields)
    <3> DEFINE patch == [netApplyBusy |-> FALSE, serverIp |-> "valid",
                         mgmtGateway |-> gateway, mgmtDns |-> dns]
    <3>1. Network!Change(patch) /\ DOMAIN patch \subseteq NetworkFields
      BY <2>1 DEF NetworkFields, AddressFields, LinkFields
    <3> HIDE DEF patch
    <3> QED BY <3>1, NetworkChange, ChangeOnly
  <2> QED BY <1>12, <2>1 DEF Network!NetworkApplied
<1>13. Network!ConnectWifi \/ Network!RefreshInterfaces => Only(QuietFields)
  BY NothingChanged DEF Network!ConnectWifi, Network!RefreshInterfaces
<1>14. Network!ApplyNetwork \/ Network!NetworkNotApplied \/ Network!ApplyFails
          => Only(NetworkFields)
  BY <1>9 DEF Network!ApplyNetwork, Network!NetworkNotApplied, Network!ApplyFails
<1>15. Network!InterfacesArrive => Only(QuietFields)
  BY <1>10 DEF Network!InterfacesArrive
<1>16. Only(QuietFields) \/ (Applies /\ Only(NetworkFields))
  <2>1. CASE NetworkPageStep
    BY <2>1, <1>2, <1>3, <1>4, <1>5, <1>6, <1>7, <1>8, <1>13, <1>14
       DEF NetworkPageStep, Applies
  <2>2. CASE NetworkAnswered
    BY <2>2, <1>11, <1>12, <1>13, <1>14, <1>15 DEF NetworkAnswered, Applies
  <2> QED BY <2>1, <2>2
<1>17. Only(QuietFields) => Only(NetworkFields)
  BY DEF Only, QuietFields
<1> QED BY <1>16, <1>17

-----------------------------------------------------------------------------
(* The steps by their number. *)

LEMMA StepNumbers ==
    ASSUME NEW i \in 1..10
    PROVE  /\ Steps[i] = "welcome" <=> i = 1
           /\ Steps[i] = "eula" <=> i = 2
           /\ Steps[i] = "source" <=> i = 3
           /\ Steps[i] = "timezone" <=> i = 4
           /\ Steps[i] = "network" <=> i = 5
           /\ Steps[i] = "systemFeatures" <=> i = 6
           /\ Steps[i] = "disks" <=> i = 7
           /\ Steps[i] = "users" <=> i = 8
           /\ Steps[i] = "summary" <=> i = 9
           /\ Steps[i] = "install" <=> i = 10
BY DEF Steps

LEMMA EulaNumber == StepOf("eula") = 2
<1>1. DOMAIN Steps = 1..10
  BY DEF Steps
<1> QED BY <1>1, StepNumbers DEF StepOf

-----------------------------------------------------------------------------
(* The disks page. *)

(* Its changes, also those it makes of its own accord, leave its report up to
   date.  A patch may be a whole draft that differs in these fields alone. *)
LEMMA DisksChange ==
    ASSUME Shape, NEW patch, NEW d, Disks!ChangeDisks(patch, d), NEW fields,
           {"storageBlockingIssues", "destructiveConfirmed"} \subseteq fields,
           \A f \in DOMAIN patch \ fields : f \in DraftFields /\ patch[f] = draft[f]
    PROVE  Only(fields) /\ disks' = d /\ Reported'
<1>1. disks' = d /\ draft' = Patched(draft, patch)
  BY DEF Disks!ChangeDisks, Disks!Patched, Patched
<1> DEFINE before == Patched(ui, patch)
           report == [destructiveConfirmed |-> d.confirmed,
                      storageBlockingIssues |-> Disks!ReportedIssues(draft', d)]
<1>2. /\ DOMAIN report = {"destructiveConfirmed", "storageBlockingIssues"}
      /\ report["storageBlockingIssues"] = Disks!ReportedIssues(draft', d)
  OBVIOUS
<1>3. ui' = IF d.mounted THEN Patched(before, report) ELSE before
  BY <1>1 DEF Disks!ChangeDisks, Disks!Settled, Disks!Patched, Patched
<1>4. DOMAIN before = UiFields /\ \A f \in UiFields \ fields : before[f] = ui[f]
  BY UiHas DEF Shape, Patched
<1> HIDE DEF before, report
<1>5. DOMAIN draft' = DraftFields /\ \A f \in DraftFields \ fields : draft'[f] = draft[f]
  BY <1>1 DEF Shape, Patched
<1>6. DOMAIN ui' = UiFields /\ \A f \in UiFields \ fields : ui'[f] = ui[f]
  BY <1>2, <1>3, <1>4 DEF Patched
<1>7. d.mounted => ui'.storageBlockingIssues = Disks!ReportedIssues(draft', d)
  BY <1>2, <1>3, <1>4, UiHas DEF Patched
<1> QED BY <1>1, <1>5, <1>6, <1>7 DEF Shape, Only, Reported

LEMMA DisksShape ==
    ASSUME Shape
    PROVE  /\ Disks!FreshDisks = [f \in PageFields |-> Disks!FreshDisks[f]]
           /\ Disks!FreshDisks.mounted
           /\ Disks!LeavesDisks = [f \in PageFields |-> Disks!LeavesDisks[f]]
           /\ ~Disks!LeavesDisks.mounted
           /\ Disks!LeavesDisks.inventory = disks.inventory
<1>1. Disks!LeavesDisks = [[[[disks EXCEPT !.mounted = FALSE] EXCEPT !.loading = FALSE]
                              EXCEPT !.error = FALSE] EXCEPT !.confirmed = FALSE]
  BY DEF Disks!LeavesDisks
<1> QED BY <1>1 DEF Shape, PageFields, Disks!FreshDisks

(* What is done on the disks page, by the user or by an answer. *)
LEMMA DisksTouches ==
    ASSUME Shape, DisksPageStep \/ DisksAnswered
    PROVE  /\ \/ Only(DiskFields)
              \/ /\ Only(DiskFields \cup {"storageMode"})
                 /\ draft'.storageMode \in {"automatic", "manual"}
           /\ Reported'
           /\ disks' = [f \in PageFields |-> disks'[f]]
           /\ disks'.mounted = disks.mounted
<1> DEFINE Lasting(d) == d = [f \in PageFields |-> d[f]] /\ d.mounted = disks.mounted
           Report == {"storageBlockingIssues", "destructiveConfirmed"}
<1>1. Report \subseteq DiskFields
  BY DEF DiskFields
<1>2. ASSUME NEW patch, NEW d, Disks!ChangeDisks(patch, d), DOMAIN patch \subseteq DiskFields,
             Lasting(d)
      PROVE  Only(DiskFields) /\ Reported' /\ Lasting(disks')
  BY <1>1, <1>2, DisksChange
<1>3. Lasting(disks)
  BY DEF Shape
<1>4. ASSUME Disks!ChooseTab
      PROVE  /\ Only(DiskFields \cup {"storageMode"})
             /\ draft'.storageMode \in {"automatic", "manual"}
             /\ Reported' /\ disks' = disks
  <2>1. PICK mode \in {"automatic", "manual"} : Disks!ChangeDisks([storageMode |-> mode], disks)
    BY <1>4 DEF Disks!ChooseTab
  <2> DEFINE patch == [storageMode |-> mode]
  <2>2. DOMAIN patch = {"storageMode"} /\ patch["storageMode"] = mode
    OBVIOUS
  <2>3. Disks!ChangeDisks(patch, disks)
    BY <2>1
  <2> HIDE DEF patch
  <2>4. Only(DiskFields \cup {"storageMode"}) /\ Reported' /\ disks' = disks
    BY <1>1, <2>2, <2>3, DisksChange
  <2>5. draft'.storageMode = mode
    BY <2>2, <2>3, DraftHas DEF Shape, Disks!ChangeDisks, Disks!Patched
  <2> QED BY <2>4, <2>5
<1>5. ASSUME Disks!PickDisk \/ Disks!ChooseFilesystem
      PROVE  \E patch : Disks!ChangeDisks(patch, disks) /\ DOMAIN patch \subseteq DiskFields
  <2>1. ASSUME NEW p PROVE DOMAIN Disks!PickDiskPatch(p) \subseteq DiskFields
    BY DEF Disks!PickDiskPatch, Disks!AsSystemDisk, Disks!AsDataDisk, DiskFields
  <2>2. ASSUME NEW fs, Disks!ChangeDisks([rootFs |-> fs], disks)
        PROVE  \E patch : Disks!ChangeDisks(patch, disks) /\ DOMAIN patch \subseteq DiskFields
    <3> DEFINE patch == [rootFs |-> fs]
    <3>1. Disks!ChangeDisks(patch, disks) /\ DOMAIN patch \subseteq DiskFields
      BY <2>2 DEF DiskFields
    <3> HIDE DEF patch
    <3> QED BY <3>1
  <2>3. ASSUME NEW fs, Disks!ChangeDisks([dataFs |-> fs], disks)
        PROVE  \E patch : Disks!ChangeDisks(patch, disks) /\ DOMAIN patch \subseteq DiskFields
    <3> DEFINE patch == [dataFs |-> fs]
    <3>1. Disks!ChangeDisks(patch, disks) /\ DOMAIN patch \subseteq DiskFields
      BY <2>3 DEF DiskFields
    <3> HIDE DEF patch
    <3> QED BY <3>1
  <2> QED BY <1>5, <2>1, <2>2, <2>3 DEF Disks!PickDisk, Disks!ChooseFilesystem
<1>6. ASSUME NEW d, Disks!ChangeDisks(<<>>, d), Lasting(d)
      PROVE  Only(DiskFields) /\ Reported' /\ Lasting(disks')
  <2>1. DOMAIN << >> = {}
    OBVIOUS
  <2> QED BY <1>2, <1>6, <2>1
<1>7. ASSUME Disks!ToggleConfirm \/ Disks!DisksFail \/ Disks!Reload
      PROVE  \E d : Disks!ChangeDisks(<<>>, d) /\ Lasting(d)
  <2>1. Lasting([disks EXCEPT !.confirmed = ~@])
    BY DEF Shape, PageFields
  <2>2. Lasting([disks EXCEPT !.inventory = <<>>, !.loading = FALSE, !.error = TRUE])
    BY DEF Shape, PageFields
  <2>3. Lasting([disks EXCEPT !.loading = TRUE])
    BY DEF Shape, PageFields
  <2> HIDE DEF Lasting
  <2> QED BY <1>7, <2>1, <2>2, <2>3 DEF Disks!ToggleConfirm, Disks!DisksFail, Disks!Reload
<1>8. ASSUME Disks!DisksArrive
      PROVE  Only(DiskFields) /\ Reported' /\ Lasting(disks')
  <2>1. PICK inventory :
          Disks!ChangeDisks(Disks!AutoFix(draft, inventory),
                            [disks EXCEPT !.inventory = inventory, !.loading = FALSE])
    BY <1>8 DEF Disks!DisksArrive
  <2> DEFINE patch == Disks!AutoFix(draft, inventory)
             d == [disks EXCEPT !.inventory = inventory, !.loading = FALSE]
  <2>2. DOMAIN patch = DraftFields /\ \A f \in DraftFields \ DiskFields : patch[f] = draft[f]
    BY DEF Disks!AutoFix, Shape, DiskFields
  <2>3. Lasting(d)
    BY DEF Shape, PageFields
  <2>4. Disks!ChangeDisks(patch, d)
    BY <2>1
  <2> HIDE DEF patch, d
  <2> QED BY <1>1, <2>2, <2>3, <2>4, DisksChange
<1>9. Disks!ChooseTab \/ Disks!PickDisk \/ Disks!ChooseFilesystem \/ Disks!ToggleConfirm
      \/ Disks!DisksArrive \/ Disks!DisksFail \/ Disks!Reload
  BY DEF DisksPageStep, DisksAnswered
<1>10. Lasting(disks') /\ Reported'
  BY <1>2, <1>3, <1>4, <1>5, <1>6, <1>7, <1>8, <1>9
<1>11. Only(DiskFields) \/ Disks!ChooseTab
  BY <1>2, <1>3, <1>5, <1>6, <1>7, <1>8, <1>9
<1> QED BY <1>4, <1>10, <1>11

-----------------------------------------------------------------------------
(* Fields nobody touches keep what is said about them. *)

LEMMA SourceKept ==
    ASSUME Shape, NEW fields, Only(fields), fields \cap SourceFields = {}
    PROVE  /\ SourceOK(draft', ui') <=> SourceOK(draft, ui)
           /\ draft'.sourceKind = draft.sourceKind
           /\ draft'.sourceRepoUrl = draft.sourceRepoUrl
           /\ ui'.githubSourceStatus = ui.githubSourceStatus
<1>1. /\ draft'.sourceKind = draft.sourceKind
      /\ draft'.sourceRepoUrl = draft.sourceRepoUrl
      /\ ui'.githubSourceStatus = ui.githubSourceStatus
  BY DraftHas, UiHas DEF Shape, Only, SourceFields
<1> QED BY <1>1 DEF SourceOK

LEMMA ZoneKept ==
    ASSUME Shape, NEW fields, Only(fields), "timeZone" \notin fields
    PROVE  draft'.timeZone = draft.timeZone
BY DraftHas DEF Shape, Only

LEMMA NetworkKept ==
    ASSUME Shape, NEW fields, Only(fields), fields \cap (AddressFields \cup UplinkFields) = {}
    PROVE  NetworkOK(draft') <=> NetworkOK(draft)
<1>1. /\ draft'.hostName = draft.hostName /\ draft'.mgmtInterface = draft.mgmtInterface
      /\ draft'.httpPort = draft.httpPort
  BY DraftHas DEF Shape, Only, AddressFields
<1>2. /\ draft'.mgmtMode = draft.mgmtMode /\ draft'.serverIp = draft.serverIp
      /\ draft'.mgmtGateway = draft.mgmtGateway /\ draft'.mgmtDns = draft.mgmtDns
  BY DraftHas DEF Shape, Only, AddressFields
<1>3. /\ draft'.wanInterface = draft.wanInterface /\ draft'.wanMode = draft.wanMode
      /\ draft'.wanAddress = draft.wanAddress /\ draft'.wanGateway = draft.wanGateway
      /\ draft'.wanDns = draft.wanDns
  BY DraftHas DEF Shape, Only, UplinkFields
<1>4. /\ draft'.pppoeUser = draft.pppoeUser /\ draft'.pppoePassword = draft.pppoePassword
  BY DraftHas DEF Shape, Only, UplinkFields
<1>5. AddressingOK(draft') <=> AddressingOK(draft)
  BY <1>2 DEF AddressingOK
<1>6. UplinkOK(draft') <=> UplinkOK(draft)
  BY <1>1, <1>3, <1>4 DEF UplinkOK
<1> QED BY <1>1, <1>5, <1>6 DEF NetworkOK

LEMMA DiskKept ==
    ASSUME Shape, NEW fields, Only(fields), {"sysDisk", "dataDisk"} \cap fields = {},
           disks'.inventory = disks.inventory
    PROVE  DiskOK(draft', disks') <=> DiskOK(draft, disks)
<1>1. draft'.sysDisk = draft.sysDisk /\ draft'.dataDisk = draft.dataDisk
  BY DraftHas DEF Shape, Only
<1> QED BY <1>1 DEF DiskOK, Disks!Eligible

LEMMA UsersKept ==
    ASSUME Shape, NEW fields, Only(fields), fields \cap UserFields = {}
    PROVE  UsersOK(draft') <=> UsersOK(draft)
<1>1. /\ draft'.adminPassword = draft.adminPassword
      /\ draft'.adminPasswordConfirm = draft.adminPasswordConfirm
      /\ draft'.allowWeakPassword = draft.allowWeakPassword
  BY DraftHas DEF Shape, Only, UserFields
<1>2. /\ draft'.adminUser = draft.adminUser
      /\ draft'.adminFullName = draft.adminFullName
      /\ draft'.adminEmail = draft.adminEmail
  BY DraftHas DEF Shape, Only, UserFields
<1> QED BY <1>1, <1>2 DEF UsersOK

LEMMA ReportKept ==
    ASSUME Shape, Reported, NEW fields, Only(fields), disks' = disks,
           {"storageMode", "sysDisk", "dataDisk", "storageBlockingIssues"} \cap fields = {}
    PROVE  Reported'
<1>1. /\ draft'.storageMode = draft.storageMode
      /\ draft'.sysDisk = draft.sysDisk /\ draft'.dataDisk = draft.dataDisk
  BY DraftHas DEF Shape, Only
<1>2. ui'.storageBlockingIssues = ui.storageBlockingIssues
  BY UiHas DEF Shape, Only
<1>3. Disks!ReportedIssues(draft', disks') = Disks!ReportedIssues(draft, disks)
  BY <1>1 DEF Disks!ReportedIssues
<1> QED BY <1>2, <1>3 DEF Reported

(* What has been passed is kept where the steps shown touch none of it. *)
LEMMA PassedKept ==
    ASSUME Shape, Passed, NEW fields, Only(fields), imported' = imported, detour => detour',
           stepIndex' <= stepIndex, stepIndex' \in 1..10, stepIndex \in 1..10,
           "storageMode" \notin fields \/ draft'.storageMode \in {"automatic", "manual"},
           stepIndex' > 3 => fields \cap SourceFields = {} \/ detour,
           stepIndex' > 4 => "timeZone" \notin fields,
           stepIndex' > 5 /\ NetworkOK(draft) => NetworkOK(draft'),
           stepIndex' > 7 => /\ {"sysDisk", "dataDisk"} \cap fields = {}
                             /\ disks'.inventory = disks.inventory,
           stepIndex' > 8 => fields \cap UserFields = {}
    PROVE  Passed'
<1> SUFFICES ASSUME ~imported
             PROVE  /\ draft'.storageMode \in {"automatic", "manual"}
                    /\ stepIndex' > 3 => SourceOK(draft', ui') \/ detour'
                    /\ stepIndex' > 4 => CanonicalTimezone(draft'.timeZone)
                    /\ stepIndex' > 5 => NetworkOK(draft')
                    /\ stepIndex' > 7 => DiskOK(draft', disks')
                    /\ stepIndex' > 8 => UsersOK(draft')
  BY DEF Passed
<1>1. /\ stepIndex' > 3 => stepIndex > 3
      /\ stepIndex' > 4 => stepIndex > 4
      /\ stepIndex' > 5 => stepIndex > 5
      /\ stepIndex' > 7 => stepIndex > 7
      /\ stepIndex' > 8 => stepIndex > 8
  OBVIOUS
<1>2. draft'.storageMode \in {"automatic", "manual"}
  BY DraftHas DEF Passed, Shape, Only
<1>3. stepIndex' > 3 => SourceOK(draft', ui') \/ detour'
  BY <1>1, SourceKept DEF Passed
<1>4. stepIndex' > 4 => CanonicalTimezone(draft'.timeZone)
  BY <1>1, ZoneKept DEF Passed
<1>5. stepIndex' > 5 => NetworkOK(draft')
  BY <1>1 DEF Passed
<1>6. stepIndex' > 7 => DiskOK(draft', disks')
  BY <1>1, DiskKept DEF Passed
<1>7. stepIndex' > 8 => UsersOK(draft')
  BY <1>1, UsersKept DEF Passed
<1> QED BY <1>2, <1>3, <1>4, <1>5, <1>6, <1>7

(* A step that only changes fields of the draft and the transient state, on a
   page from which they may be changed, keeps everything. *)
LEMMA PageKeeps ==
    ASSUME WInv, NEW fields, Only(fields), PageOnly,
           stepIndex > 2 => "eulaAccepted" \notin fields,
           "netApplyBusy" \notin fields,
           {"storageMode", "sysDisk", "dataDisk", "storageBlockingIssues"} \cap fields = {},
           fields \cap SourceFields = {},
           stepIndex > 4 => "timeZone" \notin fields,
           stepIndex > 5 => fields \cap (AddressFields \cup UplinkFields) = {},
           stepIndex > 8 => fields \cap UserFields = {}
    PROVE  WInv'
<1> USE DEF WInv
<1>1. Shape'
  BY DEF Shape, Only, PageOnly
<1>2. PagesShown'
  BY UiHas DEF PagesShown, PageOnly, Shape, Only
<1>3. Reported'
  BY ReportKept DEF PageOnly
<1>4. EulaFirst'
  BY UiHas, EulaNumber DEF EulaFirst, PageOnly, Shape, Only
<1>5. CloneIsForThisSource' /\ ReadyIsForThisSource'
  BY SourceKept DEF CloneIsForThisSource, ReadyIsForThisSource, PageOnly
<1>6. Passed'
  BY PassedKept, NetworkKept DEF PageOnly, Shape
<1> QED BY <1>1, <1>2, <1>3, <1>4, <1>5, <1>6

-----------------------------------------------------------------------------
(* The pages, one by one. *)

LEMMA DraftPagesKeep ==
    ASSUME WInv,
           AcceptEula \/ WelcomePageStep \/ TimezonePageStep \/ EditUser \/ ConfirmDestruction
    PROVE  WInv'
<1> DEFINE DiskNames == {"storageMode", "sysDisk", "dataDisk", "storageBlockingIssues"}
<1>1. stepIndex \in 1..10
  BY DEF WInv, Shape
<1>2. CASE AcceptEula
  <2>1. stepIndex = 2 /\ PageOnly
    BY <1>1, <1>2, StepNumbers DEF AcceptEula, Step
  <2> DEFINE fields == {"eulaAccepted"}
  <2>2. /\ "netApplyBusy" \notin fields /\ DiskNames \cap fields = {}
        /\ fields \cap SourceFields = {}
    BY DEF SourceFields
  <2>3. Only(fields)
    BY <1>2, EulaTouches
  <2> HIDE DEF fields
  <2> QED BY <2>1, <2>2, <2>3, PageKeeps
<1>3. CASE WelcomePageStep \/ TimezonePageStep
  <2>1. stepIndex <= 4 /\ PageOnly
    BY <1>1, <1>3, StepNumbers DEF WelcomePageStep, TimezonePageStep, Step
  <2>2. /\ "eulaAccepted" \notin ZoneFields /\ "netApplyBusy" \notin ZoneFields
        /\ DiskNames \cap ZoneFields = {}
        /\ ZoneFields \cap SourceFields = {}
    BY DEF ZoneFields, SourceFields
  <2>3. Only(ZoneFields)
    BY <1>3, WelcomeTouches, TimezoneTouches
  <2> QED BY <1>1, <2>1, <2>2, <2>3, PageKeeps
<1>4. CASE EditUser
  <2>1. stepIndex = 8 /\ PageOnly
    BY <1>1, <1>4, StepNumbers DEF EditUser, Step
  <2>2. /\ "eulaAccepted" \notin UserFields /\ "netApplyBusy" \notin UserFields
        /\ "timeZone" \notin UserFields
        /\ DiskNames \cap UserFields = {}
        /\ UserFields \cap SourceFields = {}
        /\ UserFields \cap (AddressFields \cup UplinkFields) = {}
    BY DEF UserFields, SourceFields, AddressFields, UplinkFields
  <2>3. Only(UserFields)
    BY <1>4, UserTouches
  <2> QED BY <2>1, <2>2, <2>3, PageKeeps
<1>5. CASE ConfirmDestruction
  <2>1. PageOnly
    BY <1>5 DEF ConfirmDestruction
  <2> DEFINE fields == {"destructiveConfirmed"}
  <2>2. /\ "eulaAccepted" \notin fields /\ "netApplyBusy" \notin fields
        /\ "timeZone" \notin fields
        /\ DiskNames \cap fields = {}
        /\ fields \cap SourceFields = {} /\ fields \cap UserFields = {}
        /\ fields \cap (AddressFields \cup UplinkFields) = {}
    BY DEF UserFields, SourceFields, AddressFields, UplinkFields
  <2>3. Only(fields)
    BY <1>5, ConfirmTouches
  <2> HIDE DEF fields
  <2> QED BY <2>1, <2>2, <2>3, PageKeeps
<1> QED BY <1>2, <1>3, <1>4, <1>5

LEMMA FeaturesKeep == ASSUME WInv, FeaturesPageStep PROVE WInv'
<1> USE DEF WInv
<1>1. stepIndex = 6
  BY StepNumbers DEF FeaturesPageStep, Step, Shape
<1>2. UNCHANGED <<stepIndex, disks, clones, checkout, net, blank, imported, detour>>
  BY DEF FeaturesPageStep
<1>3. Only(FeatureFields)
  BY FeaturesTouch
<1>4. /\ "eulaAccepted" \notin FeatureFields /\ "netApplyBusy" \notin FeatureFields
      /\ "timeZone" \notin FeatureFields
      /\ {"storageMode", "sysDisk", "dataDisk", "storageBlockingIssues"} \cap FeatureFields = {}
      /\ FeatureFields \cap SourceFields = {}
      /\ FeatureFields \cap (AddressFields \cup UplinkFields) = {}
  BY DEF FeatureFields, SourceFields, AddressFields, UplinkFields
<1>5. Shape' /\ PagesShown'
  BY <1>2, <1>3, <1>4, UiHas DEF Shape, Only, PagesShown
<1>6. Reported'
  BY <1>2, <1>3, <1>4, ReportKept
<1>7. EulaFirst'
  BY <1>2, <1>3, <1>4, UiHas DEF EulaFirst, Shape, Only
<1>8. CloneIsForThisSource' /\ ReadyIsForThisSource'
  BY <1>2, <1>3, <1>4, SourceKept DEF CloneIsForThisSource, ReadyIsForThisSource
<1>9. Passed'
  BY <1>1, <1>2, <1>3, <1>4, PassedKept, NetworkKept DEF Shape
<1> QED BY <1>5, <1>6, <1>7, <1>8, <1>9

LEMMA ImportKeeps == ASSUME WInv, ImportPlan PROVE WInv'
<1> USE DEF WInv
<1>1. stepIndex = 9
  BY StepNumbers DEF ImportPlan, Step, Shape
<1>2. UNCHANGED <<stepIndex, disks, clones, checkout, net, blank, detour>> /\ imported'
  BY DEF ImportPlan
<1>3. Only(ImportedFields)
  BY ImportTouches
<1>4. /\ "eulaAccepted" \notin ImportedFields /\ "netApplyBusy" \notin ImportedFields
      /\ ImportedFields \cap SourceFields = {}
  BY DEF ImportedFields, SourceFields
<1>5. Shape' /\ PagesShown'
  BY <1>2, <1>3, <1>4, UiHas DEF Shape, Only, PagesShown
<1>6. Reported'
  BY <1>1, <1>2 DEF Reported, PagesShown
<1>7. EulaFirst'
  BY <1>2, <1>3, <1>4, UiHas DEF EulaFirst, Shape, Only
<1>8. CloneIsForThisSource' /\ ReadyIsForThisSource'
  BY <1>2, <1>3, <1>4, SourceKept DEF CloneIsForThisSource, ReadyIsForThisSource
<1>9. Passed'
  BY <1>2 DEF Passed
<1> QED BY <1>5, <1>6, <1>7, <1>8, <1>9

LEMMA DisksKeep == ASSUME WInv, DisksPageStep \/ DisksAnswered PROVE WInv'
<1> USE DEF WInv
<1> DEFINE fields == DiskFields \cup {"storageMode"}
<1>1. /\ Only(fields) /\ Reported'
      /\ "storageMode" \notin DiskFields
      /\ draft'.storageMode \in {"automatic", "manual", draft.storageMode}
      /\ disks' = [f \in PageFields |-> disks'[f]] /\ disks'.mounted = disks.mounted
  BY DisksTouches, DraftHas DEF Only, DiskFields, Shape
<1>2. UNCHANGED <<stepIndex, clones, checkout, net, blank, imported, detour>>
  BY DEF DisksPageStep, DisksAnswered, observed
<1>3. stepIndex = 7
  BY StepNumbers DEF DisksPageStep, DisksAnswered, Step, Shape, PagesShown, Disks!DisksArrive,
                     Disks!DisksFail, Disks!Reload, Disks!Loaded
<1>4. /\ "eulaAccepted" \notin fields /\ "netApplyBusy" \notin fields
      /\ "timeZone" \notin fields
      /\ fields \cap SourceFields = {}
      /\ fields \cap (AddressFields \cup UplinkFields) = {}
  BY DEF DiskFields, SourceFields, AddressFields, UplinkFields
<1> HIDE DEF fields
<1>5. Shape' /\ PagesShown'
  BY <1>1, <1>2, <1>4, UiHas DEF Shape, Only, PagesShown
<1>6. EulaFirst'
  BY <1>1, <1>2, <1>4, UiHas DEF EulaFirst, Shape, Only
<1>7. CloneIsForThisSource' /\ ReadyIsForThisSource'
  BY <1>1, <1>2, <1>4, SourceKept DEF CloneIsForThisSource, ReadyIsForThisSource
<1>8. Passed'
  <2>1. CASE imported
    BY <2>1, <1>2 DEF Passed
  <2>2. CASE ~imported
    <3>1. draft'.storageMode \in {"automatic", "manual"}
      BY <1>1, <2>2 DEF Passed
    <3> QED BY <3>1, <1>1, <1>2, <1>3, <1>4, PassedKept, NetworkKept
  <2> QED BY <2>1, <2>2
<1> QED BY <1>1, <1>5, <1>6, <1>7, <1>8

-----------------------------------------------------------------------------
(* The source: a clone that is overtaken is a detour; any other is answered for
   the repository that is still in the draft. *)

LEMMA ChoiceKeepsSource ==
    ASSUME Shape, CloneIsForThisSource, ReadyIsForThisSource, NEW kind,
           Source!ChooseKind(kind), detour' = (detour \/ clones # {})
    PROVE  CloneIsForThisSource' /\ ReadyIsForThisSource'
<1>1. clones' = clones
  BY DEF Source!ChooseKind
<1>2. CloneIsForThisSource'
  BY <1>1 DEF CloneIsForThisSource
<1>3. CASE kind = "github-user-repo"
  <2> DEFINE patch == [sourceKind |-> kind, githubSourceStatus |-> "none"]
  <2>1. Source!Change(patch)
    BY <1>3 DEF Source!ChooseKind, Source!GithubKinds
  <2>2. "githubSourceStatus" \in DOMAIN patch /\ patch["githubSourceStatus"] = "none"
    OBVIOUS
  <2> HIDE DEF patch
  <2>3. ui'.githubSourceStatus = "none"
    BY <2>1, <2>2, SourceChange, UiHas DEF Change, Patched, Shape
  <2> QED BY <1>2, <2>3 DEF ReadyIsForThisSource
<1>4. CASE kind # "github-user-repo"
  <2>1. \E patch : /\ Source!Change(patch)
                   /\ "sourceKind" \in DOMAIN patch /\ patch["sourceKind"] = kind
    <3> DEFINE github == [sourceKind |-> kind, githubSourceStatus |-> "none"]
               plain  == [sourceKind |-> kind]
    <3>1. Source!Change(github) \/ Source!Change(plain)
      BY DEF Source!ChooseKind
    <3>2. /\ "sourceKind" \in DOMAIN github /\ github["sourceKind"] = kind
          /\ "sourceKind" \in DOMAIN plain /\ plain["sourceKind"] = kind
      OBVIOUS
    <3> HIDE DEF github, plain
    <3> QED BY <3>1, <3>2
  <2>2. draft'.sourceKind = kind
    BY <2>1, SourceChange, DraftHas DEF Change, Patched, Shape
  <2> QED BY <1>2, <1>4, <2>2 DEF ReadyIsForThisSource
<1> QED BY <1>3, <1>4

LEMMA EditKeepsSource ==
    ASSUME Shape, CloneIsForThisSource, ReadyIsForThisSource, NEW repo,
           Source!EditRepository(repo), detour' = detour
    PROVE  CloneIsForThisSource' /\ ReadyIsForThisSource'
<1> DEFINE patch == [sourceRepoUrl |-> repo, githubSourceStatus |-> "none"]
<1>1. Source!Change(patch) /\ clones' = clones /\ ui.githubSourceStatus # "cloning"
  BY DEF Source!EditRepository
<1>2. "githubSourceStatus" \in DOMAIN patch /\ patch["githubSourceStatus"] = "none"
  OBVIOUS
<1> HIDE DEF patch
<1>3. ui'.githubSourceStatus = "none"
  BY <1>1, <1>2, SourceChange, UiHas DEF Change, Patched, Shape
<1> QED BY <1>1, <1>3 DEF CloneIsForThisSource, ReadyIsForThisSource

(* The daemon's answer, or the question, changes the status alone. *)
LEMMA StatusChange ==
    ASSUME Shape, NEW status, Source!Change([githubSourceStatus |-> status])
    PROVE  /\ ui'.githubSourceStatus = status
           /\ draft'.sourceKind = draft.sourceKind
           /\ draft'.sourceRepoUrl = draft.sourceRepoUrl
<1> DEFINE patch == [githubSourceStatus |-> status]
<1>1. DOMAIN patch = {"githubSourceStatus"} /\ patch["githubSourceStatus"] = status
  OBVIOUS
<1>2. Change(patch)
  BY SourceChange
<1> HIDE DEF patch
<1> QED BY <1>1, <1>2, DraftHas, UiHas DEF Change, Patched, Shape

LEMMA CloneKeepsSource ==
    ASSUME Shape, CloneIsForThisSource, ReadyIsForThisSource, detour' = detour, NEW repo,
           Source!PrepareRepo \/ Source!CloneSucceeds(repo) \/ Source!CloneFails(repo)
    PROVE  CloneIsForThisSource' /\ ReadyIsForThisSource'
<1>1. CASE Source!PrepareRepo
  <2>1. /\ Source!Change([githubSourceStatus |-> "cloning"])
        /\ clones' = clones \cup {draft.sourceRepoUrl}
        /\ draft.sourceKind = "github-user-repo" /\ ui.githubSourceStatus # "cloning"
    BY <1>1 DEF Source!PrepareRepo
  <2>2. /\ ui'.githubSourceStatus = "cloning"
        /\ draft'.sourceKind = "github-user-repo"
        /\ draft'.sourceRepoUrl = draft.sourceRepoUrl
    BY <2>1, StatusChange
  <2>3. ~detour => clones' = {draft.sourceRepoUrl}
    BY <2>1 DEF CloneIsForThisSource
  <2> QED BY <2>2, <2>3 DEF CloneIsForThisSource, ReadyIsForThisSource
<1>2. CASE Source!CloneSucceeds(repo)
  <2>1. /\ Source!Change([githubSourceStatus |-> "ready"])
        /\ repo \in clones /\ clones' = clones \ {repo} /\ checkout' = repo
    BY <1>2 DEF Source!CloneSucceeds
  <2>2. draft'.sourceRepoUrl = draft.sourceRepoUrl
    BY <2>1, StatusChange
  <2>3. ~detour => clones' = {} /\ checkout' = draft.sourceRepoUrl
    BY <2>1 DEF CloneIsForThisSource
  <2> QED BY <2>2, <2>3 DEF CloneIsForThisSource, ReadyIsForThisSource
<1>3. CASE Source!CloneFails(repo)
  <2>1. /\ Source!Change([githubSourceStatus |-> "error"])
        /\ repo \in clones /\ clones' = clones \ {repo}
    BY <1>3 DEF Source!CloneFails
  <2>2. ui'.githubSourceStatus = "error"
    BY <2>1, StatusChange
  <2>3. ~detour => clones' = {}
    BY <2>1 DEF CloneIsForThisSource
  <2> QED BY <2>2, <2>3 DEF CloneIsForThisSource, ReadyIsForThisSource
<1> QED BY <1>1, <1>2, <1>3

LEMMA SourceKeeps == ASSUME WInv, SourcePageStep \/ CloneAnswered PROVE WInv'
<1> USE DEF WInv
<1>1. /\ UNCHANGED <<stepIndex, disks, net, blank, imported>>
      /\ detour => detour'
  <2>1. UNCHANGED <<stepIndex, disks, net, blank, imported>>
    BY DEF SourcePageStep, CloneAnswered, observed
  <2>2. detour' = (detour \/ clones # {}) \/ detour' = detour
    BY DEF SourcePageStep, CloneAnswered, observed
  <2>3. detour => detour'
    BY <2>2
  <2> QED BY <2>1, <2>3
<1>2. Only(SourceFields)
  BY SourceTouches
<1>3. /\ "eulaAccepted" \notin SourceFields /\ "netApplyBusy" \notin SourceFields
      /\ "timeZone" \notin SourceFields
      /\ {"storageMode", "sysDisk", "dataDisk", "storageBlockingIssues"} \cap SourceFields = {}
      /\ SourceFields \cap (AddressFields \cup UplinkFields) = {}
      /\ SourceFields \cap UserFields = {}
  BY DEF SourceFields, AddressFields, UplinkFields, UserFields
<1>4. Shape' /\ PagesShown'
  BY <1>1, <1>2, <1>3, UiHas DEF Shape, Only, PagesShown
<1>5. Reported'
  BY <1>1, <1>2, <1>3, ReportKept
<1>6. EulaFirst'
  BY <1>1, <1>2, <1>3, UiHas DEF EulaFirst, Shape, Only
<1>7. CloneIsForThisSource' /\ ReadyIsForThisSource'
  <2>1. \/ /\ \E kind : Source!ChooseKind(kind)
           /\ detour' = (detour \/ clones # {})
        \/ /\ \E repo : Source!EditRepository(repo)
           /\ detour' = detour
        \/ /\ \E repo : Source!PrepareRepo \/ Source!CloneSucceeds(repo) \/ Source!CloneFails(repo)
           /\ detour' = detour
    BY DEF SourcePageStep, CloneAnswered, observed
  <2>2. CASE \E kind : Source!ChooseKind(kind) /\ detour' = (detour \/ clones # {})
    BY <2>2, ChoiceKeepsSource
  <2>3. CASE \E repo : Source!EditRepository(repo) /\ detour' = detour
    BY <2>3, EditKeepsSource
  <2>4. CASE \E repo : /\ Source!PrepareRepo \/ Source!CloneSucceeds(repo) \/ Source!CloneFails(repo)
                       /\ detour' = detour
    BY <2>4, CloneKeepsSource
  <2> QED BY <2>1, <2>2, <2>3, <2>4
<1>8. Passed'
  <2>1. CASE imported
    BY <2>1, <1>1 DEF Passed
  <2>2. CASE ~imported
    <3>1. CASE SourcePageStep
      <4>1. stepIndex = 3
        BY <3>1, StepNumbers DEF SourcePageStep, Step, Shape
      <4> QED BY <4>1, <1>1, <1>2, <1>3, PassedKept, NetworkKept DEF Shape
    <3>2. CASE CloneAnswered
      <4>1. clones # {}
        BY <3>2 DEF CloneAnswered, Source!CloneSucceeds, Source!CloneFails
      <4>2. stepIndex > 3 => detour
        BY <4>1, <2>2 DEF CloneIsForThisSource, Passed, SourceOK
      <4> QED BY <4>2, <1>1, <1>2, <1>3, PassedKept, NetworkKept DEF Shape
    <3> QED BY <3>1, <3>2
  <2> QED BY <2>1, <2>2
<1> QED BY <1>4, <1>5, <1>6, <1>7, <1>8

-----------------------------------------------------------------------------
(* The network: whoever applies it keeps the wizard busy until the answer, and
   what is answered after the page was left only improves the draft. *)

LEMMA BusyKept ==
    ASSUME Shape, NEW patch, Network!Change(patch), "netApplyBusy" \notin DOMAIN patch
    PROVE  ui'.netApplyBusy = ui.netApplyBusy
BY NetworkChange, UiHas DEF Change, Patched, Shape

LEMMA StatusKeepsBusy ==
    ASSUME Shape, Network!StatusArrives PROVE ui'.netApplyBusy = ui.netApplyBusy
<1>1. CASE Network!Change([netConnected |-> TRUE, netOffline |-> FALSE, serverIp |-> "valid"])
  <2> DEFINE patch == [netConnected |-> TRUE, netOffline |-> FALSE, serverIp |-> "valid"]
  <2>1. "netApplyBusy" \notin DOMAIN patch
    OBVIOUS
  <2>2. Network!Change(patch)
    BY <1>1
  <2> HIDE DEF patch
  <2> QED BY <2>1, <2>2, BusyKept
<1>2. CASE Network!Change([netConnected |-> FALSE])
  <2> DEFINE patch == [netConnected |-> FALSE]
  <2>1. "netApplyBusy" \notin DOMAIN patch
    OBVIOUS
  <2>2. Network!Change(patch)
    BY <1>2
  <2> HIDE DEF patch
  <2> QED BY <2>1, <2>2, BusyKept
<1>3. CASE UNCHANGED <<draft, ui>>
  BY <1>3
<1> QED BY <1>1, <1>2, <1>3 DEF Network!StatusArrives

(* A check that is answered late can only make the address a valid one. *)
LEMMA StatusImproves ==
    ASSUME Shape, Network!StatusArrives, NetworkOK(draft) PROVE NetworkOK(draft')
<1>1. CASE Network!Change([netConnected |-> TRUE, netOffline |-> FALSE, serverIp |-> "valid"])
  <2> DEFINE patch == [netConnected |-> TRUE, netOffline |-> FALSE, serverIp |-> "valid"]
  <2>1. DOMAIN patch \cap DraftFields = {"serverIp"} /\ patch["serverIp"] = "valid"
    BY DEF DraftFields, InitialDraft
  <2>2. Change(patch)
    BY <1>1, NetworkChange
  <2> HIDE DEF patch
  <2>3. draft'.serverIp = "valid"
    BY <2>1, <2>2 DEF Change, Patched, Shape
  <2>4. \A f \in DraftFields \ {"serverIp"} : draft'[f] = draft[f]
    BY <2>1, <2>2 DEF Change, Patched, Shape
  <2>5. {"hostName", "mgmtInterface", "httpPort", "mgmtMode", "mgmtGateway", "mgmtDns",
         "wanInterface", "wanMode", "wanAddress", "wanGateway", "wanDns", "pppoeUser",
         "pppoePassword"} \subseteq DraftFields \ {"serverIp"}
    BY DEF DraftFields, InitialDraft
  <2>6. AddressingOK(draft')
    BY <2>3, <2>4, <2>5 DEF NetworkOK, AddressingOK
  <2>7. UplinkOK(draft')
    BY <2>4, <2>5 DEF NetworkOK, UplinkOK
  <2> QED BY <2>4, <2>5, <2>6, <2>7 DEF NetworkOK
<1>2. CASE Network!Change([netConnected |-> FALSE])
  <2> DEFINE patch == [netConnected |-> FALSE]
  <2>1. DOMAIN patch \subseteq {"netConnected"}
    OBVIOUS
  <2>2. Change(patch)
    BY <1>2, NetworkChange
  <2>3. Only({"netConnected"})
    BY <2>1, <2>2, ChangeOnly
  <2>4. {"netConnected"} \cap (AddressFields \cup UplinkFields) = {}
    BY DEF AddressFields, UplinkFields
  <2> QED BY <2>3, <2>4, NetworkKept
<1>3. CASE UNCHANGED <<draft, ui>>
  BY <1>3
<1> QED BY <1>1, <1>2, <1>3 DEF Network!StatusArrives

LEMMA NetworkNet ==
    ASSUME Shape, PagesShown, NetworkPageStep \/ NetworkAnswered
    PROVE  /\ net' = [f \in NetFields |-> net'[f]]
           /\ net'.mounted = net.mounted
           /\ net'.applying => ui'.netApplyBusy /\ stepIndex = 5
<1> DEFINE Lasting == /\ net' = [f \in NetFields |-> net'[f]]
                      /\ net'.mounted = net.mounted
                      /\ net'.applying => ui'.netApplyBusy /\ stepIndex = 5
           Edits == UNCHANGED net /\ ~ui.netApplyBusy
<1>1. Edits => Lasting
  BY DEF Shape, PagesShown
<1>2. ASSUME Network!ContinueOffline PROVE Lasting
  <2> DEFINE patch == [netOffline |-> TRUE, netConnected |-> FALSE]
  <2>1. "netApplyBusy" \notin DOMAIN patch
    OBVIOUS
  <2>2. Network!Change(patch) /\ net' = net
    BY <1>2 DEF Network!ContinueOffline
  <2> HIDE DEF patch
  <2>3. ui'.netApplyBusy = ui.netApplyBusy
    BY <2>1, <2>2, BusyKept
  <2> QED BY <2>2, <2>3 DEF Shape, PagesShown
<1>3. ASSUME NEW field, NEW value, Network!EditField(field, value) PROVE Lasting
  <2> DEFINE patch == [f \in {field} |-> value]
  <2>1. "netApplyBusy" \notin Network!ShownFields
    BY DEF Network!ShownFields, Network!LanFields, Network!UplinkFields
  <2>2. Network!Change(patch) /\ net' = net /\ DOMAIN patch \subseteq Network!ShownFields
    BY <1>3 DEF Network!EditField
  <2> HIDE DEF patch
  <2>3. ui'.netApplyBusy = ui.netApplyBusy
    BY <2>1, <2>2, BusyKept
  <2> QED BY <2>2, <2>3 DEF Shape, PagesShown
<1>4. ASSUME Network!InterfacesArrive PROVE Lasting
  <2>1. PICK i, list :
          /\ Network!Change([mgmtInterface |-> i])
          /\ net' = [net EXCEPT !.booting = FALSE, !.names = list, !.checks = @ + 1]
    BY <1>4 DEF Network!InterfacesArrive
  <2> DEFINE patch == [mgmtInterface |-> i]
  <2>2. "netApplyBusy" \notin DOMAIN patch
    OBVIOUS
  <2>3. Network!Change(patch)
    BY <2>1
  <2> HIDE DEF patch
  <2>4. ui'.netApplyBusy = ui.netApplyBusy
    BY <2>2, <2>3, BusyKept
  <2> QED BY <2>1, <2>4 DEF Shape, PagesShown, NetFields
<1>5. ASSUME Network!StatusArrives PROVE Lasting
  <2>1. net' = [net EXCEPT !.checks = @ - 1]
    BY <1>5 DEF Network!StatusArrives
  <2> QED BY <1>5, <2>1, StatusKeepsBusy DEF Shape, PagesShown, NetFields
<1>6. ASSUME Network!ConnectWifi \/ Network!RefreshInterfaces PROVE Lasting
  BY <1>6 DEF Network!ConnectWifi, Network!RefreshInterfaces, Shape, PagesShown, NetFields
<1>7. ASSUME Network!NetworkApplied \/ Network!NetworkNotApplied \/ Network!ApplyFails
      PROVE  Lasting
  <2>1. \/ net' = [net EXCEPT !.applying = FALSE, !.checks = @ + 1]
        \/ net' = [net EXCEPT !.applying = FALSE]
    BY <1>7 DEF Network!NetworkApplied, Network!NetworkNotApplied, Network!ApplyFails
  <2> QED BY <2>1 DEF Shape, NetFields
<1>8. ASSUME Network!ApplyNetwork PROVE Lasting
  <2> DEFINE patch == [netApplyBusy |-> TRUE]
  <2>1. "netApplyBusy" \in DOMAIN patch /\ patch["netApplyBusy"] = TRUE
    OBVIOUS
  <2>2. Network!Change(patch) /\ net.mounted /\ net' = [net EXCEPT !.applying = TRUE]
    BY <1>8 DEF Network!ApplyNetwork
  <2> HIDE DEF patch
  <2>3. ui'.netApplyBusy = TRUE
    BY <2>1, <2>2, NetworkChange, UiHas DEF Change, Patched, Shape
  <2> QED BY <2>2, <2>3 DEF Shape, PagesShown, NetFields
<1>9. ASSUME \/ \E i : Network!ChooseInterface(i) \/ Network!ChooseUplink(i)
             \/ \E mode : Network!ChooseMode(mode) \/ Network!ChooseUplinkMode(mode)
             \/ Network!IdentifyLan
      PROVE  Lasting
  <2>1. Edits
    BY <1>9 DEF Network!ChooseInterface, Network!ChooseUplink, Network!ChooseMode,
                Network!ChooseUplinkMode, Network!IdentifyLan, Network!Editing
  <2> HIDE DEF Lasting, Edits
  <2> QED BY <1>1, <2>1
<1>10. Lasting
  <2> HIDE DEF Lasting
  <2>1. CASE NetworkPageStep
    BY <2>1, <1>2, <1>3, <1>6, <1>8, <1>9 DEF NetworkPageStep
  <2>2. CASE NetworkAnswered
    BY <2>2, <1>4, <1>5, <1>6, <1>7 DEF NetworkAnswered
  <2> QED BY <2>1, <2>2
<1> QED BY <1>10

LEMMA NetworkKeeps == ASSUME WInv, NetworkPageStep \/ NetworkAnswered PROVE WInv'
<1> USE DEF WInv
<1>1. UNCHANGED <<stepIndex, disks, clones, checkout, blank, imported, detour>>
  BY DEF NetworkPageStep, NetworkAnswered, observed
<1>2. Only(NetworkFields)
  BY NetworkTouches
<1>3. /\ "eulaAccepted" \notin NetworkFields /\ "timeZone" \notin NetworkFields
      /\ {"storageMode", "sysDisk", "dataDisk", "storageBlockingIssues"} \cap NetworkFields = {}
      /\ NetworkFields \cap SourceFields = {}
      /\ NetworkFields \cap UserFields = {}
  BY DEF NetworkFields, LinkFields, SourceFields, AddressFields, UplinkFields, UserFields
<1>4. Shape' /\ PagesShown'
  BY <1>1, <1>2, NetworkNet DEF Shape, Only, PagesShown
<1>5. Reported'
  BY <1>1, <1>2, <1>3, ReportKept
<1>6. EulaFirst'
  BY <1>1, <1>2, <1>3, UiHas DEF EulaFirst, Shape, Only
<1>7. CloneIsForThisSource' /\ ReadyIsForThisSource'
  BY <1>1, <1>2, <1>3, SourceKept DEF CloneIsForThisSource, ReadyIsForThisSource
<1>8. stepIndex > 5 => Network!StatusArrives
  <2> SUFFICES ASSUME stepIndex > 5 PROVE Network!StatusArrives
    OBVIOUS
  <2>1. ~net.mounted /\ ~net.applying
    BY DEF PagesShown
  <2>2. ~NetworkPageStep
    BY StepNumbers DEF NetworkPageStep, Step, Shape
  <2> QED
    BY <2>1, <2>2 DEF NetworkAnswered, Network!InterfacesArrive, Network!RefreshInterfaces,
         Network!NetworkApplied, Network!NetworkNotApplied, Network!ApplyFails
<1>9. stepIndex > 5 /\ NetworkOK(draft) => NetworkOK(draft')
  BY <1>8, StatusImproves
<1>10. Passed'
  BY <1>1, <1>2, <1>3, <1>9, PassedKept DEF Shape
<1> QED BY <1>4, <1>5, <1>6, <1>7, <1>10

-----------------------------------------------------------------------------
(* What a step demands before it lets the user on. *)

LEMMA SourceDemands ==
    ASSUME NEW w, NEW u PROVE SourceIssues(w, u) = {} <=> SourceOK(w, u)
BY DEF SourceIssues, SourceOK

LEMMA ZoneDemands ==
    ASSUME NEW w PROVE TimezoneIssues(w) = {} <=> CanonicalTimezone(w.timeZone)
BY DEF TimezoneIssues

LEMMA NetworkDemands ==
    ASSUME NEW w, NEW u
    PROVE  /\ NetworkIssues(w, u) = {} => NetworkOK(w)
           /\ NetworkOK(w) => NetworkIssues(w, u) \subseteq {"connectivity"}
<1>1. ASSUME NetworkIssues(w, u) = {} PROVE NetworkOK(w)
  <2>1. /\ "hostName" \notin NetworkIssues(w, u) /\ "mgmtInterface" \notin NetworkIssues(w, u)
        /\ "httpPort" \notin NetworkIssues(w, u)
        /\ "serverIp" \notin NetworkIssues(w, u) /\ "mgmtGateway" \notin NetworkIssues(w, u)
        /\ "mgmtDns" \notin NetworkIssues(w, u) /\ "sameInterface" \notin NetworkIssues(w, u)
    BY <1>1
  <2>2. /\ "wanAddress" \notin NetworkIssues(w, u) /\ "wanGateway" \notin NetworkIssues(w, u)
        /\ "wanDns" \notin NetworkIssues(w, u) /\ "pppoeUser" \notin NetworkIssues(w, u)
        /\ "pppoePassword" \notin NetworkIssues(w, u)
    BY <1>1
  <2>3. w.hostName = "valid" /\ w.mgmtInterface # NoIface /\ w.httpPort = "valid"
    BY <2>1 DEF NetworkIssues
  <2>4. AddressingOK(w)
    BY <2>1 DEF NetworkIssues, AddressingOK
  <2>5. UplinkOK(w)
    BY <2>1, <2>2 DEF NetworkIssues, UplinkOK
  <2> QED BY <2>3, <2>4, <2>5 DEF NetworkOK
<1>2. ASSUME NetworkOK(w) PROVE NetworkIssues(w, u) \subseteq {"connectivity"}
  BY <1>2 DEF NetworkOK, AddressingOK, UplinkOK, NetworkIssues
<1> QED BY <1>1, <1>2

LEMMA UsersDemand ==
    ASSUME NEW w PROVE UsersIssues(w) = {} <=> UsersOK(w)
<1>1. ASSUME UsersIssues(w) = {} PROVE UsersOK(w)
  <2>1. /\ "adminUser" \notin UsersIssues(w) /\ "adminFullName" \notin UsersIssues(w)
        /\ "adminEmail" \notin UsersIssues(w)
        /\ PasswordIssues(w) = {}
    BY <1>1 DEF UsersIssues
  <2>2. /\ "noPassword" \notin PasswordIssues(w) /\ "weakPassword" \notin PasswordIssues(w)
        /\ "mismatch" \notin PasswordIssues(w)
    BY <2>1
  <2>3. w.adminUser # "" /\ w.adminFullName # "" /\ w.adminEmail = "valid"
    BY <2>1 DEF UsersIssues
  <2>4. /\ w.adminPassword # "" /\ w.adminPassword = w.adminPasswordConfirm
        /\ w.adminPassword = "weak" => w.allowWeakPassword
    BY <2>2 DEF PasswordIssues, Secrets
  <2> QED BY <2>3, <2>4 DEF UsersOK
<1>2. ASSUME UsersOK(w) PROVE UsersIssues(w) = {}
  <2>1. PasswordIssues(w) = {}
    BY <1>2 DEF UsersOK, PasswordIssues, Secrets
  <2> QED BY <1>2, <2>1 DEF UsersOK, UsersIssues
<1> QED BY <1>1, <1>2

(* No draft has the fields the disks step projects a topology from, so it asks
   for one disk; what the page reports says the rest. *)
LEMMA DiskDemands ==
    ASSUME Shape, Reported, disks.mounted, draft.storageMode \in {"automatic", "manual"},
           DisksIssues(draft, ui) = {}
    PROVE  DiskOK(draft, disks)
<1>1. ProjectedTopology(draft) = "single"
  BY DEF Shape, DraftFields, InitialDraft, ProjectedTopology, Read
<1>2. draft.dataDisk = NoDisk
  <2>1. "dataDisk" \notin DisksIssues(draft, ui)
    OBVIOUS
  <2> QED BY <1>1, <2>1 DEF DisksIssues
<1>3. Disks!ReportedIssues(draft, disks) = {}
  BY DEF DisksIssues, Reported
<1>4. Disks!RoleReasons(disks.inventory, "root", draft.sysDisk) = {}
  BY <1>3 DEF Disks!ReportedIssues, Disks!StorageReasons, Disks!SingleDiskReasons
<1>5. draft.sysDisk \in Disks!Eligible(disks)
  <2>1. "root" \notin Disks!RoleReasons(disks.inventory, "root", draft.sysDisk)
    BY <1>4
  <2> QED BY <2>1 DEF Disks!RoleReasons, Disks!Eligible
<1> QED BY <1>2, <1>5 DEF DiskOK

-----------------------------------------------------------------------------
(* Going from step to step. *)

RenderFields == {"timeZonePin", "storageBlockingIssues", "destructiveConfirmed"}

LEMMA GoToDoes ==
    ASSUME Shape, PagesShown, NEW i \in 1..10, i # stepIndex, GoTo(i), ~net.applying
    PROVE  /\ stepIndex' = i /\ UNCHANGED <<clones, checkout, imported, detour>>
           /\ Only(RenderFields)
           /\ Shape' /\ PagesShown' /\ Reported'
           /\ i # 7 => disks'.inventory = disks.inventory
<1>1. stepIndex' = i /\ UNCHANGED <<clones, checkout, imported, detour>>
  BY DEF GoTo
<1>2. blank' => i = 10
  BY StepNumbers DEF GoTo, Renders
<1>3. /\ net' = [f \in NetFields |-> net'[f]]
      /\ net'.mounted <=> i = 5
      /\ ~net'.applying
  <2>1. Step = "network" <=> stepIndex = 5
    BY StepNumbers DEF Shape, Step
  <2>2. CASE i = 5
    <3>1. net' = Network!EntersNetwork
      BY <2>1, <2>2, StepNumbers DEF GoTo
    <3> QED BY <2>2, <3>1 DEF Network!EntersNetwork, Shape, NetFields
  <2>3. CASE stepIndex = 5
    <3>1. net' = Network!LeavesNetwork
      BY <2>1, <2>3, StepNumbers DEF GoTo
    <3> QED BY <2>3, <3>1 DEF Network!LeavesNetwork, Shape, NetFields
  <2>4. CASE i # 5 /\ stepIndex # 5
    <3>1. net' = net
      BY <2>1, <2>4, StepNumbers DEF GoTo
    <3> QED BY <2>4, <3>1 DEF Shape, PagesShown
  <2> QED BY <2>2, <2>3, <2>4
<1>4. /\ Only(RenderFields) /\ Reported'
      /\ disks' = [f \in PageFields |-> disks'[f]]
      /\ disks'.mounted <=> i = 7
      /\ i # 7 => disks'.inventory = disks.inventory
  <2>1. Step = "disks" <=> stepIndex = 7
    BY StepNumbers DEF Shape, Step
  <2>2. CASE i = 7
    <3>1. Disks!ChangeDisks(<<>>, Disks!FreshDisks)
      BY <2>2, StepNumbers DEF GoTo, Disks!Mount
    <3>2. DOMAIN << >> = {}
      OBVIOUS
    <3>3. {"storageBlockingIssues", "destructiveConfirmed"} \subseteq RenderFields
      BY DEF RenderFields
    <3>4. Only(RenderFields) /\ disks' = Disks!FreshDisks /\ Reported'
      BY <3>1, <3>2, <3>3, DisksChange
    <3> QED BY <2>2, <3>4, DisksShape
  <2>3. CASE i # 7
    <3>1. /\ disks' = IF Step = "disks" THEN Disks!LeavesDisks ELSE disks
          /\ EntersTimezone \/ UNCHANGED <<draft, ui>>
      BY <2>3, StepNumbers DEF GoTo
    <3>2. Only(RenderFields)
      <4>1. CASE UNCHANGED <<draft, ui>>
        BY <4>1, NothingChanged
      <4>2. CASE EntersTimezone
        <5> DEFINE patch == [timeZonePin |-> draft.timeZone]
        <5>1. DOMAIN patch \subseteq RenderFields
          BY DEF RenderFields
        <5>2. draft' = draft /\ (ui' = Patched(ui, patch) \/ ui' = ui)
          BY <4>2 DEF EntersTimezone, PinShown
        <5> HIDE DEF patch
        <5> QED BY <5>1, <5>2 DEF Only, Patched
      <4> QED BY <3>1, <4>1, <4>2
    <3>3. CASE stepIndex = 7
      <4>1. disks' = Disks!LeavesDisks
        BY <2>1, <3>1, <3>3
      <4> QED BY <2>3, <3>2, <4>1, DisksShape DEF Reported
    <3>4. CASE stepIndex # 7
      <4>1. disks' = disks
        BY <2>1, <3>1, <3>4
      <4>2. ~disks'.mounted
        BY <3>4, <4>1 DEF PagesShown
      <4> QED BY <2>3, <3>2, <4>1, <4>2 DEF Reported, Shape
    <3> QED BY <3>3, <3>4
  <2> QED BY <2>2, <2>3
<1>5. Shape'
  BY <1>1, <1>2, <1>3, <1>4 DEF Shape, Only
<1>6. PagesShown'
  BY <1>1, <1>3, <1>4 DEF PagesShown
<1> QED BY <1>1, <1>4, <1>5, <1>6

LEMMA RenderTouches ==
    /\ "eulaAccepted" \notin RenderFields /\ "timeZone" \notin RenderFields
    /\ {"storageMode", "sysDisk", "dataDisk"} \cap RenderFields = {}
    /\ RenderFields \cap SourceFields = {} /\ RenderFields \cap UserFields = {}
    /\ RenderFields \cap (AddressFields \cup UplinkFields) = {}
BY DEF RenderFields, SourceFields, AddressFields, UplinkFields, UserFields

LEMMA BackKeeps ==
    ASSUME WInv, NEW i \in 1..10, i < stepIndex, GoTo(i), ~Locked PROVE WInv'
<1> USE DEF WInv
<1>1. ~net.applying /\ stepIndex \in 1..10
  BY DEF PagesShown, Locked, Shape
<1>2. /\ stepIndex' = i /\ UNCHANGED <<clones, checkout, imported, detour>>
      /\ Only(RenderFields)
      /\ Shape' /\ PagesShown' /\ Reported'
      /\ i # 7 => disks'.inventory = disks.inventory
  BY <1>1, GoToDoes
<1>3. EulaFirst'
  BY <1>1, <1>2, RenderTouches, UiHas, EulaNumber DEF EulaFirst, Shape, Only
<1>4. CloneIsForThisSource' /\ ReadyIsForThisSource'
  BY <1>2, RenderTouches, SourceKept DEF CloneIsForThisSource, ReadyIsForThisSource
<1>5. Passed'
  BY <1>1, <1>2, RenderTouches, PassedKept, NetworkKept
<1> QED BY <1>2, <1>3, <1>4, <1>5

LEMMA NextKeeps == ASSUME WInv, NextStep PROVE WInv'
<1> USE DEF WInv
<1>1. /\ ~net.applying /\ stepIndex \in 1..9
      /\ Issues(draft, ui) = {}
      /\ GoTo(stepIndex + 1)
  BY StepNumbers DEF NextStep, NextAsked, CanGoNext, PagesShown, Locked, Shape, Step
<1>2. /\ stepIndex' = stepIndex + 1 /\ UNCHANGED <<clones, checkout, imported, detour>>
      /\ Only(RenderFields)
      /\ Shape' /\ PagesShown' /\ Reported'
      /\ stepIndex # 6 => disks'.inventory = disks.inventory
  BY <1>1, GoToDoes
<1>3. /\ stepIndex = 2 => EulaIssues(ui) = {}
      /\ stepIndex = 3 => SourceIssues(draft, ui) = {}
      /\ stepIndex = 4 => TimezoneIssues(draft) = {}
      /\ stepIndex = 5 => NetworkIssues(draft, ui) = {}
      /\ stepIndex = 7 => DisksIssues(draft, ui) = {}
      /\ stepIndex = 8 => UsersIssues(draft) = {}
  BY <1>1 DEF Issues, Step, Steps, ValidateStep
<1>4. EulaFirst'
  <2>1. stepIndex = 2 => ui.eulaAccepted
    BY <1>3 DEF EulaIssues
  <2> QED BY <2>1, <1>1, <1>2, RenderTouches, UiHas, EulaNumber DEF EulaFirst, Shape, Only
<1>5. CloneIsForThisSource' /\ ReadyIsForThisSource'
  BY <1>2, RenderTouches, SourceKept DEF CloneIsForThisSource, ReadyIsForThisSource
<1>6. Passed'
  <2> SUFFICES ASSUME ~imported
               PROVE  /\ draft'.storageMode \in {"automatic", "manual"}
                      /\ stepIndex' > 3 => SourceOK(draft', ui') \/ detour'
                      /\ stepIndex' > 4 => CanonicalTimezone(draft'.timeZone)
                      /\ stepIndex' > 5 => NetworkOK(draft')
                      /\ stepIndex' > 7 => DiskOK(draft', disks')
                      /\ stepIndex' > 8 => UsersOK(draft')
    BY <1>2 DEF Passed
  <2>1. draft'.storageMode \in {"automatic", "manual"}
    BY <1>2, RenderTouches, DraftHas DEF Passed, Shape, Only
  <2>2. stepIndex' > 3 => SourceOK(draft', ui') \/ detour'
    BY <1>1, <1>2, <1>3, SourceDemands, SourceKept, RenderTouches DEF Passed
  <2>3. stepIndex' > 4 => CanonicalTimezone(draft'.timeZone)
    BY <1>1, <1>2, <1>3, ZoneDemands, ZoneKept, RenderTouches DEF Passed
  <2>4. stepIndex' > 5 => NetworkOK(draft')
    BY <1>1, <1>2, <1>3, NetworkDemands, NetworkKept, RenderTouches DEF Passed
  <2>5. stepIndex' > 7 => DiskOK(draft', disks')
    <3>1. stepIndex = 7 => DiskOK(draft, disks)
      BY <1>3, DiskDemands DEF Passed, PagesShown
    <3> QED BY <3>1, <1>1, <1>2, DiskKept, RenderTouches DEF Passed
  <2>6. stepIndex' > 8 => UsersOK(draft')
    BY <1>1, <1>2, <1>3, UsersDemand, UsersKept, RenderTouches DEF Passed
  <2> QED BY <2>1, <2>2, <2>3, <2>4, <2>5, <2>6
<1> QED BY <1>2, <1>4, <1>5, <1>6

LEMMA NavigateDoes == ASSUME WInv, Navigate PROVE Only(RenderFields)
<1>1. ~Locked
  BY DEF Navigate, NextStep, NextAsked, PreviousStep, BackOffered, JumpBack
<1>2. /\ ~net.applying /\ Shape /\ PagesShown /\ stepIndex \in 1..10
  BY <1>1 DEF Locked, WInv, Shape, PagesShown
<1>3. PICK i \in 1..10 : i # stepIndex /\ GoTo(i)
  <2>1. CASE NextStep
    <3>1. stepIndex # 10 /\ GoTo(stepIndex + 1)
      BY <1>2, <2>1, StepNumbers DEF NextStep, Step
    <3> QED BY <1>2, <3>1
  <2>2. CASE PreviousStep
    <3>1. stepIndex > 1 /\ GoTo(stepIndex - 1)
      BY <2>2 DEF PreviousStep, BackOffered, MovesBack
    <3> QED BY <1>2, <3>1
  <2>3. CASE JumpBack
    <3>1. PICK i \in PhaseStarts : i < stepIndex /\ GoTo(i)
      BY <2>3 DEF JumpBack, JumpOffered, MovesBack
    <3>2. i \in 1..10
      BY DEF PhaseStarts, Steps
    <3> QED BY <1>2, <3>1, <3>2
  <2> QED BY <2>1, <2>2, <2>3 DEF Navigate
<1> QED BY <1>2, <1>3, GoToDoes

LEMMA NavigateKeeps == ASSUME WInv, Navigate PROVE WInv'
<1>1. stepIndex \in 1..10
  BY DEF WInv, Shape
<1>2. CASE PreviousStep
  BY <1>1, <1>2, BackKeeps DEF PreviousStep, BackOffered, MovesBack
<1>3. CASE JumpBack
  <2>1. PICK i \in PhaseStarts : i < stepIndex /\ GoTo(i) /\ ~Locked
    BY <1>3 DEF JumpBack, JumpOffered, MovesBack
  <2>2. i \in 1..10
    BY DEF PhaseStarts, Steps
  <2> QED BY <2>1, <2>2, BackKeeps
<1> QED BY <1>2, <1>3, NextKeeps DEF Navigate

(* The page that threw was never stored: the step before it is shown again. *)
LEMMA ReloadDoes ==
    ASSUME WInv, ReloadBrowser
    PROVE  /\ stepIndex' \in 1..10 /\ stepIndex' <= stepIndex
           /\ stepIndex # 10 => stepIndex' = stepIndex
           /\ Only(RenderFields)
           /\ Shape' /\ PagesShown' /\ Reported'
           /\ stepIndex # 7 => disks' = disks
<1> USE DEF WInv
<1>1. /\ stepIndex \in 1..10 /\ stepIndex' \in 1..10 /\ stepIndex' <= stepIndex
      /\ stepIndex = 7 <=> stepIndex' = 7
      /\ stepIndex = 5 <=> stepIndex' = 5
      /\ ~blank'
  BY DEF ReloadBrowser, Shape
<1>2. /\ net' = [f \in NetFields |-> net'[f]]
      /\ net'.mounted <=> stepIndex = 5
      /\ ~net'.applying
  <2>1. Step = "network" <=> stepIndex = 5
    BY <1>1, StepNumbers DEF Step
  <2> QED BY <2>1 DEF ReloadBrowser, Network!UnmountedNetwork, NetFields
<1>3. /\ Only(RenderFields) /\ Reported'
      /\ disks' = [f \in PageFields |-> disks'[f]]
      /\ disks'.mounted <=> stepIndex = 7
      /\ stepIndex # 7 => disks' = disks
  <2>1. Step = "disks" <=> stepIndex = 7
    BY <1>1, StepNumbers DEF Step
  <2>2. CASE stepIndex = 7
    <3>1. Disks!ChangeDisks(<<>>, Disks!FreshDisks)
      BY <2>1, <2>2 DEF ReloadBrowser
    <3>2. DOMAIN << >> = {}
      OBVIOUS
    <3>3. {"storageBlockingIssues", "destructiveConfirmed"} \subseteq RenderFields
      BY DEF RenderFields
    <3>4. Only(RenderFields) /\ disks' = Disks!FreshDisks /\ Reported'
      BY <3>1, <3>2, <3>3, DisksChange
    <3> QED BY <2>2, <3>4, DisksShape
  <2>3. CASE stepIndex # 7
    <3>1. UNCHANGED <<draft, ui, disks>>
      BY <2>1, <2>3 DEF ReloadBrowser
    <3> QED BY <2>3, <3>1, NothingChanged DEF Reported, Shape, PagesShown
  <2> QED BY <2>2, <2>3
<1>4. Shape' /\ PagesShown'
  BY <1>1, <1>2, <1>3 DEF Shape, PagesShown, Only
<1>5. stepIndex # 10 => stepIndex' = stepIndex
  BY DEF ReloadBrowser, Shape
<1> QED BY <1>1, <1>3, <1>4, <1>5

LEMMA ReloadKeeps == ASSUME WInv, ReloadBrowser PROVE WInv'
<1> USE DEF WInv
<1>1. /\ stepIndex \in 1..10 /\ stepIndex' \in 1..10 /\ stepIndex' <= stepIndex
      /\ Only(RenderFields)
      /\ Shape' /\ PagesShown' /\ Reported'
      /\ stepIndex # 7 => disks' = disks
  BY ReloadDoes DEF Shape
<1>2. /\ clones' = {} /\ UNCHANGED <<checkout, imported>>
      /\ detour' = (detour \/ clones # {})
  BY DEF ReloadBrowser
<1>3. detour => detour'
  BY <1>2
<1>4. EulaFirst'
  BY <1>1, RenderTouches, UiHas, EulaNumber DEF EulaFirst, Shape, Only
<1>5. CloneIsForThisSource' /\ ReadyIsForThisSource'
  BY <1>1, <1>2, <1>3, RenderTouches, SourceKept DEF CloneIsForThisSource, ReadyIsForThisSource
<1>6. Passed'
  BY <1>1, <1>2, <1>3, RenderTouches, PassedKept, NetworkKept
<1> QED BY <1>1, <1>4, <1>5, <1>6

-----------------------------------------------------------------------------
LEMMA InitWInv == Init => WInv
<1> SUFFICES ASSUME Init PROVE WInv
  OBVIOUS
<1> USE DEF Init
<1>1. Shape
  BY DEF Shape, DraftFields, UiFields, Disks!UnmountedDisks, Network!UnmountedNetwork,
         PageFields, NetFields
<1>2. PagesShown /\ Reported
  BY DEF PagesShown, Reported, Disks!UnmountedDisks, Network!UnmountedNetwork
<1>3. EulaFirst
  BY EulaNumber DEF EulaFirst
<1>4. CloneIsForThisSource /\ ReadyIsForThisSource
  BY DEF CloneIsForThisSource, ReadyIsForThisSource, InitialUi
<1>5. Passed
  <2>1. draft.storageMode = "automatic"
    BY DEF InitialDraft
  <2>2. stepIndex = 1
    OBVIOUS
  <2> QED BY <2>1, <2>2 DEF Passed
<1> QED BY <1>1, <1>2, <1>3, <1>4, <1>5 DEF WInv

LEMMA StutterKeeps == ASSUME WInv, UNCHANGED vars PROVE WInv'
<1>1. Shape' /\ PagesShown' /\ Reported'
  BY DEF WInv, vars, observed, Shape, PagesShown, Reported, Disks!ReportedIssues
<1>2. EulaFirst' /\ CloneIsForThisSource' /\ ReadyIsForThisSource'
  BY DEF WInv, vars, observed, EulaFirst, CloneIsForThisSource, ReadyIsForThisSource
<1>3. Passed'
  BY DEF WInv, vars, observed, Passed, SourceOK, NetworkOK, AddressingOK, UplinkOK, DiskOK,
         Disks!Eligible, UsersOK
<1> QED BY <1>1, <1>2, <1>3 DEF WInv

LEMMA StepKeepsWInv == ASSUME WInv, [Next]_vars PROVE WInv'
<1>1. CASE Navigate \/ ReloadBrowser
  BY <1>1, NavigateKeeps, ReloadKeeps
<1>2. CASE OnPage
  BY <1>2, DraftPagesKeep, ImportKeeps, SourceKeeps, NetworkKeeps, FeaturesKeep, DisksKeep
     DEF OnPage
<1>3. CASE Answered
  BY <1>3, SourceKeeps, NetworkKeeps, DisksKeep DEF Answered
<1>4. CASE UNCHANGED vars
  BY <1>4, StutterKeeps
<1> QED BY <1>1, <1>2, <1>3, <1>4 DEF Next

LEMMA WInvAlways == Spec => []WInv
BY InitWInv, StepKeepsWInv, PTL DEF Spec

(* However the user moves about, jumps, goes back or reloads, no step after the
   licence is shown unless it is accepted. *)
THEOREM EulaFirstAlways == Spec => []EulaFirst
<1>1. WInv => EulaFirst
  BY DEF WInv
<1> QED BY <1>1, WInvAlways, PTL

(* A repository shown as ready is the one that the daemon's checkout holds,
   unless a clone was overtaken by a change of kind or a reload. *)
THEOREM ReadyIsForThisSourceAlways == Spec => []ReadyIsForThisSource
<1>1. WInv => ReadyIsForThisSource
  BY DEF WInv
<1> QED BY <1>1, WInvAlways, PTL

-----------------------------------------------------------------------------
(* The install step is entered forwards, from the summary, and nothing that was
   demanded on the way has been lost but the connection. *)
LEMMA EnteredFromSummary ==
    ASSUME WInv, [Next]_vars, Step # "install", Steps[stepIndex'] = "install"
    PROVE  stepIndex = 9 /\ NextStep
<1>1. stepIndex \in 1..9 /\ stepIndex' = 10
  <2>1. stepIndex \in 1..10 /\ stepIndex' \in 1..10
    BY StepKeepsWInv DEF WInv, Shape
  <2> QED BY <2>1, StepNumbers DEF Step
<1>2. stepIndex' # stepIndex
  BY <1>1
<1>3. Navigate \/ ReloadBrowser
  BY <1>2 DEF Next, OnPage, Answered, AcceptEula, EditUser, ConfirmDestruction, ImportPlan,
     WelcomePageStep, TimezonePageStep, SourcePageStep, NetworkPageStep, FeaturesPageStep,
     DisksPageStep, CloneAnswered, NetworkAnswered, DisksAnswered, PageOnly, vars
<1>4. ~ReloadBrowser
  BY <1>1 DEF ReloadBrowser
<1>5. ~PreviousStep
  BY <1>1 DEF PreviousStep, MovesBack, GoTo
<1>6. ~JumpBack
  BY <1>1 DEF JumpBack, MovesBack, GoTo, JumpOffered
<1>7. NextStep
  BY <1>3, <1>4, <1>5, <1>6 DEF Navigate
<1>8. stepIndex' = stepIndex + 1
  BY <1>7 DEF NextStep, GoTo
<1> QED BY <1>1, <1>7, <1>8

LEMMA EntrySound ==
    ASSUME WInv, [Next]_vars, Step # "install", Steps[stepIndex'] = "install", ~imported
    PROVE  /\ ui.eulaAccepted
           /\ SourceIssues(draft, ui) = {} \/ detour
           /\ TimezoneIssues(draft) = {}
           /\ NetworkIssues(draft, ui) \subseteq {"connectivity"}
           /\ UsersIssues(draft) = {}
           /\ ui.destructiveConfirmed
           /\ draft.sysDisk \in Disks!Eligible(disks)
           /\ Topology(draft) = "single"
<1>1. stepIndex = 9 /\ NextStep
  BY EnteredFromSummary
<1>2. /\ SourceOK(draft, ui) \/ detour
      /\ CanonicalTimezone(draft.timeZone)
      /\ NetworkOK(draft) /\ DiskOK(draft, disks) /\ UsersOK(draft)
      /\ draft.storageMode \in {"automatic", "manual"}
  BY <1>1 DEF WInv, Passed
<1>3. ui.eulaAccepted
  BY <1>1, EulaNumber DEF WInv, EulaFirst
<1>4. ui.destructiveConfirmed
  <2>1. FinalIssues(draft, ui, InsecureRepos) = {}
    BY <1>1 DEF NextStep, NextAsked, CanGoNext, Issues, Step, Steps, ValidateStep
  <2>2. "unconfirmed" \notin FinalIssues(draft, ui, InsecureRepos)
    BY <2>1
  <2> QED BY <2>2 DEF FinalIssues
<1>5. Topology(draft) = "single"
  BY <1>2 DEF DiskOK, Topology, HasSeparateDataDisk
<1> QED
  BY <1>2, <1>3, <1>4, <1>5, SourceDemands, ZoneDemands, NetworkDemands, UsersDemand DEF DiskOK

(* Short of an imported file, the install step is entered with everything the
   earlier steps demand still true, whatever arrived or was changed since they
   were passed: only the connection may have been lost. *)
THEOREM EntersInstallIsSound == Spec => EntersInstallSound
<1> DEFINE Entry == (Step # "install" /\ Steps[stepIndex'] = "install" /\ ~imported) =>
                      /\ ui.eulaAccepted
                      /\ SourceIssues(draft, ui) = {} \/ detour
                      /\ TimezoneIssues(draft) = {}
                      /\ NetworkIssues(draft, ui) \subseteq {"connectivity"}
                      /\ UsersIssues(draft) = {}
                      /\ ui.destructiveConfirmed
                      /\ draft.sysDisk \in Disks!Eligible(disks)
                      /\ Topology(draft) = "single"
<1>1. WInv /\ [Next]_vars => [Entry]_vars
  BY EntrySound
<1> QED BY <1>1, WInvAlways, PTL DEF Spec, EntersInstallSound

-----------------------------------------------------------------------------
(* The lock of the network.  It is taken and let go on the network step alone;
   what the other pages, the answers to them and the way from step to step
   change leaves it as it is. *)
BusyShown == ui.netApplyBusy => stepIndex = 5

LEMMA LockKept ==
    ASSUME Shape, NEW fields, Only(fields), "netApplyBusy" \notin fields
    PROVE  ui'.netApplyBusy = ui.netApplyBusy
BY UiHas DEF Only, Shape

(* What a step does to the lock and to the request it waits for. *)
LockAsBefore == UNCHANGED <<ui.netApplyBusy, net.applying>>
LockTaken == ~ui.netApplyBusy /\ net'.applying /\ stepIndex = 5
LockReleased == net.applying /\ ~ui'.netApplyBusy

LEMMA LockOnPages ==
    ASSUME WInv, \/ AcceptEula \/ EditUser \/ ConfirmDestruction \/ ImportPlan
                 \/ WelcomePageStep \/ TimezonePageStep \/ SourcePageStep
                 \/ FeaturesPageStep \/ DisksPageStep \/ CloneAnswered \/ DisksAnswered
    PROVE  stepIndex' = stepIndex /\ LockAsBefore
<1>1. UNCHANGED <<stepIndex, net>>
  BY DEF AcceptEula, EditUser, ConfirmDestruction, ImportPlan, WelcomePageStep,
         TimezonePageStep, SourcePageStep, FeaturesPageStep, DisksPageStep, CloneAnswered,
         DisksAnswered, PageOnly
<1>2. "netApplyBusy" \notin ZoneFields \cup UserFields \cup ImportedFields \cup SourceFields
        \cup FeatureFields \cup DiskFields \cup {"eulaAccepted", "destructiveConfirmed",
                                               "storageMode"}
  BY DEF ZoneFields, UserFields, ImportedFields, SourceFields, FeatureFields, DiskFields
<1>3. Shape
  BY DEF WInv
<1>4. \E fields : Only(fields) /\ "netApplyBusy" \notin fields
  <2>1. CASE DisksPageStep \/ DisksAnswered
    <3>1. Only(DiskFields) \/ Only(DiskFields \cup {"storageMode"})
      BY <1>3, <2>1, DisksTouches
    <3>2. "netApplyBusy" \notin DiskFields \cup {"storageMode"}
      BY <1>2
    <3> QED BY <3>1, <3>2
  <2>2. CASE ~(DisksPageStep \/ DisksAnswered)
    BY <1>2, <2>2, EulaTouches, UserTouches, ConfirmTouches, ImportTouches, WelcomeTouches,
       TimezoneTouches, SourceTouches, FeaturesTouch
  <2> QED BY <2>1, <2>2
<1> QED BY <1>1, <1>3, <1>4, LockKept DEF LockAsBefore

LEMMA LockOnNetwork ==
    ASSUME WInv, NetworkPageStep \/ NetworkAnswered
    PROVE  stepIndex' = stepIndex /\ (LockAsBefore \/ LockTaken \/ LockReleased)
<1>1. stepIndex' = stepIndex /\ Shape
  BY DEF NetworkPageStep, NetworkAnswered, WInv
<1>2. "netApplyBusy" \notin QuietFields
  BY DEF QuietFields
<1>3. CASE Network!ApplyNetwork
  <2>1. ~ui.netApplyBusy /\ net.mounted /\ net' = [net EXCEPT !.applying = TRUE]
    BY <1>3 DEF Network!ApplyNetwork
  <2>2. net'.applying /\ stepIndex = 5
    BY <1>1, <2>1 DEF WInv, Shape, PagesShown, NetFields
  <2> QED BY <1>1, <2>1, <2>2 DEF LockTaken
<1>4. CASE Network!NetworkApplied \/ Network!NetworkNotApplied \/ Network!ApplyFails
  <2>1. net.applying
    BY <1>4 DEF Network!NetworkApplied, Network!NetworkNotApplied, Network!ApplyFails
  <2>2. ASSUME NEW gateway, NEW dns,
               Network!Change([netApplyBusy |-> FALSE, serverIp |-> "valid",
                               mgmtGateway |-> gateway, mgmtDns |-> dns])
        PROVE  ~ui'.netApplyBusy
    <3> DEFINE patch == [netApplyBusy |-> FALSE, serverIp |-> "valid",
                         mgmtGateway |-> gateway, mgmtDns |-> dns]
    <3>1. "netApplyBusy" \in DOMAIN patch /\ patch["netApplyBusy"] = FALSE
      OBVIOUS
    <3>2. Network!Change(patch)
      BY <2>2
    <3> HIDE DEF patch
    <3> QED BY <1>1, <3>1, <3>2, NetworkChange, UiHas DEF Change, Patched, Shape
  <2>3. ASSUME Network!Change([netApplyBusy |-> FALSE]) PROVE ~ui'.netApplyBusy
    <3> DEFINE patch == [netApplyBusy |-> FALSE]
    <3>1. "netApplyBusy" \in DOMAIN patch /\ patch["netApplyBusy"] = FALSE
      OBVIOUS
    <3>2. Network!Change(patch)
      BY <2>3
    <3> HIDE DEF patch
    <3> QED BY <1>1, <3>1, <3>2, NetworkChange, UiHas DEF Change, Patched, Shape
  <2>4. ~ui'.netApplyBusy
    BY <1>4, <2>2, <2>3
       DEF Network!NetworkApplied, Network!NetworkNotApplied, Network!ApplyFails
  <2> QED BY <1>1, <2>1, <2>4 DEF LockReleased
<1>5. CASE ~Applies
  <2>1. Only(QuietFields)
    BY <1>5, NetworkTouches
  <2>2. ui'.netApplyBusy = ui.netApplyBusy
    BY <1>1, <1>2, <2>1, LockKept
  <2>3. net'.applying = net.applying
    BY <1>1, <1>5
       DEF Applies, NetworkPageStep, NetworkAnswered, Shape, NetFields,
           Network!ChooseInterface, Network!ChooseUplink, Network!ChooseMode,
           Network!ChooseUplinkMode, Network!EditField, Network!IdentifyLan,
           Network!ContinueOffline, Network!ConnectWifi, Network!InterfacesArrive,
           Network!RefreshInterfaces, Network!StatusArrives
  <2> QED BY <1>1, <2>2, <2>3 DEF LockAsBefore
<1> QED BY <1>3, <1>4, <1>5 DEF Applies

(* From step to step the lock is not held, and it is not taken. *)
LEMMA LockOnTheWay ==
    ASSUME WInv, Navigate PROVE ~ui.netApplyBusy /\ ~ui'.netApplyBusy
<1>1. ~ui.netApplyBusy
  BY DEF Navigate, NextStep, NextAsked, PreviousStep, BackOffered, JumpBack, Locked
<1> QED BY <1>1, NavigateDoes, LockKept DEF RenderFields, WInv

LEMMA LockOnReload ==
    ASSUME WInv, BusyShown, ReloadBrowser
    PROVE  /\ ui'.netApplyBusy = ui.netApplyBusy /\ ~net'.applying
           /\ ui.netApplyBusy => stepIndex' = stepIndex
<1>1. /\ Only(RenderFields) /\ Shape
      /\ stepIndex # 10 => stepIndex' = stepIndex
  BY ReloadDoes DEF WInv
<1>2. ui'.netApplyBusy = ui.netApplyBusy
  BY <1>1, LockKept DEF RenderFields
<1>3. ~net'.applying
  BY DEF ReloadBrowser, Network!UnmountedNetwork
<1> QED BY <1>1, <1>2, <1>3 DEF BusyShown

LEMMA StepLocks ==
    ASSUME WInv, BusyShown, [Next]_vars
    PROVE  /\ BusyShown'
           /\ LockedForNothing' => LockedForNothing \/ ReloadBrowser
           /\ LockedForNothing => LockedForNothing' /\ stepIndex' = stepIndex
<1> USE DEF BusyShown, LockedForNothing
<1>1. CASE Navigate
  BY <1>1, LockOnTheWay
<1>2. CASE ReloadBrowser
  BY <1>2, LockOnReload
<1>3. CASE NetworkPageStep \/ NetworkAnswered
  BY <1>3, LockOnNetwork DEF LockAsBefore, LockTaken, LockReleased, WInv, PagesShown
<1>4. CASE UNCHANGED vars
  BY <1>4 DEF vars
<1>5. CASE OnPage \/ CloneAnswered \/ DisksAnswered
  BY <1>3, <1>5, LockOnPages DEF OnPage, LockAsBefore
<1> QED BY <1>1, <1>2, <1>3, <1>4, <1>5 DEF Next, Answered

(* Only a reload leaves the wizard locked for a network nobody is applying, and
   nothing that can still happen unlocks it or brings it off that step. *)
THEOREM OnlyReloadStrandsTheLockAlways == Spec => OnlyReloadStrandsTheLock
<1> DEFINE Held == /\ LockedForNothing' => LockedForNothing \/ ReloadBrowser
                   /\ LockedForNothing => LockedForNothing' /\ stepIndex' = stepIndex
<1>1. Init => BusyShown
  BY DEF Init, InitialUi, BusyShown
<1>2. WInv /\ BusyShown /\ [Next]_vars => BusyShown' /\ [Held]_vars
  BY StepLocks
<1> QED BY <1>1, <1>2, WInvAlways, PTL DEF Spec, OnlyReloadStrandsTheLock

-----------------------------------------------------------------------------
(* The disk that will be erased.  Outside the disks step and the import no field
   of a patch is sysDisk; there, the answer of the daemon is the one step the
   user does not take. *)
LEMMA DiskStays ==
    ASSUME Shape, NEW fields, Only(fields), "sysDisk" \notin fields
    PROVE  draft'.sysDisk = draft.sysDisk
BY DraftHas DEF Only, Shape

LEMMA DiskOnPages ==
    ASSUME WInv, \/ AcceptEula \/ EditUser \/ ConfirmDestruction
                 \/ WelcomePageStep \/ TimezonePageStep \/ SourcePageStep
                 \/ NetworkPageStep \/ FeaturesPageStep \/ CloneAnswered \/ NetworkAnswered
    PROVE  draft'.sysDisk = draft.sysDisk
<1>1. "sysDisk" \notin ZoneFields \cup UserFields \cup SourceFields \cup FeatureFields
                         \cup NetworkFields \cup {"eulaAccepted", "destructiveConfirmed"}
  BY DEF ZoneFields, UserFields, SourceFields, FeatureFields, NetworkFields, AddressFields,
         UplinkFields, LinkFields
<1>2. \E fields : Only(fields) /\ "sysDisk" \notin fields
  BY <1>1, EulaTouches, UserTouches, ConfirmTouches, WelcomeTouches, TimezoneTouches,
     SourceTouches, NetworkTouches, FeaturesTouch
<1> QED BY <1>2, DiskStays DEF WInv

LEMMA DiskOnTheWay ==
    ASSUME WInv, Navigate \/ ReloadBrowser PROVE draft'.sysDisk = draft.sysDisk
<1>1. Only(RenderFields)
  BY NavigateDoes, ReloadDoes
<1> QED BY <1>1, RenderTouches, DiskStays DEF WInv

LEMMA DiskOnAnswers ==
    ASSUME WInv, DisksAnswered
    PROVE  \/ draft'.sysDisk = draft.sysDisk
           \/ /\ Step = "disks" /\ disks'.inventory # <<>>
              /\ draft.sysDisk = NoDisk \/ draft.sysDisk \notin Disks!Eligible(disks')
<1>1. /\ DOMAIN draft = DraftFields /\ "sysDisk" \in DraftFields
      /\ disks = [f \in PageFields |-> disks[f]]
  BY DraftHas DEF WInv, Shape
<1>2. CASE Disks!DisksFail \/ Disks!Reload
  <2>1. draft' = Disks!Patched(draft, <<>>)
    BY <1>2 DEF Disks!DisksFail, Disks!Reload, Disks!ChangeDisks
  <2>2. DOMAIN << >> = {}
    OBVIOUS
  <2> QED BY <1>1, <2>1, <2>2 DEF Disks!Patched
<1>3. CASE Disks!DisksArrive
  <2>1. PICK inventory :
          Disks!ChangeDisks(Disks!AutoFix(draft, inventory),
                            [disks EXCEPT !.inventory = inventory, !.loading = FALSE])
    BY <1>3 DEF Disks!DisksArrive
  <2> DEFINE eligible == Disks!EligiblePaths(inventory)
             fixed == Disks!AutoFix(draft, inventory)
  <2>2. fixed.sysDisk # draft.sysDisk =>
          /\ inventory # <<>>
          /\ draft.sysDisk = NoDisk \/ draft.sysDisk \notin eligible
    BY <1>1 DEF Disks!AutoFix, Disks!NoDisk, NoDisk
  <2>3. DOMAIN fixed = DraftFields
    BY <1>1 DEF Disks!AutoFix
  <2>4. /\ draft' = Disks!Patched(draft, fixed)
        /\ disks' = [disks EXCEPT !.inventory = inventory, !.loading = FALSE]
    BY <2>1 DEF Disks!ChangeDisks
  <2> HIDE DEF fixed
  <2>5. draft'.sysDisk = fixed.sysDisk
    BY <1>1, <2>3, <2>4 DEF Disks!Patched
  <2>6. disks'.inventory = inventory
    BY <1>1, <2>4 DEF PageFields
  <2>7. Disks!Eligible(disks') = eligible
    BY <2>6 DEF Disks!Eligible
  <2>8. Step = "disks"
    <3>1. stepIndex = 7
      BY <1>3 DEF Disks!DisksArrive, WInv, PagesShown
    <3> QED BY <3>1, StepNumbers DEF Step
  <2> QED BY <2>2, <2>5, <2>6, <2>7, <2>8
<1> QED BY <1>2, <1>3 DEF DisksAnswered

(* No other page, no late answer, no step back and no reload moves the disk that
   will be erased; the answer of the daemon does so only when it lists disks, and
   none was picked or the one picked is not among those on offer. *)
THEOREM DiskMovesAreAskedAlways == Spec => DiskMovesAreAsked
<1> DEFINE Asked == draft'.sysDisk # draft.sysDisk =>
                      \/ DisksPageStep \/ ImportPlan
                      \/ /\ Step = "disks" /\ disks'.inventory # <<>>
                         /\ \/ draft.sysDisk = NoDisk
                            \/ draft.sysDisk \notin Disks!Eligible(disks')
<1>1. ASSUME WInv, [Next]_vars PROVE [Asked]_vars
  <2>1. CASE Navigate \/ ReloadBrowser
    BY <1>1, <2>1, DiskOnTheWay
  <2>2. CASE OnPage
    BY <1>1, <2>2, DiskOnPages DEF OnPage
  <2>3. CASE Answered
    BY <1>1, <2>3, DiskOnPages, DiskOnAnswers DEF Answered
  <2>4. CASE UNCHANGED vars
    BY <2>4
  <2> QED BY <1>1, <2>1, <2>2, <2>3, <2>4 DEF Next
<1>2. WInv /\ [Next]_vars => [Asked]_vars
  BY <1>1
<1> QED BY <1>2, WInvAlways, PTL DEF Spec, DiskMovesAreAsked

-----------------------------------------------------------------------------
(* The theorems of the disks page, whose constants of layouts mean nothing here. *)
DP == INSTANCE DisksPage_proofs WITH BootPartitionBytes <- 1, MinRootBytes <- 1, MiB <- 1,
                                     Sizes <- {}, Held <- {}, HandMade <- {}

(* What the page assumes of its constants. *)
LEMMA DisksAssumptions ==
    /\ \A payload \in Payloads :
         /\ payload \in Seq(DP!ToSet(payload))
         /\ \A i \in DOMAIN payload :
              payload[i].path \in Nat /\ payload[i].size.kind = "label"
                /\ payload[i].verdict \in {"eligible", "ineligible"}
    /\ 1 \in Nat \ {0}
    /\ {} \subseteq Nat
    /\ \A list \in {} \cup {} : DP!Partitions(list)
BY WizardAssumption DEF ToSet, DP!ToSet

(* The page that the wizard shows is the page those theorems are about. *)
LEMMA SameKept ==
    /\ \A s, I : Disks!Kept(s, I) = DP!Kept(s, I)
    /\ \A s : Disks!ToSet(s) = DP!ToSet(s)
BY DEF Disks!Kept, DP!Kept, Disks!ToSet, DP!ToSet

LEMMA SamePlanner ==
    /\ \A inventory : Disks!EligibleDisks(inventory) = DP!EligibleDisks(inventory)
    /\ \A inventory : Disks!EligiblePaths(inventory) = DP!EligiblePaths(inventory)
    /\ \A payload : Disks!NormalizeDiskInventory(payload) = DP!NormalizeDiskInventory(payload)
<1>1. \A d : Disks!IsEligible(d) = DP!IsEligible(d)
  BY DEF Disks!IsEligible, DP!IsEligible, Disks!LocallyEligible, DP!LocallyEligible,
         Disks!InvalidDevices, DP!InvalidDevices
<1>2. \A inventory : Disks!EligibleDisks(inventory) = DP!EligibleDisks(inventory)
  BY <1>1, SameKept DEF Disks!EligibleDisks, DP!EligibleDisks
<1>3. \A ds : Disks!Paths(ds) = DP!Paths(ds)
  BY SameKept DEF Disks!Paths, DP!Paths
<1>4. \A inventory : Disks!EligiblePaths(inventory) = DP!EligiblePaths(inventory)
  BY <1>2, <1>3 DEF Disks!EligiblePaths, DP!EligiblePaths
<1>5. \A ds : Disks!UniqueByPath(ds) = DP!UniqueByPath(ds)
  BY SameKept DEF Disks!UniqueByPath, DP!UniqueByPath, Disks!NoDisk, DP!NoDisk
<1>6. \A ds, d : Disks!Inserted(ds, d) = DP!Inserted(ds, d)
  BY SameKept DEF Disks!Inserted, DP!Inserted
<1>7. \A ds : Disks!Sorted(ds) = DP!Sorted(ds)
  BY <1>6 DEF Disks!Sorted, DP!Sorted
<1>8. \A d : Disks!NormalizeDiskRecord(d) = DP!NormalizeDiskRecord(d)
  BY DEF Disks!NormalizeDiskRecord, DP!NormalizeDiskRecord, Disks!ParseBytes, DP!ParseBytes
<1>9. \A payload : Disks!NormalizeDiskInventory(payload) = DP!NormalizeDiskInventory(payload)
  BY <1>5, <1>7, <1>8 DEF Disks!NormalizeDiskInventory, DP!NormalizeDiskInventory
<1> QED BY <1>2, <1>4, <1>9

LEMMA SameReport ==
    \A w, d : Disks!ReportedIssues(w, d) = DP!ReportedIssues(w, d)
<1>1. \A inventory, role, p :
        Disks!RoleReasons(inventory, role, p) = DP!RoleReasons(inventory, role, p)
  BY SamePlanner DEF Disks!RoleReasons, DP!RoleReasons
<1>2. \A layout, root, data :
        Disks!FilesystemReasons(layout, root, data) = DP!FilesystemReasons(layout, root, data)
  BY DEF Disks!FilesystemReasons, DP!FilesystemReasons
<1>3. \A ds : Disks!Paths(ds) = DP!Paths(ds)
  BY SameKept DEF Disks!Paths, DP!Paths
<1>4. \A ds : Disks!UniqueByPath(ds) = DP!UniqueByPath(ds)
  BY SameKept DEF Disks!UniqueByPath, DP!UniqueByPath, Disks!NoDisk, DP!NoDisk
<1>5. \A ds : Disks!KnownSizes(ds) = DP!KnownSizes(ds)
  BY SameKept DEF Disks!KnownSizes, DP!KnownSizes
<1>6. \A S : Disks!Min(S) = DP!Min(S) /\ Disks!Max(S) = DP!Max(S)
  BY DEF Disks!Min, DP!Min, Disks!Max, DP!Max
<1>7. \A ds : /\ Disks!SmallestDisk(ds) = DP!SmallestDisk(ds)
              /\ Disks!LargestDisk(ds) = DP!LargestDisk(ds)
  BY <1>5, <1>6 DEF Disks!SmallestDisk, DP!SmallestDisk, Disks!LargestDisk, DP!LargestDisk
<1>8. \A ds : Disks!TooDifferent(ds) = DP!TooDifferent(ds)
  BY <1>7 DEF Disks!TooDifferent, DP!TooDifferent, Disks!TolerancePercent, DP!TolerancePercent
<1>9. \A d : Disks!IsEligible(d) = DP!IsEligible(d)
  BY DEF Disks!IsEligible, DP!IsEligible, Disks!LocallyEligible, DP!LocallyEligible,
         Disks!InvalidDevices, DP!InvalidDevices
<1>10. Disks!RaidSpec = DP!RaidSpec
  BY DEF Disks!RaidSpec, DP!RaidSpec, Disks!RaidLevels, DP!RaidLevels
<1>a. \A S : Disks!Cardinality(S) = DP!Cardinality(S)
  BY DEF Disks!Cardinality, DP!Cardinality, Disks!IsFiniteSet, DP!IsFiniteSet
<1>11. \A ds, level : Disks!RaidBlockingReasons(ds, level) = DP!RaidBlockingReasons(ds, level)
  BY <1>a, <1>3, <1>7, <1>8, <1>9, <1>10, SameKept
     DEF Disks!RaidBlockingReasons, DP!RaidBlockingReasons
<1>12. \A mode, inventory, sys, data, members, level, root, fs :
         Disks!StorageReasons(mode, inventory, sys, data, members, level, root, fs)
           = DP!StorageReasons(mode, inventory, sys, data, members, level, root, fs)
  BY <1>1, <1>2, <1>4, <1>11
     DEF Disks!StorageReasons, DP!StorageReasons, Disks!RaidSelectionReasons,
         DP!RaidSelectionReasons, Disks!SplitDiskReasons, DP!SplitDiskReasons,
         Disks!SingleDiskReasons, DP!SingleDiskReasons, Disks!NoDisk, DP!NoDisk
<1> QED
  BY <1>12 DEF Disks!ReportedIssues, DP!ReportedIssues, Disks!NoDisk, DP!NoDisk

LEMMA SameChange ==
    ASSUME NEW patch, NEW d PROVE Disks!ChangeDisks(patch, d) <=> DP!ChangeDisks(patch, d)
<1>1. \A r, p : Disks!Patched(r, p) = DP!Patched(r, p)
  BY DEF Disks!Patched, DP!Patched
<1>2. \A w, u, e : Disks!Settled(w, u, e) = DP!Settled(w, u, e)
  BY <1>1, SameReport DEF Disks!Settled, DP!Settled
<1> QED BY <1>1, <1>2 DEF Disks!ChangeDisks, DP!ChangeDisks

(* What the user may pick, and what the page makes of a click or of an answer. *)
LEMMA SamePage ==
    /\ \A d : Disks!Loaded(d) <=> DP!Loaded(d)
    /\ \A w, d : Disks!ShownTopology(w, d) = DP!ShownTopology(w, d)
    /\ Disks!Cards = DP!Cards
    /\ \A p : Disks!PickDiskPatch(p) = DP!PickDiskPatch(p)
    /\ \A w, inventory : Disks!AutoFix(w, inventory) = DP!AutoFix(w, inventory)
<1>1. \A d : Disks!Loaded(d) <=> DP!Loaded(d)
  BY DEF Disks!Loaded, DP!Loaded
<1>2. \A w, d : Disks!ShownTopology(w, d) = DP!ShownTopology(w, d)
  BY SamePlanner DEF Disks!ShownTopology, DP!ShownTopology, Disks!DetectTopology,
                     DP!DetectTopology
<1>3. \A ds : Disks!Paths(ds) = DP!Paths(ds)
  BY SameKept DEF Disks!Paths, DP!Paths
<1>4. Disks!Cards = DP!Cards
  BY <1>2, <1>3, SamePlanner DEF Disks!Cards, DP!Cards, Disks!RaidCards, DP!RaidCards,
                                 Disks!EveryCard, DP!EveryCard
<1>5. \A paths : Disks!Filled(paths) = DP!Filled(paths)
  BY SameKept DEF Disks!Filled, DP!Filled, Disks!NoDisk, DP!NoDisk
<1>6. \A p : /\ Disks!AsSystemDisk(p) = DP!AsSystemDisk(p)
             /\ Disks!AsDataDisk(p) = DP!AsDataDisk(p)
  BY <1>2, <1>5 DEF Disks!AsSystemDisk, DP!AsSystemDisk, Disks!AsDataDisk, DP!AsDataDisk
<1>7. \A p : Disks!PickDiskPatch(p) = DP!PickDiskPatch(p)
  BY <1>2, <1>6 DEF Disks!PickDiskPatch, DP!PickDiskPatch, Disks!NoDisk, DP!NoDisk
<1>8. \A d : Disks!FirstEligible(d) = DP!FirstEligible(d)
  BY SamePlanner DEF Disks!FirstEligible, DP!FirstEligible, Disks!NoDisk, DP!NoDisk
<1>9. ASSUME NEW w, NEW inventory PROVE Disks!AutoFix(w, inventory) = DP!AutoFix(w, inventory)
  <2> DEFINE
             firstA == Disks!FirstEligible([inventory |-> inventory])
             eligibleA == Disks!EligiblePaths(inventory)
             fixSysA == \/ w.storageMode = "automatic" /\ w.sysDisk = Disks!NoDisk /\ firstA # Disks!NoDisk
                        \/ w.sysDisk # Disks!NoDisk /\ w.sysDisk \notin eligibleA
             sysA == IF fixSysA THEN firstA ELSE w.sysDisk
             listedA == Disks!EligibleDisks(inventory)
             othersA == Disks!Kept(listedA, {i \in DOMAIN listedA : listedA[i].path # sysA})
             dataA == IF ~(w.dataDisk # Disks!NoDisk /\ w.dataDisk \notin eligibleA) THEN w.dataDisk
                      ELSE IF othersA = <<>> THEN Disks!NoDisk ELSE Head(othersA).path
             keptA == Disks!Kept(w.selectedDisks,
                             {i \in DOMAIN w.selectedDisks : w.selectedDisks[i] \in eligibleA})
             selectedA == IF ~(Disks!ToSet(w.selectedDisks) \subseteq eligibleA) THEN keptA
                          ELSE IF fixSysA /\ w.storageMode = "automatic"
                               THEN (IF firstA = Disks!NoDisk THEN <<>> ELSE <<firstA>>)
                          ELSE w.selectedDisks
             firstB == DP!FirstEligible([inventory |-> inventory])
             eligibleB == DP!EligiblePaths(inventory)
             fixSysB == \/ w.storageMode = "automatic" /\ w.sysDisk = DP!NoDisk /\ firstB # DP!NoDisk
                        \/ w.sysDisk # DP!NoDisk /\ w.sysDisk \notin eligibleB
             sysB == IF fixSysB THEN firstB ELSE w.sysDisk
             listedB == DP!EligibleDisks(inventory)
             othersB == DP!Kept(listedB, {i \in DOMAIN listedB : listedB[i].path # sysB})
             dataB == IF ~(w.dataDisk # DP!NoDisk /\ w.dataDisk \notin eligibleB) THEN w.dataDisk
                      ELSE IF othersB = <<>> THEN DP!NoDisk ELSE Head(othersB).path
             keptB == DP!Kept(w.selectedDisks,
                             {i \in DOMAIN w.selectedDisks : w.selectedDisks[i] \in eligibleB})
             selectedB == IF ~(DP!ToSet(w.selectedDisks) \subseteq eligibleB) THEN keptB
                          ELSE IF fixSysB /\ w.storageMode = "automatic"
                               THEN (IF firstB = DP!NoDisk THEN <<>> ELSE <<firstB>>)
                          ELSE w.selectedDisks
             Fixed(sys, data, selected) ==
               IF inventory = <<>> THEN w
               ELSE [w EXCEPT !.sysDisk = sys, !.dataDisk = data, !.selectedDisks = selected]
  <2>1. Disks!AutoFix(w, inventory) = Fixed(sysA, dataA, selectedA)
    BY DEF Disks!AutoFix
  <2>2. DP!AutoFix(w, inventory) = Fixed(sysB, dataB, selectedB)
    BY DEF DP!AutoFix
  <2>3. /\ firstA = firstB /\ eligibleA = eligibleB /\ listedA = listedB
        /\ Disks!NoDisk = DP!NoDisk
        /\ Disks!ToSet(w.selectedDisks) = DP!ToSet(w.selectedDisks)
    BY <1>8, SamePlanner, SameKept DEF Disks!NoDisk, DP!NoDisk
  <2> HIDE DEF firstA, firstB, eligibleA, eligibleB, listedA, listedB, Fixed
  <2>4. fixSysA <=> fixSysB
    BY <2>3
  <2> HIDE DEF fixSysA, fixSysB
  <2>5. sysA = sysB
    BY <2>3, <2>4
  <2> HIDE DEF sysA, sysB
  <2>6. othersA = othersB /\ keptA = keptB
    BY <2>3, <2>5, SameKept
  <2> HIDE DEF othersA, othersB, keptA, keptB
  <2>7. dataA = dataB /\ selectedA = selectedB
    BY <2>3, <2>4, <2>6
  <2> HIDE DEF dataA, dataB, selectedA, selectedB
  <2> QED BY <2>1, <2>2, <2>5, <2>7
<1> QED BY <1>1, <1>2, <1>4, <1>7, <1>9

(* Every step of the disks page in the wizard is a step of that page alone. *)
LEMMA DisksStepIsThePages ==
    ASSUME DisksPageStep \/ DisksAnswered
    PROVE  DP!Next
<1>1. ASSUME Disks!ChooseTab PROVE DP!ChooseTab
  BY <1>1, SameChange DEF Disks!ChooseTab, DP!ChooseTab
<1>2. ASSUME Disks!PickDisk PROVE DP!PickDisk
  BY <1>2, SamePage, SameChange DEF Disks!PickDisk, DP!PickDisk
<1>3. ASSUME Disks!ChooseFilesystem PROVE DP!ChooseFilesystem
  <2>1. Disks!RootOptions = DP!RootOptions
    BY SamePage DEF Disks!RootOptions, DP!RootOptions, Disks!Filesystems, DP!Filesystems
  <2>2. Disks!DataOptions = DP!DataOptions
    BY DEF Disks!DataOptions, DP!DataOptions, Disks!Filesystems, DP!Filesystems
  <2> QED BY <1>3, <2>1, <2>2, SamePage, SamePlanner, SameChange
          DEF Disks!ChooseFilesystem, DP!ChooseFilesystem
<1>4. ASSUME Disks!ToggleConfirm PROVE DP!ToggleConfirm
  BY <1>4, SameChange DEF Disks!ToggleConfirm, DP!ToggleConfirm
<1>5. ASSUME Disks!DisksArrive PROVE DP!DisksArrive
  <2>1. PICK payload \in Payloads :
          Disks!ChangeDisks(
            Disks!AutoFix(draft, Disks!NormalizeDiskInventory(payload)),
            [disks EXCEPT !.inventory = Disks!NormalizeDiskInventory(payload),
                          !.loading = FALSE])
    BY <1>5 DEF Disks!DisksArrive
  <2> DEFINE inventory == DP!NormalizeDiskInventory(payload)
  <2>2. DP!ChangeDisks(DP!AutoFix(draft, inventory),
                       [disks EXCEPT !.inventory = inventory, !.loading = FALSE])
    BY <2>1, SamePage, SamePlanner, SameChange
  <2> QED BY <1>5, <2>2 DEF Disks!DisksArrive, DP!DisksArrive
<1>6. ASSUME Disks!DisksFail PROVE DP!DisksFail
  BY <1>6, SameChange DEF Disks!DisksFail, DP!DisksFail
<1>7. ASSUME Disks!Reload PROVE DP!Reload
  BY <1>7, SamePage, SameChange DEF Disks!Reload, DP!Reload
<1> QED BY <1>1, <1>2, <1>3, <1>4, <1>5, <1>6, <1>7
        DEF DisksPageStep, DisksAnswered, DP!Next, DP!ByUser, DP!ByPage

-----------------------------------------------------------------------------
(* The disks page's own invariant, with everything else of the wizard around it. *)
DraftOfDisks == {"sysDisk", "dataDisk", "selectedDisks", "storageMode"}
ReportOfDisks == {"storageBlockingIssues", "destructiveConfirmed"}

LEMMA SameShape ==
    /\ DP!DraftFields = DraftFields /\ DP!UiFields = UiFields /\ DP!PageFields = PageFields
    /\ DP!InitialDraft = InitialDraft /\ DP!InitialUi = InitialUi
    /\ DP!UnmountedDisks = Disks!UnmountedDisks
    /\ DP!FreshDisks = Disks!FreshDisks
BY DEF DP!DraftFields, DraftFields, DP!UiFields, UiFields, DP!PageFields, PageFields,
       DP!InitialDraft, InitialDraft, DP!InitialUi, InitialUi, DP!UnmountedDisks,
       Disks!UnmountedDisks, DP!FreshDisks, Disks!FreshDisks, DP!NoRepo, NoRepo, DP!NoIface,
       NoIface, DP!NoZone, NoZone

LEMMA DisksFieldsOf ==
    /\ DraftOfDisks \subseteq DraftFields /\ ReportOfDisks \subseteq UiFields
    /\ DraftOfDisks \cap RenderFields = {}
BY DEF DraftOfDisks, ReportOfDisks, DraftFields, UiFields, InitialDraft, InitialUi, RenderFields

LEMMA DraftOfDisksStays ==
    ASSUME Shape, NEW fields, Only(fields), fields \cap DraftOfDisks = {}
    PROVE  /\ draft'.sysDisk = draft.sysDisk /\ draft'.dataDisk = draft.dataDisk
           /\ draft'.selectedDisks = draft.selectedDisks
           /\ draft'.storageMode = draft.storageMode
BY DisksFieldsOf DEF Shape, Only, DraftOfDisks

(* What other pages do, and going elsewhere. *)
LEMMA DisksLeftAlone ==
    ASSUME Shape, Shape', NEW fields, Only(fields), fields \cap DraftOfDisks = {},
           disks'.inventory = disks.inventory,
           ~disks'.mounted \/ (disks' = disks /\ fields \cap ReportOfDisks = {}),
           DP!DInv
    PROVE  DP!DInv' /\ (DP!SInv => DP!SInv')
<1>1. /\ draft'.sysDisk = draft.sysDisk /\ draft'.dataDisk = draft.dataDisk
      /\ draft'.selectedDisks = draft.selectedDisks
      /\ draft'.storageMode = draft.storageMode
  BY DraftOfDisksStays
<1>2. DP!Fields'
  BY SameShape DEF DP!Fields, DP!IsPage, Shape
<1>3. DP!Reported'
  <2>1. SUFFICES ASSUME disks'.mounted
                 PROVE  /\ ui'.storageBlockingIssues = DP!ReportedIssues(draft', disks')
                        /\ ui'.destructiveConfirmed = disks'.confirmed
    BY DEF DP!Reported
  <2>2. /\ disks' = disks
        /\ ui'.storageBlockingIssues = ui.storageBlockingIssues
        /\ ui'.destructiveConfirmed = ui.destructiveConfirmed
    BY <2>1, DisksFieldsOf DEF Shape, Only, ReportOfDisks
  <2>3. DP!ReportedIssues(draft', disks) = DP!ReportedIssues(draft, disks)
    BY <1>1 DEF DP!ReportedIssues
  <2> QED BY <2>1, <2>2, <2>3 DEF DP!DInv, DP!Reported
<1>4. DP!Loaded(disks)' => DP!Loaded(disks)
  BY DEF DP!Loaded
<1>5. DP!SInv => DP!SInv'
  BY <1>1, <1>4, DisksAssumptions, DP!SelectionKept
<1> QED BY <1>2, <1>3, <1>5 DEF DP!DInv

(* What comes with the step when it is entered or loaded again. *)
LEMMA DisksShownAnew ==
    ASSUME DP!DInv, Disks!ChangeDisks(<<>>, Disks!FreshDisks)
    PROVE  DP!DInv' /\ (DP!SInv => DP!SInv')
<1>1. DP!ChangeDisks(<<>>, DP!FreshDisks)
  BY SameShape, SameChange
<1>2. DP!IsPage(DP!FreshDisks) /\ DP!FreshDisks.inventory = <<>>
  BY DEF DP!FreshDisks, DP!IsPage, DP!PageFields
<1>3. DP!DInv'
  BY <1>1, <1>2, DisksAssumptions, DP!ChangeReports
<1>4. DP!SInv => DP!SInv'
  BY <1>1, <1>2, DisksAssumptions, DP!NothingListed
<1> QED BY <1>3, <1>4

LEMMA InitDisks == Init => DP!DInv /\ DP!SInv
<1>1. Init => DP!Init
  BY SameShape DEF Init, DP!Init
<1> QED BY <1>1, DisksAssumptions, DP!InitDInv, DP!InitSInv

LEMMA DisksOnPages ==
    ASSUME WInv, WInv', DP!DInv,
           \/ AcceptEula \/ EditUser \/ ConfirmDestruction
           \/ WelcomePageStep \/ TimezonePageStep \/ SourcePageStep
           \/ NetworkPageStep \/ FeaturesPageStep \/ CloneAnswered \/ NetworkAnswered
    PROVE  DP!DInv' /\ (DP!SInv => DP!SInv')
<1>1. /\ Shape /\ Shape' /\ disks' = disks
      /\ ConfirmDestruction => ~disks.mounted
  <2>1. ConfirmDestruction => stepIndex = 9
    BY StepNumbers DEF ConfirmDestruction, Step, WInv, Shape
  <2> QED BY <2>1 DEF WInv, PagesShown, AcceptEula, EditUser, ConfirmDestruction, PageOnly,
                WelcomePageStep, TimezonePageStep, SourcePageStep, NetworkPageStep,
                FeaturesPageStep, CloneAnswered, NetworkAnswered
<1>2. (ZoneFields \cup UserFields \cup SourceFields \cup FeatureFields \cup NetworkFields
         \cup {"eulaAccepted"}) \cap (DraftOfDisks \cup ReportOfDisks) = {}
  BY DEF ZoneFields, UserFields, SourceFields, FeatureFields, NetworkFields, AddressFields,
         UplinkFields, LinkFields, DraftOfDisks, ReportOfDisks
<1>3. CASE ConfirmDestruction
  <2>1. {"destructiveConfirmed"} \cap DraftOfDisks = {}
    BY DEF DraftOfDisks
  <2> QED BY <1>1, <1>3, <2>1, ConfirmTouches, DisksLeftAlone
<1>4. CASE ~ConfirmDestruction
  <2>1. \E fields : Only(fields) /\ fields \cap (DraftOfDisks \cup ReportOfDisks) = {}
    BY <1>2, <1>4, EulaTouches, UserTouches, WelcomeTouches, TimezoneTouches, SourceTouches,
       NetworkTouches, FeaturesTouch
  <2>2. PICK fields : Only(fields) /\ fields \cap (DraftOfDisks \cup ReportOfDisks) = {}
    BY <2>1
  <2>3. fields \cap DraftOfDisks = {} /\ fields \cap ReportOfDisks = {}
    BY <2>2
  <2> QED BY <1>1, <2>2, <2>3, DisksLeftAlone
<1> QED BY <1>3, <1>4

LEMMA DisksOnTheWay ==
    ASSUME WInv, WInv', DP!DInv, Navigate \/ ReloadBrowser
    PROVE  DP!DInv' /\ (DP!SInv => DP!SInv')
<1>1. /\ Only(RenderFields) /\ RenderFields \cap DraftOfDisks = {}
      /\ Shape /\ Shape' /\ stepIndex \in 1..10 /\ (Step = "disks" <=> stepIndex = 7)
      /\ disks.mounted <=> stepIndex = 7
  BY NavigateDoes, ReloadDoes, DisksFieldsOf, StepNumbers DEF WInv, Shape, PagesShown, Step
<1>2. CASE Navigate
  <2>1. PICK i \in 1..10 : GoTo(i)
    <3>1. NextStep => GoTo(stepIndex + 1) /\ stepIndex + 1 \in 1..10
      BY <1>1, StepNumbers DEF NextStep, Step
    <3>2. PreviousStep => GoTo(stepIndex - 1) /\ stepIndex - 1 \in 1..10
      BY <1>1 DEF PreviousStep, BackOffered, MovesBack
    <3>3. JumpBack => \E i \in 1..10 : GoTo(i)
      BY DEF JumpBack, MovesBack, PhaseStarts, Steps
    <3> QED BY <1>2, <3>1, <3>2, <3>3 DEF Navigate
  <2>2. CASE i = 7
    <3>1. Disks!ChangeDisks(<<>>, Disks!FreshDisks)
      BY <2>1, <2>2, StepNumbers DEF GoTo, Disks!Mount
    <3> QED BY <3>1, DisksShownAnew
  <2>3. CASE i # 7
    <3>1. disks' = IF Step = "disks" THEN Disks!LeavesDisks ELSE disks
      BY <2>1, <2>3, StepNumbers DEF GoTo
    <3>2. ~disks'.mounted /\ disks'.inventory = disks.inventory
      BY <1>1, <3>1, DisksShape
    <3> QED BY <1>1, <3>2, DisksLeftAlone
  <2> QED BY <2>2, <2>3
<1>3. CASE ReloadBrowser
  <2>1. CASE stepIndex = 7
    <3>1. Disks!ChangeDisks(<<>>, Disks!FreshDisks)
      BY <1>1, <1>3, <2>1 DEF ReloadBrowser
    <3> QED BY <3>1, DisksShownAnew
  <2>2. CASE stepIndex # 7
    <3>1. disks' = disks /\ ~disks.mounted
      BY <1>1, <1>3, <2>2, ReloadDoes
    <3> QED BY <1>1, <3>1, DisksLeftAlone
  <2> QED BY <2>1, <2>2
<1> QED BY <1>2, <1>3

LEMMA DisksOnImport == ASSUME WInv, WInv', ImportPlan PROVE DP!DInv'
<1>1. ~disks'.mounted
  BY StepNumbers DEF ImportPlan, Step, WInv, Shape, PagesShown
<1>2. DP!Fields'
  BY SameShape DEF DP!Fields, DP!IsPage, WInv, Shape
<1> QED BY <1>1, <1>2 DEF DP!DInv, DP!Reported

LEMMA DisksStutter ==
    ASSUME UNCHANGED <<draft, ui, disks>>, DP!DInv
    PROVE  DP!DInv' /\ (DP!SInv => DP!SInv')
BY DisksAssumptions, DP!StepKeepsDInv, DP!StepKeepsSInv DEF DP!diskVars

LEMMA StepKeepsDisks ==
    ASSUME WInv, WInv', DP!DInv, [Next]_vars
    PROVE  DP!DInv' /\ (DP!SInv => DP!SInv' \/ ImportPlan)
<1>1. CASE Navigate \/ ReloadBrowser
  BY <1>1, DisksOnTheWay
<1>2. CASE DisksPageStep \/ DisksAnswered
  BY <1>2, DisksStepIsThePages, DisksAssumptions, DP!StepKeepsDInv, DP!StepKeepsSInv
<1>3. CASE ImportPlan
  BY <1>3, DisksOnImport
<1>4. CASE OnPage \/ Answered
  BY <1>2, <1>3, <1>4, DisksOnPages DEF OnPage, Answered
<1>5. CASE UNCHANGED vars
  BY <1>5, DisksStutter DEF vars
<1> QED BY <1>1, <1>4, <1>5 DEF Next

LEMMA DInvAlways == Spec => []DP!DInv
BY InitDisks, StepKeepsDisks, WInvAlways, PTL DEF Spec

(* What the step demands, in the wizard as in the page's own theorems. *)
LEMMA SameDemands ==
    ASSUME NEW w, NEW u, DP!ProjectedTopology(w) = "single", Disks!DisksIssues(w, u) = {}
    PROVE  /\ u.storageBlockingIssues = {}
           /\ w.sysDisk # NoDisk
           /\ w.dataDisk = NoDisk
           /\ Disks!ToSet(w.selectedDisks) \ {NoDisk} = {w.sysDisk}
<1> DEFINE members == Disks!ToSet(w.selectedDisks) \ {NoDisk}
<1>1. u.storageBlockingIssues = {}
  BY DEF Disks!DisksIssues
<1>2. /\ "noSysDisk" \notin Disks!DisksIssues(w, u)
      /\ "sysDiskOutside" \notin Disks!DisksIssues(w, u)
      /\ "count" \notin Disks!DisksIssues(w, u)
      /\ "dataDisk" \notin Disks!DisksIssues(w, u)
  OBVIOUS
<1>3. Disks!ProjectedTopology(w) = "single" /\ Disks!NoDisk = NoDisk
  BY DEF Disks!ProjectedTopology, DP!ProjectedTopology, Disks!Read, DP!Read, Disks!NoDisk, NoDisk
<1>4. w.sysDisk # NoDisk
  BY <1>2, <1>3 DEF Disks!DisksIssues
<1>5. w.dataDisk = NoDisk
  BY <1>2, <1>3 DEF Disks!DisksIssues
<1>6. \E p \in members : members = {p}
  BY <1>2, <1>3 DEF Disks!DisksIssues
<1>7. w.sysDisk \in members
  BY <1>2, <1>3, <1>4, <1>6 DEF Disks!DisksIssues
<1>8. members = {w.sysDisk}
  BY <1>6, <1>7
<1> QED BY <1>1, <1>4, <1>5, <1>8

(* In the wizard as on its own, the automatic disks step is left only with one
   eligible disk picked and confirmed: whatever another step, a late answer, a
   reload or an imported file made of the draft before. *)
THEOREM PassedStepIsSoundInWizard == Spec => []Disks!PassedStepHasItsDisk
<1>1. ASSUME DP!DInv PROVE Disks!PassedStepHasItsDisk
  <2> SUFFICES ASSUME draft.storageMode = "automatic", disks.mounted,
                      Disks!DisksIssues(draft, ui) = {}
               PROVE  /\ draft.sysDisk \in Disks!Eligible(disks)
                      /\ Disks!ToSet(draft.selectedDisks) \ {NoDisk} = {draft.sysDisk}
                      /\ draft.dataDisk = NoDisk
                      /\ ui.destructiveConfirmed
                      /\ Disks!Topology(draft) = "single"
    BY DEF Disks!PassedStepHasItsDisk, Disks!NoDisk, NoDisk
  <2>1. DP!NoDisk = NoDisk
    BY DEF DP!NoDisk, NoDisk
  <2>2. DP!ProjectedTopology(draft) = "single"
    BY <1>1, DisksAssumptions, DP!JudgedAsSingle
  <2>3. /\ ui.storageBlockingIssues = {}
        /\ draft.sysDisk # NoDisk /\ draft.dataDisk = NoDisk
        /\ Disks!ToSet(draft.selectedDisks) \ {NoDisk} = {draft.sysDisk}
    BY <2>2, SameDemands
  <2>4. DP!ReportedIssues(draft, disks) = {} /\ ui.destructiveConfirmed = disks.confirmed
    BY <1>1, <2>3 DEF DP!DInv, DP!Reported
  <2>5. draft.sysDisk \in DP!Eligible(disks) /\ disks.confirmed
    BY <2>1, <2>3, <2>4, DisksAssumptions, DP!NothingReported
  <2>6. Disks!Eligible(disks) = DP!Eligible(disks)
    BY SamePlanner DEF Disks!Eligible, DP!Eligible
  <2>7. Disks!Topology(draft) = "single"
    BY <2>3 DEF Disks!Topology, Disks!HasSeparateDataDisk, Disks!NoDisk, NoDisk
  <2> QED BY <2>3, <2>4, <2>5, <2>6, <2>7
<1>2. DP!DInv => Disks!PassedStepHasItsDisk
  BY <1>1
<1> QED BY <1>2, DInvAlways, PTL

-----------------------------------------------------------------------------
(* The kinds of values that the fields hold. *)

(* A value fit for a field, of whichever record knows it. *)
FieldHolds(f, v) ==
    /\ f \in DraftFields => DraftHolds(f, v)
    /\ f \in UiFields => UiHolds(f, v)

TypesOK == DraftTypeOK(draft) /\ UiTypeOK(ui)

FlagFields == {"eulaAccepted", "netConnected", "netOffline", "netApplyBusy", "lanIdentified",
               "destructiveConfirmed", "installRunning", "luksEnabled", "allowWeakPassword"}

(* What the catalogues judge. *)
CatalogueFields == {"profileId", "selectedFeatures", "uiLanguage", "country", "locale",
                    "consoleKeymap", "keyMap", "timeZone", "timeZonePin"}

LEMMA DraftKinds ==
    ASSUME NEW v
    PROVE  /\ \A f \in NumberFields : DraftHolds(f, v) <=> v \in Nat
           /\ \A f \in ClassFields : DraftHolds(f, v) <=> v \in Values
           /\ DraftHolds("sourceKind", v) <=> v \in SourceKinds
           /\ DraftHolds("mgmtMode", v) <=> v \in {"dhcp", "static"}
           /\ DraftHolds("wanMode", v) <=> v \in {"dhcp", "static", "pppoe"}
           /\ DraftHolds("storageMode", v) <=> v \in StorageModes
           /\ DraftHolds("selectedDisks", v) <=> v \in Seq(Nat)
           /\ \A f \in {"rootFs", "dataFs"} : DraftHolds(f, v) <=> v \in Filesystems
           /\ \A f \in {"adminPassword", "adminPasswordConfirm"} :
                DraftHolds(f, v) <=> v \in Passwords
           /\ \A f \in {"luksEnabled", "allowWeakPassword"} : DraftHolds(f, v) <=> v \in BOOLEAN
           /\ \A f \in CatalogueFields : DraftHolds(f, v)
BY DEF DraftHolds, NumberFields, ClassFields, CatalogueFields

LEMMA UiKinds ==
    ASSUME NEW v
    PROVE  /\ UiHolds("githubSourceStatus", v) <=> v \in CloneStates
           /\ UiHolds("timeZonePin", v)
           /\ UiHolds("storageBlockingIssues", v) <=> IsFiniteSet(v)
           /\ \A f \in FlagFields : UiHolds(f, v) <=> v \in BOOLEAN
BY DEF UiHolds, FlagFields

LEMMA FieldSets ==
    /\ DraftFields = NumberFields \cup ClassFields
                       \cup {"sourceKind", "mgmtMode", "wanMode", "storageMode", "selectedDisks",
                             "rootFs", "dataFs", "adminPassword", "adminPasswordConfirm",
                             "luksEnabled", "allowWeakPassword"}
                       \cup (CatalogueFields \ {"locale", "timeZonePin"})
    /\ UiFields = {"githubSourceStatus", "timeZonePin", "storageBlockingIssues"}
                    \cup (FlagFields \ {"luksEnabled", "allowWeakPassword"})
BY DEF DraftFields, InitialDraft, UiFields, InitialUi, NumberFields, ClassFields,
       CatalogueFields, FlagFields

LEMMA FieldKinds ==
    ASSUME NEW v
    PROVE  /\ v \in Nat => \A f \in NumberFields : FieldHolds(f, v)
           /\ v \in Values => \A f \in ClassFields : FieldHolds(f, v)
           /\ v \in SourceKinds => FieldHolds("sourceKind", v)
           /\ v \in {"dhcp", "static"} => FieldHolds("mgmtMode", v)
           /\ v \in {"dhcp", "static", "pppoe"} => FieldHolds("wanMode", v)
           /\ v \in StorageModes => FieldHolds("storageMode", v)
           /\ v \in Filesystems => FieldHolds("rootFs", v) /\ FieldHolds("dataFs", v)
           /\ v \in Passwords => /\ FieldHolds("adminPassword", v)
                                 /\ FieldHolds("adminPasswordConfirm", v)
           /\ v \in CloneStates => FieldHolds("githubSourceStatus", v)
           /\ v \in BOOLEAN => \A f \in FlagFields : FieldHolds(f, v)
           /\ \A f \in CatalogueFields : FieldHolds(f, v)
<1>1. NumberFields \cup ClassFields
        \cup {"sourceKind", "mgmtMode", "wanMode", "storageMode", "rootFs", "dataFs",
              "adminPassword", "adminPasswordConfirm"} \subseteq DraftFields \ UiFields
  BY FieldSets, UiHas
<1>2. /\ "githubSourceStatus" \notin DraftFields
      /\ FlagFields \cap DraftFields = {"luksEnabled", "allowWeakPassword"}
      /\ CatalogueFields \cap UiFields = {"timeZonePin"}
  BY FieldSets, UiHas DEF FlagFields, CatalogueFields, DraftFields, InitialDraft, UiFields,
                          InitialUi
<1> QED BY <1>1, <1>2, DraftKinds, UiKinds DEF FieldHolds

LEMMA OneMore == ASSUME NEW S, NEW x, IsFiniteSet(S) PROVE IsFiniteSet(S \cup {x})
<1>1. PICK seq \in Seq(S) : \A s \in S : \E n \in 1..Len(seq) : seq[n] = s
  BY DEF IsFiniteSet
<1> DEFINE more == Append(seq, x)
<1>2. seq \in Seq(S \cup {x})
  OBVIOUS
<1>3. /\ more \in Seq(S \cup {x}) /\ Len(more) = Len(seq) + 1 /\ Len(seq) \in Nat
      /\ \A n \in 1..Len(seq) : more[n] = seq[n]
      /\ more[Len(seq) + 1] = x
  BY <1>2
<1> HIDE DEF more
<1>4. \A s \in S \cup {x} : \E n \in 1..Len(more) : more[n] = s
  <2>1. \A s \in S : \E n \in 1..Len(more) : more[n] = s
    BY <1>1, <1>3
  <2>2. \E n \in 1..Len(more) : more[n] = x
    BY <1>3
  <2> QED BY <2>1, <2>2
<1> QED BY <1>3, <1>4 DEF IsFiniteSet

LEMMA MaybeOneMore == ASSUME NEW S, NEW T, NEW x, IsFiniteSet(S) PROVE IsFiniteSet(S \cup (T \cap {x}))
<1>1. S \cup (T \cap {x}) = S \/ S \cup (T \cap {x}) = S \cup {x}
  OBVIOUS
<1> QED BY <1>1, OneMore

LEMMA NoneIsFinite == IsFiniteSet({})
<1>1. <<>> \in Seq({})
  OBVIOUS
<1> QED BY <1>1 DEF IsFiniteSet

LEMMA FourMore ==
    ASSUME NEW S, NEW T, NEW a, NEW b, NEW c, NEW d, IsFiniteSet(S)
    PROVE  IsFiniteSet(S \cup (T \cap {a}) \cup (T \cap {b}) \cup (T \cap {c}) \cup (T \cap {d}))
BY MaybeOneMore

(* What the disks page reports is a finite matter. *)
LEMMA ReportIsFinite == ASSUME NEW w, NEW d PROVE IsFiniteSet(Disks!ReportedIssues(w, d))
<1> DEFINE T == Disks!ReportedIssues(w, d)
           A == {} \cup (T \cap {"rootFs"}) \cup (T \cap {"dataFs"}) \cup (T \cap {"root"})
                  \cup (T \cap {"data"})
           B == A \cup (T \cap {"sameDisk"}) \cup (T \cap {"duplicate"})
                  \cup (T \cap {"ineligible"}) \cup (T \cap {"tooFew"})
           C == B \cup (T \cap {"odd"}) \cup (T \cap {"sizeUnknown"}) \cup (T \cap {"uneven"})
                  \cup (T \cap {"confirm"})
<1>1. T \subseteq {"rootFs", "dataFs", "root", "data", "sameDisk", "duplicate", "ineligible",
                   "tooFew", "odd", "sizeUnknown", "uneven", "confirm"}
  BY DEF Disks!ReportedIssues, Disks!StorageReasons, Disks!RaidSelectionReasons,
         Disks!RaidBlockingReasons, Disks!SplitDiskReasons, Disks!SingleDiskReasons,
         Disks!RoleReasons, Disks!FilesystemReasons
<1> HIDE DEF T
<1>2. T = C
  BY <1>1
<1>3. IsFiniteSet(A)
  BY NoneIsFinite, FourMore
<1> HIDE DEF A
<1>4. IsFiniteSet(B)
  BY <1>3, FourMore
<1> HIDE DEF B
<1>5. IsFiniteSet(C)
  BY <1>4, FourMore
<1> HIDE DEF C
<1>6. IsFiniteSet(T)
  BY <1>2, <1>5
<1> QED BY <1>6 DEF T

LEMMA InitTyped == DraftTypeOK(InitialDraft) /\ UiTypeOK(InitialUi)
<1> DEFINE w == InitialDraft
<1>1. ASSUME NEW f \in NumberFields PROVE w[f] \in Nat
  <2>1. /\ w.sourceRepoUrl = 0 /\ w.mgmtInterface = 0 /\ w.wanInterface = 0
        /\ w.sysDisk = 0 /\ w.dataDisk = 0
    BY DEF InitialDraft, NoRepo, NoIface
  <2> QED BY <2>1 DEF NumberFields
<1>2. ASSUME NEW f \in ClassFields PROVE w[f] \in Values
  <2>1. /\ w.hostName = "valid" /\ w.mgmtDns = "valid" /\ w.httpPort = "valid"
        /\ w.adminUser = "valid" /\ w.adminEmail = "valid"
        /\ w.serverIp = "" /\ w.mgmtGateway = "" /\ w.wanAddress = "" /\ w.wanGateway = ""
        /\ w.wanDns = "" /\ w.pppoeUser = "" /\ w.pppoePassword = ""
        /\ w.zfsUserRefquota = "" /\ w.btrfsUserQgroupLimit = ""
        /\ w.adminFullName = "" /\ w.adminAuthorizedKeys = ""
    BY DEF InitialDraft
  <2> QED BY <2>1 DEF ClassFields, Values
<1>3. /\ w.sourceKind = "offline-defaults" /\ w.mgmtMode = "dhcp" /\ w.wanMode = "dhcp"
      /\ w.storageMode = "automatic" /\ w.selectedDisks = <<>>
      /\ w.rootFs = "btrfs" /\ w.dataFs = "btrfs"
      /\ w.adminPassword = "" /\ w.adminPasswordConfirm = ""
      /\ w.luksEnabled = FALSE /\ w.allowWeakPassword = FALSE
  BY DEF InitialDraft
<1>4. ASSUME NEW f \in DraftFields PROVE DraftHolds(f, w[f])
  <2> HIDE DEF w
  <2>1. f \in NumberFields => DraftHolds(f, w[f])
    BY <1>1, DraftKinds
  <2>2. f \in ClassFields => DraftHolds(f, w[f])
    BY <1>2, DraftKinds
  <2>3. f \in CatalogueFields => DraftHolds(f, w[f])
    BY DraftKinds
  <2>4. /\ DraftHolds("sourceKind", w["sourceKind"]) /\ DraftHolds("mgmtMode", w["mgmtMode"])
        /\ DraftHolds("wanMode", w["wanMode"]) /\ DraftHolds("storageMode", w["storageMode"])
    BY <1>3, DraftKinds DEF SourceKinds, StorageModes
  <2>5. /\ DraftHolds("selectedDisks", w["selectedDisks"])
        /\ DraftHolds("rootFs", w["rootFs"]) /\ DraftHolds("dataFs", w["dataFs"])
    <3>1. <<>> \in Seq(Nat)
      OBVIOUS
    <3>2. DraftHolds("selectedDisks", w["selectedDisks"])
      BY <1>3, <3>1, DraftKinds
    <3> QED BY <1>3, <3>2, DraftKinds DEF Filesystems
  <2>6. /\ DraftHolds("adminPassword", w["adminPassword"])
        /\ DraftHolds("adminPasswordConfirm", w["adminPasswordConfirm"])
        /\ DraftHolds("luksEnabled", w["luksEnabled"])
        /\ DraftHolds("allowWeakPassword", w["allowWeakPassword"])
    BY <1>3, DraftKinds DEF Passwords
  <2> QED BY <2>1, <2>2, <2>3, <2>4, <2>5, <2>6, FieldSets
<1>5. ASSUME NEW f \in UiFields PROVE UiHolds(f, InitialUi[f])
  <2>1. /\ InitialUi.timeZonePin = "" /\ InitialUi.githubSourceStatus = "idle"
        /\ InitialUi.storageBlockingIssues = {}
        /\ InitialUi.eulaAccepted = FALSE /\ InitialUi.netConnected = FALSE
        /\ InitialUi.netOffline = FALSE /\ InitialUi.netApplyBusy = FALSE
        /\ InitialUi.lanIdentified = FALSE /\ InitialUi.destructiveConfirmed = FALSE
        /\ InitialUi.installRunning = FALSE
    BY DEF InitialUi, NoZone
  <2>2. CASE f \in {"storageBlockingIssues", "timeZonePin", "githubSourceStatus"}
    <3>1. UiHolds("storageBlockingIssues", InitialUi["storageBlockingIssues"])
      BY <2>1, NoneIsFinite, UiKinds
    <3> QED BY <2>1, <2>2, <3>1, UiKinds DEF CloneStates
  <2>3. CASE f \notin {"storageBlockingIssues", "timeZonePin", "githubSourceStatus"}
    <3>1. f \in FlagFields \ {"luksEnabled", "allowWeakPassword"}
      BY <2>3, FieldSets
    <3>2. InitialUi[f] = FALSE
      BY <2>1, <3>1 DEF FlagFields
    <3> QED BY <3>1, <3>2, UiKinds
  <2> QED BY <2>2, <2>3
<1> QED BY <1>4, <1>5 DEF DraftTypeOK, UiTypeOK, DraftFields, UiFields

(* Fit values leave the records fit. *)
LEMMA OnlyHolds ==
    ASSUME TypesOK, NEW fields, Only(fields),
           \A f \in fields \cap DraftFields : DraftHolds(f, draft'[f]),
           \A f \in fields \cap UiFields : UiHolds(f, ui'[f])
    PROVE  TypesOK'
BY DEF TypesOK, DraftTypeOK, UiTypeOK, Only

LEMMA ChangeHolds ==
    ASSUME TypesOK, NEW patch, Change(patch), \A f \in DOMAIN patch : FieldHolds(f, patch[f])
    PROVE  TypesOK'
BY DEF TypesOK, DraftTypeOK, UiTypeOK, Change, Patched, FieldHolds

-----------------------------------------------------------------------------
(* Page by page. *)

LEMMA EulaTyped == ASSUME TypesOK, AcceptEula PROVE TypesOK'
<1> DEFINE patch == [eulaAccepted |-> ~ui.eulaAccepted]
<1>1. Change(patch)
  BY DEF AcceptEula
<1>2. FieldHolds("eulaAccepted", ~ui.eulaAccepted)
  BY FieldKinds DEF FlagFields
<1>3. \A f \in DOMAIN patch : FieldHolds(f, patch[f])
  BY <1>2
<1> HIDE DEF patch
<1> QED BY <1>1, <1>3, ChangeHolds

LEMMA ConfirmTyped == ASSUME TypesOK, ConfirmDestruction PROVE TypesOK'
<1> DEFINE patch == [destructiveConfirmed |-> ~ui.destructiveConfirmed]
<1>1. Change(patch)
  BY DEF ConfirmDestruction
<1>2. FieldHolds("destructiveConfirmed", ~ui.destructiveConfirmed)
  BY FieldKinds DEF FlagFields
<1>3. \A f \in DOMAIN patch : FieldHolds(f, patch[f])
  BY <1>2
<1> HIDE DEF patch
<1> QED BY <1>1, <1>3, ChangeHolds

LEMMA UserTyped == ASSUME TypesOK, EditUser PROVE TypesOK'
<1>1. ASSUME NEW f, NEW v, Change([x \in {f} |-> v]), FieldHolds(f, v) PROVE TypesOK'
  <2> DEFINE patch == [x \in {f} |-> v]
  <2>1. Change(patch) /\ \A x \in DOMAIN patch : FieldHolds(x, patch[x])
    BY <1>1
  <2> HIDE DEF patch
  <2> QED BY <2>1, ChangeHolds
<1>2. ASSUME NEW f \in {"adminUser", "adminFullName", "adminEmail", "adminAuthorizedKeys"},
             NEW v \in Typed, Change([x \in {f} |-> v])
      PROVE  TypesOK'
  <2>1. FieldHolds(f, v)
    BY WizardAssumption, FieldKinds DEF ClassFields
  <2> QED BY <1>1, <1>2, <2>1
<1>3. ASSUME NEW f \in {"adminPassword", "adminPasswordConfirm"}, NEW v \in TypedPasswords,
             Change([x \in {f} |-> v])
      PROVE  TypesOK'
  <2>1. FieldHolds(f, v)
    BY WizardAssumption, FieldKinds
  <2> QED BY <1>1, <1>3, <2>1
<1>4. ASSUME Change([allowWeakPassword |-> ~draft.allowWeakPassword]) PROVE TypesOK'
  <2> DEFINE patch == [allowWeakPassword |-> ~draft.allowWeakPassword]
  <2>1. Change(patch)
    BY <1>4
  <2>2. FieldHolds("allowWeakPassword", ~draft.allowWeakPassword)
    BY FieldKinds DEF FlagFields
  <2>3. \A f \in DOMAIN patch : FieldHolds(f, patch[f])
    BY <2>2
  <2> HIDE DEF patch
  <2> QED BY <2>1, <2>3, ChangeHolds
<1> QED BY <1>2, <1>3, <1>4 DEF EditUser

(* A page that only changes what the catalogues judge. *)
LEMMA CatalogueTyped ==
    ASSUME TypesOK, WelcomePageStep \/ TimezonePageStep \/ FeaturesPageStep PROVE TypesOK'
<1>1. Only(CatalogueFields)
  <2>1. ZoneFields \subseteq CatalogueFields /\ FeatureFields \subseteq CatalogueFields
    BY DEF ZoneFields, FeatureFields, CatalogueFields
  <2>2. Only(ZoneFields) \/ Only(FeatureFields)
    BY WelcomeTouches, TimezoneTouches, FeaturesTouch
  <2> QED BY <2>1, <2>2 DEF Only
<1>2. CatalogueFields \cap UiFields = {"timeZonePin"}
  BY FieldSets DEF CatalogueFields, FlagFields
<1> QED BY <1>1, <1>2, OnlyHolds, DraftKinds, UiKinds

LEMMA SourceTyped == ASSUME TypesOK, SourcePageStep \/ CloneAnswered PROVE TypesOK'
<1>1. ASSUME NEW status \in CloneStates, Source!Change([githubSourceStatus |-> status])
      PROVE  TypesOK'
  <2> DEFINE patch == [githubSourceStatus |-> status]
  <2>1. Change(patch)
    BY <1>1, SourceChange
  <2>2. FieldHolds("githubSourceStatus", status)
    BY FieldKinds
  <2>3. \A f \in DOMAIN patch : FieldHolds(f, patch[f])
    BY <2>2
  <2> HIDE DEF patch
  <2> QED BY <2>1, <2>3, ChangeHolds
<1>2. ASSUME NEW kind, Source!ChooseKind(kind) PROVE TypesOK'
  <2>1. FieldHolds("sourceKind", kind) /\ FieldHolds("githubSourceStatus", "none")
    <3>1. kind \in SourceKinds /\ "none" \in CloneStates
      BY <1>2 DEF Source!ChooseKind, Source!GithubKinds, Source!PlainKinds, SourceKinds,
                  CloneStates
    <3> QED BY <3>1, FieldKinds
  <2>2. CASE kind \in Source!GithubKinds
    <3> DEFINE patch == [sourceKind |-> kind, githubSourceStatus |-> "none"]
    <3>1. Change(patch)
      BY <1>2, <2>2, SourceChange DEF Source!ChooseKind
    <3>2. \A f \in DOMAIN patch : FieldHolds(f, patch[f])
      BY <2>1
    <3> HIDE DEF patch
    <3> QED BY <3>1, <3>2, ChangeHolds
  <2>3. CASE kind \notin Source!GithubKinds
    <3> DEFINE patch == [sourceKind |-> kind]
    <3>1. Change(patch)
      BY <1>2, <2>3, SourceChange DEF Source!ChooseKind
    <3>2. \A f \in DOMAIN patch : FieldHolds(f, patch[f])
      BY <2>1
    <3> HIDE DEF patch
    <3> QED BY <3>1, <3>2, ChangeHolds
  <2> QED BY <2>2, <2>3
<1>3. ASSUME NEW repo \in Repositories, Source!EditRepository(repo) PROVE TypesOK'
  <2> DEFINE patch == [sourceRepoUrl |-> repo, githubSourceStatus |-> "none"]
  <2>1. Change(patch)
    BY <1>3, SourceChange DEF Source!EditRepository
  <2>2. FieldHolds("sourceRepoUrl", repo) /\ FieldHolds("githubSourceStatus", "none")
    <3>1. repo \in Nat /\ "none" \in CloneStates
      BY WizardAssumption DEF CloneStates
    <3> QED BY <3>1, FieldKinds DEF NumberFields
  <2>3. \A f \in DOMAIN patch : FieldHolds(f, patch[f])
    BY <2>2
  <2> HIDE DEF patch
  <2> QED BY <2>1, <2>3, ChangeHolds
<1>4. {"cloning", "ready", "error"} \subseteq CloneStates
  BY DEF CloneStates
<1> QED
  BY <1>1, <1>2, <1>3, <1>4
     DEF SourcePageStep, CloneAnswered, Source!PrepareRepo, Source!CloneSucceeds,
         Source!CloneFails

(* The interfaces listed are numbers. *)
LEMMA ListedNumbers ==
    ASSUME NEW list \in Listings
    PROVE  /\ ToSet(list) \subseteq Nat
           /\ list # <<>> => Head(list) \in Nat
<1>1. list \in Seq(Nat \ {NoIface})
  BY WizardAssumption
<1> QED BY <1>1 DEF ToSet

LEMMA NetworkTyped == ASSUME TypesOK, NetworkPageStep \/ NetworkAnswered PROVE TypesOK'
<1>1. ASSUME NEW f, NEW v, Network!Change([x \in {f} |-> v]), FieldHolds(f, v) PROVE TypesOK'
  <2> DEFINE patch == [x \in {f} |-> v]
  <2>1. Change(patch) /\ \A x \in DOMAIN patch : FieldHolds(x, patch[x])
    BY <1>1, NetworkChange
  <2> HIDE DEF patch
  <2> QED BY <2>1, ChangeHolds
<1>2. ASSUME NEW i \in Nat, Network!ChooseInterface(i) PROVE TypesOK'
  <2> DEFINE patch == [mgmtInterface |-> i, lanIdentified |-> FALSE]
  <2>1. Change(patch)
    BY <1>2, NetworkChange DEF Network!ChooseInterface
  <2>2. FieldHolds("mgmtInterface", i) /\ FieldHolds("lanIdentified", FALSE)
    BY FieldKinds DEF NumberFields, FlagFields
  <2>3. /\ DOMAIN patch = {"mgmtInterface", "lanIdentified"}
        /\ patch.mgmtInterface = i /\ patch.lanIdentified = FALSE
    OBVIOUS
  <2> HIDE DEF patch
  <2>4. \A f \in DOMAIN patch : FieldHolds(f, patch[f])
    BY <2>2, <2>3
  <2> QED BY <2>1, <2>4, ChangeHolds
<1>3. ASSUME NEW i \in Nat, Network!ChooseUplink(i) PROVE TypesOK'
  <2>1. CASE i # NoIface
    <3> DEFINE patch == [wanInterface |-> i]
    <3>1. Change(patch)
      BY <1>3, <2>1, NetworkChange DEF Network!ChooseUplink, NoIface, Network!NoIface
    <3>2. FieldHolds("wanInterface", i)
      BY FieldKinds DEF NumberFields
    <3>3. \A f \in DOMAIN patch : FieldHolds(f, patch[f])
      BY <3>2
    <3> HIDE DEF patch
    <3> QED BY <3>1, <3>3, ChangeHolds
  <2>2. CASE i = NoIface
    <3> DEFINE patch == [wanInterface |-> NoIface, wanMode |-> "dhcp", wanAddress |-> "",
                         wanGateway |-> "", wanDns |-> "", pppoeUser |-> "",
                         pppoePassword |-> ""]
    <3>1. Change(patch)
      BY <1>3, <2>2, NetworkChange DEF Network!ChooseUplink, NoIface, Network!NoIface
    <3>2. /\ FieldHolds("wanInterface", NoIface) /\ FieldHolds("wanMode", "dhcp")
          /\ FieldHolds("wanAddress", "") /\ FieldHolds("wanGateway", "")
          /\ FieldHolds("wanDns", "") /\ FieldHolds("pppoeUser", "")
          /\ FieldHolds("pppoePassword", "")
      <4>1. NoIface \in Nat /\ "" \in Values
        BY DEF NoIface, Values
      <4> QED BY <4>1, FieldKinds DEF NumberFields, ClassFields
    <3>3. /\ DOMAIN patch = {"wanInterface", "wanMode", "wanAddress",
                             "wanGateway", "wanDns", "pppoeUser", "pppoePassword"}
          /\ patch.wanInterface = NoIface /\ patch.wanMode = "dhcp" /\ patch.wanAddress = ""
          /\ patch.wanGateway = "" /\ patch.wanDns = "" /\ patch.pppoeUser = ""
          /\ patch.pppoePassword = ""
      OBVIOUS
    <3> HIDE DEF patch
    <3>4. \A f \in DOMAIN patch : FieldHolds(f, patch[f])
      BY <3>2, <3>3
    <3> QED BY <3>1, <3>4, ChangeHolds
  <2> QED BY <2>1, <2>2
<1>4. ASSUME NEW mode \in {"dhcp", "static"}, Network!ChooseMode(mode) PROVE TypesOK'
  <2> DEFINE patch == [mgmtMode |-> mode]
  <2>1. Change(patch)
    BY <1>4, NetworkChange DEF Network!ChooseMode
  <2>2. \A f \in DOMAIN patch : FieldHolds(f, patch[f])
    BY FieldKinds
  <2> HIDE DEF patch
  <2> QED BY <2>1, <2>2, ChangeHolds
<1>5. ASSUME NEW mode \in {"dhcp", "static", "pppoe"}, Network!ChooseUplinkMode(mode)
      PROVE  TypesOK'
  <2> DEFINE patch == [wanMode |-> mode]
  <2>1. Change(patch)
    BY <1>5, NetworkChange DEF Network!ChooseUplinkMode
  <2>2. \A f \in DOMAIN patch : FieldHolds(f, patch[f])
    BY FieldKinds
  <2> HIDE DEF patch
  <2> QED BY <2>1, <2>2, ChangeHolds
<1>6. ASSUME NEW f, NEW v \in Typed, Network!EditField(f, v) PROVE TypesOK'
  <2>1. Network!ShownFields \subseteq ClassFields
    BY DEF Network!ShownFields, Network!LanFields, Network!UplinkFields, ClassFields
  <2>2. FieldHolds(f, v) /\ Network!Change([x \in {f} |-> v])
    BY <1>6, <2>1, WizardAssumption, FieldKinds DEF Network!EditField
  <2> QED BY <1>1, <2>2
<1>7. ASSUME NEW busy \in BOOLEAN, Network!Change([netApplyBusy |-> busy]) PROVE TypesOK'
  <2> DEFINE patch == [netApplyBusy |-> busy]
  <2>1. Change(patch)
    BY <1>7, NetworkChange
  <2>2. \A f \in DOMAIN patch : FieldHolds(f, patch[f])
    BY FieldKinds DEF FlagFields
  <2> HIDE DEF patch
  <2> QED BY <2>1, <2>2, ChangeHolds
<1>8. ASSUME Network!IdentifyLan PROVE TypesOK'
  <2> DEFINE patch == [lanIdentified |-> ~ui.lanIdentified]
  <2>1. Change(patch)
    BY <1>8, NetworkChange DEF Network!IdentifyLan
  <2>2. FieldHolds("lanIdentified", ~ui.lanIdentified)
    BY FieldKinds DEF FlagFields
  <2>3. \A f \in DOMAIN patch : FieldHolds(f, patch[f])
    BY <2>2
  <2> HIDE DEF patch
  <2> QED BY <2>1, <2>3, ChangeHolds
<1>9. ASSUME Network!ContinueOffline PROVE TypesOK'
  <2> DEFINE patch == [netOffline |-> TRUE, netConnected |-> FALSE]
  <2>1. Change(patch)
    BY <1>9, NetworkChange DEF Network!ContinueOffline
  <2>2. FieldHolds("netOffline", TRUE) /\ FieldHolds("netConnected", FALSE)
    BY FieldKinds DEF FlagFields
  <2>3. /\ DOMAIN patch = {"netOffline", "netConnected"}
        /\ patch.netOffline = TRUE /\ patch.netConnected = FALSE
    OBVIOUS
  <2> HIDE DEF patch
  <2>4. \A f \in DOMAIN patch : FieldHolds(f, patch[f])
    BY <2>2, <2>3
  <2> QED BY <2>1, <2>4, ChangeHolds
<1>10. ASSUME Network!InterfacesArrive PROVE TypesOK'
  <2>1. PICK list \in Listings :
          Network!Change([mgmtInterface |->
                            IF draft.mgmtInterface \in Network!ToSet(list) THEN draft.mgmtInterface
                            ELSE IF list = <<>> THEN Network!NoIface ELSE Head(list)])
    BY <1>10 DEF Network!InterfacesArrive
  <2> DEFINE i == IF draft.mgmtInterface \in Network!ToSet(list) THEN draft.mgmtInterface
                  ELSE IF list = <<>> THEN Network!NoIface ELSE Head(list)
             patch == [mgmtInterface |-> i]
  <2>2. Change(patch)
    BY <2>1, NetworkChange
  <2>3. i \in Nat
    BY ListedNumbers DEF ToSet, Network!ToSet, Network!NoIface
  <2> HIDE DEF i
  <2>4. FieldHolds("mgmtInterface", i)
    BY <2>3, FieldKinds DEF NumberFields
  <2>5. \A f \in DOMAIN patch : FieldHolds(f, patch[f])
    BY <2>4
  <2> HIDE DEF patch
  <2> QED BY <2>2, <2>5, ChangeHolds
<1>11. TypesOK' \/ ~UNCHANGED <<draft, ui>>
  BY DEF TypesOK
<1>12. ASSUME Network!StatusArrives PROVE TypesOK'
  <2>1. ASSUME Network!Change([netConnected |-> TRUE, netOffline |-> FALSE,
                               serverIp |-> "valid"])
        PROVE  TypesOK'
    <3> DEFINE patch == [netConnected |-> TRUE, netOffline |-> FALSE, serverIp |-> "valid"]
    <3>1. Change(patch)
      BY <2>1, NetworkChange
    <3>2. /\ FieldHolds("netConnected", TRUE) /\ FieldHolds("netOffline", FALSE)
          /\ FieldHolds("serverIp", "valid")
      BY FieldKinds DEF FlagFields, ClassFields, Values
    <3>3. /\ DOMAIN patch = {"netConnected", "netOffline", "serverIp"}
          /\ patch.netConnected = TRUE /\ patch.netOffline = FALSE /\ patch.serverIp = "valid"
      OBVIOUS
    <3> HIDE DEF patch
    <3>4. \A f \in DOMAIN patch : FieldHolds(f, patch[f])
      BY <3>2, <3>3
    <3> QED BY <3>1, <3>4, ChangeHolds
  <2>2. ASSUME Network!Change([netConnected |-> FALSE]) PROVE TypesOK'
    <3> DEFINE patch == [netConnected |-> FALSE]
    <3>1. Change(patch)
      BY <2>2, NetworkChange
    <3>2. FieldHolds("netConnected", FALSE)
      BY FieldKinds DEF FlagFields
    <3>3. DOMAIN patch = {"netConnected"} /\ patch.netConnected = FALSE
      OBVIOUS
    <3> HIDE DEF patch
    <3>4. \A f \in DOMAIN patch : FieldHolds(f, patch[f])
      BY <3>2, <3>3
    <3> QED BY <3>1, <3>4, ChangeHolds
  <2> QED BY <1>11, <1>12, <2>1, <2>2 DEF Network!StatusArrives
<1>13. ASSUME Network!NetworkApplied PROVE TypesOK'
  <2>0. draft.mgmtDns \in Values
    <3>1. "mgmtDns" \in DraftFields \cap ClassFields
      BY DEF DraftFields, InitialDraft, ClassFields
    <3>2. DraftHolds("mgmtDns", draft["mgmtDns"])
      BY <3>1 DEF TypesOK, DraftTypeOK
    <3> QED BY <3>1, <3>2, DraftKinds
  <2>1. ASSUME NEW gateway \in {"", "valid"}, NEW dns \in {draft.mgmtDns, "valid"},
               Network!Change([netApplyBusy |-> FALSE, serverIp |-> "valid",
                               mgmtGateway |-> gateway, mgmtDns |-> dns])
        PROVE  TypesOK'
    <3> DEFINE patch == [netApplyBusy |-> FALSE, serverIp |-> "valid",
                         mgmtGateway |-> gateway, mgmtDns |-> dns]
    <3>1. Change(patch)
      BY <2>1, NetworkChange
    <3>2. /\ FieldHolds("netApplyBusy", FALSE) /\ FieldHolds("serverIp", "valid")
          /\ FieldHolds("mgmtGateway", gateway) /\ FieldHolds("mgmtDns", dns)
      BY <2>0, FieldKinds DEF FlagFields, ClassFields, Values
    <3>3. /\ DOMAIN patch = {"netApplyBusy", "serverIp", "mgmtGateway", "mgmtDns"}
          /\ patch.netApplyBusy = FALSE /\ patch.serverIp = "valid"
          /\ patch.mgmtGateway = gateway /\ patch.mgmtDns = dns
      OBVIOUS
    <3> HIDE DEF patch
    <3>4. \A f \in DOMAIN patch : FieldHolds(f, patch[f])
      BY <3>2, <3>3
    <3> QED BY <3>1, <3>4, ChangeHolds
  <2> QED BY <1>13, <2>1 DEF Network!NetworkApplied
<1>14. Network!ConnectWifi \/ Network!RefreshInterfaces => TypesOK'
  BY <1>11 DEF Network!ConnectWifi, Network!RefreshInterfaces
<1>15. Network!ApplyNetwork \/ Network!NetworkNotApplied \/ Network!ApplyFails => TypesOK'
  BY <1>7 DEF Network!ApplyNetwork, Network!NetworkNotApplied, Network!ApplyFails
<1>16. CASE NetworkPageStep
  <2>1. ({NoIface} \cup UNION {ToSet(list) : list \in Listings}) \subseteq Nat
    BY ListedNumbers DEF NoIface
  <2> QED BY <2>1, <1>2, <1>3, <1>4, <1>5, <1>6, <1>8, <1>9, <1>14, <1>15, <1>16
          DEF NetworkPageStep
<1>17. CASE NetworkAnswered
  BY <1>10, <1>12, <1>13, <1>14, <1>15, <1>17 DEF NetworkAnswered
<1> QED BY <1>16, <1>17

(* What the page lets one change besides the disks. *)
LEMMA DisksExtras ==
    ASSUME Shape, DisksPageStep \/ DisksAnswered
    PROVE  /\ draft'.rootFs \in Filesystems \cup {draft.rootFs}
           /\ draft'.dataFs \in Filesystems \cup {draft.dataFs}
           /\ disks.mounted /\ disks'.mounted
           /\ disks'.confirmed \in {disks.confirmed, ~disks.confirmed}
<1> DEFINE Goal == /\ draft'.rootFs \in Filesystems \cup {draft.rootFs}
                   /\ draft'.dataFs \in Filesystems \cup {draft.dataFs}
                   /\ disks.mounted
                   /\ disks'.confirmed \in {disks.confirmed, ~disks.confirmed}
<1>1. {"rootFs", "dataFs"} \subseteq DOMAIN draft
  BY FieldSets DEF Shape
<1>2. ASSUME NEW patch, NEW d, Disks!ChangeDisks(patch, d), disks.mounted,
             {"rootFs", "dataFs"} \cap DOMAIN patch = {},
             d.confirmed \in {disks.confirmed, ~disks.confirmed}
      PROVE  Goal
  BY <1>1, <1>2 DEF Disks!ChangeDisks, Disks!Patched
<1> HIDE DEF Goal
<1>3. ASSUME Disks!ChooseTab PROVE Goal
  <2>1. PICK mode : Disks!ChangeDisks([storageMode |-> mode], disks) /\ disks.mounted
    BY <1>3 DEF Disks!ChooseTab
  <2> DEFINE patch == [storageMode |-> mode]
  <2>2. {"rootFs", "dataFs"} \cap DOMAIN patch = {} /\ Disks!ChangeDisks(patch, disks)
    BY <2>1
  <2> HIDE DEF patch
  <2> QED BY <2>1, <2>2, <1>2
<1>4. ASSUME Disks!PickDisk PROVE Goal
  <2>1. PICK p : Disks!ChangeDisks(Disks!PickDiskPatch(p), disks) /\ disks.mounted
    BY <1>4 DEF Disks!PickDisk, Disks!Loaded
  <2>2. {"rootFs", "dataFs"} \cap DOMAIN Disks!PickDiskPatch(p) = {}
    BY DEF Disks!PickDiskPatch, Disks!AsDataDisk, Disks!AsSystemDisk
  <2> QED BY <2>1, <2>2, <1>2
<1>5. ASSUME Disks!ChooseFilesystem PROVE Goal
  <2>1. ASSUME NEW fs \in Filesystems, Disks!ChangeDisks([rootFs |-> fs], disks) PROVE Goal
    <3> DEFINE patch == [rootFs |-> fs]
    <3>1. DOMAIN patch = {"rootFs"} /\ patch["rootFs"] = fs
      OBVIOUS
    <3>2. Disks!ChangeDisks(patch, disks)
      BY <2>1
    <3> HIDE DEF patch
    <3>3. draft'.rootFs = fs /\ draft'.dataFs = draft.dataFs /\ disks' = disks
      BY <1>1, <3>1, <3>2 DEF Disks!ChangeDisks, Disks!Patched
    <3> QED BY <1>5, <3>3 DEF Goal, Disks!ChooseFilesystem, Disks!Loaded
  <2>2. ASSUME NEW fs \in Filesystems, Disks!ChangeDisks([dataFs |-> fs], disks) PROVE Goal
    <3> DEFINE patch == [dataFs |-> fs]
    <3>1. DOMAIN patch = {"dataFs"} /\ patch["dataFs"] = fs
      OBVIOUS
    <3>2. Disks!ChangeDisks(patch, disks)
      BY <2>2
    <3> HIDE DEF patch
    <3>3. draft'.dataFs = fs /\ draft'.rootFs = draft.rootFs /\ disks' = disks
      BY <1>1, <3>1, <3>2 DEF Disks!ChangeDisks, Disks!Patched
    <3> QED BY <1>5, <3>3 DEF Goal, Disks!ChooseFilesystem, Disks!Loaded
  <2>3. Disks!RootOptions \subseteq Filesystems /\ Disks!DataOptions \subseteq Filesystems
    BY DEF Disks!RootOptions, Disks!DataOptions, Disks!Filesystems, Filesystems
  <2> QED BY <1>5, <2>1, <2>2, <2>3 DEF Disks!ChooseFilesystem
<1>6. ASSUME Disks!DisksArrive PROVE Goal
  <2>1. PICK inventory :
          /\ Disks!ChangeDisks(Disks!AutoFix(draft, inventory),
                               [disks EXCEPT !.inventory = inventory, !.loading = FALSE])
          /\ disks.mounted
    BY <1>6 DEF Disks!DisksArrive
  <2> DEFINE d == [disks EXCEPT !.inventory = inventory, !.loading = FALSE]
             w == Disks!AutoFix(draft, inventory)
  <2>2. d.confirmed = disks.confirmed
    BY DEF Shape, PageFields
  <2>3. w.rootFs = draft.rootFs /\ w.dataFs = draft.dataFs
    BY <1>1 DEF Disks!AutoFix
  <2>4. Disks!ChangeDisks(w, d)
    BY <2>1
  <2> HIDE DEF d, w
  <2>5. /\ draft'.rootFs = draft.rootFs /\ draft'.dataFs = draft.dataFs /\ disks' = d
    BY <1>1, <2>3, <2>4 DEF Disks!ChangeDisks, Disks!Patched
  <2> QED BY <2>1, <2>2, <2>5 DEF Goal
<1>7. {"rootFs", "dataFs"} \cap DOMAIN << >> = {}
  OBVIOUS
<1>8. ASSUME Disks!DisksFail PROVE Goal
  <2> DEFINE d == [disks EXCEPT !.inventory = <<>>, !.loading = FALSE, !.error = TRUE]
  <2>1. d.confirmed = disks.confirmed
    BY DEF Shape, PageFields
  <2>2. Disks!ChangeDisks(<<>>, d) /\ disks.mounted
    BY <1>8 DEF Disks!DisksFail
  <2> HIDE DEF d
  <2> QED BY <2>1, <2>2, <1>2, <1>7
<1>9. ASSUME Disks!Reload PROVE Goal
  <2> DEFINE d == [disks EXCEPT !.loading = TRUE]
  <2>1. d.confirmed = disks.confirmed
    BY DEF Shape, PageFields
  <2>2. Disks!ChangeDisks(<<>>, d) /\ disks.mounted
    BY <1>9 DEF Disks!Reload, Disks!Loaded
  <2> HIDE DEF d
  <2> QED BY <2>1, <2>2, <1>2, <1>7
<1>10. ASSUME Disks!ToggleConfirm PROVE Goal
  <2> DEFINE d == [disks EXCEPT !.confirmed = ~@]
  <2>1. d.confirmed = ~disks.confirmed
    BY DEF Shape, PageFields
  <2>2. Disks!ChangeDisks(<<>>, d) /\ disks.mounted
    BY <1>10 DEF Disks!ToggleConfirm
  <2> HIDE DEF d
  <2> QED BY <2>1, <2>2, <1>2, <1>7
<1>11. Goal
  BY <1>3, <1>4, <1>5, <1>6, <1>8, <1>9, <1>10 DEF DisksPageStep, DisksAnswered
<1> QED BY <1>11, DisksTouches DEF Goal

(* A list of numbers is a list of its elements, and the other way around. *)
LEMMA NumberLists ==
    ASSUME NEW s
    PROVE  s \in Seq(Nat) <=> DP!IsSeq(s) /\ DP!ToSet(s) \subseteq Nat
<1>1. ASSUME s \in Seq(Nat) PROVE DP!IsSeq(s) /\ DP!ToSet(s) \subseteq Nat
  <2>1. \A i \in DOMAIN s : s[i] \in DP!ToSet(s) /\ s[i] \in Nat
    BY <1>1 DEF DP!ToSet
  <2>2. s \in Seq(DP!ToSet(s))
    BY <1>1, <2>1
  <2> QED BY <1>1, <2>2 DEF DP!IsSeq, DP!ToSet
<1>2. ASSUME DP!IsSeq(s), DP!ToSet(s) \subseteq Nat PROVE s \in Seq(Nat)
  <2>1. s \in Seq(DP!ToSet(s))
    BY <1>2 DEF DP!IsSeq
  <2> DEFINE S == DP!ToSet(s)
  <2> HIDE DEF S
  <2>2. s \in Seq(S) /\ S \subseteq Nat
    BY <1>2, <2>1 DEF S
  <2>3. Len(s) \in Nat /\ s \in [1..Len(s) -> S]
    BY <2>2
  <2>4. s \in [1..Len(s) -> Nat]
    BY <2>2, <2>3
  <2> QED BY <2>3, <2>4
<1> QED BY <1>1, <1>2

(* What the page reports is fit to be kept. *)
LEMMA ReportTyped ==
    ASSUME DP!DInv', disks'.mounted, disks'.confirmed \in BOOLEAN
    PROVE  /\ UiHolds("storageBlockingIssues", ui'.storageBlockingIssues)
           /\ UiHolds("destructiveConfirmed", ui'.destructiveConfirmed)
<1>1. /\ ui'.storageBlockingIssues = DP!ReportedIssues(draft', disks')
      /\ ui'.destructiveConfirmed = disks'.confirmed
  BY DEF DP!DInv, DP!Reported
<1>2. IsFiniteSet(DP!ReportedIssues(draft', disks'))
  BY SameReport, ReportIsFinite
<1> QED BY <1>1, <1>2, UiKinds DEF FlagFields

LEMMA DisksTyped ==
    ASSUME TypesOK, Shape, PagesShown, DP!DInv, DP!DInv', DP!SInv', DisksPageStep \/ DisksAnswered
    PROVE  TypesOK'
<1>1. Only(DiskFields \cup {"storageMode"})
  BY DisksTouches DEF Only
<1>2. ui.destructiveConfirmed \in BOOLEAN /\ ui.destructiveConfirmed = disks.confirmed
  <2>1. disks.mounted
    BY DisksExtras
  <2>2. "destructiveConfirmed" \in UiFields
    BY UiHas
  <2> QED BY <2>1, <2>2, UiKinds DEF DP!DInv, DP!Reported, TypesOK, UiTypeOK, FlagFields
<1>3. /\ UiHolds("storageBlockingIssues", ui'.storageBlockingIssues)
      /\ UiHolds("destructiveConfirmed", ui'.destructiveConfirmed)
  BY <1>2, DisksExtras, ReportTyped
<1>4. /\ DraftHolds("sysDisk", draft'.sysDisk) /\ DraftHolds("dataDisk", draft'.dataDisk)
      /\ DraftHolds("selectedDisks", draft'.selectedDisks)
  <2>1. /\ draft'.sysDisk \in Nat /\ draft'.dataDisk \in Nat
        /\ DP!IsSeq(draft'.selectedDisks) /\ DP!ToSet(draft'.selectedDisks) \subseteq Nat
    BY DEF DP!SInv, DP!Selection
  <2>2. draft'.selectedDisks \in Seq(Nat)
    BY <2>1, NumberLists
  <2> QED BY <2>1, <2>2, DraftKinds DEF NumberFields
<1>5. DraftHolds("rootFs", draft'.rootFs) /\ DraftHolds("dataFs", draft'.dataFs)
  <2>1. {"rootFs", "dataFs"} \subseteq DraftFields
    BY FieldSets
  <2>2. draft.rootFs \in Filesystems /\ draft.dataFs \in Filesystems
    BY <2>1, DraftKinds DEF TypesOK, DraftTypeOK
  <2>3. draft'.rootFs \in Filesystems /\ draft'.dataFs \in Filesystems
    BY <2>2, DisksExtras
  <2> QED BY <2>3, DraftKinds
<1>6. DraftHolds("storageMode", draft'.storageMode)
  <2>1. "storageMode" \in DraftFields /\ "storageMode" \notin DiskFields
    BY FieldSets DEF DiskFields
  <2>2. draft.storageMode \in StorageModes
    BY <2>1, DraftKinds DEF TypesOK, DraftTypeOK
  <2>3. draft'.storageMode \in StorageModes
    BY <2>1, <2>2, DisksTouches DEF StorageModes, Only, Shape
  <2> QED BY <2>3, DraftKinds
<1>7. /\ (DiskFields \cup {"storageMode"}) \cap DraftFields
            = {"sysDisk", "dataDisk", "selectedDisks", "rootFs", "dataFs", "storageMode"}
      /\ (DiskFields \cup {"storageMode"}) \cap UiFields
            = {"storageBlockingIssues", "destructiveConfirmed"}
  BY DEF DiskFields, DraftFields, InitialDraft, UiFields, InitialUi
<1> QED BY <1>1, <1>3, <1>4, <1>5, <1>6, <1>7, OnlyHolds

LEMMA ImportTyped == ASSUME TypesOK, ImportsTyped, ImportPlan PROVE TypesOK'
<1>1. PICK file \in Imports :
        draft' = Patched(draft, ImportedPatch(file)) /\ ui' = Patched(ui, ImportedPatch(file))
  BY DEF ImportPlan
<1>2. DOMAIN ImportedPatch(file) \cap UiFields = {}
  BY DEF ImportedPatch, ImportedFields, UiFields, InitialUi
<1>3. \A f \in DOMAIN ImportedPatch(file) : FieldHolds(f, ImportedPatch(file)[f])
  BY <1>2 DEF ImportsTyped, FieldHolds
<1> QED BY <1>1, <1>3, ChangeHolds DEF Change

(* On the way from step to step only two pages do something of their own. *)
LEMMA OnTheWay ==
    ASSUME WInv, Navigate \/ ReloadBrowser
    PROVE  /\ \/ Disks!ChangeDisks(<<>>, Disks!FreshDisks)
              \/ EntersTimezone
              \/ UNCHANGED <<draft, ui>>
           /\ imported' = imported /\ modal' = {} /\ blank' \in BOOLEAN
           /\ strayed' \in {strayed, strayed + 1}
<1>1. CASE Navigate
  <2>1. PICK i : GoTo(i)
    BY <1>1 DEF Navigate, NextStep, PreviousStep, JumpBack, MovesBack
  <2>2. strayed' \in {strayed, strayed + 1}
    BY <1>1 DEF Navigate, NextStep, PreviousStep, JumpBack, MovesBack, Strays
  <2> QED BY <2>1, <2>2 DEF GoTo, Disks!Mount
<1>2. CASE ReloadBrowser
  BY <1>2 DEF ReloadBrowser
<1> QED BY <1>1, <1>2

LEMMA WayTyped ==
    ASSUME TypesOK, WInv, DP!DInv', Navigate \/ ReloadBrowser
    PROVE  TypesOK'
<1>1. CASE Disks!ChangeDisks(<<>>, Disks!FreshDisks)
  <2> DEFINE report == {"storageBlockingIssues", "destructiveConfirmed"}
  <2>1. DOMAIN << >> = {}
    OBVIOUS
  <2>2. Only(report) /\ disks' = Disks!FreshDisks
    BY <1>1, <2>1, DisksChange DEF WInv
  <2>3. disks'.mounted /\ disks'.confirmed = ui.destructiveConfirmed
    BY <2>2 DEF Disks!FreshDisks
  <2>4. ui.destructiveConfirmed \in BOOLEAN
    BY UiHas, UiKinds DEF TypesOK, UiTypeOK, FlagFields
  <2>5. /\ UiHolds("storageBlockingIssues", ui'.storageBlockingIssues)
        /\ UiHolds("destructiveConfirmed", ui'.destructiveConfirmed)
    BY <2>3, <2>4, ReportTyped
  <2>6. report \cap DraftFields = {}
    BY UiHas
  <2> QED BY <2>2, <2>5, <2>6, OnlyHolds
<1>2. CASE EntersTimezone
  <2> DEFINE patch == [timeZonePin |-> draft.timeZone]
  <2>1. draft' = draft /\ (ui' = Patched(ui, patch) \/ ui' = ui)
    BY <1>2 DEF EntersTimezone, PinShown
  <2>2. DOMAIN patch = {"timeZonePin"}
    OBVIOUS
  <2> HIDE DEF patch
  <2>3. Only({"timeZonePin"})
    BY <2>1, <2>2 DEF Only, Patched
  <2>4. "timeZonePin" \notin DraftFields
    BY FieldSets, UiHas
  <2> QED BY <2>3, <2>4, OnlyHolds, UiKinds
<1>3. CASE UNCHANGED <<draft, ui>>
  BY <1>3 DEF TypesOK
<1> QED BY <1>1, <1>2, <1>3, OnTheWay

-----------------------------------------------------------------------------
(* What the catalogues know. *)
LocaleFields == {"timeZonePin", "uiLanguage", "country", "keyMap", "consoleKeymap", "timeZone"}

LEMMA LocaleKept ==
    ASSUME Shape, LocaleTypeOK, NEW fields, Only(fields), fields \cap LocaleFields = {},
           imported' = imported
    PROVE  LocaleTypeOK'
<1>1. LocaleFields \ {"timeZonePin"} \subseteq DraftFields /\ "timeZonePin" \in UiFields
  BY FieldSets DEF LocaleFields, CatalogueFields
<1>2. /\ draft'.uiLanguage = draft.uiLanguage /\ draft'.country = draft.country
      /\ draft'.keyMap = draft.keyMap /\ draft'.consoleKeymap = draft.consoleKeymap
      /\ draft'.timeZone = draft.timeZone /\ ui'.timeZonePin = ui.timeZonePin
  BY <1>1 DEF Shape, Only, LocaleFields
<1> QED BY <1>2 DEF LocaleTypeOK

LEMMA WelcomeLocale ==
    ASSUME Shape, LocaleTypeOK, WelcomePageStep PROVE LocaleTypeOK'
<1>1. imported' = imported
  BY DEF WelcomePageStep, PageOnly
<1>2. LocaleFields \ {"timeZonePin"} \subseteq DOMAIN draft /\ "timeZonePin" \in DOMAIN ui
  BY FieldSets DEF LocaleFields, CatalogueFields, Shape
<1>3. ASSUME NEW country, ApplyCountry(country) PROVE LocaleTypeOK'
  <2>1. CASE country \in DOMAIN CountryPresets
    <3> DEFINE preset == CountryPresets[country]
               patch == [country |-> country, locale |-> country, timeZone |-> preset[1],
                         keyMap |-> preset[2], consoleKeymap |-> preset[2],
                         timeZonePin |-> NoZone]
    <3>1. Change(patch)
      BY <1>3, <2>1 DEF ApplyCountry
    <3>2. preset[1] \in KnownZones /\ preset[2] \in ListedKeymaps
      BY <2>1 DEF KnownZones, ListedKeymaps, MergedCatalog, Keymaps
    <3> HIDE DEF preset
    <3>3. /\ DOMAIN patch = {"country", "locale", "timeZone", "keyMap", "consoleKeymap",
                             "timeZonePin"}
          /\ patch.country = country /\ patch.timeZone = preset[1]
          /\ patch.keyMap = preset[2] /\ patch.consoleKeymap = preset[2]
          /\ patch.timeZonePin = NoZone
      OBVIOUS
    <3> HIDE DEF patch
    <3>4. /\ draft'.country = country /\ draft'.timeZone = preset[1]
          /\ draft'.keyMap = preset[2] /\ draft'.consoleKeymap = preset[2]
          /\ draft'.uiLanguage = draft.uiLanguage /\ ui'.timeZonePin = NoZone
      BY <1>2, <3>1, <3>3 DEF Change, Patched, LocaleFields
    <3> QED BY <1>1, <1>3, <3>2, <3>4 DEF LocaleTypeOK, ApplyCountry
  <2>2. CASE country \notin DOMAIN CountryPresets
    <3> DEFINE patch == [country |-> country]
    <3>1. Change(patch)
      BY <1>3, <2>2 DEF ApplyCountry
    <3>2. DOMAIN patch = {"country"} /\ patch.country = country
      OBVIOUS
    <3> HIDE DEF patch
    <3>3. /\ draft'.country = country /\ draft'.timeZone = draft.timeZone
          /\ draft'.keyMap = draft.keyMap /\ draft'.consoleKeymap = draft.consoleKeymap
          /\ draft'.uiLanguage = draft.uiLanguage /\ ui'.timeZonePin = ui.timeZonePin
      BY <1>2, <3>1, <3>2 DEF Change, Patched, LocaleFields
    <3> QED BY <1>1, <1>3, <3>3 DEF LocaleTypeOK, ApplyCountry
  <2> QED BY <2>1, <2>2
<1>4. ASSUME NEW language, ChooseLanguage(language) PROVE LocaleTypeOK'
  <2> DEFINE patch == [uiLanguage |-> language]
  <2>1. Change(patch) /\ language \in Languages
    BY <1>4 DEF ChooseLanguage
  <2>2. DOMAIN patch = {"uiLanguage"} /\ patch.uiLanguage = language
    OBVIOUS
  <2> HIDE DEF patch
  <2>3. /\ draft'.uiLanguage = language /\ draft'.timeZone = draft.timeZone
        /\ draft'.keyMap = draft.keyMap /\ draft'.consoleKeymap = draft.consoleKeymap
        /\ draft'.country = draft.country /\ ui'.timeZonePin = ui.timeZonePin
    BY <1>2, <2>1, <2>2 DEF Change, Patched, LocaleFields
  <2> QED BY <1>1, <2>1, <2>3 DEF LocaleTypeOK
<1>5. ASSUME NEW keymap, ChooseKeymap(keymap) PROVE LocaleTypeOK'
  <2> DEFINE patch == [keyMap |-> keymap, consoleKeymap |-> keymap]
  <2>1. Change(patch) /\ keymap \in ListedKeymaps
    BY <1>5 DEF ChooseKeymap
  <2>2. DOMAIN patch = {"keyMap", "consoleKeymap"} /\ patch.keyMap = keymap
          /\ patch.consoleKeymap = keymap
    OBVIOUS
  <2> HIDE DEF patch
  <2>3. /\ draft'.keyMap = keymap /\ draft'.consoleKeymap = keymap
        /\ draft'.timeZone = draft.timeZone /\ draft'.uiLanguage = draft.uiLanguage
        /\ draft'.country = draft.country /\ ui'.timeZonePin = ui.timeZonePin
    BY <1>2, <2>1, <2>2 DEF Change, Patched, LocaleFields
  <2> QED BY <1>1, <2>1, <2>3 DEF LocaleTypeOK
<1> QED BY <1>3, <1>4, <1>5 DEF WelcomePageStep

LEMMA TimezoneLocale ==
    ASSUME Shape, LocaleTypeOK, TimezonePageStep PROVE LocaleTypeOK'
<1>1. imported' = imported
  BY DEF TimezonePageStep, PageOnly
<1>2. LocaleFields \ {"timeZonePin"} \subseteq DOMAIN draft /\ "timeZonePin" \in DOMAIN ui
  BY FieldSets DEF LocaleFields, CatalogueFields, Shape
<1>3. PICK zone \in DOMAIN Regions \cup {Utc} : ApplyLocation(zone)
  <2>1. ClickedZones \subseteq DOMAIN Regions
    BY DEF ClickedZones, NearestZones
  <2>2. MergedZones = DOMAIN Regions
    BY DEF MergedZones, MergedCatalog, AnsweredItems
  <2> QED BY <2>1, <2>2 DEF TimezonePageStep, ChooseFromList, ClickMap, SwitchToUtc
<1> DEFINE patch == [timeZone |-> zone, timeZonePin |-> zone]
<1>4. Change(patch)
  BY <1>3 DEF ApplyLocation
<1>5. DOMAIN patch = {"timeZone", "timeZonePin"} /\ patch.timeZone = zone
        /\ patch.timeZonePin = zone
  OBVIOUS
<1> HIDE DEF patch
<1>6. /\ draft'.timeZone = zone /\ ui'.timeZonePin = zone
      /\ draft'.keyMap = draft.keyMap /\ draft'.consoleKeymap = draft.consoleKeymap
      /\ draft'.uiLanguage = draft.uiLanguage /\ draft'.country = draft.country
  BY <1>2, <1>4, <1>5 DEF Change, Patched, LocaleFields
<1> QED BY <1>1, <1>6 DEF LocaleTypeOK, KnownZones

LEMMA WayLocale ==
    ASSUME WInv, LocaleTypeOK, Navigate \/ ReloadBrowser PROVE LocaleTypeOK'
<1>1. imported' = imported /\ Shape
  BY OnTheWay DEF WInv
<1>2. CASE Disks!ChangeDisks(<<>>, Disks!FreshDisks)
  <2> DEFINE report == {"storageBlockingIssues", "destructiveConfirmed"}
  <2>1. DOMAIN << >> = {}
    OBVIOUS
  <2>2. Only(report)
    BY <1>1, <1>2, <2>1, DisksChange
  <2>3. report \cap LocaleFields = {}
    BY DEF LocaleFields
  <2> QED BY <1>1, <2>2, <2>3, LocaleKept
<1>3. CASE EntersTimezone
  <2> DEFINE patch == [timeZonePin |-> draft.timeZone]
  <2>1. draft' = draft
        /\ ((draft.timeZone \in DOMAIN Regions /\ ui' = Patched(ui, patch)) \/ ui' = ui)
    BY <1>3 DEF EntersTimezone, PinShown
  <2>2. DOMAIN patch = {"timeZonePin"} /\ patch.timeZonePin = draft.timeZone
    OBVIOUS
  <2> HIDE DEF patch
  <2>3. ui'.timeZonePin = ui.timeZonePin \/ ui'.timeZonePin \in DOMAIN Regions
    BY <1>1, <2>1, <2>2, FieldSets DEF Patched, Shape
  <2> QED BY <1>1, <2>1, <2>3 DEF LocaleTypeOK
<1>4. CASE UNCHANGED <<draft, ui>>
  BY <1>1, <1>4 DEF LocaleTypeOK
<1> QED BY <1>2, <1>3, <1>4, OnTheWay

LEMMA ImportLocale ==
    ASSUME Shape, LocaleTypeOK, ImportPlan PROVE LocaleTypeOK'
<1>1. imported' = TRUE
  BY DEF ImportPlan
<1>2. "timeZonePin" \in UiFields /\ "timeZonePin" \notin ImportedFields
  BY FieldSets DEF ImportedFields
<1>3. ui'.timeZonePin = ui.timeZonePin
  BY <1>2, ImportTouches DEF Only, Shape
<1> QED BY <1>1, <1>3 DEF LocaleTypeOK

LEMMA StepKeepsLocale ==
    ASSUME WInv, LocaleTypeOK, [Next]_vars PROVE LocaleTypeOK'
<1>1. Shape
  BY DEF WInv
<1>2. CASE Navigate \/ ReloadBrowser
  BY <1>2, WayLocale
<1>3. CASE WelcomePageStep \/ TimezonePageStep
  BY <1>1, <1>3, WelcomeLocale, TimezoneLocale
<1>4. CASE ImportPlan
  BY <1>1, <1>4, ImportLocale
<1>5. CASE \/ AcceptEula \/ EditUser \/ ConfirmDestruction \/ SourcePageStep \/ NetworkPageStep
           \/ FeaturesPageStep \/ DisksPageStep \/ Answered
  <2>1. imported' = imported
    BY <1>5 DEF AcceptEula, EditUser, ConfirmDestruction, PageOnly, SourcePageStep,
                NetworkPageStep, FeaturesPageStep, DisksPageStep, Answered, CloneAnswered,
                NetworkAnswered, DisksAnswered, observed
  <2>2. (UserFields \cup SourceFields \cup FeatureFields \cup NetworkFields \cup DiskFields
           \cup {"eulaAccepted", "destructiveConfirmed", "storageMode"}) \cap LocaleFields = {}
    BY DEF UserFields, SourceFields, FeatureFields, NetworkFields, AddressFields, UplinkFields,
           LinkFields, DiskFields, LocaleFields
  <2>3. \E fields : Only(fields) /\ fields \cap LocaleFields = {}
    BY <1>1, <1>5, <2>2, EulaTouches, UserTouches, ConfirmTouches, SourceTouches,
       NetworkTouches, FeaturesTouch, DisksTouches DEF Answered
  <2> QED BY <1>1, <2>1, <2>3, LocaleKept
<1>6. CASE UNCHANGED vars
  BY <1>6 DEF vars, observed, LocaleTypeOK
<1> QED BY <1>2, <1>3, <1>4, <1>5, <1>6 DEF Next, OnPage

-----------------------------------------------------------------------------
(* What was imported may name any disk, as long as it names numbers. *)
LEMMA SelectionOnImport ==
    ASSUME WInv, TypesOK', DP!SInv, ImportPlan PROVE DP!SInv'
<1>1. ~disks.mounted /\ disks' = disks
  BY StepNumbers DEF ImportPlan, Step, WInv, Shape, PagesShown
<1>2. {"sysDisk", "dataDisk", "selectedDisks"} \subseteq DraftFields
  BY FieldSets DEF NumberFields
<1>3. /\ draft'.sysDisk \in Nat /\ draft'.dataDisk \in Nat
      /\ draft'.selectedDisks \in Seq(Nat)
  BY <1>2, DraftKinds DEF TypesOK, DraftTypeOK, NumberFields
<1>4. DP!IsSeq(draft'.selectedDisks) /\ DP!ToSet(draft'.selectedDisks) \subseteq Nat
  BY <1>3, NumberLists
<1>5. DP!SelectionIsEligible'
  BY <1>1 DEF DP!SelectionIsEligible, DP!Loaded
<1> QED BY <1>1, <1>3, <1>4, <1>5 DEF DP!SInv, DP!Selection

LEMMA StepKeepsTypes ==
    ASSUME WInv, WInv', DP!DInv, DP!DInv', DP!SInv, TypesOK, [Next]_vars,
           ImportPlan => ImportsTyped
    PROVE  TypesOK' /\ DP!SInv'
<1>1. Shape /\ PagesShown
  BY DEF WInv
<1>2. CASE ImportPlan
  BY <1>2, ImportTyped, SelectionOnImport
<1>3. CASE ~ImportPlan
  <2>1. DP!SInv'
    BY <1>3, StepKeepsDisks
  <2>2. CASE Navigate \/ ReloadBrowser
    BY <2>1, <2>2, WayTyped
  <2>3. CASE DisksPageStep \/ DisksAnswered
    BY <1>1, <2>1, <2>3, DisksTyped
  <2>4. CASE OnPage \/ Answered
    BY <1>3, <2>1, <2>3, <2>4, EulaTyped, UserTyped, ConfirmTyped, CatalogueTyped,
       SourceTyped, NetworkTyped
       DEF OnPage, Answered
  <2>5. CASE UNCHANGED vars
    BY <2>1, <2>5 DEF vars, TypesOK
  <2> QED BY <2>2, <2>4, <2>5 DEF Next
<1> QED BY <1>2, <1>3

-----------------------------------------------------------------------------
(* What is in flight and on the screen. *)
InFlight == net.checks + (IF net.applying THEN 1 ELSE 0)

ChecksFit == net.checks \in Nat /\ net.applying \in BOOLEAN /\ InFlight <= MaxChecks

Around ==
    /\ ChecksFit
    /\ modal # {} => stepIndex = 6
    /\ blank \in BOOLEAN /\ strayed \in Nat

LEMMA SomeChecks == MaxChecks \in Nat /\ 0 <= MaxChecks
BY WizardAssumption

LEMMA ChecksOnNetwork ==
    ASSUME Shape, ChecksFit, NetworkPageStep \/ NetworkAnswered PROVE ChecksFit'
<1>1. net = [f \in NetFields |-> net[f]] /\ MaxChecks \in Nat
  BY WizardAssumption DEF Shape
<1>2. UNCHANGED net => ChecksFit'
  BY DEF ChecksFit, InFlight
<1>3. Network!InterfacesArrive \/ Network!ConnectWifi => ChecksFit'
  <2>1. ASSUME Network!InterfacesArrive \/ Network!ConnectWifi
        PROVE  /\ InFlight < MaxChecks
               /\ net'.checks = net.checks + 1 /\ net'.applying = net.applying
    BY <1>1, <2>1 DEF Network!InterfacesArrive, Network!ConnectWifi, Network!RoomForCheck,
                      NetFields, InFlight
  <2> QED BY <1>1, <2>1 DEF ChecksFit, InFlight
<1>4. Network!RefreshInterfaces => ChecksFit'
  BY <1>1 DEF Network!RefreshInterfaces, NetFields, ChecksFit, InFlight
<1>5. Network!StatusArrives => ChecksFit'
  BY <1>1 DEF Network!StatusArrives, NetFields, ChecksFit, InFlight
<1>6. Network!ApplyNetwork => ChecksFit'
  <2>1. ASSUME Network!ApplyNetwork
        PROVE  /\ InFlight < MaxChecks
               /\ net'.checks = net.checks /\ net'.applying = TRUE
    BY <1>1, <2>1 DEF Network!ApplyNetwork, Network!RoomForCheck, NetFields, InFlight
  <2>2. ASSUME Network!ApplyNetwork PROVE net.checks + 1 <= MaxChecks
    BY <1>1, <2>1, <2>2 DEF ChecksFit, InFlight
  <2>3. ASSUME Network!ApplyNetwork PROVE InFlight' = net.checks + 1
    BY <2>1, <2>3 DEF InFlight
  <2> QED BY <2>1, <2>2, <2>3 DEF ChecksFit
<1>7. CASE Network!NetworkApplied \/ Network!NetworkNotApplied
  <2>1. net.applying = TRUE
    BY <1>7 DEF Network!NetworkApplied, Network!NetworkNotApplied, ChecksFit
  <2>2. net'.checks = net.checks + 1 /\ net'.applying = FALSE
    BY <1>1, <1>7 DEF Network!NetworkApplied, Network!NetworkNotApplied, NetFields
  <2>3. net.checks \in Nat /\ net.checks + 1 <= MaxChecks
    BY <2>1 DEF ChecksFit, InFlight
  <2>4. InFlight' = net.checks + 1
    BY <2>2, <2>3 DEF InFlight
  <2>5. net'.applying \in BOOLEAN
    BY <2>2
  <2> QED BY <2>2, <2>3, <2>4, <2>5 DEF ChecksFit
<1>8. Network!ApplyFails => ChecksFit'
  BY <1>1 DEF Network!ApplyFails, NetFields, ChecksFit, InFlight
<1> QED BY <1>2, <1>3, <1>4, <1>5, <1>6, <1>7, <1>8
        DEF NetworkPageStep, NetworkAnswered, Network!ChooseInterface, Network!ChooseUplink,
            Network!ChooseMode, Network!ChooseUplinkMode, Network!EditField,
            Network!IdentifyLan, Network!ContinueOffline

LEMMA ChecksOnTheWay ==
    ASSUME Shape, ChecksFit, Navigate \/ ReloadBrowser PROVE ChecksFit'
<1>1. CASE Navigate
  <2>1. net' = Network!EntersNetwork \/ net' = Network!LeavesNetwork \/ net' = net
    BY <1>1 DEF Navigate, NextStep, PreviousStep, JumpBack, MovesBack, GoTo
  <2>2. net'.checks = net.checks /\ net'.applying = net.applying
    BY <2>1 DEF Shape, NetFields, Network!EntersNetwork, Network!LeavesNetwork
  <2> QED BY <2>2 DEF ChecksFit, InFlight
<1>2. CASE ReloadBrowser
  <2>1. net'.checks = 0 /\ net'.applying = FALSE
    BY <1>2 DEF ReloadBrowser, Network!UnmountedNetwork
  <2>2. InFlight' = 0
    BY <2>1 DEF InFlight
  <2>3. net'.applying \in BOOLEAN
    BY <2>1
  <2> QED BY <2>1, <2>2, <2>3, SomeChecks DEF ChecksFit
<1> QED BY <1>1, <1>2

LEMMA StepKeepsAround ==
    ASSUME WInv, Around, [Next]_vars PROVE Around'
<1>1. Shape /\ ChecksFit /\ (Step = "systemFeatures" <=> stepIndex = 6)
  BY StepNumbers DEF WInv, Shape, Around, Step
<1>2. CASE Navigate \/ ReloadBrowser
  BY <1>1, <1>2, OnTheWay, ChecksOnTheWay DEF Around
<1>3. CASE NetworkPageStep \/ NetworkAnswered
  <2>1. UNCHANGED <<stepIndex, modal, blank>> /\ strayed' \in {strayed, strayed + 1}
    BY <1>3 DEF NetworkPageStep, NetworkAnswered, UserEdit, Strays, observed
  <2> QED BY <1>1, <1>3, <2>1, ChecksOnNetwork DEF Around
<1>4. CASE \/ AcceptEula \/ EditUser \/ ConfirmDestruction \/ ImportPlan \/ WelcomePageStep
           \/ TimezonePageStep \/ SourcePageStep \/ DisksPageStep \/ CloneAnswered
           \/ DisksAnswered
  <2>1. UNCHANGED <<stepIndex, net, modal, blank>> /\ strayed' \in {strayed, strayed + 1}
    BY <1>4 DEF AcceptEula, EditUser, ConfirmDestruction, ImportPlan, WelcomePageStep,
                TimezonePageStep, SourcePageStep, DisksPageStep, CloneAnswered, DisksAnswered,
                PageOnly, UserEdit, Strays, observed
  <2> QED BY <1>1, <2>1 DEF Around, ChecksFit, InFlight
<1>5. CASE FeaturesPageStep
  <2>1. /\ UNCHANGED <<stepIndex, net, blank>> /\ stepIndex = 6
        /\ strayed' \in {strayed, strayed + 1}
    BY <1>1, <1>5 DEF FeaturesPageStep, UserEdit, Strays
  <2> QED BY <1>1, <2>1 DEF Around, ChecksFit, InFlight
<1>6. CASE UNCHANGED vars
  BY <1>6 DEF vars, observed, Around, ChecksFit, InFlight
<1> QED BY <1>2, <1>3, <1>4, <1>5, <1>6 DEF Next, OnPage, Answered

-----------------------------------------------------------------------------
(* Until a plan is imported, or as long as the files imported hold values of the
   kinds the pages give the fields. *)
Trusted == imported => ImportsTyped

TInv ==
    /\ WInv /\ DP!DInv /\ LocaleTypeOK /\ Around
    /\ Trusted => DP!SInv /\ TypesOK

LEMMA InitTInv == Init => TInv
<1> SUFFICES ASSUME Init PROVE TInv
  OBVIOUS
<1>1. WInv /\ DP!DInv /\ DP!SInv
  BY InitWInv, InitDisks
<1>2. TypesOK
  BY InitTyped DEF Init, TypesOK
<1>3. LocaleTypeOK
  <2>1. draft.uiLanguage = "pt-BR" /\ ui.timeZonePin = NoZone
    BY DEF Init, InitialDraft, InitialUi
  <2>2. "pt-BR" \in Languages
    BY DEF Languages
  <2> QED BY <2>1, <2>2, DefaultsAreListed DEF Init, LocaleTypeOK
<1>4. Around
  <2>1. net.checks = 0 /\ net.applying = FALSE
    BY DEF Init, Network!UnmountedNetwork
  <2>2. InFlight = 0
    BY <2>1 DEF InFlight
  <2>3. net.applying \in BOOLEAN /\ blank \in BOOLEAN
    BY <2>1 DEF Init
  <2>4. ChecksFit
    BY <2>1, <2>2, <2>3, SomeChecks DEF ChecksFit
  <2> QED BY <2>3, <2>4 DEF Init, Around
<1> QED BY <1>1, <1>2, <1>3, <1>4 DEF TInv

(* Nothing takes an import back. *)
LEMMA ImportStays == ASSUME WInv, [Next]_vars PROVE imported' = imported \/ (ImportPlan /\ imported')
<1>1. CASE Navigate \/ ReloadBrowser
  BY <1>1, OnTheWay
<1>2. CASE OnPage \/ Answered
  BY <1>2 DEF OnPage, Answered, AcceptEula, EditUser, ConfirmDestruction, ImportPlan, PageOnly,
              WelcomePageStep, TimezonePageStep, SourcePageStep, NetworkPageStep,
              FeaturesPageStep, DisksPageStep, CloneAnswered, NetworkAnswered, DisksAnswered,
              observed
<1>3. CASE UNCHANGED vars
  BY <1>3 DEF vars, observed
<1> QED BY <1>1, <1>2, <1>3 DEF Next

LEMMA StepKeepsTInv == ASSUME TInv, [Next]_vars PROVE TInv'
<1>1. WInv' /\ DP!DInv' /\ LocaleTypeOK' /\ Around'
  BY StepKeepsWInv, StepKeepsDisks, StepKeepsLocale, StepKeepsAround DEF TInv
<1>2. Trusted' => Trusted /\ (ImportPlan => ImportsTyped)
  BY ImportStays DEF Trusted, TInv, ImportPlan
<1>3. ASSUME Trusted' PROVE DP!SInv' /\ TypesOK'
  BY <1>1, <1>2, <1>3, StepKeepsTypes DEF TInv
<1> QED BY <1>1, <1>3 DEF TInv

LEMMA TInvAlways == Spec => []TInv
BY InitTInv, StepKeepsTInv, PTL DEF Spec

LEMMA TypesFollow == ASSUME TInv, Trusted PROVE TypeOK
<1>1. stepIndex \in 1..10 /\ DOMAIN Steps = 1..10
  BY DEF TInv, WInv, Shape, Steps
<1>2. /\ Step = "disks" <=> stepIndex = 7
      /\ Step = "network" <=> stepIndex = 5
      /\ Step = "systemFeatures" <=> stepIndex = 6
  BY <1>1, StepNumbers DEF Step
<1>3. net.checks \in 0..MaxChecks
  BY SomeChecks DEF TInv, Around, ChecksFit, InFlight
<1> QED BY <1>1, <1>2, <1>3 DEF TypeOK, TInv, WInv, PagesShown, TypesOK, Around

(* The draft and the transient state hold what the pages expect, whatever was
   answered late and wherever the user went: as long as no plan is imported. *)
THEOREM TypeCorrectBeforeImport == Spec => [](~imported => TypeOK)
<1>1. TInv => (~imported => TypeOK)
  BY TypesFollow DEF Trusted
<1> QED BY <1>1, TInvAlways, PTL

(* And with plans imported, when their values are of the kinds the pages give the
   fields: the importer does not look. *)
THEOREM TypeCorrect == ASSUME ImportsTyped PROVE Spec => []TypeOK
<1>1. TInv => TypeOK
  BY TypesFollow DEF Trusted
<1> QED BY <1>1, TInvAlways, PTL

(* In the wizard as on its own, the disks page keeps no disk selected that the
   inventory it shows does not offer: whichever steps the user went through in
   between, and whichever disks an imported plan named. *)
THEOREM SelectionStaysEligibleInWizard ==
    Spec => []((imported => ImportsTyped) => Disks!SelectionIsEligible)
<1>1. ASSUME TInv, Trusted PROVE Disks!SelectionIsEligible
  <2>1. DP!SelectionIsEligible /\ Disks!NoDisk = DP!NoDisk
    BY <1>1 DEF TInv, DP!SInv, Disks!NoDisk, DP!NoDisk
  <2>2. Disks!Eligible(disks) = DP!Eligible(disks)
    BY SamePlanner DEF Disks!Eligible, DP!Eligible
  <2>3. Disks!Loaded(disks) => DP!Loaded(disks)
    BY DEF Disks!Loaded, DP!Loaded
  <2> QED BY <2>1, <2>2, <2>3, SameKept DEF Disks!SelectionIsEligible, DP!SelectionIsEligible
<1>2. TInv => ((imported => ImportsTyped) => Disks!SelectionIsEligible)
  BY <1>1 DEF Trusted
<1> QED BY <1>2, TInvAlways, PTL
=============================================================================
