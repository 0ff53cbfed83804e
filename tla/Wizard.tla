-------------------------------- MODULE Wizard --------------------------------
(* The installation wizard (ui/src/WizardInstaller.jsx): the steps and how one
   gets from one to another, the pages of the steps, what survives a reload of
   the browser, and the plan that the last two steps are about.

   The pages with something to decide are in modules of their own (WelcomePage,
   SourcePage, TimezonePage, NetworkPage, FeaturesPage, DisksPage); the others
   are here.  A page is
   mounted when its step is entered and forgotten when it is left; answers
   that were on their way still arrive where the code lets them.

   Everything the wizard remembers is written to the browser's storage after
   every render, so `stepIndex`, `draft` and `ui` are what a reload reads back.
   `blank` says that rendering the page threw: nothing catches it, the whole
   application is gone and the write of that render never happens.

   imported and detour observe whether a plan was imported from a file, and
   whether a clone was overtaken by a change of kind or a reload while it ran.
   focus and strayed bound the user: in one behaviour he either goes back, or on
   one of the pages changes what does not keep the step from being left, and
   does so MaxStray times; what a step demands he may always fill in, and after
   an import he may go back to look. *)
EXTENDS InstallPlan, WelcomePage, TimezonePage

CONSTANTS Repositories, InsecureRepos, Listings, Typed, MaxChecks, Toggled, Payloads,
          OfferedKinds,      \* bound: the kinds of source, profiles and presets picked
          OfferedProfiles,
          OfferedPresets,
          TypedPasswords,    \* bound: the passwords typed
          OfferedCountries,  \* bound: the countries, languages, keymaps and zones picked
          OfferedLanguages,
          OfferedKeymaps,
          OfferedZones,
          Imports,           \* bound: the files imported, by section and field
          MaxStray           \* bound: the user's moves back, and changes page by page

ASSUME WizardAssumption ==
    /\ InsecureRepos \subseteq Repositories /\ Repositories \subseteq Nat \ {NoRepo}
    /\ \A list \in Listings : list \in Seq(Nat \ {NoIface})
    /\ Typed \subseteq Values /\ TypedPasswords \subseteq Passwords
    /\ MaxChecks \in Nat \ {0}
    /\ Toggled \subseteq DOMAIN SystemFeatures
    /\ \A payload \in Payloads :
         /\ payload \in Seq(ToSet(payload))
         /\ \A i \in DOMAIN payload :
              payload[i].path \in Nat /\ payload[i].size.kind = "label"
                /\ payload[i].verdict \in {"eligible", "ineligible"}

VARIABLES stepIndex, disks, clones, checkout, net, modal, blank,
          focus, strayed, imported, detour

observed == <<focus, strayed, imported, detour>>
vars == <<stepIndex, draft, ui, disks, clones, checkout, net, modal, blank, observed>>

Source == INSTANCE SourcePage
Network == INSTANCE NetworkPage
Features == INSTANCE FeaturesPage
Disks == INSTANCE DisksPage

Steps == <<"welcome", "eula", "source", "timezone", "network", "systemFeatures",
           "disks", "users", "summary", "install">>

StepOf(name) == CHOOSE i \in DOMAIN Steps : Steps[i] = name

Phases == <<{"welcome", "eula", "source"}, {"timezone"}, {"network"}, {"systemFeatures"},
            {"disks"}, {"users"}, {"summary", "install"}>>

(* The steps the phases in the header lead to: the first of each. *)
PhaseStarts ==
    {i \in DOMAIN Steps : \E p \in DOMAIN Phases :
        Steps[i] \in Phases[p] /\ (i = 1 \/ Steps[i - 1] \notin Phases[p])}

Step == Steps[stepIndex]

Issues(w, u) == ValidateStep(Step, w, u, InsecureRepos)
CanGoNext == Issues(draft, ui) = {}

Locked == ui.installRunning \/ ui.netApplyBusy

-----------------------------------------------------------------------------
(* Navigation.  The keyboard and the buttons ask for the same things. *)

(* The sections of the plan that the install page reads to show its target. *)
InstallPageReads == {"network", "locale", "disk", "admin", "profile"}
Renders(i, w) == Steps[i] = "install" => InstallPageReads \subseteq DOMAIN Plan(w)

Strays(how) ==
    /\ focus \in {"none", how} /\ strayed < MaxStray[how]
    /\ focus' = how
    /\ strayed' = strayed + 1

GoTo(i) ==
    /\ stepIndex' = i
    /\ blank' = ~Renders(i, draft)
    /\ net' = CASE Steps[i] = "network" -> Network!EntersNetwork
                [] Step = "network" -> Network!LeavesNetwork
                [] OTHER -> net
    /\ IF Steps[i] = "disks" THEN Disks!Mount
       ELSE /\ disks' = IF Step = "disks" THEN Disks!LeavesDisks ELSE disks
            /\ IF Steps[i] = "timezone" THEN EntersTimezone ELSE UNCHANGED <<draft, ui>>
    /\ modal' = {}
    /\ UNCHANGED <<clones, checkout, imported, detour>>

(* What the keyboard asks for, and what the buttons at the foot of a page. *)
NextAsked == ~Locked /\ CanGoNext
BackOffered == ~blank /\ ~Locked /\ stepIndex > 1

NextStep ==
    /\ NextAsked /\ Step # "install"
    /\ GoTo(stepIndex + 1) /\ UNCHANGED <<focus, strayed>>

MovesBack(i) ==
    /\ IF imported THEN UNCHANGED <<focus, strayed>> ELSE Strays("back")
    /\ GoTo(i)

PreviousStep ==
    /\ BackOffered
    /\ MovesBack(stepIndex - 1)

(* Mutant: every phase of the header can be clicked. *)
JumpBack_Anywhere ==
    /\ ~blank /\ ~Locked /\ Step # "eula"
    /\ \E i \in PhaseStarts \ {stepIndex} : MovesBack(i)

(* The phases the header lets one click; the one shown leads nowhere new. *)
JumpOffered(i) == i \in PhaseStarts /\ i < stepIndex

(* onStepJump: back to the start of a phase. *)
JumpBack ==
    /\ ~blank /\ ~Locked /\ Step # "eula"
    /\ \E i \in PhaseStarts : JumpOffered(i) /\ MovesBack(i)

(* Everything in flight is lost, what is stored is not; the step whose render
   threw was never stored. *)
ReloadBrowser ==
    /\ stepIndex' = IF blank THEN stepIndex - 1 ELSE stepIndex
    /\ blank' = FALSE
    /\ IF Step = "disks" THEN Disks!ChangeDisks(<<>>, Disks!FreshDisks)
       ELSE UNCHANGED <<draft, ui, disks>>
    /\ net' = IF Step = "network" THEN [Network!UnmountedNetwork EXCEPT !.mounted = TRUE,
                                                                       !.booting = TRUE]
              ELSE Network!UnmountedNetwork
    /\ clones' = {} /\ modal' = {}
    /\ detour' = (detour \/ clones # {})
    /\ UNCHANGED <<checkout, focus, strayed, imported>>

-----------------------------------------------------------------------------
(* The pages. *)

(* A change by the user on a page: free when it settles something that keeps
   the step, counted otherwise. *)
UserEdit ==
    IF Issues(draft, ui) \subseteq Issues(draft', ui')
    THEN Strays(Step) ELSE UNCHANGED <<focus, strayed>>

(* What most pages change: the draft and the transient state, nothing else. *)
PageOnly == UNCHANGED <<stepIndex, disks, clones, checkout, net, modal, blank, imported, detour>>

AcceptEula ==
    /\ Step = "eula"
    /\ Change([eulaAccepted |-> ~ui.eulaAccepted]) /\ UserEdit /\ PageOnly

EditUser ==
    /\ Step = "users"
    /\ \/ \E f \in {"adminUser", "adminFullName", "adminEmail", "adminAuthorizedKeys"}, v \in Typed :
            v # draft[f] /\ Change([x \in {f} |-> v])
       \/ \E f \in {"adminPassword", "adminPasswordConfirm"}, v \in TypedPasswords :
            v # draft[f] /\ Change([x \in {f} |-> v])
       \/ Change([allowWeakPassword |-> ~draft.allowWeakPassword])
    /\ UserEdit /\ PageOnly

WelcomePageStep ==
    /\ Step = "welcome"
    /\ \/ \E country \in OfferedCountries : ApplyCountry(country)
       \/ \E language \in OfferedLanguages : ChooseLanguage(language)
       \/ \E keymap \in OfferedKeymaps : ChooseKeymap(keymap)
    /\ UserEdit /\ PageOnly

TimezonePageStep ==
    /\ Step = "timezone"
    /\ \/ \E zone \in OfferedZones : ChooseFromList(zone)
       \/ ClickMap
       \/ SwitchToUtc
    /\ UserEdit /\ PageOnly

ConfirmDestruction ==
    /\ Step = "summary"
    /\ Change([destructiveConfirmed |-> ~ui.destructiveConfirmed]) /\ UserEdit /\ PageOnly

(* handleImportPlan: a file with every section the importer looks for is taken
   over unseen; one without (the plans this page exports have no disk and no
   admin section) changes nothing. *)
RequiredSections == {"version", "network", "disk", "admin"}
ReadSections == {"network", "disk", "locale", "admin", "profile", "security"}

ImportedFields ==
    {"hostName", "mgmtInterface", "mgmtMode", "serverIp", "mgmtGateway", "mgmtDns", "httpPort",
     "wanInterface", "wanMode", "wanAddress", "wanGateway", "wanDns", "pppoeUser",
     "diskMode", "diskProfile", "sysDisk", "dataDisk", "selectedDisks", "raidLevel",
     "luksEnabled", "rootFs", "dataFs", "country", "timeZone", "locale", "keyMap",
     "consoleKeymap", "adminUser", "adminFullName", "adminEmail", "adminAuthorizedKeys",
     "profileId", "allowWeakPassword"}

ImportedPatch(file) ==
    LET sections == ReadSections \cap DOMAIN file
    IN  [f \in ImportedFields \cap UNION {DOMAIN file[s] : s \in sections} |->
           file[CHOOSE s \in sections : f \in DOMAIN file[s]][f]]

(* The importer looks at the sections and not at the values: this is the user's to
   see to. *)
ImportsTyped ==
    \A file \in Imports : \A f \in DOMAIN ImportedPatch(file) \cap DraftFields :
        DraftHolds(f, ImportedPatch(file)[f])

ImportPlan ==
    /\ Step = "summary" /\ Strays("summary")
    /\ imported' = TRUE
    /\ \E file \in Imports :
         /\ RequiredSections \subseteq DOMAIN file
         /\ draft' = Patched(draft, ImportedPatch(file))
         /\ ui' = Patched(ui, ImportedPatch(file))
    /\ UNCHANGED <<stepIndex, disks, clones, checkout, net, modal, blank, detour>>

SourcePageStep ==
    /\ Step = "source"
    /\ \/ \E kind \in OfferedKinds :
            /\ Source!ChooseKind(kind) /\ UserEdit
            /\ detour' = (detour \/ clones # {})
       \/ /\ \E repo \in Repositories : Source!EditRepository(repo)
          /\ UserEdit /\ UNCHANGED detour
       \/ /\ Source!PrepareRepo
          /\ UNCHANGED <<focus, strayed, detour>>
    /\ UNCHANGED <<stepIndex, disks, net, modal, blank, imported>>

CloneAnswered ==
    /\ ~blank
    /\ \E repo \in Repositories \cup {NoRepo} :
         Source!CloneSucceeds(repo) \/ Source!CloneFails(repo)
    /\ UNCHANGED <<stepIndex, disks, net, modal, blank, observed>>

NetworkPageStep ==
    /\ Step = "network"
    /\ \/ /\ \/ \E i \in {NoIface} \cup UNION {ToSet(list) : list \in Listings} :
                  Network!ChooseInterface(i) \/ Network!ChooseUplink(i)
             \/ \E mode \in {"dhcp", "static"} : Network!ChooseMode(mode)
             \/ \E mode \in {"dhcp", "static", "pppoe"} : Network!ChooseUplinkMode(mode)
             \/ \E f \in Network!ShownFields, v \in Typed : Network!EditField(f, v)
             \/ Network!IdentifyLan
          /\ UserEdit
       \/ /\ \/ Network!ContinueOffline
             \/ Network!ConnectWifi
             \/ Network!ApplyNetwork
          /\ UNCHANGED <<focus, strayed>>
    /\ UNCHANGED <<stepIndex, disks, clones, checkout, modal, blank, imported, detour>>

NetworkAnswered ==
    /\ ~blank
    /\ \/ Network!InterfacesArrive
       \/ Network!RefreshInterfaces
       \/ Network!StatusArrives
       \/ Network!NetworkApplied
       \/ Network!NetworkNotApplied
       \/ Network!ApplyFails
    /\ UNCHANGED <<stepIndex, disks, clones, checkout, modal, blank, observed>>

FeaturesPageStep ==
    /\ Step = "systemFeatures"
    /\ \/ /\ \/ \E f \in Toggled : Features!ToggleFeature(f)
             \/ \E preset \in OfferedPresets : Features!ApplyPreset(preset)
             \/ \E profile \in OfferedProfiles : Features!SelectProfile(profile)
             \/ Features!RestoreProfile
             \/ Features!ClearSystemFeatures
          /\ UserEdit
       \/ /\ Features!ConfirmFeature \/ Features!CancelFeature
          /\ UNCHANGED <<focus, strayed>>
    /\ UNCHANGED <<stepIndex, disks, clones, checkout, net, blank, imported, detour>>

DisksPageStep ==
    /\ Step = "disks"
    /\ \/ Disks!ChooseTab
       \/ Disks!PickDisk
       \/ Disks!ChooseFilesystem
       \/ Disks!ToggleConfirm
    /\ UserEdit
    /\ UNCHANGED <<stepIndex, clones, checkout, net, modal, blank, imported, detour>>

DisksAnswered ==
    /\ Disks!DisksArrive \/ Disks!DisksFail \/ Disks!Reload
    /\ UNCHANGED <<stepIndex, clones, checkout, net, modal, blank, observed>>

-----------------------------------------------------------------------------
Init ==
    /\ stepIndex = 1
    /\ draft = InitialDraft /\ ui = InitialUi
    /\ disks = Disks!UnmountedDisks
    /\ clones = {} /\ checkout = NoRepo
    /\ net = Network!UnmountedNetwork
    /\ modal = {} /\ blank = FALSE
    /\ focus = "none" /\ strayed = 0
    /\ imported = FALSE /\ detour = FALSE

Navigate == NextStep \/ PreviousStep \/ JumpBack

OnPage ==
    \/ AcceptEula \/ EditUser \/ ConfirmDestruction \/ ImportPlan
    \/ WelcomePageStep \/ TimezonePageStep \/ SourcePageStep \/ NetworkPageStep \/ FeaturesPageStep \/ DisksPageStep

Answered == CloneAnswered \/ NetworkAnswered \/ DisksAnswered

Next == Navigate \/ OnPage \/ Answered \/ ReloadBrowser

Spec == Init /\ [][Next]_vars

-----------------------------------------------------------------------------
(* Every zone the wizard knows of: those of its list and its map, those that come
   with a country. *)
KnownZones ==
    DOMAIN Regions \cup {Utc} \cup {CountryPresets[c][1] : c \in DOMAIN CountryPresets}

(* What the draft starts with is in the catalogues. *)
ASSUME DefaultsAreListed ==
    /\ InitialDraft.country \in ListedCountries
    /\ {InitialDraft.keyMap, InitialDraft.consoleKeymap} \subseteq ListedKeymaps
    /\ InitialDraft.timeZone \in KnownZones

(* An imported file may name any place; the pin is never put but on the map. *)
LocaleTypeOK ==
    /\ ui.timeZonePin \in DOMAIN Regions \cup {Utc, NoZone}
    /\ imported \/ /\ draft.uiLanguage \in Languages
                   /\ draft.country \in ListedCountries
                   /\ {draft.keyMap, draft.consoleKeymap} \subseteq ListedKeymaps
                   /\ draft.timeZone \in KnownZones

(* The draft and the transient state hold what the pages expect, whatever was
   answered late, and whatever was imported from a file whose values are of the
   kinds the pages give the fields; what a page keeps for itself is gone once
   another step is shown. *)
TypeOK ==
    /\ stepIndex \in DOMAIN Steps
    /\ DraftTypeOK(draft) /\ UiTypeOK(ui) /\ LocaleTypeOK
    /\ disks.mounted <=> Step = "disks"
    /\ net.mounted <=> Step = "network"
    /\ net.checks \in 0..MaxChecks
    /\ modal # {} => Step = "systemFeatures"
    /\ blank \in BOOLEAN /\ strayed \in Nat

(* However the user moves about, jumps, goes back or reloads, no step after the
   licence is shown unless it is accepted. *)
EulaFirst == stepIndex > StepOf("eula") => ui.eulaAccepted

(* Short of an imported file, the install step is entered with everything the
   earlier steps demand still true, whatever arrived or was changed since they
   were passed: only the connection may have been lost.  The disk that will be
   erased is one that the last inventory shown lists as eligible. *)
EntersInstallSound ==
    [][ (Step # "install" /\ Steps[stepIndex'] = "install" /\ ~imported) =>
          /\ ui.eulaAccepted
          /\ SourceIssues(draft, ui) = {} \/ detour
          /\ TimezoneIssues(draft) = {}
          /\ NetworkIssues(draft, ui) \subseteq {"connectivity"}
          /\ UsersIssues(draft) = {}
          /\ ui.destructiveConfirmed
          /\ draft.sysDisk \in Disks!Eligible(disks)
          /\ Topology(draft) = "single" ]_vars

(* A repository shown as ready is the one the daemon's checkout holds: an
   answer that comes late does not vouch for an address typed since, unless a
   clone was overtaken by a change of kind or a reload. *)
ReadyIsForThisSource ==
    (draft.sourceKind = "github-user-repo" /\ ui.githubSourceStatus = "ready" /\ ~detour)
        => checkout = draft.sourceRepoUrl

(* Locked for a network that nobody is applying. *)
LockedForNothing == ui.netApplyBusy /\ ~net.applying

(* The buttons, the phases and the keyboard are held while the network is being
   applied, and every answer, refusal or dropped connection lets them go: only a
   reload of the browser, which forgets the request and not the lock, leaves the
   wizard locked with nobody to unlock it.  Then it stays so: no answer that is
   still to come, no click and no second reload brings it off the network step. *)
OnlyReloadStrandsTheLock ==
    [][ /\ LockedForNothing' => LockedForNothing \/ ReloadBrowser
        /\ LockedForNothing => LockedForNothing' /\ stepIndex' = stepIndex ]_vars

(* The disk that will be erased is moved by the user, on the disks step or with a
   plan he imports; of its own accord only while the disks step is shown, by a
   listing that has disks, and then because none was picked or the listing does
   not offer it: no other page, no late answer, no failed or empty listing, no
   step back and no reload moves it. *)
DiskMovesAreAsked ==
    [][ draft'.sysDisk # draft.sysDisk =>
          \/ DisksPageStep \/ ImportPlan
          \/ /\ Step = "disks" /\ disks'.inventory # <<>>
             /\ draft.sysDisk = NoDisk \/ draft.sysDisk \notin Disks!Eligible(disks') ]_vars

(* Every zone that the list of the time zone step offers can be picked on the map
   as well: a click on its pin means this zone and no other, although the map is
   stretched when a pin is drawn and not when a click is read. *)
PinsAreClickable == Step = "timezone" => ClickableZones = DOMAIN Regions

(* The last step shows its page: what summary announces can be started. *)
InstallPageRenders == ~blank
=============================================================================
