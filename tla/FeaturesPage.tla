----------------------------- MODULE FeaturesPage -----------------------------
(* The features step (ui/src/pages/SystemFeatures.jsx): a profile or a preset
   to start from, and the system features turned on and off one by one.

   `modal` holds the feature whose partial state the user is being warned of;
   nothing else answers while the warning is shown. *)
EXTENDS WizardPage, FeatureCatalog

CONSTANTS Toggled   \* bound: the features turned on and off one by one

VARIABLE modal

featureVars == <<draft, ui, modal>>

Select(features) == Change([selectedFeatures |-> features])

(* handleToggle: a placeholder does nothing. *)
ToggleFeature(f) ==
    /\ modal = {} /\ f \notin StubFeatures
    /\ IF f \in PartialFeatures \ draft.selectedFeatures
       THEN modal' = {f} /\ UNCHANGED <<draft, ui>>
       ELSE Select(Toggle(draft.selectedFeatures, f)) /\ UNCHANGED modal

ConfirmFeature ==
    /\ \E f \in modal : Select(Toggle(draft.selectedFeatures, f))
    /\ modal' = {}

CancelFeature ==
    /\ modal # {} /\ modal' = {}
    /\ UNCHANGED <<draft, ui>>

ApplyPreset(preset) ==
    /\ modal = {}
    /\ Select(Preset(draft.selectedFeatures, preset))
    /\ UNCHANGED modal

SelectProfile(profile) ==
    /\ modal = {}
    /\ Change([profileId |-> profile, selectedFeatures |-> ProfileFeatures[profile]])
    /\ UNCHANGED modal

(* The button is there when the draft's profile is one of the catalogue. *)
RestoreOffered == modal = {} /\ draft.profileId \in Profiles

RestoreProfile ==
    /\ RestoreOffered
    /\ Select(ProfileFeatures[draft.profileId])
    /\ UNCHANGED modal

ClearSystemFeatures ==
    /\ modal = {}
    /\ Select(UserLevel(draft.selectedFeatures))
    /\ UNCHANGED modal
=============================================================================
