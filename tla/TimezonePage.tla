----------------------------- MODULE TimezonePage -----------------------------
(* The time zone step of the wizard (ui/src/pages/Timezone.jsx with
   components/TimezoneMap.jsx): a zone is picked from the list, on the map, or
   set to UTC, and the pin follows the zone.

   The daemon's client answers without items, so the zones offered are those of
   the internal catalogue; none of them names a country, so the page never
   offers its quick suggestions. *)
EXTENDS WizardPage, TimezoneCatalog

CONSTANTS ClickedPoints   \* bound: the points of the map clicked

(* The effect that moves the pin to the selected zone, after every render; a zone
   that is not in the catalogue leaves it where it was. *)
PinShown(w, u) ==
    IF w.timeZone \in DOMAIN Regions THEN Patched(u, [timeZonePin |-> w.timeZone]) ELSE u

EntersTimezone ==
    /\ draft' = draft
    /\ ui' = PinShown(draft, ui)

(* applyLocation, resolveSelectionPatch. *)
ApplyLocation(zone) == Change([timeZone |-> zone, timeZonePin |-> zone])

(* mergeTimezoneLocations. *)
MergedZones == MergedCatalog(DOMAIN Regions)

ChooseFromList(zone) == zone \in MergedZones /\ ApplyLocation(zone)

(* handleMapClick: the nearest zone to the point clicked. *)
ClickedZones == UNION {NearestZones(point) : point \in ClickedPoints}

ClickMap == \E zone \in ClickedZones : ApplyLocation(zone)

SwitchToUtc == draft.timeZone \notin {NoZone, Utc} /\ ApplyLocation(Utc)
=============================================================================
