----------------------------- MODULE WelcomePage ------------------------------
(* The first step of the wizard (ui/src/pages/Welcome.jsx): the country with what
   comes with it, the language of the pages, the keyboard.  The lists are the
   internal ones, there before the user can act. *)
EXTENDS WizardPage, TimezoneCatalog

(* loadAll: what the comboboxes list. *)
ListedCountries == MergedCatalog(Countries)
ListedKeymaps == MergedCatalog(Keymaps)

Languages == {"pt-BR", "en-US", "es-ES"}

(* A country with a preset brings its keymap and its zone, and takes the pin off
   the map; its locale goes to a key that the draft does not have. *)
ApplyCountry(country) ==
    /\ country \in ListedCountries
    /\ IF country \in DOMAIN CountryPresets
       THEN LET preset == CountryPresets[country] IN
            Change([country |-> country, locale |-> country, timeZone |-> preset[1],
                    keyMap |-> preset[2], consoleKeymap |-> preset[2], timeZonePin |-> NoZone])
       ELSE Change([country |-> country])

ChooseLanguage(language) == language \in Languages /\ Change([uiLanguage |-> language])

ChooseKeymap(keymap) ==
    keymap \in ListedKeymaps /\ Change([keyMap |-> keymap, consoleKeymap |-> keymap])
=============================================================================
