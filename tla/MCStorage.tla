------------------------------- MODULE MCStorage -------------------------------
(* Three parts of the extension that share its storage areas and nothing in them, side by
   side: lookups of a product, with a database or without one; a form and
   a popup with the settings; a popup with a result. *)
EXTENDS AssessmentCache, Settings, Popup, TLC
CONSTANTS a, n, v1, v2, r1, r2, form, button, none, entered
MCTechnologies == {a}
MCNames == {n}
MCRecords == {v1, v2}
MCAbout ==
  a :> [usable |-> TRUE, name |-> n, product |-> TRUE, records |-> {v2}, lifecycle |-> "behind",
        library |-> TRUE, advisories |-> {}]
MCMarked == {v2}
MCAnswers == n :> <<{}, {v1}>>
MCCatalogs == <<{}, {v1}>>
MCRuns == {r1, r2}
MCDetected == {{a}}
MCFields == {"nvdApiKey"}
MCValues == {none, entered}
MCForms == {form}
MCPopups == {button}
Symmetric == Permutations(MCRuns)

\* Only one of the three leaves its initial state.
MCInit == CacheInit /\ SettingsInit /\ PopupInit
MCNext ==
  \/ SettingsInit /\ PopupInit /\ CacheNext /\ UNCHANGED <<settingsVars, popupVars>>
  \/ CacheInit /\ PopupInit /\ SettingsNext /\ UNCHANGED <<cacheVars, popupVars>>
  \/ CacheInit /\ SettingsInit /\ PopupNext /\ UNCHANGED <<cacheVars, settingsVars>>
MCSpec == MCInit /\ [][MCNext]_<<cacheVars, settingsVars, popupVars>>
================================================================================
