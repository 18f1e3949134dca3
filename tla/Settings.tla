-------------------------------- MODULE Settings --------------------------------
(***************************************************************************)
(* The settings in storage.local (settings.ts) as the pages that show them   *)
(* change them: the options form (options.ts), which saves all of its        *)
(* fields, and the popup's theme button (popup.ts), which saves one.  To     *)
(* save, a page reads the settings, awaits them, and writes them back with   *)
(* its changes.  The calls of one page take effect in their order.          *)
(***************************************************************************)
EXTENDS Integers, Sequences

CONSTANTS Fields,      \* fields of the form other than the theme
          Values,      \* what users enter there
          Empty,       \* the value of an empty input
          Forms, Popups,
          MaxSaves     \* bound: saves by all pages

Pages == Forms \cup Popups
AllFields == Fields \cup {"theme"}
ASSUME SettingsAssumption ==
  /\ "theme" \notin Fields /\ Empty \in Values
  /\ Forms \cap Popups = {} /\ MaxSaves \in Nat

VARIABLES settings,
          pages,
          saved        \* counter of the bound

settingsVars == <<settings, pages, saved>>

\* "auto", "light", "dark" in the order of THEMES.
Themes == 0..2
NextTheme(theme) == (theme + 1) % 3

Defaults == [f \in AllFields |-> IF f = "theme" THEN 0 ELSE Empty]
SettingsRecords ==
  {s \in [AllFields -> Values \cup Themes] : s["theme"] \in Themes /\ \A f \in Fields : s[f] \in Values}

\* A save under way: the fields it sets, what it has read, in brackets once it has, the
\* fields that its user has changed, and whether another save was written since the page
\* read the rest (both history).
Saves ==
  [patch : UNION {[fields -> Values \cup Themes] : fields \in SUBSET AllFields}, read : Seq(SettingsRecords),
   chosen : SUBSET AllFields, behind : BOOLEAN]

\* A page: whether its own reading of the settings was answered, what it shows, its saves,
\* and the history of the next one.
PageRecords ==
  [open : BOOLEAN, loaded : BOOLEAN, shown : SettingsRecords, saves : Seq(Saves),
   chosen : SUBSET AllFields, behind : BOOLEAN]

Closed ==
  [open |-> FALSE, loaded |-> FALSE, shown |-> Defaults, saves |-> <<>>, chosen |-> {}, behind |-> TRUE]

SettingsTypeOK ==
  /\ settings \in SettingsRecords
  /\ pages \in [Pages -> PageRecords]
  /\ saved \in 0..MaxSaves

SettingsInit ==
  /\ settings = Defaults
  /\ pages = [p \in Pages |-> Closed]
  /\ saved = 0

Becomes(p, page) == pages' = [pages EXCEPT ![p] = page]

\* The page calls loadSettings.  An empty form looks like the defaults.
Open(p) ==
  /\ ~pages[p].open
  /\ Becomes(p, [Closed EXCEPT !.open = TRUE])
  /\ UNCHANGED <<settings, saved>>

\* What users have entered before is overwritten.
Loaded(p) ==
  /\ pages[p].open /\ ~pages[p].loaded
  /\ Becomes(p, [pages[p] EXCEPT !.loaded = TRUE, !.shown = settings, !.chosen = {},
                                !.behind = pages[p].saves # <<>>])
  /\ UNCHANGED <<settings, saved>>

Enter(p, field, value) ==
  /\ p \in Forms /\ pages[p].open
  /\ Becomes(p, [pages[p] EXCEPT !.shown[field] = value, !.chosen = @ \cup {field}])
  /\ UNCHANGED <<settings, saved>>

Save(p, page, patch, chosen, behind) ==
  /\ saved < MaxSaves /\ saved' = saved + 1
  /\ Becomes(p, [page EXCEPT !.saves = Append(@,
       [patch |-> patch, read |-> <<>>, chosen |-> chosen, behind |-> behind])])
  /\ UNCHANGED settings

\* The form is there before its fields are filled.
Submit(p) ==
  /\ p \in Forms /\ pages[p].open
  /\ Save(p, pages[p], pages[p].shown, pages[p].chosen, pages[p].behind)

\* The button works once the theme is known.
ClickTheme(p) ==
  /\ p \in Popups /\ pages[p].loaded
  /\ LET theme == NextTheme(pages[p].shown["theme"])
     IN Save(p, [pages[p] EXCEPT !.shown["theme"] = theme], [f \in {"theme"} |-> theme], {"theme"}, FALSE)

FaultyMerged(patch, read) == [f \in AllFields |-> IF f \in DOMAIN patch THEN patch[f] ELSE Defaults[f]]

Merged(patch, read) == [f \in AllFields |-> IF f \in DOMAIN patch THEN patch[f] ELSE read[f]]

\* loadSettings within saveSettings, for the first save that waits for it.
ReadSettings(p, i) ==
  /\ i \in DOMAIN pages[p].saves /\ pages[p].saves[i].read = <<>>
  /\ \A j \in 1..(i - 1) : pages[p].saves[j].read # <<>>
  /\ Becomes(p, [pages[p] EXCEPT !.saves[i].read = <<settings>>])
  /\ UNCHANGED <<settings, saved>>

\* Page q after a write of page p: what it has read, and a form what it shows, is out of date.
Behind(p, q, page) ==
  [page EXCEPT !.behind = @ \/ q # p,
               !.saves = [i \in DOMAIN page.saves |->
                 [page.saves[i] EXCEPT !.behind = @ \/ page.saves[i].read # <<>> \/ q \in Forms]]]

Write(p) ==
  /\ pages[p].saves # <<>>
  /\ LET save == Head(pages[p].saves)
     IN /\ save.read # <<>>
        /\ settings' = Merged(save.patch, save.read[1])
        /\ pages' = [q \in Pages |->
             Behind(p, q, IF q = p THEN [pages[q] EXCEPT !.saves = Tail(@)] ELSE pages[q])]
  /\ UNCHANGED saved

\* The page is closed: of a save under way, what was not written never is.
Close(p) ==
  /\ pages[p].open
  /\ Becomes(p, Closed)
  /\ UNCHANGED <<settings, saved>>

SettingsNext ==
  \E p \in Pages :
    \/ Open(p)
    \/ Loaded(p)
    \/ \E field \in Fields, value \in Values : Enter(p, field, value)
    \/ \E theme \in Themes : Enter(p, "theme", theme)
    \/ Submit(p)
    \/ ClickTheme(p)
    \/ \E i \in 1..MaxSaves : ReadSettings(p, i)
    \/ Write(p)
    \/ Close(p)

--------------------------------------------------------------------------------
(* Properties *)

\* A write changes no setting that its user has not changed on that page, unless a page wrote
\* others meanwhile, or the form was saved before it was filled: saving the theme keeps the
\* key, saving the form keeps the theme, however often and fast (saveSettings).
OtherSettingsKept ==
  [][\A f \in AllFields : settings'[f] # settings[f] =>
       \E p \in Pages :
         /\ Len(pages'[p].saves) < Len(pages[p].saves)
         /\ f \in Head(pages[p].saves).chosen \/ Head(pages[p].saves).behind]_settingsVars
================================================================================
