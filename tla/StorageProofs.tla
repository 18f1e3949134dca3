----------------------------- MODULE StorageProofs -----------------------------
(* Theorems about the parts of the extension that share its storage areas: Popup, Settings *)
(* and AssessmentCache, each for any of its constants.                                    *)
EXTENDS AssessmentCache, Settings, Popup, SequenceTheorems, TLAPS

--------------------------------------------------------------------------------
(* Popup *)

PopupSpec == PopupInit /\ [][PopupNext]_popupVars

\* The version that is or will be shown when all reads so far have been answered.
Latest == IF loads = <<>> THEN shown ELSE loads[Len(loads)]

\* Where the popup is, and what it can have read.
PlaceInv ==
  /\ popup = "closed" => Nothing
  /\ popup = "loading" => Len(loads) = 1 /\ shown = Unread
  /\ popup = "shown" => loads = <<>>
  /\ popup \in {"shown", "listening"} => shown # Unread
  /\ popup # "listening" => events = 0

\* Reads take effect in order, and no read is ahead of the result.
ReadsInv ==
  /\ \A i, j \in DOMAIN loads : i < j /\ loads[j] # Unread => loads[i] # Unread
  /\ \A i \in DOMAIN loads : loads[i] <= result
  /\ shown <= result /\ events <= result

\* The last read has the result, unless a change is yet to be reported or was missed.
LatestInv == popup # "closed" /\ events = 0 /\ ~missed => Latest \in {Unread, result}

\* A popup that has not asked for a rescan had something to show, and has ever since.
AskedInv == popup = "listening" /\ ~asked => result # 0 /\ shown # 0 /\ \A i \in DOMAIN loads : loads[i] # 0

PopupInv == PopupTypeOK /\ PlaceInv /\ ReadsInv /\ LatestInv /\ AskedInv

LEMMA LoadsFacts ==
  ASSUME PopupTypeOK
  PROVE  /\ loads \in Seq(Int) /\ Len(loads) \in Nat /\ DOMAIN loads = 1..Len(loads)
         /\ (loads = <<>> <=> Len(loads) = 0) /\ MaxResults \in Nat
         /\ \A i \in 1..Len(loads) : loads[i] \in Unread..MaxResults
         /\ result \in Nat /\ events \in Nat /\ shown \in Unread..MaxResults
<1>1. MaxResults \in Nat
  BY PopupAssumption
<1>2. loads \in Seq(Unread..MaxResults) /\ result \in 0..MaxResults /\ events \in 0..MaxResults /\ shown \in Unread..MaxResults
  BY DEF PopupTypeOK
<1>3. \A i \in 1..Len(loads) : loads[i] \in Unread..MaxResults
  BY <1>2, ElementOfSeq
<1>4. Len(loads) \in Nat /\ DOMAIN loads = 1..Len(loads) /\ (loads = <<>> <=> Len(loads) = 0)
  BY <1>2, LenProperties, EmptySeq
<1>5. loads \in Seq(Int)
  <2>1. Unread..MaxResults \subseteq Int
    BY DEF Unread
  <2>2. QED
    BY <1>2, <2>1, SeqMonotonic
<1>6. QED
  BY <1>1, <1>2, <1>3, <1>4, <1>5

LEMMA PopupInitInv == PopupInit => PopupInv
<1> SUFFICES ASSUME PopupInit PROVE PopupInv
  OBVIOUS
<1>1. /\ popup = "closed" /\ events = 0 /\ loads = <<>> /\ shown = Unread /\ asked = FALSE /\ missed = FALSE
      /\ result = 0 /\ MaxResults \in Nat
  BY PopupAssumption DEF PopupInit, Nothing
<1>2. loads \in Seq(Unread..MaxResults) /\ Len(loads) = 0 /\ DOMAIN loads = {}
  BY <1>1, EmptySeq
<1>3. PopupTypeOK
  <2>1. 0 \in 0..MaxResults /\ Unread \in Unread..MaxResults
    BY <1>1 DEF Unread
  <2>2. QED
    BY <1>1, <1>2, <2>1 DEF PopupTypeOK
<1>4. PlaceInv /\ ReadsInv /\ LatestInv /\ AskedInv
  BY <1>1, <1>2 DEF PlaceInv, ReadsInv, LatestInv, AskedInv, Nothing, Unread
<1>5. QED
  BY <1>3, <1>4 DEF PopupInv

\* A read takes effect.
LEMMA ReadStep ==
  ASSUME PopupInv, NEW i \in 1..(MaxResults + 1), Read(i)
  PROVE  PopupInv'
<1>1. /\ i \in DOMAIN loads /\ loads[i] = Unread /\ \A j \in 1..(i - 1) : loads[j] # Unread
      /\ loads' = [loads EXCEPT ![i] = result] /\ missed' = FALSE
      /\ UNCHANGED <<result, popup, events, shown, asked>>
  BY DEF Read
<1>2. /\ Len(loads) \in Nat /\ DOMAIN loads = 1..Len(loads) /\ result \in 0..MaxResults /\ MaxResults \in Nat
      /\ \A j \in 1..Len(loads) : loads[j] \in Unread..MaxResults
      /\ loads \in Seq(Unread..MaxResults) /\ loads # <<>>
  <2>1. PopupTypeOK
    BY DEF PopupInv
  <2>2. QED
    BY <1>1, <2>1, LoadsFacts DEF PopupTypeOK
<1>3. result \in Unread..MaxResults
  BY <1>2 DEF Unread
<1>4. /\ loads' \in Seq(Unread..MaxResults) /\ Len(loads') = Len(loads) /\ DOMAIN loads' = 1..Len(loads)
      /\ loads'[i] = result /\ \A j \in 1..Len(loads) : j # i => loads'[j] = loads[j]
  BY <1>1, <1>2, <1>3, ExceptSeq, LenProperties
<1>5. PopupTypeOK'
  BY <1>1, <1>4 DEF PopupInv, PopupTypeOK
<1>6. PlaceInv'
  BY <1>1, <1>2, <1>4 DEF PopupInv, PlaceInv, Nothing
<1>7. ReadsInv'
  <2>1. \A j, k \in 1..Len(loads) : j < k /\ loads'[k] # Unread => loads'[j] # Unread
    <3>1. result # Unread
      BY <1>2 DEF Unread
    <3> SUFFICES ASSUME NEW j \in 1..Len(loads), NEW k \in 1..Len(loads), j < k, loads'[k] # Unread
                 PROVE  loads'[j] # Unread
      OBVIOUS
    <3>2. CASE j = i
      BY <1>4, <3>1, <3>2
    <3>3. CASE j # i /\ k = i
      <4>1. j \in 1..(i - 1)
        BY <3>3
      <4>2. QED
        BY <1>1, <1>4, <3>3, <4>1
    <3>4. CASE j # i /\ k # i
      BY <1>2, <1>4, <3>4 DEF PopupInv, ReadsInv
    <3>5. QED
      BY <3>2, <3>3, <3>4
  <2>2. \A j \in 1..Len(loads) : loads'[j] <= result
    BY <1>2, <1>4 DEF PopupInv, ReadsInv
  <2>3. QED
    BY <1>1, <1>4, <2>1, <2>2 DEF PopupInv, ReadsInv
<1>8. LatestInv'
  <2>1. Latest' = loads'[Len(loads)] /\ Len(loads) \in 1..Len(loads)
    BY <1>1, <1>2, <1>4, EmptySeq DEF Latest
  <2>2. CASE i = Len(loads)
    BY <1>1, <1>4, <2>1, <2>2 DEF LatestInv
  <2>3. CASE i # Len(loads)
    <3>1. loads[Len(loads)] = Unread
      BY <1>1, <1>2, <2>1, <2>3 DEF PopupInv, ReadsInv
    <3>2. QED
      BY <1>4, <2>1, <2>3, <3>1 DEF LatestInv
  <2>4. QED
    BY <2>2, <2>3
<1>9. AskedInv'
  BY <1>1, <1>2, <1>4 DEF PopupInv, AskedInv
<1>10. QED
  BY <1>5, <1>6, <1>7, <1>8, <1>9 DEF PopupInv

\* A reply is shown.
LEMMA RenderStep ==
  ASSUME PopupInv, Render
  PROVE  PopupInv'
<1>1. /\ loads # <<>> /\ Head(loads) # Unread /\ shown' = Head(loads) /\ loads' = Tail(loads)
      /\ popup' = IF popup = "loading" THEN "shown" ELSE popup
      /\ UNCHANGED <<result, events, asked, missed>>
  BY DEF Render
<1>2. PopupTypeOK /\ PlaceInv /\ ReadsInv /\ LatestInv /\ AskedInv
  BY DEF PopupInv
<1>3. /\ Len(loads) \in Nat /\ Len(loads) # 0 /\ DOMAIN loads = 1..Len(loads)
      /\ \A j \in 1..Len(loads) : loads[j] \in Unread..MaxResults
      /\ loads \in Seq(Unread..MaxResults) /\ loads # <<>>
  BY <1>1, <1>2, LoadsFacts DEF PopupTypeOK
<1>4. Head(loads) = loads[1] /\ 1 \in 1..Len(loads)
  BY <1>3, HeadTailProperties
<1>5. /\ loads' \in Seq(Unread..MaxResults) /\ Len(loads') = Len(loads) - 1 /\ DOMAIN loads' = 1..(Len(loads) - 1)
      /\ \A j \in 1..(Len(loads) - 1) : loads'[j] = loads[j + 1]
      /\ loads' = <<>> <=> Len(loads) = 1
  <2>1. /\ Tail(loads) \in Seq(Unread..MaxResults) /\ Len(Tail(loads)) = Len(loads) - 1
        /\ \A j \in 1..Len(Tail(loads)) : Tail(loads)[j] = loads[j + 1]
    BY <1>3, HeadTailProperties
  <2>2. Len(Tail(loads)) = 0 <=> Tail(loads) = <<>>
    BY <2>1, EmptySeq
  <2>3. DOMAIN Tail(loads) = 1..Len(Tail(loads))
    BY <2>1, LenProperties
  <2> HIDE <1>1
  <2>4. Tail(loads) = <<>> <=> Len(loads) = 1
    BY <1>3, <2>1, <2>2
  <2>5. QED
    BY <1>1, <2>1, <2>3, <2>4
<1>6. popup # "closed" /\ popup # "shown" /\ popup' # "closed"
  BY <1>1, <1>2 DEF PlaceInv, Nothing, PopupTypeOK
<1>7. PopupTypeOK'
  BY <1>1, <1>2, <1>3, <1>4, <1>5 DEF PopupTypeOK
<1>8. PlaceInv'
  BY <1>1, <1>2, <1>5, <1>6 DEF PlaceInv, PopupTypeOK
<1>9. ReadsInv'
  <2>1. \A j \in 1..(Len(loads) - 1) : j + 1 \in 1..Len(loads)
    BY <1>3
  <2>2. \A j, k \in 1..(Len(loads) - 1) : j < k /\ loads'[k] # Unread => loads'[j] # Unread
    <3> SUFFICES ASSUME NEW j \in 1..(Len(loads) - 1), NEW k \in 1..(Len(loads) - 1), j < k, loads'[k] # Unread
                 PROVE  loads'[j] # Unread
      OBVIOUS
    <3>1. j + 1 < k + 1 /\ j + 1 \in 1..Len(loads) /\ k + 1 \in 1..Len(loads) /\ loads[k + 1] # Unread
      BY <1>3, <1>5, <2>1
    <3>2. QED
      BY <1>2, <1>3, <1>5, <3>1 DEF ReadsInv
  <2>3. \A j \in 1..(Len(loads) - 1) : loads'[j] <= result
    BY <1>2, <1>3, <1>5, <2>1 DEF ReadsInv
  <2>4. shown' <= result
    BY <1>1, <1>2, <1>3, <1>4 DEF ReadsInv
  <2>5. QED
    BY <1>1, <1>2, <1>5, <2>2, <2>3, <2>4 DEF ReadsInv
<1>10. LatestInv'
  <2>1. Latest' = Latest
    <3>1. Latest = loads[Len(loads)]
      BY <1>1 DEF Latest
    <3>2. CASE Len(loads) = 1
      BY <1>1, <1>4, <1>5, <3>1, <3>2 DEF Latest
    <3>3. CASE Len(loads) # 1
      <4>1. Len(loads) - 1 \in 1..(Len(loads) - 1) /\ (Len(loads) - 1) + 1 = Len(loads)
        BY <1>3, <3>3
      <4>2. QED
        BY <1>5, <3>1, <3>3, <4>1 DEF Latest
    <3>4. QED
      BY <3>2, <3>3
  <2>2. QED
    BY <1>1, <1>2, <1>6, <2>1 DEF LatestInv
<1>11. AskedInv'
  <2>1. \A j \in 1..(Len(loads) - 1) : j + 1 \in 1..Len(loads)
    BY <1>3
  <2>2. QED
    BY <1>1, <1>2, <1>3, <1>4, <1>5, <2>1 DEF AskedInv
<1>12. QED
  BY <1>7, <1>8, <1>9, <1>10, <1>11 DEF PopupInv

\* A change is reported: the popup reads once more.
LEMMA ChangedStep ==
  ASSUME PopupInv, Changed
  PROVE  PopupInv'
<1>1. /\ events > 0 /\ events' = events - 1 /\ loads' = Append(loads, Unread)
      /\ UNCHANGED <<result, popup, shown, asked, missed>>
  BY DEF Changed
<1>2. PopupTypeOK /\ PlaceInv /\ ReadsInv /\ LatestInv /\ AskedInv
  BY DEF PopupInv
<1>3. /\ Len(loads) \in Nat /\ DOMAIN loads = 1..Len(loads) /\ result \in 0..MaxResults /\ events \in 0..MaxResults
      /\ \A j \in 1..Len(loads) : loads[j] \in Unread..MaxResults
      /\ loads \in Seq(Unread..MaxResults) /\ MaxResults \in Nat /\ Unread \in Unread..MaxResults
  BY <1>2, LoadsFacts DEF PopupTypeOK, Unread
<1>4. popup = "listening"
  BY <1>1, <1>2 DEF PlaceInv
<1>5. /\ loads' \in Seq(Unread..MaxResults) /\ Len(loads') = Len(loads) + 1 /\ DOMAIN loads' = 1..(Len(loads) + 1)
      /\ \A j \in 1..Len(loads) : loads'[j] = loads[j]
      /\ loads'[Len(loads) + 1] = Unread /\ loads' # <<>>
  <2>1. /\ loads' \in Seq(Unread..MaxResults) /\ Len(loads') = Len(loads) + 1
        /\ \A j \in 1..Len(loads) : loads'[j] = loads[j]
        /\ loads'[Len(loads) + 1] = Unread
    BY <1>1, <1>3, AppendProperties
  <2>2. DOMAIN loads' = 1..Len(loads')
    BY <2>1, LenProperties
  <2>3. loads' # <<>>
    BY <1>3, <2>1, EmptySeq
  <2>4. QED
    BY <2>1, <2>2, <2>3
<1>6. PopupTypeOK'
  BY <1>1, <1>2, <1>3, <1>5 DEF PopupTypeOK
<1>7. PlaceInv'
  BY <1>1, <1>2, <1>4 DEF PlaceInv
<1>8. \A j \in 1..(Len(loads) + 1) : j \in 1..Len(loads) \/ j = Len(loads) + 1
  BY <1>3
<1>9. ReadsInv'
  <2>1. \A j, k \in 1..(Len(loads) + 1) : j < k /\ loads'[k] # Unread => loads'[j] # Unread
    <3> SUFFICES ASSUME NEW j \in 1..(Len(loads) + 1), NEW k \in 1..(Len(loads) + 1), j < k, loads'[k] # Unread
                 PROVE  loads'[j] # Unread
      OBVIOUS
    <3>1. k \in 1..Len(loads)
      BY <1>5, <1>8
    <3>2. j \in 1..Len(loads)
      BY <1>3, <3>1
    <3>3. QED
      BY <1>2, <1>3, <1>5, <3>1, <3>2 DEF ReadsInv
  <2>2. \A j \in 1..(Len(loads) + 1) : loads'[j] <= result
    <3>1. Unread <= result
      BY <1>3 DEF Unread
    <3>2. QED
      BY <1>2, <1>3, <1>5, <1>8, <3>1 DEF ReadsInv
  <2>3. QED
    BY <1>1, <1>2, <1>3, <1>5, <2>1, <2>2 DEF ReadsInv
<1>10. LatestInv'
  BY <1>5 DEF LatestInv, Latest
<1>11. AskedInv'
  BY <1>1, <1>2, <1>3, <1>5, <1>8 DEF AskedInv, Unread
<1>12. QED
  BY <1>6, <1>7, <1>9, <1>10, <1>11 DEF PopupInv

\* The popup opens.
LEMMA OpenStep ==
  ASSUME PopupInv, OpenPopup
  PROVE  PopupInv'
<1>1. /\ popup = "closed" /\ popup' = "loading" /\ loads' = <<Unread>>
      /\ UNCHANGED <<result, events, shown, asked, missed>>
  BY DEF OpenPopup
<1>2. PopupTypeOK /\ events = 0 /\ shown = Unread /\ ReadsInv /\ result \in 0..MaxResults /\ MaxResults \in Nat
  BY <1>1, LoadsFacts DEF PopupInv, PlaceInv, Nothing, PopupTypeOK
<1>3. Unread \in Unread..MaxResults
  BY <1>2 DEF Unread
<1>4. loads' \in Seq(Unread..MaxResults) /\ Len(loads') = 1 /\ DOMAIN loads' = 1..1 /\ loads'[1] = Unread /\ loads' # <<>>
  BY <1>1, <1>3
<1>5. PopupTypeOK'
  BY <1>1, <1>2, <1>4 DEF PopupTypeOK
<1>6. PlaceInv' /\ LatestInv' /\ AskedInv'
  BY <1>1, <1>2, <1>4 DEF PlaceInv, LatestInv, Latest, AskedInv
<1>7. ReadsInv'
  BY <1>1, <1>2, <1>4 DEF ReadsInv, Unread
<1>8. QED
  BY <1>5, <1>6, <1>7 DEF PopupInv

LEMMA PopupStep ==
  ASSUME PopupInv, [PopupNext]_popupVars
  PROVE  PopupInv'
<1>1. PopupTypeOK /\ PlaceInv /\ ReadsInv /\ LatestInv /\ AskedInv /\ MaxResults \in Nat
  BY PopupAssumption DEF PopupInv
<1>2. CASE Publish
  <2>1. /\ result' = result + 1 /\ result' \in 0..MaxResults /\ result \in Nat
        /\ events' = IF popup = "listening" THEN events + 1 ELSE events
        /\ missed' = (popup \in {"loading", "shown"}) /\ UNCHANGED <<popup, loads, shown, asked>>
    BY <1>1, <1>2 DEF Publish, PopupTypeOK
  <2>2. events' \in 0..MaxResults /\ events' <= result' /\ events \in Nat
    BY <1>1, <2>1 DEF PopupTypeOK, ReadsInv
  <2>3. PopupTypeOK' /\ PlaceInv'
    BY <1>1, <2>1, <2>2 DEF PopupTypeOK, PlaceInv, Nothing
  <2>4. ReadsInv'
    <3>1. \A i \in DOMAIN loads : loads[i] \in Int
      BY <1>1, LoadsFacts DEF Unread
    <3>2. shown \in Int
      BY <1>1 DEF PopupTypeOK, Unread
    <3>3. QED
      BY <1>1, <2>1, <2>2, <3>1, <3>2 DEF ReadsInv
  <2>5. LatestInv'
    <3>1. CASE popup = "listening"
      BY <2>1, <2>2, <3>1 DEF LatestInv
    <3>2. CASE popup \in {"loading", "shown"}
      <4>1. missed'
        BY <2>1, <3>2
      <4>2. QED
        BY <4>1 DEF LatestInv
    <3>3. CASE popup = "closed"
      BY <2>1, <3>3 DEF LatestInv
    <3>4. QED
      BY <1>1, <3>1, <3>2, <3>3 DEF PopupTypeOK
  <2>6. AskedInv'
    BY <1>1, <2>1 DEF AskedInv
  <2>7. QED
    BY <2>3, <2>4, <2>5, <2>6 DEF PopupInv
<1>3. CASE Listen
  <2>1. popup = "shown" /\ popup' = "listening" /\ asked' = (shown = 0) /\ UNCHANGED <<result, events, loads, shown, missed>>
    BY <1>3 DEF Listen
  <2>2. loads = <<>> /\ events = 0 /\ shown # Unread /\ shown \in Unread..MaxResults
    BY <1>1, <2>1 DEF PlaceInv, PopupTypeOK
  <2>3. PopupTypeOK' /\ PlaceInv' /\ ReadsInv' /\ LatestInv'
    BY <1>1, <2>1, <2>2 DEF PopupTypeOK, PlaceInv, ReadsInv, LatestInv, Latest
  <2>4. AskedInv'
    <3>1. shown # 0 => result # 0
      BY <1>1, <2>2 DEF ReadsInv, PopupTypeOK, Unread
    <3>2. DOMAIN loads = {}
      BY <1>1, <2>2, LoadsFacts
    <3>3. QED
      BY <2>1, <3>1, <3>2 DEF AskedInv
  <2>5. QED
    BY <2>3, <2>4 DEF PopupInv
<1>4. CASE ClosePopup
  <2>1. /\ popup' = "closed" /\ events' = 0 /\ loads' = <<>> /\ shown' = Unread /\ asked' = FALSE /\ missed' = FALSE
        /\ UNCHANGED result
    BY <1>4 DEF ClosePopup
  <2>2. loads' \in Seq(Unread..MaxResults) /\ DOMAIN loads' = {}
    BY <2>1, EmptySeq
  <2>3. PopupTypeOK'
    <3>1. 0 \in 0..MaxResults /\ Unread \in Unread..MaxResults
      BY <1>1 DEF Unread
    <3>2. QED
      BY <1>1, <2>1, <2>2, <3>1 DEF PopupTypeOK
  <2>4. PlaceInv' /\ LatestInv' /\ AskedInv'
    BY <2>1 DEF PlaceInv, LatestInv, AskedInv, Nothing
  <2>5. ReadsInv'
    BY <1>1, <2>1, <2>2 DEF ReadsInv, PopupTypeOK, Unread
  <2>6. QED
    BY <2>3, <2>4, <2>5 DEF PopupInv
<1>5. CASE UNCHANGED popupVars
  BY <1>1, <1>5 DEF popupVars, PopupInv, PopupTypeOK, PlaceInv, ReadsInv, LatestInv, Latest, AskedInv, Nothing
<1>6. QED
  BY <1>2, <1>3, <1>4, <1>5, ReadStep, RenderStep, ChangedStep, OpenStep DEF PopupNext

\* When all reports and replies have arrived the popup shows the stored result, or it is
\* without one and has asked for it, unless a change came between its first read and its
\* listening (load and the storage.onChanged listener of popup.ts).
THEOREM PopupCorrect == PopupSpec => []PopupIsLive
<1>1. PopupInit => PopupInv
  BY PopupInitInv
<1>2. PopupInv /\ [PopupNext]_popupVars => PopupInv'
  BY PopupStep
<1>3. PopupInv => PopupIsLive
  BY DEF PopupInv, PlaceInv, LatestInv, Latest, AskedInv, PopupIsLive
<1>4. QED
  BY <1>1, <1>2, <1>3, PTL DEF PopupSpec

--------------------------------------------------------------------------------
(* Settings *)

SettingsSpec == SettingsInit /\ [][SettingsNext]_settingsVars

\* A save has read at most once.  One that is not behind writes what is stored already, but
\* for what its user changed.
SaveOK(p, save) ==
  /\ Len(save.read) <= 1
  /\ p \in Forms => save.patch \in SettingsRecords
  /\ p \in Popups => save.patch \in [{"theme"} -> Themes] /\ save.chosen = {"theme"}
  /\ ~save.behind =>
       /\ save.read # <<>> => save.read[1] = settings
       /\ \A f \in DOMAIN save.patch \ save.chosen : save.patch[f] = settings[f]

\* A form that is not behind shows what is stored, but for what its user changed, and so do
\* its saves.
FormOK(page) ==
  ~page.behind =>
    \A f \in AllFields \ page.chosen :
      /\ page.shown[f] = settings[f]
      /\ \A i \in DOMAIN page.saves : page.saves[i].patch[f] = page.shown[f]

PageOK(p, page) ==
  /\ \A i \in DOMAIN page.saves : SaveOK(p, page.saves[i])
  /\ p \in Forms => FormOK(page)

SettingsInv == SettingsTypeOK /\ \A p \in Pages : PageOK(p, pages[p])

--------------------------------------------------------------------------------
(* AssessmentCache *)

CacheSpec == CacheInit /\ [][CacheNext]_cacheVars

\* An answer, and a catalog, that was given on a day.
GivenOn(key, number, day) == IF key = KevKey THEN PublishedOn(number, day) ELSE AnsweredOn(key, number, day)

\* It is no older than the last Ttl days.
Recent(key, number) == \E day \in (today - Ttl)..today : GivenOn(key, number, day)

\* It was given since the cache was cleared, or was under way then.
Since(key, number) == number >= cleared.present[key] \/ key \in cleared.underway

Present(key) == IF key = KevKey THEN Catalog ELSE Now(key)

\* A stored entry was given on the day it is stored under, and is none that was cleared.
EntryInv ==
  \A k \in Keys : local[k].answer # 0 =>
    /\ local[k].day <= today /\ GivenOn(k, local[k].answer, local[k].day)
    /\ k \notin clearing.keys /\ clearing.at # "no" => Since(k, local[k].answer)

\* An answer on its way was given today, since the cache was cleared or when it was.
OnItsWay(key, number) == GivenOn(key, number, today) /\ (clearing.at # "no" => Since(key, number))

RunOK(run) ==
  /\ run.after => clearing.at = "done"
  /\ run.pc = "fetched" => OnItsWay(KevKey, run.got)
  /\ run.kev # 0 => Recent(KevKey, run.kev) /\ (run.after => Since(KevKey, run.kev))
  /\ \A t \in Technologies :
       /\ run.lookups[t].at \in {"asking", "answered"} => run.pc = "assess" /\ NeedsNvd(t, run.db)
       /\ run.lookups[t].at = "answered" => OnItsWay(Name(t), run.lookups[t].answer)

ClearedInv ==
  /\ \A k \in Keys : cleared.present[k] <= Present(k)
  /\ clearing.at = "done" => clearing.keys = {}

\* What a step leaves as it was: all that says when an answer was given.
SameWorld ==
  /\ UNCHANGED <<today, replaced, published, cleared>>
  /\ (clearing.at # "no") = (clearing'.at # "no")
  /\ clearing.at = "done" => clearing'.at = "done"

\* A run that is in order stays so while the world is the same.
LEMMA SameWorldRun ==
  ASSUME SameWorld, NEW run, RunOK(run)
  PROVE  RunOK(run)'
<1>1. \A k, number, day : AnsweredOn(k, number, day)' <=> AnsweredOn(k, number, day)
  BY DEF SameWorld, AnsweredOn, WasOn
<1>2. \A number, day : PublishedOn(number, day)' <=> PublishedOn(number, day)
  BY DEF SameWorld, PublishedOn, WasOn
<1>3. \A k, number, day : GivenOn(k, number, day)' <=> GivenOn(k, number, day)
  BY <1>1, <1>2 DEF GivenOn
<1>4. \A k, number : Since(k, number)' <=> Since(k, number)
  BY DEF SameWorld, Since
<1>5. \A k, number : OnItsWay(k, number)' <=> OnItsWay(k, number)
  BY <1>3, <1>4 DEF SameWorld, OnItsWay
<1>6. \A k, number : Recent(k, number)' <=> Recent(k, number)
  BY <1>3 DEF SameWorld, Recent
<1>7. QED
  BY <1>4, <1>5, <1>6 DEF RunOK, SameWorld

CacheInv ==
  /\ CacheTypeOK /\ EntryInv /\ ClearedInv
  /\ \A r \in Runs : RunOK(runs[r])
  /\ LiveVerdictsAreRecent /\ ClearedStaysCleared

LEMMA CacheFacts ==
  ASSUME CacheTypeOK
  PROVE  /\ today \in Nat /\ Ttl \in Nat /\ MaxTrouble \in Nat /\ KevKey \notin Names
         /\ published \in Seq(0..today) /\ \A n \in Names : replaced[n] \in Seq(0..today)
         /\ \A k \in Keys : Present(k) \in Nat
<1>1. today \in Nat /\ published \in Seq(0..today) /\ replaced \in [Names -> Seq(0..today)]
  BY SourcesAssumption DEF CacheTypeOK, WorldTypeOK
<1>2. \A n \in Names : replaced[n] \in Seq(0..today) /\ Len(replaced[n]) \in Nat
  BY <1>1, LenProperties
<1>3. Len(published) \in Nat
  BY <1>1, LenProperties
<1>4. \A k \in Keys : Present(k) \in Nat
  BY <1>2, <1>3 DEF Present, Catalog, Now, Keys
<1>5. QED
  BY <1>1, <1>2, <1>4, SourcesAssumption, AssessmentCacheAssumption

\* The latest of successive versions is the one of the present day.
LEMMA WasOnNow ==
  ASSUME NEW day \in Nat, NEW changes \in Seq(0..day)
  PROVE  WasOn(changes, Len(changes) + 1, day)
<1>1. Len(changes) \in Nat
  BY LenProperties
<1>2. Len(changes) # 0 => changes[Len(changes)] <= day
  <2>1. Len(changes) # 0 => changes[Len(changes)] \in 0..day
    BY <1>1, ElementOfSeq
  <2>2. QED
    BY <2>1
<1>3. QED
  BY <1>1, <1>2 DEF WasOn

\* A version of a day stays the version of that day when the next one comes later, or that day.
LEMMA WasOnAppend ==
  ASSUME NEW last \in Nat, NEW changes \in Seq(0..last), NEW number \in Nat, NEW day \in Int, day <= last,
         WasOn(changes, number, day)
  PROVE  WasOn(Append(changes, last), number, day)
<1> DEFINE new == Append(changes, last)
<1>1. Len(changes) \in Nat /\ last \in 0..last
  BY LenProperties
<1>2. /\ Len(new) = Len(changes) + 1 /\ new[Len(changes) + 1] = last
      /\ \A i \in 1..Len(changes) : new[i] = changes[i]
  BY <1>1, AppendProperties
<1> HIDE DEF new
<1>3. number \in 1..(Len(new) + 1)
  BY <1>1, <1>2 DEF WasOn
<1>4. number > 1 => new[number - 1] <= day
  <2>1. number > 1 => number - 1 \in 1..Len(changes)
    BY <1>1 DEF WasOn
  <2>2. QED
    BY <1>2, <2>1 DEF WasOn
<1>5. number <= Len(new) => day <= new[number]
  <2>1. number <= Len(new) => number \in 1..Len(changes) \/ number = Len(changes) + 1
    BY <1>1, <1>2 DEF WasOn
  <2>2. QED
    BY <1>1, <1>2, <2>1 DEF WasOn
<1>6. QED
  BY <1>3, <1>4, <1>5 DEF WasOn, new

\* What is given now is what is given today.
LEMMA GivenNow ==
  ASSUME CacheTypeOK, NEW key \in Keys
  PROVE  GivenOn(key, Present(key), today)
<1>1. CASE key = KevKey
  BY <1>1, CacheFacts, WasOnNow DEF GivenOn, PublishedOn, Present, Catalog
<1>2. CASE key # KevKey
  BY <1>2, CacheFacts, WasOnNow DEF GivenOn, AnsweredOn, Present, Now, Keys
<1>3. QED
  BY <1>1, <1>2

\* What was given on a day stays so when the world goes on.
LEMMA GivenGrows ==
  ASSUME CacheTypeOK, World, NEW key \in Keys, NEW number \in Nat, NEW day \in Int, day <= today,
         GivenOn(key, number, day)
  PROVE  GivenOn(key, number, day)'
<1>1. today \in Nat /\ published \in Seq(0..today) /\ (key # KevKey => replaced[key] \in Seq(0..today) /\ key \in Names)
  BY CacheFacts DEF Keys
<1>2. CASE key = KevKey
  <2>1. published' = published \/ published' = Append(published, today)
    BY DEF World, DayPasses, NvdChanges, KevPublished
  <2>2. WasOn(published, number, day)
    BY <1>2 DEF GivenOn, PublishedOn
  <2>3. WasOn(published', number, day)
    BY <1>1, <2>1, <2>2, WasOnAppend
  <2>4. QED
    BY <1>2, <2>3 DEF GivenOn, PublishedOn, WasOn
<1>3. CASE key # KevKey
  <2>1. replaced'[key] = replaced[key] \/ replaced'[key] = Append(replaced[key], today)
    <3>1. replaced \in [Names -> Seq(0..today)]
      BY DEF CacheTypeOK, WorldTypeOK
    <3>2. QED
      BY <1>1, <1>3, <3>1 DEF World, DayPasses, NvdChanges, KevPublished
  <2>2. WasOn(replaced[key], number, day)
    BY <1>3 DEF GivenOn, AnsweredOn
  <2>3. WasOn(replaced'[key], number, day)
    BY <1>1, <1>3, <2>1, <2>2, WasOnAppend
  <2>4. QED
    BY <1>3, <2>3 DEF GivenOn, AnsweredOn, WasOn
<1>4. QED
  BY <1>2, <1>3

\* An answer that is on its way is as recent as can be.
LEMMA OnItsWayIsRecent ==
  ASSUME CacheTypeOK, NEW key, NEW number, OnItsWay(key, number)
  PROVE  Recent(key, number)
<1>1. today \in (today - Ttl)..today
  BY CacheFacts
<1>2. QED
  BY <1>1 DEF OnItsWay, Recent

\* So is an entry that is a hit.
LEMMA HitIsRecent ==
  ASSUME CacheTypeOK, EntryInv, ClearedInv, NEW key \in Keys, Hit(key)
  PROVE  /\ Recent(key, local[key].answer) /\ local[key].answer \in Nat
         /\ clearing.at = "done" => Since(key, local[key].answer)
<1> DEFINE entry == local[key]
<1>1. today \in Nat /\ Ttl \in Nat /\ entry.answer \in Nat /\ entry.day \in Nat
  BY CacheFacts DEF CacheTypeOK, Entry
<1>2. today - entry.day <= Ttl /\ entry.answer # 0
  BY DEF Hit, Fresh
<1>3. entry.day <= today /\ GivenOn(key, entry.answer, entry.day)
  BY <1>2 DEF EntryInv
<1>4. clearing.at = "done" => Since(key, entry.answer)
  BY <1>2 DEF EntryInv, ClearedInv
<1> HIDE DEF entry
<1>5. entry.day \in (today - Ttl)..today
  BY <1>1, <1>2, <1>3
<1>6. QED
  BY <1>1, <1>3, <1>4, <1>5 DEF Recent, entry

\* What an answer that is stored makes of the entries.
LEMMA EntriesAfterSet ==
  ASSUME CacheTypeOK, EntryInv, NEW key \in Keys, NEW number \in Nat, OnItsWay(key, number), Set(key, number),
         UNCHANGED <<world, clearing, cleared>>
  PROVE  EntryInv' /\ local' \in [Keys -> Entry]
<1> DEFINE entry == [answer |-> number, day |-> today]
<1>1. entry \in Entry /\ today \in Nat /\ local \in [Keys -> Entry] /\ local' = [local EXCEPT ![key] = entry]
  BY CacheFacts DEF Entry, CacheTypeOK, Set
<1>2. local' \in [Keys -> Entry]
  BY <1>1
<1>3. UNCHANGED <<today, replaced, published, clearing, cleared>>
  BY DEF world
<1>4. ASSUME NEW k \in Keys, local'[k].answer # 0
      PROVE  /\ local'[k].day <= today /\ GivenOn(k, local'[k].answer, local'[k].day)
             /\ k \notin clearing.keys /\ clearing.at # "no" => Since(k, local'[k].answer)
  <2>1. CASE k = key
    BY <1>1, <2>1 DEF OnItsWay
  <2>2. CASE k # key
    BY <1>1, <1>4, <2>2 DEF EntryInv
  <2>3. QED
    BY <2>1, <2>2
<1>5. EntryInv'
  BY <1>3, <1>4 DEF EntryInv, GivenOn, AnsweredOn, PublishedOn, WasOn, Since
<1>6. QED
  BY <1>2, <1>5

LEMMA OffFacts ==
  /\ NoLookup \in Lookup /\ NoLookup.at = "none"
  /\ Off \in RunRecords /\ RunOK(Off) /\ Off.pc = "off" /\ Off.kev = 0 /\ ~Off.after
  /\ Off.got = 0 /\ \A t \in Technologies : Off.lookups[t] = NoLookup
<1>1. NoLookup \in Lookup /\ NoLookup.at = "none"
  BY DEF NoLookup, Lookup
<1>2. /\ Off \in RunRecords /\ Off.pc = "off" /\ Off.kev = 0 /\ ~Off.after /\ Off.got = 0
      /\ \A t \in Technologies : Off.lookups[t] = NoLookup
  BY <1>1 DEF Off, RunRecords
<1>3. RunOK(Off)
  BY <1>1, <1>2 DEF RunOK
<1>4. QED
  BY <1>1, <1>2, <1>3

--------------------------------------------------------------------------------
(* The steps of a run *)

\* A verdict that the properties ask for.
VerdictOK(v) ==
  /\ v.day = today
  /\ IsLive(v) => Recent(Name(v.tech), v.answer) /\ (v.after => Since(Name(v.tech), v.answer))
  /\ v.kev # 0 => Recent(KevKey, v.kev) /\ (v.after => Since(KevKey, v.kev))

\* Run r goes on as it should, and so do the entries and the verdict.
RunGoes(r) ==
  /\ \E next \in RunRecords : RunOK(next) /\ Goes(r, next)
  /\ UNCHANGED local \/ \E key \in Keys, number \in Nat : OnItsWay(key, number) /\ Set(key, number)
  /\ Silent \/ \E v \in Assessments : VerdictOK(v) /\ verdict' = <<v>>
  /\ Calm \/ Trouble

LEMMA TechnologyName ==
  ASSUME NEW t \in Technologies, NEW db, NeedsNvd(t, db)
  PROVE  Name(t) \in Names /\ Name(t) \in Keys /\ Name(t) # KevKey
<1>1. About[t] \in TechnologyFacts
  BY VerdictAssumption
<1>2. QED
  BY <1>1, AssessmentCacheAssumption DEF TechnologyFacts, NeedsNvd, Name, Keys

LEMMA RunStepInv ==
  ASSUME CacheInv, NEW r \in Runs, RunGoes(r)
  PROVE  CacheInv'
<1>1. /\ CacheTypeOK /\ EntryInv /\ ClearedInv
      /\ local \in [Keys -> Entry] /\ runs \in [Runs -> RunRecords] /\ MaxTrouble \in Nat /\ trouble \in 0..MaxTrouble
  BY CacheFacts DEF CacheInv, CacheTypeOK
<1>2. PICK next \in RunRecords : RunOK(next) /\ Goes(r, next)
  BY DEF RunGoes
<1>3. runs' = [runs EXCEPT ![r] = next] /\ UNCHANGED <<today, replaced, published, clearing, cleared>>
  BY <1>2 DEF Goes, world
<1>4. runs' \in [Runs -> RunRecords]
  BY <1>1, <1>2, <1>3
<1>5. \A q \in Runs : RunOK(runs[q])'
  <2>1. \A q \in Runs : RunOK(runs'[q])
    BY <1>1, <1>2, <1>3 DEF CacheInv
  <2>2. SameWorld
    BY <1>3 DEF SameWorld
  <2>3. SUFFICES ASSUME NEW q \in Runs PROVE RunOK(runs[q])'
    OBVIOUS
  <2>4. PICK run : run = runs'[q]
    OBVIOUS
  <2>5. RunOK(run)'
    BY <1>3, <2>1, <2>2, <2>4, SameWorldRun
  <2>6. QED
    BY <2>4, <2>5 DEF RunOK
<1>6. EntryInv' /\ local' \in [Keys -> Entry]
  <2>1. CASE UNCHANGED local
    BY <1>1, <1>3, <2>1 DEF EntryInv, GivenOn, AnsweredOn, PublishedOn, WasOn, Since
  <2>2. CASE \E key \in Keys, number \in Nat : OnItsWay(key, number) /\ Set(key, number)
    <3>1. UNCHANGED <<world, clearing, cleared>>
      BY <1>2 DEF Goes
    <3>2. QED
      BY <1>1, <2>2, <3>1, EntriesAfterSet
  <2>3. QED
    BY <2>1, <2>2 DEF RunGoes
<1>7. ClearedInv'
  BY <1>1, <1>3 DEF ClearedInv, Present, Catalog, Now
<1>8. trouble' \in 0..MaxTrouble
  BY <1>1 DEF RunGoes, Calm, Trouble
<1>9. verdict' \in Seq(Assessments) /\ Len(verdict') <= 1 /\ LiveVerdictsAreRecent' /\ ClearedStaysCleared'
  <2>1. CASE Silent
    <3>1. verdict' = <<>>
      BY <2>1 DEF Silent
    <3>2. <<>> \in Seq(Assessments) /\ Len(<<>>) = 0
      BY EmptySeq
    <3>3. QED
      BY <3>1, <3>2 DEF LiveVerdictsAreRecent, ClearedStaysCleared
  <2>2. ASSUME NEW v \in Assessments, VerdictOK(v), verdict' = <<v>>
        PROVE  verdict' \in Seq(Assessments) /\ Len(verdict') <= 1 /\ LiveVerdictsAreRecent' /\ ClearedStaysCleared'
    <3>1. verdict' \in Seq(Assessments) /\ Len(verdict') = 1 /\ verdict'[1] = v
      BY <2>2
    <3>2. IsLive(v) => Name(v.tech) # KevKey
      <4>1. v.tech \in Technologies
        BY DEF Assessments
      <4>2. QED
        BY <4>1, TechnologyName DEF IsLive
    <3>3. LiveVerdictsAreRecent'
      <4>1. IsLive(v) => \E day \in (v.day - Ttl)..v.day : AnsweredOn(Name(v.tech), v.answer, day)
        BY <2>2, <3>2 DEF VerdictOK, Recent, GivenOn
      <4>2. v.kev # 0 => \E day \in (v.day - Ttl)..v.day : PublishedOn(v.kev, day)
        BY <2>2 DEF VerdictOK, Recent, GivenOn
      <4>3. QED
        BY <1>3, <3>1, <4>1, <4>2 DEF LiveVerdictsAreRecent, AnsweredOn, PublishedOn, WasOn, IsLive
    <3>4. ClearedStaysCleared'
      BY <1>3, <2>2, <3>1 DEF ClearedStaysCleared, VerdictOK, Since, IsLive
    <3>5. QED
      BY <3>1, <3>3, <3>4
  <2>3. QED
    BY <2>1, <2>2 DEF RunGoes
<1>10. CacheTypeOK'
  BY <1>1, <1>3, <1>4, <1>6, <1>8, <1>9 DEF CacheTypeOK, WorldTypeOK, Present, Catalog, Now
<1>11. QED
  BY <1>5, <1>6, <1>7, <1>9, <1>10 DEF CacheInv

LEMMA RunFacts ==
  ASSUME CacheInv, NEW r \in Runs
  PROVE  /\ CacheTypeOK /\ EntryInv /\ ClearedInv /\ KevKey \in Keys
         /\ runs[r] \in RunRecords /\ RunOK(runs[r])
         /\ \A t \in Technologies : runs[r].lookups[t] \in Lookup
BY DEF CacheInv, CacheTypeOK, Keys, RunRecords

\* A run gets its catalog, or goes on without one.
LEMMA AssessingOK ==
  ASSUME NEW run \in RunRecords, RunOK(run), NEW number \in Nat,
         \A t \in Technologies : run.lookups[t].at \in {"none", "reading"},
         number # 0 => Recent(KevKey, number) /\ (run.after => Since(KevKey, number))
  PROVE  Assessing(run, number) \in RunRecords /\ RunOK(Assessing(run, number))
<1> DEFINE next == [run EXCEPT !.pc = "assess", !.kev = number, !.got = 0]
<1>1. next = Assessing(run, number)
  BY DEF Assessing
<1>2. /\ next \in RunRecords /\ next.pc = "assess" /\ next.kev = number /\ next.lookups = run.lookups
      /\ next.after = run.after
  BY DEF RunRecords
<1> HIDE DEF next
<1>3. RunOK(next)
  BY <1>2 DEF RunOK
<1>4. QED
  BY <1>1, <1>2, <1>3

\* handleEvidence reads the stored catalog.
LEMMA ReadKevOK ==
  ASSUME CacheInv, NEW r \in Runs, NEW db \in BOOLEAN, NEW technologies \in Detected, ReadKev(r, db, technologies)
  PROVE  RunGoes(r)
<1> DEFINE reading == [NoLookup EXCEPT !.at = "reading"]
           lookups == [t \in Technologies |-> IF t \in technologies THEN reading ELSE NoLookup]
           after == clearing.at = "done"
           run == [Off EXCEPT !.pc = "fetch", !.db = db, !.after = after, !.lookups = lookups]
           next == IF Hit(KevKey) THEN Assessing(run, local[KevKey].answer) ELSE run
<1>1. Goes(r, next) /\ UNCHANGED local /\ Silent /\ Calm
  BY DEF ReadKev
<1>2. CacheTypeOK /\ EntryInv /\ ClearedInv /\ KevKey \in Keys
  BY RunFacts
<1>3. lookups \in [Technologies -> Lookup] /\ \A t \in Technologies : lookups[t].at \in {"none", "reading"}
  <2>1. reading \in Lookup /\ reading.at = "reading"
    BY DEF NoLookup, Lookup
  <2> HIDE DEF reading
  <2>2. QED
    BY <2>1, OffFacts
<1>4. after \in BOOLEAN
  OBVIOUS
<1> HIDE DEF lookups
<1>5. /\ run \in RunRecords /\ run.pc = "fetch" /\ run.db = db /\ run.lookups = lookups
      /\ run.kev = 0 /\ run.got = 0
  BY <1>3, <1>4, OffFacts DEF RunRecords
<1>6. run.after => clearing.at = "done"
  BY OffFacts DEF RunRecords
<1> HIDE DEF run, after
<1>7. RunOK(run)
  BY <1>3, <1>5, <1>6 DEF RunOK
<1>8. next \in RunRecords /\ RunOK(next)
  <2>1. CASE Hit(KevKey)
    <3>1. /\ Recent(KevKey, local[KevKey].answer) /\ local[KevKey].answer \in Nat
          /\ clearing.at = "done" => Since(KevKey, local[KevKey].answer)
      BY <1>2, <2>1, HitIsRecent
    <3>2. Assessing(run, local[KevKey].answer) \in RunRecords /\ RunOK(Assessing(run, local[KevKey].answer))
      BY <1>3, <1>5, <1>6, <1>7, <3>1, AssessingOK
    <3>3. QED
      BY <2>1, <3>2
  <2>2. CASE ~Hit(KevKey)
    BY <1>5, <1>7, <2>2
  <2>3. QED
    BY <2>1, <2>2
<1> HIDE DEF next
<1>9. QED
  BY <1>1, <1>8 DEF RunGoes

LEMMA KevOK ==
  ASSUME CacheInv, NEW r \in Runs, KevAnswered(r) \/ StoreKev(r) \/ KevUnavailable(r)
  PROVE  RunGoes(r)
<1> DEFINE run == runs[r]
<1>1. /\ CacheTypeOK /\ EntryInv /\ ClearedInv /\ KevKey \in Keys /\ run \in RunRecords /\ RunOK(run)
      /\ \A t \in Technologies : run.lookups[t] \in Lookup
  BY RunFacts
<1>2. run.pc \in {"fetch", "fetched"}
  BY DEF KevAnswered, StoreKev, KevUnavailable
<1>3. \A t \in Technologies : run.lookups[t].at \in {"none", "reading"}
  BY <1>1, <1>2 DEF RunOK, Lookup
<1>4. CASE KevAnswered(r)
  <2> DEFINE next == [run EXCEPT !.pc = "fetched", !.got = Catalog]
  <2>1. Goes(r, next) /\ UNCHANGED local /\ Silent /\ Calm
    BY <1>4 DEF KevAnswered
  <2>2. Catalog \in Nat /\ Catalog = Present(KevKey)
    BY <1>1, CacheFacts DEF Present
  <2>3. /\ next \in RunRecords /\ next.pc = "fetched" /\ next.got = Catalog /\ next.lookups = run.lookups
        /\ next.kev = run.kev /\ next.after = run.after
    BY <1>1, <2>2 DEF RunRecords
  <2>4. OnItsWay(KevKey, Catalog)
    BY <1>1, <2>2, GivenNow DEF OnItsWay, Since, ClearedInv
  <2> HIDE DEF next
  <2>5. RunOK(next)
    BY <1>1, <1>3, <2>3, <2>4 DEF RunOK
  <2>6. QED
    BY <2>1, <2>3, <2>5 DEF RunGoes
<1>5. CASE StoreKev(r)
  <2>1. run.pc = "fetched" /\ Set(KevKey, run.got) /\ Goes(r, Assessing(run, run.got)) /\ Silent /\ Calm
    BY <1>5 DEF StoreKev
  <2>2. OnItsWay(KevKey, run.got) /\ run.got \in Nat
    BY <1>1, <2>1 DEF RunOK, RunRecords
  <2>3. Recent(KevKey, run.got) /\ (run.after => Since(KevKey, run.got))
    BY <1>1, <2>2, OnItsWayIsRecent DEF RunOK, OnItsWay
  <2>4. Assessing(run, run.got) \in RunRecords /\ RunOK(Assessing(run, run.got))
    BY <1>1, <1>3, <2>2, <2>3, AssessingOK
  <2>5. \E key \in Keys, number \in Nat : OnItsWay(key, number) /\ Set(key, number)
    BY <1>1, <2>1, <2>2
  <2>6. QED
    BY <2>1, <2>4, <2>5 DEF RunGoes
<1>6. CASE KevUnavailable(r)
  <2>1. Goes(r, Assessing(run, 0)) /\ UNCHANGED local /\ Silent /\ Trouble
    BY <1>6 DEF KevUnavailable
  <2>2. Assessing(run, 0) \in RunRecords /\ RunOK(Assessing(run, 0))
    BY <1>1, <1>3, AssessingOK
  <2>3. QED
    BY <2>1, <2>2 DEF RunGoes
<1>7. QED
  BY <1>4, <1>5, <1>6

\* A lookup goes on.
LEMMA LookupOK ==
  ASSUME CacheInv, NEW r \in Runs, NEW t \in Technologies, Ask(r, t) \/ Answered(r, t)
  PROVE  RunGoes(r)
<1> DEFINE run == runs[r]
<1>1. CacheTypeOK /\ EntryInv /\ ClearedInv /\ run \in RunRecords /\ RunOK(run)
  BY RunFacts
<1>2. PICK at \in {"asking", "answered"}, answer \in Nat :
        /\ LookupGoes(r, t, at, answer) /\ run.pc = "assess" /\ NeedsNvd(t, run.db)
        /\ at = "answered" => OnItsWay(Name(t), answer)
  <2>1. CASE Ask(r, t)
    BY <2>1 DEF Ask, Live, Is
  <2>2. CASE Answered(r, t)
    <3>1. run.pc = "assess" /\ run.lookups[t].at = "asking" /\ LookupGoes(r, t, "answered", Now(Name(t)))
      BY <2>2 DEF Answered, Is
    <3>2. NeedsNvd(t, run.db)
      BY <1>1, <3>1 DEF RunOK
    <3>3. Name(t) \in Names /\ Name(t) \in Keys /\ Name(t) # KevKey
      BY <3>2, TechnologyName
    <3>4. Now(Name(t)) = Present(Name(t)) /\ Present(Name(t)) \in Nat
      BY <1>1, <3>3, CacheFacts DEF Present
    <3>5. OnItsWay(Name(t), Now(Name(t)))
      BY <1>1, <3>3, <3>4, GivenNow DEF OnItsWay, Since, ClearedInv
    <3>6. QED
      BY <3>1, <3>2, <3>4, <3>5
  <2>3. QED
    BY <2>1, <2>2
<1> DEFINE lookup == [at |-> at, answer |-> answer]
           lookups == [run.lookups EXCEPT ![t] = lookup]
           next == [run EXCEPT !.lookups = lookups]
<1>3. Goes(r, next) /\ UNCHANGED local /\ Silent /\ Calm
  BY <1>2 DEF LookupGoes
<1>4. /\ lookups \in [Technologies -> Lookup] /\ lookups[t].at = at /\ lookups[t].answer = answer
      /\ \A s \in Technologies : s # t => lookups[s] = run.lookups[s]
  <2>1. run.lookups \in [Technologies -> Lookup]
    BY <1>1 DEF RunRecords
  <2>2. lookup \in Lookup /\ lookup.at = at /\ lookup.answer = answer
    BY DEF Lookup
  <2> HIDE DEF lookup
  <2>3. QED
    BY <2>1, <2>2
<1> HIDE DEF lookups
<1>5. /\ next \in RunRecords /\ next.pc = run.pc /\ next.lookups = lookups /\ next.kev = run.kev
      /\ next.after = run.after /\ next.db = run.db /\ next.got = run.got
  BY <1>1, <1>4 DEF RunRecords
<1> HIDE DEF next
<1>6. RunOK(next)
  <2>1. ASSUME NEW s \in Technologies
        PROVE  /\ next.lookups[s].at \in {"asking", "answered"} => next.pc = "assess" /\ NeedsNvd(s, next.db)
               /\ next.lookups[s].at = "answered" => OnItsWay(Name(s), next.lookups[s].answer)
    BY <1>1, <1>2, <1>4, <1>5 DEF RunOK
  <2>2. QED
    BY <1>1, <1>2, <1>5, <2>1 DEF RunOK
<1>7. QED
  BY <1>3, <1>5, <1>6 DEF RunGoes

\* An assessment is returned.
LEMMA ReturnsOK ==
  ASSUME CacheInv, NEW r \in Runs, NEW t \in Technologies, NEW status \in Statuses, NEW answer \in Nat,
         Returns(r, t, status, answer), runs[r].pc = "assess",
         NeedsNvd(t, runs[r].db) /\ status # "unknown" =>
           Recent(Name(t), answer) /\ (clearing.at = "done" => Since(Name(t), answer)),
         UNCHANGED local \/ \E key \in Keys, number \in Nat : OnItsWay(key, number) /\ Set(key, number),
         Calm \/ Trouble
  PROVE  RunGoes(r)
<1> DEFINE run == runs[r]
           lookups == [run.lookups EXCEPT ![t] = NoLookup]
           rest == [run EXCEPT !.lookups = lookups]
           next == IF \A s \in Technologies : lookups[s] = NoLookup THEN Off ELSE rest
           v == [tech |-> t, status |-> status, answer |-> answer, day |-> today, kev |-> run.kev,
                 db |-> run.db, after |-> run.after]
<1>1. Goes(r, next) /\ verdict' = <<v>>
  BY DEF Returns
<1>2. CacheTypeOK /\ run \in RunRecords /\ RunOK(run)
  BY RunFacts
<1>3. /\ lookups \in [Technologies -> Lookup] /\ lookups[t].at = "none"
      /\ \A s \in Technologies : s # t => lookups[s] = run.lookups[s]
  BY <1>2, OffFacts DEF RunRecords
<1>4. rest \in RunRecords /\ RunOK(rest)
  <2> HIDE DEF lookups
  <2>1. /\ rest \in RunRecords /\ rest.pc = run.pc /\ rest.lookups = lookups /\ rest.kev = run.kev
        /\ rest.after = run.after /\ rest.db = run.db /\ rest.got = run.got
    BY <1>2, <1>3 DEF RunRecords
  <2> HIDE DEF rest
  <2>2. ASSUME NEW s \in Technologies
        PROVE  /\ rest.lookups[s].at \in {"asking", "answered"} => rest.pc = "assess" /\ NeedsNvd(s, rest.db)
               /\ rest.lookups[s].at = "answered" => OnItsWay(Name(s), rest.lookups[s].answer)
    BY <1>2, <1>3, <2>1 DEF RunOK
  <2>3. QED
    BY <1>2, <2>1, <2>2 DEF RunOK
<1>5. next \in RunRecords /\ RunOK(next)
  BY <1>4, OffFacts
<1>6. v \in Assessments /\ VerdictOK(v)
  <2>1. today \in Nat /\ run.kev \in Nat /\ run.db \in BOOLEAN /\ run.after \in BOOLEAN
    BY <1>2, CacheFacts DEF RunRecords
  <2>2. v \in Assessments
    BY <2>1 DEF Assessments
  <2>3. run.after => clearing.at = "done"
    BY <1>2 DEF RunOK
  <2>4. run.kev # 0 => Recent(KevKey, run.kev) /\ (run.after => Since(KevKey, run.kev))
    BY <1>2 DEF RunOK
  <2>5. QED
    BY <2>2, <2>3, <2>4 DEF VerdictOK, IsLive
<1> HIDE DEF next, v
<1>7. QED
  BY <1>1, <1>5, <1>6 DEF RunGoes

LEMMA StatusType ==
  \A t, db, listed, found : Status(t, db, listed, found) \in Statuses
BY DEF Status, Classify, Statuses

LEMMA AssessOK ==
  ASSUME CacheInv, NEW r \in Runs, NEW t \in Technologies,
         AssessStored(r, t) \/ AssessCached(r, t) \/ AssessAnswered(r, t) \/ AssessFails(r, t)
  PROVE  RunGoes(r)
<1> DEFINE run == runs[r]
<1>1. /\ CacheTypeOK /\ EntryInv /\ ClearedInv /\ run \in RunRecords /\ RunOK(run)
      /\ \A s \in Technologies : run.lookups[s] \in Lookup
  BY RunFacts
<1>2. run.pc = "assess"
  BY DEF AssessStored, AssessCached, AssessAnswered, AssessFails, Live, Is
<1>3. \A answer : Concludes(r, t, answer) => \E status \in Statuses : Returns(r, t, status, answer)
  BY StatusType DEF Concludes
<1>4. CASE AssessStored(r, t)
  <2>1. Concludes(r, t, 0) /\ ~NeedsNvd(t, run.db) /\ UNCHANGED local /\ Calm
    BY <1>4 DEF AssessStored
  <2>2. QED
    BY <1>2, <1>3, <2>1, ReturnsOK
<1>5. CASE AssessCached(r, t)
  <2> DEFINE answer == local[Name(t)].answer
  <2>1. NeedsNvd(t, run.db) /\ Hit(Name(t)) /\ Concludes(r, t, answer) /\ UNCHANGED local /\ Calm
    BY <1>5 DEF AssessCached, Live
  <2>2. Name(t) \in Keys
    BY <2>1, TechnologyName
  <2>3. Recent(Name(t), answer) /\ answer \in Nat /\ (clearing.at = "done" => Since(Name(t), answer))
    BY <1>1, <2>1, <2>2, HitIsRecent
  <2> HIDE DEF answer
  <2>4. QED
    BY <1>2, <1>3, <2>1, <2>3, ReturnsOK
<1>6. CASE AssessAnswered(r, t)
  <2> DEFINE answer == run.lookups[t].answer
  <2>1. /\ run.lookups[t].at = "answered" /\ Set(Name(t), answer) /\ Concludes(r, t, answer) /\ Calm
    BY <1>6 DEF AssessAnswered, Is
  <2>2. NeedsNvd(t, run.db) /\ OnItsWay(Name(t), answer)
    BY <1>1, <2>1 DEF RunOK
  <2>3. Name(t) \in Keys /\ answer \in Nat
    BY <1>1, <2>2, TechnologyName DEF Lookup
  <2>4. Recent(Name(t), answer) /\ (clearing.at = "done" => Since(Name(t), answer))
    BY <1>1, <2>2, OnItsWayIsRecent DEF OnItsWay
  <2> HIDE DEF answer
  <2>5. \E key \in Keys, number \in Nat : OnItsWay(key, number) /\ Set(key, number)
    BY <2>1, <2>2, <2>3
  <2>6. QED
    BY <1>2, <1>3, <2>1, <2>3, <2>4, <2>5, ReturnsOK
<1>7. CASE AssessFails(r, t)
  <2>1. Returns(r, t, "unknown", 0) /\ UNCHANGED local /\ Trouble
    BY <1>7 DEF AssessFails
  <2>2. "unknown" \in Statuses
    BY DEF Statuses
  <2>3. QED
    BY <1>2, <2>1, <2>2, ReturnsOK
<1>8. QED
  BY <1>4, <1>5, <1>6, <1>7

--------------------------------------------------------------------------------
(* The options page, the worker and the world *)

\* A step that returns no assessment.
LEMMA SilentStep ==
  ASSUME Silent
  PROVE  verdict' \in Seq(Assessments) /\ Len(verdict') <= 1 /\ LiveVerdictsAreRecent' /\ ClearedStaysCleared'
<1>1. verdict' = <<>>
  BY DEF Silent
<1>2. <<>> \in Seq(Assessments) /\ Len(<<>>) = 0
  BY EmptySeq
<1>3. QED
  BY <1>1, <1>2 DEF LiveVerdictsAreRecent, ClearedStaysCleared

LEMMA ClickInv ==
  ASSUME CacheInv, Click
  PROVE  CacheInv'
<1> DEFINE present == [k \in Keys |-> IF k = KevKey THEN Catalog ELSE Now(k)]
           underway == {k \in Keys : Underway(k)}
<1>1. /\ clearing.at = "no" /\ clearing' = [at |-> "seen", keys |-> Seen]
      /\ cleared' = [present |-> present, underway |-> underway]
      /\ UNCHANGED <<today, replaced, published, local, runs, trouble>> /\ Silent
  BY DEF Click, world
<1>2. CacheTypeOK /\ EntryInv /\ KevKey \in Keys
  BY DEF CacheInv, Keys
<1>3. present \in [Keys -> Nat] /\ \A k \in Keys : present[k] = Present(k)
  <2>1. \A k \in Keys : (IF k = KevKey THEN Catalog ELSE Now(k)) = Present(k)
    BY DEF Present
  <2>2. QED
    BY <1>2, <2>1, CacheFacts
<1> HIDE DEF present
<1>4. CacheTypeOK'
  <2>1. clearing' \in [at : {"no", "seen", "done"}, keys : SUBSET Keys]
    BY <1>1 DEF Seen
  <2>2. cleared' \in [present : [Keys -> Nat], underway : SUBSET Keys]
    BY <1>1, <1>3
  <2>3. QED
    BY <1>1, <1>2, <2>1, <2>2, SilentStep DEF CacheTypeOK, WorldTypeOK
<1>5. EntryInv'
  <2>1. ASSUME NEW k \in Keys, local[k].answer # 0 PROVE local[k].day <= today /\ GivenOn(k, local[k].answer, local[k].day) /\ k \in Seen
    BY <1>2, <2>1 DEF EntryInv, Seen, Has
  <2>2. QED
    BY <1>1, <2>1 DEF EntryInv, GivenOn, AnsweredOn, PublishedOn, WasOn
<1>6. ClearedInv'
  <2>1. \A k \in Keys : Present(k) <= Present(k)
    BY <1>2, CacheFacts
  <2>2. QED
    BY <1>1, <1>3, <2>1 DEF ClearedInv, Present, Catalog, Now
<1>7. ASSUME NEW r \in Runs PROVE RunOK(runs[r])'
  <2> DEFINE run == runs[r]
  <2>1. run \in RunRecords /\ RunOK(run) /\ ~run.after
    BY <1>1, RunFacts DEF RunOK
  <2>2. run.pc = "fetched" => KevKey \in underway
    BY <1>2 DEF Underway
  <2>3. \A t \in Technologies : run.lookups[t].at = "answered" => Name(t) \in underway
    <3> SUFFICES ASSUME NEW t \in Technologies, run.lookups[t].at = "answered" PROVE Name(t) \in underway
      OBVIOUS
    <3>1. run.pc = "assess" /\ NeedsNvd(t, run.db)
      BY <2>1 DEF RunOK
    <3>2. Name(t) \in Keys
      BY <3>1, TechnologyName
    <3>3. QED
      BY <3>1, <3>2 DEF Underway, Is
  <2>4. \A k, number : k \in underway => Since(k, number)'
    BY <1>1 DEF Since
  <2> HIDE DEF underway
  <2>5. QED
    BY <1>1, <2>1, <2>2, <2>3, <2>4 DEF RunOK, OnItsWay, Recent, GivenOn, AnsweredOn, PublishedOn, WasOn
<1>8. QED
  BY <1>1, <1>4, <1>5, <1>6, <1>7, SilentStep DEF CacheInv

LEMMA RemoveInv ==
  ASSUME CacheInv, Remove
  PROVE  CacheInv'
<1>1. /\ clearing.at = "seen" /\ clearing' = [at |-> "done", keys |-> {}]
      /\ local' = [k \in Keys |-> IF k \in clearing.keys THEN None ELSE local[k]]
      /\ UNCHANGED <<today, replaced, published, runs, trouble, cleared>> /\ Silent
  BY DEF Remove, world
<1>2. CacheTypeOK /\ EntryInv /\ ClearedInv
  BY DEF CacheInv
<1>3. local' \in [Keys -> Entry]
  BY <1>1, <1>2 DEF CacheTypeOK, None, Entry
<1>4. CacheTypeOK'
  BY <1>1, <1>2, <1>3, SilentStep DEF CacheTypeOK, WorldTypeOK
<1>5. EntryInv'
  <2>1. ASSUME NEW k \in Keys, local'[k].answer # 0
        PROVE  /\ local'[k].day <= today /\ GivenOn(k, local'[k].answer, local'[k].day)
               /\ Since(k, local'[k].answer)
    <3>1. k \notin clearing.keys /\ local'[k] = local[k]
      BY <1>1, <2>1 DEF None
    <3>2. QED
      BY <1>1, <1>2, <2>1, <3>1 DEF EntryInv
  <2>2. QED
    BY <1>1, <2>1 DEF EntryInv, GivenOn, AnsweredOn, PublishedOn, WasOn, Since
<1>6. ClearedInv'
  BY <1>1, <1>2 DEF ClearedInv, Present, Catalog, Now
<1>7. \A r \in Runs : RunOK(runs[r])'
  <2>1. SameWorld /\ clearing'.at = "done"
    BY <1>1 DEF SameWorld
  <2>2. SUFFICES ASSUME NEW r \in Runs PROVE RunOK(runs[r])'
    OBVIOUS
  <2>3. PICK run : run = runs[r]
    OBVIOUS
  <2>4. RunOK(run)'
    BY <2>1, <2>3, SameWorldRun DEF CacheInv
  <2>5. QED
    BY <1>1, <2>3, <2>4 DEF RunOK
<1>8. QED
  BY <1>1, <1>4, <1>5, <1>6, <1>7, SilentStep DEF CacheInv

LEMMA WorkerStopsInv ==
  ASSUME CacheInv, WorkerStops
  PROVE  CacheInv'
<1>1. /\ runs' = [r \in Runs |-> Off] /\ UNCHANGED <<today, replaced, published, local, clearing, cleared>>
      /\ Silent /\ Trouble
  BY DEF WorkerStops, world
<1>2. CacheTypeOK /\ EntryInv /\ ClearedInv
  BY DEF CacheInv
<1>3. trouble' \in 0..MaxTrouble
  BY <1>1, <1>2, CacheFacts DEF Trouble, CacheTypeOK
<1>4. CacheTypeOK'
  BY <1>1, <1>2, <1>3, SilentStep, OffFacts DEF CacheTypeOK, WorldTypeOK
<1>5. EntryInv' /\ ClearedInv'
  BY <1>1, <1>2 DEF EntryInv, ClearedInv, GivenOn, AnsweredOn, PublishedOn, WasOn, Since, Present, Catalog, Now
<1>6. \A r \in Runs : RunOK(runs'[r])
  BY <1>1, OffFacts
<1>7. \A r \in Runs : RunOK(runs[r])'
  BY <1>1, <1>6 DEF RunOK, OnItsWay, Recent, GivenOn, AnsweredOn, PublishedOn, WasOn, Since
<1>8. QED
  BY <1>1, <1>4, <1>5, <1>7, SilentStep DEF CacheInv

LEMMA SeqGrows ==
  ASSUME NEW m \in Nat, NEW n \in Nat, m <= n, NEW s \in Seq(0..m)
  PROVE  s \in Seq(0..n)
<1>1. 0..m \subseteq 0..n
  OBVIOUS
<1>2. QED
  BY <1>1, SeqMonotonic

LEMMA WorldTypeNext ==
  ASSUME CacheTypeOK, World
  PROVE  WorldTypeOK' /\ today <= today' /\ today' \in Nat /\ \A k \in Keys : Present(k) <= Present(k)'
<1>1. /\ today \in Nat /\ today <= MaxDays /\ MaxDays \in Nat /\ today \in 0..today /\ WorldTypeOK
      /\ replaced \in [Names -> Seq(0..today)] /\ published \in Seq(0..today)
      /\ Len(published) \in Nat /\ \A n \in Names : Len(replaced[n]) \in Nat
  BY SourcesAssumption, LenProperties DEF CacheTypeOK, WorldTypeOK
<1>2. CASE DayPasses
  <2>1. today' \in 0..MaxDays /\ today' \in Nat /\ today <= today' /\ UNCHANGED <<replaced, published>>
    BY <1>1, <1>2 DEF DayPasses
  <2>2. published' \in Seq(0..today')
    BY <1>1, <2>1, SeqGrows
  <2>3. replaced' \in [Names -> Seq(0..today')]
    <3>1. \A n \in Names : replaced[n] \in Seq(0..today')
      BY <1>1, <2>1, SeqGrows
    <3>2. QED
      BY <1>1, <2>1, <3>1
  <2>4. \A k \in Keys : Present(k) <= Present(k)'
    BY <2>1, CacheFacts DEF Present, Catalog, Now
  <2>5. QED
    BY <1>1, <2>1, <2>2, <2>3, <2>4 DEF WorldTypeOK
<1>3. ASSUME NEW n \in Names, NvdChanges(n)
      PROVE  WorldTypeOK' /\ today <= today' /\ today' \in Nat /\ \A k \in Keys : Present(k) <= Present(k)'
  <2>1. /\ UNCHANGED <<today, published>> /\ replaced' = [replaced EXCEPT ![n] = Append(replaced[n], today)]
        /\ Len(replaced[n]) + 1 < Len(Answers[n])
    BY <1>3 DEF NvdChanges, Now
  <2>2. Append(replaced[n], today) \in Seq(0..today) /\ Len(Append(replaced[n], today)) = Len(replaced[n]) + 1
    BY <1>1, AppendProperties
  <2>3. replaced' \in [Names -> Seq(0..today')]
    BY <1>1, <2>1, <2>2
  <2>4. \A k \in Names : Len(replaced'[k]) < Len(Answers[k])
    BY <1>1, <2>1, <2>2 DEF WorldTypeOK
  <2>5. \A k \in Names : Len(replaced[k]) + 1 <= Len(replaced'[k]) + 1
    BY <1>1, <2>1, <2>2
  <2>6. \A k \in Keys : Present(k) <= Present(k)'
    BY <1>1, <2>1, <2>5, CacheFacts DEF Present, Catalog, Now, Keys
  <2>7. QED
    BY <1>1, <2>1, <2>3, <2>4, <2>6 DEF WorldTypeOK
<1>4. CASE KevPublished
  <2>1. /\ UNCHANGED <<today, replaced>> /\ published' = Append(published, today)
        /\ Len(published) + 1 < Len(Catalogs)
    BY <1>4 DEF KevPublished, Catalog
  <2>2. published' \in Seq(0..today') /\ Len(published') = Len(published) + 1
    BY <1>1, <2>1, AppendProperties
  <2>3. \A k \in Keys : Present(k) <= Present(k)'
    BY <1>1, <2>1, <2>2 DEF Present, Catalog, Now, Keys
  <2>4. QED
    BY <1>1, <2>1, <2>2, <2>3 DEF WorldTypeOK
<1>5. QED
  BY <1>2, <1>3, <1>4 DEF World

LEMMA PresentType == CacheTypeOK => \A k \in Keys : Present(k) \in Nat
BY CacheFacts

LEMMA WorldInv ==
  ASSUME CacheInv, WorldMoves
  PROVE  CacheInv'
<1>1. World /\ UNCHANGED <<local, runs, clearing, trouble, cleared>> /\ Silent /\ (today' = today \/ \A r \in Runs : runs[r] = Off)
  BY DEF WorldMoves
<1>2. CacheTypeOK /\ EntryInv /\ ClearedInv /\ KevKey \in Keys
  BY DEF CacheInv, Keys
<1>3. /\ WorldTypeOK' /\ today <= today' /\ today' \in Nat /\ today \in Nat /\ Ttl \in Nat
      /\ \A k \in Keys : Present(k) <= Present(k)' /\ Present(k) \in Nat
  BY <1>1, <1>2, WorldTypeNext, CacheFacts
<1>4. CacheTypeOK'
  BY <1>1, <1>2, <1>3, SilentStep DEF CacheTypeOK
<1>5. EntryInv'
  <2>1. ASSUME NEW k \in Keys, local[k].answer # 0
        PROVE  local[k].day <= today' /\ GivenOn(k, local[k].answer, local[k].day)'
    <3> DEFINE answer == local[k].answer
               day == local[k].day
    <3>1. answer \in Nat /\ day \in Nat
      BY <1>2 DEF CacheTypeOK, Entry
    <3>2. day <= today /\ GivenOn(k, answer, day)
      BY <1>2, <2>1 DEF EntryInv
    <3>3. UNCHANGED <<answer, day>> /\ day \in Int
      BY <1>1, <3>1
    <3> HIDE DEF answer, day
    <3>4. \A n \in Nat, d \in Int : d <= today /\ GivenOn(k, n, d) => GivenOn(k, n, d)'
      BY <1>1, <1>2, GivenGrows
    <3>5. day <= today'
      BY <1>3, <3>1, <3>2
    <3>6. \A n \in Nat, d \in Int : n = answer /\ d = day => GivenOn(k, n, d)'
      BY <3>2, <3>4
    <3>7. QED
      BY <1>1, <3>1, <3>3, <3>5, <3>6 DEF answer, day, GivenOn, AnsweredOn, PublishedOn, WasOn
  <2>2. QED
    BY <1>1, <1>2, <2>1 DEF EntryInv, Since
<1>6. ClearedInv'
  <2>1. (\A k \in Keys : Present(k) \in Nat)'
    BY <1>4, PresentType, PTL
  <2>2. \A k \in Keys : cleared.present[k] \in Nat
    BY <1>2 DEF CacheTypeOK
  <2>3. QED
    BY <1>1, <1>2, <1>3, <2>1, <2>2 DEF ClearedInv
<1>7. ASSUME NEW r \in Runs PROVE RunOK(runs[r])'
  <2>1. CASE runs[r] = Off
    BY <1>1, <2>1, OffFacts DEF RunOK, NoLookup
  <2>2. CASE runs[r] # Off
    <3> DEFINE run == runs[r]
    <3>1. today' = today /\ run \in RunRecords /\ RunOK(run) /\ \A t \in Technologies : run.lookups[t] \in Lookup
      BY <1>1, <2>2, RunFacts
    <3>2. \A k \in Keys, n \in Nat, d \in Int : d <= today /\ GivenOn(k, n, d) => GivenOn(k, n, d)'
      BY <1>1, <1>2, GivenGrows
    <3>3. \A k \in Keys, n \in Nat : Recent(k, n) => Recent(k, n)'
      <4> SUFFICES ASSUME NEW k \in Keys, NEW n \in Nat, Recent(k, n) PROVE Recent(k, n)'
        OBVIOUS
      <4>1. PICK day \in (today - Ttl)..today : GivenOn(k, n, day)
        BY DEF Recent
      <4>2. day \in Int /\ day <= today
        BY <1>3
      <4>3. GivenOn(k, n, day)'
        BY <3>2, <4>1, <4>2
      <4>4. QED
        BY <3>1, <4>1, <4>3 DEF Recent
    <3>4. \A k \in Keys, n \in Nat : OnItsWay(k, n) => OnItsWay(k, n)'
      BY <1>1, <1>3, <3>1, <3>2 DEF OnItsWay, Since
    <3>5. run.kev \in Nat /\ run.got \in Nat /\ \A t \in Technologies : run.lookups[t].answer \in Nat
      BY <3>1 DEF RunRecords, Lookup
    <3>6. run.pc = "fetched" => OnItsWay(KevKey, run.got)'
      BY <1>1, <1>2, <3>1, <3>4, <3>5 DEF RunOK
    <3>7. run.kev # 0 => Recent(KevKey, run.kev)' /\ (run.after => Since(KevKey, run.kev)')
      BY <1>1, <1>2, <3>1, <3>3, <3>5 DEF RunOK, Since
    <3>8. \A t \in Technologies : run.lookups[t].at = "answered" => OnItsWay(Name(t), run.lookups[t].answer)'
      BY <1>1, <3>1, <3>4, <3>5, TechnologyName DEF RunOK
    <3>9. QED
      BY <1>1, <3>1, <3>6, <3>7, <3>8 DEF RunOK, OnItsWay, Recent, Since, GivenOn, AnsweredOn, PublishedOn, WasOn
  <2>3. QED
    BY <2>1, <2>2
<1>8. QED
  BY <1>1, <1>4, <1>5, <1>6, <1>7, SilentStep DEF CacheInv

LEMMA CacheInitInv == CacheInit => CacheInv
<1> SUFFICES ASSUME CacheInit PROVE CacheInv
  OBVIOUS
<1>1. WorldTypeOK
  <2>1. /\ today = 0 /\ replaced = [n \in Names |-> <<>>] /\ published = <<>>
        /\ \A n \in Names : Answers[n] \in Seq(SUBSET Records) \ {<<>>}
        /\ Catalogs \in Seq(SUBSET Records) \ {<<>>} /\ MaxDays \in Nat
    BY SourcesAssumption DEF CacheInit, WorldInit
  <2>2. <<>> \in Seq(0..0) /\ Len(<<>>) = 0
    BY EmptySeq
  <2>3. \A s \in Seq(SUBSET Records) \ {<<>>} : 0 < Len(s)
    BY EmptySeq, LenProperties
  <2>4. QED
    BY <2>1, <2>2, <2>3 DEF WorldTypeOK
<1>2. local = [k \in Keys |-> None] /\ runs = [r \in Runs |-> Off] /\ verdict = <<>> /\ trouble = 0
  BY DEF CacheInit
<1>3. clearing = [at |-> "no", keys |-> {}] /\ cleared = [present |-> [k \in Keys |-> 0], underway |-> {}]
  BY DEF CacheInit
<1>4. None \in Entry /\ None.answer = 0
  BY DEF None, Entry
<1>5. CacheTypeOK
  <2>1. local \in [Keys -> Entry] /\ runs \in [Runs -> RunRecords]
    BY <1>2, <1>4, OffFacts
  <2>2. verdict \in Seq(Assessments) /\ Len(verdict) <= 1
    BY <1>2, EmptySeq
  <2>3. clearing \in [at : {"no", "seen", "done"}, keys : SUBSET Keys]
    BY <1>3
  <2>4. cleared \in [present : [Keys -> Nat], underway : SUBSET Keys]
    <3>1. [k \in Keys |-> 0] \in [Keys -> Nat]
      OBVIOUS
    <3>2. QED
      BY <1>3, <3>1
  <2>5. trouble \in 0..MaxTrouble
    BY <1>2, AssessmentCacheAssumption
  <2>6. QED
    BY <1>1, <2>1, <2>2, <2>3, <2>4, <2>5 DEF CacheTypeOK
<1>6. EntryInv
  BY <1>2, <1>4 DEF EntryInv
<1>7. ClearedInv
  <2>1. \A k \in Keys : cleared.present[k] = 0 /\ Present(k) \in Nat
    BY <1>3, <1>5, CacheFacts
  <2>2. QED
    BY <1>3, <2>1 DEF ClearedInv
<1>8. \A r \in Runs : RunOK(runs[r])
  BY <1>2, OffFacts
<1>9. LiveVerdictsAreRecent /\ ClearedStaysCleared
  BY <1>2 DEF LiveVerdictsAreRecent, ClearedStaysCleared
<1>10. QED
  BY <1>5, <1>6, <1>7, <1>8, <1>9 DEF CacheInv

LEMMA CacheStep == CacheInv /\ [CacheNext]_cacheVars => CacheInv'
<1> SUFFICES ASSUME CacheInv, [CacheNext]_cacheVars PROVE CacheInv'
  OBVIOUS
<1>1. ASSUME NEW r \in Runs, RunSteps(r) PROVE CacheInv'
  <2>1. RunGoes(r)
    BY <1>1, ReadKevOK, KevOK, LookupOK, AssessOK DEF RunSteps
  <2>2. QED
    BY <2>1, RunStepInv
<1>2. CASE Click
  BY <1>2, ClickInv
<1>3. CASE Remove
  BY <1>3, RemoveInv
<1>4. CASE WorkerStops
  BY <1>4, WorkerStopsInv
<1>5. CASE WorldMoves
  BY <1>5, WorldInv
<1>6. CASE UNCHANGED cacheVars
  <2>1. UNCHANGED <<today, replaced, published, local, runs, verdict, clearing, trouble, cleared>>
    BY <1>6 DEF cacheVars, world
  <2>2. UNCHANGED <<CacheTypeOK, EntryInv, ClearedInv, LiveVerdictsAreRecent, ClearedStaysCleared>>
    <3>1. UNCHANGED CacheTypeOK
      BY <2>1 DEF CacheTypeOK, WorldTypeOK
    <3>2. UNCHANGED EntryInv
      BY <2>1 DEF EntryInv, GivenOn, Since, AnsweredOn, PublishedOn, WasOn
    <3>3. UNCHANGED ClearedInv
      BY <2>1 DEF ClearedInv, Present, Now, Catalog
    <3>4. UNCHANGED LiveVerdictsAreRecent
      BY <2>1 DEF LiveVerdictsAreRecent, AnsweredOn, PublishedOn, WasOn
    <3>5. UNCHANGED ClearedStaysCleared
      BY <2>1 DEF ClearedStaysCleared
    <3>6. QED
      BY <3>1, <3>2, <3>3, <3>4, <3>5
  <2>3. ASSUME NEW r \in Runs PROVE RunOK(runs[r])'
    <3>1. RunOK(runs[r])
      BY DEF CacheInv
    <3>2. QED
      BY <2>1, <3>1 DEF RunOK, OnItsWay, Recent, Since, GivenOn, AnsweredOn, PublishedOn, WasOn
  <2>4. QED
    BY <2>2, <2>3 DEF CacheInv
<1>7. QED
  BY <1>1, <1>2, <1>3, <1>4, <1>5, <1>6 DEF CacheNext

\* A verdict that needs a live lookup rests on what NVD answered within the last Ttl days,
\* and on a catalog as recent, whichever tabs looked up what in between (Cache, assess,
\* loadKev).
THEOREM LiveVerdictsCorrect == CacheSpec => []LiveVerdictsAreRecent
<1>1. CacheInv => LiveVerdictsAreRecent
  BY DEF CacheInv
<1>2. QED
  BY <1>1, CacheInitInv, CacheStep, PTL DEF CacheSpec

\* After the cache was cleared no verdict rests on what was stored before the click, however
\* the lookups under way interleave with the two steps of clearing (options.ts).
THEOREM ClearedCorrect == CacheSpec => []ClearedStaysCleared
<1>1. CacheInv => ClearedStaysCleared
  BY DEF CacheInv
<1>2. QED
  BY <1>1, CacheInitInv, CacheStep, PTL DEF CacheSpec

--------------------------------------------------------------------------------
(* The steps of the settings *)

LEMMA SettingsFacts ==
  ASSUME SettingsInv, NEW p \in Pages
  PROVE  /\ settings \in SettingsRecords /\ pages \in [Pages -> PageRecords] /\ saved \in 0..MaxSaves
         /\ MaxSaves \in Nat
         /\ pages[p] \in PageRecords /\ PageOK(p, pages[p])
         /\ pages[p].open \in BOOLEAN /\ pages[p].loaded \in BOOLEAN /\ pages[p].behind \in BOOLEAN
         /\ pages[p].shown \in SettingsRecords /\ pages[p].saves \in Seq(Saves)
         /\ pages[p].chosen \in SUBSET AllFields
<1>1. /\ settings \in SettingsRecords /\ pages \in [Pages -> PageRecords] /\ saved \in 0..MaxSaves
      /\ MaxSaves \in Nat /\ pages[p] \in PageRecords /\ PageOK(p, pages[p])
  BY SettingsAssumption DEF SettingsInv, SettingsTypeOK
<1>2. QED
  BY <1>1 DEF PageRecords

\* Only page p has changed, and is as it should be.
LEMMA BecomesInv ==
  ASSUME SettingsInv, NEW p \in Pages, NEW page \in PageRecords, PageOK(p, page),
         Becomes(p, page), UNCHANGED settings, saved' \in 0..MaxSaves
  PROVE  SettingsInv'
<1>1. /\ settings \in SettingsRecords /\ pages \in [Pages -> PageRecords]
      /\ \A q \in Pages : PageOK(q, pages[q])
  BY DEF SettingsInv, SettingsTypeOK
<1>2. pages' = [pages EXCEPT ![p] = page]
  BY DEF Becomes
<1>3. SettingsTypeOK'
  BY <1>1, <1>2 DEF SettingsTypeOK
<1>4. \A q \in Pages : PageOK(q, pages[q])'
  <2>1. \A q \in Pages : PageOK(q, pages'[q])
    BY <1>1, <1>2
  <2>2. QED
    BY <2>1 DEF PageOK, SaveOK, FormOK
<1>5. QED
  BY <1>3, <1>4 DEF SettingsInv

LEMMA DefaultsType == Defaults \in SettingsRecords
<1>1. 0 \in Themes /\ Empty \in Values /\ "theme" \notin Fields
  BY SettingsAssumption DEF Themes
<1>2. QED
  BY <1>1 DEF Defaults, SettingsRecords, AllFields

LEMMA ClosedFacts ==
  /\ Closed \in PageRecords /\ Closed.saves = <<>> /\ Closed.behind
  /\ \A p : PageOK(p, Closed)
<1>1. <<>> \in Seq(Saves) /\ DOMAIN <<>> = {}
  BY EmptySeq
<1>2. Closed \in PageRecords /\ Closed.saves = <<>> /\ Closed.behind
  BY <1>1, DefaultsType DEF Closed, PageRecords
<1>3. \A p : PageOK(p, Closed)
  BY <1>1, <1>2 DEF PageOK, FormOK
<1>4. QED
  BY <1>2, <1>3

LEMMA SettingsInitInv == SettingsInit => SettingsInv
<1> SUFFICES ASSUME SettingsInit PROVE SettingsInv
  OBVIOUS
<1>1. settings = Defaults /\ pages = [p \in Pages |-> Closed] /\ saved = 0 /\ 0 \in 0..MaxSaves
  BY SettingsAssumption DEF SettingsInit
<1>2. QED
  BY <1>1, ClosedFacts, DefaultsType DEF SettingsInv, SettingsTypeOK

LEMMA OpenInv ==
  ASSUME SettingsInv, NEW p \in Pages, Open(p) \/ Close(p)
  PROVE  SettingsInv'
<1> DEFINE opened == [Closed EXCEPT !.open = TRUE]
<1>1. saved \in 0..MaxSaves /\ UNCHANGED <<settings, saved>> /\ (Becomes(p, opened) \/ Becomes(p, Closed))
  BY SettingsFacts DEF Open, Close
<1>2. opened \in PageRecords /\ opened.saves = <<>> /\ opened.behind
  BY ClosedFacts DEF PageRecords
<1> HIDE DEF opened
<1>3. PageOK(p, opened)
  BY <1>2, EmptySeq DEF PageOK, FormOK
<1>4. QED
  BY <1>1, <1>2, <1>3, BecomesInv, ClosedFacts

LEMMA LoadedInv ==
  ASSUME SettingsInv, NEW p \in Pages, Loaded(p)
  PROVE  SettingsInv'
<1> DEFINE page == pages[p]
           behind == page.saves # <<>>
           next == [page EXCEPT !.loaded = TRUE, !.shown = settings, !.chosen = {}, !.behind = behind]
<1>1. /\ settings \in SettingsRecords /\ page \in PageRecords /\ PageOK(p, page) /\ saved \in 0..MaxSaves
  BY SettingsFacts
<1>2. Becomes(p, next) /\ UNCHANGED <<settings, saved>>
  BY DEF Loaded
<1>3. behind \in BOOLEAN
  OBVIOUS
<1>4. /\ next \in PageRecords /\ next.saves = page.saves /\ next.shown = settings /\ next.chosen = {}
      /\ next.behind = behind
  BY <1>1, <1>3 DEF PageRecords
<1> HIDE DEF next
<1>5. FormOK(next)
  <2>1. CASE next.behind
    BY <2>1 DEF FormOK
  <2>2. CASE ~next.behind
    <3>1. next.saves = <<>>
      BY <1>4, <2>2
    <3>2. DOMAIN next.saves = {}
      BY <3>1
    <3>3. QED
      BY <1>4, <3>2 DEF FormOK
  <2>3. QED
    BY <2>1, <2>2
<1>6. PageOK(p, next)
  BY <1>1, <1>4, <1>5 DEF PageOK
<1>7. QED
  BY <1>1, <1>2, <1>4, <1>6, BecomesInv

LEMMA EnterInv ==
  ASSUME SettingsInv, NEW p \in Pages, NEW field \in AllFields, NEW value \in Values \cup Themes,
         IF field = "theme" THEN value \in Themes ELSE value \in Values, Enter(p, field, value)
  PROVE  SettingsInv'
<1> DEFINE page == pages[p]
           form == [page.shown EXCEPT ![field] = value]
           chosen == page.chosen \cup {field}
           next == [page EXCEPT !.shown = form, !.chosen = chosen]
<1>1. /\ page \in PageRecords /\ PageOK(p, page) /\ saved \in 0..MaxSaves
      /\ page.shown \in SettingsRecords /\ page.chosen \in SUBSET AllFields
  BY SettingsFacts
<1>2. Becomes(p, next) /\ UNCHANGED <<settings, saved>> /\ p \in Forms
  BY DEF Enter
<1>3. form \in SettingsRecords /\ chosen \in SUBSET AllFields /\ \A f \in AllFields : f # field => form[f] = page.shown[f]
  BY <1>1, SettingsAssumption DEF SettingsRecords, AllFields
<1> HIDE DEF form
<1>4. /\ next \in PageRecords /\ next.saves = page.saves /\ next.shown = form /\ next.chosen = chosen
      /\ next.behind = page.behind
  BY <1>1, <1>3 DEF PageRecords
<1> HIDE DEF next
<1>5. FormOK(next)
  <2>1. FormOK(page)
    BY <1>1, <1>2 DEF PageOK
  <2>2. QED
    BY <1>3, <1>4, <2>1 DEF FormOK
<1>6. PageOK(p, next)
  BY <1>1, <1>4, <1>5 DEF PageOK
<1>7. QED
  BY <1>1, <1>2, <1>4, <1>6, BecomesInv

\* A save that is as it should be begins on a page that is, and saves what a form shows.
LEMMA SaveInv ==
  ASSUME SettingsInv, NEW p \in Pages, NEW page \in PageRecords, PageOK(p, page),
         NEW save \in Saves, SaveOK(p, save), save.patch = page.shown \/ p \notin Forms,
         NEW next, next = [page EXCEPT !.saves = Append(page.saves, save)],
         Becomes(p, next), UNCHANGED settings, saved < MaxSaves, saved' = saved + 1
  PROVE  SettingsInv'
<1> DEFINE saves == Append(page.saves, save)
<1>1. page.saves \in Seq(Saves) /\ saved \in 0..MaxSaves /\ MaxSaves \in Nat
  BY SettingsFacts DEF PageRecords
<1>2. /\ saves \in Seq(Saves) /\ Len(page.saves) \in Nat /\ Len(saves) = Len(page.saves) + 1
      /\ DOMAIN saves = 1..(Len(page.saves) + 1) /\ DOMAIN page.saves = 1..Len(page.saves)
      /\ \A i \in DOMAIN page.saves : saves[i] = page.saves[i]
      /\ saves[Len(page.saves) + 1] = save
  BY <1>1, AppendProperties, LenProperties
<1>3. \A i \in DOMAIN saves : saves[i] = save \/ (i \in DOMAIN page.saves /\ saves[i] = page.saves[i])
  BY <1>2
<1> HIDE DEF saves
<1>4. /\ next \in PageRecords /\ next.saves = saves /\ next.shown = page.shown /\ next.chosen = page.chosen
      /\ next.behind = page.behind
  BY <1>2 DEF PageRecords, saves
<1>5. p \in Forms => FormOK(next)
  BY <1>3, <1>4 DEF FormOK, PageOK
<1>6. PageOK(p, next)
  BY <1>3, <1>4, <1>5 DEF PageOK
<1>7. saved' \in 0..MaxSaves
  BY <1>1
<1>8. QED
  BY <1>4, <1>6, <1>7, BecomesInv

LEMMA SubmitInv ==
  ASSUME SettingsInv, NEW p \in Pages, Submit(p)
  PROVE  SettingsInv'
<1> DEFINE page == pages[p]
           save == [patch |-> page.shown, read |-> <<>>, chosen |-> page.chosen, behind |-> page.behind]
           next == [page EXCEPT !.saves = Append(page.saves, save)]
<1>1. /\ page \in PageRecords /\ PageOK(p, page) /\ page.shown \in SettingsRecords
      /\ page.chosen \in SUBSET AllFields /\ page.behind \in BOOLEAN
  BY SettingsFacts
<1>2. p \in Forms /\ Becomes(p, next) /\ UNCHANGED settings /\ saved < MaxSaves /\ saved' = saved + 1
  BY DEF Submit, Save
<1>3. <<>> \in Seq(SettingsRecords) /\ Len(<<>>) = 0
  BY EmptySeq
<1>4. page.shown \in [AllFields -> Values \cup Themes] /\ DOMAIN page.shown = AllFields
  BY <1>1 DEF SettingsRecords
<1>5. page.shown \in UNION {[fields -> Values \cup Themes] : fields \in SUBSET AllFields}
  BY <1>4
<1>6. save \in Saves
  BY <1>1, <1>3, <1>5 DEF Saves
<1>7. p \notin Popups
  BY <1>2, SettingsAssumption
<1>8. SaveOK(p, save)
  <2>1. /\ save.patch = page.shown /\ save.read = <<>> /\ save.chosen = page.chosen /\ save.behind = page.behind
    OBVIOUS
  <2> HIDE DEF save
  <2>2. QED
    BY <1>1, <1>2, <1>3, <1>4, <1>7, <2>1 DEF SaveOK, PageOK, FormOK
<1>9. save.patch = page.shown
  OBVIOUS
<1> HIDE DEF save
<1>10. QED
  BY <1>1, <1>2, <1>6, <1>8, <1>9, SaveInv

LEMMA ClickThemeInv ==
  ASSUME SettingsInv, NEW p \in Pages, ClickTheme(p)
  PROVE  SettingsInv'
<1> DEFINE old == pages[p]
           theme == NextTheme(old.shown["theme"])
           form == [old.shown EXCEPT !["theme"] = theme]
           page == [old EXCEPT !.shown = form]
           patch == [f \in {"theme"} |-> theme]
           save == [patch |-> patch, read |-> <<>>, chosen |-> {"theme"}, behind |-> FALSE]
           next == [page EXCEPT !.saves = Append(page.saves, save)]
<1>1. /\ old \in PageRecords /\ PageOK(p, old) /\ old.shown \in SettingsRecords
  BY SettingsFacts
<1>2. p \in Popups /\ Becomes(p, next) /\ UNCHANGED settings /\ saved < MaxSaves /\ saved' = saved + 1
  BY DEF ClickTheme, Save
<1>3. p \notin Forms
  BY <1>2, SettingsAssumption
<1>4. theme \in Themes
  BY <1>1 DEF SettingsRecords, NextTheme, Themes
<1> HIDE DEF theme
<1>5. form \in SettingsRecords
  BY <1>1, <1>4, SettingsAssumption DEF SettingsRecords, AllFields
<1> HIDE DEF form
<1>6. page \in PageRecords /\ page.saves = old.saves
  BY <1>1, <1>5 DEF PageRecords
<1> HIDE DEF page
<1>7. PageOK(p, page)
  BY <1>1, <1>3, <1>6 DEF PageOK
<1>8. patch \in [{"theme"} -> Themes]
  BY <1>4
<1>9. /\ save.patch = patch /\ save.read = <<>> /\ save.chosen = {"theme"} /\ save.behind = FALSE
  OBVIOUS
<1>10. patch \in UNION {[fields -> Values \cup Themes] : fields \in SUBSET AllFields}
  <2>1. patch \in [{"theme"} -> Values \cup Themes] /\ {"theme"} \in SUBSET AllFields
    BY <1>4 DEF AllFields
  <2> HIDE DEF patch
  <2>2. QED
    BY <2>1
<1>11. DOMAIN patch = {"theme"}
  OBVIOUS
<1> HIDE DEF patch
<1>12. <<>> \in Seq(SettingsRecords) /\ Len(<<>>) = 0
  BY EmptySeq
<1>13. save \in Saves
  BY <1>10, <1>12 DEF Saves, AllFields
<1> HIDE DEF save
<1>14. SaveOK(p, save)
  BY <1>3, <1>8, <1>9, <1>11, <1>12 DEF SaveOK
<1>15. QED
  BY <1>2, <1>3, <1>6, <1>7, <1>13, <1>14, SaveInv

LEMMA ReadSettingsInv ==
  ASSUME SettingsInv, NEW p \in Pages, NEW i \in 1..MaxSaves, ReadSettings(p, i)
  PROVE  SettingsInv'
<1> DEFINE page == pages[p]
           save == page.saves[i]
           new == [save EXCEPT !.read = <<settings>>]
           saves == [page.saves EXCEPT ![i] = new]
           next == [page EXCEPT !.saves = saves]
<1>1. /\ page \in PageRecords /\ PageOK(p, page) /\ page.saves \in Seq(Saves) /\ saved \in 0..MaxSaves
      /\ settings \in SettingsRecords
  BY SettingsFacts
<1>2. i \in DOMAIN page.saves /\ Becomes(p, next) /\ UNCHANGED <<settings, saved>>
  BY DEF ReadSettings
<1>3. save \in Saves /\ SaveOK(p, save)
  BY <1>1, <1>2, ElementOfSeq, LenProperties DEF PageOK
<1>4. <<settings>> \in Seq(SettingsRecords) /\ Len(<<settings>>) = 1 /\ <<settings>>[1] = settings
  BY <1>1
<1>5. /\ new \in Saves /\ new.read = <<settings>> /\ new.patch = save.patch /\ new.chosen = save.chosen
      /\ new.behind = save.behind
  BY <1>3, <1>4 DEF Saves
<1> HIDE DEF new
<1>6. SaveOK(p, new)
  BY <1>3, <1>4, <1>5 DEF SaveOK
<1>7. saves \in Seq(Saves) /\ DOMAIN saves = DOMAIN page.saves /\ saves[i] = new
      /\ \A j \in DOMAIN page.saves : j # i => saves[j] = page.saves[j]
  BY <1>1, <1>2, <1>5, ExceptSeq, LenProperties
<1> HIDE DEF saves
<1>8. /\ next \in PageRecords /\ next.saves = saves /\ next.shown = page.shown /\ next.chosen = page.chosen
      /\ next.behind = page.behind
  BY <1>1, <1>7 DEF PageRecords
<1> HIDE DEF next
<1>9. p \in Forms => FormOK(next)
  BY <1>1, <1>2, <1>5, <1>7, <1>8 DEF FormOK, PageOK
<1>10. PageOK(p, next)
  BY <1>1, <1>6, <1>7, <1>8, <1>9 DEF PageOK
<1>11. QED
  BY <1>1, <1>2, <1>8, <1>10, BecomesInv

\* What the first save of a page writes.
LEMMA WrittenFacts ==
  ASSUME SettingsInv, NEW p \in Pages, Write(p)
  PROVE  LET save == Head(pages[p].saves)
             rest == Tail(pages[p].saves)
         IN /\ pages[p].saves # <<>> /\ save = pages[p].saves[1] /\ 1 \in DOMAIN pages[p].saves
            /\ rest \in Seq(Saves) /\ Len(pages[p].saves) \in Nat /\ Len(rest) = Len(pages[p].saves) - 1
            /\ \A i \in DOMAIN rest : i + 1 \in DOMAIN pages[p].saves /\ rest[i] = pages[p].saves[i + 1]
            /\ save \in Saves /\ SaveOK(p, save) /\ save.read[1] \in SettingsRecords
            /\ settings' = Merged(save.patch, save.read[1]) /\ settings' \in SettingsRecords
<1> DEFINE saves == pages[p].saves
           save == Head(saves)
           rest == Tail(saves)
<1>1. /\ saves \in Seq(Saves) /\ PageOK(p, pages[p]) /\ settings \in SettingsRecords
  BY SettingsFacts
<1>2. saves # <<>> /\ save.read # <<>> /\ settings' = Merged(save.patch, save.read[1])
  BY DEF Write
<1>3. Len(saves) \in Nat /\ Len(saves) # 0
  BY <1>1, <1>2, EmptySeq, LenProperties
<1>4. /\ save = saves[1] /\ save \in Saves /\ rest \in Seq(Saves) /\ Len(rest) = Len(saves) - 1
      /\ \A i \in 1..Len(rest) : rest[i] = saves[i + 1]
  BY <1>1, <1>2, HeadTailProperties
<1>5. DOMAIN saves = 1..Len(saves) /\ DOMAIN rest = 1..Len(rest)
  BY <1>1, <1>4, LenProperties
<1>6. /\ 1 \in DOMAIN saves
      /\ \A i \in DOMAIN rest : i + 1 \in DOMAIN saves /\ rest[i] = saves[i + 1]
  BY <1>3, <1>4, <1>5
<1> HIDE DEF save, rest
<1>7. SaveOK(p, save)
  BY <1>1, <1>4, <1>6 DEF PageOK
<1>8. save.read[1] \in SettingsRecords
  <2>1. save.read \in Seq(SettingsRecords)
    BY <1>4 DEF Saves
  <2>2. Len(save.read) \in Nat /\ Len(save.read) # 0
    BY <1>2, <2>1, EmptySeq, LenProperties
  <2>3. QED
    BY <2>1, <2>2, ElementOfSeq
<1>9. settings' \in SettingsRecords
  <2>1. p \in Forms \/ p \in Popups
    BY DEF Pages
  <2>2. CASE p \in Forms
    BY <1>2, <1>7, <1>8, <2>2 DEF SaveOK, Merged, SettingsRecords, AllFields
  <2>3. CASE p \in Popups
    BY <1>2, <1>7, <1>8, <2>3, SettingsAssumption DEF SaveOK, Merged, SettingsRecords, AllFields
  <2>4. QED
    BY <2>1, <2>2, <2>3
<1>10. QED
  BY <1>2, <1>3, <1>4, <1>6, <1>7, <1>8, <1>9 DEF save, rest

\* What a write leaves of a page, whose saves were `saves` before.
LEMMA BehindFacts ==
  ASSUME NEW p, NEW q, NEW page \in PageRecords
  PROVE  LET after == Behind(p, q, page)
         IN /\ after \in PageRecords /\ after.shown = page.shown /\ after.chosen = page.chosen
            /\ after.behind = (page.behind \/ q # p)
            /\ after.saves \in Seq(Saves) /\ Len(after.saves) = Len(page.saves)
            /\ DOMAIN after.saves = DOMAIN page.saves
            /\ \A i \in DOMAIN page.saves :
                 /\ after.saves[i].patch = page.saves[i].patch /\ after.saves[i].read = page.saves[i].read
                 /\ after.saves[i].chosen = page.saves[i].chosen
                 /\ after.saves[i].behind = (page.saves[i].behind \/ page.saves[i].read # <<>> \/ q \in Forms)
<1> DEFINE late(i) == page.saves[i].behind \/ page.saves[i].read # <<>> \/ q \in Forms
           new(i) == [page.saves[i] EXCEPT !.behind = late(i)]
           saves == [i \in DOMAIN page.saves |-> new(i)]
           behind == page.behind \/ q # p
           after == [page EXCEPT !.behind = behind, !.saves = saves]
<1>1. page.saves \in Seq(Saves) /\ page.behind \in BOOLEAN
  BY DEF PageRecords
<1>2. Len(page.saves) \in Nat /\ DOMAIN page.saves = 1..Len(page.saves)
  BY <1>1, LenProperties
<1>3. ASSUME NEW i \in DOMAIN page.saves
      PROVE  /\ new(i) \in Saves /\ new(i).patch = page.saves[i].patch /\ new(i).read = page.saves[i].read
             /\ new(i).chosen = page.saves[i].chosen /\ new(i).behind = late(i)
  <2>1. page.saves[i] \in Saves
    BY <1>1, <1>2, <1>3, ElementOfSeq
  <2>2. late(i) \in BOOLEAN
    BY <2>1 DEF Saves
  <2> HIDE DEF late
  <2>3. QED
    BY <2>1, <2>2 DEF Saves
<1> HIDE DEF new
<1>4. /\ saves \in Seq(Saves) /\ Len(saves) = Len(page.saves) /\ DOMAIN saves = DOMAIN page.saves
      /\ \A i \in DOMAIN page.saves : saves[i] = new(i)
  BY <1>2, <1>3, IsASeq, LenProperties
<1>5. behind \in BOOLEAN
  OBVIOUS
<1>6. after = Behind(p, q, page)
  BY DEF Behind, new
<1> HIDE DEF saves, behind
<1>7. /\ after \in PageRecords /\ after.shown = page.shown /\ after.chosen = page.chosen
      /\ after.behind = behind /\ after.saves = saves
  BY <1>4, <1>5 DEF PageRecords
<1> HIDE DEF after
<1>8. QED
  BY <1>3, <1>4, <1>6, <1>7 DEF behind

\* A page is as it should be after a write of page p.
LEMMA BehindOK ==
  ASSUME NEW p, NEW q \in Pages, NEW page \in PageRecords, NEW after, after = Behind(p, q, page),
         \A i \in DOMAIN page.saves : SaveOK(q, page.saves[i]),
         q \in Forms /\ q = p /\ ~page.behind =>
           \A f \in AllFields \ page.chosen :
             /\ page.shown[f] = settings'[f]
             /\ \A i \in DOMAIN page.saves : page.saves[i].patch[f] = page.shown[f]
  PROVE  after \in PageRecords /\ PageOK(q, after)'
<1>1. /\ after \in PageRecords /\ after.shown = page.shown /\ after.chosen = page.chosen
      /\ after.behind = (page.behind \/ q # p)
      /\ DOMAIN after.saves = DOMAIN page.saves
      /\ \A i \in DOMAIN page.saves :
           /\ after.saves[i].patch = page.saves[i].patch /\ after.saves[i].read = page.saves[i].read
           /\ after.saves[i].chosen = page.saves[i].chosen
           /\ after.saves[i].behind = (page.saves[i].behind \/ page.saves[i].read # <<>> \/ q \in Forms)
  BY BehindFacts
<1>2. q \in Forms \/ q \in Popups
  BY DEF Pages
<1>3. ASSUME NEW i \in DOMAIN after.saves PROVE SaveOK(q, after.saves[i])'
  <2>1. SaveOK(q, page.saves[i]) /\ i \in DOMAIN page.saves
    BY <1>1
  <2>2. CASE after.saves[i].behind
    BY <1>1, <2>1, <2>2 DEF SaveOK
  <2>3. CASE ~after.saves[i].behind
    <3>1. after.saves[i].read = <<>> /\ q \notin Forms
      BY <1>1, <2>1, <2>3
    <3>2. after.saves[i].patch \in [{"theme"} -> Themes] /\ after.saves[i].chosen = {"theme"}
      BY <1>1, <1>2, <2>1, <3>1 DEF SaveOK
    <3>3. DOMAIN after.saves[i].patch \ after.saves[i].chosen = {}
      BY <3>2
    <3>4. QED
      BY <1>1, <2>1, <3>1, <3>2, <3>3 DEF SaveOK
  <2>4. QED
    BY <2>2, <2>3
<1>4. q \in Forms => FormOK(after)'
  <2>1. CASE page.behind \/ q # p
    BY <1>1, <2>1 DEF FormOK
  <2>2. CASE ~page.behind /\ q = p
    BY <1>1, <2>2 DEF FormOK
  <2>3. QED
    BY <2>1, <2>2
<1>5. PageOK(q, after)'
  BY <1>3, <1>4 DEF PageOK
<1>6. QED
  BY <1>1, <1>5

LEMMA WriteInv ==
  ASSUME SettingsInv, NEW p \in Pages, Write(p)
  PROVE  SettingsInv'
<1> DEFINE saves == pages[p].saves
           save == Head(saves)
           rest == Tail(saves)
           own == [pages[p] EXCEPT !.saves = rest]
           page(q) == IF q = p THEN own ELSE pages[q]
<1>1. /\ settings' = Merged(save.patch, save.read[1]) /\ settings' \in SettingsRecords
      /\ save = saves[1] /\ 1 \in DOMAIN saves /\ SaveOK(p, save)
      /\ rest \in Seq(Saves) /\ \A i \in DOMAIN rest : i + 1 \in DOMAIN saves /\ rest[i] = saves[i + 1]
  BY WrittenFacts
<1>2. pages' = [q \in Pages |-> Behind(p, q, page(q))] /\ UNCHANGED saved
  BY DEF Write
<1>3. /\ own \in PageRecords /\ own.saves = rest /\ own.shown = pages[p].shown
      /\ own.chosen = pages[p].chosen /\ own.behind = pages[p].behind
  BY <1>1, SettingsFacts DEF PageRecords
<1>4. PageOK(p, pages[p])
  BY SettingsFacts
<1> HIDE DEF own, save, rest
<1>5. ASSUME NEW q \in Pages PROVE pages'[q] \in PageRecords /\ PageOK(q, pages[q])'
  <2>1. pages[q] \in PageRecords /\ PageOK(q, pages[q])
    BY SettingsFacts
  <2>2. PICK mine \in PageRecords : mine = page(q)
    BY <1>3, <2>1
  <2>3. PICK after : after = Behind(p, q, mine) /\ pages'[q] = after
    BY <1>2, <2>2
  <2>4. \A i \in DOMAIN mine.saves : SaveOK(q, mine.saves[i])
    BY <1>1, <1>3, <2>1, <2>2 DEF PageOK
  <2>5. ASSUME q \in Forms, q = p, ~mine.behind, NEW f \in AllFields \ mine.chosen
        PROVE  /\ mine.shown[f] = settings'[f]
               /\ \A i \in DOMAIN mine.saves : mine.saves[i].patch[f] = mine.shown[f]
    <3>1. FormOK(pages[p]) /\ mine = own
      BY <1>4, <2>2, <2>5 DEF PageOK
    <3>2. \A i \in DOMAIN saves : saves[i].patch[f] = mine.shown[f]
      BY <1>3, <2>5, <3>1 DEF FormOK
    <3>3. f \in DOMAIN save.patch
      BY <1>1, <2>5 DEF SaveOK, SettingsRecords
    <3>4. settings'[f] = save.patch[f]
      BY <1>1, <3>3 DEF Merged
    <3>5. QED
      BY <1>1, <1>3, <3>1, <3>2, <3>4, ZenonT(30)
  <2>6. after \in PageRecords /\ PageOK(q, after)'
    BY <2>3, <2>4, <2>5, BehindOK
  <2>7. QED
    BY <2>3, <2>6 DEF PageOK, SaveOK, FormOK
<1>6. pages' \in [Pages -> PageRecords] /\ saved' \in 0..MaxSaves
  BY <1>2, <1>5, SettingsFacts
<1>7. QED
  BY <1>1, <1>5, <1>6 DEF SettingsInv, SettingsTypeOK

LEMMA SettingsStep == SettingsInv /\ [SettingsNext]_settingsVars => SettingsInv'
<1> SUFFICES ASSUME SettingsInv, [SettingsNext]_settingsVars PROVE SettingsInv'
  OBVIOUS
<1>1. ASSUME NEW p \in Pages, NEW field \in Fields, NEW value \in Values, Enter(p, field, value)
      PROVE  SettingsInv'
  <2>1. field \in AllFields /\ field # "theme" /\ value \in Values \cup Themes
    BY SettingsAssumption DEF AllFields
  <2>2. QED
    BY <1>1, <2>1, EnterInv
<1>2. ASSUME NEW p \in Pages, NEW theme \in Themes, Enter(p, "theme", theme)
      PROVE  SettingsInv'
  <2>1. "theme" \in AllFields /\ theme \in Values \cup Themes
    BY DEF AllFields
  <2>2. QED
    BY <1>2, <2>1, EnterInv
<1>3. CASE SettingsNext
  BY <1>1, <1>2, <1>3, OpenInv, LoadedInv, SubmitInv, ClickThemeInv, ReadSettingsInv, WriteInv
  DEF SettingsNext
<1>4. CASE UNCHANGED settingsVars
  <2>1. UNCHANGED <<settings, pages, saved>>
    BY <1>4 DEF settingsVars
  <2>2. ASSUME NEW p \in Pages PROVE PageOK(p, pages[p])'
    BY <2>1, SettingsFacts DEF PageOK, SaveOK, FormOK
  <2>3. QED
    BY <2>1, <2>2 DEF SettingsInv, SettingsTypeOK
<1>5. QED
  BY <1>3, <1>4

\* Saving the theme keeps the other settings and saving the form keeps the theme, however
\* often and fast, unless a page wrote others meanwhile, or the form was saved before it was
\* filled (saveSettings).
THEOREM SettingsCorrect == SettingsSpec => OtherSettingsKept
<1> DEFINE Kept ==
      \A f \in AllFields : settings'[f] # settings[f] =>
        \E p \in Pages :
          /\ Len(pages'[p].saves) < Len(pages[p].saves)
          /\ f \in Head(pages[p].saves).chosen \/ Head(pages[p].saves).behind
<1>1. ASSUME SettingsInv, NEW p \in Pages, Write(p), NEW f \in AllFields, settings'[f] # settings[f]
      PROVE  /\ Len(pages'[p].saves) < Len(pages[p].saves)
             /\ f \in Head(pages[p].saves).chosen \/ Head(pages[p].saves).behind
  <2> DEFINE save == Head(pages[p].saves)
             rest == Tail(pages[p].saves)
             own == [pages[p] EXCEPT !.saves = rest]
  <2>1. /\ rest \in Seq(Saves) /\ Len(pages[p].saves) \in Nat /\ Len(rest) = Len(pages[p].saves) - 1
        /\ pages[p].saves # <<>> /\ SaveOK(p, save) /\ settings' = Merged(save.patch, save.read[1])
    BY <1>1, WrittenFacts
  <2>2. Len(pages'[p].saves) = Len(rest)
    <3>1. pages'[p] = Behind(p, p, own)
      BY <1>1 DEF Write
    <3>2. own \in PageRecords /\ own.saves = rest
      BY <1>1, <2>1, SettingsFacts DEF PageRecords
    <3>3. PICK page \in PageRecords : page = own
      BY <3>2
    <3> HIDE DEF own
    <3>4. Len(Behind(p, p, page).saves) = Len(page.saves)
      BY BehindFacts
    <3>5. QED
      BY <3>1, <3>2, <3>3, <3>4
  <2>3. save.read # <<>>
    BY <1>1 DEF Write
  <2> HIDE DEF save, rest
  <2>4. f \in save.chosen \/ save.behind
    <3> SUFFICES ASSUME f \notin save.chosen, ~save.behind PROVE FALSE
      OBVIOUS
    <3>1. /\ save.read[1] = settings
          /\ \A g \in DOMAIN save.patch \ save.chosen : save.patch[g] = settings[g]
      BY <2>1, <2>3 DEF SaveOK
    <3>2. settings'[f] = settings[f]
      BY <2>1, <3>1 DEF Merged
    <3>3. QED
      BY <1>1, <3>2
  <2>5. QED
    BY <2>1, <2>2, <2>4 DEF save
<1>2. SettingsInv /\ [SettingsNext]_settingsVars => [Kept]_settingsVars
  <2> SUFFICES ASSUME SettingsInv, SettingsNext PROVE Kept
    BY DEF settingsVars
  <2>1. CASE UNCHANGED settings
    BY <2>1
  <2>2. CASE \E p \in Pages : Write(p)
    BY <1>1, <2>2
  <2>3. QED
    BY <2>1, <2>2 DEF SettingsNext, Open, Loaded, Enter, Submit, Save, ClickTheme, ReadSettings, Close
<1>3. OtherSettingsKept <=> [][Kept]_settingsVars
  BY DEF OtherSettingsKept
<1> HIDE DEF Kept
<1>4. QED
  BY <1>2, <1>3, SettingsInitInv, SettingsStep, PTL DEF SettingsSpec
================================================================================
