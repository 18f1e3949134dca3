--------------------------------- MODULE Popup ---------------------------------
(***************************************************************************)
(* The popup of one tab (popup.ts): it reads the tab's result from           *)
(* storage.session, shows it, and then listens for changes, each of which    *)
(* makes it read again.  The result is that of TabResult; here its versions  *)
(* are numbered.                                                            *)
(***************************************************************************)
EXTENDS Integers, Sequences

CONSTANT MaxResults   \* bound: versions of the result
ASSUME PopupAssumption == MaxResults \in Nat

VARIABLES result,     \* the version that is stored, 0: none yet
          popup,
          events,     \* changes that the browser is to report
          loads,      \* the calls of load: the version read, -1 while it is not
          shown,      \* the version shown, -1: none yet
          asked,      \* a rescan was asked for
          missed      \* the last change came before the popup listened (history)

popupVars == <<result, popup, events, loads, shown, asked, missed>>

Unread == -1
PopupTypeOK ==
  /\ result \in 0..MaxResults
  /\ popup \in {"closed", "loading", "shown", "listening"}
  /\ events \in 0..MaxResults
  /\ loads \in Seq(Unread..MaxResults)
  /\ shown \in Unread..MaxResults
  /\ asked \in BOOLEAN /\ missed \in BOOLEAN

Nothing ==
  /\ popup = "closed" /\ events = 0 /\ loads = <<>> /\ shown = Unread /\ asked = FALSE /\ missed = FALSE
PopupInit == result = 0 /\ Nothing

\* The worker stores a result.  Changes are reported to those who listen.
Publish ==
  /\ result < MaxResults /\ result' = result + 1
  /\ events' = IF popup = "listening" THEN events + 1 ELSE events
  /\ missed' = (popup \in {"loading", "shown"})
  /\ UNCHANGED <<popup, loads, shown, asked>>

\* main
OpenPopup ==
  /\ popup = "closed"
  /\ popup' = "loading" /\ loads' = <<Unread>>
  /\ UNCHANGED <<result, events, shown, asked, missed>>

\* The get of a call of load; they take effect in the order in which they were issued.
Read(i) ==
  /\ i \in DOMAIN loads /\ loads[i] = Unread
  /\ \A j \in 1..(i - 1) : loads[j] # Unread
  /\ loads' = [loads EXCEPT ![i] = result]
  /\ missed' = FALSE
  /\ UNCHANGED <<result, popup, events, shown, asked>>

\* Its reply; the first call of load goes on in main.
Render ==
  /\ loads # <<>> /\ Head(loads) # Unread
  /\ shown' = Head(loads) /\ loads' = Tail(loads)
  /\ popup' = IF popup = "loading" THEN "shown" ELSE popup
  /\ UNCHANGED <<result, events, asked, missed>>

\* storage.onChanged.addListener; a popup with nothing to show asks for a rescan.
Listen ==
  /\ popup = "shown"
  /\ popup' = "listening"
  /\ asked' = (shown = 0)
  /\ UNCHANGED <<result, events, loads, shown, missed>>

FaultyChanged ==
  /\ events > 0 /\ events' = events - 1
  /\ loads' = IF loads = <<>> THEN <<Unread>> ELSE loads
  /\ UNCHANGED <<result, popup, shown, asked, missed>>

Changed ==
  /\ events > 0 /\ events' = events - 1
  /\ loads' = Append(loads, Unread)
  /\ UNCHANGED <<result, popup, shown, asked, missed>>

ClosePopup ==
  /\ popup # "closed"
  /\ popup' = "closed" /\ events' = 0 /\ loads' = <<>> /\ shown' = Unread /\ asked' = FALSE /\ missed' = FALSE
  /\ UNCHANGED result

PopupNext ==
  \/ Publish
  \/ OpenPopup
  \/ \E i \in 1..(MaxResults + 1) : Read(i)
  \/ Render
  \/ Listen
  \/ Changed
  \/ ClosePopup

--------------------------------------------------------------------------------
(* Properties *)

\* When all reports and replies have arrived, the popup shows the stored result, however
\* results and reads interleave; or it is without one and has asked for it.  The exception is a last
\* change between its first read and its listening (load, onChanged; "keeps it live").
PopupIsLive ==
  popup = "listening" /\ events = 0 /\ loads = <<>> =>
    \/ missed
    \/ shown = result /\ (shown = 0 => asked)
================================================================================
