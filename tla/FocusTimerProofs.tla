-------------------------- MODULE FocusTimerProofs --------------------------
(***************************************************************************)
(* Proofs about FocusTimer for any groups and any length of a countdown.   *)
(***************************************************************************)
EXTENDS FocusTimer, TLAPS

(* The types apart: what the provers do best with numbers they do worst with
   Boolean variables. *)
Numbers == remaining \in 0..Default /\ announced \in Nat /\ early \in 0..MaxEarly

Switches ==
  /\ active \in BOOLEAN
  /\ canStart \in BOOLEAN /\ canPause \in BOOLEAN /\ canReset \in BOOLEAN

Selection ==
  studyGroups \subseteq Groups /\ items \subseteq Groups /\ selected \in items \cup {NoGroup}

LEMMA Types == TypeOK <=> Numbers /\ Switches /\ Selection
  BY Zenon DEF TypeOK, Numbers, Switches, Selection

LEMMA InitInv == Init => Inv
  <1> SUFFICES ASSUME Init PROVE Inv
    OBVIOUS
  <1> USE FocusAssumption DEF Init
  <1>1. Numbers /\ Switches /\ Selection
    <2>1. Numbers
      BY DEF Numbers
    <2>2. Switches
      BY Zenon DEF Switches
    <2>3. Selection
      BY DEF Selection
    <2> QED BY <2>1, <2>2, <2>3
  <1>2. ButtonsFit
    BY DEF ButtonsFit
  <1>3. Begun
    BY DEF Begun
  <1> QED BY <1>1, <1>2, <1>3, Types DEF Inv

LEMMA TypeStep == TypeOK /\ [Next]_vars => TypeOK'
  <1> SUFFICES ASSUME Numbers, Switches, Selection, [Next]_vars
               PROVE  Numbers' /\ Switches' /\ Selection'
    <2>1. TypeOK' <=> Numbers' /\ Switches' /\ Selection'
      BY Zenon DEF TypeOK, Numbers, Switches, Selection
    <2> QED BY <2>1, Types
  <1> USE DEF UpdateButtons, StillThere, timer, buttons, history
  <1>1. CASE GroupsChange
    <2>1. Numbers'
      BY <1>1, FocusAssumption DEF GroupsChange, Numbers
    <2>2. Switches'
      BY <1>1, Zenon DEF GroupsChange, Switches
    <2>3. Selection'
      BY <1>1 DEF GroupsChange, Selection
    <2> QED BY <2>1, <2>2, <2>3
  <1>2. CASE RefreshGroupList
    <2>1. Numbers'
      BY <1>2, FocusAssumption DEF RefreshGroupList, Numbers
    <2>2. Switches'
      BY <1>2, Zenon DEF RefreshGroupList, Switches
    <2>3. Selection'
      BY <1>2 DEF RefreshGroupList, Selection
    <2> QED BY <2>1, <2>2, <2>3
  <1>3. CASE SelectGroup
    <2>1. Numbers'
      BY <1>3, FocusAssumption DEF SelectGroup, Numbers
    <2>2. Switches'
      BY <1>3, Zenon DEF SelectGroup, Switches
    <2>3. Selection'
      BY <1>3 DEF SelectGroup, Selection
    <2> QED BY <2>1, <2>2, <2>3
  <1>4. CASE ClickStart
    <2>1. Numbers'
      <3>1. /\ remaining' = remaining /\ early' = early
            /\ announced' = announced \/ announced' = announced + 1
        BY <1>4, Zenon DEF ClickStart, StartTimer
      <3> QED BY <3>1 DEF Numbers
    <2>2. Switches'
      BY <1>4, Zenon DEF ClickStart, StartTimer, Switches
    <2>3. Selection'
      BY <1>4 DEF ClickStart, StartTimer, Selection
    <2> QED BY <2>1, <2>2, <2>3
  <1>5. CASE ClickPause
    <2>1. Numbers'
      BY <1>5, FocusAssumption DEF ClickPause, Numbers
    <2>2. Switches'
      BY <1>5, Zenon DEF ClickPause, Switches
    <2>3. Selection'
      BY <1>5 DEF ClickPause, Selection
    <2> QED BY <2>1, <2>2, <2>3
  <1>6. CASE ClickReset
    <2>1. Numbers'
      BY <1>6, FocusAssumption DEF ClickReset, Numbers
    <2>2. Switches'
      BY <1>6, Zenon DEF ClickReset, Switches
    <2>3. Selection'
      BY <1>6 DEF ClickReset, Selection
    <2> QED BY <2>1, <2>2, <2>3
  <1>7. CASE StartFocusFromDashboard
    <2>1. Numbers'
      BY <1>7, FocusAssumption DEF StartFocusFromDashboard, Numbers
    <2>2. Switches'
      BY <1>7, Zenon DEF StartFocusFromDashboard, Switches
    <2>3. Selection'
      BY <1>7 DEF StartFocusFromDashboard, Selection
    <2> QED BY <2>1, <2>2, <2>3
  <1>8. CASE Tick
    <2>1. Numbers'
      <3>1. /\ announced' = announced /\ early' = early
            /\ \/ remaining' = remaining
               \/ remaining # 0 /\ remaining' = remaining - 1
        BY <1>8, Zenon DEF Tick
      <3> QED BY <3>1, FocusAssumption DEF Numbers
    <2>2. Switches'
      BY <1>8, Zenon DEF Tick, Switches
    <2>3. Selection'
      BY <1>8 DEF Tick, Selection
    <2> QED BY <2>1, <2>2, <2>3
  <1>9. CASE UNCHANGED vars
    BY <1>9 DEF vars, Numbers, Switches, Selection
  <1> QED BY <1>1, <1>2, <1>3, <1>4, <1>5, <1>6, <1>7, <1>8, <1>9 DEF Next

LEMMA ButtonsStep == TypeOK /\ ButtonsFit /\ [Next]_vars => ButtonsFit'
  <1> SUFFICES ASSUME TypeOK, ButtonsFit, [Next]_vars PROVE ButtonsFit'
    OBVIOUS
  <1> USE FocusAssumption
      DEF ButtonsFit, TypeOK, UpdateButtons, StillThere, timer, buttons, history
  <1>1. CASE GroupsChange
    BY <1>1 DEF GroupsChange
  <1>2. CASE RefreshGroupList
    BY <1>2 DEF RefreshGroupList
  <1>3. CASE SelectGroup
    BY <1>3 DEF SelectGroup
  <1>4. CASE ClickStart
    BY <1>4 DEF ClickStart, StartTimer
  <1>5. CASE ClickPause
    BY <1>5 DEF ClickPause
  <1>6. CASE ClickReset
    BY <1>6 DEF ClickReset
  <1>7. CASE StartFocusFromDashboard
    BY <1>7 DEF StartFocusFromDashboard
  <1>8. CASE Tick
    BY <1>8 DEF Tick
  <1>9. CASE UNCHANGED vars
    BY <1>9 DEF vars
  <1> QED BY <1>1, <1>2, <1>3, <1>4, <1>5, <1>6, <1>7, <1>8, <1>9 DEF Next

LEMMA BegunStep == TypeOK /\ Begun /\ [Next]_vars => Begun'
  <1> SUFFICES ASSUME Numbers, Begun, [Next]_vars PROVE Begun'
    BY Types
  <1> USE FocusAssumption DEF timer, buttons, history
  <1>1. ASSUME active' = active, remaining' = remaining, UNCHANGED history PROVE Begun'
    BY <1>1, Zenon DEF Begun
  <1>2. ASSUME announced' > 0, announced' <= early' + 1, active' PROVE Begun'
    BY <1>2, Zenon DEF Begun
  <1>3. ASSUME announced' = 0, early' = 0, ~active', remaining' = Default PROVE Begun'
    <2>1. ~(remaining' < Default) /\ announced' <= early' /\ announced' <= early' + 1
      BY <1>3
    <2> QED BY <1>3, <2>1, Zenon DEF Begun
  <1>4. CASE GroupsChange \/ RefreshGroupList \/ SelectGroup \/ UNCHANGED vars
    BY <1>1, <1>4, Zenon DEF GroupsChange, RefreshGroupList, SelectGroup, vars
  <1>5. CASE ClickStart
    <2>1. CASE selected = NoGroup \/ active
      BY <1>1, <1>5, <2>1, Zenon DEF ClickStart, StartTimer
    <2>2. CASE selected # NoGroup /\ ~active
      <3>1. /\ active' /\ early' = early
            /\ announced' = IF remaining = Default THEN announced + 1 ELSE announced
        BY <1>5, <2>2, Zenon DEF ClickStart, StartTimer
      <3>2. /\ remaining < Default => announced > 0
            /\ remaining = Default => announced <= early
            /\ announced <= early + 1
        BY <2>2, Zenon DEF Begun
      <3>3. announced' > 0 /\ announced' <= early' + 1
        BY <3>1, <3>2 DEF Numbers
      <3> QED BY <1>2, <3>1, <3>3, Zenon
    <2> QED BY <2>1, <2>2, Zenon
  <1>6. CASE ClickPause
    <2>1. /\ ~active' /\ remaining' = remaining /\ announced' = announced
          /\ early' = IF remaining = Default THEN early + 1 ELSE early
          /\ announced > 0 /\ announced <= early + 1
      BY <1>6, Zenon DEF ClickPause, Begun
    <2>2. /\ announced' > 0 /\ announced' <= early' + 1
          /\ remaining' = Default => announced' <= early'
      BY <2>1 DEF Numbers
    <2> QED BY <2>1, <2>2, Zenon DEF Begun
  <1>7. CASE ClickReset
    BY <1>3, <1>7, Zenon DEF ClickReset
  <1>8. CASE StartFocusFromDashboard
    <2>1. CASE StillThere = NoGroup
      BY <1>3, <1>8, <2>1, Zenon DEF StartFocusFromDashboard
    <2>2. CASE StillThere # NoGroup
      <3>1. active' /\ announced' = 1 /\ early' = 0
        BY <1>8, <2>2, Zenon DEF StartFocusFromDashboard
      <3>2. announced' > 0 /\ announced' <= early' + 1
        BY <3>1
      <3> QED BY <1>2, <3>1, <3>2, Zenon
    <2> QED BY <2>1, <2>2
  <1>9. CASE Tick
    <2>1. /\ announced' = announced /\ early' = early
          /\ announced > 0 /\ announced <= early + 1
          /\ \/ remaining' = remaining /\ remaining = 0
             \/ remaining' = remaining - 1
      BY <1>9, Zenon DEF Tick, Begun
    <2>2. remaining' # Default /\ announced' > 0 /\ announced' <= early' + 1
      BY <2>1 DEF Numbers
    <2> QED BY <2>2, Zenon DEF Begun
  <1> QED BY <1>4, <1>5, <1>6, <1>7, <1>8, <1>9, Zenon DEF Next

(* The invariant holds in every state. *)
THEOREM InvHolds == Spec => []Inv
  <1>1. Inv /\ [Next]_vars => Inv'
    BY TypeStep, ButtonsStep, BegunStep DEF Inv
  <1> QED BY InitInv, <1>1, PTL DEF Spec

(* Variables keep their types; the time that remains never goes below zero. *)
THEOREM TypeCorrect == Spec => []TypeOK
  <1>1. Inv => TypeOK
    BY DEF Inv
  <1> QED BY InvHolds, <1>1, PTL

(* The buttons fit the timer and the selection, whichever of the six places
   set them last. *)
THEOREM ButtonsAlwaysFit == Spec => []ButtonsFit
  <1>1. Inv => ButtonsFit
    BY DEF Inv
  <1> QED BY InvHolds, <1>1, PTL

(* A countdown that has begun was announced, and only a pause within its first
   second lets it be announced again. *)
THEOREM OneAnnouncement == Spec => []AnnouncedOnce
  <1>1. Inv => AnnouncedOnce
    BY DEF Inv, Begun, AnnouncedOnce
  <1> QED BY InvHolds, <1>1, PTL
=============================================================================
