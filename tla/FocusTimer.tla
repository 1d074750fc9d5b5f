----------------------------- MODULE FocusTimer -----------------------------
(***************************************************************************)
(* The focus page (client/src/ui/page/FocusPage.cpp): a countdown that is  *)
(* announced in the chat of the selected group when it begins.  Everything *)
(* runs on the GUI thread, but the groups of ClientState, which fill the   *)
(* selection, are replaced by payloads at any time, and the dashboard      *)
(* (MainWindow::startFocusFromDashboard) starts the timer too.             *)
(***************************************************************************)
EXTENDS Naturals

CONSTANTS
    Groups,
    NoGroup,        \* the first line of the selection, a placeholder
    Default,        \* DefaultFocusDurationSeconds
    MaxEarly        \* bound on pauses within the first second

ASSUME FocusAssumption ==
    NoGroup \notin Groups /\ Default \in Nat \ {0} /\ MaxEarly \in Nat

VARIABLES
    studyGroups,    \* ClientState's groups
    items,          \* groups in groupSelect
    selected,       \* its current line
    remaining,      \* remainingSeconds
    active,         \* the QTimer runs
    canStart, canPause, canReset,   \* enabled buttons
    announced,      \* announcements since the last reset
    early           \* pauses since then before a second had passed

timer == <<remaining, active>>
buttons == <<canStart, canPause, canReset>>
history == <<announced, early>>
vars == <<studyGroups, items, selected, timer, buttons, history>>

TypeOK ==
    /\ studyGroups \subseteq Groups /\ items \subseteq Groups
    /\ selected \in items \cup {NoGroup}
    /\ remaining \in 0..Default
    /\ active \in BOOLEAN
    /\ canStart \in BOOLEAN /\ canPause \in BOOLEAN /\ canReset \in BOOLEAN
    /\ announced \in Nat /\ early \in 0..MaxEarly

(* updateButtons, with the selection g and the timer running or not: the
   button for a pause is left alone. *)
UpdateButtons(g, running) ==
    /\ canStart' = (g # NoGroup /\ ~running)
    /\ canReset' = (g # NoGroup)

----------------------------------------------------------------------------
(* A payload, or a change the user makes on another page. *)
GroupsChange ==
    /\ studyGroups' \in SUBSET Groups
    /\ UNCHANGED <<items, selected, timer, buttons, history>>

(* What refreshGroupList selects: the same group if it is still there. *)
StillThere == IF selected \in studyGroups THEN selected ELSE NoGroup

(* Mutant of RefreshGroupList: with its signals blocked the selection changes
   unnoticed. *)
RefreshGroupListBlocked ==
    /\ items' = studyGroups /\ selected' = StillThere
    /\ UNCHANGED <<studyGroups, timer, buttons, history>>

(* The slot of groupsChanged, and MainWindow::switchPage. *)
RefreshGroupList ==
    /\ items' = studyGroups /\ selected' = StillThere
    /\ UpdateButtons(StillThere, active)
    /\ UNCHANGED <<studyGroups, timer, canPause, history>>

SelectGroup ==
    /\ selected' \in (items \cup {NoGroup}) \ {selected}
    /\ UpdateButtons(selected', active)
    /\ UNCHANGED <<studyGroups, items, timer, canPause, history>>

(* Mutant of StartTimer: announced whatever the time that remains. *)
StartTimerAnnouncing ==
    IF selected = NoGroup \/ active THEN UNCHANGED <<timer, buttons, history>>
    ELSE /\ announced' = announced + 1
         /\ active' = TRUE /\ canStart' = FALSE /\ canPause' = TRUE
         /\ UNCHANGED <<remaining, canReset, early>>

StartTimer ==
    IF selected = NoGroup \/ active THEN UNCHANGED <<timer, buttons, history>>
    ELSE /\ announced' = IF remaining = Default THEN announced + 1 ELSE announced
         /\ active' = TRUE /\ canStart' = FALSE /\ canPause' = TRUE
         /\ UNCHANGED <<remaining, canReset, early>>

ClickStart ==
    /\ canStart /\ StartTimer
    /\ UNCHANGED <<studyGroups, items, selected>>

ClickPause ==
    /\ canPause /\ active
    /\ remaining = Default => early < MaxEarly
    /\ early' = IF remaining = Default THEN early + 1 ELSE early
    /\ active' = FALSE /\ canStart' = TRUE /\ canPause' = FALSE
    /\ UNCHANGED <<studyGroups, items, selected, remaining, canReset, announced>>

ClickReset ==
    /\ canReset
    /\ remaining' = Default /\ active' = FALSE
    /\ UpdateButtons(selected, FALSE) /\ canPause' = FALSE
    /\ announced' = 0 /\ early' = 0
    /\ UNCHANGED <<studyGroups, items, selected>>

(* refreshGroupList, resetTimer and startTimer in one click: a timer that runs
   is reset even if its group is gone and nothing starts again. *)
StartFocusFromDashboard ==
    /\ items' = studyGroups /\ selected' = StillThere
    /\ remaining' = Default /\ early' = 0
    /\ LET starts == StillThere # NoGroup IN
         /\ active' = starts
         /\ canStart' = FALSE /\ canPause' = starts /\ canReset' = starts
         /\ announced' = IF starts THEN 1 ELSE 0
    /\ UNCHANGED studyGroups

(* Mutant of Tick: the last second does not stop the timer. *)
TickRestless ==
    /\ active
    /\ remaining' = IF remaining = 0 THEN 0 ELSE remaining - 1
    /\ UNCHANGED <<studyGroups, items, selected, active, buttons, history>>

(* Mutant of Tick: without the early return. *)
TickBelowZero ==
    /\ active /\ remaining' = remaining - 1
    /\ IF remaining = 1
       THEN active' = FALSE /\ canStart' = TRUE /\ canPause' = FALSE
       ELSE UNCHANGED <<active, canStart, canPause>>
    /\ UNCHANGED <<studyGroups, items, selected, canReset, history>>

(* updateTimer.  The last second enables the start whatever is selected. *)
Tick ==
    /\ active
    /\ UNCHANGED <<studyGroups, items, selected, canReset, history>>
    /\ IF remaining = 0
       THEN /\ active' = FALSE /\ canStart' = (selected # NoGroup) /\ canPause' = FALSE
            /\ UNCHANGED remaining
       ELSE /\ remaining' = remaining - 1
            /\ IF remaining = 1
               THEN active' = FALSE /\ canStart' = TRUE /\ canPause' = FALSE
               ELSE UNCHANGED <<active, canStart, canPause>>

----------------------------------------------------------------------------
Init ==
    /\ studyGroups \in SUBSET Groups /\ items = studyGroups
    /\ selected = NoGroup
    /\ remaining = Default /\ active = FALSE
    /\ canStart = FALSE /\ canPause = FALSE /\ canReset = FALSE
    /\ announced = 0 /\ early = 0

Next ==
    \/ GroupsChange \/ RefreshGroupList \/ SelectGroup
    \/ ClickStart \/ ClickPause \/ ClickReset
    \/ StartFocusFromDashboard \/ Tick

(* A QTimer fires while it is active. *)
Spec == Init /\ [][Next]_vars /\ WF_vars(Tick)

----------------------------------------------------------------------------
(* Properties *)

(* Six places set the buttons by hand, each some of them.  Whatever they did
   before, a running timer can be paused; a timer can be reset whenever a group
   is selected, and only then; and with a group selected a timer that stands can
   be started and a running one cannot.  Without a group the start may be
   enabled (pauseTimer and updateTimer enable it unasked); it does nothing. *)
ButtonsFit ==
    /\ canPause = active
    /\ canReset = (selected # NoGroup)
    /\ canReset => canStart = ~active

(* A countdown that has begun was announced, and announced once, however it
   was paused, continued and given another group meanwhile; only a pause
   before its first second is over makes the next start look like the first. *)
AnnouncedOnce ==
    /\ remaining < Default => announced > 0
    /\ announced <= early + 1

(* A timer does not run for ever: it stops by itself unless it is reset over
   and over. *)
RunsOut ==
    []<>~active \/ []<><<ClickReset \/ StartFocusFromDashboard>>_vars

(* The inductive invariant behind both: whether a start announces depends on
   the time that remains, so a timer that stands at its full time must be owed
   no announcement. *)
Begun ==
    /\ active \/ remaining < Default => announced > 0
    /\ ~active /\ remaining = Default => announced <= early
    /\ announced <= early + 1

Inv == TypeOK /\ ButtonsFit /\ Begun
=============================================================================
