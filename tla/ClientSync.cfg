SPECIFICATION SyncSpec
CONSTANTS
    ann = ann
    bob = bob
    one = one
    two = two
    Names <- MCNames
    Texts <- MCTexts
    Bodies <- MCBodies
    FirstBody <- MCFirstBody
    Me = 1
    Plans <- MCPlans
    MaxUser = 2
    MaxGroup = 4
    MaxTask = 5
    MaxMessage = 4
    MaxRoutes = 1
INVARIANTS SyncTypeOK OptimismIsRight CopyInv DeadPinsAreAwaited
PROPERTIES ClicksSettle PinsFollowClicks
CHECK_DEADLOCK FALSE
