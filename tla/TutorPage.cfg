SPECIFICATION PageSpec
CONSTANTS
    ann = ann
    Users <- MCUsers
    Me = ann
    Clicks = {"askAi", "cancelAi", "clearAiHistory", "logOut"}
    NoUser = NoUser
    StartCredits = 2
    MaxQuestions = 2
    LateClicks = {3}
    MaxClicks = 3
INVARIANTS PageTypeOK
PROPERTIES PageSettles SeenAnswersStay
CHECK_DEADLOCK FALSE
