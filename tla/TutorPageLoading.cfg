SPECIFICATION PageSpec
CONSTANTS
    ann = ann
    Users <- MCUsers
    Me = ann
    Clicks = {"askAi", "cancelAi", "clearAiHistory"}
    NoUser = NoUser
    StartCredits = 2
    MaxQuestions = 2
    LateClicks = {}
    MaxClicks = 3
PROPERTIES LoadingSurvivesRefresh
CHECK_DEADLOCK FALSE
