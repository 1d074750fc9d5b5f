SPECIFICATION Spec
CONSTANTS
    Users = {ann}
    NoUser = NoUser
    StartCredits = 2
    MaxQuestions = 2
INVARIANTS DelayedAnswersIgnored
