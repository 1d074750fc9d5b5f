SPECIFICATION Spec
CONSTANTS
    Users = {ann, bob}
    NoUser = NoUser
    StartCredits = 2
    MaxQuestions = 3
SYMMETRY UserSymmetry
INVARIANTS TypeOK PaidQuestions AnswersFollowQuestions CancelEndsTheWait
PROPERTIES OnlyCancelledAnswersDropped
