SPECIFICATION Spec
CONSTANTS
    first = first
    second = second
    Calls <- MCCalls
    NoCall = NoCall
    MaxLinks = 2
CHECK_DEADLOCK FALSE
INVARIANTS TypeOK RepliesMeetTheirCall NoneLeftBehind
PROPERTIES KeepsPromise EveryCallEnds
