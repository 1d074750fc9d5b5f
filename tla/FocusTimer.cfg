SPECIFICATION Spec
CONSTANTS
    maths = maths
    physics = physics
    Groups = {maths, physics}
    NoGroup = NoGroup
    Default = 3
    MaxEarly = 2
INVARIANTS TypeOK ButtonsFit AnnouncedOnce
PROPERTIES RunsOut
