SPECIFICATION Spec
CONSTANTS
    ann = ann
    bob = bob
    todo = todo
    done = done
    Names <- MCNames
    Bodies <- MCBodies
    FirstBody = todo
    MaxUser = 2
    MaxGroup = 2
    MaxTask = 2
    MaxMessage = 2
    MaxRoutes = 4
INVARIANTS TypeOK NoDanglingRows
PROPERTIES IdsNameOneRowForEver WelcomeComplete LiveRoutesReachEveryViewer
