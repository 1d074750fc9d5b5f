SPECIFICATION Spec
CONSTANTS
    local = local
    public = public
    Hosts = {local, public}
    FirstHost = local
    Reachable = {public}
    MaxMessages = 2
    MaxArrivals = 1
    MaxFaults = 1
    MaxCommands = 2
INVARIANTS TypeOK Defined
PROPERTIES KeepsOrder ReachesTheServer QueueEmpties
CHECK_DEADLOCK FALSE
