SPECIFICATION Spec
CONSTANTS
    here = here
    there = there
    ann = ann
    bob = bob
    Clients = {here}
    Users <- MCUsers
    NoUser = NoUser
    MaxConn = 2
    MaxVersion = 1
INVARIANTS TypeOK PushedToUntilUnseated
PROPERTIES TheUserStays ReachedClientsCatchUp DeadConnectionsAreForgotten
