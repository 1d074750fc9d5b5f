SPECIFICATION Spec
CONSTANTS
    here = here
    there = there
    ann = ann
    bob = bob
    Clients = {here, there}
    Users = {ann}
    NoUser = NoUser
    MaxConn = 2
    MaxVersion = 1
PROPERTIES LiveChat
