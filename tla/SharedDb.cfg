SPECIFICATION SharedSpec
CONSTANTS
    r1 = r1  r2 = r2  o1 = o1
    Requests = {r1, r2}
    Outsiders = {o1}
    MaxUpdates = 2
    NoUser = NoUser
    NoFile = {0}
SYMMETRY UserSymmetry
INVARIANTS
    SharedInv
    Openable
PROPERTIES
    NothingLost
