SPECIFICATION Spec
SYMMETRY Symmetry
CONSTANTS
    Request = {q1, q2}
    MaxResellers = 2
    Name = {n1, n2}
    NoName = NoName
    MaxAttempts = 2
    MaxUsers = 1
    MaxRequests = 4
INVARIANTS TypeOK SessionsAreTheirs ChecksHold OnlyOverlapsBreak
CHECK_DEADLOCK FALSE
