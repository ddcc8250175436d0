CONSTANTS
    Users = {u1}
    Sessions = {s1, s2, s3}
    Tokens = {k1}
    Handlers = {h1, h2}
SPECIFICATION Spec
SYMMETRY Symmetry
CHECK_DEADLOCK FALSE
INVARIANTS
    ReplacedClosed
    SessionsProved
