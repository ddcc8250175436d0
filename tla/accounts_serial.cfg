CONSTANTS
    Users = {u1, u2}
    Sessions = {s1, s2, s3}
    Tokens = {k1}
    Handlers = {h1, h2}
SPECIFICATION SerialSpec
SYMMETRY Symmetry
CHECK_DEADLOCK FALSE
INVARIANTS
    OneLivePerLogin
    
    StandingStays
PROPERTIES
    KeepsChains
