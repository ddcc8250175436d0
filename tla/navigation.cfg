SPECIFICATION Spec
CONSTANTS
    u1 = u1
    u2 = u2
    Users <- MCUsers
    FirstRoles <- MCFirstRoles
    Typed <- MCTyped
    MaxExpiries = 1
    Promotions <- MCPromotions
INVARIANTS
    NavServed
    OnlyOwnData
PROPERTIES
    SessionRecognised
CHECK_DEADLOCK FALSE
