CONSTANTS
    Kosts = {k1}
    Rooms = {r1}
    Bookings = {b1, b2}
    Surveys = {a1, a2}
    Handlers = {h1, h2}
    KostOf <- MCKostOf
    Duties <- MCDuties
SPECIFICATION Spec
SYMMETRY Symmetry
INVARIANTS
    OnlyVouched
    LastWordStands
    SurveyAgrees
    HeldNotFree
PROPERTIES
    HeldNotDeleted
    KostMovesForeseen
CHECK_DEADLOCK FALSE
