SPECIFICATION Spec
CONSTANTS
    Visits <- MCVisits
INVARIANTS
    TypeOK
    OwnWriteShown
    OfferedAccepted
PROPERTIES
    DecisionMeant
    PolledConverges
CHECK_DEADLOCK FALSE
