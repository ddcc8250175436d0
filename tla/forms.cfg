SPECIFICATION Spec
CONSTANTS
    Depth = 3
    Places <- MCPlaces
    Parent <- MCParent
    MaxLoads = 1
    MaxVersion = 1
INVARIANTS
    AddressAgrees
PROPERTIES
    SelectsReopen
CHECK_DEADLOCK FALSE
