CONSTANTS
    k1 = k1
    o1 = o1
    Kosts <- MCKosts
    Owners <- MCOwners
    KostOf <- MCKostOf
    OwnerOf <- MCOwnerOf
    Rooms = {r1, r2}
    Tenants = {t1}
    Bookings = {b1, b2, b3}
    Handlers = {h1, h2}
    BookingExpiry = 1
    LeaseTerms = {1}
    Recorded <- NoKinds
SPECIFICATION SerialSpec
SYMMETRY Symmetry
INVARIANTS
    RoomsAgree
PROPERTIES
    KeepsLedger
    MovesForeseen
