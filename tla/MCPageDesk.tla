----------------------------- MODULE MCPageDesk -----------------------------
(* Instances of PageDesk for TLC: the pages with buttons. *)
EXTENDS PageDesk

Visit(p, who, filtered, others, writes) ==
    [page |-> p, viewer |-> who, filtered |-> filtered, others |-> others, writes |-> writes]

MCVisits ==
    {Visit(BookingsPage, "owner", {}, DOMAIN Moves, 2),
     Visit(BookingsPage, "owner", {"owner-bookings"}, {"cancel", "approve"}, 1),
     Visit(ContractsPage, "owner", {}, DOMAIN Moves, 2),
     Visit(MyBookingsPage, "tenant", {"bookings/me"}, {"process", "approve", "reject"}, 1),
     Visit(KostPage, "tenant", {}, DOMAIN Moves, 1),
     Visit(KostEditPage, "owner", {}, {}, 1),
     Visit(VerificationPage, "super_admin", {}, {"judge"}, 1),
     Visit(MasterKostPage, "super_admin", {}, {"judge", "deleteKost", "activate"}, 1),
     Visit(UsersPage, "super_admin", {}, DOMAIN Moves, 1),
     Visit(TeknisiPage, "teknisi", {}, DOMAIN Moves, 1),
     Visit(EventsPage, "super_admin", {}, DOMAIN Moves, 2),
     Visit(EventsPage, "owner", {}, DOMAIN Moves, 1),
     Visit(ProfilePage, "owner", {}, DOMAIN Moves, 2),
     Visit(Bell, "owner", {}, DOMAIN Moves, 2)}
=============================================================================
