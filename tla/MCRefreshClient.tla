--------------------------- MODULE MCRefreshClient ---------------------------
(***************************************************************************)
(* Small instances of the API client: two tabs of one browser, two calls   *)
(* in the first and one in the second.                                     *)
(***************************************************************************)
EXTENDS RefreshClient, TLC

CONSTANTS t1, t2, c1, c2, c3

MCTabOf == c1 :> t1 @@ c2 :> t1 @@ c3 :> t2
=============================================================================
