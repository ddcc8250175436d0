----------------------------- MODULE MCKostForm -----------------------------
(* An instance of KostForm for TLC: provinces, regencies and villages, two of
   each but the villages. *)
EXTENDS KostForm

MCPlaces == <<{"p", "q"}, {"pa", "qa"}, {"pav"}>>
MCParent ==
    [x \in {"pa", "qa", "pav"} |->
        CASE x = "pa" -> "p" [] x = "qa" -> "q" [] x = "pav" -> "pa"]
=============================================================================
