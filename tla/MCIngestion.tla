----------------------------- MODULE MCIngestion -----------------------------
(***************************************************************************)
(* One region of 2 x 2 cells: an OSM tile, a Google tile and its quadrants *)
(* (one level of subdivision, a result cap of 1).  An OSM element and a    *)
(* Google place stand for one lot, another Google place for an operator's. *)
(***************************************************************************)
EXTENDS Ingestion

MCRegion == {[south |-> 0, west |-> 0, north |-> 2, east |-> 2]}
MCOsmPlace == {"node"}
MCGooglePlace == {"garage", "deck"}
MCAt == [p \in {"node", "garage", "deck"} |->
            IF p = "deck" THEN [lat |-> 1, lng |-> 1] ELSE [lat |-> 0, lng |-> 0]]
MCLotOf == [p \in {"node", "garage", "deck"} |-> IF p = "deck" THEN "theirs" ELSE "free"]
MCOwnedLot == {"theirs"}
MCOsmTags ==
    {[access |-> "yes", fee |-> "", parking |-> "surface"],
     [access |-> "yes", fee |-> "no", parking |-> "surface"]}
MCListing == {[name |-> "garage"]}

\* At the start the OSM element is free of charge; its tags may change, and change back.
MCInit == IngestionInit /\ world["node"].fee = "no"
\* The rest is IngestionSpec.
MCSpec ==
    /\ MCInit /\ [][IngestionNext]_ingestionVars
    /\ WF_ingestionVars(SweepStep)
    /\ WF_ingestionVars(\E t \in Tile : Worker(t))
=============================================================================
