----------------------------- MODULE MCHomeMap -----------------------------
(* Instances of HomeMap for TLC: two listings, of one coarse cell and two  *)
(* fine ones.                                                              *)
EXTENDS HomeMap, TLC

CONSTANTS l1, l2, wide, here, there

MCListing == {l1, l2}
MCCell == {wide, here, there}
MCRes == (wide :> 7) @@ (here :> 8) @@ (there :> 8)
MCCellAt == (l1 :> (7 :> wide @@ 8 :> here)) @@ (l2 :> (7 :> wide @@ 8 :> there))
MCZoom == {11, 12, 13}
=============================================================================
