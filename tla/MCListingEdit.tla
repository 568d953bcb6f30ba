--------------------------- MODULE MCListingEdit ---------------------------
(* Instances of ListingEdit for TLC.                                       *)
EXTENDS ListingEdit, TLC

CONSTANTS p1, p2, status, dropOffs, title, notes, a, b, blank, unavailable

(* Pages have no identity of their own.                                    *)
Interchangeable == Permutations(Page)
=============================================================================
