--------------------------- MODULE MCListingPage ---------------------------
(* Instances of ListingPage for TLC.                                       *)
EXTENDS ListingPage

CONSTANTS p1, p2
=============================================================================
