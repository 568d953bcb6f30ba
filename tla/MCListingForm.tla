--------------------------- MODULE MCListingForm ---------------------------
(* Instances of ListingForm for TLC.                                       *)
EXTENDS ListingForm
=============================================================================
