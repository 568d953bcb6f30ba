-------------------------- MODULE MCListingPhotos --------------------------
(* Instances of ListingPhotos for TLC.                                     *)
EXTENDS ListingPhotos, TLC

CONSTANTS u1, u2, u3, l1, l2

(* Uploads and listings have no identity of their own.                     *)
Interchangeable == Permutations(Upload) \cup Permutations(Listing)
=============================================================================
