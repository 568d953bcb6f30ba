--------------------------- MODULE MCAddressField ---------------------------
(* Instances of AddressField for TLC.                                      *)
EXTENDS AddressField, TLC

CONSTANTS p1, p2, t1, t2

Names == Permutations({p1, p2}) \cup Permutations({t1, t2})
=============================================================================
