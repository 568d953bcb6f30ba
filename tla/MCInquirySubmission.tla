------------------------- MODULE MCInquirySubmission -------------------------
(* Instances of InquirySubmission for TLC.                                 *)
EXTENDS InquirySubmission, TLC

CONSTANTS r1, r2, r3, ann, bob, olga, i1, i2, i3

(* Requests and workflow rows have no identity of their own.               *)
Interchangeable == Permutations(Request) \cup Permutations(Row)
=============================================================================
