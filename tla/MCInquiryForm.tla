--------------------------- MODULE MCInquiryForm ---------------------------
(* Instances of InquiryForm for TLC.                                       *)
EXTENDS InquiryForm

CONSTANTS l1, l2
=============================================================================
