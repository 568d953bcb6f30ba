---------------------------- MODULE MCResendSync ----------------------------
(* Instances of ResendSync for TLC.                                        *)
EXTENDS ResendSync
=============================================================================
