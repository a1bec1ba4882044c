------------------------------- MODULE MCSendPath -------------------------------
(***************************************************************************)
(* SendPath for TLC.                                                       *)
(***************************************************************************)
EXTENDS SendPath, TLC

CONSTANTS r1, r2

Two == {r1, r2}
=============================================================================
