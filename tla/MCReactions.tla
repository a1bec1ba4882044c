----------------------------- MODULE MCReactions -----------------------------
(***************************************************************************)
(* Reactions for TLC, alone: no request fails.  MCDesktop has the rest.    *)
(***************************************************************************)
EXTENDS Reactions

NoFailures == [click |-> 3, other |-> 1, fault |-> 0]
=============================================================================
