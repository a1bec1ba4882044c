--------------------------- MODULE MCTimelineIngest ---------------------------
(***************************************************************************)
(* TimelineIngest for TLC, alone: a room with an edit, where no request    *)
(* fails.  MCDesktop has the rest.                                         *)
(***************************************************************************)
EXTENDS TimelineIngest

Edited == {[log  |-> <<[kind |-> "message", to |-> 0], [kind |-> "edit", to |-> 1]>>,
            fuel |-> [news |-> 1, click |-> 1, open |-> 0, fault |-> 0]]}
=============================================================================
