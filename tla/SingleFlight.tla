---------------------------- MODULE SingleFlight ----------------------------
(***************************************************************************)
(* What a button that starts a background request promises: a gate that is *)
(* closed by the click and opened by the result, one request at a time,    *)
(* and every request lands.                                                *)
(***************************************************************************)
VARIABLES
    gate,    \* the control accepts a click
    flight   \* requests under way: "none", "one" or "many"

vars == <<gate, flight>>

TypeOK == gate \in BOOLEAN /\ flight \in {"none", "one", "many"}

Init == gate = TRUE /\ flight = "none"

Depart ==
    /\ gate = TRUE /\ flight = "none"
    /\ gate' = FALSE /\ flight' = "one"

Land ==
    /\ gate = FALSE /\ flight = "one"
    /\ gate' = TRUE /\ flight' = "none"

Next == Depart \/ Land

AlwaysLands == flight # "none" ~> flight = "none"

Spec == Init /\ [][Next]_vars /\ AlwaysLands
=============================================================================
