--------------------------- MODULE MCRoomTimeline ---------------------------
(***************************************************************************)
(* RoomTimeline for TLC: two rooms of three messages each, pages of two,   *)
(* and budgets that let the interesting interleavings happen.              *)
(***************************************************************************)
EXTENDS RoomTimeline, TLC

CONSTANTS A, B

Zero == [s \in Steps |-> 0]

Joined    == [n |-> 3, enc |-> FALSE, memb |-> "join"]
Encrypted == [Joined EXCEPT !.enc = TRUE]
Invited   == [Encrypted EXCEPT !.memb = "invite"]

BothJoined == [r \in Rooms |-> Joined]

Start(servers, budget) == {[rooms |-> rooms, fuel |-> budget @@ Zero] : rooms \in servers}

\* In every room the third message replies in the thread of the second.
OneThread == [i \in 1..MaxEvents |-> IF i = 3 THEN 2 ELSE 0]
NoThreads == [i \in 1..MaxEvents |-> 0]

\* Switching rooms while messages arrive, are loaded, and requests fail; and an
\* invite accepted, rejected or revoked, rooms left on two devices.
SwitchStarts ==
    Start([Rooms -> {Joined, Encrypted}],
          "click" :> 2 @@ "load" :> 1 @@ "news" :> 1 @@ "fault" :> 1)
    \cup Start({[r \in Rooms |-> IF r = i THEN Invited ELSE Joined] : i \in Rooms},
               "click" :> 2 @@ "member" :> 1)

\* A thread opened and closed over the room's timeline.
ThreadStarts ==
    Start({BothJoined}, "click" :> 1 @@ "thread" :> 2 @@ "load" :> 1 @@ "news" :> 1
                            @@ "fault" :> 1)

\* A room opened while a response that encrypts it is being prepared.
FlagStarts == Start({BothJoined}, "click" :> 1 @@ "news" :> 1)

\* Three clicks: to a room, away, and back.
MarkerStarts == Start({BothJoined}, "click" :> 3)

AnyRoom == Permutations(Rooms)
=============================================================================
