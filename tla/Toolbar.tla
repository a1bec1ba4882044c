------------------------------- MODULE Toolbar -------------------------------
(***************************************************************************)
(* What the toolbar does itself (ToolbarHandler): a new direct chat,       *)
(* joining a room by its name, the chat log, and "Reset device keys".      *)
(* Its dialogs are modules of their own.                                   *)
(*                                                                         *)
(* The main window can be used while a request is under way, so a reset    *)
(* may be begun while another one is checked; its answer may open a box    *)
(* over whatever box is open.                                              *)
(*                                                                         *)
(* A device identity is a number.  The engine (Decryptor, SyncEngine) is   *)
(* modelled from how the toolbar uses it.  Left out: wordings, full screen.*)
(***************************************************************************)
EXTENDS Naturals, Sequences, SequencesExt

CONSTANTS
    Rooms, NoRoom,
    Budget \* bound: clicks, failures, other steps of the user

Steps == {"click", "fault", "use"}

\* What the constants are assumed to be.
ConstantsOK == /\ NoRoom \notin Rooms
               /\ Budget \in [Steps -> Nat]

VARIABLES
    boxes,     \* the boxes that are open, the innermost last
    label,     \* statusLabel_: what it says, empty at first
    jobs,      \* requests under way
    posted,    \* callbacks posted to the UI thread
    identity,  \* the decryptor's identity
    outbound,  \* the identity the persisted outbound sessions are bound to, 0 if there are none
    published, \* the homeserver: the identity of the device's keys, 0 if it has none
    relogin,   \* forceReLogin was called
    room,      \* RoomHandler::currentRoomId
    log,       \* the room whose chat log is written, or NoRoom
    verified,  \* history: deletions that the homeserver accepted
    confirmed, \* history: resets without verification that the user agreed to
    unsent,    \* history: an upload of keys failed
    fuel       \* what is left of Budget

vars == <<boxes, label, jobs, posted, identity, outbound, published, relogin, room, log,
          verified, confirmed, unsent, fuel>>

keys == <<identity, outbound, published>>
past == <<verified, confirmed, unsent>>
chat == <<room, log>>

\* Questions, and what a request or the message box of its outcome is for.
Questions == {"who", "encrypt", "join", "reset", "password", "unverified"}
Requests  == {"chat", "joinRoom", "delete", "upload"}
Results   == {"ok", "expired", "refused", "unable"}

Spend(step) == fuel[step] > 0 /\ fuel' = [fuel EXCEPT ![step] = @ - 1]

Init == /\ boxes = <<>> /\ label = "empty" /\ jobs = <<>> /\ posted = <<>>
        /\ identity = 1 /\ outbound = 1 /\ published = 1 /\ relogin = FALSE
        /\ room = NoRoom /\ log = NoRoom
        /\ verified = 0 /\ confirmed = 0 /\ unsent = FALSE
        /\ fuel = Budget

-----------------------------------------------------------------------------
(***************************************************************************)
(* The user                                                                *)
(***************************************************************************)
\* A button of the toolbar, or an item of its settings menu: it asks first.
Click(question) ==
    /\ boxes = <<>> /\ question \in {"who", "join", "reset"}
    /\ Spend("click")
    /\ boxes' = <<question>>
    /\ UNCHANGED <<label, jobs, posted, keys, relogin, chat, past>>

\* What follows the box that is answered with ok; the other boxes stay below.
Instead(box) == boxes' = Append(Front(boxes), box)
Start(kind)  == boxes' = Front(boxes) /\ jobs' = Append(jobs, kind)

\* proceedWithReset: the keys are uploaded by a worker, and the message that they were
\* is shown at once, since the invocation is direct on the UI thread.
\* MUTANT: the persisted outbound sessions are kept.
ResetKeepingSessions(stack, queue) ==
    /\ identity' = identity + 1
    /\ outbound' = outbound
    /\ jobs' = Append(queue, "upload")
    /\ label' = "reset"
    /\ boxes' = Append(stack, "told")
    /\ UNCHANGED published

ProceedWithReset(stack, queue) ==
    /\ identity' = identity + 1
    /\ outbound' = 0
    /\ jobs' = Append(queue, "upload")
    /\ label' = "reset"
    /\ boxes' = Append(stack, "told")
    /\ UNCHANGED published

\* The innermost box is answered with ok.
Accept ==
    /\ boxes # <<>>
    /\ LET box == Last(boxes)
       IN  \/ /\ box = "who" /\ Instead("encrypt") /\ label' = "creating"
              /\ UNCHANGED <<jobs, keys, confirmed>>
           \/ /\ box = "encrypt" /\ Start("chat") /\ UNCHANGED <<label, keys, confirmed>>
           \/ /\ box = "join" /\ Start("joinRoom") /\ label' = "joining"
              /\ UNCHANGED <<keys, confirmed>>
           \/ /\ box = "reset" /\ Instead("password") /\ UNCHANGED <<label, jobs, keys, confirmed>>
           \/ /\ box = "password" /\ Start("delete") /\ UNCHANGED <<label, keys, confirmed>>
           \/ /\ box = "unverified"
              /\ ProceedWithReset(Front(boxes), jobs) /\ confirmed' = confirmed + 1
           \/ /\ box = "told" /\ boxes' = Front(boxes) /\ UNCHANGED <<label, jobs, keys, confirmed>>
    /\ UNCHANGED <<posted, relogin, chat, verified, unsent, fuel>>

\* It is cancelled, which answers the question about encryption with no.
Refuse ==
    /\ boxes # <<>> /\ Last(boxes) # "told"
    /\ IF Last(boxes) = "encrypt" THEN Start("chat") ELSE boxes' = Front(boxes) /\ UNCHANGED jobs
    /\ UNCHANGED <<label, posted, keys, relogin, chat, past, fuel>>

\* Another room is opened.
Select(r) == /\ boxes = <<>> /\ r # room
             /\ Spend("use")
             /\ room' = r
             /\ UNCHANGED <<boxes, label, jobs, posted, keys, relogin, log, past>>

\* A message that is sent encrypted makes an outbound session.
Encrypt == /\ outbound = 0
           /\ outbound' = identity
           /\ UNCHANGED <<boxes, label, jobs, posted, identity, published, relogin, chat, past, fuel>>

\* The log file may not open.
OnToggleChatLog ==
    /\ boxes = <<>> /\ room # NoRoom
    /\ Spend("use")
    /\ log' \in IF log # NoRoom THEN {NoRoom} ELSE {room, NoRoom}
    /\ label' = "log"
    /\ UNCHANGED <<boxes, jobs, posted, keys, relogin, room, past>>

-----------------------------------------------------------------------------
(***************************************************************************)
(* Workers                                                                 *)
(***************************************************************************)
\* deleteDevice takes the device's keys away if the homeserver accepts the password.
Delete(result) ==
    /\ IF result = "ok" THEN published' = 0 /\ verified' = verified + 1
       ELSE UNCHANGED <<published, verified>>
    /\ posted' = Append(posted, [kind |-> "delete", result |-> result])
    /\ UNCHANGED <<fuel, unsent>>

Upload == \/ published' = identity /\ UNCHANGED <<fuel, unsent>>
          \/ Spend("fault") /\ unsent' = TRUE /\ UNCHANGED published

Work(i) ==
    /\ i \in DOMAIN jobs
    /\ jobs' = RemoveAt(jobs, i)
    /\ \/ jobs[i] = "delete" /\ \E result \in Results : Delete(result)
       \/ jobs[i] = "upload" /\ Upload /\ UNCHANGED <<posted, verified>>
       \/ /\ jobs[i] \in {"chat", "joinRoom"}
          /\ \E result \in {"ok", "unable"} :
                 posted' = Append(posted, [kind |-> jobs[i], result |-> result])
          /\ UNCHANGED <<published, verified, unsent, fuel>>
    /\ UNCHANGED <<boxes, label, identity, outbound, relogin, chat, confirmed>>

-----------------------------------------------------------------------------
(***************************************************************************)
(* Callbacks                                                               *)
(***************************************************************************)
\* The answer about the password.  MUTANT: a refusal is like no answer at all.
OnDeletedAnyway(result) ==
    \/ /\ result \in {"ok", "refused"}
       /\ ProceedWithReset(boxes, jobs) /\ UNCHANGED relogin
    \/ /\ result = "expired"
       /\ label' = "expired" /\ relogin' = TRUE /\ UNCHANGED <<boxes, jobs, keys>>
    \/ /\ result = "unable"
       /\ boxes' = Append(boxes, "unverified") /\ UNCHANGED <<label, jobs, keys, relogin>>

OnDeleted(result) ==
    \/ /\ result = "ok"
       /\ ProceedWithReset(boxes, jobs) /\ UNCHANGED relogin
    \/ /\ result = "expired"
       /\ label' = "expired" /\ relogin' = TRUE /\ UNCHANGED <<boxes, jobs, keys>>
    \/ /\ result = "refused"
       /\ boxes' = Append(boxes, "told") /\ UNCHANGED <<label, jobs, keys, relogin>>
    \/ /\ result = "unable"
       /\ boxes' = Append(boxes, "unverified") /\ UNCHANGED <<label, jobs, keys, relogin>>

\* A chat that was made is told in the status line if the line is found by its name,
\* which no label has; one that was not, in a box.
OnChat(result) == /\ boxes' = IF result = "ok" THEN boxes ELSE Append(boxes, "told")
                  /\ UNCHANGED <<label, jobs, keys, relogin>>

\* A room that cannot be joined is not told of.
OnJoined(result) == /\ boxes' = IF result = "ok" THEN Append(boxes, "told") ELSE boxes
                    /\ UNCHANGED <<label, jobs, keys, relogin>>

Deliver == /\ posted # <<>> /\ posted' = Tail(posted)
           /\ LET p == Head(posted)
              IN  \/ p.kind = "delete" /\ OnDeleted(p.result)
                  \/ p.kind = "chat" /\ OnChat(p.result)
                  \/ p.kind = "joinRoom" /\ OnJoined(p.result)
           /\ UNCHANGED <<chat, past, fuel>>

Next == \/ \E q \in Questions : Click(q)
        \/ \E r \in Rooms : Select(r)
        \/ Accept \/ Refuse \/ Encrypt \/ OnToggleChatLog \/ Deliver
        \/ \E i \in DOMAIN jobs : Work(i)

Spec == Init /\ [][Next]_vars

-----------------------------------------------------------------------------
(***************************************************************************)
(* Properties                                                              *)
(***************************************************************************)
TypeOK == /\ boxes \in Seq(Questions \cup {"told"})
          /\ label \in {"empty", "creating", "joining", "reset", "expired", "log"}
          /\ jobs \in Seq(Requests)
          /\ posted \in Seq([kind : Requests \ {"upload"}, result : Results])
          /\ identity \in Nat \ {0}
          /\ outbound \in 0..identity /\ published \in 0..identity
          /\ room \in Rooms \cup {NoRoom} /\ log \in Rooms \cup {NoRoom}
          /\ verified \in Nat /\ confirmed \in Nat
          /\ unsent \in BOOLEAN /\ relogin \in BOOLEAN
          /\ fuel \in [Steps -> Nat]

(***************************************************************************)
(* "Wrong password = abort (truthful, no silent reset)": the identity is   *)
(* regenerated once for every deletion the homeserver accepted and once    *)
(* for every explicit confirmation, never more often, even if several      *)
(* resets are under way.                                                   *)
(***************************************************************************)
ResetIsAuthorised == identity - 1 <= verified + confirmed

(***************************************************************************)
(* A persisted outbound session is bound to the identity the device has,   *)
(* and when everything has ended the homeserver has that identity's keys,  *)
(* unless an upload failed -- which the user is not told.  (A deletion     *)
(* whose answer comes after another reset's upload is followed by one more *)
(* reset.)                                                                 *)
(***************************************************************************)
IdentityIsKnown ==
    /\ outbound \in {0, identity}
    /\ jobs = <<>> /\ posted = <<>> => published = identity \/ unsent
=============================================================================
