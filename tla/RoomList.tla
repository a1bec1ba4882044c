-------------------------------- MODULE RoomList --------------------------------
(***************************************************************************)
(* The room list between sync responses and the user: RoomListModel,       *)
(* SyncResponseHandler, the list's context menu and the room directory.    *)
(*                                                                         *)
(* A response of the sync thread is posted to the UI thread, prepared by a *)
(* worker and posted again to be applied.  A command of the context menu   *)
(* is a worker's request, its outcome is posted and changes the list.      *)
(*                                                                         *)
(* Left out: what the rows show and their order (a new row goes anywhere), *)
(* the open room's events (RoomTimeline), the counts in the headers.       *)
(***************************************************************************)
EXTENDS Naturals, Sequences, FiniteSets, SequencesExt, Selection

CONSTANTS
    Rooms, NoRoom,
    Member0, \* the memberships at the first response
    Budget   \* bound: changes at the server, responses, commands, rooms opened

Memberships == {"none", "invite", "join", "left"}
Steps       == {"change", "response", "command", "open"}

\* What the constants are assumed to be.
ConstantsOK == /\ IsFiniteSet(Rooms) /\ NoRoom \notin Rooms
               /\ Member0 \in [Rooms -> Memberships]
               /\ Budget \in [Steps -> Nat]

VARIABLES
    member,    \* at the server
    news,      \* rooms whose membership the server has not told
    responses, \* responses posted to SyncResponseHandler::handle
    workers,   \* responses that workers prepare
    commands,  \* commands under way
    posted,    \* updates and outcomes posted to the UI thread
    rows,      \* the rows of RoomListModel
    invite,    \* the rooms whose row is an invitation
    hidden,    \* hidden rooms, of the model and the store
    open,      \* RoomHandler::currentRoomIdStr_
    menu,      \* the context menu that is open
    switcher,  \* the rooms that the RoomSwitcherDialog lists, {} if it is closed
    latest,    \* history: number of the latest response applied
    told,      \* history: number of responses
    odd,       \* history: rooms whose steps were overtaken
    fuel       \* what is left of Budget

vars == <<member, news, responses, workers, commands, posted, rows, invite, hidden,
          open, menu, switcher, latest, told, odd, fuel>>

server == <<member, news>>
queues == <<responses, workers, commands, posted>>
list   == <<rows, invite, hidden>>
popups == <<menu, switcher>>
past   == <<latest, told, odd>>

Kinds    == {"leave", "accept", "reject", "forget", "hide"}
Response == [n : Nat, rooms : UNION {[R -> Memberships] : R \in SUBSET Rooms}]
Command  == [kind : Kinds \cup {"browse"}, room : Rooms]
Outcome  == [what : {"outcome"}, kind : Kinds \cup {"browse"}, room : Rooms, ok : BOOLEAN]
Update   == [what : {"update"}, n : Nat, rooms : UNION {[R -> Memberships] : R \in SUBSET Rooms}]
NoMenu   == [asked |-> NoRoom, at |-> 0, moved |-> FALSE]

Spend(step) == fuel[step] > 0 /\ fuel' = [fuel EXCEPT ![step] = @ - 1]

Init == /\ member = Member0
        /\ news = {r \in Rooms : Member0[r] # "none"}
        /\ responses = <<>>
        /\ workers = {}
        /\ commands = {}
        /\ posted = <<>>
        /\ rows = <<>>
        /\ invite = {}
        /\ hidden = {}
        /\ open = NoRoom
        /\ menu = NoMenu
        /\ switcher = {}
        /\ latest = 0
        /\ told = 0
        /\ odd = {}
        /\ fuel = Budget

-----------------------------------------------------------------------------
(***************************************************************************)
(* The model                                                               *)
(***************************************************************************)
Listed(r) == r \in ToSet(rows)

\* Rows move below the menu, which keeps a pointer into the vector of rooms.
Moved(m) == IF m.asked # NoRoom THEN [m EXCEPT !.moved = TRUE] ELSE m

\* The lists with the rooms of R in addition: a new row goes anywhere.
Extended(seq, R) ==
    LET all == ToSet(seq) \cup R
    IN  {s \in [1..Cardinality(all) -> all] :
             IsInjective(s) /\ Selected(s, {i \in DOMAIN s : s[i] \in ToSet(seq)}) = seq}

\* upsertRoom, of each room of R, ignores a hidden one, else updates its row or inserts one.
\* MUTANT: the rooms that the user hid are listed again.
UpsertsHidden(seq, R) == Extended(seq, R)

Upserts(seq, R) == Extended(seq, R \ hidden)

\* The rows without those of R.
RemovedRooms(seq, R) == Selected(seq, {i \in DOMAIN seq : seq[i] \notin R})

-----------------------------------------------------------------------------
(***************************************************************************)
(* The server, and another device of the user                              *)
(***************************************************************************)
Change(r) ==
    /\ Spend("change")
    /\ \E m \in Memberships \ {member[r], "none"} : member' = [member EXCEPT ![r] = m]
    /\ news' = news \cup {r}
    /\ UNCHANGED <<queues, list, open, popups, past>>

\* The sync thread's response.
Respond ==
    /\ news # {} /\ Spend("response")
    /\ told' = told + 1
    /\ responses' = Append(responses, [n |-> told', rooms |-> [r \in news |-> member[r]]])
    /\ news' = {}
    /\ UNCHANGED <<member, workers, commands, posted, list, open, popups, latest, odd>>

-----------------------------------------------------------------------------
(***************************************************************************)
(* A response's way to the list                                            *)
(***************************************************************************)
\* SyncResponseHandler::handle gives it to the pool.
Handle == /\ responses # <<>>
          /\ workers' = workers \cup {Head(responses)}
          /\ responses' = Tail(responses)
          /\ UNCHANGED <<server, commands, posted, list, open, popups, past, fuel>>

\* prepareRoomSyncUpdate; two workers may finish in either order.
Prepare(w) == /\ w \in workers
              /\ workers' = workers \ {w}
              /\ posted' = Append(posted, [what |-> "update", n |-> w.n, rooms |-> w.rooms])
              /\ UNCHANGED <<server, responses, commands, list, open, popups, past, fuel>>

\* Rooms of an update by what becomes of their rows.
ToRemove(u) == {r \in DOMAIN u.rooms : u.rooms[r] = "left"}
ToUpsert(u) == {r \in DOMAIN u.rooms : u.rooms[r] \in {"join", "invite"}}

\* The removed room that is open is closed.
CloseRemoved(u) == open' = IF open \in ToRemove(u) THEN NoRoom ELSE open

\* applyRoomSyncUpdate, and the rest of the callback.
Apply(u) ==
    /\ rows' \in Upserts(RemovedRooms(rows, ToRemove(u)), ToUpsert(u))
    /\ invite' = (invite \ DOMAIN u.rooms)
                     \cup {r \in ToUpsert(u) : u.rooms[r] = "invite"}
    /\ CloseRemoved(u)
    /\ menu' = IF rows' # rows THEN Moved(menu) ELSE menu
    /\ latest' = IF u.n > latest THEN u.n ELSE latest
    /\ odd' = odd \cup (IF u.n < latest THEN DOMAIN u.rooms ELSE {})
    /\ UNCHANGED <<hidden, commands>>

-----------------------------------------------------------------------------
(***************************************************************************)
(* The user                                                                *)
(***************************************************************************)
NoPopup == menu = NoMenu /\ switcher = {}

OpenRoom(r) == /\ NoPopup /\ Listed(r) /\ open # r
               /\ Spend("open")
               /\ open' = r
               /\ UNCHANGED <<server, queues, list, popups, past>>

\* Ctrl+K: RoomSwitcherDialog lists the rooms as they are, without invitations.
OpenSwitcher == /\ NoPopup /\ ToSet(rows) \ invite # {}
                /\ fuel["open"] > 0
                /\ switcher' = ToSet(rows) \ invite
                /\ UNCHANGED <<server, queues, list, open, menu, past, fuel>>

\* One is chosen, which opens it if its row is still there; or none is.
PickRoom(r) == /\ r \in switcher
               /\ Spend("open")
               /\ switcher' = {}
               /\ open' = IF Listed(r) THEN r ELSE open
               /\ UNCHANGED <<server, queues, list, menu, past>>

RejectSwitcher == /\ switcher # {}
                  /\ switcher' = {}
                  /\ UNCHANGED <<server, queues, list, open, menu, past, fuel>>

\* The menu runs an event loop of its own.
OpenMenu(i) == /\ NoPopup /\ i \in DOMAIN rows
               /\ fuel["command"] > 0
               /\ menu' = [asked |-> rows[i], at |-> i, moved |-> FALSE]
               /\ UNCHANGED <<server, queues, list, open, switcher, past, fuel>>

DismissMenu == /\ menu # NoMenu
               /\ menu' = NoMenu
               /\ UNCHANGED <<server, queues, list, open, switcher, past, fuel>>

\* onRoomListContextMenu reads the room through the pointer after the menu closed:
\* the room of the row that is there now, or what the vector's old memory says.
Pointed == {menu.asked} \cup (IF menu.at \in DOMAIN rows THEN {rows[menu.at]} ELSE {})

\* "Hide from list" is done at once.
Hide(r) == /\ hidden' = hidden \cup {r}
           /\ rows' = RemovedRooms(rows, {r})
           /\ invite' = invite \ {r}
           /\ UNCHANGED commands

\* The menu has the commands for the row as it was when it opened.
Choose(kind) ==
    /\ menu # NoMenu
    /\ Spend("command")
    /\ \E r \in Pointed :
           /\ kind \in IF menu.asked \in invite THEN {"accept", "reject", "hide"}
                       ELSE {"leave", "forget", "hide"}
           /\ IF kind = "hide" THEN Hide(r)
              ELSE /\ commands' = commands \cup {[kind |-> kind, room |-> r]}
                   /\ UNCHANGED list
           /\ odd' = IF r # menu.asked THEN odd \cup {r, menu.asked} ELSE odd
    /\ menu' = NoMenu
    /\ UNCHANGED <<server, responses, workers, posted, open, switcher, latest, told>>

\* The toolbar's directory: a room is joined there.
Browse(r) == /\ NoPopup /\ member[r] \in {"none", "left"}
             /\ Spend("command")
             /\ commands' = commands \cup {[kind |-> "browse", room |-> r]}
             /\ UNCHANGED <<server, responses, workers, posted, list, open, popups, past>>

-----------------------------------------------------------------------------
(***************************************************************************)
(* Commands                                                                *)
(***************************************************************************)
After(kind) == IF kind \in {"accept", "browse"} THEN "join" ELSE "left"

\* The request.  A room that is forgotten at once may never be told as left.
Request(c) ==
    /\ c \in commands
    /\ commands' = commands \ {c}
    /\ \/ /\ member' = [member EXCEPT ![c.room] = After(c.kind)]
          /\ news' \in IF After(c.kind) = "left" THEN {news \cup {c.room}, news \ {c.room}}
                       ELSE {news \cup {c.room}}
          /\ posted' = Append(posted, [what |-> "outcome", kind |-> c.kind, room |-> c.room, ok |-> TRUE])
       \/ /\ UNCHANGED server
          /\ posted' = Append(posted, [what |-> "outcome", kind |-> c.kind, room |-> c.room, ok |-> FALSE])
    /\ UNCHANGED <<responses, workers, list, open, popups, past, fuel>>

\* Left, rejected or forgotten: the row goes, and the room is no longer hidden.
\* MUTANT: the row stays.
Unhidden(r) == hidden' = hidden \ {r} /\ UNCHANGED <<rows, invite>>

Dropped(r) == /\ hidden' = hidden \ {r}
              /\ rows' = RemovedRooms(rows, {r})
              /\ invite' = invite \ {r}

\* Accepted: the row is no invitation any more.
Accepted(r) == invite' = invite \ {r} /\ UNCHANGED <<rows, hidden>>

\* onBrowseRooms.
Browsed(r) == /\ rows' \in Upserts(rows, {r})
              /\ invite' = invite \ {r}
              /\ UNCHANGED hidden

\* The callback of a command.  An update that was prepared before the room was
\* left, and is applied after, is overtaken.
Outcomes(o) ==
    /\ IF ~o.ok THEN UNCHANGED list
       ELSE CASE o.kind \in {"leave", "reject", "forget"} -> Dropped(o.room)
              [] o.kind = "accept" -> Accepted(o.room)
              [] o.kind = "browse" -> Browsed(o.room)
    /\ menu' = IF rows' # rows THEN Moved(menu) ELSE menu
    /\ odd' = IF \/ \E w \in workers \cup ToSet(responses) : o.room \in DOMAIN w.rooms
                 \/ \E u \in ToSet(Tail(posted)) : u.what = "update" /\ o.room \in DOMAIN u.rooms
                 \/ \E u \in ToSet(Tail(posted)) : u.what = "outcome" /\ o.room = u.room
                 \/ \E c \in commands : c.room = o.room
              THEN odd \cup {o.room} ELSE odd
    /\ UNCHANGED <<open, latest, commands>>

Deliver == /\ posted # <<>>
           /\ posted' = Tail(posted)
           /\ LET e == Head(posted)
              IN  \/ e.what = "update" /\ Apply(e)
                  \/ e.what = "outcome" /\ Outcomes(e)
           /\ UNCHANGED <<server, responses, workers, switcher, told, fuel>>

Next == \/ \E r \in Rooms : Change(r) \/ OpenRoom(r) \/ PickRoom(r) \/ Browse(r)
        \/ OpenSwitcher \/ RejectSwitcher
        \/ Respond \/ Handle \/ Deliver
        \/ \E w \in workers : Prepare(w)
        \/ \E i \in DOMAIN rows : OpenMenu(i)
        \/ DismissMenu
        \/ \E kind \in Kinds : Choose(kind)
        \/ \E c \in commands : Request(c)

Spec == Init /\ [][Next]_vars

-----------------------------------------------------------------------------
(***************************************************************************)
(* Properties                                                              *)
(***************************************************************************)
TypeOK == /\ member \in [Rooms -> Memberships]
          /\ news \subseteq Rooms
          /\ responses \in Seq(Response)
          /\ workers \subseteq Response
          /\ commands \subseteq Command
          /\ \A e \in ToSet(posted) : e \in Outcome \cup Update
          /\ ToSet(rows) \subseteq Rooms /\ IsInjective(rows)
          /\ invite \subseteq ToSet(rows) \cup hidden
          /\ open \in Rooms \cup {NoRoom}
          /\ menu.asked \in Rooms \cup {NoRoom} /\ switcher \subseteq Rooms
          /\ odd \subseteq Rooms
          /\ fuel \in [Steps -> Nat]

Quiet == responses = <<>> /\ workers = {} /\ commands = {} /\ posted = <<>> /\ news = {}

(***************************************************************************)
(* When everything is delivered, the list shows the rooms the user is in   *)
(* or invited to, and no others, except the hidden ones -- and those that  *)
(* a response prepared earlier brought back or took away, because it was   *)
(* applied after a later one or after a command's outcome.                 *)
(***************************************************************************)
ListFollowsServer ==
    Quiet => \A r \in Rooms \ odd :
                 /\ Listed(r) <=> member[r] \in {"join", "invite"} /\ r \notin hidden
                 /\ Listed(r) => (r \in invite <=> member[r] = "invite")

(***************************************************************************)
(* A room the user hid stays hidden until he leaves it: no response lists  *)
(* it again, however late it is.                                           *)
(***************************************************************************)
HiddenStaysHidden == ToSet(rows) \cap hidden = {}
=============================================================================
