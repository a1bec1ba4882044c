---------------------------- MODULE RoomTimeline ----------------------------
(***************************************************************************)
(* The open room and its timeline: RoomHandler, RoomStore, RoomDataLoader, *)
(* SyncResponseHandler and the view half of ThreadHandler, which all write *)
(* the one TimelineModel, the one "Load older" button and the one ChatView *)
(* of the window.                                                          *)
(*                                                                         *)
(* Every operation follows the same pattern.  A handler on the UI thread   *)
(* captures some state and enqueues a job on the thread pool; the job does *)
(* its HTTP requests and posts a callback with Qt::QueuedConnection; the   *)
(* UI thread runs the posted callbacks one at a time, in order.  What a    *)
(* callback captured may be stale by the time it runs, because the user    *)
(* and the other callbacks go on acting in between.                        *)
(*                                                                         *)
(* A message is <<room, i>>, the i-th event of the room.  The timeline is  *)
(* the set of its rows: TimelineState (not in this repository) drops an    *)
(* event id it already holds, and no property here depends on the order.   *)
(* Member names, avatars, status texts, window titles, reactions, rows     *)
(* that are no events (date dividers, room-key notices) and the in-place   *)
(* decryption of a row change none of this state and are left out; so are  *)
(* the requests whose answer changes nothing here (loadMembers,            *)
(* setReadMarker, forgetRoom) and the cap of 200 rows.                     *)
(***************************************************************************)
EXTENDS Naturals, Sequences

CONSTANTS
    Rooms,      \* the rooms of the account
    NoRoom,     \* currentRoomIdStr_ is empty
    MaxJobs,    \* bound: jobs the pool holds; at most its 4 workers
    MaxEvents,  \* bound: events of a room
    Starts,     \* what the homeserver may be like at the start, and bounds:
                \* how often each external or user step happens then
    PageSize,   \* PrefsDialog::historyLoadLimit
    ReplyTo     \* the thread root an event replies to, 0 if it does not

Steps == {"click", "load", "thread", "member", "news", "fault"}

ASSUME RoomsAssumption == NoRoom \notin Rooms
ASSUME SizeAssumption ==
    /\ MaxJobs \in 1..4
    /\ MaxEvents \in Nat
    /\ PageSize \in Nat \ {0}
ASSUME StartsAssumption ==
    Starts \subseteq
        [rooms : [Rooms -> [n : 0..MaxEvents, enc : BOOLEAN, memb : {"join", "invite"}]],
         fuel  : [Steps -> Nat]]
ASSUME ReplyToAssumption == ReplyTo \in [1..MaxEvents -> 0..MaxEvents]

VARIABLES
    srv,         \* homeserver: events, encryption and my membership, per room
    told,        \* homeserver: what the last /sync response covered
    list,        \* RoomListModel: state of the room's row
    currentRoom, \* RoomHandler::currentRoomIdStr_
    prevBatch,   \* RoomHandler::currentPrevBatch_
    more,        \* loadMoreBtn_: shown and enabled
    threadRoot,  \* ThreadHandler::currentThreadRoot_; the banner shows it
    rows,        \* TimelineModel: the events that have a row
    lastRow,     \* the event of its last row
    chat,        \* ChatView::roomId_ and encrypted_
    view,        \* timelineView_ and messageEdit_ shown, placeholder_ hidden
    jobs,        \* the thread pool: one job per slot, or a blank one
    queue,       \* callbacks posted to the UI thread
    fuel,        \* what is left of the bounds
    historyFailed \* auxiliary: a history request failed since the timeline
                  \* was last emptied to be loaded again

vars == <<srv, told, list, currentRoom, prevBatch, more, threadRoot, rows,
          lastRow, chat, view, jobs, queue, fuel, historyFailed>>

server == <<srv, told>>
screen == <<currentRoom, prevBatch, more, threadRoot, rows, lastRow, chat, view,
            historyFailed>>

-----------------------------------------------------------------------------
(***************************************************************************)
(* Data                                                                    *)
(***************************************************************************)
Positions  == 1..MaxEvents
EventIds   == Rooms \X Positions
NoEvent    == <<NoRoom, 0>>
Membership == {"join", "invite", "leave"}

\* A room on the homeserver, and its row in the room list.
ServerRoom == [n : 0..MaxEvents, enc : BOOLEAN, memb : Membership]
Row        == [st : {"absent", "invite", "joined"}, enc : BOOLEAN, loaded : BOOLEAN]

\* A pagination token of the homeserver: the events of room before pos.
Token   == [room : Rooms \cup {NoRoom}, pos : 0..(MaxEvents + 1)]
NoToken == [room |-> NoRoom, pos |-> 0]

\* What one /sync response says of one room: membership, whether the
\* encryption event is in it, and its timeline, the events from+1..to.
Delta   == [memb : Membership \cup {"none"}, enc : BOOLEAN,
            from : 0..MaxEvents, to : 0..MaxEvents]
NoDelta == [memb |-> "none", enc |-> FALSE, from |-> 0, to |-> 0]
NoResp  == [r \in Rooms |-> NoDelta]

\* A job of the pool, and also the callback it posts (kind "sync" is posted by
\* the sync thread, kind "apply" by a "prepare" job, kind "state" by "states").
Kinds == {"none", "history", "more", "thread", "accept", "leave",
          "prepare", "states", "sync", "apply", "state"}
JobRecord ==
    [kind  : Kinds,
     room  : Rooms \cup {NoRoom},   \* the captured room
     flag  : BOOLEAN,               \* history: send a read marker; accept:
                                    \* open the room; state: it is encrypted
     token : Token,                 \* from-token, then the token of the reply
     event : EventIds \cup {NoEvent},  \* thread: the root
     page  : SUBSET EventIds,       \* events of the reply (thread: also the
                                    \* captured snapshot)
     resp  : [Rooms -> Delta],
     todo  : SUBSET Rooms,          \* states: rooms still to ask for
     done  : BOOLEAN,               \* the HTTP request returned ...
     ok    : BOOLEAN]               \* ... with success

Job == {job \in JobRecord :
            job.kind \in {"history", "more", "thread", "accept", "leave", "state"}
                => job.room \in Rooms}

NoJob ==
    [kind |-> "none", room |-> NoRoom, flag |-> FALSE, token |-> NoToken,
     event |-> NoEvent, page |-> {}, resp |-> NoResp, todo |-> {},
     done |-> FALSE, ok |-> FALSE]

NewJob(kind, r) == [NoJob EXCEPT !.kind = kind, !.room = r]

Slots == 1..MaxJobs
Busy(k) == jobs[k].kind # "none"

\* ThreadPool::enqueue.  A free worker takes the job at once (MaxJobs is at
\* most the number of workers), so that jobs run and finish in any order.
Enqueue(job) ==
    \E k \in Slots :
        /\ ~Busy(k)
        /\ \A i \in 1..(k - 1) : Busy(i)
        /\ jobs' = [jobs EXCEPT ![k] = job]

EnqueueIf(c, job) == IF c THEN Enqueue(job) ELSE UNCHANGED jobs

Spend(step) ==
    /\ fuel[step] > 0
    /\ fuel' = [fuel EXCEPT ![step] = @ - 1]

\* The UI thread takes the next posted callback, which is of the given kind.
TakeCallback(kind) ==
    /\ queue # <<>>
    /\ Head(queue).kind = kind
    /\ queue' = Tail(queue)

\* The last row once page was appended at the back, in the room's order.
LastRowAfter(page) ==
    LET new == page \ rows
    IN  IF new = {} THEN {lastRow}
        ELSE {e \in new : \A d \in new : d[2] <= e[2]}

\* The rows after a reply was appended or prepended.
\* MUTANT: the page replaces what is there.
RowsReplacedBy(cb) == IF cb.ok THEN cb.page ELSE rows

RowsWith(cb) == IF cb.ok THEN rows \cup cb.page ELSE rows

\* TimelineModel::clear.  MUTANT: it is forgotten.
KeepTimeline == UNCHANGED <<rows, lastRow>>

ClearTimeline == rows' = {} /\ lastRow' = NoEvent

\* loadMoreBtn_->setVisible(false).  MUTANT: the button is reset altogether.
ResetLoadMore == [shown |-> FALSE, enabled |-> TRUE]

HideLoadMore == [more EXCEPT !.shown = FALSE]

-----------------------------------------------------------------------------
(***************************************************************************)
(* The homeserver, and what other users and devices do there               *)
(***************************************************************************)
NewMessage(r) ==
    /\ Spend("news")
    /\ srv[r].memb = "join"
    /\ srv[r].n < MaxEvents
    /\ srv' = [srv EXCEPT ![r].n = @ + 1]
    /\ UNCHANGED <<told, list, screen, jobs, queue>>

EnableEncryption(r) ==
    /\ Spend("news")
    /\ srv[r].memb = "join"
    /\ ~srv[r].enc
    /\ srv' = [srv EXCEPT ![r].enc = TRUE]
    /\ UNCHANGED <<told, list, screen, jobs, queue>>

\* Kicked, or left on another device; invited (again) after that.
MembershipChange(r) ==
    /\ Spend("member")
    /\ srv' = [srv EXCEPT ![r].memb = IF @ = "leave" THEN "invite" ELSE "leave"]
    /\ UNCHANGED <<told, list, screen, jobs, queue>>

\* What /sync returns of room r since the last response.  A room that was not
\* joined then comes with its recent timeline and its state.
DeltaOf(r) ==
    LET fresh == told[r].memb # "join"
    IN  IF srv[r] = told[r] \/ (srv[r].memb # "join" /\ srv[r].memb = told[r].memb)
        THEN NoDelta
        ELSE IF srv[r].memb = "join"
        THEN [memb |-> "join",
              enc  |-> srv[r].enc /\ (fresh \/ ~told[r].enc),
              from |-> IF fresh THEN 0 ELSE told[r].n,
              to   |-> srv[r].n]
        ELSE [NoDelta EXCEPT !.memb = srv[r].memb]

\* The sync thread hands the response to the UI thread.  A response without
\* any room is dropped by SyncResponseHandler::handle and not modelled.
SyncReturn ==
    LET resp == [r \in Rooms |-> DeltaOf(r)]
    IN  /\ told # srv
        /\ told' = srv
        /\ queue' = IF resp = NoResp THEN queue
                    ELSE Append(queue, [NewJob("sync", NoRoom) EXCEPT !.resp = resp])
        /\ UNCHANGED <<srv, list, screen, jobs, fuel>>

\* Whether the homeserver lets me read room r.
MayRead(r) == CASE srv[r].memb = "join"   -> {TRUE}
                [] srv[r].memb = "invite" -> {FALSE}
                [] srv[r].memb = "leave"  -> BOOLEAN

Failed(job)   == [job EXCEPT !.done = TRUE]
Answered(job) == [job EXCEPT !.done = TRUE, !.ok = TRUE]

\* GET /messages backwards from position before: at most PageSize events, and
\* the token the code keeps.  The server omits "end" when nothing is left, and
\* the code then falls back to "start", the token it asked with.
MessagesReply(job, before) ==
    LET first == IF before > PageSize THEN before - PageSize ELSE 1
    IN  [Answered(job) EXCEPT
            !.page  = {<<job.room, i>> : i \in first..(before - 1)},
            !.token = [room |-> job.room,
                       pos  |-> IF first > 1 THEN first ELSE before]]

\* The position a from-token denotes in the room of the job.  A token of
\* another room denotes any position, or none (the request then fails).
PositionsOf(job) ==
    IF job.token.room = job.room THEN {job.token.pos}
    ELSE 1..(srv[job.room].n + 1)

MessagesReplies(job) ==
    LET before == IF job.kind = "history" THEN {srv[job.room].n + 1}
                  ELSE PositionsOf(job)
    IN  {MessagesReply(job, b) : b \in IF TRUE \in MayRead(job.room) THEN before ELSE {}}
        \cup (IF \/ FALSE \in MayRead(job.room)
                 \/ job.kind = "more" /\ job.token.room # job.room
              THEN {Failed(job)} ELSE {})

\* GET /relations of the thread root: its replies, with the root itself or
\* without; without it the code shows the captured root, part of job.page.
RepliesTo(e) == {<<e[1], i>> : i \in {j \in 1..srv[e[1]].n : ReplyTo[j] = e[2]}}

ThreadReplies(job) ==
    IF job.event[1] # job.room THEN {Failed(job)}
    ELSE {IF ok THEN [Answered(job) EXCEPT !.page = @ \cup RepliesTo(job.event) \cup root]
          ELSE Failed(job) :
              ok \in MayRead(job.room), root \in {{}, {job.event}}}

-----------------------------------------------------------------------------
(***************************************************************************)
(* The worker threads                                                      *)
(***************************************************************************)
Requesting(k, kinds) == jobs[k].kind \in kinds /\ ~jobs[k].done

\* The homeserver answers a request that only reads.
WorkerRead(k) ==
    /\ Requesting(k, {"history", "more", "thread"})
    /\ \E reply \in IF jobs[k].kind = "thread" THEN ThreadReplies(jobs[k])
                    ELSE MessagesReplies(jobs[k]) :
            jobs' = [jobs EXCEPT ![k] = reply]
    /\ UNCHANGED <<server, list, screen, queue, fuel>>

\* The homeserver answers joinRoom or leaveRoom.  Joining a room I left works
\* when it is public; leaving one I am not in may be refused.
WorkerMembership(k) ==
    LET r == jobs[k].room
        memb == IF jobs[k].kind = "accept" THEN "join" ELSE "leave"
    IN  /\ Requesting(k, {"accept", "leave"})
        /\ \E ok \in IF srv[r].memb # "leave" THEN {TRUE} ELSE BOOLEAN :
              /\ srv' = IF ok THEN [srv EXCEPT ![r].memb = memb] ELSE srv
              /\ jobs' = [jobs EXCEPT ![k] = IF ok THEN Answered(@) ELSE Failed(@)]
        /\ UNCHANGED <<told, list, screen, queue, fuel>>

\* The request fails: network, timeout, rate limit, a body that is not JSON.
\* joinRoom and leaveRoom may have taken effect although the answer is lost.
WorkerFault(k) ==
    LET r == jobs[k].room
        effects == CASE jobs[k].kind = "accept" -> {srv[r].memb, "join"}
                     [] jobs[k].kind = "leave"  -> {srv[r].memb, "leave"}
                     [] OTHER                   -> {srv[r].memb}
    IN  /\ Spend("fault")
        /\ Requesting(k, {"history", "more", "thread", "accept", "leave"})
        /\ \E memb \in effects : srv' = [srv EXCEPT ![r].memb = memb]
        /\ jobs' = [jobs EXCEPT ![k] = Failed(@)]
        /\ UNCHANGED <<told, list, screen, queue>>

\* The worker posts the answer to the UI thread and is free again.
WorkerPost(k) ==
    /\ jobs[k].done
    /\ queue' = Append(queue, jobs[k])
    /\ jobs' = [jobs EXCEPT ![k] = NoJob]
    /\ UNCHANGED <<server, list, screen, fuel>>

\* SyncApplier::prepareRoomSyncUpdate: of the timelines only the one of the
\* captured room is kept.
WorkerPrepare(k) ==
    /\ jobs[k].kind = "prepare"
    /\ queue' = Append(queue,
          [jobs[k] EXCEPT
              !.kind = "apply",
              !.resp = [r \in Rooms |-> IF r = jobs[k].room THEN @[r]
                                        ELSE [@[r] EXCEPT !.from = 0, !.to = 0]]])
    /\ jobs' = [jobs EXCEPT ![k] = NoJob]
    /\ UNCHANGED <<server, list, screen, fuel>>

\* One round of the loop of batchLoadRoomStates: ask for a room's state and
\* post it.  A failed request reads as "not encrypted".
WorkerStates(k) ==
    /\ jobs[k].kind = "states"
    /\ \E r \in jobs[k].todo :
          /\ \E ok \in BOOLEAN :
                /\ \/ ok \in MayRead(r) /\ UNCHANGED fuel
                   \/ ~ok /\ Spend("fault")
                /\ queue' = Append(queue, [NewJob("state", r) EXCEPT !.flag = ok /\ srv[r].enc])
          /\ LET rest == jobs[k].todo \ {r}
             IN  jobs' = [jobs EXCEPT ![k] = IF rest = {} THEN NoJob
                                             ELSE [jobs[k] EXCEPT !.todo = rest]]
    /\ UNCHANGED <<server, list, screen>>

-----------------------------------------------------------------------------
(***************************************************************************)
(* The UI thread: what the user does                                       *)
(***************************************************************************)
\* RoomHandler::onRoomClicked, for a row of the list.  The chat gets the
\* encryption flag the list has at this moment.
OpenRoom(r) ==
    /\ currentRoom' = r
    /\ threadRoot' = NoEvent
    /\ prevBatch' = NoToken
    /\ chat' = [room |-> r, enc |-> list'[r].enc]
    /\ ClearTimeline
    /\ view' = TRUE
    /\ more' = HideLoadMore
    /\ historyFailed' = FALSE
    /\ Enqueue([NewJob("history", r) EXCEPT !.flag = TRUE])

OnRoomClicked(r) ==
    /\ Spend("click")
    /\ list[r].st # "absent"
    /\ UNCHANGED list
    /\ OpenRoom(r)
    /\ UNCHANGED <<server, queue>>

\* The button takes clicks while it is shown and enabled.
OnLoadMoreClicked ==
    /\ Spend("load")
    /\ more.shown /\ more.enabled
    /\ currentRoom # NoRoom /\ prevBatch # NoToken
    /\ more' = [more EXCEPT !.enabled = FALSE]
    /\ Enqueue([NewJob("more", currentRoom) EXCEPT !.token = prevBatch])
    /\ UNCHANGED <<server, list, currentRoom, prevBatch, threadRoot, rows,
                   lastRow, chat, view, queue, historyFailed>>

\* ThreadHandler::openThreadView, from a row or from the list of the room's
\* threads.  The captured snapshot is the rows of the thread.
IsThreadRoot(e) == \E i \in Positions : ReplyTo[i] = e[2]

OpenThreadView(root) ==
    /\ Spend("thread")
    /\ currentRoom # NoRoom
    /\ root \in rows \/ (root[1] = currentRoom /\ root[2] <= srv[currentRoom].n)
    /\ IsThreadRoot(root)
    /\ threadRoot' = root
    /\ ClearTimeline
    /\ Enqueue([NewJob("thread", currentRoom) EXCEPT
                    !.event = root,
                    !.page  = {e \in rows : e = root \/
                                  (e[1] = root[1] /\ ReplyTo[e[2]] = root[2])}])
    /\ UNCHANGED <<server, list, currentRoom, prevBatch, more, chat, view, queue,
                   historyFailed>>

\* RoomHandler::closeThreadView: the back link of the banner, and Esc at any
\* time.  The history is loaded again, without a read marker.
CloseThreadView ==
    /\ Spend("thread")
    /\ threadRoot' = NoEvent
    /\ ClearTimeline
    /\ historyFailed' = FALSE
    /\ EnqueueIf(currentRoom # NoRoom, NewJob("history", currentRoom))
    /\ UNCHANGED <<server, list, currentRoom, prevBatch, more, chat, view, queue>>

\* RoomHandler::acceptInvite opens the room once joined; the context menu's
\* "accept" does not.
AcceptInvite(r, open) ==
    /\ Spend("click")
    /\ list[r].st = "invite"
    /\ Enqueue([NewJob("accept", r) EXCEPT !.flag = open])
    /\ UNCHANGED <<server, list, screen, queue>>

\* RoomHandler::rejectInvite and the context menu's "reject" and "leave".
LeaveRoom(r) ==
    /\ Spend("click")
    /\ list[r].st # "absent"
    /\ Enqueue(NewJob("leave", r))
    /\ UNCHANGED <<server, list, screen, queue>>

-----------------------------------------------------------------------------
(***************************************************************************)
(* The UI thread: posted callbacks                                         *)
(***************************************************************************)
\* RoomDataLoader::loadHistory's callback and the one of onRoomClicked (flag)
\* or closeThreadView inside it.  Neither looks at the open room.  The former
\* then sends a read marker for the last row (SendsMarker).
DeliverHistory ==
    LET cb == Head(queue)
        shows == cb.ok /\ cb.page # {}
    IN  /\ TakeCallback("history")
        /\ rows' = RowsWith(cb)
        /\ lastRow' \in IF cb.ok THEN LastRowAfter(cb.page) ELSE {lastRow}
        /\ prevBatch' = IF shows THEN cb.token ELSE prevBatch
        /\ more' = [more EXCEPT !.shown = @ \/ (shows /\ cb.token # NoToken)]
        /\ historyFailed' = (historyFailed \/ ~cb.ok)
        /\ UNCHANGED <<server, list, currentRoom, threadRoot, chat, view, jobs, fuel>>

\* The button once the callback ran: every path enables it again.
\* MUTANT: a failure returns before that.
ButtonStuckAfter(cb) == [shown |-> more.shown, enabled |-> cb.ok]

ButtonAfter(cb) == [shown   |-> more.shown /\ (cb.ok => cb.token # NoToken),
                    enabled |-> TRUE]

\* The callback of onLoadMoreClicked.
DeliverMore ==
    LET cb == Head(queue)
    IN  /\ TakeCallback("more")
        /\ rows' = RowsWith(cb)
        /\ lastRow' \in IF cb.ok /\ rows = {} THEN LastRowAfter(cb.page) ELSE {lastRow}
        /\ prevBatch' = IF cb.ok THEN cb.token ELSE prevBatch
        /\ more' = ButtonAfter(cb)
        /\ UNCHANGED <<server, list, currentRoom, threadRoot, chat, view, jobs, fuel,
                       historyFailed>>

\* The callback of openThreadView, which looks at neither the open room nor
\* the open thread.  The server's order of the replies is not known.
DeliverThread ==
    LET cb == Head(queue)
        new == cb.page \ rows
    IN  /\ TakeCallback("thread")
        /\ rows' = RowsWith(cb)
        /\ lastRow' \in IF cb.ok /\ new # {} THEN new ELSE {lastRow}
        /\ UNCHANGED <<server, list, currentRoom, prevBatch, more, threadRoot,
                       chat, view, jobs, fuel,
                       historyFailed>>

\* SyncResponseHandler::handle: the open room is captured here.
HandleSync ==
    /\ TakeCallback("sync")
    /\ Enqueue([NewJob("prepare", currentRoom) EXCEPT !.resp = Head(queue).resp])
    /\ UNCHANGED <<server, list, screen, fuel>>

RoomsWith(resp, memb) == {r \in Rooms : resp[r].memb = memb}

Absent == [st |-> "absent", enc |-> FALSE, loaded |-> FALSE]

\* MUTANTS of UpsertRow: the encryption of the row is overwritten, too.  A room
\* I left keeps a row.
UpsertRowForgets(row, delta) ==
    CASE delta.memb = "leave"  -> Absent
      [] delta.memb = "join"   -> [st |-> "joined", enc |-> delta.enc, loaded |-> FALSE]
      [] delta.memb = "invite" -> [st |-> "invite", enc |-> FALSE, loaded |-> FALSE]
      [] delta.memb = "none"   -> row

UpsertRowKeepsLeft(row, delta) ==
    CASE delta.memb = "none" -> row
      [] delta.memb = "join" -> [st |-> "joined", enc |-> delta.enc \/ row.enc,
                                 loaded |-> FALSE]
      [] OTHER               -> [st |-> delta.memb, enc |-> FALSE, loaded |-> FALSE]

\* The row of a room after RoomStore::applyRoomSyncUpdate: an upsert writes
\* the whole row, but an encrypted room stays encrypted.
UpsertRow(row, delta) ==
    CASE delta.memb = "leave"  -> Absent
      [] delta.memb = "join"   -> [st |-> "joined", enc |-> delta.enc \/ row.enc,
                                   loaded |-> FALSE]
      [] delta.memb = "invite" -> [st |-> "invite", enc |-> FALSE, loaded |-> FALSE]
      [] delta.memb = "none"   -> row

\* The rows the captured room gains (appendTimelineForRoom).
\* MUTANT: the first one is skipped.
SyncRowsButFirst(resp, captured) ==
    IF captured \in RoomsWith(resp, "join")
    THEN {<<captured, i>> : i \in (resp[captured].from + 2)..resp[captured].to}
    ELSE {}

SyncRows(resp, captured) ==
    IF captured \in RoomsWith(resp, "join")
    THEN {<<captured, i>> : i \in (resp[captured].from + 1)..resp[captured].to}
    ELSE {}

\* Whether the loop over the upserted rooms reaches the captured one: it stops
\* after the first notification, which another unread room may cause first.
FlagRefreshes(resp, captured, open) ==
    IF captured \notin RoomsWith(resp, "join") THEN {FALSE}
    ELSE {TRUE} \cup {FALSE : r \in RoomsWith(resp, "join") \ {captured, open}}

\* The open room after a response that may remove it (clearCurrentRoom).
\* MUTANT: its widgets are hidden but it stays the current one.
RoomKeptAfter(resp) == currentRoom

RoomAfter(resp) ==
    IF currentRoom \in RoomsWith(resp, "leave") THEN NoRoom ELSE currentRoom

\* The callback of SyncResponseHandler::handle: the room list, the timeline of
\* the captured room, the removal of the open room, the encryption flag, and
\* batchLoadRoomStates for the joined rooms whose state was not loaded.
ApplySync ==
    LET cb == Head(queue)
        page == SyncRows(cb.resp, cb.room)
        closes == currentRoom \in RoomsWith(cb.resp, "leave")
    IN  /\ TakeCallback("apply")
        /\ list' = [r \in Rooms |-> UpsertRow(list[r], cb.resp[r])]
        /\ rows' = IF closes THEN {} ELSE rows \cup page
        /\ lastRow' \in IF closes THEN {NoEvent} ELSE LastRowAfter(page)
        /\ currentRoom' = RoomAfter(cb.resp)
        /\ view' = (view /\ ~closes)
        /\ more' = IF closes THEN HideLoadMore ELSE more
        /\ \E refresh \in FlagRefreshes(cb.resp, cb.room, currentRoom') :
              chat' = IF refresh THEN [chat EXCEPT !.enc = list'[cb.room].enc] ELSE chat
        /\ LET todo == {r \in Rooms : list'[r].st = "joined" /\ ~list'[r].loaded}
           IN  EnqueueIf(todo # {}, [NewJob("states", NoRoom) EXCEPT !.todo = todo])
        /\ UNCHANGED <<server, prevBatch, threadRoot, fuel, historyFailed>>

\* The callback of batchLoadRoomStates: the list only, not the chat.
DeliverState ==
    LET cb == Head(queue)
    IN  /\ TakeCallback("state")
        /\ list' = IF list[cb.room].st = "absent" THEN list
                   ELSE [list EXCEPT ![cb.room].enc = @ \/ cb.flag,
                                     ![cb.room].loaded = TRUE]
        /\ UNCHANGED <<server, screen, jobs, fuel>>

\* The callback of acceptInvite: the room is opened whatever was opened since.
DeliverAccept ==
    LET cb == Head(queue)
        joins == cb.ok /\ list[cb.room].st # "absent"
    IN  /\ TakeCallback("accept")
        /\ list' = IF joins THEN [list EXCEPT ![cb.room].st = "joined"] ELSE list
        /\ IF joins /\ cb.flag THEN OpenRoom(cb.room) ELSE UNCHANGED <<screen, jobs>>
        /\ UNCHANGED <<server, fuel>>

\* The callback of leaveRoom.  roomLeft is emitted, but RoomHandler's slot is
\* empty: the room stays open until a sync response removes it.
DeliverLeave ==
    LET cb == Head(queue)
    IN  /\ TakeCallback("leave")
        /\ list' = IF cb.ok THEN [list EXCEPT ![cb.room] = Absent] ELSE list
        /\ UNCHANGED <<server, screen, jobs, fuel>>

-----------------------------------------------------------------------------
\* After the first sync: every room is joined or I am invited to it, the list
\* shows what the homeserver said, and no room is open.
Init ==
    /\ \E start \in Starts : srv = start.rooms /\ fuel = start.fuel
    /\ told = srv
    /\ list = [r \in Rooms |->
                 IF srv[r].memb = "join"
                 THEN [st |-> "joined", enc |-> srv[r].enc, loaded |-> TRUE]
                 ELSE [st |-> "invite", enc |-> FALSE, loaded |-> FALSE]]
    /\ currentRoom = NoRoom
    /\ prevBatch = NoToken
    /\ more = [shown |-> FALSE, enabled |-> TRUE]
    /\ threadRoot = NoEvent
    /\ rows = {}
    /\ lastRow = NoEvent
    /\ chat = [room |-> NoRoom, enc |-> FALSE]
    /\ view = FALSE
    /\ jobs = [k \in Slots |-> NoJob]
    /\ queue = <<>>
    /\ historyFailed = FALSE

ServerStep ==
    \E r \in Rooms : NewMessage(r) \/ EnableEncryption(r) \/ MembershipChange(r)

WorkerStep(k) ==
    \/ WorkerRead(k) \/ WorkerMembership(k) \/ WorkerPost(k)
    \/ WorkerPrepare(k) \/ WorkerStates(k)

UserStep ==
    \/ \E r \in Rooms : OnRoomClicked(r) \/ LeaveRoom(r)
    \/ \E r \in Rooms, open \in BOOLEAN : AcceptInvite(r, open)
    \/ OnLoadMoreClicked
    \/ \E root \in EventIds : OpenThreadView(root)
    \/ CloseThreadView

Callback ==
    \/ HandleSync \/ ApplySync
    \/ DeliverHistory \/ DeliverMore \/ DeliverThread \/ DeliverState
    \/ DeliverAccept \/ DeliverLeave

Next ==
    \/ ServerStep \/ SyncReturn \/ UserStep \/ Callback
    \/ \E k \in Slots : WorkerStep(k) \/ WorkerFault(k)

Spec == Init /\ [][Next]_vars

\* The event loop, the sync loop and the workers never stop, and an HTTP
\* request ends: with an answer, or with a fault when it times out.
Fairness ==
    /\ WF_vars(Callback)
    /\ WF_vars(SyncReturn)
    /\ \A k \in Slots : WF_vars(WorkerStep(k))

FairSpec == Spec /\ Fairness

-----------------------------------------------------------------------------
(***************************************************************************)
(* Properties                                                              *)
(***************************************************************************)
\* Every variable keeps its type: in particular the handlers never leave a
\* half-written row, token or callback behind.
TypeOK ==
    /\ srv \in [Rooms -> ServerRoom]
    /\ told \in [Rooms -> ServerRoom]
    /\ list \in [Rooms -> Row]
    /\ currentRoom \in Rooms \cup {NoRoom}
    /\ prevBatch \in Token
    /\ more \in [shown : BOOLEAN, enabled : BOOLEAN]
    /\ threadRoot \in EventIds \cup {NoEvent}
    /\ rows \in SUBSET EventIds
    /\ lastRow \in EventIds \cup {NoEvent}
    /\ chat \in [room : Rooms \cup {NoRoom}, enc : BOOLEAN]
    /\ view \in BOOLEAN
    /\ jobs \in [Slots -> Job]
    /\ queue \in Seq(Job)
    /\ fuel \in [Steps -> Nat]
    /\ historyFailed \in BOOLEAN

\* The button is disabled exactly while one load-older request is on its way,
\* from the click over the worker to the end of the callback, whatever rooms
\* and threads are opened, closed or left meanwhile and however the request
\* ends: it is never lost for good, and never two requests run at once.
InSlot(kind, k)  == jobs[k].kind = kind
InQueue(kind, i) == queue[i].kind = kind

AtMostOneMore ==
    /\ \A k, l \in Slots : InSlot("more", k) /\ InSlot("more", l) => k = l
    /\ \A i, j \in 1..Len(queue) : InQueue("more", i) /\ InQueue("more", j) => i = j
    /\ \A k \in Slots, i \in 1..Len(queue) : ~(InSlot("more", k) /\ InQueue("more", i))

MoreOnItsWay ==
    \/ \E k \in Slots : InSlot("more", k)
    \/ \E i \in 1..Len(queue) : InQueue("more", i)

LoadMoreSingleFlight ==
    /\ AtMostOneMore
    /\ ~more.enabled <=> MoreOnItsWay

\* While the message box is shown it sends to the room that is open: three
\* handlers (a click, an accepted invite, a sync that removes the room) write
\* the open room, the chat and the widgets, and none may leave them apart.
MessageBoxMatchesRoom ==
    /\ view <=> currentRoom # NoRoom
    /\ view => chat.room = currentRoom

\* Nothing is going on: the client has caught up with the homeserver.
Quiet ==
    /\ queue = <<>>
    /\ \A k \in Slots : ~Busy(k)
    /\ told = srv

NewestPage(r) == {<<r, i>> : i \in {j \in 1..srv[r].n : j + PageSize > srv[r].n}}

\* The timing gap between sync and history (PROGRESS.md, B33): whatever the
\* order of history replies, sync responses and clicks, once the client has
\* caught up the open room shows its newest messages, unless its history
\* request failed.
NoMessageLost ==
    Quiet /\ currentRoom # NoRoom /\ threadRoot = NoEvent
          /\ srv[currentRoom].memb = "join" /\ ~historyFailed
        => NewestPage(currentRoom) \subseteq rows

\* A joined room that the list shows as encrypted never turns unencrypted
\* again while it stays joined, although a later sync response that does not
\* repeat the encryption event overwrites its row: sends would leak.
EncryptionSticky ==
    [][\A r \in Rooms :
          list[r].st = "joined" /\ list[r].enc /\ list'[r].st = "joined"
              => list'[r].enc]_vars

\* The timeline and the pagination token belong to the open room.
OwnTimeline ==
    currentRoom # NoRoom =>
        /\ \A e \in rows : e[1] = currentRoom
        /\ prevBatch.room \in {currentRoom, NoRoom}

\* Messages of another room can get into the open room's timeline in one way
\* only: a callback that captured another room is delivered late.  No user
\* step, no worker and no callback of the open room itself mixes rooms.
MixedOnlyByStaleCallback ==
    [][OwnTimeline /\ ~OwnTimeline' =>
          queue # <<>> /\ Head(queue).room # currentRoom]_vars

\* "Load older" is a single flight: over all its steps - click, request,
\* answer or fault, posted callback - it behaves like one atomic departure that
\* closes the button and one atomic landing that opens it, and it lands.
MoreFlight == IF ~MoreOnItsWay THEN "none" ELSE IF AtMostOneMore THEN "one" ELSE "many"
Flight == INSTANCE SingleFlight WITH gate <- more.enabled, flight <- MoreFlight

LoadMoreIsSingleFlight == Flight!Spec

\* A message that arrives in the open room is shown eventually: the room does
\* not wait forever for its newest one, unless the user moves on, opens a
\* thread, loses the room, or its history request fails.
WaitsForMessage ==
    /\ currentRoom # NoRoom /\ threadRoot = NoEvent /\ ~historyFailed
    /\ srv[currentRoom].memb = "join" /\ srv[currentRoom].n > 0
    /\ <<currentRoom, srv[currentRoom].n>> \notin rows

MessageShown == WaitsForMessage ~> ~WaitsForMessage

\* room_handler.cpp:35: "a room can become encrypted after it was opened - sends
\* must flip with it".  A text message asks the list as well; /me, attachments
\* and quick reactions go by the flag of the chat alone.
SendsFlipWithRoom ==
    Quiet /\ currentRoom # NoRoom /\ srv[currentRoom].memb = "join"
          /\ list[currentRoom].enc
        => chat.enc

\* room_handler.cpp:147: "Send read marker for last loaded event": the event
\* marked read is one of the room whose history was loaded.
SendsMarker(cb) == cb.kind = "history" /\ cb.flag /\ cb.ok /\ cb.page # {}

MarkerIsOfRoom ==
    [][DeliverHistory /\ SendsMarker(Head(queue))
          => lastRow'[1] = Head(queue).room]_vars

=============================================================================
