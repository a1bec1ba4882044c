---------------------------- MODULE TimelineIngest ----------------------------
(***************************************************************************)
(* How the events of the open room become rows: appendTimelineForRoom for  *)
(* a sync response, RoomDataLoader::loadHistory for the newest page, and   *)
(* RoomHandler::onLoadMoreClicked for the older ones.  The three convert   *)
(* the same events, each in an order of its own: a response comes oldest   *)
(* first, a page newest first.                                             *)
(*                                                                         *)
(* An event is its position in the room.  A row is a position too, and     *)
(* says the text of that event, of an edit, or none: 0.                    *)
(*                                                                         *)
(* TimelineState belongs to the engine: an id that has a row is dropped,   *)
(* and what concerns a row that is not there has no effect.  A redaction   *)
(* names its event in its content, as in rooms of version 11.  Left out:   *)
(* rooms (RoomTimeline), decryption, names, dividers, the cap on rows, the *)
(* user's own reactions (Reactions).                                       *)
(***************************************************************************)
EXTENDS Naturals, Sequences, FiniteSets, SequencesExt, Selection

CONSTANTS
    MaxEvents, \* bound: events of the room
    PageSize,  \* PrefsDialog::historyLoadLimit
    Starts     \* what the room may hold when it is opened, and bounds: how
               \* often new events, clicks, openings and failures happen then

Steps  == {"news", "click", "open", "fault"}
Ids    == 1..MaxEvents
Event  == [kind : {"message", "edit", "reaction", "redaction"}, to : 0..MaxEvents]

\* The homeserver's rooms: edits and reactions are of messages, and what is redacted is no
\* redaction.
MayFollow(l, i) ==
    LET e == l[i]
        earlier(kind) == {j \in 1..(i - 1) : l[j].kind = kind}
    IN  CASE e.kind = "message" -> e.to = 0
          [] e.kind \in {"edit", "reaction"} -> e.to \in earlier("message")
          [] e.kind = "redaction" -> /\ e.to \in 1..(i - 1) \ earlier("redaction")
                                     /\ \A j \in earlier("redaction") : l[j].to # e.to

\* What the constants are assumed to be.
ConstantsOK == /\ MaxEvents \in Nat /\ PageSize \in Nat \ {0}
               /\ \A s \in Starts : /\ s.log \in Seq(Event) /\ Len(s.log) <= MaxEvents
                                    /\ \A i \in DOMAIN s.log : MayFollow(s.log, i)
                                    /\ s.fuel \in [Steps -> Nat]

VARIABLES
    log,    \* the homeserver: the events of the room
    told,   \* the homeserver: how many of them the responses covered
    rows,   \* TimelineModel: the events that have a row, in the order shown
    shows,  \* the event whose text the row says, 0 for "[Message deleted]" or nothing
    chips,  \* the reactions on the row
    before, \* currentPrevBatch_: the position it denotes, 0 if it is empty
    more,   \* loadMoreBtn_: shown and enabled
    jobs,   \* requests under way, and responses that are being prepared
    posted, \* callbacks posted to the UI thread
    count,  \* history: answers applied so far
    rowAt,  \* history: the answer that made the row, 0 if there is none
    cameAt, \* history: the last answer the event was in since the room was opened
    onPage, \* history: that answer was a page of older events
    fuel    \* what is left of the bounds

vars == <<log, told, rows, shows, chips, before, more, jobs, posted, count,
          rowAt, cameAt, onPage, fuel>>

server == <<log, told>>
screen == <<rows, shows, chips>>
past   == <<count, rowAt, cameAt, onPage>>

Paths  == {"history", "older", "sync"}
Served == [id : Ids, to : 0..MaxEvents,
           kind : {"message", "edit", "reaction", "redaction", "stripped"}]
Answer == [path : Paths, ok : BOOLEAN, page : Seq(Served), at : 0..(MaxEvents + 1)]

Spend(step) == fuel[step] > 0 /\ fuel' = [fuel EXCEPT ![step] = @ - 1]

\* A request, with the position it asks from; a response carries its events.
Job(path, page, at) == [path |-> path, ok |-> TRUE, page |-> page, at |-> at]

\* TimelineModel::clear.
Cleared == /\ rows' = <<>> /\ shows' = [i \in Ids |-> 0] /\ chips' = [i \in Ids |-> {}]
           /\ rowAt' = [i \in Ids |-> 0] /\ cameAt' = [i \in Ids |-> 0]
           /\ onPage' = {}

Init == /\ \E s \in Starts : log = s.log /\ fuel = s.fuel
        /\ told = Len(log)
        /\ rows = <<>> /\ shows = [i \in Ids |-> 0] /\ chips = [i \in Ids |-> {}]
        /\ before = 0 /\ more = [shown |-> FALSE, enabled |-> TRUE]
        /\ jobs = <<Job("history", <<>>, 0)>> /\ posted = <<>>
        /\ count = 0 /\ rowAt = [i \in Ids |-> 0] /\ cameAt = [i \in Ids |-> 0]
        /\ onPage = {}

-----------------------------------------------------------------------------
(***************************************************************************)
(* The homeserver                                                          *)
(***************************************************************************)
Redacted == {log[j].to : j \in {i \in DOMAIN log : log[i].kind = "redaction"}}

NewEvent(e) == /\ Spend("news") /\ Len(log) < MaxEvents
               /\ log' = Append(log, e) /\ MayFollow(log', Len(log'))
               /\ UNCHANGED <<told, screen, before, more, jobs, posted, past>>

\* A redacted event is served without its content: it is no edit and no reaction any more.
Serve(i) == [id |-> i, to |-> log[i].to,
             kind |-> IF i \in Redacted THEN "stripped" ELSE log[i].kind]

From(i, j) == [k \in 1..(j + 1 - i) |-> Serve(i + k - 1)]

\* A response, which SyncApplier::prepareRoomSyncUpdate gets in a job of its own.
SyncReturn == /\ told < Len(log) /\ told' = Len(log)
              /\ jobs' = Append(jobs, Job("sync", From(told + 1, Len(log)), 0))
              /\ UNCHANGED <<log, screen, before, more, posted, past, fuel>>

\* GET /messages, newest first.  At the start of the room "end" is omitted and the code
\* keeps "start", where it asked.
Answered(j) ==
    LET last  == IF j.at = 0 THEN Len(log) ELSE j.at - 1
        first == IF last > PageSize THEN last + 1 - PageSize ELSE 1
    IN  IF j.path = "sync" THEN j
        ELSE [j EXCEPT !.page = Reverse(From(first, last)),
                       !.at = IF first > 1 THEN first ELSE last + 1]

Work(i) ==
    /\ i \in DOMAIN jobs
    /\ jobs' = RemoveAt(jobs, i)
    /\ \/ /\ posted' = Append(posted, Answered(jobs[i]))
          /\ UNCHANGED fuel
       \/ /\ jobs[i].path # "sync" /\ Spend("fault")
          /\ posted' = Append(posted, [jobs[i] EXCEPT !.ok = FALSE])
    /\ UNCHANGED <<server, screen, before, more, past>>

-----------------------------------------------------------------------------
(***************************************************************************)
(* The user                                                                *)
(***************************************************************************)
\* onRoomClicked: the room is opened again.
Open == /\ Spend("open")
        /\ Cleared /\ before' = 0 /\ more' = [more EXCEPT !.shown = FALSE]
        /\ jobs' = Append(jobs, Job("history", <<>>, 0))
        /\ UNCHANGED <<server, posted, count>>

LoadMore == /\ before # 0 /\ more.shown /\ more.enabled /\ Spend("click")
            /\ more' = [more EXCEPT !.enabled = FALSE]
            /\ jobs' = Append(jobs, Job("older", <<>>, before))
            /\ UNCHANGED <<server, screen, before, posted, past>>

-----------------------------------------------------------------------------
(***************************************************************************)
(* Events into rows                                                        *)
(***************************************************************************)
Has(i) == i \in ToSet(rows)

\* The events of the page that are in E, as they come.
Those(page, E) == Selected(page, {k \in DOMAIN page : page[k] \in E})

\* What gets a row: messages, and an edit of a message that has none.  A stripped
\* reaction names no message and is skipped.
Rendered == {e \in Served : e.kind \in {"message", "stripped"} /\ log[e.id].kind # "reaction"}

\* MUTANT: every edit is taken for an update of a row.
MessagesOnly(page) == Those(page, Rendered)

Kept(page) == Those(page, Rendered \cup {e \in Served : e.kind = "edit" /\ ~Has(e.to)})

\* markDeleted and updateBody, in the order of the page: of those of a row the last counts.
Updated(s, page) ==
    LET marks(m) == {k \in DOMAIN page : page[k].kind \in {"edit", "redaction"} /\ page[k].to = m}
        last(m)  == page[CHOOSE k \in marks(m) : \A l \in marks(m) : l <= k]
    IN  [m \in Ids |-> IF ~Has(m) \/ marks(m) = {} THEN s[m]
                       ELSE IF last(m).kind = "edit" THEN last(m).id ELSE 0]

\* addReaction, where the row is in there.
Reacted(there, page) ==
    [m \in Ids |-> chips[m] \cup
        IF m \in there THEN {e.id : e \in {x \in ToSet(page) : x.kind = "reaction" /\ x.to = m}}
        ELSE {}]

\* The rows of kept are added at the back, or in front; those that are there stay as they are.
Added(kept, s, back) ==
    LET new  == Those(kept, {e \in Served : ~Has(e.id)})
        ids  == [k \in DOMAIN new |-> new[k].id]
        full == {e.id : e \in {x \in ToSet(new) : x.kind # "stripped"}}
    IN  /\ rows' = IF back THEN rows \o ids ELSE ids \o rows
        /\ shows' = [i \in Ids |-> IF i \in full THEN i ELSE s[i]]

\* appendTimelineForRoom.
OnSync(p) == /\ Added(Kept(p.page), Updated(shows, p.page), TRUE)
             /\ chips' = Reacted(ToSet(rows'), p.page)
             /\ UNCHANGED <<before, more>>

\* loadHistory: the redactions as they come, the edits oldest first; its callback.
OnHistory(p) ==
    LET ofKind(k) == Those(p.page, {e \in Served : e.kind = k})
        kept == Reverse(Kept(p.page))
        s    == Updated(Updated(shows, ofKind("redaction")), Reverse(ofKind("edit")))
    IN  IF p.ok
        THEN /\ Added(kept, s, TRUE)
             /\ chips' = Reacted(ToSet(rows'), p.page)
             /\ IF kept = <<>> THEN UNCHANGED <<before, more>>
                ELSE before' = p.at /\ more' = [more EXCEPT !.shown = TRUE]
        ELSE UNCHANGED <<screen, before, more>>

\* onLoadMoreClicked: everything as it comes, the rows at last.
OnOlder(p) == /\ IF p.ok
                 THEN /\ Added(Reverse(Kept(p.page)), Updated(shows, p.page), FALSE)
                      /\ chips' = Reacted(ToSet(rows), p.page)
                      /\ before' = p.at
                 ELSE UNCHANGED <<screen, before>>
              /\ more' = [more EXCEPT !.enabled = TRUE]

\* What the answer brought, for the properties.
Noted(p) == LET came == IF p.ok THEN {e.id : e \in ToSet(p.page)} ELSE {}
            IN  /\ count' = count + 1
                /\ rowAt' = [i \in Ids |-> IF i \in ToSet(rows') /\ ~Has(i) THEN count' ELSE rowAt[i]]
                /\ cameAt' = [i \in Ids |-> IF i \in came THEN count' ELSE cameAt[i]]
                /\ onPage' = IF p.path = "older" THEN onPage \cup came ELSE onPage \ came

Deliver == /\ posted # <<>> /\ posted' = Tail(posted)
           /\ LET p == Head(posted)
              IN  /\ \/ p.path = "sync" /\ OnSync(p)
                     \/ p.path = "history" /\ OnHistory(p)
                     \/ p.path = "older" /\ OnOlder(p)
                  /\ Noted(p)
           /\ UNCHANGED <<server, jobs, fuel>>

Next == \/ \E e \in Event : NewEvent(e)
        \/ SyncReturn \/ Open \/ LoadMore
        \/ \E i \in DOMAIN jobs : Work(i)
        \/ Deliver

Spec == Init /\ [][Next]_vars

-----------------------------------------------------------------------------
(***************************************************************************)
(* Properties                                                              *)
(***************************************************************************)
TypeOK == /\ log \in Seq(Event) /\ told \in 0..Len(log)
          /\ ToSet(rows) \subseteq Ids /\ shows \in [Ids -> 0..MaxEvents]
          /\ chips \in [Ids -> SUBSET Ids]
          /\ before \in 0..(MaxEvents + 1) /\ more \in [shown : BOOLEAN, enabled : BOOLEAN]
          /\ \A a \in ToSet(jobs) \cup ToSet(posted) : a \in Answer
          /\ count \in Nat /\ rowAt \in [Ids -> 0..count] /\ cameAt \in [Ids -> 0..count]
          /\ onPage \subseteq Ids
          /\ fuel \in [Steps -> Nat]

(***************************************************************************)
(* Nothing that an answer brought is lost, in whatever order pages,        *)
(* responses and openings came: a message has one row; an edit changed the *)
(* row it found, or has a row; a redaction emptied the row it found, which *)
(* only an edit fills again; a reaction is on the row it found, where a    *)
(* page of older events finds only rows of other answers.                  *)
(***************************************************************************)
Came(kind) == {i \in DOMAIN log : cameAt[i] > 0 /\ log[i].kind = kind}

Found(i) == rowAt[log[i].to] \in 1..(cameAt[i] - 1)

ToldIsShown ==
    /\ Cardinality(ToSet(rows)) = Len(rows)
    /\ \A i \in Came("message") : Has(i)
    /\ \A i \in Came("edit") : \/ Has(i)
                               \/ Found(i) /\ shows[log[i].to] # log[i].to
    /\ \A i \in Came("redaction") :
          LET text == shows[log[i].to]
          IN  Found(i) => text = 0 \/ (text # log[i].to /\ cameAt[text] >= cameAt[i])
    /\ \A i \in Came("reaction") \ Redacted :
          LET m == log[i].to
          IN  Found(i) \/ (rowAt[m] = cameAt[i] /\ i \notin onPage) => i \in chips[m]

(***************************************************************************)
(* "Sync/history/load-more update the original row [...] instead of        *)
(* rendering duplicate rows": no edit has a row beside that of its message.*)
(***************************************************************************)
EditsUpdateTheirRow ==
    \A i \in ToSet(rows) : log[i].kind = "edit" /\ shows[i] # 0 => ~Has(log[i].to)
=============================================================================
