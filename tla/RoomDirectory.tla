---------------------------- MODULE RoomDirectory ----------------------------
(***************************************************************************)
(* The public-room directory: RoomDirectoryDialog, opened by the toolbar   *)
(* (ToolbarHandler::onBrowseRooms) and modal until it is closed.           *)
(*                                                                         *)
(* A search and "Load more" ask a worker for one page of rooms; so does    *)
(* joining a room.  Nothing is disabled meanwhile, so several requests may *)
(* be under way, and they may end in any order.  The workers hold a plain  *)
(* pointer to the dialog, which lives on the stack of onBrowseRooms.       *)
(*                                                                         *)
(* A page is one room, <<query, page>>.  Left out: the server's name (as   *)
(* good as a part of the query), what a row says, how the answer is parsed.*)
(***************************************************************************)
EXTENDS Naturals, Sequences, SequencesExt

CONSTANTS
    Queries,
    Pages,  \* the number of pages the server has for a query
    Budget  \* bound: edits, requests, failures

Steps == {"type", "ask", "fault"}

\* What the constants are assumed to be.
ConstantsOK == /\ Pages \in [Queries -> Nat]
               /\ Budget \in [Steps -> Nat]

VARIABLES
    text,        \* the search field
    results,     \* resultsList_
    nextBatch,   \* nextBatch_, <<query, page>>, or <<>> if it is empty
    moreEnabled, \* loadMoreBtn_
    jobs,        \* requests under way
    answers,     \* callbacks posted to the dialog
    boxes,       \* message boxes over the dialog, the innermost last
    accepted,    \* accept() was called
    joinedRoom,  \* joinedRoomId_, <<>> if it is empty
    shown,       \* the dialog exists
    alive,       \* the program runs
    member,      \* the homeserver: rooms the user joined
    listed,      \* rooms upserted to the room list
    asked,       \* history: the query of the last search
    calm,        \* history: requests were made one at a time, for that query
    fuel         \* what is left of Budget

vars == <<text, results, nextBatch, moreEnabled, jobs, answers, boxes, accepted, joinedRoom,
          shown, alive, member, listed, asked, calm, fuel>>

list   == <<results, nextBatch, moreEnabled>>
dialog == <<boxes, accepted, joinedRoom, shown, listed>>

RoomIds == UNION {{<<q, k>> : k \in 1..(Pages[q] + 1)} : q \in Queries}
Token   == RoomIds \cup {<<>>}
Request == [kind : {"search"}, query : Queries, from : Token]
           \cup [kind : {"join"}, room : RoomIds]
Answer  == [request : Request, ok : BOOLEAN]

Spend(step) == fuel[step] > 0 /\ fuel' = [fuel EXCEPT ![step] = @ - 1]

Init == /\ text \in Queries /\ asked = text
        /\ results = <<>> /\ nextBatch = <<>> /\ moreEnabled = FALSE
        /\ jobs = <<>> /\ answers = <<>> /\ boxes = <<>>
        /\ accepted = FALSE /\ joinedRoom = <<>> /\ shown = TRUE /\ alive = TRUE
        /\ member = {} /\ listed = {} /\ calm = TRUE
        /\ fuel = Budget

-----------------------------------------------------------------------------
(***************************************************************************)
(* The user.  A message box keeps the dialog from being used.              *)
(***************************************************************************)
Usable == shown /\ boxes = <<>>

Searching == \E r \in ToSet(jobs) \cup {a.request : a \in ToSet(answers)} : r.kind = "search"

Type(q) == /\ Usable /\ text # q
           /\ Spend("type")
           /\ text' = q
           /\ UNCHANGED <<list, jobs, answers, dialog, alive, member, asked, calm>>

\* doSearch: the worker gets what the fields and the token say now.
DoSearch(from) == jobs' = Append(jobs, [kind |-> "search", query |-> text, from |-> from])

\* The button "Load more" stays as it is.
OnSearchClicked ==
    /\ Usable /\ Spend("ask")
    /\ nextBatch' = <<>>
    /\ results' = <<>>
    /\ DoSearch(<<>>)
    /\ asked' = text
    /\ calm' = ~Searching
    /\ UNCHANGED <<text, moreEnabled, answers, dialog, alive, member>>

OnLoadMoreClicked ==
    /\ Usable /\ moreEnabled /\ Spend("ask")
    /\ DoSearch(nextBatch)
    /\ calm' = (calm /\ ~Searching /\ text = asked)
    /\ UNCHANGED <<text, list, answers, dialog, alive, member, asked>>

\* A double-click on a result.
OnJoinClicked(room) ==
    /\ Usable /\ room \in ToSet(results) /\ Spend("ask")
    /\ jobs' = Append(jobs, [kind |-> "join", room |-> room])
    /\ UNCHANGED <<text, list, answers, dialog, alive, member, asked, calm>>

\* exec() returns and the dialog is destroyed with the callbacks posted to it;
\* onBrowseRooms adds the room that was joined, if one was.
Leave == /\ shown' = FALSE
         /\ answers' = <<>>
         /\ listed' = listed \cup (IF joinedRoom = <<>> THEN {} ELSE {joinedRoom})

Close == /\ Usable
         /\ Leave
         /\ UNCHANGED <<text, list, jobs, boxes, accepted, joinedRoom, alive, member, asked,
                        calm, fuel>>

\* A message box is dismissed, and its callback goes on.
DismissBox ==
    /\ shown /\ boxes # <<>>
    /\ boxes' = Front(boxes)
    /\ accepted' = (accepted \/ Last(boxes) = "joined")
    /\ IF boxes' = <<>> /\ accepted' THEN Leave ELSE UNCHANGED <<shown, answers, listed>>
    /\ UNCHANGED <<text, list, jobs, joinedRoom, alive, member, asked, calm, fuel>>

-----------------------------------------------------------------------------
(***************************************************************************)
(* Workers                                                                 *)
(***************************************************************************)
\* The answer is posted to the dialog.  To post to a dialog that is gone is
\* undefined: the program crashes, or the answer is lost.
Post(answer) ==
    IF shown THEN answers' = Append(answers, answer) /\ UNCHANGED alive
    ELSE alive' \in BOOLEAN /\ UNCHANGED answers

Work(i) ==
    /\ i \in DOMAIN jobs
    /\ jobs' = RemoveAt(jobs, i)
    /\ \/ /\ Post([request |-> jobs[i], ok |-> TRUE])
          /\ member' = member \cup (IF jobs[i].kind = "join" THEN {jobs[i].room} ELSE {})
          /\ UNCHANGED fuel
       \/ /\ Spend("fault")
          /\ Post([request |-> jobs[i], ok |-> FALSE])
          /\ UNCHANGED member
    /\ UNCHANGED <<text, list, dialog, asked, calm>>

-----------------------------------------------------------------------------
(***************************************************************************)
(* Callbacks                                                               *)
(***************************************************************************)
\* The page a request asks for: a token of another query counts as well.
PageOf(r) == IF r.from = <<>> THEN 1 ELSE r.from[2]

\* The token of the page after k.  MUTANT: the token is kept when there is none.
KeptToken(q, k) == IF k + 1 <= Pages[q] THEN <<q, k + 1>> ELSE nextBatch

NextToken(q, k) == IF k + 1 <= Pages[q] THEN <<q, k + 1>> ELSE <<>>

\* A page has come: a first page replaces the list.
ShowPage(r) ==
    LET k == PageOf(r)
    IN  /\ nextBatch' = NextToken(r.query, k)
        /\ moreEnabled' = (nextBatch' # <<>>)
        /\ results' = (IF r.from = <<>> THEN <<>> ELSE results)
                          \o (IF k <= Pages[r.query] THEN <<<<r.query, k>>>> ELSE <<>>)

Deliver ==
    /\ answers # <<>> /\ answers' = Tail(answers)
    /\ LET r == Head(answers).request
       IN  \/ /\ r.kind = "search" /\ Head(answers).ok
              /\ ShowPage(r)
              /\ UNCHANGED <<boxes, joinedRoom>>
           \/ /\ r.kind = "search" /\ ~Head(answers).ok
              /\ UNCHANGED <<list, boxes, joinedRoom>>
           \/ /\ r.kind = "join" /\ Head(answers).ok
              /\ joinedRoom' = r.room
              /\ boxes' = Append(boxes, "joined")
              /\ UNCHANGED list
           \/ /\ r.kind = "join" /\ ~Head(answers).ok
              /\ boxes' = Append(boxes, "failed")
              /\ UNCHANGED <<list, joinedRoom>>
    /\ UNCHANGED <<text, jobs, accepted, shown, alive, member, listed, asked, calm, fuel>>

Next == /\ alive
        /\ \/ \E q \in Queries : Type(q)
           \/ OnSearchClicked \/ OnLoadMoreClicked \/ Close \/ DismissBox
           \/ \E room \in RoomIds : OnJoinClicked(room)
           \/ \E i \in DOMAIN jobs : Work(i)
           \/ Deliver

Spec == Init /\ [][Next]_vars

-----------------------------------------------------------------------------
(***************************************************************************)
(* Properties                                                              *)
(***************************************************************************)
TypeOK == /\ text \in Queries /\ asked \in Queries
          /\ results \in Seq(RoomIds)
          /\ nextBatch \in Token
          /\ jobs \in Seq(Request) /\ answers \in Seq(Answer)
          /\ ToSet(boxes) \subseteq {"joined", "failed"}
          /\ joinedRoom \in Token
          /\ {moreEnabled, accepted, shown, alive, calm} \subseteq BOOLEAN
          /\ listed \subseteq member /\ member \subseteq RoomIds
          /\ fuel \in [Steps -> Nat]

(***************************************************************************)
(* The list is the beginning of what the server has for the last search,   *)
(* each page once and in order, and "Load more" offers the page that       *)
(* follows -- as long as the user waits for every answer and loads more    *)
(* only before he edits the query.                                         *)
(***************************************************************************)
ResultsOfOneSearch ==
    calm => /\ results = [k \in 1..Len(results) |-> <<asked, k>>]
            /\ moreEnabled /\ ~Searching /\ nextBatch # <<>> =>
                   nextBatch = <<asked, Len(results) + 1>>
            /\ ~Searching /\ results # <<>> =>
                   (moreEnabled <=> Len(results) < Pages[asked])
=============================================================================
