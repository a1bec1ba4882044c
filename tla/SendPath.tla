------------------------------- MODULE SendPath -------------------------------
(***************************************************************************)
(* What the user sends: ChatView, ThreadHandler's replies, the timeline's  *)
(* context menu and its handlers, shareRoomKeyForRoom.                     *)
(*                                                                         *)
(* Each thing sent is a job of a worker thread that encrypts it if it has  *)
(* to, sees to it that the room's key is shared, and asks the server; what *)
(* came of it is posted to the UI thread and changes the timeline, which   *)
(* may show another room by then.  A message of the text box has a row     *)
(* from the start, the echo.                                               *)
(*                                                                         *)
(* The timeline has the rows of this user's messages only.  Left out are   *)
(* the texts and their escaping, the log, a room that is left or an        *)
(* account that is changed while a job runs (the room is closed then), and *)
(* rotation of the Megolm session: there is one per room.                  *)
(***************************************************************************)
EXTENDS Naturals, Sequences, FiniteSets, SequencesExt

CONSTANTS
    Rooms, NoRoom,
    Kinds,   \* what the user may send
    MaxJobs, \* bound: things sent
    MaxOpens \* bound: rooms opened

\* A message or a thread's message ("send"), /me ("me"), a file ("file"), a reply
\* from the context menu ("reply"); the reaction of the emoji bar ("quick"), the
\* context menu's reaction, edit, deletion and pin.
Messages  == {"send", "me", "file", "reply"}
Marking   == {"quick", "react", "edit", "delete", "pin"}
AllKinds  == Messages \cup Marking

ASSUME RoomsAssumption == NoRoom \notin Rooms
ASSUME KindsAssumption == Kinds \subseteq AllKinds
ASSUME BoundAssumption == MaxJobs \in Nat /\ MaxOpens \in Nat

VARIABLES
    listed, \* RoomData::isEncrypted of the rooms' rows
    ready,  \* the decryptor is initialised
    open,   \* ChatView::roomId_
    flag,   \* ChatView::encrypted_
    rows,   \* the timeline
    jobs,   \* what was sent, in order
    posted, \* the jobs whose result waits for the UI thread
    shared, \* Decryptor::roomKeyShared
    opens,  \* rooms opened so far
    alive   \* the process runs

vars == <<listed, ready, open, flag, rows, jobs, posted, shared, opens, alive>>

Marks == {"reaction", "edited", "deleted", "pinned"}
Forms == {"echo", "real", "notice", "system"}
Row   == [job : 1..MaxJobs, form : Forms, marks : SUBSET Marks]

Stages  == {"prepare", "check", "share", "sharing", "request", "posted", "over"}
Results == {"none", "unprepared", "refused", "ok"}
Keys    == {"none", "had", "fresh", "failed"}
Job == [kind : AllKinds, room : Rooms, target : 0..MaxJobs, \* the row acted on
        known : BOOLEAN,   \* history: the room's row said encrypted when it was sent
        enc : BOOLEAN,     \* it is to be encrypted
        stage : Stages, result : Results,
        key : Keys,        \* what the job found about the room's key
        server : {"no", "plain", "cipher"}, \* what the server has of it
        left : BOOLEAN]    \* history: the timeline was cleared since

Init == /\ listed \in [Rooms -> BOOLEAN]
        /\ ready \in BOOLEAN
        /\ open = NoRoom
        /\ flag = FALSE
        /\ rows = <<>>
        /\ jobs = <<>>
        /\ posted = <<>>
        /\ shared = [r \in Rooms |-> FALSE]
        /\ opens = 0
        /\ alive = TRUE

ui == <<listed, ready, open, flag, opens, alive>>

-----------------------------------------------------------------------------
(***************************************************************************)
(* The timeline model                                                      *)
(***************************************************************************)
\* MUTANT: the number of the job that the row is of is off by one.
RowFromZero(i, form) == [job |-> i - 1, form |-> form, marks |-> {}]

NewRow(i, form) == [job |-> i, form |-> form, marks |-> {}]
Find(i, form)   == {k \in DOMAIN rows : rows[k].job = i /\ rows[k].form = form}
Has(i, form)    == Find(i, form) # {}

\* TimelineModel::appendBack drops an event the timeline has.
Appended(seq, row) ==
    IF row.form = "real" /\ \E k \in DOMAIN seq : seq[k].job = row.job /\ seq[k].form = "real"
    THEN seq
    ELSE Append(seq, row)

\* TimelineModel::replaceEcho: the row that sync brought already stays, and the
\* echo goes; without an echo the row is appended.  MUTANT: the echo becomes the
\* row even so.
ReplacedBlindly(seq, i, form) ==
    IF Has(i, "echo")
    THEN [k \in DOMAIN seq |-> IF k \in Find(i, "echo") THEN NewRow(i, form) ELSE seq[k]]
    ELSE Appended(seq, NewRow(i, form))

Replaced(seq, i, form) ==
    IF Has(i, "echo")
    THEN IF form = "real" /\ Has(i, "real")
         THEN RemoveAt(seq, CHOOSE k \in Find(i, "echo") : TRUE)
         ELSE [k \in DOMAIN seq |-> IF k \in Find(i, "echo")
                                    THEN [NewRow(i, form) EXCEPT !.marks = seq[k].marks]
                                    ELSE seq[k]]
    ELSE Appended(seq, NewRow(i, form))

\* addReaction, updateBody, markDeleted and setPinned change the
\* row of an event if there is one.
Marked(seq, i, mark) ==
    [k \in DOMAIN seq |->
        IF seq[k].job = i /\ seq[k].form = "real"
        THEN [seq[k] EXCEPT !.marks = @ \cup {mark}]
        ELSE seq[k]]

-----------------------------------------------------------------------------
(***************************************************************************)
(* The user                                                                *)
(***************************************************************************)
\* TimelineModel::clear.  MUTANT: the rows stay.
KeepTimeline == UNCHANGED rows

ClearTimeline == rows' = <<>>

\* A room is opened: its rows are loaded by and by (see ServerRow).
OpenRoom(r) ==
    /\ alive /\ opens < MaxOpens /\ r # open
    /\ open' = r
    /\ flag' = listed[r]
    /\ opens' = opens + 1
    /\ ClearTimeline
    /\ jobs' = [i \in DOMAIN jobs |-> [jobs[i] EXCEPT !.left = TRUE]]
    /\ UNCHANGED <<listed, ready, posted, shared, alive>>

\* Is it to be encrypted?  The text box asks the flag and the room's row,
\* the context menu the row, the rest the flag.  MUTANT: all ask the flag.
EncryptByFlag(kind) == kind \notin {"delete", "pin"} /\ flag

Encrypt(kind) ==
    CASE kind = "send" -> flag \/ listed[open]
      [] kind \in {"reply", "react", "edit"} -> listed[open]
      [] kind \in {"me", "file", "quick"} -> flag
      [] kind \in {"delete", "pin"} -> FALSE

\* The row a job acts on: the bar's reaction takes the last one, the menu enables
\* what the row allows.  Left out is a request about an echo, whose id means
\* nothing to the server.
Targets(kind) ==
    LET real(k) == rows[k].form = "real"
        at == {k \in DOMAIN rows :
                  /\ real(k)
                  /\ kind = "quick" => k = Len(rows)
                  /\ kind = "pin" => "pinned" \notin rows[k].marks}
    IN  IF kind \in Messages THEN {0} ELSE {rows[k].job : k \in at}

\* ChatView::doSend and its siblings; the text box's messages have an echo.
Send(kind) ==
    /\ alive /\ open # NoRoom /\ Len(jobs) < MaxJobs
    /\ \E t \in Targets(kind) :
           jobs' = Append(jobs, [kind |-> kind, room |-> open, target |-> t,
                                 known |-> listed[open], enc |-> Encrypt(kind),
                                 stage |-> "prepare", result |-> "none", key |-> "none",
                                 server |-> "no", left |-> FALSE])
    /\ rows' = IF kind \in {"send", "me"} THEN Append(rows, NewRow(Len(jobs'), "echo")) ELSE rows
    /\ UNCHANGED <<ui, posted, shared>>

\* SlashCommandHandler::handleCommand: of the commands of the table only /help
\* does not go through the member pointer, which the table leaves null.
SlashCommand == /\ alive /\ open # NoRoom
                /\ alive' = FALSE
                /\ open' = NoRoom
                /\ flag' = FALSE
                /\ rows' = <<>>
                /\ posted' = <<>>
                /\ UNCHANGED <<listed, ready, jobs, shared, opens>>

-----------------------------------------------------------------------------
(***************************************************************************)
(* The worker                                                              *)
(***************************************************************************)
At(i, stage) == alive /\ i \in DOMAIN jobs /\ jobs[i].stage = stage

Go(i, stage) == jobs' = [jobs EXCEPT ![i].stage = stage]

Post(i, job) == /\ jobs' = [jobs EXCEPT ![i] = [job EXCEPT !.stage = "posted"]]
                /\ posted' = Append(posted, i)

\* Without the decryptor what should be encrypted goes out in clear.
InClear(i) == ~jobs[i].enc \/ ~ready

\* The outbound session, the encryption, an encrypted file's upload: any of them
\* may fail.  An upload in clear may, too, and nobody hears of a file that cannot
\* be read.
Prepare(i) ==
    /\ At(i, "prepare")
    /\ \/ Go(i, IF InClear(i) THEN "request" ELSE "check") /\ UNCHANGED posted
       \/ /\ ~InClear(i) \/ jobs[i].kind = "file"
          /\ Post(i, [jobs[i] EXCEPT !.result = "unprepared"])
    /\ UNCHANGED <<ui, rows, shared>>

\* roomKeyShared.  MUTANT: the key is not looked after.
SkipCheck(i) == /\ At(i, "check")
                /\ Go(i, "request")
                /\ UNCHANGED <<ui, rows, posted, shared>>

Check(i) == /\ At(i, "check")
            /\ jobs' = IF shared[jobs[i].room]
                       THEN [jobs EXCEPT ![i].key = "had", ![i].stage = "request"]
                       ELSE [jobs EXCEPT ![i].stage = "share"]
            /\ UNCHANGED <<ui, rows, posted, shared>>

\* shareRoomKeyForRoom: another worker may have shared the key by now.
ShareStarts(i) == /\ At(i, "share")
                  /\ jobs' = IF shared[jobs[i].room]
                             THEN [jobs EXCEPT ![i].key = "fresh", ![i].stage = "request"]
                             ELSE [jobs EXCEPT ![i].stage = "sharing"]
                  /\ UNCHANGED <<ui, rows, posted, shared>>

\* The members cannot be fetched, nobody has joined, or the sharing fails: the
\* event is sent even so.
ShareEnds(i) ==
    /\ At(i, "sharing")
    /\ \/ /\ jobs' = [jobs EXCEPT ![i].key = "fresh", ![i].stage = "request"]
          /\ shared' = [shared EXCEPT ![jobs[i].room] = TRUE]
       \/ /\ jobs' = [jobs EXCEPT ![i].key = "failed", ![i].stage = "request"]
          /\ UNCHANGED shared
    /\ UNCHANGED <<ui, rows, posted>>

\* The request; its answer may be lost when the server has the event.
Request(i) ==
    /\ At(i, "request")
    /\ \E result \in {"ok", "refused"}, server \in {"no", IF InClear(i) THEN "plain" ELSE "cipher"} :
           /\ result = "ok" => server # "no"
           /\ Post(i, [jobs[i] EXCEPT !.result = result, !.server = server])
    /\ UNCHANGED <<ui, rows, shared>>

-----------------------------------------------------------------------------
(***************************************************************************)
(* The UI thread                                                           *)
(***************************************************************************)
\* "You shared the room key", a row of its own before the message's.
WithSystemRow(i) ==
    IF jobs[i].key = "fresh" /\ jobs[i].kind \in {"send", "reply"}
    THEN Append(rows, NewRow(i, "system"))
    ELSE rows

MarkOf == [quick |-> "reaction", react |-> "reaction", edit |-> "edited",
           delete |-> "deleted", pin |-> "pinned"]

\* The server has it.  /me's echo stays as it is.
Succeeded(i) ==
    CASE jobs[i].kind = "send" -> Replaced(WithSystemRow(i), i, "real")
      [] jobs[i].kind \in {"reply", "file"} -> Appended(WithSystemRow(i), NewRow(i, "real"))
      [] jobs[i].kind = "me" -> rows
      [] jobs[i].kind \in Marking -> Marked(rows, jobs[i].target, MarkOf[jobs[i].kind])

\* It was not sent: /me says nothing, and the status bar is all that a reply has.
\* MUTANT: the text box says nothing either.
UnpreparedSilently(i) ==
    IF jobs[i].kind = "file" THEN Append(rows, NewRow(i, "notice")) ELSE rows

Unprepared(i) ==
    CASE jobs[i].kind = "send" -> Replaced(rows, i, "notice")
      [] jobs[i].kind = "file" -> Append(rows, NewRow(i, "notice"))
      [] jobs[i].kind \notin {"send", "file"} -> rows

\* The request failed.  A file, and all the others, leave no trace in the timeline.
Refused(i) ==
    CASE jobs[i].kind \in {"send", "me"} -> Replaced(rows, i, "notice")
      [] jobs[i].kind = "reply" -> WithSystemRow(i)
      [] jobs[i].kind \notin {"send", "me", "reply"} -> rows

\* The callback of a job.
Deliver == /\ alive /\ posted # <<>>
           /\ LET i == Head(posted)
              IN  /\ rows' = CASE jobs[i].result = "ok" -> Succeeded(i)
                               [] jobs[i].result = "unprepared" -> Unprepared(i)
                               [] jobs[i].result = "refused" -> Refused(i)
                  /\ Go(i, "over")
           /\ posted' = Tail(posted)
           /\ UNCHANGED <<ui, shared>>

\* Sync, or the loading of the open room, brings a message the server has.
ServerRow(i) ==
    /\ alive /\ i \in DOMAIN jobs
    /\ jobs[i].kind \in Messages /\ jobs[i].server # "no" /\ jobs[i].room = open
    /\ ~Has(i, "real")
    /\ rows' = Appended(rows, NewRow(i, "real"))
    /\ UNCHANGED <<ui, jobs, posted, shared>>

\* A room is found to be encrypted, by the loader of its state, which changes its
\* row, or by sync, which tells the chat too if the room is open.
LearnEncryption(r) == /\ alive /\ ~listed[r]
                      /\ listed' = [listed EXCEPT ![r] = TRUE]
                      /\ flag' \in IF r = open THEN {flag, TRUE} ELSE {flag}
                      /\ UNCHANGED <<ready, open, rows, jobs, posted, shared, opens, alive>>

Work(i) == Prepare(i) \/ Check(i) \/ ShareStarts(i) \/ ShareEnds(i) \/ Request(i)

Next == \/ \E r \in Rooms : OpenRoom(r) \/ LearnEncryption(r)
        \/ \E kind \in Kinds : Send(kind)
        \/ SlashCommand
        \/ \E i \in DOMAIN jobs : Work(i) \/ ServerRow(i)
        \/ Deliver

Spec == Init /\ [][Next]_vars

\* The pool's threads and the event loop go on while the process runs.
Fairness == WF_vars(Deliver) /\ \A i \in 1..MaxJobs : WF_vars(Work(i))

FairSpec == Spec /\ Fairness

-----------------------------------------------------------------------------
(***************************************************************************)
(* Properties                                                              *)
(***************************************************************************)
TypeOK == /\ listed \in [Rooms -> BOOLEAN]
          /\ shared \in [Rooms -> BOOLEAN]
          /\ {ready, flag, alive} \subseteq BOOLEAN
          /\ open \in Rooms \cup {NoRoom}
          /\ rows \in Seq(Row)
          /\ jobs \in Seq(Job) /\ Len(jobs) <= MaxJobs
          /\ posted \in Seq(DOMAIN jobs)
          /\ opens \in 0..MaxOpens

(***************************************************************************)
(* "Share room key [...] BEFORE sending the encrypted message"             *)
(* (chat_view.cpp): with several workers checking, sharing and sending at  *)
(* once, no encrypted event is with the server of a room whose key was not *)
(* shared, except when the job's own attempt to share it failed.           *)
(***************************************************************************)
KeyBeforeMessage ==
    \A i \in DOMAIN jobs :
        jobs[i].server = "cipher" => shared[jobs[i].room] \/ jobs[i].key = "failed"

(***************************************************************************)
(* A message or a context menu's event for a room that the list shows as   *)
(* encrypted never goes to the server in clear, though the flag of the     *)
(* chat may be out of date, as long as the decryptor is initialised.       *)
(***************************************************************************)
EncryptedWhenListed ==
    \A i \in DOMAIN jobs :
        jobs[i].kind \in {"send", "reply", "react", "edit"} /\ jobs[i].known /\ ready =>
            jobs[i].server # "plain"

(***************************************************************************)
(* A message of the text box is shown once: when its callback has run, its *)
(* room's timeline has one row of it, the server's or the notice of its    *)
(* failure, whether sync or the answer came first -- unless the answer was *)
(* lost and the message was not, or the user left the room in between.     *)
(***************************************************************************)
MessageShownOnce ==
    \A i \in DOMAIN jobs :
        alive /\ jobs[i].kind = "send" /\ jobs[i].stage = "over" /\ ~jobs[i].left =>
            /\ ~Has(i, "echo")
            /\ \/ Cardinality(Find(i, "real") \cup Find(i, "notice")) = 1
               \/ jobs[i].result = "refused" /\ jobs[i].server # "no"

(***************************************************************************)
(* A row of another room's message can only be one whose callback ran      *)
(* after the user had left that room.                                      *)
(***************************************************************************)
ForeignRowsAreLate ==
    \A k \in DOMAIN rows : LET job == jobs[rows[k].job]
                           IN  job.room # open => job.left /\ job.stage = "over"

(***************************************************************************)
(* A row that looks as if it were under way does not stay so: the echo of  *)
(* a message or of a thread's message is replaced in the end, whatever     *)
(* fails, and that of /me is when the server has refused it.  The code     *)
(* does not keep this of /me otherwise: nothing replaces its echo when it  *)
(* was sent, nor when there is no session or the encryption fails, which   *)
(* the worker does not report (chat_view.cpp:61, 65) although checklist.md *)
(* says that "/me failures show an error notice".                          *)
(***************************************************************************)
EchoOwed(i) == /\ i \in DOMAIN jobs /\ Has(i, "echo")
               /\ \/ jobs[i].kind = "send"
                  \/ jobs[i].kind = "me" /\ jobs[i].result = "refused"

EchoResolved ==
    \A i \in 1..MaxJobs : EchoOwed(i) ~> (~Has(i, "echo") \/ ~alive)
=============================================================================
