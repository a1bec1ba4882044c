------------------------ MODULE RoomTimeline_proofs ------------------------
(***************************************************************************)
(* Theorems about RoomTimeline, for every set of rooms, every size and     *)
(* every budget.                                                           *)
(***************************************************************************)
EXTENDS RoomTimeline, TLAPS

-----------------------------------------------------------------------------
(***************************************************************************)
(* The pool and the queue                                                  *)
(***************************************************************************)

\* The blank values are of their types.
LEMMA BlankTypes == NoToken \in Token /\ NoResp \in [Rooms -> Delta]
  <1>1. NoToken \in Token
    BY SizeAssumption DEF NoToken, Token
  <1>2. NoDelta \in Delta
    BY SizeAssumption DEF NoDelta, Delta
  <1>3. QED
    BY <1>1, <1>2 DEF NoResp

\* A blank slot is a well-formed record.
LEMMA NoJobType == NoJob \in Job
  <1>1. NoJob \in JobRecord
    BY BlankTypes DEF NoJob, JobRecord, Kinds
  <1>2. QED
    BY <1>1 DEF Job, NoJob

\* A job made by NewJob is a well-formed record.
LEMMA NewJobType ==
    ASSUME NEW kind \in Kinds, NEW r \in Rooms \cup {NoRoom},
           kind \in {"history", "more", "thread", "accept", "leave", "state"} => r \in Rooms
    PROVE  NewJob(kind, r) \in Job
  <1>1. NoJob \in JobRecord
    BY NoJobType DEF Job
  <1>2. NewJob(kind, r) \in JobRecord
    BY <1>1 DEF NewJob, JobRecord
  <1>3. NewJob(kind, r).kind = kind /\ NewJob(kind, r).room = r
    BY <1>1 DEF NewJob, JobRecord
  <1>4. QED
    BY <1>2, <1>3 DEF Job

\* Enqueueing a well-formed job keeps the pool well formed.
LEMMA EnqueueType ==
    ASSUME jobs \in [Slots -> Job], NEW job \in Job, Enqueue(job)
    PROVE  jobs' \in [Slots -> Job]
  BY DEF Enqueue

\* Taking a callback yields a well-formed record and leaves a queue of them.
LEMMA TakeType ==
    ASSUME queue \in Seq(Job), NEW kind, TakeCallback(kind)
    PROVE  /\ queue' \in Seq(Job)
           /\ Head(queue) \in Job
           /\ Head(queue).kind = kind
  BY DEF TakeCallback

\* Posting a callback keeps the queue well formed.
LEMMA PostType ==
    ASSUME queue \in Seq(Job), NEW job \in Job
    PROVE  Append(queue, job) \in Seq(Job)
  OBVIOUS

\* One field of a room on the homeserver changes.
LEMMA ServerRoomType ==
    ASSUME srv \in [Rooms -> ServerRoom], NEW r \in Rooms
    PROVE  /\ \A n \in 0..MaxEvents : [srv EXCEPT ![r].n = n] \in [Rooms -> ServerRoom]
           /\ \A enc \in BOOLEAN : [srv EXCEPT ![r].enc = enc] \in [Rooms -> ServerRoom]
           /\ \A memb \in Membership :
                 [srv EXCEPT ![r].memb = memb] \in [Rooms -> ServerRoom]
  <1>1. srv[r] \in ServerRoom
    OBVIOUS
  <1>2. /\ \A n \in 0..MaxEvents : [srv[r] EXCEPT !.n = n] \in ServerRoom
        /\ \A enc \in BOOLEAN : [srv[r] EXCEPT !.enc = enc] \in ServerRoom
        /\ \A memb \in Membership : [srv[r] EXCEPT !.memb = memb] \in ServerRoom
    BY <1>1 DEF ServerRoom
  <1>3. QED
    BY <1>2

\* Spending from a budget leaves a budget.
LEMMA SpendType ==
    ASSUME fuel \in [Steps -> Nat], NEW step \in Steps, Spend(step)
    PROVE  fuel' \in [Steps -> Nat]
  BY DEF Spend

\* A last row is a message of the page, or the one that was last.
LEMMA LastRowType ==
    ASSUME lastRow \in EventIds \cup {NoEvent}, NEW page \in SUBSET EventIds
    PROVE  LastRowAfter(page) \subseteq EventIds \cup {NoEvent}
  BY DEF LastRowAfter

\* Filling in a field of a well-formed record keeps it well formed.
LEMMA FieldTypes ==
    ASSUME NEW job \in Job
    PROVE  /\ \A x \in [Rooms -> Delta] : [job EXCEPT !.resp = x] \in Job
           /\ \A x \in BOOLEAN : [job EXCEPT !.flag = x] \in Job
           /\ \A x \in Token : [job EXCEPT !.token = x] \in Job
           /\ \A x \in SUBSET Rooms : [job EXCEPT !.todo = x] \in Job
           /\ \A x \in SUBSET EventIds : [job EXCEPT !.page = x] \in Job
           /\ \A x \in EventIds, y \in SUBSET EventIds :
                 [job EXCEPT !.event = x, !.page = y] \in Job
           /\ \A x \in SUBSET EventIds, y \in Token :
                 [job EXCEPT !.page = x, !.token = y] \in Job
           /\ \A x \in [Rooms -> Delta] :
                 [job EXCEPT !.kind = "apply", !.resp = x] \in Job
           /\ Failed(job) \in Job
           /\ Answered(job) \in Job
  BY DEF Job, JobRecord, Kinds, Failed, Answered

-----------------------------------------------------------------------------
(***************************************************************************)
(* What the homeserver answers                                             *)
(***************************************************************************)

\* A sync response is well formed.
LEMMA DeltaType ==
    ASSUME srv \in [Rooms -> ServerRoom],
           told \in [Rooms -> ServerRoom]
    PROVE  [r \in Rooms |-> DeltaOf(r)] \in [Rooms -> Delta]
  <1>1. SUFFICES ASSUME NEW r \in Rooms PROVE DeltaOf(r) \in Delta
    OBVIOUS
  <1>2. NoDelta \in Delta
    BY SizeAssumption DEF NoDelta, Delta
  <1>3. /\ srv[r].memb \in Membership \cup {"none"}
        /\ srv[r].n \in 0..MaxEvents /\ srv[r].enc \in BOOLEAN
        /\ told[r].n \in 0..MaxEvents /\ told[r].enc \in BOOLEAN
    BY DEF ServerRoom
  <1>4. [NoDelta EXCEPT !.memb = srv[r].memb] \in Delta
    BY <1>2, <1>3 DEF Delta
  <1>5. [memb |-> "join",
         enc  |-> srv[r].enc /\ (told[r].memb # "join" \/ ~told[r].enc),
         from |-> IF told[r].memb # "join" THEN 0 ELSE told[r].n,
         to   |-> srv[r].n] \in Delta
    BY <1>3, SizeAssumption DEF Delta, Membership
  <1>6. QED
    BY <1>2, <1>4, <1>5 DEF DeltaOf

\* A page of the history is well formed: its messages exist, and so does the
\* position of its token.
LEMMA MessagesReplyType ==
    ASSUME NEW job \in Job, job.room \in Rooms, NEW before \in 0..(MaxEvents + 1)
    PROVE  MessagesReply(job, before) \in Job
  <1> DEFINE first == IF before > PageSize THEN before - PageSize ELSE 1
             page  == {<<job.room, i>> : i \in first..(before - 1)}
             token == [room |-> job.room, pos |-> IF first > 1 THEN first ELSE before]
  <1>1. first \in 1..(MaxEvents + 1) \/ first = 1
    BY SizeAssumption
  <1>2. page \in SUBSET EventIds
    <2>1. SUFFICES ASSUME NEW i \in first..(before - 1) PROVE i \in Positions
      BY DEF EventIds
    <2>2. QED
      BY <1>1, SizeAssumption DEF Positions
  <1>3. token \in Token
    BY <1>1, SizeAssumption DEF Token
  <1>4. MessagesReply(job, before) = [Answered(job) EXCEPT !.page = page, !.token = token]
    BY DEF MessagesReply
  <1>5. Answered(job) \in Job
    BY FieldTypes
  <1> HIDE DEF page, token
  <1>6. [Answered(job) EXCEPT !.page = page, !.token = token] \in Job
    BY <1>2, <1>3, <1>5, FieldTypes
  <1>7. QED
    BY <1>4, <1>6

\* Every answer to a history request is well formed and keeps its kind.
LEMMA MessagesRepliesType ==
    ASSUME srv \in [Rooms -> ServerRoom],
           NEW job \in Job, job.room \in Rooms, NEW reply \in MessagesReplies(job)
    PROVE  reply \in Job
  <1>1. job.token \in Token /\ srv[job.room].n \in 0..MaxEvents
    BY DEF Job, JobRecord, ServerRoom
  <1>2. PositionsOf(job) \subseteq 0..(MaxEvents + 1)
    BY <1>1, SizeAssumption DEF PositionsOf, Token
  <1>3. srv[job.room].n + 1 \in 0..(MaxEvents + 1)
    BY <1>1, SizeAssumption
  <1>4. \/ \E before \in 0..(MaxEvents + 1) : reply = MessagesReply(job, before)
        \/ reply = Failed(job)
    BY <1>2, <1>3 DEF MessagesReplies
  <1>5. QED
    BY <1>4, MessagesReplyType, FieldTypes

\* Every answer to a thread request is well formed.
LEMMA ThreadRepliesType ==
    ASSUME srv \in [Rooms -> ServerRoom],
           NEW job \in Job, job.room \in Rooms, NEW reply \in ThreadReplies(job)
    PROVE  reply \in Job
  <1>1. CASE job.event[1] # job.room
    <2>1. reply = Failed(job)
      BY <1>1 DEF ThreadReplies
    <2>2. QED
      BY <2>1, FieldTypes
  <1>2. CASE job.event[1] = job.room
    <2>1. job.event \in EventIds /\ job.page \in SUBSET EventIds
      BY <1>2, RoomsAssumption DEF Job, JobRecord, NoEvent
    <2>2. srv[job.event[1]].n \in 0..MaxEvents
      BY <1>2 DEF ServerRoom
    <2>3. RepliesTo(job.event) \in SUBSET EventIds
      <3>1. \A j \in 1..srv[job.event[1]].n : j \in Positions
        BY <2>2, SizeAssumption DEF Positions
      <3>2. QED
        BY <1>2, <3>1 DEF RepliesTo, EventIds
    <2>4. PICK ok \in MayRead(job.room), root \in {{}, {job.event}} :
              reply = IF ok THEN [Answered(job) EXCEPT
                                     !.page = @ \cup RepliesTo(job.event) \cup root]
                      ELSE Failed(job)
      BY <1>2 DEF ThreadReplies
    <2>5. Answered(job) \in Job /\ Answered(job).page = job.page
      <3>1. Answered(job) \in Job
        BY FieldTypes
      <3>2. Answered(job).page = job.page
        BY DEF Answered, Job, JobRecord
      <3>3. QED
        BY <3>1, <3>2
    <2>6. Answered(job).page \cup RepliesTo(job.event) \cup root \in SUBSET EventIds
      BY <2>1, <2>3, <2>5
    <2>7. [Answered(job) EXCEPT !.page = @ \cup RepliesTo(job.event) \cup root] \in Job
      BY <2>5, <2>6, FieldTypes
    <2>8. QED
      BY <2>4, <2>7, FieldTypes
  <1>3. QED
    BY <1>1, <1>2

-----------------------------------------------------------------------------
(***************************************************************************)
(* Type correctness                                                        *)
(***************************************************************************)
LEMMA TypeInit == Init => TypeOK
  <1> SUFFICES ASSUME Init PROVE TypeOK
    OBVIOUS
  <1>1. srv \in [Rooms -> ServerRoom]
    BY StartsAssumption DEF Init, Membership, ServerRoom
  <1>2. list \in [Rooms -> Row]
    BY <1>1 DEF Init, ServerRoom, Row
  <1>3. jobs \in [Slots -> Job] /\ queue \in Seq(Job)
    BY NoJobType DEF Init
  <1>4. fuel \in [Steps -> Nat]
    BY StartsAssumption DEF Init
  <1>5. QED
    BY <1>1, <1>2, <1>3, <1>4, BlankTypes DEF Init, TypeOK

\* Opening a room.
LEMMA OpenRoomType ==
    ASSUME TypeOK, NEW r \in Rooms, OpenRoom(r),
           list' \in [Rooms -> Row],
           UNCHANGED <<srv, told>>, queue' \in Seq(Job), fuel' \in [Steps -> Nat]
    PROVE  TypeOK'
  <1>1. jobs' \in [Slots -> Job]
    <2>1. NewJob("history", r) \in Job
      BY NewJobType DEF Kinds
    <2>2. [NewJob("history", r) EXCEPT !.flag = TRUE] \in Job
      BY <2>1, FieldTypes
    <2>3. QED
      BY <2>2, EnqueueType DEF OpenRoom, TypeOK
  <1>2. chat' \in [room : Rooms \cup {NoRoom}, enc : BOOLEAN]
    BY DEF OpenRoom, Row
  <1>3. QED
    BY <1>1, <1>2, BlankTypes DEF ClearTimeline, HideLoadMore, OpenRoom, TypeOK

\* The steps of the homeserver and of the sync thread.
LEMMA ServerType ==
    ASSUME TypeOK, ServerStep \/ SyncReturn
    PROVE  TypeOK'
  <1>1. ASSUME NEW r \in Rooms, NewMessage(r) PROVE TypeOK'
    <2>1. fuel' \in [Steps -> Nat]
      BY <1>1, SpendType DEF NewMessage, TypeOK, Steps
    <2>2. srv' \in [Rooms -> ServerRoom]
      <3>1. srv \in [Rooms -> ServerRoom] /\ srv[r].n + 1 \in 0..MaxEvents
        BY <1>1, SizeAssumption DEF NewMessage, TypeOK, ServerRoom
      <3>2. QED
        BY <1>1, <3>1, ServerRoomType DEF NewMessage
    <2>3. QED
      BY <1>1, <2>1, <2>2 DEF NewMessage, TypeOK, screen
  <1>2. ASSUME NEW r \in Rooms, EnableEncryption(r) PROVE TypeOK'
    <2>1. fuel' \in [Steps -> Nat]
      BY <1>2, SpendType DEF EnableEncryption, TypeOK, Steps
    <2>2. srv' \in [Rooms -> ServerRoom]
      BY <1>2, ServerRoomType DEF EnableEncryption, TypeOK
    <2>3. QED
      BY <1>2, <2>1, <2>2 DEF EnableEncryption, TypeOK, screen
  <1>3. ASSUME NEW r \in Rooms, MembershipChange(r) PROVE TypeOK'
    <2>1. fuel' \in [Steps -> Nat]
      BY <1>3, SpendType DEF MembershipChange, TypeOK, Steps
    <2>2. srv' \in [Rooms -> ServerRoom]
      BY <1>3, ServerRoomType DEF MembershipChange, TypeOK, Membership
    <2>3. QED
      BY <1>3, <2>1, <2>2 DEF MembershipChange, TypeOK, screen
  <1>4. ASSUME SyncReturn PROVE TypeOK'
    <2> DEFINE resp == [r \in Rooms |-> DeltaOf(r)]
    <2>1. resp \in [Rooms -> Delta]
      BY DeltaType DEF TypeOK
    <2>2. NewJob("sync", NoRoom) \in Job
      BY NewJobType DEF Kinds
    <2> HIDE DEF resp
    <2>3. [NewJob("sync", NoRoom) EXCEPT !.resp = resp] \in Job
      BY <2>1, <2>2, FieldTypes
    <2>4. queue' = queue \/ queue' = Append(queue, [NewJob("sync", NoRoom) EXCEPT !.resp = resp])
      BY <1>4 DEF SyncReturn, resp
    <2>5. queue' \in Seq(Job)
      BY <2>3, <2>4, PostType DEF TypeOK
    <2>6. QED
      BY <1>4, <2>5 DEF SyncReturn, TypeOK, screen
  <1>5. QED
    BY <1>1, <1>2, <1>3, <1>4 DEF ServerStep

\* The steps of the workers.
LEMMA WorkerType ==
    ASSUME TypeOK, NEW k \in Slots, WorkerStep(k) \/ WorkerFault(k)
    PROVE  TypeOK'
  <1>1. jobs[k] \in Job /\ [jobs EXCEPT ![k] = NoJob] \in [Slots -> Job]
    BY NoJobType DEF TypeOK
  <1>2. \A job \in Job : [jobs EXCEPT ![k] = job] \in [Slots -> Job]
    BY DEF TypeOK
  <1>3. ASSUME WorkerRead(k) PROVE TypeOK'
    <2>1. jobs[k].room \in Rooms
      BY <1>1, <1>3 DEF WorkerRead, Requesting, Job
    <2>2. PICK reply \in IF jobs[k].kind = "thread" THEN ThreadReplies(jobs[k])
                         ELSE MessagesReplies(jobs[k]) :
              jobs' = [jobs EXCEPT ![k] = reply]
      BY <1>3 DEF WorkerRead
    <2>3. reply \in Job
      BY <1>1, <2>1, <2>2, ThreadRepliesType, MessagesRepliesType DEF TypeOK
    <2>4. jobs' \in [Slots -> Job]
      BY <1>2, <2>2, <2>3
    <2>5. QED
      BY <1>3, <2>4 DEF WorkerRead, TypeOK, server, screen
  <1>4. ASSUME WorkerMembership(k) PROVE TypeOK'
    <2>1. jobs[k].room \in Rooms
      BY <1>1, <1>4 DEF WorkerMembership, Requesting, Job
    <2>2. PICK ok \in BOOLEAN :
              /\ srv' = IF ok THEN [srv EXCEPT ![jobs[k].room].memb =
                                       IF jobs[k].kind = "accept" THEN "join" ELSE "leave"]
                        ELSE srv
              /\ jobs' = [jobs EXCEPT ![k] = IF ok THEN Answered(@) ELSE Failed(@)]
      BY <1>4 DEF WorkerMembership
    <2>3. srv' \in [Rooms -> ServerRoom]
      BY <2>1, <2>2, ServerRoomType DEF TypeOK, Membership
    <2>4. jobs' \in [Slots -> Job]
      BY <1>1, <1>2, <2>2, FieldTypes
    <2>5. QED
      BY <1>4, <2>3, <2>4 DEF WorkerMembership, TypeOK, screen
  <1>5. ASSUME WorkerFault(k) PROVE TypeOK'
    <2>1. jobs[k].room \in Rooms
      BY <1>1, <1>5 DEF WorkerFault, Requesting, Job
    <2>2. PICK memb \in Membership : srv' = [srv EXCEPT ![jobs[k].room].memb = memb]
      <3>1. srv[jobs[k].room].memb \in Membership
        BY <2>1 DEF TypeOK, ServerRoom
      <3>2. QED
        BY <1>5, <3>1 DEF WorkerFault, Membership
    <2>3. srv' \in [Rooms -> ServerRoom]
      BY <2>1, <2>2, ServerRoomType DEF TypeOK
    <2>4. jobs' \in [Slots -> Job]
      BY <1>1, <1>2, <1>5, FieldTypes DEF WorkerFault
    <2>5. fuel' \in [Steps -> Nat]
      BY <1>5, SpendType DEF WorkerFault, TypeOK, Steps
    <2>6. QED
      BY <1>5, <2>3, <2>4, <2>5 DEF WorkerFault, TypeOK, screen
  <1>6. ASSUME WorkerPost(k) PROVE TypeOK'
    <2>1. queue' \in Seq(Job)
      BY <1>1, <1>6, PostType DEF WorkerPost, TypeOK
    <2>2. QED
      BY <1>1, <1>6, <2>1 DEF WorkerPost, TypeOK, server, screen
  <1>7. ASSUME WorkerPrepare(k) PROVE TypeOK'
    <2> DEFINE resp == [r \in Rooms |-> IF r = jobs[k].room THEN jobs[k].resp[r]
                                        ELSE [jobs[k].resp[r] EXCEPT !.from = 0, !.to = 0]]
    <2>1. resp \in [Rooms -> Delta]
      <3>1. \A r \in Rooms : jobs[k].resp[r] \in Delta
        BY <1>1 DEF Job, JobRecord
      <3>2. \A d \in Delta : [d EXCEPT !.from = 0, !.to = 0] \in Delta
        <4>1. 0 \in 0..MaxEvents
          BY SizeAssumption
        <4>2. \A d \in Delta : [d EXCEPT !.from = 0] \in Delta /\ [d EXCEPT !.to = 0] \in Delta
          BY <4>1 DEF Delta
        <4>3. \A d \in Delta : [[d EXCEPT !.from = 0] EXCEPT !.to = 0] \in Delta
          BY <4>2
        <4>4. QED
          BY <4>3
      <3>3. QED
        BY <3>1, <3>2
    <2>2. queue' = Append(queue, [jobs[k] EXCEPT !.kind = "apply", !.resp = resp])
      BY <1>7 DEF WorkerPrepare
    <2> HIDE DEF resp
    <2>3. [jobs[k] EXCEPT !.kind = "apply", !.resp = resp] \in Job
      BY <1>1, <2>1, FieldTypes
    <2>4. queue' \in Seq(Job)
      BY <2>2, <2>3, PostType DEF TypeOK
    <2>5. QED
      BY <1>1, <1>7, <2>4 DEF WorkerPrepare, TypeOK, server, screen
  <1>8. ASSUME WorkerStates(k) PROVE TypeOK'
    <2>1. PICK r \in jobs[k].todo, ok \in BOOLEAN :
              /\ (ok \in MayRead(r) /\ UNCHANGED fuel) \/ (~ok /\ Spend("fault"))
              /\ queue' = Append(queue, [NewJob("state", r) EXCEPT !.flag = ok /\ srv[r].enc])
              /\ jobs' = [jobs EXCEPT ![k] =
                             IF jobs[k].todo \ {r} = {} THEN NoJob
                             ELSE [jobs[k] EXCEPT !.todo = jobs[k].todo \ {r}]]
      BY <1>8 DEF WorkerStates
    <2>2. r \in Rooms /\ jobs[k].todo \ {r} \in SUBSET Rooms
      BY <1>1 DEF Job, JobRecord
    <2>3. fuel' \in [Steps -> Nat]
      BY <2>1, SpendType DEF TypeOK, Steps
    <2>4. NewJob("state", r) \in Job
      BY <2>2, NewJobType DEF Kinds
    <2>5. (ok /\ srv[r].enc) \in BOOLEAN
      OBVIOUS
    <2>6. [NewJob("state", r) EXCEPT !.flag = ok /\ srv[r].enc] \in Job
      BY <2>4, <2>5, FieldTypes
    <2>7. queue' \in Seq(Job)
      BY <2>1, <2>6, PostType DEF TypeOK
    <2>8. [jobs[k] EXCEPT !.todo = jobs[k].todo \ {r}] \in Job
      BY <1>1, <2>2, FieldTypes
    <2> DEFINE rest == IF jobs[k].todo \ {r} = {} THEN NoJob
                       ELSE [jobs[k] EXCEPT !.todo = jobs[k].todo \ {r}]
    <2>9. rest \in Job
      BY <2>8, NoJobType
    <2>10. jobs' \in [Slots -> Job]
      <3>1. jobs' = [jobs EXCEPT ![k] = rest]
        BY <2>1
      <3> HIDE DEF rest
      <3>2. QED
        BY <1>2, <2>9, <3>1
    <2>11. QED
      BY <1>8, <2>3, <2>7, <2>10 DEF WorkerStates, TypeOK, server, screen
  <1>9. QED
    BY <1>3, <1>4, <1>5, <1>6, <1>7, <1>8 DEF WorkerStep

\* What the user does.
LEMMA UserType ==
    ASSUME TypeOK, UserStep
    PROVE  TypeOK'
  <1>1. ASSUME NEW r \in Rooms, OnRoomClicked(r) PROVE TypeOK'
    <2>1. fuel' \in [Steps -> Nat]
      BY <1>1, SpendType DEF OnRoomClicked, TypeOK, Steps
    <2>2. /\ OpenRoom(r) /\ UNCHANGED <<srv, told>>
          /\ list' \in [Rooms -> Row] /\ queue' \in Seq(Job)
      BY <1>1 DEF OnRoomClicked, TypeOK, server
    <2>3. QED
      BY <2>1, <2>2, OpenRoomType
  <1>2. ASSUME NEW r \in Rooms, LeaveRoom(r) PROVE TypeOK'
    <2>1. fuel' \in [Steps -> Nat]
      BY <1>2, SpendType DEF LeaveRoom, TypeOK, Steps
    <2>2. jobs' \in [Slots -> Job]
      BY <1>2, NewJobType, EnqueueType DEF LeaveRoom, TypeOK, Kinds
    <2>3. QED
      BY <1>2, <2>1, <2>2 DEF LeaveRoom, TypeOK, server, screen
  <1>3. ASSUME NEW r \in Rooms, NEW open \in BOOLEAN, AcceptInvite(r, open) PROVE TypeOK'
    <2>1. fuel' \in [Steps -> Nat]
      BY <1>3, SpendType DEF AcceptInvite, TypeOK, Steps
    <2>2. NewJob("accept", r) \in Job
      BY NewJobType DEF Kinds
    <2>3. [NewJob("accept", r) EXCEPT !.flag = open] \in Job
      BY <2>2, FieldTypes
    <2>4. jobs' \in [Slots -> Job]
      BY <1>3, <2>3, EnqueueType DEF AcceptInvite, TypeOK
    <2>5. QED
      BY <1>3, <2>1, <2>4 DEF AcceptInvite, TypeOK, server, screen
  <1>4. ASSUME OnLoadMoreClicked PROVE TypeOK'
    <2>1. fuel' \in [Steps -> Nat]
      BY <1>4, SpendType DEF OnLoadMoreClicked, TypeOK, Steps
    <2>2. NewJob("more", currentRoom) \in Job
      BY <1>4, NewJobType DEF OnLoadMoreClicked, TypeOK, Kinds
    <2>3. [NewJob("more", currentRoom) EXCEPT !.token = prevBatch] \in Job
      BY <2>2, FieldTypes DEF TypeOK
    <2>4. jobs' \in [Slots -> Job]
      BY <1>4, <2>3, EnqueueType DEF OnLoadMoreClicked, TypeOK
    <2>5. QED
      BY <1>4, <2>1, <2>4 DEF OnLoadMoreClicked, TypeOK, server
  <1>5. ASSUME NEW root \in EventIds, OpenThreadView(root) PROVE TypeOK'
    <2> DEFINE page == {e \in rows : e = root \/
                           (e[1] = root[1] /\ ReplyTo[e[2]] = root[2])}
    <2>1. fuel' \in [Steps -> Nat]
      BY <1>5, SpendType DEF OpenThreadView, TypeOK, Steps
    <2>2. NewJob("thread", currentRoom) \in Job
      BY <1>5, NewJobType DEF OpenThreadView, TypeOK, Kinds
    <2>3. page \in SUBSET EventIds
      BY DEF TypeOK
    <2>4. Enqueue([NewJob("thread", currentRoom) EXCEPT !.event = root, !.page = page])
      BY <1>5 DEF OpenThreadView
    <2> HIDE DEF page
    <2>5. [NewJob("thread", currentRoom) EXCEPT !.event = root, !.page = page] \in Job
      BY <2>2, <2>3, FieldTypes
    <2>6. jobs' \in [Slots -> Job]
      BY <2>4, <2>5, EnqueueType DEF TypeOK
    <2>7. QED
      BY <1>5, <2>1, <2>6 DEF ClearTimeline, OpenThreadView, TypeOK, server
  <1>6. ASSUME CloseThreadView PROVE TypeOK'
    <2>1. fuel' \in [Steps -> Nat]
      BY <1>6, SpendType DEF CloseThreadView, TypeOK, Steps
    <2>2. jobs' \in [Slots -> Job]
      BY <1>6, NewJobType, EnqueueType DEF CloseThreadView, EnqueueIf, TypeOK, Kinds
    <2>3. QED
      BY <1>6, <2>1, <2>2 DEF ClearTimeline, CloseThreadView, TypeOK, server
  <1>7. QED
    BY <1>1, <1>2, <1>3, <1>4, <1>5, <1>6 DEF UserStep

\* The callbacks that bring messages into the timeline.
LEMMA MessagesCallbackType ==
    ASSUME TypeOK, DeliverHistory \/ DeliverMore \/ DeliverThread
    PROVE  TypeOK'
  <1> DEFINE cb == Head(queue)
  <1>1. cb \in Job /\ queue' \in Seq(Job)
    BY TakeType DEF DeliverHistory, DeliverMore, DeliverThread, TypeOK
  <1>2. /\ cb.page \in SUBSET EventIds /\ cb.token \in Token
        /\ cb.ok \in BOOLEAN /\ cb.room \in Rooms \cup {NoRoom}
    BY <1>1 DEF Job, JobRecord
  <1>3. LastRowAfter(cb.page) \subseteq EventIds \cup {NoEvent}
    BY <1>2, LastRowType DEF TypeOK
  <1> HIDE DEF cb
  <1>4. CASE DeliverHistory
    <2>1. /\ rows' \in SUBSET EventIds /\ lastRow' \in EventIds \cup {NoEvent}
          /\ prevBatch' \in Token /\ historyFailed' \in BOOLEAN
      BY <1>2, <1>3, <1>4 DEF RowsWith, DeliverHistory, cb, TypeOK
    <2>2. more' \in [shown : BOOLEAN, enabled : BOOLEAN]
      BY <1>4 DEF DeliverHistory, TypeOK
    <2>3. QED
      BY <1>1, <1>4, <2>1, <2>2 DEF DeliverHistory, TypeOK, server
  <1>5. CASE DeliverMore
    <2>1. /\ rows' \in SUBSET EventIds /\ lastRow' \in EventIds \cup {NoEvent}
          /\ prevBatch' \in Token
      BY <1>2, <1>3, <1>5 DEF RowsWith, DeliverMore, cb, TypeOK
    <2>2. more' \in [shown : BOOLEAN, enabled : BOOLEAN]
      BY <1>5 DEF ButtonAfter, DeliverMore, TypeOK
    <2>3. QED
      BY <1>1, <1>5, <2>1, <2>2 DEF DeliverMore, TypeOK, server
  <1>6. CASE DeliverThread
    <2>1. rows' \in SUBSET EventIds /\ lastRow' \in EventIds \cup {NoEvent}
      BY <1>2, <1>6 DEF RowsWith, DeliverThread, cb, TypeOK
    <2>2. QED
      BY <1>1, <1>6, <2>1 DEF DeliverThread, TypeOK, server
  <1>7. QED
    BY <1>4, <1>5, <1>6

\* What a sync response makes of a row of the list.
LEMMA UpsertRowType ==
    ASSUME NEW row \in Row, NEW delta \in Delta
    PROVE  UpsertRow(row, delta) \in Row
  <1>1. /\ (delta.enc \/ row.enc) \in BOOLEAN
        /\ delta.memb \in {"join", "invite", "leave", "none"}
    BY DEF Delta, Membership, Row
  <1>2. QED
    BY <1>1 DEF UpsertRow, Absent, Row

\* The messages a sync response brings exist.
LEMMA SyncRowsType ==
    ASSUME NEW resp \in [Rooms -> Delta], NEW captured
    PROVE  SyncRows(resp, captured) \in SUBSET EventIds
  <1>1. CASE captured \in RoomsWith(resp, "join")
    <2>1. captured \in Rooms
      BY <1>1 DEF RoomsWith
    <2>2. resp[captured].from \in 0..MaxEvents /\ resp[captured].to \in 0..MaxEvents
      BY <2>1 DEF Delta
    <2>3. \A i \in (resp[captured].from + 1)..resp[captured].to : i \in Positions
      BY <2>2, SizeAssumption DEF Positions
    <2>4. QED
      BY <2>1, <2>3 DEF SyncRows, EventIds
  <1>2. CASE captured \notin RoomsWith(resp, "join")
    BY <1>2 DEF SyncRows
  <1>3. QED
    BY <1>1, <1>2

\* The callback of a sync response.
LEMMA ApplySyncType ==
    ASSUME TypeOK, ApplySync
    PROVE  TypeOK'
  <1> DEFINE cb == Head(queue)
             page == SyncRows(cb.resp, cb.room)
             closes == currentRoom \in RoomsWith(cb.resp, "leave")
             todo == {r \in Rooms : list'[r].st = "joined" /\ ~list'[r].loaded}
  <1>1. cb \in Job /\ queue' \in Seq(Job)
    BY TakeType DEF ApplySync, TypeOK
  <1>2. cb.resp \in [Rooms -> Delta]
    BY <1>1 DEF Job, JobRecord
  <1>3. list' \in [Rooms -> Row]
    <2>1. list' = [r \in Rooms |-> UpsertRow(list[r], cb.resp[r])]
      BY DEF ApplySync
    <2>2. \A r \in Rooms : UpsertRow(list[r], cb.resp[r]) \in Row
      BY <1>2, UpsertRowType DEF TypeOK
    <2> HIDE DEF cb
    <2>3. QED
      BY <2>1, <2>2
  <1>4. page \in SUBSET EventIds /\ LastRowAfter(page) \subseteq EventIds \cup {NoEvent}
    BY <1>2, SyncRowsType, LastRowType DEF TypeOK
  <1>5. /\ rows' \in SUBSET EventIds /\ lastRow' \in EventIds \cup {NoEvent}
        /\ currentRoom' \in Rooms \cup {NoRoom} /\ view' \in BOOLEAN
    <2>1. /\ rows' = IF closes THEN {} ELSE rows \cup page
          /\ lastRow' \in IF closes THEN {NoEvent} ELSE LastRowAfter(page)
          /\ currentRoom' = IF closes THEN NoRoom ELSE currentRoom
          /\ view' = (view /\ ~closes)
      BY DEF RoomAfter, ApplySync
    <2> HIDE DEF closes, page
    <2>2. QED
      BY <1>4, <2>1 DEF TypeOK
  <1>6. more' \in [shown : BOOLEAN, enabled : BOOLEAN]
    BY DEF HideLoadMore, ApplySync, TypeOK
  <1>7. chat' \in [room : Rooms \cup {NoRoom}, enc : BOOLEAN]
    <2>1. PICK refresh \in FlagRefreshes(cb.resp, cb.room, currentRoom') :
              chat' = IF refresh THEN [chat EXCEPT !.enc = list'[cb.room].enc] ELSE chat
      BY DEF ApplySync
    <2>2. refresh => cb.room \in Rooms
      BY <2>1 DEF FlagRefreshes, RoomsWith
    <2>3. refresh => list'[cb.room].enc \in BOOLEAN
      BY <1>3, <2>2 DEF Row
    <2> HIDE DEF cb
    <2>4. QED
      BY <2>1, <2>3 DEF TypeOK
  <1>8. jobs' \in [Slots -> Job]
    <2>1. NewJob("states", NoRoom) \in Job
      BY NewJobType DEF Kinds
    <2>2. todo \in SUBSET Rooms
      OBVIOUS
    <2>3. EnqueueIf(todo # {}, [NewJob("states", NoRoom) EXCEPT !.todo = todo])
      BY DEF ApplySync
    <2> HIDE DEF todo
    <2>4. [NewJob("states", NoRoom) EXCEPT !.todo = todo] \in Job
      BY <2>1, <2>2, FieldTypes
    <2>5. QED
      BY <2>3, <2>4, EnqueueType DEF EnqueueIf, TypeOK
  <1>9. QED
    BY <1>1, <1>3, <1>5, <1>6, <1>7, <1>8 DEF ApplySync, TypeOK, server

\* The callbacks that only change the list, open a room, or enqueue a job.
LEMMA ListCallbackType ==
    ASSUME TypeOK, HandleSync \/ DeliverState \/ DeliverAccept \/ DeliverLeave
    PROVE  TypeOK'
  <1> DEFINE cb == Head(queue)
  <1>1. cb \in Job /\ queue' \in Seq(Job)
    BY TakeType DEF HandleSync, DeliverState, DeliverAccept, DeliverLeave, TypeOK
  <1>2. cb.resp \in [Rooms -> Delta] /\ cb.flag \in BOOLEAN
    BY <1>1 DEF Job, JobRecord
  <1>3. CASE HandleSync
    <2>1. NewJob("prepare", currentRoom) \in Job
      BY NewJobType DEF TypeOK, Kinds
    <2>2. [NewJob("prepare", currentRoom) EXCEPT !.resp = cb.resp] \in Job
      BY <1>2, <2>1, FieldTypes
    <2>3. jobs' \in [Slots -> Job]
      BY <1>3, <2>2, EnqueueType DEF HandleSync, TypeOK
    <2>4. QED
      BY <1>1, <1>3, <2>3 DEF HandleSync, TypeOK, server, screen
  <1>4. CASE DeliverState
    <2>1. cb.room \in Rooms
      BY <1>1, <1>4, TakeType DEF DeliverState, Job, TypeOK
    <2>2. list' \in [Rooms -> Row]
      <3> HIDE DEF cb
      <3>1. list[cb.room] \in Row
        BY <2>1 DEF TypeOK
      <3>2. [list[cb.room] EXCEPT !.enc = @ \/ cb.flag, !.loaded = TRUE] \in Row
        BY <3>1 DEF Row
      <3>3. \/ list' = list
            \/ list' = [list EXCEPT ![cb.room].enc = @ \/ cb.flag, ![cb.room].loaded = TRUE]
        BY <1>4 DEF DeliverState, cb
      <3>4. QED
        BY <2>1, <3>2, <3>3 DEF TypeOK, Row
    <2>3. QED
      BY <1>1, <1>4, <2>2 DEF DeliverState, TypeOK, server, screen
  <1>5. CASE DeliverAccept
    <2>1. cb.room \in Rooms
      BY <1>1, <1>5, TakeType DEF DeliverAccept, Job, TypeOK
    <2>2. list' \in [Rooms -> Row]
      <3> HIDE DEF cb
      <3>1. [list[cb.room] EXCEPT !.st = "joined"] \in Row
        <4>1. list[cb.room] \in Row
          BY <2>1 DEF TypeOK
        <4>2. QED
          BY <4>1 DEF Row
      <3>2. list' = list \/ list' = [list EXCEPT ![cb.room].st = "joined"]
        BY <1>5 DEF DeliverAccept, cb
      <3>3. QED
        BY <2>1, <3>1, <3>2 DEF TypeOK
    <2>3. CASE OpenRoom(cb.room)
      BY <1>1, <1>5, <2>1, <2>2, <2>3, OpenRoomType DEF DeliverAccept, TypeOK, server
    <2>4. CASE UNCHANGED <<screen, jobs>>
      BY <1>1, <1>5, <2>2, <2>4 DEF DeliverAccept, TypeOK, server, screen
    <2>5. QED
      BY <1>5, <2>3, <2>4 DEF DeliverAccept
  <1>6. CASE DeliverLeave
    <2>1. list' \in [Rooms -> Row]
      BY <1>6 DEF DeliverLeave, TypeOK, Absent, Row
    <2>2. QED
      BY <1>1, <1>6, <2>1 DEF DeliverLeave, TypeOK, server, screen
  <1>7. QED
    BY <1>3, <1>4, <1>5, <1>6

LEMMA TypeNext == TypeOK /\ [Next]_vars => TypeOK'
  <1> SUFFICES ASSUME TypeOK, [Next]_vars PROVE TypeOK'
    OBVIOUS
  <1>1. CASE Next
    BY <1>1, ServerType, WorkerType, UserType, MessagesCallbackType, ApplySyncType,
       ListCallbackType DEF Next, Callback
  <1>2. CASE UNCHANGED vars
    BY <1>2 DEF vars, TypeOK
  <1>3. QED
    BY <1>1, <1>2

\* Type correctness of the whole component: whatever is clicked, delivered,
\* lost or refused, every handler leaves every variable well formed.
THEOREM TypeCorrect == Spec => []TypeOK
  BY TypeInit, TypeNext, PTL DEF Spec

-----------------------------------------------------------------------------
(***************************************************************************)
(* The message box sends to the open room                                  *)
(***************************************************************************)
LEMMA MessageBoxNext ==
    ASSUME TypeOK, MessageBoxMatchesRoom, [Next]_vars
    PROVE  MessageBoxMatchesRoom'
  <1>1. ASSUME NEW r \in Rooms, OpenRoom(r) PROVE MessageBoxMatchesRoom'
    BY <1>1, RoomsAssumption DEF OpenRoom, MessageBoxMatchesRoom
  <1>2. ASSUME ApplySync PROVE MessageBoxMatchesRoom'
    <2>1. chat'.room = chat.room
      BY <1>2 DEF ApplySync, TypeOK
    <2>2. \/ view' = FALSE /\ currentRoom' = NoRoom
          \/ view' = view /\ currentRoom' = currentRoom
      BY <1>2 DEF RoomAfter, ApplySync, TypeOK
    <2>3. QED
      BY <2>1, <2>2 DEF MessageBoxMatchesRoom
  <1>3. ASSUME UNCHANGED <<view, currentRoom, chat>> PROVE MessageBoxMatchesRoom'
    BY <1>3 DEF MessageBoxMatchesRoom
  <1>4. ServerStep \/ SyncReturn => UNCHANGED <<view, currentRoom, chat>>
    BY DEF ServerStep, NewMessage, EnableEncryption, MembershipChange, SyncReturn, screen
  <1>5. \A k \in Slots : WorkerStep(k) \/ WorkerFault(k) => UNCHANGED <<view, currentRoom, chat>>
    BY DEF WorkerStep, WorkerRead, WorkerMembership, WorkerPost, WorkerPrepare,
           WorkerStates, WorkerFault, screen
  <1>6. ASSUME UserStep PROVE MessageBoxMatchesRoom'
    <2>1. ASSUME NEW r \in Rooms, OnRoomClicked(r) PROVE MessageBoxMatchesRoom'
      BY <1>1, <2>1 DEF OnRoomClicked
    <2>2. \/ \E r \in Rooms : OnRoomClicked(r)
          \/ UNCHANGED <<view, currentRoom, chat>>
      BY <1>6 DEF UserStep, LeaveRoom, AcceptInvite, OnLoadMoreClicked,
                  OpenThreadView, CloseThreadView, screen
    <2>3. QED
      BY <1>3, <2>1, <2>2
  <1>7. ASSUME Callback PROVE MessageBoxMatchesRoom'
    <2>1. ASSUME DeliverAccept PROVE MessageBoxMatchesRoom'
      <3>1. Head(queue).room \in Rooms
        BY <2>1, TakeType DEF DeliverAccept, Job, TypeOK
      <3>2. OpenRoom(Head(queue).room) \/ UNCHANGED <<view, currentRoom, chat>>
        BY <2>1 DEF DeliverAccept, screen
      <3>3. QED
        BY <1>1, <1>3, <3>1, <3>2
    <2>2. \/ DeliverAccept \/ ApplySync
          \/ UNCHANGED <<view, currentRoom, chat>>
      BY <1>7 DEF Callback, HandleSync, DeliverHistory, DeliverMore, DeliverThread,
                  DeliverState, DeliverLeave, screen
    <2>3. QED
      BY <1>2, <1>3, <2>1, <2>2
  <1>8. CASE UNCHANGED vars
    BY <1>3, <1>8 DEF vars
  <1>9. QED
    BY <1>3, <1>4, <1>5, <1>6, <1>7, <1>8 DEF Next

\* While the message box is shown, ChatView sends to the open room: a click, an
\* accepted invite and a removal by sync never leave them apart.
THEOREM MessageBoxSafe == Spec => []MessageBoxMatchesRoom
  <1>1. Init => MessageBoxMatchesRoom
    BY DEF Init, MessageBoxMatchesRoom
  <1>2. TypeOK /\ MessageBoxMatchesRoom /\ [Next]_vars => MessageBoxMatchesRoom'
    BY MessageBoxNext
  <1>3. QED
    BY <1>1, <1>2, TypeCorrect, PTL DEF Spec

-----------------------------------------------------------------------------
(***************************************************************************)
(* A room listed as encrypted stays so                                     *)
(***************************************************************************)
\* No step of a joined, encrypted row to a joined row loses the flag.
LEMMA EncryptionStep ==
    ASSUME TypeOK, [Next]_vars, NEW r \in Rooms,
           list[r].st = "joined", list[r].enc, list'[r].st = "joined"
    PROVE  list'[r].enc
  <1>1. CASE UNCHANGED list
    BY <1>1
  <1>2. CASE ApplySync
    <2> DEFINE d == Head(queue).resp[r]
    <2>1. list'[r] = UpsertRow(list[r], d)
      BY <1>2 DEF ApplySync
    <2>2. d.memb \in {"join", "invite", "leave", "none"}
      <3>1. Head(queue) \in Job
        BY <1>2, TakeType DEF ApplySync, TypeOK
      <3>2. QED
        BY <3>1 DEF Job, JobRecord, Delta, Membership
    <2> HIDE DEF d
    <2>3. CASE d.memb = "join"
      <3>1. list'[r] = [st |-> "joined", enc |-> d.enc \/ list[r].enc, loaded |-> FALSE]
        BY <2>1, <2>3 DEF UpsertRow
      <3>2. list'[r].enc = (d.enc \/ list[r].enc)
        BY <3>1
      <3>3. QED
        BY <3>2
    <2>4. CASE d.memb = "none"
      BY <2>1, <2>4 DEF UpsertRow
    <2>5. CASE d.memb \in {"leave", "invite"}
      BY <2>1, <2>5 DEF UpsertRow, Absent
    <2>6. QED
      BY <2>2, <2>3, <2>4, <2>5
  <1>3. CASE DeliverState
    <2>1. Head(queue).room \in Rooms
      BY <1>3, TakeType DEF DeliverState, Job, TypeOK
    <2>2. list \in [Rooms -> Row] /\ list[r] \in Row
      BY DEF TypeOK
    <2>3. QED
      BY <1>3, <2>1, <2>2 DEF DeliverState, Row
  <1>4. CASE DeliverAccept
    <2>1. list \in [Rooms -> Row] /\ list[r] \in Row
      BY DEF TypeOK
    <2>2. list' = list \/ list' = [list EXCEPT ![Head(queue).room].st = "joined"]
      BY <1>4 DEF DeliverAccept
    <2> DEFINE r0 == Head(queue).room
    <2> HIDE DEF r0
    <2>3. list' = list \/ list' = [list EXCEPT ![r0].st = "joined"]
      BY <2>2 DEF r0
    <2>4. list'[r] = list[r] \/ list'[r] = [list[r] EXCEPT !.st = "joined"]
      BY <2>1, <2>3
    <2>5. [list[r] EXCEPT !.st = "joined"].enc = list[r].enc
      BY <2>1 DEF Row
    <2>6. QED
      BY <2>4, <2>5
  <1>5. CASE DeliverLeave
    BY <1>5 DEF DeliverLeave, Absent, TypeOK
  <1>6. UNCHANGED list \/ ApplySync \/ DeliverState \/ DeliverAccept \/ DeliverLeave
    BY DEF Next, vars, ServerStep, NewMessage, EnableEncryption, MembershipChange,
           SyncReturn, WorkerStep, WorkerRead, WorkerMembership, WorkerPost,
           WorkerPrepare, WorkerStates, WorkerFault, UserStep, OnRoomClicked,
           LeaveRoom, AcceptInvite, OnLoadMoreClicked, OpenThreadView,
           CloseThreadView, Callback, HandleSync, DeliverHistory, DeliverMore,
           DeliverThread
  <1>7. QED
    BY <1>1, <1>2, <1>3, <1>4, <1>5, <1>6

\* RoomStore keeps the encryption flag of a joined room over every later sync
\* response and every late callback.
THEOREM EncryptionIsSticky == Spec => EncryptionSticky
  <1>1. TypeOK /\ [Next]_vars =>
           [\A r \in Rooms :
               list[r].st = "joined" /\ list[r].enc /\ list'[r].st = "joined"
                   => list'[r].enc]_vars
    BY EncryptionStep
  <1>2. QED
    BY <1>1, TypeCorrect, PTL DEF Spec, EncryptionSticky

-----------------------------------------------------------------------------
(***************************************************************************)
(* "Load older" is a single flight                                         *)
(***************************************************************************)
\* A step that moves no load-older request in the pool ...
PoolKeepsMore == \A k \in Slots : jobs'[k].kind = "more" <=> jobs[k].kind = "more"

\* ... and posts and takes no answer of one.
QueueKeepsMore ==
    \/ queue' = queue
    \/ \E job : job.kind # "more" /\ queue' = Append(queue, job)
    \/ queue # <<>> /\ Head(queue).kind # "more" /\ queue' = Tail(queue)

LEMMA KeepsFlight ==
    ASSUME queue \in Seq(Job), LoadMoreSingleFlight,
           PoolKeepsMore, QueueKeepsMore, more'.enabled = more.enabled
    PROVE  LoadMoreSingleFlight'
  <1>1. CASE queue' = queue
    BY <1>1 DEF PoolKeepsMore, LoadMoreSingleFlight, AtMostOneMore, MoreOnItsWay,
                InSlot, InQueue
  <1>2. ASSUME NEW job, job.kind # "more", queue' = Append(queue, job)
        PROVE  LoadMoreSingleFlight'
    <2>1. /\ Len(queue') = Len(queue) + 1
          /\ \A i \in 1..Len(queue) : queue'[i] = queue[i]
          /\ queue'[Len(queue) + 1] = job
          /\ Len(queue) \in Nat
      BY <1>2
    <2>2. \A i \in 1..Len(queue') :
              queue'[i].kind = "more" => i \in 1..Len(queue) /\ queue[i].kind = "more"
      BY <1>2, <2>1
    <2>3. \A i \in 1..Len(queue) : i \in 1..Len(queue')
      BY <2>1
    <2>4. MoreOnItsWay' <=> MoreOnItsWay
      BY <2>1, <2>2, <2>3 DEF PoolKeepsMore, MoreOnItsWay, InSlot, InQueue
    <2>5. AtMostOneMore'
      BY <2>2 DEF PoolKeepsMore, LoadMoreSingleFlight, AtMostOneMore, InSlot, InQueue
    <2>6. QED
      BY <2>4, <2>5 DEF LoadMoreSingleFlight
  <1>3. CASE queue # <<>> /\ Head(queue).kind # "more" /\ queue' = Tail(queue)
    <2>1. /\ Len(queue') = Len(queue) - 1
          /\ \A i \in 1..Len(queue') : queue'[i] = queue[i + 1]
          /\ Len(queue) \in Nat \ {0}
          /\ queue[1].kind # "more"
      BY <1>3
    <2>2. \A i \in 1..Len(queue) :
              queue[i].kind = "more" => i - 1 \in 1..Len(queue') /\ queue'[i - 1] = queue[i]
      BY <2>1
    <2>3. \A i \in 1..Len(queue') : i + 1 \in 1..Len(queue)
      BY <2>1
    <2>4. MoreOnItsWay' <=> MoreOnItsWay
      BY <2>1, <2>2, <2>3 DEF PoolKeepsMore, MoreOnItsWay, InSlot, InQueue
    <2>5. AtMostOneMore'
      BY <2>1, <2>3 DEF PoolKeepsMore, LoadMoreSingleFlight, AtMostOneMore, InSlot, InQueue
    <2>6. QED
      BY <2>4, <2>5 DEF LoadMoreSingleFlight
  <1>4. QED
    BY <1>1, <1>2, <1>3 DEF QueueKeepsMore

\* Enqueueing another job touches no load-older request.
LEMMA EnqueueKeepsPool ==
    ASSUME jobs \in [Slots -> Job], NEW job, job.kind # "more",
           Enqueue(job) \/ UNCHANGED jobs
    PROVE  PoolKeepsMore
  BY DEF Enqueue, Busy, PoolKeepsMore

\* The job that NewJob makes has the kind it was asked for, whatever else is
\* filled in.
LEMMA NewJobKind ==
    ASSUME NEW kind, NEW r
    PROVE  /\ NewJob(kind, r).kind = kind
           /\ \A x : [NewJob(kind, r) EXCEPT !.flag = x].kind = kind
           /\ \A x : [NewJob(kind, r) EXCEPT !.token = x].kind = kind
           /\ \A x : [NewJob(kind, r) EXCEPT !.resp = x].kind = kind
           /\ \A x : [NewJob(kind, r) EXCEPT !.todo = x].kind = kind
           /\ \A x, y : [NewJob(kind, r) EXCEPT !.event = x, !.page = y].kind = kind
  BY DEF NewJob, NoJob

\* Hence no handler but the click on the button touches a load-older request.
LEMMA NewJobKeepsPool ==
    ASSUME jobs \in [Slots -> Job], NEW kind, kind # "more", NEW r, NEW x,
           \/ UNCHANGED jobs
           \/ Enqueue(NewJob(kind, r))
           \/ Enqueue([NewJob(kind, r) EXCEPT !.flag = x])
           \/ Enqueue([NewJob(kind, r) EXCEPT !.resp = x])
    PROVE  PoolKeepsMore
  <1> DEFINE flagged == [NewJob(kind, r) EXCEPT !.flag = x]
             carrying == [NewJob(kind, r) EXCEPT !.resp = x]
  <1>1. /\ NewJob(kind, r).kind # "more" /\ flagged.kind # "more" /\ carrying.kind # "more"
    BY NewJobKind
  <1>2. \/ UNCHANGED jobs \/ Enqueue(NewJob(kind, r)) \/ Enqueue(flagged) \/ Enqueue(carrying)
    OBVIOUS
  <1>3. CASE UNCHANGED jobs
    BY <1>3 DEF PoolKeepsMore
  <1> HIDE DEF flagged, carrying
  <1>4. QED
    BY <1>1, <1>2, <1>3, EnqueueKeepsPool

\* An answer keeps the kind of the request.
LEMMA ReplyKind ==
    ASSUME NEW job \in Job
    PROVE  /\ Answered(job).kind = job.kind
           /\ Failed(job).kind = job.kind
           /\ \A reply \in MessagesReplies(job) : reply.kind = job.kind
           /\ \A reply \in ThreadReplies(job) : reply.kind = job.kind
  <1>1. Answered(job).kind = job.kind /\ Failed(job).kind = job.kind
    BY DEF Answered, Failed, Job, JobRecord
  <1>2. Answered(job) \in JobRecord
    BY FieldTypes DEF Job
  <1>3. /\ \A x, y : [Answered(job) EXCEPT !.page = x, !.token = y].kind = job.kind
        /\ \A x : [Answered(job) EXCEPT !.page = x].kind = job.kind
    BY <1>1, <1>2 DEF JobRecord
  <1>4. \A before : MessagesReply(job, before).kind = job.kind
    BY <1>3 DEF MessagesReply
  <1>5. \A reply \in MessagesReplies(job) : reply.kind = job.kind
    BY <1>1, <1>4 DEF MessagesReplies
  <1>6. ASSUME NEW reply \in ThreadReplies(job) PROVE reply.kind = job.kind
    <2>1. \/ reply = Failed(job)
          \/ \E root : reply = [Answered(job) EXCEPT
                                   !.page = Answered(job).page \cup RepliesTo(job.event) \cup root]
      BY <1>6 DEF ThreadReplies
    <2>2. QED
      BY <1>1, <1>3, <2>1
  <1>7. QED
    BY <1>1, <1>5, <1>6

\* A request of the pool is answered: it stays where it is.
LEMMA AnswerKeepsPool ==
    ASSUME jobs \in [Slots -> Job], NEW k \in Slots, NEW reply,
           reply.kind = jobs[k].kind, jobs' = [jobs EXCEPT ![k] = reply]
    PROVE  PoolKeepsMore
  BY DEF PoolKeepsMore

\* The click opens the flight.
LEMMA LoadMoreDeparts ==
    ASSUME TypeOK, LoadMoreSingleFlight, OnLoadMoreClicked
    PROVE  LoadMoreSingleFlight'
  <1>1. PICK k \in Slots :
            jobs' = [jobs EXCEPT ![k] = [NewJob("more", currentRoom) EXCEPT !.token = prevBatch]]
    BY DEF OnLoadMoreClicked, Enqueue
  <1>2. jobs'[k].kind = "more" /\ \A l \in Slots \ {k} : jobs'[l] = jobs[l]
    BY <1>1, NewJobKind DEF TypeOK
  <1>3. ~MoreOnItsWay /\ queue' = queue /\ more'.enabled = FALSE
    BY DEF OnLoadMoreClicked, LoadMoreSingleFlight, TypeOK
  <1>4. QED
    BY <1>2, <1>3 DEF LoadMoreSingleFlight, AtMostOneMore, MoreOnItsWay, InSlot, InQueue

\* The answer moves from the pool to the queue; the button stays disabled.
LEMMA LoadMorePosted ==
    ASSUME TypeOK, LoadMoreSingleFlight, NEW k \in Slots, WorkerPost(k)
    PROVE  LoadMoreSingleFlight'
  <1>1. /\ queue' = Append(queue, jobs[k]) /\ queue \in Seq(Job) /\ jobs[k] \in Job
        /\ jobs' = [jobs EXCEPT ![k] = NoJob] /\ jobs \in [Slots -> Job]
        /\ more' = more
    BY DEF WorkerPost, TypeOK, screen
  <1>2. NoJob.kind = "none"
    BY DEF NoJob
  <1>3. CASE jobs[k].kind # "more"
    <2>1. PoolKeepsMore
      BY <1>1, <1>2, <1>3 DEF PoolKeepsMore
    <2>2. QED
      BY <1>1, <1>3, <2>1, KeepsFlight DEF QueueKeepsMore
  <1>4. CASE jobs[k].kind = "more"
    <2>1. /\ \A l \in Slots : jobs'[l].kind # "more"
          /\ \A i \in 1..Len(queue) : queue[i].kind # "more"
          /\ ~more.enabled
      BY <1>1, <1>2, <1>4 DEF LoadMoreSingleFlight, AtMostOneMore, MoreOnItsWay,
                              InSlot, InQueue
    <2>2. /\ Len(queue') = Len(queue) + 1 /\ Len(queue) \in Nat
          /\ \A i \in 1..Len(queue) : queue'[i] = queue[i]
          /\ queue'[Len(queue) + 1] = jobs[k]
      BY <1>1
    <2>3. \A i \in 1..Len(queue') : queue'[i].kind = "more" => i = Len(queue')
      BY <2>1, <2>2
    <2>4. MoreOnItsWay'
      BY <1>4, <2>2 DEF MoreOnItsWay, InQueue
    <2>5. QED
      BY <1>1, <2>1, <2>3, <2>4 DEF LoadMoreSingleFlight, AtMostOneMore, InSlot, InQueue
  <1>5. QED
    BY <1>3, <1>4

\* The callback closes the flight.
LEMMA LoadMoreLands ==
    ASSUME TypeOK, LoadMoreSingleFlight, DeliverMore
    PROVE  LoadMoreSingleFlight'
  <1>1. /\ queue # <<>> /\ queue[1].kind = "more" /\ queue' = Tail(queue)
        /\ queue \in Seq(Job) /\ jobs' = jobs
    BY DEF DeliverMore, TakeCallback, TypeOK
  <1>2. more'.enabled = TRUE
    BY DEF ButtonAfter, DeliverMore
  <1>3. /\ Len(queue) \in Nat \ {0} /\ Len(queue') = Len(queue) - 1
        /\ \A i \in 1..Len(queue') : i + 1 \in 1..Len(queue) /\ queue'[i] = queue[i + 1]
    BY <1>1
  <1>4. /\ \A l \in Slots : jobs[l].kind # "more"
        /\ \A i \in 1..Len(queue) : queue[i].kind = "more" => i = 1
    BY <1>1, <1>3 DEF LoadMoreSingleFlight, AtMostOneMore, InSlot, InQueue
  <1>5. \A i \in 1..Len(queue') : queue'[i].kind # "more"
    BY <1>3, <1>4
  <1>6. QED
    BY <1>1, <1>2, <1>4, <1>5 DEF LoadMoreSingleFlight, AtMostOneMore, MoreOnItsWay,
                                  InSlot, InQueue

LEMMA LoadMoreWorker ==
    ASSUME TypeOK, LoadMoreSingleFlight, NEW k \in Slots, WorkerStep(k) \/ WorkerFault(k)
    PROVE  LoadMoreSingleFlight'
  <1>1. jobs \in [Slots -> Job] /\ jobs[k] \in Job /\ queue \in Seq(Job)
    BY DEF TypeOK
  <1>2. ASSUME WorkerRead(k) \/ WorkerMembership(k) \/ WorkerFault(k)
        PROVE  LoadMoreSingleFlight'
    <2>1. /\ queue' = queue /\ more' = more
          /\ \E reply : reply.kind = jobs[k].kind /\ jobs' = [jobs EXCEPT ![k] = reply]
      BY <1>1, <1>2, ReplyKind DEF WorkerRead, WorkerMembership, WorkerFault, screen
    <2>2. PoolKeepsMore
      BY <1>1, <2>1, AnswerKeepsPool
    <2>3. QED
      BY <1>1, <2>1, <2>2, KeepsFlight DEF QueueKeepsMore
  <1>3. ASSUME WorkerPrepare(k) PROVE LoadMoreSingleFlight'
    <2> DEFINE resp == [r \in Rooms |-> IF r = jobs[k].room THEN jobs[k].resp[r]
                                        ELSE [jobs[k].resp[r] EXCEPT !.from = 0, !.to = 0]]
               post == [jobs[k] EXCEPT !.kind = "apply", !.resp = resp]
    <2> HIDE DEF resp
    <2>1. post.kind # "more"
      BY <1>1 DEF Job, JobRecord
    <2>2. queue' = Append(queue, post) /\ jobs' = [jobs EXCEPT ![k] = NoJob] /\ more' = more
      BY <1>3 DEF WorkerPrepare, screen, resp
    <2>3. PoolKeepsMore
      BY <1>1, <1>3, <2>2 DEF PoolKeepsMore, WorkerPrepare, NoJob
    <2> HIDE DEF post
    <2>4. QED
      BY <1>1, <2>1, <2>2, <2>3, KeepsFlight DEF QueueKeepsMore
  <1>4. ASSUME WorkerStates(k) PROVE LoadMoreSingleFlight'
    <2>1. PICK r \in jobs[k].todo, ok \in BOOLEAN :
              queue' = Append(queue, [NewJob("state", r) EXCEPT !.flag = ok /\ srv[r].enc])
      BY <1>4 DEF WorkerStates
    <2>2. more' = more
      BY <1>4 DEF WorkerStates, screen
    <2> DEFINE post == [NewJob("state", r) EXCEPT !.flag = ok /\ srv[r].enc]
    <2>3. post.kind = "state"
      BY NewJobKind
    <2>4. queue' = Append(queue, post)
      BY <2>1
    <2> HIDE DEF post
    <2>5. QueueKeepsMore
      BY <2>3, <2>4 DEF QueueKeepsMore
    <2>6. PoolKeepsMore
      <3>1. \/ jobs' = [jobs EXCEPT ![k] = NoJob]
            \/ \E rest : jobs' = [jobs EXCEPT ![k] = [jobs[k] EXCEPT !.todo = rest]]
        BY <1>4 DEF WorkerStates
      <3>2. \A rest : [jobs[k] EXCEPT !.todo = rest].kind = jobs[k].kind
        BY <1>1 DEF Job, JobRecord
      <3>3. jobs[k].kind # "more" /\ NoJob.kind # "more"
        BY <1>4 DEF WorkerStates, NoJob
      <3>4. QED
        BY <1>1, <3>1, <3>2, <3>3 DEF PoolKeepsMore
    <2>7. QED
      BY <1>1, <2>2, <2>5, <2>6, KeepsFlight
  <1>5. QED
    BY <1>2, <1>3, <1>4, LoadMorePosted DEF WorkerStep

\* The room is opened: the button is hidden, but not enabled.
LEMMA OpenKeepsFlight ==
    ASSUME TypeOK, NEW r, OpenRoom(r)
    PROVE  PoolKeepsMore /\ more'.enabled = more.enabled
  <1>1. Enqueue([NewJob("history", r) EXCEPT !.flag = TRUE])
    BY DEF OpenRoom
  <1>2. [NewJob("history", r) EXCEPT !.flag = TRUE].kind # "more"
    BY NewJobKind
  <1>3. PoolKeepsMore
    BY <1>1, <1>2, EnqueueKeepsPool DEF TypeOK
  <1>4. more'.enabled = more.enabled
    BY DEF HideLoadMore, OpenRoom, TypeOK
  <1>5. QED
    BY <1>3, <1>4

LEMMA LoadMoreUser ==
    ASSUME TypeOK, LoadMoreSingleFlight, UserStep
    PROVE  LoadMoreSingleFlight'
  <1>1. queue \in Seq(Job) /\ jobs \in [Slots -> Job]
    BY DEF TypeOK
  <1>2. CASE OnLoadMoreClicked
    BY <1>2, LoadMoreDeparts
  <1>3. ASSUME NEW r \in Rooms, OnRoomClicked(r) PROVE LoadMoreSingleFlight'
    <2>1. queue' = queue
      BY <1>3 DEF OnRoomClicked
    <2>2. QED
      BY <1>1, <1>3, <2>1, OpenKeepsFlight, KeepsFlight DEF OnRoomClicked, QueueKeepsMore
  <1>4. ASSUME PoolKeepsMore, queue' = queue, more' = more PROVE LoadMoreSingleFlight'
    BY <1>1, <1>4, KeepsFlight DEF QueueKeepsMore
  <1>5. ASSUME CloseThreadView PROVE LoadMoreSingleFlight'
    <2>1. Enqueue(NewJob("history", currentRoom)) \/ UNCHANGED jobs
      BY <1>5 DEF CloseThreadView, EnqueueIf
    <2>2. NewJob("history", currentRoom).kind # "more"
      BY NewJobKind
    <2>3. PoolKeepsMore
      BY <1>1, <2>1, <2>2, EnqueueKeepsPool
    <2>4. QED
      BY <1>4, <1>5, <2>3 DEF CloseThreadView
  <1>6. ASSUME NEW r \in Rooms, NEW open \in BOOLEAN, AcceptInvite(r, open)
        PROVE  LoadMoreSingleFlight'
    <2>1. Enqueue([NewJob("accept", r) EXCEPT !.flag = open])
      BY <1>6 DEF AcceptInvite
    <2>2. PoolKeepsMore
      BY <1>1, <2>1, NewJobKeepsPool
    <2>3. QED
      BY <1>4, <1>6, <2>2 DEF AcceptInvite, screen
  <1>7. ASSUME NEW r \in Rooms, LeaveRoom(r) PROVE LoadMoreSingleFlight'
    <2>1. Enqueue(NewJob("leave", r))
      BY <1>7 DEF LeaveRoom
    <2>2. PoolKeepsMore
      BY <1>1, <2>1, NewJobKeepsPool
    <2>3. QED
      BY <1>4, <1>7, <2>2 DEF LeaveRoom, screen
  <1>8. ASSUME NEW root \in EventIds, OpenThreadView(root) PROVE LoadMoreSingleFlight'
    <2>1. PICK snapshot :
              Enqueue([NewJob("thread", currentRoom) EXCEPT !.event = root, !.page = snapshot])
      BY <1>8 DEF OpenThreadView
    <2> DEFINE job == [NewJob("thread", currentRoom) EXCEPT !.event = root, !.page = snapshot]
    <2>2. job.kind # "more" /\ Enqueue(job)
      BY <2>1, NewJobKind
    <2> HIDE DEF job
    <2>3. PoolKeepsMore
      BY <1>1, <2>2, EnqueueKeepsPool
    <2>4. QED
      BY <1>4, <1>8, <2>3 DEF OpenThreadView
  <1>9. QED
    BY <1>2, <1>3, <1>5, <1>6, <1>7, <1>8 DEF UserStep

LEMMA LoadMoreCallback ==
    ASSUME TypeOK, LoadMoreSingleFlight, Callback
    PROVE  LoadMoreSingleFlight'
  <1>1. queue \in Seq(Job) /\ jobs \in [Slots -> Job]
    BY DEF TypeOK
  <1>2. CASE DeliverMore
    BY <1>2, LoadMoreLands
  <1>3. ASSUME HandleSync \/ ApplySync \/ DeliverHistory \/ DeliverThread
               \/ DeliverState \/ DeliverAccept \/ DeliverLeave
        PROVE  LoadMoreSingleFlight'
    <2>1. QueueKeepsMore
      BY <1>3 DEF HandleSync, ApplySync, DeliverHistory, DeliverThread, DeliverState,
                  DeliverAccept, DeliverLeave, TakeCallback, QueueKeepsMore
    <2>2. CASE HandleSync
      <3>1. Enqueue([NewJob("prepare", currentRoom) EXCEPT !.resp = Head(queue).resp])
        BY <2>2 DEF HandleSync
      <3>2. PoolKeepsMore
        BY <1>1, <3>1, NewJobKeepsPool
      <3>3. QED
        BY <1>1, <2>1, <2>2, <3>2, KeepsFlight DEF HandleSync, screen
    <2>3. CASE ApplySync
      <3>1. more'.enabled = more.enabled
        BY <2>3 DEF HideLoadMore, ApplySync, TypeOK
      <3>2. PICK todo :
                Enqueue([NewJob("states", NoRoom) EXCEPT !.todo = todo]) \/ UNCHANGED jobs
        BY <2>3 DEF ApplySync, EnqueueIf
      <3> DEFINE job == [NewJob("states", NoRoom) EXCEPT !.todo = todo]
      <3>3. job.kind # "more" /\ (Enqueue(job) \/ UNCHANGED jobs)
        BY <3>2, NewJobKind
      <3> HIDE DEF job
      <3>4. PoolKeepsMore
        BY <1>1, <3>3, EnqueueKeepsPool
      <3>5. QED
        BY <1>1, <2>1, <3>1, <3>4, KeepsFlight
    <2>4. CASE DeliverAccept
      <3>1. (\E r : OpenRoom(r)) \/ UNCHANGED <<more, jobs>>
        BY <2>4 DEF DeliverAccept, screen
      <3>2. QED
        BY <1>1, <2>1, <3>1, OpenKeepsFlight, KeepsFlight DEF PoolKeepsMore
    <2>5. CASE DeliverHistory \/ DeliverThread \/ DeliverState \/ DeliverLeave
      <3>1. more'.enabled = more.enabled /\ jobs' = jobs
        BY <2>5 DEF DeliverHistory, DeliverThread, DeliverState, DeliverLeave, TypeOK, screen
      <3>2. QED
        BY <1>1, <2>1, <3>1, KeepsFlight DEF PoolKeepsMore
    <2>6. QED
      BY <1>3, <2>2, <2>3, <2>4, <2>5
  <1>4. QED
    BY <1>2, <1>3 DEF Callback

\* The "Load older" button is disabled exactly while its one request is on its
\* way: no room switch, thread view, removal or failed request loses it for good.
THEOREM LoadMoreSafe == Spec => []LoadMoreSingleFlight
  <1>1. Init => LoadMoreSingleFlight
    BY DEF Init, NoJob, LoadMoreSingleFlight, AtMostOneMore, MoreOnItsWay, InSlot, InQueue
  <1>2. ASSUME TypeOK, LoadMoreSingleFlight, [Next]_vars PROVE LoadMoreSingleFlight'
    <2>1. CASE ServerStep
      <3>1. UNCHANGED <<more, jobs, queue>>
        BY <2>1 DEF ServerStep, NewMessage, EnableEncryption, MembershipChange, screen
      <3>2. QED
        BY <1>2, <3>1, KeepsFlight DEF PoolKeepsMore, QueueKeepsMore, TypeOK
    <2>2. CASE SyncReturn
      <3> DEFINE job == [NewJob("sync", NoRoom) EXCEPT !.resp = [r \in Rooms |-> DeltaOf(r)]]
      <3>1. job.kind # "more"
        BY NewJobKind
      <3>2. UNCHANGED <<more, jobs>> /\ (queue' = queue \/ queue' = Append(queue, job))
        BY <2>2 DEF SyncReturn, screen
      <3> HIDE DEF job
      <3>3. QED
        BY <1>2, <3>1, <3>2, KeepsFlight DEF PoolKeepsMore, QueueKeepsMore, TypeOK
    <2>3. CASE UNCHANGED vars
      BY <1>2, <2>3, KeepsFlight DEF PoolKeepsMore, QueueKeepsMore, vars, TypeOK
    <2>4. QED
      BY <1>2, <2>1, <2>2, <2>3, LoadMoreWorker, LoadMoreUser, LoadMoreCallback DEF Next
  <1>3. QED
    BY <1>1, <1>2, TypeCorrect, PTL DEF Spec

(***************************************************************************)
(* "Load older" keeps the promise of SingleFlight: over the click, the     *)
(* request, its answer or fault and the posted callback it starts with an  *)
(* open gate and only ever departs through it or lands and opens it.       *)
(* (That it lands is liveness, and left to TLC.)                           *)
(***************************************************************************)
THEOREM LoadMoreFlies ==
    Spec => Flight!Init /\ [][Flight!Next \/ UNCHANGED Flight!vars]_vars
  <1> DEFINE Mapped == more.enabled \in BOOLEAN
                       /\ MoreFlight = IF more.enabled THEN "none" ELSE "one"
  <1>1. TypeOK /\ LoadMoreSingleFlight => Mapped
    BY DEF TypeOK, LoadMoreSingleFlight, MoreFlight
  <1>2. Init /\ Mapped => Flight!Init
    BY DEF Init, Flight!Init
  <1>3. Mapped /\ Mapped' => (Flight!Next \/ UNCHANGED Flight!vars)
    BY DEF Flight!Next, Flight!Depart, Flight!Land, Flight!vars
  <1> HIDE DEF Mapped
  <1>4. QED
    BY <1>1, <1>2, <1>3, TypeCorrect, LoadMoreSafe, PTL DEF Spec

-----------------------------------------------------------------------------
(***************************************************************************)
(* The messages: where those of the open room may come from, and that none *)
(* is lost between the history and the sync.                               *)
(***************************************************************************)
\* What is under way.
Pool     == {jobs[k] : k \in Slots}
Posted   == {queue[i] : i \in 1..Len(queue)}
InFlight == Pool \cup Posted

\* Enqueueing adds a job and drops none.
LEMMA PoolEnqueue ==
    ASSUME TypeOK, NEW job, Enqueue(job)
    PROVE  /\ Pool' \subseteq Pool \cup {job} /\ job \in Pool'
           /\ \A x \in Pool : x.kind # "none" => x \in Pool'
  <1>1. PICK k \in Slots : ~Busy(k) /\ jobs' = [jobs EXCEPT ![k] = job]
    BY DEF Enqueue
  <1>2. jobs'[k] = job /\ \A l \in Slots \ {k} : jobs'[l] = jobs[l]
    BY <1>1 DEF TypeOK
  <1>3. jobs[k].kind = "none"
    BY <1>1 DEF Busy
  <1>4. QED
    BY <1>2, <1>3 DEF Pool

\* One slot is written.
LEMMA PoolReplace ==
    ASSUME TypeOK, NEW k \in Slots, NEW job, jobs' = [jobs EXCEPT ![k] = job]
    PROVE  /\ Pool' \subseteq Pool \cup {job} /\ job \in Pool'
           /\ \A x \in Pool : x = jobs[k] \/ x \in Pool'
  <1>1. jobs'[k] = job /\ \A l \in Slots \ {k} : jobs'[l] = jobs[l]
    BY DEF TypeOK
  <1>2. QED
    BY <1>1 DEF Pool

\* Posting a callback adds it.
LEMMA PostedAppend ==
    ASSUME TypeOK, NEW job, queue' = Append(queue, job)
    PROVE  Posted' = Posted \cup {job}
  <1>1. /\ queue \in Seq(Job) /\ Len(queue) \in Nat /\ Len(queue') = Len(queue) + 1
        /\ queue'[Len(queue) + 1] = job
        /\ \A i \in 1..Len(queue) : queue'[i] = queue[i]
    BY DEF TypeOK
  <1>2. 1..Len(queue') = 1..Len(queue) \cup {Len(queue) + 1}
    BY <1>1
  <1>3. QED
    BY <1>1, <1>2 DEF Posted

\* Taking a callback removes it and no other.
LEMMA PostedTake ==
    ASSUME TypeOK, NEW kind, TakeCallback(kind)
    PROVE  /\ Posted' \subseteq Posted /\ Head(queue) \in Posted
           /\ \A x \in Posted : x = Head(queue) \/ x \in Posted'
           /\ queue # <<>> /\ Head(queue).kind = kind /\ Head(queue) \in Job
  <1>1. /\ queue \in Seq(Job) /\ queue # <<>> /\ queue' = Tail(queue)
        /\ Head(queue) = queue[1] /\ Head(queue).kind = kind
    BY DEF TakeCallback, TypeOK
  <1>2. /\ Len(queue) \in Nat \ {0} /\ Len(queue') = Len(queue) - 1
        /\ \A i \in 1..Len(queue') : i + 1 \in 1..Len(queue) /\ queue'[i] = queue[i + 1]
    BY <1>1
  <1>3. \A i \in 1..Len(queue) : i = 1 \/ (i - 1 \in 1..Len(queue') /\ queue[i] = queue'[i - 1])
    BY <1>2
  <1>4. Head(queue) \in Job
    BY <1>1, <1>2
  <1>5. Head(queue) \in Posted
    BY <1>1, <1>2 DEF Posted
  <1>6. Posted' \subseteq Posted
    BY <1>2 DEF Posted
  <1>7. \A x \in Posted : x = Head(queue) \/ x \in Posted'
    BY <1>1, <1>3 DEF Posted
  <1>8. QED
    BY <1>1, <1>4, <1>5, <1>6, <1>7

-----------------------------------------------------------------------------
(***************************************************************************)
(* Every request carries messages of its own room only.  The inductive     *)
(* invariant of MixedOnlyByStaleCallback.                                  *)
(***************************************************************************)
OwnContents(job) ==
    /\ job.ok => job.done
    /\ job.kind \in {"history", "more"} =>
          /\ \A e \in job.page : e[1] = job.room
          /\ job.ok => job.token.room = job.room
    /\ job.kind = "thread" =>
          /\ \A e \in job.page : e[1] = job.event[1]
          /\ job.ok => job.event[1] = job.room

ContentsInv == \A job \in InFlight : OwnContents(job)

\* A job that was just made carries no message, unless it is for a thread.
LEMMA NewContents ==
    ASSUME NEW kind, NEW r
    PROVE  /\ OwnContents(NoJob)
           /\ OwnContents(NewJob(kind, r))
           /\ \A x : OwnContents([NewJob(kind, r) EXCEPT !.flag = x])
           /\ \A x : OwnContents([NewJob(kind, r) EXCEPT !.token = x])
           /\ \A x : OwnContents([NewJob(kind, r) EXCEPT !.resp = x])
           /\ \A x : OwnContents([NewJob(kind, r) EXCEPT !.todo = x])
           /\ \A x, y : kind = "thread" /\ (\A e \in y : e[1] = x[1]) =>
                 OwnContents([NewJob(kind, r) EXCEPT !.event = x, !.page = y])
  BY DEF OwnContents, NewJob, NoJob

\* An answer to a request with its own contents has its own contents, too.
LEMMA AnswerContents ==
    ASSUME NEW job \in Job, OwnContents(job), ~job.done
    PROVE  /\ OwnContents(Failed(job))
           /\ job.kind \in {"accept", "leave"} => OwnContents(Answered(job))
           /\ job.kind \in {"history", "more"} =>
                 \A reply \in MessagesReplies(job) : OwnContents(reply)
           /\ job.kind = "thread" => \A reply \in ThreadReplies(job) : OwnContents(reply)
  <1>1. job \in JobRecord /\ ~job.ok
    BY DEF Job, OwnContents
  <1>2. OwnContents(Failed(job))
    BY <1>1 DEF Failed, OwnContents, JobRecord
  <1>3. job.kind \in {"accept", "leave"} => OwnContents(Answered(job))
    BY <1>1 DEF Answered, OwnContents, JobRecord
  <1>4. /\ Answered(job) \in JobRecord /\ Answered(job).kind = job.kind
        /\ Answered(job).room = job.room /\ Answered(job).event = job.event
        /\ Answered(job).page = job.page /\ Answered(job).done
    BY <1>1 DEF Answered, JobRecord
  <1>5. ASSUME job.kind \in {"history", "more"}, NEW before
        PROVE  OwnContents(MessagesReply(job, before))
    <2> DEFINE first == IF before > PageSize THEN before - PageSize ELSE 1
               page  == {<<job.room, i>> : i \in first..(before - 1)}
               token == [room |-> job.room, pos |-> IF first > 1 THEN first ELSE before]
               reply == [Answered(job) EXCEPT !.page = page, !.token = token]
    <2>1. MessagesReply(job, before) = reply
      BY DEF MessagesReply
    <2>2. token.room = job.room /\ \A e \in page : e[1] = job.room
      OBVIOUS
    <2> HIDE DEF page, token
    <2>3. /\ reply.kind = job.kind /\ reply.room = job.room
          /\ reply.page = page /\ reply.token = token /\ reply.done
      BY <1>4 DEF JobRecord
    <2> HIDE DEF reply
    <2>4. QED
      BY <1>5, <2>1, <2>2, <2>3 DEF OwnContents
  <1>6. ASSUME job.kind \in {"history", "more"}, NEW reply \in MessagesReplies(job)
        PROVE  OwnContents(reply)
    BY <1>2, <1>5, <1>6 DEF MessagesReplies
  <1>7. ASSUME job.kind = "thread", NEW reply \in ThreadReplies(job)
        PROVE  OwnContents(reply)
    <2>1. CASE job.event[1] # job.room
      BY <1>2, <1>7, <2>1 DEF ThreadReplies
    <2>2. CASE job.event[1] = job.room
      <3>1. PICK ok \in MayRead(job.room), root \in {{}, {job.event}} :
                reply = IF ok THEN [Answered(job) EXCEPT
                                       !.page = @ \cup RepliesTo(job.event) \cup root]
                        ELSE Failed(job)
        BY <1>7, <2>2 DEF ThreadReplies
      <3>2. \A e \in job.page \cup RepliesTo(job.event) \cup root : e[1] = job.event[1]
        BY <1>7, <3>1 DEF OwnContents, RepliesTo
      <3> DEFINE page == job.page \cup RepliesTo(job.event) \cup root
                 full == [Answered(job) EXCEPT !.page = page]
      <3>3. reply = full \/ reply = Failed(job)
        BY <1>4, <3>1
      <3>4. \A e \in page : e[1] = job.event[1]
        BY <3>2
      <3> HIDE DEF page
      <3>5. /\ full.kind = "thread" /\ full.room = job.room /\ full.event = job.event
            /\ full.page = page /\ full.done
        BY <1>4, <1>7 DEF JobRecord
      <3> HIDE DEF full
      <3>6. OwnContents(full)
        BY <2>2, <3>4, <3>5 DEF OwnContents
      <3>7. QED
        BY <1>2, <3>3, <3>6
    <2>3. QED
      BY <2>1, <2>2
  <1>8. QED
    BY <1>2, <1>3, <1>6, <1>7

\* One more job with its own contents keeps the invariant.
LEMMA ContentsKept ==
    ASSUME ContentsInv, NEW job, OwnContents(job), InFlight' \subseteq InFlight \cup {job}
    PROVE  ContentsInv'
  BY DEF ContentsInv

\* Enqueueing one does, whatever callback is taken meanwhile.
LEMMA ContentsEnqueue ==
    ASSUME TypeOK, ContentsInv, NEW job, OwnContents(job),
           Enqueue(job) \/ UNCHANGED jobs, Posted' \subseteq Posted
    PROVE  ContentsInv'
  <1>1. CASE Enqueue(job)
    BY <1>1, PoolEnqueue, ContentsKept DEF InFlight
  <1>2. CASE UNCHANGED jobs
    BY <1>2, ContentsKept DEF InFlight, Pool
  <1>3. QED
    BY <1>1, <1>2

\* Opening a room does.
LEMMA ContentsOpen ==
    ASSUME TypeOK, ContentsInv, NEW r, OpenRoom(r), Posted' \subseteq Posted
    PROVE  ContentsInv'
  BY NewContents, ContentsEnqueue DEF OpenRoom

LEMMA ContentsWorker ==
    ASSUME TypeOK, ContentsInv, NEW k \in Slots, WorkerStep(k) \/ WorkerFault(k)
    PROVE  ContentsInv'
  <1>1. jobs[k] \in Job /\ OwnContents(jobs[k])
    BY DEF ContentsInv, InFlight, Pool, TypeOK
  <1>2. ASSUME NEW reply, OwnContents(reply), jobs' = [jobs EXCEPT ![k] = reply],
               queue' = queue
        PROVE  ContentsInv'
    BY <1>2, PoolReplace, ContentsKept DEF InFlight, Posted
  <1>3. ASSUME NEW post, OwnContents(post), NEW rest, OwnContents(rest),
               queue' = Append(queue, post), jobs' = [jobs EXCEPT ![k] = rest]
        PROVE  ContentsInv'
    <2>1. InFlight' \subseteq InFlight \cup {post, rest}
      BY <1>3, PoolReplace, PostedAppend DEF InFlight
    <2>2. QED
      BY <1>3, <2>1 DEF ContentsInv
  <1>4. CASE WorkerRead(k)
    <2>1. jobs[k].kind \in {"history", "more", "thread"} /\ ~jobs[k].done
      BY <1>4 DEF WorkerRead, Requesting
    <2>2. PICK reply \in IF jobs[k].kind = "thread" THEN ThreadReplies(jobs[k])
                         ELSE MessagesReplies(jobs[k]) :
              jobs' = [jobs EXCEPT ![k] = reply]
      BY <1>4 DEF WorkerRead
    <2>3. OwnContents(reply)
      BY <1>1, <2>1, <2>2, AnswerContents
    <2>4. QED
      BY <1>2, <1>4, <2>2, <2>3 DEF WorkerRead
  <1>5. CASE WorkerMembership(k) \/ WorkerFault(k)
    <2>1. ~jobs[k].done /\ queue' = queue
      BY <1>5 DEF WorkerMembership, WorkerFault, Requesting
    <2>2. \/ jobs' = [jobs EXCEPT ![k] = Failed(jobs[k])]
          \/ /\ jobs' = [jobs EXCEPT ![k] = Answered(jobs[k])]
             /\ jobs[k].kind \in {"accept", "leave"}
      BY <1>5 DEF WorkerMembership, WorkerFault, Requesting
    <2>3. QED
      BY <1>1, <1>2, <2>1, <2>2, AnswerContents
  <1>6. CASE WorkerPost(k)
    BY <1>1, <1>3, <1>6, NewContents DEF WorkerPost
  <1>7. CASE WorkerPrepare(k)
    <2> DEFINE resp == [r \in Rooms |-> IF r = jobs[k].room THEN jobs[k].resp[r]
                                        ELSE [jobs[k].resp[r] EXCEPT !.from = 0, !.to = 0]]
               post == [jobs[k] EXCEPT !.kind = "apply", !.resp = resp]
    <2>1. queue' = Append(queue, post) /\ jobs' = [jobs EXCEPT ![k] = NoJob]
      BY <1>7 DEF WorkerPrepare
    <2> HIDE DEF resp
    <2>2. post.kind = "apply" /\ post.ok = jobs[k].ok /\ post.done = jobs[k].done
      BY <1>1 DEF Job, JobRecord
    <2> HIDE DEF post
    <2>3. OwnContents(post)
      BY <1>1, <2>2 DEF OwnContents
    <2>4. QED
      BY <1>3, <2>1, <2>3, NewContents
  <1>8. CASE WorkerStates(k)
    <2>1. \E r \in jobs[k].todo : \E flag :
              queue' = Append(queue, [NewJob("state", r) EXCEPT !.flag = flag])
      BY <1>8 DEF WorkerStates
    <2>2. \/ jobs' = [jobs EXCEPT ![k] = NoJob]
          \/ \E rest : jobs' = [jobs EXCEPT ![k] = [jobs[k] EXCEPT !.todo = rest]]
      BY <1>8 DEF WorkerStates
    <2>3. \A rest : OwnContents([jobs[k] EXCEPT !.todo = rest])
      <3> SUFFICES ASSUME NEW rest PROVE OwnContents([jobs[k] EXCEPT !.todo = rest])
        OBVIOUS
      <3> DEFINE job == [jobs[k] EXCEPT !.todo = rest]
      <3>1. /\ job.kind = jobs[k].kind /\ job.ok = jobs[k].ok /\ job.done = jobs[k].done
            /\ job.room = jobs[k].room /\ job.page = jobs[k].page
            /\ job.token = jobs[k].token /\ job.event = jobs[k].event
        BY <1>1 DEF Job, JobRecord
      <3> HIDE DEF job
      <3>2. OwnContents(job)
        BY <1>1, <3>1 DEF OwnContents
      <3>3. QED
        BY <3>2 DEF job
    <2>4. QED
      BY <1>3, <2>1, <2>2, <2>3, NewContents
  <1>9. QED
    BY <1>4, <1>5, <1>6, <1>7, <1>8 DEF WorkerStep

LEMMA ContentsUser ==
    ASSUME TypeOK, ContentsInv, UserStep
    PROVE  ContentsInv'
  <1>1. Posted' = Posted
    BY DEF UserStep, OnRoomClicked, LeaveRoom, AcceptInvite, OnLoadMoreClicked,
           OpenThreadView, CloseThreadView, Posted
  <1>2. ASSUME NEW r \in Rooms, OnRoomClicked(r) PROVE ContentsInv'
    BY <1>1, <1>2, ContentsOpen DEF OnRoomClicked
  <1>3. ASSUME NEW r \in Rooms, LeaveRoom(r) PROVE ContentsInv'
    BY <1>1, <1>3, NewContents, ContentsEnqueue DEF LeaveRoom
  <1>4. ASSUME NEW r \in Rooms, NEW open \in BOOLEAN, AcceptInvite(r, open) PROVE ContentsInv'
    BY <1>1, <1>4, NewContents, ContentsEnqueue DEF AcceptInvite
  <1>5. CASE OnLoadMoreClicked
    BY <1>1, <1>5, NewContents, ContentsEnqueue DEF OnLoadMoreClicked
  <1>6. ASSUME NEW root \in EventIds, OpenThreadView(root) PROVE ContentsInv'
    <2> DEFINE page == {e \in rows : e = root \/
                           (e[1] = root[1] /\ ReplyTo[e[2]] = root[2])}
               job  == [NewJob("thread", currentRoom) EXCEPT !.event = root, !.page = page]
    <2>1. Enqueue(job)
      BY <1>6 DEF OpenThreadView
    <2>2. \A e \in page : e[1] = root[1]
      OBVIOUS
    <2> HIDE DEF page
    <2>3. OwnContents(job)
      BY <2>2, NewContents
    <2> HIDE DEF job
    <2>4. QED
      BY <1>1, <2>1, <2>3, ContentsEnqueue
  <1>7. CASE CloseThreadView
    BY <1>1, <1>7, NewContents, ContentsEnqueue DEF CloseThreadView, EnqueueIf
  <1>8. QED
    BY <1>2, <1>3, <1>4, <1>5, <1>6, <1>7 DEF UserStep

LEMMA ContentsCallback ==
    ASSUME TypeOK, ContentsInv, Callback
    PROVE  ContentsInv'
  <1>1. Posted' \subseteq Posted
    BY PostedTake DEF Callback, HandleSync, ApplySync, DeliverHistory, DeliverMore,
                      DeliverThread, DeliverState, DeliverAccept, DeliverLeave
  <1>2. CASE HandleSync
    BY <1>1, <1>2, NewContents, ContentsEnqueue DEF HandleSync
  <1>3. CASE ApplySync
    <2>1. PICK todo :
              Enqueue([NewJob("states", NoRoom) EXCEPT !.todo = todo]) \/ UNCHANGED jobs
      BY <1>3 DEF ApplySync, EnqueueIf
    <2>2. QED
      BY <1>1, <2>1, NewContents, ContentsEnqueue
  <1>4. CASE DeliverAccept
    <2>1. (\E r : OpenRoom(r)) \/ UNCHANGED jobs
      BY <1>4 DEF DeliverAccept
    <2>2. QED
      BY <1>1, <2>1, ContentsOpen, NewContents, ContentsEnqueue
  <1>5. CASE UNCHANGED jobs
    BY <1>1, <1>5, NewContents, ContentsEnqueue
  <1>6. QED
    BY <1>2, <1>3, <1>4, <1>5 DEF Callback, DeliverHistory, DeliverMore, DeliverThread,
                                  DeliverState, DeliverLeave

LEMMA ContentsAlways == Spec => []ContentsInv
  <1>1. Init => ContentsInv
    <2>1. Init => Posted = {} /\ Pool \subseteq {NoJob}
      BY DEF Init, Pool, Posted
    <2>2. OwnContents(NoJob)
      BY NewContents
    <2>3. QED
      BY <2>1, <2>2 DEF ContentsInv, InFlight
  <1>2. ASSUME TypeOK, ContentsInv, [Next]_vars PROVE ContentsInv'
    <2>1. CASE ServerStep \/ UNCHANGED vars
      <3>1. UNCHANGED <<jobs, queue>>
        BY <2>1 DEF ServerStep, NewMessage, EnableEncryption, MembershipChange, vars
      <3>2. QED
        BY <1>2, <3>1, NewContents, ContentsEnqueue DEF Posted
    <2>2. CASE SyncReturn
      <3> DEFINE job == [NewJob("sync", NoRoom) EXCEPT !.resp = [r \in Rooms |-> DeltaOf(r)]]
      <3>1. OwnContents(job)
        BY NewContents
      <3>2. UNCHANGED jobs /\ (queue' = queue \/ queue' = Append(queue, job))
        BY <2>2 DEF SyncReturn
      <3> HIDE DEF job
      <3>3. Posted' \subseteq Posted \cup {job}
        BY <1>2, <3>2, PostedAppend DEF Posted
      <3>4. QED
        BY <1>2, <3>1, <3>2, <3>3, ContentsKept DEF InFlight, Pool
    <2>3. QED
      BY <1>2, <2>1, <2>2, ContentsWorker, ContentsUser, ContentsCallback DEF Next
  <1>3. QED
    BY <1>1, <1>2, TypeCorrect, PTL DEF Spec

-----------------------------------------------------------------------------
(***************************************************************************)
(* Messages of another room                                                *)
(***************************************************************************)

\* What a callback of the open room brings leaves the timeline its own.
LEMMA OwnStaysOwn ==
    ASSUME OwnTimeline, currentRoom' \in {currentRoom, NoRoom},
           \A e \in rows' \ rows : e[1] = currentRoom,
           prevBatch'.room \in {prevBatch.room, currentRoom}
    PROVE  OwnTimeline'
  BY DEF OwnTimeline

\* One step.
LEMMA OwnNext ==
    ASSUME TypeOK, ContentsInv, OwnTimeline, [Next]_vars
    PROVE  OwnTimeline' \/ (queue # <<>> /\ Head(queue).room # currentRoom)
  <1> DEFINE cb == Head(queue)
  <1>1. CASE UNCHANGED <<currentRoom, prevBatch, rows>>
    BY <1>1 DEF OwnTimeline
  <1>2. ASSUME rows' = {}, prevBatch' \in {prevBatch, NoToken},
               currentRoom' = currentRoom \/ prevBatch' = NoToken
        PROVE  OwnTimeline'
    BY <1>2 DEF OwnTimeline, NoToken
  <1>3. ASSUME NEW r, OpenRoom(r) PROVE OwnTimeline'
    BY <1>2, <1>3 DEF OpenRoom, ClearTimeline
  <1>4. CASE UserStep
    <2>1. CASE \E root \in EventIds : OpenThreadView(root)
      BY <1>2, <2>1 DEF OpenThreadView, ClearTimeline
    <2>2. CASE CloseThreadView
      BY <1>2, <2>2 DEF CloseThreadView, ClearTimeline
    <2>3. QED
      BY <1>1, <1>3, <1>4, <2>1, <2>2
         DEF UserStep, OnRoomClicked, LeaveRoom, AcceptInvite, OnLoadMoreClicked, screen
  <1>5. ASSUME NEW kind \in {"history", "more", "thread"}, TakeCallback(kind),
               cb.room = currentRoom
        PROVE  cb.ok => (\A e \in cb.page : e[1] = currentRoom)
                        /\ (kind # "thread" => cb.token.room = currentRoom)
    BY <1>5, PostedTake DEF ContentsInv, InFlight, OwnContents
  <1>6. ASSUME DeliverHistory, cb.room = currentRoom PROVE OwnTimeline'
    BY <1>5, <1>6, OwnStaysOwn DEF DeliverHistory, RowsWith
  <1>7. ASSUME DeliverMore, cb.room = currentRoom PROVE OwnTimeline'
    BY <1>5, <1>7, OwnStaysOwn DEF DeliverMore, RowsWith
  <1>8. ASSUME DeliverThread, cb.room = currentRoom PROVE OwnTimeline'
    BY <1>5, <1>8, OwnStaysOwn DEF DeliverThread, RowsWith
  <1>9. ASSUME ApplySync, cb.room = currentRoom PROVE OwnTimeline'
    <2>1. \A e \in SyncRows(cb.resp, cb.room) : e[1] = cb.room
      BY DEF SyncRows
    <2>2. /\ rows' \subseteq rows \cup SyncRows(cb.resp, cb.room)
          /\ currentRoom' \in {currentRoom, NoRoom} /\ prevBatch' = prevBatch
      BY <1>9 DEF ApplySync, RoomAfter
    <2>3. QED
      BY <1>9, <2>1, <2>2, OwnStaysOwn
  <1>10. CASE Callback
    <2>1. queue # <<>>
      BY <1>10, PostedTake DEF Callback, HandleSync, ApplySync, DeliverHistory, DeliverMore,
                               DeliverThread, DeliverState, DeliverAccept, DeliverLeave
    <2>2. CASE DeliverAccept
      BY <1>1, <1>3, <2>2 DEF DeliverAccept, screen
    <2>3. CASE HandleSync \/ DeliverState \/ DeliverLeave
      BY <1>1, <2>3 DEF HandleSync, DeliverState, DeliverLeave, screen
    <2>4. QED
      BY <1>6, <1>7, <1>8, <1>9, <1>10, <2>1, <2>2, <2>3 DEF Callback
  <1>11. CASE ServerStep \/ SyncReturn \/ UNCHANGED vars
    BY <1>1, <1>11 DEF ServerStep, NewMessage, EnableEncryption, MembershipChange,
                       SyncReturn, screen, vars
  <1>12. CASE \E k \in Slots : WorkerStep(k) \/ WorkerFault(k)
    BY <1>1, <1>12 DEF WorkerStep, WorkerFault, WorkerRead, WorkerMembership, WorkerPost,
                       WorkerPrepare, WorkerStates, screen
  <1>13. QED
    BY <1>4, <1>10, <1>11, <1>12 DEF Next

(***************************************************************************)
(* Messages of another room, or its pagination token, get into the open    *)
(* room's timeline only through a callback that captured the other room    *)
(* and is delivered late (room_data_loader.cpp, thread_handler.cpp and     *)
(* room_handler.cpp do not look at the open room again).  No click, no     *)
(* worker and no callback of the open room itself mixes rooms.             *)
(***************************************************************************)
THEOREM RoomsMixOnlyLate == Spec => MixedOnlyByStaleCallback
  <1>1. TypeOK /\ ContentsInv /\ [Next]_vars =>
            [OwnTimeline /\ ~OwnTimeline' => queue # <<>> /\ Head(queue).room # currentRoom]_vars
    BY OwnNext
  <1>2. QED
    BY <1>1, TypeCorrect, ContentsAlways, PTL DEF Spec, MixedOnlyByStaleCallback

-----------------------------------------------------------------------------
(***************************************************************************)
(* No message is lost between history and sync.  The inductive invariant:  *)
(* each of the newest messages of the open room is on the screen, or still *)
(* to be told by a sync, or under way: in a history request that is not    *)
(* answered yet, in an answer (a failed one will be recorded), in a sync   *)
(* response nobody captured the open room for yet, or in one that was      *)
(* captured for this room.                                                 *)
(***************************************************************************)
Carries(resp, r, i) == resp[r].memb = "join" /\ resp[r].from < i /\ i <= resp[r].to

Brings(job, r, i) ==
    \/ job.kind = "history" /\ job.room = r /\ ~job.done
    \/ job.kind = "history" /\ job.done /\ (job.ok => <<r, i>> \in job.page)
    \/ job.kind = "sync" /\ Carries(job.resp, r, i)
    \/ job.kind \in {"prepare", "apply"} /\ job.room = r /\ Carries(job.resp, r, i)

\* The screen has the message, or will have it without another sync.
Coming(r, i) == <<r, i>> \in rows \/ \E job \in InFlight : Brings(job, r, i)

\* The next sync response with the joined room carries the message.
Untold(r, i) == told[r].memb # "join" \/ told[r].n < i

Newest(r, i) == i \in 1..srv[r].n /\ i + PageSize > srv[r].n

Awaited == currentRoom # NoRoom /\ threadRoot = NoEvent /\ ~historyFailed

ToldBehind == \A r \in Rooms : told[r].n <= srv[r].n

CoverInv ==
    /\ ToldBehind
    /\ Awaited => \A i \in Positions :
          Newest(currentRoom, i) => Untold(currentRoom, i) \/ Coming(currentRoom, i)

\* A step that sends nothing to the homeserver or from it, opens nothing and
\* loses nothing that is coming.
LEMMA CoverKept ==
    ASSUME TypeOK, CoverInv,
           told' = told, \A r \in Rooms : srv'[r].n = srv[r].n,
           Awaited' => Awaited /\ currentRoom' = currentRoom,
           \A i \in Positions :
              Awaited' /\ Newest(currentRoom, i) /\ Coming(currentRoom, i)
                  => Coming(currentRoom, i)'
    PROVE  CoverInv'
  <1>1. ToldBehind'
    BY DEF CoverInv, ToldBehind
  <1>2. ASSUME Awaited' PROVE currentRoom \in Rooms /\ currentRoom' = currentRoom /\ Awaited
    BY <1>2 DEF Awaited, TypeOK
  <1>3. ASSUME Awaited', NEW i \in Positions, Newest(currentRoom, i)'
        PROVE  Untold(currentRoom, i)' \/ Coming(currentRoom, i)'
    <2>1. Newest(currentRoom, i)
      BY <1>2, <1>3 DEF Newest
    <2>2. Untold(currentRoom, i) \/ Coming(currentRoom, i)
      BY <1>2, <1>3, <2>1 DEF CoverInv
    <2>3. CASE Untold(currentRoom, i)
      BY <1>2, <1>3, <2>3 DEF Untold
    <2>4. CASE Coming(currentRoom, i)
      BY <1>2, <1>3, <2>1, <2>4
    <2>5. QED
      BY <2>2, <2>3, <2>4
  <1>4. Positions' = Positions
    BY DEF Positions
  <1>5. QED
    BY <1>1, <1>3, <1>4 DEF CoverInv

\* Only these callbacks and jobs bring messages.
Bringing == {"history", "sync", "prepare", "apply"}

\* The screen and the bringing jobs that stay go on bringing.
LEMMA ComingKept ==
    ASSUME rows \subseteq rows', \A x \in InFlight : x.kind \in Bringing => x \in InFlight'
    PROVE  \A r, i : Coming(r, i) => Coming(r, i)'
  BY DEF Coming, Brings, Bringing

\* The same if one job or callback is replaced by what brings as much.
LEMMA ComingReplaced ==
    ASSUME rows \subseteq rows', NEW job, NEW r, NEW i,
           \A x \in InFlight : x.kind \in Bringing => x = job \/ x \in InFlight',
           Brings(job, r, i) => Coming(r, i)',
           Coming(r, i)
    PROVE  Coming(r, i)'
  BY DEF Coming, Brings, Bringing

\* A step that touches nothing that is coming.
LEMMA CoverSame ==
    ASSUME TypeOK, CoverInv,
           told' = told, \A r \in Rooms : srv'[r].n = srv[r].n,
           Awaited' => Awaited /\ currentRoom' = currentRoom,
           Awaited' => rows \subseteq rows',
           \A x \in InFlight : x.kind \in Bringing => x \in InFlight'
    PROVE  CoverInv'
  BY CoverKept, ComingKept

\* Emptying the timeline to load the history of the open room.
LEMMA CoverLoad ==
    ASSUME TypeOK, CoverInv, UNCHANGED server, NEW job, Enqueue(job),
           job.kind = "history", ~job.done, job.room = currentRoom'
    PROVE  CoverInv'
  <1>1. job \in InFlight'
    BY PoolEnqueue DEF InFlight
  <1>2. \A i : Coming(currentRoom, i)'
    BY <1>1 DEF Coming, Brings
  <1>3. ToldBehind'
    BY DEF CoverInv, ToldBehind, server
  <1>4. QED
    BY <1>2, <1>3 DEF CoverInv

LEMMA CoverOpen ==
    ASSUME TypeOK, CoverInv, UNCHANGED server, NEW r, OpenRoom(r)
    PROVE  CoverInv'
  <1> DEFINE job == [NewJob("history", r) EXCEPT !.flag = TRUE]
  <1>1. job.kind = "history" /\ job.done = FALSE /\ job.room = r
    BY DEF NewJob, NoJob
  <1>2. Enqueue(job) /\ currentRoom' = r
    BY DEF OpenRoom
  <1> HIDE DEF job
  <1>3. QED
    BY <1>1, <1>2, CoverLoad

\* Neither encryption nor membership adds a message.
LEMMA CountKept ==
    ASSUME TypeOK, NEW r \in Rooms, NEW x,
           \/ srv' = srv
           \/ srv' = [srv EXCEPT ![r].enc = x]
           \/ srv' = [srv EXCEPT ![r].memb = x]
    PROVE  \A q \in Rooms : srv'[q].n = srv[q].n
  <1>1. srv \in [Rooms -> ServerRoom] /\ srv[r] \in ServerRoom
    BY DEF TypeOK
  <1>2. /\ [srv[r] EXCEPT !.enc = x].n = srv[r].n /\ [srv[r] EXCEPT !.memb = x].n = srv[r].n
    BY <1>1 DEF ServerRoom
  <1>3. CASE srv' = [srv EXCEPT ![r].enc = x]
    <2>1. srv'[r] = [srv[r] EXCEPT !.enc = x] /\ \A q \in Rooms \ {r} : srv'[q] = srv[q]
      BY <1>1, <1>3
    <2>2. QED
      BY <1>2, <2>1
  <1>4. CASE srv' = [srv EXCEPT ![r].memb = x]
    <2>1. srv'[r] = [srv[r] EXCEPT !.memb = x] /\ \A q \in Rooms \ {r} : srv'[q] = srv[q]
      BY <1>1, <1>4
    <2>2. QED
      BY <1>2, <2>1
  <1>5. QED
    BY <1>3, <1>4

\* The homeserver and the sync thread.
LEMMA CoverServer ==
    ASSUME TypeOK, CoverInv, ServerStep
    PROVE  CoverInv'
  <1>1. \A r \in Rooms : srv[r].n \in Nat /\ told[r].n \in Nat
    BY SizeAssumption DEF TypeOK, ServerRoom
  <1>2. InFlight' = InFlight /\ UNCHANGED <<told, rows, Awaited, currentRoom>>
    BY DEF ServerStep, NewMessage, EnableEncryption, MembershipChange, screen, InFlight,
           Pool, Posted, Awaited
  <1>3. ASSUME NEW r \in Rooms, NewMessage(r) PROVE CoverInv'
    <2>1. srv'[r].n = srv[r].n + 1 /\ \A q \in Rooms \ {r} : srv'[q] = srv[q]
      BY <1>3 DEF NewMessage, TypeOK, ServerRoom
    <2>2. ToldBehind'
      BY <1>1, <1>2, <2>1 DEF CoverInv, ToldBehind
    <2>3. ASSUME Awaited', NEW i \in Positions, Newest(currentRoom, i)'
          PROVE  Untold(currentRoom, i)' \/ Coming(currentRoom, i)'
      <3>1. currentRoom \in Rooms /\ i \in Nat /\ PageSize \in Nat
        BY <1>2, <2>3, SizeAssumption DEF Awaited, TypeOK, Positions
      <3>2. CASE currentRoom = r /\ i = srv[r].n + 1
        BY <1>1, <1>2, <3>1, <3>2 DEF Untold, CoverInv, ToldBehind
      <3>3. CASE ~(currentRoom = r /\ i = srv[r].n + 1)
        <4>1. Newest(currentRoom, i)
          BY <1>1, <1>2, <2>1, <2>3, <3>1, <3>3 DEF Newest
        <4>2. Untold(currentRoom, i) \/ Coming(currentRoom, i)
          BY <1>2, <2>3, <4>1 DEF CoverInv
        <4>3. QED
          BY <1>2, <4>2 DEF Untold, Coming
      <3>4. QED
        BY <3>2, <3>3
    <2>4. QED
      BY <2>2, <2>3 DEF CoverInv, Positions
  <1>4. ASSUME NEW r \in Rooms, EnableEncryption(r) \/ MembershipChange(r) PROVE CoverInv'
    <2>1. \A q \in Rooms : srv'[q].n = srv[q].n
      <3>1. \/ srv' = [srv EXCEPT ![r].enc = TRUE]
            \/ \E memb : srv' = [srv EXCEPT ![r].memb = memb]
        BY <1>4 DEF EnableEncryption, MembershipChange
      <3>2. QED
        BY <3>1, CountKept
    <2>2. QED
      BY <1>2, <2>1, CoverSame
  <1>5. QED
    BY <1>3, <1>4 DEF ServerStep

LEMMA CoverSync ==
    ASSUME TypeOK, CoverInv, SyncReturn
    PROVE  CoverInv'
  <1> DEFINE resp == [r \in Rooms |-> DeltaOf(r)]
             job  == [NewJob("sync", NoRoom) EXCEPT !.resp = resp]
  <1>1. /\ told' = srv /\ UNCHANGED <<srv, currentRoom, threadRoot, historyFailed, rows, jobs>>
        /\ queue' = IF resp = NoResp THEN queue ELSE Append(queue, job)
    BY DEF SyncReturn, screen
  <1>2. job.kind = "sync" /\ job.resp = resp
    BY DEF NewJob, NoJob
  <1>3. \A r \in Rooms : srv[r].n \in Nat /\ told[r].n \in Nat
    BY SizeAssumption DEF TypeOK, ServerRoom
  <1>4. ToldBehind'
    BY <1>1, <1>3 DEF ToldBehind
  <1>5. \A r \in Rooms : resp[r] = DeltaOf(r) /\ NoResp[r] = NoDelta
    BY DEF NoResp
  <1> HIDE DEF resp, job
  <1>6. InFlight \subseteq InFlight' /\ (resp # NoResp => job \in InFlight')
    BY <1>1, PostedAppend DEF InFlight, Pool, Posted
  <1>7. ASSUME Awaited', NEW i \in Positions, Newest(currentRoom, i)'
        PROVE  Untold(currentRoom, i)' \/ Coming(currentRoom, i)'
    <2>1. currentRoom \in Rooms /\ Awaited /\ Newest(currentRoom, i)
      BY <1>1, <1>7 DEF Awaited, TypeOK, Newest
    <2>2. PICK r \in Rooms : r = currentRoom
      BY <2>1
    <2>3. Untold(r, i) \/ Coming(r, i)
      BY <2>1, <2>2 DEF CoverInv
    <2>4. CASE Coming(r, i)
      BY <1>1, <1>6, <2>2, <2>4, ComingKept
    <2>5. CASE srv[r].memb # "join"
      BY <1>1, <2>2, <2>5 DEF Untold
    <2>6. CASE Untold(r, i) /\ srv[r].memb = "join"
      <3>1. srv[r] # told[r] /\ i \in Nat /\ 0 < i /\ i <= srv[r].n
        BY <1>3, <2>1, <2>2, <2>6 DEF Untold, Newest, Positions
      <3>2. /\ DeltaOf(r).memb = "join" /\ DeltaOf(r).to = srv[r].n
            /\ DeltaOf(r).from = IF told[r].memb # "join" THEN 0 ELSE told[r].n
        BY <2>6, <3>1 DEF DeltaOf
      <3>3. Carries(resp, r, i) /\ resp # NoResp
        BY <1>5, <2>6, <3>1, <3>2 DEF Carries, Untold, NoDelta
      <3>4. Brings(job, r, i) /\ job \in InFlight'
        BY <1>2, <1>6, <3>3 DEF Brings
      <3>5. QED
        BY <1>1, <2>2, <3>4 DEF Coming
    <2>7. QED
      BY <2>3, <2>4, <2>5, <2>6
  <1>8. QED
    BY <1>4, <1>7 DEF CoverInv, Positions

\* The page of a history answer covers the newest messages of its room.
LEMMA HistoryCovers ==
    ASSUME TypeOK, NEW job \in Job, job.kind = "history", ~job.done, ~job.ok,
           NEW reply \in MessagesReplies(job) \cup {Failed(job)},
           NEW i \in Positions, Newest(job.room, i)
    PROVE  Brings(reply, job.room, i)
  <1>1. job \in JobRecord /\ job.room \in Rooms
    BY DEF Job
  <1>2. CASE reply = Failed(job)
    <2>1. reply.kind = "history" /\ reply.done /\ ~reply.ok
      BY <1>1, <1>2 DEF Failed, JobRecord
    <2>2. QED
      BY <2>1 DEF Brings
  <1>3. ASSUME NEW before, before = srv[job.room].n + 1, reply = MessagesReply(job, before)
        PROVE  Brings(reply, job.room, i)
    <2> DEFINE n == srv[job.room].n
               first == IF before > PageSize THEN before - PageSize ELSE 1
               page  == {<<job.room, j>> : j \in first..(before - 1)}
               token == [room |-> job.room, pos |-> IF first > 1 THEN first ELSE before]
               full  == [Answered(job) EXCEPT !.page = page, !.token = token]
    <2>1. reply = full
      BY <1>3 DEF MessagesReply
    <2>2. n \in Nat /\ i \in Nat /\ i \in 1..n /\ i + PageSize > n /\ PageSize \in Nat
      BY <1>1, SizeAssumption DEF Newest, TypeOK, ServerRoom, Positions
    <2>3. <<job.room, i>> \in page
      BY <1>3, <2>2
    <2>4. Answered(job) \in JobRecord /\ Answered(job).kind = "history" /\ Answered(job).done
      BY <1>1 DEF Answered, JobRecord
    <2> HIDE DEF page, token
    <2>5. full.kind = "history" /\ full.done /\ full.page = page
      BY <2>4 DEF JobRecord
    <2> HIDE DEF full
    <2>6. QED
      BY <2>1, <2>3, <2>5 DEF Brings
  <1>4. QED
    BY <1>2, <1>3 DEF MessagesReplies

LEMMA CoverWorker ==
    ASSUME TypeOK, ContentsInv, CoverInv, NEW k \in Slots, WorkerStep(k) \/ WorkerFault(k)
    PROVE  CoverInv'
  <1>1. jobs[k] \in Job /\ OwnContents(jobs[k]) /\ jobs[k] \in InFlight
    BY DEF ContentsInv, InFlight, Pool, TypeOK
  <1>2. /\ UNCHANGED <<told, rows, Awaited, currentRoom>>
        /\ \A r \in Rooms : srv'[r].n = srv[r].n
    <2>1. UNCHANGED <<told, rows, currentRoom, threadRoot, historyFailed>>
      BY DEF WorkerStep, WorkerRead, WorkerMembership, WorkerPost, WorkerPrepare,
             WorkerStates, WorkerFault, server, screen
    <2>2. \/ UNCHANGED srv
          \/ jobs[k].room \in Rooms /\ \E memb : srv' = [srv EXCEPT ![jobs[k].room].memb = memb]
      <3>1. CASE WorkerMembership(k)
        <4>1. jobs[k].room \in Rooms
          BY <1>1, <3>1 DEF WorkerMembership, Requesting, Job
        <4>2. QED
          BY <3>1, <4>1 DEF WorkerMembership
      <3>2. CASE WorkerFault(k)
        <4>1. jobs[k].room \in Rooms
          BY <1>1, <3>2 DEF WorkerFault, Requesting, Job
        <4>2. QED
          BY <3>2, <4>1 DEF WorkerFault
      <3>3. QED
        BY <3>1, <3>2 DEF WorkerStep, WorkerRead, WorkerPost, WorkerPrepare,
                          WorkerStates, server
    <2>3. \A r \in Rooms : srv'[r].n = srv[r].n
      BY <2>2, CountKept
    <2>4. QED
      BY <2>1, <2>3 DEF Awaited
  <1>3. ASSUME NEW i \in Positions, Awaited, Newest(currentRoom, i), Coming(currentRoom, i)
        PROVE  Coming(currentRoom, i)'
    <2>1. PICK r \in Rooms : r = currentRoom
      BY <1>3 DEF Awaited, TypeOK
    <2>2. Coming(r, i) /\ Newest(r, i) /\ rows \subseteq rows'
      BY <1>2, <1>3, <2>1
    <2>3. SUFFICES Coming(r, i)'
      BY <1>2, <2>1
    <2>4. ASSUME NEW new, jobs' = [jobs EXCEPT ![k] = new], Posted \subseteq Posted',
                 Brings(jobs[k], r, i) => Coming(r, i)'
          PROVE  Coming(r, i)'
      <3>1. PICK job : job = jobs[k]
        OBVIOUS
      <3>2. \A x \in InFlight : x = job \/ x \in InFlight'
        BY <2>4, <3>1, PoolReplace DEF InFlight
      <3>3. QED
        BY <2>2, <2>4, <3>1, <3>2, ComingReplaced
    <2>5. CASE WorkerRead(k) \/ (WorkerFault(k) /\ jobs[k].kind = "history")
      <3>1. /\ jobs[k].kind \in {"history", "more", "thread"} /\ ~jobs[k].done
            /\ Posted' = Posted
        BY <2>5 DEF WorkerRead, WorkerFault, Requesting, Posted
      <3>2. PICK reply : /\ jobs' = [jobs EXCEPT ![k] = reply]
                         /\ jobs[k].kind = "history" =>
                               reply \in MessagesReplies(jobs[k]) \cup {Failed(jobs[k])}
        BY <2>5 DEF WorkerRead, WorkerFault
      <3>3. reply \in InFlight'
        BY <3>2, PoolReplace DEF InFlight
      <3>4. Brings(jobs[k], r, i) => Brings(reply, r, i)
        <4>1. ASSUME Brings(jobs[k], r, i) PROVE jobs[k].kind = "history" /\ jobs[k].room = r
          BY <3>1, <4>1 DEF Brings
        <4>2. ~jobs[k].ok
          BY <1>1, <3>1 DEF OwnContents
        <4>3. QED
          BY <1>1, <2>2, <3>1, <3>2, <4>1, <4>2, HistoryCovers
      <3>5. QED
        BY <2>4, <3>1, <3>2, <3>3, <3>4 DEF Coming
    <2>6. CASE WorkerMembership(k) \/ (WorkerFault(k) /\ jobs[k].kind # "history")
      <3>1. /\ jobs[k].kind \in {"more", "thread", "accept", "leave"}
            /\ queue' = queue
            /\ \/ jobs' = [jobs EXCEPT ![k] = Failed(jobs[k])]
               \/ jobs' = [jobs EXCEPT ![k] = Answered(jobs[k])]
        BY <2>6 DEF WorkerMembership, WorkerFault, Requesting
      <3>2. ~Brings(jobs[k], r, i)
        BY <3>1 DEF Brings
      <3>3. Posted' = Posted
        BY <3>1 DEF Posted
      <3>4. QED
        BY <2>4, <3>1, <3>2, <3>3
    <2>7. CASE WorkerPost(k)
      <3>1. jobs' = [jobs EXCEPT ![k] = NoJob] /\ Posted' = Posted \cup {jobs[k]}
        BY <2>7, PostedAppend DEF WorkerPost
      <3>2. Brings(jobs[k], r, i) => Coming(r, i)'
        BY <3>1 DEF Coming, InFlight
      <3>3. QED
        BY <2>4, <3>1, <3>2
    <2>8. CASE WorkerPrepare(k)
      <3> DEFINE resp == [q \in Rooms |-> IF q = jobs[k].room THEN jobs[k].resp[q]
                                          ELSE [jobs[k].resp[q] EXCEPT !.from = 0, !.to = 0]]
                 post == [jobs[k] EXCEPT !.kind = "apply", !.resp = resp]
      <3>1. queue' = Append(queue, post) /\ jobs' = [jobs EXCEPT ![k] = NoJob]
        BY <2>8 DEF WorkerPrepare
      <3>2. jobs[k].room = r => resp[r] = jobs[k].resp[r]
        OBVIOUS
      <3> HIDE DEF resp
      <3>3. post.kind = "apply" /\ post.resp = resp /\ post.room = jobs[k].room
        BY <1>1 DEF Job, JobRecord
      <3> HIDE DEF post
      <3>4. Posted' = Posted \cup {post}
        BY <3>1, PostedAppend
      <3>5. Brings(jobs[k], r, i) => Brings(post, r, i)
        BY <2>8, <3>2, <3>3 DEF Brings, Carries, WorkerPrepare
      <3>6. QED
        BY <2>4, <3>1, <3>4, <3>5 DEF Coming, InFlight
    <2>9. CASE WorkerStates(k)
      <3>1. jobs[k].kind = "states" /\ \E new : jobs' = [jobs EXCEPT ![k] = new]
        BY <2>9 DEF WorkerStates
      <3>2. PICK post : queue' = Append(queue, post)
        BY <2>9 DEF WorkerStates
      <3>3. Posted \subseteq Posted'
        BY <3>2, PostedAppend
      <3>4. ~Brings(jobs[k], r, i)
        BY <3>1 DEF Brings
      <3>5. QED
        BY <2>4, <3>1, <3>3, <3>4
    <2>10. QED
      BY <2>5, <2>6, <2>7, <2>8, <2>9 DEF WorkerStep
  <1>4. QED
    BY <1>2, <1>3, CoverKept

LEMMA CoverUser ==
    ASSUME TypeOK, CoverInv, UserStep
    PROVE  CoverInv'
  <1>1. Posted' = Posted /\ UNCHANGED server
    BY DEF UserStep, OnRoomClicked, LeaveRoom, AcceptInvite, OnLoadMoreClicked,
           OpenThreadView, CloseThreadView, Posted
  <1>2. ASSUME NEW r \in Rooms, OnRoomClicked(r) PROVE CoverInv'
    BY <1>1, <1>2, CoverOpen DEF OnRoomClicked
  <1>3. ASSUME NEW job, Enqueue(job), UNCHANGED <<currentRoom, threadRoot, historyFailed, rows>>
        PROVE  CoverInv'
    <2>1. \A x \in InFlight : x.kind \in Bringing => x \in InFlight'
      BY <1>1, <1>3, PoolEnqueue DEF InFlight, Bringing
    <2>2. QED
      BY <1>1, <1>3, <2>1, CoverSame DEF Awaited, server
  <1>4. CASE (\E r \in Rooms : LeaveRoom(r)) \/ OnLoadMoreClicked
             \/ \E r \in Rooms, open \in BOOLEAN : AcceptInvite(r, open)
    BY <1>3, <1>4 DEF LeaveRoom, OnLoadMoreClicked, AcceptInvite, screen
  <1>5. ASSUME NEW root \in EventIds, OpenThreadView(root) PROVE CoverInv'
    <2>1. root # NoEvent
      BY RoomsAssumption DEF EventIds, NoEvent
    <2>2. ~Awaited'
      BY <1>5, <2>1 DEF OpenThreadView, Awaited
    <2>3. ToldBehind'
      BY <1>1 DEF CoverInv, ToldBehind, server
    <2>4. QED
      BY <2>2, <2>3 DEF CoverInv
  <1>6. CASE CloseThreadView
    <2>1. CASE currentRoom = NoRoom
      <3>1. ~Awaited'
        BY <1>6, <2>1 DEF CloseThreadView, Awaited
      <3>2. ToldBehind'
        BY <1>1 DEF CoverInv, ToldBehind, server
      <3>3. QED
        BY <3>1, <3>2 DEF CoverInv
    <2>2. CASE currentRoom # NoRoom
      <3> DEFINE job == NewJob("history", currentRoom)
      <3>1. job.kind = "history" /\ ~job.done /\ job.room = currentRoom
        BY DEF NewJob, NoJob
      <3>2. Enqueue(job) /\ currentRoom' = currentRoom
        BY <1>6, <2>2 DEF CloseThreadView, EnqueueIf
      <3> HIDE DEF job
      <3>3. QED
        BY <1>1, <3>1, <3>2, CoverLoad
    <2>3. QED
      BY <2>1, <2>2
  <1>7. QED
    BY <1>2, <1>4, <1>5, <1>6 DEF UserStep

\* The callbacks that change neither the open room nor a message that comes.
LEMMA CoverCallback ==
    ASSUME TypeOK, ContentsInv, CoverInv, Callback
    PROVE  CoverInv'
  <1> DEFINE cb == Head(queue)
  <1>1. UNCHANGED server
    BY DEF Callback, HandleSync, ApplySync, DeliverHistory, DeliverMore, DeliverThread,
           DeliverState, DeliverAccept, DeliverLeave
  <1>2. ASSUME NEW kind, TakeCallback(kind)
        PROVE  /\ cb \in InFlight /\ cb.kind = kind /\ cb \in Job
               /\ \A x \in Posted : x = cb \/ x \in Posted'
    BY <1>2, PostedTake DEF InFlight
  <1>3. ASSUME Awaited' => Awaited /\ currentRoom' = currentRoom /\ rows \subseteq rows',
               NEW kind, TakeCallback(kind),
               \/ UNCHANGED jobs
               \/ \E job : Enqueue(job),
               \A r \in Rooms, i \in Positions :
                  Awaited' /\ currentRoom = r /\ Brings(cb, r, i) => Coming(r, i)'
        PROVE  CoverInv'
    <2>1. \A x \in InFlight : x.kind \in Bringing => x = cb \/ x \in InFlight'
      <3>1. \A x \in Pool : x.kind \in Bringing => x \in Pool'
        BY <1>3, PoolEnqueue DEF Pool, Bringing
      <3>2. QED
        BY <1>2, <1>3, <3>1 DEF InFlight
    <2>2. ASSUME NEW i \in Positions, Awaited', Coming(currentRoom, i)
          PROVE  Coming(currentRoom, i)'
      <3>1. PICK r \in Rooms : r = currentRoom
        BY <1>3, <2>2 DEF Awaited, TypeOK
      <3>2. PICK job : job = cb
        OBVIOUS
      <3>3. \A x \in InFlight : x.kind \in Bringing => x = job \/ x \in InFlight'
        BY <2>1, <3>2
      <3>4. Brings(job, r, i) => Coming(r, i)'
        BY <1>3, <2>2, <3>1, <3>2
      <3> HIDE DEF cb
      <3>5. Coming(r, i)'
        BY <1>3, <2>2, <3>1, <3>3, <3>4, ComingReplaced
      <3>6. QED
        BY <1>3, <2>2, <3>1, <3>5
    <2>3. QED
      BY <1>1, <1>3, <2>2, CoverKept DEF server
  <1>4. CASE HandleSync
    <2> DEFINE job == [NewJob("prepare", currentRoom) EXCEPT !.resp = cb.resp]
    <2>1. job.kind = "prepare" /\ job.room = currentRoom /\ job.resp = cb.resp
      BY DEF NewJob, NoJob
    <2>2. Enqueue(job) /\ TakeCallback("sync")
          /\ UNCHANGED <<Awaited, currentRoom, rows>>
      BY <1>4 DEF HandleSync, screen, Awaited
    <2> HIDE DEF job
    <2>3. ASSUME NEW r \in Rooms, NEW i \in Positions, currentRoom = r, Brings(cb, r, i)
          PROVE  Coming(r, i)'
      <3>1. Brings(job, r, i)
        BY <1>2, <2>1, <2>2, <2>3 DEF Brings
      <3>2. job \in InFlight'
        BY <2>2, PoolEnqueue DEF InFlight
      <3>3. QED
        BY <3>1, <3>2 DEF Coming
    <2>4. QED
      BY <1>3, <2>2, <2>3
  <1>5. CASE ApplySync
    <2>1. TakeCallback("apply") /\ UNCHANGED <<threadRoot, historyFailed>>
      BY <1>5 DEF ApplySync
    <2>2. CASE currentRoom \in RoomsWith(cb.resp, "leave")
      <3>1. ~Awaited'
        BY <1>5, <2>2 DEF ApplySync, RoomAfter, Awaited
      <3>2. ToldBehind'
        BY <1>1 DEF CoverInv, ToldBehind, server
      <3>3. QED
        BY <3>1, <3>2 DEF CoverInv
    <2>3. CASE currentRoom \notin RoomsWith(cb.resp, "leave")
      <3>1. currentRoom' = currentRoom /\ rows' = rows \cup SyncRows(cb.resp, cb.room)
        BY <1>5, <2>3 DEF ApplySync, RoomAfter
      <3>2. UNCHANGED jobs \/ \E job : Enqueue(job)
        BY <1>5 DEF ApplySync, EnqueueIf
      <3>3. ASSUME NEW r \in Rooms, NEW i \in Positions, Brings(cb, r, i)
            PROVE  <<r, i>> \in rows'
        <4>1. cb.room = r /\ Carries(cb.resp, r, i) /\ cb.resp \in [Rooms -> Delta]
          BY <1>2, <2>1, <3>3 DEF Brings, Job, JobRecord
        <4>2. /\ cb.resp[r].from \in Nat /\ cb.resp[r].to \in Nat /\ i \in Nat
              /\ r \in RoomsWith(cb.resp, "join")
          BY <4>1, SizeAssumption DEF Carries, RoomsWith, Delta, Positions
        <4>3. i \in (cb.resp[r].from + 1)..cb.resp[r].to
          BY <4>1, <4>2 DEF Carries
        <4>4. <<r, i>> \in SyncRows(cb.resp, cb.room)
          BY <4>1, <4>2, <4>3 DEF SyncRows
        <4>5. QED
          BY <3>1, <4>4
      <3>4. QED
        BY <1>3, <2>1, <3>1, <3>2, <3>3 DEF Awaited, Coming
    <2>4. QED
      BY <2>2, <2>3
  <1>6. CASE DeliverHistory
    <2>1. /\ TakeCallback("history") /\ rows' = RowsWith(cb)
          /\ historyFailed' = (historyFailed \/ ~cb.ok)
          /\ UNCHANGED <<currentRoom, threadRoot, jobs>>
      BY <1>6 DEF DeliverHistory
    <2>2. cb.ok => cb.done
      BY <1>2, <2>1 DEF ContentsInv, OwnContents
    <2>3. ASSUME NEW r \in Rooms, NEW i \in Positions, Awaited', Brings(cb, r, i)
          PROVE  Coming(r, i)'
      <3>1. cb.ok /\ cb.done
        BY <2>1, <2>2, <2>3 DEF Awaited
      <3>2. <<r, i>> \in cb.page
        BY <1>2, <2>1, <2>3, <3>1 DEF Brings
      <3>3. QED
        BY <2>1, <3>1, <3>2 DEF Coming, RowsWith
    <2>4. QED
      BY <1>3, <2>1, <2>3 DEF Awaited, RowsWith
  <1>7. CASE DeliverAccept
    <2>1. CASE \E r : OpenRoom(r)
      BY <1>1, <2>1, CoverOpen
    <2>2. CASE UNCHANGED <<screen, jobs>>
      <3>1. TakeCallback("accept")
        BY <1>7 DEF DeliverAccept
      <3>2. \A r, i : ~Brings(cb, r, i)
        BY <1>2, <3>1 DEF Brings
      <3>3. QED
        BY <1>3, <2>2, <3>1, <3>2 DEF screen, Awaited
    <2>3. QED
      BY <1>7, <2>1, <2>2 DEF DeliverAccept
  <1>8. CASE DeliverMore \/ DeliverThread \/ DeliverState \/ DeliverLeave
    <2>1. PICK kind \in {"more", "thread", "state", "leave"} : TakeCallback(kind)
      BY <1>8 DEF DeliverMore, DeliverThread, DeliverState, DeliverLeave
    <2>2. \A r, i : ~Brings(cb, r, i)
      BY <1>2, <2>1 DEF Brings
    <2>3. /\ UNCHANGED <<currentRoom, threadRoot, historyFailed, jobs>>
          /\ rows \subseteq rows'
      BY <1>8 DEF DeliverMore, DeliverThread, DeliverState, DeliverLeave, RowsWith, screen
    <2>4. QED
      BY <1>3, <2>1, <2>2, <2>3 DEF Awaited
  <1>9. QED
    BY <1>4, <1>5, <1>6, <1>7, <1>8 DEF Callback

(***************************************************************************)
(* The timing gap between sync and history (PROGRESS.md, B33): in whatever *)
(* order clicks, history replies and sync responses come, once the client  *)
(* has caught up with the homeserver the open room shows its newest page,  *)
(* unless its history request failed.                                      *)
(***************************************************************************)
THEOREM NothingLost == Spec => []NoMessageLost
  <1>1. Init => CoverInv
    <2>1. SUFFICES ASSUME Init PROVE CoverInv
      OBVIOUS
    <2>2. srv \in [Rooms -> ServerRoom] /\ told = srv /\ currentRoom = NoRoom
      BY <2>1, TypeInit DEF Init, TypeOK
    <2>3. QED
      BY <2>2, SizeAssumption DEF CoverInv, ToldBehind, Awaited, ServerRoom
  <1>2. TypeOK /\ ContentsInv /\ CoverInv /\ [Next]_vars => CoverInv'
    <2>1. SUFFICES ASSUME TypeOK, ContentsInv, CoverInv, [Next]_vars PROVE CoverInv'
      OBVIOUS
    <2>2. CASE UNCHANGED vars
      <3>1. InFlight' = InFlight
        BY <2>2 DEF vars, InFlight, Pool, Posted
      <3>2. QED
        BY <2>1, <2>2, <3>1, CoverSame DEF vars, Awaited
    <2>3. QED
      BY <2>1, <2>2, CoverServer, CoverSync, CoverWorker, CoverUser, CoverCallback DEF Next
  <1>3. TypeOK /\ CoverInv => NoMessageLost
    <2>1. SUFFICES ASSUME TypeOK, CoverInv, Quiet, currentRoom # NoRoom,
                          threadRoot = NoEvent, srv[currentRoom].memb = "join",
                          ~historyFailed, NEW e \in NewestPage(currentRoom)
                   PROVE  e \in rows
      BY DEF NoMessageLost
    <2>2. /\ currentRoom \in Rooms /\ srv[currentRoom].n \in 0..MaxEvents
          /\ Awaited /\ told = srv
      BY <2>1 DEF TypeOK, ServerRoom, Awaited, Quiet
    <2>3. PICK i \in 1..srv[currentRoom].n :
              e = <<currentRoom, i>> /\ i + PageSize > srv[currentRoom].n
      BY <2>1 DEF NewestPage
    <2>4. i \in Positions /\ Newest(currentRoom, i) /\ i <= srv[currentRoom].n
      BY <2>2, <2>3, SizeAssumption DEF Newest, Positions
    <2>5. ~Untold(currentRoom, i)
      BY <2>1, <2>2, <2>4, SizeAssumption DEF Untold, Positions
    <2>6. \A job \in InFlight : job.kind = "none"
      BY <2>1 DEF Quiet, Busy, InFlight, Pool, Posted
    <2>7. Coming(currentRoom, i)
      BY <2>1, <2>2, <2>4, <2>5 DEF CoverInv
    <2>8. QED
      BY <2>3, <2>6, <2>7 DEF Coming, Brings
  <1>4. QED
    BY <1>1, <1>2, <1>3, TypeCorrect, ContentsAlways, PTL DEF Spec

=============================================================================
