---------------------------- MODULE SendPath_proofs ----------------------------
(***************************************************************************)
(* Theorems about SendPath, for any rooms, any number of jobs and any      *)
(* interleaving of their workers with the user, sync and the callbacks.    *)
(***************************************************************************)
EXTENDS SendPath, SequenceLemmas

(***************************************************************************)
(* The inductive invariant.                                                *)
(***************************************************************************)
Before == {"prepare", "check", "share", "sharing"}

\* What a job knows about the key of its room, for the decryptor and the keys
\* that there are: nothing before it has looked.
KeyState(j, on, keys) ==
    /\ j.stage \in Before => j.key = "none"
    /\ j.stage \in Before \ {"prepare"} => j.enc /\ on
    /\ j.stage = "request" /\ j.enc /\ on => j.key # "none"
    /\ j.key \in {"had", "fresh"} => keys[j.room]

\* What came of the job, and what the server has of it.
AnswerState(j, on) ==
    /\ j.result = "none" <=> j.stage \in Before \cup {"request"}
    /\ j.result \in {"none", "unprepared"} => j.server = "no"
    /\ j.result = "ok" => j.server # "no"
    /\ j.server = "cipher" => j.enc /\ on /\ j.key # "none"
    /\ j.server = "plain" => ~(j.enc /\ on)
    /\ j.known /\ j.kind \in {"send", "reply", "react", "edit"} => j.enc

\* A result waits for the UI thread once.
PostedState ==
    /\ \A k \in DOMAIN posted : jobs[posted[k]].stage = "posted"
    /\ \A k, l \in DOMAIN posted : posted[k] = posted[l] => k = l

JobsInv == /\ TypeOK
           /\ \A i \in DOMAIN jobs : KeyState(jobs[i], ready, shared) /\ AnswerState(jobs[i], ready)
           /\ PostedState

\* The timeline, read as a set of (job, form) pairs each of which it has once.
Shows(seq, i, form) == \E k \in DOMAIN seq : seq[k].job = i /\ seq[k].form = form
NoTwins(seq) == \A k, l \in DOMAIN seq :
                    seq[k].job = seq[l].job /\ seq[k].form = seq[l].form => k = l

\* Where a row of a job may come from: a notice or a system row from its
\* callback, the server's row from what the server has.
RowState(i, form) ==
    /\ i \in DOMAIN jobs
    /\ form \in {"notice", "system"} => jobs[i].stage = "over"
    /\ form = "real" => jobs[i].server # "no"
    /\ jobs[i].room # open => jobs[i].left /\ jobs[i].stage = "over"

\* What the timeline has of a message of the text box while its room stays open.
EchoState(i) ==
    IF jobs[i].stage # "over" THEN Shows(rows, i, "echo")
    ELSE /\ ~Shows(rows, i, "echo")
         /\ IF jobs[i].result = "ok"
            THEN Shows(rows, i, "real") /\ ~Shows(rows, i, "notice")
            ELSE Shows(rows, i, "notice")

Stays(i) == alive /\ ~jobs[i].left

RowsInv == /\ ~alive => rows = <<>>
           /\ \A i \in DOMAIN jobs : Stays(i) => jobs[i].room = open
           /\ NoTwins(rows)
           /\ \A i \in 1..MaxJobs, form \in Forms : Shows(rows, i, form) => RowState(i, form)
           /\ \A i \in DOMAIN jobs : Stays(i) /\ jobs[i].kind = "send" => EchoState(i)

Inv == JobsInv /\ RowsInv

(***************************************************************************)
(* The operators on the timeline.                                          *)
(***************************************************************************)
LEMMA NewRowType ==
    ASSUME NEW i \in 1..MaxJobs, NEW form \in Forms
    PROVE  /\ NewRow(i, form) \in Row
           /\ NewRow(i, form).job = i /\ NewRow(i, form).form = form
  BY DEF NewRow, Row

\* A row at the end adds its (job, form) pair.
LEMMA AppendRow ==
    ASSUME NEW seq \in Seq(Row), NEW row \in Row
    PROVE  /\ Append(seq, row) \in Seq(Row)
           /\ \A i, form : Shows(Append(seq, row), i, form) <=>
                               Shows(seq, i, form) \/ (i = row.job /\ form = row.form)
           /\ NoTwins(seq) /\ ~Shows(seq, row.job, row.form) => NoTwins(Append(seq, row))
<1> DEFINE more == Append(seq, row)
<1>1. /\ more \in Seq(Row) /\ Len(more) = Len(seq) + 1 /\ Len(seq) \in Nat
      /\ \A k \in 1..Len(seq) : more[k] = seq[k]
      /\ more[Len(seq) + 1] = row
  BY AppendProperties, LenProperties
<1>2. DOMAIN more = 1..(Len(seq) + 1) /\ DOMAIN seq = 1..Len(seq)
  BY <1>1, LenProperties
<1> HIDE DEF more
<1>3. ASSUME NEW i, NEW form
      PROVE  Shows(more, i, form) <=> Shows(seq, i, form) \/ (i = row.job /\ form = row.form)
  BY <1>1, <1>2 DEF Shows
<1>4. NoTwins(seq) /\ ~Shows(seq, row.job, row.form) => NoTwins(more)
  BY <1>1, <1>2 DEF Shows, NoTwins
<1> QED
  BY <1>1, <1>3, <1>4 DEF more

LEMMA AppendedRow ==
    ASSUME NEW seq \in Seq(Row), NEW row \in Row
    PROVE  /\ Appended(seq, row) \in Seq(Row)
           /\ \A i, form : Shows(Appended(seq, row), i, form) <=>
                               Shows(seq, i, form) \/ (i = row.job /\ form = row.form)
           /\ NoTwins(seq) /\ (row.form = "real" \/ ~Shows(seq, row.job, row.form)) =>
                  NoTwins(Appended(seq, row))
  BY AppendRow DEF Appended, Shows

\* Rows that keep their job and form.
LEMMA SameRows ==
    ASSUME NEW seq \in Seq(Row), NEW new \in Seq(Row), DOMAIN new = DOMAIN seq,
           \A k \in DOMAIN seq : new[k].job = seq[k].job /\ new[k].form = seq[k].form
    PROVE  /\ \A i, form : Shows(new, i, form) <=> Shows(seq, i, form)
           /\ NoTwins(seq) => NoTwins(new)
  BY DEF Shows, NoTwins

\* A row for each row: what IsASeq says, for any definition of the rows.
LEMMA RowPerRow ==
    ASSUME NEW seq \in Seq(Row), NEW new, DOMAIN new = DOMAIN seq,
           new = [k \in DOMAIN seq |-> new[k]],
           \A k \in DOMAIN seq : new[k] \in Row
    PROVE  new \in Seq(Row)
<1>1. Len(seq) \in Nat /\ DOMAIN seq = 1..Len(seq)
  BY LenProperties
<1>2. new \in [1..Len(seq) -> Row]
  BY <1>1
<1> QED
  BY <1>1, <1>2, SeqDef

LEMMA MarkedRows ==
    ASSUME NEW seq \in Seq(Row), NEW i, NEW mark \in Marks
    PROVE  /\ Marked(seq, i, mark) \in Seq(Row)
           /\ \A j, form : Shows(Marked(seq, i, mark), j, form) <=> Shows(seq, j, form)
           /\ NoTwins(seq) => NoTwins(Marked(seq, i, mark))
<1> DEFINE new == Marked(seq, i, mark)
<1>1. \A k \in DOMAIN seq : seq[k] \in Row
  BY LenProperties, ElementOfSeq
<1>2. DOMAIN new = DOMAIN seq /\ new = [k \in DOMAIN seq |-> new[k]]
  BY DEF Marked
<1>3. \A k \in DOMAIN seq : /\ new[k] \in Row
                            /\ new[k].job = seq[k].job /\ new[k].form = seq[k].form
  BY <1>1 DEF Marked, Row
<1>4. new \in Seq(Row)
  <2> HIDE DEF new
  <2> QED BY <1>2, <1>3, RowPerRow
<1> HIDE DEF new
<1> QED
  BY <1>2, <1>3, <1>4, SameRows DEF new

LEMMA RemovedRow ==
    ASSUME NEW seq \in Seq(Row), NoTwins(seq), NEW k \in DOMAIN seq
    PROVE  /\ RemoveAt(seq, k) \in Seq(Row)
           /\ \A i, form : Shows(RemoveAt(seq, k), i, form) <=>
                  Shows(seq, i, form) /\ ~(i = seq[k].job /\ form = seq[k].form)
           /\ NoTwins(RemoveAt(seq, k))
<1> DEFINE less == RemoveAt(seq, k)
<1>1. /\ Len(seq) \in Nat /\ DOMAIN seq = 1..Len(seq)
      /\ less \in Seq(Row) /\ DOMAIN less = 1..(Len(seq) - 1)
      /\ \A l \in 1..(Len(seq) - 1) : less[l] = IF l < k THEN seq[l] ELSE seq[l + 1]
  BY LenProperties, RemoveAtProperties
<1>2. /\ \A l \in DOMAIN less : \E m \in DOMAIN seq : m # k /\ less[l] = seq[m]
      /\ \A m \in DOMAIN seq : m # k => \E l \in DOMAIN less : less[l] = seq[m]
  BY RemoveAtElements
<1> HIDE DEF less
<1>3. NoTwins(less)
  <2> SUFFICES ASSUME NEW l \in DOMAIN less, NEW m \in DOMAIN less,
                      less[l].job = less[m].job, less[l].form = less[m].form
               PROVE  l = m
    BY DEF NoTwins
  <2> DEFINE at(n) == IF n < k THEN n ELSE n + 1
  <2>1. /\ l \in Int /\ m \in Int /\ at(l) \in DOMAIN seq /\ at(m) \in DOMAIN seq
        /\ less[l] = seq[at(l)] /\ less[m] = seq[at(m)]
    BY <1>1
  <2>2. at(l) = at(m)
    <3> HIDE DEF at
    <3> QED
      BY <2>1 DEF NoTwins
  <2> QED
    BY <1>1, <2>1, <2>2
<1>4. ASSUME NEW i, NEW form
      PROVE  Shows(less, i, form) <=>
                 Shows(seq, i, form) /\ ~(i = seq[k].job /\ form = seq[k].form)
  BY <1>2 DEF Shows, NoTwins
<1> QED
  BY <1>1, <1>3, <1>4 DEF less

\* The rows that a callback may find: those of the timeline, and the system row
\* it has just added.
Extends(seq) == /\ seq \in Seq(Row) /\ NoTwins(seq)
                /\ DOMAIN rows \subseteq DOMAIN seq
                /\ \A k \in DOMAIN rows : seq[k] = rows[k]
                /\ \A k \in DOMAIN seq \ DOMAIN rows : seq[k].form = "system"

\* replaceEcho: the echo is gone, the row is there, and there is one of it.
LEMMA ReplacedRows ==
    ASSUME NEW i \in 1..MaxJobs, NEW form \in {"real", "notice"}, NEW seq,
           Extends(seq), ~Shows(seq, i, "notice")
    PROVE  /\ Replaced(seq, i, form) \in Seq(Row) /\ NoTwins(Replaced(seq, i, form))
           /\ \A j, g : Shows(Replaced(seq, i, form), j, g) <=>
                  (Shows(seq, j, g) /\ ~(j = i /\ g = "echo")) \/ (j = i /\ g = form)
<1> USE DEF Extends
<1>1. \A k \in DOMAIN seq : seq[k] \in Row
  BY LenProperties, ElementOfSeq
<1>2. \A k \in DOMAIN seq, g \in {"echo", "real"} :
          seq[k].job = i /\ seq[k].form = g <=> k \in Find(i, g)
  BY DEF Find
<1>3. \A g \in {"echo", "real"} : Has(i, g) <=> Shows(seq, i, g)
  BY <1>2 DEF Has, Shows, Find
<1>4. CASE ~Has(i, "echo")
  <2>1. Replaced(seq, i, form) = Appended(seq, NewRow(i, form))
    BY <1>4 DEF Replaced
  <2>2. NewRow(i, form) \in Row /\ NewRow(i, form).job = i /\ NewRow(i, form).form = form
    BY NewRowType DEF Forms
  <2>3. ~Shows(seq, i, "echo")
    BY <1>3, <1>4
  <2>4. form = "real" \/ ~Shows(seq, i, form)
    OBVIOUS
  <2> QED
    BY <2>1, <2>2, <2>3, <2>4, AppendedRow
<1>5. CASE Has(i, "echo") /\ form = "real" /\ Has(i, "real")
  <2> DEFINE k == CHOOSE k \in Find(i, "echo") : TRUE
  <2>1. k \in Find(i, "echo")
    BY <1>5 DEF Has
  <2>2. k \in DOMAIN seq /\ seq[k].job = i /\ seq[k].form = "echo"
    BY <2>1 DEF Find
  <2>3. Replaced(seq, i, form) = RemoveAt(seq, k)
    BY <1>5 DEF Replaced
  <2> HIDE DEF k
  <2> QED
    BY <1>3, <1>5, <2>2, <2>3, RemovedRow
<1>6. CASE Has(i, "echo") /\ ~(form = "real" /\ Has(i, "real"))
  <2> DEFINE new == Replaced(seq, i, form)
  <2>1. new = [k \in DOMAIN seq |-> IF k \in Find(i, "echo")
                                    THEN [NewRow(i, form) EXCEPT !.marks = seq[k].marks]
                                    ELSE seq[k]]
    BY <1>6 DEF Replaced
  <2>2. NewRow(i, form) \in Row /\ NewRow(i, form).job = i /\ NewRow(i, form).form = form
    BY NewRowType DEF Forms
  <2>3. \A k \in Find(i, "echo") : /\ new[k] \in Row /\ new[k].job = i /\ new[k].form = form
                                   /\ k \in DOMAIN seq
    BY <1>1, <2>1, <2>2 DEF Row, Find
  <2>4. \A k \in DOMAIN seq \ Find(i, "echo") : new[k] = seq[k]
    BY <2>1
  <2>5. DOMAIN new = DOMAIN seq /\ new = [k \in DOMAIN seq |-> new[k]]
    BY <2>1
  <2> HIDE DEF new
  <2>6. new \in Seq(Row)
    BY <1>1, <2>3, <2>4, <2>5, RowPerRow
  <2>7. ~Shows(seq, i, form)
    BY <1>3, <1>6
  <2>8. NoTwins(new)
    <3> SUFFICES ASSUME NEW k \in DOMAIN seq, NEW l \in DOMAIN seq,
                        new[k].job = new[l].job, new[k].form = new[l].form
                 PROVE  k = l
      BY <2>5 DEF NoTwins
    <3>1. CASE k \in Find(i, "echo") /\ l \in Find(i, "echo")
      BY <1>2, <3>1 DEF NoTwins
    <3>2. CASE k \in Find(i, "echo") /\ l \notin Find(i, "echo")
      BY <2>3, <2>4, <2>7, <3>2 DEF Shows
    <3>3. CASE k \notin Find(i, "echo") /\ l \in Find(i, "echo")
      BY <2>3, <2>4, <2>7, <3>3 DEF Shows
    <3>4. CASE k \notin Find(i, "echo") /\ l \notin Find(i, "echo")
      BY <2>4, <3>4 DEF NoTwins
    <3> QED
      BY <3>1, <3>2, <3>3, <3>4
  <2>9. ASSUME NEW j, NEW g
        PROVE  Shows(new, j, g) <=>
                   (Shows(seq, j, g) /\ ~(j = i /\ g = "echo")) \/ (j = i /\ g = form)
    BY <1>2, <1>6, <2>3, <2>4, <2>5 DEF Shows, Has
  <2> QED
    BY <2>6, <2>8, <2>9 DEF new
<1> QED
  BY <1>4, <1>5, <1>6

(***************************************************************************)
(* The steps.                                                              *)
(***************************************************************************)
LEMMA InvInit == Init => Inv
<1> SUFFICES ASSUME Init
             PROVE  Inv
  OBVIOUS
<1> USE DEF Init
<1>1. TypeOK
  <2>1. Len(jobs) <= MaxJobs /\ opens \in 0..MaxOpens
    BY BoundAssumption
  <2>2. rows \in Seq(Row) /\ jobs \in Seq(Job) /\ posted \in Seq(DOMAIN jobs)
    BY EmptySeq
  <2> QED
    BY <2>1, <2>2 DEF TypeOK
<1>2. JobsInv
  BY <1>1 DEF JobsInv, PostedState
<1>3. RowsInv
  BY DEF RowsInv, NoTwins, Shows
<1> QED
  BY <1>2, <1>3 DEF Inv

\* The facts that the steps start from.
LEMMA JobFacts ==
    ASSUME Inv
    PROVE  /\ Len(jobs) \in Nat /\ DOMAIN jobs = 1..Len(jobs) /\ DOMAIN jobs \subseteq 1..MaxJobs
           /\ \A i \in DOMAIN jobs : jobs[i] \in Job
           /\ \A i \in DOMAIN jobs : KeyState(jobs[i], ready, shared) /\ AnswerState(jobs[i], ready)
           /\ Len(posted) \in Nat /\ DOMAIN posted = 1..Len(posted)
           /\ \A k \in DOMAIN posted : posted[k] \in DOMAIN jobs /\ jobs[posted[k]].stage = "posted"
<1>1. jobs \in Seq(Job) /\ Len(jobs) <= MaxJobs /\ posted \in Seq(DOMAIN jobs)
  BY DEF Inv, JobsInv, TypeOK
<1>2. Len(jobs) \in Nat /\ DOMAIN jobs = 1..Len(jobs) /\ \A i \in DOMAIN jobs : jobs[i] \in Job
  BY <1>1, LenProperties, ElementOfSeq
<1>3. /\ Len(posted) \in Nat /\ DOMAIN posted = 1..Len(posted)
      /\ \A k \in DOMAIN posted : posted[k] \in DOMAIN jobs
  BY <1>1, LenProperties, ElementOfSeq
<1>4. DOMAIN jobs \subseteq 1..MaxJobs
  BY <1>1, <1>2, BoundAssumption
<1> QED
  BY <1>2, <1>3, <1>4 DEF Inv, JobsInv, PostedState

\* A step of a job's worker.
LEMMA WorkerStep ==
    ASSUME Inv, NEW i \in DOMAIN jobs, NEW j \in Job,
           jobs[i].stage \in Before \cup {"request"}, j.stage # "over",
           jobs' = [jobs EXCEPT ![i] = j],
           j.kind = jobs[i].kind, j.room = jobs[i].room, j.left = jobs[i].left,
           KeyState(j, ready, shared'), AnswerState(j, ready),
           shared' \in [Rooms -> BOOLEAN], \A r \in Rooms : shared[r] => shared'[r],
           posted' = posted \/ (posted' = Append(posted, i) /\ j.stage = "posted"),
           UNCHANGED <<ui, rows>>
    PROVE  Inv'
<1> USE DEF ui
<1>1. /\ jobs' \in Seq(Job) /\ Len(jobs') = Len(jobs) /\ DOMAIN jobs' = DOMAIN jobs
      /\ jobs'[i] = j /\ \A k \in DOMAIN jobs : k # i => jobs'[k] = jobs[k]
  <2>1. jobs \in Seq(Job)
    BY DEF Inv, JobsInv, TypeOK
  <2>2. jobs' \in Seq(Job) /\ Len(jobs') = Len(jobs)
    BY <2>1, JobFacts, ExceptSeq
  <2> QED
    BY <2>2
<1>2. \A k \in DOMAIN posted : posted[k] # i
  BY JobFacts DEF Before
<1>3. posted' \in Seq(DOMAIN jobs') /\ PostedState'
  <2>1. posted \in Seq(DOMAIN jobs)
    BY DEF Inv, JobsInv, TypeOK
  <2>2. CASE posted' = posted
    BY <1>1, <1>2, <2>1, <2>2, JobFacts DEF PostedState, Inv, JobsInv
  <2>3. CASE posted' = Append(posted, i) /\ j.stage = "posted"
    <3>1. /\ posted' \in Seq(DOMAIN jobs) /\ Len(posted') = Len(posted) + 1
          /\ \A k \in 1..Len(posted) : posted'[k] = posted[k]
          /\ posted'[Len(posted) + 1] = i
      BY <2>1, <2>3, AppendProperties
    <3>2. DOMAIN posted' = 1..(Len(posted) + 1)
      BY <3>1, LenProperties
    <3> QED
      BY <1>1, <1>2, <2>3, <3>1, <3>2, JobFacts DEF PostedState, Inv, JobsInv
  <2> QED
    BY <2>2, <2>3
<1>4. JobsInv'
  <2>1. TypeOK'
    BY <1>1, <1>3 DEF TypeOK, Inv, JobsInv
  <2>2. ASSUME NEW k \in DOMAIN jobs
        PROVE  KeyState(jobs'[k], ready, shared') /\ AnswerState(jobs'[k], ready)
    <3>1. KeyState(jobs[k], ready, shared') /\ AnswerState(jobs[k], ready)
      BY JobFacts DEF KeyState, Job
    <3> QED
      BY <1>1, <3>1
  <2> QED
    BY <1>1, <1>3, <2>1, <2>2 DEF JobsInv
<1>5. RowsInv'
  <2>1. jobs[i].stage # "over" /\ jobs[i].server = "no"
    BY JobFacts DEF Before, AnswerState
  <2>2. ASSUME NEW k \in 1..MaxJobs, NEW form \in Forms, RowState(k, form)
        PROVE  RowState(k, form)'
    BY <1>1, <2>1, <2>2 DEF RowState
  <2>3. ASSUME NEW k \in DOMAIN jobs, EchoState(k)
        PROVE  EchoState(k)'
    BY <1>1, <2>1, <2>3 DEF EchoState
  <2> QED
    BY <1>1, <2>2, <2>3 DEF RowsInv, Inv, Stays
<1> QED
  BY <1>4, <1>5 DEF Inv

LEMMA PrepareStep ==
    ASSUME Inv, NEW i \in DOMAIN jobs, Prepare(i)
    PROVE  Inv'
<1> DEFINE next  == [jobs[i] EXCEPT !.stage = IF InClear(i) THEN "request" ELSE "check"]
           fails == [jobs[i] EXCEPT !.result = "unprepared", !.stage = "posted"]
<1>1. jobs[i] \in Job /\ jobs[i].stage = "prepare"
  BY JobFacts DEF Prepare, At
<1>2. KeyState(jobs[i], ready, shared) /\ AnswerState(jobs[i], ready)
  BY JobFacts
<1>3. UNCHANGED <<ui, rows, shared>> /\ shared \in [Rooms -> BOOLEAN]
  BY DEF Prepare, Inv, JobsInv, TypeOK
<1>4. CASE jobs' = [jobs EXCEPT ![i] = next] /\ posted' = posted
  <2>1. /\ next \in Job /\ next.stage # "over"
        /\ next.kind = jobs[i].kind /\ next.room = jobs[i].room /\ next.left = jobs[i].left
    BY <1>1 DEF Job, Stages
  <2>2. KeyState(next, ready, shared) /\ AnswerState(next, ready)
    BY <1>1, <1>2 DEF KeyState, AnswerState, Job, Before, InClear
  <2> QED
    BY <1>1, <1>3, <1>4, <2>1, <2>2, WorkerStep DEF Before
<1>5. CASE jobs' = [jobs EXCEPT ![i] = fails] /\ posted' = Append(posted, i)
  <2>1. /\ fails \in Job /\ fails.stage = "posted"
        /\ fails.kind = jobs[i].kind /\ fails.room = jobs[i].room /\ fails.left = jobs[i].left
    BY <1>1 DEF Job, Stages, Results
  <2>2. KeyState(fails, ready, shared) /\ AnswerState(fails, ready)
    BY <1>1, <1>2 DEF KeyState, AnswerState, Job, Before
  <2> QED
    BY <1>1, <1>3, <1>5, <2>1, <2>2, WorkerStep DEF Before
<1> QED
  BY <1>1, <1>4, <1>5 DEF Prepare, Go, Post

LEMMA CheckStep ==
    ASSUME Inv, NEW i \in DOMAIN jobs, Check(i)
    PROVE  Inv'
<1> DEFINE had   == [jobs[i] EXCEPT !.key = "had", !.stage = "request"]
           share == [jobs[i] EXCEPT !.stage = "share"]
<1>1. jobs[i] \in Job /\ jobs[i].stage = "check"
  BY JobFacts DEF Check, At
<1>2. KeyState(jobs[i], ready, shared) /\ AnswerState(jobs[i], ready)
  BY JobFacts
<1>3. UNCHANGED <<ui, rows, posted, shared>> /\ shared \in [Rooms -> BOOLEAN]
  BY DEF Check, Inv, JobsInv, TypeOK
<1>4. CASE shared[jobs[i].room] /\ jobs' = [jobs EXCEPT ![i] = had]
  <2>1. /\ had \in Job /\ had.stage # "over"
        /\ had.kind = jobs[i].kind /\ had.room = jobs[i].room /\ had.left = jobs[i].left
    BY <1>1 DEF Job, Stages, Keys
  <2>2. KeyState(had, ready, shared) /\ AnswerState(had, ready)
    BY <1>1, <1>2, <1>4 DEF KeyState, AnswerState, Job, Before
  <2> QED
    BY <1>1, <1>3, <1>4, <2>1, <2>2, WorkerStep DEF Before
<1>5. CASE jobs' = [jobs EXCEPT ![i] = share]
  <2>1. /\ share \in Job /\ share.stage # "over"
        /\ share.kind = jobs[i].kind /\ share.room = jobs[i].room /\ share.left = jobs[i].left
    BY <1>1 DEF Job, Stages
  <2>2. KeyState(share, ready, shared) /\ AnswerState(share, ready)
    BY <1>1, <1>2 DEF KeyState, AnswerState, Job, Before
  <2> QED
    BY <1>1, <1>3, <1>5, <2>1, <2>2, WorkerStep DEF Before
<1>6. (shared[jobs[i].room] /\ jobs' = [jobs EXCEPT ![i] = had]) \/ jobs' = [jobs EXCEPT ![i] = share]
  BY <1>1 DEF Check
<1> QED
  BY <1>4, <1>5, <1>6

LEMMA ShareStartsStep ==
    ASSUME Inv, NEW i \in DOMAIN jobs, ShareStarts(i)
    PROVE  Inv'
<1> DEFINE fresh   == [jobs[i] EXCEPT !.key = "fresh", !.stage = "request"]
           sharing == [jobs[i] EXCEPT !.stage = "sharing"]
<1>1. jobs[i] \in Job /\ jobs[i].stage = "share"
  BY JobFacts DEF ShareStarts, At
<1>2. KeyState(jobs[i], ready, shared) /\ AnswerState(jobs[i], ready)
  BY JobFacts
<1>3. UNCHANGED <<ui, rows, posted, shared>> /\ shared \in [Rooms -> BOOLEAN]
  BY DEF ShareStarts, Inv, JobsInv, TypeOK
<1>4. CASE shared[jobs[i].room] /\ jobs' = [jobs EXCEPT ![i] = fresh]
  <2>1. /\ fresh \in Job /\ fresh.stage # "over"
        /\ fresh.kind = jobs[i].kind /\ fresh.room = jobs[i].room /\ fresh.left = jobs[i].left
    BY <1>1 DEF Job, Stages, Keys
  <2>2. KeyState(fresh, ready, shared) /\ AnswerState(fresh, ready)
    BY <1>1, <1>2, <1>4 DEF KeyState, AnswerState, Job, Before
  <2> QED
    BY <1>1, <1>3, <1>4, <2>1, <2>2, WorkerStep DEF Before
<1>5. CASE jobs' = [jobs EXCEPT ![i] = sharing]
  <2>1. /\ sharing \in Job /\ sharing.stage # "over"
        /\ sharing.kind = jobs[i].kind /\ sharing.room = jobs[i].room
        /\ sharing.left = jobs[i].left
    BY <1>1 DEF Job, Stages
  <2>2. KeyState(sharing, ready, shared) /\ AnswerState(sharing, ready)
    BY <1>1, <1>2 DEF KeyState, AnswerState, Job, Before
  <2> QED
    BY <1>1, <1>3, <1>5, <2>1, <2>2, WorkerStep DEF Before
<1>6. \/ shared[jobs[i].room] /\ jobs' = [jobs EXCEPT ![i] = fresh]
      \/ jobs' = [jobs EXCEPT ![i] = sharing]
  BY <1>1 DEF ShareStarts
<1> QED
  BY <1>4, <1>5, <1>6

\* The only step that changes the keys: the key of the job's room is there now.
LEMMA ShareEndsStep ==
    ASSUME Inv, NEW i \in DOMAIN jobs, ShareEnds(i)
    PROVE  Inv'
<1> DEFINE to(key) == [jobs[i] EXCEPT !.key = key, !.stage = "request"]
<1>1. jobs[i] \in Job /\ jobs[i].stage = "sharing"
  BY JobFacts DEF ShareEnds, At
<1>2. KeyState(jobs[i], ready, shared) /\ AnswerState(jobs[i], ready)
  BY JobFacts
<1>3. UNCHANGED <<ui, rows, posted>> /\ shared \in [Rooms -> BOOLEAN]
  BY DEF ShareEnds, Inv, JobsInv, TypeOK
<1>4. ASSUME NEW key \in {"fresh", "failed"}, jobs' = [jobs EXCEPT ![i] = to(key)],
             shared' = IF key = "fresh" THEN [shared EXCEPT ![jobs[i].room] = TRUE] ELSE shared
      PROVE  Inv'
  <2>1. /\ to(key) \in Job /\ to(key).stage # "over"
        /\ to(key).kind = jobs[i].kind /\ to(key).room = jobs[i].room
        /\ to(key).left = jobs[i].left
    BY <1>1 DEF Job, Stages, Keys
  <2>2. shared' \in [Rooms -> BOOLEAN] /\ \A r \in Rooms : shared[r] => shared'[r]
    BY <1>3, <1>4
  <2>3. key = "fresh" => shared'[jobs[i].room]
    BY <1>1, <1>3, <1>4 DEF Job
  <2>4. KeyState(to(key), ready, shared') /\ AnswerState(to(key), ready)
    BY <1>1, <1>2, <2>3 DEF KeyState, AnswerState, Job, Before
  <2> QED
    BY <1>1, <1>3, <1>4, <2>1, <2>2, <2>4, WorkerStep DEF Before
<1> QED
  BY <1>1, <1>4 DEF ShareEnds

LEMMA RequestStep ==
    ASSUME Inv, NEW i \in DOMAIN jobs, Request(i)
    PROVE  Inv'
<1>1. jobs[i] \in Job /\ jobs[i].stage = "request"
  BY JobFacts DEF Request, At
<1>2. KeyState(jobs[i], ready, shared) /\ AnswerState(jobs[i], ready)
  BY JobFacts
<1>3. UNCHANGED <<ui, rows, shared>> /\ shared \in [Rooms -> BOOLEAN]
  BY DEF Request, Inv, JobsInv, TypeOK
<1>4. PICK result \in {"ok", "refused"},
           server \in {"no", IF InClear(i) THEN "plain" ELSE "cipher"} :
               /\ result = "ok" => server # "no"
               /\ Post(i, [jobs[i] EXCEPT !.result = result, !.server = server])
  BY DEF Request
<1> DEFINE sent == [jobs[i] EXCEPT !.result = result, !.server = server, !.stage = "posted"]
<1>5. jobs' = [jobs EXCEPT ![i] = sent] /\ posted' = Append(posted, i)
  BY <1>4 DEF Post
<1>6. /\ sent \in Job /\ sent.stage = "posted"
      /\ sent.kind = jobs[i].kind /\ sent.room = jobs[i].room /\ sent.left = jobs[i].left
  BY <1>1, <1>4 DEF Job, Stages, Results
<1>7. KeyState(sent, ready, shared) /\ AnswerState(sent, ready)
  BY <1>1, <1>2, <1>4 DEF KeyState, AnswerState, Job, Before, InClear
<1> QED
  BY <1>1, <1>3, <1>5, <1>6, <1>7, WorkerStep DEF Before

\* Opening a room empties the timeline: whatever is under way is of a room left.
LEMMA OpenRoomStep ==
    ASSUME Inv, NEW r \in Rooms, OpenRoom(r)
    PROVE  Inv'
<1> USE DEF OpenRoom, ClearTimeline
<1>1. /\ jobs' \in Seq(Job) /\ DOMAIN jobs' = DOMAIN jobs /\ Len(jobs') = Len(jobs)
      /\ \A i \in DOMAIN jobs : jobs'[i] = [jobs[i] EXCEPT !.left = TRUE]
  <2>1. \A i \in DOMAIN jobs : [jobs[i] EXCEPT !.left = TRUE] \in Job
    BY JobFacts DEF Job
  <2>2. jobs' \in [1..Len(jobs) -> Job] /\ Len(jobs) \in Nat
    BY <2>1, JobFacts
  <2>3. jobs' \in Seq(Job)
    BY <2>2, SeqDef
  <2>4. Len(jobs') = Len(jobs)
    BY <2>2, <2>3, LenProperties
  <2> QED
    BY <2>3, <2>4
<1>2. \A i \in DOMAIN jobs :
          /\ jobs'[i].left = TRUE /\ jobs'[i].stage = jobs[i].stage
          /\ KeyState(jobs'[i], ready, shared) /\ AnswerState(jobs'[i], ready)
  BY <1>1, JobFacts DEF KeyState, AnswerState, Job
<1>3. rows' \in Seq(Row) /\ NoTwins(rows') /\ \A i, form : ~Shows(rows', i, form)
  BY EmptySeq DEF NoTwins, Shows
<1>4. posted' \in Seq(DOMAIN jobs') /\ PostedState'
  BY <1>1, <1>2, JobFacts DEF PostedState, Inv, JobsInv, TypeOK
<1>5. TypeOK'
  BY <1>1, <1>3, <1>4, BoundAssumption DEF TypeOK, Inv, JobsInv
<1>6. JobsInv'
  BY <1>1, <1>2, <1>4, <1>5 DEF JobsInv
<1>7. RowsInv'
  BY <1>1, <1>2, <1>3 DEF RowsInv, Stays
<1> QED
  BY <1>6, <1>7 DEF Inv

LEMMA SlashCommandStep ==
    ASSUME Inv, SlashCommand
    PROVE  Inv'
<1> USE DEF SlashCommand
<1>1. rows' \in Seq(Row) /\ NoTwins(rows') /\ \A i, form : ~Shows(rows', i, form)
  BY EmptySeq DEF NoTwins, Shows
<1>2. posted' \in Seq(DOMAIN jobs') /\ PostedState'
  BY EmptySeq DEF PostedState
<1>3. TypeOK'
  BY <1>1, <1>2 DEF TypeOK, Inv, JobsInv
<1>4. JobsInv'
  BY <1>2, <1>3 DEF JobsInv, Inv
<1>5. RowsInv'
  BY <1>1 DEF RowsInv, Stays
<1> QED
  BY <1>4, <1>5 DEF Inv

\* A new job, with its echo or without.
LEMMA SendStep ==
    ASSUME Inv, NEW kind \in Kinds, Send(kind)
    PROVE  Inv'
<1> DEFINE n == Len(jobs) + 1
           job(t) == [kind |-> kind, room |-> open, target |-> t,
                      known |-> listed[open], enc |-> Encrypt(kind),
                      stage |-> "prepare", result |-> "none", key |-> "none",
                      server |-> "no", left |-> FALSE]
<1> USE DEF ui
<1>1. /\ alive /\ open \in Rooms /\ Len(jobs) < MaxJobs /\ kind \in AllKinds
      /\ UNCHANGED <<listed, ready, open, flag, opens, alive, posted, shared>>
      /\ listed \in [Rooms -> BOOLEAN] /\ flag \in BOOLEAN
  BY KindsAssumption DEF Send, Inv, JobsInv, TypeOK
<1>2. PICK t \in Targets(kind) : jobs' = Append(jobs, job(t))
  BY DEF Send
<1>3. t \in 0..MaxJobs
  <2>1. rows \in Seq(Row) /\ \A k \in DOMAIN rows : rows[k] \in Row
    BY ElementOfSeq, LenProperties DEF Inv, JobsInv, TypeOK
  <2> QED
    BY <2>1, BoundAssumption DEF Targets, Row
<1>4. Encrypt(kind) \in BOOLEAN
  BY <1>1 DEF Encrypt, AllKinds, Messages, Marking
<1>5. job(t) \in Job
  BY <1>1, <1>3, <1>4 DEF Job, Stages, Results, Keys
<1>6. /\ jobs' \in Seq(Job) /\ Len(jobs') = n /\ n \in 1..MaxJobs
      /\ jobs'[n] = job(t) /\ \A i \in DOMAIN jobs : jobs'[i] = jobs[i]
      /\ DOMAIN jobs' = DOMAIN jobs \cup {n} /\ n \notin DOMAIN jobs
  <2>1. jobs \in Seq(Job)
    BY DEF Inv, JobsInv, TypeOK
  <2>2. /\ jobs' \in Seq(Job) /\ Len(jobs') = n
        /\ jobs'[n] = job(t) /\ \A i \in 1..Len(jobs) : jobs'[i] = jobs[i]
    BY <1>2, <1>5, <2>1, AppendProperties
  <2>3. DOMAIN jobs' = 1..n
    BY <2>2, LenProperties
  <2> QED
    BY <1>1, <2>2, <2>3, JobFacts, BoundAssumption
<1>7. KeyState(job(t), ready, shared) /\ AnswerState(job(t), ready)
  BY <1>1 DEF KeyState, AnswerState, Before, Encrypt
<1>8. /\ rows' \in Seq(Row) /\ NoTwins(rows')
      /\ \A i, form : Shows(rows', i, form) <=>
             Shows(rows, i, form) \/ (kind \in {"send", "me"} /\ i = n /\ form = "echo")
  <2>1. rows \in Seq(Row) /\ NoTwins(rows)
    BY DEF Inv, JobsInv, RowsInv, TypeOK
  <2>2. ~Shows(rows, n, "echo")
    BY <1>6 DEF Inv, RowsInv, RowState, Forms
  <2>3. NewRow(n, "echo") \in Row /\ NewRow(n, "echo").job = n /\ NewRow(n, "echo").form = "echo"
    BY <1>6, NewRowType DEF Forms
  <2>4. rows' = IF kind \in {"send", "me"} THEN Append(rows, NewRow(n, "echo")) ELSE rows
    BY <1>6 DEF Send
  <2> HIDE DEF n
  <2> QED
    BY <2>1, <2>2, <2>3, <2>4, AppendRow
<1> HIDE DEF job, n
<1>9. JobsInv'
  <2>1. posted' \in Seq(DOMAIN jobs')
    BY <1>1, <1>6, SeqMonotonic DEF Inv, JobsInv, TypeOK
  <2>2. PostedState'
    BY <1>1, <1>6, JobFacts DEF PostedState, Inv, JobsInv
  <2>3. TypeOK'
    BY <1>1, <1>6, <1>8, <2>1 DEF TypeOK, Inv, JobsInv
  <2> QED
    BY <1>1, <1>6, <1>7, <2>2, <2>3, JobFacts DEF JobsInv
<1>10. RowsInv'
  <2>1. job(t).room = open /\ job(t).left = FALSE /\ job(t).stage = "prepare"
    BY DEF job
  <2>2. ASSUME NEW i \in 1..MaxJobs, NEW form \in Forms, Shows(rows', i, form)
        PROVE  RowState(i, form)'
    <3>1. CASE Shows(rows, i, form)
      BY <1>1, <1>6, <3>1 DEF RowState, Inv, RowsInv
    <3>2. CASE i = n /\ form = "echo"
      BY <1>1, <1>6, <2>1, <3>2 DEF RowState
    <3> QED
      BY <1>8, <2>2, <3>1, <3>2
  <2>3. ASSUME NEW i \in DOMAIN jobs', Stays(i)', jobs'[i].kind = "send"
        PROVE  EchoState(i)'
    <3>1. CASE i \in DOMAIN jobs
      <4>1. EchoState(i)
        BY <1>1, <1>6, <2>3, <3>1 DEF Inv, RowsInv, Stays
      <4> QED
        BY <1>6, <1>8, <3>1, <4>1 DEF EchoState
    <3>2. CASE i = n
      <4>1. kind = "send"
        BY <1>6, <2>3, <3>2 DEF job
      <4> QED
        BY <1>6, <1>8, <2>1, <3>2, <4>1 DEF EchoState
    <3> QED
      BY <1>6, <3>1, <3>2
  <2>4. \A i \in DOMAIN jobs' : Stays(i)' => jobs'[i].room = open'
    BY <1>1, <1>6, <2>1 DEF Inv, RowsInv, Stays
  <2> QED
    BY <1>1, <1>8, <2>2, <2>3, <2>4 DEF RowsInv
<1> QED
  BY <1>9, <1>10 DEF Inv

\* A message comes back with sync, before or after its callback.
LEMMA ServerRowStep ==
    ASSUME Inv, NEW i \in DOMAIN jobs, ServerRow(i)
    PROVE  Inv'
<1> USE DEF ui
<1>1. /\ jobs[i].server # "no" /\ jobs[i].room = open
      /\ UNCHANGED <<listed, ready, open, flag, opens, alive, jobs, posted, shared>>
      /\ alive
  BY DEF ServerRow
<1>2. /\ rows' \in Seq(Row) /\ NoTwins(rows')
      /\ \A j, form : Shows(rows', j, form) <=>
             Shows(rows, j, form) \/ (j = i /\ form = "real")
  <2>1. rows \in Seq(Row) /\ NoTwins(rows) /\ i \in 1..MaxJobs
    BY JobFacts DEF Inv, JobsInv, RowsInv, TypeOK
  <2>2. NewRow(i, "real") \in Row /\ NewRow(i, "real").job = i /\ NewRow(i, "real").form = "real"
    BY <2>1, NewRowType DEF Forms
  <2> QED
    BY <2>1, <2>2, AppendedRow DEF ServerRow
<1>3. JobsInv'
  BY <1>1, <1>2 DEF JobsInv, TypeOK, PostedState, Inv
<1>4. RowsInv'
  <2>1. ASSUME NEW j \in 1..MaxJobs, NEW form \in Forms, Shows(rows', j, form)
        PROVE  RowState(j, form)'
    BY <1>1, <1>2, <2>1 DEF RowState, Inv, RowsInv
  <2>2. ASSUME NEW j \in DOMAIN jobs, Stays(j), jobs[j].kind = "send"
        PROVE  EchoState(j)'
    BY <1>1, <1>2, <2>2 DEF EchoState, Inv, RowsInv
  <2> QED
    BY <1>1, <1>2, <2>1, <2>2 DEF RowsInv, Inv, Stays
<1> QED
  BY <1>3, <1>4 DEF Inv

LEMMA LearnEncryptionStep ==
    ASSUME Inv, NEW r \in Rooms, LearnEncryption(r)
    PROVE  Inv'
<1>1. UNCHANGED <<ready, open, rows, jobs, posted, shared, opens, alive>>
  BY DEF LearnEncryption
<1>2. listed' \in [Rooms -> BOOLEAN] /\ flag' \in BOOLEAN
  BY DEF LearnEncryption, Inv, JobsInv, TypeOK
<1>3. JobsInv'
  BY <1>1, <1>2 DEF JobsInv, TypeOK, PostedState, Inv
<1>4. RowsInv'
  BY <1>1 DEF RowsInv, RowState, EchoState, Stays, Inv
<1> QED
  BY <1>3, <1>4 DEF Inv

\* "You shared the room key" is the first row of the callback, if there is one.
LEMMA SystemRow ==
    ASSUME Inv, NEW i \in DOMAIN jobs, jobs[i].stage = "posted"
    PROVE  /\ Extends(WithSystemRow(i))
           /\ \A j, form : form # "system" =>
                  (Shows(WithSystemRow(i), j, form) <=> Shows(rows, j, form))
           /\ \A j, form : j # i =>
                  (Shows(WithSystemRow(i), j, form) <=> Shows(rows, j, form))
<1>1. rows \in Seq(Row) /\ NoTwins(rows) /\ i \in 1..MaxJobs
  BY JobFacts DEF Inv, JobsInv, RowsInv, TypeOK
<1>2. ~Shows(rows, i, "system")
  BY <1>1 DEF Inv, RowsInv, RowState, Forms
<1>3. CASE WithSystemRow(i) = rows
  BY <1>1, <1>3 DEF Extends
<1>4. CASE WithSystemRow(i) = Append(rows, NewRow(i, "system"))
  <2>1. /\ NewRow(i, "system") \in Row
        /\ NewRow(i, "system").job = i /\ NewRow(i, "system").form = "system"
    BY <1>1, NewRowType DEF Forms
  <2> DEFINE new == WithSystemRow(i)
  <2>2. /\ new \in Seq(Row) /\ NoTwins(new)
        /\ \A j, form : Shows(new, j, form) <=>
               Shows(rows, j, form) \/ (j = i /\ form = "system")
    BY <1>1, <1>2, <1>4, <2>1, AppendRow
  <2>3. /\ Len(new) = Len(rows) + 1
        /\ \A k \in 1..Len(rows) : new[k] = rows[k]
        /\ new[Len(rows) + 1] = NewRow(i, "system")
    BY <1>1, <1>4, <2>1, AppendProperties
  <2>4. DOMAIN rows = 1..Len(rows) /\ Len(rows) \in Nat /\ DOMAIN new = 1..(Len(rows) + 1)
    BY <1>1, <2>2, <2>3, LenProperties
  <2> HIDE DEF new
  <2>5. Extends(new)
    BY <2>1, <2>2, <2>3, <2>4 DEF Extends
  <2> QED
    BY <2>2, <2>5 DEF new
<1> QED
  BY <1>3, <1>4 DEF WithSystemRow

\* What the callback of job i leaves in the timeline.
DeliveredRows(new, i) ==
    /\ new \in Seq(Row) /\ NoTwins(new)
    /\ \A j, form : j # i => (Shows(new, j, form) <=> Shows(rows, j, form))
    /\ Shows(new, i, "real") => jobs[i].server # "no"
    /\ jobs[i].kind = "send" =>
           /\ ~Shows(new, i, "echo")
           /\ IF jobs[i].result = "ok"
              THEN Shows(new, i, "real") /\ ~Shows(new, i, "notice")
              ELSE Shows(new, i, "notice")

\* The facts that the three outcomes share.
LEMMA PostedFacts ==
    ASSUME Inv, NEW i \in DOMAIN jobs, jobs[i].stage = "posted"
    PROVE  /\ i \in 1..MaxJobs /\ jobs[i] \in Job /\ AnswerState(jobs[i], ready)
           /\ rows \in Seq(Row) /\ NoTwins(rows) /\ Extends(rows)
           /\ ~Shows(rows, i, "notice") /\ ~Shows(rows, i, "system")
           /\ Shows(rows, i, "real") => jobs[i].server # "no"
<1>1. rows \in Seq(Row) /\ NoTwins(rows) /\ i \in 1..MaxJobs
  BY JobFacts DEF Inv, JobsInv, RowsInv, TypeOK
<1>2. \A form \in Forms : Shows(rows, i, form) => RowState(i, form)
  BY <1>1 DEF Inv, RowsInv
<1> QED
  BY <1>1, <1>2, JobFacts DEF RowState, Forms, Extends

LEMMA SucceededRows ==
    ASSUME Inv, NEW i \in DOMAIN jobs, jobs[i].stage = "posted", jobs[i].result = "ok"
    PROVE  DeliveredRows(Succeeded(i), i)
<1> DEFINE kind == jobs[i].kind
           seq  == WithSystemRow(i)
<1>1. kind \in AllKinds /\ jobs[i].server # "no" /\ i \in 1..MaxJobs
  BY PostedFacts DEF Job, AnswerState
<1>2. Extends(seq) /\ ~Shows(seq, i, "notice")
  BY SystemRow, PostedFacts
<1>3. \A j, form : j # i => (Shows(seq, j, form) <=> Shows(rows, j, form))
  BY SystemRow
<1>4. CASE kind = "send"
  <2>1. Succeeded(i) = Replaced(seq, i, "real")
    BY <1>4 DEF Succeeded, Marking
  <2> HIDE DEF seq
  <2> QED
    BY <1>1, <1>2, <1>3, <1>4, <2>1, ReplacedRows DEF DeliveredRows
<1>5. CASE kind \in {"reply", "file"}
  <2>1. Succeeded(i) = Appended(seq, NewRow(i, "real"))
    BY <1>5 DEF Succeeded, Marking
  <2>2. NewRow(i, "real") \in Row /\ NewRow(i, "real").job = i /\ NewRow(i, "real").form = "real"
    BY <1>1, NewRowType DEF Forms
  <2>3. seq \in Seq(Row) /\ NoTwins(seq)
    BY <1>2 DEF Extends
  <2> HIDE DEF seq
  <2> QED
    BY <1>1, <1>3, <1>5, <2>1, <2>2, <2>3, AppendedRow DEF DeliveredRows
<1>6. CASE kind = "me"
  <2>1. Succeeded(i) = rows
    BY <1>6 DEF Succeeded, Marking
  <2> QED
    BY <1>1, <1>6, <2>1, PostedFacts DEF DeliveredRows
<1>7. CASE kind \in Marking
  <2>1. Succeeded(i) = Marked(rows, jobs[i].target, MarkOf[kind])
    BY <1>7 DEF Succeeded, Marking
  <2>2. MarkOf[kind] \in Marks
    BY <1>7 DEF MarkOf, Marks, Marking
  <2> QED
    BY <1>1, <1>7, <2>1, <2>2, PostedFacts, MarkedRows DEF DeliveredRows, Marking
<1> QED
  BY <1>1, <1>4, <1>5, <1>6, <1>7 DEF AllKinds, Messages

LEMMA UnpreparedRows ==
    ASSUME Inv, NEW i \in DOMAIN jobs, jobs[i].stage = "posted", jobs[i].result = "unprepared"
    PROVE  DeliveredRows(Unprepared(i), i)
<1> DEFINE kind == jobs[i].kind
<1>1. CASE kind = "send"
  <2>1. Unprepared(i) = Replaced(rows, i, "notice")
    BY <1>1 DEF Unprepared
  <2> QED
    BY <1>1, <2>1, PostedFacts, ReplacedRows DEF DeliveredRows
<1>2. CASE kind = "file"
  <2>1. Unprepared(i) = Append(rows, NewRow(i, "notice"))
    BY <1>2 DEF Unprepared
  <2>2. /\ NewRow(i, "notice") \in Row
        /\ NewRow(i, "notice").job = i /\ NewRow(i, "notice").form = "notice"
    BY PostedFacts, NewRowType DEF Forms
  <2> QED
    BY <1>2, <2>1, <2>2, PostedFacts, AppendRow DEF DeliveredRows
<1>3. CASE kind \notin {"send", "file"}
  <2>1. Unprepared(i) = rows
    BY <1>3 DEF Unprepared
  <2> QED
    BY <1>3, <2>1, PostedFacts DEF DeliveredRows
<1> QED
  BY <1>1, <1>2, <1>3

LEMMA RefusedRows ==
    ASSUME Inv, NEW i \in DOMAIN jobs, jobs[i].stage = "posted", jobs[i].result = "refused"
    PROVE  DeliveredRows(Refused(i), i)
<1> DEFINE kind == jobs[i].kind
<1>1. CASE kind \in {"send", "me"}
  <2>1. Refused(i) = Replaced(rows, i, "notice")
    BY <1>1 DEF Refused
  <2> QED
    BY <1>1, <2>1, PostedFacts, ReplacedRows DEF DeliveredRows
<1>2. CASE kind = "reply"
  <2>1. Refused(i) = WithSystemRow(i)
    BY <1>2 DEF Refused
  <2> QED
    BY <1>2, <2>1, PostedFacts, SystemRow DEF DeliveredRows, Extends
<1>3. CASE kind \notin {"send", "me", "reply"}
  <2>1. Refused(i) = rows
    BY <1>3 DEF Refused
  <2> QED
    BY <1>3, <2>1, PostedFacts DEF DeliveredRows
<1> QED
  BY <1>1, <1>2, <1>3

\* The callback, whatever came of the job and whatever room is open by now.
LEMMA DeliverStep ==
    ASSUME Inv, Deliver
    PROVE  Inv'
<1> DEFINE i == Head(posted)
<1> USE DEF ui
<1>1. /\ alive /\ posted # <<>> /\ posted' = Tail(posted)
      /\ jobs' = [jobs EXCEPT ![i].stage = "over"]
      /\ UNCHANGED <<listed, ready, open, flag, opens, alive, shared>>
  BY DEF Deliver, Go
<1>2. posted \in Seq(DOMAIN jobs) /\ jobs \in Seq(Job)
  BY DEF Inv, JobsInv, TypeOK
<1>3. /\ i = posted[1] /\ 1 \in DOMAIN posted
      /\ posted' \in Seq(DOMAIN jobs) /\ Len(posted') = Len(posted) - 1
      /\ \A k \in 1..Len(posted') : posted'[k] = posted[k + 1]
      /\ DOMAIN posted' = 1..(Len(posted) - 1)
  BY <1>1, <1>2, JobFacts
<1>4. i \in DOMAIN jobs /\ jobs[i].stage = "posted"
  BY <1>3, JobFacts
<1>5. /\ \A k \in DOMAIN posted' : /\ posted'[k] \in DOMAIN jobs /\ posted'[k] # i
                                   /\ jobs[posted'[k]].stage = "posted"
      /\ \A k, l \in DOMAIN posted' : posted'[k] = posted'[l] => k = l
  <2>1. /\ \A k \in DOMAIN posted : /\ posted[k] \in DOMAIN jobs
                                   /\ jobs[posted[k]].stage = "posted"
        /\ \A k, l \in DOMAIN posted : posted[k] = posted[l] => k = l
    BY JobFacts DEF Inv, JobsInv, PostedState
  <2>2. \A k \in DOMAIN posted' : /\ k \in Int /\ k + 1 \in DOMAIN posted /\ k + 1 # 1
                                  /\ posted'[k] = posted[k + 1]
    BY <1>3, JobFacts
  <2> HIDE DEF i
  <2> QED
    BY <1>3, <2>1, <2>2
<1>6. DeliveredRows(rows', i)
  <2>1. rows' = CASE jobs[i].result = "ok" -> Succeeded(i)
                  [] jobs[i].result = "unprepared" -> Unprepared(i)
                  [] jobs[i].result = "refused" -> Refused(i)
    BY DEF Deliver
  <2>2. jobs[i].result \in {"ok", "unprepared", "refused"}
    BY <1>4, JobFacts DEF AnswerState, Before, Job, Results
  <2> HIDE DEF i
  <2>3. CASE jobs[i].result = "ok"
    BY <1>4, <2>1, <2>3, SucceededRows
  <2>4. CASE jobs[i].result = "unprepared"
    BY <1>4, <2>1, <2>4, UnpreparedRows
  <2>5. CASE jobs[i].result = "refused"
    BY <1>4, <2>1, <2>5, RefusedRows
  <2> QED
    BY <2>2, <2>3, <2>4, <2>5
<1> HIDE DEF i
<1>7. /\ jobs' \in Seq(Job) /\ Len(jobs') = Len(jobs) /\ DOMAIN jobs' = DOMAIN jobs
      /\ jobs'[i] = [jobs[i] EXCEPT !.stage = "over"]
      /\ \A k \in DOMAIN jobs : k # i => jobs'[k] = jobs[k]
  <2>1. [jobs[i] EXCEPT !.stage = "over"] \in Job
    BY <1>4, JobFacts DEF Job, Stages
  <2>2. jobs' = [jobs EXCEPT ![i] = [jobs[i] EXCEPT !.stage = "over"]]
    BY <1>1
  <2>3. jobs' \in Seq(Job) /\ Len(jobs') = Len(jobs)
    BY <1>2, <1>4, <2>1, <2>2, JobFacts, ExceptSeq
  <2> QED
    BY <1>4, <2>2, <2>3
<1>8. /\ jobs'[i].stage = "over" /\ jobs'[i].kind = jobs[i].kind /\ jobs'[i].room = jobs[i].room
      /\ jobs'[i].left = jobs[i].left /\ jobs'[i].server = jobs[i].server
      /\ jobs'[i].result = jobs[i].result /\ jobs[i] \in Job
  BY <1>4, <1>7, JobFacts DEF Job
<1>9. JobsInv'
  <2>1. posted' \in Seq(DOMAIN jobs')
    BY <1>3, <1>7
  <2>2. TypeOK'
    BY <1>1, <1>6, <1>7, <2>1 DEF TypeOK, Inv, JobsInv, DeliveredRows
  <2>3. KeyState(jobs'[i], ready, shared) /\ AnswerState(jobs'[i], ready)
    BY <1>4, <1>7, JobFacts DEF KeyState, AnswerState, Before, Job
  <2>4. PostedState'
    BY <1>5, <1>7 DEF PostedState
  <2> QED
    BY <1>1, <1>7, <2>2, <2>3, <2>4, JobFacts DEF JobsInv
<1>10. RowsInv'
  <2>1. ASSUME NEW j \in 1..MaxJobs, NEW form \in Forms, Shows(rows', j, form)
        PROVE  RowState(j, form)'
    <3>1. CASE j = i
      <4>1. jobs[i].room # open => jobs[i].left
        BY <1>1, <1>4, <1>8 DEF Inv, RowsInv, Stays, Job
      <4> QED
        BY <1>1, <1>4, <1>6, <1>7, <1>8, <2>1, <3>1, <4>1 DEF RowState, DeliveredRows
    <3>2. CASE j # i
      <4>1. RowState(j, form)
        BY <1>6, <2>1, <3>2 DEF Inv, RowsInv, DeliveredRows
      <4> QED
        BY <1>1, <1>7, <3>2, <4>1 DEF RowState
    <3> QED
      BY <3>1, <3>2
  <2>2. ASSUME NEW j \in DOMAIN jobs, Stays(j)', jobs'[j].kind = "send"
        PROVE  EchoState(j)'
    <3>1. CASE j = i
      BY <1>6, <1>8, <2>2, <3>1 DEF EchoState, DeliveredRows
    <3>2. CASE j # i
      <4>1. EchoState(j)
        BY <1>1, <1>7, <2>2, <3>2 DEF Inv, RowsInv, Stays
      <4> QED
        BY <1>6, <1>7, <3>2, <4>1 DEF EchoState, DeliveredRows
    <3> QED
      BY <3>1, <3>2
  <2>3. \A j \in DOMAIN jobs : Stays(j)' => jobs'[j].room = open
    BY <1>1, <1>7, <1>8 DEF Inv, RowsInv, Stays
  <2> QED
    BY <1>1, <1>6, <1>7, <2>1, <2>2, <2>3 DEF RowsInv, DeliveredRows
<1> QED
  BY <1>9, <1>10 DEF Inv

LEMMA InvNext == Inv /\ [Next]_vars => Inv'
<1> SUFFICES ASSUME Inv, [Next]_vars
             PROVE  Inv'
  OBVIOUS
<1>1. CASE \E r \in Rooms : OpenRoom(r) \/ LearnEncryption(r)
  BY <1>1, OpenRoomStep, LearnEncryptionStep
<1>2. CASE \E kind \in Kinds : Send(kind)
  BY <1>2, SendStep
<1>3. CASE SlashCommand
  BY <1>3, SlashCommandStep
<1>4. CASE \E i \in DOMAIN jobs : Work(i) \/ ServerRow(i)
  BY <1>4, PrepareStep, CheckStep, ShareStartsStep, ShareEndsStep, RequestStep, ServerRowStep
     DEF Work
<1>5. CASE Deliver
  BY <1>5, DeliverStep
<1>6. CASE UNCHANGED vars
  BY <1>6 DEF vars, Inv, JobsInv, RowsInv, TypeOK, PostedState, RowState, EchoState, Stays
<1> QED
  BY <1>1, <1>2, <1>3, <1>4, <1>5, <1>6 DEF Next

LEMMA InvAlways == Spec => []Inv
  BY InvInit, InvNext, PTL DEF Spec

(***************************************************************************)
(* The theorems.                                                           *)
(***************************************************************************)
\* The variables have their types, and a result that waits is of a job that was sent.
THEOREM TypeCorrect == Spec => []TypeOK
<1>1. Inv => TypeOK
  BY DEF Inv, JobsInv
<1> QED
  BY <1>1, InvAlways, PTL

(***************************************************************************)
(* ChatView::doSend and its siblings share the room's key before they send *)
(* an encrypted event (chat_view.cpp), for any number of workers that      *)
(* check, share and send at once: the server has none of a room whose key  *)
(* was not shared, except when the job's own attempt to share it failed.   *)
(***************************************************************************)
THEOREM KeySharedFirst == Spec => []KeyBeforeMessage
<1>1. Inv => KeyBeforeMessage
  BY JobFacts DEF KeyBeforeMessage, KeyState, AnswerState, Job, Keys
<1> QED
  BY <1>1, InvAlways, PTL

(***************************************************************************)
(* What the user sends from the text box or the context menu into a room   *)
(* that the list shows as encrypted never goes out in clear, as long as    *)
(* the decryptor is initialised: the flag of the chat may be out of date,  *)
(* but these callers ask the list too.                                     *)
(***************************************************************************)
THEOREM ListedIsEncrypted == Spec => []EncryptedWhenListed
<1>1. Inv => EncryptedWhenListed
  BY JobFacts DEF EncryptedWhenListed, AnswerState
<1> QED
  BY <1>1, InvAlways, PTL

(***************************************************************************)
(* replaceEcho and appendBack keep a message of the text box from being    *)
(* shown twice, or not at all, whether sync or the answer comes first.     *)
(***************************************************************************)
THEOREM ShownOnce == Spec => []MessageShownOnce
<1>1. ASSUME Inv, NEW i \in DOMAIN jobs, alive, jobs[i].kind = "send",
             jobs[i].stage = "over", ~jobs[i].left
      PROVE  /\ ~Has(i, "echo")
             /\ \/ Cardinality(Find(i, "real") \cup Find(i, "notice")) = 1
                \/ jobs[i].result = "refused" /\ jobs[i].server # "no"
  <2>1. \A form : Has(i, form) <=> Shows(rows, i, form)
    BY DEF Has, Find, Shows
  <2>2. EchoState(i) /\ NoTwins(rows) /\ (Shows(rows, i, "real") => jobs[i].server # "no")
    BY <1>1, JobFacts DEF Inv, RowsInv, Stays, RowState, Forms
  <2>3. jobs[i] \in Job /\ AnswerState(jobs[i], ready)
    BY <1>1, JobFacts
  <2>4. ~Has(i, "echo")
    BY <1>1, <2>1, <2>2 DEF EchoState
  <2>5. ASSUME ~(jobs[i].result = "refused" /\ jobs[i].server # "no")
        PROVE  \E k : Find(i, "real") \cup Find(i, "notice") = {k}
    <3>1. PICK form \in {"real", "notice"}, other \in {"real", "notice"} :
              form # other /\ Shows(rows, i, form) /\ ~Shows(rows, i, other)
      BY <1>1, <2>2, <2>3, <2>5 DEF EchoState, AnswerState, Job, Results, Before
    <3>2. PICK k \in DOMAIN rows : rows[k].job = i /\ rows[k].form = form
      BY <3>1 DEF Shows
    <3>3. Find(i, form) = {k} /\ Find(i, other) = {}
      BY <2>2, <3>1, <3>2 DEF Find, NoTwins, Shows
    <3> QED
      BY <3>1, <3>3
  <2> QED
    BY <2>4, <2>5, FS_Singleton
<1>2. Inv => MessageShownOnce
  BY <1>1 DEF MessageShownOnce
<1> QED
  BY <1>2, InvAlways, PTL

(***************************************************************************)
(* The callbacks of ChatView and of the context menu do not look at the    *)
(* room that is open; still the timeline has a row of another room's       *)
(* message only when its callback ran after the user had left that room.   *)
(***************************************************************************)
THEOREM ForeignRowsLate == Spec => []ForeignRowsAreLate
<1>1. ASSUME Inv, NEW k \in DOMAIN rows
      PROVE  jobs[rows[k].job].room # open =>
                 jobs[rows[k].job].left /\ jobs[rows[k].job].stage = "over"
  <2>1. rows \in Seq(Row) /\ rows[k] \in Row
    BY <1>1, LenProperties, ElementOfSeq DEF Inv, JobsInv, TypeOK
  <2>2. Shows(rows, rows[k].job, rows[k].form)
    BY DEF Shows
  <2>3. RowState(rows[k].job, rows[k].form)
    BY <1>1, <2>1, <2>2 DEF Inv, RowsInv, Row
  <2> QED
    BY <2>3 DEF RowState
<1>2. Inv => ForeignRowsAreLate
  BY <1>1 DEF ForeignRowsAreLate
<1> QED
  BY <1>2, InvAlways, PTL
=============================================================================
