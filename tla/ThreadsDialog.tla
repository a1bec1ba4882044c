---------------------------- MODULE ThreadsDialog ----------------------------
(***************************************************************************)
(* The list of a room's threads: ThreadsDialog, opened by the toolbar      *)
(* (onAllThreads, toggleThreadPanel) and modal until it is closed.         *)
(*                                                                         *)
(* A page of threads takes two workers: one asks for the page, the other,  *)
(* which the first one's callback starts, fetches the preview of every     *)
(* root, and only its callback adds the rows.  Nothing is disabled         *)
(* meanwhile, and the workers hold a plain pointer to the dialog, which    *)
(* lives on the stack of the toolbar's slot.                               *)
(*                                                                         *)
(* A page stands for its threads.  Left out: what a row says.              *)
(***************************************************************************)
EXTENDS Naturals, Sequences, SequencesExt, Functions

CONSTANTS
    PageCounts, \* the numbers of pages a room's threads may have
    Budget      \* bound: clicks, failures

Steps == {"click", "fault"}

\* What the constants are assumed to be.
ConstantsOK == /\ PageCounts \subseteq Nat
               /\ Budget \in [Steps -> Nat]

VARIABLES
    pages,     \* the homeserver: the pages of threads of the room
    list,      \* list_, by page
    nextBatch, \* nextBatch_, the number of a page, 0 if it is empty
    more,      \* moreBtn_ is visible
    status,    \* statusLabel_
    jobs,      \* requests for a page, and previews of a page, under way
    posted,    \* callbacks posted to the dialog
    shown,     \* the dialog exists
    alive,     \* the program runs
    opened,    \* the page of the thread whose view was opened, or 0
    calm,      \* history: no reload or next page was asked for too early
    fuel       \* what is left of Budget

vars == <<pages, list, nextBatch, more, status, jobs, posted, shown, alive, opened, calm, fuel>>

window == <<shown, alive, opened>>

Statuses == {"loading", "found", "none", "noMore", "error"}
Job      == [kind : {"page", "preview"}, page : Nat]
Reply    == [kind : {"page", "preview"}, page : Nat, ok : BOOLEAN]

Spend(step) == fuel[step] > 0 /\ fuel' = [fuel EXCEPT ![step] = @ - 1]

Asked(from) == [kind |-> "page", page |-> from]

Init == /\ pages \in PageCounts
        /\ list = <<>> /\ nextBatch = 0 /\ more = FALSE
        /\ status = "loading" /\ jobs = <<Asked(0)>> /\ posted = <<>>
        /\ shown = TRUE /\ alive = TRUE /\ opened = 0
        /\ calm = TRUE /\ fuel = Budget

-----------------------------------------------------------------------------
(***************************************************************************)
(* The user                                                                *)
(***************************************************************************)
UnderWay(kinds) == \E j \in ToSet(jobs) \cup ToSet(posted) : j.kind \in kinds

LoadThreads(from) == status' = "loading" /\ jobs' = Append(jobs, Asked(from))

\* The button "Load more" stays as it is.
OnRefreshClicked ==
    /\ shown /\ Spend("click")
    /\ nextBatch' = 0 /\ list' = <<>>
    /\ LoadThreads(0)
    /\ calm' = (calm /\ ~UnderWay({"page", "preview"}))
    /\ UNCHANGED <<pages, more, posted, window>>

OnLoadMoreClicked ==
    /\ shown /\ more /\ Spend("click")
    /\ LoadThreads(nextBatch)
    /\ calm' = (calm /\ ~UnderWay({"page"}))
    /\ UNCHANGED <<pages, list, nextBatch, more, posted, window>>

\* exec() returns; the callbacks posted to the dialog go with it.
Leave == shown' = FALSE /\ posted' = <<>>

OnThreadClicked(k) ==
    /\ shown /\ k \in ToSet(list)
    /\ Leave
    /\ opened' = k
    /\ UNCHANGED <<pages, list, nextBatch, more, status, jobs, alive, calm, fuel>>

Close == /\ shown
         /\ Leave
         /\ UNCHANGED <<pages, list, nextBatch, more, status, jobs, alive, opened, calm, fuel>>

-----------------------------------------------------------------------------
(***************************************************************************)
(* Workers and callbacks                                                   *)
(***************************************************************************)
\* A worker that outlives the dialog reads freed memory: the program crashes, or
\* the answer is lost.  A preview that cannot be fetched is a row all the same.
Work(i) ==
    /\ i \in DOMAIN jobs
    /\ jobs' = RemoveAt(jobs, i)
    /\ \E ok \in BOOLEAN :
           /\ IF ok THEN UNCHANGED fuel ELSE jobs[i].kind = "page" /\ Spend("fault")
           /\ IF shown THEN /\ posted' = Append(posted, [kind |-> jobs[i].kind,
                                                         page |-> jobs[i].page, ok |-> ok])
                            /\ UNCHANGED alive
              ELSE alive' \in BOOLEAN /\ UNCHANGED posted
    /\ UNCHANGED <<pages, list, nextBatch, more, status, shown, opened, calm>>

\* Without a token the server answers with the first page.
Requested(from) == IF from = 0 THEN 1 ELSE from

\* The server has no token after the last page, or one for a page without threads.
NextTokens(k) == IF k < pages THEN {k + 1} ELSE IF k = pages /\ k > 0 THEN {0, k + 1} ELSE {0}

\* The previews of a page of roots.  MUTANT: the first page's are always fetched.
PreviewFirst(k) == Append(jobs, [kind |-> "preview", page |-> 1])

Preview(k) == Append(jobs, [kind |-> "preview", page |-> k])

\* The first callback: the rows come with the previews.
OnPage(from, ok) ==
    LET k == Requested(from)
    IN  \/ /\ ~ok
           /\ status' = "error"
           /\ UNCHANGED <<nextBatch, more, jobs>>
        \/ /\ ok
           /\ nextBatch' \in NextTokens(k)
           /\ more' = (nextBatch' # 0)
           /\ IF k > pages
              THEN status' = (IF list = <<>> THEN "none" ELSE "noMore") /\ UNCHANGED jobs
              ELSE status' = "found" /\ jobs' = Preview(k)

Deliver ==
    /\ posted # <<>> /\ posted' = Tail(posted)
    /\ LET p == Head(posted)
       IN  \/ p.kind = "page" /\ OnPage(p.page, p.ok) /\ UNCHANGED list
           \/ /\ p.kind = "preview"
              /\ list' = Append(list, p.page)
              /\ UNCHANGED <<nextBatch, more, status, jobs>>
    /\ UNCHANGED <<pages, window, calm, fuel>>

Next == /\ alive
        /\ \/ OnRefreshClicked \/ OnLoadMoreClicked \/ Close \/ Deliver
           \/ \E k \in 1..pages : OnThreadClicked(k)
           \/ \E i \in DOMAIN jobs : Work(i)

Spec == Init /\ [][Next]_vars

-----------------------------------------------------------------------------
(***************************************************************************)
(* Properties                                                              *)
(***************************************************************************)
TypeOK == /\ pages \in PageCounts
          /\ list \in Seq(1..pages)
          /\ nextBatch \in 0..(pages + 1)
          /\ status \in Statuses
          /\ jobs \in Seq(Job) /\ posted \in Seq(Reply)
          /\ opened \in 0..pages
          /\ {more, shown, alive, calm} \subseteq BOOLEAN
          /\ fuel \in [Steps -> Nat]

(***************************************************************************)
(* When all has come, every thread is listed once: those before the token, *)
(* or all when there is none -- if the user never reloads while rows are   *)
(* under way, nor asks for the next page before the last one has come.     *)
(* The previews of two pages may come in either order.                     *)
(***************************************************************************)
ThreadsListed ==
    calm /\ shown /\ jobs = <<>> /\ posted = <<>> /\ status # "error" =>
        /\ IsInjective(list)
        /\ ToSet(list) = 1..(IF nextBatch \in 1..pages THEN nextBatch - 1 ELSE pages)
=============================================================================
