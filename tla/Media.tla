-------------------------------- MODULE Media --------------------------------
(***************************************************************************)
(* Opening an attachment: a click in the timeline, AttachmentHandler, and  *)
(* the ImageViewerDialog.                                                  *)
(*                                                                         *)
(* The whole file is downloaded by a worker; an image is shown in a viewer *)
(* and kept in a cache, another file is written to a temporary file and    *)
(* given to the desktop.  Viewers and message boxes are modal and run an   *)
(* event loop, so an answer may open one over another.                     *)
(*                                                                         *)
(* Left out: zooming, file names, the reasons of a failure (ImageLoader    *)
(* has those of the thumbnails).                                           *)
(***************************************************************************)
EXTENDS Naturals, Sequences, FiniteSets, SequencesExt, Selection

CONSTANTS
    Images, Files,
    Broken,   \* images that cannot be decoded
    CacheMax, \* the cost of fullImageCache
    Budget    \* bound: clicks, failures

Steps == {"click", "fault"}

\* What the constants are assumed to be.
ConstantsOK == /\ Images \cap Files = {} /\ Broken \subseteq Images
               /\ CacheMax \in Nat \ {0}
               /\ Budget \in [Steps -> Nat]

VARIABLES
    jobs,    \* downloads under way
    posted,  \* callbacks posted to the handler
    cache,   \* fullImageCache, the image that was used last first
    windows, \* viewers and message boxes that are open, the innermost last
    saved,   \* images saved, or opened, from a viewer
    clicked, \* history: clicks on attachments
    told,    \* history: viewers, boxes and files opened
    fuel     \* what is left of Budget

vars == <<jobs, posted, cache, windows, saved, clicked, told, fuel>>

Media    == Images \cup Files
Outcomes == {"viewer", "warning"}

Spend(step) == fuel[step] > 0 /\ fuel' = [fuel EXCEPT ![step] = @ - 1]

Init == /\ jobs = <<>> /\ posted = <<>> /\ cache = <<>> /\ windows = <<>> /\ saved = {}
        /\ clicked = 0 /\ told = 0
        /\ fuel = Budget

-----------------------------------------------------------------------------
Show(kind, m) == /\ windows' = Append(windows, [kind |-> kind, of |-> m])
                 /\ told' = told + 1

\* The cache's object and insert make m the last used; the least used go.
Used(m) == LET all == <<m>> \o Selected(cache, {i \in DOMAIN cache : cache[i] # m})
           IN  SubSeq(all, 1, IF Len(all) > CacheMax THEN CacheMax ELSE Len(all))

\* openAttachment: an image in the cache is shown at once.
OpenAttachment(m) ==
    /\ windows = <<>> /\ Spend("click")
    /\ clicked' = clicked + 1
    /\ IF m \in ToSet(cache)
       THEN Show("viewer", m) /\ cache' = Used(m) /\ UNCHANGED jobs
       ELSE jobs' = Append(jobs, m) /\ UNCHANGED <<cache, windows, told>>
    /\ UNCHANGED <<posted, saved>>

Work(i) ==
    /\ i \in DOMAIN jobs
    /\ jobs' = RemoveAt(jobs, i)
    /\ \E ok \in BOOLEAN : /\ posted' = Append(posted, [of |-> jobs[i], ok |-> ok])
                           /\ IF ok THEN UNCHANGED fuel ELSE Spend("fault")
    /\ UNCHANGED <<cache, windows, saved, clicked, told>>

\* A file is opened by the desktop, unless the temporary file cannot be made.
OnFile(p) ==
    /\ \/ p.ok /\ told' = told + 1 /\ UNCHANGED <<windows, fuel>>
       \/ p.ok /\ Spend("fault") /\ Show("warning", p.of)
       \/ ~p.ok /\ Show("warning", p.of) /\ UNCHANGED fuel
    /\ UNCHANGED cache

\* An image.  MUTANT: a download that failed is not told.
OnImageSilently(p) ==
    /\ IF p.ok /\ p.of \notin Broken
       THEN Show("viewer", p.of) /\ cache' = Used(p.of)
       ELSE IF p.ok THEN Show("warning", p.of) /\ UNCHANGED cache
            ELSE UNCHANGED <<windows, told, cache>>
    /\ UNCHANGED fuel

OnImage(p) ==
    /\ IF p.ok /\ p.of \notin Broken
       THEN Show("viewer", p.of) /\ cache' = Used(p.of)
       ELSE Show("warning", p.of) /\ UNCHANGED cache
    /\ UNCHANGED fuel

Deliver ==
    /\ posted # <<>> /\ posted' = Tail(posted)
    /\ IF Head(posted).of \in Files THEN OnFile(Head(posted)) ELSE OnImage(Head(posted))
    /\ UNCHANGED <<jobs, saved, clicked>>

\* The innermost window is closed; a viewer's image may be saved before.
Close == /\ windows # <<>>
         /\ windows' = Front(windows)
         /\ UNCHANGED <<jobs, posted, cache, saved, clicked, told, fuel>>

SaveAs == /\ windows # <<>> /\ Last(windows).kind = "viewer"
          /\ saved' = saved \cup {Last(windows).of}
          /\ UNCHANGED <<jobs, posted, cache, windows, clicked, told, fuel>>

Next == \/ \E m \in Media : OpenAttachment(m)
        \/ \E i \in DOMAIN jobs : Work(i)
        \/ Deliver \/ Close \/ SaveAs

Spec == Init /\ [][Next]_vars

-----------------------------------------------------------------------------
(***************************************************************************)
(* Properties                                                              *)
(***************************************************************************)
TypeOK == /\ jobs \in Seq(Media)
          /\ posted \in Seq([of : Media, ok : BOOLEAN])
          /\ ToSet(cache) \subseteq Images \ Broken /\ Len(cache) <= CacheMax
          /\ windows \in Seq([kind : Outcomes, of : Media])
          /\ saved \subseteq Images
          /\ {clicked, told} \subseteq Nat
          /\ fuel \in [Steps -> Nat]

(***************************************************************************)
(* Every click on an attachment ends in exactly one viewer, message box or *)
(* file given to the desktop: none is lost, however the downloads overlap. *)
(***************************************************************************)
EveryClickIsAnswered == clicked = told + Len(jobs) + Len(posted)
=============================================================================
