----------------------------- MODULE ImageLoader -----------------------------
(***************************************************************************)
(* ImageLoader and the painters that ask it for images.                    *)
(*                                                                         *)
(* Painting a place of the window (an avatar, a picture in a bubble) whose *)
(* image is not cached asks the loader for it.  The loader downloads an    *)
(* image once for all who ask meanwhile, remembers for a while that a      *)
(* download failed, and calls everyone back on the UI thread; a callback   *)
(* that got an image has the place painted again, which finds it cached.   *)
(*                                                                         *)
(* The sizes asked for are left out (the cache ignores them), and so are   *)
(* the lengths of the cooldowns, the wording of the reasons, the members   *)
(* that no code in src/ calls (fetchMovie) and a loader without a client:  *)
(* MainWindow sets the client before anything is on screen.                *)
(***************************************************************************)
EXTENDS Naturals, Sequences, FiniteSets, SequencesExt

CONSTANTS
    Urls,      \* mxc URLs
    Items,     \* the places a window may have, top to bottom
    CacheMax,  \* imageCache_.maxCost(): PrefsDialog::imageCacheSize
    FreshMax,  \* limit of the set of fresh uploads
    FailedMax, \* kMaxFailedEntries
    Windows    \* the places of a window, and bounds: uploads of this process
               \* and repaints of the window

(***************************************************************************)
(* What is drawn at a place: a row of the room list ("room"), a sender's   *)
(* avatar ("avatar"), a picture ("image") or the preview of a video        *)
(* ("video") sent in clear, a picture whose file is encrypted              *)
(* ("encrypted"), one whose event also has an encrypted thumbnail          *)
(* ("thumb"), one whose event lacks the iv ("noiv"), an encrypted video    *)
(* without a thumbnail ("encvideo").  A place shows the image of mxc;      *)
(* fetch is the URL it asks for, which is another one for "thumb" only.    *)
(***************************************************************************)
Kinds == {"room", "avatar", "image", "video", "encrypted", "thumb", "noiv", "encvideo"}
Media == Kinds \ {"room", "avatar"}
Item  == [kind : Kinds, mxc : Urls, fetch : Urls]

Steps == {"upload", "expose"}

ASSUME ItemsAssumption ==
    /\ Items \in Seq(Item)
    /\ \A p \in DOMAIN Items : Items[p].kind # "thumb" => Items[p].fetch = Items[p].mxc
ASSUME LimitAssumption == {CacheMax, FreshMax, FailedMax} \subseteq Nat \ {0}
ASSUME WindowsAssumption ==
    Windows \subseteq [places : SUBSET DOMAIN Items, fuel : [Steps -> Nat]]

VARIABLES
    cache,    \* imageCache_: URLs, the least recently used last
    failed,   \* failedUntil_: no entry, still cooling down, or expired
    reason,   \* failedReason_ has an entry
    waiting,  \* inFlight_: the places that wait; {} is no entry
    pool,     \* downloads the thread pool has
    posted,   \* results posted to the UI thread
    fresh,    \* freshUploadSet
    pending,  \* TimelineDelegate::pendingFetches_
    dirty,    \* places that Qt is going to paint
    screen,   \* what the last paint drew there
    uploaded, \* history: the URLs that this process uploaded
    fuel      \* what is left of the window's bounds

vars == <<cache, failed, reason, waiting, pool, posted, fresh, pending, dirty,
          screen, uploaded, fuel>>

loader == <<cache, failed, reason, waiting, pool>>

Places  == DOMAIN Items
Present == {p \in Places : screen[p] \notin {"absent", "never"}}
Cached(u) == u \in ToSet(cache)

Outcomes == {"image", "http", "other"}
Download == [url : Urls, encrypted : BOOLEAN, preview : BOOLEAN]

-----------------------------------------------------------------------------
(***************************************************************************)
(* The LRU cache (QCache)                                                  *)
(***************************************************************************)
\* QCache::object: a hit becomes the most recently used.
Touched(u) == <<u>> \o RemoveFirst(cache, u)

\* QCache::insert drops the least recently used at the limit.  MUTANT: nothing is evicted.
InsertedWithoutLimit(u) == Touched(u)

Inserted(u) == IF Len(Touched(u)) > CacheMax THEN Front(Touched(u)) ELSE Touched(u)

-----------------------------------------------------------------------------
(***************************************************************************)
(* The negative cache                                                      *)
(***************************************************************************)
\* A URL that this process uploaded is exempt, while the set has it.
Exempt(u) == u \in fresh

CoolingDown(u) == ~Exempt(u) /\ failed[u] = "cooling"
Expired(u)     == ~Exempt(u) /\ failed[u] = "expired"

\* ImageLoader::markFailed.
MarkFailed(u) ==
    IF Exempt(u) THEN UNCHANGED <<failed, reason>>
    ELSE LET entries == {v \in Urls : failed[v] # "no"} \cup {u}
         IN  IF Cardinality(entries) > FailedMax
             THEN /\ failed' = [v \in Urls |-> "no"]
                  /\ reason' = [v \in Urls |-> FALSE]
             ELSE /\ failed' = [failed EXCEPT ![u] = "cooling"]
                  /\ reason' = [reason EXCEPT ![u] = TRUE]

\* The entry that isFailed drops when its time is over.
DropExpired(u) ==
    IF Expired(u)
    THEN failed' = [failed EXCEPT ![u] = "no"] /\ reason' = [reason EXCEPT ![u] = FALSE]
    ELSE UNCHANGED <<failed, reason>>

-----------------------------------------------------------------------------
(***************************************************************************)
(* Asking for an image                                                     *)
(***************************************************************************)
\* The places a callback of place p has painted again when it gets an image:
\* the room's row; the first timeline row with that avatar; every timeline row
\* with that picture (TimelineModel::imageLoaded).
Repaints(p) ==
    LET same == {q \in Present : Items[q].mxc = Items[p].mxc}
    IN  CASE Items[p].kind = "room"   -> {p}
          [] Items[p].kind = "avatar" ->
                {q \in same : /\ Items[q].kind = "avatar"
                              /\ \A o \in same : Items[o].kind = "avatar" => q <= o}
          [] OTHER -> {q \in same : Items[q].kind \in Media}

\* ImageLoader::beginFetch.  MUTANT: it does not look for a fetch under way.
AlwaysFetch(p, job) ==
    /\ waiting' = [waiting EXCEPT ![job.url] = @ \cup {p}]
    /\ pool' = pool \cup {job}

BeginFetch(p, job) ==
    /\ waiting' = [waiting EXCEPT ![job.url] = @ \cup {p}]
    /\ pool' = IF waiting[job.url] = {} THEN pool \cup {job} ELSE pool

\* fetchThumbnail and fetchEncryptedThumbnail, called while p is painted.  A
\* cached image is handed over at once: the place is due to be painted again.
Fetch(p) ==
    LET u   == Items[p].fetch
        job == [url |-> u, encrypted |-> Items[p].kind \in {"encrypted", "thumb"},
                preview |-> Items[p].kind = "video"]
    IN  \/ /\ Cached(u)
           /\ cache' = Touched(u)
           /\ dirty' = (dirty \ {p}) \cup Repaints(p)
           /\ UNCHANGED <<failed, reason, waiting, pool>>
        \/ /\ ~Cached(u) /\ Items[p].kind = "noiv"
           /\ MarkFailed(u)
           /\ dirty' = dirty \ {p}
           /\ UNCHANGED <<cache, waiting, pool>>
        \/ /\ ~Cached(u) /\ Items[p].kind # "noiv" /\ CoolingDown(u)
           /\ dirty' = dirty \ {p}
           /\ UNCHANGED loader
        \/ /\ ~Cached(u) /\ Items[p].kind # "noiv" /\ ~CoolingDown(u)
           /\ DropExpired(u)
           /\ BeginFetch(p, job)
           /\ dirty' = dirty \ {p}
           /\ UNCHANGED cache

-----------------------------------------------------------------------------
(***************************************************************************)
(* The UI thread paints                                                    *)
(***************************************************************************)
\* The image is cached: it is drawn.
PaintImage(p) ==
    /\ Cached(Items[p].mxc)
    /\ cache' = Touched(Items[p].mxc)
    /\ screen' = [screen EXCEPT ![p] = "image"]
    /\ dirty' = dirty \ {p}
    /\ UNCHANGED <<failed, reason, waiting, pool, pending>>

\* A placeholder in the room list or the bubble: the reason is read before the
\* image is asked for.  An encrypted video is never asked for.
PaintPlaceholder(p) ==
    LET u == Items[p].mxc
    IN  /\ ~Cached(u)
        /\ Items[p].kind # "avatar"
        /\ screen' = [screen EXCEPT ![p] = IF reason[u] /\ Items[p].kind \in Media
                                              THEN "reason" ELSE "loading"]
        /\ IF Items[p].kind = "encvideo"
           THEN MarkFailed(u) /\ dirty' = dirty \ {p} /\ UNCHANGED <<cache, waiting, pool>>
           ELSE Fetch(p)
        /\ UNCHANGED pending

\* drawBubbleAvatar.  The callback erases the URL from a copy of the set it was
\* entered in.
PaintAvatar(p) ==
    LET u == Items[p].mxc
    IN  /\ ~Cached(u)
        /\ Items[p].kind = "avatar"
        /\ screen' = [screen EXCEPT ![p] = "loading"]
        /\ IF u \in pending
           THEN dirty' = dirty \ {p} /\ UNCHANGED <<loader, pending>>
           ELSE pending' = pending \cup {u} /\ Fetch(p)

Paint(p) ==
    /\ p \in dirty
    /\ PaintImage(p) \/ PaintPlaceholder(p) \/ PaintAvatar(p)
    /\ UNCHANGED <<posted, fresh, uploaded, fuel>>

\* A room, a message or its sender appears in the window.
Appear(p) ==
    /\ screen[p] = "absent"
    /\ screen' = [screen EXCEPT ![p] = "blank"]
    /\ dirty' = dirty \cup {p}
    /\ UNCHANGED <<loader, posted, fresh, pending, uploaded, fuel>>

\* The window is scrolled, resized or uncovered.
Expose ==
    /\ fuel["expose"] > 0
    /\ fuel' = [fuel EXCEPT !["expose"] = @ - 1]
    /\ dirty' = Present
    /\ UNCHANGED <<loader, posted, fresh, pending, screen, uploaded>>

-----------------------------------------------------------------------------
(***************************************************************************)
(* Downloads and uploads on the thread pool                                *)
(***************************************************************************)
\* What a download may yield.  An answer is an image, data that is no image,
\* an HTTP error, or no answer.  The second request, for the whole file, is made
\* when the thumbnail was no image; its status counts only if it failed.
Answers == {"image", "data", "error", "none"}

Status(answer) == IF answer = "error" THEN "http"
                  ELSE IF answer = "image" THEN "image" ELSE "other"

Results(job) ==
    IF job.encrypted \/ job.preview
    THEN {Status(a) : a \in Answers}
    ELSE {IF a = "image" THEN "image"
          ELSE IF b = "data" THEN Status(a) ELSE Status(b) : a \in Answers, b \in Answers}

WorkerFetch(job) ==
    /\ job \in pool
    /\ pool' = pool \ {job}
    /\ \E result \in Results(job) :
           posted' = Append(posted, [url |-> job.url, result |-> result])
    /\ UNCHANGED <<cache, failed, reason, waiting, fresh, pending, dirty, screen, uploaded, fuel>>

\* Beyond the limit the whole set is dropped, the new entry included.
\* MUTANT: at the limit.
RememberedBelow(u) == IF Cardinality(fresh \cup {u}) >= FreshMax THEN {} ELSE fresh \cup {u}

Remembered(u) == IF Cardinality(fresh \cup {u}) > FreshMax THEN {} ELSE fresh \cup {u}

\* markMxcFreshUpload, on the worker that uploaded a file and before its message
\* exists.  The homeserver gives every file a URL of its own.
Upload(u) ==
    /\ fuel["upload"] > 0
    /\ u \notin uploaded
    /\ \A p \in Present : u \notin {Items[p].mxc, Items[p].fetch}
    /\ \E p \in Places : screen[p] = "absent" /\ u \in {Items[p].mxc, Items[p].fetch}
    /\ fuel' = [fuel EXCEPT !["upload"] = @ - 1]
    /\ fresh' = Remembered(u)
    /\ uploaded' = uploaded \cup {u}
    /\ UNCHANGED <<loader, posted, pending, dirty, screen>>

\* The cooldown of a failed download is over.
CooldownEnds(u) ==
    /\ failed[u] = "cooling"
    /\ failed' = [failed EXCEPT ![u] = "expired"]
    /\ UNCHANGED <<cache, reason, waiting, pool, posted, fresh, pending, dirty, screen,
                   uploaded, fuel>>

-----------------------------------------------------------------------------
(***************************************************************************)
(* The result on the UI thread                                             *)
(***************************************************************************)
\* failedReason_.remove on success.  MUTANT: the reason stays.
KeepReason(u) == reason

ReasonRemoved(u) == [reason EXCEPT ![u] = FALSE]

\* What the callers do with the image.  MUTANT: only one of them is called.
OneCalledBack(u) == Repaints(CHOOSE p \in waiting[u] : TRUE)

CalledBack(u) == UNION {Repaints(p) : p \in waiting[u]}

Deliver ==
    /\ posted # <<>>
    /\ LET u      == Head(posted).url
           result == Head(posted).result
       IN  /\ waiting' = [waiting EXCEPT ![u] = {}]
           /\ \/ /\ result = "image"
                 /\ cache' = Inserted(u)
                 /\ reason' = ReasonRemoved(u)
                 /\ dirty' = dirty \cup CalledBack(u)
                 /\ UNCHANGED failed
              \/ /\ result = "http"
                 /\ MarkFailed(u)
                 /\ UNCHANGED <<cache, dirty>>
              \/ /\ result = "other"
                 /\ reason' = [reason EXCEPT ![u] = TRUE]
                 /\ UNCHANGED <<cache, failed, dirty>>
    /\ posted' = Tail(posted)
    /\ UNCHANGED <<pool, fresh, pending, screen, uploaded, fuel>>

-----------------------------------------------------------------------------
Init ==
    /\ cache = <<>>
    /\ failed = [u \in Urls |-> "no"]
    /\ reason = [u \in Urls |-> FALSE]
    /\ waiting = [u \in Urls |-> {}]
    /\ pool = {} /\ posted = <<>>
    /\ fresh = {} /\ pending = {}
    /\ dirty = {} /\ uploaded = {}
    /\ \E w \in Windows :
           /\ screen = [p \in Places |-> IF p \in w.places THEN "absent" ELSE "never"]
           /\ fuel = w.fuel

Next ==
    \/ \E p \in Places : Paint(p)
    \/ \E p \in Places : Appear(p)
    \/ Expose
    \/ \E job \in pool : WorkerFetch(job)
    \/ \E u \in Urls : Upload(u)
    \/ \E u \in Urls : CooldownEnds(u)
    \/ Deliver

Spec == Init /\ [][Next]_vars

\* Qt paints what is due, requests end (they time out), and the event loop
\* runs what was posted.
Fairness ==
    /\ \A p \in Places : WF_vars(Paint(p))
    /\ \A job \in Download : WF_vars(WorkerFetch(job))
    /\ WF_vars(Deliver)

FairSpec == Spec /\ Fairness

-----------------------------------------------------------------------------
(***************************************************************************)
(* Properties                                                              *)
(***************************************************************************)
\* The type invariant; the cache holds no image twice and keeps its limit.
TypeOK ==
    /\ cache \in Seq(Urls) /\ Len(cache) <= CacheMax /\ IsInjective(cache)
    /\ failed \in [Urls -> {"no", "cooling", "expired"}]
    /\ reason \in [Urls -> BOOLEAN]
    /\ waiting \in [Urls -> SUBSET Places]
    /\ pool \subseteq Download
    /\ posted \in Seq([url : Urls, result : Outcomes])
    /\ fresh \subseteq uploaded /\ uploaded \subseteq Urls /\ pending \subseteq Urls
    /\ dirty \subseteq Present
    /\ screen \in [Places -> {"never", "absent", "blank", "image", "loading", "reason"}]
    /\ fuel \in [Steps -> Nat]

\* What failureReason tells of an image is right: an image that is there has no
\* reason left (image_loader.cpp:131), and one that is not asked for during a
\* cooldown has one.
ReasonMatches ==
    \A u \in Urls : /\ Cached(u) => ~reason[u]
                    /\ failed[u] = "cooling" => reason[u]

\* Downloads under way for u: with the pool, or posted and not delivered.
Flights(u) == Cardinality({job \in pool : job.url = u})
              + Cardinality({k \in DOMAIN posted : posted[k].url = u})

\* For each image the loader keeps the promise of SingleFlight: the entry of
\* inFlight_ is there exactly while one download is under way, so nobody waits
\* for a download that does not exist, and every download calls back.
Flight(u) == INSTANCE SingleFlight WITH
    gate   <- waiting[u] = {},
    flight <- CASE Flights(u) = 0 -> "none" [] Flights(u) = 1 -> "one" [] OTHER -> "many"

FetchIsSingleFlight ==
    /\ \A u \in Urls : Flight(u)!Init
    /\ [][\A u \in Urls : Flight(u)!Next \/ UNCHANGED Flight(u)!vars]_vars
    /\ \A u \in Urls : Flight(u)!AlwaysLands

\* Painting a picture that this process uploaded and that is not there asks for
\* it again, whatever failed before (image_loader.hpp:24-26), as long as the
\* process has not uploaded more files than the set of fresh uploads keeps.  Then
\* the set is emptied (image_loader.cpp:33): what fails after it waits, like any
\* other image, until its cooldown ends.
PaintRetries ==
    \A p \in dirty \ dirty' :
        (/\ Items[p].kind \in {"room", "image", "encrypted"}
         /\ Items[p].mxc \in uploaded /\ Cardinality(uploaded) <= FreshMax
         /\ screen'[p] # "image") => waiting'[Items[p].mxc] # {}

FreshRetried == [][PaintRetries]_vars

\* A place that waits for its image shows it in the end, unless the download
\* failed, or the cache is full of other images (it may then be evicted before
\* it is painted).  An own upload that failed waits for the next paint.  Where
\* more images can fail than failures are kept, a failure may be forgotten.
Overfull == Cardinality({Items[p].fetch : p \in {q \in Places : screen[q] # "never"}}) > FailedMax

ShownOrExcused(p) ==
    LET u == Items[p].mxc
    IN  \/ screen[p] = "image"
        \/ reason[Items[p].fetch] \/ u \in fresh
        \/ ~Cached(u) /\ (Len(cache) = CacheMax \/ Overfull)

ImageShown ==
    \A p \in Places : Items[p].kind \in {"room", "image", "video", "encrypted"} =>
        (p \in waiting[Items[p].fetch] ~> ShownOrExcused(p))

\* The same for the encrypted thumbnail of a picture, which the painter prefers
\* to the whole file (timeline_painter.cpp:403-404).
ThumbShown ==
    \A p \in Places : Items[p].kind = "thumb" =>
        (p \in waiting[Items[p].fetch] ~> ShownOrExcused(p))

\* An avatar in pendingFetches_ is being fetched: the callback takes it out
\* (timeline_painter.cpp:118-125).
PendingIsInFlight == \A u \in pending : waiting[u] # {}
=============================================================================
