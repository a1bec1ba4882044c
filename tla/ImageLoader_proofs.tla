--------------------------- MODULE ImageLoader_proofs ---------------------------
(***************************************************************************)
(* Theorems about ImageLoader, for any window, any images and any limits   *)
(* of the caches, however downloads, paints and uploads interleave.        *)
(***************************************************************************)
EXTENDS ImageLoader, SequenceLemmas

(***************************************************************************)
(* The inductive invariant.                                                *)
(***************************************************************************)
\* The kinds that are never fetched: painting them records a reason.
Malformed == {"noiv", "encvideo"}

\* Who waits is in the window and waits for what it asked for.
WaitInv == \A u \in Urls : \A p \in waiting[u] :
               p \in Present /\ Items[p].fetch = u /\ Items[p].kind \notin Malformed

\* One download of an image at a time, which ends before the next begins, and of
\* no image that is there.
InPool(u)   == \E job \in pool : job.url = u
InPosted(u) == \E k \in DOMAIN posted : posted[k].url = u

FlightInv ==
    /\ \A job, other \in pool : job.url = other.url => job = other
    /\ \A k, l \in DOMAIN posted : posted[k].url = posted[l].url => k = l
    /\ \A u \in Urls : ~(InPool(u) /\ InPosted(u))
    /\ \A u \in Urls : waiting[u] # {} <=> InPool(u) \/ InPosted(u)
    /\ \A u \in Urls : waiting[u] # {} => ~Cached(u)

\* An image that is there has no reason left.
ReasonInv == \A u \in Urls : Cached(u) => ~reason[u]

Inv == TypeOK /\ WaitInv /\ FlightInv /\ ReasonInv

(***************************************************************************)
(* The operators.                                                          *)
(***************************************************************************)
\* A hit changes the order of the cache only.
LEMMA TouchedCached ==
    ASSUME TypeOK, NEW u \in Urls, Cached(u)
    PROVE  /\ Touched(u) \in Seq(Urls) /\ IsInjective(Touched(u))
           /\ ToSet(Touched(u)) = ToSet(cache) /\ Len(Touched(u)) <= CacheMax
<1> DEFINE rest == RemoveFirst(cache, u)
<1>1. cache \in Seq(Urls) /\ IsInjective(cache) /\ Len(cache) <= CacheMax /\ Len(cache) \in Nat
  BY LenProperties DEF TypeOK
<1>2. /\ rest \in Seq(Urls) /\ IsInjective(rest) /\ ToSet(rest) = ToSet(cache) \ {u}
      /\ Len(rest) = Len(cache) - 1
  BY <1>1, RemoveFirstProperties DEF Cached
<1> HIDE DEF rest
<1>3. /\ <<u>> \o rest \in Seq(Urls) /\ IsInjective(<<u>> \o rest)
      /\ ToSet(<<u>> \o rest) = ToSet(rest) \cup {u} /\ Len(<<u>> \o rest) = Len(rest) + 1
  BY <1>2, PrependProperties
<1>4. Touched(u) = <<u>> \o rest
  BY DEF Touched, rest
<1>5. ToSet(cache) = (ToSet(cache) \ {u}) \cup {u}
  BY DEF Cached
<1>6. Len(cache) - 1 + 1 <= CacheMax
  BY <1>1, LimitAssumption
<1> QED
  BY <1>2, <1>3, <1>4, <1>5, <1>6

\* A new image enters, and drives out at most the least recently used one.
LEMMA InsertedNew ==
    ASSUME TypeOK, NEW u \in Urls, ~Cached(u)
    PROVE  /\ Inserted(u) \in Seq(Urls) /\ IsInjective(Inserted(u))
           /\ ToSet(Inserted(u)) \subseteq ToSet(cache) \cup {u}
           /\ Len(Inserted(u)) <= CacheMax
<1> DEFINE more == Touched(u)
<1>1. cache \in Seq(Urls) /\ IsInjective(cache) /\ Len(cache) <= CacheMax /\ Len(cache) \in Nat
  BY LenProperties DEF TypeOK
<1>2. RemoveFirst(cache, u) = cache
  BY <1>1, LenProperties DEF RemoveFirst, Cached, ToSet
<1>3. /\ more \in Seq(Urls) /\ IsInjective(more) /\ ToSet(more) = ToSet(cache) \cup {u}
      /\ Len(more) = Len(cache) + 1 /\ more # <<>>
  BY <1>1, <1>2, PrependProperties, EmptySeq DEF Touched, Cached
<1>4. Inserted(u) = IF Len(more) > CacheMax THEN Front(more) ELSE more
  BY DEF Inserted
<1>5. CacheMax \in Nat
  BY LimitAssumption
<1> HIDE DEF more
<1>6. CASE Len(more) > CacheMax
  BY <1>1, <1>3, <1>4, <1>5, <1>6, FrontProperties
<1>7. CASE ~(Len(more) > CacheMax)
  BY <1>1, <1>3, <1>4, <1>5, <1>7
<1> QED
  BY <1>6, <1>7

\* What the negative cache does to the reasons: only the failed image may get one.
LEMMA MarkFailedFacts ==
    ASSUME TypeOK, NEW u \in Urls, MarkFailed(u)
    PROVE  /\ failed' \in [Urls -> {"no", "cooling", "expired"}] /\ reason' \in [Urls -> BOOLEAN]
           /\ \A v \in Urls \ {u} : /\ reason'[v] => reason[v]
                                    /\ failed'[v] \in {"no", failed[v]}
                                    /\ failed'[v] # "no" => reason'[v] = reason[v]
           /\ failed'[u] = "cooling" => reason'[u] \/ u \in fresh
           /\ u \in fresh => UNCHANGED <<failed, reason>>
<1> USE DEF TypeOK
<1>1. CASE u \in fresh
  BY <1>1 DEF MarkFailed, Exempt
<1>2. CASE u \notin fresh /\ failed' = [v \in Urls |-> "no"] /\ reason' = [v \in Urls |-> FALSE]
  BY <1>2
<1>3. CASE /\ u \notin fresh /\ failed' = [failed EXCEPT ![u] = "cooling"]
           /\ reason' = [reason EXCEPT ![u] = TRUE]
  BY <1>3
<1> QED
  BY <1>1, <1>2, <1>3 DEF MarkFailed, Exempt

LEMMA DropExpiredFacts ==
    ASSUME TypeOK, NEW u \in Urls, DropExpired(u)
    PROVE  /\ failed' \in [Urls -> {"no", "cooling", "expired"}] /\ reason' \in [Urls -> BOOLEAN]
           /\ \A v \in Urls \ {u} : reason'[v] = reason[v] /\ failed'[v] = failed[v]
           /\ reason'[u] => reason[u]
           /\ IF u \notin fresh /\ failed[u] = "expired"
              THEN failed'[u] = "no"
              ELSE UNCHANGED <<failed, reason>>
  BY DEF TypeOK, DropExpired, Expired, Exempt

LEMMA ItemFacts ==
    ASSUME NEW p \in Places
    PROVE  /\ Items[p] \in Item /\ Items[p].mxc \in Urls /\ Items[p].fetch \in Urls
           /\ Items[p].kind # "thumb" => Items[p].fetch = Items[p].mxc
<1>1. Items[p] \in Item
  BY ItemsAssumption, LenProperties, ElementOfSeq DEF Places
<1> QED
  BY <1>1, ItemsAssumption DEF Item, Places

\* Only what is in the window is painted again.
LEMMA RepaintsPresent ==
    ASSUME NEW p \in Present
    PROVE  Repaints(p) \subseteq Present
  BY DEF Repaints

(***************************************************************************)
(* Painting.                                                               *)
(***************************************************************************)
\* What painting place p may do to the loader: nothing, find image u, record that
\* u cannot be fetched, or ask for it.
Idle     == UNCHANGED loader
Hit(u)   == Cached(u) /\ cache' = Touched(u) /\ UNCHANGED <<failed, reason, waiting, pool>>
Marks(p) == /\ Items[p].kind \in Malformed /\ ~Cached(Items[p].mxc)
            /\ MarkFailed(Items[p].mxc) /\ UNCHANGED <<cache, waiting, pool>>
Asks(p)  == LET u == Items[p].fetch
            IN  /\ Items[p].kind \notin Malformed /\ ~Cached(u) /\ ~CoolingDown(u)
                /\ DropExpired(u)
                /\ \E job \in Download : job.url = u /\ BeginFetch(p, job)
                /\ UNCHANGED cache

LoaderStep(p) == Idle \/ Hit(Items[p].mxc) \/ Hit(Items[p].fetch) \/ Marks(p) \/ Asks(p)

LEMMA FetchCases ==
    ASSUME NEW p \in Present, Items[p].kind # "encvideo", Fetch(p)
    PROVE  LoaderStep(p) /\ dirty' \subseteq dirty \cup Present
<1> DEFINE u   == Items[p].fetch
           job == [url |-> u, encrypted |-> Items[p].kind \in {"encrypted", "thumb"},
                   preview |-> Items[p].kind = "video"]
<1>1. p \in Places
  BY DEF Present
<1>2. job \in Download /\ job.url = u
  BY <1>1, ItemFacts DEF Download
<1>3. dirty' \subseteq dirty \cup Present
  BY RepaintsPresent DEF Fetch
<1>4. CASE Cached(u)
  BY <1>3, <1>4 DEF Fetch, LoaderStep, Hit
<1>5. CASE ~Cached(u) /\ Items[p].kind = "noiv"
  BY <1>1, <1>3, <1>5, ItemFacts DEF Fetch, LoaderStep, Marks, Malformed
<1>6. CASE ~Cached(u) /\ Items[p].kind # "noiv" /\ CoolingDown(u)
  BY <1>3, <1>6 DEF Fetch, LoaderStep, Idle
<1>7. CASE ~Cached(u) /\ Items[p].kind # "noiv" /\ ~CoolingDown(u)
  <2>1. DropExpired(u) /\ BeginFetch(p, job) /\ UNCHANGED cache
    BY <1>7 DEF Fetch
  <2> HIDE DEF job
  <2>2. Asks(p)
    BY <1>2, <1>7, <2>1 DEF Asks, Malformed
  <2> QED
    BY <1>3, <2>2 DEF LoaderStep
<1> QED
  BY <1>3, <1>4, <1>5, <1>6, <1>7

LEMMA PaintCases ==
    ASSUME TypeOK, NEW p \in Places, Paint(p)
    PROVE  /\ LoaderStep(p) /\ p \in Present
           /\ dirty' \subseteq Present /\ Present' = Present
           /\ screen' \in [Places -> {"never", "absent", "blank", "image", "loading", "reason"}]
           /\ pending' \subseteq Urls
           /\ UNCHANGED <<posted, fresh, uploaded, fuel>>
<1>1. p \in dirty /\ p \in Present /\ UNCHANGED <<posted, fresh, uploaded, fuel>>
  BY DEF Paint, TypeOK
<1>2. /\ screen' = [screen EXCEPT ![p] = screen'[p]]
      /\ screen'[p] \in {"image", "loading", "reason"}
  BY <1>1 DEF Paint, PaintImage, PaintPlaceholder, PaintAvatar, TypeOK
<1>3. /\ screen' \in [Places -> {"never", "absent", "blank", "image", "loading", "reason"}]
      /\ Present' = Present
  BY <1>1, <1>2 DEF Present, TypeOK
<1>4. pending' \subseteq Urls
  BY ItemFacts DEF Paint, PaintImage, PaintPlaceholder, PaintAvatar, TypeOK
<1>5. LoaderStep(p) /\ dirty' \subseteq dirty \cup Present
  <2>1. CASE PaintImage(p)
    BY <2>1 DEF PaintImage, LoaderStep, Hit
  <2>2. CASE PaintPlaceholder(p) /\ Items[p].kind = "encvideo"
    BY <2>2 DEF PaintPlaceholder, LoaderStep, Marks, Malformed
  <2>3. CASE PaintPlaceholder(p) /\ Items[p].kind # "encvideo"
    BY <1>1, <2>3, FetchCases DEF PaintPlaceholder
  <2>4. CASE PaintAvatar(p)
    BY <1>1, <2>4, FetchCases DEF PaintAvatar, LoaderStep, Idle
  <2> QED
    BY <2>1, <2>2, <2>3, <2>4 DEF Paint
<1> QED
  BY <1>1, <1>3, <1>4, <1>5 DEF TypeOK

\* The rest of the state after a paint, and what the steps on the loader use.
Painted == /\ dirty' \subseteq Present /\ Present' = Present
           /\ screen' \in [Places -> {"never", "absent", "blank", "image", "loading", "reason"}]
           /\ pending' \subseteq Urls
           /\ UNCHANGED <<posted, fresh, uploaded, fuel>>

LEMMA HitInv ==
    ASSUME Inv, NEW u \in Urls, Hit(u), Painted
    PROVE  Inv'
<1>1. /\ cache' \in Seq(Urls) /\ IsInjective(cache') /\ ToSet(cache') = ToSet(cache)
      /\ Len(cache') <= CacheMax
  BY TouchedCached DEF Inv, Hit
<1>2. UNCHANGED <<failed, reason, waiting, pool, posted, fresh, uploaded, fuel>>
  BY DEF Hit, Painted
<1>3. TypeOK'
  BY <1>1, <1>2 DEF TypeOK, Inv, Painted
<1>4. WaitInv'
  BY <1>2 DEF WaitInv, Inv, Painted
<1>5. FlightInv' /\ ReasonInv'
  BY <1>1, <1>2 DEF FlightInv, ReasonInv, InPool, InPosted, Cached, Inv
<1> QED
  BY <1>3, <1>4, <1>5 DEF Inv

LEMMA IdleInv ==
    ASSUME Inv, Idle, Painted
    PROVE  Inv'
<1>1. UNCHANGED <<cache, failed, reason, waiting, pool, posted, fresh, uploaded, fuel>>
  BY DEF Idle, loader, Painted
<1>2. TypeOK' /\ WaitInv'
  BY <1>1 DEF TypeOK, WaitInv, Inv, Painted
<1>3. FlightInv' /\ ReasonInv'
  BY <1>1 DEF FlightInv, ReasonInv, InPool, InPosted, Cached, Inv
<1> QED
  BY <1>2, <1>3 DEF Inv

LEMMA MarksInv ==
    ASSUME Inv, NEW p \in Places, Marks(p), Painted
    PROVE  Inv'
<1> DEFINE u == Items[p].mxc
<1>1. u \in Urls /\ ~Cached(u) /\ MarkFailed(u)
  BY ItemFacts DEF Marks
<1>2. UNCHANGED <<cache, waiting, pool, posted, fresh, uploaded, fuel>>
  BY DEF Marks, Painted
<1> HIDE DEF u
<1>3. /\ failed' \in [Urls -> {"no", "cooling", "expired"}] /\ reason' \in [Urls -> BOOLEAN]
      /\ \A v \in Urls \ {u} : reason'[v] => reason[v]
  BY <1>1, MarkFailedFacts DEF Inv
<1>4. TypeOK' /\ WaitInv'
  BY <1>2, <1>3 DEF TypeOK, WaitInv, Inv, Painted
<1>5. FlightInv'
  BY <1>2 DEF FlightInv, InPool, InPosted, Cached, Inv
<1>6. ReasonInv'
  BY <1>1, <1>2, <1>3 DEF ReasonInv, Cached, Inv
<1> QED
  BY <1>4, <1>5, <1>6 DEF Inv

\* The places that ask meanwhile join the download that is under way.
LEMMA AsksInv ==
    ASSUME Inv, NEW p \in Present, Asks(p), Painted
    PROVE  Inv'
<1> DEFINE u == Items[p].fetch
<1>1. u \in Urls /\ p \in Places /\ Items[p].kind \notin Malformed /\ ~Cached(u) /\ DropExpired(u)
  BY ItemFacts DEF Asks, Present
<1>2. UNCHANGED <<cache, posted, fresh, uploaded, fuel>>
  BY DEF Asks, Painted
<1>3. PICK job \in Download : job.url = u /\ BeginFetch(p, job)
  BY DEF Asks
<1>4. waiting \in [Urls -> SUBSET Places] /\ pool \subseteq Download
  BY DEF Inv, TypeOK
<1>5. /\ waiting' = [waiting EXCEPT ![u] = @ \cup {p}]
      /\ pool' = IF waiting[u] = {} THEN pool \cup {job} ELSE pool
  BY <1>3 DEF BeginFetch
<1>6. Items[p].fetch = u
  OBVIOUS
<1> HIDE DEF u
<1>7. /\ failed' \in [Urls -> {"no", "cooling", "expired"}] /\ reason' \in [Urls -> BOOLEAN]
      /\ \A v \in Urls : reason'[v] => reason[v]
  BY <1>1, DropExpiredFacts DEF Inv
<1>8. /\ waiting' \in [Urls -> SUBSET Places] /\ pool' \subseteq Download
      /\ waiting'[u] = waiting[u] \cup {p} /\ \A v \in Urls \ {u} : waiting'[v] = waiting[v]
  BY <1>1, <1>3, <1>4, <1>5
<1>9. TypeOK'
  BY <1>2, <1>7, <1>8 DEF TypeOK, Inv, Painted
<1>10. WaitInv'
  BY <1>1, <1>6, <1>8 DEF WaitInv, Inv, Painted
<1>11. FlightInv'
  <2>1. \A v \in Urls : InPosted(v)' <=> InPosted(v)
    BY <1>2 DEF InPosted
  <2>2. CASE waiting[u] # {}
    BY <1>1, <1>2, <1>5, <1>8, <2>1, <2>2 DEF FlightInv, InPool, InPosted, Cached, Inv
  <2>3. CASE waiting[u] = {}
    <3>1. pool' = pool \cup {job} /\ ~InPool(u) /\ ~InPosted(u)
      BY <1>1, <1>5, <2>3 DEF FlightInv, Inv
    <3>2. \A v \in Urls : InPool(v)' <=> InPool(v) \/ v = u
      BY <1>3, <3>1 DEF InPool
    <3>3. \A one, other \in pool' : one.url = other.url => one = other
      BY <1>3, <3>1 DEF FlightInv, InPool, Inv
    <3> QED
      BY <1>1, <1>2, <1>8, <2>1, <3>1, <3>2, <3>3 DEF FlightInv, Cached, Inv
  <2> QED
    BY <2>2, <2>3
<1>12. ReasonInv'
  BY <1>2, <1>7 DEF ReasonInv, Cached, Inv
<1> QED
  BY <1>9, <1>10, <1>11, <1>12 DEF Inv

LEMMA PaintInv ==
    ASSUME Inv, NEW p \in Places, Paint(p)
    PROVE  Inv'
<1>1. LoaderStep(p) /\ p \in Present /\ Painted
  BY PaintCases DEF Inv, Painted
<1> QED
  BY <1>1, IdleInv, HitInv, MarksInv, AsksInv, ItemFacts DEF LoaderStep

(***************************************************************************)
(* The other steps.                                                        *)
(***************************************************************************)
LEMMA AppearInv ==
    ASSUME Inv, NEW p \in Places, Appear(p)
    PROVE  Inv'
<1> USE DEF Appear, loader
<1>1. Present' = Present \cup {p}
  BY DEF Present, Inv, TypeOK
<1>2. TypeOK'
  BY <1>1 DEF TypeOK, Inv
<1>3. WaitInv'
  BY <1>1 DEF WaitInv, Inv
<1>4. FlightInv' /\ ReasonInv'
  BY DEF FlightInv, ReasonInv, InPool, InPosted, Cached, Inv
<1> QED
  BY <1>2, <1>3, <1>4 DEF Inv

LEMMA ExposeInv ==
    ASSUME Inv, Expose
    PROVE  Inv'
<1> USE DEF Expose, loader
<1>1. TypeOK' /\ WaitInv'
  BY DEF TypeOK, WaitInv, Present, Inv, Steps
<1>2. FlightInv' /\ ReasonInv'
  BY DEF FlightInv, ReasonInv, InPool, InPosted, Cached, Inv
<1> QED
  BY <1>1, <1>2 DEF Inv

LEMMA UploadInv ==
    ASSUME Inv, NEW u \in Urls, Upload(u)
    PROVE  Inv'
<1> USE DEF Upload, Remembered, loader
<1>1. TypeOK' /\ WaitInv'
  BY DEF TypeOK, WaitInv, Present, Inv, Steps
<1>2. FlightInv' /\ ReasonInv'
  BY DEF FlightInv, ReasonInv, InPool, InPosted, Cached, Inv
<1> QED
  BY <1>1, <1>2 DEF Inv

LEMMA CooldownEndsInv ==
    ASSUME Inv, NEW u \in Urls, CooldownEnds(u)
    PROVE  Inv'
<1> USE DEF CooldownEnds
<1>1. TypeOK' /\ WaitInv'
  BY DEF TypeOK, WaitInv, Present, Inv
<1>2. FlightInv' /\ ReasonInv'
  BY DEF FlightInv, ReasonInv, InPool, InPosted, Cached, Inv
<1> QED
  BY <1>1, <1>2 DEF Inv

\* A download ends: it leaves the pool and its result is posted.
Message == [url : Urls, result : Outcomes]

LEMMA WorkerFetchInv ==
    ASSUME Inv, NEW job \in pool, WorkerFetch(job)
    PROVE  Inv'
<1>1. job \in Download /\ job.url \in Urls /\ posted \in Seq(Message)
  BY DEF Inv, TypeOK, Download, Message
<1>2. PICK result \in Results(job) : posted' = Append(posted, [url |-> job.url, result |-> result])
  BY DEF WorkerFetch
<1>3. result \in Outcomes
  BY DEF Results, Status, Outcomes
<1> DEFINE message == [url |-> job.url, result |-> result]
<1>4. message \in Message /\ message.url = job.url
  BY <1>1, <1>3 DEF Message
<1> HIDE DEF message
<1>5. /\ posted' \in Seq(Message) /\ Len(posted') = Len(posted) + 1
      /\ \A k \in 1..Len(posted) : posted'[k] = posted[k]
      /\ posted'[Len(posted) + 1] = message
  BY <1>1, <1>2, <1>4, AppendProperties DEF message
<1>6. /\ Len(posted) \in Nat /\ DOMAIN posted = 1..Len(posted)
      /\ DOMAIN posted' = 1..(Len(posted) + 1)
  BY <1>1, <1>5, LenProperties
<1>7. /\ pool' = pool \ {job}
      /\ UNCHANGED <<cache, failed, reason, waiting, fresh, pending, dirty, screen, uploaded, fuel>>
  BY DEF WorkerFetch
<1>8. TypeOK' /\ WaitInv' /\ ReasonInv'
  BY <1>5, <1>7 DEF TypeOK, WaitInv, ReasonInv, Present, Cached, Inv, Message
<1>9. FlightInv'
  <2>1. InPool(job.url) /\ ~InPosted(job.url)
    BY <1>1 DEF FlightInv, InPool, Inv
  <2>2. \A u \in Urls : InPosted(u)' <=> InPosted(u) \/ u = job.url
    BY <1>4, <1>5, <1>6 DEF InPosted
  <2>3. \A u \in Urls : InPool(u)' <=> InPool(u) /\ u # job.url
    BY <1>7 DEF InPool, FlightInv, Inv
  <2>4. \A k, l \in DOMAIN posted' : posted'[k].url = posted'[l].url => k = l
    <3>1. \A k \in 1..Len(posted) : posted'[k].url # job.url
      BY <1>5, <1>6, <2>1 DEF InPosted
    <3> QED
      BY <1>4, <1>5, <1>6, <3>1 DEF FlightInv, Inv
  <2>5. \A one, other \in pool' : one.url = other.url => one = other
    BY <1>7 DEF FlightInv, Inv
  <2> QED
    BY <1>1, <1>7, <2>1, <2>2, <2>3, <2>4, <2>5 DEF FlightInv, Cached, Inv
<1> QED
  BY <1>8, <1>9 DEF Inv

\* What the callbacks have painted again.
LEMMA CalledBackPresent ==
    ASSUME WaitInv, NEW u \in Urls
    PROVE  CalledBack(u) \subseteq Present
  BY RepaintsPresent DEF CalledBack, WaitInv

LEMMA DeliverInv ==
    ASSUME Inv, Deliver
    PROVE  Inv'
<1>1. posted \in Seq(Message) /\ posted # <<>>
  BY DEF Inv, TypeOK, Deliver, Message
<1>2. /\ Head(posted) = posted[1] /\ 1 \in DOMAIN posted /\ Head(posted) \in Message
      /\ posted' \in Seq(Message) /\ Len(posted) \in Nat \ {0}
      /\ DOMAIN posted = 1..Len(posted) /\ DOMAIN posted' = 1..(Len(posted) - 1)
      /\ \A k \in DOMAIN posted' : posted'[k] = posted[k + 1]
  BY <1>1 DEF Deliver
<1>3. PICK u \in Urls : u = Head(posted).url
  BY <1>2 DEF Message
<1>4. u \in Urls /\ InPosted(u) /\ ~InPool(u) /\ ~Cached(u) /\ waiting[u] # {}
  <2>1. InPosted(u)
    BY <1>2, <1>3 DEF InPosted
  <2> QED
    BY <2>1 DEF FlightInv, Inv
<1>5. /\ waiting' = [waiting EXCEPT ![u] = {}]
      /\ UNCHANGED <<pool, fresh, pending, screen, uploaded, fuel>>
      /\ \/ /\ cache' = Inserted(u) /\ reason' = [reason EXCEPT ![u] = FALSE]
            /\ dirty' = dirty \cup CalledBack(u) /\ UNCHANGED failed
         \/ MarkFailed(u) /\ UNCHANGED <<cache, dirty>>
         \/ reason' = [reason EXCEPT ![u] = TRUE] /\ UNCHANGED <<cache, failed, dirty>>
  BY <1>3 DEF Deliver, ReasonRemoved
<1>6. /\ cache' \in Seq(Urls) /\ IsInjective(cache') /\ Len(cache') <= CacheMax
      /\ ToSet(cache') \subseteq ToSet(cache) \cup {u}
      /\ cache' # cache => reason'[u] = FALSE
  BY <1>4, <1>5, InsertedNew DEF Inv, TypeOK
<1>7. /\ failed' \in [Urls -> {"no", "cooling", "expired"}] /\ reason' \in [Urls -> BOOLEAN]
      /\ \A v \in Urls \ {u} : reason'[v] => reason[v]
      /\ dirty' \subseteq Present
  BY <1>4, <1>5, MarkFailedFacts, CalledBackPresent DEF Inv, TypeOK
<1>8. /\ waiting' \in [Urls -> SUBSET Places] /\ waiting'[u] = {}
      /\ \A v \in Urls \ {u} : waiting'[v] = waiting[v]
  BY <1>4, <1>5 DEF Inv, TypeOK
<1>9. TypeOK'
  BY <1>2, <1>5, <1>6, <1>7, <1>8 DEF TypeOK, Present, Inv, Message
<1>10. WaitInv'
  BY <1>5, <1>8 DEF WaitInv, Present, Inv
<1>11. FlightInv'
  <2>1. \A k \in DOMAIN posted' : k + 1 \in DOMAIN posted /\ k + 1 # 1 /\ k \in Int
    BY <1>2
  <2>2. \A k \in DOMAIN posted : k # 1 => k - 1 \in DOMAIN posted' /\ posted'[k - 1] = posted[k]
    BY <1>2
  <2>3. posted[1].url = u
    BY <1>2, <1>3
  <2>4. \A k, l \in DOMAIN posted : posted[k].url = posted[l].url => k = l
    BY DEF FlightInv, Inv
  <2>5. \A k, l \in DOMAIN posted' : posted'[k].url = posted'[l].url => k = l
    BY <1>2, <2>1, <2>4
  <2>6. ~InPosted(u)'
    BY <1>2, <2>1, <2>3, <2>4 DEF InPosted
  <2>7. \A v \in Urls \ {u} : InPosted(v)' <=> InPosted(v)
    BY <1>2, <2>1, <2>2, <2>3 DEF InPosted
  <2>8. \A v \in Urls : InPool(v)' <=> InPool(v)
    BY <1>5 DEF InPool
  <2>9. \A v \in Urls \ {u} : Cached(v)' => Cached(v)
    BY <1>6 DEF Cached
  <2> QED
    BY <1>4, <1>5, <1>8, <2>5, <2>6, <2>7, <2>8, <2>9 DEF FlightInv, Inv
<1>12. ReasonInv'
  <2>1. Cached(u)' => ~reason'[u]
    BY <1>4, <1>6 DEF Cached
  <2>2. \A v \in Urls \ {u} : Cached(v)' => ~reason'[v]
    BY <1>6, <1>7 DEF Cached, ReasonInv, Inv
  <2> QED
    BY <2>1, <2>2 DEF ReasonInv
<1> QED
  BY <1>9, <1>10, <1>11, <1>12 DEF Inv

LEMMA InitInv == Init => Inv
<1> SUFFICES ASSUME Init
             PROVE  Inv
  OBVIOUS
<1>1. PICK w \in Windows :
          /\ screen = [p \in Places |-> IF p \in w.places THEN "absent" ELSE "never"]
          /\ fuel = w.fuel
  BY DEF Init
<1>2. fuel \in [Steps -> Nat]
  BY <1>1, WindowsAssumption
<1>3. /\ cache \in Seq(Urls) /\ Len(cache) = 0 /\ Len(cache) <= CacheMax /\ DOMAIN cache = {}
      /\ posted \in Seq(Message) /\ DOMAIN posted = {}
  BY EmptySeq, LimitAssumption DEF Init
<1>4. TypeOK
  BY <1>1, <1>2, <1>3 DEF Init, TypeOK, IsInjective, Message
<1>5. WaitInv
  BY DEF Init, WaitInv
<1>6. FlightInv /\ ReasonInv
  BY <1>3 DEF Init, FlightInv, ReasonInv, InPool, InPosted, Cached, ToSet
<1> QED
  BY <1>4, <1>5, <1>6 DEF Inv

LEMMA NextInv == Inv /\ [Next]_vars => Inv'
<1> SUFFICES ASSUME Inv, [Next]_vars
             PROVE  Inv'
  OBVIOUS
<1>1. CASE \E p \in Places : Paint(p)
  BY <1>1, PaintInv
<1>2. CASE \E p \in Places : Appear(p)
  BY <1>2, AppearInv
<1>3. CASE Expose
  BY <1>3, ExposeInv
<1>4. CASE \E job \in pool : WorkerFetch(job)
  BY <1>4, WorkerFetchInv
<1>5. CASE \E u \in Urls : Upload(u)
  BY <1>5, UploadInv
<1>6. CASE \E u \in Urls : CooldownEnds(u)
  BY <1>6, CooldownEndsInv
<1>7. CASE Deliver
  BY <1>7, DeliverInv
<1>8. CASE UNCHANGED vars
  <2>1. TypeOK' /\ WaitInv'
    BY <1>8 DEF vars, TypeOK, WaitInv, Present, Inv
  <2>2. FlightInv' /\ ReasonInv'
    BY <1>8 DEF vars, FlightInv, ReasonInv, InPool, InPosted, Cached, Inv
  <2> QED
    BY <2>1, <2>2 DEF Inv
<1> QED
  BY <1>1, <1>2, <1>3, <1>4, <1>5, <1>6, <1>7, <1>8 DEF Next

LEMMA InvAlways == Spec => []Inv
  BY InitInv, NextInv, PTL DEF Spec

(***************************************************************************)
(* The variables have their types, the cache holds no image twice and      *)
(* keeps its limit, and only what is in the window is due to be painted.   *)
(***************************************************************************)
THEOREM TypeCorrect == Spec => []TypeOK
<1>1. Inv => TypeOK
  BY DEF Inv
<1> QED
  BY <1>1, InvAlways, PTL

(***************************************************************************)
(* Own uploads: until there are more than it keeps, the set has them all.  *)
(***************************************************************************)
UploadsInv == /\ IsFiniteSet(uploaded)
              /\ Cardinality(uploaded) <= FreshMax => fresh = uploaded

LEMMA UploadsKept ==
    ASSUME UploadsInv, NEW u \in Urls, Upload(u)
    PROVE  UploadsInv'
<1>1. /\ uploaded' = uploaded \cup {u} /\ u \notin uploaded
      /\ fresh' = IF Cardinality(fresh \cup {u}) > FreshMax THEN {} ELSE fresh \cup {u}
  BY DEF Upload, Remembered
<1>2. /\ IsFiniteSet(uploaded') /\ Cardinality(uploaded) \in Nat
      /\ Cardinality(uploaded') = Cardinality(uploaded) + 1
  BY <1>1, FS_AddElement, FS_CardinalityType DEF UploadsInv
<1>3. ASSUME Cardinality(uploaded') <= FreshMax PROVE fresh' = uploaded'
  <2>1. FreshMax \in Nat
    BY LimitAssumption
  <2>2. fresh \cup {u} = uploaded'
    BY <1>1, <1>2, <1>3, <2>1 DEF UploadsInv
  <2>3. ~(Cardinality(fresh \cup {u}) > FreshMax)
    BY <1>2, <1>3, <2>1, <2>2
  <2> QED
    BY <1>1, <2>2, <2>3
<1> QED
  BY <1>2, <1>3 DEF UploadsInv

LEMMA UploadsAlways == Spec => []UploadsInv
<1>1. Init => UploadsInv
  BY FS_EmptySet DEF Init, UploadsInv
<1>2. ASSUME UploadsInv, [Next]_vars PROVE UploadsInv'
  <2>1. (\E u \in Urls : Upload(u)) \/ UNCHANGED <<uploaded, fresh>>
    BY <1>2 DEF Next, Paint, Appear, Expose, WorkerFetch, CooldownEnds, Deliver, vars
  <2>2. CASE UNCHANGED <<uploaded, fresh>>
    BY <1>2, <2>2 DEF UploadsInv
  <2> QED
    BY <1>2, <2>1, <2>2, UploadsKept
<1>3. UploadsInv /\ [Next]_vars => UploadsInv'
  BY <1>2
<1> QED
  BY <1>1, <1>3, PTL DEF Spec

\* isFailed never holds of a remembered upload, and beginFetch enters the place.
LEMMA PaintRetriesFresh ==
    ASSUME TypeOK, UploadsInv, NEW q \in Places, Paint(q)
    PROVE  PaintRetries
<1> SUFFICES ASSUME NEW p \in dirty \ dirty', Items[p].kind \in {"room", "image", "encrypted"},
                    Items[p].mxc \in uploaded, Cardinality(uploaded) <= FreshMax,
                    screen'[p] # "image"
             PROVE  waiting'[Items[p].mxc] # {}
  BY DEF PaintRetries
<1>1. p = q /\ p \in Places
  BY DEF Paint, PaintImage, PaintPlaceholder, PaintAvatar, Fetch, TypeOK, Present
<1> DEFINE u == Items[p].mxc
<1>2. Items[p].fetch = u /\ u \in Urls
  BY <1>1, ItemFacts
<1>3. PaintPlaceholder(p) /\ ~Cached(u)
  BY <1>1 DEF Paint, PaintImage, PaintPlaceholder, PaintAvatar, TypeOK
<1>4. Fetch(p)
  BY <1>3 DEF PaintPlaceholder
<1>5. ~CoolingDown(u)
  BY DEF CoolingDown, Exempt, UploadsInv
<1>6. \E job : job.url = u /\ BeginFetch(p, job)
  <2> DEFINE job == [url |-> u, encrypted |-> Items[p].kind \in {"encrypted", "thumb"},
                     preview |-> Items[p].kind = "video"]
  <2>1. BeginFetch(p, job)
    BY <1>2, <1>3, <1>4, <1>5 DEF Fetch
  <2>2. job.url = u
    OBVIOUS
  <2> QED
    BY <2>1, <2>2
<1> QED
  BY <1>2, <1>6 DEF BeginFetch, TypeOK

(***************************************************************************)
(* Painting any file that this process uploaded and that is not there asks *)
(* for it, whatever failed before (image_loader.hpp:24-26), until it has   *)
(* uploaded more files than freshUploadSet keeps (image_loader.cpp:33).    *)
(***************************************************************************)
THEOREM FreshAskedAgain == Spec => FreshRetried
<1>1. ASSUME TypeOK, UploadsInv, [Next]_vars
      PROVE  PaintRetries \/ UNCHANGED vars
  <2>1. CASE \E p \in Places : Paint(p)
    BY <1>1, <2>1, PaintRetriesFresh
  <2>2. CASE dirty \subseteq dirty'
    BY <2>2 DEF PaintRetries
  <2>3. (\E p \in Places : Paint(p)) \/ dirty \subseteq dirty'
    BY <1>1 DEF Next, Appear, Expose, WorkerFetch, Upload, CooldownEnds, Deliver, TypeOK, vars
  <2> QED
    BY <2>1, <2>2, <2>3
<1>2. TypeOK /\ UploadsInv /\ [Next]_vars => [PaintRetries]_vars
  BY <1>1
<1> QED
  BY <1>2, TypeCorrect, UploadsAlways, PTL DEF Spec, FreshRetried

(***************************************************************************)
(* One download at a time: the safety half of SingleFlight.                *)
(***************************************************************************)
\* How many downloads of u there are, read off the invariant.
LEMMA FlightsCount ==
    ASSUME TypeOK, FlightInv, NEW u \in Urls
    PROVE  Flights(u) = IF waiting[u] = {} THEN 0 ELSE 1
<1> DEFINE running == {job \in pool : job.url = u}
           landed  == {k \in DOMAIN posted : posted[k].url = u}
<1>1. waiting[u] # {} <=> InPool(u) \/ InPosted(u)
  BY DEF FlightInv
<1>2. CASE InPool(u)
  <2>1. PICK job \in pool : job.url = u
    BY <1>2 DEF InPool
  <2>2. running = {job} /\ landed = {}
    BY <1>2, <2>1 DEF FlightInv, InPosted
  <2>3. Cardinality(running) = 1 /\ Cardinality(landed) = 0
    BY <2>2, FS_Singleton, FS_EmptySet
  <2> QED
    BY <1>1, <1>2, <2>3 DEF Flights
<1>3. CASE InPosted(u)
  <2>1. PICK k \in DOMAIN posted : posted[k].url = u
    BY <1>3 DEF InPosted
  <2>2. running = {} /\ landed = {k}
    BY <1>3, <2>1 DEF FlightInv, InPool
  <2>3. Cardinality(running) = 0 /\ Cardinality(landed) = 1
    BY <2>2, FS_Singleton, FS_EmptySet
  <2> QED
    BY <1>1, <1>3, <2>3 DEF Flights
<1>4. CASE ~InPool(u) /\ ~InPosted(u)
  <2>1. running = {} /\ landed = {}
    BY <1>4 DEF InPool, InPosted
  <2>2. Cardinality(running) = 0 /\ Cardinality(landed) = 0
    BY <2>1, FS_EmptySet
  <2> QED
    BY <1>1, <1>4, <2>2 DEF Flights
<1> QED
  BY <1>2, <1>3, <1>4

\* So what SingleFlight sees of the downloads of u follows from its gate alone.
FlightOf(u) == CASE Flights(u) = 0 -> "none" [] Flights(u) = 1 -> "one" [] OTHER -> "many"

Mapped == \A u \in Urls : FlightOf(u) = IF waiting[u] = {} THEN "none" ELSE "one"

LEMMA MappedAlways == Spec => []Mapped
<1>1. Inv => Mapped
  BY FlightsCount DEF Inv, Mapped, FlightOf
<1> QED
  BY <1>1, InvAlways, PTL

FlightSteps == \A u \in Urls : Flight(u)!Next \/ UNCHANGED Flight(u)!vars

LEMMA FlightStep == Mapped /\ Mapped' => FlightSteps
<1> SUFFICES ASSUME Mapped, Mapped', NEW u \in Urls
             PROVE  Flight(u)!Next \/ UNCHANGED Flight(u)!vars
  BY DEF FlightSteps
<1>1. (CASE Flights(u) = 0 -> "none" [] Flights(u) = 1 -> "one" [] OTHER -> "many")
          = IF waiting[u] = {} THEN "none" ELSE "one"
  BY DEF Mapped, FlightOf
<1>2. (CASE Flights(u) = 0 -> "none" [] Flights(u) = 1 -> "one" [] OTHER -> "many")'
          = IF waiting'[u] = {} THEN "none" ELSE "one"
  BY DEF Mapped, FlightOf
<1> QED
  BY <1>1, <1>2 DEF Flight!Next, Flight!Depart, Flight!Land, Flight!vars

(***************************************************************************)
(* beginFetch and the callback keep the promise of SingleFlight for every  *)
(* image: the entry of inFlight_ opens and closes with the one download,   *)
(* so nobody asks twice and nobody waits for a download that is not there. *)
(* (That the download lands is liveness, and left to TLC.)                 *)
(***************************************************************************)
THEOREM OneDownload ==
    Spec => /\ \A u \in Urls : Flight(u)!Init
            /\ [][\A u \in Urls : Flight(u)!Next \/ UNCHANGED Flight(u)!vars]_vars
<1>1. Init /\ Mapped => \A u \in Urls : Flight(u)!Init
  BY DEF Init, Mapped, FlightOf, Flight!Init
<1>2. Mapped /\ Mapped' => \A u \in Urls : Flight(u)!Next \/ UNCHANGED Flight(u)!vars
  BY FlightStep DEF FlightSteps
<1> QED
  BY <1>1, <1>2, MappedAlways, PTL DEF Spec

(***************************************************************************)
(* The reasons.                                                            *)
(***************************************************************************)
\* No event that can never be fetched names the file of one that is.
MalformedAlone ==
    \A p, q \in Places : Items[p].kind \in Malformed /\ Items[q].kind \notin Malformed =>
        Items[p].mxc # Items[q].fetch

\* A failure is of an image of the window, is not of a fresh upload and not of
\* one that is on its way, and has its reason while the cooldown lasts.
CoolInv ==
    /\ \A u \in Urls : failed[u] = "cooling" => reason[u]
    /\ \A u \in Urls : waiting[u] # {} => failed[u] = "no"
    /\ \A u \in fresh : failed[u] = "no"
    /\ \A u \in Urls : failed[u] # "no" =>
           \E p \in Present : u \in {Items[p].mxc, Items[p].fetch}

LEMMA CoolInit == Init => CoolInv
  BY DEF Init, CoolInv

LEMMA CoolPaint ==
    ASSUME MalformedAlone, Inv, CoolInv, NEW p \in Places, Paint(p)
    PROVE  CoolInv'
<1>1. /\ LoaderStep(p) /\ p \in Present /\ Present' = Present /\ fresh' = fresh
      /\ fresh \subseteq Urls
  BY PaintCases DEF Inv, TypeOK
<1>2. CASE UNCHANGED <<failed, reason, waiting>>
  BY <1>1, <1>2 DEF CoolInv
<1>3. CASE Marks(p)
  <2> DEFINE u == Items[p].mxc
  <2>1. u \in Urls /\ MarkFailed(u) /\ waiting' = waiting
    BY ItemFacts, <1>3 DEF Marks
  <2>2. waiting[u] = {}
    BY <1>3, <2>1 DEF Marks, WaitInv, Inv, MalformedAlone, Present
  <2>3. u \in {Items[p].mxc, Items[p].fetch}
    OBVIOUS
  <2> HIDE DEF u
  <2>4. /\ \A v \in Urls \ {u} : /\ failed'[v] \in {"no", failed[v]}
                                 /\ failed'[v] # "no" => reason'[v] = reason[v]
        /\ failed'[u] = "cooling" => reason'[u] \/ u \in fresh
        /\ u \in fresh => UNCHANGED <<failed, reason>>
    BY <2>1, MarkFailedFacts DEF Inv
  <2> QED
    BY <1>1, <2>1, <2>2, <2>3, <2>4 DEF CoolInv
<1>4. CASE Asks(p)
  <2> DEFINE u == Items[p].fetch
  <2>1. /\ u \in Urls /\ DropExpired(u) /\ ~CoolingDown(u)
        /\ failed \in [Urls -> {"no", "cooling", "expired"}]
    BY ItemFacts, <1>4 DEF Asks, Inv, TypeOK
  <2>2. \A v \in Urls \ {u} : waiting'[v] = waiting[v]
    BY <1>4 DEF Asks, BeginFetch, Inv, TypeOK
  <2> HIDE DEF u
  <2>3. /\ \A v \in Urls \ {u} : reason'[v] = reason[v] /\ failed'[v] = failed[v]
        /\ IF u \notin fresh /\ failed[u] = "expired"
           THEN failed'[u] = "no"
           ELSE UNCHANGED <<failed, reason>>
    BY <2>1, DropExpiredFacts DEF Inv
  <2>4. failed'[u] = "no"
    BY <2>1, <2>3 DEF CoolingDown, Exempt, CoolInv
  <2> QED
    BY <1>1, <2>1, <2>2, <2>3, <2>4 DEF CoolInv
<1> QED
  BY <1>1, <1>2, <1>3, <1>4 DEF LoaderStep, Idle, Hit, loader

LEMMA CoolDeliver ==
    ASSUME Inv, CoolInv, Deliver
    PROVE  CoolInv'
<1>1. posted \in Seq(Message) /\ posted # <<>> /\ Head(posted) \in Message
  BY HeadTailProperties DEF Inv, TypeOK, Deliver, Message
<1>2. PICK u \in Urls : u = Head(posted).url
  BY <1>1 DEF Message
<1>3. waiting[u] # {}
  <2>1. InPosted(u)
    BY <1>1, <1>2 DEF InPosted
  <2> QED
    BY <2>1 DEF FlightInv, Inv
<1>4. failed[u] = "no" /\ \E p \in Present : u \in {Items[p].mxc, Items[p].fetch}
  BY <1>3 DEF CoolInv, WaitInv, Inv
<1>5. /\ waiting' = [waiting EXCEPT ![u] = {}] /\ UNCHANGED <<fresh, screen>>
      /\ \/ reason' = [reason EXCEPT ![u] = FALSE] /\ UNCHANGED failed
         \/ MarkFailed(u)
         \/ reason' = [reason EXCEPT ![u] = TRUE] /\ UNCHANGED failed
  BY <1>2 DEF Deliver, ReasonRemoved
<1>6. /\ waiting'[u] = {} /\ \A v \in Urls \ {u} : waiting'[v] = waiting[v]
      /\ Present' = Present /\ fresh \subseteq Urls
      /\ failed \in [Urls -> {"no", "cooling", "expired"}] /\ reason \in [Urls -> BOOLEAN]
  BY <1>5 DEF Inv, TypeOK, Present
<1>7. CASE MarkFailed(u)
  BY <1>4, <1>5, <1>6, <1>7, MarkFailedFacts DEF CoolInv, Inv
<1>8. CASE UNCHANGED failed /\ reason' \in {[reason EXCEPT ![u] = TRUE], [reason EXCEPT ![u] = FALSE]}
  BY <1>4, <1>5, <1>6, <1>8 DEF CoolInv
<1> QED
  BY <1>5, <1>7, <1>8

LEMMA CoolNext == MalformedAlone /\ Inv /\ CoolInv /\ [Next]_vars => CoolInv'
<1> SUFFICES ASSUME MalformedAlone, Inv, CoolInv, [Next]_vars
             PROVE  CoolInv'
  OBVIOUS
<1>1. CASE \E p \in Places : Paint(p)
  BY <1>1, CoolPaint
<1>2. CASE \E p \in Places : Appear(p)
  BY <1>2 DEF Appear, CoolInv, Present, loader, Inv, TypeOK
<1>3. CASE Expose
  BY <1>3 DEF Expose, CoolInv, Present, loader
<1>4. CASE \E job \in pool : WorkerFetch(job)
  BY <1>4 DEF WorkerFetch, CoolInv, Present
<1>5. CASE \E u \in Urls : Upload(u)
  BY <1>5 DEF Upload, Remembered, CoolInv, Present, loader
<1>6. CASE \E u \in Urls : CooldownEnds(u)
  BY <1>6 DEF CooldownEnds, CoolInv, Present, Inv, TypeOK
<1>7. CASE Deliver
  BY <1>7, CoolDeliver
<1>8. CASE UNCHANGED vars
  BY <1>8 DEF vars, CoolInv, Present
<1> QED
  BY <1>1, <1>2, <1>3, <1>4, <1>5, <1>6, <1>7, <1>8 DEF Next

(***************************************************************************)
(* failureReason is right (image_loader.cpp:131): an image that is there   *)
(* has no reason left, and one that is not asked for during a cooldown has *)
(* one.  The second half needs that no event without key or iv names the   *)
(* file of another: painting it marks the file as failed while it is       *)
(* downloaded for the other, and the download then takes the reason away   *)
(* and leaves the cooldown.                                                *)
(***************************************************************************)
THEOREM ReasonsMatch == ASSUME MalformedAlone PROVE Spec => []ReasonMatches
<1>1. Inv /\ CoolInv => ReasonMatches
  BY DEF Inv, ReasonInv, CoolInv, ReasonMatches
<1>2. Inv /\ CoolInv /\ [Next]_vars => CoolInv'
  BY CoolNext
<1> QED
  BY <1>1, <1>2, CoolInit, InvAlways, PTL DEF Spec
=============================================================================
