--------------------------- MODULE Dialogs_proofs ---------------------------
(***************************************************************************)
(* Theorems about the dialogs, attachments and verifications of the main   *)
(* window, for every value of their constants.                             *)
(***************************************************************************)
EXTENDS Dialogs, SequenceLemmas

-----------------------------------------------------------------------------
(***************************************************************************)
(* The events of the open room (TimelineIngest).                           *)
(***************************************************************************)
EventIds == 1..MaxEvents

LogFits ==
    /\ ingLog \in Seq(Ingest!Event) /\ Len(ingLog) <= MaxEvents
    /\ \A i \in DOMAIN ingLog :
          /\ ingLog[i].kind \in {"edit", "reaction"} =>
                ingLog[i].to \in DOMAIN ingLog /\ ingLog[ingLog[i].to].kind = "message"
          /\ ingLog[i].kind = "redaction" =>
                ingLog[i].to \in DOMAIN ingLog /\ ingLog[ingLog[i].to].kind # "redaction"

\* An event as it was served, before it was redacted or after.
IsServed(e) ==
    /\ e \in Ingest!Served /\ e.id \in DOMAIN ingLog /\ e.to = ingLog[e.id].to
    /\ e.kind = ingLog[e.id].kind \/ (e.kind = "stripped" /\ e.id \in Ingest!Redacted)

PageFits(page) == /\ page \in Seq(Ingest!Served)
                  /\ \A k \in DOMAIN page : IsServed(page[k])
                  /\ \A k, l \in DOMAIN page : page[k].id = page[l].id => k = l

AnswerFits(a) == /\ a \in Ingest!Answer /\ PageFits(a.page)
                 /\ a.at <= Len(ingLog) + 1 /\ (a.path = "sync" => a.ok)

FlightFits == /\ ingJobs \in Seq(Ingest!Answer) /\ \A i \in DOMAIN ingJobs : AnswerFits(ingJobs[i])
              /\ ingPosted \in Seq(Ingest!Answer)
              /\ \A i \in DOMAIN ingPosted : AnswerFits(ingPosted[i])
              /\ before \in 0..(Len(ingLog) + 1)

\* The rows, each made by one answer, and what came since the room was opened.
RowsFit ==
    /\ ingRows \in Seq(EventIds) /\ \A k, l \in DOMAIN ingRows : ingRows[k] = ingRows[l] => k = l
    /\ shows \in [EventIds -> 0..MaxEvents] /\ ingChips \in [EventIds -> SUBSET EventIds]
    /\ ingCount \in Nat /\ rowAt \in [EventIds -> 0..ingCount]
    /\ cameAt \in [EventIds -> 0..ingCount] /\ onPage \subseteq EventIds
    /\ \A i \in EventIds : /\ Ingest!Has(i) <=> rowAt[i] > 0
                           /\ cameAt[i] > 0 => i \in DOMAIN ingLog

IngestRest ==
    /\ ingTold \in 0..Len(ingLog) /\ ingMore \in [shown : BOOLEAN, enabled : BOOLEAN]
    /\ ingFuel \in [Ingest!Steps -> Nat]

IngestInv == LogFits /\ FlightFits /\ RowsFit /\ IngestRest /\ Ingest!ToldIsShown

\* The parts of a page.
LEMMA ThoseProperties ==
    ASSUME NEW page \in Seq(Ingest!Served), NEW E
    PROVE  /\ Ingest!Those(page, E) \in Seq(Ingest!Served)
           /\ \A n \in DOMAIN Ingest!Those(page, E) :
                  \E k \in DOMAIN page : Ingest!Those(page, E)[n] = page[k] /\ page[k] \in E
           /\ \A k \in DOMAIN page : page[k] \in E =>
                  \E n \in DOMAIN Ingest!Those(page, E) : Ingest!Those(page, E)[n] = page[k]
           /\ (\A k, l \in DOMAIN page : page[k].id = page[l].id => k = l) =>
                  \A n, m \in DOMAIN Ingest!Those(page, E) :
                      Ingest!Those(page, E)[n].id = Ingest!Those(page, E)[m].id => n = m
<1> DEFINE K == {k \in DOMAIN page : page[k] \in E}
<1>1. Ingest!Those(page, E) = Selected(page, K)
  BY DEF Ingest!Those, Ingest!Selected, Selected, Ingest!Rank, Rank,
         Ingest!Cardinality, Cardinality
<1>2. K \subseteq DOMAIN page /\ \A k \in DOMAIN page : k \in K <=> page[k] \in E
  OBVIOUS
<1> HIDE DEF K
<1>3. /\ Selected(page, K) \in Seq(Ingest!Served)
      /\ \A n \in 1..Cardinality(K) : \E i \in K : Selected(page, K)[n] = page[i]
      /\ \A i \in K : \E n \in 1..Cardinality(K) : Selected(page, K)[n] = page[i]
  BY <1>2, SelectedProperties
<1> DEFINE at(n) == CHOOSE i \in K : Rank(K, i) = n
<1>4. \A n \in 1..Cardinality(K) : at(n) \in K /\ Rank(K, at(n)) = n
  <2>1. K \subseteq Nat /\ IsFiniteSet(K)
    BY <1>2, SelectedProperties, LenProperties
  <2> QED
    BY <2>1, RankOnto
<1>10. \A n \in 1..Cardinality(K) : Selected(page, K)[n] = page[at(n)]
  BY DEF Selected
<1> HIDE DEF at
<1>5. DOMAIN Selected(page, K) = 1..Cardinality(K)
  BY DEF Selected
<1>6. ASSUME \A k, l \in DOMAIN page : page[k].id = page[l].id => k = l,
             NEW n \in 1..Cardinality(K), NEW m \in 1..Cardinality(K),
             Selected(page, K)[n].id = Selected(page, K)[m].id
      PROVE  n = m
  BY <1>2, <1>4, <1>6, <1>10
<1>7. \A n \in 1..Cardinality(K) :
          \E k \in DOMAIN page : Selected(page, K)[n] = page[k] /\ page[k] \in E
  BY <1>2, <1>3
<1>8. \A k \in DOMAIN page : page[k] \in E =>
          \E n \in 1..Cardinality(K) : Selected(page, K)[n] = page[k]
  BY <1>2, <1>3
<1>9. /\ \A n \in DOMAIN Selected(page, K) :
             \E k \in DOMAIN page : Selected(page, K)[n] = page[k] /\ page[k] \in E
      /\ \A k \in DOMAIN page : page[k] \in E =>
             \E n \in DOMAIN Selected(page, K) : Selected(page, K)[n] = page[k]
      /\ (\A k, l \in DOMAIN page : page[k].id = page[l].id => k = l) =>
             \A n, m \in DOMAIN Selected(page, K) :
                 Selected(page, K)[n].id = Selected(page, K)[m].id => n = m
  BY <1>5, <1>6, <1>7, <1>8
<1> QED
  BY <1>1, <1>3, <1>9

\* The same for a page that is reversed.
LEMMA ReversedPage ==
    ASSUME NEW page \in Seq(Ingest!Served)
    PROVE  /\ Ingest!Reverse(page) \in Seq(Ingest!Served)
           /\ \A n \in DOMAIN Ingest!Reverse(page) :
                  \E k \in DOMAIN page : Ingest!Reverse(page)[n] = page[k]
           /\ \A k \in DOMAIN page :
                  \E n \in DOMAIN Ingest!Reverse(page) : Ingest!Reverse(page)[n] = page[k]
           /\ (\A k, l \in DOMAIN page : page[k].id = page[l].id => k = l) =>
                  \A n, m \in DOMAIN Ingest!Reverse(page) :
                      Ingest!Reverse(page)[n].id = Ingest!Reverse(page)[m].id => n = m
<1>1. Ingest!Reverse(page) = Reverse(page)
  BY DEF Ingest!Reverse, Reverse
<1>2. /\ Reverse(page) \in Seq(Ingest!Served) /\ DOMAIN Reverse(page) = DOMAIN page
      /\ \A i \in DOMAIN page : /\ Len(page) - i + 1 \in DOMAIN page
                                /\ Reverse(page)[i] = page[Len(page) - i + 1]
                                /\ page[i] = Reverse(page)[Len(page) - i + 1]
  BY ReverseElements
<1>3. \A i, j \in DOMAIN page : Len(page) - i + 1 = Len(page) - j + 1 => i = j
  BY LenProperties
<1>4. ASSUME \A k, l \in DOMAIN page : page[k].id = page[l].id => k = l,
             NEW n \in DOMAIN page, NEW m \in DOMAIN page,
             Reverse(page)[n].id = Reverse(page)[m].id
      PROVE  n = m
  <2>1. Len(page) - n + 1 = Len(page) - m + 1
    BY <1>2, <1>4
  <2> QED
    BY <1>3, <2>1
<1>5. \A n \in DOMAIN page : \E k \in DOMAIN page : Reverse(page)[n] = page[k]
  BY <1>2
<1>6. \A k \in DOMAIN page : \E n \in DOMAIN page : Reverse(page)[n] = page[k]
  BY <1>2
<1> QED
  BY <1>1, <1>2, <1>4, <1>5, <1>6

\* Edits and redactions change the rows they are of, and no others; an edit's text, or none, is
\* what such a row says then.
Touched(m, page) == \E k \in DOMAIN page : page[k].kind \in {"edit", "redaction"} /\ page[k].to = m
Marked(t, m, page) == \/ t = 0
                      \/ \E k \in DOMAIN page : page[k].kind = "edit" /\ page[k].to = m /\ t = page[k].id

LEMMA UpdatedRows ==
    ASSUME NEW s, NEW page \in Seq(Ingest!Served), NEW m \in EventIds
    PROVE  /\ ~Ingest!Has(m) \/ ~Touched(m, page) => Ingest!Updated(s, page)[m] = s[m]
           /\ Ingest!Has(m) /\ Touched(m, page) => Marked(Ingest!Updated(s, page)[m], m, page)
<1> DEFINE marks == {k \in DOMAIN page : page[k].kind \in {"edit", "redaction"} /\ page[k].to = m}
           last  == CHOOSE k \in marks : \A l \in marks : l <= k
<1>1. Ingest!Updated(s, page)[m] =
          IF ~Ingest!Has(m) \/ marks = {} THEN s[m]
          ELSE IF page[last].kind = "edit" THEN page[last].id ELSE 0
  BY DEF Ingest!Updated, Ingest!Ids, EventIds
<1>2. marks # {} => last \in marks
  <2>1. marks \subseteq 1..Len(page) /\ Len(page) \in Nat
    BY LenProperties
  <2> HIDE DEF marks
  <2>2. marks # {} => \E k \in marks : \A l \in marks : l <= k
    BY <2>1, GreatestNumber
  <2> QED
    BY <2>2
<1>3. Touched(m, page) <=> marks # {}
  BY DEF Touched
<1>4. ASSUME last \in marks
      PROVE  Marked(IF page[last].kind = "edit" THEN page[last].id ELSE 0, m, page)
  BY <1>4 DEF Marked
<1> HIDE DEF marks, last
<1> QED
  BY <1>1, <1>2, <1>3, <1>4

LEMMA UpdatedTyped ==
    ASSUME NEW s \in [EventIds -> 0..MaxEvents], NEW page \in Seq(Ingest!Served), MaxEvents \in Nat
    PROVE  Ingest!Updated(s, page) \in [EventIds -> 0..MaxEvents]
<1>1. ASSUME NEW m \in EventIds PROVE Ingest!Updated(s, page)[m] \in 0..MaxEvents
  <2>1. \A k \in DOMAIN page : page[k].id \in 0..MaxEvents
    <3>1. \A k \in DOMAIN page : page[k] \in Ingest!Served
      BY ElementOfSeq, LenProperties
    <3> QED
      BY <3>1 DEF Ingest!Served, Ingest!Ids
  <2> QED
    BY <2>1, UpdatedRows DEF Marked
<1>2. Ingest!Updated(s, page) = [m \in EventIds |-> Ingest!Updated(s, page)[m]]
  BY DEF Ingest!Updated, Ingest!Ids, EventIds
<1> QED
  BY <1>1, <1>2

\* The rows that are added: each event that has none gets one.
LEMMA AddedRows ==
    ASSUME RowsFit, MaxEvents \in Nat, NEW kept \in Seq(Ingest!Served), NEW s \in [EventIds -> 0..MaxEvents],
           \A k, l \in DOMAIN kept : kept[k].id = kept[l].id => k = l,
           NEW back \in BOOLEAN, Ingest!Added(kept, s, back)
    PROVE  /\ ingRows' \in Seq(EventIds)
           /\ \A k, l \in DOMAIN ingRows' : ingRows'[k] = ingRows'[l] => k = l
           /\ \A x : x \in Ingest!ToSet(ingRows') <=>
                  Ingest!Has(x) \/ \E k \in DOMAIN kept : kept[k].id = x
           /\ shows' \in [EventIds -> 0..MaxEvents]
           /\ \A m \in EventIds : Ingest!Has(m) => shows'[m] = s[m]
<1> DEFINE N   == {e \in Ingest!Served : ~Ingest!Has(e.id)}
           new == Ingest!Those(kept, N)
           new_ids == [k \in DOMAIN new |-> new[k].id]
           full == {e.id : e \in {x \in Ingest!ToSet(new) : x.kind # "stripped"}}
<1>1. /\ ingRows' = IF back THEN ingRows \o new_ids ELSE new_ids \o ingRows
      /\ shows' = [i \in EventIds |-> IF i \in full THEN i ELSE s[i]]
  BY DEF Ingest!Added, Ingest!Ids, EventIds
<1>2. /\ new \in Seq(Ingest!Served)
      /\ \A n \in DOMAIN new : \E k \in DOMAIN kept : new[n] = kept[k] /\ kept[k] \in N
      /\ \A k \in DOMAIN kept : kept[k] \in N => \E n \in DOMAIN new : new[n] = kept[k]
      /\ \A n, m \in DOMAIN new : new[n].id = new[m].id => n = m
  <2> HIDE DEF N
  <2> QED
    BY ThoseProperties
<1>3. \A k \in DOMAIN kept : kept[k] \in Ingest!Served /\ kept[k].id \in EventIds
  <2>1. \A k \in DOMAIN kept : kept[k] \in Ingest!Served
    BY ElementOfSeq, LenProperties
  <2> QED
    BY <2>1 DEF Ingest!Served, Ingest!Ids, EventIds
<1>4. \A n \in DOMAIN new : new[n].id \in EventIds /\ ~Ingest!Has(new[n].id)
  BY <1>2, <1>3
<1> HIDE DEF new
<1>5. new_ids \in Seq(EventIds) /\ DOMAIN new_ids = DOMAIN new
  <2>1. DOMAIN new = 1..Len(new) /\ Len(new) \in Nat
    BY <1>2, LenProperties
  <2>2. new_ids \in [1..Len(new) -> EventIds]
    BY <1>4, <2>1
  <2> QED
    BY <2>1, <2>2, SeqDef
<1>6. \A n \in DOMAIN new_ids : new_ids[n] = new[n].id
  OBVIOUS
<1>7. \A x : (\E n \in DOMAIN new_ids : new_ids[n] = x) <=>
             ~Ingest!Has(x) /\ \E k \in DOMAIN kept : kept[k].id = x
  BY <1>2, <1>3, <1>4, <1>5, <1>6
<1>8. \A n, m \in DOMAIN new_ids : new_ids[n] = new_ids[m] => n = m
  BY <1>2, <1>5, <1>6
<1>9. \A x : Ingest!Has(x) <=> \E k \in DOMAIN ingRows : ingRows[k] = x
  BY DEF Ingest!Has, Ingest!ToSet
<1>10. /\ ingRows \in Seq(EventIds)
       /\ \A k, l \in DOMAIN ingRows : ingRows[k] = ingRows[l] => k = l
  BY DEF RowsFit
<1> HIDE DEF new_ids
<1>11. \A k \in DOMAIN ingRows, n \in DOMAIN new_ids : ingRows[k] # new_ids[n]
  BY <1>7, <1>9
<1>16. \A n \in DOMAIN new_ids, k \in DOMAIN ingRows : new_ids[n] # ingRows[k]
  BY <1>11
<1>12. /\ ingRows' \in Seq(EventIds)
       /\ \A k, l \in DOMAIN ingRows' : ingRows'[k] = ingRows'[l] => k = l
       /\ \A x : (\E k \in DOMAIN ingRows' : ingRows'[k] = x) <=>
                 (\E k \in DOMAIN ingRows : ingRows[k] = x) \/ (\E n \in DOMAIN new_ids : new_ids[n] = x)
  <2>1. CASE back
    <3>1. ingRows' = ingRows \o new_ids
      BY <1>1, <2>1
    <3>2. /\ ingRows \o new_ids \in Seq(EventIds)
          /\ \A k, l \in DOMAIN (ingRows \o new_ids) : (ingRows \o new_ids)[k] = (ingRows \o new_ids)[l] => k = l
          /\ \A x : (\E k \in DOMAIN (ingRows \o new_ids) : (ingRows \o new_ids)[k] = x) <=>
                    (\E k \in DOMAIN ingRows : ingRows[k] = x) \/ (\E k \in DOMAIN new_ids : new_ids[k] = x)
      BY <1>5, <1>8, <1>10, <1>11, JoinedDistinct
    <3> QED
      BY <3>1, <3>2
  <2>2. CASE ~back
    <3>1. ingRows' = new_ids \o ingRows
      BY <1>1, <2>2
    <3>2. /\ new_ids \o ingRows \in Seq(EventIds)
          /\ \A k, l \in DOMAIN (new_ids \o ingRows) : (new_ids \o ingRows)[k] = (new_ids \o ingRows)[l] => k = l
          /\ \A x : (\E k \in DOMAIN (new_ids \o ingRows) : (new_ids \o ingRows)[k] = x) <=>
                    (\E k \in DOMAIN new_ids : new_ids[k] = x) \/ (\E k \in DOMAIN ingRows : ingRows[k] = x)
      BY <1>5, <1>8, <1>10, <1>16, JoinedDistinct
    <3> QED
      BY <3>1, <3>2
  <2> QED
    BY <2>1, <2>2
<1>13. \A x : x \in Ingest!ToSet(ingRows') <=> Ingest!Has(x) \/ \E k \in DOMAIN kept : kept[k].id = x
  <2>1. \A x : x \in Ingest!ToSet(ingRows') <=> \E k \in DOMAIN ingRows' : ingRows'[k] = x
    BY DEF Ingest!ToSet
  <2> QED
    BY <1>7, <1>9, <1>12, <2>1
<1>14. \A i \in full : ~Ingest!Has(i) /\ i \in EventIds
  BY <1>4 DEF Ingest!ToSet
<1> HIDE DEF full
<1>15. /\ shows' \in [EventIds -> 0..MaxEvents]
       /\ \A m \in EventIds : Ingest!Has(m) => shows'[m] = s[m]
  <2>1. \A i \in EventIds : i \in 0..MaxEvents
    BY DEF EventIds
  <2> QED
    BY <1>1, <1>14, <2>1
<1> QED
  BY <1>12, <1>13, <1>15

-----------------------------------------------------------------------------
\* An event of the room concerns one that came before it.
FollowsAt(l, i) ==
    /\ l[i].kind \in {"edit", "reaction"} => l[i].to \in DOMAIN l /\ l[l[i].to].kind = "message"
    /\ l[i].kind = "redaction" => l[i].to \in DOMAIN l /\ l[l[i].to].kind # "redaction"

LEMMA FollowsFits ==
    ASSUME NEW l \in Seq(Ingest!Event), NEW i \in DOMAIN l, Ingest!MayFollow(l, i)
    PROVE  FollowsAt(l, i)
<1>1. DOMAIN l = 1..Len(l) /\ Len(l) \in Nat /\ l[i] \in Ingest!Event
  BY LenProperties, ElementOfSeq
<1>2. 1..(i - 1) \subseteq DOMAIN l
  BY <1>1
<1>3. l[i].kind \in {"message", "edit", "reaction", "redaction"}
  BY <1>1 DEF Ingest!Event
<1>4. CASE l[i].kind = "message"
  BY <1>4 DEF FollowsAt
<1>5. CASE l[i].kind \in {"edit", "reaction"}
  <2>1. l[i].to \in {j \in 1..(i - 1) : l[j].kind = "message"}
    BY <1>5 DEF Ingest!MayFollow
  <2> QED
    BY <1>2, <1>5, <2>1 DEF FollowsAt
<1>6. CASE l[i].kind = "redaction"
  <2>1. l[i].to \in 1..(i - 1) \ {j \in 1..(i - 1) : l[j].kind = "redaction"}
    BY <1>6 DEF Ingest!MayFollow
  <2> QED
    BY <1>2, <1>6, <2>1 DEF FollowsAt
<1> QED
  BY <1>3, <1>4, <1>5, <1>6

\* What a page said stays true when the room grows.
LogGrows == /\ Len(ingLog) <= Len(ingLog')
            /\ \A i \in DOMAIN ingLog : i \in DOMAIN ingLog' /\ ingLog'[i] = ingLog[i]

LEMMA PagesKept ==
    ASSUME LogGrows, LogFits, LogFits'
    PROVE  /\ Ingest!Redacted \subseteq Ingest!Redacted'
           /\ \A a : AnswerFits(a) => AnswerFits(a)'
<1>1. Ingest!Redacted \subseteq Ingest!Redacted'
  BY DEF Ingest!Redacted, LogGrows
<1>2. \A e : IsServed(e) => IsServed(e)'
  BY <1>1 DEF IsServed, LogGrows
<1>3. ASSUME NEW a, AnswerFits(a) PROVE AnswerFits(a)'
  <2>1. a.at \in Nat /\ a.at <= Len(ingLog) + 1
    BY <1>3 DEF AnswerFits, Ingest!Answer
  <2>2. a.at <= Len(ingLog') + 1
    <3>1. Len(ingLog) \in Nat /\ Len(ingLog') \in Nat
      BY LenProperties DEF LogFits
    <3> QED
      BY <2>1, <3>1 DEF LogGrows
  <2> QED
    BY <1>2, <1>3, <2>2 DEF AnswerFits, PageFits
<1> QED
  BY <1>1, <1>3

\* The homeserver serves what there is.
LEMMA FromFits ==
    ASSUME LogFits, Ingest!ConstantsOK, NEW i \in Nat \ {0}, NEW j \in 0..Len(ingLog), i <= j + 1
    PROVE  PageFits(Ingest!From(i, j))
<1> DEFINE page == Ingest!From(i, j)
<1>1. /\ ingLog \in Seq(Ingest!Event) /\ DOMAIN ingLog = 1..Len(ingLog) /\ Len(ingLog) \in Nat
      /\ Len(ingLog) <= MaxEvents /\ MaxEvents \in Nat
  BY LenProperties DEF LogFits, Ingest!ConstantsOK
<1>2. ASSUME NEW n \in DOMAIN ingLog PROVE IsServed(Ingest!Serve(n)) /\ Ingest!Serve(n).id = n
  <2>1. ingLog[n] \in Ingest!Event /\ n \in Ingest!Ids
    BY <1>1, ElementOfSeq DEF Ingest!Ids
  <2>2. Ingest!Serve(n) \in Ingest!Served
    BY <2>1 DEF Ingest!Serve, Ingest!Served, Ingest!Event
  <2>3. /\ Ingest!Serve(n).id = n /\ Ingest!Serve(n).to = ingLog[n].to
        /\ \/ Ingest!Serve(n).kind = ingLog[n].kind
           \/ Ingest!Serve(n).kind = "stripped" /\ n \in Ingest!Redacted
    BY DEF Ingest!Serve
  <2> QED
    BY <2>2, <2>3 DEF IsServed
<1>3. page = [k \in 1..(j + 1 - i) |-> Ingest!Serve(i + k - 1)] /\ j + 1 - i \in Nat
  BY DEF Ingest!From
<1>4. \A k \in 1..(j + 1 - i) : i + k - 1 \in DOMAIN ingLog
  BY <1>1
<1> HIDE DEF page
<1>5. \A k \in 1..(j + 1 - i) : IsServed(page[k]) /\ page[k].id = i + k - 1
  BY <1>2, <1>3, <1>4
<1>6. page \in Seq(Ingest!Served) /\ DOMAIN page = 1..(j + 1 - i)
  <2>1. PICK n \in Nat : n = j + 1 - i
    BY <1>3
  <2>2. page \in [1..n -> Ingest!Served]
    BY <1>3, <1>5, <2>1 DEF IsServed
  <2>3. page \in Seq(Ingest!Served)
    BY <2>2, SeqDef
  <2> QED
    BY <2>1, <2>2, <2>3
<1>7. \A k, l \in 1..(j + 1 - i) : i + k - 1 = i + l - 1 => k = l
  OBVIOUS
<1> QED
  BY <1>5, <1>6, <1>7 DEF PageFits, page

\* Reversing a page, as GET /messages does.
LEMMA ReversedFits == ASSUME NEW page, PageFits(page) PROVE PageFits(Ingest!Reverse(page))
<1>1. page \in Seq(Ingest!Served) /\ \A k, l \in DOMAIN page : page[k].id = page[l].id => k = l
  BY DEF PageFits
<1>2. /\ Ingest!Reverse(page) \in Seq(Ingest!Served)
      /\ \A n \in DOMAIN Ingest!Reverse(page) :
             \E k \in DOMAIN page : Ingest!Reverse(page)[n] = page[k]
      /\ \A n, m \in DOMAIN Ingest!Reverse(page) :
             Ingest!Reverse(page)[n].id = Ingest!Reverse(page)[m].id => n = m
  BY <1>1, ReversedPage
<1> QED
  BY <1>2 DEF PageFits

\* Steps that leave the room and the timeline.
LEMMA ShownSame ==
    ASSUME IngestInv,
           UNCHANGED <<ingLog, ingRows, shows, ingChips, ingCount, rowAt, cameAt, onPage>>
    PROVE  LogFits' /\ RowsFit' /\ Ingest!ToldIsShown'
<1>1. LogFits'
  BY DEF IngestInv, LogFits
<1>2. RowsFit'
  BY DEF IngestInv, RowsFit, Ingest!Has, Ingest!ToSet
<1>3. Ingest!ToldIsShown'
  BY DEF IngestInv, Ingest!ToldIsShown, Ingest!Has, Ingest!ToSet, Ingest!Came, Ingest!Found,
         Ingest!Redacted
<1> QED
  BY <1>1, <1>2, <1>3

LEMMA JobsGrow ==
    ASSUME LogFits, FlightFits, UNCHANGED <<ingLog, ingPosted>>, before' \in 0..(Len(ingLog) + 1),
           NEW a, AnswerFits(a), ingJobs' = Append(ingJobs, a)
    PROVE  FlightFits'
<1>1. a \in Ingest!Answer /\ ingJobs \in Seq(Ingest!Answer)
  BY DEF AnswerFits, FlightFits
<1>2. /\ ingJobs' \in Seq(Ingest!Answer)
      /\ \A i \in DOMAIN ingJobs' : (i \in DOMAIN ingJobs /\ ingJobs'[i] = ingJobs[i]) \/ ingJobs'[i] = a
  BY <1>1, AppendElements
<1>3. \A b : AnswerFits(b) => AnswerFits(b)'
  BY DEF AnswerFits, PageFits, IsServed, Ingest!Redacted
<1> QED
  BY <1>2, <1>3 DEF FlightFits

\* A response, a click and an opening of the room.
LEMMA IngestSyncReturn ==
    ASSUME Ingest!ConstantsOK, IngestInv, Ingest!SyncReturn PROVE IngestInv'
<1> DEFINE page == Ingest!From(ingTold + 1, Len(ingLog))
           a    == Ingest!Job("sync", page, 0)
<1>1. /\ ingTold < Len(ingLog) /\ ingTold' = Len(ingLog) /\ ingJobs' = Append(ingJobs, a)
      /\ UNCHANGED <<ingLog, ingRows, shows, ingChips, before, ingMore, ingPosted, ingCount, rowAt,
                     cameAt, onPage, ingFuel>>
  BY DEF Ingest!SyncReturn, Ingest!screen, Ingest!past
<1>2. Len(ingLog) \in Nat /\ ingTold \in 0..Len(ingLog) /\ LogFits /\ FlightFits
  BY LenProperties DEF IngestInv, LogFits, IngestRest
<1>3. PageFits(page)
  <2>1. ingTold + 1 \in Nat \ {0} /\ Len(ingLog) \in 0..Len(ingLog) /\ ingTold + 1 <= Len(ingLog) + 1
    BY <1>1, <1>2
  <2> QED
    BY <1>2, <2>1, FromFits
<1> HIDE DEF page
<1>4. AnswerFits(a)
  <2>1. a.path = "sync" /\ a.ok = TRUE /\ a.page = page /\ a.at = 0
    BY DEF Ingest!Job
  <2>2. page \in Seq(Ingest!Served)
    BY <1>3 DEF PageFits
  <2>3. a \in Ingest!Answer
    BY <2>2 DEF Ingest!Job, Ingest!Answer, Ingest!Paths, Ingest!ConstantsOK
  <2> HIDE DEF a
  <2> QED
    BY <1>2, <1>3, <2>1, <2>3 DEF AnswerFits
<1> HIDE DEF a
<1>5. FlightFits'
  <2>1. before' \in 0..(Len(ingLog) + 1)
    BY <1>1, <1>2 DEF FlightFits
  <2> QED
    BY <1>1, <1>2, <1>4, <2>1, JobsGrow
<1>6. IngestRest'
  BY <1>1, <1>2 DEF IngestInv, IngestRest
<1> QED
  BY <1>1, <1>5, <1>6, ShownSame DEF IngestInv

LEMMA EmptyFits ==
    ASSUME Ingest!ConstantsOK, LogFits, NEW path \in {"history", "older"},
           NEW at \in 0..(Len(ingLog) + 1)
    PROVE  AnswerFits(Ingest!Job(path, <<>>, at))
<1> DEFINE a == Ingest!Job(path, <<>>, at)
<1>1. a.path = path /\ a.ok = TRUE /\ a.page = <<>> /\ a.at = at
  BY DEF Ingest!Job
<1>2. at \in 0..(MaxEvents + 1)
  <2>1. Len(ingLog) \in Nat /\ Len(ingLog) <= MaxEvents /\ MaxEvents \in Nat
    BY LenProperties DEF LogFits, Ingest!ConstantsOK
  <2> QED
    BY <2>1
<1>3. a \in Ingest!Answer
  BY <1>2 DEF Ingest!Job, Ingest!Answer, Ingest!Paths
<1>4. PageFits(<<>>)
  BY DEF PageFits
<1> HIDE DEF a
<1>5. AnswerFits(a)
  BY <1>1, <1>3, <1>4 DEF AnswerFits
<1> QED
  BY <1>5 DEF a

LEMMA IngestLoadMore ==
    ASSUME Ingest!ConstantsOK, IngestInv, Ingest!LoadMore PROVE IngestInv'
<1> DEFINE a == Ingest!Job("older", <<>>, before)
<1>1. /\ ingMore' = [ingMore EXCEPT !.enabled = FALSE] /\ ingJobs' = Append(ingJobs, a)
      /\ UNCHANGED <<ingLog, ingTold, ingRows, shows, ingChips, before, ingPosted, ingCount, rowAt,
                     cameAt, onPage>>
      /\ ingFuel' = [ingFuel EXCEPT !["click"] = @ - 1] /\ ingFuel["click"] > 0
  BY DEF Ingest!LoadMore, Ingest!screen, Ingest!past, Ingest!server, Ingest!Spend
<1>2. LogFits /\ FlightFits /\ before \in 0..(Len(ingLog) + 1)
  BY DEF IngestInv, FlightFits
<1>3. AnswerFits(a)
  BY <1>2, EmptyFits
<1> HIDE DEF a
<1>4. FlightFits'
  BY <1>1, <1>2, <1>3, JobsGrow
<1>5. IngestRest'
  <2>1. ingFuel' \in [Ingest!Steps -> Nat]
    BY <1>1 DEF IngestInv, IngestRest, Ingest!Steps
  <2> QED
    BY <1>1, <2>1 DEF IngestInv, IngestRest
<1> QED
  BY <1>1, <1>4, <1>5, ShownSame DEF IngestInv

\* Nothing has come to a timeline that was cleared.
LEMMA ClearedFits ==
    ASSUME LogFits', MaxEvents \in Nat, ingRows' = <<>>, shows' = [i \in EventIds |-> 0],
           ingChips' = [i \in EventIds |-> {}], rowAt' = [i \in EventIds |-> 0],
           cameAt' = [i \in EventIds |-> 0], onPage' = {}, ingCount' \in Nat
    PROVE  RowsFit' /\ Ingest!ToldIsShown'
<1>1. DOMAIN ingRows' = {} /\ Ingest!ToSet(ingRows') = {} /\ Len(ingRows') = 0
  BY DEF Ingest!ToSet
<1>2. 0 \in 0..MaxEvents /\ 0 \in 0..ingCount'
  OBVIOUS
<1>3. RowsFit'
  BY <1>1, <1>2 DEF RowsFit, Ingest!Has
<1>4. DOMAIN ingLog' \subseteq EventIds
  <2>1. DOMAIN ingLog' = 1..Len(ingLog') /\ Len(ingLog') \in Nat /\ Len(ingLog') <= MaxEvents
    BY LenProperties DEF LogFits
  <2> QED
    BY <2>1 DEF EventIds
<1>5. \A kind : Ingest!Came(kind)' = {}
  BY <1>4 DEF Ingest!Came
<1>6. Ingest!Cardinality(Ingest!ToSet(ingRows')) = 0
  BY <1>1, FS_EmptySet DEF Ingest!Cardinality, Cardinality
<1> QED
  BY <1>1, <1>3, <1>5, <1>6 DEF Ingest!ToldIsShown

LEMMA IngestOpen ==
    ASSUME Ingest!ConstantsOK, IngestInv, Ingest!Open PROVE IngestInv'
<1> DEFINE a == Ingest!Job("history", <<>>, 0)
<1>1. /\ ingMore' = [ingMore EXCEPT !.shown = FALSE] /\ ingJobs' = Append(ingJobs, a)
      /\ UNCHANGED <<ingLog, ingTold, ingPosted, ingCount>> /\ before' = 0
      /\ ingFuel' = [ingFuel EXCEPT !["open"] = @ - 1] /\ ingFuel["open"] > 0
      /\ ingRows' = <<>> /\ shows' = [i \in EventIds |-> 0]
      /\ ingChips' = [i \in EventIds |-> {}] /\ rowAt' = [i \in EventIds |-> 0]
      /\ cameAt' = [i \in EventIds |-> 0] /\ onPage' = {}
  BY DEF Ingest!Open, Ingest!Cleared, Ingest!server, Ingest!Spend, Ingest!Ids, EventIds
<1>2. LogFits /\ FlightFits /\ Len(ingLog) \in Nat /\ MaxEvents \in Nat
  BY LenProperties DEF IngestInv, LogFits, Ingest!ConstantsOK
<1>3. AnswerFits(a)
  <2>1. 0 \in 0..(Len(ingLog) + 1)
    BY <1>2
  <2> QED
    BY <1>2, <2>1, EmptyFits
<1> HIDE DEF a
<1>4. FlightFits'
  <2>1. before' \in 0..(Len(ingLog) + 1)
    BY <1>1, <1>2
  <2> QED
    BY <1>1, <1>2, <1>3, <2>1, JobsGrow
<1>5. IngestRest'
  <2>1. ingFuel' \in [Ingest!Steps -> Nat]
    BY <1>1 DEF IngestInv, IngestRest, Ingest!Steps
  <2> QED
    BY <1>1, <2>1 DEF IngestInv, IngestRest
<1>6. LogFits'
  BY <1>1, <1>2 DEF LogFits
<1>7. RowsFit' /\ Ingest!ToldIsShown'
  BY <1>1, <1>2, <1>6, ClearedFits DEF IngestInv, RowsFit
<1> QED
  BY <1>4, <1>5, <1>6, <1>7 DEF IngestInv

LEMMA IngestInit == Ingest!ConstantsOK /\ Ingest!Init => IngestInv
<1> SUFFICES ASSUME Ingest!ConstantsOK, Ingest!Init PROVE IngestInv
  OBVIOUS
<1> DEFINE a == Ingest!Job("history", <<>>, 0)
<1>1. PICK s \in Starts : ingLog = s.log /\ ingFuel = s.fuel
  BY DEF Ingest!Init
<1>2. /\ ingLog \in Seq(Ingest!Event) /\ Len(ingLog) <= MaxEvents /\ MaxEvents \in Nat
      /\ \A i \in DOMAIN ingLog : Ingest!MayFollow(ingLog, i)
      /\ ingFuel \in [Ingest!Steps -> Nat]
  BY <1>1 DEF Ingest!ConstantsOK
<1>3. DOMAIN ingLog = 1..Len(ingLog) /\ Len(ingLog) \in Nat
  BY <1>2, LenProperties
<1>4. LogFits
  <2>1. ASSUME NEW i \in DOMAIN ingLog
        PROVE  FollowsAt(ingLog, i)
    BY <1>2, <1>3, <2>1, FollowsFits
  <2> QED
    BY <1>2, <2>1 DEF LogFits, FollowsAt
<1>5. /\ ingTold = Len(ingLog) /\ ingRows = <<>> /\ shows = [i \in EventIds |-> 0]
      /\ ingChips = [i \in EventIds |-> {}] /\ before = 0
      /\ ingMore = [shown |-> FALSE, enabled |-> TRUE] /\ ingJobs = <<a>> /\ ingPosted = <<>>
      /\ ingCount = 0 /\ rowAt = [i \in EventIds |-> 0] /\ cameAt = [i \in EventIds |-> 0]
      /\ onPage = {}
  BY DEF Ingest!Init, Ingest!Ids, EventIds
<1>6. FlightFits
  <2>1. 0 \in 0..(Len(ingLog) + 1)
    BY <1>3
  <2>2. AnswerFits(a)
    BY <1>4, <2>1, EmptyFits
  <2>3. a \in Ingest!Answer
    BY <2>2 DEF AnswerFits
  <2> HIDE DEF a
  <2> QED
    BY <1>5, <2>1, <2>2, <2>3 DEF FlightFits
<1>7. IngestRest
  BY <1>2, <1>3, <1>5 DEF IngestRest
<1>8. DOMAIN ingRows = {} /\ Ingest!ToSet(ingRows) = {} /\ Len(ingRows) = 0
  BY <1>5 DEF Ingest!ToSet
<1>9. RowsFit
  BY <1>2, <1>5, <1>8 DEF RowsFit, Ingest!Has
<1>10. \A kind : Ingest!Came(kind) = {}
  BY <1>2, <1>3, <1>5 DEF Ingest!Came, EventIds
<1>11. Ingest!ToldIsShown
  BY <1>8, <1>10, FS_EmptySet DEF Ingest!ToldIsShown, Ingest!Cardinality, Cardinality
<1> QED
  BY <1>4, <1>6, <1>7, <1>9, <1>11 DEF IngestInv

-----------------------------------------------------------------------------
\* An event of the room: it concerns none of the events there are.
LEMMA IngestNewEvent ==
    ASSUME Ingest!ConstantsOK, IngestInv, NEW e \in Ingest!Event, Ingest!NewEvent(e)
    PROVE  IngestInv'
<1>1. /\ Len(ingLog) < MaxEvents /\ ingLog' = Append(ingLog, e)
      /\ Ingest!MayFollow(ingLog', Len(ingLog'))
      /\ UNCHANGED <<ingTold, ingRows, shows, ingChips, before, ingMore, ingJobs, ingPosted, ingCount,
                     rowAt, cameAt, onPage>>
      /\ ingFuel' = [ingFuel EXCEPT !["news"] = @ - 1] /\ ingFuel["news"] > 0
  BY DEF Ingest!NewEvent, Ingest!screen, Ingest!past, Ingest!Spend
<1>2. /\ ingLog \in Seq(Ingest!Event) /\ DOMAIN ingLog = 1..Len(ingLog) /\ Len(ingLog) \in Nat
      /\ Len(ingLog) <= MaxEvents /\ MaxEvents \in Nat
      /\ \A i \in DOMAIN ingLog : FollowsAt(ingLog, i)
  BY LenProperties DEF IngestInv, LogFits, Ingest!ConstantsOK, FollowsAt
<1>3. /\ ingLog' \in Seq(Ingest!Event) /\ Len(ingLog') = Len(ingLog) + 1
      /\ DOMAIN ingLog' = 1..(Len(ingLog) + 1) /\ \A i \in DOMAIN ingLog : ingLog'[i] = ingLog[i]
  BY <1>1, <1>2, AppendProperties
<1>4. LogGrows
  BY <1>2, <1>3 DEF LogGrows
<1>5. LogFits'
  <2>1. FollowsAt(ingLog', Len(ingLog'))
    <3>1. PICK l : l = ingLog'
      OBVIOUS
    <3>2. l \in Seq(Ingest!Event) /\ Len(l) \in DOMAIN l /\ Ingest!MayFollow(l, Len(l))
      BY <1>1, <1>2, <1>3, <3>1
    <3> QED
      BY <3>1, <3>2, FollowsFits
  <2>2. \A i \in DOMAIN ingLog : FollowsAt(ingLog', i)
    BY <1>2, <1>3 DEF FollowsAt
  <2>3. \A i \in DOMAIN ingLog' : i \in DOMAIN ingLog \/ i = Len(ingLog')
    BY <1>2, <1>3
  <2>4. \A i \in DOMAIN ingLog' : FollowsAt(ingLog', i)
    BY <2>1, <2>2, <2>3
  <2>5. Len(ingLog') <= MaxEvents
    BY <1>1, <1>2, <1>3
  <2> QED
    BY <1>3, <2>4, <2>5 DEF LogFits, FollowsAt
<1>6. /\ Ingest!Redacted \subseteq Ingest!Redacted'
      /\ \A a : AnswerFits(a) => AnswerFits(a)'
  BY <1>4, <1>5, PagesKept DEF IngestInv
<1>7. FlightFits'
  <2>1. before' \in 0..(Len(ingLog') + 1)
    BY <1>1, <1>2, <1>3 DEF IngestInv, FlightFits
  <2>2. FlightFits
    BY DEF IngestInv
  <2> QED
    BY <1>1, <1>6, <2>1, <2>2 DEF FlightFits
<1>8. RowsFit'
  BY <1>1, <1>4 DEF IngestInv, RowsFit, LogGrows, Ingest!Has, Ingest!ToSet
<1>9. IngestRest'
  <2>1. ingFuel' \in [Ingest!Steps -> Nat]
    BY <1>1 DEF IngestInv, IngestRest, Ingest!Steps
  <2> QED
    BY <1>1, <1>2, <1>3, <2>1 DEF IngestInv, IngestRest
<1>10. ASSUME NEW kind, NEW i \in Ingest!Came(kind)'
       PROVE  i \in Ingest!Came(kind) /\ i \in DOMAIN ingLog /\ ingLog'[i] = ingLog[i]
  <2>1. i \in DOMAIN ingLog' /\ cameAt[i] > 0 /\ ingLog'[i].kind = kind
    BY <1>1, <1>10 DEF Ingest!Came
  <2>2. i \in EventIds
    BY <1>1, <1>2, <1>3, <2>1 DEF EventIds
  <2>3. i \in DOMAIN ingLog
    BY <2>1, <2>2 DEF IngestInv, RowsFit
  <2> QED
    BY <1>3, <2>1, <2>3 DEF Ingest!Came
<1>11. Ingest!ToldIsShown'
  <2>1. \A i : Ingest!Has(i)' = Ingest!Has(i)
    BY <1>1 DEF Ingest!Has, Ingest!ToSet
  <2>2. \A i \in DOMAIN ingLog : Ingest!Found(i)' = Ingest!Found(i)
    BY <1>1, <1>3 DEF Ingest!Found
  <2>3. (Ingest!Cardinality(Ingest!ToSet(ingRows)) = Len(ingRows))'
    BY <1>1 DEF IngestInv, Ingest!ToldIsShown, Ingest!ToSet
  <2>4. (\A i \in Ingest!Came("message") : Ingest!Has(i))'
    BY <1>10, <2>1 DEF IngestInv, Ingest!ToldIsShown
  <2>5. (\A i \in Ingest!Came("edit") :
            Ingest!Has(i) \/ (Ingest!Found(i) /\ shows[ingLog[i].to] # ingLog[i].to))'
    BY <1>1, <1>10, <2>1, <2>2 DEF IngestInv, Ingest!ToldIsShown
  <2>6. (\A i \in Ingest!Came("redaction") :
            LET says == shows[ingLog[i].to]
            IN  Ingest!Found(i) => says = 0 \/ (says # ingLog[i].to /\ cameAt[says] >= cameAt[i]))'
    BY <1>1, <1>10, <2>2 DEF IngestInv, Ingest!ToldIsShown
  <2>7. (\A i \in Ingest!Came("reaction") \ Ingest!Redacted :
            LET m == ingLog[i].to
            IN  Ingest!Found(i) \/ (rowAt[m] = cameAt[i] /\ i \notin onPage) => i \in ingChips[m])'
    BY <1>1, <1>6, <1>10, <2>2 DEF IngestInv, Ingest!ToldIsShown
  <2> QED
    BY <2>3, <2>4, <2>5, <2>6, <2>7 DEF Ingest!ToldIsShown
<1> QED
  BY <1>5, <1>7, <1>8, <1>9, <1>11 DEF IngestInv

-----------------------------------------------------------------------------
\* What the homeserver answers.
LEMMA AnsweredFits ==
    ASSUME Ingest!ConstantsOK, LogFits, NEW j, AnswerFits(j)
    PROVE  AnswerFits(Ingest!Answered(j))
<1> DEFINE last  == IF j.at = 0 THEN Len(ingLog) ELSE j.at - 1
           first == IF last > PageSize THEN last + 1 - PageSize ELSE 1
           page  == Ingest!Reverse(Ingest!From(first, last))
           at    == IF first > 1 THEN first ELSE last + 1
           a     == [j EXCEPT !.page = page, !.at = at]
<1>1. CASE j.path = "sync"
  BY <1>1 DEF Ingest!Answered
<1>2. CASE j.path # "sync"
  <2>1. Ingest!Answered(j) = a
    BY <1>2 DEF Ingest!Answered
  <2>2. /\ j \in Ingest!Answer /\ j.at \in Nat /\ j.at <= Len(ingLog) + 1
        /\ Len(ingLog) \in Nat /\ Len(ingLog) <= MaxEvents /\ MaxEvents \in Nat
        /\ PageSize \in Nat \ {0}
    BY LenProperties DEF AnswerFits, Ingest!Answer, LogFits, Ingest!ConstantsOK
  <2>3. last \in 0..Len(ingLog)
    BY <2>2
  <2> HIDE DEF last
  <2>4. first \in Nat \ {0} /\ first <= last + 1
    BY <2>2, <2>3
  <2> HIDE DEF first
  <2>5. PageFits(page)
    BY <2>3, <2>4, FromFits, ReversedFits
  <2> HIDE DEF page
  <2>6. at \in 0..(MaxEvents + 1) /\ at <= Len(ingLog) + 1
    BY <2>2, <2>3, <2>4
  <2> HIDE DEF at
  <2>7. a.page = page /\ a.at = at /\ a.path = j.path /\ a.ok = j.ok
    BY <2>2 DEF Ingest!Answer
  <2>8. a \in Ingest!Answer
    BY <2>2, <2>5, <2>6 DEF Ingest!Answer, PageFits
  <2> HIDE DEF a
  <2> QED
    BY <1>2, <2>1, <2>5, <2>6, <2>7, <2>8 DEF AnswerFits
<1> QED
  BY <1>1, <1>2

\* A request is answered, or fails.
LEMMA IngestWork ==
    ASSUME Ingest!ConstantsOK, IngestInv, NEW i \in DOMAIN ingJobs, Ingest!Work(i)
    PROVE  IngestInv'
<1>1. /\ ingJobs' = Ingest!RemoveAt(ingJobs, i)
      /\ UNCHANGED <<ingLog, ingTold, ingRows, shows, ingChips, before, ingMore, ingCount, rowAt,
                     cameAt, onPage>>
  BY DEF Ingest!Work, Ingest!screen, Ingest!past, Ingest!server
<1>2. LogFits /\ FlightFits /\ ingJobs \in Seq(Ingest!Answer) /\ AnswerFits(ingJobs[i])
  BY DEF IngestInv, FlightFits
<1>3. PICK a : AnswerFits(a) /\ ingPosted' = Append(ingPosted, a)
  <2>1. CASE ingPosted' = Append(ingPosted, Ingest!Answered(ingJobs[i]))
    BY <1>2, <2>1, AnsweredFits
  <2>2. CASE /\ ingJobs[i].path # "sync"
             /\ ingPosted' = Append(ingPosted, [ingJobs[i] EXCEPT !.ok = FALSE])
    <3> DEFINE f == [ingJobs[i] EXCEPT !.ok = FALSE]
    <3>1. /\ f \in Ingest!Answer /\ f.path = ingJobs[i].path /\ f.ok = FALSE
          /\ f.page = ingJobs[i].page /\ f.at = ingJobs[i].at
      BY <1>2 DEF AnswerFits, Ingest!Answer
    <3> HIDE DEF f
    <3>2. AnswerFits(f)
      BY <1>2, <2>2, <3>1 DEF AnswerFits
    <3> QED
      BY <2>2, <3>2 DEF f
  <2> QED
    BY <2>1, <2>2 DEF Ingest!Work
<1>4. /\ ingJobs' \in Seq(Ingest!Answer)
      /\ \A l \in DOMAIN ingJobs' : AnswerFits(ingJobs'[l])
  <2>1. ingJobs' = RemoveAt(ingJobs, i)
    BY <1>1 DEF Ingest!RemoveAt, RemoveAt
  <2>2. \A l \in DOMAIN RemoveAt(ingJobs, i) : \E k \in DOMAIN ingJobs : RemoveAt(ingJobs, i)[l] = ingJobs[k]
    BY <1>2, RemoveAtElements
  <2>3. RemoveAt(ingJobs, i) \in Seq(Ingest!Answer)
    BY <1>2, RemoveAtProperties
  <2> QED
    BY <1>2, <2>1, <2>2, <2>3 DEF FlightFits
<1>5. /\ ingPosted' \in Seq(Ingest!Answer)
      /\ \A l \in DOMAIN ingPosted' : AnswerFits(ingPosted'[l])
  <2>1. ingPosted \in Seq(Ingest!Answer) /\ a \in Ingest!Answer
    BY <1>2, <1>3 DEF FlightFits, AnswerFits
  <2>2. /\ ingPosted' \in Seq(Ingest!Answer)
        /\ \A l \in DOMAIN ingPosted' :
              (l \in DOMAIN ingPosted /\ ingPosted'[l] = ingPosted[l]) \/ ingPosted'[l] = a
    BY <1>3, <2>1, AppendElements
  <2> QED
    BY <1>2, <1>3, <2>2 DEF FlightFits
<1>6. FlightFits'
  <2>1. \A b : AnswerFits(b) => AnswerFits(b)'
    BY <1>1 DEF AnswerFits, PageFits, IsServed, Ingest!Redacted
  <2> QED
    BY <1>1, <1>2, <1>4, <1>5, <2>1 DEF FlightFits
<1>7. IngestRest'
  <2>1. ingFuel' \in [Ingest!Steps -> Nat]
    BY DEF IngestInv, IngestRest, Ingest!Steps, Ingest!Work, Ingest!Spend
  <2> QED
    BY <1>1, <2>1 DEF IngestInv, IngestRest
<1> QED
  BY <1>1, <1>6, <1>7, ShownSame DEF IngestInv

-----------------------------------------------------------------------------
\* What an answer does to the rows, whichever of the three paths it takes: rows stay; an event
\* that is to have a row has one; an edit or a redaction reaches the row it finds, and no other
\* row changes; a reaction is put on the row it finds, and on a row of the same answer too,
\* except by a page of older events.
Applied(p) ==
    /\ ingRows' \in Seq(EventIds)
    /\ \A k, l \in DOMAIN ingRows' : ingRows'[k] = ingRows'[l] => k = l
    /\ shows' \in [EventIds -> 0..MaxEvents] /\ ingChips' \in [EventIds -> SUBSET EventIds]
    /\ \A x : Ingest!Has(x) => x \in Ingest!ToSet(ingRows')
    /\ p.ok => \A k \in DOMAIN p.page :
          /\ p.page[k] \in Ingest!Rendered => p.page[k].id \in Ingest!ToSet(ingRows')
          /\ p.page[k].kind = "edit" /\ ~Ingest!Has(p.page[k].to) =>
                p.page[k].id \in Ingest!ToSet(ingRows')
          /\ p.page[k].kind = "reaction" =>
                /\ Ingest!Has(p.page[k].to) => p.page[k].id \in ingChips'[p.page[k].to]
                /\ p.path # "older" /\ p.page[k].to \in Ingest!ToSet(ingRows') =>
                      p.page[k].id \in ingChips'[p.page[k].to]
    /\ \A m \in EventIds :
          /\ ingChips[m] \subseteq ingChips'[m]
          /\ Ingest!Has(m) => shows'[m] = shows[m] \/ (p.ok /\ Marked(shows'[m], m, p.page))
          /\ Ingest!Has(m) /\ p.ok /\ Touched(m, p.page) => Marked(shows'[m], m, p.page)

\* What is kept of a page, in either order.
HoldsKept(kept, page) ==
    /\ kept \in Seq(Ingest!Served)
    /\ \A k, l \in DOMAIN kept : kept[k].id = kept[l].id => k = l
    /\ \A k \in DOMAIN page :
          page[k] \in Ingest!Rendered \/ (page[k].kind = "edit" /\ ~Ingest!Has(page[k].to)) =>
             \E n \in DOMAIN kept : kept[n] = page[k]

LEMMA KeptElements ==
    ASSUME NEW page, PageFits(page)
    PROVE  HoldsKept(Ingest!Kept(page), page) /\ HoldsKept(Ingest!Reverse(Ingest!Kept(page)), page)
<1> DEFINE E == Ingest!Rendered \cup {e \in Ingest!Served : e.kind = "edit" /\ ~Ingest!Has(e.to)}
           those == Ingest!Those(page, E)
<1>1. /\ page \in Seq(Ingest!Served) /\ \A k, l \in DOMAIN page : page[k].id = page[l].id => k = l
      /\ \A k \in DOMAIN page : page[k] \in Ingest!Served
  BY ElementOfSeq, LenProperties DEF PageFits
<1>2. Ingest!Kept(page) = those
  BY DEF Ingest!Kept
<1>3. \A k \in DOMAIN page : page[k] \in E <=>
         page[k] \in Ingest!Rendered \/ (page[k].kind = "edit" /\ ~Ingest!Has(page[k].to))
  BY <1>1
<1> HIDE DEF E
<1>4. /\ those \in Seq(Ingest!Served)
      /\ \A k, l \in DOMAIN those : those[k].id = those[l].id => k = l
      /\ \A k \in DOMAIN page : page[k] \in E => \E n \in DOMAIN those : those[n] = page[k]
  BY <1>1, ThoseProperties
<1> HIDE DEF those
<1>5. /\ Ingest!Reverse(those) \in Seq(Ingest!Served)
      /\ \A k, l \in DOMAIN Ingest!Reverse(those) :
            Ingest!Reverse(those)[k].id = Ingest!Reverse(those)[l].id => k = l
      /\ \A k \in DOMAIN those :
            \E n \in DOMAIN Ingest!Reverse(those) : Ingest!Reverse(those)[n] = those[k]
  BY <1>4, ReversedPage
<1>6. \A k \in DOMAIN page : page[k] \in E =>
         \E n \in DOMAIN Ingest!Reverse(those) : Ingest!Reverse(those)[n] = page[k]
  BY <1>4, <1>5
<1> QED
  BY <1>2, <1>3, <1>4, <1>5, <1>6 DEF HoldsKept

\* The chips an answer adds.
LEMMA ReactedChips ==
    ASSUME RowsFit, NEW page, PageFits(page), NEW there, NEW new, new = Ingest!Reacted(there, page)
    PROVE  /\ new \in [EventIds -> SUBSET EventIds]
           /\ \A m \in EventIds : ingChips[m] \subseteq new[m]
           /\ \A k \in DOMAIN page : page[k].kind = "reaction" /\ page[k].to \in there
                                     /\ page[k].to \in EventIds => page[k].id \in new[page[k].to]
<1> DEFINE of(m) == {e.id : e \in {x \in Ingest!ToSet(page) : x.kind = "reaction" /\ x.to = m}}
<1>1. new = [m \in EventIds |-> ingChips[m] \cup IF m \in there THEN of(m) ELSE {}]
  BY DEF Ingest!Reacted, Ingest!Ids, EventIds
<1>2. \A k \in DOMAIN page : page[k] \in Ingest!Served /\ page[k].id \in EventIds
  <2>1. \A k \in DOMAIN page : page[k] \in Ingest!Served
    BY ElementOfSeq, LenProperties DEF PageFits
  <2> QED
    BY <2>1 DEF Ingest!Served, Ingest!Ids, EventIds
<1>3. \A m : of(m) \subseteq EventIds
  BY <1>2 DEF Ingest!ToSet
<1>4. \A k \in DOMAIN page : page[k].kind = "reaction" => page[k].id \in of(page[k].to)
  BY DEF Ingest!ToSet
<1> HIDE DEF of
<1>5. ingChips \in [EventIds -> SUBSET EventIds]
  BY DEF RowsFit
<1> QED
  BY <1>1, <1>3, <1>4, <1>5

\* A response, a first page and a page of older events.
LEMMA RowsApplied ==
    ASSUME Ingest!ConstantsOK, RowsFit, LogFits, NEW p, AnswerFits(p), p.ok,
           NEW kept, kept = Ingest!Kept(p.page) \/ kept = Ingest!Reverse(Ingest!Kept(p.page)),
           NEW s \in [EventIds -> 0..MaxEvents], NEW back \in BOOLEAN, Ingest!Added(kept, s, back),
           \A m \in EventIds : Ingest!Has(m) =>
               /\ s[m] = shows[m] \/ Marked(s[m], m, p.page)
               /\ Touched(m, p.page) => Marked(s[m], m, p.page),
           NEW there, ingChips' = Ingest!Reacted(there, p.page),
           \A x : Ingest!Has(x) => x \in there,
           p.path # "older" => there = Ingest!ToSet(ingRows')
    PROVE  Applied(p)
<1>1. PageFits(p.page) /\ MaxEvents \in Nat
  BY DEF AnswerFits, Ingest!ConstantsOK
<1>2. /\ kept \in Seq(Ingest!Served)
      /\ \A k, l \in DOMAIN kept : kept[k].id = kept[l].id => k = l
      /\ \A k \in DOMAIN p.page :
            p.page[k] \in Ingest!Rendered \/ (p.page[k].kind = "edit" /\ ~Ingest!Has(p.page[k].to)) =>
                \E n \in DOMAIN kept : kept[n] = p.page[k]
  <2>1. HoldsKept(kept, p.page)
    BY <1>1, KeptElements
  <2> QED
    BY <2>1 DEF HoldsKept
<1>3. /\ ingRows' \in Seq(EventIds)
      /\ \A k, l \in DOMAIN ingRows' : ingRows'[k] = ingRows'[l] => k = l
      /\ \A x : x \in Ingest!ToSet(ingRows') <=>
             Ingest!Has(x) \/ \E k \in DOMAIN kept : kept[k].id = x
      /\ shows' \in [EventIds -> 0..MaxEvents]
      /\ \A m \in EventIds : Ingest!Has(m) => shows'[m] = s[m]
  BY <1>1, <1>2, AddedRows
<1>4. /\ ingChips' \in [EventIds -> SUBSET EventIds]
      /\ \A m \in EventIds : ingChips[m] \subseteq ingChips'[m]
      /\ \A k \in DOMAIN p.page :
            p.page[k].kind = "reaction" /\ p.page[k].to \in there /\ p.page[k].to \in EventIds =>
                p.page[k].id \in ingChips'[p.page[k].to]
  BY <1>1, ReactedChips
<1>5. \A x : x \in Ingest!ToSet(ingRows') => x \in EventIds
  <2>1. \A k \in DOMAIN ingRows' : ingRows'[k] \in EventIds
    BY <1>3, ElementOfSeq, LenProperties
  <2> QED
    BY <2>1 DEF Ingest!ToSet
<1>6. \A x : Ingest!Has(x) => x \in Ingest!ToSet(ingRows') /\ x \in EventIds
  BY <1>3, <1>5
<1>7. ASSUME NEW k \in DOMAIN p.page
      PROVE  /\ p.page[k] \in Ingest!Rendered => p.page[k].id \in Ingest!ToSet(ingRows')
             /\ p.page[k].kind = "edit" /\ ~Ingest!Has(p.page[k].to) =>
                   p.page[k].id \in Ingest!ToSet(ingRows')
  BY <1>2, <1>3
<1>8. ASSUME NEW k \in DOMAIN p.page, p.page[k].kind = "reaction"
      PROVE  /\ Ingest!Has(p.page[k].to) => p.page[k].id \in ingChips'[p.page[k].to]
             /\ p.path # "older" /\ p.page[k].to \in Ingest!ToSet(ingRows') =>
                   p.page[k].id \in ingChips'[p.page[k].to]
  BY <1>4, <1>5, <1>6, <1>8
<1>9. ASSUME NEW m \in EventIds, Ingest!Has(m)
      PROVE  /\ shows'[m] = shows[m] \/ Marked(shows'[m], m, p.page)
             /\ Touched(m, p.page) => Marked(shows'[m], m, p.page)
  BY <1>3, <1>9
<1> QED
  BY <1>3, <1>4, <1>6, <1>7, <1>8, <1>9 DEF Applied

LEMMA SyncApplied ==
    ASSUME Ingest!ConstantsOK, RowsFit, LogFits, NEW p, AnswerFits(p), p.path = "sync", Ingest!OnSync(p)
    PROVE  Applied(p)
<1> DEFINE s == Ingest!Updated(shows, p.page)
           kept == Ingest!Kept(p.page)
<1>1. /\ Ingest!Added(kept, s, TRUE) /\ ingChips' = Ingest!Reacted(Ingest!ToSet(ingRows'), p.page)
  BY DEF Ingest!OnSync
<1>2. p.ok /\ p.page \in Seq(Ingest!Served) /\ MaxEvents \in Nat /\ PageFits(p.page)
      /\ shows \in [EventIds -> 0..MaxEvents]
  BY DEF AnswerFits, PageFits, RowsFit, Ingest!ConstantsOK
<1>3. s \in [EventIds -> 0..MaxEvents]
  BY <1>2, UpdatedTyped
<1>4. \A m \in EventIds : Ingest!Has(m) =>
          /\ s[m] = shows[m] \/ Marked(s[m], m, p.page)
          /\ Touched(m, p.page) => Marked(s[m], m, p.page)
  BY <1>2, UpdatedRows
<1>5. \A x : Ingest!Has(x) => x \in Ingest!ToSet(ingRows')
  <2>1. /\ kept \in Seq(Ingest!Served)
        /\ \A k, l \in DOMAIN kept : kept[k].id = kept[l].id => k = l
    BY <1>2, KeptElements DEF HoldsKept
  <2> HIDE DEF kept, s
  <2> QED
    BY <1>1, <1>2, <1>3, <2>1, AddedRows
<1>6. kept = Ingest!Kept(p.page)
  OBVIOUS
<1> HIDE DEF kept, s
<1> QED
  BY <1>1, <1>2, <1>3, <1>4, <1>5, <1>6, RowsApplied

\* A request that failed changes nothing of them.
LEMMA LeftApplied ==
    ASSUME RowsFit, NEW p, ~p.ok, UNCHANGED <<ingRows, shows, ingChips>>
    PROVE  Applied(p)
  BY DEF Applied, RowsFit, Ingest!Has, Ingest!ToSet

LEMMA OlderApplied ==
    ASSUME Ingest!ConstantsOK, RowsFit, LogFits, NEW p, AnswerFits(p), p.path = "older", Ingest!OnOlder(p)
    PROVE  Applied(p)
<1> DEFINE s == Ingest!Updated(shows, p.page)
           kept == Ingest!Reverse(Ingest!Kept(p.page))
<1>1. CASE p.ok
  <2>1. Ingest!Added(kept, s, FALSE) /\ ingChips' = Ingest!Reacted(Ingest!ToSet(ingRows), p.page)
    BY <1>1 DEF Ingest!OnOlder
  <2>2. p.page \in Seq(Ingest!Served) /\ MaxEvents \in Nat
        /\ shows \in [EventIds -> 0..MaxEvents]
    BY DEF AnswerFits, PageFits, RowsFit, Ingest!ConstantsOK
  <2>3. s \in [EventIds -> 0..MaxEvents]
    BY <2>2, UpdatedTyped
  <2>4. \A m \in EventIds : Ingest!Has(m) =>
            /\ s[m] = shows[m] \/ Marked(s[m], m, p.page)
            /\ Touched(m, p.page) => Marked(s[m], m, p.page)
    BY <2>2, UpdatedRows
  <2>5. \A x : Ingest!Has(x) => x \in Ingest!ToSet(ingRows)
    BY DEF Ingest!Has
  <2>6. kept = Ingest!Reverse(Ingest!Kept(p.page))
    OBVIOUS
  <2> HIDE DEF kept, s
  <2> QED
    BY <1>1, <2>1, <2>3, <2>4, <2>5, <2>6, RowsApplied
<1>2. CASE ~p.ok
  <2>1. UNCHANGED <<ingRows, shows, ingChips>>
    BY <1>2 DEF Ingest!OnOlder, Ingest!screen
  <2> QED
    BY <1>2, <2>1, LeftApplied
<1> QED
  BY <1>1, <1>2

LEMMA HistoryApplied ==
    ASSUME Ingest!ConstantsOK, RowsFit, LogFits, NEW p, AnswerFits(p), p.path = "history", Ingest!OnHistory(p)
    PROVE  Applied(p)
<1> DEFINE ofKind(k) == Ingest!Those(p.page, {e \in Ingest!Served : e.kind = k})
           kept == Ingest!Reverse(Ingest!Kept(p.page))
           cut  == ofKind("redaction")
           eds  == Ingest!Reverse(ofKind("edit"))
           s1   == Ingest!Updated(shows, cut)
           s    == Ingest!Updated(s1, eds)
<1>1. CASE p.ok
  <2>1. Ingest!Added(kept, s, TRUE) /\ ingChips' = Ingest!Reacted(Ingest!ToSet(ingRows'), p.page)
    BY <1>1 DEF Ingest!OnHistory
  <2>2. p.page \in Seq(Ingest!Served) /\ MaxEvents \in Nat /\ PageFits(p.page)
        /\ shows \in [EventIds -> 0..MaxEvents]
        /\ \A k \in DOMAIN p.page : p.page[k] \in Ingest!Served
    BY ElementOfSeq, LenProperties DEF AnswerFits, PageFits, RowsFit, Ingest!ConstantsOK
  <2>3. /\ cut \in Seq(Ingest!Served)
        /\ \A k \in DOMAIN cut : \E l \in DOMAIN p.page : cut[k] = p.page[l] /\ cut[k].kind = "redaction"
        /\ \A l \in DOMAIN p.page : p.page[l].kind = "redaction" => \E k \in DOMAIN cut : cut[k] = p.page[l]
    <3> DEFINE E == {e \in Ingest!Served : e.kind = "redaction"}
    <3>1. /\ \A e \in E : e.kind = "redaction"
          /\ \A k \in DOMAIN p.page : p.page[k].kind = "redaction" => p.page[k] \in E
      BY <2>2
    <3> HIDE DEF E
    <3>2. /\ Ingest!Those(p.page, E) \in Seq(Ingest!Served)
          /\ \A k \in DOMAIN Ingest!Those(p.page, E) :
                \E l \in DOMAIN p.page : Ingest!Those(p.page, E)[k] = p.page[l] /\ p.page[l] \in E
          /\ \A l \in DOMAIN p.page : p.page[l] \in E =>
                \E k \in DOMAIN Ingest!Those(p.page, E) : Ingest!Those(p.page, E)[k] = p.page[l]
      BY <2>2, ThoseProperties
    <3>3. cut = Ingest!Those(p.page, E)
      BY DEF E
    <3> HIDE DEF cut
    <3> QED
      BY <3>1, <3>2, <3>3
  <2>4. /\ eds \in Seq(Ingest!Served)
        /\ \A k \in DOMAIN eds : \E l \in DOMAIN p.page : eds[k] = p.page[l] /\ eds[k].kind = "edit"
        /\ \A l \in DOMAIN p.page : p.page[l].kind = "edit" => \E k \in DOMAIN eds : eds[k] = p.page[l]
    <3> DEFINE E == {e \in Ingest!Served : e.kind = "edit"}
               those == Ingest!Those(p.page, E)
    <3>1. /\ \A e \in E : e.kind = "edit"
          /\ \A k \in DOMAIN p.page : p.page[k].kind = "edit" => p.page[k] \in E
      BY <2>2
    <3>4. eds = Ingest!Reverse(those)
      OBVIOUS
    <3> HIDE DEF E, eds
    <3>2. /\ those \in Seq(Ingest!Served)
          /\ \A k \in DOMAIN those : \E l \in DOMAIN p.page : those[k] = p.page[l] /\ p.page[l] \in E
          /\ \A l \in DOMAIN p.page : p.page[l] \in E => \E k \in DOMAIN those : those[k] = p.page[l]
      BY <2>2, ThoseProperties
    <3> HIDE DEF those
    <3>3. /\ Ingest!Reverse(those) \in Seq(Ingest!Served)
          /\ \A n \in DOMAIN Ingest!Reverse(those) : \E k \in DOMAIN those : Ingest!Reverse(those)[n] = those[k]
          /\ \A k \in DOMAIN those : \E n \in DOMAIN Ingest!Reverse(those) : Ingest!Reverse(those)[n] = those[k]
      BY <3>2, ReversedPage
    <3>5. ASSUME NEW k \in DOMAIN eds
          PROVE  \E l \in DOMAIN p.page : eds[k] = p.page[l] /\ eds[k].kind = "edit"
      <4>1. PICK n \in DOMAIN those : eds[k] = those[n]
        BY <3>3, <3>4, <3>5
      <4>2. PICK l \in DOMAIN p.page : those[n] = p.page[l] /\ p.page[l] \in E
        BY <3>2
      <4> QED
        BY <3>1, <4>1, <4>2
    <3>6. ASSUME NEW l \in DOMAIN p.page, p.page[l].kind = "edit"
          PROVE  \E k \in DOMAIN eds : eds[k] = p.page[l]
      <4>1. PICK n \in DOMAIN those : those[n] = p.page[l]
        BY <3>1, <3>2, <3>6
      <4> QED
        BY <3>3, <3>4, <4>1
    <3> QED
      BY <3>3, <3>4, <3>5, <3>6
  <2> HIDE DEF cut, eds
  <2>5. s1 \in [EventIds -> 0..MaxEvents]
    BY <2>2, <2>3, UpdatedTyped
  <2>6. s \in [EventIds -> 0..MaxEvents]
    <3> HIDE DEF s1
    <3> QED
      BY <2>2, <2>4, <2>5, UpdatedTyped
  <2>7. ASSUME NEW m \in EventIds, Ingest!Has(m)
        PROVE  /\ s[m] = shows[m] \/ Marked(s[m], m, p.page)
               /\ Touched(m, p.page) => Marked(s[m], m, p.page)
    <3>1. /\ ~Touched(m, cut) => s1[m] = shows[m]
          /\ Touched(m, cut) => Marked(s1[m], m, cut)
      BY <2>3, <2>7, UpdatedRows
    <3> HIDE DEF s1
    <3>2. /\ ~Touched(m, eds) => s[m] = s1[m]
          /\ Touched(m, eds) => Marked(s[m], m, eds)
      BY <2>4, <2>7, UpdatedRows
    <3> HIDE DEF s
    <3>3. Marked(s1[m], m, cut) => Marked(s1[m], m, p.page)
      BY <2>3 DEF Marked
    <3>4. Marked(s[m], m, eds) => Marked(s[m], m, p.page)
      BY <2>4 DEF Marked
    <3>5. Touched(m, p.page) => Touched(m, cut) \/ Touched(m, eds)
      BY <2>3, <2>4 DEF Touched
    <3> QED
      BY <3>1, <3>2, <3>3, <3>4, <3>5
  <2>8. kept = Ingest!Reverse(Ingest!Kept(p.page))
    OBVIOUS
  <2> HIDE DEF kept, s
  <2>9. \A x : Ingest!Has(x) => x \in Ingest!ToSet(ingRows')
    <3>1. /\ kept \in Seq(Ingest!Served)
          /\ \A k, l \in DOMAIN kept : kept[k].id = kept[l].id => k = l
      BY <2>2, <2>8, KeptElements DEF HoldsKept
    <3> QED
      BY <2>1, <2>2, <2>6, <3>1, AddedRows
  <2> QED
    BY <1>1, <2>1, <2>6, <2>7, <2>8, <2>9, RowsApplied
<1>2. CASE ~p.ok
  <2>1. UNCHANGED <<ingRows, shows, ingChips>>
    BY <1>2 DEF Ingest!OnHistory, Ingest!screen
  <2> QED
    BY <1>2, <2>1, LeftApplied
<1> QED
  BY <1>1, <1>2

-----------------------------------------------------------------------------
\* The history after an answer, whichever of the three it is.
Brought(p, i) == p.ok /\ \E k \in DOMAIN p.page : p.page[k].id = i

LEMMA NotedHistory ==
    ASSUME RowsFit, NEW p, AnswerFits(p), Applied(p), Ingest!Noted(p), UNCHANGED ingLog, LogFits,
           MaxEvents \in Nat
    PROVE  /\ RowsFit' /\ ingCount' = ingCount + 1
           /\ \A i : Brought(p, i) => i \in DOMAIN ingLog /\ i \in EventIds
           /\ \A i \in EventIds :
                 /\ rowAt'[i] = IF i \in Ingest!ToSet(ingRows') /\ ~Ingest!Has(i)
                                THEN ingCount + 1 ELSE rowAt[i]
                 /\ cameAt'[i] = IF Brought(p, i) THEN ingCount + 1 ELSE cameAt[i]
                 /\ Brought(p, i) /\ p.path = "older" => i \in onPage'
                 /\ ~Brought(p, i) => (i \in onPage' <=> i \in onPage)
<1> DEFINE came == IF p.ok THEN {e.id : e \in Ingest!ToSet(p.page)} ELSE {}
<1>1. \A i : i \in came <=> Brought(p, i)
  BY DEF Brought, Ingest!ToSet
<1>2. /\ ingCount' = ingCount + 1
      /\ rowAt' = [i \in EventIds |->
                      IF i \in Ingest!ToSet(ingRows') /\ ~Ingest!Has(i) THEN ingCount' ELSE rowAt[i]]
      /\ cameAt' = [i \in EventIds |-> IF i \in came THEN ingCount' ELSE cameAt[i]]
      /\ onPage' = IF p.path = "older" THEN onPage \cup came ELSE onPage \ came
  BY DEF Ingest!Noted, Ingest!Ids, EventIds
<1> HIDE DEF came
<1>3. /\ DOMAIN ingLog = 1..Len(ingLog) /\ Len(ingLog) \in Nat /\ Len(ingLog) <= MaxEvents
  BY LenProperties DEF LogFits
<1>4. ASSUME NEW i, Brought(p, i) PROVE i \in DOMAIN ingLog /\ i \in EventIds
  <2>1. PICK k \in DOMAIN p.page : p.page[k].id = i
    BY <1>4 DEF Brought
  <2>2. i \in DOMAIN ingLog
    BY <2>1 DEF AnswerFits, PageFits, IsServed
  <2> QED
    BY <1>3, <2>2 DEF EventIds
<1>5. ASSUME NEW i \in EventIds
      PROVE  /\ rowAt'[i] = IF i \in Ingest!ToSet(ingRows') /\ ~Ingest!Has(i)
                            THEN ingCount + 1 ELSE rowAt[i]
             /\ cameAt'[i] = IF Brought(p, i) THEN ingCount + 1 ELSE cameAt[i]
             /\ Brought(p, i) /\ p.path = "older" => i \in onPage'
             /\ ~Brought(p, i) => (i \in onPage' <=> i \in onPage)
  BY <1>1, <1>2
<1>6. /\ ingCount \in Nat /\ rowAt \in [EventIds -> 0..ingCount]
      /\ cameAt \in [EventIds -> 0..ingCount] /\ onPage \subseteq EventIds
      /\ \A i \in EventIds : (Ingest!Has(i) <=> rowAt[i] > 0) /\ (cameAt[i] > 0 => i \in DOMAIN ingLog)
  BY DEF RowsFit
<1>7. ingCount' \in Nat /\ onPage' \subseteq EventIds
  BY <1>1, <1>2, <1>4, <1>6
<1>8. \A i \in EventIds : rowAt[i] \in 0..ingCount /\ cameAt[i] \in 0..ingCount
  BY <1>6
<1>9. rowAt' \in [EventIds -> 0..ingCount'] /\ cameAt' \in [EventIds -> 0..ingCount']
  <2>1. ASSUME NEW i \in EventIds PROVE rowAt'[i] \in 0..ingCount' /\ cameAt'[i] \in 0..ingCount'
    BY <1>2, <1>5, <1>6, <1>8
  <2> QED
    BY <1>2, <2>1
<1>10. ASSUME NEW i \in EventIds
       PROVE  (Ingest!Has(i)' <=> rowAt'[i] > 0) /\ (cameAt'[i] > 0 => i \in DOMAIN ingLog')
  <2>1. Ingest!Has(i) => Ingest!Has(i)'
    BY DEF Applied, Ingest!Has
  <2>2. Ingest!Has(i)' <=> i \in Ingest!ToSet(ingRows')
    BY DEF Ingest!Has
  <2>3. ingLog' = ingLog
    OBVIOUS
  <2> QED
    BY <1>4, <1>5, <1>6, <2>1, <2>2, <2>3
<1>11. RowsFit'
  BY <1>7, <1>9, <1>10 DEF RowsFit, Applied
<1> QED
  BY <1>2, <1>4, <1>5, <1>11

\* Nothing that came is lost.
LEMMA NotedShown ==
    ASSUME IngestInv, NEW p, AnswerFits(p), Applied(p), Ingest!Noted(p), UNCHANGED ingLog,
           MaxEvents \in Nat
    PROVE  RowsFit' /\ Ingest!ToldIsShown'
<1>1. /\ ingLog \in Seq(Ingest!Event) /\ DOMAIN ingLog = 1..Len(ingLog) /\ Len(ingLog) \in Nat
      /\ Len(ingLog) <= MaxEvents /\ \A i \in DOMAIN ingLog : FollowsAt(ingLog, i)
  BY LenProperties DEF IngestInv, LogFits, FollowsAt
<1>2. /\ RowsFit' /\ ingCount' = ingCount + 1
      /\ \A i : Brought(p, i) => i \in DOMAIN ingLog /\ i \in EventIds
      /\ \A i \in EventIds :
            /\ rowAt'[i] = IF i \in Ingest!ToSet(ingRows') /\ ~Ingest!Has(i)
                           THEN ingCount + 1 ELSE rowAt[i]
            /\ cameAt'[i] = IF Brought(p, i) THEN ingCount + 1 ELSE cameAt[i]
            /\ Brought(p, i) /\ p.path = "older" => i \in onPage'
            /\ ~Brought(p, i) => (i \in onPage' <=> i \in onPage)
  BY NotedHistory DEF IngestInv
<1>3. /\ ingCount \in Nat
      /\ \A i \in EventIds : /\ rowAt[i] \in 0..ingCount /\ cameAt[i] \in 0..ingCount
                             /\ Ingest!Has(i) <=> rowAt[i] > 0
  BY DEF IngestInv, RowsFit
<1>4. \A i \in DOMAIN ingLog : i \in EventIds
  BY <1>1 DEF EventIds
<1>5. \A x : Ingest!Has(x) => Ingest!Has(x)'
  BY DEF Applied, Ingest!Has
<1>6. ASSUME NEW i, Brought(p, i)
      PROVE  \E k \in DOMAIN p.page :
                /\ p.ok /\ p.page[k].id = i /\ p.page[k].to = ingLog[i].to
                /\ p.page[k] \in Ingest!Served
                /\ p.page[k].kind = ingLog[i].kind
                   \/ (p.page[k].kind = "stripped" /\ i \in Ingest!Redacted)
  <2>1. PICK k \in DOMAIN p.page : p.ok /\ p.page[k].id = i
    BY <1>6 DEF Brought
  <2>2. IsServed(p.page[k])
    BY DEF AnswerFits, PageFits
  <2> QED
    BY <2>1, <2>2 DEF IsServed
\* What a row says that an edit of the answer changed.
<1>7. ASSUME NEW m \in EventIds, Ingest!Has(m), p.ok, Marked(shows'[m], m, p.page), shows'[m] # 0
      PROVE  /\ Brought(p, shows'[m]) /\ shows'[m] \in EventIds /\ shows'[m] # m
  <2>1. PICK k \in DOMAIN p.page : /\ p.page[k].kind = "edit" /\ p.page[k].to = m
                                   /\ shows'[m] = p.page[k].id
    BY <1>7 DEF Marked
  <2>2. Brought(p, shows'[m])
    BY <1>7, <2>1 DEF Brought
  <2>3. IsServed(p.page[k])
    BY DEF AnswerFits, PageFits
  <2>4. p.page[k].id \in DOMAIN ingLog /\ ingLog[p.page[k].id].kind = "edit"
        /\ ingLog[p.page[k].id].to = m
    BY <2>1, <2>3 DEF IsServed
  <2>5. ingLog[m].kind = "message"
    BY <1>1, <2>4 DEF FollowsAt
  <2> QED
    BY <1>2, <2>1, <2>2, <2>4, <2>5
<1>8. (Ingest!Cardinality(Ingest!ToSet(ingRows)) = Len(ingRows))'
  <2>1. /\ ingRows' \in Seq(EventIds)
        /\ \A k, l \in DOMAIN ingRows' : ingRows'[k] = ingRows'[l] => k = l
    BY DEF Applied
  <2>2. Cardinality({ingRows'[k] : k \in DOMAIN ingRows'}) = Len(ingRows')
    BY <2>1, DistinctElements
  <2>3. Ingest!Cardinality({ingRows'[k] : k \in DOMAIN ingRows'}) =
            Cardinality({ingRows'[k] : k \in DOMAIN ingRows'})
    BY DEF Ingest!Cardinality, Cardinality
  <2>4. Ingest!ToSet(ingRows') = {ingRows'[k] : k \in DOMAIN ingRows'}
    BY DEF Ingest!ToSet
  <2> QED
    BY <2>2, <2>3, <2>4
<1>9. ASSUME NEW kind, NEW i \in Ingest!Came(kind)'
      PROVE  /\ i \in DOMAIN ingLog /\ i \in EventIds /\ ingLog[i].kind = kind
             /\ Brought(p, i) \/ i \in Ingest!Came(kind)
             /\ ingLog'[i] = ingLog[i]
  <2>1. i \in DOMAIN ingLog /\ cameAt'[i] > 0 /\ ingLog[i].kind = kind
    BY DEF Ingest!Came
  <2> QED
    BY <1>2, <1>4, <2>1 DEF Ingest!Came
<1>10. (\A i \in Ingest!Came("message") : Ingest!Has(i))'
  <2> SUFFICES ASSUME NEW i \in Ingest!Came("message")' PROVE Ingest!Has(i)'
    OBVIOUS
  <2>1. CASE Brought(p, i)
    <3>1. PICK k \in DOMAIN p.page : p.ok /\ p.page[k].id = i /\ p.page[k] \in Ingest!Served
                                     /\ p.page[k].kind \in {"message", "stripped"}
      BY <1>6, <1>9, <2>1
    <3>2. p.page[k] \in Ingest!Rendered
      BY <1>9, <3>1 DEF Ingest!Rendered
    <3> QED
      BY <3>1, <3>2 DEF Applied, Ingest!Has
  <2>2. CASE i \in Ingest!Came("message")
    BY <1>5, <2>2 DEF IngestInv, Ingest!ToldIsShown
  <2> QED
    BY <1>9, <2>1, <2>2
<1>11. (\A i \in Ingest!Came("edit") :
            Ingest!Has(i) \/ (Ingest!Found(i) /\ shows[ingLog[i].to] # ingLog[i].to))'
  <2> SUFFICES ASSUME NEW i \in Ingest!Came("edit")'
               PROVE  \/ Ingest!Has(i)'
                      \/ Ingest!Found(i)' /\ shows'[ingLog[i].to] # ingLog[i].to
    BY <1>9
  <2> DEFINE m == ingLog[i].to
  <2>1. i \in DOMAIN ingLog /\ i \in EventIds /\ m \in DOMAIN ingLog /\ m \in EventIds
    BY <1>1, <1>4, <1>9 DEF FollowsAt
  <2>2. Ingest!Found(i)' <=> rowAt'[m] \in 1..(cameAt'[i] - 1)
    BY <1>9 DEF Ingest!Found
  <2>3. CASE Brought(p, i)
    <3>1. PICK k \in DOMAIN p.page :
             /\ p.ok /\ p.page[k].id = i /\ p.page[k].to = m /\ p.page[k] \in Ingest!Served
             /\ p.page[k].kind \in {"edit", "stripped"}
      BY <1>6, <1>9, <2>3
    <3>2. CASE p.page[k].kind = "stripped"
      <4>1. p.page[k] \in Ingest!Rendered
        BY <1>9, <3>1, <3>2 DEF Ingest!Rendered
      <4> QED
        BY <3>1, <4>1 DEF Applied, Ingest!Has
    <3>3. CASE p.page[k].kind = "edit" /\ ~Ingest!Has(m)
      BY <3>1, <3>3 DEF Applied, Ingest!Has
    <3>4. CASE p.page[k].kind = "edit" /\ Ingest!Has(m)
      <4>1. Touched(m, p.page)
        BY <3>1, <3>4 DEF Touched
      <4>2. Marked(shows'[m], m, p.page)
        BY <2>1, <3>1, <3>4, <4>1 DEF Applied
      <4>3. shows'[m] # m
        BY <1>7, <2>1, <3>1, <3>4, <4>2 DEF EventIds
      <4>4. rowAt'[m] \in 1..(cameAt'[i] - 1)
        BY <1>2, <1>3, <2>1, <2>3, <3>4
      <4> QED
        BY <2>2, <4>3, <4>4
    <3> QED
      BY <3>1, <3>2, <3>3, <3>4
  <2>4. CASE ~Brought(p, i)
    <3>1. i \in Ingest!Came("edit") /\ cameAt'[i] = cameAt[i]
      BY <1>2, <1>9, <2>1, <2>4
    <3>2. Ingest!Has(i) \/ (rowAt[m] \in 1..(cameAt[i] - 1) /\ shows[m] # m)
      BY <3>1 DEF IngestInv, Ingest!ToldIsShown, Ingest!Found
    <3>3. CASE Ingest!Has(i)
      BY <1>5, <3>3
    <3>4. CASE rowAt[m] \in 1..(cameAt[i] - 1) /\ shows[m] # m
      <4>1. Ingest!Has(m)
        BY <1>3, <2>1, <3>4
      <4>2. rowAt'[m] = rowAt[m]
        BY <1>2, <2>1, <4>1
      <4>3. shows'[m] = shows[m] \/ (p.ok /\ Marked(shows'[m], m, p.page))
        BY <2>1, <4>1 DEF Applied
      <4>4. shows'[m] # m
        BY <1>7, <2>1, <3>4, <4>1, <4>3 DEF EventIds
      <4> QED
        BY <2>2, <3>1, <3>4, <4>2, <4>4
    <3> QED
      BY <3>2, <3>3, <3>4
  <2> QED
    BY <2>3, <2>4
<1>12. (\A i \in Ingest!Came("redaction") :
            LET says == shows[ingLog[i].to]
            IN  Ingest!Found(i) => says = 0 \/ (says # ingLog[i].to /\ cameAt[says] >= cameAt[i]))'
  <2> SUFFICES ASSUME NEW i \in Ingest!Came("redaction")', Ingest!Found(i)'
               PROVE  LET says == shows'[ingLog[i].to]
                      IN  says = 0 \/ (says # ingLog[i].to /\ cameAt'[says] >= cameAt'[i])
    BY <1>9
  <2> DEFINE m == ingLog[i].to
  <2>1. i \in DOMAIN ingLog /\ i \in EventIds /\ m \in DOMAIN ingLog /\ m \in EventIds
    BY <1>1, <1>4, <1>9 DEF FollowsAt
  <2>2. rowAt'[m] \in 1..(cameAt'[i] - 1)
    BY <1>9 DEF Ingest!Found
  <2>3. Ingest!Has(m) /\ rowAt'[m] = rowAt[m]
    BY <1>2, <1>3, <2>1, <2>2
  <2>4. ASSUME p.ok, Marked(shows'[m], m, p.page), shows'[m] # 0
        PROVE  shows'[m] # m /\ cameAt'[shows'[m]] >= cameAt'[i]
    BY <1>2, <1>3, <1>7, <2>1, <2>3, <2>4
  <2>5. CASE Brought(p, i)
    <3>1. PICK k \in DOMAIN p.page :
             /\ p.ok /\ p.page[k].id = i /\ p.page[k].to = m
             /\ p.page[k].kind = "redaction" \/ i \in Ingest!Redacted
      BY <1>6, <1>9, <2>5
    <3>2. i \notin Ingest!Redacted
      BY <1>1, <1>9 DEF Ingest!Redacted, FollowsAt
    <3>3. Touched(m, p.page)
      BY <3>1, <3>2 DEF Touched
    <3>4. Marked(shows'[m], m, p.page)
      BY <2>1, <2>3, <3>1, <3>3 DEF Applied
    <3> QED
      BY <2>4, <3>1, <3>4
  <2>6. CASE ~Brought(p, i)
    <3>1. i \in Ingest!Came("redaction") /\ cameAt'[i] = cameAt[i]
      BY <1>2, <1>9, <2>1, <2>6
    <3>2. shows[m] = 0 \/ (shows[m] # m /\ cameAt[shows[m]] >= cameAt[i])
      BY <2>2, <2>3, <3>1 DEF IngestInv, Ingest!ToldIsShown, Ingest!Found
    <3>3. shows'[m] = shows[m] \/ (p.ok /\ Marked(shows'[m], m, p.page))
      BY <2>1, <2>3 DEF Applied
    <3>4. CASE shows'[m] = shows[m] /\ shows[m] # 0
      <4>1. shows[m] \in EventIds
        <5>1. shows[m] \in 0..MaxEvents
          BY <2>1 DEF IngestInv, RowsFit
        <5> QED
          BY <3>4, <5>1 DEF EventIds
      <4>2. cameAt'[shows[m]] >= cameAt[shows[m]]
        BY <1>2, <1>3, <4>1
      <4> QED
        BY <1>2, <1>3, <2>1, <3>1, <3>2, <3>4, <4>1, <4>2
    <3> QED
      BY <2>4, <3>3, <3>4
  <2> QED
    BY <2>5, <2>6
<1>13. (\A i \in Ingest!Came("reaction") \ Ingest!Redacted :
            LET m == ingLog[i].to
            IN  Ingest!Found(i) \/ (rowAt[m] = cameAt[i] /\ i \notin onPage) => i \in ingChips[m])'
  <2> SUFFICES ASSUME NEW i \in Ingest!Came("reaction")', i \notin Ingest!Redacted,
                      Ingest!Found(i)' \/ (rowAt'[ingLog[i].to] = cameAt'[i] /\ i \notin onPage')
               PROVE  i \in ingChips'[ingLog[i].to]
    <3>1. Ingest!Redacted' = Ingest!Redacted
      BY DEF Ingest!Redacted
    <3> QED
      BY <1>9, <3>1
  <2> DEFINE m == ingLog[i].to
  <2>1. i \in DOMAIN ingLog /\ i \in EventIds /\ m \in DOMAIN ingLog /\ m \in EventIds
    BY <1>1, <1>4, <1>9 DEF FollowsAt
  <2>2. rowAt'[m] \in 1..(cameAt'[i] - 1) \/ (rowAt'[m] = cameAt'[i] /\ i \notin onPage')
    BY <1>9 DEF Ingest!Found
  <2>3. cameAt'[i] > 0
    BY DEF Ingest!Came
  <2>4. CASE Brought(p, i)
    <3>1. PICK k \in DOMAIN p.page :
             /\ p.ok /\ p.page[k].id = i /\ p.page[k].to = m /\ p.page[k].kind = "reaction"
      BY <1>6, <1>9, <2>4
    <3>2. CASE Ingest!Has(m)
      BY <3>1, <3>2 DEF Applied
    <3>3. CASE ~Ingest!Has(m)
      <4>1. m \in Ingest!ToSet(ingRows') /\ p.path # "older"
        BY <1>2, <1>3, <2>1, <2>2, <2>3, <2>4, <3>3
      <4> QED
        BY <3>1, <4>1 DEF Applied
    <3> QED
      BY <3>2, <3>3
  <2>5. CASE ~Brought(p, i)
    <3>1. i \in Ingest!Came("reaction") /\ cameAt'[i] = cameAt[i] /\ (i \in onPage' <=> i \in onPage)
      BY <1>2, <1>9, <2>1, <2>5
    <3>2. rowAt'[m] = rowAt[m]
      BY <1>2, <1>3, <2>1, <2>2, <3>1
    <3>3. Ingest!Found(i) \/ (rowAt[m] = cameAt[i] /\ i \notin onPage)
      BY <2>2, <3>1, <3>2 DEF Ingest!Found
    <3>4. i \in ingChips[m]
      BY <3>1, <3>3 DEF IngestInv, Ingest!ToldIsShown
    <3> QED
      BY <2>1, <3>4 DEF Applied
  <2> QED
    BY <2>4, <2>5
<1> QED
  BY <1>2, <1>8, <1>10, <1>11, <1>12, <1>13 DEF Ingest!ToldIsShown

-----------------------------------------------------------------------------
LEMMA IngestDeliver ==
    ASSUME Ingest!ConstantsOK, IngestInv, Ingest!Deliver PROVE IngestInv'
<1>1. ingPosted # <<>> /\ ingPosted' = Tail(ingPosted) /\ UNCHANGED <<ingLog, ingTold, ingJobs, ingFuel>>
  BY DEF Ingest!Deliver, Ingest!server
<1>2. PICK p : /\ p = Head(ingPosted) /\ Ingest!Noted(p)
               /\ \/ p.path = "sync" /\ Ingest!OnSync(p)
                  \/ p.path = "history" /\ Ingest!OnHistory(p)
                  \/ p.path = "older" /\ Ingest!OnOlder(p)
  BY DEF Ingest!Deliver
<1>3. /\ LogFits /\ FlightFits /\ RowsFit /\ IngestRest /\ MaxEvents \in Nat
      /\ ingPosted \in Seq(Ingest!Answer) /\ Len(ingLog) \in Nat
  BY LenProperties DEF IngestInv, LogFits, FlightFits, Ingest!ConstantsOK
<1>4. /\ 1 \in DOMAIN ingPosted /\ p = ingPosted[1] /\ ingPosted' \in Seq(Ingest!Answer)
      /\ \A i \in DOMAIN ingPosted' : i + 1 \in DOMAIN ingPosted /\ ingPosted'[i] = ingPosted[i + 1]
  BY <1>1, <1>2, <1>3, TailElements
<1>5. AnswerFits(p)
  BY <1>3, <1>4 DEF FlightFits
<1>6. Applied(p)
  BY <1>2, <1>3, <1>5, SyncApplied, HistoryApplied, OlderApplied
<1>7. RowsFit' /\ Ingest!ToldIsShown'
  BY <1>1, <1>2, <1>3, <1>5, <1>6, NotedShown
<1>8. LogFits'
  BY <1>1, <1>3 DEF LogFits
<1>9. before' \in 0..(Len(ingLog) + 1)
  <2>1. p.at \in 0..(Len(ingLog) + 1)
    <3>1. p.at \in Nat /\ p.at <= Len(ingLog) + 1
      BY <1>5 DEF AnswerFits, Ingest!Answer
    <3> QED
      BY <1>3, <3>1
  <2>2. before' \in {before, p.at}
    BY <1>2 DEF Ingest!OnSync, Ingest!OnHistory, Ingest!OnOlder
  <2> QED
    BY <1>3, <2>1, <2>2 DEF FlightFits
<1>10. FlightFits'
  <2>1. \A b : AnswerFits(b) => AnswerFits(b)'
    BY <1>1 DEF AnswerFits, PageFits, IsServed, Ingest!Redacted
  <2>2. \A i \in DOMAIN ingPosted' : AnswerFits(ingPosted'[i])
    BY <1>3, <1>4 DEF FlightFits
  <2> QED
    BY <1>1, <1>3, <1>4, <1>9, <2>1, <2>2 DEF FlightFits
<1>11. IngestRest'
  <2>1. ingMore' \in [shown : BOOLEAN, enabled : BOOLEAN]
    <3>1. ingMore \in [shown : BOOLEAN, enabled : BOOLEAN]
      BY <1>3 DEF IngestRest
    <3>2. \/ ingMore' = ingMore
          \/ ingMore' = [ingMore EXCEPT !.shown = TRUE]
          \/ ingMore' = [ingMore EXCEPT !.enabled = TRUE]
      BY <1>2 DEF Ingest!OnSync, Ingest!OnHistory, Ingest!OnOlder
    <3> QED
      BY <3>1, <3>2
  <2> QED
    BY <1>1, <1>3, <2>1 DEF IngestRest
<1> QED
  BY <1>7, <1>8, <1>10, <1>11 DEF IngestInv

LEMMA IngestNext == Ingest!ConstantsOK /\ IngestInv /\ [Ingest!Next]_(Ingest!vars) => IngestInv'
<1> SUFFICES ASSUME Ingest!ConstantsOK, IngestInv, [Ingest!Next]_(Ingest!vars)
             PROVE  IngestInv'
  OBVIOUS
<1>1. CASE \E e \in Ingest!Event : Ingest!NewEvent(e)
  BY <1>1, IngestNewEvent
<1>2. CASE Ingest!SyncReturn
  BY <1>2, IngestSyncReturn
<1>3. CASE Ingest!Open
  BY <1>3, IngestOpen
<1>4. CASE Ingest!LoadMore
  BY <1>4, IngestLoadMore
<1>5. CASE \E i \in DOMAIN ingJobs : Ingest!Work(i)
  BY <1>5, IngestWork
<1>6. CASE Ingest!Deliver
  BY <1>6, IngestDeliver
<1>7. CASE UNCHANGED Ingest!vars
  <2>1. UNCHANGED <<ingLog, ingTold, ingRows, shows, ingChips, before, ingMore, ingJobs, ingPosted,
                    ingCount, rowAt, cameAt, onPage, ingFuel>>
    BY <1>7 DEF Ingest!vars
  <2>2. FlightFits'
    BY <2>1 DEF IngestInv, FlightFits, AnswerFits, PageFits, IsServed, Ingest!Redacted
  <2>3. IngestRest'
    BY <2>1 DEF IngestInv, IngestRest
  <2> QED
    BY <2>1, <2>2, <2>3, ShownSame DEF IngestInv
<1> QED
  BY <1>1, <1>2, <1>3, <1>4, <1>5, <1>6, <1>7 DEF Ingest!Next

-----------------------------------------------------------------------------
(***************************************************************************)
(* Attachments (Media): whatever has to be counted is where it should be,  *)
(* and counted right.                                                      *)
(***************************************************************************)
Callbacks == [of : Attachments!Media, ok : BOOLEAN]

Counted == /\ attJobs \in Seq(Attachments!Media) /\ attPosted \in Seq(Callbacks)
           /\ clicked \in Nat /\ attTold \in Nat
           /\ Attachments!EveryClickIsAnswered

LEMMA InitCounted == Attachments!Init => Counted
  BY DEF Attachments!Init, Counted, Attachments!EveryClickIsAnswered

\* A click that is answered from the cache, or starts a download.
LEMMA OpenCounted ==
    ASSUME Counted, NEW m \in Attachments!Media, Attachments!OpenAttachment(m)
    PROVE  Counted'
<1>1. CASE m \in Attachments!ToSet(cache)
  BY <1>1 DEF Counted, Attachments!EveryClickIsAnswered, Attachments!OpenAttachment,
              Attachments!Show
<1>2. CASE m \notin Attachments!ToSet(cache)
  <2>1. /\ attJobs' = Append(attJobs, m) /\ clicked' = clicked + 1
        /\ UNCHANGED <<attPosted, attTold>>
    BY <1>2 DEF Attachments!OpenAttachment
  <2>2. attJobs' \in Seq(Attachments!Media) /\ Len(attJobs') = Len(attJobs) + 1
    BY <2>1 DEF Counted
  <2>3. Len(attJobs) \in Nat /\ Len(attPosted) \in Nat
    BY DEF Counted
  <2> QED
    BY <2>1, <2>2, <2>3 DEF Counted, Attachments!EveryClickIsAnswered
<1> QED
  BY <1>1, <1>2

\* A download that ends becomes a callback.
LEMMA WorkCounted ==
    ASSUME Counted, NEW i \in DOMAIN attJobs, Attachments!Work(i)
    PROVE  Counted'
<1>1. attJobs[i] \in Attachments!Media
  BY DEF Counted
<1>2. attJobs' = RemoveAt(attJobs, i)
  BY DEF Attachments!Work, Attachments!RemoveAt, RemoveAt
<1>3. attJobs' \in Seq(Attachments!Media) /\ Len(attJobs') = Len(attJobs) - 1
  BY <1>2, RemoveAtProperties DEF Counted
<1>4. PICK ok \in BOOLEAN : attPosted' = Append(attPosted, [of |-> attJobs[i], ok |-> ok])
  BY DEF Attachments!Work
<1>5. [of |-> attJobs[i], ok |-> ok] \in Callbacks
  BY <1>1 DEF Callbacks
<1>6. attPosted' \in Seq(Callbacks) /\ Len(attPosted') = Len(attPosted) + 1
  BY <1>4, <1>5 DEF Counted
<1>7. Len(attJobs) \in Nat /\ Len(attPosted) \in Nat
  BY DEF Counted
<1>8. UNCHANGED <<clicked, attTold>>
  BY DEF Attachments!Work
<1> QED
  BY <1>3, <1>6, <1>7, <1>8 DEF Counted, Attachments!EveryClickIsAnswered

\* A callback opens one window or one file, whatever came.
LEMMA DeliverCounted ==
    ASSUME Counted, Attachments!Deliver
    PROVE  Counted'
<1>1. attPosted' \in Seq(Callbacks) /\ Len(attPosted') = Len(attPosted) - 1
  BY DEF Counted, Attachments!Deliver
<1>2. attTold' = attTold + 1
  BY DEF Attachments!Deliver, Attachments!OnFile, Attachments!OnImage, Attachments!Show
<1>3. UNCHANGED <<attJobs, clicked>>
  BY DEF Attachments!Deliver
<1>4. Len(attJobs) \in Nat /\ Len(attPosted) \in Nat
  BY DEF Counted
<1> QED
  BY <1>1, <1>2, <1>3, <1>4 DEF Counted, Attachments!EveryClickIsAnswered

LEMMA NextCounted == Counted /\ [Attachments!Next]_(Attachments!vars) => Counted'
<1> SUFFICES ASSUME Counted, [Attachments!Next]_(Attachments!vars)
             PROVE  Counted'
  OBVIOUS
<1>1. CASE \E m \in Attachments!Media : Attachments!OpenAttachment(m)
  BY <1>1, OpenCounted
<1>2. CASE \E i \in DOMAIN attJobs : Attachments!Work(i)
  BY <1>2, WorkCounted
<1>3. CASE Attachments!Deliver
  BY <1>3, DeliverCounted
<1>4. CASE Attachments!Close
  BY <1>4 DEF Attachments!Close, Counted, Attachments!EveryClickIsAnswered
<1>5. CASE Attachments!SaveAs
  BY <1>5 DEF Attachments!SaveAs, Counted, Attachments!EveryClickIsAnswered
<1>6. CASE UNCHANGED Attachments!vars
  BY <1>6 DEF Attachments!vars, Counted, Attachments!EveryClickIsAnswered
<1> QED
  BY <1>1, <1>2, <1>3, <1>4, <1>5, <1>6 DEF Attachments!Next

\* AttachmentHandler::openAttachment answers every click: each one has led to a viewer, a
\* message box or a file, or its download or its callback is under way.
THEOREM AttachmentsAnswer == Attachments!Spec => []Attachments!EveryClickIsAnswered
<1>1. Counted => Attachments!EveryClickIsAnswered
  BY DEF Counted
<1> QED
  BY <1>1, InitCounted, NextCounted, PTL DEF Attachments!Spec

-----------------------------------------------------------------------------
(***************************************************************************)
(* The members of a room (Members): the rows follow the search text.       *)
(***************************************************************************)
LEMMA NextFiltered ==
    People!FilterApplied /\ [People!Next]_(People!vars) => People!FilterApplied'
<1> SUFFICES ASSUME People!FilterApplied, [People!Next]_(People!vars)
             PROVE  People!FilterApplied'
  OBVIOUS
<1>1. CASE UNCHANGED <<all, peoLoaded, search, timer, peoRows>>
  BY <1>1 DEF People!FilterApplied
<1>2. ASSUME NEW s \in Searches, People!Type(s) PROVE People!FilterApplied'
  BY <1>2 DEF People!Type, People!FilterApplied
<1>3. CASE People!Timeout
  BY <1>3 DEF People!Timeout, People!ApplyFilter, People!FilterApplied
<1>4. ASSUME NEW queue, People!ReloadMembers(queue) PROVE People!FilterApplied'
  BY <1>4 DEF People!ReloadMembers, People!FilterApplied
<1>5. CASE People!OnReloadClicked
  BY <1>4, <1>5 DEF People!OnReloadClicked
<1>6. CASE People!Deliver
  <2> DEFINE p == Head(peoPosted)
  <2>1. UNCHANGED search
    BY <1>6 DEF People!Deliver
  <2>2. CASE People!OnMembers(p)
    BY <2>1, <2>2 DEF People!OnMembers, People!ApplyFilter, People!FilterApplied
  <2>3. CASE People!OnInvited(p)
    BY <1>1, <1>4, <2>1, <2>3 DEF People!OnInvited, People!list
  <2>4. CASE People!OnLoaded(p) \/ People!OnAvatar(p) \/ People!OnCommandDone(p)
    BY <1>1, <2>1, <2>4 DEF People!OnLoaded, People!OnAvatar, People!OnCommandDone, People!list
  <2> QED
    BY <1>6, <2>2, <2>3, <2>4 DEF People!Deliver
<1>7. CASE People!OnInviteClicked \/ People!OnCopyMXID \/ People!Confirm \/ People!DismissBox
           \/ People!Close
  <2>1. UNCHANGED <<People!list, search>>
    BY <1>7 DEF People!OnInviteClicked, People!Ask, People!OnCopyMXID, People!Confirm,
               People!DismissBox, People!Close
  <2> QED
    BY <1>1, <2>1 DEF People!list
<1>8. ASSUME NEW u \in Persons, People!OnMemberContextMenu(u) \/ People!OnMemberClicked(u)
      PROVE  People!FilterApplied'
  BY <1>1, <1>8 DEF People!OnMemberContextMenu, People!Ask, People!OnMemberClicked, People!list
<1>9. ASSUME NEW c \in People!Commands, People!OnCommandClicked(c) PROVE People!FilterApplied'
  BY <1>1, <1>9 DEF People!OnCommandClicked, People!Ask, People!list
<1>10. ASSUME NEW i \in DOMAIN peoJobs, People!Work(i) PROVE People!FilterApplied'
  BY <1>1, <1>10 DEF People!Work, People!list
<1>11. CASE UNCHANGED People!vars
  BY <1>1, <1>11 DEF People!vars
<1> QED
  BY <1>2, <1>3, <1>5, <1>6, <1>7, <1>8, <1>9, <1>10, <1>11 DEF People!Next

-----------------------------------------------------------------------------
(***************************************************************************)
(* The members of a room: neither dialog works for nothing.  A request is  *)
(* the list's if it is by 0, and an answer that is posted is for a dialog  *)
(* that exists.                                                            *)
(***************************************************************************)
Levels      == {0, 50, 75, 100}
ByList      == {"members", "invite"}
Unsettled   == {"loading", "working"}
PeopleJob   == {j \in [kind : People!Kinds, by : Nat, user : Persons] :
                    j.by = 0 <=> j.kind \in ByList}
PeopleReply == {p \in [kind : People!Kinds, by : Nat, user : Persons, ok : BOOLEAN,
                       members : SUBSET Persons, mine : 0..100, level : Levels] :
                    p.by = 0 <=> p.kind \in ByList}
Profiles    == [n : Nat \ {0}, user : Persons, level : Levels, admin : BOOLEAN,
                status : People!Settled \cup Unsettled, avatar : BOOLEAN]
Asking      == [kind : {"invite", "menu", "kick", "ban", "message"}, by : Nat, user : Persons]

PeopleTypes ==
    /\ joined \subseteq Persons /\ power \in [Persons -> Levels]
    /\ peoJobs \in Seq(PeopleJob) /\ peoPosted \in Seq(PeopleReply)
    /\ peoStatus \in People!Settled \cup Unsettled
    /\ profile = People!NoProfile \/ profile \in Profiles
    /\ box = People!NoBox \/ box \in Asking
    /\ box.kind \in {"kick", "ban"} => profile \in Profiles
    /\ peoCount \in Nat
    /\ \A i \in DOMAIN peoPosted : peoPosted[i].by \in {0, profile.n}

\* A request of a kind is under way for the n-th profile, or the list.
Asked(n, kinds) ==
    \/ \E i \in DOMAIN peoJobs : peoJobs[i].by = n /\ peoJobs[i].kind \in kinds
    \/ \E i \in DOMAIN peoPosted : peoPosted[i].by = n /\ peoPosted[i].kind \in kinds

ListSettles == peoShown /\ peoStatus \in Unsettled => Asked(0, ByList)

ProfileSettles ==
    profile \in Profiles =>
        /\ profile.status = "loading" => profile.avatar \/ Asked(profile.n, {"load"})
        /\ profile.status = "working" => Asked(profile.n, People!Commands)

PeopleInv == PeopleTypes /\ ListSettles /\ ProfileSettles

LEMMA InitPeople == People!ConstantsOK /\ People!Init => PeopleInv
<1> SUFFICES ASSUME People!ConstantsOK, People!Init PROVE PeopleInv
  OBVIOUS
<1>1. People!NoOne \in Persons
  BY DEF People!ConstantsOK, People!NoOne
<1>2. peoJobs = <<[kind |-> "members", by |-> 0, user |-> People!NoOne]>> /\ peoPosted = <<>>
  BY DEF People!Init, People!Job
<1>3. [kind |-> "members", by |-> 0, user |-> People!NoOne] \in PeopleJob
  BY <1>1 DEF PeopleJob, People!Kinds, ByList
<1>4. peoJobs \in Seq(PeopleJob) /\ peoPosted \in Seq(PeopleReply) /\ DOMAIN peoPosted = {}
  BY <1>2, <1>3
<1>5. power \in [Persons -> Levels]
  BY DEF People!ConstantsOK, People!Init, Levels
<1>6. Asked(0, ByList)
  BY <1>2 DEF Asked, ByList
<1> QED
  BY <1>4, <1>5, <1>6
  DEF People!Init, PeopleInv, PeopleTypes, ListSettles, ProfileSettles, Unsettled, Profiles,
      People!NoProfile, People!NoBox

\* A request that is made is under way, with those that were.
LEMMA AskedOnAppend ==
    ASSUME peoJobs \in Seq(PeopleJob), NEW j \in PeopleJob, peoJobs' = Append(peoJobs, j),
           UNCHANGED peoPosted, NEW n, NEW kinds
    PROVE  /\ peoJobs' \in Seq(PeopleJob)
           /\ Asked(n, kinds) => Asked(n, kinds)'
           /\ j.by = n /\ j.kind \in kinds => Asked(n, kinds)'
<1>1. /\ Len(peoJobs) \in Nat /\ DOMAIN peoJobs = 1..Len(peoJobs)
      /\ DOMAIN peoJobs' = 1..(Len(peoJobs) + 1) /\ peoJobs' \in Seq(PeopleJob)
      /\ \A i \in 1..Len(peoJobs) : peoJobs'[i] = peoJobs[i]
      /\ peoJobs'[Len(peoJobs) + 1] = j
  OBVIOUS
<1>2. \A i \in DOMAIN peoJobs : i \in DOMAIN peoJobs' /\ peoJobs'[i] = peoJobs[i]
  BY <1>1
<1>3. Len(peoJobs) + 1 \in DOMAIN peoJobs'
  BY <1>1
<1> QED
  BY <1>1, <1>2, <1>3 DEF Asked

\* An answer that is delivered was the one under way, or the others are.
LEMMA AskedOnTail ==
    ASSUME peoPosted \in Seq(PeopleReply), peoPosted # <<>>, peoPosted' = Tail(peoPosted),
           NEW n, NEW kinds, Asked(n, kinds)
    PROVE  \/ Head(peoPosted).by = n /\ Head(peoPosted).kind \in kinds
           \/ \E i \in DOMAIN peoJobs : peoJobs[i].by = n /\ peoJobs[i].kind \in kinds
           \/ \E i \in DOMAIN peoPosted' :
                  peoPosted'[i].by = n /\ peoPosted'[i].kind \in kinds
<1>1. ASSUME NEW i \in DOMAIN peoPosted, i # 1
      PROVE  i - 1 \in DOMAIN peoPosted' /\ peoPosted'[i - 1] = peoPosted[i]
  BY <1>1
<1>2. Head(peoPosted) = peoPosted[1]
  OBVIOUS
<1> QED
  BY <1>1, <1>2 DEF Asked

LEMMA CommandPeople ==
    ASSUME PeopleInv, profile \in Profiles, NEW c \in People!Commands, People!Command(c),
           UNCHANGED <<joined, power, peoPosted, peoStatus, peoShown, peoCount>>,
           box' = People!NoBox
    PROVE  PeopleInv'
<1> DEFINE j == [kind |-> c, by |-> profile.n, user |-> profile.user]
<1>1. /\ profile' = [profile EXCEPT !.status = "working"] /\ peoJobs' = Append(peoJobs, j)
  BY DEF People!Command, People!Job
<1>2. /\ profile' \in Profiles /\ profile'.n = profile.n /\ profile'.status = "working"
  BY <1>1 DEF Profiles, Unsettled
<1>3. j \in PeopleJob /\ j.by = profile.n /\ j.kind \in People!Commands
  BY DEF PeopleJob, People!Kinds, People!Commands, ByList, Profiles
<1> HIDE DEF j
<1>4. /\ peoJobs' \in Seq(PeopleJob) /\ Asked(profile.n, People!Commands)'
      /\ \A n, kinds : Asked(n, kinds) => Asked(n, kinds)'
  BY <1>1, <1>3, AskedOnAppend DEF PeopleInv, PeopleTypes
<1>5. PeopleTypes'
  BY <1>2, <1>4 DEF PeopleInv, PeopleTypes, People!NoBox
<1>6. ListSettles'
  BY <1>4 DEF PeopleInv, ListSettles
<1>7. ProfileSettles'
  BY <1>2, <1>4 DEF PeopleInv, ProfileSettles
<1> QED
  BY <1>5, <1>6, <1>7 DEF PeopleInv

LEMMA ConfirmPeople ==
    ASSUME PeopleInv, People!Confirm
    PROVE  PeopleInv'
<1>1. /\ UNCHANGED <<joined, power, peoPosted, peoShown, peoCount>>
      /\ box # People!NoBox
  BY DEF People!Confirm, People!server, People!life, People!NoBox
<1>2. box \in Asking
  BY <1>1 DEF PeopleInv, PeopleTypes
<1>3. CASE box.kind = "invite"
  <2> DEFINE j == [kind |-> "invite", by |-> 0, user |-> box.user]
  <2>1. /\ peoStatus' = "working" /\ peoJobs' = Append(peoJobs, j)
        /\ box' = People!NoBox /\ UNCHANGED profile
    BY <1>3 DEF People!Confirm, People!Job
  <2>2. j \in PeopleJob /\ j.by = 0 /\ j.kind \in ByList
    BY <1>2 DEF PeopleJob, People!Kinds, ByList, Asking
  <2> HIDE DEF j
  <2>3. /\ peoJobs' \in Seq(PeopleJob) /\ Asked(0, ByList)'
        /\ \A n, kinds : Asked(n, kinds) => Asked(n, kinds)'
    BY <1>1, <2>1, <2>2, AskedOnAppend DEF PeopleInv, PeopleTypes
  <2>4. PeopleTypes'
    BY <1>1, <2>1, <2>3 DEF PeopleInv, PeopleTypes, Unsettled, People!NoBox
  <2>5. ListSettles' /\ ProfileSettles'
    BY <2>1, <2>3 DEF PeopleInv, ListSettles, ProfileSettles
  <2> QED
    BY <2>4, <2>5 DEF PeopleInv
<1>4. CASE box.kind = "menu"
  <2>1. /\ UNCHANGED <<peoStatus, peoJobs, profile>>
        /\ box' = People!NoBox \/ box' = [kind |-> "message", by |-> 0, user |-> box.user]
    BY <1>4 DEF People!Confirm, People!StartVerifyForUser
  <2>2. PeopleTypes'
    BY <1>1, <1>2, <2>1 DEF PeopleInv, PeopleTypes, Asking, People!NoBox
  <2>3. ListSettles' /\ ProfileSettles'
    BY <1>1, <2>1 DEF PeopleInv, ListSettles, ProfileSettles, Asked
  <2> QED
    BY <2>2, <2>3 DEF PeopleInv
<1>5. CASE box.kind \in {"kick", "ban"}
  <2>1. /\ UNCHANGED peoStatus /\ People!Command(box.kind) /\ box' = People!NoBox
    BY <1>5 DEF People!Confirm
  <2>2. profile \in Profiles
    BY <1>5 DEF PeopleInv, PeopleTypes
  <2> QED
    BY <1>1, <1>5, <2>1, <2>2, CommandPeople DEF People!Commands
<1> QED
  BY <1>3, <1>4, <1>5 DEF People!Confirm

\* What is delivered is for a dialog that exists, and what is not stays under way.
LEMMA DeliverAsked ==
    ASSUME PeopleInv, People!Deliver
    PROVE  /\ Head(peoPosted) \in PeopleReply /\ Head(peoPosted).by \in {0, profile.n}
           /\ peoPosted' \in Seq(PeopleReply)
           /\ \A i \in DOMAIN peoPosted' : peoPosted'[i].by \in {0, profile.n}
           /\ UNCHANGED <<joined, power, box, peoShown, peoCount>>
           /\ (\A i \in DOMAIN peoJobs : i \in DOMAIN peoJobs' /\ peoJobs'[i] = peoJobs[i]) =>
                  \A n, kinds : Asked(n, kinds) =>
                      \/ Asked(n, kinds)'
                      \/ Head(peoPosted).by = n /\ Head(peoPosted).kind \in kinds
<1>1. /\ peoPosted # <<>> /\ peoPosted' = Tail(peoPosted) /\ peoPosted \in Seq(PeopleReply)
      /\ UNCHANGED <<joined, power, box, peoShown, peoCount>>
  BY DEF People!Deliver, People!server, People!life, PeopleInv, PeopleTypes
<1>2. Head(peoPosted) = peoPosted[1] /\ 1 \in DOMAIN peoPosted
  BY <1>1
<1>3. /\ peoPosted' \in Seq(PeopleReply)
      /\ \A i \in DOMAIN peoPosted' : i + 1 \in DOMAIN peoPosted /\ peoPosted'[i] = peoPosted[i + 1]
  BY <1>1
<1>4. peoPosted[1] \in PeopleReply
  BY <1>1, <1>2
<1>5. ASSUME \A i \in DOMAIN peoJobs : i \in DOMAIN peoJobs' /\ peoJobs'[i] = peoJobs[i],
             NEW n, NEW kinds, Asked(n, kinds)
      PROVE  \/ Asked(n, kinds)'
             \/ Head(peoPosted).by = n /\ Head(peoPosted).kind \in kinds
  <2>1. \/ Head(peoPosted).by = n /\ Head(peoPosted).kind \in kinds
        \/ \E i \in DOMAIN peoJobs : peoJobs[i].by = n /\ peoJobs[i].kind \in kinds
        \/ \E i \in DOMAIN peoPosted' : peoPosted'[i].by = n /\ peoPosted'[i].kind \in kinds
    BY <1>1, <1>5, AskedOnTail
  <2> QED
    BY <1>5, <2>1 DEF Asked
<1> QED
  BY <1>1, <1>2, <1>3, <1>4, <1>5 DEF PeopleInv, PeopleTypes

LEMMA ListReplyPeople ==
    ASSUME PeopleInv, People!Deliver,
           People!OnMembers(Head(peoPosted)) \/ People!OnInvited(Head(peoPosted)),
           Head(peoPosted).kind \in ByList, People!ConstantsOK
    PROVE  PeopleInv'
<1> DEFINE p == Head(peoPosted)
           j == [kind |-> "members", by |-> 0, user |-> People!NoOne]
<1>1. People!NoOne \in Persons
  BY DEF People!ConstantsOK, People!NoOne
<1>2. j \in PeopleJob /\ j.by = 0 /\ j.kind \in ByList
  BY <1>1 DEF PeopleJob, People!Kinds, ByList
<1>3. p.by = 0 /\ p.kind \notin {"load"} /\ p.kind \notin People!Commands
  BY DeliverAsked DEF ByList, People!Commands, PeopleReply
<1>4. /\ UNCHANGED profile
      /\ \/ peoStatus' \in People!Settled /\ peoJobs' = peoJobs
         \/ peoStatus' = "loading" /\ peoJobs' = Append(peoJobs, j)
  BY DEF People!OnMembers, People!OnInvited, People!ReloadMembers, People!list, People!Job,
         People!Settled
<1> HIDE DEF p, j
<1>5. /\ peoJobs' \in Seq(PeopleJob)
      /\ \A i \in DOMAIN peoJobs : i \in DOMAIN peoJobs' /\ peoJobs'[i] = peoJobs[i]
      /\ peoJobs' # peoJobs => Asked(0, ByList)'
  <2>1. CASE peoJobs' = peoJobs
    BY <2>1 DEF PeopleInv, PeopleTypes
  <2>2. CASE peoJobs' = Append(peoJobs, j)
    <3>1. /\ peoJobs \in Seq(PeopleJob) /\ Len(peoJobs) + 1 \in DOMAIN peoJobs'
          /\ peoJobs'[Len(peoJobs) + 1] = j
      BY <2>2 DEF PeopleInv, PeopleTypes
    <3>2. Asked(0, ByList)'
      BY <1>2, <3>1 DEF Asked
    <3> QED
      BY <1>2, <2>2, <3>1, <3>2
  <2> QED
    BY <1>4, <2>1, <2>2
<1>6. PeopleTypes'
  BY <1>4, <1>5, DeliverAsked DEF PeopleInv, PeopleTypes, Unsettled
<1>7. ProfileSettles'
  BY <1>3, <1>4, <1>5, DeliverAsked DEF PeopleInv, ProfileSettles, p
<1>8. ListSettles'
  <2>1. CASE peoStatus' \in People!Settled
    BY <2>1 DEF ListSettles, People!Settled, Unsettled
  <2>2. CASE peoStatus' = "loading" /\ peoJobs' = Append(peoJobs, j)
    <3>1. peoJobs' # peoJobs
      BY <2>2, <1>2 DEF PeopleInv, PeopleTypes
    <3> QED
      BY <1>5, <3>1 DEF ListSettles
  <2> QED
    BY <1>4, <2>1, <2>2
<1> QED
  BY <1>6, <1>7, <1>8 DEF PeopleInv

LEMMA ProfileReplyPeople ==
    ASSUME PeopleInv, People!Deliver,
           \/ Head(peoPosted).kind = "load" /\ People!OnLoaded(Head(peoPosted))
           \/ Head(peoPosted).kind = "avatar" /\ People!OnAvatar(Head(peoPosted))
           \/ Head(peoPosted).kind \in People!Commands /\ People!OnCommandDone(Head(peoPosted))
    PROVE  PeopleInv'
<1> DEFINE p == Head(peoPosted)
           j == [kind |-> "avatar", by |-> p.by, user |-> p.user]
<1>1. /\ p \in PeopleReply /\ p.kind \notin ByList /\ p.by # 0 /\ p.by = profile.n
      /\ profile \in Profiles
  <2>1. p \in PeopleReply /\ p.kind \notin ByList /\ p.by \in {0, profile.n}
    BY DeliverAsked DEF ByList, People!Commands
  <2> QED
    BY <2>1 DEF PeopleReply, PeopleInv, PeopleTypes, People!NoProfile
<1>2. j \in PeopleJob
  BY <1>1 DEF PeopleReply, PeopleJob, ByList, People!Kinds
<1>3. UNCHANGED peoStatus /\ (peoJobs' = peoJobs \/ peoJobs' = Append(peoJobs, j))
  BY DEF People!OnLoaded, People!OnAvatar, People!OnCommandDone, People!Job
<1>4. /\ profile' \in Profiles /\ profile'.n = profile.n
      /\ profile'.status = "loading" =>
             profile'.avatar \/ (profile.status = "loading" /\ ~profile.avatar /\ p.kind # "load")
      /\ profile'.status = "working" => profile.status = "working" /\ p.kind \notin People!Commands
  <2>1. CASE p.kind = "load" /\ People!OnLoaded(p)
    <3> DEFINE admin == profile.admin \/ (p.mine >= 50 /\ p.mine > p.level)
               seen  == [profile EXCEPT !.level = p.level, !.admin = admin]
    <3>1. admin \in BOOLEAN
      OBVIOUS
    <3>2. profile' = [seen EXCEPT !.avatar = TRUE] \/ profile' = [seen EXCEPT !.status = "empty"]
      BY <2>1 DEF People!OnLoaded
    <3> HIDE DEF admin
    <3>3. seen \in Profiles /\ seen.n = profile.n /\ seen.status = profile.status
      BY <1>1, <3>1 DEF Profiles, PeopleReply
    <3> HIDE DEF seen
    <3>4. p.kind \notin People!Commands
      BY <2>1 DEF People!Commands
    <3> QED
      BY <3>2, <3>3, <3>4 DEF Profiles, People!Settled
  <2>2. CASE p.kind = "avatar" /\ People!OnAvatar(p)
    <3>1. profile' = [profile EXCEPT !.avatar = TRUE] \/ profile' = profile
      BY <2>2 DEF People!OnAvatar
    <3>2. p.kind \notin People!Commands /\ p.kind # "load"
      BY <2>2 DEF People!Commands
    <3> QED
      BY <1>1, <3>1, <3>2 DEF Profiles
  <2>3. CASE p.kind \in People!Commands /\ People!OnCommandDone(p)
    <3>1. profile' = [profile EXCEPT !.status = "done"] \/ profile' = [profile EXCEPT !.status = "failed"]
      BY <2>3 DEF People!OnCommandDone
    <3> QED
      BY <1>1, <3>1 DEF Profiles, People!Settled
  <2> QED
    BY <2>1, <2>2, <2>3
<1> HIDE DEF p, j
<1>5. /\ peoJobs' \in Seq(PeopleJob)
      /\ \A i \in DOMAIN peoJobs : i \in DOMAIN peoJobs' /\ peoJobs'[i] = peoJobs[i]
  <2>1. peoJobs \in Seq(PeopleJob)
    BY DEF PeopleInv, PeopleTypes
  <2>2. CASE peoJobs' = Append(peoJobs, j)
    BY <1>2, <2>1, <2>2
  <2> QED
    BY <1>3, <2>1, <2>2
<1>6. PeopleTypes'
  BY <1>3, <1>4, <1>5, DeliverAsked DEF PeopleInv, PeopleTypes
<1>7. ListSettles'
  BY <1>1, <1>3, <1>5, DeliverAsked DEF PeopleInv, ListSettles, p
<1>8. ProfileSettles'
  BY <1>1, <1>4, <1>5, DeliverAsked DEF PeopleInv, ProfileSettles, p
<1> QED
  BY <1>6, <1>7, <1>8 DEF PeopleInv

LEMMA WorkPeople ==
    ASSUME PeopleInv, People!ConstantsOK, NEW i \in DOMAIN peoJobs, People!Work(i)
    PROVE  PeopleInv'
<1> DEFINE j == peoJobs[i]
<1>1. /\ peoJobs' = RemoveAt(peoJobs, i) /\ UNCHANGED <<peoStatus, profile, box, peoShown, peoCount>>
      /\ peoJobs \in Seq(PeopleJob) /\ peoPosted \in Seq(PeopleReply)
  BY DEF People!Work, People!RemoveAt, RemoveAt, PeopleInv, PeopleTypes
<1>2. j \in PeopleJob
  BY <1>1
<1>3. /\ peoJobs' \in Seq(PeopleJob)
      /\ \A m \in DOMAIN peoJobs : m # i => \E l \in DOMAIN peoJobs' : peoJobs'[l] = peoJobs[m]
  BY <1>1, RemoveAtProperties, RemoveAtElements
<1>4. CASE ~People!DialogOf(j)
  <2>1. UNCHANGED <<peoPosted, joined, power>>
    BY <1>4 DEF People!Work, People!server
  <2>2. PeopleTypes'
    BY <1>1, <1>3, <2>1 DEF PeopleInv, PeopleTypes
  <2>3. ASSUME NEW n, NEW kinds, Asked(n, kinds), n # j.by PROVE Asked(n, kinds)'
    BY <1>3, <2>1, <2>3 DEF Asked
  <2>4. (peoShown => 0 # j.by) /\ (profile \in Profiles => profile.n # j.by)
    BY <1>4 DEF People!DialogOf, Profiles
  <2>5. ListSettles'
    BY <1>1, <2>3, <2>4 DEF PeopleInv, ListSettles
  <2>6. ProfileSettles'
    BY <1>1, <2>3, <2>4 DEF PeopleInv, ProfileSettles
  <2> QED
    BY <2>2, <2>5, <2>6 DEF PeopleInv
<1>5. CASE People!DialogOf(j)
  <2>1. PICK ok \in BOOLEAN, read \in BOOLEAN :
            /\ peoPosted' = Append(peoPosted, People!Result(j, ok, read))
            /\ IF ok /\ read THEN People!Effect(j) ELSE UNCHANGED <<joined, power>>
    BY <1>5 DEF People!Work, People!server
  <2> DEFINE p == People!Result(j, ok, read)
  <2>2. joined \subseteq Persons /\ power \in [Persons -> Levels] /\ j.user \in Persons
    BY <1>2 DEF PeopleInv, PeopleTypes, PeopleJob
  <2>3. joined' \subseteq Persons /\ power' \in [Persons -> Levels]
    BY <2>1, <2>2 DEF People!Effect, People!LevelSet, Levels
  <2>4. /\ p.kind = j.kind /\ p.by = j.by /\ p.user = j.user /\ p.ok = ok
        /\ p \in [kind : People!Kinds, by : Nat, user : Persons, ok : BOOLEAN,
                  members : SUBSET Persons, mine : 0..100, level : Levels]
    BY <1>2, <2>2 DEF People!Result, PeopleJob, People!ConstantsOK, Levels
  <2>5. p \in PeopleReply
    BY <1>2, <2>4 DEF PeopleJob, PeopleReply
  <2> HIDE DEF p
  <2>6. /\ peoPosted' \in Seq(PeopleReply)
        /\ \A l \in DOMAIN peoPosted : l \in DOMAIN peoPosted' /\ peoPosted'[l] = peoPosted[l]
        /\ Len(peoPosted) + 1 \in DOMAIN peoPosted' /\ peoPosted'[Len(peoPosted) + 1] = p
        /\ \A l \in DOMAIN peoPosted' : l \in DOMAIN peoPosted \/ peoPosted'[l] = p
    BY <1>1, <2>1, <2>5 DEF p
  <2>7. ASSUME NEW n, NEW kinds, Asked(n, kinds) PROVE Asked(n, kinds)'
    BY <1>3, <2>4, <2>6, <2>7 DEF Asked
  <2>8. p.by \in {0, profile.n}
    BY <1>5, <2>4 DEF People!DialogOf
  <2>9. PeopleTypes'
    <3>1. \A l \in DOMAIN peoPosted' : peoPosted'[l].by \in {0, profile'.n}
      BY <1>1, <2>6, <2>8 DEF PeopleInv, PeopleTypes
    <3> QED
      BY <1>1, <1>3, <2>3, <2>6, <3>1 DEF PeopleInv, PeopleTypes
  <2>10. ListSettles' /\ ProfileSettles'
    BY <1>1, <2>7 DEF PeopleInv, ListSettles, ProfileSettles
  <2> QED
    BY <2>9, <2>10 DEF PeopleInv
<1> QED
  BY <1>4, <1>5

LEMMA ClosePeople ==
    ASSUME PeopleInv, People!Close
    PROVE  PeopleInv'
<1>1. /\ UNCHANGED <<joined, power, peoJobs, peoStatus, box, peoCount>>
      /\ peoPosted \in Seq(PeopleReply)
  BY DEF People!Close, People!server, PeopleInv, PeopleTypes
<1>2. box.kind \notin {"kick", "ban"}
  BY DEF People!Close, People!NoBox
<1> DEFINE K(n) == {i \in DOMAIN peoPosted : peoPosted[i].by # n}
<1>3. \A n : People!Discarded(n) = Selected(peoPosted, K(n))
  BY DEF People!Discarded, People!Selected, Selected, People!Rank, Rank,
         People!Cardinality, Cardinality
<1>4. ASSUME NEW n, peoPosted' = People!Discarded(n)
      PROVE  /\ peoPosted' \in Seq(PeopleReply)
             /\ \A l \in DOMAIN peoPosted' : \E i \in K(n) : peoPosted'[l] = peoPosted[i]
             /\ \A i \in K(n) : \E l \in DOMAIN peoPosted' : peoPosted'[l] = peoPosted[i]
  <2>1. K(n) \subseteq DOMAIN peoPosted
    OBVIOUS
  <2>2. peoPosted' = Selected(peoPosted, K(n))
    BY <1>3, <1>4
  <2> HIDE DEF K
  <2>3. /\ Cardinality(K(n)) \in Nat
        /\ peoPosted' \in Seq(PeopleReply) /\ Len(peoPosted') = Cardinality(K(n))
        /\ \A l \in 1..Cardinality(K(n)) : \E i \in K(n) : peoPosted'[l] = peoPosted[i]
        /\ \A i \in K(n) : \E l \in 1..Cardinality(K(n)) : peoPosted'[l] = peoPosted[i]
    BY <1>1, <2>1, <2>2, SelectedProperties
  <2>4. DOMAIN peoPosted' = 1..Cardinality(K(n))
    BY <2>3, LenProperties
  <2> QED
    BY <2>3, <2>4
<1>5. CASE profile \in Profiles
  <2>1. /\ profile' = People!NoProfile /\ peoPosted' = People!Discarded(profile.n)
        /\ UNCHANGED peoShown /\ profile'.n = 0 /\ profile.n # 0
    BY <1>5 DEF People!Close, Profiles, People!NoProfile
  <2>2. \A l \in DOMAIN peoPosted' : peoPosted'[l].by = 0
    BY <1>4, <2>1 DEF PeopleInv, PeopleTypes
  <2>3. PeopleTypes'
    BY <1>1, <1>2, <1>4, <2>1, <2>2 DEF PeopleInv, PeopleTypes
  <2>4. Asked(0, ByList) => Asked(0, ByList)'
    BY <1>1, <1>4, <2>1 DEF Asked
  <2>5. ListSettles' /\ ProfileSettles'
    BY <1>1, <2>1, <2>4 DEF PeopleInv, ListSettles, ProfileSettles, Profiles
  <2> QED
    BY <2>3, <2>5 DEF PeopleInv
<1>6. CASE profile = People!NoProfile
  <2>1. UNCHANGED profile /\ ~peoShown' /\ peoPosted' = People!Discarded(0) /\ profile.n = 0
    BY <1>6 DEF People!Close, People!NoProfile
  <2>2. \A l \in DOMAIN peoPosted' : peoPosted'[l].by \in {0, profile.n}
    BY <1>4, <2>1 DEF PeopleInv, PeopleTypes
  <2>3. PeopleTypes'
    BY <1>1, <1>4, <2>1, <2>2 DEF PeopleInv, PeopleTypes
  <2>4. ListSettles' /\ ProfileSettles'
    BY <1>6, <2>1 DEF ListSettles, ProfileSettles, Profiles
  <2> QED
    BY <2>3, <2>4 DEF PeopleInv
<1> QED
  BY <1>5, <1>6 DEF PeopleInv, PeopleTypes

\* What the user does and a worker or callback is not needed for.
LEMMA UserPeople ==
    ASSUME PeopleInv, People!ConstantsOK,
           \/ \E s \in Searches : People!Type(s)
           \/ People!Timeout \/ People!OnReloadClicked \/ People!OnInviteClicked
           \/ People!OnCopyMXID \/ People!DismissBox
           \/ \E u \in Persons : People!OnMemberContextMenu(u) \/ People!OnMemberClicked(u)
           \/ \E c \in People!Commands : People!OnCommandClicked(c)
    PROVE  PeopleInv'
<1>1. CASE UNCHANGED <<joined, power, peoJobs, peoPosted, peoStatus, profile, box, peoShown, peoCount>>
  BY <1>1 DEF PeopleInv, PeopleTypes, ListSettles, ProfileSettles, Asked
<1>2. CASE \E s \in Searches : People!Type(s)
  BY <1>1, <1>2 DEF People!Type, People!server, People!life
<1>3. CASE People!Timeout
  BY <1>1, <1>3 DEF People!Timeout, People!server, People!life
<1>4. CASE People!OnReloadClicked
  <2> DEFINE j == [kind |-> "members", by |-> 0, user |-> People!NoOne]
  <2>1. /\ peoStatus' = "loading" /\ peoJobs' = Append(peoJobs, j)
        /\ UNCHANGED <<joined, power, peoPosted, profile, box, peoShown, peoCount>>
    BY <1>4 DEF People!OnReloadClicked, People!ReloadMembers, People!Job, People!server, People!life
  <2>2. People!NoOne \in Persons
    BY DEF People!ConstantsOK, People!NoOne
  <2>3. j \in PeopleJob /\ j.by = 0 /\ j.kind \in ByList
    BY <2>2 DEF PeopleJob, People!Kinds, ByList
  <2> HIDE DEF j
  <2>4. /\ peoJobs' \in Seq(PeopleJob) /\ Asked(0, ByList)'
        /\ \A n, kinds : Asked(n, kinds) => Asked(n, kinds)'
    BY <2>1, <2>3, AskedOnAppend DEF PeopleInv, PeopleTypes
  <2>5. PeopleTypes'
    BY <2>1, <2>4 DEF PeopleInv, PeopleTypes, Unsettled
  <2>6. ListSettles' /\ ProfileSettles'
    BY <2>1, <2>4 DEF PeopleInv, ListSettles, ProfileSettles
  <2> QED
    BY <2>5, <2>6 DEF PeopleInv
<1>5. ASSUME NEW kind \in {"invite", "menu", "kick", "ban"}, NEW u \in Persons, People!Ask(kind, u),
             kind \in {"kick", "ban"} => profile \in Profiles
      PROVE  PeopleInv'
  <2>1. /\ box' = [kind |-> kind, by |-> profile.n, user |-> u] /\ profile.n \in Nat
        /\ UNCHANGED <<joined, power, peoJobs, peoPosted, peoStatus, profile, peoShown, peoCount>>
    BY <1>5 DEF People!Ask, People!server, People!life, PeopleInv, PeopleTypes, Profiles,
                People!NoProfile
  <2>2. PeopleTypes'
    BY <1>5, <2>1 DEF PeopleInv, PeopleTypes, Asking
  <2>3. ListSettles' /\ ProfileSettles'
    BY <2>1 DEF PeopleInv, ListSettles, ProfileSettles, Asked
  <2> QED
    BY <2>2, <2>3 DEF PeopleInv
<1>6. CASE People!OnInviteClicked
  BY <1>5, <1>6 DEF People!OnInviteClicked
<1>7. ASSUME NEW u \in Persons, People!OnMemberContextMenu(u) PROVE PeopleInv'
  BY <1>5, <1>7 DEF People!OnMemberContextMenu
<1>8. CASE People!OnCopyMXID
  <2>1. /\ profile' = [profile EXCEPT !.status = "done"] /\ profile \in Profiles
        /\ UNCHANGED <<joined, power, peoJobs, peoPosted, peoStatus, box, peoShown, peoCount>>
    BY <1>8 DEF People!OnCopyMXID, People!InProfile, People!server, People!life, PeopleInv,
                PeopleTypes
  <2>2. profile' \in Profiles /\ profile'.n = profile.n /\ profile'.status = "done"
    BY <2>1 DEF Profiles, People!Settled
  <2>3. PeopleTypes'
    BY <2>1, <2>2 DEF PeopleInv, PeopleTypes
  <2>4. ListSettles' /\ ProfileSettles'
    BY <2>1, <2>2 DEF PeopleInv, ListSettles, ProfileSettles, Asked
  <2> QED
    BY <2>3, <2>4 DEF PeopleInv
<1>9. CASE People!DismissBox
  <2>1. /\ box' = People!NoBox /\ box'.kind \notin {"kick", "ban"}
        /\ UNCHANGED <<joined, power, peoJobs, peoPosted, peoStatus, profile, peoShown, peoCount>>
    BY <1>9 DEF People!DismissBox, People!server, People!life, People!NoBox
  <2>2. PeopleTypes'
    BY <2>1 DEF PeopleInv, PeopleTypes
  <2>3. ListSettles' /\ ProfileSettles'
    BY <2>1 DEF PeopleInv, ListSettles, ProfileSettles, Asked
  <2> QED
    BY <2>2, <2>3 DEF PeopleInv
<1>10. ASSUME NEW u \in Persons, People!OnMemberClicked(u) PROVE PeopleInv'
  <2> DEFINE n == peoCount + 1
             j == [kind |-> "load", by |-> n, user |-> u]
  <2>1. /\ profile' = [n |-> n, user |-> u, level |-> 0, admin |-> FALSE,
                       status |-> "loading", avatar |-> FALSE]
        /\ peoCount' = n /\ peoJobs' = Append(peoJobs, j) /\ profile = People!NoProfile
        /\ UNCHANGED <<joined, power, peoPosted, peoStatus, box, peoShown>>
    BY <1>10 DEF People!OnMemberClicked, People!InList, People!Job, People!server
  <2>2. n \in Nat \ {0}
    BY DEF PeopleInv, PeopleTypes
  <2>3. /\ profile' \in Profiles /\ profile'.n = n /\ profile'.status = "loading"
    BY <2>1, <2>2 DEF Profiles, Levels, Unsettled
  <2>4. j \in PeopleJob /\ j.by = n /\ j.kind \in {"load"}
    BY <2>2 DEF PeopleJob, People!Kinds, ByList
  <2> HIDE DEF j, n
  <2>5. /\ peoJobs' \in Seq(PeopleJob) /\ Asked(peoCount, {"load"})'
        /\ \A m, kinds : Asked(m, kinds) => Asked(m, kinds)'
    <3>1. /\ peoJobs' \in Seq(PeopleJob)
          /\ \A m, kinds : /\ Asked(m, kinds) => Asked(m, kinds)'
                           /\ m = n /\ "load" \in kinds => Asked(m, kinds)'
      BY <2>1, <2>4, AskedOnAppend DEF PeopleInv, PeopleTypes
    <3> QED
      BY <2>1, <3>1
  <2>6. \A i \in DOMAIN peoPosted' : peoPosted'[i].by = 0
    BY <2>1 DEF PeopleInv, PeopleTypes, People!NoProfile
  <2>7. PeopleTypes'
    BY <2>1, <2>2, <2>3, <2>5, <2>6 DEF PeopleInv, PeopleTypes
  <2>8. ListSettles' /\ ProfileSettles'
    BY <2>1, <2>3, <2>5 DEF PeopleInv, ListSettles, ProfileSettles
  <2> QED
    BY <2>7, <2>8 DEF PeopleInv
<1>11. ASSUME NEW c \in People!Commands, People!OnCommandClicked(c) PROVE PeopleInv'
  <2>1. profile \in Profiles /\ profile.user \in Persons /\ box = People!NoBox
    BY <1>11 DEF People!OnCommandClicked, People!InProfile, PeopleInv, PeopleTypes, Profiles
  <2>2. CASE c \in {"kick", "ban"}
    BY <1>5, <1>11, <2>1, <2>2 DEF People!OnCommandClicked
  <2>3. CASE c \notin {"kick", "ban"}
    <3>1. /\ People!Command(c) /\ box' = People!NoBox
          /\ UNCHANGED <<joined, power, peoPosted, peoStatus, peoShown, peoCount>>
      BY <1>11, <2>1, <2>3 DEF People!OnCommandClicked, People!server, People!life
    <3> QED
      BY <2>1, <3>1, CommandPeople
  <2> QED
    BY <2>2, <2>3
<1> QED
  BY <1>2, <1>3, <1>4, <1>6, <1>7, <1>8, <1>9, <1>10, <1>11

LEMMA NextPeople ==
    People!ConstantsOK /\ PeopleInv /\ [People!Next]_(People!vars) => PeopleInv'
<1> SUFFICES ASSUME People!ConstantsOK, PeopleInv, [People!Next]_(People!vars)
             PROVE  PeopleInv'
  OBVIOUS
<1>1. CASE People!Deliver
  BY <1>1, ListReplyPeople, ProfileReplyPeople DEF People!Deliver, ByList
<1>2. ASSUME NEW i \in DOMAIN peoJobs, People!Work(i) PROVE PeopleInv'
  BY <1>2, WorkPeople
<1>3. CASE UNCHANGED People!vars
  BY <1>3 DEF People!vars, PeopleInv, PeopleTypes, ListSettles, ProfileSettles, Asked
<1> QED
  BY <1>1, <1>2, <1>3, UserPeople, ConfirmPeople, ClosePeople DEF People!Next

LEMMA PeopleSettle == PeopleInv => People!StatusSettles
<1> SUFFICES ASSUME PeopleInv PROVE People!StatusSettles
  OBVIOUS
<1>1. ASSUME NEW n, NEW kinds, Asked(n, kinds) PROVE People!WorkFor(n)
  BY <1>1 DEF Asked, People!WorkFor, People!ToSet
<1>2. peoShown /\ ~People!WorkFor(0) => peoStatus \in People!Settled
  BY <1>1 DEF PeopleInv, PeopleTypes, ListSettles
<1>3. profile # People!NoProfile => profile \in Profiles
  BY DEF PeopleInv, PeopleTypes
<1>4. profile \in Profiles /\ ~People!WorkFor(profile.n) =>
          profile.status \in People!Settled \/ (profile.status = "loading" /\ profile.avatar)
  BY <1>1 DEF PeopleInv, ProfileSettles, Profiles, Unsettled
<1> QED
  BY <1>2, <1>3, <1>4 DEF People!StatusSettles

\* The rows of the member list are those that the search text asks for (MemberListDialog).
THEOREM MembersFiltered == People!Spec => []People!FilterApplied
<1>1. People!Init => People!FilterApplied
  BY DEF People!Init, People!FilterApplied
<1> QED
  BY <1>1, NextFiltered, PTL DEF People!Spec

\* Neither dialog about members works for nothing (MemberListDialog, MemberProfileDialog).
THEOREM MembersSettle == ASSUME People!ConstantsOK PROVE People!Spec => []People!StatusSettles
<1>1. People!Init => PeopleInv
  BY InitPeople
<1>2. PeopleInv /\ [People!Next]_(People!vars) => PeopleInv'
  BY NextPeople
<1> QED
  BY <1>1, <1>2, PeopleSettle, PTL DEF People!Spec

-----------------------------------------------------------------------------
(***************************************************************************)
(* Verification: what is asked is to be decided, and nobody waits unseen.  *)
(*                                                                         *)
(* A banner's transaction never gets further than being requested, and a   *)
(* dialog's never back to before its keys, so an event of another one      *)
(* takes no question away.  A transaction that has keys and no dialog is   *)
(* announced, or the end of another one is, which will surface it.         *)
(***************************************************************************)
Over == {"done", "cancelled"}

VerifyingTypes ==
    /\ state \in [Txns -> Verifying!States] /\ verPosted \in Seq(Txns \cup {NoTxn})
    /\ banner \in Txns \cup {NoTxn} /\ dialog \in Txns \cup {NoTxn}
    /\ window \in Verifying!Windows
    /\ (dialog = NoTxn) <=> (window = "none")

StatesFit ==
    /\ banner # NoTxn => state[banner] \in {"requested", "cancelled"}
    /\ dialog # NoTxn => state[dialog] \in {"keys", "matched"} \cup Over

NobodyWaits ==
    ~closed => /\ ~Verifying!Awaited(NoTxn)
               /\ dialog = NoTxn =>
                      \/ \A t \in Txns : state[t] = "keys" => Verifying!Awaited(t)
                      \/ \E u \in Txns : Verifying!Awaited(u) /\ state[u] \in Over

VerifyingInv == VerifyingTypes /\ StatesFit /\ Verifying!QuestionsAreCurrent /\ NobodyWaits

LEMMA InitVerifying == Verifying!ConstantsOK /\ Verifying!Init => VerifyingInv
<1> SUFFICES ASSUME Verifying!ConstantsOK, Verifying!Init PROVE VerifyingInv
  OBVIOUS
<1>1. verPosted \in Seq(Txns \cup {NoTxn})
  BY DEF Verifying!Init
<1> QED
  BY <1>1 DEF VerifyingInv, VerifyingTypes, StatesFit, Verifying!QuestionsAreCurrent, NobodyWaits,
      Verifying!Init, Verifying!States, Verifying!Windows, Verifying!Awaited

\* A transaction that changes is announced.
LEMMA BecomesAwaited ==
    ASSUME VerifyingInv, NEW t \in Txns \cup {NoTxn}, verPosted' = Append(verPosted, t)
    PROVE  /\ verPosted' \in Seq(Txns \cup {NoTxn})
           /\ \A u : Verifying!Awaited(u)' <=> (Verifying!Awaited(u) \/ u = t)
<1>1. /\ verPosted \in Seq(Txns \cup {NoTxn}) /\ verPosted' \in Seq(Txns \cup {NoTxn})
      /\ Len(verPosted) \in Nat
  BY DEF VerifyingInv, VerifyingTypes
<1>2. /\ DOMAIN verPosted = 1..Len(verPosted) /\ DOMAIN verPosted' = 1..(Len(verPosted) + 1)
      /\ verPosted'[Len(verPosted) + 1] = t
      /\ \A i \in 1..Len(verPosted) : verPosted'[i] = verPosted[i]
  BY <1>1
<1>3. ASSUME NEW u, Verifying!Awaited(u) \/ u = t PROVE Verifying!Awaited(u)'
  BY <1>1, <1>2, <1>3 DEF Verifying!Awaited
<1>4. ASSUME NEW u, Verifying!Awaited(u)' PROVE Verifying!Awaited(u) \/ u = t
  BY <1>1, <1>2, <1>4 DEF Verifying!Awaited
<1> QED
  BY <1>1, <1>3, <1>4

\* One that goes on, from where and to where its questions allow.
LEMMA BecomesVerifying ==
    ASSUME Verifying!ConstantsOK, VerifyingInv, NEW t \in Txns, NEW s \in Verifying!States,
           Verifying!Becomes(t, s), state[t] \notin Over,
           banner' = banner \/ banner' = NoTxn, UNCHANGED <<dialog, closed>>,
           window' = window \/ (window = "open" /\ window' = "answered"),
           banner' = t => s \in {"requested", "cancelled"},
           dialog = t => s \in {"keys", "matched"} \cup Over
    PROVE  VerifyingInv'
<1>1. state' = [state EXCEPT ![t] = s] /\ verPosted' = Append(verPosted, t) /\ t # NoTxn
  BY DEF Verifying!Becomes, Verifying!ConstantsOK
<1>2. /\ verPosted' \in Seq(Txns \cup {NoTxn})
      /\ \A u : Verifying!Awaited(u)' <=> (Verifying!Awaited(u) \/ u = t)
  BY <1>1, BecomesAwaited
<1>3. /\ state' \in [Txns -> Verifying!States] /\ state'[t] = s
      /\ \A u \in Txns : u # t => state'[u] = state[u]
  BY <1>1 DEF VerifyingInv, VerifyingTypes
<1>4. VerifyingTypes'
  BY <1>2, <1>3 DEF VerifyingInv, VerifyingTypes, Verifying!Windows
<1>5. StatesFit'
  BY <1>3 DEF VerifyingInv, VerifyingTypes, StatesFit
<1>6. Verifying!QuestionsAreCurrent'
  <2> DEFINE Told(u) == \E i \in DOMAIN verPosted' : verPosted'[i] = u
  <2>2. \A u : Verifying!Awaited(u) \/ u = t => Told(u)
    BY <1>2 DEF Verifying!Awaited
  <2>3. banner' # NoTxn => state'[banner'] = "requested" \/ Told(banner')
    <3>1. SUFFICES ASSUME banner' # NoTxn, banner # t
                   PROVE  state'[banner'] = "requested" \/ Told(banner')
      BY <2>2
    <3>2. banner' = banner /\ banner \in Txns /\ state'[banner] = state[banner]
      BY <1>3, <3>1 DEF VerifyingInv, VerifyingTypes
    <3> QED
      BY <2>2, <3>1, <3>2 DEF VerifyingInv, Verifying!QuestionsAreCurrent
  <2>4. window' \in {"open", "answered"} => state'[dialog'] \in {"keys", "matched"} \/ Told(dialog')
    <3>1. SUFFICES ASSUME window' \in {"open", "answered"}, dialog # t
                   PROVE  state'[dialog'] \in {"keys", "matched"} \/ Told(dialog')
      BY <2>2
    <3>2. dialog' = dialog /\ dialog \in Txns /\ state'[dialog] = state[dialog]
          /\ window \in {"open", "answered"}
      BY <1>3, <3>1 DEF VerifyingInv, VerifyingTypes
    <3> QED
      BY <2>2, <3>1, <3>2 DEF VerifyingInv, Verifying!QuestionsAreCurrent
  <2> QED
    BY <2>3, <2>4 DEF Verifying!QuestionsAreCurrent, Verifying!Awaited
<1>7. NobodyWaits'
  <2>1. SUFFICES ASSUME ~closed PROVE NobodyWaits'
    BY DEF NobodyWaits
  <2>2. ~Verifying!Awaited(NoTxn)'
    BY <1>1, <1>2, <2>1 DEF VerifyingInv, NobodyWaits
  <2>3. CASE \A u \in Txns : state[u] = "keys" => Verifying!Awaited(u)
    BY <1>2, <1>3, <2>2, <2>3 DEF NobodyWaits
  <2>4. ASSUME NEW u \in Txns, Verifying!Awaited(u), state[u] \in Over PROVE NobodyWaits'
    BY <1>2, <1>3, <2>2, <2>4 DEF NobodyWaits
  <2> QED
    BY <2>1, <2>2, <2>3, <2>4 DEF VerifyingInv, NobodyWaits
<1> QED
  BY <1>4, <1>5, <1>6, <1>7 DEF VerifyingInv

LEMMA TxnVerifying ==
    ASSUME Verifying!ConstantsOK, VerifyingInv, NEW t \in Txns,
           Verifying!Incoming(t) \/ Verifying!Start(t)
    PROVE  VerifyingInv'
<1>1. UNCHANGED <<banner, dialog, window, closed>>
  BY DEF Verifying!Incoming, Verifying!Start
<1>2. \E s \in Verifying!States :
          /\ Verifying!Becomes(t, s)
          /\ \/ state[t] = "none" /\ s \in {"requested", "begun"}
             \/ state[t] = "begun" /\ s = "keys"
             \/ state[t] = "matched" /\ s = "done"
             \/ state[t] \in Verifying!Active /\ s = "cancelled"
  BY DEF Verifying!Incoming, Verifying!Start, Verifying!States
<1>3. PICK s \in Verifying!States :
          /\ Verifying!Becomes(t, s)
          /\ \/ state[t] = "none" /\ s \in {"requested", "begun"}
             \/ state[t] = "begun" /\ s = "keys"
             \/ state[t] = "matched" /\ s = "done"
             \/ state[t] \in Verifying!Active /\ s = "cancelled"
  BY <1>2
<1>4. t # NoTxn
  BY DEF Verifying!ConstantsOK
<1>5. state[t] \notin Over
  BY <1>3 DEF Over, Verifying!Active
<1>6. banner' = t => s \in {"requested", "cancelled"}
  BY <1>1, <1>3, <1>4 DEF VerifyingInv, StatesFit
<1>7. dialog = t => s \in {"keys", "matched"} \cup Over
  BY <1>3, <1>4 DEF VerifyingInv, StatesFit, Over
<1> QED
  BY <1>1, <1>3, <1>5, <1>6, <1>7, BecomesVerifying

\* A question that is answered late.
LEMMA QuietVerifying ==
    ASSUME VerifyingInv, UNCHANGED <<state, verPosted, dialog, closed>>,
           banner' = banner \/ banner' = NoTxn,
           window' = window \/ (window = "open" /\ window' = "answered")
    PROVE  VerifyingInv'
<1>1. VerifyingTypes'
  BY DEF VerifyingInv, VerifyingTypes, Verifying!Windows
<1>2. StatesFit' /\ Verifying!QuestionsAreCurrent'
  BY DEF VerifyingInv, StatesFit, Verifying!QuestionsAreCurrent, Verifying!Awaited
<1>3. NobodyWaits'
  BY DEF VerifyingInv, NobodyWaits, Verifying!Awaited
<1> QED
  BY <1>1, <1>2, <1>3 DEF VerifyingInv

LEMMA AnswerVerifying ==
    ASSUME Verifying!ConstantsOK, VerifyingInv,
           Verifying!Accept \/ Verifying!Reject \/ Verifying!Match
    PROVE  VerifyingInv'
<1>1. CASE Verifying!Accept
  <2>1. /\ banner \in Txns /\ banner' = NoTxn /\ banner # NoTxn /\ UNCHANGED <<dialog, window, closed>>
    BY <1>1 DEF Verifying!Accept, VerifyingInv, VerifyingTypes
  <2>2. CASE state[banner] = "requested" /\ Verifying!Becomes(banner, "begun")
    <3>1. dialog # banner
      BY <2>1, <2>2 DEF VerifyingInv, StatesFit, Over
    <3> QED
      BY <2>1, <2>2, <3>1, BecomesVerifying DEF Verifying!States, Over
  <2>3. CASE UNCHANGED <<state, verPosted>>
    BY <2>1, <2>3, QuietVerifying
  <2> QED
    BY <1>1, <2>2, <2>3 DEF Verifying!Accept, Verifying!Asked
<1>2. CASE Verifying!Reject
  <2>1. /\ banner \in Txns /\ banner' = NoTxn /\ banner # NoTxn /\ UNCHANGED <<dialog, window, closed>>
    BY <1>2 DEF Verifying!Reject, VerifyingInv, VerifyingTypes
  <2>2. CASE state[banner] \in Verifying!Active /\ Verifying!Becomes(banner, "cancelled")
    BY <2>1, <2>2, BecomesVerifying DEF Verifying!States, Verifying!Active, Over
  <2>3. CASE UNCHANGED <<state, verPosted>>
    BY <2>1, <2>3, QuietVerifying
  <2> QED
    BY <1>2, <2>2, <2>3 DEF Verifying!Reject, Verifying!Asked
<1>3. CASE Verifying!Match
  <2>1. /\ dialog \in Txns /\ window = "open" /\ window' = "answered"
        /\ UNCHANGED <<banner, dialog, closed>>
    BY <1>3 DEF Verifying!Match, VerifyingInv, VerifyingTypes
  <2>2. CASE state[dialog] = "keys" /\ Verifying!Becomes(dialog, "matched")
    <3>1. banner # dialog
      BY <2>1, <2>2 DEF VerifyingInv, StatesFit, Verifying!ConstantsOK
    <3> QED
      BY <2>1, <2>2, <3>1, BecomesVerifying DEF Verifying!States, Over
  <2>3. CASE UNCHANGED <<state, verPosted>>
    BY <2>1, <2>3, QuietVerifying
  <2> QED
    BY <1>3, <2>2, <2>3 DEF Verifying!Match, Verifying!Asked
<1> QED
  BY <1>1, <1>2, <1>3

\* Once the dialog is gone, the end of its transaction brings up the next one.
LEMMA MismatchVerifying ==
    ASSUME Verifying!ConstantsOK, VerifyingInv, Verifying!Mismatch
    PROVE  VerifyingInv'
<1>1. /\ dialog \in Txns /\ dialog # NoTxn /\ dialog' = NoTxn /\ window = "open" /\ window' = "none"
      /\ UNCHANGED <<banner, closed>>
  BY DEF Verifying!Mismatch, VerifyingInv, VerifyingTypes, Verifying!ConstantsOK
<1> DEFINE Told(u) == \E i \in DOMAIN verPosted' : verPosted'[i] = u
<1>2. /\ verPosted' \in Seq(Txns \cup {NoTxn}) /\ state' \in [Txns -> Verifying!States]
      /\ \A u : Verifying!Awaited(u) => Told(u)
      /\ Told(NoTxn) => Verifying!Awaited(NoTxn)
      /\ \A u \in Txns : state'[u] = state[u] \/ (u = dialog /\ state'[u] = "cancelled" /\ Told(u))
      /\ Told(dialog) /\ state'[dialog] \in Over
  <2>1. CASE state[dialog] \in Verifying!Active /\ Verifying!Becomes(dialog, "cancelled")
    <3>1. state' = [state EXCEPT ![dialog] = "cancelled"] /\ verPosted' = Append(verPosted, dialog)
      BY <2>1 DEF Verifying!Becomes
    <3>2. /\ verPosted' \in Seq(Txns \cup {NoTxn})
          /\ \A u : Told(u) <=> (Verifying!Awaited(u) \/ u = dialog)
      BY <1>1, <3>1, BecomesAwaited DEF Verifying!Awaited
    <3>3. /\ state' \in [Txns -> Verifying!States] /\ state'[dialog] = "cancelled"
          /\ \A u \in Txns : u # dialog => state'[u] = state[u]
      BY <1>1, <3>1 DEF VerifyingInv, VerifyingTypes, Verifying!States
    <3> HIDE DEF Told
    <3> QED
      BY <1>1, <3>2, <3>3 DEF Over
  <2>2. CASE state[dialog] \notin Verifying!Active /\ UNCHANGED <<state, verPosted>>
    <3>1. state[dialog] \in Over /\ Verifying!Awaited(dialog)
      BY <1>1, <2>2 DEF VerifyingInv, StatesFit, Verifying!QuestionsAreCurrent, Over, Verifying!Active
    <3> QED
      BY <2>2, <3>1 DEF VerifyingInv, VerifyingTypes, Verifying!Awaited
  <2> QED
    BY <2>1, <2>2 DEF Verifying!Mismatch, Verifying!Asked
<1> HIDE DEF Told
<1>3. VerifyingTypes'
  BY <1>1, <1>2 DEF VerifyingInv, VerifyingTypes, Verifying!Windows
<1>4. StatesFit'
  BY <1>1, <1>2 DEF VerifyingInv, VerifyingTypes, StatesFit
<1>5. banner' # NoTxn => state'[banner'] = "requested" \/ Told(banner')
  BY <1>1, <1>2 DEF VerifyingInv, VerifyingTypes, Verifying!QuestionsAreCurrent
<1>6. Verifying!QuestionsAreCurrent'
  BY <1>1, <1>5 DEF Verifying!QuestionsAreCurrent, Verifying!Awaited, Told
<1>7. NobodyWaits'
  <2>1. ~closed => ~Told(NoTxn)
    BY <1>2 DEF VerifyingInv, NobodyWaits
  <2>2. \E u \in Txns : Told(u) /\ state'[u] \in Over
    BY <1>1, <1>2
  <2> QED
    BY <1>1, <2>1, <2>2 DEF NobodyWaits, Verifying!Awaited, Told
<1> QED
  BY <1>3, <1>4, <1>6, <1>7 DEF VerifyingInv

LEMMA CloseWindowVerifying ==
    ASSUME VerifyingInv, Verifying!CloseWindow
    PROVE  VerifyingInv'
<1>1. /\ verPosted' = Append(verPosted, NoTxn) /\ window' = "closing" /\ closed' = TRUE
      /\ window # "none" /\ UNCHANGED <<state, banner, dialog>>
  BY DEF Verifying!CloseWindow
<1>2. /\ verPosted' \in Seq(Txns \cup {NoTxn})
      /\ \A u : Verifying!Awaited(u) => \E i \in DOMAIN verPosted' : verPosted'[i] = u
  BY <1>1, BecomesAwaited DEF Verifying!Awaited
<1>3. VerifyingTypes'
  BY <1>1, <1>2 DEF VerifyingInv, VerifyingTypes, Verifying!Windows
<1>4. StatesFit'
  BY <1>1 DEF VerifyingInv, StatesFit
<1>5. Verifying!QuestionsAreCurrent'
  BY <1>1, <1>2 DEF VerifyingInv, Verifying!QuestionsAreCurrent, Verifying!Awaited
<1>6. NobodyWaits'
  BY <1>1 DEF NobodyWaits
<1> QED
  BY <1>3, <1>4, <1>5, <1>6 DEF VerifyingInv

LEMMA TailAwaited ==
    ASSUME VerifyingInv, verPosted # <<>>, verPosted' = Tail(verPosted)
    PROVE  /\ Head(verPosted) \in Txns \cup {NoTxn} /\ verPosted' \in Seq(Txns \cup {NoTxn})
           /\ \A u : Verifying!Awaited(u)' => Verifying!Awaited(u)
           /\ \A u : Verifying!Awaited(u) /\ u # Head(verPosted) => Verifying!Awaited(u)'
<1>1. /\ verPosted \in Seq(Txns \cup {NoTxn}) /\ verPosted' \in Seq(Txns \cup {NoTxn})
      /\ Head(verPosted) = verPosted[1] /\ 1 \in DOMAIN verPosted
  BY DEF VerifyingInv, VerifyingTypes
<1>2. \A i \in DOMAIN verPosted' : i + 1 \in DOMAIN verPosted /\ verPosted'[i] = verPosted[i + 1]
  BY <1>1
<1>3. \A i \in DOMAIN verPosted : i # 1 =>
          i - 1 \in DOMAIN verPosted' /\ verPosted'[i - 1] = verPosted[i]
  BY <1>1
<1>4. ASSUME NEW u, Verifying!Awaited(u)' PROVE Verifying!Awaited(u)
  BY <1>2, <1>4 DEF Verifying!Awaited
<1>5. ASSUME NEW u, Verifying!Awaited(u), u # Head(verPosted) PROVE Verifying!Awaited(u)'
  BY <1>1, <1>3, <1>5 DEF Verifying!Awaited
<1> QED
  BY <1>1, <1>4, <1>5

\* An event that takes no dialog away, of a transaction whose question is current.
LEMMA ShowVerifying ==
    ASSUME Verifying!ConstantsOK, VerifyingInv, Verifying!Deliver,
           LET t == Head(verPosted)
           IN  Verifying!ShowBanner(t) \/ Verifying!ShowEmojis(t) \/ Verifying!Ignore(t)
    PROVE  VerifyingInv'
<1> DEFINE t == Head(verPosted)
           Told(u) == \E i \in DOMAIN verPosted' : verPosted'[i] = u
<1>1. /\ verPosted # <<>> /\ verPosted' = Tail(verPosted) /\ t # NoTxn /\ UNCHANGED <<state, closed>>
  BY DEF Verifying!Deliver, Verifying!ShowBanner, Verifying!ShowEmojis, Verifying!Ignore
<1>2. /\ t \in Txns /\ verPosted' \in Seq(Txns \cup {NoTxn})
      /\ \A u : Told(u) => Verifying!Awaited(u)
      /\ \A u : Verifying!Awaited(u) /\ u # t => Told(u)
  BY <1>1, TailAwaited DEF Verifying!Awaited
<1>3. /\ \/ UNCHANGED banner
         \/ banner' = t /\ state[t] = "requested"
      /\ \/ UNCHANGED <<dialog, window>>
         \/ dialog = NoTxn /\ dialog' = t /\ window' = "open" /\ state[t] = "keys"
      /\ state[t] = "keys" => dialog' # NoTxn
      /\ state[t] \in {"requested", "keys", "begun", "matched"}
  BY <1>1 DEF Verifying!ShowBanner, Verifying!ShowEmojis, Verifying!Ignore, Verifying!Shown
<1> HIDE DEF t, Told
<1>4. VerifyingTypes'
  BY <1>1, <1>2, <1>3 DEF VerifyingInv, VerifyingTypes, Verifying!Windows
<1>5. StatesFit'
  BY <1>1, <1>3 DEF VerifyingInv, StatesFit
<1>6. banner' # NoTxn => state'[banner'] = "requested" \/ Told(banner')
  BY <1>1, <1>2, <1>3 DEF VerifyingInv, StatesFit, Verifying!QuestionsAreCurrent
<1>7. window' \in {"open", "answered"} => state'[dialog'] \in {"keys", "matched"} \/ Told(dialog')
  <2>1. CASE dialog = t /\ UNCHANGED <<dialog, window>>
    BY <1>1, <1>3, <2>1 DEF VerifyingInv, StatesFit, Over, t
  <2>2. CASE dialog # t /\ UNCHANGED <<dialog, window>>
    BY <1>1, <1>2, <2>2 DEF VerifyingInv, Verifying!QuestionsAreCurrent
  <2> QED
    BY <1>1, <1>3, <2>1, <2>2
<1>8. Verifying!QuestionsAreCurrent'
  BY <1>6, <1>7 DEF Verifying!QuestionsAreCurrent, Verifying!Awaited, Told
<1>9. NobodyWaits'
  <2>1. SUFFICES ASSUME ~closed', dialog' = NoTxn
                 PROVE  \/ \A u \in Txns : state'[u] = "keys" => Told(u)
                        \/ \E u \in Txns : Told(u) /\ state'[u] \in Over
    <3>1. ~closed' => ~Told(NoTxn)
      BY <1>1, <1>2 DEF VerifyingInv, NobodyWaits
    <3> QED
      BY <3>1 DEF NobodyWaits, Verifying!Awaited, Told
  <2>2. dialog = NoTxn /\ state[t] \notin Over /\ state[t] # "keys"
    BY <1>1, <1>2, <1>3, <2>1 DEF Over, Verifying!ConstantsOK
  <2> QED
    BY <1>1, <1>2, <2>1, <2>2 DEF VerifyingInv, NobodyWaits
<1> QED
  BY <1>4, <1>5, <1>8, <1>9 DEF VerifyingInv

\* What the handler forgets is the deletion only.
LEMMA ForgottenProperties ==
    ASSUME NEW q \in Seq(Txns \cup {NoTxn}), q # <<>>, Head(q) # NoTxn
    PROVE  /\ Tail(Verifying!Forgotten(q)) \in Seq(Txns \cup {NoTxn})
           /\ LET rest == Tail(Verifying!Forgotten(q))
              IN  \A i \in DOMAIN rest : rest[i] # NoTxn
<1> DEFINE K == {i \in DOMAIN q : q[i] # NoTxn}
           kept == Selected(q, K)
<1>1. Verifying!Forgotten(q) = kept
  BY DEF Verifying!Forgotten, Verifying!Selected, Selected, Verifying!Rank, Rank,
         Verifying!Cardinality, Cardinality
<1>2. K \subseteq DOMAIN q /\ 1 \in K
  OBVIOUS
<1>3. \A i \in K : q[i] # NoTxn
  OBVIOUS
<1> HIDE DEF K
<1>4. /\ Cardinality(K) \in Nat /\ kept \in Seq(Txns \cup {NoTxn}) /\ Len(kept) = Cardinality(K)
      /\ \A n \in 1..Cardinality(K) : \E i \in K : kept[n] = q[i]
      /\ \A i \in K : \E n \in 1..Cardinality(K) : kept[n] = q[i]
  BY <1>2, SelectedProperties
<1> HIDE DEF kept
<1>5. kept # <<>> /\ \A n \in DOMAIN kept : kept[n] # NoTxn
  BY <1>2, <1>3, <1>4
<1>6. /\ Tail(kept) \in Seq(Txns \cup {NoTxn})
      /\ \A i \in DOMAIN Tail(kept) : i + 1 \in DOMAIN kept /\ Tail(kept)[i] = kept[i + 1]
  BY <1>4, <1>5
<1> QED
  BY <1>1, <1>5, <1>6

LEMMA CloseAndResumeVerifying ==
    ASSUME Verifying!ConstantsOK, VerifyingInv, Verifying!Deliver,
           Verifying!CloseAndResume(Head(verPosted))
    PROVE  VerifyingInv'
<1>1. /\ verPosted # <<>> /\ Head(verPosted) # NoTxn /\ verPosted' = Tail(Verifying!Forgotten(verPosted))
      /\ UNCHANGED <<state, closed>> /\ banner' = NoTxn
  BY DEF Verifying!Deliver, Verifying!CloseAndResume
<1>2. /\ verPosted' \in Seq(Txns \cup {NoTxn})
      /\ \A i \in DOMAIN verPosted' : verPosted'[i] # NoTxn
  BY <1>1, ForgottenProperties DEF VerifyingInv, VerifyingTypes
<1>3. \/ \E u \in Txns : state[u] = "keys" /\ dialog' = u /\ window' = "open"
      \/ /\ \A u \in Txns : state[u] # "keys"
         /\ dialog' = NoTxn /\ window' = "none"
  BY DEF Verifying!CloseAndResume, Verifying!Shown
<1>4. VerifyingTypes'
  BY <1>1, <1>2, <1>3 DEF VerifyingInv, VerifyingTypes, Verifying!Windows, Verifying!ConstantsOK
<1>5. StatesFit'
  BY <1>1, <1>3 DEF StatesFit
<1>6. Verifying!QuestionsAreCurrent'
  BY <1>1, <1>3 DEF Verifying!QuestionsAreCurrent
<1>7. NobodyWaits'
  BY <1>1, <1>2, <1>3 DEF NobodyWaits, Verifying!Awaited, Verifying!ConstantsOK
<1> QED
  BY <1>4, <1>5, <1>6, <1>7 DEF VerifyingInv

LEMMA DeleteDialogVerifying ==
    ASSUME VerifyingInv, Verifying!DeleteDialog
    PROVE  VerifyingInv'
<1>1. /\ verPosted # <<>> /\ Head(verPosted) = NoTxn /\ verPosted' = Tail(verPosted)
      /\ dialog' = NoTxn /\ window' = "none" /\ UNCHANGED <<state, banner, closed>>
  BY DEF Verifying!DeleteDialog
<1>2. /\ verPosted' \in Seq(Txns \cup {NoTxn})
      /\ \A u : Verifying!Awaited(u) /\ u # NoTxn => \E i \in DOMAIN verPosted' : verPosted'[i] = u
  BY <1>1, TailAwaited DEF Verifying!Awaited
<1>3. Verifying!Awaited(NoTxn)
  BY <1>1 DEF Verifying!Awaited, VerifyingInv, VerifyingTypes
<1>4. VerifyingTypes' /\ StatesFit'
  BY <1>1, <1>2 DEF VerifyingInv, VerifyingTypes, StatesFit, Verifying!Windows
<1>5. Verifying!QuestionsAreCurrent'
  BY <1>1, <1>2 DEF VerifyingInv, Verifying!QuestionsAreCurrent, Verifying!Awaited
<1>6. NobodyWaits'
  BY <1>1, <1>3 DEF VerifyingInv, NobodyWaits
<1> QED
  BY <1>4, <1>5, <1>6 DEF VerifyingInv

LEMMA NextVerifying ==
    Verifying!ConstantsOK /\ VerifyingInv /\ [Verifying!Next]_(Verifying!vars) => VerifyingInv'
<1> SUFFICES ASSUME Verifying!ConstantsOK, VerifyingInv, [Verifying!Next]_(Verifying!vars)
             PROVE  VerifyingInv'
  OBVIOUS
<1>1. ASSUME NEW t \in Txns, Verifying!Incoming(t) \/ Verifying!Start(t) PROVE VerifyingInv'
  BY <1>1, TxnVerifying
<1>2. CASE Verifying!Accept \/ Verifying!Reject \/ Verifying!Match
  BY <1>2, AnswerVerifying
<1>3. CASE Verifying!Mismatch
  BY <1>3, MismatchVerifying
<1>4. CASE Verifying!CloseWindow
  BY <1>4, CloseWindowVerifying
<1>5. CASE Verifying!Deliver
  BY <1>5, ShowVerifying, CloseAndResumeVerifying DEF Verifying!Deliver
<1>6. CASE Verifying!DeleteDialog
  BY <1>6, DeleteDialogVerifying
<1>7. CASE UNCHANGED Verifying!vars
  BY <1>7, QuietVerifying DEF Verifying!vars
<1> QED
  BY <1>1, <1>2, <1>3, <1>4, <1>5, <1>6, <1>7 DEF Verifying!Next

LEMMA VerifyingSurfaces == VerifyingInv => Verifying!SkippedIsSurfaced
<1> SUFFICES ASSUME VerifyingInv, verPosted = <<>>, dialog = NoTxn, ~closed, NEW t \in Txns
             PROVE  state[t] # "keys"
  BY DEF Verifying!SkippedIsSurfaced
<1>1. \A u : ~Verifying!Awaited(u)
  BY DEF Verifying!Awaited
<1> QED
  BY <1>1 DEF VerifyingInv, NobodyWaits

\* VerificationHandler asks about no transaction that is over, and whatever waits behind
\* another's dialog is shown when that is closed.
THEOREM VerificationsSurface ==
    ASSUME Verifying!ConstantsOK
    PROVE  Verifying!Spec => [](Verifying!QuestionsAreCurrent /\ Verifying!SkippedIsSurfaced)
<1>1. Verifying!Init => VerifyingInv
  BY InitVerifying
<1>2. VerifyingInv /\ [Verifying!Next]_(Verifying!vars) => VerifyingInv'
  BY NextVerifying
<1>3. VerifyingInv => Verifying!QuestionsAreCurrent /\ Verifying!SkippedIsSurfaced
  BY VerifyingSurfaces DEF VerifyingInv
<1> QED
  BY <1>1, <1>2, <1>3, PTL DEF Verifying!Spec

-----------------------------------------------------------------------------
(***************************************************************************)
(* The public-room directory (RoomDirectory): the pages of one search.     *)
(*                                                                         *)
(* As long as the user is patient there is one request for rooms at most,  *)
(* for the search that the list belongs to, and for the page that follows  *)
(* what the list has.                                                      *)
(***************************************************************************)
DirPages   == Queries \X Nat
DirTokens  == DirPages \cup {<<>>}
DirRequest == [kind : {"search"}, query : Queries, from : DirTokens]
              \cup [kind : {"join"}, room : DirPages]
DirAnswer  == [request : DirRequest, ok : BOOLEAN]

DirTypes ==
    /\ text \in Queries /\ asked \in Queries
    /\ results \in Seq(DirPages) /\ dirNextBatch \in DirTokens
    /\ dirJobs \in Seq(DirRequest) /\ answers \in Seq(DirAnswer)
    /\ moreEnabled /\ dirNextBatch = <<>> => results = <<>>

\* The positions of the requests for rooms, and of their answers.
SearchJobs    == {i \in DOMAIN dirJobs : dirJobs[i].kind = "search"}
SearchAnswers == {i \in DOMAIN answers : answers[i].request.kind = "search"}

OneSearch ==
    /\ \A i, j \in SearchJobs : i = j
    /\ \A i, j \in SearchAnswers : i = j
    /\ SearchJobs = {} \/ SearchAnswers = {}

\* It asks for the first page of an empty list, or for the page after the list's.
Follows(r) ==
    /\ r.query = asked
    /\ \/ r.from = <<>> /\ results = <<>>
       \/ /\ r.from \in DirPages /\ r.from[2] = Len(results) + 1
          /\ Len(results) + 1 <= Pages[asked]

PagesShown ==
    /\ \A k \in 1..Len(results) : results[k] = <<asked, k>>
    /\ dirNextBatch # <<>> => /\ dirNextBatch = <<asked, Len(results) + 1>>
                              /\ Len(results) + 1 <= Pages[asked]
    /\ results # <<>> => (moreEnabled <=> Len(results) < Pages[asked])

JobsFollow    == \A i \in SearchJobs : Follows(dirJobs[i])
AnswersFollow == \A i \in SearchAnswers : Follows(answers[i].request)

SearchInv == dirCalm => OneSearch /\ PagesShown /\ JobsFollow /\ AnswersFollow

DirInv == DirTypes /\ SearchInv

LEMMA InitDir == Directory!Init => DirInv
<1> SUFFICES ASSUME Directory!Init PROVE DirInv
  OBVIOUS
<1>1. /\ results \in Seq(DirPages) /\ dirJobs \in Seq(DirRequest) /\ answers \in Seq(DirAnswer)
      /\ DOMAIN dirJobs = {} /\ DOMAIN answers = {} /\ Len(results) = 0
  BY DEF Directory!Init
<1> QED
  BY <1>1 DEF Directory!Init, DirInv, DirTypes, DirTokens, SearchInv, OneSearch, PagesShown,
              JobsFollow, AnswersFollow, SearchJobs, SearchAnswers

\* Nothing that the list is made of changes, and no request comes.
LEMMA QuietDir ==
    ASSUME DirInv, UNCHANGED <<results, dirNextBatch, moreEnabled, dirJobs, asked, dirCalm>>,
           answers' = answers \/ answers' = <<>>, text' \in Queries
    PROVE  DirInv'
<1>1. answers' \in Seq(DirAnswer) /\ SearchAnswers' \subseteq SearchAnswers
  <2>1. CASE answers' = answers
    BY <2>1 DEF DirInv, DirTypes, SearchAnswers
  <2>2. CASE answers' = <<>>
    BY <2>2 DEF SearchAnswers
  <2> QED
    BY <2>1, <2>2
<1>2. \A i \in SearchAnswers' : answers'[i] = answers[i]
  BY DEF SearchAnswers
<1>3. DirTypes'
  BY <1>1 DEF DirInv, DirTypes
<1>4. SearchJobs' = SearchJobs
  BY DEF SearchJobs
<1>5. SearchInv'
  BY <1>1, <1>2, <1>4 DEF DirInv, SearchInv, OneSearch, PagesShown, Follows,
         JobsFollow, AnswersFollow
<1> QED
  BY <1>3, <1>5 DEF DirInv

\* A request that is made is the last of the jobs.
LEMMA AppendDir ==
    ASSUME DirTypes, NEW r \in DirRequest, dirJobs' = Append(dirJobs, r), UNCHANGED answers
    PROVE  /\ dirJobs' \in Seq(DirRequest)
           /\ r.kind = "search" =>
                  /\ SearchJobs' = SearchJobs \cup {Len(dirJobs) + 1}
                  /\ dirJobs'[Len(dirJobs) + 1] = r
           /\ r.kind # "search" => SearchJobs' = SearchJobs
           /\ \A i \in SearchJobs : dirJobs'[i] = dirJobs[i]
           /\ SearchAnswers' = SearchAnswers
<1>1. /\ dirJobs \in Seq(DirRequest) /\ dirJobs' \in Seq(DirRequest) /\ Len(dirJobs) \in Nat
      /\ DOMAIN dirJobs = 1..Len(dirJobs) /\ DOMAIN dirJobs' = 1..(Len(dirJobs) + 1)
      /\ dirJobs'[Len(dirJobs) + 1] = r
      /\ \A i \in 1..Len(dirJobs) : dirJobs'[i] = dirJobs[i]
  BY DEF DirTypes
<1>2. r.kind = "search" => SearchJobs' = SearchJobs \cup {Len(dirJobs) + 1}
  BY <1>1 DEF SearchJobs
<1>3. r.kind # "search" => SearchJobs' = SearchJobs
  BY <1>1 DEF SearchJobs
<1>4. \A i \in SearchJobs : dirJobs'[i] = dirJobs[i]
  BY <1>1 DEF SearchJobs
<1>5. SearchAnswers' = SearchAnswers
  BY DEF SearchAnswers
<1> QED
  BY <1>1, <1>2, <1>3, <1>4, <1>5

LEMMA NotSearching == ~Directory!Searching => SearchJobs = {} /\ SearchAnswers = {}
<1> SUFFICES ASSUME ~Directory!Searching PROVE SearchJobs = {} /\ SearchAnswers = {}
  OBVIOUS
<1>1. \A i \in DOMAIN dirJobs : dirJobs[i].kind # "search"
  BY DEF Directory!Searching, Directory!ToSet
<1>2. \A i \in DOMAIN answers : answers[i].request.kind # "search"
  BY DEF Directory!Searching, Directory!ToSet
<1> QED
  BY <1>1, <1>2 DEF SearchJobs, SearchAnswers

LEMMA SearchDir == DirInv /\ Directory!OnSearchClicked => DirInv'
<1> SUFFICES ASSUME DirInv, Directory!OnSearchClicked PROVE DirInv'
  OBVIOUS
<1> DEFINE r == [kind |-> "search", query |-> text, from |-> <<>>]
<1>1. /\ dirNextBatch' = <<>> /\ results' = <<>> /\ dirJobs' = Append(dirJobs, r)
      /\ asked' = text /\ UNCHANGED <<text, moreEnabled, answers>>
      /\ dirCalm' => ~Directory!Searching
  BY DEF Directory!OnSearchClicked, Directory!DoSearch
<1>2. /\ r \in DirRequest /\ r.kind = "search" /\ r.query = text /\ r.from = <<>>
      /\ text \in Queries
  BY DEF DirInv, DirTypes, DirRequest, DirTokens
<1> HIDE DEF r
<1>3. /\ dirJobs' \in Seq(DirRequest) /\ SearchJobs' = SearchJobs \cup {Len(dirJobs) + 1}
      /\ dirJobs'[Len(dirJobs) + 1] = r /\ SearchAnswers' = SearchAnswers
  BY <1>1, <1>2, AppendDir DEF DirInv
<1>4. DirTypes'
  BY <1>1, <1>2, <1>3 DEF DirInv, DirTypes, DirTokens
<1>5. SearchInv'
  <2>1. SUFFICES ASSUME dirCalm' PROVE SearchInv'
    BY DEF SearchInv
  <2>2. SearchJobs' = {Len(dirJobs) + 1} /\ SearchAnswers' = {}
    BY <1>1, <1>3, <2>1, NotSearching
  <2>3. OneSearch'
    BY <2>2 DEF OneSearch
  <2>4. PagesShown'
    BY <1>1 DEF PagesShown
  <2>5. \A s : s = r => Follows(s)'
    BY <1>1, <1>2 DEF Follows
  <2>6. JobsFollow' /\ AnswersFollow'
    BY <1>3, <2>2, <2>5 DEF JobsFollow, AnswersFollow, Follows
  <2> QED
    BY <2>2, <2>3, <2>4, <2>6 DEF SearchInv
<1> QED
  BY <1>4, <1>5 DEF DirInv

LEMMA LoadMoreDir == DirInv /\ Directory!OnLoadMoreClicked => DirInv'
<1> SUFFICES ASSUME DirInv, Directory!OnLoadMoreClicked PROVE DirInv'
  OBVIOUS
<1> DEFINE r == [kind |-> "search", query |-> text, from |-> dirNextBatch]
<1>1. /\ dirJobs' = Append(dirJobs, r) /\ moreEnabled
      /\ UNCHANGED <<text, results, dirNextBatch, moreEnabled, answers, asked>>
      /\ dirCalm' => dirCalm /\ ~Directory!Searching /\ text = asked
  BY DEF Directory!OnLoadMoreClicked, Directory!DoSearch, Directory!list
<1>2. /\ r \in DirRequest /\ r.kind = "search" /\ r.query = text /\ r.from = dirNextBatch
  BY DEF DirInv, DirTypes, DirRequest
<1> HIDE DEF r
<1>3. /\ dirJobs' \in Seq(DirRequest) /\ SearchJobs' = SearchJobs \cup {Len(dirJobs) + 1}
      /\ dirJobs'[Len(dirJobs) + 1] = r /\ SearchAnswers' = SearchAnswers
  BY <1>1, <1>2, AppendDir DEF DirInv
<1>4. DirTypes'
  BY <1>1, <1>3 DEF DirInv, DirTypes
<1>5. SearchInv'
  <2>1. SUFFICES ASSUME dirCalm' PROVE SearchInv'
    BY DEF SearchInv
  <2>2. SearchJobs' = {Len(dirJobs) + 1} /\ SearchAnswers' = {}
    BY <1>1, <1>3, <2>1, NotSearching
  <2>3. OneSearch'
    BY <2>2 DEF OneSearch
  <2>4. PagesShown /\ dirCalm /\ text = asked
    BY <1>1, <2>1 DEF DirInv, SearchInv
  <2>5. PagesShown'
    BY <1>1, <2>4 DEF PagesShown
  <2>6. Follows(r)
    <3>1. CASE dirNextBatch = <<>>
      BY <1>1, <1>2, <2>4, <3>1 DEF DirInv, DirTypes, Follows
    <3>2. CASE dirNextBatch # <<>>
      <4>1. dirNextBatch \in DirPages /\ dirNextBatch[2] = Len(results) + 1
            /\ Len(results) + 1 <= Pages[asked]
        BY <2>4, <3>2 DEF DirInv, DirTypes, DirTokens, PagesShown
      <4> QED
        BY <1>2, <2>4, <4>1 DEF Follows
    <3> QED
      BY <3>1, <3>2
  <2>7. \A s : Follows(s) => Follows(s)'
    BY <1>1 DEF Follows
  <2> QED
    BY <1>3, <2>2, <2>3, <2>5, <2>6, <2>7 DEF SearchInv, JobsFollow, AnswersFollow, Follows
<1> QED
  BY <1>4, <1>5 DEF DirInv

LEMMA JoinDir ==
    ASSUME DirInv, NEW rm, Directory!OnJoinClicked(rm)
    PROVE  DirInv'
<1> DEFINE r == [kind |-> "join", room |-> rm]
<1>1. /\ dirJobs' = Append(dirJobs, r)
      /\ UNCHANGED <<text, results, dirNextBatch, moreEnabled, answers, asked, dirCalm>>
      /\ \E i \in DOMAIN results : results[i] = rm
  BY DEF Directory!OnJoinClicked, Directory!list, Directory!ToSet
<1>2. r \in DirRequest /\ r.kind # "search"
  <2>1. rm \in DirPages
    BY <1>1 DEF DirInv, DirTypes
  <2> QED
    BY <2>1 DEF DirRequest
<1> HIDE DEF r
<1>3. /\ dirJobs' \in Seq(DirRequest) /\ SearchJobs' = SearchJobs /\ SearchAnswers' = SearchAnswers
      /\ \A i \in SearchJobs : dirJobs'[i] = dirJobs[i]
  BY <1>1, <1>2, AppendDir DEF DirInv
<1>4. DirTypes'
  BY <1>1, <1>3 DEF DirInv, DirTypes
<1>5. SearchInv'
  BY <1>1, <1>3 DEF DirInv, SearchInv, OneSearch, PagesShown, Follows,
         JobsFollow, AnswersFollow
<1> QED
  BY <1>4, <1>5 DEF DirInv

\* A request is answered, or its answer is lost with the dialog.
LEMMA WorkDir ==
    ASSUME DirInv, NEW k \in DOMAIN dirJobs, Directory!Work(k)
    PROVE  DirInv'
<1>1. /\ dirJobs' = RemoveAt(dirJobs, k)
      /\ UNCHANGED <<text, results, dirNextBatch, moreEnabled, asked, dirCalm>>
      /\ dirJobs \in Seq(DirRequest) /\ answers \in Seq(DirAnswer)
  BY DEF Directory!Work, Directory!RemoveAt, RemoveAt, Directory!list, DirInv, DirTypes
<1>2. /\ dirJobs' \in Seq(DirRequest) /\ DOMAIN dirJobs' = 1..(Len(dirJobs) - 1)
      /\ DOMAIN dirJobs = 1..Len(dirJobs) /\ Len(dirJobs) \in Nat /\ k \in 1..Len(dirJobs)
      /\ \A l \in 1..(Len(dirJobs) - 1) :
            dirJobs'[l] = IF l < k THEN dirJobs[l] ELSE dirJobs[l + 1]
  BY <1>1, RemoveAtProperties, LenProperties
<1> DEFINE was(l) == IF l < k THEN l ELSE l + 1
<1>3. /\ \A l \in SearchJobs' : /\ was(l) \in SearchJobs /\ was(l) # k
                               /\ dirJobs'[l] = dirJobs[was(l)]
      /\ \A l, m \in SearchJobs' : was(l) = was(m) => l = m
  BY <1>2 DEF SearchJobs
<1> HIDE DEF was
<1>4. PICK ok \in BOOLEAN : Directory!Post([request |-> dirJobs[k], ok |-> ok])
  BY DEF Directory!Work
<1> DEFINE a == [request |-> dirJobs[k], ok |-> ok]
<1>5. a \in DirAnswer /\ a.request = dirJobs[k]
  BY <1>1 DEF DirAnswer
<1> HIDE DEF a
<1>6. /\ answers' \in Seq(DirAnswer)
      /\ SearchAnswers' \subseteq SearchAnswers \cup {Len(answers) + 1}
      /\ \A i \in SearchAnswers : i \in SearchAnswers' /\ answers'[i] = answers[i]
      /\ Len(answers) + 1 \in SearchAnswers' =>
            k \in SearchJobs /\ answers'[Len(answers) + 1].request = dirJobs[k]
      /\ \A i \in SearchAnswers' : i \in SearchAnswers \/ i = Len(answers) + 1
      /\ Len(answers) + 1 \notin SearchAnswers
  <2>1. CASE answers' = answers
    BY <1>1, <2>1, LenProperties DEF SearchAnswers
  <2>2. CASE answers' = Append(answers, a)
    <3>1. /\ answers' \in Seq(DirAnswer) /\ DOMAIN answers = 1..Len(answers)
          /\ Len(answers) \in Nat
          /\ DOMAIN answers' = 1..(Len(answers) + 1) /\ answers'[Len(answers) + 1] = a
          /\ \A i \in 1..Len(answers) : answers'[i] = answers[i]
      BY <1>1, <1>5, <2>2
    <3> QED
      BY <1>2, <1>5, <3>1 DEF SearchAnswers, SearchJobs
  <2> QED
    BY <1>4, <2>1, <2>2 DEF Directory!Post, a
<1>7. DirTypes'
  BY <1>1, <1>2, <1>6 DEF DirInv, DirTypes
<1>8. ASSUME dirCalm' PROVE SearchInv'
  <2>1. /\ OneSearch /\ PagesShown
        /\ JobsFollow /\ AnswersFollow
    BY <1>1, <1>8 DEF DirInv, SearchInv
  <2>2. PagesShown' /\ \A s : Follows(s) => Follows(s)'
    BY <1>1, <2>1 DEF PagesShown, Follows
  <2>3. OneSearch'
    <3>1. CASE k \in SearchJobs
      <4>1. SearchJobs' = {} /\ SearchAnswers = {}
        BY <1>3, <2>1, <3>1 DEF OneSearch
      <4> QED
        BY <1>6, <4>1 DEF OneSearch
    <3>2. CASE k \notin SearchJobs
      <4>1. SearchAnswers' = SearchAnswers
        BY <1>6, <3>2
      <4> QED
        BY <1>3, <2>1, <4>1 DEF OneSearch
    <3> QED
      BY <3>1, <3>2
  <2>4. JobsFollow'
    BY <1>3, <2>1, <2>2 DEF JobsFollow, Follows
  <2>5. AnswersFollow'
    <3>1. ASSUME NEW i \in SearchAnswers' PROVE \E s : Follows(s) /\ answers'[i].request = s
      <4>1. CASE i \in SearchAnswers
        BY <1>6, <2>1, <4>1 DEF AnswersFollow
      <4>2. CASE i = Len(answers) + 1
        BY <1>6, <2>1, <4>2 DEF JobsFollow
      <4> QED
        BY <1>6, <4>1, <4>2
    <3> QED
      BY <2>2, <3>1 DEF AnswersFollow, Follows
  <2> QED
    BY <2>2, <2>3, <2>4, <2>5 DEF SearchInv
<1> QED
  BY <1>7, <1>8 DEF DirInv, SearchInv

\* An answer is shown.  A page is the one that follows the list's.
LEMMA DeliverDir ==
    ASSUME DirInv, Directory!ConstantsOK, Directory!Deliver
    PROVE  DirInv'
<1> DEFINE a == answers[1]
           r == a.request
<1>1. /\ answers' = Tail(answers) /\ answers # <<>> /\ answers \in Seq(DirAnswer)
      /\ UNCHANGED <<text, dirJobs, asked, dirCalm>>
      /\ \/ r.kind = "search" /\ Directory!ShowPage(r)
         \/ UNCHANGED <<results, dirNextBatch, moreEnabled>>
  BY DEF Directory!Deliver, Directory!list, DirInv, DirTypes
<1>2. /\ answers' \in Seq(DirAnswer) /\ Len(answers) \in Nat /\ Len(answers) >= 1
      /\ DOMAIN answers = 1..Len(answers) /\ DOMAIN answers' = 1..(Len(answers) - 1)
      /\ \A i \in 1..(Len(answers) - 1) : answers'[i] = answers[i + 1]
      /\ 1 \in DOMAIN answers
  BY <1>1, HeadTailProperties, LenProperties, EmptySeq
<1>3. a \in DirAnswer
  BY <1>1, <1>2
<1>9. r \in DirRequest
  BY <1>3 DEF DirAnswer
<1>4. \A i \in SearchAnswers' : i + 1 \in SearchAnswers /\ i + 1 # 1 /\ answers'[i] = answers[i + 1]
                               /\ i \in Nat
  BY <1>2 DEF SearchAnswers
<1>5. SearchJobs' = SearchJobs
  BY <1>1 DEF SearchJobs
<1>6. CASE UNCHANGED <<results, dirNextBatch, moreEnabled>>
  <2>1. DirTypes'
    BY <1>1, <1>2, <1>6 DEF DirInv, DirTypes
  <2>2. ASSUME dirCalm' PROVE SearchInv'
    <3>1. /\ OneSearch /\ PagesShown
          /\ JobsFollow /\ AnswersFollow
      BY <1>1, <2>2 DEF DirInv, SearchInv
    <3>2. PagesShown' /\ \A s : Follows(s) => Follows(s)'
      BY <1>1, <1>6, <3>1 DEF PagesShown, Follows
    <3>3. OneSearch'
      <4>1. \A i, j \in SearchAnswers' : i + 1 = j + 1
        BY <1>4, <3>1 DEF OneSearch
      <4>2. \A i, j \in SearchAnswers' : i = j
        BY <1>4, <4>1
      <4> QED
        BY <1>4, <1>5, <3>1, <4>2 DEF OneSearch
    <3>4. AnswersFollow'
      BY <1>4, <3>1, <3>2 DEF AnswersFollow, Follows
    <3>5. JobsFollow'
      BY <1>1, <1>5, <3>1, <3>2 DEF JobsFollow, Follows
    <3> QED
      BY <3>2, <3>3, <3>4, <3>5 DEF SearchInv
  <2> QED
    BY <2>1, <2>2 DEF DirInv, SearchInv
<1>7. CASE r.kind = "search" /\ Directory!ShowPage(r)
  <2> DEFINE k == Directory!PageOf(r)
  <2>1. /\ r.query \in Queries /\ r.from \in DirTokens /\ k \in Nat /\ Pages[r.query] \in Nat
        /\ <<>> \notin DirPages
    BY <1>9, <1>7 DEF DirRequest, DirTokens, DirPages, Directory!PageOf, Directory!ConstantsOK
  <2>2. /\ dirNextBatch' = IF k + 1 <= Pages[r.query] THEN <<r.query, k + 1>> ELSE <<>>
        /\ moreEnabled' = (dirNextBatch' # <<>>)
    BY <1>7 DEF Directory!ShowPage, Directory!NextToken
  <2>3. results' = (IF r.from = <<>> THEN <<>> ELSE results)
                       \o (IF k <= Pages[r.query] THEN <<<<r.query, k>>>> ELSE <<>>)
    BY <1>7 DEF Directory!ShowPage
  <2>4. results \in Seq(DirPages) /\ Len(results) \in Nat /\ asked \in Queries
    BY LenProperties DEF DirInv, DirTypes
  <2> HIDE DEF k
  <2>5. <<r.query, k>> \in DirPages /\ <<r.query, k + 1>> \in DirPages
    BY <2>1 DEF DirPages
  <2>6. DirTypes'
    <3>1. results' \in Seq(DirPages)
      BY <2>3, <2>4, <2>5
    <3>2. moreEnabled' /\ dirNextBatch' = <<>> => results' = <<>>
      BY <2>2
    <3>3. dirNextBatch' \in DirTokens
      BY <2>2, <2>5 DEF DirTokens
    <3> QED
      BY <1>1, <1>2, <3>1, <3>2, <3>3 DEF DirInv, DirTypes
  <2>7. ASSUME dirCalm' PROVE SearchInv'
    <3>1. /\ OneSearch /\ PagesShown /\ 1 \in SearchAnswers /\ Follows(r)
      BY <1>1, <1>2, <1>7, <2>7 DEF DirInv, SearchInv, SearchAnswers, AnswersFollow
    <3>2. SearchJobs' = {} /\ SearchAnswers' = {}
      BY <1>4, <1>5, <3>1 DEF OneSearch
    <3>3. OneSearch'
      BY <3>2 DEF OneSearch
    <3>4. r.query = asked /\ k = Len(results) + 1
          /\ (r.from = <<>> => results = <<>>)
      <4>1. CASE r.from = <<>> /\ results = <<>>
        BY <2>4, <3>1, <4>1 DEF Follows, k, Directory!PageOf
      <4>2. CASE r.from \in DirPages /\ r.from[2] = Len(results) + 1
        BY <2>1, <3>1, <4>2 DEF Follows, k, Directory!PageOf
      <4> QED
        BY <3>1, <4>1, <4>2 DEF Follows
    <3>5. results' = results \o (IF k <= Pages[asked] THEN <<<<asked, k>>>> ELSE <<>>)
      BY <2>3, <3>4
    <3>6. PagesShown'
      <4>1. CASE k <= Pages[asked]
        <5>1. results' = results \o <<<<asked, k>>>>
          BY <3>5, <4>1
        <5> DEFINE p == <<asked, k>>
        <5>2. p \in DirPages
          BY <2>5, <3>4
        <5> HIDE DEF p
        <5>3. results' = results \o <<p>>
          BY <5>1 DEF p
        <5>4. /\ Len(results') = k /\ results'[k] = p
              /\ \A m \in 1..Len(results) : results'[m] = results[m]
          BY <2>4, <3>4, <5>2, <5>3
        <5>5. \A m \in 1..Len(results') : results'[m] = <<asked, m>>
          BY <2>4, <3>1, <3>4, <5>4 DEF PagesShown, p
        <5>6. dirNextBatch' # <<>> => dirNextBatch' = <<asked, Len(results') + 1>>
                                      /\ Len(results') + 1 <= Pages[asked]
          BY <2>2, <3>4, <5>4
        <5>7. dirNextBatch' # <<>> <=> k + 1 <= Pages[asked]
          BY <2>1, <2>2, <2>5, <3>4 DEF DirPages
        <5>9. k + 1 <= Pages[asked] <=> Len(results') < Pages[asked]
          BY <2>1, <3>4, <5>4
        <5>8. moreEnabled' <=> Len(results') < Pages[asked]
          BY <2>2, <5>7, <5>9
        <5> QED
          BY <1>1, <5>5, <5>6, <5>8 DEF PagesShown
      <4>2. CASE ~(k <= Pages[asked])
        <5>1. results' = results
          BY <2>4, <3>5, <4>2
        <5>3. ~(k + 1 <= Pages[asked])
          BY <2>1, <3>4, <4>2
        <5>4. dirNextBatch' = <<>> /\ moreEnabled' = FALSE
          BY <2>2, <3>4, <5>3
        <5>2. r.from = <<>> /\ results = <<>>
          BY <2>1, <3>1, <3>4, <4>2 DEF Follows
        <5> QED
          BY <1>1, <3>1, <5>1, <5>2, <5>4 DEF PagesShown
      <4> QED
        BY <4>1, <4>2
    <3> QED
      BY <3>2, <3>3, <3>6 DEF SearchInv, JobsFollow, AnswersFollow
  <2> QED
    BY <2>6, <2>7 DEF DirInv, SearchInv
<1> QED
  BY <1>1, <1>6, <1>7

LEMMA NextDir == DirInv /\ Directory!ConstantsOK /\ [Directory!Next]_(Directory!vars) => DirInv'
<1> SUFFICES ASSUME DirInv, Directory!ConstantsOK, [Directory!Next]_(Directory!vars) PROVE DirInv'
  OBVIOUS
<1>1. CASE \E q \in Queries : Directory!Type(q)
  BY <1>1, QuietDir DEF Directory!Type, Directory!list
<1>2. CASE Directory!Close \/ Directory!DismissBox
  <2>1. /\ UNCHANGED <<results, dirNextBatch, moreEnabled, dirJobs, asked, dirCalm, text>>
        /\ answers' = answers \/ answers' = <<>>
    BY <1>2 DEF Directory!Close, Directory!DismissBox, Directory!Leave, Directory!list
  <2> QED
    BY <2>1, QuietDir DEF DirInv, DirTypes
<1>3. CASE UNCHANGED Directory!vars
  <2>1. UNCHANGED <<results, dirNextBatch, moreEnabled, dirJobs, asked, dirCalm, text, answers>>
    BY <1>3 DEF Directory!vars
  <2> QED
    BY <2>1, QuietDir DEF DirInv, DirTypes
<1> QED
  BY <1>1, <1>2, <1>3, SearchDir, LoadMoreDir, JoinDir, WorkDir, DeliverDir DEF Directory!Next

LEMMA DirShows == DirInv => Directory!ResultsOfOneSearch
<1> SUFFICES ASSUME DirInv, dirCalm PROVE Directory!ResultsOfOneSearch
  BY DEF Directory!ResultsOfOneSearch
<1>1. PagesShown /\ results \in Seq(DirPages) /\ Len(results) \in Nat
      /\ DOMAIN results = 1..Len(results)
  BY LenProperties DEF DirInv, DirTypes, SearchInv
<1>2. results = [k \in 1..Len(results) |-> <<asked, k>>]
  <2>1. results = [k \in DOMAIN results |-> results[k]]
    BY <1>1
  <2> QED
    BY <1>1, <2>1 DEF PagesShown
<1>3. dirNextBatch # <<>> => dirNextBatch = <<asked, Len(results) + 1>>
  BY <1>1 DEF PagesShown
<1>4. results # <<>> => (moreEnabled <=> Len(results) < Pages[asked])
  BY <1>1 DEF PagesShown
<1> QED
  BY <1>2, <1>3, <1>4 DEF Directory!ResultsOfOneSearch

\* RoomDirectoryDialog shows the pages of one search, each once and in order, to a user who
\* waits for every answer.
THEOREM DirectoryInOrder ==
    ASSUME Directory!ConstantsOK
    PROVE  Directory!Spec => []Directory!ResultsOfOneSearch
<1>1. DirInv /\ [Directory!Next]_(Directory!vars) => DirInv'
  BY NextDir
<1> QED
  BY InitDir, <1>1, DirShows, PTL DEF Directory!Spec

-----------------------------------------------------------------------------
(***************************************************************************)
(* My profile (MyProfile): whatever is or will be the user's name is his,  *)
(* or the id with which the field begins, if he saved it too early or his  *)
(* profile named nobody.  A reply on its way to a dialog that works is     *)
(* what will settle it.                                                    *)
(***************************************************************************)
ProfileJob   == [kind : Profile!Kinds, value : Nat]
ProfileReply == [kind : Profile!Kinds, ok : BOOLEAN, avatar : Nat, value : Nat]

Named(v) == /\ v \in {0, Profile!UserId, Profile!Given} \cup typed
            /\ v = Profile!UserId => hasty \/ unnamed

ProfileTypes ==
    /\ name \in Nat /\ avatar \in Nat /\ field \in Nat /\ current \in Nat
    /\ typed \subseteq Nat /\ profFuel \in [Profile!Steps -> Nat]
    /\ profJobs \in Seq(ProfileJob) /\ profPosted \in Seq(ProfileReply)

NamesAreTheUsers ==
    /\ Named(name) /\ Profile!UserId \notin typed
    /\ field \in {0, Profile!UserId, Profile!Given} \cup typed
    /\ field = Profile!UserId => ~profLoaded \/ hasty \/ unnamed
    /\ \A i \in DOMAIN profJobs : profJobs[i].kind = "name" => Named(profJobs[i].value)
    /\ \A i \in DOMAIN profPosted : profPosted[i].kind = "load" => Named(profPosted[i].value)

ProfileWaits == profShown /\ profJobs = <<>> /\ profPosted = <<>> => profStatus \in Profile!Settled

ProfileInv == ProfileTypes /\ NamesAreTheUsers /\ ProfileWaits

LEMMA InitProfile == Profile!ConstantsOK /\ Profile!Init => ProfileInv
<1> SUFFICES ASSUME Profile!ConstantsOK, Profile!Init PROVE ProfileInv
  OBVIOUS
<1> DEFINE load == [kind |-> "load", value |-> 0]
<1>1. /\ profJobs = <<load>> /\ profPosted = <<>>
      /\ name \in {0, 2} /\ avatar = 0 /\ field = 1 /\ current = 0 /\ typed = {} /\ ~profLoaded
      /\ profFuel \in [Profile!Steps -> Nat]
  BY DEF Profile!Init, Profile!Job, Profile!ConstantsOK, Profile!UserId, Profile!Given
<1>2. load \in ProfileJob /\ load.kind # "name"
  BY DEF ProfileJob, Profile!Kinds
<1> HIDE DEF load
<1>3. /\ profJobs \in Seq(ProfileJob) /\ profPosted \in Seq(ProfileReply)
      /\ profJobs # <<>> /\ DOMAIN profPosted = {}
      /\ \A i \in DOMAIN profJobs : profJobs[i].kind # "name"
  BY <1>1, <1>2
<1> QED
  BY <1>1, <1>3 DEF ProfileInv, ProfileTypes, NamesAreTheUsers, Named, ProfileWaits, Profile!UserId, Profile!Given

\* What was named stays named.
LEMMA StaysNamed ==
    ASSUME typed \subseteq typed', hasty => hasty', unnamed => unnamed', NEW v, Named(v)
    PROVE  Named(v)'
  BY DEF Named

LEMMA TypeProfile == ProfileInv /\ Profile!Type => ProfileInv'
<1> SUFFICES ASSUME ProfileInv, Profile!Type PROVE ProfileInv'
  OBVIOUS
<1>1. /\ field' = profFuel["edit"] + 2 /\ profFuel["edit"] \in Nat /\ profFuel["edit"] > 0
      /\ profFuel' \in [Profile!Steps -> Nat] /\ typed' = typed \cup {field'}
      /\ UNCHANGED <<name, avatar, current, profStatus, profJobs, profPosted, profShown,
                     profLoaded, hasty, unnamed>>
  BY DEF ProfileInv, ProfileTypes, Profile!Type, Profile!Spend, Profile!Steps, Profile!Given,
         Profile!server
<1>2. field' \in Nat /\ field' # 1
  BY <1>1
<1>3. ProfileTypes'
  BY <1>1, <1>2 DEF ProfileInv, ProfileTypes
<1>4. NamesAreTheUsers'
  BY <1>1, <1>2 DEF ProfileInv, NamesAreTheUsers, Named, Profile!UserId, Profile!Given
<1>5. ProfileWaits'
  BY <1>1 DEF ProfileInv, ProfileWaits
<1> QED
  BY <1>3, <1>4, <1>5 DEF ProfileInv

LEMMA SaveProfile == ProfileInv /\ Profile!OnSaveNameClicked => ProfileInv'
<1> SUFFICES ASSUME ProfileInv, Profile!OnSaveNameClicked PROVE ProfileInv'
  OBVIOUS
<1> DEFINE j == [kind |-> "name", value |-> field]
<1>1. /\ profJobs' = Append(profJobs, j) /\ hasty' = (hasty \/ ~profLoaded)
      /\ profFuel' \in [Profile!Steps -> Nat]
      /\ UNCHANGED <<name, avatar, field, current, profPosted, profShown, typed, profLoaded, unnamed>>
  BY DEF ProfileInv, ProfileTypes, Profile!OnSaveNameClicked, Profile!Spend, Profile!Steps,
         Profile!server, Profile!Job
<1>2. j \in ProfileJob /\ j.value = field
  BY DEF ProfileInv, ProfileTypes, ProfileJob, Profile!Kinds
<1> HIDE DEF j
<1>3. /\ profJobs' \in Seq(ProfileJob) /\ profJobs' # <<>>
      /\ \A i \in DOMAIN profJobs' :
             (i \in DOMAIN profJobs /\ profJobs'[i] = profJobs[i]) \/ profJobs'[i] = j
  BY <1>1, <1>2, AppendElements DEF ProfileInv, ProfileTypes
<1>4. ProfileTypes'
  BY <1>1, <1>3 DEF ProfileInv, ProfileTypes
<1>5. NamesAreTheUsers'
  BY <1>1, <1>2, <1>3 DEF ProfileInv, NamesAreTheUsers, Named, Profile!UserId
<1>6. ProfileWaits'
  BY <1>3 DEF ProfileWaits
<1> QED
  BY <1>4, <1>5, <1>6 DEF ProfileInv

LEMMA AvatarProfile == ProfileInv /\ Profile!OnSetAvatarClicked => ProfileInv'
<1> SUFFICES ASSUME ProfileInv, Profile!OnSetAvatarClicked PROVE ProfileInv'
  OBVIOUS
<1> DEFINE j == [kind |-> "upload", value |-> profFuel["save"]]
<1>1. /\ \/ profJobs' = Append(profJobs, j)
         \/ profJobs' = profJobs /\ profStatus' \in Profile!Settled
      /\ profFuel' \in [Profile!Steps -> Nat]
      /\ UNCHANGED <<name, avatar, field, current, profPosted, profShown, typed, profLoaded, hasty,
                     unnamed>>
  BY DEF ProfileInv, ProfileTypes, Profile!OnSetAvatarClicked, Profile!Spend, Profile!Steps,
         Profile!server, Profile!past, Profile!Job, Profile!Settled
<1>2. j \in ProfileJob /\ j.kind # "name"
  BY DEF ProfileInv, ProfileTypes, ProfileJob, Profile!Kinds, Profile!Steps
<1> HIDE DEF j
<1>3. /\ profJobs' \in Seq(ProfileJob)
      /\ profJobs' # <<>> \/ profStatus' \in Profile!Settled
      /\ \A i \in DOMAIN profJobs' :
             (i \in DOMAIN profJobs /\ profJobs'[i] = profJobs[i]) \/ profJobs'[i].kind # "name"
  <2>1. CASE profJobs' = Append(profJobs, j)
    BY <1>2, <2>1, AppendElements DEF ProfileInv, ProfileTypes
  <2>2. CASE profJobs' = profJobs
    BY <1>1, <2>2 DEF ProfileInv, ProfileTypes
  <2> QED
    BY <1>1, <2>1, <2>2
<1>4. ProfileTypes'
  BY <1>1, <1>3 DEF ProfileInv, ProfileTypes
<1>5. NamesAreTheUsers'
  BY <1>1, <1>3 DEF ProfileInv, NamesAreTheUsers, Named
<1>6. ProfileWaits'
  BY <1>3 DEF ProfileWaits
<1> QED
  BY <1>4, <1>5, <1>6 DEF ProfileInv

LEMMA CloseProfile == ProfileInv /\ (Profile!Close \/ UNCHANGED Profile!vars) => ProfileInv'
<1> SUFFICES ASSUME ProfileInv, Profile!Close \/ UNCHANGED Profile!vars PROVE ProfileInv'
  OBVIOUS
<1>1. /\ UNCHANGED <<name, avatar, field, current, profStatus, profJobs, typed, profLoaded, hasty,
                     unnamed, profFuel>>
      /\ \/ profPosted' = <<>> /\ ~profShown'
         \/ UNCHANGED <<profPosted, profShown>>
  BY DEF Profile!Close, Profile!vars, Profile!server, Profile!past
<1>2. profPosted' \in Seq(ProfileReply) /\ (DOMAIN profPosted' = {} \/ profPosted' = profPosted)
  <2>1. CASE profPosted' = <<>>
    BY <2>1
  <2>2. CASE profPosted' = profPosted
    BY <2>2 DEF ProfileInv, ProfileTypes
  <2> QED
    BY <1>1, <2>1, <2>2
<1> QED
  BY <1>1, <1>2 DEF ProfileInv, ProfileTypes, NamesAreTheUsers, Named, ProfileWaits

\* A request that ends is answered, unless the dialog is gone.
LEMMA WorkProfile ==
    ASSUME ProfileInv, NEW k \in DOMAIN profJobs, Profile!Work(k)
    PROVE  ProfileInv'
<1> DEFINE j == profJobs[k]
<1>1. /\ profJobs' = RemoveAt(profJobs, k) /\ profJobs \in Seq(ProfileJob)
      /\ UNCHANGED <<field, current, profStatus, profShown, typed, profLoaded, hasty, unnamed>>
      /\ profFuel' \in [Profile!Steps -> Nat]
  BY DEF Profile!Work, Profile!RemoveAt, RemoveAt, Profile!past, ProfileInv, ProfileTypes,
         Profile!Spend, Profile!Steps
<1>2. /\ profJobs' \in Seq(ProfileJob) /\ j \in ProfileJob
      /\ \A l \in DOMAIN profJobs' : \E m \in DOMAIN profJobs : profJobs'[l] = profJobs[m]
  BY <1>1, RemoveAtProperties, RemoveAtElements
<1>3. CASE ~(profShown \/ j.kind = "avatar")
  <2>1. UNCHANGED <<name, avatar, profPosted>>
    BY <1>3 DEF Profile!Work, Profile!server
  <2> QED
    BY <1>1, <1>2, <1>3, <2>1
    DEF ProfileInv, ProfileTypes, NamesAreTheUsers, Named, ProfileWaits
<1>4. CASE profShown \/ j.kind = "avatar"
  <2>1. PICK outcome \in Profile!Outcomes : Profile!Answered(j, outcome)
    BY <1>4 DEF Profile!Work
  <2> DEFINE p == [kind |-> j.kind, ok |-> outcome # "failed",
                   avatar |-> IF outcome = "ok" THEN avatar ELSE 0,
                   value |-> IF j.kind # "load" THEN j.value
                             ELSE IF outcome = "ok" THEN name ELSE 0]
  <2>2. /\ name' = (IF outcome = "ok" /\ j.kind = "name" THEN j.value ELSE name)
        /\ avatar' = (IF outcome = "ok" /\ j.kind = "avatar" THEN j.value ELSE avatar)
        /\ profPosted' = IF profShown THEN Append(profPosted, p) ELSE profPosted
    BY <2>1 DEF Profile!Answered
  <2>3. /\ j.kind \in Profile!Kinds /\ j.value \in Nat /\ name \in Nat /\ avatar \in Nat
        /\ j.kind = "name" => Named(j.value)
        /\ Named(name)
    BY <1>2 DEF ProfileInv, ProfileTypes, ProfileJob, NamesAreTheUsers
  <2>4. p \in ProfileReply /\ (p.kind = "load" => p.value \in {0, name})
    BY <2>3 DEF ProfileReply
  <2> HIDE DEF p
  <2>5. /\ profPosted' \in Seq(ProfileReply)
        /\ profShown' => profPosted' # <<>>
        /\ \A i \in DOMAIN profPosted' :
               (i \in DOMAIN profPosted /\ profPosted'[i] = profPosted[i]) \/ profPosted'[i] = p
    <3>1. CASE profShown
      BY <2>2, <2>4, <3>1, AppendElements DEF ProfileInv, ProfileTypes
    <3>2. CASE ~profShown
      BY <1>1, <2>2, <3>2 DEF ProfileInv, ProfileTypes
    <3> QED
      BY <3>1, <3>2
  <2>6. ProfileTypes'
    BY <1>1, <1>2, <2>2, <2>3, <2>5 DEF ProfileInv, ProfileTypes
  <2>7. NamesAreTheUsers'
    BY <1>1, <1>2, <2>2, <2>3, <2>4, <2>5 DEF ProfileInv, NamesAreTheUsers, Named, Profile!UserId
  <2>8. ProfileWaits'
    BY <2>5 DEF ProfileWaits
  <2> QED
    BY <2>6, <2>7, <2>8 DEF ProfileInv
<1> QED
  BY <1>3, <1>4

LEMMA DeliverProfile == ProfileInv /\ Profile!Deliver => ProfileInv'
<1> SUFFICES ASSUME ProfileInv, Profile!Deliver PROVE ProfileInv'
  OBVIOUS
<1> DEFINE p == Head(profPosted)
<1>1. /\ profPosted # <<>> /\ profPosted' = Tail(profPosted) /\ profPosted \in Seq(ProfileReply)
      /\ profLoaded' = (profLoaded \/ (p.kind = "load" /\ p.ok))
      /\ unnamed' = (unnamed \/ (p.kind = "load" /\ p.ok /\ p.value = 0))
      /\ UNCHANGED <<name, avatar, profShown, typed, hasty, profFuel>>
  BY DEF Profile!Deliver, Profile!server, ProfileInv, ProfileTypes
<1>2. \/ p.kind = "load" /\ Profile!OnLoaded(p)
      \/ p.kind \in {"name", "avatar"} /\ Profile!OnSaved(p)
      \/ p.kind = "upload" /\ Profile!OnUploaded(p)
  BY DEF Profile!Deliver
<1>3. /\ p \in ProfileReply /\ p = profPosted[1] /\ 1 \in DOMAIN profPosted
      /\ profPosted' \in Seq(ProfileReply)
      /\ \A i \in DOMAIN profPosted' : \E m \in DOMAIN profPosted : profPosted'[i] = profPosted[m]
  BY <1>1
<1>4. /\ p.value \in Nat /\ p.avatar \in Nat
      /\ p.kind = "load" => Named(p.value)
  BY <1>3 DEF ProfileInv, NamesAreTheUsers, ProfileReply
<1> HIDE DEF p
<1>5. CASE p.kind = "load" /\ Profile!OnLoaded(p)
  <2>1. /\ profJobs' = profJobs /\ profStatus' \in Profile!Settled
        /\ field' = field \/ field' = p.value
        /\ p.ok /\ p.value # 0 => field' = p.value
        /\ current' = current \/ current' = p.avatar
    BY <1>5 DEF Profile!OnLoaded, Profile!UnlessNone, Profile!Settled
  <2>2. ProfileTypes'
    BY <1>1, <1>3, <1>4, <2>1 DEF ProfileInv, ProfileTypes
  <2>3. NamesAreTheUsers'
    BY <1>1, <1>3, <1>4, <1>5, <2>1 DEF ProfileInv, NamesAreTheUsers, Named, Profile!UserId
  <2> QED
    BY <2>1, <2>2, <2>3 DEF ProfileInv, ProfileWaits
<1>6. CASE p.kind \in {"name", "avatar"} /\ Profile!OnSaved(p)
  <2>1. UNCHANGED <<profJobs, field, current>> /\ (profLoaded' => profLoaded) /\ profStatus' \in Profile!Settled
    BY <1>1, <1>6 DEF Profile!OnSaved, Profile!Settled
  <2> QED
    BY <1>1, <1>3, <2>1 DEF ProfileInv, ProfileTypes, NamesAreTheUsers, Named, ProfileWaits
<1>7. CASE p.kind = "upload" /\ Profile!OnUploaded(p)
  <2> DEFINE j == [kind |-> "avatar", value |-> p.value]
  <2>1. /\ \/ profJobs' = Append(profJobs, j) /\ current' = p.value
           \/ profJobs' = profJobs /\ current' = current /\ profStatus' \in Profile!Settled
        /\ UNCHANGED field /\ (profLoaded' => profLoaded)
    BY <1>1, <1>7 DEF Profile!OnUploaded, Profile!Settled, Profile!Job
  <2>2. j \in ProfileJob /\ j.kind # "name"
    BY <1>4 DEF ProfileJob, Profile!Kinds
  <2> HIDE DEF j
  <2>3. /\ profJobs' \in Seq(ProfileJob)
        /\ profJobs' # <<>> \/ profStatus' \in Profile!Settled
        /\ \A i \in DOMAIN profJobs' :
              (i \in DOMAIN profJobs /\ profJobs'[i] = profJobs[i]) \/ profJobs'[i].kind # "name"
    <3>1. CASE profJobs' = Append(profJobs, j)
      BY <2>2, <3>1, AppendElements DEF ProfileInv, ProfileTypes
    <3>2. CASE profJobs' = profJobs
      BY <2>1, <3>2 DEF ProfileInv, ProfileTypes
    <3> QED
      BY <2>1, <3>1, <3>2
  <2>4. ProfileTypes'
    BY <1>1, <1>3, <1>4, <2>1, <2>3 DEF ProfileInv, ProfileTypes
  <2>5. NamesAreTheUsers'
    BY <1>1, <1>3, <2>1, <2>3 DEF ProfileInv, NamesAreTheUsers, Named
  <2> QED
    BY <2>3, <2>4, <2>5 DEF ProfileInv, ProfileWaits
<1> QED
  BY <1>2, <1>5, <1>6, <1>7

LEMMA NextProfile == ProfileInv /\ [Profile!Next]_(Profile!vars) => ProfileInv'
  BY TypeProfile, SaveProfile, AvatarProfile, CloseProfile, WorkProfile, DeliverProfile
  DEF Profile!Next

LEMMA ProfileNames == ProfileInv => Profile!NameIsTheUsers
  BY DEF ProfileInv, NamesAreTheUsers, Named, ProfileWaits, Profile!NameIsTheUsers

\* The display name is the user's, or the id with which the field begins if he saved before his
\* profile had come, or it had come and named nobody; and ProfileDialog does not work for nothing.
THEOREM ProfileNamed ==
    ASSUME Profile!ConstantsOK PROVE Profile!Spec => []Profile!NameIsTheUsers
<1>1. Profile!Init => ProfileInv
  BY InitProfile
<1> QED
  BY <1>1, NextProfile, ProfileNames, PTL DEF Profile!Spec

-----------------------------------------------------------------------------
(***************************************************************************)
(* The list of threads (ThreadsDialog): every page up to the one that the  *)
(* token names is a row, or its preview is under way, once.                *)
(***************************************************************************)
Preview(k)     == [kind |-> "preview", page |-> k]
PreviewDone(k) == [kind |-> "preview", page |-> k, ok |-> TRUE]
Page(k)        == [kind |-> "page", page |-> k]
PageDone(k)    == [kind |-> "page", page |-> k, ok |-> TRUE]
PageFailed(k)  == [kind |-> "page", page |-> k, ok |-> FALSE]

\* How often page k is a row, or will be; and the requests for page k.
Copies(k) == Occurrences(list, k) + Occurrences(thrJobs, Preview(k))
             + Occurrences(thrPosted, PreviewDone(k))
Asks(k)   == Occurrences(thrJobs, Page(k)) + Occurrences(thrPosted, PageDone(k))
             + Occurrences(thrPosted, PageFailed(k))

\* The pages that the list stands for.
Known == IF thrNextBatch # 0 THEN thrNextBatch - 1
         ELSE IF Asks(0) # 0 \/ thrStatus = "error" THEN 0 ELSE pages

ThreadTypes ==
    /\ pages \in Nat /\ list \in Seq(Nat) /\ thrNextBatch \in 0..(pages + 1)
    /\ thrJobs \in Seq(Threads!Job) /\ thrPosted \in Seq(Threads!Reply)
    /\ \A i \in DOMAIN thrPosted : thrPosted[i].kind = "preview" => thrPosted[i].ok = TRUE

OnePage ==
    /\ Asks(thrNextBatch) <= 1
    /\ \A k \in Nat : k # thrNextBatch => Asks(k) = 0
    /\ more /\ thrNextBatch = 0 => Asks(0) # 0 \/ thrStatus = "error"

EachOnce == \A k \in Nat : Copies(k) = IF k \in 1..Known THEN 1 ELSE 0

ThreadsInv == ThreadTypes /\ (thrCalm /\ thrShown => OnePage /\ EachOnce)

LEMMA CountsAreNumbers ==
    ASSUME ThreadTypes, NEW k
    PROVE  /\ Occurrences(list, k) \in Nat /\ Occurrences(thrJobs, Preview(k)) \in Nat
           /\ Occurrences(thrPosted, PreviewDone(k)) \in Nat
           /\ Occurrences(thrJobs, Page(k)) \in Nat
           /\ Occurrences(thrPosted, PageDone(k)) \in Nat
           /\ Occurrences(thrPosted, PageFailed(k)) \in Nat
           /\ Copies(k) \in Nat /\ Asks(k) \in Nat
<1>1. /\ Occurrences(list, k) \in Nat /\ Occurrences(thrJobs, Preview(k)) \in Nat
      /\ Occurrences(thrPosted, PreviewDone(k)) \in Nat
      /\ Occurrences(thrJobs, Page(k)) \in Nat
      /\ Occurrences(thrPosted, PageDone(k)) \in Nat
      /\ Occurrences(thrPosted, PageFailed(k)) \in Nat
  BY OccurrencesFinite DEF ThreadTypes
<1> QED
  BY <1>1 DEF Copies, Asks

\* Nothing is under way of the kinds that are not.
LEMMA NothingUnderWay ==
    ASSUME ThreadTypes, NEW k \in Nat
    PROVE  /\ ~Threads!UnderWay({"page"}) => Asks(k) = 0
           /\ ~Threads!UnderWay({"page", "preview"}) =>
                  Asks(k) = 0 /\ Occurrences(thrJobs, Preview(k)) = 0
                  /\ Occurrences(thrPosted, PreviewDone(k)) = 0
<1>1. ASSUME NEW K, ~Threads!UnderWay(K)
      PROVE  /\ \A i \in DOMAIN thrJobs : thrJobs[i].kind \notin K
             /\ \A i \in DOMAIN thrPosted : thrPosted[i].kind \notin K
  BY <1>1 DEF Threads!UnderWay, Threads!ToSet
<1>2. /\ Page(k).kind = "page" /\ PageDone(k).kind = "page" /\ PageFailed(k).kind = "page"
      /\ Preview(k).kind = "preview" /\ PreviewDone(k).kind = "preview"
  BY DEF Page, PageDone, PageFailed, Preview, PreviewDone
<1>3. ASSUME \A i \in DOMAIN thrJobs : thrJobs[i].kind # "page",
             \A i \in DOMAIN thrPosted : thrPosted[i].kind # "page"
      PROVE  Asks(k) = 0
  <2>1. /\ Occurrences(thrJobs, Page(k)) = 0 /\ Occurrences(thrPosted, PageDone(k)) = 0
        /\ Occurrences(thrPosted, PageFailed(k)) = 0
    BY <1>2, <1>3, OccurrencesPositions DEF ThreadTypes
  <2> QED
    BY <2>1 DEF Asks
<1>4. ASSUME \A i \in DOMAIN thrJobs : thrJobs[i].kind # "preview",
             \A i \in DOMAIN thrPosted : thrPosted[i].kind # "preview"
      PROVE  Occurrences(thrJobs, Preview(k)) = 0 /\ Occurrences(thrPosted, PreviewDone(k)) = 0
  BY <1>2, <1>4, OccurrencesPositions DEF ThreadTypes
<1>5. ~Threads!UnderWay({"page"}) => Asks(k) = 0
  BY <1>1, <1>3
<1>6. ~Threads!UnderWay({"page", "preview"}) =>
          Asks(k) = 0 /\ Occurrences(thrJobs, Preview(k)) = 0
          /\ Occurrences(thrPosted, PreviewDone(k)) = 0
  BY <1>1, <1>3, <1>4
<1> QED
  BY <1>5, <1>6

\* A page is asked for.
LEMMA AskedPage ==
    ASSUME ThreadTypes, NEW n \in Nat, thrJobs' = Append(thrJobs, Page(n)), UNCHANGED thrPosted
    PROVE  /\ thrJobs' \in Seq(Threads!Job)
           /\ \A k \in Nat : /\ Asks(k)' = Asks(k) + IF k = n THEN 1 ELSE 0
                             /\ Occurrences(thrJobs, Preview(k))' = Occurrences(thrJobs, Preview(k))
<1>1. Page(n) \in Threads!Job
  BY DEF Page, Threads!Job
<1>2. thrJobs' \in Seq(Threads!Job)
  BY <1>1 DEF ThreadTypes
<1>3. ASSUME NEW k \in Nat
      PROVE  /\ Page(n) = Page(k) <=> k = n
             /\ Page(n) # Preview(k)
  BY DEF Page, Preview
<1>4. ASSUME NEW k \in Nat
      PROVE  /\ Occurrences(thrJobs', Page(k)) = Occurrences(thrJobs, Page(k)) + IF k = n THEN 1 ELSE 0
             /\ Occurrences(thrJobs', Preview(k)) = Occurrences(thrJobs, Preview(k))
  <2>1. thrJobs \in Seq(Threads!Job) /\ Occurrences(thrJobs, Preview(k)) \in Nat
    BY CountsAreNumbers DEF ThreadTypes
  <2>2. \A e : Occurrences(thrJobs', e) = Occurrences(thrJobs, e) + IF Page(n) = e THEN 1 ELSE 0
    BY <2>1, OccurrencesAppend
  <2> QED
    BY <1>3, <2>1, <2>2
<1>5. ASSUME NEW k \in Nat
      PROVE  Occurrences(thrJobs, Preview(k))' = Occurrences(thrJobs', Preview(k))
             /\ Asks(k)' = Occurrences(thrJobs', Page(k)) + Occurrences(thrPosted, PageDone(k))
                           + Occurrences(thrPosted, PageFailed(k))
  BY DEF Asks, Occurrences, Preview, Page, PageDone, PageFailed
<1>6. ASSUME NEW k \in Nat PROVE Asks(k)' = Asks(k) + IF k = n THEN 1 ELSE 0
  <2>1. /\ Occurrences(thrJobs, Page(k)) \in Nat /\ Occurrences(thrPosted, PageDone(k)) \in Nat
        /\ Occurrences(thrPosted, PageFailed(k)) \in Nat
    BY CountsAreNumbers
  <2> QED
    BY <1>4, <1>5, <2>1 DEF Asks
<1> QED
  BY <1>2, <1>4, <1>5, <1>6

LEMMA RefreshThreads == ThreadsInv /\ Threads!OnRefreshClicked => ThreadsInv'
<1> SUFFICES ASSUME ThreadsInv, Threads!OnRefreshClicked PROVE ThreadsInv'
  OBVIOUS
<1>1. /\ thrNextBatch' = 0 /\ list' = <<>> /\ thrJobs' = Append(thrJobs, Page(0))
      /\ thrCalm' => thrCalm /\ ~Threads!UnderWay({"page", "preview"})
      /\ thrStatus' = "loading"
      /\ UNCHANGED <<pages, more, thrPosted, thrShown>> /\ ThreadTypes
  BY DEF Threads!OnRefreshClicked, Threads!LoadThreads, Threads!Asked, Threads!window, Page, ThreadsInv
<1>2. /\ thrJobs' \in Seq(Threads!Job)
      /\ \A k \in Nat : /\ Asks(k)' = Asks(k) + IF k = 0 THEN 1 ELSE 0
                        /\ Occurrences(thrJobs, Preview(k))' = Occurrences(thrJobs, Preview(k))
  BY <1>1, AskedPage
<1>3. ThreadTypes'
  BY <1>1, <1>2 DEF ThreadTypes
<1>4. ASSUME thrCalm', thrShown' PROVE OnePage' /\ EachOnce'
  <2>1. ASSUME NEW k \in Nat
        PROVE  Asks(k) = 0 /\ Occurrences(thrJobs, Preview(k)) = 0
               /\ Occurrences(thrPosted, PreviewDone(k)) = 0
    BY <1>1, <1>4, NothingUnderWay
  <2>2. \A k \in Nat : Asks(k)' = IF k = 0 THEN 1 ELSE 0
    BY <1>2, <2>1
  <2>3. Known' = 0
    BY <1>1, <2>2 DEF Known
  <2>4. ASSUME NEW k \in Nat PROVE Copies(k)' = 0
    <3>1. Occurrences(list', k) = 0
      <4>1. list' \in Seq(Nat) /\ DOMAIN list' = {}
        BY <1>1
      <4> QED
        BY <4>1, OccurrencesPositions
    <3>2. Occurrences(thrPosted, PreviewDone(k))' = Occurrences(thrPosted, PreviewDone(k))
          /\ Occurrences(list, k)' = Occurrences(list', k)
      BY <1>1 DEF Occurrences, PreviewDone
    <3> QED
      BY <1>2, <2>1, <3>1, <3>2 DEF Copies
  <2>5. OnePage'
    <3>1. Asks(thrNextBatch)' <= 1 /\ Asks(0)' # 0
      BY <1>1, <2>2
    <3> QED
      BY <1>1, <2>2, <3>1 DEF OnePage
  <2>6. EachOnce'
    BY <2>3, <2>4 DEF EachOnce
  <2> QED
    BY <2>5, <2>6
<1> QED
  BY <1>3, <1>4 DEF ThreadsInv

\* The counts after a step.
LEMMA CountsLater ==
    ASSUME NEW k \in Nat
    PROVE  /\ Copies(k)' = Occurrences(list', k) + Occurrences(thrJobs', Preview(k))
                           + Occurrences(thrPosted', PreviewDone(k))
           /\ Asks(k)' = Occurrences(thrJobs', Page(k)) + Occurrences(thrPosted', PageDone(k))
                         + Occurrences(thrPosted', PageFailed(k))
  BY DEF Copies, Asks, Occurrences, Preview, PreviewDone, Page, PageDone, PageFailed

LEMMA LoadMoreThreads == ThreadsInv /\ Threads!OnLoadMoreClicked => ThreadsInv'
<1> SUFFICES ASSUME ThreadsInv, Threads!OnLoadMoreClicked PROVE ThreadsInv'
  OBVIOUS
<1>1. /\ thrJobs' = Append(thrJobs, Page(thrNextBatch)) /\ more
      /\ thrCalm' => thrCalm /\ ~Threads!UnderWay({"page"})
      /\ UNCHANGED <<pages, list, thrNextBatch, more, thrPosted, thrShown>>
      /\ ThreadTypes
  BY DEF Threads!OnLoadMoreClicked, Threads!LoadThreads, Threads!Asked, Threads!window, Page,
         ThreadsInv
<1>5. thrNextBatch \in Nat
  BY <1>1 DEF ThreadTypes
<1>2. /\ thrJobs' \in Seq(Threads!Job)
      /\ \A k \in Nat : /\ Asks(k)' = Asks(k) + IF k = thrNextBatch THEN 1 ELSE 0
                        /\ Occurrences(thrJobs, Preview(k))' = Occurrences(thrJobs, Preview(k))
  BY <1>1, <1>5, AskedPage
<1>3. ThreadTypes'
  BY <1>1, <1>2 DEF ThreadTypes
<1>4. ASSUME thrCalm', thrShown' PROVE OnePage' /\ EachOnce'
  <2>1. OnePage /\ EachOnce /\ \A k \in Nat : Asks(k) = 0
    BY <1>1, <1>4, NothingUnderWay DEF ThreadsInv
  <2>2. \A k \in Nat : Asks(k)' = IF k = thrNextBatch THEN 1 ELSE 0
    BY <1>2, <2>1
  <2>3. Known' = Known
    <3>1. CASE thrNextBatch # 0
      BY <1>1, <3>1 DEF Known
    <3>2. CASE thrNextBatch = 0
      <4>1. thrStatus = "error" /\ Asks(0)' = 1
        BY <1>1, <2>1, <2>2, <3>2 DEF OnePage
      <4>2. Known = 0 /\ Known' = 0
        BY <1>1, <3>2, <4>1 DEF Known
      <4> QED
        BY <4>2
    <3> QED
      BY <3>1, <3>2
  <2>4. ASSUME NEW k \in Nat PROVE Copies(k)' = Copies(k)
    <3>1. Occurrences(list', k) = Occurrences(list, k)
          /\ Occurrences(thrPosted', PreviewDone(k)) = Occurrences(thrPosted, PreviewDone(k))
      BY <1>1
    <3>2. Occurrences(thrJobs, Preview(k))' = Occurrences(thrJobs', Preview(k))
      BY DEF Occurrences, Preview
    <3> QED
      BY <1>2, <3>1, <3>2, CountsLater DEF Copies
  <2>5. OnePage'
    <3>2. Asks(thrNextBatch)' = 1
      BY <1>1, <1>5, <2>2 DEF Asks, Occurrences, Page, PageDone, PageFailed
    <3>3. thrNextBatch = 0 => Asks(0)' = 1
      BY <2>2
    <3> QED
      BY <1>1, <2>2, <3>2, <3>3 DEF OnePage
  <2>6. EachOnce'
    BY <2>1, <2>3, <2>4 DEF EachOnce
  <2> QED
    BY <2>5, <2>6
<1> QED
  BY <1>3, <1>4 DEF ThreadsInv

LEMMA LeaveThreads ==
    ASSUME ThreadsInv,
           \/ Threads!Close \/ \E k \in 1..pages : Threads!OnThreadClicked(k)
           \/ UNCHANGED Threads!vars
    PROVE  ThreadsInv'
<1>1. CASE UNCHANGED Threads!vars
  <2>1. UNCHANGED <<pages, list, thrNextBatch, more, thrStatus, thrJobs, thrPosted, thrShown, thrCalm>>
    BY <1>1 DEF Threads!vars
  <2>2. ThreadTypes' <=> ThreadTypes
    BY <2>1 DEF ThreadTypes
  <2>3. \A k \in Nat : Asks(k)' = Asks(k) /\ Copies(k)' = Copies(k)
    BY <2>1, CountsLater DEF Asks, Copies
  <2>4. Known' = Known
    BY <2>1, <2>3 DEF Known
  <2>5. ThreadTypes /\ OnePage => OnePage'
    <3> SUFFICES ASSUME ThreadTypes, OnePage PROVE OnePage'
      OBVIOUS
    <3>1. \A n \in Nat : n = thrNextBatch => Asks(n)' <= 1
      BY <2>3 DEF OnePage
    <3>2. Asks(thrNextBatch)' <= 1
      BY <2>1 DEF OnePage, Asks, Occurrences, Page, PageDone, PageFailed
    <3> QED
      BY <2>1, <2>3, <3>2 DEF OnePage
  <2>6. EachOnce => EachOnce'
    BY <2>3, <2>4 DEF EachOnce
  <2> QED
    BY <2>1, <2>2, <2>5, <2>6 DEF ThreadsInv
<1>2. CASE Threads!Close \/ \E k \in 1..pages : Threads!OnThreadClicked(k)
  <2>1. /\ ~thrShown' /\ thrPosted' = <<>>
        /\ UNCHANGED <<pages, list, thrNextBatch, thrJobs>>
    BY <1>2 DEF Threads!Close, Threads!OnThreadClicked, Threads!Leave
  <2>2. thrPosted' \in Seq(Threads!Reply) /\ DOMAIN thrPosted' = {}
    BY <2>1
  <2>3. ThreadTypes'
    BY <2>1, <2>2 DEF ThreadsInv, ThreadTypes
  <2> QED
    BY <2>1, <2>3 DEF ThreadsInv
<1> QED
  BY <1>1, <1>2

\* A request that ends is as many answers as it was requests.
LEMMA WorkThreads ==
    ASSUME ThreadsInv, NEW i \in DOMAIN thrJobs, Threads!Work(i)
    PROVE  ThreadsInv'
<1> DEFINE j == thrJobs[i]
<1>1. /\ thrJobs' = RemoveAt(thrJobs, i) /\ ThreadTypes
      /\ UNCHANGED <<pages, list, thrNextBatch, more, thrStatus, thrShown, thrCalm>>
  BY DEF Threads!Work, Threads!RemoveAt, RemoveAt, ThreadsInv
<1>2. /\ thrJobs' \in Seq(Threads!Job) /\ j \in Threads!Job
  BY <1>1, RemoveAtProperties DEF ThreadTypes
<1>3. PICK ok \in BOOLEAN :
         /\ ok \/ j.kind = "page"
         /\ IF thrShown
            THEN thrPosted' = Append(thrPosted, [kind |-> j.kind, page |-> j.page, ok |-> ok])
            ELSE UNCHANGED thrPosted
  BY DEF Threads!Work
<1> DEFINE p == [kind |-> j.kind, page |-> j.page, ok |-> ok]
<1>4. /\ p \in Threads!Reply /\ (p.kind = "preview" => p.ok = TRUE)
  BY <1>2, <1>3 DEF Threads!Job, Threads!Reply
<1>5. ThreadTypes'
  <2>1. thrPosted' \in Seq(Threads!Reply)
        /\ \A l \in DOMAIN thrPosted' : thrPosted'[l].kind = "preview" => thrPosted'[l].ok = TRUE
    <3> HIDE DEF p
    <3>1. CASE thrShown
      <4>1. thrPosted' = Append(thrPosted, p)
        BY <1>3, <3>1 DEF p
      <4> QED
        BY <1>1, <1>4, <4>1, AppendElements DEF ThreadTypes
    <3>2. CASE ~thrShown
      BY <1>1, <1>3, <3>2 DEF ThreadTypes
    <3> QED
      BY <3>1, <3>2
  <2> QED
    BY <1>1, <1>2, <2>1 DEF ThreadTypes
<1>6. ASSUME thrCalm', thrShown' PROVE OnePage' /\ EachOnce'
  <2>1. OnePage /\ EachOnce /\ thrPosted' = Append(thrPosted, p)
    BY <1>1, <1>3, <1>6 DEF ThreadsInv
  <2>2. /\ \A e : Occurrences(thrJobs, e) = Occurrences(thrJobs', e) + IF j = e THEN 1 ELSE 0
        /\ \A e : Occurrences(thrJobs', e) \in Nat
    <3>1. thrJobs \in Seq(Threads!Job)
      BY <1>1 DEF ThreadTypes
    <3>2. \A e : Occurrences(thrJobs, e) = Occurrences(RemoveAt(thrJobs, i), e)
                                           + IF thrJobs[i] = e THEN 1 ELSE 0
      BY <3>1, OccurrencesRemoveAt
    <3> QED
      BY <1>1, <1>2, <3>2, OccurrencesFinite
  <2>3. /\ \A e : Occurrences(thrPosted', e) = Occurrences(thrPosted, e) + IF p = e THEN 1 ELSE 0
        /\ \A e : Occurrences(thrPosted, e) \in Nat
    <3> HIDE DEF p
    <3>1. thrPosted \in Seq(Threads!Reply)
      BY <1>1 DEF ThreadTypes
    <3>2. \A e : Occurrences(Append(thrPosted, p), e) = Occurrences(thrPosted, e)
                                                         + IF p = e THEN 1 ELSE 0
      BY <3>1, OccurrencesAppend
    <3> QED
      BY <2>1, <3>1, <3>2, OccurrencesFinite
  <2>4. ASSUME NEW k \in Nat
        PROVE  /\ j = Preview(k) <=> p = PreviewDone(k)
               /\ j = Page(k) => (p = PageDone(k) /\ p # PageFailed(k))
                                 \/ (p # PageDone(k) /\ p = PageFailed(k))
               /\ j # Page(k) => p # PageDone(k) /\ p # PageFailed(k)
    <3>1. j = [kind |-> j.kind, page |-> j.page] /\ j.kind \in {"page", "preview"}
      BY <1>2 DEF Threads!Job
    <3>2. j = Preview(k) <=> j.kind = "preview" /\ j.page = k
      BY <3>1 DEF Preview
    <3>3. j = Page(k) <=> j.kind = "page" /\ j.page = k
      BY <3>1 DEF Page
    <3>4. p = PreviewDone(k) <=> j.kind = "preview" /\ j.page = k
      <4>1. j.kind = "preview" => ok = TRUE
        BY <1>3
      <4> QED
        BY <4>1 DEF PreviewDone
    <3>5. p = PageDone(k) <=> j.kind = "page" /\ j.page = k /\ ok = TRUE
      BY DEF PageDone
    <3>6. p = PageFailed(k) <=> j.kind = "page" /\ j.page = k /\ ok = FALSE
      BY DEF PageFailed
    <3> HIDE DEF j, p
    <3> QED
      BY <1>3, <3>2, <3>3, <3>4, <3>5, <3>6
  <2> HIDE DEF j, p
  <2>5. ASSUME NEW k \in Nat PROVE Asks(k)' = Asks(k) /\ Copies(k)' = Copies(k)
    <3>1. Asks(k)' = Asks(k)
      <4>1. CASE j = Page(k)
        BY <2>2, <2>3, <2>4, <4>1, CountsLater DEF Asks
      <4>2. CASE j # Page(k)
        BY <2>2, <2>3, <2>4, <4>2, CountsLater DEF Asks
      <4> QED
        BY <4>1, <4>2
    <3>2. Copies(k)' = Copies(k)
      <4>1. Occurrences(list', k) = Occurrences(list, k) /\ Occurrences(list, k) \in Nat
        BY <1>1, CountsAreNumbers
      <4> QED
        BY <2>2, <2>3, <2>4, <4>1, CountsLater DEF Copies
    <3> QED
      BY <3>1, <3>2
  <2>6. Known' = Known
    BY <1>1, <2>5 DEF Known
  <2>7. OnePage'
    <3>1. \A n \in Nat : n = thrNextBatch => Asks(n)' <= 1
      BY <2>1, <2>5 DEF OnePage
    <3>2. \A n : n = thrNextBatch => n = thrNextBatch' /\ n \in Nat
      BY <1>1 DEF ThreadTypes
    <3>3. Asks(thrNextBatch)' <= 1
      BY <3>1, <3>2 DEF Asks, Occurrences, Page, PageDone, PageFailed
    <3> QED
      BY <1>1, <2>1, <2>5, <3>3 DEF OnePage
  <2>8. EachOnce'
    BY <2>1, <2>5, <2>6 DEF EachOnce
  <2> QED
    BY <2>7, <2>8
<1> QED
  BY <1>5, <1>6 DEF ThreadsInv

LEMMA DeliverThreads == ThreadsInv /\ Threads!Deliver => ThreadsInv'
<1> SUFFICES ASSUME ThreadsInv, Threads!Deliver PROVE ThreadsInv'
  OBVIOUS
<1> DEFINE p == Head(thrPosted)
<1>1. /\ thrPosted # <<>> /\ thrPosted' = Tail(thrPosted)
      /\ UNCHANGED <<pages, thrShown, thrCalm>>
  BY DEF Threads!Deliver, Threads!window
<1>2. \/ p.kind = "page" /\ Threads!OnPage(p.page, p.ok) /\ UNCHANGED list
      \/ /\ p.kind = "preview" /\ list' = Append(list, p.page)
         /\ UNCHANGED <<thrNextBatch, more, thrStatus, thrJobs>>
  BY DEF Threads!Deliver
<1>3. /\ ThreadTypes /\ pages \in Nat /\ thrPosted \in Seq(Threads!Reply) /\ list \in Seq(Nat)
      /\ thrJobs \in Seq(Threads!Job) /\ thrNextBatch \in 0..(pages + 1)
  BY DEF ThreadsInv, ThreadTypes
<1>4. /\ p \in Threads!Reply /\ p = thrPosted[1] /\ 1 \in DOMAIN thrPosted
      /\ thrPosted' \in Seq(Threads!Reply)
      /\ \A i \in DOMAIN thrPosted' : \E m \in DOMAIN thrPosted : thrPosted'[i] = thrPosted[m]
  BY <1>1, <1>3
<1>5. /\ \A i \in DOMAIN thrPosted' : thrPosted'[i].kind = "preview" => thrPosted'[i].ok = TRUE
      /\ p.kind = "preview" => p.ok = TRUE
  BY <1>4 DEF ThreadsInv, ThreadTypes
<1>6. /\ p.page \in Nat /\ p.ok \in BOOLEAN
      /\ p.kind = "preview" => p = PreviewDone(p.page)
      /\ p.kind = "page" /\ p.ok => p = PageDone(p.page)
      /\ p.kind = "page" /\ ~p.ok => p = PageFailed(p.page)
  BY <1>4, <1>5 DEF Threads!Reply, PreviewDone, PageDone, PageFailed
<1>7. /\ \A e : Occurrences(thrPosted, e) = Occurrences(thrPosted', e) + IF p = e THEN 1 ELSE 0
      /\ \A e : Occurrences(thrPosted', e) \in Nat
  <2>1. \A e : Occurrences(thrPosted, e) = Occurrences(Tail(thrPosted), e) + IF Head(thrPosted) = e THEN 1 ELSE 0
    BY <1>1, <1>3, OccurrencesTail
  <2> QED
    BY <1>1, <1>4, <2>1, OccurrencesFinite
<1> HIDE DEF p
<1> DEFINE n == p.page
<1>8. ASSUME NEW k \in Nat
      PROVE  /\ PreviewDone(n) # PageDone(k) /\ PreviewDone(n) # PageFailed(k)
             /\ PageDone(n) # PreviewDone(k) /\ PageDone(n) # PageFailed(k)
             /\ PageFailed(n) # PreviewDone(k) /\ PageFailed(n) # PageDone(k)
             /\ PreviewDone(n) = PreviewDone(k) <=> n = k
             /\ PageDone(n) = PageDone(k) <=> n = k
             /\ PageFailed(n) = PageFailed(k) <=> n = k
  BY DEF PreviewDone, PageDone, PageFailed
<1>9. \A k \in Nat : /\ Occurrences(list, k) \in Nat /\ Occurrences(thrJobs, Preview(k)) \in Nat
                    /\ Occurrences(thrJobs, Page(k)) \in Nat
  BY <1>3, CountsAreNumbers
<1> HIDE DEF n
<1>10. n \in Nat
  BY <1>6 DEF n
\* The token's requests later.
<1>11. ASSUME NEW m \in Nat, thrNextBatch' = m
       PROVE  Asks(thrNextBatch)' = Occurrences(thrJobs', Page(m)) + Occurrences(thrPosted', PageDone(m))
                                    + Occurrences(thrPosted', PageFailed(m))
  BY <1>11 DEF Asks, Occurrences, Page, PageDone, PageFailed
<1>12. ASSUME NEW m \in Nat, thrNextBatch' = m PROVE Asks(thrNextBatch)' = Asks(m)'
  BY <1>11, <1>12, CountsLater
\* A preview becomes a row.
<1>13. CASE p = PreviewDone(n) /\ list' = Append(list, n)
            /\ UNCHANGED <<thrNextBatch, more, thrStatus, thrJobs>>
  <2>1. ThreadTypes'
    BY <1>1, <1>3, <1>4, <1>5, <1>10, <1>13 DEF ThreadTypes
  <2>2. ASSUME NEW k \in Nat PROVE Copies(k)' = Copies(k) /\ Asks(k)' = Asks(k)
    <3>1. Occurrences(list', k) = Occurrences(list, k) + IF n = k THEN 1 ELSE 0
      BY <1>3, <1>13, OccurrencesAppend
    <3>4. Occurrences(thrPosted, PreviewDone(k))
             = Occurrences(thrPosted', PreviewDone(k)) + IF n = k THEN 1 ELSE 0
      BY <1>7, <1>8, <1>13
    <3>2. Copies(k)' = Copies(k)
      <4>1. Occurrences(thrPosted', PreviewDone(k)) \in Nat /\ Occurrences(list, k) \in Nat
            /\ Occurrences(thrJobs, Preview(k)) \in Nat
        BY <1>7, <1>9
      <4>2. Copies(k) = Occurrences(list, k) + Occurrences(thrJobs, Preview(k))
                        + Occurrences(thrPosted, PreviewDone(k))
        BY DEF Copies
      <4>3. Copies(k)' = Occurrences(list', k) + Occurrences(thrJobs, Preview(k))
                         + Occurrences(thrPosted', PreviewDone(k))
        BY <1>13, CountsLater
      <4>4. CASE n = k
        BY <3>1, <3>4, <4>1, <4>2, <4>3, <4>4
      <4>5. CASE n # k
        BY <3>1, <3>4, <4>1, <4>2, <4>3, <4>5
      <4> QED
        BY <4>4, <4>5
    <3>3. Asks(k)' = Asks(k)
      BY <1>7, <1>8, <1>9, <1>13, CountsLater DEF Asks
    <3> QED
      BY <3>2, <3>3
  <2>3. ASSUME OnePage, EachOnce PROVE OnePage' /\ EachOnce'
    <3>1. Known' = Known
      BY <1>1, <1>13, <2>2 DEF Known
    <3>2. Asks(thrNextBatch)' <= 1
      <4>1. \A m \in Nat : m = thrNextBatch => Asks(m)' <= 1
        BY <2>2, <2>3 DEF OnePage
      <4> QED
        BY <1>3, <1>12, <1>13, <4>1
    <3> QED
      BY <1>13, <2>2, <2>3, <3>1, <3>2 DEF OnePage, EachOnce
  <2> QED
    BY <1>1, <2>1, <2>3 DEF ThreadsInv
\* A page failed: the request was the one for the token.
<1>14. CASE p = PageFailed(n) /\ thrStatus' = "error"
            /\ UNCHANGED <<list, thrNextBatch, more, thrJobs>>
  <2>1. ThreadTypes'
    BY <1>1, <1>3, <1>4, <1>5, <1>14 DEF ThreadTypes
  <2>2. ASSUME NEW k \in Nat
        PROVE  /\ Copies(k)' = Copies(k)
               /\ Asks(k) = Asks(k)' + (IF k = n THEN 1 ELSE 0) /\ Asks(k)' \in Nat
    <3>1. Copies(k)' = Copies(k)
      BY <1>7, <1>8, <1>9, <1>14, CountsLater DEF Copies
    <3>2. Asks(k) = Asks(k)' + (IF k = n THEN 1 ELSE 0) /\ Asks(k)' \in Nat
      BY <1>7, <1>8, <1>9, <1>14, CountsLater DEF Asks
    <3> QED
      BY <3>1, <3>2
  <2>3. ASSUME OnePage, EachOnce PROVE OnePage' /\ EachOnce'
    <3>1. n = thrNextBatch
      BY <1>10, <2>2, <2>3 DEF OnePage
    <3>2. \A k \in Nat : Asks(k)' = 0
      <4>1. \A m : m = thrNextBatch => Asks(m) <= 1
        BY <2>3 DEF OnePage
      <4> QED
        BY <1>10, <2>2, <2>3, <3>1, <4>1 DEF OnePage
    <3>3. Known' = Known
      <4>1. CASE thrNextBatch # 0
        BY <1>14, <4>1 DEF Known
      <4>2. CASE thrNextBatch = 0
        <5>1. Asks(0) # 0
          BY <1>10, <2>2, <3>1, <4>2
        <5>2. Known = 0 /\ Known' = 0
          BY <1>14, <4>2, <5>1 DEF Known
        <5> QED
          BY <5>2
      <4> QED
        BY <4>1, <4>2
    <3>4. Asks(thrNextBatch)' = 0
      BY <1>10, <1>12, <1>14, <3>1, <3>2
    <3> QED
      BY <1>14, <2>2, <2>3, <3>2, <3>3, <3>4 DEF OnePage, EachOnce
  <2> QED
    BY <1>1, <2>1, <2>3 DEF ThreadsInv
\* A page has come: it is the one after those the list stands for.
<1>15. CASE p = PageDone(n) /\ Threads!OnPage(n, TRUE) /\ UNCHANGED list
  <2> DEFINE k == IF n = 0 THEN 1 ELSE n
  <2>1. /\ thrNextBatch' \in Threads!NextTokens(k) /\ (more' <=> thrNextBatch' # 0)
        /\ k > pages => UNCHANGED thrJobs /\ thrStatus' # "error"
        /\ ~(k > pages) => thrStatus' = "found" /\ thrJobs' = Append(thrJobs, Preview(k))
    BY <1>15 DEF Threads!OnPage, Threads!Requested, Threads!Preview, Preview
  <2>2. k \in Nat /\ k >= 1
    BY <1>10
  <2> HIDE DEF k
  <2>3. Preview(k) \in Threads!Job
    BY <2>2 DEF Threads!Job, Preview
  <2>4. thrNextBatch' \in 0..(pages + 1)
    BY <1>3, <2>1, <2>2 DEF Threads!NextTokens
  <2>5. thrJobs' \in Seq(Threads!Job)
    <3>1. Append(thrJobs, Preview(k)) \in Seq(Threads!Job)
      BY <1>3, <2>3
    <3> QED
      BY <1>3, <2>1, <3>1
  <2>6. ThreadTypes'
    BY <1>1, <1>3, <1>4, <1>5, <1>15, <2>4, <2>5 DEF ThreadTypes
  <2>7. ASSUME NEW m \in Nat
        PROVE  /\ Occurrences(thrJobs', Page(m)) = Occurrences(thrJobs, Page(m))
               /\ Occurrences(thrJobs', Preview(m))
                      = Occurrences(thrJobs, Preview(m)) + IF m = k /\ k <= pages THEN 1 ELSE 0
    <3>1. CASE k > pages
      BY <1>3, <1>9, <2>1, <2>2, <3>1
    <3>2. CASE ~(k > pages)
      <4>1. \A e : Occurrences(thrJobs', e) = Occurrences(thrJobs, e) + IF Preview(k) = e THEN 1 ELSE 0
        <5>1. \A e : Occurrences(Append(thrJobs, Preview(k)), e)
                         = Occurrences(thrJobs, e) + IF Preview(k) = e THEN 1 ELSE 0
          BY <1>3, OccurrencesAppend
        <5> QED
          BY <2>1, <3>2, <5>1
      <4>2. Preview(k) # Page(m) /\ (Preview(k) = Preview(m) <=> k = m)
        BY DEF Preview, Page
      <4> QED
        <5>1. k <= pages
          BY <1>3, <2>2, <3>2
        <5> QED
          BY <1>9, <4>1, <4>2, <5>1
    <3> QED
      BY <3>1, <3>2
  <2>8. ASSUME NEW m \in Nat
        PROVE  /\ Copies(m)' = Copies(m) + IF m = k /\ k <= pages THEN 1 ELSE 0
               /\ Asks(m) = Asks(m)' + (IF m = n THEN 1 ELSE 0) /\ Asks(m)' \in Nat
    <3>1. Copies(m)' = Copies(m) + IF m = k /\ k <= pages THEN 1 ELSE 0
      BY <1>7, <1>8, <1>9, <1>15, <2>7, CountsLater DEF Copies
    <3>2. Asks(m) = Asks(m)' + (IF m = n THEN 1 ELSE 0) /\ Asks(m)' \in Nat
      BY <1>7, <1>8, <1>9, <1>15, <2>7, CountsLater DEF Asks
    <3> QED
      BY <3>1, <3>2
  <2>9. ASSUME OnePage, EachOnce PROVE OnePage' /\ EachOnce'
    <3>1. n = thrNextBatch
      BY <1>10, <2>8, <2>9 DEF OnePage
    <3>2. \A m \in Nat : Asks(m)' = 0
      <4>1. \A m : m = thrNextBatch => Asks(m) <= 1
        BY <2>9 DEF OnePage
      <4> QED
        BY <1>10, <2>8, <2>9, <3>1, <4>1 DEF OnePage
    <3>3. Known = k - 1
      <4>1. CASE thrNextBatch # 0
        BY <3>1, <4>1 DEF Known, k
      <4>2. CASE thrNextBatch = 0
        <5>1. Asks(0) # 0
          BY <1>10, <2>8, <3>1, <4>2
        <5> QED
          BY <3>1, <4>2, <5>1 DEF Known, k
      <4> QED
        BY <4>1, <4>2
    <3>4. Known' = IF k <= pages THEN k ELSE k - 1
      <4>1. k <= pages + 1
        BY <1>3, <3>1 DEF k
      <4>2. thrStatus' # "error" /\ Asks(0)' = 0
        BY <2>1, <3>2
      <4>3. Known' = IF thrNextBatch' # 0 THEN thrNextBatch' - 1 ELSE pages
        BY <1>1, <4>2 DEF Known
      <4>4. \/ k < pages /\ thrNextBatch' = k + 1
            \/ k = pages /\ thrNextBatch' \in {0, k + 1}
            \/ k > pages /\ thrNextBatch' = 0
        BY <1>3, <2>1, <2>2 DEF Threads!NextTokens
      <4> QED
        BY <1>3, <2>2, <4>1, <4>3, <4>4
    <3>5. EachOnce'
      <4> SUFFICES ASSUME NEW m \in Nat PROVE Copies(m)' = IF m \in 1..Known' THEN 1 ELSE 0
        BY DEF EachOnce
      <4>1. Copies(m) = IF m \in 1..(k - 1) THEN 1 ELSE 0
        BY <2>9, <3>3 DEF EachOnce
      <4>2. Copies(m)' = Copies(m) + IF m = k /\ k <= pages THEN 1 ELSE 0
        BY <2>8
      <4> QED
        BY <1>3, <2>2, <3>4, <4>1, <4>2
    <3>6. Asks(thrNextBatch)' = 0
      <4>1. \A m \in Nat : thrNextBatch' = m => Asks(thrNextBatch)' = 0
        BY <1>12, <3>2
      <4>2. \E m \in Nat : thrNextBatch' = m
        BY <1>3, <2>4
      <4> QED
        BY <4>1, <4>2
    <3> QED
      BY <2>1, <3>2, <3>5, <3>6 DEF OnePage
  <2> QED
    BY <1>1, <2>6, <2>9 DEF ThreadsInv
<1> QED
  <2>1. CASE p.kind = "page" /\ Threads!OnPage(p.page, p.ok) /\ UNCHANGED list
    <3>1. CASE ~p.ok
      <4>1. thrStatus' = "error" /\ UNCHANGED <<thrNextBatch, more, thrJobs>>
        BY <2>1, <3>1 DEF Threads!OnPage
      <4> QED
        BY <1>6, <1>14, <2>1, <3>1, <4>1 DEF n
    <3>2. CASE p.ok
      <4>1. p.ok = TRUE
        BY <1>6, <3>2
      <4> QED
        BY <1>6, <1>15, <2>1, <3>2, <4>1 DEF n
    <3> QED
      BY <3>1, <3>2
  <2>2. CASE p.kind = "preview" /\ list' = Append(list, p.page)
             /\ UNCHANGED <<thrNextBatch, more, thrStatus, thrJobs>>
    BY <1>6, <1>13, <2>2 DEF n
  <2> QED
    BY <1>2, <2>1, <2>2

LEMMA InitThreads == Threads!ConstantsOK /\ Threads!Init => ThreadsInv
<1> SUFFICES ASSUME Threads!ConstantsOK, Threads!Init PROVE ThreadsInv
  OBVIOUS
<1>1. /\ pages \in Nat /\ list = <<>> /\ thrNextBatch = 0 /\ ~more
      /\ thrJobs = <<Page(0)>> /\ thrPosted = <<>>
  BY DEF Threads!ConstantsOK, Threads!Init, Threads!Asked, Page
<1>2. Page(0) \in Threads!Job
  BY DEF Page, Threads!Job
<1>3. /\ list \in Seq(Nat) /\ thrPosted \in Seq(Threads!Reply) /\ thrJobs \in Seq(Threads!Job)
      /\ DOMAIN list = {} /\ DOMAIN thrPosted = {} /\ thrJobs = Append(<<>>, Page(0))
      /\ <<>> \in Seq(Threads!Job)
  BY <1>1, <1>2
<1>4. /\ \A e : Occurrences(list, e) = 0 /\ Occurrences(thrPosted, e) = 0
      /\ \A e : Occurrences(<<>>, e) = 0
  BY <1>1, <1>3, OccurrencesPositions
<1>5. \A e : Occurrences(thrJobs, e) = IF Page(0) = e THEN 1 ELSE 0
  <2>1. \A e : Occurrences(Append(<<>>, Page(0)), e) = Occurrences(<<>>, e) + IF Page(0) = e THEN 1 ELSE 0
    BY <1>3, OccurrencesAppend
  <2> QED
    BY <1>3, <1>4, <2>1
<1>6. ASSUME NEW k \in Nat PROVE Copies(k) = 0 /\ Asks(k) = IF k = 0 THEN 1 ELSE 0
  <2>1. Page(0) # Preview(k) /\ (Page(0) = Page(k) <=> k = 0)
    BY DEF Page, Preview
  <2> QED
    BY <1>4, <1>5, <2>1 DEF Copies, Asks
<1>7. ThreadTypes
  BY <1>1, <1>3 DEF ThreadTypes
<1>8. Known = 0
  BY <1>1, <1>6 DEF Known
<1>9. OnePage
  BY <1>1, <1>6 DEF OnePage
<1>10. EachOnce
  BY <1>6, <1>8 DEF EachOnce
<1> QED
  BY <1>7, <1>9, <1>10 DEF ThreadsInv

LEMMA NextThreads == ThreadsInv /\ [Threads!Next]_(Threads!vars) => ThreadsInv'
  BY RefreshThreads, LoadMoreThreads, LeaveThreads, WorkThreads, DeliverThreads DEF Threads!Next

LEMMA ThreadsShown == ThreadsInv => Threads!ThreadsListed
<1> SUFFICES ASSUME ThreadsInv, thrCalm, thrShown, thrJobs = <<>>, thrPosted = <<>>,
                    thrStatus # "error"
             PROVE  /\ Threads!IsInjective(list)
                    /\ Threads!ToSet(list) = 1..(IF thrNextBatch \in 1..pages THEN thrNextBatch - 1
                                                 ELSE pages)
  BY DEF Threads!ThreadsListed
<1>1. OnePage /\ EachOnce /\ list \in Seq(Nat) /\ pages \in Nat /\ thrNextBatch \in 0..(pages + 1)
  BY DEF ThreadsInv, ThreadTypes
<1>2. /\ \A e : Occurrences(thrJobs, e) = 0 /\ Occurrences(thrPosted, e) = 0
  <2>1. /\ thrJobs \in Seq(Threads!Job) /\ thrPosted \in Seq(Threads!Reply)
        /\ DOMAIN thrJobs = {} /\ DOMAIN thrPosted = {}
    BY DEF ThreadsInv, ThreadTypes
  <2> QED
    BY <2>1, OccurrencesPositions
<1>3. Known = IF thrNextBatch \in 1..pages THEN thrNextBatch - 1 ELSE pages
  <2>1. Asks(0) = 0
    BY <1>2 DEF Asks
  <2> QED
    BY <1>1, <2>1 DEF Known
<1>4. ASSUME NEW k \in Nat PROVE Occurrences(list, k) = IF k \in 1..Known THEN 1 ELSE 0
  <2>1. Occurrences(list, k) \in Nat
    BY <1>1, OccurrencesFinite
  <2> QED
    BY <1>1, <1>2, <2>1 DEF EachOnce, Copies
<1>5. \A i \in DOMAIN list : list[i] \in Nat
  BY <1>1
<1>6. Threads!IsInjective(list)
  <2> SUFFICES ASSUME NEW i \in DOMAIN list, NEW l \in DOMAIN list, list[i] = list[l] PROVE i = l
    BY DEF Threads!IsInjective
  <2>1. Occurrences(list, list[i]) <= 1
    BY <1>4, <1>5
  <2> QED
    BY <1>1, <2>1, OccurrencesPositions
<1>7. \A k : (\E i \in DOMAIN list : list[i] = k) <=> k \in 1..Known
  <2>1. \A k \in Nat : Occurrences(list, k) = 0 <=> k \notin 1..Known
    BY <1>4
  <2>2. \A k : Occurrences(list, k) = 0 <=> \A i \in DOMAIN list : list[i] # k
    BY <1>1, OccurrencesPositions
  <2>3. \A k \in 1..Known : k \in Nat
    OBVIOUS
  <2> QED
    BY <1>5, <2>1, <2>2, <2>3
<1>8. Threads!ToSet(list) = 1..Known
  BY <1>7 DEF Threads!ToSet
<1> QED
  BY <1>3, <1>6, <1>8

\* ThreadsDialog lists every thread once when all has come, to a user who is patient.
THEOREM ThreadsComplete ==
    ASSUME Threads!ConstantsOK PROVE Threads!Spec => []Threads!ThreadsListed
<1>1. Threads!Init => ThreadsInv
  BY InitThreads
<1> QED
  BY <1>1, NextThreads, ThreadsShown, PTL DEF Threads!Spec

-----------------------------------------------------------------------------
(***************************************************************************)
(* The directory: tokens and rooms are of pages that there are, and what   *)
(* it joined, or will hear that it joined, the user is a member of.        *)
(***************************************************************************)
TrueAnswers == {a \in Directory!Answer :
                    a.ok /\ a.request.kind = "join" => a.request.room \in dirMember}

DirectoryTyped ==
    /\ text \in Queries /\ asked \in Queries
    /\ results \in Seq(Directory!RoomIds) /\ dirNextBatch \in Directory!Token
    /\ dirJobs \in Seq(Directory!Request) /\ answers \in Seq(TrueAnswers)
    /\ dirBoxes \in Seq({"joined", "failed"})
    /\ joinedRoom \in dirMember \cup {<<>>}
    /\ moreEnabled \in BOOLEAN /\ accepted \in BOOLEAN /\ dirShown \in BOOLEAN
    /\ dirAlive \in BOOLEAN /\ dirCalm \in BOOLEAN
    /\ listed \subseteq dirMember /\ dirMember \subseteq Directory!RoomIds
    /\ dirFuel \in [Directory!Steps -> Nat]

LEMMA InitDirectory == Directory!ConstantsOK /\ Directory!Init => DirectoryTyped
<1> SUFFICES ASSUME Directory!ConstantsOK, Directory!Init PROVE DirectoryTyped
  OBVIOUS
<1>1. /\ results \in Seq(Directory!RoomIds) /\ dirJobs \in Seq(Directory!Request)
      /\ answers \in Seq(TrueAnswers) /\ dirBoxes \in Seq({"joined", "failed"})
  BY DEF Directory!Init
<1> QED
  BY <1>1 DEF Directory!Init, Directory!ConstantsOK, DirectoryTyped, Directory!Token

LEMMA SpendDirectory ==
    ASSUME dirFuel \in [Directory!Steps -> Nat], NEW s \in Directory!Steps, Directory!Spend(s)
    PROVE  dirFuel' \in [Directory!Steps -> Nat]
  BY DEF Directory!Spend

\* The page after a page that was asked for, or found, is one that there is.
LEMMA RoomIdIs ==
    ASSUME Directory!ConstantsOK, NEW q \in Queries, NEW k \in Nat \ {0}, k <= Pages[q] + 1
    PROVE  <<q, k>> \in Directory!RoomIds
<1>1. k \in 1..(Pages[q] + 1)
  BY DEF Directory!ConstantsOK
<1>2. <<q, k>> \in {<<q, l>> : l \in 1..(Pages[q] + 1)}
  BY <1>1
<1> QED
  BY <1>2 DEF Directory!RoomIds

LEMMA RoomIdHas ==
    ASSUME Directory!ConstantsOK, NEW r \in Directory!RoomIds
    PROVE  r[2] \in Nat \ {0}
<1>1. PICK q \in Queries : r \in {<<q, k>> : k \in 1..(Pages[q] + 1)}
  BY DEF Directory!RoomIds
<1>2. PICK k \in 1..(Pages[q] + 1) : r = <<q, k>>
  BY <1>1
<1> QED
  BY <1>2 DEF Directory!ConstantsOK

LEMMA AsksDirectory ==
    ASSUME DirectoryTyped, NEW from \in Directory!Token, Directory!DoSearch(from)
    PROVE  dirJobs' \in Seq(Directory!Request)
<1>1. [kind |-> "search", query |-> text, from |-> from] \in Directory!Request
  BY DEF Directory!Request, DirectoryTyped
<1> QED
  BY <1>1 DEF Directory!DoSearch, DirectoryTyped

LEMMA UserDirectory ==
    ASSUME DirectoryTyped,
           \/ \E q \in Queries : Directory!Type(q)
           \/ Directory!OnSearchClicked \/ Directory!OnLoadMoreClicked
           \/ \E r \in Directory!RoomIds : Directory!OnJoinClicked(r)
    PROVE  DirectoryTyped'
<1>1. /\ UNCHANGED <<answers, dirBoxes, accepted, joinedRoom, dirShown, listed, dirAlive, dirMember>>
      /\ TrueAnswers' = TrueAnswers
  <2>1. UNCHANGED <<answers, dirBoxes, accepted, joinedRoom, dirShown, listed, dirAlive, dirMember>>
    BY DEF Directory!Type, Directory!OnSearchClicked, Directory!OnLoadMoreClicked,
           Directory!OnJoinClicked, Directory!dialog
  <2> QED
    BY <2>1 DEF TrueAnswers, Directory!Answer
<1>2. dirFuel' \in [Directory!Steps -> Nat]
  BY SpendDirectory
  DEF DirectoryTyped, Directory!Steps, Directory!Type, Directory!OnSearchClicked,
      Directory!OnLoadMoreClicked, Directory!OnJoinClicked
<1>3. ASSUME NEW q \in Queries, Directory!Type(q) PROVE DirectoryTyped'
  BY <1>1, <1>2, <1>3 DEF Directory!Type, Directory!list, DirectoryTyped
<1>4. CASE Directory!OnSearchClicked
  <2>1. dirJobs' \in Seq(Directory!Request)
    BY <1>4, AsksDirectory DEF Directory!OnSearchClicked, Directory!Token
  <2>2. results' \in Seq(Directory!RoomIds) /\ dirCalm' \in BOOLEAN /\ dirNextBatch' \in Directory!Token
    BY <1>4 DEF Directory!OnSearchClicked, Directory!Token
  <2> QED
    BY <1>1, <1>2, <1>4, <2>1, <2>2 DEF Directory!OnSearchClicked, DirectoryTyped
<1>5. CASE Directory!OnLoadMoreClicked
  <2>1. dirJobs' \in Seq(Directory!Request)
    BY <1>5, AsksDirectory DEF Directory!OnLoadMoreClicked, DirectoryTyped
  <2>2. dirCalm' \in BOOLEAN
    BY <1>5 DEF Directory!OnLoadMoreClicked
  <2> QED
    BY <1>1, <1>2, <1>5, <2>1, <2>2 DEF Directory!OnLoadMoreClicked, Directory!list, DirectoryTyped
<1>6. ASSUME NEW r \in Directory!RoomIds, Directory!OnJoinClicked(r) PROVE DirectoryTyped'
  <2>1. [kind |-> "join", room |-> r] \in Directory!Request
    BY DEF Directory!Request
  <2>2. dirJobs' \in Seq(Directory!Request)
    BY <1>6, <2>1 DEF Directory!OnJoinClicked, DirectoryTyped
  <2> QED
    BY <1>1, <1>2, <1>6, <2>2 DEF Directory!OnJoinClicked, Directory!list, DirectoryTyped
<1> QED
  BY <1>3, <1>4, <1>5, <1>6

LEMMA LeaveDirectory ==
    ASSUME DirectoryTyped, Directory!Close \/ Directory!DismissBox
    PROVE  DirectoryTyped'
<1>1. /\ UNCHANGED <<text, results, dirNextBatch, moreEnabled, dirJobs, joinedRoom, dirAlive,
                     dirMember, asked, dirCalm, dirFuel>>
      /\ TrueAnswers' = TrueAnswers
  <2>1. UNCHANGED <<text, results, dirNextBatch, moreEnabled, dirJobs, joinedRoom, dirAlive,
                    dirMember, asked, dirCalm, dirFuel>>
    BY DEF Directory!Close, Directory!DismissBox, Directory!list
  <2> QED
    BY <2>1 DEF TrueAnswers, Directory!Answer
<1>2. /\ dirShown' \in BOOLEAN /\ answers' \in Seq(TrueAnswers) /\ listed' \subseteq dirMember
  <2>1. Directory!Leave \/ UNCHANGED <<dirShown, answers, listed>>
    BY DEF Directory!Close, Directory!DismissBox
  <2>2. CASE Directory!Leave
    <3>1. answers' \in Seq(TrueAnswers)
      BY <2>2 DEF Directory!Leave
    <3> QED
      BY <2>2, <3>1 DEF Directory!Leave, DirectoryTyped
  <2> QED
    BY <2>1, <2>2 DEF DirectoryTyped
<1>3. dirBoxes' \in Seq({"joined", "failed"}) /\ accepted' \in BOOLEAN
  <2>1. CASE Directory!Close
    BY <2>1 DEF Directory!Close, DirectoryTyped
  <2>2. CASE Directory!DismissBox
    <3>1. /\ dirBoxes' = Front(dirBoxes) /\ dirBoxes # <<>>
          /\ accepted' \in BOOLEAN
      BY <2>2 DEF Directory!DismissBox, Directory!Front, Front, DirectoryTyped
    <3> QED
      BY <3>1, FrontProperties DEF DirectoryTyped
  <2> QED
    BY <2>1, <2>2
<1> QED
  BY <1>1, <1>2, <1>3 DEF DirectoryTyped

LEMMA WorkDirectory ==
    ASSUME DirectoryTyped, NEW i \in DOMAIN dirJobs, Directory!Work(i)
    PROVE  DirectoryTyped'
<1> DEFINE r == dirJobs[i]
<1>1. dirJobs \in Seq(Directory!Request) /\ r \in Directory!Request /\ answers \in Seq(TrueAnswers)
  BY ElementOfSeq DEF DirectoryTyped
<1>2. dirJobs' = RemoveAt(dirJobs, i)
  BY DEF Directory!Work, Directory!RemoveAt, RemoveAt
<1>3. dirJobs' \in Seq(Directory!Request)
  BY <1>1, <1>2, RemoveAtProperties
<1>4. PICK ok \in BOOLEAN :
         /\ Directory!Post([request |-> r, ok |-> ok])
         /\ dirMember' = dirMember \cup (IF ok /\ r.kind = "join" THEN {r.room} ELSE {})
         /\ UNCHANGED dirFuel \/ Directory!Spend("fault")
  <2>1. CASE /\ Directory!Post([request |-> r, ok |-> TRUE])
             /\ dirMember' = dirMember \cup (IF r.kind = "join" THEN {r.room} ELSE {})
             /\ UNCHANGED dirFuel
    BY <2>1
  <2>2. CASE /\ Directory!Spend("fault") /\ Directory!Post([request |-> r, ok |-> FALSE])
             /\ UNCHANGED dirMember
    BY <2>2
  <2> QED
    BY <2>1, <2>2 DEF Directory!Work
<1> DEFINE a == [request |-> r, ok |-> ok]
<1>5. r.kind = "join" => r.room \in Directory!RoomIds
  BY <1>1 DEF Directory!Request
<1>6. dirMember \subseteq dirMember' /\ dirMember' \subseteq Directory!RoomIds
  BY <1>4, <1>5 DEF DirectoryTyped
<1>7. TrueAnswers \subseteq TrueAnswers'
  BY <1>6 DEF TrueAnswers, Directory!Answer
<1>8. a \in TrueAnswers'
  <2>1. a \in Directory!Answer
    BY <1>1 DEF Directory!Answer
  <2>2. a.ok /\ a.request.kind = "join" => a.request.room \in dirMember'
    BY <1>4
  <2> HIDE DEF a
  <2> QED
    BY <2>1, <2>2 DEF TrueAnswers, Directory!Answer
<1>9. answers' \in Seq(TrueAnswers') /\ dirAlive' \in BOOLEAN
  <2>1. answers \in Seq(TrueAnswers')
    BY <1>1, <1>7
  <2>2. answers' = Append(answers, a) \/ answers' = answers
    BY <1>4 DEF Directory!Post
  <2>3. Append(answers, a) \in Seq(TrueAnswers')
    <3> HIDE DEF a
    <3> QED
      BY <1>8, <2>1
  <2> QED
    BY <1>4, <2>1, <2>2, <2>3 DEF Directory!Post, DirectoryTyped
<1>10. dirFuel' \in [Directory!Steps -> Nat]
  BY <1>4, SpendDirectory DEF DirectoryTyped, Directory!Steps
<1>11. UNCHANGED <<text, results, dirNextBatch, moreEnabled, dirBoxes, accepted, joinedRoom,
                   dirShown, listed, asked, dirCalm>>
  BY DEF Directory!Work, Directory!list, Directory!dialog
<1> HIDE DEF a, r
<1> QED
  BY <1>3, <1>6, <1>9, <1>10, <1>11 DEF DirectoryTyped

LEMMA DeliverDirectory ==
    ASSUME Directory!ConstantsOK, DirectoryTyped, Directory!Deliver
    PROVE  DirectoryTyped'
<1> DEFINE a == Head(answers)
           r == a.request
<1>1. a \in TrueAnswers /\ answers' \in Seq(TrueAnswers)
  BY DEF Directory!Deliver, DirectoryTyped
<1>2. /\ UNCHANGED <<text, dirJobs, accepted, dirShown, dirAlive, dirMember, listed, asked, dirCalm, dirFuel>>
      /\ TrueAnswers' = TrueAnswers
  <2>1. UNCHANGED <<text, dirJobs, accepted, dirShown, dirAlive, dirMember, listed, asked, dirCalm, dirFuel>>
    BY DEF Directory!Deliver
  <2> QED
    BY <2>1 DEF TrueAnswers, Directory!Answer
<1>3. r \in Directory!Request /\ a.ok \in BOOLEAN
  BY <1>1 DEF TrueAnswers, Directory!Answer
<1>4. a.ok /\ r.kind = "join" => r.room \in dirMember
  BY <1>1 DEF TrueAnswers
<1>5. /\ UNCHANGED <<results, dirNextBatch, moreEnabled>> \/ (r.kind = "search" /\ Directory!ShowPage(r))
      /\ UNCHANGED joinedRoom \/ (r.kind = "join" /\ a.ok /\ joinedRoom' = r.room)
      /\ \/ UNCHANGED dirBoxes
         \/ \E b \in {"joined", "failed"} : dirBoxes' = Append(dirBoxes, b)
  BY DEF Directory!Deliver, Directory!list
<1> HIDE DEF a, r
<1>6. dirBoxes' \in Seq({"joined", "failed"})
  <2>1. dirBoxes \in Seq({"joined", "failed"})
    BY DEF DirectoryTyped
  <2> QED
    BY <1>5, <2>1, AppendElements
<1>7. joinedRoom' \in dirMember \cup {<<>>}
  BY <1>4, <1>5 DEF DirectoryTyped
<1>8. results' \in Seq(Directory!RoomIds) /\ dirNextBatch' \in Directory!Token /\ moreEnabled' \in BOOLEAN
  <2>1. CASE r.kind = "search" /\ Directory!ShowPage(r)
    <3> DEFINE k == Directory!PageOf(r)
    <3>1. r.query \in Queries /\ r.from \in Directory!Token
      BY <1>3, <2>1 DEF Directory!Request
    <3>2. k \in Nat \ {0}
      BY <3>1, RoomIdHas DEF Directory!PageOf, Directory!Token
    <3>3. /\ dirNextBatch' = Directory!NextToken(r.query, k) /\ moreEnabled' = (dirNextBatch' # <<>>)
          /\ results' = (IF r.from = <<>> THEN <<>> ELSE results)
                            \o (IF k <= Pages[r.query] THEN <<<<r.query, k>>>> ELSE <<>>)
      BY <2>1 DEF Directory!ShowPage
    <3> HIDE DEF k
    <3>4. Pages[r.query] \in Nat
      BY <3>1 DEF Directory!ConstantsOK
    <3>5. dirNextBatch' \in Directory!Token
      BY <3>1, <3>2, <3>3, <3>4, RoomIdIs DEF Directory!NextToken, Directory!Token
    <3>6. (IF k <= Pages[r.query] THEN <<<<r.query, k>>>> ELSE <<>>) \in Seq(Directory!RoomIds)
      <4>1. CASE k <= Pages[r.query]
        <5>1. <<r.query, k>> \in Directory!RoomIds
          BY <3>1, <3>2, <3>4, <4>1, RoomIdIs
        <5> QED
          BY <4>1, <5>1
      <4> QED
        BY <4>1
    <3>7. (IF r.from = <<>> THEN <<>> ELSE results) \in Seq(Directory!RoomIds)
      BY DEF DirectoryTyped
    <3>8. results' \in Seq(Directory!RoomIds)
      BY <3>3, <3>6, <3>7, ConcatProperties
    <3> QED
      BY <3>3, <3>5, <3>8
  <2> QED
    BY <1>5, <2>1 DEF DirectoryTyped
<1> QED
  BY <1>1, <1>2, <1>6, <1>7, <1>8 DEF DirectoryTyped

LEMMA NextDirectory ==
    ASSUME Directory!ConstantsOK, DirectoryTyped, [Directory!Next]_(Directory!vars)
    PROVE  DirectoryTyped'
<1>1. CASE UNCHANGED Directory!vars
  BY <1>1 DEF Directory!vars, DirectoryTyped, TrueAnswers, Directory!Answer
<1> QED
  BY <1>1, UserDirectory, LeaveDirectory, WorkDirectory, DeliverDirectory DEF Directory!Next

\* Every room that the directory adds to the room list is one that the user joined
\* (onBrowseRooms, after RoomDirectoryDialog::joinedRoomId), and its tokens name pages.
LEMMA DirectoryIsTyped ==
    ASSUME Directory!ConstantsOK
    PROVE  Directory!Spec => []Directory!TypeOK
<1>1. Directory!Init => DirectoryTyped
  BY InitDirectory
<1>2. DirectoryTyped /\ [Directory!Next]_(Directory!vars) => DirectoryTyped'
  BY NextDirectory
<1>3. DirectoryTyped => Directory!TypeOK
  <2> SUFFICES ASSUME DirectoryTyped PROVE Directory!TypeOK
    OBVIOUS
  <2>1. answers \in Seq(Directory!Answer)
    BY DEF DirectoryTyped, TrueAnswers
  <2>2. Directory!ToSet(dirBoxes) \subseteq {"joined", "failed"}
    BY ElementOfSeq DEF DirectoryTyped, Directory!ToSet
  <2> QED
    BY <2>1, <2>2 DEF DirectoryTyped, Directory!TypeOK, Directory!Token
<1> QED
  BY <1>1, <1>2, <1>3, PTL DEF Directory!Spec

-----------------------------------------------------------------------------
(***************************************************************************)
(* The list of threads: previews are of pages that there are.              *)
(***************************************************************************)
ThreadJobs    == {j \in Threads!Job : j.kind = "preview" => j.page \in 1..pages}
ThreadReplies == {r \in Threads!Reply : r.kind = "preview" => r.page \in 1..pages}

ThreadListTyped ==
    /\ pages \in PageCounts /\ pages \in Nat /\ list \in Seq(1..pages)
    /\ thrNextBatch \in 0..(pages + 1) /\ thrStatus \in Threads!Statuses
    /\ thrJobs \in Seq(ThreadJobs) /\ thrPosted \in Seq(ThreadReplies)
    /\ opened \in 0..pages
    /\ more \in BOOLEAN /\ thrShown \in BOOLEAN /\ thrAlive \in BOOLEAN /\ thrCalm \in BOOLEAN
    /\ thrFuel \in [Threads!Steps -> Nat]

LEMMA InitThreadList == Threads!ConstantsOK /\ Threads!Init => ThreadListTyped
<1> SUFFICES ASSUME Threads!ConstantsOK, Threads!Init PROVE ThreadListTyped
  OBVIOUS
<1>1. Threads!Asked(0) \in ThreadJobs
  BY DEF Threads!Asked, ThreadJobs, Threads!Job
<1>2. thrJobs \in Seq(ThreadJobs)
  BY <1>1 DEF Threads!Init
<1>3. list \in Seq(1..pages) /\ thrPosted \in Seq(ThreadReplies)
  BY DEF Threads!Init
<1>4. pages \in PageCounts /\ pages \in Nat /\ thrNextBatch \in 0..(pages + 1) /\ opened \in 0..pages
  <2>1. pages \in PageCounts /\ PageCounts \subseteq Nat /\ thrNextBatch = 0 /\ opened = 0
    BY DEF Threads!Init, Threads!ConstantsOK
  <2>2. pages \in Nat
    BY <2>1
  <2> QED
    BY <2>1, <2>2
<1>5. /\ thrStatus \in Threads!Statuses /\ thrFuel \in [Threads!Steps -> Nat]
      /\ more \in BOOLEAN /\ thrShown \in BOOLEAN /\ thrAlive \in BOOLEAN /\ thrCalm \in BOOLEAN
  BY DEF Threads!Init, Threads!ConstantsOK, Threads!Statuses
<1> QED
  BY <1>2, <1>3, <1>4, <1>5 DEF ThreadListTyped

LEMMA SpendThreads ==
    ASSUME thrFuel \in [Threads!Steps -> Nat], NEW s \in Threads!Steps, Threads!Spend(s)
    PROVE  thrFuel' \in [Threads!Steps -> Nat]
  BY DEF Threads!Spend

LEMMA AsksThreads ==
    ASSUME ThreadListTyped, NEW from \in Nat, Threads!LoadThreads(from), UNCHANGED pages
    PROVE  (thrStatus \in Threads!Statuses)' /\ (thrJobs \in Seq(ThreadJobs))'
<1>1. Threads!Asked(from) \in ThreadJobs
  BY DEF Threads!Asked, ThreadJobs, Threads!Job
<1>2. thrJobs' \in Seq(ThreadJobs)
  BY <1>1 DEF Threads!LoadThreads, ThreadListTyped
<1>3. ThreadJobs' = ThreadJobs
  BY DEF ThreadJobs, Threads!Job
<1> QED
  BY <1>2, <1>3 DEF Threads!LoadThreads, Threads!Statuses

LEMMA UserThreads ==
    ASSUME ThreadListTyped, \/ Threads!OnRefreshClicked \/ Threads!OnLoadMoreClicked \/ Threads!Close
                            \/ \E k \in 1..pages : Threads!OnThreadClicked(k)
    PROVE  ThreadListTyped'
<1>1. pages' = pages /\ ThreadJobs' = ThreadJobs /\ ThreadReplies' = ThreadReplies
  <2>1. pages' = pages
    BY DEF Threads!OnRefreshClicked, Threads!OnLoadMoreClicked, Threads!Close, Threads!OnThreadClicked
  <2> QED
    BY <2>1 DEF ThreadJobs, ThreadReplies, Threads!Job, Threads!Reply
<1>2. CASE Threads!OnRefreshClicked
  <2>1. (thrStatus \in Threads!Statuses)' /\ (thrJobs \in Seq(ThreadJobs))'
    BY <1>1, <1>2, AsksThreads DEF Threads!OnRefreshClicked
  <2>2. thrFuel' \in [Threads!Steps -> Nat]
    BY <1>2, SpendThreads DEF Threads!OnRefreshClicked, ThreadListTyped, Threads!Steps
  <2>3. thrCalm' \in BOOLEAN
    BY <1>2 DEF Threads!OnRefreshClicked
  <2> QED
    BY <1>1, <1>2, <2>1, <2>2, <2>3 DEF Threads!OnRefreshClicked, Threads!window, ThreadListTyped
<1>3. CASE Threads!OnLoadMoreClicked
  <2>1. (thrStatus \in Threads!Statuses)' /\ (thrJobs \in Seq(ThreadJobs))'
    BY <1>1, <1>3, AsksThreads DEF Threads!OnLoadMoreClicked, ThreadListTyped
  <2>2. thrFuel' \in [Threads!Steps -> Nat]
    BY <1>3, SpendThreads DEF Threads!OnLoadMoreClicked, ThreadListTyped, Threads!Steps
  <2>3. thrCalm' \in BOOLEAN
    BY <1>3 DEF Threads!OnLoadMoreClicked
  <2> QED
    BY <1>1, <1>3, <2>1, <2>2, <2>3 DEF Threads!OnLoadMoreClicked, Threads!window, ThreadListTyped
<1>4. CASE Threads!Close
  <2>1. thrPosted' \in Seq(ThreadReplies)
    BY <1>4 DEF Threads!Close, Threads!Leave
  <2> QED
    BY <1>1, <1>4, <2>1 DEF Threads!Close, Threads!Leave, ThreadListTyped
<1>5. ASSUME NEW k \in 1..pages, Threads!OnThreadClicked(k) PROVE ThreadListTyped'
  <2>1. thrPosted' \in Seq(ThreadReplies) /\ opened' \in 0..pages
    BY <1>5 DEF Threads!OnThreadClicked, Threads!Leave, ThreadListTyped
  <2> QED
    BY <1>1, <1>5, <2>1 DEF Threads!OnThreadClicked, Threads!Leave, ThreadListTyped
<1> QED
  BY <1>2, <1>3, <1>4, <1>5

LEMMA WorkThreadList ==
    ASSUME ThreadListTyped, NEW i \in DOMAIN thrJobs, Threads!Work(i)
    PROVE  ThreadListTyped'
<1> DEFINE j == thrJobs[i]
<1>1. thrJobs \in Seq(ThreadJobs) /\ j \in ThreadJobs
  BY ElementOfSeq DEF ThreadListTyped
<1>2. thrJobs' = RemoveAt(thrJobs, i)
  BY DEF Threads!Work, Threads!RemoveAt, RemoveAt
<1>3. pages' = pages /\ ThreadJobs' = ThreadJobs /\ ThreadReplies' = ThreadReplies
  <2>1. pages' = pages
    BY DEF Threads!Work
  <2> QED
    BY <2>1 DEF ThreadJobs, ThreadReplies, Threads!Job, Threads!Reply
<1>4. thrJobs' \in Seq(ThreadJobs)
  BY <1>1, <1>2, RemoveAtProperties
<1>5. PICK ok \in BOOLEAN :
         /\ IF ok THEN UNCHANGED thrFuel ELSE Threads!Spend("fault")
         /\ IF thrShown THEN /\ thrPosted' = Append(thrPosted, [kind |-> j.kind, page |-> j.page, ok |-> ok])
                             /\ UNCHANGED thrAlive
            ELSE thrAlive' \in BOOLEAN /\ UNCHANGED thrPosted
  BY DEF Threads!Work
<1>6. [kind |-> j.kind, page |-> j.page, ok |-> ok] \in ThreadReplies
  BY <1>1 DEF ThreadJobs, ThreadReplies, Threads!Job, Threads!Reply
<1>7. thrPosted' \in Seq(ThreadReplies) /\ thrAlive' \in BOOLEAN
  <2>1. thrPosted \in Seq(ThreadReplies) /\ thrAlive \in BOOLEAN
    BY DEF ThreadListTyped
  <2> QED
    BY <1>5, <1>6, <2>1, AppendElements
<1>8. thrFuel' \in [Threads!Steps -> Nat]
  BY <1>5, SpendThreads DEF ThreadListTyped, Threads!Steps
<1>9. UNCHANGED <<list, thrNextBatch, more, thrStatus, thrShown, opened, thrCalm>>
  BY DEF Threads!Work
<1> HIDE DEF j
<1> QED
  BY <1>3, <1>4, <1>7, <1>8, <1>9 DEF ThreadListTyped

LEMMA DeliverThreadList ==
    ASSUME ThreadListTyped, Threads!Deliver
    PROVE  ThreadListTyped'
<1> DEFINE p == Head(thrPosted)
           k == Threads!Requested(p.page)
<1>1. p \in ThreadReplies /\ thrPosted' \in Seq(ThreadReplies)
  BY DEF ThreadListTyped, Threads!Deliver
<1>2. pages' = pages /\ ThreadJobs' = ThreadJobs /\ ThreadReplies' = ThreadReplies
  <2>1. pages' = pages
    BY DEF Threads!Deliver
  <2> QED
    BY <2>1 DEF ThreadJobs, ThreadReplies, Threads!Job, Threads!Reply
<1>3. UNCHANGED <<thrShown, thrAlive, opened, thrCalm, thrFuel>>
  BY DEF Threads!Deliver, Threads!window
<1>4. \/ p.kind = "page" /\ Threads!OnPage(p.page, p.ok) /\ UNCHANGED list
      \/ /\ p.kind = "preview" /\ list' = Append(list, p.page)
         /\ UNCHANGED <<thrNextBatch, more, thrStatus, thrJobs>>
  BY DEF Threads!Deliver
<1>5. p.page \in Nat /\ (p.kind = "preview" => p.page \in 1..pages)
  BY <1>1 DEF ThreadReplies, Threads!Reply
<1>6. k \in Nat \ {0}
  BY <1>5 DEF Threads!Requested
<1> HIDE DEF p
<1>7. CASE p.kind = "preview"
  <2>1. list' = Append(list, p.page) /\ p.page \in 1..pages
    BY <1>4, <1>5, <1>7
  <2>2. list' \in Seq(1..pages)
    BY <2>1 DEF ThreadListTyped
  <2> QED
    BY <1>1, <1>2, <1>3, <1>4, <1>7, <2>2 DEF ThreadListTyped
<1>8. CASE p.kind = "page" /\ Threads!OnPage(p.page, p.ok) /\ UNCHANGED list
  <2>1. CASE ~p.ok
    BY <1>1, <1>2, <1>3, <1>8, <2>1 DEF Threads!OnPage, ThreadListTyped, Threads!Statuses
  <2>2. CASE p.ok
    <3>1. /\ thrNextBatch' \in Threads!NextTokens(k) /\ more' = (thrNextBatch' # 0)
          /\ IF k > pages
             THEN thrStatus' = (IF list = <<>> THEN "none" ELSE "noMore") /\ UNCHANGED thrJobs
             ELSE thrStatus' = "found" /\ thrJobs' = Threads!Preview(k)
      BY <1>8, <2>2 DEF Threads!OnPage
    <3> HIDE DEF k
    <3>2. pages \in Nat
      BY DEF ThreadListTyped
    <3>3. thrNextBatch' \in 0..(pages + 1)
      BY <1>6, <3>1, <3>2 DEF Threads!NextTokens
    <3>4. thrStatus' \in Threads!Statuses /\ more' \in BOOLEAN
      BY <3>1 DEF Threads!Statuses
    <3>5. thrJobs' \in Seq(ThreadJobs)
      <4>1. CASE k > pages
        BY <3>1, <4>1 DEF ThreadListTyped
      <4>2. CASE ~(k > pages)
        <5>1. [kind |-> "preview", page |-> k] \in ThreadJobs
          BY <1>6, <3>2, <4>2 DEF ThreadJobs, Threads!Job
        <5>2. thrJobs \in Seq(ThreadJobs) /\ thrJobs' = Append(thrJobs, [kind |-> "preview", page |-> k])
          BY <3>1, <4>2 DEF Threads!Preview, ThreadListTyped
        <5> QED
          BY <5>1, <5>2, AppendElements
      <4> QED
        BY <4>1, <4>2
    <3> QED
      BY <1>1, <1>2, <1>3, <1>8, <3>3, <3>4, <3>5 DEF ThreadListTyped
  <2> QED
    BY <1>1, <2>1, <2>2 DEF ThreadReplies, Threads!Reply
<1> QED
  BY <1>4, <1>7, <1>8

LEMMA NextThreadList ==
    ThreadListTyped /\ [Threads!Next]_(Threads!vars) => ThreadListTyped'
<1> SUFFICES ASSUME ThreadListTyped, [Threads!Next]_(Threads!vars) PROVE ThreadListTyped'
  OBVIOUS
<1>1. CASE UNCHANGED Threads!vars
  BY <1>1 DEF Threads!vars, ThreadListTyped, ThreadJobs, ThreadReplies, Threads!Job, Threads!Reply
<1> QED
  BY <1>1, UserThreads, WorkThreadList, DeliverThreadList DEF Threads!Next

\* The rows, the token, the previews and the thread that is opened are of pages that there
\* are (ThreadsDialog), whatever is asked and answered.
LEMMA ThreadsAreTyped ==
    ASSUME Threads!ConstantsOK
    PROVE  Threads!Spec => []Threads!TypeOK
<1>1. Threads!Init => ThreadListTyped
  BY InitThreadList
<1>2. ThreadListTyped => Threads!TypeOK
  <2> SUFFICES ASSUME ThreadListTyped PROVE Threads!TypeOK
    OBVIOUS
  <2>1. thrJobs \in Seq(Threads!Job) /\ thrPosted \in Seq(Threads!Reply)
    BY DEF ThreadListTyped, ThreadJobs, ThreadReplies
  <2> QED
    BY <2>1 DEF ThreadListTyped, Threads!TypeOK
<1> QED
  BY <1>1, <1>2, NextThreadList, PTL DEF Threads!Spec

-----------------------------------------------------------------------------
(***************************************************************************)
(* The members: whoever is listed, verified or drawn is a user there is,   *)
(* the cache of avatars keeps to its limit, and a request that is made for *)
(* a profile is for one that was opened.                                   *)
(***************************************************************************)
CountedJobs == {j \in PeopleJob : j.by <= peoCount}

PeopleSets == /\ all \subseteq Persons /\ peoRows \subseteq Persons
              /\ peoVerified \subseteq Persons /\ avatars \subseteq Persons
              /\ IsFiniteSet(avatars) /\ Cardinality(avatars) <= AvatarCacheMax

PeopleFlags == /\ search \in Searches
               /\ peoLoaded \in BOOLEAN /\ timer \in BOOLEAN /\ canReload \in BOOLEAN
               /\ peoShown \in BOOLEAN /\ peoAlive \in BOOLEAN
               /\ peoFuel \in [People!Steps -> Nat]

PeopleCounts == /\ profile = People!NoProfile \/ profile.n = peoCount
                /\ peoJobs \in Seq(CountedJobs)

PeopleTyped == PeopleInv /\ PeopleSets /\ PeopleFlags /\ PeopleCounts

LEMMA InitPeopleTyped == People!ConstantsOK /\ People!Init => PeopleTyped
<1> SUFFICES ASSUME People!ConstantsOK, People!Init PROVE PeopleTyped
  OBVIOUS
<1>1. PeopleInv
  BY InitPeople
<1>2. PeopleSets
  <2>1. IsFiniteSet({}) /\ Cardinality({}) = 0
    BY FS_EmptySet
  <2> QED
    BY <2>1 DEF People!Init, People!ConstantsOK, PeopleSets
<1>3. PeopleFlags
  BY DEF People!Init, People!ConstantsOK, PeopleFlags
<1>4. PeopleCounts
  <2>1. People!NoOne \in Persons
    BY DEF People!ConstantsOK, People!NoOne
  <2> DEFINE j == [kind |-> "members", by |-> 0, user |-> People!NoOne]
  <2>2. j \in CountedJobs
    BY <2>1 DEF CountedJobs, PeopleJob, People!Kinds, ByList, People!Init
  <2>3. peoJobs = <<j>>
    BY DEF People!Init, People!Job
  <2>4. peoJobs \in Seq(CountedJobs)
    <3> HIDE DEF j
    <3> QED
      BY <2>2, <2>3
  <2> QED
    BY <2>4 DEF PeopleCounts, People!Init
<1> QED
  BY <1>1, <1>2, <1>3, <1>4 DEF PeopleTyped

LEMMA FlagsPeople ==
    ASSUME PeopleFlags, [People!Next]_(People!vars)
    PROVE  PeopleFlags'
<1>1. ASSUME NEW s \in People!Steps, People!Spend(s) PROVE peoFuel' \in [People!Steps -> Nat]
  BY <1>1 DEF PeopleFlags, People!Spend
<1>2. CASE UNCHANGED People!vars
  BY <1>2 DEF People!vars, PeopleFlags
<1>3. ASSUME NEW s \in Searches, People!Type(s) PROVE PeopleFlags'
  BY <1>1, <1>3 DEF People!Type, PeopleFlags, People!life, People!Steps
<1>4. CASE People!Timeout
  BY <1>4 DEF People!Timeout, PeopleFlags, People!life
<1>5. CASE People!OnReloadClicked
  BY <1>1, <1>5 DEF People!OnReloadClicked, People!ReloadMembers, PeopleFlags, People!life, People!Steps
<1>6. ASSUME NEW k, NEW u, People!Ask(k, u) PROVE PeopleFlags'
  BY <1>1, <1>6 DEF People!Ask, PeopleFlags, People!life, People!list, People!Steps
<1>7. CASE People!OnCopyMXID \/ People!DismissBox \/ People!Close
  BY <1>7 DEF People!OnCopyMXID, People!DismissBox, People!Close, PeopleFlags, People!life, People!list
<1>8. ASSUME NEW u \in Persons, People!OnMemberClicked(u) PROVE PeopleFlags'
  BY <1>1, <1>8 DEF People!OnMemberClicked, PeopleFlags, People!list, People!Steps
<1>9. ASSUME NEW c \in People!Commands, People!OnCommandClicked(c) PROVE PeopleFlags'
  BY <1>1, <1>6, <1>9 DEF People!OnCommandClicked, PeopleFlags, People!life, People!list, People!Steps
<1>10. CASE People!Confirm
  <2>1. UNCHANGED peoFuel \/ People!Spend("fault")
    BY <1>10 DEF People!Confirm, People!StartVerifyForUser
  <2> QED
    BY <1>1, <1>10, <2>1 DEF People!Confirm, PeopleFlags, People!life, People!list, People!Steps
<1>11. CASE People!Deliver
  <2>1. UNCHANGED <<search, peoShown, peoAlive, peoFuel>>
    BY <1>11 DEF People!Deliver, People!life
  <2>2. (peoLoaded \in BOOLEAN)' /\ (timer \in BOOLEAN)' /\ (canReload \in BOOLEAN)'
    BY <1>11 DEF People!Deliver, People!OnMembers, People!OnInvited, People!ReloadMembers,
                 People!OnLoaded, People!OnAvatar, People!OnCommandDone, People!list, PeopleFlags
  <2> QED
    BY <2>1, <2>2 DEF PeopleFlags
<1>12. ASSUME NEW i \in DOMAIN peoJobs, People!Work(i) PROVE PeopleFlags'
  <2>1. UNCHANGED peoFuel \/ People!Spend("fault")
    BY <1>12 DEF People!Work
  <2>2. peoAlive' \in BOOLEAN
    BY <1>12 DEF People!Work, PeopleFlags
  <2> QED
    BY <1>1, <1>12, <2>1, <2>2 DEF People!Work, PeopleFlags, People!list, People!Steps
<1> QED
  BY <1>2, <1>3, <1>4, <1>5, <1>6, <1>7, <1>8, <1>9, <1>10, <1>11, <1>12
  DEF People!Next, People!OnInviteClicked, People!OnMemberContextMenu

\* The cache of avatars is cleared when it is full (MemberProfileDialog::avatarCache).
LEMMA AvatarsFit ==
    ASSUME People!ConstantsOK, PeopleSets, NEW u \in Persons,
           avatars' = {u} \cup (IF People!Cardinality(avatars) >= AvatarCacheMax THEN {} ELSE avatars)
    PROVE  avatars' \subseteq Persons /\ IsFiniteSet(avatars') /\ Cardinality(avatars') <= AvatarCacheMax
<1>1. People!Cardinality(avatars) = Cardinality(avatars)
  BY DEF People!Cardinality, Cardinality
<1>2. Cardinality(avatars) \in Nat /\ AvatarCacheMax \in Nat \ {0}
  <2>1. AvatarCacheMax \in Nat \ {0}
    BY DEF People!ConstantsOK
  <2>2. IsFiniteSet(avatars)
    BY DEF PeopleSets
  <2> QED
    BY <2>1, <2>2, FS_CardinalityType
<1>3. CASE Cardinality(avatars) >= AvatarCacheMax
  <2>1. avatars' = {u}
    BY <1>1, <1>3
  <2> QED
    BY <1>2, <2>1, FS_Singleton
<1>4. CASE ~(Cardinality(avatars) >= AvatarCacheMax)
  <2>1. avatars' = avatars \cup {u}
    BY <1>1, <1>4
  <2>2. IsFiniteSet(avatars) /\ avatars \subseteq Persons
    BY DEF PeopleSets
  <2>3. /\ IsFiniteSet(avatars \cup {u})
        /\ Cardinality(avatars \cup {u}) = Cardinality(avatars) \/ Cardinality(avatars \cup {u}) = Cardinality(avatars) + 1
    BY <2>2, FS_AddElement
  <2> QED
    BY <1>2, <1>4, <2>1, <2>2, <2>3
<1> QED
  BY <1>3, <1>4

LEMMA SetsPeople ==
    ASSUME People!ConstantsOK, PeopleInv, PeopleSets, [People!Next]_(People!vars)
    PROVE  PeopleSets'
<1>1. CASE UNCHANGED <<all, peoRows, peoVerified, avatars>>
  BY <1>1 DEF PeopleSets
<1>2. CASE People!Timeout
  BY <1>2 DEF People!Timeout, People!ApplyFilter, PeopleSets
<1>3. CASE People!OnReloadClicked
  BY <1>3 DEF People!OnReloadClicked, People!ReloadMembers, PeopleSets
<1>4. CASE People!Confirm
  <2>1. UNCHANGED <<all, peoRows, avatars>>
    BY <1>4 DEF People!Confirm, People!list
  <2>2. UNCHANGED peoVerified \/ (box.kind = "menu" /\ peoVerified' = peoVerified \cup {box.user})
    BY <1>4 DEF People!Confirm, People!StartVerifyForUser
  <2>3. box.kind = "menu" => box.user \in Persons
    BY DEF PeopleInv, PeopleTypes, Asking, People!NoBox
  <2> QED
    BY <2>1, <2>2, <2>3 DEF PeopleSets
<1>5. CASE People!Deliver
  <2> DEFINE p == Head(peoPosted)
  <2>1. p \in PeopleReply
    BY <1>5 DEF People!Deliver, PeopleInv, PeopleTypes
  <2>2. p.user \in Persons /\ p.members \subseteq Persons
    BY <2>1 DEF PeopleReply
  <2>3. \/ People!OnMembers(p) \/ People!OnInvited(p) \/ People!OnLoaded(p) \/ People!OnAvatar(p)
        \/ People!OnCommandDone(p)
    BY <1>5 DEF People!Deliver
  <2> HIDE DEF p
  <2>4. CASE People!OnMembers(p)
    BY <2>2, <2>4 DEF People!OnMembers, People!ApplyFilter, People!ConstantsOK, PeopleSets
  <2>5. CASE People!OnInvited(p)
    BY <2>5 DEF People!OnInvited, People!ReloadMembers, People!list, PeopleSets
  <2>6. CASE People!OnLoaded(p)
    BY <1>1, <2>6 DEF People!OnLoaded, People!list
  <2>7. CASE People!OnAvatar(p)
    <3>1. CASE p.ok
      <4>1. avatars' = {p.user} \cup (IF People!Cardinality(avatars) >= AvatarCacheMax THEN {} ELSE avatars)
        BY <2>7, <3>1 DEF People!OnAvatar
      <4>2. avatars' \subseteq Persons /\ IsFiniteSet(avatars') /\ Cardinality(avatars') <= AvatarCacheMax
        BY <2>2, <4>1, AvatarsFit
      <4>3. UNCHANGED <<all, peoRows, peoVerified>>
        BY <2>7 DEF People!OnAvatar, People!list
      <4> QED
        BY <4>2, <4>3 DEF PeopleSets
    <3>2. CASE ~p.ok
      BY <1>1, <2>7, <3>2 DEF People!OnAvatar, People!list
    <3> QED
      BY <3>1, <3>2
  <2>8. CASE People!OnCommandDone(p)
    BY <2>2, <2>8 DEF People!OnCommandDone, People!list, PeopleSets
  <2> QED
    BY <2>3, <2>4, <2>5, <2>6, <2>7, <2>8
<1>6. ASSUME NEW k, NEW u, People!Ask(k, u) PROVE PeopleSets'
  BY <1>1, <1>6 DEF People!Ask, People!list
<1>7. ASSUME NEW s, People!Type(s) PROVE PeopleSets'
  BY <1>1, <1>7 DEF People!Type
<1>8. CASE People!OnCopyMXID \/ People!DismissBox \/ People!Close
  BY <1>1, <1>8 DEF People!OnCopyMXID, People!DismissBox, People!Close, People!list
<1>9. ASSUME NEW u, People!OnMemberClicked(u) PROVE PeopleSets'
  BY <1>1, <1>9 DEF People!OnMemberClicked, People!list
<1>10. ASSUME NEW c, People!OnCommandClicked(c) PROVE PeopleSets'
  BY <1>1, <1>6, <1>10 DEF People!OnCommandClicked, People!list
<1>11. ASSUME NEW i, People!Work(i) PROVE PeopleSets'
  BY <1>1, <1>11 DEF People!Work, People!list
<1>12. CASE UNCHANGED People!vars
  BY <1>1, <1>12 DEF People!vars
<1> QED
  BY <1>2, <1>3, <1>4, <1>5, <1>6, <1>7, <1>8, <1>9, <1>10, <1>11, <1>12
  DEF People!Next, People!OnInviteClicked, People!OnMemberContextMenu

\* A request that is made is for the list, or the profile that is open.
LEMMA JobsCounted ==
    ASSUME PeopleTypes, PeopleTypes', peoJobs \in Seq(CountedJobs), peoCount <= peoCount',
           \/ UNCHANGED peoJobs
           \/ \E i \in DOMAIN peoJobs : peoJobs' = RemoveAt(peoJobs, i)
           \/ \E j : j.by <= peoCount' /\ peoJobs' = Append(peoJobs, j)
    PROVE  peoJobs' \in Seq(CountedJobs')
<1>1. peoCount \in Nat /\ peoCount' \in Nat /\ PeopleJob' = PeopleJob
  BY DEF PeopleTypes, PeopleJob, People!Kinds, People!Commands, ByList
<1>2. CountedJobs \subseteq CountedJobs'
  BY <1>1 DEF CountedJobs, PeopleJob
<1>3. peoJobs \in Seq(CountedJobs')
  BY <1>2
<1>4. ASSUME NEW i \in DOMAIN peoJobs, peoJobs' = RemoveAt(peoJobs, i)
      PROVE  peoJobs' \in Seq(CountedJobs')
  BY <1>3, <1>4, RemoveAtProperties
<1>5. ASSUME NEW j, j.by <= peoCount', peoJobs' = Append(peoJobs, j)
      PROVE  peoJobs' \in Seq(CountedJobs')
  <2>1. peoJobs' \in Seq(PeopleJob) /\ peoJobs \in Seq(PeopleJob)
    BY <1>1 DEF PeopleTypes
  <2>2. Len(peoJobs) + 1 \in DOMAIN peoJobs' /\ peoJobs'[Len(peoJobs) + 1] = j
    BY <1>5, <2>1
  <2>3. j \in PeopleJob
    BY <2>1, <2>2, ElementOfSeq
  <2>4. j \in CountedJobs'
    BY <1>1, <1>5, <2>3 DEF CountedJobs
  <2> QED
    BY <1>3, <1>5, <2>4
<1> QED
  BY <1>3, <1>4, <1>5

LEMMA CountsPeople ==
    ASSUME PeopleInv, PeopleInv', PeopleCounts, [People!Next]_(People!vars)
    PROVE  PeopleCounts'
<1>1. /\ PeopleTypes /\ PeopleTypes' /\ peoCount \in Nat /\ peoJobs \in Seq(CountedJobs)
      /\ profile.n \in {0, peoCount} /\ People!NoProfile.n = 0
      /\ profile = People!NoProfile \/ profile \in Profiles
  BY DEF PeopleInv, PeopleTypes, PeopleCounts, People!NoProfile
<1>2. ASSUME peoCount' = peoCount,
             \/ profile' = profile \/ profile' = People!NoProfile
             \/ profile \in Profiles /\ profile'.n = profile.n,
             \/ UNCHANGED peoJobs
             \/ \E i \in DOMAIN peoJobs : peoJobs' = RemoveAt(peoJobs, i)
             \/ \E j : j.by \in {0, profile.n} /\ peoJobs' = Append(peoJobs, j)
      PROVE  PeopleCounts'
  <2>1. \/ UNCHANGED peoJobs
        \/ \E i \in DOMAIN peoJobs : peoJobs' = RemoveAt(peoJobs, i)
        \/ \E j : j.by <= peoCount' /\ peoJobs' = Append(peoJobs, j)
    BY <1>1, <1>2
  <2>2. peoJobs' \in Seq(CountedJobs')
    BY <1>1, <1>2, <2>1, JobsCounted
  <2>3. profile' = People!NoProfile' \/ profile'.n = peoCount'
    BY <1>1, <1>2 DEF PeopleCounts, Profiles, People!NoProfile
  <2> QED
    BY <2>2, <2>3 DEF PeopleCounts
<1>3. ASSUME UNCHANGED <<profile, peoCount, peoJobs>> PROVE PeopleCounts'
  BY <1>2, <1>3
<1>4. ASSUME NEW u \in Persons, People!OnMemberClicked(u) PROVE PeopleCounts'
  <2>1. /\ peoCount' = peoCount + 1 /\ profile'.n = peoCount'
        /\ peoJobs' = Append(peoJobs, People!Job("load", peoCount', u))
    BY <1>4 DEF People!OnMemberClicked
  <2>2. People!Job("load", peoCount', u).by = peoCount'
    BY DEF People!Job
  <2>3. peoJobs' \in Seq(CountedJobs')
    BY <1>1, <2>1, <2>2, JobsCounted
  <2> QED
    BY <2>1, <2>3 DEF PeopleCounts
<1>5. ASSUME NEW c, People!Command(c), UNCHANGED peoCount, profile # People!NoProfile
      PROVE  PeopleCounts'
  <2>1. /\ profile \in Profiles /\ profile' = [profile EXCEPT !.status = "working"]
        /\ peoJobs' = Append(peoJobs, People!Job(c, profile.n, profile.user))
    BY <1>1, <1>5 DEF People!Command
  <2>2. profile'.n = profile.n /\ People!Job(c, profile.n, profile.user).by = profile.n
    BY <2>1 DEF Profiles, People!Job
  <2> QED
    BY <1>2, <1>5, <2>1, <2>2
<1>6. ASSUME NEW k, NEW u, People!Ask(k, u) PROVE PeopleCounts'
  BY <1>3, <1>6 DEF People!Ask, People!life
<1>7. ASSUME NEW c, People!OnCommandClicked(c) PROVE PeopleCounts'
  BY <1>5, <1>6, <1>7 DEF People!OnCommandClicked, People!InProfile, People!life
<1>8. CASE People!OnReloadClicked
  <2>1. /\ peoJobs' = Append(peoJobs, People!Job("members", 0, People!NoOne))
        /\ UNCHANGED <<profile, peoCount>>
    BY <1>8 DEF People!OnReloadClicked, People!ReloadMembers, People!life
  <2> QED
    BY <1>2, <2>1 DEF People!Job
<1>9. CASE People!OnCopyMXID
  <2>1. profile' = [profile EXCEPT !.status = "done"] /\ UNCHANGED <<peoCount, peoJobs>>
        /\ profile \in Profiles
    BY <1>1, <1>9 DEF People!OnCopyMXID, People!InProfile, People!life
  <2>2. profile'.n = profile.n
    BY <2>1 DEF Profiles
  <2> QED
    BY <1>2, <2>1, <2>2
<1>10. CASE People!Confirm
  <2>1. CASE box.kind = "invite"
    <3>1. /\ peoJobs' = Append(peoJobs, People!Job("invite", 0, box.user))
          /\ UNCHANGED <<profile, peoCount>>
      BY <1>10, <2>1 DEF People!Confirm, People!life
    <3> QED
      BY <1>2, <3>1 DEF People!Job
  <2>2. CASE box.kind = "menu"
    BY <1>3, <1>10, <2>2 DEF People!Confirm, People!life
  <2>3. CASE box.kind \in {"kick", "ban"}
    <3>1. profile # People!NoProfile
      BY <1>1, <2>3 DEF PeopleTypes, Profiles, People!NoProfile
    <3> QED
      BY <1>5, <1>10, <2>3, <3>1 DEF People!Confirm, People!life
  <2> QED
    BY <1>10, <2>1, <2>2, <2>3 DEF People!Confirm
<1>11. CASE People!DismissBox
  BY <1>3, <1>11 DEF People!DismissBox, People!life
<1>12. CASE People!Close
  BY <1>2, <1>12 DEF People!Close
<1>13. CASE People!Deliver
  <2> DEFINE p == Head(peoPosted)
  <2>1. peoPosted # <<>> /\ peoPosted \in Seq(PeopleReply)
    BY <1>1, <1>13 DEF People!Deliver, PeopleTypes
  <2>2. 1 \in DOMAIN peoPosted /\ p = peoPosted[1] /\ p \in PeopleReply
    BY <2>1
  <2>3. p.by \in {0, profile.n} /\ (p.by = 0 <=> p.kind \in ByList) /\ peoCount' = peoCount
    BY <1>1, <1>13, <2>2 DEF People!Deliver, People!life, PeopleTypes, PeopleReply
  <2>4. \/ p.kind = "members" /\ People!OnMembers(p)
        \/ p.kind = "invite" /\ People!OnInvited(p)
        \/ p.kind = "load" /\ People!OnLoaded(p)
        \/ p.kind = "avatar" /\ People!OnAvatar(p)
        \/ p.kind \in People!Commands /\ People!OnCommandDone(p)
    BY <1>13 DEF People!Deliver
  <2> HIDE DEF p
  <2>5. CASE p.kind = "members" /\ People!OnMembers(p)
    BY <1>3, <2>3, <2>5 DEF People!OnMembers
  <2>6. CASE p.kind = "invite" /\ People!OnInvited(p)
    <3>1. UNCHANGED profile /\ (UNCHANGED peoJobs \/ peoJobs' = Append(peoJobs, People!Job("members", 0, People!NoOne)))
      BY <2>6 DEF People!OnInvited, People!ReloadMembers
    <3> QED
      BY <1>2, <2>3, <3>1 DEF People!Job
  <2>7. ASSUME p.kind \notin ByList PROVE profile \in Profiles
    BY <1>1, <2>3, <2>7
  <2>8. CASE p.kind = "load" /\ People!OnLoaded(p)
    <3>1. profile \in Profiles
      BY <2>7, <2>8 DEF ByList
    <3>2. profile'.n = profile.n
      BY <2>8, <3>1 DEF People!OnLoaded, Profiles
    <3>3. UNCHANGED peoJobs \/ peoJobs' = Append(peoJobs, People!Job("avatar", p.by, p.user))
      BY <2>8 DEF People!OnLoaded
    <3>4. People!Job("avatar", p.by, p.user).by = p.by
      BY DEF People!Job
    <3> QED
      BY <1>2, <2>3, <3>1, <3>2, <3>3, <3>4
  <2>9. CASE \/ p.kind = "avatar" /\ People!OnAvatar(p)
             \/ p.kind \in People!Commands /\ People!OnCommandDone(p)
    <3>1. profile \in Profiles
      BY <2>7, <2>9 DEF ByList, People!Commands
    <3>2. profile'.n = profile.n
      BY <2>9, <3>1 DEF People!OnAvatar, People!OnCommandDone, Profiles
    <3>3. UNCHANGED peoJobs
      BY <2>9 DEF People!OnAvatar, People!OnCommandDone
    <3> QED
      BY <1>2, <2>3, <3>1, <3>2, <3>3
  <2> QED
    BY <2>4, <2>5, <2>6, <2>8, <2>9
<1>14. ASSUME NEW i \in DOMAIN peoJobs, People!Work(i) PROVE PeopleCounts'
  <2>1. peoJobs' = RemoveAt(peoJobs, i) /\ UNCHANGED <<profile, peoCount>>
    BY <1>14 DEF People!Work, People!RemoveAt, RemoveAt
  <2> QED
    BY <1>2, <2>1
<1>15. CASE People!Timeout \/ UNCHANGED People!vars \/ \E s \in Searches : People!Type(s)
  BY <1>3, <1>15 DEF People!Timeout, People!vars, People!Type, People!life
<1> QED
  BY <1>4, <1>6, <1>7, <1>8, <1>9, <1>10, <1>11, <1>12, <1>13, <1>14, <1>15
  DEF People!Next, People!OnInviteClicked, People!OnMemberContextMenu

\* The cache of avatars keeps to its limit, and the requests that are made, however late they
\* are answered, are for the list or for a profile that was opened (MemberListDialog,
\* MemberProfileDialog).
LEMMA PeopleAreTyped ==
    ASSUME People!ConstantsOK
    PROVE  People!Spec => []People!TypeOK
<1>1. People!Init => PeopleTyped
  BY InitPeopleTyped
<1>2. PeopleTyped /\ [People!Next]_(People!vars) => PeopleTyped'
  BY NextPeople, FlagsPeople, SetsPeople, CountsPeople DEF PeopleTyped
<1>3. PeopleTyped => People!TypeOK
  <2> SUFFICES ASSUME PeopleTyped PROVE People!TypeOK
    OBVIOUS
  <2>1. PeopleTypes /\ PeopleSets /\ PeopleFlags /\ PeopleCounts
    BY DEF PeopleTyped, PeopleInv
  <2>2. peoCount \in Nat /\ profile.n \in 0..peoCount /\ 0 \in 0..peoCount
    BY <2>1 DEF PeopleTypes, PeopleCounts, People!NoProfile
  <2>3. \A i \in DOMAIN peoJobs : peoJobs[i].kind \in People!Kinds /\ peoJobs[i].by \in 0..peoCount
    <3>1. \A i \in DOMAIN peoJobs : peoJobs[i] \in CountedJobs
      BY <2>1, ElementOfSeq DEF PeopleCounts
    <3> QED
      BY <2>2, <3>1 DEF CountedJobs, PeopleJob
  <2>4. \A i \in DOMAIN peoPosted : peoPosted[i].kind \in People!Kinds /\ peoPosted[i].by \in 0..peoCount
    <3>1. \A i \in DOMAIN peoPosted : peoPosted[i] \in PeopleReply /\ peoPosted[i].by \in {0, profile.n}
      BY <2>1, ElementOfSeq DEF PeopleTypes
    <3> QED
      BY <2>2, <3>1 DEF PeopleReply
  <2>5. \A j \in People!ToSet(peoJobs) \cup People!ToSet(peoPosted) : j.kind \in People!Kinds /\ j.by \in 0..peoCount
    BY <2>3, <2>4 DEF People!ToSet
  <2>6. People!Cardinality(avatars) <= AvatarCacheMax
    BY <2>1 DEF PeopleSets, People!Cardinality, Cardinality
  <2>7. profile = People!NoProfile \/ (profile.n = peoCount /\ profile.user \in Persons)
    BY <2>1 DEF PeopleTypes, PeopleCounts, Profiles
  <2> QED
    BY <2>1, <2>2, <2>5, <2>6, <2>7 DEF PeopleTypes, PeopleSets, PeopleFlags, People!TypeOK, Levels, Unsettled
<1> QED
  BY <1>1, <1>2, <1>3, PTL DEF People!Spec

-----------------------------------------------------------------------------
(***************************************************************************)
(* My profile: names and avatars are the ones that the edits and uploads   *)
(* of the budget make.                                                     *)
(***************************************************************************)
NamedJob   == [kind : Profile!Kinds, value : Profile!Values]
NamedReply == [kind : Profile!Kinds, ok : BOOLEAN, avatar : Profile!Values, value : Profile!Values]
Working    == Profile!Settled \cup {"loading", "working"}

ProfileFuel == /\ profFuel \in [Profile!Steps -> Nat]
               /\ \A s \in Profile!Steps : profFuel[s] <= DialogBudgets.profile[s]

ProfileTyped ==
    /\ name \in Profile!Values /\ avatar \in Profile!Values /\ field \in Profile!Values
    /\ current \in Profile!Values /\ typed \subseteq Profile!Values
    /\ profStatus \in Working
    /\ profJobs \in Seq(NamedJob) /\ profPosted \in Seq(NamedReply)
    /\ profShown \in BOOLEAN /\ profAlive \in BOOLEAN /\ profLoaded \in BOOLEAN /\ hasty \in BOOLEAN
    /\ unnamed \in BOOLEAN
    /\ ProfileFuel

LEMMA ValuesHave ==
    ASSUME Profile!ConstantsOK
    PROVE  /\ {0, Profile!UserId, Profile!Given} \subseteq Profile!Values
           /\ ProfileFuel => /\ profFuel["save"] \in Profile!Values
                             /\ profFuel["edit"] + Profile!Given \in Profile!Values
<1>1. DialogBudgets.profile["edit"] \in Nat /\ DialogBudgets.profile["save"] \in Nat
  BY DEF Profile!ConstantsOK, Profile!Steps
<1>2. ProfileFuel => /\ profFuel["save"] \in Nat /\ profFuel["save"] <= DialogBudgets.profile["save"]
                     /\ profFuel["edit"] \in Nat /\ profFuel["edit"] <= DialogBudgets.profile["edit"]
  BY DEF ProfileFuel, Profile!Steps
<1> QED
  BY <1>1, <1>2 DEF Profile!Values, Profile!UserId, Profile!Given

LEMMA SpendProfile ==
    ASSUME Profile!ConstantsOK, ProfileFuel, NEW s \in Profile!Steps, Profile!Spend(s)
    PROVE  ProfileFuel'
<1>1. DialogBudgets.profile \in [Profile!Steps -> Nat]
  BY DEF Profile!ConstantsOK
<1>2. profFuel' \in [Profile!Steps -> Nat] /\ \A t \in Profile!Steps : profFuel'[t] <= profFuel[t]
  BY DEF ProfileFuel, Profile!Spend
<1>3. \A t \in Profile!Steps : profFuel'[t] <= DialogBudgets.profile[t]
  BY <1>1, <1>2 DEF ProfileFuel
<1> QED
  BY <1>2, <1>3 DEF ProfileFuel

LEMMA InitProfileTyped == Profile!ConstantsOK /\ Profile!Init => ProfileTyped
<1> SUFFICES ASSUME Profile!ConstantsOK, Profile!Init PROVE ProfileTyped
  OBVIOUS
<1>1. Profile!Job("load", 0) \in NamedJob
  BY ValuesHave DEF Profile!Job, NamedJob, Profile!Kinds
<1>2. profJobs \in Seq(NamedJob) /\ profPosted \in Seq(NamedReply)
  BY <1>1 DEF Profile!Init
<1>3. ProfileFuel
  BY DEF Profile!Init, Profile!ConstantsOK, ProfileFuel
<1> QED
  BY <1>2, <1>3, ValuesHave DEF Profile!Init, ProfileTyped, Working

LEMMA UserProfile ==
    ASSUME Profile!ConstantsOK, ProfileTyped,
           Profile!Type \/ Profile!OnSaveNameClicked \/ Profile!OnSetAvatarClicked \/ Profile!Close
    PROVE  ProfileTyped'
<1>1. CASE Profile!Type
  <2>1. ProfileFuel'
    BY <1>1, SpendProfile DEF Profile!Type, ProfileTyped, Profile!Steps
  <2>2. field' \in Profile!Values /\ typed' \subseteq Profile!Values
    BY <1>1, ValuesHave DEF Profile!Type, ProfileTyped
  <2> QED
    BY <1>1, <2>1, <2>2 DEF Profile!Type, ProfileTyped, Profile!server
<1>2. CASE Profile!OnSaveNameClicked
  <2>1. ProfileFuel'
    BY <1>2, SpendProfile DEF Profile!OnSaveNameClicked, ProfileTyped, Profile!Steps
  <2>2. Profile!Job("name", field) \in NamedJob
    BY DEF Profile!Job, NamedJob, Profile!Kinds, ProfileTyped
  <2>3. profJobs' \in Seq(NamedJob)
    BY <1>2, <2>2 DEF Profile!OnSaveNameClicked, ProfileTyped
  <2>4. hasty' \in BOOLEAN /\ profStatus' \in Working
    BY <1>2 DEF Profile!OnSaveNameClicked, Working
  <2> QED
    BY <1>2, <2>1, <2>3, <2>4 DEF Profile!OnSaveNameClicked, ProfileTyped, Profile!server
<1>3. CASE Profile!OnSetAvatarClicked
  <2>1. ProfileFuel'
    BY <1>3, SpendProfile DEF Profile!OnSetAvatarClicked, ProfileTyped, Profile!Steps
  <2>2. Profile!Job("upload", profFuel["save"]) \in NamedJob
    BY ValuesHave DEF Profile!Job, NamedJob, Profile!Kinds, ProfileTyped
  <2>3. profJobs' \in Seq(NamedJob) /\ profStatus' \in Working
    <3>1. profJobs \in Seq(NamedJob)
      BY DEF ProfileTyped
    <3> QED
      BY <1>3, <2>2, <3>1 DEF Profile!OnSetAvatarClicked, Working, Profile!Settled
  <2> QED
    BY <1>3, <2>1, <2>3 DEF Profile!OnSetAvatarClicked, ProfileTyped, Profile!server, Profile!past
<1>4. CASE Profile!Close
  <2>1. profPosted' \in Seq(NamedReply)
    BY <1>4 DEF Profile!Close
  <2> QED
    BY <1>4, <2>1 DEF Profile!Close, ProfileTyped, ProfileFuel, Profile!server, Profile!past
<1> QED
  BY <1>1, <1>2, <1>3, <1>4

LEMMA WorkProfileTyped ==
    ASSUME Profile!ConstantsOK, ProfileTyped, NEW i \in DOMAIN profJobs, Profile!Work(i)
    PROVE  ProfileTyped'
<1> DEFINE j == profJobs[i]
<1>1. profJobs \in Seq(NamedJob) /\ j \in NamedJob
  BY ElementOfSeq DEF ProfileTyped
<1>2. profJobs' \in Seq(NamedJob)
  BY <1>1, RemoveAtProperties DEF Profile!Work, Profile!RemoveAt, RemoveAt
<1>3. UNCHANGED <<field, current, profStatus, profShown, typed, profLoaded, hasty, unnamed>>
  BY DEF Profile!Work, Profile!past
<1>4. ProfileFuel'
  <2>1. UNCHANGED profFuel \/ Profile!Spend("fault")
    BY DEF Profile!Work
  <2> QED
    BY <2>1, SpendProfile DEF ProfileTyped, ProfileFuel, Profile!Steps
<1>5. profAlive' \in BOOLEAN
  BY DEF Profile!Work, ProfileTyped
<1>6. name' \in Profile!Values /\ avatar' \in Profile!Values /\ profPosted' \in Seq(NamedReply)
  <2>1. CASE UNCHANGED <<name, avatar, profPosted>>
    BY <2>1 DEF ProfileTyped
  <2>2. ASSUME NEW outcome \in Profile!Outcomes, Profile!Answered(j, outcome)
        PROVE  name' \in Profile!Values /\ avatar' \in Profile!Values /\ profPosted' \in Seq(NamedReply)
    <3> DEFINE r == [kind |-> j.kind, ok |-> outcome # "failed",
                     avatar |-> IF outcome = "ok" THEN avatar ELSE 0,
                     value |-> IF j.kind # "load" THEN j.value
                               ELSE IF outcome = "ok" THEN name ELSE 0]
    <3>1. r \in NamedReply
      BY <1>1, ValuesHave DEF NamedReply, NamedJob, ProfileTyped
    <3>2. profPosted' = Append(profPosted, r) \/ profPosted' = profPosted
      BY <2>2 DEF Profile!Answered
    <3>3. name' \in Profile!Values /\ avatar' \in Profile!Values
      BY <1>1, <2>2 DEF Profile!Answered, NamedJob, ProfileTyped
    <3> HIDE DEF r
    <3>4. profPosted' \in Seq(NamedReply)
      BY <3>1, <3>2 DEF ProfileTyped
    <3> QED
      BY <3>3, <3>4
  <2>3. UNCHANGED <<name, avatar, profPosted>> \/ \E outcome \in Profile!Outcomes : Profile!Answered(j, outcome)
    BY DEF Profile!Work, Profile!server
  <2> QED
    BY <2>1, <2>2, <2>3
<1> QED
  BY <1>2, <1>3, <1>4, <1>5, <1>6 DEF ProfileTyped

LEMMA DeliverProfileTyped ==
    ASSUME ProfileTyped, Profile!Deliver
    PROVE  ProfileTyped'
<1> DEFINE p == Head(profPosted)
<1>1. p \in NamedReply /\ profPosted' \in Seq(NamedReply)
  BY DEF Profile!Deliver, ProfileTyped
<1>2. /\ UNCHANGED <<name, avatar, profShown, profAlive, typed, hasty, profFuel>>
      /\ profLoaded' \in BOOLEAN /\ unnamed' \in BOOLEAN
  BY DEF Profile!Deliver, Profile!server, ProfileTyped
<1>3. Profile!OnLoaded(p) \/ Profile!OnSaved(p) \/ Profile!OnUploaded(p)
  BY DEF Profile!Deliver
<1> HIDE DEF p
<1>4. p.value \in Profile!Values /\ p.avatar \in Profile!Values
  BY <1>1 DEF NamedReply
<1>5. field' \in Profile!Values /\ current' \in Profile!Values /\ profStatus' \in Working
  BY <1>3, <1>4
  DEF ProfileTyped, Profile!OnLoaded, Profile!OnSaved, Profile!OnUploaded, Profile!UnlessNone, Working,
      Profile!Settled
<1>6. profJobs' \in Seq(NamedJob)
  <2>1. Profile!Job("avatar", p.value) \in NamedJob
    BY <1>4 DEF Profile!Job, NamedJob, Profile!Kinds
  <2>2. UNCHANGED profJobs \/ profJobs' = Append(profJobs, Profile!Job("avatar", p.value))
    BY <1>3 DEF Profile!OnLoaded, Profile!OnSaved, Profile!OnUploaded
  <2> QED
    BY <2>1, <2>2 DEF ProfileTyped
<1> QED
  BY <1>1, <1>2, <1>5, <1>6 DEF ProfileTyped, ProfileFuel

LEMMA NextProfileTyped ==
    ASSUME Profile!ConstantsOK, ProfileTyped, [Profile!Next]_(Profile!vars)
    PROVE  ProfileTyped'
<1>1. CASE UNCHANGED Profile!vars
  BY <1>1 DEF Profile!vars, ProfileTyped, ProfileFuel
<1> QED
  BY <1>1, UserProfile, WorkProfileTyped, DeliverProfileTyped DEF Profile!Next

\* Names, avatars and requests of the profile (ProfileDialog) are of the kinds its module says.
LEMMA ProfileIsTyped ==
    ASSUME Profile!ConstantsOK
    PROVE  Profile!Spec => []Profile!TypeOK
<1>1. Profile!Init => ProfileTyped
  BY InitProfileTyped
<1>2. ProfileTyped /\ [Profile!Next]_(Profile!vars) => ProfileTyped'
  BY NextProfileTyped
<1>3. ProfileTyped => Profile!TypeOK
  <2> SUFFICES ASSUME ProfileTyped PROVE Profile!TypeOK
    OBVIOUS
  <2>1. /\ \A i \in DOMAIN profJobs : profJobs[i] \in NamedJob
        /\ \A i \in DOMAIN profPosted : profPosted[i] \in NamedReply
    BY ElementOfSeq DEF ProfileTyped
  <2>2. \A j \in Profile!ToSet(profJobs) \cup Profile!ToSet(profPosted) :
            j.kind \in Profile!Kinds /\ j.value \in Profile!Values
    BY <2>1 DEF Profile!ToSet, NamedJob, NamedReply
  <2> QED
    BY <2>2 DEF ProfileTyped, ProfileFuel, Working, Profile!TypeOK
<1> QED
  BY <1>1, <1>2, <1>3, PTL DEF Profile!Spec

-----------------------------------------------------------------------------
(***************************************************************************)
(* The types of the parts, with what they rest on.                         *)
(*                                                                         *)
(* Attachments: viewers and the cache hold images.                         *)
(***************************************************************************)
Boxes == [kind : Attachments!Outcomes, of : Attachments!Media]

WindowsFit(s) == /\ s \in Seq(Boxes)
                 /\ \A i \in DOMAIN s : s[i].kind = "viewer" => s[i].of \in Images

CacheFits == cache \in Seq(Images \ Broken) /\ Len(cache) <= CacheMax

AttachmentsTyped == /\ Counted /\ WindowsFit(windows) /\ CacheFits
                    /\ attSaved \subseteq Images
                    /\ attFuel \in [Attachments!Steps -> Nat]

LEMMA InitAttachments == Attachments!ConstantsOK /\ Attachments!Init => AttachmentsTyped
<1> SUFFICES ASSUME Attachments!ConstantsOK, Attachments!Init PROVE AttachmentsTyped
  OBVIOUS
<1>1. Counted
  BY InitCounted
<1> QED
  BY <1>1 DEF Attachments!Init, Attachments!ConstantsOK, AttachmentsTyped, WindowsFit, CacheFits

LEMMA SpendAttachments ==
    ASSUME attFuel \in [Attachments!Steps -> Nat], NEW s \in Attachments!Steps, Attachments!Spend(s)
    PROVE  attFuel' \in [Attachments!Steps -> Nat]
  BY DEF Attachments!Spend

\* An image that is shown from the cache, or put there, is the last that was used.
LEMMA UsedFits ==
    ASSUME Attachments!ConstantsOK, CacheFits, NEW m \in Images \ Broken, cache' = Attachments!Used(m)
    PROVE  CacheFits'
<1> DEFINE K   == {i \in DOMAIN cache : cache[i] # m}
           whole== <<m>> \o Selected(cache, K)
           n   == IF Len(whole) > CacheMax THEN CacheMax ELSE Len(whole)
<1>1. Selected(cache, K) \in Seq(Images \ Broken)
  <2>1. cache \in Seq(Images \ Broken) /\ K \subseteq DOMAIN cache
    BY DEF CacheFits
  <2> QED
    BY <2>1, SelectedProperties
<1>2. whole \in Seq(Images \ Broken)
  <2> HIDE DEF K
  <2> QED
    BY <1>1
<1>3. cache' = SubSeq(whole, 1, n)
  BY DEF Attachments!Used, Attachments!Selected, Selected, Attachments!Rank, Rank,
         Attachments!Cardinality, Cardinality
<1>4. CacheMax \in Nat
  BY DEF Attachments!ConstantsOK
<1> HIDE DEF whole
<1>5. Len(whole) \in Nat /\ n \in 0..Len(whole) /\ n <= CacheMax
  BY <1>2, <1>4
<1>6. SubSeq(whole, 1, n) \in Seq(Images \ Broken) /\ Len(SubSeq(whole, 1, n)) = n
  BY <1>2, <1>5
<1> QED
  BY <1>3, <1>5, <1>6 DEF CacheFits

LEMMA ShowFits ==
    ASSUME WindowsFit(windows), NEW k \in Attachments!Outcomes, NEW m \in Attachments!Media,
           k = "viewer" => m \in Images, Attachments!Show(k, m)
    PROVE  WindowsFit(windows)'
<1> DEFINE w == [kind |-> k, of |-> m]
<1>1. w \in Boxes /\ windows' = Append(windows, w)
  BY DEF Boxes, Attachments!Show
<1>2. windows \in Seq(Boxes)
  BY DEF WindowsFit
<1>3. /\ Append(windows, w) \in Seq(Boxes)
      /\ \A i \in DOMAIN Append(windows, w) :
            (i \in DOMAIN windows /\ Append(windows, w)[i] = windows[i]) \/ Append(windows, w)[i] = w
  BY <1>1, <1>2, AppendElements
<1>4. w.kind = "viewer" => w.of \in Images
  OBVIOUS
<1> HIDE DEF w
<1> QED
  BY <1>1, <1>3, <1>4 DEF WindowsFit

LEMMA OpenAttachments ==
    ASSUME Attachments!ConstantsOK, AttachmentsTyped, NEW m \in Attachments!Media,
           Attachments!OpenAttachment(m)
    PROVE  AttachmentsTyped'
<1>1. Counted'
  BY OpenCounted DEF AttachmentsTyped
<1>2. attFuel' \in [Attachments!Steps -> Nat] /\ attSaved' \subseteq Images
  BY SpendAttachments DEF AttachmentsTyped, Attachments!OpenAttachment, Attachments!Steps
<1>3. WindowsFit(windows)' /\ CacheFits'
  <2>1. CASE m \in Attachments!ToSet(cache)
    <3>1. m \in Images \ Broken
      BY <2>1, ElementOfSeq DEF AttachmentsTyped, CacheFits, Attachments!ToSet
    <3>2. Attachments!Show("viewer", m) /\ cache' = Attachments!Used(m)
      BY <2>1 DEF Attachments!OpenAttachment
    <3> QED
      BY <3>1, <3>2, UsedFits, ShowFits DEF AttachmentsTyped, Attachments!Outcomes
  <2>2. CASE m \notin Attachments!ToSet(cache)
    BY <2>2 DEF Attachments!OpenAttachment, AttachmentsTyped, WindowsFit, CacheFits
  <2> QED
    BY <2>1, <2>2
<1> QED
  BY <1>1, <1>2, <1>3 DEF AttachmentsTyped

LEMMA WorkAttachments ==
    ASSUME AttachmentsTyped, NEW i \in DOMAIN attJobs, Attachments!Work(i)
    PROVE  AttachmentsTyped'
<1>1. Counted'
  BY WorkCounted DEF AttachmentsTyped
<1>2. attFuel' \in [Attachments!Steps -> Nat]
  BY SpendAttachments DEF AttachmentsTyped, Attachments!Work, Attachments!Steps
<1> QED
  BY <1>1, <1>2 DEF AttachmentsTyped, Attachments!Work, WindowsFit, CacheFits

LEMMA DeliverAttachments ==
    ASSUME Attachments!ConstantsOK, AttachmentsTyped, Attachments!Deliver
    PROVE  AttachmentsTyped'
<1> DEFINE p == Head(attPosted)
<1>1. Counted'
  BY DeliverCounted DEF AttachmentsTyped
<1>2. p \in Callbacks
  BY DEF AttachmentsTyped, Counted, Attachments!Deliver
<1>3. p.of \in Attachments!Media
  BY <1>2 DEF Callbacks
<1>4. /\ attSaved' = attSaved
      /\ IF p.of \in Files THEN Attachments!OnFile(p) ELSE Attachments!OnImage(p)
  BY DEF Attachments!Deliver
<1> HIDE DEF p
<1>5. CASE p.of \in Files
  <2>1. cache' = cache
    BY <1>4, <1>5 DEF Attachments!OnFile
  <2>2. windows' = windows \/ Attachments!Show("warning", p.of)
    BY <1>4, <1>5 DEF Attachments!OnFile
  <2>3. attFuel' \in [Attachments!Steps -> Nat]
    BY <1>4, <1>5, SpendAttachments DEF Attachments!OnFile, AttachmentsTyped, Attachments!Steps
  <2>4. WindowsFit(windows)'
    BY <2>2, <1>3, ShowFits DEF AttachmentsTyped, Attachments!Outcomes, WindowsFit
  <2> QED
    BY <1>1, <1>4, <2>1, <2>3, <2>4 DEF AttachmentsTyped, CacheFits
<1>6. CASE p.of \notin Files
  <2>1. p.of \in Images /\ attFuel' = attFuel
    BY <1>3, <1>4, <1>6 DEF Attachments!Media, Attachments!OnImage
  <2>2. CASE p.ok /\ p.of \notin Broken
    <3>1. Attachments!Show("viewer", p.of) /\ cache' = Attachments!Used(p.of)
      BY <1>4, <1>6, <2>2 DEF Attachments!OnImage
    <3>2. WindowsFit(windows)' /\ CacheFits'
      BY <1>3, <2>1, <2>2, <3>1, UsedFits, ShowFits DEF AttachmentsTyped, Attachments!Outcomes
    <3> QED
      BY <1>1, <1>4, <2>1, <3>2 DEF AttachmentsTyped
  <2>3. CASE ~(p.ok /\ p.of \notin Broken)
    <3>1. Attachments!Show("warning", p.of) /\ cache' = cache
      BY <1>4, <1>6, <2>3 DEF Attachments!OnImage
    <3>2. WindowsFit(windows)' /\ CacheFits'
      BY <1>3, <3>1, ShowFits DEF AttachmentsTyped, CacheFits, Attachments!Outcomes
    <3> QED
      BY <1>1, <1>4, <2>1, <3>2 DEF AttachmentsTyped
  <2> QED
    BY <2>2, <2>3
<1> QED
  BY <1>5, <1>6

LEMMA CloseAttachments ==
    ASSUME AttachmentsTyped, Attachments!Close \/ Attachments!SaveAs
    PROVE  AttachmentsTyped'
<1>1. windows \in Seq(Boxes) /\ windows # <<>> /\ \A i \in DOMAIN windows : windows[i].kind = "viewer" => windows[i].of \in Images
  BY DEF AttachmentsTyped, WindowsFit, Attachments!Close, Attachments!SaveAs
<1>2. Counted'
  BY DEF AttachmentsTyped, Counted, Attachments!EveryClickIsAnswered, Attachments!Close, Attachments!SaveAs
<1>3. CASE Attachments!Close
  <2>1. windows' = Front(windows)
    BY <1>3 DEF Attachments!Close, Attachments!Front, Front
  <2>2. Front(windows) \in Seq(Boxes) /\ ToSet(Front(windows)) \subseteq ToSet(windows)
    BY <1>1, FrontProperties
  <2>3. \A i \in DOMAIN Front(windows) : Front(windows)[i] \in ToSet(windows)
    BY <2>2 DEF ToSet
  <2>4. \A i \in DOMAIN Front(windows) : Front(windows)[i].kind = "viewer" => Front(windows)[i].of \in Images
    BY <1>1, <2>3 DEF ToSet
  <2> QED
    BY <1>2, <1>3, <2>1, <2>2, <2>4 DEF AttachmentsTyped, WindowsFit, CacheFits, Attachments!Close
<1>4. CASE Attachments!SaveAs
  <2>1. Len(windows) \in DOMAIN windows
    BY <1>1, EmptySeq, LenProperties
  <2>2. attSaved' = attSaved \cup {windows[Len(windows)].of} /\ windows[Len(windows)].kind = "viewer"
    BY <1>4 DEF Attachments!SaveAs, Attachments!Last
  <2>3. attSaved' \subseteq Images
    BY <1>1, <2>1, <2>2 DEF AttachmentsTyped
  <2> QED
    BY <1>2, <1>4, <2>3 DEF AttachmentsTyped, WindowsFit, CacheFits, Attachments!SaveAs
<1> QED
  BY <1>3, <1>4

LEMMA NextAttachments ==
    Attachments!ConstantsOK /\ AttachmentsTyped /\ [Attachments!Next]_(Attachments!vars)
        => AttachmentsTyped'
<1> SUFFICES ASSUME Attachments!ConstantsOK, AttachmentsTyped, [Attachments!Next]_(Attachments!vars)
             PROVE  AttachmentsTyped'
  OBVIOUS
<1>1. CASE \E m \in Attachments!Media : Attachments!OpenAttachment(m)
  BY <1>1, OpenAttachments
<1>2. CASE \E i \in DOMAIN attJobs : Attachments!Work(i)
  BY <1>2, WorkAttachments
<1>3. CASE Attachments!Deliver
  BY <1>3, DeliverAttachments
<1>4. CASE Attachments!Close \/ Attachments!SaveAs
  BY <1>4, CloseAttachments
<1>5. CASE UNCHANGED Attachments!vars
  BY <1>5 DEF Attachments!vars, AttachmentsTyped, Counted, Attachments!EveryClickIsAnswered,
              WindowsFit, CacheFits
<1> QED
  BY <1>1, <1>2, <1>3, <1>4, <1>5 DEF Attachments!Next

\* Attachments are images or files, the cache and what is saved are images, and the cache
\* keeps to its cost (AttachmentHandler::fullImageCache).
LEMMA AttachmentsAreTyped ==
    ASSUME Attachments!ConstantsOK
    PROVE  Attachments!Spec => []Attachments!TypeOK
<1>1. AttachmentsTyped => Attachments!TypeOK
  BY ElementOfSeq
  DEF AttachmentsTyped, Counted, WindowsFit, CacheFits, Attachments!TypeOK, Boxes, Callbacks, Attachments!ToSet
<1>2. Attachments!Init => AttachmentsTyped
  BY InitAttachments
<1>3. AttachmentsTyped /\ [Attachments!Next]_(Attachments!vars) => AttachmentsTyped'
  BY NextAttachments
<1> QED
  BY <1>1, <1>2, <1>3, PTL DEF Attachments!Spec

-----------------------------------------------------------------------------
(***************************************************************************)
(* Verification: VerifyingInv says all but that closed is a Boolean.       *)
(***************************************************************************)
LEMMA VerificationTyped ==
    ASSUME Verifying!ConstantsOK
    PROVE  Verifying!Spec => []Verifying!TypeOK
<1> DEFINE I == VerifyingInv /\ closed \in BOOLEAN
<1>1. Verifying!Init => I
  BY InitVerifying DEF Verifying!Init
<1>2. I /\ [Verifying!Next]_(Verifying!vars) => I'
  <2>1. closed \in BOOLEAN /\ [Verifying!Next]_(Verifying!vars) => closed' \in BOOLEAN
    BY DEF Verifying!Next, Verifying!vars, Verifying!Incoming, Verifying!Start, Verifying!Accept,
           Verifying!Reject, Verifying!Match, Verifying!Mismatch, Verifying!CloseWindow,
           Verifying!Deliver, Verifying!DeleteDialog
  <2> QED
    BY <2>1, NextVerifying
<1>3. I => Verifying!TypeOK
  BY DEF VerifyingInv, VerifyingTypes, Verifying!TypeOK
<1> QED
  BY <1>1, <1>2, <1>3, PTL DEF Verifying!Spec

-----------------------------------------------------------------------------
\* IngestInv says what TimelineIngest's types say, and more: its rows, marks and tokens are of
\* events there are.
LEMMA IngestIsTyped ==
    ASSUME Ingest!ConstantsOK
    PROVE  Ingest!Spec => []Ingest!TypeOK
<1>1. Ingest!Init => IngestInv
  BY IngestInit
<1>2. IngestInv /\ [Ingest!Next]_(Ingest!vars) => IngestInv'
  BY IngestNext
<1>3. IngestInv => Ingest!TypeOK
  <2> SUFFICES ASSUME IngestInv PROVE Ingest!TypeOK
    OBVIOUS
  <2>1. LogFits /\ FlightFits /\ RowsFit /\ IngestRest
    BY DEF IngestInv
  <2>2. /\ Len(ingLog) \in Nat /\ Len(ingLog) <= MaxEvents /\ MaxEvents \in Nat
        /\ ingLog \in Seq(Ingest!Event) /\ ingTold \in 0..Len(ingLog)
    BY <2>1, LenProperties DEF LogFits, IngestRest, Ingest!ConstantsOK
  <2>3. before \in 0..(MaxEvents + 1)
    BY <2>1, <2>2 DEF FlightFits
  <2>4. Ingest!ToSet(ingRows) \subseteq EventIds
    BY <2>1, ElementOfSeq DEF RowsFit, Ingest!ToSet
  <2>5. \A a \in Ingest!ToSet(ingJobs) \cup Ingest!ToSet(ingPosted) : a \in Ingest!Answer
    BY <2>1, ElementOfSeq DEF FlightFits, Ingest!ToSet
  <2> QED
    BY <2>1, <2>2, <2>3, <2>4, <2>5 DEF RowsFit, IngestRest, Ingest!TypeOK, EventIds, Ingest!Ids
<1> QED
  BY <1>1, <1>2, <1>3, PTL DEF Ingest!Spec
=============================================================================
