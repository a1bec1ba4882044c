---------------------------- MODULE Panels_proofs ----------------------------
(***************************************************************************)
(* Theorems about the room list, the preferences, the reactions and the    *)
(* toolbar of the main window, for every value of their constants.         *)
(***************************************************************************)
EXTENDS Panels, SequenceLemmas

-----------------------------------------------------------------------------
(***************************************************************************)
(* The room list (RoomList): a response or a directory that lists rooms    *)
(* asks the model, which knows what is hidden when it is told.             *)
(***************************************************************************)
Commands     == {"leave", "accept", "reject", "forget", "browse"}
ListResponse == [n : Nat, rooms : UNION {[R -> List!Memberships] : R \in SUBSET Rooms}]
ListOutcome  == [what : {"outcome"}, kind : Commands, room : Rooms, ok : BOOLEAN]
ListUpdate   == [what : {"update"}, n : Nat,
                 rooms : UNION {[R -> List!Memberships] : R \in SUBSET Rooms}]
ListMenus    == [asked : Rooms, at : Nat, moved : BOOLEAN]

ListTypes ==
    /\ listMember \in [Rooms -> List!Memberships] /\ listNews \subseteq Rooms
    /\ responses \in Seq(ListResponse) /\ workers \subseteq ListResponse
    /\ commands \subseteq [kind : Commands, room : Rooms]
    /\ listPosted \in Seq(ListOutcome \cup ListUpdate)
    /\ listRows \in Seq(Rooms) /\ listTold \in Nat
    /\ menu \in {List!NoMenu} \cup ListMenus

HiddenInv == ListTypes /\ List!HiddenStaysHidden

\* The rows that are there have been filtered, or found, from these.
LEMMA RemovedRows ==
    ASSUME NEW s \in Seq(Rooms), NEW R
    PROVE  /\ List!RemovedRooms(s, R) \in Seq(Rooms)
           /\ List!ToSet(List!RemovedRooms(s, R)) \subseteq List!ToSet(s) \ R
<1> DEFINE K == {i \in DOMAIN s : s[i] \notin R}
<1>1. /\ Selected(s, K) \in Seq(Rooms) /\ Len(Selected(s, K)) = Cardinality(K)
      /\ \A n \in 1..Cardinality(K) : \E i \in K : Selected(s, K)[n] = s[i]
  <2>1. K \subseteq DOMAIN s
    OBVIOUS
  <2> HIDE DEF K
  <2> QED
    BY <2>1, SelectedProperties
<1>2. List!RemovedRooms(s, R) = Selected(s, K)
  BY DEF List!RemovedRooms, List!Selected, Selected, List!Rank, Rank,
         List!Cardinality, Cardinality
<1>3. DOMAIN Selected(s, K) = 1..Cardinality(K)
  BY DEF Selected
<1> HIDE DEF K
<1>4. \A n \in DOMAIN Selected(s, K) : \E i \in K : Selected(s, K)[n] = s[i]
  BY <1>1, <1>3
<1> QED
  BY <1>1, <1>2, <1>4 DEF K, List!ToSet

LEMMA ListExtended ==
    ASSUME List!ConstantsOK, NEW s \in Seq(Rooms), NEW R \in SUBSET Rooms,
           NEW t \in List!Upserts(s, R)
    PROVE  t \in Seq(Rooms) /\ List!ToSet(t) \subseteq List!ToSet(s) \cup (R \ hidden)
<1> DEFINE whole == List!ToSet(s) \cup (R \ hidden)
<1>1. whole \subseteq Rooms
  <2>1. \A i \in DOMAIN s : s[i] \in Rooms
    BY ElementOfSeq, LenProperties
  <2> QED
    BY <2>1 DEF List!ToSet
<1>2. IsFiniteSet(whole) /\ Cardinality(whole) \in Nat
  <2>1. whole \in SUBSET Rooms /\ IsFiniteSet(Rooms)
    BY <1>1 DEF List!ConstantsOK, List!IsFiniteSet, IsFiniteSet
  <2> HIDE DEF whole
  <2> QED
    BY <2>1, FS_Subset, FS_CardinalityType
<1>3. t \in [1..Cardinality(whole) -> whole]
  BY DEF List!Upserts, List!Extended, List!Cardinality, Cardinality
<1> HIDE DEF whole
<1>4. t \in Seq(Rooms) /\ \A i \in DOMAIN t : t[i] \in whole
  BY <1>1, <1>2, <1>3
<1> QED
  BY <1>4 DEF whole, List!ToSet

LEMMA ListInit == List!ConstantsOK /\ List!Init => HiddenInv
<1> SUFFICES ASSUME List!ConstantsOK, List!Init PROVE HiddenInv
  OBVIOUS
<1>1. /\ listMember \in [Rooms -> List!Memberships] /\ listNews \subseteq Rooms
      /\ responses = <<>> /\ workers = {} /\ commands = {} /\ listPosted = <<>>
      /\ listRows = <<>> /\ hidden = {} /\ listTold = 0 /\ menu = List!NoMenu
  BY DEF List!Init, List!ConstantsOK
<1> QED
  BY <1>1 DEF HiddenInv, ListTypes, List!HiddenStaysHidden

\* Steps that leave the list alone.
ListAlone == UNCHANGED <<listRows, hidden>>

LEMMA HiddenAlone == HiddenInv /\ ListAlone /\ ListTypes' => HiddenInv'
  BY DEF HiddenInv, ListAlone, List!HiddenStaysHidden, List!ToSet

\* The server, the sync thread, the workers, and what the user opens.
LEMMA ListChange ==
    ASSUME ListTypes, NEW r \in Rooms, List!Change(r) PROVE ListTypes' /\ ListAlone
<1>1. /\ \E m \in List!Memberships : listMember' = [listMember EXCEPT ![r] = m]
      /\ listNews' = listNews \cup {r}
      /\ UNCHANGED <<responses, workers, commands, listPosted, listRows, hidden, listTold, menu>>
  BY DEF List!Change, List!queues, List!list, List!popups, List!past
<1> QED
  BY <1>1 DEF ListTypes, ListAlone

LEMMA ListRespond == ListTypes /\ List!Respond => ListTypes' /\ ListAlone
<1> SUFFICES ASSUME ListTypes, List!Respond PROVE ListTypes' /\ ListAlone
  OBVIOUS
<1> DEFINE w == [n |-> listTold', rooms |-> [r \in listNews |-> listMember[r]]]
<1>1. /\ listTold' = listTold + 1 /\ listNews' = {} /\ responses' = Append(responses, w)
      /\ UNCHANGED <<listMember, workers, commands, listPosted, listRows, hidden, menu>>
  BY DEF List!Respond, List!list, List!popups
<1>2. w \in ListResponse
  <2>1. listTold' \in Nat /\ listNews \in SUBSET Rooms
    BY <1>1 DEF ListTypes
  <2>2. [r \in listNews |-> listMember[r]] \in [listNews -> List!Memberships]
    BY <2>1 DEF ListTypes
  <2> QED
    BY <2>1, <2>2 DEF ListResponse
<1> HIDE DEF w
<1> QED
  BY <1>1, <1>2 DEF ListTypes, ListAlone

LEMMA ListHandle == ListTypes /\ List!Handle => ListTypes' /\ ListAlone
<1> SUFFICES ASSUME ListTypes, List!Handle PROVE ListTypes' /\ ListAlone
  OBVIOUS
<1>1. /\ responses # <<>> /\ workers' = workers \cup {Head(responses)}
      /\ responses' = Tail(responses)
      /\ UNCHANGED <<listMember, listNews, commands, listPosted, listRows, hidden, listTold, menu>>
  BY DEF List!Handle, List!server, List!list, List!popups, List!past
<1>2. Head(responses) \in ListResponse /\ Tail(responses) \in Seq(ListResponse)
  BY <1>1 DEF ListTypes
<1> QED
  BY <1>1, <1>2 DEF ListTypes, ListAlone

LEMMA ListPrepare ==
    ASSUME ListTypes, NEW w \in workers, List!Prepare(w) PROVE ListTypes' /\ ListAlone
<1> DEFINE u == [what |-> "update", n |-> w.n, rooms |-> w.rooms]
<1>1. /\ workers' = workers \ {w} /\ listPosted' = Append(listPosted, u)
      /\ UNCHANGED <<listMember, listNews, responses, commands, listRows, hidden, listTold, menu>>
  BY DEF List!Prepare, List!server, List!list, List!popups, List!past
<1>2. u \in ListUpdate
  BY DEF ListTypes, ListResponse, ListUpdate
<1> HIDE DEF u
<1> QED
  BY <1>1, <1>2 DEF ListTypes, ListAlone

\* Opening a room, the switcher, and the directory.
LEMMA ListOpens ==
    ASSUME ListTypes,
           \/ \E r \in Rooms : List!OpenRoom(r) \/ List!PickRoom(r)
           \/ List!OpenSwitcher \/ List!RejectSwitcher
    PROVE  ListTypes' /\ ListAlone
  BY DEF ListTypes, ListAlone, List!OpenRoom, List!PickRoom, List!OpenSwitcher,
         List!RejectSwitcher, List!server, List!queues, List!list, List!popups, List!past

LEMMA ListBrowse ==
    ASSUME ListTypes, NEW r \in Rooms, List!Browse(r) PROVE ListTypes' /\ ListAlone
<1>1. /\ commands' = commands \cup {[kind |-> "browse", room |-> r]}
      /\ UNCHANGED <<listMember, listNews, responses, workers, listPosted, listRows, hidden,
                     listTold, menu>>
  BY DEF List!Browse, List!server, List!list, List!popups, List!past
<1> QED
  BY <1>1 DEF ListTypes, ListAlone, Commands

LEMMA ListMenu ==
    ASSUME ListTypes, (\E i \in DOMAIN listRows : List!OpenMenu(i)) \/ List!DismissMenu
    PROVE  ListTypes' /\ ListAlone
<1>1. ASSUME NEW i \in DOMAIN listRows, List!OpenMenu(i) PROVE ListTypes' /\ ListAlone
  <2>1. /\ menu' = [asked |-> listRows[i], at |-> i, moved |-> FALSE]
        /\ UNCHANGED <<listMember, listNews, responses, workers, commands, listPosted, listRows,
                       hidden, listTold>>
    BY <1>1 DEF List!OpenMenu, List!server, List!queues, List!list, List!past
  <2>2. listRows[i] \in Rooms /\ i \in Nat
    BY DEF ListTypes
  <2> QED
    BY <2>1, <2>2 DEF ListTypes, ListMenus, ListAlone
<1>2. CASE List!DismissMenu
  BY <1>2 DEF List!DismissMenu, List!server, List!queues, List!list, List!past, ListTypes, ListAlone
<1> QED
  BY <1>1, <1>2

LEMMA ListRequest ==
    ASSUME ListTypes, NEW c \in commands, List!Request(c) PROVE ListTypes' /\ ListAlone
<1>1. /\ commands' = commands \ {c}
      /\ UNCHANGED <<responses, workers, listRows, hidden, listTold, menu>>
      /\ c \in [kind : Commands, room : Rooms]
  BY DEF List!Request, List!list, List!popups, List!past, ListTypes
<1>2. listMember' \in [Rooms -> List!Memberships] /\ listNews' \subseteq Rooms
  BY <1>1 DEF List!Request, List!server, List!After, List!Memberships, ListTypes
<1>3. PICK ok \in BOOLEAN :
          listPosted' = Append(listPosted, [what |-> "outcome", kind |-> c.kind, room |-> c.room,
                                            ok |-> ok])
  BY DEF List!Request
<1>4. [what |-> "outcome", kind |-> c.kind, room |-> c.room, ok |-> ok] \in ListOutcome
  BY <1>1 DEF ListOutcome
<1>5. listPosted' \in Seq(ListOutcome \cup ListUpdate)
  BY <1>3, <1>4 DEF ListTypes
<1> QED
  BY <1>1, <1>2, <1>5 DEF ListTypes, ListAlone

\* The user hides a room, or asks for a command.
LEMMA ListChoose ==
    ASSUME HiddenInv, NEW kind \in List!Kinds, List!Choose(kind) PROVE HiddenInv'
<1>1. /\ menu # List!NoMenu /\ menu' = List!NoMenu
      /\ UNCHANGED <<listMember, listNews, responses, workers, listPosted, listTold>>
  BY DEF List!Choose, List!server
<1>2. PICK r \in List!Pointed :
          IF kind = "hide" THEN List!Hide(r)
          ELSE /\ commands' = commands \cup {[kind |-> kind, room |-> r]}
               /\ UNCHANGED <<listRows, invite, hidden>>
  BY DEF List!Choose, List!list
<1>3. r \in Rooms
  BY <1>1, <1>2 DEF HiddenInv, ListTypes, ListMenus, List!Pointed
<1>4. CASE kind = "hide"
  <2>1. /\ hidden' = hidden \cup {r} /\ listRows' = List!RemovedRooms(listRows, {r})
        /\ commands' = commands
    BY <1>2, <1>4 DEF List!Hide
  <2>2. listRows' \in Seq(Rooms) /\ List!ToSet(listRows') \subseteq List!ToSet(listRows) \ {r}
    BY <2>1, RemovedRows DEF HiddenInv, ListTypes
  <2>3. List!ToSet(listRows) \cap hidden = {}
    BY DEF HiddenInv, List!HiddenStaysHidden
  <2>4. List!ToSet(listRows') \cap hidden' = {}
    BY <2>1, <2>2, <2>3
  <2> QED
    BY <1>1, <2>1, <2>2, <2>4 DEF HiddenInv, ListTypes, List!HiddenStaysHidden, List!ToSet
<1>5. CASE kind # "hide"
  <2>1. ListTypes' /\ ListAlone
    BY <1>1, <1>2, <1>3, <1>5 DEF HiddenInv, ListTypes, ListAlone, List!Kinds, Commands
  <2> QED
    BY <2>1, HiddenAlone
<1> QED
  BY <1>4, <1>5

\* Rows that move mark the menu that is open.
LEMMA MenuMoves == ListTypes => List!Moved(menu) \in {List!NoMenu} \cup ListMenus
<1>1. CASE menu = List!NoMenu
  BY <1>1 DEF List!Moved, List!NoMenu
<1>2. ASSUME menu \in ListMenus PROVE List!Moved(menu) \in ListMenus
  <2>1. [menu EXCEPT !.moved = TRUE] \in ListMenus
    BY <1>2 DEF ListMenus
  <2> QED
    BY <1>2, <2>1 DEF List!Moved
<1> QED
  BY <1>1, <1>2 DEF ListTypes

\* A response is applied.
LEMMA ListApply ==
    ASSUME List!ConstantsOK, HiddenInv, NEW u \in ListUpdate, List!Apply(u)
    PROVE  /\ listRows' \in Seq(Rooms) /\ List!HiddenStaysHidden' /\ commands' = commands
           /\ menu' \in {List!NoMenu} \cup ListMenus
<1> DEFINE kept == List!RemovedRooms(listRows, List!ToRemove(u))
<1>1. /\ listRows' \in List!Upserts(kept, List!ToUpsert(u)) /\ hidden' = hidden
      /\ commands' = commands /\ menu' \in {menu, List!Moved(menu)}
  BY DEF List!Apply
<1>2. List!ToUpsert(u) \in SUBSET Rooms
  BY DEF List!ToUpsert, ListUpdate
<1>3. kept \in Seq(Rooms) /\ List!ToSet(kept) \subseteq List!ToSet(listRows)
  BY RemovedRows DEF HiddenInv, ListTypes
<1> HIDE DEF kept
<1>4. /\ listRows' \in Seq(Rooms)
      /\ List!ToSet(listRows') \subseteq List!ToSet(kept) \cup (List!ToUpsert(u) \ hidden)
  BY <1>1, <1>2, <1>3, ListExtended
<1>5. List!ToSet(listRows) \cap hidden = {}
  BY DEF HiddenInv, List!HiddenStaysHidden
<1>6. List!ToSet(listRows') \cap hidden' = {}
  BY <1>1, <1>3, <1>4, <1>5
<1>7. menu' \in {List!NoMenu} \cup ListMenus
  BY <1>1, MenuMoves DEF HiddenInv, ListTypes
<1> QED
  BY <1>1, <1>4, <1>6, <1>7 DEF List!HiddenStaysHidden, List!ToSet

\* A command has succeeded, or failed.
LEMMA ListOutcomes ==
    ASSUME List!ConstantsOK, HiddenInv, NEW o \in ListOutcome, List!Outcomes(o)
    PROVE  /\ listRows' \in Seq(Rooms) /\ List!HiddenStaysHidden' /\ commands' = commands
           /\ menu' \in {List!NoMenu} \cup ListMenus
<1>1. commands' = commands /\ menu' \in {menu, List!Moved(menu)} /\ o.room \in Rooms
  BY DEF List!Outcomes, ListOutcome
<1>2. menu' \in {List!NoMenu} \cup ListMenus
  BY <1>1, MenuMoves DEF HiddenInv, ListTypes
<1>3. listRows \in Seq(Rooms) /\ List!ToSet(listRows) \cap hidden = {}
  BY DEF HiddenInv, ListTypes, List!HiddenStaysHidden
<1>4. listRows' \in Seq(Rooms) /\ List!ToSet(listRows') \cap hidden' = {}
  <2>1. CASE List!Dropped(o.room)
    <3>1. listRows' \in Seq(Rooms) /\ List!ToSet(listRows') \subseteq List!ToSet(listRows)
      BY <1>3, <2>1, RemovedRows DEF List!Dropped
    <3>2. hidden' \subseteq hidden
      BY <2>1 DEF List!Dropped
    <3> QED
      BY <1>3, <3>1, <3>2
  <2>2. CASE List!Browsed(o.room)
    <3>1. listRows' \in List!Upserts(listRows, {o.room}) /\ hidden' = hidden
          /\ {o.room} \in SUBSET Rooms
      BY <1>1, <2>2 DEF List!Browsed
    <3>2. /\ listRows' \in Seq(Rooms)
          /\ List!ToSet(listRows') \subseteq List!ToSet(listRows) \cup ({o.room} \ hidden)
      BY <1>3, <3>1, ListExtended
    <3> QED
      BY <1>3, <3>1, <3>2
  <2>3. CASE UNCHANGED <<listRows, hidden>>
    BY <1>3, <2>3 DEF List!ToSet
  <2>4. CASE List!Accepted(o.room)
    BY <2>3, <2>4 DEF List!Accepted
  <2>5. CASE ~o.ok
    BY <2>3, <2>5 DEF List!Outcomes, List!list
  <2>6. o.kind \in {"leave", "accept", "reject", "forget", "browse"}
    BY DEF ListOutcome, Commands
  <2> QED
    BY <2>1, <2>2, <2>4, <2>5, <2>6 DEF List!Outcomes
<1> QED
  BY <1>1, <1>2, <1>4 DEF List!HiddenStaysHidden, List!ToSet

LEMMA ListDeliver == List!ConstantsOK /\ HiddenInv /\ List!Deliver => HiddenInv'
<1> SUFFICES ASSUME List!ConstantsOK, HiddenInv, List!Deliver PROVE HiddenInv'
  OBVIOUS
<1> DEFINE e == Head(listPosted)
<1>1. /\ listPosted # <<>> /\ listPosted' = Tail(listPosted)
      /\ UNCHANGED <<listMember, listNews, responses, workers, listTold>>
      /\ \/ e.what = "update" /\ List!Apply(e)
         \/ e.what = "outcome" /\ List!Outcomes(e)
  BY DEF List!Deliver, List!server
<1>2. e \in ListOutcome \cup ListUpdate /\ listPosted' \in Seq(ListOutcome \cup ListUpdate)
  BY <1>1 DEF HiddenInv, ListTypes
<1> HIDE DEF e
<1>3. e.what = "update" => e \in ListUpdate
  BY <1>2 DEF ListOutcome
<1>4. e.what = "outcome" => e \in ListOutcome
  BY <1>2 DEF ListUpdate
<1>5. /\ listRows' \in Seq(Rooms) /\ List!HiddenStaysHidden' /\ commands' = commands
      /\ menu' \in {List!NoMenu} \cup ListMenus
  BY <1>1, <1>3, <1>4, ListApply, ListOutcomes
<1> QED
  BY <1>1, <1>2, <1>5 DEF HiddenInv, ListTypes

LEMMA ListNext ==
    List!ConstantsOK /\ HiddenInv /\ [List!Next]_(List!vars) => HiddenInv'
<1> SUFFICES ASSUME List!ConstantsOK, HiddenInv, [List!Next]_(List!vars) PROVE HiddenInv'
  OBVIOUS
<1>1. CASE ListTypes' /\ ListAlone
  BY <1>1, HiddenAlone
<1>2. CASE UNCHANGED List!vars
  BY <1>2 DEF List!vars, HiddenInv, ListTypes, List!HiddenStaysHidden, List!ToSet
<1> QED
  BY <1>1, <1>2, ListChange, ListRespond, ListHandle, ListPrepare, ListOpens, ListBrowse, ListMenu,
     ListRequest, ListChoose, ListDeliver DEF List!Next, HiddenInv

\* A room the user hid is not listed until he leaves it, whatever responses, directories and
\* commands are under way when he hides it (RoomListModel::upsertRoom, setHidden).
THEOREM HiddenIsUnlisted == ASSUME List!ConstantsOK PROVE List!Spec => []List!HiddenStaysHidden
<1>1. HiddenInv => List!HiddenStaysHidden
  BY DEF HiddenInv
<1> QED
  BY <1>1, ListInit, ListNext, PTL DEF List!Spec

-----------------------------------------------------------------------------
(***************************************************************************)
(* The room list when all is delivered.  An item that tells of a room is a *)
(* response that comes, or an update that was made of one.                 *)
(***************************************************************************)
Coming == {responses[i] : i \in DOMAIN responses} \cup workers
Made   == {i \in DOMAIN listPosted : listPosted[i].what = "update"}
Items  == Coming \cup {[n |-> listPosted[i].n, rooms |-> listPosted[i].rooms] : i \in Made}

Tells(w, r) == r \in DOMAIN w.rooms

ItemsFit == /\ \A w \in Items : w.n <= listTold /\ \A r \in DOMAIN w.rooms : w.rooms[r] # "none"
            /\ \A r \in listNews : listMember[r] # "none"

\* Something about the room comes after the callback at i.
Concerns(e, r) == IF e.what = "update" THEN r \in DOMAIN e.rooms ELSE e.room = r

Behind(i, r) == \/ \E w \in Coming : Tells(w, r)
                \/ \E k \in DOMAIN listPosted : k > i /\ Concerns(listPosted[k], r)

\* The command made the user leave the room, and it is still so.
Success(e) == e.what = "outcome" /\ e.ok
Gone(e)    == e.kind \in {"leave", "reject", "forget"} /\ listMember[e.room] = "left"

\* What is told after the answer to a command makes up for a membership that is another.
SuccessTold == \A i \in DOMAIN listPosted :
                Success(listPosted[i]) => \/ listPosted[i].room \in listNews
                                          \/ Behind(i, listPosted[i].room)
                                          \/ Gone(listPosted[i])

\* Nothing was overtaken about the room, and no news or answer about it waits.
Steady(r) == /\ r \notin listOdd \cup listNews
             /\ \A i \in DOMAIN listPosted : Success(listPosted[i]) => listPosted[i].room # r

\* An item about it will be overtaken.
Late(r) == \E w \in Items : Tells(w, r) /\ w.n < latest

\* The last item about a room is right.
IsLast(w, r) == w \in Items /\ Tells(w, r) /\ \A v \in Items : Tells(v, r) => v.n <= w.n
LastIsRight  == \A r \in Rooms : Steady(r) /\ ~Late(r) =>
                    \A w \in Items : IsLast(w, r) => w.rooms[r] = listMember[r]

\* A room that no item tells of is shown as it is.
ListRooms     == {listRows[i] : i \in DOMAIN listRows}
ShownRight(r) == /\ r \in ListRooms <=> listMember[r] \in {"join", "invite"} /\ r \notin hidden
                 /\ r \in ListRooms => (r \in invite <=> listMember[r] = "invite")
Untold(r)     == \A w \in Items : ~Tells(w, r)
RestIsRight   == \A r \in Rooms : Steady(r) /\ Untold(r) => ShownRight(r)

ListedInv == /\ HiddenInv /\ latest \in Nat /\ ItemsFit /\ SuccessTold
             /\ LastIsRight /\ RestIsRight

\* Filtering loses no other row; the rooms that are upserted get one.
LEMMA RemovedExactly ==
    ASSUME NEW s \in Seq(Rooms), NEW R
    PROVE  List!ToSet(List!RemovedRooms(s, R)) = List!ToSet(s) \ R
<1> DEFINE K == {i \in DOMAIN s : s[i] \notin R}
<1>1. /\ DOMAIN Selected(s, K) = 1..Cardinality(K)
      /\ \A i \in K : \E n \in 1..Cardinality(K) : Selected(s, K)[n] = s[i]
  <2>1. K \subseteq DOMAIN s
    OBVIOUS
  <2> HIDE DEF K
  <2>2. DOMAIN Selected(s, K) = 1..Cardinality(K)
    BY DEF Selected
  <2> QED
    BY <2>1, <2>2, SelectedProperties
<1>2. List!RemovedRooms(s, R) = Selected(s, K)
  BY DEF List!RemovedRooms, List!Selected, Selected, List!Rank, Rank,
         List!Cardinality, Cardinality
<1> HIDE DEF K
<1>3. \A i \in K : \E n \in DOMAIN Selected(s, K) : Selected(s, K)[n] = s[i]
  BY <1>1
<1>4. List!ToSet(s) \ R \subseteq List!ToSet(List!RemovedRooms(s, R))
  BY <1>2, <1>3 DEF K, List!ToSet
<1> QED
  BY <1>4, RemovedRows

LEMMA UpsertedExactly ==
    ASSUME List!ConstantsOK, NEW s \in Seq(Rooms), NEW R \in SUBSET Rooms,
           NEW t \in List!Upserts(s, R)
    PROVE  List!ToSet(t) = List!ToSet(s) \cup (R \ hidden)
<1> DEFINE whole == List!ToSet(s) \cup (R \ hidden)
<1>1. whole \subseteq Rooms
  <2>1. \A i \in DOMAIN s : s[i] \in Rooms
    BY ElementOfSeq, LenProperties
  <2> QED
    BY <2>1 DEF List!ToSet
<1>2. IsFiniteSet(whole) /\ Cardinality(whole) \in Nat
  <2>1. whole \in SUBSET Rooms /\ IsFiniteSet(Rooms)
    BY <1>1 DEF List!ConstantsOK, List!IsFiniteSet, IsFiniteSet
  <2> HIDE DEF whole
  <2> QED
    BY <2>1, FS_Subset, FS_CardinalityType
<1>3. /\ t \in [1..Cardinality(whole) -> whole]
      /\ \A i, j \in 1..Cardinality(whole) : t[i] = t[j] => i = j
  BY DEF List!Upserts, List!Extended, List!Cardinality, Cardinality, List!IsInjective
<1> HIDE DEF whole
<1>4. ASSUME NEW x \in whole, \A i \in 1..Cardinality(whole) : t[i] # x PROVE FALSE
  <2>1. t \in [1..Cardinality(whole) -> whole \ {x}]
    BY <1>3, <1>4
  <2>2. IsFiniteSet(whole \ {x}) /\ Cardinality(whole \ {x}) = Cardinality(whole) - 1
    BY <1>2, FS_RemoveElement
  <2>3. IsFiniteSet(1..Cardinality(whole)) /\ Cardinality(1..Cardinality(whole)) = Cardinality(whole)
    <3>1. 1 \in Int /\ Cardinality(whole) \in Int /\ Cardinality(whole) \in Nat
      BY <1>2
    <3> QED
      BY <3>1, FS_Interval
  <2>4. Cardinality(whole \ {x}) < Cardinality(1..Cardinality(whole))
    BY <1>2, <2>2, <2>3
  <2>5. \E i, j \in 1..Cardinality(whole) : i # j /\ t[i] = t[j]
    <3> DEFINE S == 1..Cardinality(whole)
               T == whole \ {x}
    <3>1. IsFiniteSet(S) /\ IsFiniteSet(T) /\ Cardinality(T) < Cardinality(S) /\ t \in [S -> T]
      BY <2>1, <2>2, <2>3, <2>4
    <3> HIDE DEF S, T
    <3>2. \E i, j \in S : i # j /\ t[i] = t[j]
      BY <3>1, FS_PigeonHole
    <3> QED
      BY <3>2 DEF S
  <2> QED
    BY <1>3, <2>5
<1>5. {t[i] : i \in DOMAIN t} = whole
  BY <1>3, <1>4
<1> QED
  BY <1>5 DEF whole, List!ToSet

LEMMA ListedInit == List!ConstantsOK /\ List!Init => ListedInv
<1> SUFFICES ASSUME List!ConstantsOK, List!Init PROVE ListedInv
  OBVIOUS
<1>1. /\ responses = <<>> /\ workers = {} /\ listPosted = <<>> /\ listRows = <<>> /\ latest = 0
      /\ listMember = Member0 /\ listNews = {r \in Rooms : Member0[r] # "none"}
      /\ Member0 \in [Rooms -> List!Memberships]
  BY DEF List!Init, List!ConstantsOK
<1>2. Items = {} /\ DOMAIN listPosted = {} /\ ListRooms = {}
  BY <1>1 DEF Items, Coming, Made, ListRooms
<1>3. \A r \in Rooms : Steady(r) => listMember[r] = "none"
  BY <1>1 DEF Steady
<1>4. LastIsRight /\ RestIsRight
  BY <1>2, <1>3 DEF LastIsRight, RestIsRight, ShownRight
<1>5. ItemsFit /\ SuccessTold
  BY <1>1, <1>2 DEF ItemsFit, SuccessTold
<1> QED
  BY <1>1, <1>4, <1>5, ListInit DEF ListedInv

\* A step that leaves the items: what is steady was so before, or has just been made right.
LEMMA StillListed ==
    ASSUME ListedInv, HiddenInv', UNCHANGED <<latest, listTold>>, Items' = Items, SuccessTold',
           \A r \in listNews' : listMember'[r] # "none",
           \A r \in Rooms : Steady(r)' =>
               \/ /\ Steady(r) /\ listMember'[r] = listMember[r]
                  /\ ShownRight(r) => ShownRight(r)'
               \/ Untold(r) /\ ShownRight(r)'
    PROVE  ListedInv'
<1>1. ItemsFit' /\ latest' \in Nat
  BY DEF ListedInv, ItemsFit
<1>2. ASSUME NEW r \in Rooms
      PROVE  /\ Untold(r)' <=> Untold(r)
             /\ Late(r)' <=> Late(r)
             /\ \A w : IsLast(w, r)' <=> IsLast(w, r)
  BY DEF Untold, Late, IsLast, Tells
<1>3. ASSUME NEW r \in Rooms, Steady(r)', ~Late(r)', NEW w \in Items', IsLast(w, r)'
      PROVE  w.rooms[r] = listMember'[r]
  <2>1. IsLast(w, r) /\ ~Late(r) /\ w \in Items /\ ~Untold(r)
    BY <1>2, <1>3 DEF IsLast, Untold
  <2> QED
    BY <1>3, <2>1 DEF ListedInv, LastIsRight
<1>4. LastIsRight'
  BY <1>3 DEF LastIsRight
<1>5. ASSUME NEW r \in Rooms, Steady(r)', Untold(r)' PROVE ShownRight(r)'
  BY <1>2, <1>5 DEF ListedInv, RestIsRight
<1>6. RestIsRight'
  BY <1>5 DEF RestIsRight
<1> QED
  BY <1>1, <1>4, <1>6 DEF ListedInv

\* The queues stay, or get an element that is no success behind.
LEMMA QueuesKept ==
    ASSUME ListedInv, UNCHANGED <<listMember, listNews>>,
           listPosted' = listPosted \/ \E e : listPosted' = Append(listPosted, e) /\ ~Success(e),
           \A i \in DOMAIN listPosted, r \in Rooms : Behind(i, r) => Behind(i, r)'
    PROVE  /\ SuccessTold'
           /\ \A r \in Rooms : Steady(r)' /\ listOdd \subseteq listOdd' => Steady(r)
<1>1. /\ \A i \in DOMAIN listPosted : i \in DOMAIN listPosted' /\ listPosted'[i] = listPosted[i]
      /\ \A i \in DOMAIN listPosted' : Success(listPosted'[i]) => i \in DOMAIN listPosted
  <2>1. listPosted \in Seq(ListOutcome \cup ListUpdate)
    BY DEF ListedInv, HiddenInv, ListTypes
  <2>2. CASE listPosted' = listPosted
    BY <2>2
  <2>3. ASSUME NEW e, listPosted' = Append(listPosted, e), ~Success(e)
        PROVE  /\ \A i \in DOMAIN listPosted : i \in DOMAIN listPosted' /\ listPosted'[i] = listPosted[i]
               /\ \A i \in DOMAIN listPosted' : Success(listPosted'[i]) => i \in DOMAIN listPosted
    <3>1. /\ DOMAIN listPosted = 1..Len(listPosted) /\ DOMAIN listPosted' = 1..(Len(listPosted) + 1)
          /\ Len(listPosted) \in Nat /\ listPosted'[Len(listPosted) + 1] = e
          /\ \A i \in 1..Len(listPosted) : listPosted'[i] = listPosted[i]
      BY <2>1, <2>3
    <3>2. \A i \in 1..(Len(listPosted) + 1) : i \in 1..Len(listPosted) \/ i = Len(listPosted) + 1
      BY <3>1
    <3>3. \A i \in 1..Len(listPosted) : i \in 1..(Len(listPosted) + 1)
      BY <3>1
    <3>4. ASSUME NEW i \in DOMAIN listPosted', Success(listPosted'[i]) PROVE i \in DOMAIN listPosted
      <4>1. i # Len(listPosted) + 1
        BY <2>3, <3>1, <3>4 DEF Success
      <4> QED
        BY <3>1, <3>2, <4>1
    <3>5. \A i \in DOMAIN listPosted : i \in DOMAIN listPosted' /\ listPosted'[i] = listPosted[i]
      BY <3>1, <3>3
    <3> QED
      BY <3>4, <3>5
  <2> QED
    BY <2>2, <2>3
<1>2. \A i \in DOMAIN listPosted : Success(listPosted[i]) => listPosted[i].room \in Rooms
  <2>1. \A i \in DOMAIN listPosted : listPosted[i] \in ListOutcome \cup ListUpdate
    BY DEF ListedInv, HiddenInv, ListTypes
  <2> QED
    BY <2>1 DEF Success, ListOutcome, ListUpdate
<1>3. ASSUME NEW i \in DOMAIN listPosted', Success(listPosted'[i])
      PROVE  (\/ listPosted[i].room \in listNews \/ Behind(i, listPosted[i].room)
              \/ Gone(listPosted[i]))'
  <2>1. i \in DOMAIN listPosted /\ listPosted'[i] = listPosted[i]
    BY <1>1, <1>3
  <2>2. Success(listPosted[i]) /\ listPosted[i].room \in Rooms
    BY <1>2, <1>3, <2>1 DEF Success
  <2>3. \/ listPosted[i].room \in listNews \/ Behind(i, listPosted[i].room)
        \/ Gone(listPosted[i])
    BY <2>1, <2>2 DEF ListedInv, SuccessTold
  <2>4. CASE Behind(i, listPosted[i].room)
    <3>1. PICK r \in Rooms : r = listPosted[i].room
      BY <2>2
    <3>2. Behind(i, r)'
      BY <2>1, <2>4, <3>1
    <3> QED
      BY <2>1, <3>1, <3>2 DEF Behind
  <2>5. CASE Gone(listPosted[i])
    BY <2>1, <2>5 DEF Gone
  <2> QED
    BY <2>1, <2>3, <2>4, <2>5
<1>4. SuccessTold'
  BY <1>3 DEF SuccessTold, Success
<1> QED
  BY <1>1, <1>4 DEF Steady, Success

\* Steps that leave the server and the queues alone.
LEMMA SameListed ==
    ASSUME ListedInv, HiddenInv', listOdd \subseteq listOdd',
           UNCHANGED <<listMember, listNews, responses, workers, listPosted, latest, listTold>>,
           \A r \in Rooms : ShownRight(r) => ShownRight(r)'
    PROVE  ListedInv'
<1>1. Items' = Items /\ \A i, r : Behind(i, r) => Behind(i, r)'
  BY DEF Items, Coming, Made, Behind
<1>2. SuccessTold' /\ \A r \in Rooms : Steady(r)' => Steady(r)
  BY <1>1, QueuesKept
<1>3. \A r \in listNews' : listMember'[r] # "none"
  BY DEF ListedInv, ItemsFit
<1> QED
  BY <1>1, <1>2, <1>3, StillListed

LEMMA ListedUser ==
    ASSUME ListedInv, HiddenInv',
           \/ \E r \in Rooms : List!OpenRoom(r) \/ List!PickRoom(r) \/ List!Browse(r)
           \/ List!OpenSwitcher \/ List!RejectSwitcher
           \/ \E i \in DOMAIN listRows : List!OpenMenu(i)
           \/ List!DismissMenu \/ UNCHANGED List!vars
    PROVE  ListedInv'
<1>1. UNCHANGED <<listMember, listNews, responses, workers, listPosted, latest, listTold, listOdd,
                  listRows, invite, hidden>>
  BY DEF List!OpenRoom, List!PickRoom, List!OpenSwitcher, List!RejectSwitcher, List!Browse,
         List!OpenMenu, List!DismissMenu, List!server, List!queues, List!list, List!popups,
         List!past, List!vars
<1>2. \A r \in Rooms : ShownRight(r) => ShownRight(r)'
  BY <1>1 DEF ShownRight, ListRooms
<1> QED
  BY <1>1, <1>2, SameListed

\* The user hides a room, or asks for a command.
LEMMA ListedChoose ==
    ASSUME ListedInv, HiddenInv', NEW kind \in List!Kinds, List!Choose(kind) PROVE ListedInv'
<1>1. /\ UNCHANGED <<listMember, listNews, responses, workers, listPosted, latest, listTold>>
      /\ listOdd \subseteq listOdd'
  BY DEF List!Choose, List!server
<1>2. UNCHANGED <<listRows, invite, hidden>> \/ \E r \in List!Pointed : List!Hide(r)
  BY DEF List!Choose, List!list
<1>3. CASE UNCHANGED <<listRows, invite, hidden>>
  <2>1. \A r \in Rooms : ShownRight(r) => ShownRight(r)'
    BY <1>1, <1>3 DEF ShownRight, ListRooms
  <2> QED
    BY <1>1, <2>1, SameListed
<1>4. ASSUME NEW x \in List!Pointed, List!Hide(x) PROVE ListedInv'
  <2>1. /\ hidden' = hidden \cup {x} /\ invite' = invite \ {x}
        /\ listRows' = List!RemovedRooms(listRows, {x})
    BY <1>4 DEF List!Hide
  <2>2. ListRooms' = ListRooms \ {x}
    <3>1. listRows \in Seq(Rooms)
      BY DEF ListedInv, HiddenInv, ListTypes
    <3>2. List!ToSet(listRows') = List!ToSet(listRows) \ {x}
      BY <2>1, <3>1, RemovedExactly
    <3> QED
      BY <3>2 DEF ListRooms, List!ToSet
  <2>3. \A r \in Rooms : ShownRight(r) => ShownRight(r)'
    BY <1>1, <2>1, <2>2 DEF ShownRight
  <2> QED
    BY <1>1, <2>3, SameListed
<1> QED
  BY <1>2, <1>3, <1>4

\* A membership changes, and the server will tell.
LEMMA ListedChange ==
    ASSUME ListedInv, HiddenInv', NEW x \in Rooms, List!Change(x) PROVE ListedInv'
<1>1. /\ listNews' = listNews \cup {x}
      /\ UNCHANGED <<responses, workers, listPosted, latest, listTold, listOdd, listRows, invite,
                     hidden>>
      /\ \E m \in List!Memberships \ {"none"} : listMember' = [listMember EXCEPT ![x] = m]
      /\ listMember \in [Rooms -> List!Memberships] /\ listNews \subseteq Rooms
  BY DEF List!Change, List!queues, List!list, List!past, ListedInv, HiddenInv, ListTypes
<1>2. /\ \A r \in Rooms : r # x => listMember'[r] = listMember[r]
      /\ listMember'[x] # "none"
  BY <1>1
<1>3. Items' = Items /\ \A i, r : Behind(i, r) <=> Behind(i, r)'
  BY <1>1 DEF Items, Coming, Made, Behind
<1>4. \A r \in listNews' : listMember'[r] # "none"
  BY <1>1, <1>2 DEF ListedInv, ItemsFit
<1>5. \A r \in Rooms : Steady(r)' =>
          Steady(r) /\ listMember'[r] = listMember[r] /\ (ShownRight(r) => ShownRight(r)')
  BY <1>1, <1>2 DEF Steady, ShownRight, ListRooms
<1>6. SuccessTold'
  <2>1. ASSUME NEW i \in DOMAIN listPosted, Success(listPosted[i])
        PROVE  (\/ listPosted[i].room \in listNews \/ Behind(i, listPosted[i].room)
                \/ Gone(listPosted[i]))'
    <3>1. listPosted[i] \in ListOutcome
      BY <2>1 DEF Success, ListedInv, HiddenInv, ListTypes, ListUpdate
    <3>2. PICK r \in Rooms : r = listPosted[i].room
      BY <3>1 DEF ListOutcome
    <3>3. r \in listNews \/ Behind(i, r) \/ Gone(listPosted[i])
      BY <2>1, <3>2 DEF ListedInv, SuccessTold
    <3>4. Behind(i, r) => Behind(i, listPosted[i].room)'
      BY <1>1, <1>3, <3>2 DEF Behind
    <3>5. Gone(listPosted[i]) /\ r # x => Gone(listPosted[i])'
      BY <1>1, <1>2, <3>2 DEF Gone
    <3> QED
      BY <1>1, <3>2, <3>3, <3>4, <3>5
  <2> QED
    BY <1>1, <2>1 DEF SuccessTold
<1> QED
  BY <1>1, <1>3, <1>4, <1>5, <1>6, StillListed

LEMMA ComingTyped == ListTypes => Coming \subseteq ListResponse
<1> SUFFICES ASSUME ListTypes PROVE Coming \subseteq ListResponse
  OBVIOUS
<1>1. responses \in Seq(ListResponse) /\ workers \subseteq ListResponse
  BY DEF ListTypes
<1>2. \A i \in DOMAIN responses : responses[i] \in ListResponse
  BY <1>1
<1> QED
  BY <1>1, <1>2 DEF Coming

LEMMA ItemsTyped == ListTypes => \A w \in Items : w.n \in Nat
<1> SUFFICES ASSUME ListTypes PROVE \A w \in Items : w.n \in Nat
  OBVIOUS
<1>1. \A w \in Coming : w.n \in Nat
  BY ComingTyped DEF ListResponse
<1>2. \A i \in Made : listPosted[i].n \in Nat
  BY DEF Made, ListTypes, ListUpdate, ListOutcome
<1> QED
  BY <1>1, <1>2 DEF Items

\* A response tells what the news are.
LEMMA ListedRespond ==
    ASSUME ListedInv, HiddenInv', List!Respond PROVE ListedInv'
<1> DEFINE x == [n |-> listTold', rooms |-> [r \in listNews |-> listMember[r]]]
<1>1. /\ listTold' = listTold + 1 /\ listNews' = {} /\ responses' = Append(responses, x)
      /\ UNCHANGED <<listMember, workers, listPosted, listRows, hidden, invite, latest, listOdd>>
  BY DEF List!Respond, List!list
<1>2. Coming' = Coming \cup {x} /\ Items' = Items \cup {x}
  <2>1. responses \in Seq(ListResponse)
    BY DEF ListedInv, HiddenInv, ListTypes
  <2>2. {responses'[i] : i \in DOMAIN responses'} = {responses[i] : i \in DOMAIN responses} \cup {x}
    <3> HIDE DEF x
    <3>1. /\ DOMAIN responses = 1..Len(responses) /\ DOMAIN responses' = 1..(Len(responses) + 1)
          /\ Len(responses) \in Nat /\ responses'[Len(responses) + 1] = x
          /\ \A i \in 1..Len(responses) : responses'[i] = responses[i]
      BY <1>1, <2>1
    <3>2. \A i : i \in 1..(Len(responses) + 1) <=> i \in 1..Len(responses) \/ i = Len(responses) + 1
      BY <3>1
    <3> QED
      BY <3>1, <3>2
  <2>3. Coming' = Coming \cup {x}
    BY <1>1, <2>2 DEF Coming
  <2> HIDE DEF x
  <2> QED
    BY <1>1, <2>3 DEF Items, Made
<1>3. /\ x.n = listTold' /\ DOMAIN x.rooms = listNews
      /\ \A r \in listNews : x.rooms[r] = listMember[r]
  OBVIOUS
<1> HIDE DEF x
<1>4. /\ listTold \in Nat /\ \A w \in Items : w.n \in Nat /\ w.n <= listTold
      /\ \A w \in Items : \A r \in DOMAIN w.rooms : w.rooms[r] # "none"
      /\ \A r \in listNews : listMember[r] # "none"
  <2>1. \A w \in Items : w.n \in Nat
    BY ItemsTyped DEF ListedInv, HiddenInv
  <2> QED
    BY <2>1 DEF ListedInv, ItemsFit, HiddenInv, ListTypes
<1>5. ItemsFit'
  <2>1. \A w \in Items : w.n <= listTold'
    BY <1>1, <1>4
  <2>2. x.n <= listTold'
    BY <1>1, <1>3, <1>4
  <2>3. \A r \in DOMAIN x.rooms : x.rooms[r] # "none"
    BY <1>3, <1>4
  <2> QED
    BY <1>1, <1>2, <1>4, <2>1, <2>2, <2>3 DEF ItemsFit
<1>6. \A r \in Rooms : Steady(r)' => r \in listNews \/ Steady(r)
  BY <1>1 DEF Steady
<1>7. SuccessTold'
  <2>1. ASSUME NEW i \in DOMAIN listPosted, Success(listPosted[i])
        PROVE  (Behind(i, listPosted[i].room) \/ Gone(listPosted[i]))'
    <3>1. \/ listPosted[i].room \in listNews \/ Behind(i, listPosted[i].room)
          \/ Gone(listPosted[i])
      BY <2>1 DEF ListedInv, SuccessTold
    <3>2. CASE listPosted[i].room \in listNews
      BY <1>1, <1>2, <1>3, <3>2 DEF Behind, Tells
    <3>3. CASE Behind(i, listPosted[i].room)
      BY <1>1, <1>2, <3>3 DEF Behind
    <3>4. CASE Gone(listPosted[i])
      BY <1>1, <3>4 DEF Gone
    <3> QED
      BY <3>1, <3>2, <3>3, <3>4
  <2> QED
    BY <1>1, <2>1 DEF SuccessTold
<1>8. ASSUME NEW r \in Rooms, Steady(r)', ~Late(r)', NEW w \in Items', IsLast(w, r)'
      PROVE  w.rooms[r] = listMember'[r]
  <2>1. Tells(w, r) /\ \A v \in Items' : Tells(v, r) => v.n <= w.n
    BY <1>8 DEF IsLast, Tells
  <2>2. CASE r \in listNews
    <3>1. x.n <= w.n
      BY <1>2, <1>3, <2>1, <2>2 DEF Tells
    <3>2. w = x
      BY <1>1, <1>2, <1>3, <1>4, <3>1
    <3> QED
      BY <1>1, <1>3, <2>2, <3>2
  <2>3. CASE r \notin listNews
    <3>1. w \in Items /\ IsLast(w, r)
      BY <1>2, <1>3, <2>1, <2>3 DEF IsLast, Tells
    <3>2. ~Late(r)
      BY <1>1, <1>2, <1>8 DEF Late, Tells
    <3> QED
      BY <1>1, <1>6, <1>8, <2>3, <3>1, <3>2 DEF ListedInv, LastIsRight
  <2> QED
    BY <2>2, <2>3
<1>9. ASSUME NEW r \in Rooms, Steady(r)', Untold(r)' PROVE ShownRight(r)'
  <2>1. Untold(r) /\ r \notin listNews
    BY <1>2, <1>3, <1>9 DEF Untold, Tells
  <2>2. ShownRight(r)
    BY <1>6, <1>9, <2>1 DEF ListedInv, RestIsRight
  <2> QED
    BY <1>1, <2>2 DEF ShownRight, ListRooms
<1>10. LastIsRight' /\ RestIsRight'
  BY <1>8, <1>9 DEF LastIsRight, RestIsRight
<1> QED
  BY <1>1, <1>5, <1>7, <1>10 DEF ListedInv

\* Steps that leave the server alone, and what the items say.
LEMMA KeptListed ==
    ASSUME ListedInv, HiddenInv', listOdd \subseteq listOdd', Items' = Items,
           UNCHANGED <<listMember, listNews, latest, listTold, listRows, invite, hidden>>,
           listPosted' = listPosted \/ \E e : listPosted' = Append(listPosted, e) /\ ~Success(e),
           \A i \in DOMAIN listPosted, r \in Rooms : Behind(i, r) => Behind(i, r)'
    PROVE  ListedInv'
<1>1. SuccessTold' /\ \A r \in Rooms : Steady(r)' => Steady(r)
  BY QueuesKept
<1>2. \A r \in Rooms : ShownRight(r) => ShownRight(r)'
  BY DEF ShownRight, ListRooms
<1>3. \A r \in listNews' : listMember'[r] # "none"
  BY DEF ListedInv, ItemsFit
<1> QED
  BY <1>1, <1>2, <1>3, StillListed

\* The worker that takes a response.
LEMMA ListedHandle ==
    ASSUME ListedInv, HiddenInv', List!Handle PROVE ListedInv'
<1>1. /\ responses # <<>> /\ workers' = workers \cup {Head(responses)}
      /\ responses' = Tail(responses)
      /\ UNCHANGED <<listMember, listNews, listPosted, latest, listTold, listOdd, listRows, invite,
                     hidden>>
  BY DEF List!Handle, List!server, List!list, List!past
<1>2. responses \in Seq(ListResponse)
  BY DEF ListedInv, HiddenInv, ListTypes
<1>3. {responses[i] : i \in DOMAIN responses} =
          {responses'[i] : i \in DOMAIN responses'} \cup {Head(responses)}
  <2>1. {responses[i] : i \in DOMAIN responses} =
            {Tail(responses)[i] : i \in DOMAIN Tail(responses)} \cup {Head(responses)}
    BY <1>1, <1>2, TailElements
  <2> QED
    BY <1>1, <2>1
<1>4. Coming' = Coming
  BY <1>1, <1>3 DEF Coming
<1>5. Items' = Items /\ \A i, r : Behind(i, r) => Behind(i, r)'
  BY <1>1, <1>4 DEF Items, Made, Behind
<1> QED
  BY <1>1, <1>5, KeptListed

\* Something is posted.
LEMMA ListAppended ==
    ASSUME ListTypes, NEW e, listPosted' = Append(listPosted, e)
    PROVE  /\ \A i : i \in DOMAIN listPosted' <=> i \in DOMAIN listPosted \/ i = Len(listPosted) + 1
           /\ listPosted'[Len(listPosted) + 1] = e
           /\ \A i \in DOMAIN listPosted : Len(listPosted) + 1 > i /\ listPosted'[i] = listPosted[i]
<1>1. listPosted \in Seq(ListOutcome \cup ListUpdate)
  BY DEF ListTypes
<1>2. /\ DOMAIN listPosted = 1..Len(listPosted) /\ DOMAIN listPosted' = 1..(Len(listPosted) + 1)
      /\ Len(listPosted) \in Nat /\ listPosted'[Len(listPosted) + 1] = e
      /\ \A i \in 1..Len(listPosted) : listPosted'[i] = listPosted[i]
  BY <1>1
<1> QED
  BY <1>2

\* The update that a worker has made of a response.
LEMMA ListedPrepare ==
    ASSUME ListedInv, HiddenInv', NEW w \in workers, List!Prepare(w) PROVE ListedInv'
<1> DEFINE u == [what |-> "update", n |-> w.n, rooms |-> w.rooms]
           n == Len(listPosted) + 1
<1>1. /\ workers' = workers \ {w} /\ listPosted' = Append(listPosted, u)
      /\ UNCHANGED <<responses, listMember, listNews, latest, listTold, listOdd, listRows, invite,
                     hidden>>
  BY DEF List!Prepare, List!server, List!list, List!past
<1>2. w = [n |-> w.n, rooms |-> w.rooms]
  BY DEF ListedInv, HiddenInv, ListTypes, ListResponse
<1>3. u.what = "update" /\ u.n = w.n /\ u.rooms = w.rooms
  OBVIOUS
<1> HIDE DEF u
<1>4. /\ \A i : i \in DOMAIN listPosted' <=> i \in DOMAIN listPosted \/ i = n
      /\ listPosted'[n] = u
      /\ \A i \in DOMAIN listPosted : n > i /\ listPosted'[i] = listPosted[i]
  BY <1>1, ListAppended DEF ListedInv, HiddenInv
<1> HIDE DEF n
<1>5. Coming = Coming' \cup {w}
  BY <1>1 DEF Coming
<1>6. Made' = Made \cup {n}
  BY <1>3, <1>4 DEF Made
<1>7. Items' = Items
  <2>1. {[n |-> listPosted'[i].n, rooms |-> listPosted'[i].rooms] : i \in Made'} =
            {[n |-> listPosted[i].n, rooms |-> listPosted[i].rooms] : i \in Made} \cup {w}
    <3>1. \A i \in Made : listPosted'[i] = listPosted[i]
      BY <1>4 DEF Made
    <3>2. [n |-> listPosted'[n].n, rooms |-> listPosted'[n].rooms] = w
      BY <1>2, <1>3, <1>4
    <3> QED
      BY <1>6, <3>1, <3>2
  <2> QED
    BY <1>5, <2>1 DEF Items
<1>8. ASSUME NEW i \in DOMAIN listPosted, NEW r \in Rooms, Behind(i, r) PROVE Behind(i, r)'
  <2>1. CASE Tells(w, r)
    BY <1>3, <1>4, <2>1 DEF Tells, Concerns, Behind
  <2>2. CASE \E v \in Coming : v # w /\ Tells(v, r)
    BY <1>5, <2>2 DEF Behind
  <2>3. CASE \E k \in DOMAIN listPosted : k > i /\ Concerns(listPosted[k], r)
    BY <1>4, <2>3 DEF Behind
  <2> QED
    BY <1>8, <2>1, <2>2, <2>3 DEF Behind
<1>9. ~Success(u)
  BY <1>3 DEF Success
<1> QED
  BY <1>1, <1>7, <1>8, <1>9, KeptListed

\* A command that the server refuses, or carries out.
LEMMA ListedRequest ==
    ASSUME ListedInv, HiddenInv', NEW c \in commands, List!Request(c) PROVE ListedInv'
<1> DEFINE x == c.room
<1>1. /\ UNCHANGED <<responses, workers, latest, listTold, listOdd, listRows, invite, hidden>>
      /\ x \in Rooms /\ c.kind \in Commands
      /\ listMember \in [Rooms -> List!Memberships] /\ listNews \subseteq Rooms
  BY DEF List!Request, List!list, List!past, ListedInv, HiddenInv, ListTypes
<1>2. PICK e : /\ listPosted' = Append(listPosted, e) /\ e.what = "outcome" /\ e.room = x
               /\ e.kind = c.kind
               /\ \/ e.ok /\ listMember' = [listMember EXCEPT ![x] = List!After(c.kind)]
                     /\ listNews' \in IF List!After(c.kind) = "left"
                                      THEN {listNews \cup {x}, listNews \ {x}}
                                      ELSE {listNews \cup {x}}
                  \/ ~e.ok /\ UNCHANGED <<listMember, listNews>>
  BY DEF List!Request, List!server
<1> HIDE DEF x
<1>3. PICK n :
      /\ \A i : i \in DOMAIN listPosted' <=> i \in DOMAIN listPosted \/ i = n
      /\ listPosted'[n] = e
      /\ \A i \in DOMAIN listPosted : n > i /\ listPosted'[i] = listPosted[i]
  BY <1>2, ListAppended DEF ListedInv, HiddenInv
<1>4. Items' = Items /\ Coming' = Coming
  <2>1. Made' = Made /\ \A i \in Made : listPosted'[i] = listPosted[i]
    BY <1>2, <1>3 DEF Made
  <2> QED
    BY <1>1, <2>1 DEF Items, Coming
<1>5. \A i \in DOMAIN listPosted : \A r : Behind(i, r) => Behind(i, r)'
  BY <1>3, <1>4 DEF Behind
<1>6. CASE ~e.ok
  <2>1. ~Success(e)
    BY <1>6 DEF Success
  <2> QED
    BY <1>1, <1>2, <1>4, <1>5, <1>6, <2>1, KeptListed
<1>7. CASE e.ok
  <2>1. /\ listMember'[x] = List!After(c.kind) /\ \A r \in Rooms \ {x} : listMember'[r] = listMember[r]
        /\ List!After(c.kind) = "left" \/ x \in listNews'
        /\ listNews \ {x} \subseteq listNews' /\ listNews' \subseteq listNews \cup {x}
    BY <1>1, <1>2, <1>7
  <2>2. /\ List!After(c.kind) # "none"
        /\ List!After(c.kind) = "left" => c.kind \in {"leave", "reject", "forget"}
    BY <1>1 DEF List!After, Commands
  <2>3. \A r \in listNews' : listMember'[r] # "none"
    BY <1>1, <2>1, <2>2 DEF ListedInv, ItemsFit
  <2>4. ASSUME NEW r \in Rooms, Steady(r)'
        PROVE  Steady(r) /\ r # x /\ listMember'[r] = listMember[r]
    <3>1. r # x
      BY <1>2, <1>3, <1>7, <2>4 DEF Steady, Success
    <3> QED
      BY <1>1, <1>3, <2>1, <2>4, <3>1 DEF Steady, Success
  <2>5. \A r \in Rooms : Steady(r)' =>
            Steady(r) /\ listMember'[r] = listMember[r] /\ (ShownRight(r) => ShownRight(r)')
    BY <1>1, <2>4 DEF ShownRight, ListRooms
  <2>6. SuccessTold'
    <3>1. ASSUME NEW i \in DOMAIN listPosted, Success(listPosted[i])
          PROVE  (\/ listPosted[i].room \in listNews \/ Behind(i, listPosted[i].room)
                  \/ Gone(listPosted[i]))'
      <4>1. listPosted[i].room \in Rooms
        <5>1. listPosted[i] \in ListOutcome
          BY <3>1 DEF Success, ListedInv, HiddenInv, ListTypes, ListUpdate
        <5> QED
          BY <5>1 DEF ListOutcome
      <4>2. PICK r \in Rooms : r = listPosted[i].room /\ listPosted'[i].room = r
        BY <1>3, <4>1
      <4>3. r \in listNews \/ Behind(i, r) \/ Gone(listPosted[i])
        BY <3>1, <4>2 DEF ListedInv, SuccessTold
      <4>4. r = x => Behind(i, r)'
        BY <1>2, <1>3 DEF Behind, Concerns
      <4>5. Gone(listPosted[i]) /\ r # x => Gone(listPosted[i])'
        BY <1>3, <2>1, <4>2 DEF Gone
      <4>6. r \in listNews /\ r # x => r \in listNews'
        BY <2>1
      <4>7. r \in listNews' \/ Behind(i, r)' \/ Gone(listPosted[i])'
        BY <1>5, <4>3, <4>4, <4>5, <4>6
      <4> QED
        BY <4>2, <4>7 DEF Behind
    <3>2. x \in listNews' \/ Gone(e)'
      BY <1>2, <2>1, <2>2 DEF Gone
    <3>3. (\/ listPosted[n].room \in listNews \/ Behind(n, listPosted[n].room)
           \/ Gone(listPosted[n]))'
      BY <1>2, <1>3, <3>2 DEF Gone
    <3> QED
      BY <1>3, <3>1, <3>3 DEF SuccessTold, Success
  <2> QED
    BY <1>1, <1>4, <2>3, <2>5, <2>6, StillListed
<1> QED
  BY <1>6, <1>7

\* What is delivered was first, and the rest comes one place nearer.
LEMMA ListShifted ==
    ASSUME ListTypes, listPosted # <<>>, listPosted' = Tail(listPosted),
           UNCHANGED <<responses, workers>>
    PROVE  /\ 1 \in DOMAIN listPosted /\ Head(listPosted) = listPosted[1]
           /\ \A i \in DOMAIN listPosted' : /\ i + 1 \in DOMAIN listPosted
                                            /\ listPosted'[i] = listPosted[i + 1]
                                            /\ \A r : Behind(i + 1, r) => Behind(i, r)'
           /\ \A i \in DOMAIN listPosted : i # 1 =>
                  i - 1 \in DOMAIN listPosted' /\ listPosted'[i - 1] = listPosted[i] /\ i > 1
           /\ Coming' = Coming
           /\ Items = Items' \cup
                  {w \in {[n |-> Head(listPosted).n, rooms |-> Head(listPosted).rooms]} :
                       Head(listPosted).what = "update"}
<1> DEFINE e == Head(listPosted)
           x == [n |-> e.n, rooms |-> e.rooms]
<1>1. /\ 1 \in DOMAIN listPosted /\ e = listPosted[1]
      /\ \A i \in DOMAIN listPosted' : /\ i \in Nat \ {0} /\ i + 1 \in DOMAIN listPosted
                                       /\ listPosted'[i] = listPosted[i + 1]
      /\ \A i \in DOMAIN listPosted : i # 1 =>
             i \in Nat /\ i - 1 \in DOMAIN listPosted' /\ listPosted'[i - 1] = listPosted[i]
  <2>1. listPosted \in Seq(ListOutcome \cup ListUpdate)
    BY DEF ListTypes
  <2> QED
    BY <2>1, TailElements
<1> HIDE DEF e
<1>2. Coming' = Coming
  BY DEF Coming
<1>3. \A i \in DOMAIN listPosted : i # 1 => i > 1
  <2>1. ASSUME NEW i \in DOMAIN listPosted, i # 1 PROVE i > 1
    <3>1. i \in Nat /\ i - 1 \in Nat \ {0}
      BY <1>1, <2>1
    <3> QED
      BY <3>1
  <2> QED
    BY <2>1
<1>4. ASSUME NEW i \in DOMAIN listPosted', NEW r, Behind(i + 1, r) PROVE Behind(i, r)'
  <2>1. CASE \E w \in Coming : Tells(w, r)
    BY <1>2, <2>1 DEF Behind
  <2>2. ASSUME NEW k \in DOMAIN listPosted, k > i + 1, Concerns(listPosted[k], r)
        PROVE  Behind(i, r)'
    <3>1. i \in Nat \ {0}
      BY <1>1
    <3>2. k # 1
      BY <2>2, <3>1
    <3>3. k - 1 \in DOMAIN listPosted' /\ listPosted'[k - 1] = listPosted[k] /\ k - 1 > i
      BY <1>1, <2>2, <3>1, <3>2
    <3> QED
      BY <2>2, <3>3 DEF Behind
  <2> QED
    BY <1>4, <2>1, <2>2 DEF Behind
<1>5. Items = Items' \cup {w \in {x} : e.what = "update"}
  <2> HIDE DEF x
  <2>1. \A w : w \in Items <=>
            w \in Coming \/ \E i \in DOMAIN listPosted :
                listPosted[i].what = "update" /\ w = [n |-> listPosted[i].n, rooms |-> listPosted[i].rooms]
    BY DEF Items, Made
  <2>2. \A w : w \in Items' <=>
            w \in Coming' \/ \E i \in DOMAIN listPosted' :
                listPosted'[i].what = "update"
                /\ w = [n |-> listPosted'[i].n, rooms |-> listPosted'[i].rooms]
    BY DEF Items, Made
  <2>3. ASSUME NEW w \in Items PROVE w \in Items' \/ (e.what = "update" /\ w = x)
    <3>1. CASE w \in Coming
      <4>1. w \in Coming'
        BY <1>2, <3>1
      <4> QED
        BY <2>2, <4>1
    <3>2. ASSUME NEW i \in DOMAIN listPosted, listPosted[i].what = "update",
                 w = [n |-> listPosted[i].n, rooms |-> listPosted[i].rooms]
          PROVE  w \in Items' \/ (e.what = "update" /\ w = x)
      <4>1. CASE i = 1
        BY <1>1, <3>2, <4>1 DEF x
      <4>2. CASE i # 1
        <5>1. i - 1 \in DOMAIN listPosted' /\ listPosted'[i - 1] = listPosted[i]
          BY <1>1, <4>2
        <5> QED
          BY <2>2, <3>2, <5>1
      <4> QED
        BY <4>1, <4>2
    <3> QED
      BY <2>1, <3>1, <3>2
  <2>4. \A w \in Items' : w \in Items
    BY <1>1, <1>2, <2>1, <2>2
  <2>5. e.what = "update" => x \in Items
    BY <1>1, <2>1 DEF x
  <2> QED
    BY <2>3, <2>4, <2>5
<1> QED
  BY <1>1, <1>2, <1>3, <1>4, <1>5 DEF e, x

\* The answers that wait still are made up for.
LEMMA SuccessShifted ==
    ASSUME ListedInv, listPosted # <<>>, listPosted' = Tail(listPosted),
           UNCHANGED <<responses, workers, listMember, listNews>>
    PROVE  /\ SuccessTold'
           /\ \A r \in Rooms : /\ Steady(r)' /\ listOdd \subseteq listOdd'
                               /\ Success(Head(listPosted)) => Head(listPosted).room # r
                               => Steady(r)
<1>1. /\ \A i \in DOMAIN listPosted' : /\ i + 1 \in DOMAIN listPosted
                                       /\ listPosted'[i] = listPosted[i + 1]
                                       /\ \A r : Behind(i + 1, r) => Behind(i, r)'
      /\ \A i \in DOMAIN listPosted : i # 1 =>
             i - 1 \in DOMAIN listPosted' /\ listPosted'[i - 1] = listPosted[i]
      /\ Head(listPosted) = listPosted[1]
  BY ListShifted DEF ListedInv, HiddenInv
<1>2. ASSUME NEW i \in DOMAIN listPosted', Success(listPosted'[i])
      PROVE  (\/ listPosted[i].room \in listNews \/ Behind(i, listPosted[i].room)
              \/ Gone(listPosted[i]))'
  <2>1. PICK e : e = listPosted'[i] /\ e = listPosted[i + 1]
    BY <1>1
  <2>2. e.room \in listNews \/ Behind(i + 1, e.room) \/ Gone(e)
    BY <1>1, <1>2, <2>1 DEF ListedInv, SuccessTold, Success
  <2>3. e.room \in listNews' \/ Behind(i, e.room)' \/ Gone(e)'
    BY <1>1, <2>2 DEF Gone
  <2> QED
    BY <2>1, <2>3 DEF Behind, Gone
<1>3. SuccessTold'
  BY <1>2 DEF SuccessTold, Success
<1>4. ASSUME NEW r \in Rooms, Steady(r)', listOdd \subseteq listOdd',
             Success(Head(listPosted)) => Head(listPosted).room # r
      PROVE  Steady(r)
  <2>1. ASSUME NEW i \in DOMAIN listPosted, Success(listPosted[i]) PROVE listPosted[i].room # r
    <3>1. CASE i = 1
      BY <1>1, <1>4, <2>1, <3>1
    <3>2. CASE i # 1
      <4>1. i - 1 \in DOMAIN listPosted' /\ listPosted'[i - 1] = listPosted[i]
        BY <1>1, <3>2
      <4>2. \A l \in DOMAIN listPosted' : Success(listPosted'[l]) => listPosted'[l].room # r
        BY <1>4 DEF Steady, Success
      <4> QED
        BY <2>1, <4>1, <4>2
    <3> QED
      BY <3>1, <3>2
  <2> QED
    BY <1>4, <2>1 DEF Steady
<1> QED
  BY <1>3, <1>4

\* An answer changes what is shown of its room only.
LEMMA OutcomeRows ==
    ASSUME List!ConstantsOK, HiddenInv, NEW o \in ListOutcome, List!Outcomes(o)
    PROVE  /\ o.ok /\ o.kind \in {"leave", "reject", "forget"} => List!Dropped(o.room)
           /\ o.ok /\ List!Dropped(o.room) => o.room \notin ListRooms'
           /\ \A r \in Rooms : r # o.room \/ ~o.ok =>
                  /\ r \in ListRooms' <=> r \in ListRooms
                  /\ r \in hidden' <=> r \in hidden
                  /\ r \in invite' <=> r \in invite
<1>1. listRows \in Seq(Rooms) /\ o.room \in Rooms /\ o.kind \in Commands
  BY DEF HiddenInv, ListTypes, ListOutcome
<1>2. ASSUME ~o.ok PROVE UNCHANGED <<listRows, hidden, invite>>
  BY <1>2 DEF List!Outcomes, List!list
<1>3. ASSUME o.ok
      PROVE  /\ o.kind \in {"leave", "reject", "forget"} => List!Dropped(o.room)
             /\ List!Dropped(o.room) \/ List!Accepted(o.room) \/ List!Browsed(o.room)
  BY <1>1, <1>3 DEF List!Outcomes, Commands
<1>4. ASSUME List!Dropped(o.room)
      PROVE  /\ ListRooms' = ListRooms \ {o.room} /\ hidden' = hidden \ {o.room}
             /\ invite' = invite \ {o.room}
  <2>1. /\ listRows' = List!RemovedRooms(listRows, {o.room}) /\ hidden' = hidden \ {o.room}
        /\ invite' = invite \ {o.room}
    BY <1>4 DEF List!Dropped
  <2>2. List!ToSet(listRows') = List!ToSet(listRows) \ {o.room}
    BY <1>1, <2>1, RemovedExactly
  <2> QED
    BY <2>1, <2>2 DEF ListRooms, List!ToSet
<1>5. ASSUME List!Accepted(o.room)
      PROVE  UNCHANGED <<listRows, hidden>> /\ invite' = invite \ {o.room}
  BY <1>5 DEF List!Accepted
<1>6. ASSUME List!Browsed(o.room)
      PROVE  /\ ListRooms' = ListRooms \cup ({o.room} \ hidden) /\ hidden' = hidden
             /\ invite' = invite \ {o.room}
  <2>1. /\ listRows' \in List!Upserts(listRows, {o.room}) /\ hidden' = hidden
        /\ invite' = invite \ {o.room} /\ {o.room} \in SUBSET Rooms
    BY <1>1, <1>6 DEF List!Browsed
  <2>2. List!ToSet(listRows') = List!ToSet(listRows) \cup ({o.room} \ hidden)
    BY <1>1, <2>1, UpsertedExactly
  <2> QED
    BY <2>1, <2>2 DEF ListRooms, List!ToSet
<1>7. UNCHANGED listRows => ListRooms' = ListRooms
  BY DEF ListRooms
<1>8. CASE ~o.ok
  BY <1>2, <1>7, <1>8
<1>9. CASE o.ok
  <2>1. o.kind \in {"leave", "reject", "forget"} => List!Dropped(o.room)
    BY <1>3, <1>9
  <2>2. List!Dropped(o.room) => o.room \notin ListRooms'
    BY <1>4
  <2>3. ASSUME NEW r \in Rooms, r # o.room
        PROVE  /\ r \in ListRooms' <=> r \in ListRooms
               /\ r \in hidden' <=> r \in hidden
               /\ r \in invite' <=> r \in invite
    BY <1>3, <1>4, <1>5, <1>6, <1>7, <1>9, <2>3
  <2> QED
    BY <1>9, <2>1, <2>2, <2>3
<1> QED
  BY <1>8, <1>9

\* An answer arrives.  A room about which nothing else comes is shown as the answer says.
LEMMA ListedOutcome ==
    ASSUME List!ConstantsOK, ListedInv, HiddenInv', List!Deliver,
           Head(listPosted) \in ListOutcome, List!Outcomes(Head(listPosted))
    PROVE  ListedInv'
<1> PICK o : o = Head(listPosted) /\ o \in ListOutcome /\ List!Outcomes(o)
  OBVIOUS
<1> DEFINE x == o.room
<1>1. /\ listPosted # <<>> /\ listPosted' = Tail(listPosted)
      /\ UNCHANGED <<listMember, listNews, responses, workers, listTold, latest>>
  BY DEF List!Deliver, List!Outcomes, List!server
<1>2. HiddenInv /\ ListTypes
  BY DEF ListedInv, HiddenInv
<1>3. o.what = "outcome" /\ x \in Rooms /\ o.ok \in BOOLEAN
  BY DEF ListOutcome
<1>4. /\ 1 \in DOMAIN listPosted /\ o = listPosted[1] /\ Items' = Items
      /\ \A i \in DOMAIN listPosted : i # 1 =>
             i - 1 \in DOMAIN listPosted' /\ listPosted'[i - 1] = listPosted[i]
  BY <1>1, <1>2, <1>3, ListShifted
<1>5. listOdd \subseteq listOdd'
  BY DEF List!Outcomes
<1>6. x \notin listOdd' => ~Behind(1, x)
  <2>1. ASSUME x \notin listOdd'
        PROVE  /\ \A w \in workers \cup List!ToSet(responses) : x \notin DOMAIN w.rooms
               /\ \A u \in List!ToSet(Tail(listPosted)) :
                      /\ u.what = "update" => x \notin DOMAIN u.rooms
                      /\ u.what = "outcome" => x # u.room
    BY <2>1 DEF List!Outcomes
  <2>2. ASSUME x \notin listOdd', NEW w \in Coming PROVE ~Tells(w, x)
    BY <2>1, <2>2 DEF Coming, Tells, List!ToSet
  <2>3. ASSUME x \notin listOdd', NEW k \in DOMAIN listPosted, k > 1
        PROVE  ~Concerns(listPosted[k], x)
    <3>1. listPosted[k] \in List!ToSet(Tail(listPosted))
      <4>1. k # 1
        BY <2>3
      <4>2. k - 1 \in DOMAIN Tail(listPosted) /\ Tail(listPosted)[k - 1] = listPosted[k]
        BY <1>1, <1>4, <4>1
      <4> QED
        BY <4>2 DEF List!ToSet
    <3>2. listPosted[k].what \in {"update", "outcome"}
      BY <1>2, <2>3 DEF ListTypes, ListOutcome, ListUpdate
    <3> QED
      BY <2>1, <2>3, <3>1, <3>2 DEF Concerns
  <2> QED
    BY <2>2, <2>3 DEF Behind
<1>7. Untold(x) \/ Behind(1, x)
  <2>1. ASSUME NEW w \in Items, Tells(w, x) PROVE Behind(1, x)
    <3>1. CASE w \in Coming
      BY <2>1, <3>1 DEF Behind
    <3>2. ASSUME NEW i \in Made, w = [n |-> listPosted[i].n, rooms |-> listPosted[i].rooms]
          PROVE  Behind(1, x)
      <4>1. i \in DOMAIN listPosted /\ listPosted[i].what = "update" /\ x \in DOMAIN listPosted[i].rooms
        BY <2>1, <3>2 DEF Made, Tells
      <4>2. i # 1
        BY <1>3, <1>4, <4>1
      <4>3. i > 1
        BY <1>1, <1>2, <4>1, <4>2, ListShifted
      <4> QED
        BY <4>1, <4>3 DEF Behind, Concerns
    <3> QED
      BY <2>1, <3>1, <3>2 DEF Items
  <2> QED
    BY <2>1 DEF Untold
<1>8. /\ o.ok /\ o.kind \in {"leave", "reject", "forget"} => List!Dropped(x)
      /\ o.ok /\ List!Dropped(x) => x \notin ListRooms'
      /\ \A r \in Rooms : r # x \/ ~o.ok =>
             /\ r \in ListRooms' <=> r \in ListRooms
             /\ r \in hidden' <=> r \in hidden
             /\ r \in invite' <=> r \in invite
  BY <1>2, OutcomeRows
<1>9. /\ SuccessTold'
      /\ \A r \in Rooms : Steady(r)' /\ (Success(o) => x # r) => Steady(r)
  BY <1>1, <1>5, SuccessShifted
<1>10. ASSUME NEW r \in Rooms, Steady(r)', r # x \/ ~o.ok
       PROVE  Steady(r) /\ (ShownRight(r) => ShownRight(r)')
  BY <1>1, <1>8, <1>9, <1>10 DEF ShownRight, Success
<1>11. ASSUME Steady(x)', o.ok PROVE Untold(x) /\ ShownRight(x)'
  <2>1. x \notin listNews /\ x \notin listOdd'
    BY <1>1, <1>11 DEF Steady
  <2>2. Untold(x) /\ ~Behind(1, x)
    BY <1>6, <1>7, <2>1
  <2>3. Success(o)
    BY <1>3, <1>11 DEF Success
  <2>4. Gone(o)
    BY <1>4, <2>1, <2>2, <2>3 DEF ListedInv, SuccessTold
  <2>5. o.kind \in {"leave", "reject", "forget"} /\ listMember[x] = "left"
    BY <2>4 DEF Gone
  <2>6. x \notin ListRooms' /\ listMember'[x] = "left"
    BY <1>1, <1>8, <1>11, <2>5
  <2> QED
    BY <2>2, <2>6 DEF ShownRight
<1>12. \A r \in listNews' : listMember'[r] # "none"
  BY <1>1 DEF ListedInv, ItemsFit
<1>13. ASSUME NEW r \in Rooms, Steady(r)'
       PROVE  \/ /\ Steady(r) /\ listMember'[r] = listMember[r]
                 /\ ShownRight(r) => ShownRight(r)'
              \/ Untold(r) /\ ShownRight(r)'
  <2>1. CASE r # x \/ ~o.ok
    BY <1>1, <1>10, <1>13, <2>1
  <2>2. CASE r = x /\ o.ok
    <3>1. Untold(x) /\ ShownRight(x)'
      BY <1>11, <1>13, <2>2 DEF Steady
    <3> QED
      BY <2>2, <3>1 DEF ShownRight
  <2> QED
    BY <1>3, <2>1, <2>2
<1> QED
  BY <1>1, <1>4, <1>9, <1>12, <1>13, StillListed

\* A response is applied: its rooms are shown as it says, except the hidden ones.
LEMMA AppliedRows ==
    ASSUME List!ConstantsOK, ListTypes, NEW u \in ListUpdate, List!Apply(u)
    PROVE  /\ ListRooms' = (ListRooms \ List!ToRemove(u)) \cup (List!ToUpsert(u) \ hidden)
           /\ hidden' = hidden
           /\ invite' = (invite \ DOMAIN u.rooms) \cup {r \in List!ToUpsert(u) : u.rooms[r] = "invite"}
<1> DEFINE kept == List!RemovedRooms(listRows, List!ToRemove(u))
<1>1. /\ listRows' \in List!Upserts(kept, List!ToUpsert(u)) /\ hidden' = hidden
      /\ invite' = (invite \ DOMAIN u.rooms) \cup {r \in List!ToUpsert(u) : u.rooms[r] = "invite"}
  BY DEF List!Apply
<1>2. List!ToUpsert(u) \in SUBSET Rooms /\ listRows \in Seq(Rooms)
  BY DEF List!ToUpsert, ListUpdate, ListTypes
<1>3. kept \in Seq(Rooms) /\ List!ToSet(kept) = List!ToSet(listRows) \ List!ToRemove(u)
  BY <1>2, RemovedRows, RemovedExactly
<1> HIDE DEF kept
<1>4. List!ToSet(listRows') = List!ToSet(kept) \cup (List!ToUpsert(u) \ hidden)
  BY <1>1, <1>2, <1>3, UpsertedExactly
<1> QED
  BY <1>1, <1>3, <1>4 DEF ListRooms, List!ToSet

\* Of the items about a room that is not overtaken, the last decides.
LEMMA ListedUpdate ==
    ASSUME List!ConstantsOK, ListedInv, HiddenInv', List!Deliver,
           Head(listPosted) \in ListUpdate, List!Apply(Head(listPosted))
    PROVE  ListedInv'
<1> PICK u : u = Head(listPosted) /\ u \in ListUpdate /\ List!Apply(u)
  OBVIOUS
<1> DEFINE x == [n |-> u.n, rooms |-> u.rooms]
<1>1. /\ listPosted # <<>> /\ listPosted' = Tail(listPosted)
      /\ UNCHANGED <<listMember, listNews, responses, workers, listTold>>
  BY DEF List!Deliver, List!server
<1>2. HiddenInv /\ ListTypes /\ latest \in Nat
  BY DEF ListedInv, HiddenInv
<1>3. /\ u.what = "update" /\ u.n \in Nat
      /\ \A r \in DOMAIN u.rooms : r \in Rooms /\ u.rooms[r] \in List!Memberships
  BY DEF ListUpdate
<1>4. /\ latest' = (IF u.n > latest THEN u.n ELSE latest)
      /\ listOdd' = listOdd \cup (IF u.n < latest THEN DOMAIN u.rooms ELSE {})
  BY DEF List!Apply
<1>5. /\ latest' \in Nat /\ latest' >= latest /\ latest' >= u.n
      /\ listOdd \subseteq listOdd'
      /\ \A r \in DOMAIN u.rooms : r \notin listOdd' => u.n >= latest
  BY <1>2, <1>3, <1>4
<1>6. Items = Items' \cup {x}
  <2>1. x \in {w \in {x} : u.what = "update"}
    BY <1>3
  <2> QED
    BY <1>1, <1>2, <2>1, ListShifted
<1>7. x.n = u.n /\ x.rooms = u.rooms
  OBVIOUS
<1> HIDE DEF x
<1>8. \A w \in Items : w.n \in Nat
  BY <1>2, ItemsTyped
<1>9. /\ SuccessTold'
      /\ \A r \in Rooms : Steady(r)' => Steady(r)
  <2>1. ~Success(u)
    BY <1>3 DEF Success
  <2> QED
    BY <1>1, <1>5, <2>1, SuccessShifted
<1>10. ItemsFit'
  BY <1>1, <1>6 DEF ListedInv, ItemsFit
<1>11. ASSUME NEW r \in Rooms, Steady(r)', ~Late(r)' PROVE ~Late(r)
  <2>1. r \notin listOdd'
    BY <1>11 DEF Steady
  <2>2. ASSUME NEW w \in Items, Tells(w, r), w.n < latest PROVE FALSE
    <3>1. CASE w \in Items'
      <4>1. w.n >= latest'
        BY <1>5, <1>8, <1>11, <2>2, <3>1 DEF Late, Tells
      <4> QED
        BY <1>2, <1>5, <1>8, <2>2, <4>1
    <3>2. CASE w = x
      BY <1>2, <1>3, <1>5, <1>7, <2>1, <2>2, <3>2 DEF Tells
    <3> QED
      BY <1>6, <3>1, <3>2
  <2> QED
    BY <2>2 DEF Late
<1>12. ASSUME NEW r \in Rooms, Steady(r)', ~Late(r)', NEW w \in Items', IsLast(w, r)'
       PROVE  w.rooms[r] = listMember'[r]
  <2>1. Tells(w, r) /\ \A v \in Items' : Tells(v, r) => v.n <= w.n
    BY <1>12 DEF IsLast, Tells
  <2>2. w.n >= latest'
    BY <1>5, <1>6, <1>8, <1>12, <2>1 DEF Late, Tells
  <2>3. x.n <= w.n
    BY <1>3, <1>5, <1>6, <1>7, <1>8, <2>2
  <2>4. IsLast(w, r)
    BY <1>6, <2>1, <2>3 DEF IsLast
  <2> QED
    BY <1>1, <1>6, <1>9, <1>11, <1>12, <2>4 DEF ListedInv, LastIsRight
<1>13. LastIsRight'
  BY <1>12 DEF LastIsRight
<1>14. /\ ListRooms' = (ListRooms \ List!ToRemove(u)) \cup (List!ToUpsert(u) \ hidden)
       /\ hidden' = hidden
       /\ invite' = (invite \ DOMAIN u.rooms) \cup {r \in List!ToUpsert(u) : u.rooms[r] = "invite"}
  BY <1>2, AppliedRows
<1>15. \A r : /\ r \in List!ToRemove(u) <=> r \in DOMAIN u.rooms /\ u.rooms[r] = "left"
              /\ r \in List!ToUpsert(u) <=> r \in DOMAIN u.rooms /\ u.rooms[r] \in {"join", "invite"}
  BY DEF List!ToRemove, List!ToUpsert
<1>16. ASSUME NEW r \in Rooms, Steady(r)', Untold(r)' PROVE ShownRight(r)'
  <2>1. CASE r \notin DOMAIN u.rooms
    <3>1. Untold(r)
      BY <1>6, <1>7, <1>16, <2>1 DEF Untold, Tells
    <3>2. ShownRight(r)
      BY <1>9, <1>16, <3>1 DEF ListedInv, RestIsRight
    <3> QED
      BY <1>1, <1>14, <1>15, <2>1, <3>2 DEF ShownRight
  <2>2. CASE r \in DOMAIN u.rooms
    <3>1. r \notin listOdd' /\ u.n >= latest
      BY <1>5, <1>16, <2>2 DEF Steady
    <3>2. ~Late(r)
      BY <1>11, <1>16 DEF Late, Untold, Tells
    <3>3. IsLast(x, r)
      BY <1>3, <1>6, <1>7, <1>16, <2>2 DEF IsLast, Untold, Tells
    <3>4. u.rooms[r] = listMember[r] /\ u.rooms[r] # "none"
      BY <1>6, <1>7, <1>9, <1>16, <2>2, <3>2, <3>3 DEF ListedInv, LastIsRight, ItemsFit
    <3>5. u.rooms[r] \in {"left", "join", "invite"}
      BY <1>3, <2>2, <3>4 DEF List!Memberships
    <3>6. r \in ListRooms => r \notin hidden
      BY <1>2 DEF HiddenInv, List!HiddenStaysHidden, List!ToSet, ListRooms
    <3>7. CASE listMember[r] = "left"
      BY <1>1, <1>14, <1>15, <2>2, <3>4, <3>7 DEF ShownRight
    <3>8. CASE listMember[r] \in {"join", "invite"}
      <4>1. r \in ListRooms' <=> r \notin hidden
        BY <1>14, <1>15, <2>2, <3>4, <3>6, <3>8
      <4>2. r \in invite' <=> listMember[r] = "invite"
        BY <1>14, <1>15, <2>2, <3>4, <3>8
      <4> QED
        BY <1>1, <1>14, <3>8, <4>1, <4>2 DEF ShownRight
    <3> QED
      BY <3>4, <3>5, <3>7, <3>8
  <2> QED
    BY <2>1, <2>2
<1>17. RestIsRight'
  BY <1>16 DEF RestIsRight
<1> QED
  BY <1>5, <1>9, <1>10, <1>13, <1>17 DEF ListedInv

LEMMA ListedDeliver ==
    ASSUME List!ConstantsOK, ListedInv, HiddenInv', List!Deliver PROVE ListedInv'
<1> DEFINE e == Head(listPosted)
<1>1. /\ listPosted # <<>>
      /\ \/ e.what = "update" /\ List!Apply(e)
         \/ e.what = "outcome" /\ List!Outcomes(e)
  BY DEF List!Deliver
<1>2. e \in ListOutcome \cup ListUpdate
  BY <1>1 DEF ListedInv, HiddenInv, ListTypes
<1>3. /\ e.what = "update" => e \in ListUpdate
      /\ e.what = "outcome" => e \in ListOutcome
  BY <1>2 DEF ListOutcome, ListUpdate
<1> QED
  BY <1>1, <1>3, ListedUpdate, ListedOutcome

LEMMA ListedNext ==
    List!ConstantsOK /\ ListedInv /\ [List!Next]_(List!vars) => ListedInv'
<1> SUFFICES ASSUME List!ConstantsOK, ListedInv, [List!Next]_(List!vars) PROVE ListedInv'
  OBVIOUS
<1>1. HiddenInv'
  BY ListNext DEF ListedInv
<1>2. CASE \E r \in Rooms : List!Change(r)
  BY <1>1, <1>2, ListedChange
<1>3. CASE \/ \E r \in Rooms : List!OpenRoom(r) \/ List!PickRoom(r) \/ List!Browse(r)
           \/ List!OpenSwitcher \/ List!RejectSwitcher
           \/ \E i \in DOMAIN listRows : List!OpenMenu(i)
           \/ List!DismissMenu \/ UNCHANGED List!vars
  BY <1>1, <1>3, ListedUser
<1>4. CASE List!Respond \/ List!Handle \/ List!Deliver
  BY <1>1, <1>4, ListedRespond, ListedHandle, ListedDeliver
<1>5. CASE \E w \in workers : List!Prepare(w)
  BY <1>1, <1>5, ListedPrepare
<1>6. CASE \E kind \in List!Kinds : List!Choose(kind)
  BY <1>1, <1>6, ListedChoose
<1>7. CASE \E c \in commands : List!Request(c)
  BY <1>1, <1>7, ListedRequest
<1> QED
  BY <1>2, <1>3, <1>4, <1>5, <1>6, <1>7 DEF List!Next

LEMMA QuietList == ListedInv => List!ListFollowsServer
<1> SUFFICES ASSUME ListedInv, List!Quiet, NEW r \in Rooms \ listOdd
             PROVE  /\ List!Listed(r) <=> listMember[r] \in {"join", "invite"} /\ r \notin hidden
                    /\ List!Listed(r) => (r \in invite <=> listMember[r] = "invite")
  BY DEF List!ListFollowsServer
<1>1. responses = <<>> /\ workers = {} /\ listPosted = <<>> /\ listNews = {}
  BY DEF List!Quiet
<1>2. Items = {} /\ DOMAIN listPosted = {}
  BY <1>1 DEF Items, Coming, Made
<1>3. Steady(r) /\ Untold(r)
  BY <1>1, <1>2 DEF Steady, Untold
<1>4. ShownRight(r)
  BY <1>3 DEF ListedInv, RestIsRight
<1> QED
  BY <1>4 DEF ShownRight, ListRooms, List!Listed, List!ToSet

\* When all is delivered, the list shows the rooms that the user is in or invited to, except those
\* he hid and those whose steps overtook each other (RoomListModel, SyncResponseHandler,
\* onRoomListContextMenu).
THEOREM ListIsRight == ASSUME List!ConstantsOK PROVE List!Spec => []List!ListFollowsServer
  BY ListedInit, ListedNext, QuietList, PTL DEF List!Spec

-----------------------------------------------------------------------------
(***************************************************************************)
(* The buttons of the preferences (Prefs).  A box that asks about a        *)
(* button's request, or shows the key that it made, stands over a button   *)
(* that is free, and no other box is about it: whatever the answer, the    *)
(* request that begins is the only one of its button.                      *)
(***************************************************************************)
AskingKinds == {"ask", "uia", "key", "written"}

\* Only a click asks on behalf of a file's button.
ButtonBox == {d \in Preferences!Box : d.kind \in {"uia", "key", "written"} => d.btn \in Preferences!Buttons}

PrefTypes ==
    /\ busy \subseteq Preferences!Buttons /\ created \in Nat
    /\ prefJobs \subseteq Preferences!Request
    /\ prefPosted \in Seq(Preferences!Answer) /\ prefBoxes \in Seq(ButtonBox)

OneRequest(b) ==
    /\ b \in busy <=> Preferences!Pending(b) # {} \/ Preferences!Waiting(b) # {}
    /\ Preferences!Pending(b) # {} => Preferences!Waiting(b) = {}
    /\ \A i, k \in Preferences!Waiting(b) : i = k
    /\ \A j, k \in Preferences!Pending(b) : j = k

BoxesWait ==
    /\ \A k \in DOMAIN prefBoxes : prefBoxes[k].kind \in AskingKinds => prefBoxes[k].btn \notin busy
    /\ \A k, l \in DOMAIN prefBoxes :
           prefBoxes[k].kind \in AskingKinds /\ prefBoxes[l].kind \in AskingKinds
           /\ prefBoxes[k].btn = prefBoxes[l].btn => k = l

ButtonsFit == prefShown => BoxesWait /\ \A b \in Preferences!Buttons : OneRequest(b)

PrefInv == PrefTypes /\ ButtonsFit

LEMMA PrefInit == Preferences!Init => PrefInv
<1> SUFFICES ASSUME Preferences!Init PROVE PrefInv
  OBVIOUS
<1>1. /\ busy = {} /\ created \in Nat /\ prefJobs = {[kind |-> "devices"]} /\ prefPosted = <<>>
      /\ prefBoxes = <<>>
  BY DEF Preferences!Init
<1>2. \A b : Preferences!Pending(b) = {} /\ Preferences!Waiting(b) = {}
  BY <1>1 DEF Preferences!Pending, Preferences!Waiting
<1>3. PrefTypes
  BY <1>1 DEF PrefTypes, Preferences!Request
<1> QED
  BY <1>1, <1>2, <1>3 DEF PrefInv, ButtonsFit, BoxesWait, OneRequest

\* Nothing moves between the dialog, its workers and its answers.
LEMMA SameRequests ==
    ASSUME UNCHANGED <<busy, prefJobs, prefPosted>>, NEW b, OneRequest(b)
    PROVE  OneRequest(b)'
  BY DEF OneRequest, Preferences!Pending, Preferences!Waiting

\* A free button's request begins.
LEMMA RequestBegins ==
    ASSUME PrefTypes, NEW c \in Preferences!Buttons, c \notin busy, OneRequest(c),
           NEW kind \in {"run", "password", "upload"},
           busy' = busy \cup {c}, prefJobs' = prefJobs \cup {[kind |-> kind, btn |-> c]},
           prefPosted' = prefPosted, NEW b, OneRequest(b)
    PROVE  OneRequest(b)' /\ prefJobs' \subseteq Preferences!Request
<1> DEFINE new == [kind |-> kind, btn |-> c]
<1>1. /\ new \in Preferences!Request /\ new.kind # "devices" /\ new.btn = c
  BY DEF Preferences!Request
<1> HIDE DEF new
<1>2. prefJobs' = prefJobs \cup {new}
  BY DEF new
<1>3. Preferences!Waiting(b)' = Preferences!Waiting(b)
  BY DEF Preferences!Waiting
<1>4. CASE b = c
  <2>1. Preferences!Pending(b) = {} /\ Preferences!Waiting(b) = {}
    BY <1>4 DEF OneRequest
  <2>2. Preferences!Pending(b)' = {new}
    BY <1>1, <1>2, <1>4, <2>1 DEF Preferences!Pending
  <2> QED
    BY <1>1, <1>2, <1>3, <1>4, <2>1, <2>2 DEF OneRequest, PrefTypes
<1>5. CASE b # c
  <2>1. Preferences!Pending(b)' = Preferences!Pending(b)
    BY <1>1, <1>2, <1>5 DEF Preferences!Pending
  <2> QED
    BY <1>1, <1>2, <1>3, <1>5, <2>1 DEF OneRequest, PrefTypes
<1> QED
  BY <1>4, <1>5

\* A request ends, its answer is posted somewhere in the queue.
LEMMA RequestEnds ==
    ASSUME PrefTypes, NEW j \in prefJobs, prefJobs' = prefJobs \ {j}, busy' = busy,
           NEW k \in 1..(Len(prefPosted) + 1), NEW a \in Preferences!Answer, a.job = j,
           prefPosted' = InsertAt(prefPosted, k, a), NEW b, OneRequest(b)
    PROVE  OneRequest(b)'
<1>1. /\ prefPosted \in Seq(Preferences!Answer) /\ Len(prefPosted) \in Nat
      /\ DOMAIN prefPosted = 1..Len(prefPosted)
  BY LenProperties DEF PrefTypes
<1>2. /\ DOMAIN prefPosted' = 1..(Len(prefPosted) + 1) /\ prefPosted'[k] = a
      /\ \A l \in 1..(Len(prefPosted) + 1) : l # k =>
             prefPosted'[l] = IF l < k THEN prefPosted[l] ELSE prefPosted[l - 1]
  <2> DEFINE S == Preferences!Answer
  <2>1. prefPosted \in Seq(S) /\ a \in S
    BY <1>1
  <2> HIDE DEF S
  <2>2. /\ DOMAIN InsertAt(prefPosted, k, a) = 1..(Len(prefPosted) + 1)
        /\ InsertAt(prefPosted, k, a)[k] = a
    BY <2>1, InsertAtProperties
  <2>3. ASSUME NEW l \in 1..(Len(prefPosted) + 1), l # k
        PROVE  InsertAt(prefPosted, k, a)[l] = IF l < k THEN prefPosted[l] ELSE prefPosted[l - 1]
    BY <2>1, <2>3, InsertAtElements
  <2> QED
    BY <2>2, <2>3
<1> DEFINE at(l)  == IF l < k THEN l ELSE l + 1
           was(l) == IF l < k THEN l ELSE l - 1
<1>3. /\ \A l \in 1..Len(prefPosted) : prefPosted'[at(l)] = prefPosted[l]
      /\ \A l \in 1..(Len(prefPosted) + 1) : l # k =>
             was(l) \in 1..Len(prefPosted) /\ prefPosted'[l] = prefPosted[was(l)]
  BY <1>1, <1>2
<1>4. \A l, m \in 1..(Len(prefPosted) + 1) : l # k /\ m # k /\ was(l) = was(m) => l = m
  BY <1>1
<1>5. \A l \in 1..Len(prefPosted) : at(l) \in 1..(Len(prefPosted) + 1) /\ at(l) # k
  BY <1>1
<1> HIDE DEF at, was
<1>6. CASE j.kind # "devices" /\ j.btn = b
  <2>1. j \in Preferences!Pending(b) /\ \A m \in Preferences!Pending(b) : m = j
    BY <1>6 DEF OneRequest, Preferences!Pending
  <2>2. Preferences!Waiting(b) = {} /\ b \in busy
    BY <2>1 DEF OneRequest
  <2>3. Preferences!Pending(b)' = {}
    BY <2>1 DEF Preferences!Pending
  <2>4. k \in Preferences!Waiting(b)'
    BY <1>2, <1>6 DEF Preferences!Waiting
  <2>5. ASSUME NEW l \in Preferences!Waiting(b)', l # k PROVE FALSE
    <3>1. l \in 1..(Len(prefPosted) + 1) /\ prefPosted'[l].job.kind # "devices" /\ prefPosted'[l].job.btn = b
      BY <1>2, <2>5 DEF Preferences!Waiting
    <3>2. was(l) \in DOMAIN prefPosted /\ prefPosted'[l] = prefPosted[was(l)]
      BY <1>1, <1>3, <2>5, <3>1
    <3>3. was(l) \in Preferences!Waiting(b)
      BY <3>1, <3>2 DEF Preferences!Waiting
    <3> QED
      BY <2>2, <3>3
  <2> QED
    BY <2>2, <2>3, <2>4, <2>5 DEF OneRequest
<1>7. CASE ~(j.kind # "devices" /\ j.btn = b)
  <2>1. Preferences!Pending(b)' = Preferences!Pending(b)
    BY <1>7 DEF Preferences!Pending
  <2>2. \A l \in Preferences!Waiting(b)' : l # k /\ was(l) \in Preferences!Waiting(b)
    BY <1>1, <1>2, <1>3, <1>7 DEF Preferences!Waiting
  <2>3. \A l \in Preferences!Waiting(b) : at(l) \in Preferences!Waiting(b)'
    BY <1>1, <1>2, <1>3, <1>5 DEF Preferences!Waiting
  <2>4. \A l, m \in Preferences!Waiting(b)' : l = m
    <3>1. \A l \in Preferences!Waiting(b)' : l \in 1..(Len(prefPosted) + 1)
      BY <1>2 DEF Preferences!Waiting
    <3> QED
      BY <1>4, <2>2, <3>1 DEF OneRequest
  <2>5. Preferences!Waiting(b)' = {} <=> Preferences!Waiting(b) = {}
    BY <2>2, <2>3
  <2> QED
    BY <2>1, <2>4, <2>5 DEF OneRequest
<1> QED
  BY <1>6, <1>7

\* The first answer is taken, and its button is free again.
LEMMA AnswerTaken ==
    ASSUME PrefTypes, prefPosted # <<>>, prefPosted' = Tail(prefPosted), prefJobs' = prefJobs,
           NEW a, a = Head(prefPosted),
           busy' = IF a.job.kind = "devices" THEN busy ELSE busy \ {a.job.btn},
           NEW b, OneRequest(b)
    PROVE  OneRequest(b)'
<1>1. /\ prefPosted \in Seq(Preferences!Answer) /\ Len(prefPosted) \in Nat \ {0}
      /\ DOMAIN prefPosted = 1..Len(prefPosted) /\ a = prefPosted[1]
      /\ DOMAIN prefPosted' = 1..(Len(prefPosted) - 1)
      /\ \A l \in 1..(Len(prefPosted) - 1) : prefPosted'[l] = prefPosted[l + 1]
  BY DEF PrefTypes
<1>2. Preferences!Pending(b)' = Preferences!Pending(b)
  BY DEF Preferences!Pending
<1>3. \A l \in Preferences!Waiting(b)' : l \in Nat \ {0} /\ l + 1 \in Preferences!Waiting(b)
  BY <1>1 DEF Preferences!Waiting
<1>4. CASE a.job.kind # "devices" /\ a.job.btn = b
  <2>1. 1 \in Preferences!Waiting(b)
    BY <1>1, <1>4 DEF Preferences!Waiting
  <2>2. Preferences!Waiting(b)' = {} /\ Preferences!Pending(b) = {}
    BY <1>3, <2>1 DEF OneRequest
  <2> QED
    BY <1>2, <1>4, <2>2 DEF OneRequest
<1>5. CASE ~(a.job.kind # "devices" /\ a.job.btn = b)
  <2>1. \A l \in Preferences!Waiting(b) : l \in Nat /\ l # 1 /\ l - 1 \in Preferences!Waiting(b)'
    BY <1>1, <1>5 DEF Preferences!Waiting
  <2>2. Preferences!Waiting(b)' = {} <=> Preferences!Waiting(b) = {}
    BY <1>3, <2>1
  <2>3. \A l, m \in Preferences!Waiting(b)' : l = m
    BY <1>3 DEF OneRequest
  <2>4. b \in busy' <=> b \in busy
    BY <1>5
  <2> QED
    BY <1>2, <2>2, <2>3, <2>4 DEF OneRequest
<1> QED
  BY <1>4, <1>5

\* The boxes but for the innermost, and a new one.
LEMMA FrontBoxes ==
    ASSUME PrefTypes, prefBoxes # <<>>
    PROVE  /\ Preferences!Front(prefBoxes) \in Seq(ButtonBox)
           /\ Len(prefBoxes) \in DOMAIN prefBoxes
           /\ Preferences!Innermost = prefBoxes[Len(prefBoxes)]
           /\ Preferences!Innermost \in ButtonBox
           /\ \A k \in DOMAIN Preferences!Front(prefBoxes) :
                  /\ k \in DOMAIN prefBoxes /\ k # Len(prefBoxes)
                  /\ Preferences!Front(prefBoxes)[k] = prefBoxes[k]
<1>1. /\ prefBoxes \in Seq(ButtonBox) /\ Len(prefBoxes) \in Nat \ {0}
      /\ DOMAIN prefBoxes = 1..Len(prefBoxes)
      /\ \A k \in 1..Len(prefBoxes) : prefBoxes[k] \in ButtonBox
  BY DEF PrefTypes
<1>2. Preferences!Front(prefBoxes) = SubSeq(prefBoxes, 1, Len(prefBoxes) - 1)
  BY DEF Preferences!Front
<1>3. /\ Preferences!Front(prefBoxes) \in Seq(ButtonBox)
      /\ DOMAIN Preferences!Front(prefBoxes) = 1..(Len(prefBoxes) - 1)
      /\ \A k \in 1..(Len(prefBoxes) - 1) : Preferences!Front(prefBoxes)[k] = prefBoxes[k]
  BY <1>1, <1>2
<1>4. Preferences!Innermost = prefBoxes[Len(prefBoxes)]
  BY DEF Preferences!Innermost, Preferences!Last
<1> QED
  BY <1>1, <1>3, <1>4

LEMMA BoxOpens ==
    ASSUME NEW S, NEW s \in Seq(S), NEW d \in S, NEW t, t = Append(s, d)
    PROVE  /\ t \in Seq(S) /\ DOMAIN t = 1..(Len(s) + 1) /\ t[Len(s) + 1] = d
           /\ DOMAIN s = 1..Len(s) /\ Len(s) \in Nat
           /\ \A k \in DOMAIN s : t[k] = s[k]
  OBVIOUS

\* An innermost box closes, and its button may become busy.
LEMMA BoxCloses ==
    ASSUME PrefTypes, BoxesWait, prefBoxes # <<>>, prefBoxes' = Preferences!Front(prefBoxes),
           \/ busy' = busy
           \/ /\ Preferences!Innermost.kind \in AskingKinds
              /\ busy' = busy \cup {Preferences!Innermost.btn}
    PROVE  BoxesWait' /\ prefBoxes' \in Seq(ButtonBox)
  BY FrontBoxes DEF BoxesWait

\* A box opens over these, of another kind, or about a button no other box is about.
LEMMA BoxAdded ==
    ASSUME NEW s \in Seq(ButtonBox), NEW box1 \in ButtonBox,
           prefBoxes' = Append(s, box1), busy' \subseteq busy,
           \A k \in DOMAIN s : s[k].kind \in AskingKinds => s[k].btn \notin busy,
           \A k, l \in DOMAIN s :
               s[k].kind \in AskingKinds /\ s[l].kind \in AskingKinds /\ s[k].btn = s[l].btn => k = l,
           box1.kind \in AskingKinds =>
               /\ box1.btn \notin busy'
               /\ \A k \in DOMAIN s : s[k].kind \in AskingKinds => s[k].btn # box1.btn
    PROVE  BoxesWait' /\ prefBoxes' \in Seq(ButtonBox)
<1>1. /\ prefBoxes' \in Seq(ButtonBox) /\ DOMAIN prefBoxes' = 1..(Len(s) + 1)
      /\ prefBoxes'[Len(s) + 1] = box1 /\ DOMAIN s = 1..Len(s) /\ Len(s) \in Nat
      /\ \A k \in DOMAIN s : prefBoxes'[k] = s[k]
  BY BoxOpens
<1>2. \A k \in DOMAIN prefBoxes' : k = Len(s) + 1 \/ (k \in DOMAIN s /\ prefBoxes'[k] = s[k])
  BY <1>1
<1>3. ASSUME NEW k \in DOMAIN prefBoxes', prefBoxes'[k].kind \in AskingKinds
      PROVE  prefBoxes'[k].btn \notin busy'
  BY <1>1, <1>2, <1>3
<1>4. ASSUME NEW k \in DOMAIN prefBoxes', NEW l \in DOMAIN prefBoxes',
             prefBoxes'[k].kind \in AskingKinds, prefBoxes'[l].kind \in AskingKinds,
             prefBoxes'[k].btn = prefBoxes'[l].btn
      PROVE  k = l
  BY <1>1, <1>2, <1>4
<1> QED
  BY <1>1, <1>3, <1>4 DEF BoxesWait

\* A click on a button, on "Export" or "Import": no box is open.
LEMMA PrefClicked ==
    ASSUME PrefInv, NEW b \in Preferences!Buttons, Preferences!OnClicked(b)
    PROVE  PrefInv'
<1>1. /\ prefShown /\ prefBoxes = <<>> /\ b \notin busy /\ prefShown' = prefShown
      /\ prefPosted' = prefPosted /\ created' = created
  BY DEF Preferences!OnClicked, Preferences!Usable, Preferences!server, Preferences!form
<1>2. PrefTypes /\ BoxesWait /\ \A c \in Preferences!Buttons : OneRequest(c)
  BY <1>1 DEF PrefInv, ButtonsFit
<1>3. CASE Preferences!RunAsync("run", b, prefBoxes)
  <2>1. /\ busy' = busy \cup {b} /\ prefJobs' = prefJobs \cup {[kind |-> "run", btn |-> b]}
        /\ prefBoxes' = <<>>
    BY <1>1, <1>3 DEF Preferences!RunAsync
  <2>2. \A c \in Preferences!Buttons : OneRequest(c)' /\ prefJobs' \subseteq Preferences!Request
    BY <1>1, <1>2, <2>1, RequestBegins
  <2> QED
    BY <1>1, <1>2, <2>1, <2>2 DEF PrefInv, PrefTypes, ButtonsFit, BoxesWait
<1>4. CASE Preferences!Open("ask", b) /\ UNCHANGED <<busy, prefJobs>>
  <2> DEFINE new == [kind |-> "ask", btn |-> b]
  <2>1. prefBoxes' = <<new>> /\ new \in ButtonBox /\ new.btn = b
    BY <1>1, <1>4 DEF Preferences!Open, ButtonBox, Preferences!Box
  <2> HIDE DEF new
  <2>2. BoxesWait' /\ prefBoxes' \in Seq(ButtonBox)
    BY <1>1, <1>4, <2>1 DEF BoxesWait
  <2>3. \A c \in Preferences!Buttons : OneRequest(c)'
    BY <1>1, <1>2, <1>4, SameRequests
  <2> QED
    BY <1>1, <1>2, <1>4, <2>2, <2>3 DEF PrefInv, PrefTypes, ButtonsFit
<1> QED
  BY <1>3, <1>4 DEF Preferences!OnClicked

LEMMA PrefFileClicked ==
    ASSUME PrefInv, NEW f \in Preferences!FileButtons, Preferences!OnFileClicked(f)
    PROVE  PrefInv'
<1> DEFINE new == [kind |-> "ask", btn |-> f]
<1>1. /\ prefShown /\ prefBoxes = <<>> /\ prefBoxes' = <<new>>
      /\ UNCHANGED <<busy, prefJobs, prefPosted, created, prefShown>>
  BY DEF Preferences!OnFileClicked, Preferences!Usable, Preferences!server, Preferences!form,
         Preferences!Open
<1>2. PrefTypes /\ BoxesWait /\ \A c \in Preferences!Buttons : OneRequest(c)
  BY <1>1 DEF PrefInv, ButtonsFit
<1>3. new \in ButtonBox /\ new.btn = f
  BY DEF ButtonBox, Preferences!Box
<1>4. f \notin busy
  BY <1>2 DEF PrefTypes, Preferences!Buttons, Preferences!FileButtons, Preferences!Security,
              Preferences!Backups, Preferences!Secrets
<1> HIDE DEF new
<1>5. BoxesWait' /\ prefBoxes' \in Seq(ButtonBox)
  BY <1>1, <1>3, <1>4 DEF BoxesWait
<1>6. \A c \in Preferences!Buttons : OneRequest(c)'
  BY <1>1, <1>2, SameRequests
<1> QED
  BY <1>1, <1>2, <1>5, <1>6 DEF PrefInv, PrefTypes, ButtonsFit

\* An innermost box is answered.
LEMMA PrefConfirm == PrefInv /\ Preferences!Confirm => PrefInv'
<1> SUFFICES ASSUME PrefInv, Preferences!Confirm PROVE PrefInv'
  OBVIOUS
<1> DEFINE last == Preferences!Innermost
           b    == last.btn
<1>1. /\ prefBoxes # <<>> /\ UNCHANGED <<prefPosted, created, prefShown>> /\ PrefTypes
  BY DEF Preferences!Confirm, Preferences!server, Preferences!form, PrefInv
<1>2. last \in ButtonBox /\ Preferences!Front(prefBoxes) \in Seq(ButtonBox)
  BY <1>1, FrontBoxes
<1>3. prefShown => b \notin busy \/ last.kind \notin AskingKinds
  BY <1>1, FrontBoxes DEF PrefInv, ButtonsFit, BoxesWait
<1>4. ASSUME NEW kind \in {"run", "password", "upload"}, b \in Preferences!Buttons,
             last.kind \in AskingKinds, Preferences!RunAsync(kind, b, Preferences!Front(prefBoxes))
      PROVE  PrefInv'
  <2>1. /\ busy' = busy \cup {b} /\ prefJobs' = prefJobs \cup {[kind |-> kind, btn |-> b]}
        /\ prefBoxes' = Preferences!Front(prefBoxes)
    BY <1>4 DEF Preferences!RunAsync
  <2>2. [kind |-> kind, btn |-> b] \in Preferences!Request
    BY <1>4 DEF Preferences!Request
  <2>3. PrefTypes'
    BY <1>1, <1>2, <1>4, <2>1, <2>2 DEF PrefTypes
  <2>4. ASSUME prefShown PROVE BoxesWait' /\ \A c \in Preferences!Buttons : OneRequest(c)'
    <3>1. BoxesWait /\ b \notin busy /\ \A c \in Preferences!Buttons : OneRequest(c)
      BY <1>3, <1>4, <2>4 DEF PrefInv, ButtonsFit
    <3>2. BoxesWait'
      BY <1>1, <1>4, <2>1, <3>1, BoxCloses
    <3> HIDE DEF b
    <3>3. ASSUME NEW c \in Preferences!Buttons PROVE OneRequest(c)'
      BY <1>1, <1>4, <2>1, <3>1, RequestBegins
    <3> QED
      BY <3>2, <3>3
  <2> QED
    BY <1>1, <2>3, <2>4 DEF PrefInv, ButtonsFit
<1>5. ASSUME NEW kind \in {"told", "written"}, kind = "written" => last.kind = "key",
             prefBoxes' = Append(Preferences!Front(prefBoxes), [kind |-> kind, btn |-> b]),
             UNCHANGED <<busy, prefJobs>>
      PROVE  PrefInv'
  <2> DEFINE new == [kind |-> kind, btn |-> b]
             front == Preferences!Front(prefBoxes)
  <2>1. /\ new \in ButtonBox /\ new.btn = b
        /\ new.kind \in AskingKinds => last.kind \in AskingKinds
    BY <1>2, <1>5 DEF ButtonBox, Preferences!Box, AskingKinds
  <2>2. /\ front \in Seq(ButtonBox)
        /\ \A k \in DOMAIN front : /\ k \in DOMAIN prefBoxes /\ k # Len(prefBoxes)
                                    /\ front[k] = prefBoxes[k]
        /\ Len(prefBoxes) \in DOMAIN prefBoxes /\ last = prefBoxes[Len(prefBoxes)]
    BY <1>1, FrontBoxes
  <2>3. prefBoxes' = Append(front, new)
    BY <1>5
  <2> HIDE DEF new, front, last
  <2>4. prefBoxes' \in Seq(ButtonBox)
    BY <2>1, <2>2, <2>3
  <2>5. ASSUME prefShown PROVE BoxesWait'
    <3>1. BoxesWait
      BY <2>5 DEF PrefInv, ButtonsFit
    <3>2. /\ \A k \in DOMAIN front : front[k].kind \in AskingKinds => front[k].btn \notin busy
          /\ \A k, l \in DOMAIN front :
                 front[k].kind \in AskingKinds /\ front[l].kind \in AskingKinds
                 /\ front[k].btn = front[l].btn => k = l
      BY <2>2, <3>1 DEF BoxesWait
    <3>3. new.kind \in AskingKinds =>
              /\ new.btn \notin busy'
              /\ \A k \in DOMAIN front : front[k].kind \in AskingKinds => front[k].btn # new.btn
      BY <1>5, <2>1, <2>2, <3>1 DEF BoxesWait
    <3> QED
      BY <1>5, <2>1, <2>2, <2>3, <3>2, <3>3, BoxAdded
  <2>6. prefShown => \A c \in Preferences!Buttons : OneRequest(c)'
    BY <1>1, <1>5, SameRequests DEF PrefInv, ButtonsFit
  <2> QED
    BY <1>1, <1>5, <2>4, <2>5, <2>6 DEF PrefInv, PrefTypes, ButtonsFit
<1>6. last.kind \in {"uia", "key", "written"} => b \in Preferences!Buttons
  BY <1>2 DEF ButtonBox
<1>7. CASE last.kind = "ask" /\ b \in Preferences!Buttons
           /\ Preferences!RunAsync("run", b, Preferences!Front(prefBoxes))
  BY <1>4, <1>7 DEF AskingKinds
<1>8. CASE /\ prefBoxes' = Append(Preferences!Front(prefBoxes), [kind |-> "told", btn |-> b])
           /\ UNCHANGED <<busy, prefJobs>>
  BY <1>5, <1>8
<1>9. CASE last.kind = "uia" /\ Preferences!RunAsync("password", b, Preferences!Front(prefBoxes))
  BY <1>4, <1>6, <1>9 DEF AskingKinds
<1>10. CASE /\ last.kind = "key"
            /\ prefBoxes' = Append(Preferences!Front(prefBoxes), [kind |-> "written", btn |-> b])
            /\ UNCHANGED <<busy, prefJobs>>
  BY <1>5, <1>10
<1>11. CASE last.kind = "written" /\ Preferences!RunAsync("upload", b, Preferences!Front(prefBoxes))
  BY <1>4, <1>6, <1>11 DEF AskingKinds
<1> QED
  BY <1>7, <1>8, <1>9, <1>10, <1>11 DEF Preferences!Confirm

\* It is dismissed.
LEMMA PrefDismiss == PrefInv /\ Preferences!Dismiss => PrefInv'
<1> SUFFICES ASSUME PrefInv, Preferences!Dismiss PROVE PrefInv'
  OBVIOUS
<1>1. /\ prefBoxes # <<>> /\ prefBoxes' = Preferences!Front(prefBoxes) /\ PrefTypes
      /\ UNCHANGED <<busy, prefJobs, prefPosted, created, prefShown>>
  BY DEF Preferences!Dismiss, Preferences!server, Preferences!form, PrefInv
<1>2. prefBoxes' \in Seq(ButtonBox)
  BY <1>1, FrontBoxes
<1>3. prefShown => BoxesWait'
  BY <1>1, BoxCloses DEF PrefInv, ButtonsFit
<1>4. prefShown => \A c \in Preferences!Buttons : OneRequest(c)'
  BY <1>1, SameRequests DEF PrefInv, ButtonsFit
<1> QED
  BY <1>1, <1>2, <1>3, <1>4 DEF PrefInv, PrefTypes, ButtonsFit

\* The form is filled in, or the dialog left.
LEMMA PrefForm ==
    ASSUME PrefInv, \/ Preferences!Edit \/ Preferences!OnSave \/ Preferences!Cancel
                    \/ \E d \in Devices : Preferences!OnVerifyClicked(d)
    PROVE  PrefInv'
<1>1. UNCHANGED <<busy, prefJobs, prefBoxes, created>>
  BY DEF Preferences!Edit, Preferences!OnSave, Preferences!Cancel, Preferences!OnVerifyClicked,
         Preferences!server
<1>2. CASE UNCHANGED <<prefPosted, prefShown>>
  <2>1. prefShown => \A c \in Preferences!Buttons : OneRequest(c)'
    BY <1>1, <1>2, SameRequests DEF PrefInv, ButtonsFit
  <2> QED
    BY <1>1, <1>2, <2>1 DEF PrefInv, PrefTypes, ButtonsFit, BoxesWait
<1>3. CASE prefPosted' = <<>> /\ ~prefShown'
  BY <1>1, <1>3 DEF PrefInv, PrefTypes, ButtonsFit
<1> QED
  BY <1>2, <1>3 DEF Preferences!Edit, Preferences!OnSave, Preferences!Cancel,
                    Preferences!OnVerifyClicked, Preferences!Leave

\* A worker ends.
LEMMA PrefWork == ASSUME PrefInv, NEW j \in prefJobs, Preferences!Work(j) PROVE PrefInv'
<1>1. PrefTypes /\ j \in Preferences!Request
  BY DEF PrefInv, PrefTypes
<1>2. prefJobs' = prefJobs \ {j} /\ UNCHANGED <<busy, prefBoxes, prefShown>>
  BY DEF Preferences!Work, Preferences!form
<1>3. created' \in Nat
  <2>1. created \in Nat
    BY <1>1 DEF PrefTypes
  <2>2. created' = created \/ created' = created + 1
    BY DEF Preferences!Work, Preferences!Effect, Preferences!server
  <2> QED
    BY <2>1, <2>2
<1>4. CASE ~prefShown
  BY <1>1, <1>2, <1>3, <1>4 DEF PrefInv, PrefTypes, ButtonsFit, Preferences!Work
<1>5. CASE prefShown
  <2>1. PICK ok \in BOOLEAN, k \in 1..(Len(prefPosted) + 1) :
            prefPosted' = Preferences!InsertAt(prefPosted, k, [job |-> j, ok |-> ok, key |-> created'])
    BY <1>5 DEF Preferences!Work
  <2> DEFINE a == [job |-> j, ok |-> ok, key |-> created']
  <2>2. a \in Preferences!Answer /\ a.job = j
    BY <1>1, <1>3 DEF Preferences!Answer
  <2>3. prefPosted' = InsertAt(prefPosted, k, a)
    BY <2>1 DEF Preferences!InsertAt, InsertAt
  <2> HIDE DEF a
  <2>4. ASSUME NEW c \in Preferences!Buttons PROVE OneRequest(c)'
    BY <1>1, <1>2, <1>5, <2>2, <2>3, RequestEnds DEF PrefInv, ButtonsFit
  <2>5. prefPosted' \in Seq(Preferences!Answer)
    <3> DEFINE S == Preferences!Answer
    <3>1. prefPosted \in Seq(S) /\ a \in S
      BY <1>1, <2>2 DEF PrefTypes
    <3> HIDE DEF S
    <3>2. InsertAt(prefPosted, k, a) \in Seq(S)
      BY <3>1, InsertAtProperties
    <3> QED
      BY <2>3, <3>2 DEF S
  <2> QED
    BY <1>1, <1>2, <1>3, <1>5, <2>4, <2>5 DEF PrefInv, PrefTypes, ButtonsFit, BoxesWait
<1> QED
  BY <1>4, <1>5

\* An answer opens a box about its button, which no other box is about, or none.
LEMMA PrefDeliver == PrefInv /\ Preferences!Deliver => PrefInv'
<1> SUFFICES ASSUME PrefInv, Preferences!Deliver PROVE PrefInv'
  OBVIOUS
<1> DEFINE a == Head(prefPosted)
<1>1. /\ prefPosted # <<>> /\ prefPosted' = Tail(prefPosted) /\ PrefTypes
      /\ UNCHANGED <<prefJobs, created, prefShown>>
  BY DEF Preferences!Deliver, Preferences!server, Preferences!form, PrefInv
<1>2. a \in Preferences!Answer /\ prefPosted' \in Seq(Preferences!Answer)
  BY <1>1 DEF PrefTypes
<1>3. a.job \in Preferences!Request /\ (a.job.kind # "devices" => a.job.btn \in Preferences!Buttons)
  BY <1>2 DEF Preferences!Answer, Preferences!Request
<1>4. busy' = IF a.job.kind = "devices" THEN busy ELSE busy \ {a.job.btn}
  BY DEF Preferences!Deliver, Preferences!Enable, Preferences!OnDevices
<1>5. prefShown => \A c \in Preferences!Buttons : OneRequest(c)'
  BY <1>1, <1>4, AnswerTaken DEF PrefInv, ButtonsFit
<1>6. busy' \subseteq busy
  BY <1>4
<1>7. \/ prefBoxes' = prefBoxes
      \/ /\ a.job.kind # "devices"
         /\ \E kind \in {"uia", "key", "told"} :
                prefBoxes' = Append(prefBoxes, [kind |-> kind, btn |-> a.job.btn])
  BY DEF Preferences!Deliver, Preferences!OnDevices, Preferences!OnSecurityDone,
         Preferences!OnPasswordDone, Preferences!OnCreated, Preferences!OnBackupDone,
         Preferences!Open
<1>8. CASE prefBoxes' = prefBoxes
  BY <1>1, <1>2, <1>5, <1>6, <1>8 DEF PrefInv, PrefTypes, ButtonsFit, BoxesWait
<1>9. ASSUME a.job.kind # "devices", NEW kind \in {"uia", "key", "told"},
             prefBoxes' = Append(prefBoxes, [kind |-> kind, btn |-> a.job.btn])
      PROVE  PrefInv'
  <2> DEFINE new == [kind |-> kind, btn |-> a.job.btn]
  <2>1. new \in ButtonBox /\ new.btn = a.job.btn
    BY <1>3, <1>9 DEF ButtonBox, Preferences!Box
  <2>2. prefBoxes \in Seq(ButtonBox) /\ prefBoxes' = Append(prefBoxes, new)
    BY <1>1, <1>9 DEF PrefTypes
  <2> HIDE DEF new
  <2>3. prefBoxes' \in Seq(ButtonBox)
    BY <2>1, <2>2
  <2>4. ASSUME prefShown PROVE BoxesWait'
    <3>1. BoxesWait /\ OneRequest(a.job.btn)
      BY <1>3, <1>9, <2>4 DEF PrefInv, ButtonsFit
    <3>2. 1 \in Preferences!Waiting(a.job.btn)
      BY <1>1, <1>9 DEF Preferences!Waiting, PrefTypes
    <3>3. a.job.btn \in busy /\ a.job.btn \notin busy'
      BY <1>4, <1>9, <3>1, <3>2 DEF OneRequest
    <3>4. \A k \in DOMAIN prefBoxes : prefBoxes[k].kind \in AskingKinds => prefBoxes[k].btn # new.btn
      BY <2>1, <3>1, <3>3 DEF BoxesWait
    <3>5. /\ \A k \in DOMAIN prefBoxes : prefBoxes[k].kind \in AskingKinds => prefBoxes[k].btn \notin busy
          /\ \A k, l \in DOMAIN prefBoxes :
                 prefBoxes[k].kind \in AskingKinds /\ prefBoxes[l].kind \in AskingKinds
                 /\ prefBoxes[k].btn = prefBoxes[l].btn => k = l
      BY <3>1 DEF BoxesWait
    <3> QED
      BY <1>6, <2>1, <2>2, <3>3, <3>4, <3>5, BoxAdded
  <2> QED
    BY <1>1, <1>2, <1>5, <1>6, <2>3, <2>4 DEF PrefInv, PrefTypes, ButtonsFit
<1> QED
  BY <1>7, <1>8, <1>9

LEMMA PrefStep == PrefInv /\ [Preferences!Next]_(Preferences!vars) => PrefInv'
<1> SUFFICES ASSUME PrefInv, [Preferences!Next]_(Preferences!vars) PROVE PrefInv'
  OBVIOUS
<1>1. CASE UNCHANGED Preferences!vars
  <2>1. UNCHANGED <<busy, prefJobs, prefPosted, prefBoxes, created, prefShown>>
    BY <1>1 DEF Preferences!vars
  <2>2. prefShown => \A c \in Preferences!Buttons : OneRequest(c)'
    BY <2>1, SameRequests DEF PrefInv, ButtonsFit
  <2> QED
    BY <2>1, <2>2 DEF PrefInv, PrefTypes, ButtonsFit, BoxesWait
<1> QED
  BY <1>1, PrefClicked, PrefFileClicked, PrefConfirm, PrefDismiss, PrefForm, PrefWork, PrefDeliver
  DEF Preferences!Next

(***************************************************************************)
(* A button of the preferences is disabled exactly while its request, one  *)
(* only, is under way or its answer waits: no outcome leaves it disabled   *)
(* and none lets it be pressed twice.                                      *)
(***************************************************************************)
THEOREM ButtonsFreed == Preferences!Spec => []Preferences!BusyIffUnderWay
<1>1. PrefInv => Preferences!BusyIffUnderWay
  BY DEF PrefInv, ButtonsFit, OneRequest, Preferences!BusyIffUnderWay
<1> QED
  BY <1>1, PrefInit, PrefStep, PTL DEF Preferences!Spec

-----------------------------------------------------------------------------
(***************************************************************************)
(* The label of the key backup.  Of the buttons about the backup at most   *)
(* one is busy while the user is calm, and where the label is not right    *)
(* now, an answer or a box is about to put it right.                       *)
(***************************************************************************)
Answered == {prefPosted[i] : i \in DOMAIN prefPosted}
Standing == {prefBoxes[k] : k \in DOMAIN prefBoxes}

\* What belongs to which button; a click asks when no box is open.
JobBelongs(j) == /\ j.kind = "upload" => j.btn = "create"
                 /\ j.kind = "password" => j.btn \in Preferences!Security
BoxBelongs(d) == /\ d.kind \in {"key", "written"} => d.btn = "create"
                 /\ d.kind = "uia" => d.btn \in Preferences!Security

Belongs == /\ \A j \in prefJobs : JobBelongs(j)
           /\ \A a \in Answered : JobBelongs(a.job)
           /\ \A d \in Standing : BoxBelongs(d)
           /\ \A k \in DOMAIN prefBoxes : prefBoxes[k].kind = "ask" => k = 1

HoldsKey(d) == d.kind \in {"key", "written"}
Changed(a)  == a.job.kind = "run" /\ a.job.btn \in {"create", "delete"} /\ a.ok

NoOverlap == \A b, c \in busy : Preferences!AboutBackup(b) /\ Preferences!AboutBackup(c) => b = c

KeyHeld == \A d \in Standing : HoldsKey(d) =>
               backup # 0 /\ \A b \in busy : ~Preferences!AboutBackup(b)

UploadsFit == \A j \in prefJobs : j.kind = "upload" => backup # 0

AnswerTrue(a) ==
    /\ a.job.kind = "upload" => backup # 0
    /\ a.job.kind = "run" /\ a.ok /\ a.job.btn \in {"create", "now"} => backup # 0
    /\ a.job.kind = "run" /\ a.ok /\ a.job.btn = "delete" => backup = 0

AnswersTrue == \A a \in Answered : AnswerTrue(a)

LabelTrue == /\ backupLabel \in {"configured", "uploaded"} => backup # 0
             /\ backupLabel = "deleted" => backup = 0

TrueSoon == \/ LabelTrue
            \/ \E d \in Standing : HoldsKey(d)
            \/ \E a \in Answered : Changed(a)

LabelParts == NoOverlap /\ KeyHeld /\ UploadsFit /\ AnswersTrue /\ TrueSoon

LabelInv == PrefInv /\ Belongs /\ (prefCalm /\ prefShown => LabelParts)

LEMMA LabelInit == Preferences!Init => LabelInv
<1> SUFFICES ASSUME Preferences!Init PROVE LabelInv
  OBVIOUS
<1>1. /\ busy = {} /\ prefJobs = {[kind |-> "devices"]} /\ prefPosted = <<>> /\ prefBoxes = <<>>
      /\ backupLabel = "none"
  BY DEF Preferences!Init
<1>2. Answered = {} /\ Standing = {}
  BY <1>1 DEF Answered, Standing
<1>3. Belongs
  BY <1>1, <1>2 DEF Belongs, JobBelongs
<1>4. LabelParts
  BY <1>1, <1>2 DEF LabelParts, NoOverlap, KeyHeld, UploadsFit, AnswersTrue, TrueSoon, LabelTrue
<1> QED
  BY <1>3, <1>4, PrefInit DEF LabelInv

\* The boxes that stand when the innermost closes, and when another opens over those of s.
LEMMA FrontStands ==
    ASSUME PrefTypes, prefBoxes # <<>>
    PROVE  /\ Preferences!Innermost \in Standing
           /\ \A k \in DOMAIN Preferences!Front(prefBoxes) : Preferences!Front(prefBoxes)[k] \in Standing
           /\ \A d \in Standing : d = Preferences!Innermost
                  \/ \E k \in DOMAIN Preferences!Front(prefBoxes) : d = Preferences!Front(prefBoxes)[k]
           /\ \A k \in DOMAIN Preferences!Front(prefBoxes) : k \in Nat \ {0} /\ k < Len(prefBoxes)
<1>1. /\ prefBoxes \in Seq(ButtonBox) /\ Len(prefBoxes) \in Nat \ {0}
      /\ DOMAIN prefBoxes = 1..Len(prefBoxes)
  BY DEF PrefTypes
<1>2. Preferences!Front(prefBoxes) = SubSeq(prefBoxes, 1, Len(prefBoxes) - 1)
  BY DEF Preferences!Front
<1>3. /\ DOMAIN Preferences!Front(prefBoxes) = 1..(Len(prefBoxes) - 1)
      /\ \A k \in 1..(Len(prefBoxes) - 1) : Preferences!Front(prefBoxes)[k] = prefBoxes[k]
  BY <1>1, <1>2
<1>4. Preferences!Innermost = prefBoxes[Len(prefBoxes)]
  BY DEF Preferences!Innermost, Preferences!Last
<1> QED
  BY <1>1, <1>3, <1>4 DEF Standing

LEMMA OpenedStands ==
    ASSUME NEW s \in Seq(ButtonBox), NEW d \in ButtonBox, prefBoxes' = Append(s, d)
    PROVE  Standing' = {s[k] : k \in DOMAIN s} \cup {d}
<1>1. /\ DOMAIN prefBoxes' = 1..(Len(s) + 1) /\ prefBoxes'[Len(s) + 1] = d
      /\ DOMAIN s = 1..Len(s) /\ Len(s) \in Nat
      /\ \A k \in DOMAIN s : prefBoxes'[k] = s[k]
  BY BoxOpens
<1>2. \A k \in DOMAIN prefBoxes' : k = Len(s) + 1 \/ (k \in DOMAIN s /\ prefBoxes'[k] = s[k])
  BY <1>1
<1>3. Len(s) + 1 \in DOMAIN prefBoxes' /\ \A k \in DOMAIN s : k \in DOMAIN prefBoxes'
  BY <1>1
<1> QED
  BY <1>1, <1>2, <1>3 DEF Standing

\* The answers that wait when one is posted, and when the first is taken.
LEMMA PostedAnswers ==
    ASSUME PrefTypes, NEW k \in 1..(Len(prefPosted) + 1), NEW a \in Preferences!Answer,
           prefPosted' = InsertAt(prefPosted, k, a)
    PROVE  Answered' = Answered \cup {a}
<1> DEFINE S == Preferences!Answer
<1>1. prefPosted \in Seq(S) /\ a \in S
  BY DEF PrefTypes
<1> HIDE DEF S
<1>2. Len(prefPosted) \in Nat /\ DOMAIN prefPosted = 1..Len(prefPosted)
  BY <1>1
<1>3. DOMAIN prefPosted' = 1..(Len(prefPosted) + 1) /\ prefPosted'[k] = a
  BY <1>1, InsertAtProperties
<1>4. ASSUME NEW l \in 1..(Len(prefPosted) + 1), l # k
      PROVE  prefPosted'[l] = IF l < k THEN prefPosted[l] ELSE prefPosted[l - 1]
  BY <1>1, <1>4, InsertAtElements
<1>5. ASSUME NEW l \in DOMAIN prefPosted' PROVE prefPosted'[l] \in Answered \cup {a}
  BY <1>2, <1>3, <1>4 DEF Answered
<1>6. ASSUME NEW l \in DOMAIN prefPosted PROVE prefPosted[l] \in Answered'
  <2>1. CASE l < k
    <3>1. l \in 1..(Len(prefPosted) + 1) /\ l # k
      BY <1>2, <2>1
    <3>2. prefPosted'[l] = prefPosted[l]
      BY <1>4, <2>1, <3>1
    <3> QED
      BY <1>3, <3>1, <3>2 DEF Answered
  <2>2. CASE ~(l < k)
    <3>1. l + 1 \in 1..(Len(prefPosted) + 1) /\ l + 1 # k /\ ~(l + 1 < k) /\ (l + 1) - 1 = l
      BY <1>2, <2>2
    <3>2. prefPosted'[l + 1] = prefPosted[l]
      BY <1>4, <3>1
    <3> QED
      BY <1>3, <3>1, <3>2 DEF Answered
  <2> QED
    BY <2>1, <2>2
<1>7. a \in Answered'
  BY <1>3 DEF Answered
<1> QED
  BY <1>5, <1>6, <1>7 DEF Answered

LEMMA TakenAnswers ==
    ASSUME PrefTypes, prefPosted # <<>>, prefPosted' = Tail(prefPosted)
    PROVE  /\ Head(prefPosted) \in Answered /\ Answered' \subseteq Answered
           /\ Answered \subseteq Answered' \cup {Head(prefPosted)}
<1>1. /\ prefPosted \in Seq(Preferences!Answer) /\ Len(prefPosted) \in Nat \ {0}
      /\ DOMAIN prefPosted = 1..Len(prefPosted) /\ Head(prefPosted) = prefPosted[1]
      /\ DOMAIN prefPosted' = 1..(Len(prefPosted) - 1)
      /\ \A l \in 1..(Len(prefPosted) - 1) : prefPosted'[l] = prefPosted[l + 1]
  BY DEF PrefTypes
<1>2. Head(prefPosted) \in Answered /\ Answered' \subseteq Answered
  BY <1>1 DEF Answered
<1>3. ASSUME NEW l \in DOMAIN prefPosted, l # 1 PROVE prefPosted[l] \in Answered'
  <2>1. l - 1 \in DOMAIN prefPosted' /\ (l - 1) + 1 = l
    BY <1>1, <1>3
  <2> QED
    BY <1>1, <2>1 DEF Answered
<1> QED
  BY <1>1, <1>2, <1>3 DEF Answered

\* A click begins a request, or asks; no box is open.
LEMMA LabelClicked ==
    ASSUME LabelInv, NEW b \in Preferences!Buttons, Preferences!OnClicked(b)
    PROVE  LabelInv'
<1>1. /\ prefBoxes = <<>> /\ prefShown' = prefShown /\ backupLabel' = backupLabel
      /\ prefPosted' = prefPosted /\ backup' = backup
  BY DEF Preferences!OnClicked, Preferences!Usable, Preferences!server, Preferences!form,
         Preferences!labels
<1>2. Standing = {} /\ Answered' = Answered
  BY <1>1 DEF Standing, Answered
<1>3. PrefInv /\ PrefInv'
  BY PrefClicked DEF LabelInv
<1>4. CASE Preferences!RunAsync("run", b, prefBoxes)
  <2> DEFINE new == [kind |-> "run", btn |-> b]
  <2>1. new.kind = "run" /\ JobBelongs(new)
    BY DEF JobBelongs
  <2>2. /\ busy' = busy \cup {b} /\ prefJobs' = prefJobs \cup {new} /\ prefBoxes' = <<>>
        /\ prefCalm' = (prefCalm /\ (Preferences!AboutBackup(b) =>
                                         \A c \in busy : ~Preferences!AboutBackup(c)))
    BY <1>1, <1>4 DEF Preferences!RunAsync
  <2> HIDE DEF new
  <2>3. Standing' = {}
    BY <2>2 DEF Standing
  <2>4. Belongs'
    BY <1>2, <2>1, <2>2, <2>3 DEF LabelInv, Belongs, JobBelongs
  <2>5. ASSUME prefCalm', prefShown' PROVE LabelParts'
    <3>1. LabelParts
      BY <1>1, <2>2, <2>5 DEF LabelInv
    <3>2. NoOverlap'
      BY <2>2, <2>5, <3>1 DEF LabelParts, NoOverlap, Preferences!AboutBackup
    <3>3. KeyHeld' /\ UploadsFit' /\ AnswersTrue'
      BY <1>1, <1>2, <2>1, <2>2, <2>3, <3>1
      DEF LabelParts, KeyHeld, UploadsFit, AnswersTrue, AnswerTrue
    <3>4. TrueSoon'
      BY <1>1, <1>2, <3>1 DEF LabelParts, TrueSoon, LabelTrue, Changed
    <3> QED
      BY <3>2, <3>3, <3>4 DEF LabelParts
  <2> QED
    BY <1>3, <2>4, <2>5 DEF LabelInv
<1>5. CASE Preferences!Open("ask", b) /\ UNCHANGED <<busy, prefJobs, Preferences!past>>
  <2> DEFINE new == [kind |-> "ask", btn |-> b]
  <2>1. prefBoxes' = <<new>> /\ new.kind = "ask" /\ UNCHANGED <<busy, prefJobs, prefCalm>>
    BY <1>1, <1>5 DEF Preferences!Open, Preferences!past
  <2> HIDE DEF new
  <2>2. Standing' = {new} /\ ~HoldsKey(new) /\ BoxBelongs(new)
    BY <2>1 DEF Standing, HoldsKey, BoxBelongs
  <2>3. Belongs'
    BY <1>2, <2>1, <2>2 DEF LabelInv, Belongs, JobBelongs, BoxBelongs
  <2>4. ASSUME prefCalm', prefShown' PROVE LabelParts'
    <3>1. LabelParts
      BY <1>1, <2>1, <2>4 DEF LabelInv
    <3> QED
      BY <1>1, <1>2, <2>1, <2>2, <3>1
      DEF LabelParts, NoOverlap, KeyHeld, UploadsFit, AnswersTrue, AnswerTrue, TrueSoon, LabelTrue,
          HoldsKey, Changed
  <2> QED
    BY <1>3, <2>3, <2>4 DEF LabelInv
<1> QED
  BY <1>4, <1>5 DEF Preferences!OnClicked

LEMMA LabelFileClicked ==
    ASSUME LabelInv, NEW f \in Preferences!FileButtons, Preferences!OnFileClicked(f)
    PROVE  LabelInv'
<1> DEFINE new == [kind |-> "ask", btn |-> f]
<1>1. /\ prefBoxes = <<>> /\ prefBoxes' = <<new>> /\ new.kind = "ask"
      /\ UNCHANGED <<busy, prefJobs, prefPosted, prefShown, prefCalm, backupLabel, backup>>
  BY DEF Preferences!OnFileClicked, Preferences!Usable, Preferences!server, Preferences!form,
         Preferences!Open, Preferences!labels, Preferences!past
<1> HIDE DEF new
<1>2. /\ Standing = {} /\ Standing' = {new} /\ Answered' = Answered /\ ~HoldsKey(new)
      /\ BoxBelongs(new)
  BY <1>1 DEF Standing, Answered, HoldsKey, BoxBelongs
<1>3. PrefInv'
  BY PrefFileClicked DEF LabelInv
<1>4. Belongs'
  BY <1>1, <1>2 DEF LabelInv, Belongs, JobBelongs, BoxBelongs
<1>5. ASSUME prefCalm', prefShown' PROVE LabelParts'
  <2>1. LabelParts
    BY <1>1, <1>5 DEF LabelInv
  <2> QED
    BY <1>1, <1>2, <2>1
    DEF LabelParts, NoOverlap, KeyHeld, UploadsFit, AnswersTrue, AnswerTrue, TrueSoon, LabelTrue,
        HoldsKey, Changed
<1> QED
  BY <1>3, <1>4, <1>5 DEF LabelInv

\* The innermost box is dismissed; a key is not, and who denies to have written it down
\* is not calm.
LEMMA LabelDismiss == LabelInv /\ Preferences!Dismiss => LabelInv'
<1> SUFFICES ASSUME LabelInv, Preferences!Dismiss PROVE LabelInv'
  OBVIOUS
<1>1. /\ prefBoxes # <<>> /\ prefBoxes' = Preferences!Front(prefBoxes)
      /\ Preferences!Innermost.kind # "key"
      /\ prefCalm' = (prefCalm /\ Preferences!Innermost.kind # "written")
      /\ UNCHANGED <<busy, prefJobs, prefPosted, prefShown, backupLabel, backup>>
  BY DEF Preferences!Dismiss, Preferences!server, Preferences!form, Preferences!labels
<1>2. PrefTypes /\ PrefInv'
  BY PrefDismiss DEF LabelInv, PrefInv
<1>3. /\ Standing' \subseteq Standing /\ Standing \subseteq Standing' \cup {Preferences!Innermost}
      /\ \A k \in DOMAIN prefBoxes' : k \in DOMAIN prefBoxes /\ prefBoxes'[k] = prefBoxes[k]
  BY <1>1, <1>2, FrontStands, FrontBoxes DEF Standing
<1>4. Answered' = Answered
  BY <1>1 DEF Answered
<1>5. Belongs'
  BY <1>1, <1>3, <1>4 DEF LabelInv, Belongs, JobBelongs, BoxBelongs
<1>6. ASSUME prefCalm', prefShown' PROVE LabelParts'
  <2>1. LabelParts /\ ~HoldsKey(Preferences!Innermost)
    BY <1>1, <1>6 DEF LabelInv, HoldsKey
  <2>2. NoOverlap' /\ KeyHeld' /\ UploadsFit' /\ AnswersTrue'
    BY <1>1, <1>3, <1>4, <2>1
    DEF LabelParts, NoOverlap, KeyHeld, UploadsFit, AnswersTrue, AnswerTrue, HoldsKey
  <2>3. TrueSoon'
    BY <1>1, <1>3, <1>4, <2>1 DEF LabelParts, TrueSoon, LabelTrue, HoldsKey, Changed
  <2> QED
    BY <2>2, <2>3 DEF LabelParts
<1> QED
  BY <1>2, <1>5, <1>6 DEF LabelInv

LEMMA LabelForm ==
    ASSUME LabelInv, \/ Preferences!Edit \/ Preferences!OnSave \/ Preferences!Cancel
                     \/ \E d \in Devices : Preferences!OnVerifyClicked(d)
    PROVE  LabelInv'
<1>1. UNCHANGED <<busy, prefJobs, prefBoxes, prefCalm, backupLabel, backup>>
  BY DEF Preferences!Edit, Preferences!OnSave, Preferences!Cancel, Preferences!OnVerifyClicked,
         Preferences!server, Preferences!labels, Preferences!past
<1>2. PrefInv' /\ Standing' = Standing
  BY <1>1, PrefForm DEF LabelInv, Standing
<1>3. CASE UNCHANGED <<prefPosted, prefShown>>
  <2>1. Answered' = Answered
    BY <1>3 DEF Answered
  <2> QED
    BY <1>1, <1>2, <1>3, <2>1
    DEF LabelInv, Belongs, JobBelongs, BoxBelongs, LabelParts, NoOverlap, KeyHeld, UploadsFit,
        AnswersTrue, AnswerTrue, TrueSoon, LabelTrue, HoldsKey, Changed
<1>4. CASE prefPosted' = <<>> /\ ~prefShown'
  <2>1. Answered' = {}
    BY <1>4 DEF Answered
  <2> QED
    BY <1>1, <1>2, <1>4, <2>1 DEF LabelInv, Belongs, JobBelongs, BoxBelongs
<1> QED
  BY <1>3, <1>4 DEF Preferences!Edit, Preferences!OnSave, Preferences!Cancel,
                    Preferences!OnVerifyClicked, Preferences!Leave

\* An innermost box is answered.  One that asks is the only one; one that holds the key
\* goes on to the upload, which no other request about the backup overlaps.
LEMMA LabelConfirm == LabelInv /\ Preferences!Confirm => LabelInv'
<1> SUFFICES ASSUME LabelInv, Preferences!Confirm PROVE LabelInv'
  OBVIOUS
<1> DEFINE front == Preferences!Front(prefBoxes)
           top   == Preferences!Innermost
           b     == top.btn
           Below == {front[k] : k \in DOMAIN front}
<1>1. /\ prefBoxes # <<>> /\ UNCHANGED <<prefPosted, prefShown, backup>>
  BY DEF Preferences!Confirm, Preferences!server, Preferences!form
<1>2. PrefTypes /\ PrefInv /\ PrefInv' /\ Belongs
  BY PrefConfirm DEF LabelInv, PrefInv
<1>3. /\ top \in Standing /\ Below \subseteq Standing /\ Standing \subseteq Below \cup {top}
      /\ \A k \in DOMAIN front : k \in DOMAIN prefBoxes /\ front[k] = prefBoxes[k]
      /\ front \in Seq(ButtonBox) /\ top \in ButtonBox
  BY <1>1, <1>2, FrontStands, FrontBoxes
<1>4. top.kind = "ask" => Below = {}
  <2>1. /\ Len(prefBoxes) \in DOMAIN prefBoxes /\ top = prefBoxes[Len(prefBoxes)]
        /\ \A k \in DOMAIN front : k \in Nat \ {0} /\ k < Len(prefBoxes)
    BY <1>1, <1>2, FrontStands, FrontBoxes
  <2>2. top.kind = "ask" => Len(prefBoxes) = 1
    BY <1>2, <2>1 DEF Belongs
  <2> HIDE DEF front, top
  <2>3. ASSUME top.kind = "ask", NEW k \in DOMAIN front PROVE FALSE
    BY <2>1, <2>2, <2>3
  <2> QED
    BY <2>3
<1>5. Answered' = Answered
  BY <1>1 DEF Answered
<1> HIDE DEF front, top, b
<1>6. prefCalm' => prefCalm
  BY DEF Preferences!Confirm, Preferences!RunAsync, Preferences!past
<1>7. ASSUME NEW kind \in {"run", "password"}, kind = "run" => top.kind = "ask",
             kind = "password" => top.kind = "uia",
             Preferences!RunAsync(kind, b, front), backupLabel' = backupLabel
      PROVE  LabelInv'
  <2> DEFINE new == [kind |-> kind, btn |-> b]
  <2>1. BoxBelongs(top) /\ b = top.btn
    BY <1>2, <1>3 DEF Belongs, b
  <2>2. JobBelongs(new) /\ new.kind # "upload"
    BY <1>7, <2>1 DEF JobBelongs, BoxBelongs
  <2>3. /\ busy' = busy \cup {b} /\ prefJobs' = prefJobs \cup {new} /\ prefBoxes' = front
        /\ prefCalm' = (prefCalm /\ (Preferences!AboutBackup(b) =>
                                         \A c \in busy : ~Preferences!AboutBackup(c)))
    BY <1>7 DEF Preferences!RunAsync
  <2>4. Standing' = Below
    BY <2>3 DEF Standing
  <2> HIDE DEF new, Below
  <2>5. Belongs'
    BY <1>2, <1>3, <1>5, <2>2, <2>3, <2>4 DEF Belongs
  <2>6. ~HoldsKey(top)
    BY <1>7 DEF HoldsKey
  <2>7. kind = "password" => ~Preferences!AboutBackup(b)
    BY <1>7, <2>1 DEF BoxBelongs, Preferences!AboutBackup, Preferences!Security, Preferences!Backups
  <2>8. ASSUME prefCalm', prefShown' PROVE LabelParts'
    <3>1. LabelParts
      BY <1>1, <1>6, <2>8 DEF LabelInv
    <3>2. NoOverlap'
      BY <2>3, <2>8, <3>1 DEF LabelParts, NoOverlap, Preferences!AboutBackup
    <3>3. KeyHeld'
      <4>1. CASE kind = "run"
        BY <1>4, <1>7, <2>4, <4>1 DEF KeyHeld
      <4>2. CASE kind = "password"
        BY <1>1, <1>3, <2>3, <2>4, <2>7, <3>1, <4>2
        DEF LabelParts, KeyHeld, HoldsKey, Preferences!AboutBackup
      <4> QED
        BY <4>1, <4>2
    <3>4. UploadsFit' /\ AnswersTrue'
      BY <1>1, <1>5, <2>2, <2>3, <3>1 DEF LabelParts, UploadsFit, AnswersTrue, AnswerTrue
    <3>5. TrueSoon'
      BY <1>1, <1>3, <1>5, <1>7, <2>4, <2>6, <3>1
      DEF LabelParts, TrueSoon, LabelTrue, HoldsKey, Changed
    <3> QED
      BY <3>2, <3>3, <3>4, <3>5 DEF LabelParts
  <2> QED
    BY <1>2, <2>5, <2>8 DEF LabelInv
<1>8. ASSUME NEW kind \in {"told", "written"}, (kind = "written") = (top.kind = "key"),
             top.kind \in {"ask", "key"},
             prefBoxes' = Append(front, [kind |-> kind, btn |-> b]),
             UNCHANGED <<busy, prefJobs, prefCalm, backupLabel>>
      PROVE  LabelInv'
  <2> DEFINE new == [kind |-> kind, btn |-> b]
  <2>1. BoxBelongs(top) /\ b = top.btn
    BY <1>2, <1>3 DEF Belongs, b
  <2>2. BoxBelongs(new) /\ (HoldsKey(new) <=> HoldsKey(top)) /\ new.kind # "ask"
    BY <1>8, <2>1 DEF BoxBelongs, HoldsKey
  <2>3. new \in ButtonBox
    BY <1>3, <1>8, <2>1 DEF ButtonBox, Preferences!Box
  <2>4. prefBoxes' = Append(front, new)
    BY <1>8
  <2> HIDE DEF new
  <2>5. Standing' = Below \cup {new}
    BY <1>3, <2>3, <2>4, OpenedStands
  <2>6. \A k \in DOMAIN prefBoxes' : prefBoxes'[k].kind = "ask" => k = 1
    <3>1. /\ DOMAIN prefBoxes' = 1..(Len(front) + 1) /\ prefBoxes'[Len(front) + 1] = new
          /\ DOMAIN front = 1..Len(front) /\ Len(front) \in Nat
          /\ \A k \in DOMAIN front : prefBoxes'[k] = front[k]
      BY <1>3, <2>3, <2>4, BoxOpens
    <3>2. ASSUME NEW k \in DOMAIN prefBoxes', prefBoxes'[k].kind = "ask" PROVE k = 1
      <4>1. k # Len(front) + 1
        BY <2>2, <3>1, <3>2
      <4>2. k \in DOMAIN front
        BY <3>1, <4>1
      <4> QED
        BY <1>2, <1>3, <3>1, <3>2, <4>2 DEF Belongs
    <3> QED
      BY <3>2
  <2> HIDE DEF Below
  <2>7. Belongs'
    BY <1>2, <1>3, <1>5, <1>8, <2>2, <2>5, <2>6 DEF Belongs
  <2>8. ASSUME prefCalm', prefShown' PROVE LabelParts'
    <3>1. LabelParts
      BY <1>1, <1>6, <2>8 DEF LabelInv
    <3>2. NoOverlap' /\ UploadsFit' /\ AnswersTrue'
      BY <1>1, <1>5, <1>8, <3>1 DEF LabelParts, NoOverlap, UploadsFit, AnswersTrue, AnswerTrue
    <3>3. KeyHeld'
      BY <1>1, <1>3, <1>8, <2>2, <2>5, <3>1 DEF LabelParts, KeyHeld, HoldsKey
    <3>4. TrueSoon'
      <4>1. CASE LabelTrue
        BY <1>1, <1>8, <4>1 DEF TrueSoon, LabelTrue
      <4>2. ASSUME NEW d \in Standing, HoldsKey(d) PROVE TrueSoon'
        BY <1>3, <2>2, <2>5, <4>2 DEF TrueSoon, HoldsKey
      <4>3. ASSUME NEW a \in Answered, Changed(a) PROVE TrueSoon'
        BY <1>5, <4>3 DEF TrueSoon, Changed
      <4> QED
        BY <3>1, <4>1, <4>2, <4>3 DEF LabelParts, TrueSoon
    <3> QED
      BY <3>2, <3>3, <3>4 DEF LabelParts
  <2> QED
    BY <1>2, <2>7, <2>8 DEF LabelInv
<1>9. ASSUME top.kind = "written", backupLabel' = "configured",
             Preferences!RunAsync("upload", b, front)
      PROVE  LabelInv'
  <2> DEFINE new == [kind |-> "upload", btn |-> b]
  <2>1. b = "create"
    BY <1>2, <1>3, <1>9 DEF Belongs, BoxBelongs, b
  <2>2. JobBelongs(new)
    BY <2>1 DEF JobBelongs
  <2>3. busy' = busy \cup {b} /\ prefJobs' = prefJobs \cup {new} /\ prefBoxes' = front
    BY <1>9 DEF Preferences!RunAsync
  <2>4. Standing' = Below
    BY <2>3 DEF Standing
  <2> HIDE DEF new
  <2>5. \A d \in Standing' : prefShown => ~HoldsKey(d)
    <3> SUFFICES ASSUME prefShown, NEW k \in DOMAIN front, HoldsKey(front[k]) PROVE FALSE
      BY <2>4
    <3>1. /\ k \in DOMAIN prefBoxes /\ front[k] = prefBoxes[k] /\ k # Len(prefBoxes)
          /\ Len(prefBoxes) \in DOMAIN prefBoxes /\ top = prefBoxes[Len(prefBoxes)]
      BY <1>1, <1>2, FrontBoxes DEF front, top
    <3>2. prefBoxes[k].btn = "create" /\ top.btn = "create"
      BY <1>2, <1>3, <1>9, <3>1 DEF Belongs, BoxBelongs, HoldsKey
    <3>3. BoxesWait
      BY <1>2 DEF PrefInv, ButtonsFit
    <3> QED
      BY <1>9, <3>1, <3>2, <3>3 DEF BoxesWait, HoldsKey, AskingKinds
  <2> HIDE DEF Below
  <2>6. Belongs'
    BY <1>2, <1>3, <1>5, <2>2, <2>3, <2>4 DEF Belongs
  <2>7. ASSUME prefCalm', prefShown' PROVE LabelParts'
    <3>1. LabelParts
      BY <1>1, <1>6, <2>7 DEF LabelInv
    <3>2. backup # 0 /\ \A c \in busy : ~Preferences!AboutBackup(c)
      BY <1>3, <1>9, <3>1 DEF LabelParts, KeyHeld, HoldsKey
    <3>3. NoOverlap'
      BY <2>3, <3>2 DEF NoOverlap, Preferences!AboutBackup
    <3>4. KeyHeld'
      BY <1>1, <2>5, <2>7 DEF KeyHeld, HoldsKey
    <3>5. UploadsFit' /\ AnswersTrue' /\ TrueSoon'
      BY <1>1, <1>5, <1>9, <3>1, <3>2
      DEF LabelParts, UploadsFit, AnswersTrue, AnswerTrue, TrueSoon, LabelTrue
    <3> QED
      BY <3>3, <3>4, <3>5 DEF LabelParts
  <2> QED
    BY <1>2, <2>6, <2>7 DEF LabelInv
<1>10. CASE top.kind = "ask" /\ Preferences!RunAsync("run", b, front) /\ backupLabel' = backupLabel
  BY <1>7, <1>10
<1>11. CASE /\ top.kind = "ask" /\ prefBoxes' = Append(front, [kind |-> "told", btn |-> b])
            /\ UNCHANGED <<busy, prefJobs, backupLabel, Preferences!past>>
  BY <1>8, <1>11 DEF Preferences!past
<1>12. CASE top.kind = "uia" /\ Preferences!RunAsync("password", b, front) /\ backupLabel' = backupLabel
  BY <1>7, <1>12
<1>13. CASE /\ top.kind = "key" /\ prefBoxes' = Append(front, [kind |-> "written", btn |-> b])
            /\ UNCHANGED <<busy, prefJobs, backupLabel, Preferences!past>>
  BY <1>8, <1>13 DEF Preferences!past
<1>14. CASE /\ top.kind = "written" /\ backupLabel' = "configured"
            /\ Preferences!RunAsync("upload", b, front)
  BY <1>9, <1>14
<1> QED
  BY <1>10, <1>11, <1>12, <1>13, <1>14 DEF Preferences!Confirm, top, b, front

\* A worker ends: only the creation and the deletion change the backup, and then no other
\* request about it is under way.
LEMMA LabelWork == ASSUME LabelInv, NEW j \in prefJobs, Preferences!Work(j) PROVE LabelInv'
<1>1. /\ prefJobs' = prefJobs \ {j}
      /\ UNCHANGED <<busy, prefBoxes, prefShown, prefCalm, backupLabel>>
  BY DEF Preferences!Work, Preferences!form, Preferences!labels, Preferences!past
<1>2. /\ PrefInv /\ PrefInv' /\ PrefTypes /\ j \in Preferences!Request /\ JobBelongs(j)
      /\ created \in Nat /\ created' \in Nat
  BY PrefWork DEF LabelInv, PrefInv, PrefTypes, Belongs
<1>3. Standing' = Standing
  BY <1>1 DEF Standing
<1>4. PICK ok \in BOOLEAN :
          /\ IF j.kind = "devices" THEN UNCHANGED Preferences!server ELSE Preferences!Effect(j, ok)
          /\ IF prefShown
             THEN \E k \in 1..(Len(prefPosted) + 1) :
                      prefPosted' = Preferences!InsertAt(prefPosted, k, [job |-> j, ok |-> ok, key |-> created'])
             ELSE UNCHANGED prefPosted
  BY DEF Preferences!Work
<1>5. PICK a \in Preferences!Answer :
          a.job = j /\ a.ok = ok /\ Answered' = IF prefShown THEN Answered \cup {a} ELSE Answered
  <2> DEFINE new == [job |-> j, ok |-> ok, key |-> created']
  <2>1. new \in Preferences!Answer /\ new.job = j /\ new.ok = ok
    BY <1>2 DEF Preferences!Answer
  <2>2. CASE prefShown
    <3>1. PICK k \in 1..(Len(prefPosted) + 1) : prefPosted' = InsertAt(prefPosted, k, new)
      BY <1>4, <2>2 DEF Preferences!InsertAt, InsertAt
    <3> HIDE DEF new
    <3>2. Answered' = Answered \cup {new}
      BY <1>2, <2>1, <3>1, PostedAnswers
    <3> QED
      BY <2>1, <2>2, <3>2
  <2>3. CASE ~prefShown
    <3>1. Answered' = Answered
      BY <1>4, <2>3 DEF Answered
    <3> HIDE DEF new
    <3> QED
      BY <2>1, <2>3, <3>1
  <2> QED
    BY <2>2, <2>3
<1>6. /\ j.kind = "run" /\ j.btn = "create" /\ ok => backup' = created + 1
      /\ j.kind = "run" /\ j.btn = "delete" /\ ok => backup' = 0
      /\ ~Changed(a) => backup' = backup
      /\ j.kind = "run" /\ j.btn = "now" /\ ok => backup # 0
  <2>1. CASE j.kind = "devices"
    BY <1>4, <1>5, <2>1 DEF Preferences!server
  <2>2. CASE j.kind # "devices"
    <3>1. Preferences!Effect(j, ok)
      BY <1>4, <2>2
    <3>2. CASE j.kind = "run" /\ j.btn = "create" /\ ok
      BY <1>5, <3>1, <3>2 DEF Preferences!Effect, Changed
    <3>3. CASE j.kind = "run" /\ j.btn = "delete" /\ ok
      BY <1>5, <3>1, <3>3 DEF Preferences!Effect, Changed
    <3>4. CASE j.kind = "run" /\ j.btn = "now"
      BY <1>5, <3>1, <3>4 DEF Preferences!Effect, Preferences!server, Changed
    <3>5. CASE ~Changed(a)
      BY <1>5, <3>1, <3>5 DEF Preferences!Effect, Preferences!server, Changed
    <3> QED
      BY <1>5, <3>2, <3>3, <3>4, <3>5 DEF Changed
  <2> QED
    BY <2>1, <2>2
<1>7. Belongs'
  BY <1>1, <1>2, <1>3, <1>5 DEF LabelInv, Belongs
<1>8. ASSUME prefCalm', prefShown' PROVE LabelParts'
  <2>1. LabelParts /\ prefShown /\ Answered' = Answered \cup {a}
    BY <1>1, <1>5, <1>8 DEF LabelInv
  <2>2. \A c \in Preferences!Buttons : OneRequest(c)
    BY <1>2, <2>1 DEF PrefInv, ButtonsFit
  <2>3. ASSUME j.kind # "devices" PROVE j.btn \in busy /\ j.btn \in Preferences!Buttons
    <3>1. j.btn \in Preferences!Buttons /\ j \in Preferences!Pending(j.btn)
      BY <1>2, <2>3 DEF Preferences!Request, Preferences!Pending
    <3> QED
      BY <2>2, <3>1 DEF OneRequest
  <2>4. NoOverlap'
    BY <1>1, <2>1 DEF LabelParts, NoOverlap
  <2>5. CASE ~Changed(a)
    <3>1. backup' = backup
      BY <1>6, <2>5
    <3>2. KeyHeld' /\ UploadsFit'
      BY <1>1, <1>3, <2>1, <3>1 DEF LabelParts, KeyHeld, UploadsFit, HoldsKey
    <3>3. AnswerTrue(a)'
      BY <1>5, <1>6, <2>1, <2>5, <3>1 DEF LabelParts, UploadsFit, AnswerTrue, Changed
    <3>4. AnswersTrue'
      BY <2>1, <3>1, <3>3 DEF LabelParts, AnswersTrue, AnswerTrue
    <3>5. TrueSoon'
      BY <1>1, <1>3, <2>1, <3>1 DEF LabelParts, TrueSoon, LabelTrue, HoldsKey, Changed
    <3> QED
      BY <2>4, <3>2, <3>4, <3>5 DEF LabelParts
  <2>6. CASE Changed(a)
    <3>1. j.kind = "run" /\ ok /\ j.btn \in {"create", "delete"}
      BY <1>5, <2>6 DEF Changed
    <3>2. \A c \in busy : Preferences!AboutBackup(c) => c = j.btn
      BY <2>1, <2>3, <3>1 DEF LabelParts, NoOverlap, Preferences!AboutBackup, Preferences!Backups
    <3>3. KeyHeld'
      <4>1. Preferences!AboutBackup(j.btn) /\ j.btn \in busy
        BY <2>3, <3>1 DEF Preferences!AboutBackup, Preferences!Backups
      <4>2. \A d \in Standing : ~HoldsKey(d)
        BY <2>1, <4>1 DEF LabelParts, KeyHeld
      <4> QED
        BY <1>3, <4>2 DEF KeyHeld, HoldsKey
    <3>4. ASSUME NEW m \in prefJobs', m.kind = "upload" PROVE FALSE
      <4>1. m \in prefJobs /\ m # j /\ m.btn = "create" /\ m \in Preferences!Request
        BY <1>1, <1>2, <3>4 DEF LabelInv, Belongs, JobBelongs, PrefInv, PrefTypes
      <4>2. m \in Preferences!Pending("create")
        BY <3>4, <4>1 DEF Preferences!Pending
      <4>3. "create" \in busy /\ \A p, q \in Preferences!Pending("create") : p = q
        BY <2>2, <4>2 DEF OneRequest, Preferences!Buttons, Preferences!Backups
      <4>4. j.btn = "create"
        BY <3>2, <4>3 DEF Preferences!AboutBackup, Preferences!Backups
      <4>5. j \in Preferences!Pending("create")
        BY <3>1, <4>4 DEF Preferences!Pending
      <4> QED
        BY <4>1, <4>2, <4>3, <4>5
    <3>5. ASSUME NEW m \in Answered, m.job.kind # "devices", Preferences!AboutBackup(m.job.btn)
          PROVE  FALSE
      <4>1. PICK i \in DOMAIN prefPosted : m = prefPosted[i]
        BY DEF Answered
      <4>2. m.job.btn \in Preferences!Buttons
        BY <3>5 DEF Preferences!AboutBackup, Preferences!Buttons, Preferences!Secrets
      <4>3. i \in Preferences!Waiting(m.job.btn)
        BY <3>5, <4>1 DEF Preferences!Waiting
      <4>4. m.job.btn \in busy /\ Preferences!Pending(m.job.btn) = {}
        BY <2>2, <4>2, <4>3 DEF OneRequest
      <4>5. m.job.btn = j.btn
        BY <3>2, <3>5, <4>4
      <4>6. j \in Preferences!Pending(m.job.btn)
        BY <3>1, <4>5 DEF Preferences!Pending
      <4> QED
        BY <4>4, <4>6
    <3>6. ASSUME NEW m \in Answered PROVE AnswerTrue(m)'
      <4>1. JobBelongs(m.job)
        BY DEF LabelInv, Belongs
      <4> QED
        BY <3>5, <4>1 DEF AnswerTrue, JobBelongs, Preferences!AboutBackup, Preferences!Backups
    <3>7. AnswerTrue(a)'
      <4>1. backup' = IF j.btn = "create" THEN created + 1 ELSE 0
        BY <1>6, <3>1
      <4>2. created + 1 # 0
        BY <1>2
      <4> QED
        BY <1>5, <3>1, <4>1, <4>2 DEF AnswerTrue
    <3>8. AnswersTrue'
      BY <2>1, <3>6, <3>7 DEF AnswersTrue
    <3>9. TrueSoon'
      BY <2>1, <2>6 DEF TrueSoon, Changed
    <3> QED
      BY <2>4, <3>3, <3>4, <3>8, <3>9 DEF LabelParts, UploadsFit
  <2> QED
    BY <2>5, <2>6
<1> QED
  BY <1>2, <1>7, <1>8 DEF LabelInv

\* An answer is taken: it puts the label right, or shows the key.
LEMMA LabelDeliver == LabelInv /\ Preferences!Deliver => LabelInv'
<1> SUFFICES ASSUME LabelInv, Preferences!Deliver PROVE LabelInv'
  OBVIOUS
<1> DEFINE a == Head(prefPosted)
<1>1. /\ prefPosted # <<>> /\ prefPosted' = Tail(prefPosted)
      /\ UNCHANGED <<prefJobs, prefShown, prefCalm, backup>>
  BY DEF Preferences!Deliver, Preferences!server, Preferences!form
<1>2. PrefInv /\ PrefInv' /\ PrefTypes /\ Belongs
  BY PrefDeliver DEF LabelInv, PrefInv
<1>3. a \in Answered /\ Answered' \subseteq Answered /\ Answered \subseteq Answered' \cup {a}
  BY <1>1, <1>2, TakenAnswers
<1>4. /\ a.job \in Preferences!Request /\ a.ok \in BOOLEAN /\ JobBelongs(a.job)
      /\ (a.job.kind # "devices" => a.job.btn \in Preferences!Buttons)
  <2>1. a \in Preferences!Answer
    BY <1>1, <1>2 DEF PrefTypes
  <2> QED
    BY <1>2, <1>3, <2>1 DEF Belongs, Preferences!Answer, Preferences!Request
<1>5. busy' = IF a.job.kind = "devices" THEN busy ELSE busy \ {a.job.btn}
  BY DEF Preferences!Deliver, Preferences!Enable, Preferences!OnDevices
<1> DEFINE Opens(kind) == prefBoxes' = Append(prefBoxes, [kind |-> kind, btn |-> a.job.btn])
<1>6. \/ prefBoxes' = prefBoxes /\ ~(a.job.kind = "run" /\ a.job.btn = "create")
      \/ a.job.kind # "devices" /\ Opens("told") /\ ~(Changed(a) /\ a.job.btn = "create")
      \/ a.job.kind # "devices" /\ a.job.btn \in Preferences!Security /\ Opens("uia")
      \/ a.job.kind = "run" /\ a.job.btn = "create" /\ a.ok /\ Opens("key")
  BY DEF Preferences!Deliver, Preferences!OnDevices, Preferences!OnSecurityDone,
         Preferences!OnPasswordDone, Preferences!OnCreated, Preferences!OnBackupDone,
         Preferences!Open, Preferences!Security, Preferences!Secrets, Changed
<1>7. \/ backupLabel' = backupLabel /\ ~(Changed(a) /\ a.job.btn = "delete")
      \/ backupLabel' = "secrets"
      \/ backupLabel' = "deleted" /\ Changed(a) /\ a.job.btn = "delete"
      \/ backupLabel' \in {"configured", "uploaded"} /\ a.job.kind = "upload"
      \/ backupLabel' = "uploaded" /\ a.job.kind = "run" /\ a.job.btn = "now" /\ a.ok
  BY <1>4 DEF Preferences!Deliver, Preferences!OnDevices, Preferences!OnSecurityDone,
         Preferences!OnPasswordDone, Preferences!OnCreated, Preferences!OnBackupDone,
         Preferences!LabelAfter, Preferences!labels, Preferences!Security, Preferences!Secrets,
         Changed, JobBelongs
<1> HIDE DEF a
<1>8. /\ Standing \subseteq Standing' /\ (\A d \in Standing' : BoxBelongs(d))
      /\ \A d \in Standing' : d \in Standing \/ (HoldsKey(d) => Changed(a) /\ a.job.btn = "create")
      /\ Changed(a) /\ a.job.btn = "create" => \E d \in Standing' : HoldsKey(d)
      /\ \A k \in DOMAIN prefBoxes' : prefBoxes'[k].kind = "ask" => k = 1
  <2>1. CASE prefBoxes' = prefBoxes /\ ~(a.job.kind = "run" /\ a.job.btn = "create")
    <3>1. Standing' = Standing
      BY <2>1 DEF Standing
    <3> QED
      BY <1>2, <2>1, <3>1 DEF Belongs, Changed
  <2>2. ASSUME a.job.kind # "devices", NEW kind \in {"told", "uia", "key"}, Opens(kind),
               kind = "told" => ~(Changed(a) /\ a.job.btn = "create"),
               kind = "uia" => a.job.btn \in Preferences!Security,
               kind = "key" => Changed(a) /\ a.job.btn = "create"
        PROVE  /\ Standing \subseteq Standing' /\ (\A d \in Standing' : BoxBelongs(d))
               /\ \A d \in Standing' :
                      d \in Standing \/ (HoldsKey(d) => Changed(a) /\ a.job.btn = "create")
               /\ Changed(a) /\ a.job.btn = "create" => \E d \in Standing' : HoldsKey(d)
               /\ \A k \in DOMAIN prefBoxes' : prefBoxes'[k].kind = "ask" => k = 1
    <3> DEFINE new == [kind |-> kind, btn |-> a.job.btn]
    <3>1. /\ new \in ButtonBox /\ new.kind # "ask" /\ BoxBelongs(new)
          /\ HoldsKey(new) <=> kind = "key"
      BY <1>4, <2>2 DEF ButtonBox, Preferences!Box, BoxBelongs, HoldsKey
    <3>2. prefBoxes \in Seq(ButtonBox) /\ prefBoxes' = Append(prefBoxes, new)
      BY <1>2, <2>2 DEF PrefTypes
    <3> HIDE DEF new
    <3>3. Standing' = Standing \cup {new}
      BY <3>1, <3>2, OpenedStands DEF Standing
    <3>4. Changed(a) /\ a.job.btn = "create" => kind = "key"
      BY <2>2 DEF Preferences!Security
    <3>5. ASSUME NEW k \in DOMAIN prefBoxes', prefBoxes'[k].kind = "ask" PROVE k = 1
      <4>1. /\ DOMAIN prefBoxes' = 1..(Len(prefBoxes) + 1)
            /\ prefBoxes'[Len(prefBoxes) + 1] = new
            /\ DOMAIN prefBoxes = 1..Len(prefBoxes) /\ Len(prefBoxes) \in Nat
            /\ \A l \in DOMAIN prefBoxes : prefBoxes'[l] = prefBoxes[l]
        BY <3>1, <3>2, BoxOpens
      <4>2. k # Len(prefBoxes) + 1
        BY <3>1, <3>5, <4>1
      <4>3. k \in DOMAIN prefBoxes
        BY <4>1, <4>2
      <4> QED
        BY <1>2, <3>5, <4>1, <4>3 DEF Belongs
    <3>6. \A d \in Standing : BoxBelongs(d)
      BY <1>2 DEF Belongs
    <3> QED
      BY <2>2, <3>1, <3>3, <3>4, <3>5, <3>6
  <2> HIDE DEF Opens
  <2>3. CASE a.job.kind # "devices" /\ Opens("told") /\ ~(Changed(a) /\ a.job.btn = "create")
    BY <2>2, <2>3
  <2>4. CASE a.job.kind # "devices" /\ a.job.btn \in Preferences!Security /\ Opens("uia")
    BY <2>2, <2>4
  <2>5. CASE a.job.kind = "run" /\ a.job.btn = "create" /\ a.ok /\ Opens("key")
    <3>1. Changed(a) /\ a.job.kind # "devices"
      BY <2>5 DEF Changed
    <3> QED
      BY <2>2, <2>5, <3>1
  <2> QED
    BY <1>6, <2>1, <2>3, <2>4, <2>5
<1>9. Belongs'
  BY <1>1, <1>2, <1>3, <1>8 DEF Belongs
<1>10. ASSUME prefCalm', prefShown' PROVE LabelParts'
  <2>1. LabelParts /\ AnswerTrue(a)
    BY <1>1, <1>3, <1>10 DEF LabelInv, LabelParts, AnswersTrue
  <2>2. busy' \subseteq busy
    BY <1>5
  <2>3. NoOverlap'
    BY <2>1, <2>2 DEF LabelParts, NoOverlap, Preferences!AboutBackup
  <2>4. UploadsFit' /\ AnswersTrue'
    BY <1>1, <1>3, <2>1 DEF LabelParts, UploadsFit, AnswersTrue, AnswerTrue
  <2>5. KeyHeld'
    <3>1. ASSUME NEW d \in Standing', HoldsKey(d), d \notin Standing
          PROVE  backup' # 0 /\ \A b \in busy' : ~Preferences!AboutBackup(b)
      <4>1. Changed(a) /\ a.job.btn = "create"
        BY <1>8, <3>1
      <4>2. backup # 0 /\ busy' = busy \ {"create"} /\ a.job.kind = "run"
        BY <1>5, <2>1, <4>1 DEF Changed, AnswerTrue
      <4>3. "create" \in busy
        <5>1. 1 \in Preferences!Waiting("create")
          BY <1>1, <1>2, <4>1, <4>2 DEF Preferences!Waiting, PrefTypes, a
        <5> QED
          BY <1>1, <1>2, <1>10, <5>1 DEF PrefInv, ButtonsFit, OneRequest, Preferences!Buttons,
                                         Preferences!Backups
      <4> QED
        BY <1>1, <2>1, <4>2, <4>3
        DEF LabelParts, NoOverlap, Preferences!AboutBackup, Preferences!Backups
    <3>2. ASSUME NEW d \in Standing', HoldsKey(d), d \in Standing
          PROVE  backup' # 0 /\ \A b \in busy' : ~Preferences!AboutBackup(b)
      BY <1>1, <2>1, <2>2, <3>2 DEF LabelParts, KeyHeld
    <3> QED
      BY <3>1, <3>2 DEF KeyHeld, HoldsKey, Preferences!AboutBackup
  <2>6. TrueSoon'
    <3>1. CASE backupLabel' = backupLabel /\ ~(Changed(a) /\ a.job.btn = "delete")
      <4>1. CASE LabelTrue
        BY <1>1, <3>1, <4>1 DEF TrueSoon, LabelTrue
      <4>2. ASSUME NEW d \in Standing, HoldsKey(d) PROVE TrueSoon'
        BY <1>8, <4>2 DEF TrueSoon, HoldsKey
      <4>3. ASSUME NEW m \in Answered, Changed(m) PROVE TrueSoon'
        <5>1. CASE m = a
          <6>1. Changed(a) /\ a.job.btn = "create"
            BY <3>1, <4>3, <5>1 DEF Changed
          <6> QED
            BY <1>8, <6>1 DEF TrueSoon, HoldsKey
        <5>2. CASE m # a
          BY <1>3, <4>3, <5>2 DEF TrueSoon, Changed
        <5> QED
          BY <5>1, <5>2
      <4> QED
        BY <2>1, <4>1, <4>2, <4>3 DEF LabelParts, TrueSoon
    <3>2. CASE backupLabel' = "secrets"
      BY <3>2 DEF TrueSoon, LabelTrue
    <3>3. CASE backupLabel' = "deleted" /\ Changed(a) /\ a.job.btn = "delete"
      BY <1>1, <2>1, <3>3 DEF TrueSoon, LabelTrue, AnswerTrue, Changed
    <3>4. CASE backupLabel' \in {"configured", "uploaded"} /\ a.job.kind = "upload"
      BY <1>1, <2>1, <3>4 DEF TrueSoon, LabelTrue, AnswerTrue
    <3>5. CASE /\ backupLabel' = "uploaded" /\ a.job.kind = "run" /\ a.job.btn = "now" /\ a.ok
      BY <1>1, <2>1, <3>5 DEF TrueSoon, LabelTrue, AnswerTrue
    <3> QED
      BY <1>7, <3>1, <3>2, <3>3, <3>4, <3>5
  <2> QED
    BY <2>3, <2>4, <2>5, <2>6 DEF LabelParts
<1> QED
  BY <1>2, <1>9, <1>10 DEF LabelInv

LEMMA LabelStep == LabelInv /\ [Preferences!Next]_(Preferences!vars) => LabelInv'
<1> SUFFICES ASSUME LabelInv, [Preferences!Next]_(Preferences!vars) PROVE LabelInv'
  OBVIOUS
<1>1. CASE UNCHANGED Preferences!vars
  <2>1. /\ UNCHANGED <<busy, prefJobs, prefPosted, prefBoxes, prefShown, prefCalm>>
        /\ UNCHANGED <<backupLabel, backup>>
    BY <1>1 DEF Preferences!vars, Preferences!vars
  <2>2. Standing' = Standing /\ Answered' = Answered
    BY <2>1 DEF Standing, Answered
  <2>3. PrefInv'
    BY <1>1, PrefStep DEF LabelInv
  <2> QED
    BY <2>1, <2>2, <2>3
    DEF LabelInv, Belongs, JobBelongs, BoxBelongs, LabelParts, NoOverlap, KeyHeld, UploadsFit,
        AnswersTrue, AnswerTrue, TrueSoon, LabelTrue, HoldsKey, Changed
<1> QED
  BY <1>1, LabelClicked, LabelFileClicked, LabelConfirm, LabelDismiss, LabelForm, LabelWork,
     LabelDeliver
  DEF Preferences!Next

(***************************************************************************)
(* When nothing is under way the label of the backup is right about it, if *)
(* requests about the backup never overlapped and every key was kept.      *)
(***************************************************************************)
THEOREM LabelRight == Preferences!Spec => []Preferences!BackupLabelTrue
<1>1. LabelInv => Preferences!BackupLabelTrue
  <2> SUFFICES ASSUME LabelInv, prefCalm, prefShown, prefPosted = <<>>, prefBoxes = <<>>
               PROVE  LabelTrue
    BY DEF Preferences!BackupLabelTrue, LabelTrue
  <2>1. Answered = {} /\ Standing = {}
    BY DEF Answered, Standing
  <2> QED
    BY <2>1 DEF LabelInv, LabelParts, TrueSoon
<1> QED
  BY <1>1, LabelInit, LabelStep, PTL DEF Preferences!Spec

-----------------------------------------------------------------------------
(***************************************************************************)
(* The reactions (Reactions).  What the homeserver has is on its chip, or  *)
(* waits to be told behind the message it is to; a removal that the user   *)
(* waits for is of a reaction that is gone.                                *)
(***************************************************************************)
ReactJobs  == [kind : Reacting!Kinds, to : Messages, id : Nat]
ReactPosts == [kind : {"react", "unreact"}, to : Messages, id : Nat, ok : BOOLEAN]
ReactNews  == [kind : {"message", "reaction", "redaction"}, to : Messages, by : Reacting!Users,
               id : Nat]

ReactTypes ==
    /\ reaCount \in Nat
    /\ reaReactions \subseteq Reacting!Reaction /\ \A r \in reaReactions : r.id \in 1..reaCount
    /\ chips \in [Messages -> SUBSET Reacting!Users] /\ ids \in [Messages -> 0..reaCount]
    /\ reaJobs \in Seq(ReactJobs) /\ reaPosted \in Seq(ReactPosts) /\ reaNews \in Seq(ReactNews)
    /\ wished \in [Messages -> {"none", "on", "off"}]

Requested == {reaJobs[i] : i \in DOMAIN reaJobs}
Replied   == {reaPosted[i] : i \in DOMAIN reaPosted}

\* The ids that the client knows are of reactions of the user to that message.
Ours(r, m) == r.to = m /\ r.by = "me"

IdsFit ==
    /\ \A r, s \in reaReactions : r.to = s.to /\ r.by = s.by => r = s
    /\ \A r \in reaReactions, m \in Messages : r.id = ids[m] => Ours(r, m)
    /\ \A j \in Requested : /\ j.id <= reaCount
                            /\ j.kind = "unreact" =>
                                   \A r \in reaReactions : r.id = j.id => Ours(r, j.to)
    /\ \A p \in Replied : /\ p.id <= reaCount
                          /\ p.kind = "react" /\ p.ok =>
                                 \A r \in reaReactions : r.id = p.id => Ours(r, p.to)

\* The messages come before all else, and have a row when they have come.
MessagesFirst ==
    /\ \A i, k \in DOMAIN reaNews :
           reaNews[i].kind = "message" /\ reaNews[k].kind # "message" => i < k
    /\ \A m \in Messages : \/ m \in reaRows
                           \/ \E i \in DOMAIN reaNews : reaNews[i].kind = "message" /\ reaNews[i].to = m

WillBeTold(r) == \E i \in DOMAIN reaNews : /\ reaNews[i].kind = "reaction" /\ reaNews[i].to = r.to
                                           /\ reaNews[i].by = r.by

AllShown == \A r \in reaReactions : r.by \in chips[r.to] \/ WillBeTold(r)

OneStep == /\ reaJobs = <<>> \/ reaPosted = <<>>
           /\ Len(reaJobs) <= 1 /\ Len(reaPosted) <= 1

Removed == \A p \in Replied : p.kind = "unreact" /\ p.ok =>
               \A r \in reaReactions : ~Ours(r, p.to)

ReactInv == ReactTypes /\ IdsFit /\ MessagesFirst /\ (reaCalm => AllShown /\ OneStep /\ Removed)

LEMMA ReactInit == IsFiniteSet(Messages) /\ Reacting!Init => ReactInv
<1> SUFFICES ASSUME IsFiniteSet(Messages), Reacting!Init PROVE ReactInv
  OBVIOUS
<1> DEFINE First(m) == [kind |-> "message", to |-> m, by |-> "other", id |-> 0]
           F == {First(m) : m \in Messages}
<1>1. /\ reaReactions = {} /\ reaCount = 0 /\ reaJobs = <<>> /\ reaPosted = <<>>
      /\ chips = [m \in Messages |-> {}] /\ ids = [m \in Messages |-> 0]
      /\ wished = [m \in Messages |-> "none"]
      /\ reaNews = Reacting!SetToSeq(F)
  BY DEF Reacting!Init
<1>2. IsFiniteSet(F)
  <2> DEFINE f == [m \in Messages |-> First(m)]
  <2>1. f \in Surjection(Messages, F)
    BY DEF Surjection
  <2> HIDE DEF f, F
  <2> QED
    BY <2>1, FS_Surjection
<1>3. reaNews = SetToSeq(F)
  BY <1>1 DEF Reacting!SetToSeq, SetToSeq, Reacting!Cardinality, Cardinality, Reacting!IsInjective,
              IsInjective
<1>4. F \subseteq ReactNews
  BY DEF ReactNews, Reacting!Users
<1>5. \A e \in F : e.kind = "message"
  OBVIOUS
<1>6. \A m \in Messages : First(m) \in F /\ First(m).to = m
  OBVIOUS
<1> HIDE DEF F, First
<1>7. reaNews \in Seq(F) /\ {reaNews[i] : i \in DOMAIN reaNews} = F
  BY <1>2, <1>3, SetToSeqProperties
<1>8. reaNews \in Seq(ReactNews)
  BY <1>4, <1>7
<1>9. Requested = {} /\ Replied = {}
  BY <1>1 DEF Requested, Replied
<1>10. ReactTypes
  BY <1>1, <1>8 DEF ReactTypes
<1>11. MessagesFirst
  BY <1>5, <1>6, <1>7 DEF MessagesFirst
<1> QED
  BY <1>1, <1>9, <1>10, <1>11 DEF ReactInv, IdsFit, AllShown, OneStep, Removed

\* What follows a new event, request, or answer; and what remains when one is taken.
LEMMA EventTold ==
    ASSUME ReactTypes, NEW e \in ReactNews, reaNews' = Append(reaNews, e)
    PROVE  /\ reaNews' \in Seq(ReactNews)
           /\ DOMAIN reaNews' = 1..(Len(reaNews) + 1) /\ reaNews'[Len(reaNews) + 1] = e
           /\ DOMAIN reaNews = 1..Len(reaNews) /\ Len(reaNews) \in Nat
           /\ \A i \in DOMAIN reaNews : i \in DOMAIN reaNews' /\ reaNews'[i] = reaNews[i]
           /\ \A i \in DOMAIN reaNews' : i = Len(reaNews) + 1 \/ i \in DOMAIN reaNews
  BY DEF ReactTypes

\* An event other than a message keeps the order.
LEMMA OrderKept ==
    ASSUME ReactTypes, MessagesFirst, NEW e \in ReactNews, e.kind # "message",
           reaNews' = Append(reaNews, e), reaRows' = reaRows
    PROVE  MessagesFirst'
<1>1. /\ DOMAIN reaNews = 1..Len(reaNews) /\ Len(reaNews) \in Nat
      /\ reaNews'[Len(reaNews) + 1] = e
      /\ \A i \in DOMAIN reaNews : i \in DOMAIN reaNews' /\ reaNews'[i] = reaNews[i]
      /\ \A i \in DOMAIN reaNews' : i = Len(reaNews) + 1 \/ i \in DOMAIN reaNews
  BY EventTold
<1>2. ASSUME NEW i \in DOMAIN reaNews', NEW k \in DOMAIN reaNews',
             reaNews'[i].kind = "message", reaNews'[k].kind # "message"
      PROVE  i < k
  <2>1. i # Len(reaNews) + 1
    BY <1>1, <1>2
  <2>2. i \in DOMAIN reaNews /\ reaNews'[i] = reaNews[i] /\ i < Len(reaNews) + 1
    BY <1>1, <2>1
  <2>3. k = Len(reaNews) + 1 \/ (k \in DOMAIN reaNews /\ reaNews'[k] = reaNews[k])
    BY <1>1
  <2> QED
    BY <1>2, <2>2, <2>3 DEF MessagesFirst
<1>3. ASSUME NEW m \in Messages
      PROVE  m \in reaRows' \/ \E i \in DOMAIN reaNews' : reaNews'[i].kind = "message" /\ reaNews'[i].to = m
  BY <1>1 DEF MessagesFirst
<1> QED
  BY <1>2, <1>3 DEF MessagesFirst

\* A reaction is made, by whom the homeserver does not know one of.
LEMMA ReactionMade ==
    ASSUME ReactTypes, IdsFit, MessagesFirst, NEW u \in Reacting!Users, NEW m \in Messages,
           Reacting!Add(u, m), UNCHANGED <<reaRows, chips, ids>>
    PROVE  /\ reaCount' = reaCount + 1 /\ reaNews' \in Seq(ReactNews) /\ MessagesFirst'
           /\ reaReactions' = reaReactions \cup {[to |-> m, by |-> u, id |-> reaCount']}
           /\ reaReactions' \subseteq Reacting!Reaction
           /\ \A r \in reaReactions' : r.id \in 1..reaCount'
           /\ \A r, s \in reaReactions' : r.to = s.to /\ r.by = s.by => r = s
           /\ \A r \in reaReactions', x \in Messages : r.id = ids'[x] => Ours(r, x)
           /\ AllShown => AllShown'
<1> DEFINE new == [to |-> m, by |-> u, id |-> reaCount']
           told == [kind |-> "reaction", to |-> m, by |-> u, id |-> reaCount']
<1>1. /\ reaCount' = reaCount + 1 /\ reaReactions' = reaReactions \cup {new}
      /\ reaNews' = Append(reaNews, told) /\ \A r \in reaReactions : ~(r.to = m /\ r.by = u)
  BY DEF Reacting!Add, Reacting!Has, Reacting!Tells
<1>2. /\ reaCount \in Nat /\ \A r \in reaReactions : r \in Reacting!Reaction /\ r.id \in 1..reaCount
      /\ \A x \in Messages : ids[x] \in 0..reaCount
  BY DEF ReactTypes
<1>3. /\ new \in Reacting!Reaction /\ new.id = reaCount + 1 /\ new.to = m /\ new.by = u
      /\ told \in ReactNews /\ told.kind = "reaction" /\ told.to = m /\ told.by = u
  BY <1>1, <1>2 DEF Reacting!Reaction, ReactNews
<1> HIDE DEF new, told
<1>4. reaNews' \in Seq(ReactNews) /\ MessagesFirst'
  BY <1>1, <1>3, EventTold, OrderKept
<1>5. reaReactions' \subseteq Reacting!Reaction /\ \A r \in reaReactions' : r.id \in 1..reaCount'
  BY <1>1, <1>2, <1>3
<1>6. \A r, s \in reaReactions' : r.to = s.to /\ r.by = s.by => r = s
  BY <1>1, <1>3 DEF IdsFit
<1>7. \A r \in reaReactions', x \in Messages : r.id = ids'[x] => Ours(r, x)
  BY <1>1, <1>2, <1>3 DEF IdsFit, Ours
<1>8. AllShown => AllShown'
  <2>1. /\ reaNews'[Len(reaNews) + 1] = told /\ Len(reaNews) + 1 \in DOMAIN reaNews'
        /\ \A i \in DOMAIN reaNews : i \in DOMAIN reaNews' /\ reaNews'[i] = reaNews[i]
    BY <1>1, <1>3, EventTold
  <2>2. ASSUME AllShown, NEW r \in reaReactions' PROVE r.by \in chips'[r.to] \/ WillBeTold(r)'
    <3>1. CASE r = new
      BY <1>3, <2>1, <3>1 DEF WillBeTold
    <3>2. CASE r \in reaReactions
      BY <2>1, <2>2, <3>2 DEF AllShown, WillBeTold
    <3> QED
      BY <1>1, <3>1, <3>2
  <2> QED
    BY <2>2 DEF AllShown
<1> QED
  BY <1>1, <1>4, <1>5, <1>6, <1>7, <1>8 DEF new

\* A reaction is taken back.
LEMMA ReactionRedacted ==
    ASSUME ReactTypes, IdsFit, MessagesFirst, NEW id \in Nat, Reacting!Redact(id),
           UNCHANGED <<reaRows, chips, ids>>
    PROVE  /\ reaCount' = reaCount /\ reaNews' \in Seq(ReactNews) /\ MessagesFirst'
           /\ reaReactions' = {r \in reaReactions : r.id # id}
           /\ AllShown => AllShown'
<1>1. PICK r0 \in reaReactions : r0.id = id /\ Reacting!Tells("redaction", r0.to, r0.by, id)
  BY DEF Reacting!Redact
<1> DEFINE told == [kind |-> "redaction", to |-> r0.to, by |-> r0.by, id |-> id]
<1>2. told \in ReactNews /\ told.kind # "message"
  BY DEF ReactTypes, Reacting!Reaction, ReactNews
<1>3. reaNews' = Append(reaNews, told)
  BY <1>1 DEF Reacting!Tells
<1>4. reaCount' = reaCount /\ reaReactions' = {r \in reaReactions : r.id # id}
  BY DEF Reacting!Redact
<1> HIDE DEF told
<1>5. reaNews' \in Seq(ReactNews) /\ MessagesFirst'
  BY <1>2, <1>3, EventTold, OrderKept
<1>6. \A i \in DOMAIN reaNews : i \in DOMAIN reaNews' /\ reaNews'[i] = reaNews[i]
  BY <1>2, <1>3, EventTold
<1>7. AllShown => AllShown'
  BY <1>4, <1>6 DEF AllShown, WillBeTold
<1> QED
  BY <1>4, <1>5, <1>7

LEMMA ElementsTyped == ReactTypes => Requested \subseteq ReactJobs /\ Replied \subseteq ReactPosts
<1> SUFFICES ASSUME ReactTypes PROVE Requested \subseteq ReactJobs /\ Replied \subseteq ReactPosts
  OBVIOUS
<1>1. reaJobs \in Seq(ReactJobs) /\ reaPosted \in Seq(ReactPosts)
  BY DEF ReactTypes
<1>2. ASSUME NEW i \in DOMAIN reaJobs PROVE reaJobs[i] \in ReactJobs
  BY <1>1
<1>3. ASSUME NEW i \in DOMAIN reaPosted PROVE reaPosted[i] \in ReactPosts
  BY <1>1
<1> QED
  BY <1>2, <1>3 DEF Requested, Replied

\* The ids of one request, and of one answer.
LEMMA RequestFits ==
    ASSUME IdsFit, NEW j \in Requested
    PROVE  /\ j.id <= reaCount
           /\ j.kind = "unreact" => \A r \in reaReactions : r.id = j.id => Ours(r, j.to)
<1>1. \A q \in Requested : /\ q.id <= reaCount
                           /\ q.kind = "unreact" =>
                                  \A r \in reaReactions : r.id = q.id => Ours(r, q.to)
  BY Zenon DEF IdsFit
<1> QED
  BY <1>1, Zenon

LEMMA ReplyFits ==
    ASSUME IdsFit, NEW p \in Replied
    PROVE  /\ p.id <= reaCount
           /\ p.kind = "react" /\ p.ok => \A r \in reaReactions : r.id = p.id => Ours(r, p.to)
<1>1. \A q \in Replied : /\ q.id <= reaCount
                         /\ q.kind = "react" /\ q.ok =>
                                \A r \in reaReactions : r.id = q.id => Ours(r, q.to)
  BY Zenon DEF IdsFit
<1> QED
  BY <1>1, Zenon

LEMMA ReactOther ==
    ASSUME ReactInv, NEW m \in Messages, Reacting!OtherReacts(m)
    PROVE  ReactInv'
<1>1. /\ Reacting!Add("other", m) /\ UNCHANGED <<reaRows, chips, ids, reaJobs, reaPosted, wished, reaCalm>>
  BY DEF Reacting!OtherReacts, Reacting!model, Reacting!past
<1>2. ReactTypes /\ IdsFit /\ MessagesFirst /\ "other" \in Reacting!Users
  BY DEF ReactInv, Reacting!Users
<1>3. /\ reaCount' = reaCount + 1 /\ reaNews' \in Seq(ReactNews) /\ MessagesFirst'
      /\ reaReactions' = reaReactions \cup {[to |-> m, by |-> "other", id |-> reaCount']}
      /\ reaReactions' \subseteq Reacting!Reaction
      /\ \A r \in reaReactions' : r.id \in 1..reaCount'
      /\ \A r, s \in reaReactions' : r.to = s.to /\ r.by = s.by => r = s
      /\ \A r \in reaReactions', x \in Messages : r.id = ids'[x] => Ours(r, x)
      /\ AllShown => AllShown'
  BY <1>1, <1>2, ReactionMade
<1>4. Requested' = Requested /\ Replied' = Replied
  BY <1>1 DEF Requested, Replied
<1>5. ReactTypes'
  BY <1>1, <1>2, <1>3 DEF ReactTypes
<1>6. \A r \in reaReactions' : r \in reaReactions \/ (r.id = reaCount + 1 /\ r.by = "other")
  BY <1>3
<1>7. reaCount \in Nat
  BY <1>2 DEF ReactTypes
<1>8. ASSUME NEW j \in Requested'
      PROVE  /\ j.id <= reaCount'
             /\ j.kind = "unreact" => \A r \in reaReactions' : r.id = j.id => Ours(r, j.to)
  <2>1. j.id \in Nat
    BY <1>2, <1>4, ElementsTyped DEF ReactJobs
  <2>2. /\ j.id <= reaCount
        /\ j.kind = "unreact" => \A r \in reaReactions : r.id = j.id => Ours(r, j.to)
    BY <1>2, <1>4, RequestFits
  <2>3. \A r \in reaReactions' : r.id = j.id => r \in reaReactions
    BY <1>6, <1>7, <2>1, <2>2
  <2> QED
    BY <1>3, <1>7, <2>1, <2>2, <2>3
<1>9. ASSUME NEW p \in Replied'
      PROVE  /\ p.id <= reaCount'
             /\ p.kind = "react" /\ p.ok => \A r \in reaReactions' : r.id = p.id => Ours(r, p.to)
  <2>1. p.id \in Nat
    BY <1>2, <1>4, ElementsTyped DEF ReactPosts
  <2> QED
    BY <1>2, <1>3, <1>4, <1>6, <1>7, <1>9, <2>1 DEF IdsFit
<1>10. IdsFit'
  BY <1>3, <1>8, <1>9 DEF IdsFit
<1>11. reaCalm' => OneStep' /\ Removed'
  BY <1>1, <1>4, <1>6 DEF ReactInv, OneStep, Removed, Ours
<1> QED
  BY <1>1, <1>3, <1>5, <1>10, <1>11 DEF ReactInv

\* The user asks, after the end of his last step if he is calm.
LEMMA ReactAsked ==
    ASSUME ReactInv, NEW m \in Messages, NEW j \in ReactJobs, NEW wish \in {"none", "on", "off"},
           Reacting!Ask(m, j, wish), j.id \in {0, ids[m]}, j.to = m
    PROVE  ReactInv'
<1>1. /\ reaJobs' = Append(reaJobs, j) /\ wished' = [wished EXCEPT ![m] = wish]
      /\ reaCalm' = (reaCalm /\ reaJobs = <<>> /\ reaPosted = <<>> /\ reaNews = <<>>)
      /\ UNCHANGED <<reaReactions, reaCount, reaNews, reaRows, chips, ids, reaPosted>>
  BY DEF Reacting!Ask, Reacting!server, Reacting!model
<1>2. ReactTypes /\ IdsFit /\ MessagesFirst
  BY DEF ReactInv
<1>3. ReactTypes'
  BY <1>1, <1>2 DEF ReactTypes
<1>4. Replied' = Replied /\ Requested' = Requested \cup {j}
  <2>1. /\ DOMAIN reaJobs' = 1..(Len(reaJobs) + 1) /\ reaJobs'[Len(reaJobs) + 1] = j
        /\ DOMAIN reaJobs = 1..Len(reaJobs) /\ Len(reaJobs) \in Nat
        /\ \A i \in DOMAIN reaJobs : reaJobs'[i] = reaJobs[i]
    BY <1>1, <1>2 DEF ReactTypes
  <2>2. \A i \in DOMAIN reaJobs' : i = Len(reaJobs) + 1 \/ i \in DOMAIN reaJobs
    BY <2>1
  <2>3. Len(reaJobs) + 1 \in DOMAIN reaJobs' /\ \A i \in DOMAIN reaJobs : i \in DOMAIN reaJobs'
    BY <2>1
  <2> QED
    BY <1>1, <2>1, <2>2, <2>3 DEF Requested, Replied
<1>5. IdsFit'
  <2>1. ids[m] \in 0..reaCount /\ \A r \in reaReactions : r.id \in Nat \ {0}
    BY <1>2 DEF ReactTypes
  <2>2. j.id <= reaCount /\ \A r \in reaReactions : r.id = j.id => Ours(r, m)
    BY <1>2, <2>1 DEF IdsFit, ReactTypes
  <2> QED
    BY <1>1, <1>2, <1>4, <2>2 DEF IdsFit, Ours
<1>6. MessagesFirst'
  BY <1>1, <1>2 DEF MessagesFirst
<1>7. reaCalm' => AllShown' /\ OneStep' /\ Removed'
  <2> SUFFICES ASSUME reaCalm' PROVE AllShown' /\ OneStep' /\ Removed'
    OBVIOUS
  <2>1. reaCalm /\ reaJobs = <<>> /\ reaPosted' = <<>>
    BY <1>1
  <2>2. Len(reaJobs') = 1
    BY <1>1, <2>1
  <2>3. Replied' = {}
    BY <2>1 DEF Replied
  <2>4. OneStep' /\ Removed'
    BY <2>1, <2>2, <2>3 DEF OneStep, Removed
  <2> QED
    BY <1>1, <2>1, <2>4 DEF ReactInv, AllShown, WillBeTold
<1> QED
  BY <1>3, <1>5, <1>6, <1>7 DEF ReactInv

LEMMA ReactUser ==
    ASSUME ReactInv, NEW m \in Messages,
           \/ Reacting!React(m) \/ Reacting!Unreact(m)
           \/ \E onChip \in BOOLEAN : Reacting!Toggle(m, onChip)
    PROVE  ReactInv'
<1>1. ids[m] \in Nat
  BY DEF ReactInv, ReactTypes
<1>2. ASSUME NEW kind \in Reacting!Kinds, NEW id \in {0, ids[m]}, NEW wish \in {"none", "on", "off"},
             Reacting!Ask(m, Reacting!Job(kind, m, id), wish)
      PROVE  ReactInv'
  <2>1. /\ Reacting!Job(kind, m, id) \in ReactJobs /\ Reacting!Job(kind, m, id).id \in {0, ids[m]}
        /\ Reacting!Job(kind, m, id).to = m
    BY <1>1 DEF Reacting!Job, ReactJobs
  <2> QED
    BY <1>2, <2>1, ReactAsked
<1>3. Reacting!MyReactionId(m) \in {0, ids[m]}
  BY DEF Reacting!MyReactionId
<1>4. CASE Reacting!React(m)
  BY <1>2, <1>4 DEF Reacting!React, Reacting!Kinds
<1>5. CASE Reacting!Unreact(m)
  BY <1>2, <1>5 DEF Reacting!Unreact, Reacting!Kinds
<1>6. ASSUME NEW onChip \in BOOLEAN, Reacting!Toggle(m, onChip) PROVE ReactInv'
  <2> DEFINE wish == IF "me" \in chips[m] THEN "off" ELSE "on"
  <2>1. wish \in {"none", "on", "off"} /\ {"redact", "send"} \subseteq Reacting!Kinds
    BY DEF Reacting!Kinds
  <2>2. \/ Reacting!Ask(m, Reacting!Job("redact", m, Reacting!MyReactionId(m)), wish)
        \/ Reacting!Ask(m, Reacting!Job("send", m, 0), wish)
    BY <1>6 DEF Reacting!Toggle
  <2> HIDE DEF wish
  <2> QED
    BY <1>2, <1>3, <2>1, <2>2
<1> QED
  BY <1>4, <1>5, <1>6

\* The requests that remain when one ends, and the answers when one is posted or taken.
LEMMA RequestTaken ==
    ASSUME ReactTypes, NEW i \in DOMAIN reaJobs, reaJobs' = Reacting!RemoveAt(reaJobs, i)
    PROVE  /\ reaJobs[i] \in Requested /\ Requested' \subseteq Requested
           /\ reaJobs' \in Seq(ReactJobs) /\ Len(reaJobs') = Len(reaJobs) - 1
<1> DEFINE S == ReactJobs
<1>1. reaJobs \in Seq(S)
  BY DEF ReactTypes
<1>2. reaJobs' = RemoveAt(reaJobs, i)
  BY DEF Reacting!RemoveAt, RemoveAt
<1> HIDE DEF S
<1>3. reaJobs' \in Seq(S) /\ Len(reaJobs') = Len(reaJobs) - 1
  BY <1>1, <1>2, RemoveAtProperties
<1>4. \A l \in DOMAIN reaJobs' : \E m \in DOMAIN reaJobs : reaJobs'[l] = reaJobs[m]
  BY <1>1, <1>2, RemoveAtElements
<1> QED
  BY <1>3, <1>4 DEF Requested, S

LEMMA AnswerPosted ==
    ASSUME ReactTypes, NEW p \in ReactPosts, reaPosted' = Append(reaPosted, p)
    PROVE  /\ reaPosted' \in Seq(ReactPosts) /\ Replied' = Replied \cup {p}
           /\ Len(reaPosted') = Len(reaPosted) + 1
<1>1. /\ DOMAIN reaPosted' = 1..(Len(reaPosted) + 1) /\ reaPosted'[Len(reaPosted) + 1] = p
      /\ DOMAIN reaPosted = 1..Len(reaPosted) /\ Len(reaPosted) \in Nat
      /\ \A i \in DOMAIN reaPosted : reaPosted'[i] = reaPosted[i]
      /\ reaPosted' \in Seq(ReactPosts) /\ Len(reaPosted') = Len(reaPosted) + 1
  BY DEF ReactTypes
<1>2. \A i \in DOMAIN reaPosted' : i = Len(reaPosted) + 1 \/ i \in DOMAIN reaPosted
  BY <1>1
<1>3. Len(reaPosted) + 1 \in DOMAIN reaPosted' /\ \A i \in DOMAIN reaPosted : i \in DOMAIN reaPosted'
  BY <1>1
<1> QED
  BY <1>1, <1>2, <1>3 DEF Replied

\* A request ends: it made a reaction of the user, took one back, or failed.
LEMMA ReactWork ==
    ASSUME ReactInv, NEW i \in DOMAIN reaJobs, Reacting!Work(i)
    PROVE  ReactInv'
<1> DEFINE j == reaJobs[i]
<1>1. /\ reaJobs' = Reacting!RemoveAt(reaJobs, i)
      /\ UNCHANGED <<reaRows, chips, ids, wished, reaCalm>>
  BY DEF Reacting!Work, Reacting!model, Reacting!past
<1>2. ReactTypes /\ IdsFit /\ MessagesFirst
  BY DEF ReactInv
<1>3. /\ j \in Requested /\ j \in ReactJobs /\ Requested' \subseteq Requested /\ reaJobs' \in Seq(ReactJobs)
      /\ Len(reaJobs') = Len(reaJobs) - 1 /\ Len(reaJobs) \in Nat
  BY <1>1, <1>2, RequestTaken, ElementsTyped DEF ReactTypes
<1> HIDE DEF j
<1>4. /\ reaCount \in Nat /\ \A r \in reaReactions : r.id \in 1..reaCount
      /\ \A a \in Requested : a.id \in Nat /\ a.id <= reaCount
      /\ \A p \in Replied : p.id \in Nat /\ p.id <= reaCount
  <2>1. reaCount \in Nat /\ \A r \in reaReactions : r.id \in 1..reaCount
    BY <1>2 DEF ReactTypes
  <2>2. \A a \in Requested : a.id \in Nat
    BY <1>2, ElementsTyped DEF ReactJobs
  <2>3. \A p \in Replied : p.id \in Nat
    BY <1>2, ElementsTyped DEF ReactPosts
  <2>4. \A a \in Requested : a.id <= reaCount
    BY <1>2, RequestFits
  <2>5. \A p \in Replied : p.id <= reaCount
    BY <1>2, ReplyFits
  <2> QED
    BY <2>1, <2>2, <2>3, <2>4, <2>5
<1>5. ASSUME reaCount' \in Nat, reaCount' >= reaCount, reaReactions' \subseteq Reacting!Reaction,
             \A r \in reaReactions' : r.id \in 1..reaCount',
             \A r, s \in reaReactions' : r.to = s.to /\ r.by = s.by => r = s,
             \A r \in reaReactions', x \in Messages : r.id = ids'[x] => Ours(r, x),
             \A r \in reaReactions' : r \in reaReactions \/ r.id > reaCount,
             reaNews' \in Seq(ReactNews), MessagesFirst', AllShown => AllShown',
             NEW ok \in BOOLEAN, Reacting!Outcome(j, ok),
             j.kind = "react" /\ ok => \A r \in reaReactions' : r.id = reaCount' => Ours(r, j.to),
             j.kind = "unreact" /\ ok => \A r \in reaReactions' : ~Ours(r, j.to)
      PROVE  ReactInv'
  <2> DEFINE IsIt(p) == p.kind = j.kind /\ p.to = j.to /\ p.id = reaCount' /\ p.ok = ok
  <2>1. \/ reaPosted' = reaPosted /\ Replied' = Replied
        \/ \E p \in ReactPosts : /\ IsIt(p) /\ reaPosted' = Append(reaPosted, p)
                                 /\ reaPosted' \in Seq(ReactPosts) /\ Replied' = Replied \cup {p}
                                 /\ Len(reaPosted') = Len(reaPosted) + 1
    <3>1. CASE j.kind \in {"react", "unreact"}
      <4> DEFINE p == [kind |-> j.kind, to |-> j.to, id |-> reaCount', ok |-> ok]
      <4>1. p \in ReactPosts /\ IsIt(p)
        BY <1>3, <1>5, <3>1 DEF ReactPosts, ReactJobs
      <4>2. reaPosted' = Append(reaPosted, p)
        BY <1>5, <3>1 DEF Reacting!Outcome
      <4> HIDE DEF p
      <4>3. /\ reaPosted' \in Seq(ReactPosts) /\ Replied' = Replied \cup {p}
            /\ Len(reaPosted') = Len(reaPosted) + 1
        BY <1>2, <4>1, <4>2, AnswerPosted
      <4> QED
        BY <4>1, <4>2, <4>3
    <3>2. CASE j.kind \notin {"react", "unreact"}
      BY <1>5, <3>2 DEF Reacting!Outcome, Replied
    <3> QED
      BY <3>1, <3>2
  <2>2. ReactTypes'
    <3>1. ids' \in [Messages -> 0..reaCount']
      BY <1>1, <1>2, <1>4, <1>5 DEF ReactTypes
    <3>2. reaPosted' \in Seq(ReactPosts)
      BY <1>2, <2>1 DEF ReactTypes
    <3> QED
      BY <1>1, <1>2, <1>3, <1>5, <3>1, <3>2 DEF ReactTypes
  <2>3. \A a \in Requested' :
            /\ a.id <= reaCount'
            /\ a.kind = "unreact" => \A r \in reaReactions' : r.id = a.id => Ours(r, a.to)
    BY <1>2, <1>3, <1>4, <1>5 DEF IdsFit, ReactTypes, Reacting!Reaction
  <2>4. \A p \in Replied' :
            /\ p.id <= reaCount'
            /\ p.kind = "react" /\ p.ok => \A r \in reaReactions' : r.id = p.id => Ours(r, p.to)
    <3>1. ASSUME NEW p \in Replied
          PROVE  /\ p.id <= reaCount'
                 /\ p.kind = "react" /\ p.ok => \A r \in reaReactions' : r.id = p.id => Ours(r, p.to)
      BY <1>2, <1>4, <1>5, <3>1 DEF IdsFit, ReactTypes, Reacting!Reaction
    <3>2. ASSUME NEW p \in ReactPosts, IsIt(p)
          PROVE  /\ p.id <= reaCount'
                 /\ p.kind = "react" /\ p.ok => \A r \in reaReactions' : r.id = p.id => Ours(r, p.to)
      BY <1>5, <3>2
    <3> QED
      BY <2>1, <3>1, <3>2
  <2>5. IdsFit'
    BY <1>5, <2>3, <2>4 DEF IdsFit
  <2>6. ASSUME reaCalm' PROVE AllShown' /\ OneStep' /\ Removed'
    <3>1. AllShown /\ OneStep
      BY <1>1, <2>6 DEF ReactInv
    <3>2. reaJobs # <<>>
      BY <1>2 DEF ReactTypes
    <3>3. reaPosted = <<>> /\ Replied = {}
      BY <3>1, <3>2 DEF OneStep, Replied
    <3>4. Len(reaJobs') = 0 /\ reaJobs' = <<>>
      BY <1>2, <1>3, <3>1, <3>2 DEF OneStep, ReactTypes
    <3>5. Len(reaPosted') <= 1
      <4>1. Len(reaPosted) = 0
        BY <3>3
      <4>2. CASE reaPosted' = reaPosted
        BY <4>1, <4>2
      <4>3. CASE Len(reaPosted') = Len(reaPosted) + 1
        BY <4>1, <4>3
      <4> QED
        BY <2>1, <4>2, <4>3
    <3>6. Removed'
      BY <1>5, <2>1, <3>3 DEF Removed
    <3> QED
      BY <1>5, <3>1, <3>4, <3>5, <3>6 DEF OneStep
  <2> QED
    BY <1>5, <2>2, <2>5, <2>6 DEF ReactInv
<1>6. CASE /\ j.kind \in {"send", "react"} /\ Reacting!Add("me", j.to) /\ Reacting!Outcome(j, TRUE)
  <2>1. "me" \in Reacting!Users /\ j.to \in Messages
    BY <1>3 DEF Reacting!Users, ReactJobs
  <2>2. /\ reaCount' = reaCount + 1 /\ reaNews' \in Seq(ReactNews) /\ MessagesFirst'
        /\ reaReactions' = reaReactions \cup {[to |-> j.to, by |-> "me", id |-> reaCount']}
        /\ reaReactions' \subseteq Reacting!Reaction
        /\ \A r \in reaReactions' : r.id \in 1..reaCount'
        /\ \A r, s \in reaReactions' : r.to = s.to /\ r.by = s.by => r = s
        /\ \A r \in reaReactions', x \in Messages : r.id = ids'[x] => Ours(r, x)
        /\ AllShown => AllShown'
    BY <1>1, <1>2, <1>6, <2>1, ReactionMade
  <2>3. \A r \in reaReactions' : r \in reaReactions \/ (r.id = reaCount + 1 /\ Ours(r, j.to))
    BY <2>2 DEF Ours
  <2>4. \A r \in reaReactions' : r.id = reaCount' => Ours(r, j.to)
    BY <1>4, <2>2, <2>3
  <2>5. reaCount' \in Nat /\ reaCount' >= reaCount /\ reaCount + 1 > reaCount
    BY <1>4, <2>2
  <2> QED
    BY <1>5, <1>6, <2>2, <2>3, <2>4, <2>5
<1>7. CASE /\ j.kind \in {"redact", "unreact"} /\ Reacting!Redact(j.id) /\ Reacting!Outcome(j, TRUE)
           /\ \E r \in reaReactions : r.id = j.id
  <2>1. /\ reaCount' = reaCount /\ reaNews' \in Seq(ReactNews) /\ MessagesFirst'
        /\ reaReactions' = {r \in reaReactions : r.id # j.id}
        /\ AllShown => AllShown'
    BY <1>1, <1>2, <1>3, <1>4, <1>7, ReactionRedacted
  <2>2. /\ reaReactions' \subseteq reaReactions /\ reaReactions \subseteq Reacting!Reaction
        /\ \A r, s \in reaReactions' : r.to = s.to /\ r.by = s.by => r = s
        /\ \A r \in reaReactions', x \in Messages : r.id = ids'[x] => Ours(r, x)
    BY <1>1, <1>2, <2>1 DEF IdsFit, ReactTypes
  <2>3. j.kind = "unreact" => \A r \in reaReactions' : ~Ours(r, j.to)
    <3>1. ASSUME j.kind = "unreact" PROVE \A r \in reaReactions' : ~Ours(r, j.to)
      <4>1. PICK r0 \in reaReactions : r0.id = j.id
        BY <1>7
      <4>2. Ours(r0, j.to)
        BY <1>2, <1>3, <3>1, <4>1, RequestFits
      <4> QED
        BY <1>2, <2>1, <4>1, <4>2 DEF IdsFit, Ours
    <3> QED
      BY <3>1
  <2>4. /\ reaCount' \in Nat /\ reaCount' >= reaCount /\ reaReactions' \subseteq Reacting!Reaction
        /\ \A r \in reaReactions' : r.id \in 1..reaCount'
        /\ \A r \in reaReactions' : r \in reaReactions \/ r.id > reaCount
    BY <1>4, <2>1, <2>2
  <2>5. j.kind # "react"
    BY <1>7
  <2> QED
    BY <1>5, <1>7, <2>1, <2>2, <2>3, <2>4, <2>5
<1>8. ASSUME UNCHANGED Reacting!server, Reacting!Outcome(j, FALSE) PROVE ReactInv'
  <2>1. UNCHANGED <<reaReactions, reaCount, reaNews>>
    BY <1>8 DEF Reacting!server
  <2>2. /\ reaReactions \subseteq Reacting!Reaction /\ reaNews \in Seq(ReactNews)
        /\ \A r, s \in reaReactions : r.to = s.to /\ r.by = s.by => r = s
        /\ \A r \in reaReactions, x \in Messages : r.id = ids'[x] => Ours(r, x)
    BY <1>1, <1>2 DEF IdsFit, ReactTypes
  <2>3. MessagesFirst' /\ (AllShown => AllShown')
    BY <1>1, <1>2, <2>1 DEF MessagesFirst, AllShown, WillBeTold
  <2>4. /\ reaCount' \in Nat /\ reaCount' >= reaCount /\ reaReactions' \subseteq Reacting!Reaction
        /\ reaNews' \in Seq(ReactNews)
        /\ \A r \in reaReactions' : r.id \in 1..reaCount'
        /\ \A r \in reaReactions' : r \in reaReactions \/ r.id > reaCount
        /\ \A r, s \in reaReactions' : r.to = s.to /\ r.by = s.by => r = s
        /\ \A r \in reaReactions', x \in Messages : r.id = ids'[x] => Ours(r, x)
    BY <1>4, <2>1, <2>2
  <2> QED
    BY <1>5, <1>8, <2>3, <2>4
<1>9. \/ /\ Reacting!Possible(j) /\ Reacting!Outcome(j, TRUE)
         /\ IF j.kind \in {"send", "react"} THEN Reacting!Add("me", j.to) ELSE Reacting!Redact(j.id)
      \/ UNCHANGED Reacting!server /\ Reacting!Outcome(j, FALSE)
  BY DEF Reacting!Work, j
<1> QED
  BY <1>3, <1>6, <1>7, <1>8, <1>9 DEF Reacting!Possible, ReactJobs, Reacting!Kinds

\* An answer is taken: it adds the user to the chip, or takes him off it.
LEMMA ReactDeliver == ReactInv /\ Reacting!Deliver => ReactInv'
<1> SUFFICES ASSUME ReactInv, Reacting!Deliver PROVE ReactInv'
  OBVIOUS
<1> DEFINE p == Head(reaPosted)
<1>1. /\ reaPosted # <<>> /\ reaPosted' = Tail(reaPosted)
      /\ UNCHANGED <<reaReactions, reaCount, reaNews, reaRows, reaJobs, wished, reaCalm>>
  BY DEF Reacting!Deliver, Reacting!server, Reacting!past
<1>2. ReactTypes /\ IdsFit /\ MessagesFirst
  BY DEF ReactInv
<1>3. /\ p \in Replied /\ p \in ReactPosts /\ Replied' \subseteq Replied
      /\ reaPosted' \in Seq(ReactPosts) /\ Len(reaPosted') = Len(reaPosted) - 1
      /\ Len(reaPosted) \in Nat
  <2>1. reaPosted \in Seq(ReactPosts)
    BY <1>2 DEF ReactTypes
  <2>2. /\ {reaPosted[l] : l \in DOMAIN reaPosted} =
               {Tail(reaPosted)[l] : l \in DOMAIN Tail(reaPosted)} \cup {p}
        /\ p \in ReactPosts /\ Tail(reaPosted) \in Seq(ReactPosts)
        /\ Len(Tail(reaPosted)) = Len(reaPosted) - 1 /\ Len(reaPosted) \in Nat
    BY <1>1, <2>1, TailElements
  <2>3. p \in Replied /\ Replied' \subseteq Replied
    BY <1>1, <2>2 DEF Replied
  <2> QED
    BY <1>1, <2>2, <2>3
<1>4. \/ UNCHANGED <<chips, ids>>
      \/ /\ p.ok /\ p.kind = "react" /\ ids' = [ids EXCEPT ![p.to] = p.id]
         /\ chips' = Reacting!WithReactions(reaRows, {[to |-> p.to, by |-> "me"]})
      \/ /\ p.ok /\ p.kind = "unreact" /\ chips' = [chips EXCEPT ![p.to] = @ \ {"me"}]
         /\ \E n \in {0, ids[p.to]} : ids' = [ids EXCEPT ![p.to] = n]
  BY <1>2, <1>3 DEF Reacting!Deliver, ReactTypes, ReactPosts
<1> HIDE DEF p
<1>5. p.to \in Messages /\ p.id \in Nat /\ p.id <= reaCount
  BY <1>2, <1>3 DEF IdsFit, ReactPosts
<1>6. chips' \in [Messages -> SUBSET Reacting!Users]
  <2>1. chips \in [Messages -> SUBSET Reacting!Users] /\ "me" \in Reacting!Users
    BY <1>2 DEF ReactTypes, Reacting!Users
  <2> QED
    BY <1>4, <1>5, <2>1 DEF Reacting!WithReactions
<1>7. ids' \in [Messages -> 0..reaCount] /\ \A r \in reaReactions, m \in Messages :
                                               r.id = ids'[m] => Ours(r, m)
  <2>1. /\ ids \in [Messages -> 0..reaCount] /\ reaCount \in Nat
        /\ \A r \in reaReactions : r.id \in 1..reaCount
        /\ \A r \in reaReactions, m \in Messages : r.id = ids[m] => Ours(r, m)
    BY <1>2 DEF ReactTypes, IdsFit
  <2>2. CASE ids' = ids
    BY <2>1, <2>2
  <2>3. CASE p.ok /\ p.kind = "react" /\ ids' = [ids EXCEPT ![p.to] = p.id]
    <3>1. \A r \in reaReactions : r.id = p.id => Ours(r, p.to)
      BY <1>2, <1>3, <2>3 DEF IdsFit
    <3> QED
      BY <1>5, <2>1, <2>3, <3>1
  <2>4. ASSUME NEW n \in {0, ids[p.to]}, ids' = [ids EXCEPT ![p.to] = n]
        PROVE  /\ ids' \in [Messages -> 0..reaCount]
               /\ \A r \in reaReactions, m \in Messages : r.id = ids'[m] => Ours(r, m)
    BY <1>5, <2>1, <2>4
  <2> QED
    BY <1>4, <2>2, <2>3, <2>4
<1>8. ReactTypes'
  BY <1>1, <1>2, <1>3, <1>6, <1>7 DEF ReactTypes
<1>9. IdsFit' /\ MessagesFirst'
  <2>1. Requested' = Requested
    BY <1>1 DEF Requested
  <2> QED
    BY <1>1, <1>2, <1>3, <1>7, <2>1 DEF IdsFit, MessagesFirst
<1>10. ASSUME reaCalm' PROVE AllShown' /\ OneStep' /\ Removed'
  <2>1. AllShown /\ OneStep /\ Removed
    BY <1>1, <1>10 DEF ReactInv
  <2>2. OneStep'
    BY <1>1, <1>3, <2>1 DEF OneStep
  <2>3. Removed'
    BY <1>1, <1>3, <2>1 DEF Removed
  <2>4. ASSUME NEW r \in reaReactions, r.by \in chips[r.to] PROVE r.by \in chips'[r.to]
    <3>1. /\ r.to \in Messages /\ chips \in [Messages -> SUBSET Reacting!Users]
      BY <1>2 DEF ReactTypes, Reacting!Reaction
    <3>2. CASE p.ok /\ p.kind = "unreact" /\ chips' = [chips EXCEPT ![p.to] = @ \ {"me"}]
      <4>1. ~Ours(r, p.to)
        BY <1>3, <2>1, <3>2 DEF Removed
      <4> QED
        BY <1>5, <2>4, <3>1, <3>2, <4>1 DEF Ours
    <3>3. CASE chips' = Reacting!WithReactions(reaRows, {[to |-> p.to, by |-> "me"]})
      BY <2>4, <3>1, <3>3 DEF Reacting!WithReactions
    <3> QED
      BY <1>4, <2>4, <3>2, <3>3
  <2>5. AllShown'
    BY <1>1, <2>1, <2>4 DEF AllShown, WillBeTold
  <2> QED
    BY <2>2, <2>3, <2>5
<1> QED
  BY <1>8, <1>9, <1>10 DEF ReactInv

\* A batch of events is told: its reactions are to messages that have a row by then.
LEMMA ReactSync == ReactInv /\ Reacting!Sync => ReactInv'
<1> SUFFICES ASSUME ReactInv, Reacting!Sync PROVE ReactInv'
  OBVIOUS
<1>1. PICK n \in 1..Len(reaNews) : /\ Reacting!AppendTimeline(SubSeq(reaNews, 1, n))
                                   /\ reaNews' = SubSeq(reaNews, n + 1, Len(reaNews))
  BY DEF Reacting!Sync
<1>2. UNCHANGED <<reaReactions, reaCount, reaJobs, reaPosted, ids, wished, reaCalm>>
  BY <1>1 DEF Reacting!Sync, Reacting!AppendTimeline, Reacting!past
<1>3. ReactTypes /\ IdsFit /\ MessagesFirst
  BY DEF ReactInv
<1> DEFINE batch == SubSeq(reaNews, 1, n)
<1>4. /\ reaNews \in Seq(ReactNews) /\ Len(reaNews) \in Nat /\ DOMAIN reaNews = 1..Len(reaNews)
      /\ n \in 1..Len(reaNews)
  BY <1>3 DEF ReactTypes
<1>5. /\ DOMAIN batch = 1..n /\ \A i \in 1..n : batch[i] = reaNews[i]
      /\ DOMAIN reaNews' = 1..(Len(reaNews) - n) /\ reaNews' \in Seq(ReactNews)
      /\ \A i \in 1..(Len(reaNews) - n) : reaNews'[i] = reaNews[i + n]
  <2>1. DOMAIN batch = 1..n /\ \A i \in 1..n : batch[i] = reaNews[i]
    BY <1>4
  <2>2. /\ DOMAIN reaNews' = 1..(Len(reaNews) - n) /\ reaNews' \in Seq(ReactNews)
        /\ \A i \in 1..(Len(reaNews) - n) : reaNews'[i] = reaNews[i + n]
    BY <1>1, <1>4
  <2> QED
    BY <2>1, <2>2
<1>6. Reacting!ToSet(batch) = {reaNews[i] : i \in 1..n}
  BY <1>5 DEF Reacting!ToSet
<1>7. /\ reaRows' = reaRows \cup {e.to : e \in {x \in {reaNews[i] : i \in 1..n} : x.kind = "message"}}
      /\ chips' = [m \in Messages |->
                       IF m \in reaRows'
                       THEN chips[m] \cup {r.by : r \in {x \in {y \in {reaNews[i] : i \in 1..n} :
                                                                    y.kind = "reaction"} : x.to = m}}
                       ELSE chips[m]]
  BY <1>1, <1>6 DEF Reacting!AppendTimeline, Reacting!Told, Reacting!WithReactions
<1> HIDE DEF batch
<1>8. \A i \in 1..n : reaNews[i] \in ReactNews
  BY <1>4
<1>9. chips' \in [Messages -> SUBSET Reacting!Users]
  <2>1. chips \in [Messages -> SUBSET Reacting!Users]
    BY <1>3 DEF ReactTypes
  <2>2. \A i \in 1..n : reaNews[i].by \in Reacting!Users
    BY <1>8 DEF ReactNews
  <2> QED
    BY <1>7, <2>1, <2>2
<1>10. ReactTypes'
  BY <1>2, <1>3, <1>5, <1>9 DEF ReactTypes
<1>11. IdsFit'
  BY <1>2, <1>3 DEF IdsFit, Requested, Replied
<1>12. MessagesFirst'
  <2>1. ASSUME NEW i \in DOMAIN reaNews', NEW k \in DOMAIN reaNews',
               reaNews'[i].kind = "message", reaNews'[k].kind # "message"
        PROVE  i < k
    <3>1. /\ i + n \in DOMAIN reaNews /\ reaNews'[i] = reaNews[i + n]
          /\ k + n \in DOMAIN reaNews /\ reaNews'[k] = reaNews[k + n]
      BY <1>4, <1>5
    <3>2. i + n < k + n
      BY <1>3, <2>1, <3>1 DEF MessagesFirst
    <3> QED
      BY <1>4, <1>5, <3>2
  <2>2. ASSUME NEW m \in Messages
        PROVE  m \in reaRows' \/ \E i \in DOMAIN reaNews' : reaNews'[i].kind = "message" /\ reaNews'[i].to = m
    <3>1. CASE m \in reaRows
      BY <1>7, <3>1
    <3>2. ASSUME NEW i \in DOMAIN reaNews, reaNews[i].kind = "message", reaNews[i].to = m, i <= n
          PROVE  m \in reaRows'
      BY <1>4, <1>7, <3>2
    <3>3. ASSUME NEW i \in DOMAIN reaNews, reaNews[i].kind = "message", reaNews[i].to = m, ~(i <= n)
          PROVE  \E l \in DOMAIN reaNews' : reaNews'[l].kind = "message" /\ reaNews'[l].to = m
      <4>1. i - n \in DOMAIN reaNews' /\ reaNews'[i - n] = reaNews[i]
        BY <1>4, <1>5, <3>3
      <4> QED
        BY <3>3, <4>1
    <3> QED
      BY <1>3, <3>1, <3>2, <3>3 DEF MessagesFirst
  <2> QED
    BY <2>1, <2>2 DEF MessagesFirst
<1>13. ASSUME reaCalm' PROVE AllShown' /\ OneStep' /\ Removed'
  <2>1. AllShown /\ OneStep /\ Removed
    BY <1>2, <1>13 DEF ReactInv
  <2>2. OneStep' /\ Removed'
    BY <1>2, <2>1 DEF OneStep, Removed, Replied
  <2>3. ASSUME NEW r \in reaReactions PROVE r.by \in chips'[r.to] \/ WillBeTold(r)'
    <3>1. r.to \in Messages
      BY <1>3 DEF ReactTypes, Reacting!Reaction
    <3>2. CASE r.by \in chips[r.to]
      BY <1>7, <3>1, <3>2
    <3>3. ASSUME NEW i \in DOMAIN reaNews, reaNews[i].kind = "reaction", reaNews[i].to = r.to,
                 reaNews[i].by = r.by
          PROVE  r.by \in chips'[r.to] \/ WillBeTold(r)'
      <4>1. CASE i <= n
        <5>1. r.to \in reaRows'
          <6>1. CASE r.to \in reaRows
            BY <1>7, <6>1
          <6>2. ASSUME NEW k \in DOMAIN reaNews, reaNews[k].kind = "message", reaNews[k].to = r.to
                PROVE  r.to \in reaRows'
            <7>1. k < i
              BY <1>3, <3>3, <6>2 DEF MessagesFirst
            <7>2. k \in 1..n
              BY <1>4, <4>1, <7>1
            <7> QED
              BY <1>7, <6>2, <7>2
          <6> QED
            BY <1>3, <3>1, <6>1, <6>2 DEF MessagesFirst
        <5>2. i \in 1..n
          BY <1>4, <4>1
        <5> QED
          BY <1>7, <3>1, <3>3, <5>1, <5>2
      <4>2. CASE ~(i <= n)
        <5>1. i - n \in DOMAIN reaNews' /\ reaNews'[i - n] = reaNews[i]
          BY <1>4, <1>5, <4>2
        <5> QED
          BY <3>3, <5>1 DEF WillBeTold
      <4> QED
        BY <4>1, <4>2
    <3> QED
      BY <2>1, <3>2, <3>3 DEF AllShown, WillBeTold
  <2>4. AllShown'
    BY <1>2, <2>3 DEF AllShown
  <2> QED
    BY <2>2, <2>4
<1> QED
  BY <1>10, <1>11, <1>12, <1>13 DEF ReactInv

LEMMA ReactStep == ReactInv /\ [Reacting!Next]_(Reacting!vars) => ReactInv'
<1> SUFFICES ASSUME ReactInv, [Reacting!Next]_(Reacting!vars) PROVE ReactInv'
  OBVIOUS
<1>1. CASE UNCHANGED Reacting!vars
  BY <1>1 DEF Reacting!vars, ReactInv, ReactTypes, IdsFit, Requested, Replied, MessagesFirst, AllShown,
              WillBeTold, OneStep, Removed
<1> QED
  BY <1>1, ReactOther, ReactUser, ReactWork, ReactDeliver, ReactSync DEF Reacting!Next

(***************************************************************************)
(* Every reaction of the homeserver is shown when everything was told, if  *)
(* the user waits for the end of each step.                                *)
(***************************************************************************)
THEOREM ReactionsComplete ==
    ASSUME IsFiniteSet(Messages)
    PROVE  Reacting!Spec => []Reacting!ReactionsShown
<1>1. ReactInv => Reacting!ReactionsShown
  BY DEF ReactInv, AllShown, WillBeTold, Reacting!ReactionsShown, Reacting!Quiet
<1> QED
  BY <1>1, ReactInit, ReactStep, PTL DEF Reacting!Spec

-----------------------------------------------------------------------------
(***************************************************************************)
(* The toolbar (Toolbar): the device identity is regenerated only when     *)
(* somebody agreed to it, and the sessions and the homeserver follow it.   *)
(***************************************************************************)
ToolBoxes     == Tools!Questions \cup {"told"}
ToolCallbacks == [kind : Tools!Requests \ {"upload"}, result : Tools!Results]

\* The homeserver accepted a deletion whose answer is not delivered yet.
Deletion == [kind |-> "delete", result |-> "ok"]

-----------------------------------------------------------------------------
(***************************************************************************)
(* Type correctness                                                        *)
(***************************************************************************)
LEMMA InitTool == Tools!ConstantsOK /\ Tools!Init => Tools!TypeOK
<1> SUFFICES ASSUME Tools!ConstantsOK, Tools!Init PROVE Tools!TypeOK
  OBVIOUS
<1>1. toolBoxes = <<>> /\ toolJobs = <<>> /\ toolPosted = <<>> /\ toolFuel \in [Tools!Steps -> Nat]
  BY DEF Tools!ConstantsOK, Tools!Init
<1>2. identity = 1 /\ outbound = 1 /\ published = 1 /\ 1 \in Nat \ {0} /\ 1 \in 0..1
  BY DEF Tools!Init
<1>3. /\ toolBoxes \in Seq(ToolBoxes) /\ toolJobs \in Seq(Tools!Requests)
      /\ toolPosted \in Seq(ToolCallbacks)
  BY <1>1
<1>4. /\ toolVerified = 0 /\ confirmed = 0 /\ unsent = FALSE /\ relogin = FALSE
      /\ room = NoRoom /\ log = NoRoom /\ label = "empty"
  BY DEF Tools!Init
<1> QED
  BY <1>1, <1>2, <1>3, <1>4 DEF Tools!TypeOK, ToolBoxes, ToolCallbacks

\* Spending from a budget leaves a budget.
LEMMA SpendTool ==
    ASSUME toolFuel \in [Tools!Steps -> Nat], NEW step \in Tools!Steps, Tools!Spend(step)
    PROVE  toolFuel' \in [Tools!Steps -> Nat]
  BY DEF Tools!Spend

\* A reset.
LEMMA ProceedTool ==
    ASSUME Tools!TypeOK, NEW stack \in Seq(ToolBoxes), NEW queue \in Seq(Tools!Requests),
           Tools!ProceedWithReset(stack, queue)
    PROVE  /\ toolBoxes' \in Seq(ToolBoxes) /\ toolJobs' \in Seq(Tools!Requests) /\ label' = "reset"
           /\ identity' \in Nat \ {0} /\ outbound' \in 0..identity' /\ published' \in 0..identity'
<1>1. toolBoxes' \in Seq(ToolBoxes) /\ toolJobs' \in Seq(Tools!Requests)
  BY DEF Tools!ProceedWithReset, ToolBoxes, Tools!Requests
<1>2. identity' \in Nat \ {0} /\ outbound' \in 0..identity' /\ published' \in 0..identity'
  BY DEF Tools!ProceedWithReset, Tools!TypeOK
<1> QED
  BY <1>1, <1>2 DEF Tools!ProceedWithReset

LEMMA AcceptTool == Tools!TypeOK /\ Tools!Accept => Tools!TypeOK'
<1> SUFFICES ASSUME Tools!TypeOK, Tools!Accept PROVE Tools!TypeOK'
  OBVIOUS
<1>1. /\ toolBoxes \in Seq(ToolBoxes) /\ toolBoxes # <<>>
      /\ Tools!Front(toolBoxes) \in Seq(ToolBoxes) /\ toolJobs \in Seq(Tools!Requests)
  BY FrontProperties DEF Tools!Accept, Tools!TypeOK, ToolBoxes, Tools!Front, Front
<1>2. UNCHANGED <<toolPosted, relogin, room, log, toolVerified, unsent, toolFuel>>
  BY DEF Tools!Accept, Tools!chat
<1>3. CASE Tools!ProceedWithReset(Tools!Front(toolBoxes), toolJobs) /\ confirmed' = confirmed + 1
  <2>1. /\ toolBoxes' \in Seq(ToolBoxes) /\ toolJobs' \in Seq(Tools!Requests) /\ label' = "reset"
        /\ identity' \in Nat \ {0} /\ outbound' \in 0..identity' /\ published' \in 0..identity'
    BY <1>1, <1>3, ProceedTool
  <2>2. confirmed' \in Nat
    BY <1>3 DEF Tools!TypeOK
  <2> QED
    BY <1>2, <2>1, <2>2 DEF Tools!TypeOK, ToolBoxes
<1>4. ASSUME UNCHANGED <<Tools!keys, confirmed>>, toolBoxes' \in Seq(ToolBoxes),
             toolJobs' \in Seq(Tools!Requests),
             label' \in {label, "creating", "joining"}
      PROVE  Tools!TypeOK'
  BY <1>2, <1>4 DEF Tools!TypeOK, ToolBoxes, Tools!keys
<1>5. \A x \in ToolBoxes : Append(Tools!Front(toolBoxes), x) \in Seq(ToolBoxes)
  BY <1>1
<1>6. \A x \in Tools!Requests : Append(toolJobs, x) \in Seq(Tools!Requests)
  BY <1>1
<1>7. CASE ~(Tools!ProceedWithReset(Tools!Front(toolBoxes), toolJobs) /\ confirmed' = confirmed + 1)
  <2>1. UNCHANGED <<Tools!keys, confirmed>> /\ label' \in {label, "creating", "joining"}
    BY <1>7 DEF Tools!Accept, Tools!keys
  <2>2. \/ toolBoxes' = Tools!Front(toolBoxes)
        \/ \E x \in ToolBoxes : toolBoxes' = Append(Tools!Front(toolBoxes), x)
    BY <1>7 DEF Tools!Accept, Tools!Instead, Tools!Start, ToolBoxes, Tools!Questions
  <2>3. UNCHANGED toolJobs \/ \E x \in Tools!Requests : toolJobs' = Append(toolJobs, x)
    BY <1>7 DEF Tools!Accept, Tools!Instead, Tools!Start, Tools!Requests
  <2> QED
    BY <1>1, <1>4, <1>5, <1>6, <2>1, <2>2, <2>3
<1> QED
  BY <1>3, <1>7

LEMMA RefuseTool == Tools!TypeOK /\ Tools!Refuse => Tools!TypeOK'
<1> SUFFICES ASSUME Tools!TypeOK, Tools!Refuse PROVE Tools!TypeOK'
  OBVIOUS
<1>1. Tools!Front(toolBoxes) \in Seq(ToolBoxes) /\ Append(toolJobs, "chat") \in Seq(Tools!Requests)
  BY FrontProperties DEF Tools!Refuse, Tools!TypeOK, ToolBoxes, Tools!Requests, Tools!Front, Front
<1> QED
  BY <1>1 DEF Tools!Refuse, Tools!Start, Tools!TypeOK, ToolBoxes, Tools!keys, Tools!chat, Tools!past

LEMMA WorkTool == ASSUME Tools!TypeOK, NEW i \in DOMAIN toolJobs, Tools!Work(i) PROVE Tools!TypeOK'
<1>1. toolJobs' \in Seq(Tools!Requests)
  BY RemoveAtProperties DEF Tools!Work, Tools!TypeOK, Tools!RemoveAt, RemoveAt
<1>2. toolPosted' \in Seq(ToolCallbacks)
  <2>1. toolPosted \in Seq(ToolCallbacks)
    BY DEF Tools!TypeOK, ToolCallbacks
  <2>2. toolPosted' = toolPosted \/ \E c \in ToolCallbacks : toolPosted' = Append(toolPosted, c)
    BY DEF Tools!Work, Tools!Delete, ToolCallbacks, Tools!Requests, Tools!Results
  <2> QED
    BY <2>1, <2>2
<1>3. toolFuel' \in [Tools!Steps -> Nat]
  BY SpendTool DEF Tools!Work, Tools!Delete, Tools!Upload, Tools!Steps, Tools!TypeOK
<1>4. published' \in 0..identity /\ toolVerified' \in Nat /\ unsent' \in BOOLEAN
  <2>1. /\ published' = published \/ published' = 0 \/ published' = identity
        /\ toolVerified' = toolVerified \/ toolVerified' = toolVerified + 1
        /\ unsent' = unsent \/ unsent' = TRUE
    BY DEF Tools!Work, Tools!Delete, Tools!Upload
  <2>2. published' \in 0..identity
    BY <2>1 DEF Tools!TypeOK
  <2>3. toolVerified' \in Nat
    BY <2>1 DEF Tools!TypeOK
  <2>4. unsent' \in BOOLEAN
    BY <2>1, Zenon DEF Tools!TypeOK
  <2> QED
    BY <2>2, <2>3, <2>4
<1> QED
  BY <1>1, <1>2, <1>3, <1>4 DEF Tools!Work, Tools!TypeOK, ToolCallbacks, Tools!chat

LEMMA DeliverTool == Tools!TypeOK /\ Tools!Deliver => Tools!TypeOK'
<1> SUFFICES ASSUME Tools!TypeOK, Tools!Deliver PROVE Tools!TypeOK'
  OBVIOUS
<1>1. /\ toolPosted' \in Seq(ToolCallbacks)
      /\ UNCHANGED <<room, log, toolVerified, confirmed, unsent, toolFuel>>
  BY DEF Tools!Deliver, Tools!TypeOK, ToolCallbacks, Tools!chat, Tools!past
<1>2. CASE Tools!ProceedWithReset(toolBoxes, toolJobs) /\ UNCHANGED relogin
  BY <1>1, <1>2, ProceedTool DEF Tools!TypeOK, ToolBoxes, ToolCallbacks
<1>3. CASE ~(Tools!ProceedWithReset(toolBoxes, toolJobs) /\ UNCHANGED relogin)
  <2>1. UNCHANGED <<toolJobs, Tools!keys>> /\ label' \in {label, "expired"} /\ relogin' \in {relogin, TRUE}
    BY <1>3 DEF Tools!Deliver, Tools!OnDeleted, Tools!OnChat, Tools!OnJoined
  <2>2. UNCHANGED toolBoxes \/ \E x \in ToolBoxes : toolBoxes' = Append(toolBoxes, x)
    BY <1>3 DEF Tools!Deliver, Tools!OnDeleted, Tools!OnChat, Tools!OnJoined, ToolBoxes, Tools!Questions
  <2>3. toolBoxes' \in Seq(ToolBoxes)
    <3>1. toolBoxes \in Seq(ToolBoxes)
      BY DEF Tools!TypeOK, ToolBoxes
    <3> QED
      BY <2>2, <3>1
  <2> QED
    BY <1>1, <2>1, <2>3 DEF Tools!TypeOK, ToolBoxes, ToolCallbacks, Tools!keys
<1> QED
  BY <1>2, <1>3

LEMMA NextTool == Tools!TypeOK /\ [Tools!Next]_(Tools!vars) => Tools!TypeOK'
<1> SUFFICES ASSUME Tools!TypeOK, [Tools!Next]_(Tools!vars) PROVE Tools!TypeOK'
  OBVIOUS
<1>1. ASSUME NEW q \in Tools!Questions, Tools!Click(q) PROVE Tools!TypeOK'
  <2>1. toolFuel' \in [Tools!Steps -> Nat] /\ toolBoxes' \in Seq(ToolBoxes)
    BY <1>1, SpendTool DEF Tools!Click, Tools!TypeOK, Tools!Steps, ToolBoxes
  <2> QED
    BY <1>1, <2>1 DEF Tools!Click, Tools!TypeOK, ToolBoxes, Tools!keys, Tools!chat, Tools!past
<1>2. ASSUME NEW r \in Rooms, Tools!Select(r) PROVE Tools!TypeOK'
  <2>1. toolFuel' \in [Tools!Steps -> Nat]
    BY <1>2, SpendTool DEF Tools!Select, Tools!TypeOK, Tools!Steps
  <2> QED
    BY <1>2, <2>1 DEF Tools!Select, Tools!TypeOK, Tools!keys, Tools!past
<1>3. CASE Tools!Encrypt
  BY <1>3 DEF Tools!Encrypt, Tools!TypeOK, Tools!chat, Tools!past
<1>4. CASE Tools!OnToggleChatLog
  <2>1. toolFuel' \in [Tools!Steps -> Nat]
    BY <1>4, SpendTool DEF Tools!OnToggleChatLog, Tools!TypeOK, Tools!Steps
  <2> QED
    BY <1>4, <2>1 DEF Tools!OnToggleChatLog, Tools!TypeOK, Tools!keys, Tools!past
<1>5. CASE UNCHANGED Tools!vars
  BY <1>5 DEF Tools!vars, Tools!TypeOK
<1> QED
  BY <1>1, <1>2, <1>3, <1>4, <1>5, AcceptTool, RefuseTool, WorkTool, DeliverTool DEF Tools!Next

\* Every variable of the toolbar keeps its type; no identity is older than the
\* one an outbound session or the homeserver knows.
THEOREM ToolsTyped == ASSUME Tools!ConstantsOK PROVE Tools!Spec => []Tools!TypeOK
<1> QED
  BY InitTool, NextTool, PTL DEF Tools!Spec

-----------------------------------------------------------------------------
(***************************************************************************)
(* Authorised.  What was agreed to and did not change the identity yet is  *)
(* an accepted deletion on its way to the UI thread, one for each.         *)
(***************************************************************************)
Authorised == identity - 1 + Occurrences(toolPosted, Deletion) = toolVerified + confirmed

\* Both sides grow by as much: a is the identity, n the deletions on their way, v and c
\* what was accepted and confirmed.
LEMMA BothSides ==
    ASSUME NEW a \in Nat, NEW n \in Nat, NEW v \in Nat, NEW c \in Nat, a - 1 + n = v + c
    PROVE  a - 1 + (n + 1) = (v + 1) + c /\ (a + 1) - 1 + n = v + (c + 1)
  OBVIOUS

\* The step leaves both sides alone.
LEMMA SameAuthority ==
    ASSUME Tools!TypeOK, Authorised, UNCHANGED <<identity, toolVerified, confirmed>>,
           Occurrences(toolPosted', Deletion) = Occurrences(toolPosted, Deletion)
    PROVE  Authorised'
  BY DEF Authorised

\* Other callbacks do not count.
LEMMA OtherCallback ==
    ASSUME Tools!TypeOK, NEW kind, NEW result, ~(kind = "delete" /\ result = "ok"),
           toolPosted' = Append(toolPosted, [kind |-> kind, result |-> result])
    PROVE  Occurrences(toolPosted', Deletion) = Occurrences(toolPosted, Deletion)
<1>1. [kind |-> kind, result |-> result] # Deletion
  BY DEF Deletion
<1>2. toolPosted \in Seq(ToolCallbacks) /\ Occurrences(toolPosted, Deletion) \in Nat
  BY OccurrencesFinite DEF Tools!TypeOK, ToolCallbacks
<1> QED
  BY <1>1, <1>2, OccurrencesAppend

LEMMA AcceptAuthorised == Tools!TypeOK /\ Authorised /\ Tools!Accept => Authorised'
<1> SUFFICES ASSUME Tools!TypeOK, Authorised, Tools!Accept PROVE Authorised'
  OBVIOUS
<1>1. toolPosted' = toolPosted /\ toolVerified' = toolVerified
  BY DEF Tools!Accept
<1>2. CASE identity' = identity + 1 /\ confirmed' = confirmed + 1
  <2>1. /\ identity \in Nat /\ toolVerified \in Nat /\ confirmed \in Nat
        /\ Occurrences(toolPosted, Deletion) \in Nat
    BY OccurrencesFinite DEF Tools!TypeOK
  <2>2. identity - 1 + Occurrences(toolPosted, Deletion) = toolVerified + confirmed
    BY DEF Authorised
  <2>3. (identity + 1) - 1 + Occurrences(toolPosted, Deletion) = toolVerified + (confirmed + 1)
    BY <2>1, <2>2, BothSides
  <2> QED
    BY <1>1, <1>2, <2>3 DEF Authorised
<1>3. CASE UNCHANGED <<identity, confirmed>>
  BY <1>1, <1>3, SameAuthority
<1> QED
  BY <1>2, <1>3 DEF Tools!Accept, Tools!ProceedWithReset, Tools!keys

LEMMA WorkAuthorised ==
    ASSUME Tools!TypeOK, Authorised, NEW i \in DOMAIN toolJobs, Tools!Work(i)
    PROVE  Authorised'
<1>1. UNCHANGED <<identity, confirmed>>
  BY DEF Tools!Work
<1>2. toolPosted \in Seq(ToolCallbacks) /\ Occurrences(toolPosted, Deletion) \in Nat
      /\ identity \in Nat /\ toolVerified \in Nat /\ confirmed \in Nat
  BY OccurrencesFinite DEF Tools!TypeOK, ToolCallbacks
<1>3. CASE Tools!Delete("ok")
  <2>1. toolPosted' = Append(toolPosted, Deletion) /\ toolVerified' = toolVerified + 1
    BY <1>3 DEF Tools!Delete, Deletion
  <2>2. Occurrences(toolPosted', Deletion) = Occurrences(toolPosted, Deletion) + 1
    BY <1>2, <2>1, OccurrencesAppend
  <2>3. identity - 1 + Occurrences(toolPosted, Deletion) = toolVerified + confirmed
    BY DEF Authorised
  <2>4. identity - 1 + (Occurrences(toolPosted, Deletion) + 1) = (toolVerified + 1) + confirmed
    BY <1>2, <2>3, BothSides
  <2> QED
    BY <1>1, <2>1, <2>2, <2>4 DEF Authorised
<1>4. ASSUME NEW result \in Tools!Results \ {"ok"}, Tools!Delete(result) PROVE Authorised'
  BY <1>1, <1>4, OtherCallback, SameAuthority DEF Tools!Delete
<1>5. CASE toolPosted' = toolPosted /\ toolVerified' = toolVerified
  BY <1>1, <1>5, SameAuthority
<1>6. ASSUME NEW result, toolPosted' = Append(toolPosted, [kind |-> toolJobs[i], result |-> result]),
             toolJobs[i] # "delete", toolVerified' = toolVerified
      PROVE  Authorised'
  BY <1>1, <1>6, OtherCallback, SameAuthority
<1> QED
  BY <1>3, <1>4, <1>5, <1>6 DEF Tools!Work

LEMMA DeliverAuthorised == Tools!TypeOK /\ Authorised /\ Tools!Deliver => Authorised'
<1> SUFFICES ASSUME Tools!TypeOK, Authorised, Tools!Deliver PROVE Authorised'
  OBVIOUS
<1>1. /\ toolPosted \in Seq(ToolCallbacks) /\ toolPosted # <<>> /\ toolPosted' = Tail(toolPosted)
      /\ toolPosted' \in Seq(ToolCallbacks) /\ Head(toolPosted) \in ToolCallbacks
      /\ UNCHANGED <<toolVerified, confirmed>>
  <2>1. toolPosted # <<>> /\ toolPosted' = Tail(toolPosted) /\ UNCHANGED <<toolVerified, confirmed>>
    BY DEF Tools!Deliver, Tools!past
  <2>2. toolPosted \in Seq(ToolCallbacks)
    BY DEF Tools!TypeOK, ToolCallbacks
  <2> HIDE DEF ToolCallbacks
  <2> QED
    BY <2>1, <2>2
<1>2. /\ Occurrences(toolPosted', Deletion) \in Nat
      /\ identity \in Nat /\ toolVerified \in Nat /\ confirmed \in Nat
  BY <1>1, OccurrencesFinite DEF Tools!TypeOK
<1>3. Occurrences(toolPosted, Deletion)
          = Occurrences(toolPosted', Deletion) + IF Head(toolPosted) = Deletion THEN 1 ELSE 0
  BY <1>1, OccurrencesTail
<1>4. Head(toolPosted) = Deletion <=> Head(toolPosted).kind = "delete" /\ Head(toolPosted).result = "ok"
  BY <1>1 DEF ToolCallbacks, Deletion
<1>5. identity' = IF Head(toolPosted) = Deletion THEN identity + 1 ELSE identity
  BY <1>4 DEF Tools!Deliver, Tools!OnDeleted, Tools!OnChat, Tools!OnJoined,
         Tools!ProceedWithReset, Tools!keys
<1> QED
  BY <1>1, <1>2, <1>3, <1>5 DEF Authorised

(***************************************************************************)
(* "Wrong password = abort (truthful, no silent reset)": however many      *)
(* resets are begun, answered and confirmed in whatever order, the device  *)
(* identity was regenerated at most once for each deletion the homeserver  *)
(* accepted and for each explicit confirmation (ToolbarHandler's callback  *)
(* of deleteDevice).                                                       *)
(***************************************************************************)
THEOREM ToolsAuthorised == ASSUME Tools!ConstantsOK PROVE Tools!Spec => []Tools!ResetIsAuthorised
<1>1. Tools!ConstantsOK /\ Tools!Init => Authorised
  <2> SUFFICES ASSUME Tools!Init PROVE Authorised
    OBVIOUS
  <2>1. {i \in DOMAIN toolPosted : toolPosted[i] = Deletion} = {}
    BY DEF Tools!Init
  <2> QED
    BY <2>1, FS_EmptySet DEF Tools!Init, Authorised, Occurrences
<1>2. Tools!TypeOK /\ Authorised /\ [Tools!Next]_(Tools!vars) => Authorised'
  <2> SUFFICES ASSUME Tools!TypeOK, Authorised, [Tools!Next]_(Tools!vars) PROVE Authorised'
    OBVIOUS
  <2>1. CASE (\E q \in Tools!Questions : Tools!Click(q)) \/ (\E r \in Rooms : Tools!Select(r))
             \/ Tools!Refuse
             \/ Tools!Encrypt \/ Tools!OnToggleChatLog \/ UNCHANGED Tools!vars
    <3>1. UNCHANGED <<identity, toolVerified, confirmed, toolPosted>>
      BY <2>1 DEF Tools!Click, Tools!Select, Tools!Refuse, Tools!Encrypt,
         Tools!OnToggleChatLog, Tools!vars, Tools!keys, Tools!past
    <3> QED
      BY <3>1, SameAuthority
  <2> QED
    BY <2>1, AcceptAuthorised, WorkAuthorised, DeliverAuthorised DEF Tools!Next
<1>3. Tools!TypeOK /\ Authorised => Tools!ResetIsAuthorised
  <2> SUFFICES ASSUME Tools!TypeOK, Authorised PROVE Tools!ResetIsAuthorised
    OBVIOUS
  <2>1. /\ Occurrences(toolPosted, Deletion) \in Nat
        /\ identity \in Nat /\ toolVerified \in Nat /\ confirmed \in Nat
    BY OccurrencesFinite DEF Tools!TypeOK
  <2> QED
    BY <2>1 DEF Authorised, Tools!ResetIsAuthorised
<1> QED
  BY <1>1, <1>2, <1>3, ToolsTyped, PTL DEF Tools!Spec

-----------------------------------------------------------------------------
(***************************************************************************)
(* Known.  What the homeserver does not know yet is on its way: an upload, *)
(* or an accepted deletion that another reset will follow.                 *)
(***************************************************************************)
Uploading == \E i \in DOMAIN toolJobs : toolJobs[i] = "upload"
Deleted   == \E i \in DOMAIN toolPosted : toolPosted[i] = Deletion

KnownInv ==
    /\ outbound \in {0, identity}
    /\ published = identity \/ unsent \/ Uploading \/ Deleted

\* A reset ends in an upload.
LEMMA ProceedKnown ==
    ASSUME Tools!TypeOK, NEW stack, NEW queue \in Seq(Tools!Requests), Tools!ProceedWithReset(stack, queue)
    PROVE  KnownInv'
<1>1. toolJobs' = Append(queue, "upload") /\ outbound' = 0
  BY DEF Tools!ProceedWithReset
<1>2. Len(queue) + 1 \in DOMAIN toolJobs' /\ toolJobs'[Len(queue) + 1] = "upload"
  BY <1>1
<1> QED
  BY <1>1, <1>2 DEF KnownInv, Uploading

\* A step that loses neither.
LEMMA StaysKnown ==
    ASSUME KnownInv, UNCHANGED <<identity, published>>, outbound' \in {outbound, identity},
           unsent => unsent', Uploading => Uploading', Deleted => Deleted'
    PROVE  KnownInv'
  BY DEF KnownInv

\* Appending loses nothing.
LEMMA AppendKeeps ==
    ASSUME Tools!TypeOK
    PROVE  /\ \A x : toolJobs' = Append(toolJobs, x) => (Uploading => Uploading')
           /\ \A x : toolPosted' = Append(toolPosted, x) => (Deleted => Deleted')
<1>1. ASSUME NEW x, toolJobs' = Append(toolJobs, x), Uploading PROVE Uploading'
  <2>1. PICK i \in DOMAIN toolJobs : toolJobs[i] = "upload"
    BY <1>1 DEF Uploading
  <2>2. i \in DOMAIN toolJobs' /\ toolJobs'[i] = toolJobs[i]
    BY <1>1 DEF Tools!TypeOK
  <2> QED
    BY <2>1, <2>2 DEF Uploading
<1>2. ASSUME NEW x, toolPosted' = Append(toolPosted, x), Deleted PROVE Deleted'
  <2>1. PICK i \in DOMAIN toolPosted : toolPosted[i] = Deletion
    BY <1>2 DEF Deleted
  <2>2. i \in DOMAIN toolPosted' /\ toolPosted'[i] = toolPosted[i]
    BY <1>2 DEF Tools!TypeOK
  <2> QED
    BY <2>1, <2>2 DEF Deleted
<1> QED
  BY <1>1, <1>2

LEMMA AcceptKnown == Tools!TypeOK /\ KnownInv /\ Tools!Accept => KnownInv'
<1> SUFFICES ASSUME Tools!TypeOK, KnownInv, Tools!Accept PROVE KnownInv'
  OBVIOUS
<1>1. CASE Tools!ProceedWithReset(Tools!Front(toolBoxes), toolJobs)
  BY <1>1, ProceedKnown DEF Tools!TypeOK
<1>2. CASE UNCHANGED Tools!keys
  <2>1. UNCHANGED <<toolPosted, unsent>>
    BY DEF Tools!Accept
  <2>2. UNCHANGED toolJobs \/ \E x : toolJobs' = Append(toolJobs, x)
    BY <1>2 DEF Tools!Accept, Tools!Start, Tools!ProceedWithReset
  <2>3. Uploading => Uploading'
    BY <2>2, AppendKeeps DEF Uploading
  <2> QED
    BY <1>2, <2>1, <2>3, StaysKnown DEF Tools!keys, Deleted
<1> QED
  BY <1>1, <1>2 DEF Tools!Accept

LEMMA WorkKnown == ASSUME Tools!TypeOK, KnownInv, NEW i \in DOMAIN toolJobs, Tools!Work(i) PROVE KnownInv'
<1>1. UNCHANGED <<identity, outbound>>
  BY DEF Tools!Work
<1>2. CASE toolJobs[i] = "upload"
  <2>1. published' = identity \/ unsent' = TRUE
    BY <1>2 DEF Tools!Work, Tools!Upload
  <2> QED
    BY <1>1, <2>1 DEF KnownInv
<1>3. CASE toolJobs[i] # "upload"
  <2>1. Uploading => Uploading'
    <3>1. /\ toolJobs' = RemoveAt(toolJobs, i) /\ toolJobs \in Seq(Tools!Requests)
      BY DEF Tools!Work, Tools!TypeOK, Tools!RemoveAt, RemoveAt
    <3>2. \A m \in DOMAIN toolJobs : m # i => \E l \in DOMAIN toolJobs' : toolJobs'[l] = toolJobs[m]
      BY <3>1, RemoveAtElements
    <3> QED
      BY <1>3, <3>2 DEF Uploading
  <2>2. unsent' = unsent
    BY <1>3 DEF Tools!Work, Tools!Delete
  <2>3. CASE Tools!Delete("ok")
    <3>1. toolPosted' = Append(toolPosted, Deletion)
      BY <2>3 DEF Tools!Delete, Deletion
    <3>2. Deleted'
      BY <3>1 DEF Deleted, Tools!TypeOK
    <3> QED
      BY <1>1, <3>2 DEF KnownInv
  <2>4. CASE published' = published /\ \E x : toolPosted' = Append(toolPosted, x)
    BY <1>1, <2>1, <2>2, <2>4, AppendKeeps, StaysKnown
  <2> QED
    BY <1>3, <2>3, <2>4 DEF Tools!Work, Tools!Delete
<1> QED
  BY <1>2, <1>3

LEMMA DeliverKnown == Tools!TypeOK /\ KnownInv /\ Tools!Deliver => KnownInv'
<1> SUFFICES ASSUME Tools!TypeOK, KnownInv, Tools!Deliver PROVE KnownInv'
  OBVIOUS
<1>1. CASE Tools!ProceedWithReset(toolBoxes, toolJobs)
  BY <1>1, ProceedKnown DEF Tools!TypeOK
<1>2. CASE ~Tools!ProceedWithReset(toolBoxes, toolJobs)
  <2>1. /\ toolPosted \in Seq(ToolCallbacks) /\ toolPosted # <<>> /\ toolPosted' = Tail(toolPosted)
        /\ UNCHANGED <<unsent, toolJobs, Tools!keys>>
    BY <1>2 DEF Tools!Deliver, Tools!OnDeleted, Tools!OnChat, Tools!OnJoined,
           Tools!TypeOK, ToolCallbacks, Tools!past
  <2>2. Head(toolPosted) # Deletion
    BY <1>2 DEF Tools!Deliver, Tools!OnDeleted, Tools!OnChat, Tools!OnJoined, Deletion
  <2>3. Deleted => Deleted'
    <3>1. SUFFICES ASSUME Deleted PROVE Deleted'
      OBVIOUS
    <3>2. PICK i \in DOMAIN toolPosted : toolPosted[i] = Deletion
      BY <3>1 DEF Deleted
    <3>3. /\ DOMAIN toolPosted = 1..Len(toolPosted) /\ Len(toolPosted) \in Nat /\ i # 1
          /\ DOMAIN toolPosted' = 1..(Len(toolPosted) - 1)
          /\ \A j \in 1..(Len(toolPosted) - 1) : toolPosted'[j] = toolPosted[j + 1]
      BY <2>1, <2>2, <3>2
    <3>4. i - 1 \in DOMAIN toolPosted' /\ toolPosted'[i - 1] = Deletion
      BY <3>2, <3>3
    <3> QED
      BY <3>4 DEF Deleted
  <2> QED
    BY <2>1, <2>3, StaysKnown DEF Tools!keys, Uploading
<1> QED
  BY <1>1, <1>2

(***************************************************************************)
(* A persisted outbound session is bound to the identity the device has,   *)
(* and once nothing is under way the homeserver has that identity's keys,  *)
(* unless an upload failed: also when several resets overlap.              *)
(***************************************************************************)
THEOREM ToolsKnown == ASSUME Tools!ConstantsOK PROVE Tools!Spec => []Tools!IdentityIsKnown
<1>1. Tools!Init => KnownInv
  BY DEF Tools!Init, KnownInv
<1>2. Tools!TypeOK /\ KnownInv /\ [Tools!Next]_(Tools!vars) => KnownInv'
  <2> SUFFICES ASSUME Tools!TypeOK, KnownInv, [Tools!Next]_(Tools!vars) PROVE KnownInv'
    OBVIOUS
  <2>1. CASE (\E q \in Tools!Questions : Tools!Click(q)) \/ (\E r \in Rooms : Tools!Select(r))
             \/ Tools!Encrypt \/ Tools!OnToggleChatLog \/ UNCHANGED Tools!vars
    <3>1. /\ UNCHANGED <<identity, published, unsent, toolJobs, toolPosted>>
          /\ outbound' = outbound \/ outbound' = identity
      BY <2>1 DEF Tools!Click, Tools!Select, Tools!Encrypt,
         Tools!OnToggleChatLog, Tools!vars, Tools!keys, Tools!past
    <3> QED
      BY <3>1, StaysKnown DEF Uploading, Deleted
  <2>2. CASE Tools!Refuse
    <3>1. /\ UNCHANGED <<identity, outbound, published, unsent, toolPosted>>
          /\ UNCHANGED toolJobs \/ \E x : toolJobs' = Append(toolJobs, x)
      BY <2>2 DEF Tools!Refuse, Tools!Start, Tools!keys, Tools!past
    <3>2. Uploading => Uploading'
      BY <3>1, AppendKeeps DEF Uploading
    <3> QED
      BY <3>1, <3>2, StaysKnown DEF Deleted
  <2> QED
    BY <2>1, <2>2, AcceptKnown, WorkKnown, DeliverKnown DEF Tools!Next
<1>3. Tools!TypeOK /\ KnownInv => Tools!IdentityIsKnown
  BY DEF KnownInv, Tools!IdentityIsKnown, Uploading, Deleted
<1> QED
  BY <1>1, <1>2, <1>3, ToolsTyped, PTL DEF Tools!Spec

-----------------------------------------------------------------------------
(***************************************************************************)
(* The room list: HiddenInv says what the queues and rows are of.  A room  *)
(* has one row, and one that was an invitation has it or is hidden.        *)
(***************************************************************************)
RoomRowsFit == /\ List!IsInjective(listRows)
           /\ invite \subseteq List!ToSet(listRows) \cup hidden

PopupsFit == /\ open \in Rooms \cup {NoRoom} /\ switcher \subseteq Rooms
             /\ listOdd \subseteq Rooms /\ listFuel \in [List!Steps -> Nat]

\* A selection of distinct elements has them once.
LEMMA SelectedDistinct ==
    ASSUME NEW S, NEW s \in Seq(S), NEW K, K \subseteq DOMAIN s,
           \A i, j \in DOMAIN s : s[i] = s[j] => i = j
    PROVE  \A m, n \in 1..Cardinality(K) : Selected(s, K)[m] = Selected(s, K)[n] => m = n
<1>1. K \subseteq Nat /\ IsFiniteSet(K)
  <2>1. DOMAIN s = 1..Len(s) /\ Len(s) \in Nat
    BY LenProperties
  <2> QED
    BY <2>1, SelectedProperties
<1> DEFINE at(n) == CHOOSE i \in K : Rank(K, i) = n
<1>2. \A n \in 1..Cardinality(K) : at(n) \in K /\ Rank(K, at(n)) = n
  BY <1>1, RankOnto
<1>3. \A n \in 1..Cardinality(K) : Selected(s, K)[n] = s[at(n)]
  BY DEF Selected
<1> HIDE DEF at
<1> QED
  BY <1>2, <1>3

LEMMA RemovedDistinct ==
    ASSUME NEW s \in Seq(Rooms), NEW R, List!IsInjective(s)
    PROVE  List!IsInjective(List!RemovedRooms(s, R))
<1> DEFINE K == {i \in DOMAIN s : s[i] \notin R}
<1>1. List!RemovedRooms(s, R) = Selected(s, K)
  BY DEF List!RemovedRooms, List!Selected, Selected, List!Rank, Rank,
         List!Cardinality, Cardinality
<1>2. K \subseteq DOMAIN s /\ \A i, j \in DOMAIN s : s[i] = s[j] => i = j
  BY DEF List!IsInjective
<1> HIDE DEF K
<1>3. DOMAIN Selected(s, K) = 1..Cardinality(K)
  BY DEF Selected
<1> QED
  BY <1>1, <1>2, <1>3, SelectedDistinct DEF List!IsInjective

LEMMA UpsertedDistinct ==
    ASSUME NEW s, NEW R, NEW t \in List!Upserts(s, R) PROVE List!IsInjective(t)
  BY DEF List!Upserts, List!Extended

\* A response is applied; a command has succeeded, or failed.
LEMMA RowsOfUpdate ==
    ASSUME List!ConstantsOK, ListTypes, RoomRowsFit, NEW u \in ListUpdate, List!Apply(u)
    PROVE  RoomRowsFit'
<1> DEFINE kept == List!RemovedRooms(listRows, List!ToRemove(u))
<1>1. /\ listRows' \in List!Upserts(kept, List!ToUpsert(u)) /\ hidden' = hidden
      /\ invite' \subseteq (invite \ DOMAIN u.rooms) \cup List!ToUpsert(u)
  BY DEF List!Apply
<1>2. /\ List!ToUpsert(u) \in SUBSET Rooms /\ List!ToRemove(u) \subseteq DOMAIN u.rooms
  BY DEF List!ToUpsert, List!ToRemove, ListUpdate
<1>3. kept \in Seq(Rooms) /\ List!ToSet(kept) = List!ToSet(listRows) \ List!ToRemove(u)
  BY RemovedRows, RemovedExactly DEF ListTypes
<1> HIDE DEF kept
<1>4. List!ToSet(listRows') = List!ToSet(kept) \cup (List!ToUpsert(u) \ hidden)
  BY <1>1, <1>2, <1>3, UpsertedExactly
<1>5. invite' \subseteq List!ToSet(listRows') \cup hidden'
  BY <1>1, <1>2, <1>3, <1>4 DEF RoomRowsFit
<1>6. List!IsInjective(listRows')
  BY <1>1, UpsertedDistinct
<1> QED
  BY <1>5, <1>6 DEF RoomRowsFit, List!ToSet, List!IsInjective

LEMMA RowsOfOutcome ==
    ASSUME List!ConstantsOK, ListTypes, RoomRowsFit, NEW o \in ListOutcome, List!Outcomes(o)
    PROVE  RoomRowsFit'
<1>1. listRows \in Seq(Rooms) /\ o.room \in Rooms
  BY DEF ListTypes, ListOutcome
<1>2. CASE List!Dropped(o.room)
  <2>1. /\ List!ToSet(listRows') = List!ToSet(listRows) \ {o.room} /\ List!IsInjective(listRows')
        /\ hidden' = hidden \ {o.room} /\ invite' = invite \ {o.room}
    BY <1>1, <1>2, RemovedExactly, RemovedDistinct DEF List!Dropped, RoomRowsFit
  <2> QED
    BY <2>1 DEF RoomRowsFit, List!ToSet, List!IsInjective
<1>3. CASE List!Browsed(o.room)
  <2>1. /\ listRows' \in List!Upserts(listRows, {o.room}) /\ hidden' = hidden
        /\ invite' = invite \ {o.room} /\ {o.room} \in SUBSET Rooms
    BY <1>1, <1>3 DEF List!Browsed
  <2>2. List!ToSet(listRows') = List!ToSet(listRows) \cup ({o.room} \ hidden)
    BY <1>1, <2>1, UpsertedExactly
  <2>3. List!IsInjective(listRows')
    BY <2>1, UpsertedDistinct
  <2> QED
    BY <2>1, <2>2, <2>3 DEF RoomRowsFit, List!ToSet, List!IsInjective
<1>4. CASE UNCHANGED <<listRows, hidden>> /\ invite' \subseteq invite
  BY <1>4 DEF RoomRowsFit, List!ToSet, List!IsInjective
<1>5. CASE List!Accepted(o.room)
  BY <1>4, <1>5 DEF List!Accepted
<1>6. CASE ~o.ok
  BY <1>4, <1>6 DEF List!Outcomes, List!list
<1>7. o.kind \in {"leave", "accept", "reject", "forget", "browse"}
  BY DEF ListOutcome, Commands
<1> QED
  BY <1>2, <1>3, <1>5, <1>6, <1>7 DEF List!Outcomes

LEMMA RowsStep ==
    ASSUME List!ConstantsOK, ListTypes, RoomRowsFit, List!Next PROVE RoomRowsFit'
<1>1. CASE UNCHANGED List!list
  BY <1>1 DEF List!list, RoomRowsFit, List!ToSet, List!IsInjective
<1>2. ASSUME NEW kind \in List!Kinds, List!Choose(kind) PROVE RoomRowsFit'
  <2>1. PICK r \in List!Pointed : IF kind = "hide" THEN List!Hide(r) ELSE UNCHANGED List!list
    BY <1>2 DEF List!Choose
  <2>2. CASE List!Hide(r)
    <3>1. /\ hidden' = hidden \cup {r} /\ invite' = invite \ {r}
          /\ List!ToSet(listRows') = List!ToSet(listRows) \ {r} /\ List!IsInjective(listRows')
      BY <2>2, RemovedExactly, RemovedDistinct DEF List!Hide, ListTypes, RoomRowsFit
    <3> QED
      BY <3>1 DEF RoomRowsFit, List!ToSet, List!IsInjective
  <2> QED
    BY <1>1, <2>1, <2>2
<1>3. CASE List!Deliver
  <2> DEFINE e == Head(listPosted)
  <2>1. e \in ListOutcome \cup ListUpdate
    BY <1>3 DEF List!Deliver, ListTypes
  <2>2. \/ e.what = "update" /\ List!Apply(e)
        \/ e.what = "outcome" /\ List!Outcomes(e)
    BY <1>3 DEF List!Deliver
  <2> HIDE DEF e
  <2>3. /\ e.what = "update" => e \in ListUpdate
        /\ e.what = "outcome" => e \in ListOutcome
    BY <2>1 DEF ListOutcome, ListUpdate
  <2> QED
    BY <2>2, <2>3, RowsOfUpdate, RowsOfOutcome
<1>4. List!Next => \/ List!Deliver \/ \E kind \in List!Kinds : List!Choose(kind)
                   \/ UNCHANGED List!list
  BY DEF List!Next, List!Change, List!OpenRoom, List!PickRoom, List!Browse, List!OpenSwitcher,
         List!RejectSwitcher, List!Respond, List!Handle, List!Prepare, List!OpenMenu,
         List!DismissMenu, List!Request
<1> QED
  BY <1>1, <1>2, <1>3, <1>4

LEMMA ListSpend ==
    ASSUME PopupsFit, NEW step \in List!Steps, List!Spend(step)
    PROVE  listFuel' \in [List!Steps -> Nat]
  BY DEF PopupsFit, List!Spend

LEMMA PopupsStep ==
    ASSUME ListTypes, PopupsFit, List!Next PROVE PopupsFit'
<1>1. List!ToSet(listRows) \subseteq Rooms
  <2>1. \A i \in DOMAIN listRows : listRows[i] \in Rooms
    BY ElementOfSeq DEF ListTypes
  <2> QED
    BY <2>1 DEF List!ToSet
<1>2. ASSUME NEW r \in Rooms, List!Change(r) \/ List!OpenRoom(r) \/ List!PickRoom(r) \/ List!Browse(r)
      PROVE  PopupsFit'
  <2>1. listFuel' \in [List!Steps -> Nat]
    BY <1>2, ListSpend DEF List!Change, List!OpenRoom, List!PickRoom, List!Browse, List!Steps
  <2>2. open' \in {open, r} /\ switcher' \in {switcher, {}} /\ listOdd' = listOdd
    BY <1>2 DEF List!Change, List!OpenRoom, List!PickRoom, List!Browse, List!popups, List!past
  <2> QED
    BY <2>1, <2>2 DEF PopupsFit
<1>3. CASE List!OpenSwitcher
  <2>1. switcher' \subseteq Rooms
    BY <1>1, <1>3 DEF List!OpenSwitcher
  <2> QED
    BY <1>3, <2>1 DEF List!OpenSwitcher, List!past, PopupsFit
<1>4. CASE List!Respond
  <2>1. listFuel' \in [List!Steps -> Nat]
    BY <1>4, ListSpend DEF List!Respond, List!Steps
  <2> QED
    BY <1>4, <2>1 DEF List!Respond, List!popups, PopupsFit
<1>5. ASSUME NEW kind \in List!Kinds, List!Choose(kind) PROVE PopupsFit'
  <2>1. listFuel' \in [List!Steps -> Nat]
    BY <1>5, ListSpend DEF List!Choose, List!Steps
  <2>2. menu.asked \in Rooms
    BY <1>5 DEF List!Choose, ListTypes, ListMenus
  <2>3. \A r \in List!Pointed : r \in Rooms
    <3>1. menu.at \in DOMAIN listRows => listRows[menu.at] \in Rooms
      BY <1>1 DEF List!ToSet
    <3> QED
      BY <2>2, <3>1 DEF List!Pointed
  <2>4. PICK r \in List!Pointed : listOdd' \in {listOdd, listOdd \cup {r, menu.asked}}
    BY <1>5 DEF List!Choose
  <2>5. listOdd' \subseteq Rooms
    BY <2>2, <2>3, <2>4 DEF PopupsFit
  <2> QED
    BY <1>5, <2>1, <2>5 DEF List!Choose, PopupsFit
<1>6. CASE List!Deliver
  <2> DEFINE e == Head(listPosted)
  <2>1. e \in ListOutcome \cup ListUpdate
    BY <1>6 DEF List!Deliver, ListTypes
  <2>2. /\ \/ e.what = "update" /\ List!Apply(e)
           \/ e.what = "outcome" /\ List!Outcomes(e)
        /\ switcher' = switcher /\ listFuel' = listFuel
    BY <1>6 DEF List!Deliver
  <2> HIDE DEF e
  <2>3. CASE e.what = "update"
    <3>1. List!Apply(e) /\ DOMAIN e.rooms \subseteq Rooms
      BY <2>1, <2>2, <2>3 DEF ListOutcome, ListUpdate
    <3>2. open' \in {open, NoRoom} /\ listOdd' \in {listOdd \cup DOMAIN e.rooms, listOdd \cup {}}
      BY <3>1 DEF List!Apply, List!CloseRemoved
    <3> QED
      BY <2>2, <3>1, <3>2 DEF PopupsFit
  <2>4. CASE e.what = "outcome"
    <3>1. List!Outcomes(e) /\ e.room \in Rooms
      BY <2>1, <2>2, <2>4 DEF ListOutcome, ListUpdate
    <3>2. open' = open /\ listOdd' \in {listOdd, listOdd \cup {e.room}}
      BY <3>1 DEF List!Outcomes
    <3> QED
      BY <2>2, <3>1, <3>2 DEF PopupsFit
  <2> QED
    BY <2>2, <2>3, <2>4
<1>7. ASSUME \/ List!RejectSwitcher \/ List!Handle \/ \E w \in workers : List!Prepare(w)
             \/ \E i \in DOMAIN listRows : List!OpenMenu(i)
             \/ List!DismissMenu \/ \E c \in commands : List!Request(c)
      PROVE  PopupsFit'
  BY <1>7 DEF List!RejectSwitcher, List!Handle, List!Prepare, List!OpenMenu, List!DismissMenu,
              List!Request, List!popups, List!past, PopupsFit
<1> QED
  BY <1>2, <1>3, <1>4, <1>5, <1>6, <1>7 DEF List!Next

\* The rows of the list are of rooms, one of each, and so are its queues.
LEMMA ListIsTyped ==
    ASSUME List!ConstantsOK
    PROVE  List!Spec => []List!TypeOK
<1>1. List!Init => HiddenInv /\ RoomRowsFit /\ PopupsFit
  <2> SUFFICES ASSUME List!Init PROVE HiddenInv /\ RoomRowsFit /\ PopupsFit
    OBVIOUS
  <2>1. listRows = <<>> /\ invite = {}
    BY DEF List!Init
  <2>2. RoomRowsFit
    BY <2>1 DEF RoomRowsFit, List!IsInjective
  <2>3. PopupsFit
    BY DEF List!Init, List!ConstantsOK, PopupsFit
  <2> QED
    BY <2>2, <2>3, ListInit
<1>2. HiddenInv /\ RoomRowsFit /\ PopupsFit /\ [List!Next]_(List!vars)
          => (HiddenInv /\ RoomRowsFit /\ PopupsFit)'
  <2> SUFFICES ASSUME HiddenInv, RoomRowsFit, PopupsFit, [List!Next]_(List!vars)
               PROVE  (HiddenInv /\ RoomRowsFit /\ PopupsFit)'
    OBVIOUS
  <2>1. HiddenInv' /\ ListTypes
    BY ListNext DEF HiddenInv
  <2>2. CASE List!Next
    BY <2>1, <2>2, RowsStep, PopupsStep
  <2>3. CASE UNCHANGED List!vars
    BY <2>1, <2>3 DEF List!vars, RoomRowsFit, PopupsFit, List!ToSet, List!IsInjective
  <2> QED
    BY <2>2, <2>3
<1>3. HiddenInv /\ RoomRowsFit /\ PopupsFit => List!TypeOK
  <2> SUFFICES ASSUME ListTypes, RoomRowsFit, PopupsFit PROVE List!TypeOK
    BY DEF HiddenInv
  <2>1. List!ToSet(listRows) \subseteq Rooms
    <3>1. \A i \in DOMAIN listRows : listRows[i] \in Rooms
      BY ElementOfSeq DEF ListTypes
    <3> QED
      BY <3>1 DEF List!ToSet
  <2>2. ListOutcome \subseteq List!Outcome /\ ListUpdate = List!Update /\ ListResponse = List!Response
    BY DEF ListOutcome, ListUpdate, ListResponse, List!Outcome, List!Update, List!Response,
           Commands, List!Kinds
  <2>3. \A e \in List!ToSet(listPosted) : e \in List!Outcome \cup List!Update
    <3>1. \A i \in DOMAIN listPosted : listPosted[i] \in ListOutcome \cup ListUpdate
      BY ElementOfSeq DEF ListTypes
    <3> QED
      BY <2>2, <3>1 DEF List!ToSet
  <2>4. menu.asked \in Rooms \cup {NoRoom}
    BY DEF ListTypes, ListMenus, List!NoMenu
  <2>5. commands \subseteq List!Command
    BY DEF ListTypes, List!Command, Commands, List!Kinds
  <2>6. responses \in Seq(List!Response) /\ workers \subseteq List!Response
    BY <2>2 DEF ListTypes
  <2>7. listMember \in [Rooms -> List!Memberships] /\ listNews \subseteq Rooms
    BY DEF ListTypes
  <2> QED
    BY <2>1, <2>3, <2>4, <2>5, <2>6, <2>7 DEF RoomRowsFit, PopupsFit, List!TypeOK
<1> QED
  BY <1>1, <1>2, <1>3, PTL DEF List!Spec

-----------------------------------------------------------------------------
(***************************************************************************)
(* The preferences: LabelInv says what the requests, boxes and answers     *)
(* are.  A backup that an answer tells of has a key that was made.         *)
(***************************************************************************)
PrefTexts ==
    /\ backupLabel \in {"none", "configured", "uploaded", "deleted", "secrets"}
    /\ xsLabel \in Preferences!Security \cup {"none"}
    /\ section \in {"loading", "error", "listed"}

PrefForms == /\ edited \in {0, 1} /\ prefSaved \in {0, 1}
             /\ verifying \in Devices \cup {NoDevice}
             /\ uia \in BOOLEAN /\ prefShown \in BOOLEAN /\ prefCalm \in BOOLEAN
             /\ prefFuel \in Nat

PrefKeys == /\ created \in Nat /\ backup \in 0..created /\ keysShown \subseteq 1..created
            /\ \A a \in Answered :
                   a.job.kind = "run" /\ a.job.btn = "create" /\ a.ok => a.key \in 1..created

\* What the user does; and an answer.
LEMMA FormTyped ==
    ASSUME PrefForms, Preferences!Next PROVE PrefForms'
<1>1. ASSUME NEW kind, NEW b, NEW stack, Preferences!RunAsync(kind, b, stack)
      PROVE  prefCalm' \in BOOLEAN
  BY <1>1 DEF Preferences!RunAsync
<1>2. ASSUME NEW b \in Preferences!Buttons, Preferences!OnClicked(b) PROVE PrefForms'
  <2>1. prefFuel' \in Nat /\ UNCHANGED <<uia, edited, prefSaved, verifying, prefShown>>
    BY <1>2 DEF Preferences!OnClicked, Preferences!server, Preferences!form, PrefForms
  <2>2. prefCalm' \in BOOLEAN
    BY <1>1, <1>2 DEF Preferences!OnClicked, Preferences!past, PrefForms
  <2> QED
    BY <2>1, <2>2 DEF PrefForms
<1>3. ASSUME NEW f \in Preferences!FileButtons, Preferences!OnFileClicked(f) PROVE PrefForms'
  BY <1>3 DEF Preferences!OnFileClicked, Preferences!server, Preferences!form, Preferences!past,
              PrefForms
<1>4. CASE Preferences!Confirm
  <2>1. UNCHANGED <<uia, edited, prefSaved, verifying, prefShown, prefFuel>>
    BY <1>4 DEF Preferences!Confirm, Preferences!server, Preferences!form
  <2>2. prefCalm' \in BOOLEAN
    BY <1>1, <1>4 DEF Preferences!Confirm, Preferences!past, PrefForms
  <2> QED
    BY <2>1, <2>2 DEF PrefForms
<1>5. CASE Preferences!Dismiss
  BY <1>5 DEF Preferences!Dismiss, Preferences!server, Preferences!form, PrefForms
<1>6. ASSUME \/ Preferences!Edit \/ Preferences!OnSave \/ Preferences!Cancel
             \/ \E d \in Devices : Preferences!OnVerifyClicked(d)
      PROVE  PrefForms'
  <2>1. UNCHANGED <<uia, prefCalm, prefFuel>>
    BY <1>6 DEF Preferences!Edit, Preferences!OnSave, Preferences!Cancel,
                Preferences!OnVerifyClicked, Preferences!server, Preferences!past
  <2>2. edited' \in {0, 1} /\ prefSaved' \in {0, 1}
    <3>1. edited' \in {edited, 1 - edited} /\ prefSaved' \in {prefSaved, edited}
      BY <1>6 DEF Preferences!Edit, Preferences!OnSave, Preferences!Cancel,
                  Preferences!OnVerifyClicked
    <3>2. edited = 0 \/ edited = 1
      BY DEF PrefForms
    <3> QED
      BY <3>1, <3>2 DEF PrefForms
  <2>3. verifying' \in Devices \cup {NoDevice}
    BY <1>6 DEF Preferences!Edit, Preferences!OnSave, Preferences!Cancel,
                Preferences!OnVerifyClicked, PrefForms
  <2>4. prefShown' \in {prefShown, FALSE}
    BY <1>6 DEF Preferences!Edit, Preferences!OnSave, Preferences!Cancel,
                Preferences!OnVerifyClicked, Preferences!Leave
  <2>5. prefShown' \in BOOLEAN
    BY <2>4 DEF PrefForms
  <2> QED
    BY <2>1, <2>2, <2>3, <2>5 DEF PrefForms
<1>7. ASSUME NEW j \in prefJobs, Preferences!Work(j) PROVE PrefForms'
  <2>1. UNCHANGED <<edited, prefSaved, verifying, prefShown, prefCalm, prefFuel>>
    BY <1>7 DEF Preferences!Work, Preferences!form, Preferences!past
  <2>2. uia' \in BOOLEAN
    BY <1>7 DEF Preferences!Work, Preferences!Effect, Preferences!server, PrefForms
  <2> QED
    BY <2>1, <2>2 DEF PrefForms
<1>8. CASE Preferences!Deliver
  BY <1>8 DEF Preferences!Deliver, Preferences!server, Preferences!form, PrefForms
<1> QED
  BY <1>2, <1>3, <1>4, <1>5, <1>6, <1>7, <1>8 DEF Preferences!Next

LEMMA TextsTyped ==
    ASSUME LabelInv, PrefTexts, Preferences!Next PROVE PrefTexts'
<1>1. CASE UNCHANGED <<backupLabel, xsLabel, section>>
  BY <1>1 DEF PrefTexts
<1>2. CASE Preferences!Confirm
  <2>1. UNCHANGED <<xsLabel, section>> /\ backupLabel' \in {backupLabel, "configured"}
    BY <1>2 DEF Preferences!Confirm
  <2> QED
    BY <2>1 DEF PrefTexts
<1>3. CASE Preferences!Deliver
  <2> DEFINE a == Head(prefPosted)
  <2>1. a \in Answered
    <3>1. prefPosted # <<>> /\ prefPosted' = Tail(prefPosted) /\ PrefTypes
      BY <1>3 DEF Preferences!Deliver, LabelInv, PrefInv
    <3> QED
      BY <3>1, TakenAnswers
  <2>2. a.job.kind = "password" => a.job.btn \in Preferences!Security
    BY <2>1 DEF LabelInv, Belongs, JobBelongs
  <2>3. CASE Preferences!OnDevices(a)
    BY <2>3 DEF Preferences!OnDevices, PrefTexts
  <2>4. CASE a.job.btn \in Preferences!Security /\ Preferences!OnSecurityDone(a)
    BY <2>4 DEF Preferences!OnSecurityDone, PrefTexts
  <2>5. CASE a.job.kind = "password" /\ Preferences!OnPasswordDone(a)
    BY <2>2, <2>5 DEF Preferences!OnPasswordDone, PrefTexts
  <2>6. CASE Preferences!OnCreated(a)
    BY <2>6 DEF Preferences!OnCreated, Preferences!labels, PrefTexts
  <2>7. CASE Preferences!OnBackupDone(a)
    <3>1. UNCHANGED <<xsLabel, section>>
          /\ backupLabel' \in {"uploaded", "configured", "deleted", "secrets", backupLabel}
      BY <2>7 DEF Preferences!OnBackupDone, Preferences!LabelAfter
    <3> QED
      BY <3>1 DEF PrefTexts
  <2> QED
    BY <1>3, <2>3, <2>4, <2>5, <2>6, <2>7 DEF Preferences!Deliver
<1>4. Preferences!Next => \/ Preferences!Confirm \/ Preferences!Deliver
                          \/ UNCHANGED <<backupLabel, xsLabel, section>>
  BY DEF Preferences!Next, Preferences!OnClicked, Preferences!OnFileClicked, Preferences!Dismiss,
         Preferences!Edit, Preferences!OnSave, Preferences!Cancel, Preferences!OnVerifyClicked,
         Preferences!Work, Preferences!labels
<1> QED
  BY <1>1, <1>2, <1>3, <1>4

\* A worker may make a key, or delete the backup, and tells of it.
LEMMA WorkKeys ==
    ASSUME PrefInv, PrefInv', PrefKeys, NEW j \in prefJobs, Preferences!Work(j)
    PROVE  PrefKeys'
<1>1. PrefTypes /\ j \in Preferences!Request /\ created \in Nat
  BY DEF PrefInv, PrefTypes
<1>2. keysShown' = keysShown
  BY DEF Preferences!Work, Preferences!past
<1>3. PICK ok \in BOOLEAN :
          /\ IF j.kind = "devices" THEN UNCHANGED Preferences!server ELSE Preferences!Effect(j, ok)
          /\ IF prefShown
             THEN \E i \in 1..(Len(prefPosted) + 1) :
                      prefPosted' = Preferences!InsertAt(prefPosted, i,
                                        [job |-> j, ok |-> ok, key |-> created'])
             ELSE UNCHANGED prefPosted
  BY DEF Preferences!Work
<1>4. /\ created' \in {created, created + 1} /\ backup' \in {backup, 0, created'}
      /\ j.kind = "run" /\ j.btn = "create" /\ ok => created' = created + 1
  BY <1>3 DEF Preferences!Effect, Preferences!server
<1>5. created' \in Nat /\ created' >= created
  BY <1>1, <1>4
<1>6. backup' \in 0..created' /\ keysShown' \subseteq 1..created'
  BY <1>1, <1>2, <1>4, <1>5 DEF PrefKeys
<1>7. \A a \in Answered :
          a.job.kind = "run" /\ a.job.btn = "create" /\ a.ok => a.key \in 1..created'
  BY <1>1, <1>5 DEF PrefKeys
<1>8. CASE ~prefShown
  <2>1. Answered' = Answered
    BY <1>3, <1>8 DEF Answered
  <2> QED
    BY <1>5, <1>6, <1>7, <2>1 DEF PrefKeys
<1>9. CASE prefShown
  <2> DEFINE new == [job |-> j, ok |-> ok, key |-> created']
  <2>1. PICK i \in 1..(Len(prefPosted) + 1) : prefPosted' = InsertAt(prefPosted, i, new)
    BY <1>3, <1>9 DEF Preferences!InsertAt, InsertAt
  <2>2. new \in Preferences!Answer /\ new.job = j /\ new.ok = ok /\ new.key = created'
    BY <1>1, <1>5 DEF Preferences!Answer
  <2> HIDE DEF new
  <2>3. Answered' = Answered \cup {new}
    BY <1>1, <2>1, <2>2, PostedAnswers
  <2>4. new.job.kind = "run" /\ new.job.btn = "create" /\ new.ok => new.key \in 1..created'
    BY <1>1, <1>4, <1>5, <2>2
  <2>5. \A a \in Answered' :
            a.job.kind = "run" /\ a.job.btn = "create" /\ a.ok => a.key \in 1..created'
    BY <1>7, <2>3, <2>4
  <2> QED
    BY <1>5, <1>6, <2>5 DEF PrefKeys
<1> QED
  BY <1>8, <1>9

LEMMA KeysTyped ==
    ASSUME LabelInv, LabelInv', PrefKeys, Preferences!Next PROVE PrefKeys'
<1>1. ASSUME NEW j \in prefJobs, Preferences!Work(j) PROVE PrefKeys'
  BY <1>1, WorkKeys DEF LabelInv
<1>2. CASE Preferences!Deliver
  <2> DEFINE a == Head(prefPosted)
  <2>1. UNCHANGED <<created, backup>>
    BY <1>2 DEF Preferences!Deliver, Preferences!server
  <2>2. a \in Answered /\ Answered' \subseteq Answered
    <3>1. prefPosted # <<>> /\ prefPosted' = Tail(prefPosted) /\ PrefTypes
      BY <1>2 DEF Preferences!Deliver, LabelInv, PrefInv
    <3> QED
      BY <3>1, TakenAnswers
  <2>3. \/ keysShown' = keysShown
        \/ /\ a.job.kind = "run" /\ a.job.btn = "create" /\ a.ok
           /\ keysShown' = keysShown \cup {a.key}
    BY <1>2 DEF Preferences!Deliver, Preferences!OnDevices, Preferences!OnSecurityDone,
                Preferences!OnPasswordDone, Preferences!OnCreated, Preferences!OnBackupDone
  <2> HIDE DEF a
  <2>4. keysShown' \subseteq 1..created
    <3>1. CASE keysShown' = keysShown
      BY <3>1 DEF PrefKeys
    <3>2. CASE a.job.kind = "run" /\ a.job.btn = "create" /\ a.ok /\ keysShown' = keysShown \cup {a.key}
      <4>1. a.key \in 1..created
        BY <2>2, <3>2 DEF PrefKeys
      <4>2. keysShown \subseteq 1..created
        BY DEF PrefKeys
      <4> QED
        BY <3>2, <4>1, <4>2
    <3> QED
      BY <2>3, <3>1, <3>2
  <2> QED
    BY <2>1, <2>2, <2>4 DEF PrefKeys
<1>3. CASE UNCHANGED <<created, backup, keysShown>> /\ Answered' \subseteq Answered
  BY <1>3 DEF PrefKeys
<1>4. ASSUME \/ \E b \in Preferences!Buttons : Preferences!OnClicked(b)
             \/ \E f \in Preferences!FileButtons : Preferences!OnFileClicked(f)
             \/ \E d \in Devices : Preferences!OnVerifyClicked(d)
             \/ Preferences!Confirm \/ Preferences!Dismiss \/ Preferences!Edit
             \/ Preferences!OnSave \/ Preferences!Cancel
      PROVE  UNCHANGED <<created, backup, keysShown>> /\ prefPosted' \in {prefPosted, <<>>}
  BY <1>4 DEF Preferences!OnClicked, Preferences!OnFileClicked, Preferences!Dismiss,
         Preferences!Edit, Preferences!OnSave, Preferences!Cancel, Preferences!OnVerifyClicked,
         Preferences!Confirm, Preferences!RunAsync, Preferences!Leave, Preferences!server,
         Preferences!past
<1>5. prefPosted' \in {prefPosted, <<>>} => Answered' \subseteq Answered
  BY DEF Answered
<1> QED
  BY <1>1, <1>2, <1>3, <1>4, <1>5 DEF Preferences!Next

\* What is shown in the preferences is of the form's and the homeserver's.
LEMMA PreferencesAreTyped ==
    ASSUME Preferences!ConstantsOK
    PROVE  Preferences!Spec => []Preferences!TypeOK
<1> DEFINE Inv == LabelInv /\ PrefTexts /\ PrefForms /\ PrefKeys
<1>1. Preferences!Init => Inv
  <2> SUFFICES ASSUME Preferences!Init PROVE Inv
    OBVIOUS
  <2>1. PrefTexts
    BY DEF Preferences!Init, PrefTexts
  <2>2. PrefForms
    BY DEF Preferences!Init, PrefForms, Preferences!ConstantsOK
  <2>3. created \in {0, 1} /\ backup = created /\ keysShown = 1..created /\ prefPosted = <<>>
    BY DEF Preferences!Init
  <2>4. Answered = {}
    BY <2>3 DEF Answered
  <2>5. PrefKeys
    BY <2>3, <2>4 DEF PrefKeys
  <2> QED
    BY <2>1, <2>2, <2>5, LabelInit
<1>2. Inv /\ [Preferences!Next]_(Preferences!vars) => Inv'
  <2> SUFFICES ASSUME LabelInv, PrefTexts, PrefForms, PrefKeys,
                      [Preferences!Next]_(Preferences!vars)
               PROVE  Inv'
    OBVIOUS
  <2>1. LabelInv'
    BY LabelStep
  <2>2. CASE Preferences!Next
    BY <2>1, <2>2, FormTyped, TextsTyped, KeysTyped
  <2>3. CASE UNCHANGED Preferences!vars
    <3>1. Answered' = Answered
      BY <2>3 DEF Preferences!vars, Answered
    <3> QED
      BY <2>1, <2>3, <3>1 DEF Preferences!vars, PrefTexts, PrefForms, PrefKeys
  <2> QED
    BY <2>2, <2>3
<1>3. Inv => Preferences!TypeOK
  <2> SUFFICES ASSUME PrefTypes, PrefTexts, PrefForms, PrefKeys PROVE Preferences!TypeOK
    BY DEF LabelInv, PrefInv
  <2>1. prefBoxes \in Seq(Preferences!Box)
    <3>1. prefBoxes \in Seq(ButtonBox) /\ \A d \in ButtonBox : d \in Preferences!Box
      BY DEF PrefTypes, ButtonBox
    <3> HIDE DEF ButtonBox
    <3> QED
      BY <3>1
  <2> QED
    BY <2>1 DEF PrefTypes, PrefTexts, PrefForms, PrefKeys, Preferences!TypeOK
<1> HIDE DEF Inv
<1> QED
  BY <1>1, <1>2, <1>3, PTL DEF Preferences!Spec

-----------------------------------------------------------------------------
(***************************************************************************)
(* The reactions: ReactInv says all but that rows are of messages.         *)
(***************************************************************************)
ReactRest == /\ reaRows \subseteq Messages /\ reaCalm \in BOOLEAN
             /\ reaFuel \in [Reacting!Steps -> Nat]

LEMMA SpendReact ==
    ASSUME ReactRest, NEW s \in Reacting!Steps, Reacting!Spend(s)
    PROVE  reaFuel' \in [Reacting!Steps -> Nat]
  BY DEF ReactRest, Reacting!Spend

LEMMA RestReact ==
    ASSUME ReactTypes, ReactRest, [Reacting!Next]_(Reacting!vars)
    PROVE  ReactRest'
<1>1. ASSUME NEW m, NEW j, NEW w, Reacting!Ask(m, j, w) PROVE ReactRest'
  <2>1. reaFuel' \in [Reacting!Steps -> Nat]
    BY <1>1, SpendReact DEF Reacting!Ask, Reacting!Steps
  <2>2. UNCHANGED reaRows /\ reaCalm' \in BOOLEAN
    BY <1>1 DEF Reacting!Ask, Reacting!model, ReactRest
  <2> QED
    BY <2>1, <2>2 DEF ReactRest
<1>2. ASSUME NEW m \in Messages,
             \/ Reacting!React(m) \/ Reacting!Unreact(m) \/ \E onChip \in BOOLEAN : Reacting!Toggle(m, onChip)
      PROVE  ReactRest'
  BY <1>1, <1>2 DEF Reacting!React, Reacting!Unreact, Reacting!Toggle
<1>3. ASSUME NEW m \in Messages, Reacting!OtherReacts(m) PROVE ReactRest'
  <2>1. reaFuel' \in [Reacting!Steps -> Nat]
    BY <1>3, SpendReact DEF Reacting!OtherReacts, Reacting!Steps
  <2> QED
    BY <1>3, <2>1 DEF Reacting!OtherReacts, Reacting!model, Reacting!past, ReactRest
<1>4. ASSUME NEW i \in DOMAIN reaJobs, Reacting!Work(i) PROVE ReactRest'
  <2>1. UNCHANGED reaFuel \/ Reacting!Spend("fault")
    BY <1>4 DEF Reacting!Work
  <2>2. reaFuel' \in [Reacting!Steps -> Nat]
    BY <2>1, SpendReact DEF ReactRest, Reacting!Steps
  <2> QED
    BY <1>4, <2>2 DEF Reacting!Work, Reacting!model, Reacting!past, ReactRest
<1>5. CASE Reacting!Deliver
  BY <1>5 DEF Reacting!Deliver, Reacting!past, ReactRest
<1>6. CASE Reacting!Sync
  <2>1. PICK n \in 1..Len(reaNews) : Reacting!AppendTimeline(SubSeq(reaNews, 1, n))
    BY <1>6 DEF Reacting!Sync
  <2> DEFINE batch == SubSeq(reaNews, 1, n)
  <2>2. reaNews \in Seq(ReactNews) /\ n \in Nat /\ n <= Len(reaNews)
    BY DEF ReactTypes
  <2>3. batch \in Seq(ReactNews)
    BY <2>2, SubSeqProperties
  <2> HIDE DEF batch
  <2>4. \A e \in Reacting!Told(batch, "message") : e \in ReactNews
    BY <2>3, ElementOfSeq DEF Reacting!Told, Reacting!ToSet
  <2>5. reaRows' = reaRows \cup {e.to : e \in Reacting!Told(batch, "message")}
    BY <2>1 DEF Reacting!AppendTimeline, batch
  <2>6. reaRows' \subseteq Messages
    BY <2>4, <2>5 DEF ReactNews, ReactRest
  <2> QED
    BY <1>6, <2>6 DEF Reacting!Sync, Reacting!past, ReactRest
<1>7. CASE UNCHANGED Reacting!vars
  BY <1>7 DEF Reacting!vars, ReactRest
<1> QED
  BY <1>2, <1>3, <1>4, <1>5, <1>6, <1>7 DEF Reacting!Next

\* The rows, chips and ids of the reactions are of messages and of reactions that were made.
LEMMA ReactionsAreTyped ==
    ASSUME Reacting!ConstantsOK
    PROVE  Reacting!Spec => []Reacting!TypeOK
<1>1. Reacting!Init => ReactInv /\ ReactRest
  <2>1. IsFiniteSet(Messages)
    BY DEF Reacting!ConstantsOK, Reacting!IsFiniteSet, IsFiniteSet
  <2> QED
    BY <2>1, ReactInit DEF Reacting!Init, Reacting!ConstantsOK, ReactRest
<1>2. ReactInv /\ ReactRest /\ [Reacting!Next]_(Reacting!vars) => (ReactInv /\ ReactRest)'
  BY ReactStep, RestReact DEF ReactInv
<1>3. ReactInv /\ ReactRest => Reacting!TypeOK
  <2> SUFFICES ASSUME ReactTypes, ReactRest PROVE Reacting!TypeOK
    BY DEF ReactInv
  <2>1. /\ \A i \in DOMAIN reaJobs : reaJobs[i] \in ReactJobs
        /\ \A i \in DOMAIN reaPosted : reaPosted[i] \in ReactPosts
    BY ElementOfSeq DEF ReactTypes
  <2>2. \A j \in Reacting!ToSet(reaJobs) \cup Reacting!ToSet(reaPosted) :
            j.kind \in Reacting!Kinds /\ j.to \in Messages
    BY <2>1 DEF Reacting!ToSet, ReactJobs, ReactPosts, Reacting!Kinds
  <2> QED
    BY <2>2 DEF ReactTypes, ReactRest, Reacting!TypeOK
<1> QED
  BY <1>1, <1>2, <1>3, PTL DEF Reacting!Spec
=============================================================================
