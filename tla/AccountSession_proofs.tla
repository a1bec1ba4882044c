------------------------ MODULE AccountSession_proofs ------------------------
(***************************************************************************)
(* Theorems about AccountSession: whichever accounts are stored, and       *)
(* however switches, logins, logouts, late events and restarts follow one  *)
(* another, the decryptor, the store and the room list are at the account  *)
(* in use.                                                                 *)
(***************************************************************************)
EXTENDS AccountSession, SequenceLemmas

-----------------------------------------------------------------------------
(***************************************************************************)
(* The model's operators                                                   *)
(***************************************************************************)
LEMMA UsersFinite ==
    ASSUME ConstantsOK
    PROVE  /\ Len(Users) \in Nat /\ DOMAIN Users = 1..Len(Users)
           /\ \A i \in 1..Len(Users) : Users[i] \in Accounts
           /\ \A u \in Accounts : \E i \in 1..Len(Users) : Users[i] = u
<1>1. Users \in Seq(Accounts)
  BY DEF ConstantsOK
<1> QED
  BY <1>1, LenProperties, ElementOfSeq DEF Accounts, ToSet

\* The accounts of a set, as the store lists them.
LEMMA InOrderProperties ==
    ASSUME ConstantsOK, NEW accounts, accounts \subseteq Accounts
    PROVE  /\ IsFiniteSet(accounts) /\ Cardinality(accounts) \in Nat
           /\ Cardinality(accounts) <= Len(Users)
           /\ InOrder(accounts) \in Seq(accounts)
           /\ Len(InOrder(accounts)) = Cardinality(accounts)
<1> DEFINE K == {i \in DOMAIN Users : Users[i] \in accounts}
<1>1. Users \in Seq(Accounts) /\ IsInjective(Users) /\ K \subseteq DOMAIN Users
  BY DEF ConstantsOK
<1> HIDE DEF K
<1>2. /\ IsFiniteSet(K) /\ Cardinality(K) \in Nat
      /\ Selected(Users, K) \in Seq(Accounts) /\ Len(Selected(Users, K)) = Cardinality(K)
      /\ \A n \in 1..Cardinality(K) : \E i \in K : Selected(Users, K)[n] = Users[i]
  BY <1>1, SelectedProperties
<1> USE DEF K
<1> DEFINE f == [i \in K |-> Users[i]]
<1>3. f \in Bijection(K, accounts)
  <2>1. f \in [K -> accounts]
    OBVIOUS
  <2>2. \A a, b \in K : f[a] = f[b] => a = b
    BY <1>1 DEF IsInjective
  <2>3. \A u \in accounts : \E i \in K : f[i] = u
    BY UsersFinite
  <2> QED
    BY <2>1, <2>2, <2>3 DEF Bijection, Injection, Surjection, IsInjective
<1>4. IsFiniteSet(accounts) /\ Cardinality(accounts) = Cardinality(K)
  BY <1>2, <1>3, FS_Bijection DEF ExistsBijection
<1>5. K \in SUBSET (1..Len(Users)) /\ IsFiniteSet(1..Len(Users))
      /\ Cardinality(1..Len(Users)) = Len(Users)
  BY UsersFinite, FS_Interval
<1>6. Cardinality(K) <= Len(Users)
  BY <1>5, FS_Subset
<1>7. InOrder(accounts) \in Seq(accounts)
  <2>1. \A n \in 1..Len(Selected(Users, K)) : Selected(Users, K)[n] \in accounts
    BY <1>2
  <2> QED
    BY <1>2, <2>1, SeqDef, LenProperties DEF InOrder
<1> QED
  BY <1>2, <1>4, <1>6, <1>7 DEF InOrder

LEMMA PosInProperties ==
    ASSUME ConstantsOK, NEW s \in Seq(Accounts), Len(s) <= Len(Users), NEW u
    PROVE  PosIn(s, u) \in 1..(Len(Users) + 3)
<1>1. Len(s) \in Nat /\ DOMAIN s = 1..Len(s)
  BY LenProperties
<1>2. CASE u \in ToSet(s)
  <2>1. \E i \in DOMAIN s : s[i] = u
    BY <1>2 DEF ToSet
  <2>2. PosIn(s, u) \in DOMAIN s
    BY <1>2, <2>1 DEF PosIn
  <2> QED
    BY <1>1, <2>2, UsersFinite
<1>3. CASE u \notin ToSet(s)
  BY <1>3, UsersFinite DEF PosIn
<1> QED
  BY <1>2, <1>3

-----------------------------------------------------------------------------
(***************************************************************************)
(* Type correctness.  Between two runs of the process nothing is left of   *)
(* the session; the menu has no more entries than there are accounts; who  *)
(* logs in does so in a dialog that is open.                               *)
(***************************************************************************)
Stopped == /\ crypto = 0 /\ ~sync /\ posted = <<>> /\ working = [u \in Accounts |-> 0] /\ rows = {}
           /\ logins = 0 /\ ~adding /\ attempt = NoAttempt

InDialog == attempt # NoAttempt => \/ attempt.dialog = "add" /\ adding
                                   \/ attempt.dialog = "login" /\ logins > 0

Types == TypeOK /\ Len(combo) <= Len(Users) /\ (~running => Stopped) /\ InDialog

LEMMA InitTypes ==
    ASSUME ConstantsOK
    PROVE  Init => Types
<1> SUFFICES ASSUME Init PROVE Types
  OBVIOUS
<1>1. Len(Users) \in Nat
  BY UsersFinite
<1>2. fuel \in [Steps -> Nat] /\ stored \subseteq Accounts /\ NoUser \notin Accounts
  BY DEF Init, ConstantsOK
<1>3. made = <<>> /\ combo = <<>> /\ posted = <<>> /\ Len(<<>>) = 0
  BY DEF Init
<1>4. saved \in [Accounts -> 0..Len(made)]
  BY <1>3 DEF Init
<1>5. 1 \in 1..(Len(Users) + 3) /\ 0 \in 0..Len(made) /\ logins \in Nat
  BY <1>1, <1>3 DEF Init
<1>6. Stopped /\ InDialog
  BY DEF Init, Stopped, InDialog
<1>7. /\ running = FALSE /\ sync = FALSE /\ adding = FALSE
      /\ user = NoUser /\ server = NoUser /\ attempt = NoAttempt
      /\ rows = {} /\ carried = {} /\ odd = {} /\ lapse = {}
      /\ working \in [Accounts -> Nat]
  BY DEF Init
<1>8. crypto \in 0..Len(made) /\ index \in 1..(Len(Users) + 3)
  BY <1>5 DEF Init
<1>9. made \in Seq(Accounts) /\ combo \in Seq(Accounts) /\ posted \in Seq(Event)
  BY <1>3
<1>10. TypeOK
  BY <1>2, <1>4, <1>5, <1>7, <1>8, <1>9 DEF TypeOK
<1> QED
  BY <1>1, <1>3, <1>6, <1>10 DEF Types

LEMMA SpendType ==
    ASSUME fuel \in [Steps -> Nat], NEW step \in Steps, Spend(step)
    PROVE  fuel' \in [Steps -> Nat]
  BY DEF Spend

\* The store's pickles keep their type, and so does the decryptor.
LEMMA PersistedType ==
    TypeOK => Persisted \in [Accounts -> 0..Len(made)]
  BY DEF TypeOK, Persisted

LEMMA FreshType ==
    ASSUME TypeOK, NEW u \in Accounts, Fresh(u)
    PROVE  /\ made' \in Seq(Accounts) /\ Len(made') = Len(made) + 1
           /\ crypto' = Len(made') /\ crypto' \in 0..Len(made')
  BY DEF TypeOK, Fresh

LEMMA LoadedType ==
    ASSUME TypeOK, NEW u \in Accounts, Loaded(u)
    PROVE  /\ made' \in Seq(Accounts) /\ Len(made') \in Nat /\ Len(made') >= Len(made)
           /\ crypto' \in 0..Len(made')
<1>1. CASE saved[u] # 0
  <2>1. crypto' = saved[u] /\ made' = made
    BY <1>1 DEF Loaded
  <2>2. saved[u] \in 0..Len(made) /\ made \in Seq(Accounts)
    BY DEF TypeOK
  <2> QED
    BY <2>1, <2>2
<1>2. CASE saved[u] = 0
  <2>1. Fresh(u)
    BY <1>2 DEF Loaded
  <2> QED
    BY <2>1, FreshType DEF TypeOK
<1> QED
  BY <1>1, <1>2

\* The account of an attempt.
LEMMA AttemptOf ==
    ASSUME ConstantsOK, NEW u \in Accounts, NEW d \in {"add", "login"}
    PROVE  /\ [user |-> u, dialog |-> d] \in Attempt
           /\ [user |-> u, dialog |-> d] # NoAttempt
  BY DEF ConstantsOK, Attempt, NoAttempt

LEMMA QueuedType == TypeOK => Queued \subseteq Accounts
<1> SUFFICES ASSUME TypeOK, NEW e \in ToSet(posted) PROVE e.user \in Accounts
  BY DEF Queued
<1>1. e \in Event
  BY DEF TypeOK, ToSet
<1> QED
  BY <1>1 DEF Event

\* The identities under the keys of the accounts may be more.
LEMMA MoreIdentities ==
    ASSUME TypeOK, NEW n \in Nat, Len(made) <= n, NEW f \in [Accounts -> 0..Len(made)]
    PROVE  f \in [Accounts -> 0..n]
<1>1. Len(made) \in Nat
  BY LenProperties DEF TypeOK
<1>2. \A u \in Accounts : f[u] \in 0..n
  BY <1>1
<1> QED
  BY <1>2

\* The first account of the menu.
LEMMA FirstAccount ==
    ASSUME ConstantsOK, NEW accounts, accounts \subseteq Accounts, accounts # {}
    PROVE  InOrder(accounts)[1] \in accounts
<1>1. Cardinality(accounts) \in Nat \ {0}
  BY InOrderProperties, FS_EmptySet
<1>2. InOrder(accounts) \in Seq(accounts) /\ Len(InOrder(accounts)) = Cardinality(accounts)
  BY InOrderProperties
<1>3. 1 \in 1..Len(InOrder(accounts))
  BY <1>1, <1>2
<1> QED
  BY <1>2, <1>3, ElementOfSeq

LEMMA BootTypes ==
    ASSUME ConstantsOK, Types, ~running, NEW accounts, accounts \subseteq Accounts, accounts # {},
           Boot(accounts), fuel' \in [Steps -> Nat]
    PROVE  Types'
<1> DEFINE u == InOrder(accounts)[1]
<1>1. u \in Accounts
  BY FirstAccount
<1>2. /\ made' \in Seq(Accounts) /\ Len(made') \in Nat /\ Len(made') >= Len(made)
      /\ crypto' \in 0..Len(made')
  BY <1>1, LoadedType DEF Boot, Types
<1>3. saved' \in [Accounts -> 0..Len(made')]
  BY <1>2, MoreIdentities DEF Boot, Types, TypeOK
<1>4. combo' \in Seq(Accounts) /\ Len(combo') <= Len(Users) /\ 1 \in 1..(Len(Users) + 3)
  BY InOrderProperties, UsersFinite, SeqDef DEF Boot
<1>5. /\ running' /\ user' = u /\ server' = u /\ sync' /\ index' = 1 /\ stored' = accounts
      /\ sync' \in BOOLEAN /\ running' \in BOOLEAN
      /\ UNCHANGED <<posted, working, rows, adding, logins, attempt, carried, odd, lapse>>
  BY DEF Boot, login, past
<1>6. TypeOK'
  BY <1>1, <1>2, <1>3, <1>4, <1>5 DEF Types, TypeOK
<1> QED
  BY <1>4, <1>5, <1>6 DEF Types, InDialog

LEMMA QuitTypes ==
    ASSUME ConstantsOK
    PROVE  Types /\ Quit => Types'
<1> SUFFICES ASSUME Types, Quit PROVE Types'
  OBVIOUS
<1>1. saved' \in [Accounts -> 0..Len(made)] /\ fuel' \in [Steps -> Nat]
  BY PersistedType, SpendType DEF Quit, Types, TypeOK, Steps
<1>2. /\ crypto' = 0 /\ sync' = FALSE /\ posted' = <<>> /\ rows' = {} /\ running' = FALSE
      /\ working' = [u \in Accounts |-> 0]
      /\ user' = NoUser /\ server' = NoUser /\ combo' = <<>> /\ index' = 1
      /\ carried' = {} /\ lapse' = {}
      /\ UNCHANGED <<stored, made, adding, logins, attempt, odd>>
  BY DEF Quit, login
<1>3. logins' = 0 /\ adding' = FALSE /\ attempt' = NoAttempt /\ Stopped' /\ InDialog'
  <2>1. logins = 0 /\ adding = FALSE
    BY DEF Quit, Open, Types, TypeOK
  <2>2. attempt = NoAttempt
    BY <2>1 DEF Types, InDialog
  <2> QED
    BY <1>2, <2>1, <2>2 DEF Stopped, InDialog
<1>4. Len(Users) \in Nat /\ NoUser \notin Accounts /\ Len(made) \in Nat
  BY UsersFinite, LenProperties DEF ConstantsOK, Types, TypeOK
<1>5. index' \in 1..(Len(Users) + 3) /\ crypto' \in 0..Len(made') /\ logins' \in Nat
  BY <1>2, <1>3, <1>4
<1>6. /\ combo' \in Seq(Accounts) /\ posted' \in Seq(Event) /\ Len(combo') <= Len(Users)
      /\ odd' \subseteq Oddities /\ working' \in [Accounts -> Nat]
  BY <1>2, <1>4 DEF Types, TypeOK
<1>7. TypeOK'
  BY <1>1, <1>2, <1>3, <1>4, <1>5, <1>6 DEF Types, TypeOK
<1> QED
  BY <1>3, <1>6, <1>7 DEF Types

LEMMA PostTypes ==
    ASSUME ConstantsOK, Types, running, NEW kind \in {"response", "authError"}, Post(kind),
           fuel' \in [Steps -> Nat],
           UNCHANGED <<store, running, user, server, crypto, sync, working, window, login, past>>
    PROVE  Types'
<1>1. [kind |-> kind, user |-> user] \in Event
  BY DEF Types, TypeOK, Event
<1>2. posted' \in Seq(Event)
  BY <1>1 DEF Post, Types, TypeOK
<1> QED
  BY <1>2 DEF Types, TypeOK, InDialog, store, window, login, past

LEMMA PrepareTypes ==
    ASSUME ConstantsOK, Types, NEW u \in Accounts, Prepare(u)
    PROVE  Types'
<1>1. working[u] \in Nat /\ working[u] > 0 /\ running
  BY DEF Prepare, Types, TypeOK, Stopped
<1>2. working' \in [Accounts -> Nat]
  <2>1. working \in [Accounts -> Nat] /\ working' = [working EXCEPT ![u] = working[u] - 1]
    BY DEF Prepare, Types, TypeOK
  <2> QED
    BY <1>1, <2>1
<1>3. [kind |-> "update", user |-> u] \in Event
  BY DEF Event
<1>4. posted' \in Seq(Event)
  BY <1>3 DEF Prepare, Types, TypeOK
<1> QED
  BY <1>1, <1>2, <1>4 DEF Prepare, Types, TypeOK, InDialog, store, window, login, past

LEMMA DeliverTypes ==
    ASSUME ConstantsOK
    PROVE  Types /\ Deliver => Types'
<1> SUFFICES ASSUME Types, Deliver PROVE Types'
  OBVIOUS
<1> DEFINE e == Head(posted)
<1>1. posted # <<>> /\ posted \in Seq(Event) /\ e \in Event /\ Tail(posted) \in Seq(Event) /\ running
  BY DEF Deliver, Types, TypeOK, Stopped
<1>2. e.user \in Accounts /\ [e EXCEPT !.kind = "showLogin"] \in Event
  BY <1>1 DEF Event
<1>3. posted' \in Seq(Event)
  BY <1>1, <1>2 DEF Deliver, HandleResponse, ApplyUpdate, ForceReLogin, ShowLoginDialog
<1>4. rows' \subseteq Accounts
  BY <1>2 DEF Deliver, HandleResponse, ApplyUpdate, ForceReLogin, ShowLoginDialog, Types, TypeOK
<1>5. logins' \in Nat /\ logins' >= logins
  BY DEF Deliver, HandleResponse, ApplyUpdate, ForceReLogin, ShowLoginDialog, Types, TypeOK
<1>6. sync' \in BOOLEAN
  BY DEF Deliver, HandleResponse, ApplyUpdate, ForceReLogin, ShowLoginDialog, Types, TypeOK
<1>7. UNCHANGED <<stored, saved, made, running, user, server, crypto, combo, index, adding,
                  attempt, carried, odd, lapse, fuel>>
  BY DEF Deliver, store, past
<1>8. working' \in [Accounts -> Nat]
  <2>1. working' \in {working, [working EXCEPT ![e.user] = @ + 1]}
    BY DEF Deliver, HandleResponse, ApplyUpdate, ForceReLogin, ShowLoginDialog
  <2>2. working \in [Accounts -> Nat] /\ working[e.user] + 1 \in Nat
    BY <1>2 DEF Types, TypeOK
  <2> HIDE DEF e
  <2> QED
    BY <2>1, <2>2
<1>9. InDialog'
  BY <1>5, <1>7 DEF InDialog, Types, TypeOK
<1> QED
  BY <1>1, <1>3, <1>4, <1>5, <1>6, <1>7, <1>8, <1>9 DEF Types, TypeOK

LEMMA SwitchTypes ==
    ASSUME ConstantsOK, Types, running, NEW i \in 1..Cardinality(stored), Switch(i),
           UNCHANGED <<running, posted, working, attempt, fuel>>
    PROVE  Types'
<1>1. stored \subseteq Accounts
  BY DEF Types, TypeOK
<1>2. Cardinality(stored) \in Nat /\ Cardinality(stored) <= Len(Users) /\ Len(Users) \in Nat
  BY <1>1, InOrderProperties, UsersFinite
<1>3. i \in 1..(Len(Users) + 3)
  BY <1>2
<1>4. CASE Nothing(i)
  BY <1>3, <1>4 DEF Nothing, Types, TypeOK, InDialog, store, past
<1>5. CASE SwitchTo(i)
  <2> DEFINE u == Listed[i]
  <2>1. u \in Accounts
    <3>1. Listed \in Seq(stored) /\ i \in 1..Len(Listed)
      BY <1>1, InOrderProperties DEF Listed
    <3> QED
      BY <1>1, <3>1, ElementOfSeq
  <2>2. /\ made' \in Seq(Accounts) /\ Len(made') \in Nat /\ Len(made') >= Len(made)
        /\ crypto' \in 0..Len(made')
    BY <1>5, <2>1, LoadedType DEF SwitchTo, Types
  <2>3. saved' \in [Accounts -> 0..Len(made')]
    BY <1>5, <2>2, PersistedType, MoreIdentities DEF SwitchTo, Types
  <2>4. carried' \subseteq Accounts
    BY <1>5, QueuedType DEF SwitchTo, Types
  <2>5. /\ user' = u /\ server' = u /\ index' = i /\ sync' = TRUE /\ rows' = {} /\ lapse' = {}
        /\ UNCHANGED <<stored, combo, adding, logins, odd>>
    BY <1>5 DEF SwitchTo, ClearRows
  <2> QED
    BY <1>3, <2>1, <2>2, <2>3, <2>4, <2>5 DEF Types, TypeOK, InDialog
<1> QED
  BY <1>4, <1>5 DEF Switch

LEMMA AddAccountTypes ==
    ASSUME ConstantsOK, Types, running, AddAccount, UNCHANGED <<running, posted, working, attempt, fuel>>
    PROVE  Types'
<1>1. stored \subseteq Accounts /\ saved' \in [Accounts -> 0..Len(made)]
  BY PersistedType DEF AddAccount, Types, TypeOK
<1>2. Listed \in Seq(Accounts) /\ Len(Listed) <= Len(Users)
  BY <1>1, InOrderProperties, SeqDef DEF Listed
<1>3. index' \in 1..(Len(Users) + 3)
  BY <1>2, PosInProperties DEF AddAccount
<1>4. /\ sync' = FALSE /\ adding' = TRUE
      /\ UNCHANGED <<stored, made, user, server, crypto, rows, combo, logins, carried, odd,
                     lapse>>
  BY DEF AddAccount, past
<1> QED
  BY <1>1, <1>3, <1>4 DEF Types, TypeOK, InDialog

LEMMA LogoutTypes ==
    ASSUME ConstantsOK, Types, running, Logout, UNCHANGED <<running, posted, working, attempt, fuel>>
    PROVE  Types'
<1>1. stored \subseteq Accounts /\ saved' \in [Accounts -> 0..Len(made)] /\ carried' \subseteq Accounts
  BY PersistedType, QueuedType DEF Logout, Types, TypeOK
<1>2. Listed \in Seq(Accounts) /\ Len(Listed) <= Len(Users)
  BY <1>1, InOrderProperties, SeqDef DEF Listed
<1>3. index' \in 1..(Len(Users) + 3)
  BY <1>2, PosInProperties DEF Logout
<1>4. /\ sync' = FALSE /\ rows' = {} /\ stored' \subseteq stored /\ logins' = logins + 1
      /\ UNCHANGED <<made, user, server, crypto, combo, adding, odd, lapse>>
  BY DEF Logout, ClearRows
<1>5. logins' \in Nat /\ logins' >= logins /\ InDialog'
  BY DEF Logout, Types, TypeOK, InDialog
<1>6. sync' \in BOOLEAN
  BY <1>4
<1>7. stored' \subseteq Accounts
  BY <1>1, <1>4
<1> QED
  BY <1>1, <1>3, <1>4, <1>5, <1>6, <1>7 DEF Types, TypeOK

\* What an entry of the menu does.
LEMMA SelectEntryCases ==
    ASSUME ConstantsOK, TypeOK, NEW i \in Nat \ {0}, SelectEntry(i)
    PROVE  \/ i \in 1..Cardinality(stored) /\ Switch(i)
           \/ AddAccount \/ Logout \/ Nothing(i)
<1>1. Cardinality(stored) \in Nat
  BY InOrderProperties DEF TypeOK
<1> QED
  BY <1>1 DEF SelectEntry

LEMMA SelectEntryTypes == ASSUME ConstantsOK, Types, NEW i \in Nat \ {0}, SelectEntry(i) PROVE Types'
<1>1. stored \subseteq Accounts /\ combo \in Seq(Accounts)
  BY DEF Types, TypeOK
<1>2. Cardinality(stored) \in Nat /\ Len(combo) \in Nat /\ Len(Users) \in Nat /\ Len(combo) <= Len(Users)
  BY <1>1, InOrderProperties, UsersFinite, LenProperties DEF Types
<1>3. running /\ i \in 1..(Len(combo) + 3) /\ UNCHANGED <<running, posted, working, attempt, fuel>>
  BY <1>2 DEF SelectEntry, Entries
<1>4. CASE Nothing(i)
  BY <1>2, <1>3, <1>4 DEF Nothing, Types, TypeOK, InDialog, store, past
<1>5. \/ i \in 1..Cardinality(stored) /\ Switch(i)
      \/ AddAccount \/ Logout \/ Nothing(i)
  BY SelectEntryCases DEF Types
<1> QED
  BY <1>3, <1>4, <1>5, SwitchTypes, AddAccountTypes, LogoutTypes

LEMMA NextAccountTypes ==
    ASSUME ConstantsOK
    PROVE  Types /\ NextAccount => Types'
<1> SUFFICES ASSUME Types, NextAccount PROVE Types'
  OBVIOUS
<1>1. stored \subseteq Accounts /\ index \in Nat \ {0}
  BY UsersFinite DEF Types, TypeOK
<1>2. Cardinality(stored) \in Nat
  BY <1>1, InOrderProperties
<1> DEFINE next == IF index >= Cardinality(stored) THEN 1 ELSE index + 1
<1>3. next \in 1..Cardinality(stored)
  BY <1>1, <1>2 DEF NextAccount
<1>4. running /\ Switch(next) /\ UNCHANGED <<running, posted, working, attempt, fuel>>
  BY DEF NextAccount
<1> QED
  BY <1>3, <1>4, SwitchTypes

LEMMA AccountAddedTypes == ASSUME ConstantsOK, Types, NEW u \in Accounts, AccountAdded(u) PROVE Types'
<1>1. /\ made' \in Seq(Accounts) /\ Len(made') = Len(made) + 1 /\ Len(made) \in Nat
      /\ crypto' \in 0..Len(made')
  BY FreshType, LenProperties DEF AccountAdded, AddInit, Types, TypeOK
<1>2. saved' \in [Accounts -> 0..Len(made')]
  BY <1>1, MoreIdentities DEF AccountAdded, Types, TypeOK
<1>3. fuel' \in [Steps -> Nat]
  BY SpendType DEF AccountAdded, LoggedIn, Types, TypeOK, Steps
<1>4. stored' \subseteq Accounts
  BY DEF AccountAdded, LoggedIn, Types, TypeOK
<1>5. combo' \in Seq(Accounts) /\ Len(combo') <= Len(Users)
  BY <1>4, InOrderProperties, SeqDef DEF AccountAdded, RefillMenu
<1>6. index' \in 1..(Len(Users) + 3)
  BY <1>5, PosInProperties DEF AccountAdded
<1>7. carried' \subseteq Accounts /\ odd' \subseteq Oddities
  BY QueuedType DEF AccountAdded, Types, TypeOK, Oddities
<1>8. /\ user' = u /\ server' = u /\ attempt' = NoAttempt /\ sync' = TRUE /\ rows' = {} /\ adding' = FALSE
      /\ lapse' = {} /\ UNCHANGED <<running, posted, working, logins>>
      /\ attempt = [user |-> u, dialog |-> "add"]
  BY DEF AccountAdded, LoggedIn, ClearRows
<1>9. running' \in BOOLEAN /\ running' /\ InDialog'
  BY <1>8, AttemptOf DEF Types, TypeOK, Stopped, InDialog
<1> QED
  BY <1>1, <1>2, <1>3, <1>4, <1>5, <1>6, <1>7, <1>8, <1>9 DEF Types, TypeOK

LEMMA ReLoginTypes == ASSUME ConstantsOK, Types, NEW u \in Accounts, ReLogin(u) PROVE Types'
<1>1. attempt = [user |-> u, dialog |-> "login"] /\ attempt # NoAttempt /\ running
  BY AttemptOf DEF ReLogin, LoggedIn, Types, Stopped
<1>2. fuel' \in [Steps -> Nat]
  BY SpendType DEF ReLogin, LoggedIn, Types, TypeOK, Steps
<1>3. stored' \subseteq Accounts /\ logins' \in Nat
  <2>1. logins > 0 /\ logins \in Nat
    BY <1>1 DEF Types, TypeOK, InDialog
  <2> QED
    BY <2>1 DEF ReLogin, LoggedIn, Types, TypeOK
<1>4. carried' \subseteq Accounts /\ odd' \subseteq Oddities
  BY QueuedType DEF ReLogin, Types, TypeOK, Oddities
<1>5. /\ user' = u /\ server' = u /\ attempt' = NoAttempt /\ sync' = TRUE /\ lapse' = {}
      /\ UNCHANGED <<saved, made, running, crypto, posted, working, rows, combo, index, adding>>
  BY DEF ReLogin, LoggedIn, window
<1> QED
  BY <1>1, <1>2, <1>3, <1>4, <1>5 DEF Types, TypeOK, InDialog

LEMMA TryLoginTypes == ASSUME ConstantsOK, Types, NEW u \in Accounts, TryLogin(u) PROVE Types'
<1>1. running /\ server' \in Accounts
  BY DEF TryLogin, Open, Types, TypeOK, Stopped
<1>2. attempt' = [user |-> u, dialog |-> Top] /\ Top \in {"add", "login"}
  BY DEF TryLogin, Top
<1>3. attempt' \in Attempt /\ attempt'.dialog = Top
  BY <1>2, AttemptOf
<1>4. InDialog'
  BY <1>3 DEF TryLogin, Open, Top, InDialog, Types, TypeOK
<1> QED
  BY <1>1, <1>3, <1>4 DEF TryLogin, Types, TypeOK, store, window, past

LEMMA NextTypes ==
    ASSUME ConstantsOK
    PROVE  Types /\ [Next]_vars => Types'
<1> SUFFICES ASSUME Types, [Next]_vars PROVE Types'
  OBVIOUS
<1>1. CASE StartSaved
  <2>1. stored \subseteq Accounts /\ fuel' \in [Steps -> Nat]
    BY <1>1 DEF StartSaved, Types, TypeOK
  <2> QED
    BY <1>1, <2>1, BootTypes DEF StartSaved
<1>2. ASSUME NEW u \in Accounts, StartLogin(u) PROVE Types'
  <2>1. fuel' \in [Steps -> Nat]
    BY <1>2, SpendType DEF StartLogin, Types, TypeOK, Steps
  <2>2. {u} \subseteq Accounts /\ {u} # {}
    OBVIOUS
  <2> QED
    BY <1>2, <2>1, <2>2, BootTypes DEF StartLogin
<1>3. CASE SyncResponse
  <2>1. fuel' \in [Steps -> Nat] /\ running
    BY <1>3, SpendType DEF SyncResponse, Types, TypeOK, Steps, Stopped
  <2> QED
    BY <1>3, <2>1, PostTypes DEF SyncResponse
<1>4. CASE AuthError
  <2>1. fuel' \in [Steps -> Nat] /\ running
    BY <1>4, SpendType DEF AuthError, Types, TypeOK, Steps, Stopped
  <2> QED
    BY <1>4, <2>1, PostTypes DEF AuthError
<1>5. ASSUME NEW i \in 1..(Len(combo) + 3), SelectEntry(i) PROVE Types'
  <2>1. i \in Nat \ {0}
    OBVIOUS
  <2> QED
    BY <1>5, <2>1, SelectEntryTypes
<1>6. CASE LoginFails
  <2>1. fuel' \in [Steps -> Nat] /\ running /\ lapse' \subseteq Lapses
    BY <1>6, SpendType DEF LoginFails, Types, TypeOK, Steps, Stopped, Lapses
  <2> QED
    BY <1>6, <2>1 DEF LoginFails, Types, TypeOK, InDialog, store, window
<1>7. CASE CancelAdd
  <2>1. running /\ lapse' \subseteq Lapses
    BY <1>7 DEF CancelAdd, Types, TypeOK, Stopped, Lapses
  <2> QED
    BY <1>7, <2>1 DEF CancelAdd, Types, TypeOK, InDialog, store, window
<1>8. CASE CancelLogin
  <2>1. running /\ logins' \in Nat /\ lapse' \subseteq Lapses
    BY <1>8 DEF CancelLogin, Types, TypeOK, Stopped, Lapses
  <2> QED
    BY <1>8, <2>1 DEF CancelLogin, Types, TypeOK, InDialog, store, window
<1>9. CASE UNCHANGED vars
  BY <1>9 DEF vars, Types, TypeOK, Stopped, InDialog
<1> QED
  BY <1>1, <1>2, <1>3, <1>4, <1>5, <1>6, <1>7, <1>8, <1>9, QuitTypes, PrepareTypes, DeliverTypes,
     NextAccountTypes, AccountAddedTypes, TryLoginTypes, ReLoginTypes DEF Next

LEMMA TypesHold ==
    ASSUME ConstantsOK
    PROVE  Spec => []Types
<1> QED
  BY InitTypes, NextTypes, PTL DEF Spec

\* Every variable keeps its type; the process runs exactly while there is an
\* account and a homeserver, and no identity is stored that was not made.
THEOREM TypeCorrect == ASSUME ConstantsOK PROVE Spec => []TypeOK
<1>1. Types => TypeOK
  BY DEF Types
<1> QED
  BY <1>1, TypesHold, PTL

-----------------------------------------------------------------------------
(***************************************************************************)
(* The room list.  A response that is under way -- posted, with a worker,  *)
(* or prepared -- is of the account in use, or of one that it came for     *)
(* before a change of accounts.                                            *)
(***************************************************************************)
RowsInv == RowsOfAccount /\ Queued \subseteq {user} \cup carried

\* Its accounts, element by element.
LEMMA QueuedElements ==
    /\ \A i \in DOMAIN posted :
           posted[i].kind \in {"response", "update"} => posted[i].user \in Queued
    /\ \A u \in Accounts : working[u] > 0 => u \in Queued
  BY DEF Queued, ToSet

LEMMA QueuedWithin ==
    ASSUME NEW S,
           \A i \in DOMAIN posted : posted[i].kind \in {"response", "update"} => posted[i].user \in S,
           \A u \in Accounts : working[u] > 0 => u \in S
    PROVE  Queued \subseteq S
  BY DEF Queued, ToSet

\* What is under way at a change of accounts is carried over it.
LEMMA QueuedIsCarried ==
    ASSUME carried' = Queued, UNCHANGED <<posted, working>>, rows' = {}
    PROVE  RowsInv'
<1>1. Queued' = Queued
  BY DEF Queued
<1> QED
  BY <1>1 DEF RowsInv, RowsOfAccount

LEMMA SameRows ==
    ASSUME RowsInv, UNCHANGED <<rows, posted, working, user, carried>>
    PROVE  RowsInv'
<1>1. Queued' = Queued
  BY DEF Queued
<1> QED
  BY <1>1 DEF RowsInv, RowsOfAccount

\* Nothing is under way, and nothing is shown.
LEMMA NoRows ==
    ASSUME posted' = <<>>, working' = [u \in Accounts |-> 0], rows' = {}
    PROVE  RowsInv'
<1>1. DOMAIN posted' = {} /\ \A u \in Accounts : ~(working'[u] > 0)
  BY Z3
<1>2. Queued' = {}
  BY <1>1 DEF Queued, ToSet
<1> QED
  BY <1>2 DEF RowsInv, RowsOfAccount

LEMMA BootRows ==
    ASSUME ConstantsOK, Types, ~running, NEW accounts, Boot(accounts)
    PROVE  RowsInv'
<1>1. posted' = <<>> /\ working' = [u \in Accounts |-> 0] /\ rows' = {}
  BY DEF Boot, Types, Stopped
<1> QED
  BY <1>1, NoRows

LEMMA PostRows ==
    ASSUME Types, RowsInv, NEW kind, NEW u \in {user} \cup carried,
           posted' = Append(posted, [kind |-> kind, user |-> u]),
           UNCHANGED <<rows, user, carried>>,
           \A v \in Accounts : working'[v] > 0 => working[v] > 0
    PROVE  RowsInv'
<1>1. posted \in Seq(Event)
  BY DEF Types, TypeOK
<1>2. \A i \in DOMAIN posted' : \/ i \in DOMAIN posted /\ posted'[i] = posted[i]
                                \/ posted'[i] = [kind |-> kind, user |-> u]
  BY <1>1
<1>3. \A i \in DOMAIN posted' :
          posted'[i].kind \in {"response", "update"} => posted'[i].user \in {user} \cup carried
  BY <1>2, QueuedElements DEF RowsInv
<1>4. \A v \in Accounts : working'[v] > 0 => v \in {user} \cup carried
  BY QueuedElements DEF RowsInv
<1>5. Queued' \subseteq {user} \cup carried
  BY <1>3, <1>4 DEF Queued, ToSet
<1> QED
  BY <1>5 DEF RowsInv, RowsOfAccount

LEMMA PrepareRows ==
    ASSUME Types, RowsInv, NEW u \in Accounts, Prepare(u)
    PROVE  RowsInv'
<1>1. u \in {user} \cup carried
  BY QueuedElements DEF Prepare, RowsInv
<1>2. /\ posted' = Append(posted, [kind |-> "update", user |-> u])
      /\ UNCHANGED <<rows, user, carried>>
      /\ working \in [Accounts -> Nat] /\ working' = [working EXCEPT ![u] = @ - 1]
  BY DEF Prepare, window, past, Types, TypeOK
<1>3. \A v \in Accounts : working'[v] > 0 => working[v] > 0
  BY <1>2
<1> QED
  BY <1>1, <1>2, <1>3, PostRows

LEMMA DeliverRows == Types /\ RowsInv /\ Deliver => RowsInv'
<1> SUFFICES ASSUME Types, RowsInv, Deliver PROVE RowsInv'
  OBVIOUS
<1> DEFINE e == Head(posted)
           S == {user} \cup carried
<1>1. posted \in Seq(Event) /\ posted # <<>> /\ 1 \in DOMAIN posted /\ e = posted[1]
      /\ UNCHANGED <<user, carried>>
  BY DEF Deliver, Types, TypeOK, past
<1>2. \A i \in DOMAIN posted : posted[i].kind \in {"response", "update"} => posted[i].user \in S
  BY QueuedElements DEF RowsInv
<1>3. \A i \in DOMAIN Tail(posted) : i + 1 \in DOMAIN posted /\ Tail(posted)[i] = posted[i + 1]
  BY <1>1
<1>4. \A i \in DOMAIN Tail(posted) :
          Tail(posted)[i].kind \in {"response", "update"} => Tail(posted)[i].user \in S
  BY <1>2, <1>3
<1>5. \A i \in DOMAIN posted' : posted'[i].kind \in {"response", "update"} => posted'[i].user \in S
  <2>1. CASE posted' = Tail(posted)
    BY <1>4, <2>1
  <2>2. CASE posted' = Append(Tail(posted), [e EXCEPT !.kind = "showLogin"])
    <3>1. Tail(posted) \in Seq(Event) /\ [e EXCEPT !.kind = "showLogin"].kind = "showLogin"
      BY <1>1 DEF Event
    <3>2. \A i \in DOMAIN posted' : \/ i \in DOMAIN Tail(posted) /\ posted'[i] = Tail(posted)[i]
                                    \/ posted'[i] = [e EXCEPT !.kind = "showLogin"]
      BY <2>2, <3>1
    <3> QED
      BY <1>4, <3>1, <3>2
  <2> QED
    BY <2>1, <2>2 DEF Deliver, HandleResponse, ApplyUpdate, ForceReLogin, ShowLoginDialog
<1>6. \A u \in Accounts : working'[u] > 0 => u \in S
  <2>1. \A u \in Accounts : working[u] > 0 => u \in S
    BY QueuedElements DEF RowsInv
  <2>2. \/ working' = working
        \/ e.kind = "response" /\ working' = [working EXCEPT ![e.user] = @ + 1]
    BY DEF Deliver, HandleResponse, ApplyUpdate, ForceReLogin, ShowLoginDialog
  <2>3. e.kind = "response" => e.user \in S
    BY <1>1, <1>2
  <2>4. \A u \in Accounts : working'[u] = working[u] \/ (u = e.user /\ e.kind = "response")
    BY <2>2 DEF Types, TypeOK
  <2> QED
    BY <2>1, <2>3, <2>4
<1>7. rows' = rows \/ (rows' = rows \cup {e.user} /\ e.kind = "update")
  BY DEF Deliver, HandleResponse, ApplyUpdate, ForceReLogin, ShowLoginDialog
<1>8. e.kind = "update" => e.user \in S
  BY <1>1, <1>2
<1>9. Queued' \subseteq S
  BY <1>5, <1>6 DEF Queued, ToSet
<1> QED
  BY <1>1, <1>7, <1>8, <1>9 DEF RowsInv, RowsOfAccount

LEMMA SelectEntryRows ==
    ASSUME ConstantsOK, Types, RowsInv, NEW i \in Nat \ {0}, SelectEntry(i) \/ NextAccount
    PROVE  RowsInv'
<1>1. UNCHANGED <<posted, working>>
  BY DEF SelectEntry, NextAccount
<1>2. CASE carried' = Queued /\ rows' = {}
  BY <1>1, <1>2, QueuedIsCarried
<1>3. CASE UNCHANGED <<rows, user, carried>>
  BY <1>1, <1>3, SameRows
<1>4. ASSUME NEW j, Switch(j) PROVE RowsInv'
  BY <1>2, <1>3, <1>4 DEF Switch, SwitchTo, ClearRows, Nothing, past
<1>5. CASE AddAccount \/ Logout \/ Nothing(i)
  BY <1>2, <1>3, <1>5 DEF AddAccount, Logout, ClearRows, Nothing, past
<1> QED
  BY <1>4, <1>5, SelectEntryCases DEF NextAccount, Types

LEMMA LoginRows ==
    ASSUME ConstantsOK, Types, RowsInv, NEW u \in Accounts, AccountAdded(u) \/ ReLogin(u)
    PROVE  RowsInv'
<1>1. UNCHANGED <<posted, working>>
  BY DEF AccountAdded, ReLogin
<1>2. CASE AccountAdded(u)
  BY <1>1, <1>2, QueuedIsCarried DEF AccountAdded, ClearRows
<1>3. CASE ReLogin(u)
  <2>1. rows' = rows /\ user' = u
        /\ carried' = IF u = user THEN carried ELSE rows \cup Queued
    BY <1>3 DEF ReLogin, LoggedIn, window
  <2>2. Queued' = Queued
    BY <1>1 DEF Queued
  <2> QED
    BY <2>1, <2>2 DEF RowsInv, RowsOfAccount
<1> QED
  BY <1>2, <1>3

LEMMA NextRows ==
    ASSUME ConstantsOK
    PROVE  Types /\ RowsInv /\ [Next]_vars => RowsInv'
<1> SUFFICES ASSUME Types, RowsInv, [Next]_vars PROVE RowsInv'
  OBVIOUS
<1>1. CASE StartSaved \/ \E u \in Accounts : StartLogin(u)
  BY <1>1, BootRows DEF StartSaved, StartLogin
<1>2. CASE Quit
  BY <1>2, NoRows DEF Quit
<1>3. CASE SyncResponse \/ AuthError
  <2>1. /\ posted' = Append(posted, [kind |-> "response", user |-> user])
           \/ posted' = Append(posted, [kind |-> "authError", user |-> user])
        /\ UNCHANGED <<rows, user, carried, working>>
    BY <1>3 DEF SyncResponse, AuthError, Post, window, past
  <2>2. \A v \in Accounts : working'[v] > 0 => working[v] > 0
    BY <2>1
  <2> QED
    BY <2>1, <2>2, PostRows
<1>4. ASSUME NEW i \in 1..(Len(combo) + 3), SelectEntry(i) PROVE RowsInv'
  <2>1. i \in Nat \ {0}
    OBVIOUS
  <2> QED
    BY <1>4, <2>1, SelectEntryRows
<1>5. CASE NextAccount
  <2>1. 1 \in Nat \ {0}
    OBVIOUS
  <2> QED
    BY <1>5, <2>1, SelectEntryRows
<1>6. CASE LoginFails \/ CancelAdd \/ CancelLogin \/ \E u \in Accounts : TryLogin(u)
  BY <1>6, SameRows DEF LoginFails, CancelAdd, CancelLogin, TryLogin, window, past
<1>7. CASE UNCHANGED vars
  BY <1>7, SameRows DEF vars
<1> QED
  BY <1>1, <1>2, <1>3, <1>4, <1>5, <1>6, <1>7, PrepareRows, DeliverRows, LoginRows DEF Next

(***************************************************************************)
(* The room list shows rooms of the account in use, of one with a response *)
(* in the queue, with a worker or prepared when the accounts were changed, *)
(* or of one that another login in AuthHandler's dialog left there         *)
(* (SyncResponseHandler::handle, AccountSwitcher::switchAccount).          *)
(***************************************************************************)
THEOREM RowsFollowAccount == ASSUME ConstantsOK PROVE Spec => []RowsOfAccount
<1>1. Init => RowsInv
  <2> SUFFICES ASSUME Init PROVE RowsInv
    OBVIOUS
  <2>1. DOMAIN posted = {} /\ rows = {} /\ \A u \in Accounts : ~(working[u] > 0)
    BY DEF Init
  <2>2. Queued = {}
    BY <2>1 DEF Queued, ToSet
  <2> QED
    BY <2>1, <2>2 DEF RowsInv, RowsOfAccount
<1>2. RowsInv => RowsOfAccount
  BY DEF RowsInv
<1> QED
  BY <1>1, <1>2, TypesHold, NextRows, PTL DEF Spec

-----------------------------------------------------------------------------
(***************************************************************************)
(* The identities                                                          *)
(***************************************************************************)
\* An identity that was made stays the one it was.
LEMMA LoadedIdentity ==
    ASSUME ConstantsOK, TypeOK, NEW u \in Accounts, Loaded(u) \/ Fresh(u), saved[u] # 0 => made[saved[u]] = u
    PROVE  /\ crypto' # 0 => made'[crypto'] = u
           /\ \A n \in 1..Len(made) : made'[n] = made[n]
           /\ Loaded(u) /\ saved[u] # 0 => crypto' = saved[u]
<1>1. made \in Seq(Accounts) /\ Len(made) \in Nat /\ saved[u] \in 0..Len(made)
  BY LenProperties DEF TypeOK
<1>2. CASE Fresh(u)
  <2>1. made' = Append(made, u) /\ crypto' = Len(made')
    BY <1>2 DEF Fresh
  <2>2. made'[crypto'] = u /\ \A n \in 1..Len(made) : made'[n] = made[n]
    BY <1>1, <2>1
  <2>3. Loaded(u) /\ saved[u] # 0 => crypto' = saved[u]
    BY DEF Loaded
  <2> QED
    BY <2>2, <2>3
<1>3. CASE saved[u] # 0 /\ Loaded(u)
  BY <1>3 DEF Loaded
<1> QED
  BY <1>2, <1>3 DEF Loaded

\* What the store is given is the identity of the account in use.
LEMMA PersistedIdentity ==
    ASSUME ConstantsOK, Types, CryptoOfAccount, "swapped" \notin odd, NEW u \in Accounts, Persisted[u] # 0
    PROVE  Persisted[u] \in 1..Len(made) /\ made[Persisted[u]] = u
<1>1. Persisted[u] \in 0..Len(made) /\ Len(made) \in Nat
  BY PersistedType, LenProperties DEF Types, TypeOK
<1>2. Persisted[u] = saved[u] \/ (Persisted[u] = crypto /\ u = user /\ crypto # 0)
  BY DEF Persisted, Types, TypeOK
<1> QED
  BY <1>1, <1>2 DEF CryptoOfAccount

\* The account changes, or none was in use.
LEMMA ChangeCrypto ==
    ASSUME ConstantsOK, Types, CryptoOfAccount, "swapped" \notin odd, NEW u \in Accounts, user' = u,
           Loaded(u) \/ Fresh(u), saved' = saved \/ (saved' = Persisted /\ user # u)
    PROVE  CryptoOfAccount'
<1>1. saved[u] # 0 => made[saved[u]] = u
  BY DEF CryptoOfAccount
<1>2. /\ crypto' # 0 => made'[crypto'] = u
      /\ \A n \in 1..Len(made) : made'[n] = made[n]
  BY <1>1, LoadedIdentity DEF Types
<1>3. ASSUME NEW v \in Accounts, saved'[v] # 0
      PROVE  saved'[v] \in 1..Len(made) /\ made[saved'[v]] = v
  <2>1. CASE saved' = saved
    BY <1>3, <2>1, LenProperties DEF CryptoOfAccount, Types, TypeOK
  <2>2. CASE saved' = Persisted
    BY <1>3, <2>2, PersistedIdentity
  <2> QED
    BY <2>1, <2>2
<1> QED
  BY <1>2, <1>3 DEF CryptoOfAccount

\* The account stays, and the decryptor is left alone.
LEMMA SameCrypto ==
    ASSUME ConstantsOK, Types, CryptoOfAccount, UNCHANGED <<made, crypto>>,
           saved' = saved \/ saved' = Persisted, user' = user \/ "swapped" \in odd',
           odd \subseteq odd'
    PROVE  CryptoOfAccount'
<1> SUFFICES ASSUME "swapped" \notin odd' PROVE CryptoOfAccount'
  BY DEF CryptoOfAccount
<1>1. "swapped" \notin odd /\ user' = user
  OBVIOUS
<1>2. ASSUME NEW v \in Accounts, saved'[v] # 0 PROVE made[saved'[v]] = v
  BY <1>1, <1>2, PersistedIdentity DEF CryptoOfAccount
<1> QED
  BY <1>1, <1>2 DEF CryptoOfAccount

LEMMA BootCrypto ==
    ASSUME ConstantsOK, Types, CryptoOfAccount, NEW accounts, accounts \subseteq Accounts, accounts # {}, Boot(accounts)
    PROVE  CryptoOfAccount'
<1>1. CASE "swapped" \in odd
  BY <1>1 DEF Boot, past, CryptoOfAccount
<1>2. CASE "swapped" \notin odd
  BY <1>2, FirstAccount, ChangeCrypto DEF Boot
<1> QED
  BY <1>1, <1>2

LEMMA SwitchCrypto ==
    ASSUME ConstantsOK, Types, CryptoOfAccount, NEW i \in 1..Cardinality(stored), Switch(i)
    PROVE  CryptoOfAccount'
<1>1. stored \subseteq Accounts
  BY DEF Types, TypeOK
<1>2. Listed[i] \in Accounts
  <2>1. Listed \in Seq(stored) /\ i \in 1..Len(Listed)
    BY <1>1, InOrderProperties DEF Listed
  <2> QED
    BY <1>1, <2>1, ElementOfSeq
<1>3. CASE Listed[i] # user
  <2>1. SwitchTo(i) /\ odd' = odd
    BY <1>3 DEF Switch, SwitchTo
  <2>2. CASE "swapped" \in odd
    BY <2>1, <2>2 DEF CryptoOfAccount
  <2>3. CASE "swapped" \notin odd
    BY <1>2, <1>3, <2>1, <2>3, ChangeCrypto DEF SwitchTo
  <2> QED
    BY <2>2, <2>3
<1>4. CASE Listed[i] = user
  BY <1>4, SameCrypto DEF Switch, Nothing, store, past
<1> QED
  BY <1>3, <1>4

LEMMA NextCrypto ==
    ASSUME ConstantsOK
    PROVE  Types /\ CryptoOfAccount /\ [Next]_vars => CryptoOfAccount'
<1> SUFFICES ASSUME Types, CryptoOfAccount, [Next]_vars PROVE CryptoOfAccount'
  OBVIOUS
<1>1. CASE StartSaved
  BY <1>1, BootCrypto DEF StartSaved, Types, TypeOK
<1>2. ASSUME NEW u \in Accounts, StartLogin(u) PROVE CryptoOfAccount'
  <2>1. {u} \subseteq Accounts /\ {u} # {}
    OBVIOUS
  <2> QED
    BY <1>2, <2>1, BootCrypto DEF StartLogin
<1>3. CASE Quit
  <2>1. crypto' = 0 /\ saved' = Persisted /\ made' = made /\ odd' = odd
    BY <1>3 DEF Quit
  <2> QED
    BY <2>1, PersistedIdentity DEF CryptoOfAccount
<1>4. CASE SyncResponse \/ AuthError \/ Deliver \/ LoginFails \/ CancelAdd \/ CancelLogin
           \/ \E u \in Accounts : Prepare(u) \/ TryLogin(u)
  BY <1>4, SameCrypto DEF SyncResponse, AuthError, Prepare, Deliver, LoginFails, CancelAdd,
     CancelLogin, TryLogin, store, past
<1>5. ASSUME NEW i \in 1..(Len(combo) + 3), SelectEntry(i) PROVE CryptoOfAccount'
  <2>1. i \in Nat \ {0}
    OBVIOUS
  <2>2. CASE AddAccount \/ Logout \/ Nothing(i)
    BY <2>2, SameCrypto DEF AddAccount, Logout, Nothing, store, past
  <2> QED
    BY <1>5, <2>1, <2>2, SelectEntryCases, SwitchCrypto DEF Types
<1>6. CASE NextAccount
  <2>1. stored \subseteq Accounts /\ index \in Nat \ {0}
    BY UsersFinite DEF Types, TypeOK
  <2>2. Cardinality(stored) \in Nat
    BY <2>1, InOrderProperties
  <2> DEFINE next == IF index >= Cardinality(stored) THEN 1 ELSE index + 1
  <2>3. next \in 1..Cardinality(stored) /\ Switch(next)
    BY <1>6, <2>1, <2>2 DEF NextAccount
  <2> QED
    BY <2>3, SwitchCrypto
<1>7. ASSUME NEW u \in Accounts, AccountAdded(u) PROVE CryptoOfAccount'
  <2>1. user' = u /\ Fresh(u) /\ saved' = saved /\ odd \subseteq odd'
    BY <1>7 DEF AccountAdded, LoggedIn, AddInit
  <2>2. CASE "swapped" \in odd
    BY <2>1, <2>2 DEF CryptoOfAccount
  <2>3. CASE "swapped" \notin odd
    BY <2>1, <2>3, ChangeCrypto
  <2> QED
    BY <2>2, <2>3
<1>8. ASSUME NEW u \in Accounts, ReLogin(u) PROVE CryptoOfAccount'
  <2>1. user' = user \/ "swapped" \in odd'
    BY <1>8 DEF ReLogin, LoggedIn
  <2> QED
    BY <1>8, <2>1, SameCrypto DEF ReLogin
<1>9. CASE UNCHANGED vars
  BY <1>9, SameCrypto DEF vars
<1> QED
  BY <1>1, <1>2, <1>3, <1>4, <1>5, <1>6, <1>7, <1>8, <1>9 DEF Next

(***************************************************************************)
(* The decryptor holds the identity that was made for the account in use,  *)
(* and the store has each account's own under its key                      *)
(* (AccountSwitcher::switchAccount, addAccount, Decryptor's pickles), as   *)
(* long as nobody logged in as someone else in AuthHandler's dialog.       *)
(***************************************************************************)
THEOREM CryptoFollowsAccount == ASSUME ConstantsOK PROVE Spec => []CryptoOfAccount
<1>1. Init => CryptoOfAccount
  BY DEF Init, CryptoOfAccount
<1> QED
  BY <1>1, TypesHold, NextCrypto, PTL DEF Spec

(***************************************************************************)
(* What the decryptor has is what the store has, if it has one for the     *)
(* account in use.                                                         *)
(***************************************************************************)
Plain   == odd \cap {"swapped", "again"} = {}
KeptInv == Plain /\ crypto # 0 /\ saved[user] # 0 => saved[user] = crypto

LEMMA InitKept == Init => KeptInv
  BY DEF Init, KeptInv

\* The store keeps what it has, or gets what the decryptor has.
LEMMA PersistedKept ==
    ASSUME ConstantsOK, Types, KeptInv, Plain, NEW v \in Accounts, saved[v] # 0
    PROVE  Persisted[v] = saved[v]
  BY DEF Types, TypeOK, KeptInv, Persisted

LEMMA ChangeKept ==
    ASSUME ConstantsOK, Types, KeptInv, NEW u \in Accounts, user' = u, u # user, Loaded(u),
           saved' = saved \/ saved' = Persisted, odd' = odd
    PROVE  KeptInv'
<1>1. saved'[u] = saved[u]
  BY DEF Persisted, Types, TypeOK
<1>2. saved[u] # 0 => crypto' = saved[u]
  BY DEF Loaded
<1> QED
  BY <1>1, <1>2 DEF KeptInv

LEMMA SameKept ==
    ASSUME ConstantsOK, Types, KeptInv, UNCHANGED <<crypto, user>>, saved' = saved \/ saved' = Persisted,
           odd \subseteq odd'
    PROVE  KeptInv'
<1> SUFFICES ASSUME Plain', crypto # 0, saved'[user] # 0 PROVE saved'[user] = crypto
  BY DEF KeptInv
<1>1. Plain /\ user \in Accounts
  BY DEF Plain, Types, TypeOK, Stopped
<1>2. CASE saved' = saved
  BY <1>1, <1>2 DEF KeptInv
<1>3. CASE saved' = Persisted
  BY <1>1, <1>3 DEF Persisted, Types, TypeOK
<1> QED
  BY <1>2, <1>3

LEMMA BootKept ==
    ASSUME ConstantsOK, Types, KeptInv, ~running, NEW accounts, accounts \subseteq Accounts, accounts # {},
           Boot(accounts)
    PROVE  KeptInv'
<1>1. InOrder(accounts)[1] \in Accounts /\ user \notin Accounts
  BY FirstAccount DEF Types, TypeOK
<1> QED
  BY <1>1, ChangeKept DEF Boot, past

LEMMA SwitchKept ==
    ASSUME ConstantsOK, Types, KeptInv, NEW i \in 1..Cardinality(stored), Switch(i)
    PROVE  KeptInv'
<1>1. stored \subseteq Accounts
  BY DEF Types, TypeOK
<1>2. Listed[i] \in Accounts
  <2>1. Listed \in Seq(stored) /\ i \in 1..Len(Listed)
    BY <1>1, InOrderProperties DEF Listed
  <2> QED
    BY <1>1, <2>1, ElementOfSeq
<1> QED
  BY <1>2, ChangeKept, SameKept DEF Switch, SwitchTo, Nothing, store, past

LEMMA NextKept ==
    ASSUME ConstantsOK
    PROVE  Types /\ KeptInv /\ [Next]_vars => KeptInv'
<1> SUFFICES ASSUME Types, KeptInv, [Next]_vars PROVE KeptInv'
  OBVIOUS
<1>1. CASE StartSaved
  BY <1>1, BootKept DEF StartSaved, Types, TypeOK
<1>2. ASSUME NEW u \in Accounts, StartLogin(u) PROVE KeptInv'
  <2>1. {u} \subseteq Accounts /\ {u} # {}
    OBVIOUS
  <2> QED
    BY <1>2, <2>1, BootKept DEF StartLogin
<1>3. CASE Quit
  BY <1>3 DEF Quit, KeptInv
<1>4. CASE SyncResponse \/ AuthError \/ Deliver \/ LoginFails \/ CancelAdd \/ CancelLogin
           \/ \E u \in Accounts : Prepare(u) \/ TryLogin(u)
  BY <1>4, SameKept DEF SyncResponse, AuthError, Prepare, Deliver, LoginFails, CancelAdd,
     CancelLogin, TryLogin, store, past
<1>5. ASSUME NEW i \in 1..(Len(combo) + 3), SelectEntry(i) PROVE KeptInv'
  <2>1. i \in Nat \ {0}
    OBVIOUS
  <2>2. CASE AddAccount \/ Logout \/ Nothing(i)
    BY <2>2, SameKept DEF AddAccount, Logout, Nothing, store, past
  <2> QED
    BY <1>5, <2>1, <2>2, SelectEntryCases, SwitchKept DEF Types
<1>6. CASE NextAccount
  <2>1. stored \subseteq Accounts /\ index \in Nat \ {0}
    BY UsersFinite DEF Types, TypeOK
  <2>2. Cardinality(stored) \in Nat
    BY <2>1, InOrderProperties
  <2> DEFINE next == IF index >= Cardinality(stored) THEN 1 ELSE index + 1
  <2>3. next \in 1..Cardinality(stored) /\ Switch(next)
    BY <1>6, <2>1, <2>2 DEF NextAccount
  <2> QED
    BY <2>3, SwitchKept
<1>7. ASSUME NEW u \in Accounts, AccountAdded(u) PROVE KeptInv'
  \* Its identity is new; none was stored, or the account was added again.
  <2>1. user' = u /\ saved' = saved /\ odd' = odd \cup (IF saved[u] # 0 THEN {"again"} ELSE {})
    BY <1>7 DEF AccountAdded, LoggedIn
  <2> QED
    BY <2>1 DEF KeptInv, Plain
<1>8. ASSUME NEW u \in Accounts, ReLogin(u) PROVE KeptInv'
  <2>1. UNCHANGED <<saved, crypto>> /\ user' = u
        /\ odd' = odd \cup (IF u = user THEN {} ELSE {"swapped"})
    BY <1>8 DEF ReLogin, LoggedIn
  <2> QED
    BY <2>1 DEF KeptInv, Plain
<1>9. CASE UNCHANGED vars
  BY <1>9, SameKept DEF vars
<1> QED
  BY <1>1, <1>2, <1>3, <1>4, <1>5, <1>6, <1>7, <1>8, <1>9 DEF Next

\* A step keeps the identities that are stored.
Keeps == odd' \cap {"swapped", "again"} = {} =>
             \A u \in Accounts : saved[u] # 0 => saved'[u] = saved[u]

LEMMA NextKeeps ==
    ASSUME ConstantsOK
    PROVE  Types /\ KeptInv /\ [Next]_vars => [Keeps]_vars
<1> SUFFICES ASSUME Types, KeptInv, Next PROVE Keeps
  OBVIOUS
<1>1. saved' = saved \/ saved' = Persisted
  <2>1. ASSUME NEW i \in 1..(Len(combo) + 3), SelectEntry(i)
        PROVE  saved' = saved \/ saved' = Persisted
    <3>1. i \in Nat \ {0}
      OBVIOUS
    <3> QED
      BY <2>1, <3>1, SelectEntryCases DEF Switch, SwitchTo, AddAccount, Logout, Nothing, store, Types
  <2> QED
    BY <2>1 DEF Next, StartSaved, StartLogin, Boot, Quit, SyncResponse, AuthError, Prepare, Deliver,
       NextAccount, Switch, SwitchTo, Nothing, TryLogin, AccountAdded, ReLogin, LoginFails,
       CancelAdd, CancelLogin, store
<1>2. Plain' => Plain
  <2>1. odd \subseteq odd'
    <3>1. ASSUME NEW i \in 1..(Len(combo) + 3), SelectEntry(i) PROVE odd' = odd
      <4>1. i \in Nat \ {0}
        OBVIOUS
      <4> QED
        BY <3>1, <4>1, SelectEntryCases DEF Switch, SwitchTo, AddAccount, Logout, Nothing, past, Types
    <3> QED
      BY <3>1 DEF Next, StartSaved, StartLogin, Boot, Quit, SyncResponse, AuthError, Prepare, Deliver,
         NextAccount, Switch, SwitchTo, Nothing, TryLogin, AccountAdded, ReLogin, LoginFails,
         CancelAdd, CancelLogin, past
  <2> QED
    BY <2>1 DEF Plain
<1> QED
  BY <1>1, <1>2, PersistedKept DEF Keeps, Plain

(***************************************************************************)
(* No step replaces an identity that the store has for an account          *)
(* (Decryptor::persist, under the key of the client's account), unless the *)
(* account was added again, or somebody logged in as another one in        *)
(* AuthHandler's dialog.                                                   *)
(***************************************************************************)
THEOREM IdentityStays == ASSUME ConstantsOK PROVE Spec => IdentityKept
<1>1. Spec => [][Keeps]_vars
  BY InitKept, NextKept, NextKeeps, TypesHold, PTL DEF Spec
<1> QED
  BY <1>1 DEF Keeps, IdentityKept

-----------------------------------------------------------------------------
(***************************************************************************)
(* The sync thread, and the homeserver it asks                             *)
(***************************************************************************)
LoginPosted == \E i \in DOMAIN posted : posted[i].kind = "showLogin"
SyncInv     == running /\ ~sync => Open \/ LoginPosted \/ "dismissed" \in lapse

\* Only a login under way, or one that failed, has the client at another homeserver.
ServerInv   == running /\ server # user => attempt # NoAttempt \/ "astray" \in lapse

\* Nothing was taken away that sync waits for.
LEMMA SameSync ==
    ASSUME ConstantsOK, SyncInv, UNCHANGED <<running, sync, posted>>, Open => Open',
           "dismissed" \in lapse => "dismissed" \in lapse'
    PROVE  SyncInv'
  BY DEF SyncInv, LoginPosted

LEMMA PostSync ==
    ASSUME ConstantsOK, Types, SyncInv, NEW kind, NEW u,
           posted' = Append(posted, [kind |-> kind, user |-> u]),
           UNCHANGED <<running, sync, adding, logins, lapse>>
    PROVE  SyncInv'
<1>1. posted \in Seq(Event)
  BY DEF Types, TypeOK
<1>2. \A i \in DOMAIN posted : i \in DOMAIN posted' /\ posted'[i] = posted[i]
  BY <1>1
<1>3. LoginPosted => LoginPosted'
  BY <1>2 DEF LoginPosted
<1> QED
  BY <1>3 DEF SyncInv, Open

LEMMA DeliverSync ==
    ASSUME ConstantsOK
    PROVE  Types /\ SyncInv /\ Deliver => SyncInv'
<1> SUFFICES ASSUME Types, SyncInv, Deliver PROVE SyncInv'
  OBVIOUS
<1> DEFINE e == Head(posted)
<1>1. posted \in Seq(Event) /\ posted # <<>> /\ e = posted[1] /\ Tail(posted) \in Seq(Event)
      /\ e \in Event /\ UNCHANGED <<running, adding, lapse>>
  BY DEF Deliver, Types, TypeOK, past
<1>2. CASE ForceReLogin(e)
  <2>1. posted' = Append(Tail(posted), [e EXCEPT !.kind = "showLogin"])
        /\ [e EXCEPT !.kind = "showLogin"].kind = "showLogin"
    BY <1>1, <1>2 DEF ForceReLogin, Event
  <2>2. Len(posted') \in DOMAIN posted' /\ posted'[Len(posted')].kind = "showLogin"
    BY <1>1, <2>1
  <2> QED
    BY <2>2 DEF SyncInv, LoginPosted
<1>3. CASE ShowLoginDialog(e)
  <2>1. logins' > 0
    BY <1>3 DEF ShowLoginDialog, Types, TypeOK
  <2> QED
    BY <2>1 DEF SyncInv, Open
<1>4. CASE HandleResponse(e) \/ ApplyUpdate(e)
  <2>1. posted' = Tail(posted) /\ e.kind # "showLogin" /\ UNCHANGED <<sync, logins>>
    BY <1>4 DEF HandleResponse, ApplyUpdate
  <2>2. \A i \in DOMAIN posted : i # 1 => i - 1 \in DOMAIN posted' /\ posted'[i - 1] = posted[i]
    BY <1>1, <2>1
  <2>3. LoginPosted => LoginPosted'
    BY <1>1, <2>1, <2>2 DEF LoginPosted
  <2> QED
    BY <1>1, <2>1, <2>3 DEF SyncInv, Open
<1> QED
  BY <1>2, <1>3, <1>4 DEF Deliver

LEMMA NextSync ==
    ASSUME ConstantsOK
    PROVE  Types /\ SyncInv /\ [Next]_vars => SyncInv'
<1> SUFFICES ASSUME Types, SyncInv, [Next]_vars PROVE SyncInv'
  OBVIOUS
<1>1. CASE sync' = TRUE \/ running' = FALSE \/ adding' = TRUE
  BY <1>1 DEF SyncInv, Open
<1>2. CASE StartSaved \/ Quit \/ CancelAdd
           \/ \E u \in Accounts : StartLogin(u) \/ AccountAdded(u) \/ ReLogin(u)
  BY <1>1, <1>2 DEF StartSaved, StartLogin, Boot, Quit, CancelAdd, AccountAdded, ReLogin, LoggedIn
<1>3. CASE SyncResponse \/ AuthError \/ \E u \in Accounts : Prepare(u)
  BY <1>3, PostSync DEF SyncResponse, AuthError, Prepare, Post, login, past
<1>4. ASSUME NEW i, Nothing(i), UNCHANGED <<running, posted>> PROVE SyncInv'
  BY <1>4, SameSync DEF Nothing, past, Open
<1>5. CASE Logout
  <2>1. logins' > 0
    BY <1>5 DEF Logout, Types, TypeOK
  <2> QED
    BY <2>1 DEF SyncInv, Open
<1>6. ASSUME NEW i \in 1..(Len(combo) + 3), SelectEntry(i) PROVE SyncInv'
  <2>1. i \in Nat \ {0} /\ UNCHANGED <<running, posted>>
    BY <1>6 DEF SelectEntry
  <2> QED
    BY <1>1, <1>4, <1>5, <1>6, <2>1, SelectEntryCases DEF Switch, SwitchTo, AddAccount, Types
<1>7. CASE NextAccount
  BY <1>1, <1>4, <1>7 DEF NextAccount, Switch, SwitchTo
<1>8. CASE LoginFails \/ \E u \in Accounts : TryLogin(u)
  BY <1>8, SameSync DEF LoginFails, TryLogin, past, Open
<1>9. CASE CancelLogin
  BY <1>9 DEF CancelLogin, SyncInv
<1>10. CASE UNCHANGED vars
  BY <1>10, SameSync DEF vars, Open
<1> QED
  BY <1>2, <1>3, <1>6, <1>7, <1>8, <1>9, <1>10, DeliverSync DEF Next

\* Nobody but an attempt to log in leaves the homeserver of the account in use.
LEMMA SameServer ==
    ASSUME ServerInv,
           ~running' \/ server' = user' \/ (UNCHANGED <<running, server, user, attempt>>
                                            /\ ("astray" \in lapse => "astray" \in lapse'))
    PROVE  ServerInv'
  BY DEF ServerInv

LEMMA NextServer ==
    ASSUME ConstantsOK
    PROVE  Types /\ ServerInv /\ [Next]_vars => ServerInv'
<1> SUFFICES ASSUME Types, ServerInv, [Next]_vars PROVE ServerInv'
  OBVIOUS
<1>1. CASE StartSaved \/ Quit \/ \E u \in Accounts : StartLogin(u) \/ AccountAdded(u) \/ ReLogin(u)
  BY <1>1, SameServer DEF StartSaved, StartLogin, Boot, Quit, AccountAdded, ReLogin, LoggedIn
<1>2. CASE SyncResponse \/ AuthError \/ Deliver \/ CancelAdd \/ CancelLogin
           \/ \E u \in Accounts : Prepare(u)
  BY <1>2, SameServer DEF SyncResponse, AuthError, Prepare, Deliver, CancelAdd, CancelLogin, login,
     past
<1>3. ASSUME NEW i, Switch(i) \/ Nothing(i), UNCHANGED <<running, attempt>> PROVE ServerInv'
  BY <1>3, SameServer DEF Switch, SwitchTo, Nothing, past
<1>4. CASE (AddAccount \/ Logout) /\ UNCHANGED <<running, attempt>>
  BY <1>4, SameServer DEF AddAccount, Logout, past
<1>5. ASSUME NEW i \in 1..(Len(combo) + 3), SelectEntry(i) PROVE ServerInv'
  <2>1. i \in Nat \ {0} /\ UNCHANGED <<running, attempt>>
    BY <1>5 DEF SelectEntry
  <2> QED
    BY <1>3, <1>4, <1>5, <2>1, SelectEntryCases DEF Types
<1>6. CASE NextAccount
  BY <1>3, <1>6 DEF NextAccount
<1>7. ASSUME NEW u \in Accounts, TryLogin(u) PROVE ServerInv'
  <2>1. attempt' # NoAttempt
    BY <1>7, AttemptOf DEF TryLogin, Top
  <2> QED
    BY <2>1 DEF ServerInv
<1>8. CASE LoginFails
  BY <1>8 DEF LoginFails, ServerInv
<1>9. CASE UNCHANGED vars
  BY <1>9, SameServer DEF vars
<1> QED
  BY <1>1, <1>2, <1>5, <1>6, <1>7, <1>8, <1>9 DEF Next

(***************************************************************************)
(* The account in use is served: its sync runs, and asks its homeserver.   *)
(* Whatever switches, nested dialogs and late errors of another account do *)
(* in between, it is not only while a login dialog is open or posted,      *)
(* after the user dismissed AuthHandler's, or after a login that failed    *)
(* and had pointed the client elsewhere (AuthHandler::forceReLogin,        *)
(* AccountSwitcher::addAccount, LoginDialog::onLoginClicked).              *)
(***************************************************************************)
THEOREM SessionServed == ASSUME ConstantsOK PROVE Spec => []SessionIsServed
<1>1. Init => SyncInv /\ ServerInv
  BY DEF Init, SyncInv, ServerInv
<1>2. Types /\ SyncInv /\ ServerInv => SessionIsServed
  <2> SUFFICES ASSUME Types, SyncInv, ServerInv, running PROVE SessionIsServed
    BY DEF SessionIsServed
  <2>1. attempt # NoAttempt => Open
    BY DEF Types, InDialog, Open
  <2>2. LoginPosted => \E e \in ToSet(posted) : e.kind = "showLogin"
    BY DEF LoginPosted, ToSet
  <2> QED
    BY <2>1, <2>2 DEF SyncInv, ServerInv, SessionIsServed
<1> QED
  BY <1>1, <1>2, TypesHold, NextSync, NextServer, PTL DEF Spec
=============================================================================
