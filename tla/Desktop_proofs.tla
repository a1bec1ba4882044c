--------------------------- MODULE Desktop_proofs ---------------------------
(***************************************************************************)
(* Theorems about the parts of the main window, for every value of their   *)
(* constants.                                                              *)
(***************************************************************************)
EXTENDS Desktop, Dialogs_proofs, Panels_proofs

-----------------------------------------------------------------------------
(***************************************************************************)
(* The window keeps every part to its specification: the other parts only  *)
(* make it stutter.                                                        *)
(***************************************************************************)
LEMMA PartsBegin ==
    Init => /\ Accounts!Init /\ List!Init /\ Directory!Init /\ Tools!Init /\ Threads!Init
            /\ People!Init /\ Preferences!Init /\ Profile!Init /\ Attachments!Init
            /\ Reacting!Init /\ Verifying!Init /\ Ingest!Init
  BY Zenon DEF Init

\* A step is the one part's, which is in use, or nobody's.
LEMMA OnePartSteps ==
    [Next]_vars =>
        /\ Accounts!Next \/ UNCHANGED accountsVars
        /\ List!Next \/ UNCHANGED listVars
        /\ Directory!Next \/ UNCHANGED directoryVars
        /\ Tools!Next \/ UNCHANGED toolsVars
        /\ Threads!Next \/ UNCHANGED threadsVars
        /\ People!Next \/ UNCHANGED peopleVars
        /\ Preferences!Next \/ UNCHANGED preferencesVars
        /\ Profile!Next \/ UNCHANGED profileVars
        /\ Attachments!Next \/ UNCHANGED attachmentsVars
        /\ Reacting!Next \/ UNCHANGED reactionsVars
        /\ Verifying!Next \/ UNCHANGED verificationVars
        /\ Ingest!Next \/ UNCHANGED ingestVars
<1>1. CASE Accounts!Next /\ Only("accounts")
  BY <1>1 DEF Only
<1>2. CASE List!Next /\ Only("list")
  BY <1>2 DEF Only
<1>3. CASE Directory!Next /\ Only("directory")
  BY <1>3 DEF Only
<1>4. CASE Tools!Next /\ Only("tools")
  BY <1>4 DEF Only
<1>5. CASE Threads!Next /\ Only("threads")
  BY <1>5 DEF Only
<1>6. CASE People!Next /\ Only("people")
  BY <1>6 DEF Only
<1>7. CASE Preferences!Next /\ Only("preferences")
  BY <1>7 DEF Only
<1>8. CASE Profile!Next /\ Only("profile")
  BY <1>8 DEF Only
<1>9. CASE Attachments!Next /\ Only("attachments")
  BY <1>9 DEF Only
<1>10. CASE Reacting!Next /\ Only("reactions")
  BY <1>10 DEF Only
<1>11. CASE Verifying!Next /\ Only("verification")
  BY <1>11 DEF Only
<1>12. CASE Ingest!Next /\ Only("ingest")
  BY <1>12 DEF Only
<1>13. CASE UNCHANGED vars
  BY <1>13 DEF vars
<1> QED
  BY <1>1, <1>2, <1>3, <1>4, <1>5, <1>6, <1>7, <1>8, <1>9, <1>10, <1>11, <1>12, <1>13
  DEF Next

LEMMA AccountsStep == [Next]_vars => [Accounts!Next]_(Accounts!vars)
  BY OnePartSteps DEF accountsVars, Accounts!vars

LEMMA ListStep == [Next]_vars => [List!Next]_(List!vars)
  BY OnePartSteps DEF listVars, List!vars

LEMMA DirectoryStep == [Next]_vars => [Directory!Next]_(Directory!vars)
  BY OnePartSteps DEF directoryVars, Directory!vars

LEMMA ToolsStep == [Next]_vars => [Tools!Next]_(Tools!vars)
  BY OnePartSteps DEF toolsVars, Tools!vars

LEMMA ThreadsStep == [Next]_vars => [Threads!Next]_(Threads!vars)
  BY OnePartSteps DEF threadsVars, Threads!vars

LEMMA PeopleStep == [Next]_vars => [People!Next]_(People!vars)
  BY OnePartSteps DEF peopleVars, People!vars

LEMMA PreferencesStep == [Next]_vars => [Preferences!Next]_(Preferences!vars)
  BY OnePartSteps DEF preferencesVars, Preferences!vars

LEMMA ProfileStep == [Next]_vars => [Profile!Next]_(Profile!vars)
  BY OnePartSteps DEF profileVars, Profile!vars

LEMMA AttachmentsStep == [Next]_vars => [Attachments!Next]_(Attachments!vars)
  BY OnePartSteps DEF attachmentsVars, Attachments!vars

LEMMA ReactingStep == [Next]_vars => [Reacting!Next]_(Reacting!vars)
  BY OnePartSteps DEF reactionsVars, Reacting!vars

LEMMA VerifyingStep == [Next]_vars => [Verifying!Next]_(Verifying!vars)
  BY OnePartSteps DEF verificationVars, Verifying!vars

LEMMA IngestStep == [Next]_vars => [Ingest!Next]_(Ingest!vars)
  BY OnePartSteps DEF ingestVars, Ingest!vars

\* Hence what a part's module promises of it alone holds in the window.
THEOREM PartsBehave ==
    Spec => /\ Accounts!Spec /\ List!Spec /\ Directory!Spec /\ Tools!Spec /\ Threads!Spec
            /\ People!Spec /\ Preferences!Spec /\ Profile!Spec /\ Attachments!Spec
            /\ Reacting!Spec /\ Verifying!Spec /\ Ingest!Spec
  <1>1. Spec => Accounts!Spec
    BY PartsBegin, AccountsStep, PTL DEF Spec, Accounts!Spec
  <1>2. Spec => List!Spec
    BY PartsBegin, ListStep, PTL DEF Spec, List!Spec
  <1>3. Spec => Directory!Spec
    BY PartsBegin, DirectoryStep, PTL DEF Spec, Directory!Spec
  <1>4. Spec => Tools!Spec
    BY PartsBegin, ToolsStep, PTL DEF Spec, Tools!Spec
  <1>5. Spec => Threads!Spec
    BY PartsBegin, ThreadsStep, PTL DEF Spec, Threads!Spec
  <1>6. Spec => People!Spec
    BY PartsBegin, PeopleStep, PTL DEF Spec, People!Spec
  <1>7. Spec => Preferences!Spec
    BY PartsBegin, PreferencesStep, PTL DEF Spec, Preferences!Spec
  <1>8. Spec => Profile!Spec
    BY PartsBegin, ProfileStep, PTL DEF Spec, Profile!Spec
  <1>9. Spec => Attachments!Spec
    BY PartsBegin, AttachmentsStep, PTL DEF Spec, Attachments!Spec
  <1>10. Spec => Reacting!Spec
    BY PartsBegin, ReactingStep, PTL DEF Spec, Reacting!Spec
  <1>11. Spec => Verifying!Spec
    BY PartsBegin, VerifyingStep, PTL DEF Spec, Verifying!Spec
  <1>12. Spec => Ingest!Spec
    BY PartsBegin, IngestStep, PTL DEF Spec, Ingest!Spec
  <1>13. QED
    BY <1>1, <1>2, <1>3, <1>4, <1>5, <1>6, <1>7, <1>8, <1>9, <1>10, <1>11, <1>12

-----------------------------------------------------------------------------
(***************************************************************************)
(* What the theorems about AccountSession say of the window's accounts.    *)
(***************************************************************************)
AccountsTheory == INSTANCE AccountSession_proofs WITH
    Users <- AccountIds, Budget <- Budgets.accounts, saved <- accSaved, posted <- accPosted,
    working <- accWorking, rows <- accRows, odd <- accOdd,
    fuel <- accFuel

\* The operators of the two instances of AccountSession are the same ones.
LEMMA AccountsOperators ==
    /\ AccountsTheory!Accounts = Accounts!Accounts
    /\ \A S : AccountsTheory!Cardinality(S) = Accounts!Cardinality(S)
    /\ \A S : AccountsTheory!InOrder(S) = Accounts!InOrder(S)
    /\ \A s, u : AccountsTheory!PosIn(s, u) = Accounts!PosIn(s, u)
    /\ \A u : AccountsTheory!Loaded(u) <=> Accounts!Loaded(u)
    /\ AccountsTheory!Queued = Accounts!Queued
    /\ AccountsTheory!NoAttempt = Accounts!NoAttempt
  <1>1. AccountsTheory!Accounts = Accounts!Accounts
    BY DEF AccountsTheory!Accounts, Accounts!Accounts, AccountsTheory!ToSet,
           Accounts!ToSet
  <1>2. \A S : AccountsTheory!Cardinality(S) = Accounts!Cardinality(S)
    BY DEF AccountsTheory!Cardinality, Accounts!Cardinality
  <1>3. \A s, K : AccountsTheory!Selected(s, K) = Accounts!Selected(s, K)
    BY DEF AccountsTheory!Selected, Accounts!Selected, AccountsTheory!Rank,
           Accounts!Rank, AccountsTheory!Cardinality, Accounts!Cardinality
  <1>4. \A S : AccountsTheory!InOrder(S) = Accounts!InOrder(S)
    BY <1>3 DEF AccountsTheory!InOrder, Accounts!InOrder
  <1>5. \A s, u : AccountsTheory!PosIn(s, u) = Accounts!PosIn(s, u)
    BY DEF AccountsTheory!PosIn, Accounts!PosIn, AccountsTheory!ToSet, Accounts!ToSet
  <1>6. \A u : AccountsTheory!Loaded(u) <=> Accounts!Loaded(u)
    BY DEF AccountsTheory!Loaded, Accounts!Loaded, AccountsTheory!Fresh,
           Accounts!Fresh
  <1>7. AccountsTheory!Queued = Accounts!Queued
    BY <1>1 DEF AccountsTheory!Queued, Accounts!Queued, AccountsTheory!ToSet, Accounts!ToSet
  <1>8. AccountsTheory!NoAttempt = Accounts!NoAttempt
    BY DEF AccountsTheory!NoAttempt, Accounts!NoAttempt
  <1>9. QED
    BY <1>1, <1>2, <1>4, <1>5, <1>6, <1>7, <1>8

\* And so are their steps.
LEMMA AccountsMenu ==
    /\ \A i : AccountsTheory!SelectEntry(i) <=> Accounts!SelectEntry(i)
    /\ AccountsTheory!NextAccount <=> Accounts!NextAccount
  <1>1. \A i : AccountsTheory!Switch(i) <=> Accounts!Switch(i)
    BY AccountsOperators
    DEF AccountsTheory!Switch, Accounts!Switch, AccountsTheory!SwitchTo,
           Accounts!SwitchTo, AccountsTheory!Nothing, Accounts!Nothing,
           AccountsTheory!Listed, Accounts!Listed, AccountsTheory!Persisted,
           Accounts!Persisted, AccountsTheory!ClearRows, Accounts!ClearRows,
           AccountsTheory!store, Accounts!store, AccountsTheory!login,
           Accounts!login, AccountsTheory!past, Accounts!past
  <1>2. AccountsTheory!Logout <=> Accounts!Logout
    BY AccountsOperators
    DEF AccountsTheory!Logout, Accounts!Logout, AccountsTheory!Listed,
           Accounts!Listed, AccountsTheory!Persisted, Accounts!Persisted,
           AccountsTheory!ClearRows, Accounts!ClearRows
  <1>3. AccountsTheory!AddAccount <=> Accounts!AddAccount
    BY AccountsOperators
    DEF AccountsTheory!AddAccount, Accounts!AddAccount, AccountsTheory!Listed,
           Accounts!Listed, AccountsTheory!Persisted, Accounts!Persisted,
           AccountsTheory!past, Accounts!past
  <1>4. \A i : AccountsTheory!Nothing(i) <=> Accounts!Nothing(i)
    BY DEF AccountsTheory!Nothing, Accounts!Nothing, AccountsTheory!store,
           Accounts!store, AccountsTheory!login, Accounts!login, AccountsTheory!past,
           Accounts!past
  <1>5. AccountsTheory!Entries = Accounts!Entries
    BY DEF AccountsTheory!Entries, Accounts!Entries
  <1>6. \A i : AccountsTheory!SelectEntry(i) <=> Accounts!SelectEntry(i)
    BY AccountsOperators, <1>1, <1>2, <1>3, <1>4, <1>5
    DEF AccountsTheory!SelectEntry, Accounts!SelectEntry, AccountsTheory!Open, Accounts!Open
  <1>7. AccountsTheory!NextAccount <=> Accounts!NextAccount
    BY AccountsOperators, <1>1
    DEF AccountsTheory!NextAccount, Accounts!NextAccount, AccountsTheory!Open, Accounts!Open
  <1>8. QED
    BY <1>6, <1>7

LEMMA AccountsSync ==
    /\ AccountsTheory!SyncResponse <=> Accounts!SyncResponse
    /\ AccountsTheory!AuthError <=> Accounts!AuthError
    /\ \A u : AccountsTheory!Prepare(u) <=> Accounts!Prepare(u)
    /\ AccountsTheory!Deliver <=> Accounts!Deliver
    /\ AccountsTheory!Quit <=> Accounts!Quit
  <1>1. AccountsTheory!SyncResponse <=> Accounts!SyncResponse
    BY DEF AccountsTheory!SyncResponse, Accounts!SyncResponse, AccountsTheory!Spend,
           Accounts!Spend, AccountsTheory!Post, Accounts!Post, AccountsTheory!store,
           Accounts!store, AccountsTheory!window, Accounts!window,
           AccountsTheory!login, Accounts!login, AccountsTheory!past, Accounts!past
  <1>2. AccountsTheory!AuthError <=> Accounts!AuthError
    BY DEF AccountsTheory!AuthError, Accounts!AuthError, AccountsTheory!Spend,
           Accounts!Spend, AccountsTheory!Post, Accounts!Post, AccountsTheory!store,
           Accounts!store, AccountsTheory!window, Accounts!window,
           AccountsTheory!login, Accounts!login, AccountsTheory!past, Accounts!past
  <1>3. AccountsTheory!Deliver <=> Accounts!Deliver
    BY DEF AccountsTheory!Deliver, Accounts!Deliver, AccountsTheory!HandleResponse,
           Accounts!HandleResponse, AccountsTheory!ApplyUpdate, Accounts!ApplyUpdate,
           AccountsTheory!ForceReLogin,
           Accounts!ForceReLogin, AccountsTheory!ShowLoginDialog,
           Accounts!ShowLoginDialog, AccountsTheory!store, Accounts!store,
           AccountsTheory!past, Accounts!past
  <1>4. AccountsTheory!Quit <=> Accounts!Quit
    BY AccountsOperators
    DEF AccountsTheory!Quit, Accounts!Quit, AccountsTheory!Spend, Accounts!Spend,
           AccountsTheory!Persisted, Accounts!Persisted, AccountsTheory!Open, Accounts!Open,
           AccountsTheory!login, Accounts!login
  <1>5. \A u : AccountsTheory!Prepare(u) <=> Accounts!Prepare(u)
    BY DEF AccountsTheory!Prepare, Accounts!Prepare, AccountsTheory!store, Accounts!store,
           AccountsTheory!window, Accounts!window, AccountsTheory!login, Accounts!login,
           AccountsTheory!past, Accounts!past
  <1>6. QED
    BY <1>1, <1>2, <1>3, <1>4, <1>5

LEMMA AccountsLogin ==
    /\ AccountsTheory!StartSaved <=> Accounts!StartSaved
    /\ \A u : AccountsTheory!StartLogin(u) <=> Accounts!StartLogin(u)
    /\ \A u : AccountsTheory!TryLogin(u) <=> Accounts!TryLogin(u)
    /\ \A u : AccountsTheory!AccountAdded(u) <=> Accounts!AccountAdded(u)
    /\ \A u : AccountsTheory!ReLogin(u) <=> Accounts!ReLogin(u)
    /\ AccountsTheory!LoginFails <=> Accounts!LoginFails
    /\ AccountsTheory!CancelAdd <=> Accounts!CancelAdd
    /\ AccountsTheory!CancelLogin <=> Accounts!CancelLogin
  <1>1. \A S : AccountsTheory!Boot(S) <=> Accounts!Boot(S)
    BY AccountsOperators DEF AccountsTheory!Boot, Accounts!Boot, AccountsTheory!login, Accounts!login,
           AccountsTheory!past, Accounts!past
  <1>2. AccountsTheory!StartSaved <=> Accounts!StartSaved
    BY <1>1 DEF AccountsTheory!StartSaved, Accounts!StartSaved
  <1>3. \A u : AccountsTheory!StartLogin(u) <=> Accounts!StartLogin(u)
    BY <1>1 DEF AccountsTheory!StartLogin, Accounts!StartLogin, AccountsTheory!Spend,
           Accounts!Spend
  <1>4. \A u : AccountsTheory!TryLogin(u) <=> Accounts!TryLogin(u)
    BY AccountsOperators
    DEF AccountsTheory!TryLogin, Accounts!TryLogin, AccountsTheory!Open,
           Accounts!Open, AccountsTheory!Top, Accounts!Top, AccountsTheory!store, Accounts!store, AccountsTheory!window,
           Accounts!window, AccountsTheory!past, Accounts!past
  <1>5. \A u : AccountsTheory!AccountAdded(u) <=> Accounts!AccountAdded(u)
    BY AccountsOperators
    DEF AccountsTheory!AccountAdded, Accounts!AccountAdded,
           AccountsTheory!LoggedIn, Accounts!LoggedIn, AccountsTheory!Spend,
           Accounts!Spend, AccountsTheory!AddInit, Accounts!AddInit,
           AccountsTheory!Fresh, Accounts!Fresh, AccountsTheory!ClearRows,
           Accounts!ClearRows, AccountsTheory!RefillMenu, Accounts!RefillMenu
  <1>6. \A u : AccountsTheory!ReLogin(u) <=> Accounts!ReLogin(u)
    BY AccountsOperators
    DEF AccountsTheory!ReLogin, Accounts!ReLogin, AccountsTheory!LoggedIn,
           Accounts!LoggedIn, AccountsTheory!Spend, Accounts!Spend,
           AccountsTheory!window, Accounts!window
  <1>7. AccountsTheory!LoginFails <=> Accounts!LoginFails
    BY AccountsOperators
    DEF AccountsTheory!LoginFails, Accounts!LoginFails, AccountsTheory!Spend,
           Accounts!Spend, AccountsTheory!store, Accounts!store,
           AccountsTheory!window, Accounts!window, AccountsTheory!past, Accounts!past
  <1>8. AccountsTheory!CancelAdd <=> Accounts!CancelAdd
    BY AccountsOperators
    DEF AccountsTheory!CancelAdd, Accounts!CancelAdd, AccountsTheory!Top, Accounts!Top,
           AccountsTheory!store, Accounts!store, AccountsTheory!window, Accounts!window,
           AccountsTheory!past, Accounts!past
  <1>9. AccountsTheory!CancelLogin <=> Accounts!CancelLogin
    BY AccountsOperators
    DEF AccountsTheory!CancelLogin, Accounts!CancelLogin, AccountsTheory!store,
           Accounts!store, AccountsTheory!window, Accounts!window
  <1>10. QED
    BY <1>2, <1>3, <1>4, <1>5, <1>6, <1>7, <1>8, <1>9

LEMMA AccountsAre == AccountsTheory!ConstantsOK /\ (Spec => AccountsTheory!Spec)
  <1>1. AccountsTheory!ConstantsOK
    BY ConstantsAssumption
    DEF AccountsTheory!ConstantsOK, Accounts!ConstantsOK, AccountsTheory!Steps,
           Accounts!Steps, AccountsTheory!Accounts, Accounts!Accounts,
           AccountsTheory!ToSet, Accounts!ToSet, AccountsTheory!IsInjective,
           Accounts!IsInjective
  <1>2. AccountsTheory!Init <=> Accounts!Init
    BY AccountsOperators DEF AccountsTheory!Init, Accounts!Init
  <1>3. AccountsTheory!Next <=> Accounts!Next
    BY AccountsOperators, AccountsMenu, AccountsSync, AccountsLogin
    DEF AccountsTheory!Next, Accounts!Next
  <1>4. [Accounts!Next]_(Accounts!vars) => [AccountsTheory!Next]_(AccountsTheory!vars)
    BY <1>3 DEF AccountsTheory!vars, Accounts!vars
  <1>5. Accounts!Spec => AccountsTheory!Spec
    BY <1>2, <1>4, PTL DEF AccountsTheory!Spec, Accounts!Spec
  <1>6. QED
    BY <1>1, <1>5, PartsBehave

\* The room list shows rooms of the account in use, apart from those of a response that was
\* posted, with a worker or prepared when the account changed, or that a login as someone else
\* left there (SyncResponseHandler, AccountSwitcher, AuthHandler): see AccountSession_proofs.
THEOREM RowsFollowAccount == Spec => []RowsOfAccount
  <1>1. Spec => []AccountsTheory!RowsOfAccount
    BY AccountsAre, AccountsTheory!RowsFollowAccount
  <1>2. AccountsTheory!RowsOfAccount => RowsOfAccount
    BY DEF AccountsTheory!RowsOfAccount, RowsOfAccount, Accounts!RowsOfAccount
  <1>3. QED
    BY <1>1, <1>2, PTL

\* The decryptor holds the identity of the account in use, and the store each account's
\* own (Decryptor::init, persist), in every order of switches, logins and restarts.
THEOREM CryptoFollowsAccount == Spec => []CryptoOfAccount
  <1>1. Spec => []AccountsTheory!CryptoOfAccount
    BY AccountsAre, AccountsTheory!CryptoFollowsAccount
  <1>2. AccountsTheory!CryptoOfAccount => CryptoOfAccount
    BY DEF AccountsTheory!CryptoOfAccount, CryptoOfAccount, Accounts!CryptoOfAccount,
           AccountsTheory!Accounts, Accounts!Accounts, AccountsTheory!ToSet, Accounts!ToSet
  <1>3. QED
    BY <1>1, <1>2, PTL

\* The account in use is served -- its sync runs, at its own homeserver -- but for login dialogs
\* that are open or posted, and for what a dismissed one or a failed login leaves.
THEOREM SessionServed == Spec => []SessionIsServed
  <1>1. Spec => []AccountsTheory!SessionIsServed
    BY AccountsAre, AccountsTheory!SessionServed
  <1>2. AccountsTheory!SessionIsServed => SessionIsServed
    BY DEF AccountsTheory!SessionIsServed, SessionIsServed,
           Accounts!SessionIsServed, AccountsTheory!Open, Accounts!Open,
           AccountsTheory!ToSet, Accounts!ToSet
  <1>3. QED
    BY <1>1, <1>2, PTL

\* No step replaces the identity stored for an account, unless the account is added again
\* or AuthHandler's dialog logs in as someone else.
THEOREM IdentityStays == Spec => IdentityKept
  <1>1. Spec => AccountsTheory!IdentityKept
    BY AccountsAre, AccountsTheory!IdentityStays
  <1> DEFINE Keeps(A) ==
          accOdd' \cap {"swapped", "again"} = {} =>
              \A u \in A : accSaved[u] # 0 => accSaved'[u] = accSaved[u]
  <1>2. AccountsTheory!Accounts = Accounts!Accounts /\ AccountsTheory!vars = Accounts!vars
    BY AccountsOperators DEF AccountsTheory!vars, Accounts!vars
  <1>3. [Keeps(AccountsTheory!Accounts)]_(AccountsTheory!vars)
            => [Keeps(Accounts!Accounts)]_(Accounts!vars)
    BY <1>2 DEF AccountsTheory!vars, Accounts!vars
  <1>4. QED
    BY <1>1, <1>3, PTL DEF AccountsTheory!IdentityKept, IdentityKept, Accounts!IdentityKept

\* The accounts: the two instances of AccountSession have the same types.
LEMMA AccountsAreTyped == Spec => []Accounts!TypeOK
<1>1. Spec => []AccountsTheory!TypeOK
  BY AccountsAre, AccountsTheory!TypeCorrect
<1>2. AccountsTheory!TypeOK => Accounts!TypeOK
  BY AccountsOperators
  DEF AccountsTheory!TypeOK, Accounts!TypeOK, AccountsTheory!Event, Accounts!Event,
      AccountsTheory!Attempt, Accounts!Attempt, AccountsTheory!Lapses, Accounts!Lapses,
      AccountsTheory!Steps, Accounts!Steps, AccountsTheory!Oddities, Accounts!Oddities
<1> QED
  BY <1>1, <1>2, PTL

-----------------------------------------------------------------------------
\* Every part of the window keeps to its types, whatever the others do: no row, box, request
\* or answer is about a room, user, device or message that its part does not know, a room has
\* one row, and no counter, page or key is beyond what was made.
THEOREM TypesCorrect == Spec => []TypeOK
<1>1. Spec => []Accounts!TypeOK
  BY AccountsAreTyped
<1>2. List!Spec => []List!TypeOK
  BY ListIsTyped, ConstantsAssumption
<1>3. Directory!Spec => []Directory!TypeOK
  BY DirectoryIsTyped, ConstantsAssumption
<1>4. Tools!Spec => []Tools!TypeOK
  BY ToolsTyped, ConstantsAssumption
<1>5. Threads!Spec => []Threads!TypeOK
  BY ThreadsAreTyped, ConstantsAssumption
<1>6. People!Spec => []People!TypeOK
  BY PeopleAreTyped, ConstantsAssumption
<1>7. Preferences!Spec => []Preferences!TypeOK
  BY PreferencesAreTyped, ConstantsAssumption
<1>8. Profile!Spec => []Profile!TypeOK
  BY ProfileIsTyped, ConstantsAssumption
<1>9. Attachments!Spec => []Attachments!TypeOK
  BY AttachmentsAreTyped, ConstantsAssumption
<1>10. Reacting!Spec => []Reacting!TypeOK
  BY ReactionsAreTyped, ConstantsAssumption
<1>11. Verifying!Spec => []Verifying!TypeOK
  BY VerificationTyped, ConstantsAssumption
<1>12. Ingest!Spec => []Ingest!TypeOK
  BY IngestIsTyped, ConstantsAssumption
<1>13. /\ Accounts!TypeOK /\ List!TypeOK /\ Directory!TypeOK /\ Tools!TypeOK /\ Threads!TypeOK
       /\ People!TypeOK /\ Preferences!TypeOK /\ Profile!TypeOK /\ Attachments!TypeOK
       /\ Reacting!TypeOK /\ Verifying!TypeOK /\ Ingest!TypeOK
       => TypeOK
  BY DEF TypeOK
<1> QED
  BY <1>1, <1>2, <1>3, <1>4, <1>5, <1>6, <1>7, <1>8, <1>9, <1>10, <1>11, <1>12, <1>13,
     PartsBehave, PTL

-----------------------------------------------------------------------------
(***************************************************************************)
(* What the theorems about the panels and the dialogs say of the window's. *)
(***************************************************************************)
\* A room the user hid stays off the list until he leaves it: no response, directory or
\* command that was under way when he hid it brings it back (RoomListModel::upsertRoom).
THEOREM HiddenStays == Spec => []HiddenStaysHidden
<1>1. List!Spec => []HiddenStaysHidden
  BY HiddenIsUnlisted, ConstantsAssumption, PTL DEF HiddenStaysHidden
<1> QED
  BY <1>1, PartsBehave, PTL

\* When all is delivered, the list shows the rooms that the user is in or invited to, and no
\* others, except those he hid and those whose responses, answers and commands overtook each
\* other (SyncResponseHandler, RoomListModel, onRoomListContextMenu).
THEOREM ListFollows == Spec => []ListFollowsServer
<1>1. List!Spec => []ListFollowsServer
  BY ListIsRight, ConstantsAssumption, PTL DEF ListFollowsServer
<1> QED
  BY <1>1, PartsBehave, PTL

\* Nothing that an answer brought is lost, in whatever order pages, responses and openings of
\* the room came (appendTimelineForRoom, loadHistory, onLoadMoreClicked): messages have one
\* row, edits and redactions change the row they find, reactions are on it.
THEOREM ToldStaysShown == Spec => []ToldIsShown
<1>1. Ingest!ConstantsOK
  BY ConstantsAssumption
<1>2. Ingest!Init => IngestInv
  BY <1>1, IngestInit
<1>3. IngestInv /\ [Ingest!Next]_(Ingest!vars) => IngestInv'
  BY <1>1, IngestNext
<1>4. IngestInv => ToldIsShown
  BY DEF IngestInv, ToldIsShown
<1> QED
  BY <1>2, <1>3, <1>4, PartsBehave, PTL DEF Ingest!Spec

\* Every click on an attachment ends in one viewer, box or file given to the desktop
\* (AttachmentHandler), for any number of clicks and failures.
THEOREM ClicksAnswered == Spec => []EveryClickIsAnswered
<1>1. Attachments!Spec => []Attachments!EveryClickIsAnswered
  BY AttachmentsAnswer
<1>2. Attachments!EveryClickIsAnswered => EveryClickIsAnswered
  BY DEF EveryClickIsAnswered
<1> QED
  BY <1>1, <1>2, PartsBehave, PTL

\* The member list shows what the search text asks for, whatever was loaded, typed or
\* changed, and however late its timer and its replies come.
THEOREM MembersFollowSearch == Spec => []FilterApplied
<1>1. People!Spec => []People!FilterApplied
  BY MembersFiltered
<1>2. People!FilterApplied => FilterApplied
  BY DEF FilterApplied
<1> QED
  BY <1>1, <1>2, PartsBehave, PTL

\* No dialog about members says that it works when nothing is under way: each request that
\* a status announces is answered to the dialog that announced it, if it is still there.
THEOREM StatusEnds == Spec => []StatusSettles
<1>1. People!Spec => []People!StatusSettles
  BY MembersSettle, ConstantsAssumption
<1>2. People!StatusSettles => StatusSettles
  BY DEF StatusSettles
<1> QED
  BY <1>1, <1>2, PartsBehave, PTL

\* The window asks about no verification that is over: its question is taken back, or
\* answered, before the engine forgets the transaction.
THEOREM QuestionsCurrent == Spec => []QuestionsAreCurrent
<1>1. Verifying!Spec => [](Verifying!QuestionsAreCurrent /\ Verifying!SkippedIsSurfaced)
  BY VerificationsSurface, ConstantsAssumption
<1>2. Verifying!QuestionsAreCurrent => QuestionsAreCurrent
  BY DEF QuestionsAreCurrent
<1> QED
  BY <1>1, <1>2, PartsBehave, PTL

\* A verification that waited behind another's dialog is shown when that is closed.
THEOREM SkippedSurfaces == Spec => []SkippedIsSurfaced
<1>1. Verifying!Spec => [](Verifying!QuestionsAreCurrent /\ Verifying!SkippedIsSurfaced)
  BY VerificationsSurface, ConstantsAssumption
<1>2. Verifying!SkippedIsSurfaced => SkippedIsSurfaced
  BY DEF SkippedIsSurfaced
<1> QED
  BY <1>1, <1>2, PartsBehave, PTL

\* The public-room directory shows the pages of one search, each once and in order, to a
\* user who waits for every answer (RoomDirectoryDialog::doSearch and its callback).
THEOREM DirectoryShowsSearch == Spec => []ResultsOfOneSearch
<1>1. Directory!Spec => []Directory!ResultsOfOneSearch
  BY DirectoryInOrder, ConstantsAssumption
<1>2. Directory!ResultsOfOneSearch => ResultsOfOneSearch
  BY DEF ResultsOfOneSearch
<1> QED
  BY <1>1, <1>2, PartsBehave, PTL

\* The id with which the name field begins is not saved as a name (ProfileDialog), however edits,
\* saves and replies are ordered, by a user who waits for his profile and whose profile has a name.
THEOREM NameStays == Spec => []NameIsTheUsers
<1>1. Profile!Spec => []Profile!NameIsTheUsers
  BY ProfileNamed, ConstantsAssumption
<1>2. Profile!NameIsTheUsers => NameIsTheUsers
  BY DEF NameIsTheUsers
<1> QED
  BY <1>1, <1>2, PartsBehave, PTL

\* Every thread is listed once when all has come, in whatever order the previews of the
\* pages arrive (ThreadsDialog), to a user who does not reload while they are under way.
THEOREM ThreadsAreListed == Spec => []ThreadsListed
<1>1. Threads!Spec => []Threads!ThreadsListed
  BY ThreadsComplete, ConstantsAssumption
<1>2. Threads!ThreadsListed => ThreadsListed
  BY DEF ThreadsListed
<1> QED
  BY <1>1, <1>2, PartsBehave, PTL

\* A button of the preferences is disabled exactly while its request is under way or its
\* answer waits (PrefsDialog's buttons of the security and key-backup groups).
THEOREM ButtonsEnabledAgain == Spec => []BusyIffUnderWay
<1>1. Preferences!BusyIffUnderWay => BusyIffUnderWay
  BY DEF BusyIffUnderWay
<1> QED
  BY <1>1, ButtonsFreed, PartsBehave, PTL

\* When nothing is under way, the label of the key backup is right about it (PrefsDialog's
\* key-backup group), if requests about it never overlapped and every key was kept.
THEOREM BackupLabelIsTrue == Spec => []BackupLabelTrue
<1>1. Preferences!BackupLabelTrue => BackupLabelTrue
  BY DEF BackupLabelTrue
<1> QED
  BY <1>1, LabelRight, PartsBehave, PTL

\* Every reaction of the homeserver is on the chip of its message when all was told, in
\* whatever batches it came (appendTimelineForRoom, handleReaction), to a user who waits
\* for the end of each of his steps.
THEOREM ReactionsAreShown == Spec => []ReactionsShown
<1>1. Reacting!Spec => []Reacting!ReactionsShown
  BY ReactionsComplete, ConstantsAssumption DEF Reacting!ConstantsOK, Reacting!IsFiniteSet, IsFiniteSet
<1>2. Reacting!ReactionsShown => ReactionsShown
  BY DEF ReactionsShown
<1> QED
  BY <1>1, <1>2, PartsBehave, PTL

\* The device identity is regenerated at most once for each accepted password and
\* each explicit confirmation (ToolbarHandler's proceedWithReset), in every window.
THEOREM ResetAuthorised == Spec => []ResetIsAuthorised
<1>1. Tools!Spec => []Tools!ResetIsAuthorised
  BY ToolsAuthorised, ConstantsAssumption
<1>2. Tools!ResetIsAuthorised => ResetIsAuthorised
  BY DEF ResetIsAuthorised
<1> QED
  BY <1>1, <1>2, PartsBehave, PTL

\* Persisted outbound sessions are bound to the identity the device has, and the
\* homeserver gets its keys unless an upload failed (Decryptor::resetOutbound,
\* proceedWithReset's worker).
THEOREM IdentityKnown == Spec => []IdentityIsKnown
<1>1. Tools!Spec => []Tools!IdentityIsKnown
  BY ToolsKnown, ConstantsAssumption
<1>2. Tools!IdentityIsKnown => IdentityIsKnown
  BY DEF IdentityIsKnown
<1> QED
  BY <1>1, <1>2, PartsBehave, PTL
=============================================================================
