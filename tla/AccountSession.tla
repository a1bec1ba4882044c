---------------------------- MODULE AccountSession ----------------------------
(***************************************************************************)
(* AccountSwitcher, AuthHandler, SessionBootstrap, LoginDialog and the     *)
(* account menu of MainWindow: which account the client, the sync engine,  *)
(* the decryptor and the window are at.                                    *)
(*                                                                         *)
(* The sync thread posts responses and authentication errors to the UI     *)
(* thread, which gives a response to a worker; the worker posts the update *)
(* of the room list.  Stopping the sync leaves what is posted in the queue *)
(* and the workers at work.  Every login dialog is modal: while one is     *)
(* open the main window takes no input, and the one that was opened last   *)
(* is answered first.  addAccount's is the lowest, as it is opened from    *)
(* the menu; those of AuthHandler are opened by events, above it.          *)
(*                                                                         *)
(* Left out: device ids (every login of an installation reuses the one of  *)
(* the account before it), the refresh of the token at the start, a failed *)
(* initialisation of E2EE, and input the user makes while a login attempt  *)
(* is running in the UI thread.                                            *)
(***************************************************************************)
EXTENDS Naturals, Sequences, FiniteSets, SequencesExt, Selection

CONSTANTS
    Users,   \* the accounts, in the order of SessionStore::listAccounts
    NoUser,  \* nobody
    Stored0, \* the accounts stored before the first start
    Budget,  \* bound: steps of the environment, and logins
    QueueMax \* bound: events waiting for the UI thread

Accounts == ToSet(Users)
Steps    == {"response", "authError", "login", "failure", "quit"}

\* What the constants are assumed to be.
ConstantsOK == /\ Users \in Seq(Accounts) /\ IsInjective(Users) /\ NoUser \notin Accounts
               /\ Stored0 \subseteq Accounts
               /\ Budget \in [Steps -> Nat] /\ QueueMax \in Nat

VARIABLES
    stored,  \* rows of the store's account table
    saved,   \* the Olm identity stored under an account's key, 0 for none
    made,    \* the accounts that Decryptor::init() made an identity for
    running, \* the process runs
    user,    \* client_->account().userId
    server,  \* whose homeserver client_->account().homeserverUrl is
    crypto,  \* the identity in the decryptor, 0 before initialisation
    sync,    \* the sync thread runs
    posted,  \* events of the UI thread
    working, \* how many responses of an account the workers prepare
    rows,    \* the accounts whose rooms the room list shows
    combo,   \* the accounts of the menu, as filled last
    index,   \* the menu's current entry
    adding,  \* addAccount's dialog is open
    logins,  \* AuthHandler's login dialogs that are open
    attempt, \* the account a dialog is logging into, and which dialog
    carried, \* history: whose rooms or responses a change of account left behind
    odd,     \* history: what the session went through
    lapse,   \* history: what keeps the account in use from being served
    fuel     \* what is left of Budget

vars == <<stored, saved, made, running, user, server, crypto, sync, posted, working, rows,
          combo, index, adding, logins, attempt, carried, odd, lapse, fuel>>

store  == <<stored, saved, made>>
window == <<rows, combo, index>>
login  == <<adding, logins, attempt>>
past   == <<carried, odd, lapse>>

\* What a session may have gone through: another account logged in through
\* AuthHandler's dialog, an account whose identity is stored added again.
Oddities == {"swapped", "again"}

\* Since the sync was started last a login dialog was dismissed; since the client
\* was last set to an account, a login that failed pointed it elsewhere.
Lapses == {"dismissed", "astray"}

Event     == [kind : {"response", "update", "authError", "showLogin"}, user : Accounts]
Attempt   == [user : Accounts, dialog : {"add", "login"}]
NoAttempt == [user |-> NoUser, dialog |-> "none"]

\* A list of accounts, in the order of the store's.
InOrder(accounts) == Selected(Users, {i \in DOMAIN Users : Users[i] \in accounts})

Listed == InOrder(stored)

\* An entry of the menu.  MUTANT: counted from 0.
PosFromZero(s, u) == IF u \in ToSet(s) THEN (CHOOSE i \in DOMAIN s : s[i] = u) - 1 ELSE 0

PosIn(s, u) == IF u \in ToSet(s) THEN CHOOSE i \in DOMAIN s : s[i] = u ELSE 1

\* The accounts with a response under way: posted, with a worker, or prepared.
Queued == {e.user : e \in {x \in ToSet(posted) : x.kind \in {"response", "update"}}}
          \cup {u \in Accounts : working[u] > 0}

Spend(step) == fuel[step] > 0 /\ fuel' = [fuel EXCEPT ![step] = @ - 1]
Post(kind)  == /\ Len(posted) < QueueMax
               /\ posted' = Append(posted, [kind |-> kind, user |-> user])

Init == /\ stored = Stored0
        /\ saved = [u \in Accounts |-> 0]
        /\ made = <<>>
        /\ running = FALSE
        /\ user = NoUser
        /\ server = NoUser
        /\ crypto = 0
        /\ sync = FALSE
        /\ posted = <<>>
        /\ working = [u \in Accounts |-> 0]
        /\ rows = {}
        /\ combo = <<>>
        /\ index = 1
        /\ adding = FALSE
        /\ logins = 0
        /\ attempt = NoAttempt
        /\ carried = {}
        /\ odd = {}
        /\ lapse = {}
        /\ fuel = Budget

-----------------------------------------------------------------------------
(***************************************************************************)
(* The decryptor                                                           *)
(***************************************************************************)
\* Pickles go to the store under the key of the client's account.
Persisted == IF crypto = 0 THEN saved ELSE [saved EXCEPT ![user] = crypto]

\* Decryptor::init() without a pickle makes an identity.
Fresh(u) == /\ made' = Append(made, u)
            /\ crypto' = Len(made')

\* The identity stored for u, or a new one.  MUTANT: always a new one.
AlwaysFresh(u) == Fresh(u)

Loaded(u) == IF saved[u] # 0 THEN crypto' = saved[u] /\ UNCHANGED made ELSE Fresh(u)

-----------------------------------------------------------------------------
(***************************************************************************)
(* Start and end of the process                                            *)
(***************************************************************************)
\* SessionBootstrap::start fills the menu: the first entry becomes current as
\* it is added, and the menu's handler switches to that account, whichever one
\* the saved session was of.
Boot(accounts) ==
    LET menu == InOrder(accounts)
    IN  /\ running' = TRUE
        /\ stored' = accounts
        /\ user' = menu[1]
        /\ server' = menu[1]
        /\ Loaded(menu[1])
        /\ combo' = menu
        /\ index' = 1
        /\ sync' = TRUE
        /\ UNCHANGED <<saved, posted, working, rows, login, past>>

\* runGui: with a saved session at once, else after the login dialog.
StartSaved == /\ ~running /\ stored # {}
              /\ Boot(stored)
              /\ UNCHANGED fuel
StartLogin(u) == /\ ~running /\ stored = {}
                 /\ Spend("login")
                 /\ Boot({u})

\* A login dialog is open.
Open == adding \/ logins > 0

\* MainWindow::closeEvent.
Quit == /\ running /\ ~Open
        /\ Spend("quit")
        /\ running' = FALSE
        /\ saved' = Persisted
        /\ crypto' = 0
        /\ user' = NoUser
        /\ server' = NoUser
        /\ sync' = FALSE
        /\ posted' = <<>>
        /\ working' = [u \in Accounts |-> 0]
        /\ rows' = {}
        /\ combo' = <<>>
        /\ index' = 1
        /\ carried' = {}
        /\ lapse' = {}
        /\ UNCHANGED <<stored, made, login, odd>>

-----------------------------------------------------------------------------
(***************************************************************************)
(* The sync thread, and its events                                         *)
(***************************************************************************)
SyncResponse == /\ sync /\ user \in stored /\ server = user
                /\ Spend("response") /\ Post("response")
                /\ UNCHANGED <<store, running, user, server, crypto, sync, working, window,
                               login, past>>

AuthError == /\ sync
             /\ Spend("authError") /\ Post("authError")
             /\ UNCHANGED <<store, running, user, server, crypto, sync, working, window,
                            login, past>>

\* SyncResponseHandler::handle: a response with nothing of rooms ends here, the
\* others go to a worker.
HandleResponse(e) == /\ e.kind = "response"
                     /\ posted' = Tail(posted)
                     /\ working' \in {working, [working EXCEPT ![e.user] = @ + 1]}
                     /\ UNCHANGED <<rows, sync, logins>>

\* The worker has prepared the update of the room list.
Prepare(u) == /\ working[u] > 0
              /\ working' = [working EXCEPT ![u] = @ - 1]
              /\ posted' = Append(posted, [kind |-> "update", user |-> u])
              /\ UNCHANGED <<store, running, user, server, crypto, sync, window, login,
                             past, fuel>>

\* The update is applied; nobody asks whose it is.
ApplyUpdate(e) == /\ e.kind = "update"
                  /\ posted' = Tail(posted)
                  /\ rows' = rows \cup {e.user}
                  /\ UNCHANGED <<working, sync, logins>>

\* AuthHandler::forceReLogin: the dialog follows in an event of its own.
ForceReLogin(e) ==
    /\ e.kind = "authError"
    /\ posted' = Append(Tail(posted), [e EXCEPT !.kind = "showLogin"])
    /\ sync' = FALSE
    /\ UNCHANGED <<working, rows, logins>>

ShowLoginDialog(e) == /\ e.kind = "showLogin"
                      /\ posted' = Tail(posted)
                      /\ logins' = logins + 1
                      /\ UNCHANGED <<working, rows, sync>>

Deliver == /\ posted # <<>>
           /\ LET e == Head(posted)
              IN  \/ HandleResponse(e) \/ ApplyUpdate(e)
                  \/ ForceReLogin(e) \/ ShowLoginDialog(e)
           /\ UNCHANGED <<store, running, user, server, crypto, combo, index, adding,
                          attempt, past, fuel>>

-----------------------------------------------------------------------------
(***************************************************************************)
(* Switching                                                               *)
(***************************************************************************)
\* The rows are cleared.  MUTANT: they are not.
KeepRows == UNCHANGED rows

ClearRows == rows' = {}

\* switchAccount for the i-th account of the list, another one than the
\* client's.  A response of an account that is under way by now will be shown.
SwitchTo(i) ==
    LET u == Listed[i]
    IN  /\ saved' = Persisted
        /\ ClearRows
        /\ carried' = Queued
        /\ user' = u
        /\ server' = u
        /\ Loaded(u)
        /\ index' = i
        /\ sync' = TRUE
        /\ lapse' = {}
        /\ UNCHANGED <<stored, combo, adding, logins, odd>>

\* The entry stays current, nothing else happens.
Nothing(i) == /\ index' = i
              /\ UNCHANGED <<store, user, server, crypto, sync, rows, combo, adding, logins, past>>

Switch(i) == IF Listed[i] # user THEN SwitchTo(i) ELSE Nothing(i)

\* AuthHandler::logout, and loggedOut's handler in MainWindow.
Logout == /\ saved' = Persisted
          /\ sync' = FALSE
          /\ stored' = stored \ {user}
          /\ ClearRows
          /\ carried' = Queued
          /\ index' = PosIn(Listed, user)
          /\ logins' = logins + 1
          /\ UNCHANGED <<made, user, server, crypto, combo, adding, odd, lapse>>

\* AccountSwitcher::addAccount, until its dialog closes.
AddAccount == /\ sync' = FALSE
              /\ adding' = TRUE
              /\ saved' = Persisted
              /\ index' = PosIn(Listed, user)
              /\ UNCHANGED <<stored, made, user, server, crypto, rows, combo, logins, past>>

\* The menu: accounts as it was filled, a separator, "+ Add Account", "Logout";
\* the handler counts the accounts that are stored now.
Entries == (1..(Len(combo) + 3)) \ {Len(combo) + 1}

SelectEntry(i) ==
    LET n == Cardinality(stored)
    IN  /\ running /\ ~Open
        /\ i \in Entries /\ i # index
        /\ \/ i <= n /\ Switch(i)
           \/ i = n + 2 /\ AddAccount
           \/ i = n + 3 /\ Logout
           \/ (i = n + 1 \/ i > n + 3) /\ Nothing(i)
        /\ UNCHANGED <<running, posted, working, attempt, fuel>>

\* Ctrl+Tab goes round the accounts only.
NextAccount == /\ running /\ ~Open
               /\ Cardinality(stored) > 1
               /\ Switch(IF index >= Cardinality(stored) THEN 1 ELSE index + 1)
               /\ UNCHANGED <<running, posted, working, attempt, fuel>>

-----------------------------------------------------------------------------
(***************************************************************************)
(* The login dialog                                                        *)
(***************************************************************************)
\* The dialog that is on top: an event that opens another one may be delivered
\* while this one asks the homeserver.
Top == IF logins > 0 THEN "login" ELSE "add"

\* onLoginClicked: the homeserver that was found becomes the client's account's
\* before the server is asked.  onRegisterClicked tells the client nothing until
\* the account exists; nor does an attempt that ends before: a form not filled in,
\* a homeserver not found.
TryLogin(u) == /\ Open /\ attempt = NoAttempt
               /\ fuel["login"] + fuel["failure"] > 0
               /\ attempt' = [user |-> u, dialog |-> Top]
               /\ server' \in {u, server}
               /\ UNCHANGED <<store, running, user, crypto, sync, posted, working, window,
                              adding, logins, past, fuel>>

\* The homeserver stays the one of the attempt.
LoginFails == /\ attempt # NoAttempt
              /\ Spend("failure")
              /\ attempt' = NoAttempt
              /\ lapse' = lapse \cup (IF server = user THEN {} ELSE {"astray"})
              /\ UNCHANGED <<store, running, user, server, crypto, sync, posted, working,
                             window, adding, logins, carried, odd>>

\* The client's account is the new one, and stored (loginWithPassword or
\* setAccount, then persistSession); the dialog is accepted.
LoggedIn(u, dialog) == /\ attempt = [user |-> u, dialog |-> dialog]
                       /\ Spend("login")
                       /\ user' = u
                       /\ server' = u
                       /\ stored' = stored \cup {u}
                       /\ attempt' = NoAttempt
                       /\ sync' = TRUE
                       /\ lapse' = {}

\* The new account's identity replaces whatever the store has for it.
\* MUTANT: the decryptor keeps the one of the account before.
AddWithoutInit(u) == UNCHANGED <<made, crypto>>

AddInit(u) == Fresh(u)

\* The menu lists the accounts anew.
RefillMenu == combo' = InOrder(stored')

\* addAccount, accepted.
AccountAdded(u) ==
    /\ LoggedIn(u, "add")
    /\ AddInit(u)
    /\ ClearRows
    /\ RefillMenu
    /\ index' = PosIn(combo', u)
    /\ adding' = FALSE
    /\ carried' = Queued
    /\ odd' = odd \cup (IF saved[u] # 0 THEN {"again"} ELSE {})
    /\ UNCHANGED <<saved, running, posted, working, logins>>

\* AuthHandler::onLoginDialogAccepted: neither the rows, the menu nor the
\* decryptor are told of the account.
ReLogin(u) ==
    /\ LoggedIn(u, "login")
    /\ logins' = logins - 1
    /\ carried' = IF u = user THEN carried ELSE rows \cup Queued
    /\ odd' = odd \cup (IF u = user THEN {} ELSE {"swapped"})
    /\ UNCHANGED <<saved, made, running, crypto, posted, working, window, adding>>

\* Cancel: addAccount starts the sync of the account it stopped, at whatever
\* homeserver the client is now.  MUTANT: it does not.
CancelWithoutStart ==
    /\ attempt = NoAttempt /\ adding /\ Top = "add"
    /\ adding' = FALSE
    /\ UNCHANGED <<store, running, user, server, crypto, sync, posted, working, window,
                   logins, attempt, past, fuel>>

CancelAdd ==
    /\ attempt = NoAttempt /\ adding /\ Top = "add"
    /\ adding' = FALSE
    /\ sync' = TRUE
    /\ lapse' = lapse \ {"dismissed"}
    /\ UNCHANGED <<store, running, user, server, crypto, posted, working, window, logins,
                   attempt, carried, odd, fuel>>

CancelLogin ==
    /\ attempt = NoAttempt /\ logins > 0
    /\ logins' = logins - 1
    /\ lapse' = lapse \cup {"dismissed"}
    /\ UNCHANGED <<store, running, user, server, crypto, sync, posted, working, window,
                   adding, attempt, carried, odd, fuel>>

Next == \/ StartSaved \/ Quit
        \/ SyncResponse \/ AuthError \/ Deliver
        \/ \E i \in 1..(Len(combo) + 3) : SelectEntry(i)
        \/ NextAccount
        \/ \E u \in Accounts : Prepare(u) \/ StartLogin(u) \/ TryLogin(u) \/ AccountAdded(u)
                                \/ ReLogin(u)
        \/ LoginFails \/ CancelAdd \/ CancelLogin

Spec == Init /\ [][Next]_vars

-----------------------------------------------------------------------------
(***************************************************************************)
(* Properties                                                              *)
(***************************************************************************)
TypeOK == /\ stored \subseteq Accounts
          /\ saved \in [Accounts -> 0..Len(made)]
          /\ made \in Seq(Accounts)
          /\ running \in BOOLEAN /\ sync \in BOOLEAN /\ adding \in BOOLEAN
          /\ user \in Accounts \cup {NoUser} /\ server \in Accounts \cup {NoUser}
          /\ attempt \in Attempt \cup {NoAttempt}
          /\ (running <=> user \in Accounts) /\ (running <=> server \in Accounts)
          /\ crypto \in 0..Len(made)
          /\ posted \in Seq(Event) /\ working \in [Accounts -> Nat]
          /\ rows \subseteq Accounts /\ carried \subseteq Accounts
          /\ combo \in Seq(Accounts)
          /\ index \in 1..(Len(Users) + 3)
          /\ logins \in Nat
          /\ odd \subseteq Oddities /\ lapse \subseteq Lapses
          /\ fuel \in [Steps -> Nat]

(***************************************************************************)
(* The room list shows rooms of the account in use.  Those of another one  *)
(* can only come from a response that was under way when the account       *)
(* changed -- in the queue, with a worker, or in the update that a worker  *)
(* had prepared -- and is applied after it, or from a login as someone     *)
(* else in AuthHandler's dialog, which clears nothing.                     *)
(***************************************************************************)
RowsOfAccount == rows \subseteq {user} \cup carried

(***************************************************************************)
(* The decryptor holds the identity made for the account in use, and the   *)
(* store keeps under an account's key its own identity, through any order  *)
(* of switches, logins, logouts and restarts, as long as AuthHandler's     *)
(* dialog was not used to log in as someone else.                          *)
(***************************************************************************)
CryptoOfAccount ==
    "swapped" \notin odd =>
        /\ crypto # 0 => made[crypto] = user
        /\ \A u \in Accounts : saved[u] # 0 => made[saved[u]] = u

(***************************************************************************)
(* The identity of an account, once stored, is not replaced by another one *)
(* (its other devices have verified it, and hold sessions with it), unless *)
(* the account is added again.                                             *)
(***************************************************************************)
IdentityKept ==
    [][odd' \cap {"swapped", "again"} = {} =>
           \A u \in Accounts : saved[u] # 0 => saved'[u] = saved[u]]_vars

(***************************************************************************)
(* The account in use is served: its sync runs, and at its own homeserver. *)
(* Through any order of switches, nested dialogs and late errors of        *)
(* another account, it is not only                                         *)
(*   - while a login dialog is open or about to open;                      *)
(*   - after the user dismissed AuthHandler's dialog, until the sync is    *)
(*     started again;                                                      *)
(*   - after a login that failed had pointed the client at the homeserver  *)
(*     of the account it asked for (login_dialog.cpp:225-227), which       *)
(*     nobody takes back: the sync then runs and receives nothing, until   *)
(*     an account is switched to or logged in.                             *)
(***************************************************************************)
SessionIsServed ==
    running => \/ sync /\ server = user
               \/ Open \/ \E e \in ToSet(posted) : e.kind = "showLogin"
               \/ ~sync /\ "dismissed" \in lapse
               \/ server # user /\ "astray" \in lapse
=============================================================================
