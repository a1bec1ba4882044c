------------------------------- MODULE Members -------------------------------
(***************************************************************************)
(* The members of a room: RoomMembersDialog, and the UserProfileDialog a   *)
(* click on a member opens above it.  Both are modal and live on the stack *)
(* of the slot that opened them.                                           *)
(*                                                                         *)
(* A worker that finds its dialog gone reads freed memory, or a guard that *)
(* is null.  A profile is named by its number, the member list by 0.       *)
(*                                                                         *)
(* A search text is the set of users it matches.  Left out: names, trust   *)
(* shields, what the labels say but for the kind of it.                    *)
(***************************************************************************)
EXTENDS Naturals, Sequences, FiniteSets, SequencesExt, Selection

CONSTANTS
    Users, Strangers, \* Users may be in the room, Strangers are not yet
    Searches,         \* search texts
    LocalSenders,     \* senders of the rows of the timeline
    WithAvatar, WithDevice,
    MyPower, Powers,  \* the user's power, and those the others may have
    AvatarCacheMax,   \* kAvatarCacheMax
    Budget            \* bound: clicks, profiles opened, edits, failures

Steps == {"click", "open", "type", "fault"}

\* What the constants are assumed to be.
ConstantsOK == /\ Strangers \cup LocalSenders \cup WithAvatar \cup WithDevice \subseteq Users
               /\ Users # {} /\ Users \in Searches /\ Searches \subseteq SUBSET Users
               /\ Powers \subseteq [Users -> {0, 75}]
               /\ MyPower \in 0..100 /\ AvatarCacheMax \in Nat \ {0}
               /\ Budget \in [Steps -> Nat]

VARIABLES
    joined, power,   \* at the homeserver
    all, loaded,     \* allMembers_, loaded_
    search,          \* searchEdit_
    timer,           \* debounceTimer_ is active
    rows,            \* list_
    status,          \* statusLabel_ of the member list
    canReload,       \* reloadBtn_ is enabled
    profile,         \* the profile that is open, or NoProfile
    avatars,         \* avatarCache, of the process
    box,             \* the question, menu or message that is open
    verified,        \* devices verifyRequested was emitted for, by user
    jobs, posted,    \* requests under way; callbacks posted
    shown, alive,    \* the member list exists; the program runs
    count,           \* profiles opened so far
    fuel             \* what is left of Budget

vars == <<joined, power, all, loaded, search, timer, rows, status, canReload, profile, avatars,
          box, verified, jobs, posted, shown, alive, count, fuel>>

server == <<joined, power>>
list   == <<all, loaded, timer, rows, canReload>>
life   == <<shown, alive, count>>

Commands  == {"dm", "kick", "ban", "promote", "demote", "admin", "verify"}
Kinds     == Commands \cup {"members", "invite", "load", "avatar"}
NoProfile == [n |-> 0]
NoBox     == [kind |-> "none", by |-> 0]
Settled   == {"empty", "done", "failed"}

Spend(step) == fuel[step] > 0 /\ fuel' = [fuel EXCEPT ![step] = @ - 1]

Job(kind, by, user) == [kind |-> kind, by |-> by, user |-> user]
NoOne == CHOOSE u \in Users : TRUE

Init == /\ joined = Users \ Strangers
        /\ power \in Powers
        /\ all = {} /\ loaded = FALSE /\ search = Users /\ timer = FALSE
        /\ rows = {} /\ status = "loading" /\ canReload = FALSE
        /\ profile = NoProfile /\ avatars = {} /\ box = NoBox /\ verified = {}
        /\ jobs = <<Job("members", 0, NoOne)>> /\ posted = <<>>
        /\ shown = TRUE /\ alive = TRUE /\ count = 0
        /\ fuel = Budget

-----------------------------------------------------------------------------
(***************************************************************************)
(* The member list                                                         *)
(***************************************************************************)
InList == shown /\ profile = NoProfile /\ box = NoBox

\* The 150 ms of the debounce start anew with every edit, once there are members.
Type(s) == /\ InList /\ s # search
           /\ Spend("type")
           /\ search' = s
           /\ timer' = (timer \/ loaded)
           /\ UNCHANGED <<server, all, loaded, rows, canReload, status, profile, avatars, box,
                          verified, jobs, posted, life>>

\* applyFilter.
ApplyFilter(members) == rows' = members \cap search

Timeout == /\ shown /\ timer
           /\ timer' = FALSE
           /\ ApplyFilter(all)
           /\ UNCHANGED <<server, all, loaded, canReload, search, status, profile, avatars, box,
                          verified, jobs, posted, life, fuel>>

\* reload, loadMembers.
ReloadMembers(queue) == /\ loaded' = FALSE /\ rows' = {} /\ status' = "loading"
                        /\ jobs' = Append(queue, Job("members", 0, NoOne))
                        /\ UNCHANGED <<all, timer, canReload>>

OnReloadClicked == /\ InList /\ canReload /\ Spend("click")
                   /\ ReloadMembers(jobs)
                   /\ UNCHANGED <<server, search, profile, avatars, box, verified, posted, life>>

\* A question or a menu, which runs an event loop of its own.
Ask(kind, u) == /\ Spend("click")
                /\ box' = [kind |-> kind, by |-> profile.n, user |-> u]
                /\ UNCHANGED <<server, list, search, status, profile, avatars, verified, jobs,
                               posted, life>>

OnInviteClicked == InList /\ \E u \in Users \ joined : Ask("invite", u)

OnMemberContextMenu(u) == InList /\ u \in rows /\ Ask("menu", u)

\* startVerifyForUser asks for the devices on the UI thread.
StartVerifyForUser(u) ==
    \/ /\ u \in WithDevice
       /\ verified' = verified \cup {u} /\ box' = NoBox /\ UNCHANGED fuel
    \/ /\ u \notin WithDevice
       /\ box' = [kind |-> "message", by |-> 0, user |-> u] /\ UNCHANGED <<verified, fuel>>
    \/ /\ Spend("fault")
       /\ box' = [kind |-> "message", by |-> 0, user |-> u] /\ UNCHANGED verified

OnMemberClicked(u) ==
    /\ InList /\ u \in rows /\ Spend("open")
    /\ count' = count + 1
    /\ profile' = [n |-> count', user |-> u, level |-> 0, admin |-> FALSE, status |-> "loading",
                   avatar |-> FALSE]
    /\ jobs' = Append(jobs, Job("load", count', u))
    /\ UNCHANGED <<server, list, search, status, avatars, box, verified, posted, shown, alive>>

-----------------------------------------------------------------------------
(***************************************************************************)
(* The profile                                                             *)
(***************************************************************************)
InProfile == profile # NoProfile /\ box = NoBox

\* The buttons but for "Send message" and "Verify" are for moderators.
Offered(c) == c \in {"dm", "verify"} \/ profile.admin

\* onSendDM, onPromote, onDemote, onMakeAdmin, onVerify; onKick and onBan once confirmed.
Command(c) == /\ profile' = [profile EXCEPT !.status = "working"]
              /\ jobs' = Append(jobs, Job(c, profile.n, profile.user))

OnCommandClicked(c) ==
    /\ InProfile /\ Offered(c)
    /\ IF c \in {"kick", "ban"} THEN Ask(c, profile.user)
       ELSE /\ Spend("click")
            /\ Command(c)
            /\ UNCHANGED <<server, list, search, status, avatars, box, verified, posted, life>>

OnCopyMXID == /\ InProfile /\ profile.status # "done"
              /\ profile' = [profile EXCEPT !.status = "done"]
              /\ UNCHANGED <<server, list, search, status, avatars, box, verified, jobs, posted,
                             life, fuel>>

\* A question is answered with yes.
Confirm ==
    /\ box.kind \in {"invite", "menu", "kick", "ban"}
    /\ \/ /\ box.kind = "invite"
          /\ status' = "working" /\ jobs' = Append(jobs, Job("invite", 0, box.user))
          /\ box' = NoBox /\ UNCHANGED <<profile, verified, fuel>>
       \/ /\ box.kind = "menu"
          /\ StartVerifyForUser(box.user) /\ UNCHANGED <<status, jobs, profile>>
       \/ /\ box.kind \in {"kick", "ban"}
          /\ Command(box.kind) /\ box' = NoBox /\ UNCHANGED <<status, verified, fuel>>
    /\ UNCHANGED <<server, list, search, avatars, posted, life>>

DismissBox == /\ box # NoBox
              /\ box' = NoBox
              /\ UNCHANGED <<server, list, search, status, profile, avatars, verified, jobs,
                             posted, life, fuel>>

\* exec() returns, and what was posted to the dialog goes with it.
Discarded(n) == Selected(posted, {i \in DOMAIN posted : posted[i].by # n})

Close == /\ box = NoBox
         /\ IF profile # NoProfile
            THEN profile' = NoProfile /\ posted' = Discarded(profile.n) /\ UNCHANGED shown
            ELSE shown /\ shown' = FALSE /\ posted' = Discarded(0) /\ UNCHANGED profile
         /\ UNCHANGED <<server, list, search, status, avatars, box, verified, jobs, alive, count,
                        fuel>>

-----------------------------------------------------------------------------
(***************************************************************************)
(* Workers                                                                 *)
(***************************************************************************)
DialogOf(j) == IF j.by = 0 THEN shown ELSE profile.n = j.by

LevelSet == [promote |-> 50, demote |-> 0, admin |-> 100]

\* What a request that succeeds does at the homeserver.
Effect(j) == /\ \/ j.kind = "invite" /\ joined' = joined \cup {j.user}
                \/ j.kind \in {"kick", "ban"} /\ joined' = joined \ {j.user}
                \/ j.kind \notin {"invite", "kick", "ban"} /\ UNCHANGED joined
             /\ power' = IF j.kind \in DOMAIN LevelSet
                         THEN [power EXCEPT ![j.user] = LevelSet[j.kind]] ELSE power

\* What the callback gets.  The power levels are a request of their own; when they
\* cannot be read, both are zero.
Result(j, ok, read) ==
    [kind |-> j.kind, by |-> j.by, user |-> j.user, ok |-> ok,
     members |-> IF j.kind = "members" /\ ok THEN joined ELSE {},
     mine |-> IF read THEN MyPower ELSE 0, level |-> IF read THEN power[j.user] ELSE 0]

Work(i) ==
    /\ i \in DOMAIN jobs
    /\ jobs' = RemoveAt(jobs, i)
    /\ LET j == jobs[i]
       IN  IF ~DialogOf(j)
           THEN alive' \in BOOLEAN /\ UNCHANGED <<server, posted, fuel>>
           ELSE /\ \E ok, read \in BOOLEAN :
                       /\ j.kind # "load" => read = ok
                       /\ posted' = Append(posted, Result(j, ok, read))
                       /\ IF ok /\ read THEN Effect(j) /\ UNCHANGED fuel
                          ELSE Spend("fault") /\ UNCHANGED server
                /\ UNCHANGED alive
    /\ UNCHANGED <<list, search, status, profile, avatars, box, verified, shown, count>>

-----------------------------------------------------------------------------
(***************************************************************************)
(* Callbacks                                                               *)
(***************************************************************************)
\* The members, or the senders of the timeline when the server failed.
\* MUTANT: the rows are all that came.
OnMembersUnfiltered(p) ==
    LET members == IF p.ok THEN p.members ELSE LocalSenders
    IN  /\ all' = members /\ loaded' = TRUE
        /\ status' = (IF p.ok THEN "done" ELSE "failed")
        /\ canReload' = TRUE
        /\ rows' = members
        /\ UNCHANGED <<timer, jobs, profile, avatars, verified>>

OnMembers(p) ==
    LET members == IF p.ok THEN p.members ELSE LocalSenders
    IN  /\ all' = members /\ loaded' = TRUE
        /\ status' = (IF p.ok THEN "done" ELSE "failed")
        /\ canReload' = TRUE
        /\ ApplyFilter(members)
        /\ UNCHANGED <<timer, jobs, profile, avatars, verified>>

OnInvited(p) ==
    /\ IF p.ok THEN ReloadMembers(jobs) ELSE status' = "failed" /\ UNCHANGED <<list, jobs>>
    /\ UNCHANGED <<profile, avatars, verified>>

\* The profile has come: an avatar in the cache is shown at once, and the callback
\* returns before it clears the status; any other is fetched.
OnLoaded(p) ==
    LET cached == p.ok /\ p.user \in avatars
        seen   == [profile EXCEPT !.level = p.level,
                       !.admin = @ \/ (p.mine >= 50 /\ p.mine > p.level)]
    IN  /\ profile' = IF cached THEN [seen EXCEPT !.avatar = TRUE] ELSE [seen EXCEPT !.status = "empty"]
        /\ jobs' = IF p.ok /\ p.user \in WithAvatar \ avatars
                   THEN Append(jobs, Job("avatar", p.by, p.user)) ELSE jobs
        /\ UNCHANGED <<list, status, avatars, verified>>

\* The cache is cleared when it is full.
OnAvatar(p) ==
    /\ IF p.ok THEN /\ avatars' = {p.user} \cup (IF Cardinality(avatars) >= AvatarCacheMax THEN {} ELSE avatars)
                    /\ profile' = [profile EXCEPT !.avatar = TRUE]
       ELSE UNCHANGED <<avatars, profile>>
    /\ UNCHANGED <<list, status, jobs, verified>>

\* A command has been carried out, or was refused.  Neither the power that is shown
\* nor the member list follows.  MUTANT: no word when there is no device to verify.
OnCommandDoneSilently(p) ==
    LET found == p.ok /\ p.user \in WithDevice
    IN  /\ verified' = IF p.kind = "verify" /\ found THEN verified \cup {p.user} ELSE verified
        /\ profile' = IF p.kind = "verify" /\ ~found THEN profile
                      ELSE [profile EXCEPT !.status = IF p.ok THEN "done" ELSE "failed"]
        /\ UNCHANGED <<list, status, jobs, avatars>>

OnCommandDone(p) ==
    LET found == p.ok /\ p.user \in WithDevice
    IN  /\ verified' = IF p.kind = "verify" /\ found THEN verified \cup {p.user} ELSE verified
        /\ profile' = [profile EXCEPT !.status =
                          IF p.ok /\ (p.kind = "verify" => found) THEN "done" ELSE "failed"]
        /\ UNCHANGED <<list, status, jobs, avatars>>

Deliver ==
    /\ posted # <<>> /\ posted' = Tail(posted)
    /\ LET p == Head(posted)
       IN  \/ p.kind = "members" /\ OnMembers(p)
           \/ p.kind = "invite" /\ OnInvited(p)
           \/ p.kind = "load" /\ OnLoaded(p)
           \/ p.kind = "avatar" /\ OnAvatar(p)
           \/ p.kind \in Commands /\ OnCommandDone(p)
    /\ UNCHANGED <<server, search, box, life, fuel>>

Next == /\ alive
        /\ \/ \E s \in Searches : Type(s)
           \/ Timeout \/ OnReloadClicked \/ OnInviteClicked \/ OnCopyMXID
           \/ \E u \in Users : OnMemberContextMenu(u) \/ OnMemberClicked(u)
           \/ \E c \in Commands : OnCommandClicked(c)
           \/ Confirm \/ DismissBox \/ Close \/ Deliver
           \/ \E i \in DOMAIN jobs : Work(i)

Spec == Init /\ [][Next]_vars

-----------------------------------------------------------------------------
(***************************************************************************)
(* Properties                                                              *)
(***************************************************************************)
TypeOK == /\ joined \cup all \cup rows \cup verified \cup avatars \subseteq Users
          /\ power \in [Users -> {0, 50, 75, 100}]
          /\ search \in Searches
          /\ loaded \in BOOLEAN /\ timer \in BOOLEAN /\ canReload \in BOOLEAN
          /\ shown \in BOOLEAN /\ alive \in BOOLEAN
          /\ status \in Settled \cup {"loading", "working"}
          /\ profile = NoProfile \/ (profile.n = count /\ profile.user \in Users)
          /\ \A j \in ToSet(jobs) \cup ToSet(posted) : j.kind \in Kinds /\ j.by \in 0..count
          /\ Cardinality(avatars) <= AvatarCacheMax
          /\ count \in Nat
          /\ fuel \in [Steps -> Nat]

(***************************************************************************)
(* What the member list shows is what the search text asks for of the      *)
(* members it has, however edits, reloads and their answers interleave --  *)
(* unless it is loading or the debounce timer will run.                    *)
(***************************************************************************)
FilterApplied == loaded /\ ~timer => rows = all \cap search

(***************************************************************************)
(* Neither dialog says that it is working when nothing is under way.  The  *)
(* exception is a profile whose avatar was in the cache: it says           *)
(* "Loading..." until something else is asked.                             *)
(***************************************************************************)
WorkFor(n) == \E j \in ToSet(jobs) \cup ToSet(posted) : j.by = n

StatusSettles ==
    /\ shown /\ ~WorkFor(0) => status \in Settled
    /\ profile # NoProfile /\ ~WorkFor(profile.n) =>
           profile.status \in Settled \/ (profile.status = "loading" /\ profile.avatar)
=============================================================================
