------------------------------ MODULE MyProfile ------------------------------
(***************************************************************************)
(* "My profile": ProfileDialog, modal and on the stack of the toolbar's    *)
(* slot.  It loads the profile, saves the name in the field, and sets an   *)
(* avatar in two requests.  Nothing is disabled meanwhile, and the workers *)
(* but the last read the client through a plain pointer to the dialog.     *)
(*                                                                         *)
(* Names and avatars are numbers: 0 is none, UserId the user's id, with    *)
(* which the field begins, Given the name the profile may begin with.      *)
(***************************************************************************)
EXTENDS Naturals, Sequences, SequencesExt

CONSTANTS
    Budget \* bound: edits, saves and avatars, failures

Steps  == {"edit", "save", "fault"}
UserId == 1
Given  == 2
Values == 0..(Budget["edit"] + Budget["save"] + Given)

\* What the constants are assumed to be.
ConstantsOK == Budget \in [Steps -> Nat]

VARIABLES
    name, avatar, \* at the homeserver
    field,        \* nameEdit_
    current,      \* currentAvatarMxc_
    status,       \* statusLabel_
    jobs, posted, \* requests under way; callbacks posted to the dialog
    shown, alive, \* the dialog exists; the program runs
    typed,        \* history: the names the user typed
    loaded,       \* history: the profile has come
    hasty,        \* history: he saved before it had
    unnamed,      \* history: it came, and named nobody
    fuel          \* what is left of Budget

vars == <<name, avatar, field, current, status, jobs, posted, shown, alive, typed, loaded, hasty,
          unnamed, fuel>>

server == <<name, avatar>>
past   == <<typed, loaded, hasty, unnamed>>

Kinds    == {"load", "name", "upload", "avatar"}
Settled  == {"ready", "done", "failed"}

Spend(step) == fuel[step] > 0 /\ fuel' = [fuel EXCEPT ![step] = @ - 1]

Job(kind, value) == [kind |-> kind, value |-> value]

Init == /\ name \in {0, Given} /\ avatar = 0 /\ field = UserId /\ current = 0
        /\ status = "loading" /\ jobs = <<Job("load", 0)>> /\ posted = <<>>
        /\ shown = TRUE /\ alive = TRUE /\ typed = {} /\ loaded = FALSE /\ hasty = FALSE
        /\ unnamed = FALSE
        /\ fuel = Budget

-----------------------------------------------------------------------------
\* A name that nobody has used.
Type == /\ shown /\ Spend("edit")
        /\ field' = fuel["edit"] + Given
        /\ typed' = typed \cup {field'}
        /\ UNCHANGED <<server, current, status, jobs, posted, shown, alive, loaded, hasty, unnamed>>

OnSaveNameClicked ==
    /\ shown /\ Spend("save")
    /\ status' = "working"
    /\ jobs' = Append(jobs, Job("name", field))
    /\ hasty' = (hasty \/ ~loaded)
    /\ UNCHANGED <<server, field, current, posted, shown, alive, typed, loaded, unnamed>>

\* The file that is chosen may not open.
OnSetAvatarClicked ==
    /\ shown /\ Spend("save")
    /\ \/ /\ status' = "working" /\ jobs' = Append(jobs, Job("upload", fuel["save"]))
       \/ /\ status' = "failed" /\ UNCHANGED jobs
    /\ UNCHANGED <<server, field, current, posted, shown, alive, past>>

Close == /\ shown
         /\ shown' = FALSE /\ posted' = <<>>
         /\ UNCHANGED <<server, field, current, status, jobs, alive, past, fuel>>

-----------------------------------------------------------------------------
\* What a request does at the homeserver, and what is posted: a profile that does
\* not parse ("garbled") names nobody and has no avatar.
Outcomes == {"ok", "failed", "garbled"}

Answered(j, outcome) ==
    /\ name' = IF outcome = "ok" /\ j.kind = "name" THEN j.value ELSE name
    /\ avatar' = IF outcome = "ok" /\ j.kind = "avatar" THEN j.value ELSE avatar
    /\ posted' = IF shown
                 THEN Append(posted, [kind |-> j.kind, ok |-> outcome # "failed",
                                      avatar |-> IF outcome = "ok" THEN avatar ELSE 0,
                                      value |-> IF j.kind # "load" THEN j.value
                                                ELSE IF outcome = "ok" THEN name ELSE 0])
                 ELSE posted

\* A worker that outlives the dialog reads freed memory, except the last one.
Work(i) ==
    /\ i \in DOMAIN jobs
    /\ jobs' = RemoveAt(jobs, i)
    /\ IF shown \/ jobs[i].kind = "avatar"
       THEN /\ \E outcome \in Outcomes :
                   /\ outcome = "garbled" => jobs[i].kind = "load"
                   /\ Answered(jobs[i], outcome)
                   /\ IF outcome = "ok" THEN UNCHANGED fuel ELSE Spend("fault")
            /\ UNCHANGED alive
       ELSE alive' \in BOOLEAN /\ UNCHANGED <<server, posted, fuel>>
    /\ UNCHANGED <<field, current, status, shown, past>>

\* What a profile does not have stays as it was.
UnlessNone(value, old) == IF value = 0 THEN old ELSE value

\* The profile has come: it replaces what is in the field, typed or not.
\* MUTANT: the user's id is put into the field after it, not before.
LoadedThenPrefilled(p) ==
    /\ IF p.ok THEN /\ field' = UserId
                    /\ current' = UnlessNone(p.avatar, current)
                    /\ status' = "ready"
       ELSE status' = "failed" /\ UNCHANGED <<field, current>>
    /\ UNCHANGED jobs

OnLoaded(p) ==
    /\ IF p.ok THEN /\ field' = UnlessNone(p.value, field)
                    /\ current' = UnlessNone(p.avatar, current)
                    /\ status' = "ready"
       ELSE status' = "failed" /\ UNCHANGED <<field, current>>
    /\ UNCHANGED jobs

OnSaved(p) == status' = (IF p.ok THEN "done" ELSE "failed") /\ UNCHANGED <<field, current, jobs>>

\* The file is uploaded: the profile gets its URL.
OnUploaded(p) ==
    /\ IF p.ok THEN current' = p.value /\ jobs' = Append(jobs, Job("avatar", p.value)) /\ UNCHANGED status
       ELSE status' = "failed" /\ UNCHANGED <<current, jobs>>
    /\ UNCHANGED field

Deliver ==
    /\ posted # <<>> /\ posted' = Tail(posted)
    /\ LET p == Head(posted)
       IN  \/ p.kind = "load" /\ OnLoaded(p)
           \/ p.kind \in {"name", "avatar"} /\ OnSaved(p)
           \/ p.kind = "upload" /\ OnUploaded(p)
    /\ LET came == Head(posted).kind = "load" /\ Head(posted).ok
       IN  /\ loaded' = (loaded \/ came)
           /\ unnamed' = (unnamed \/ (came /\ Head(posted).value = 0))
    /\ UNCHANGED <<server, shown, alive, typed, hasty, fuel>>

Next == /\ alive
        /\ \/ Type \/ OnSaveNameClicked \/ OnSetAvatarClicked \/ Close \/ Deliver
           \/ \E i \in DOMAIN jobs : Work(i)

Spec == Init /\ [][Next]_vars

-----------------------------------------------------------------------------
(***************************************************************************)
(* Properties                                                              *)
(***************************************************************************)
TypeOK == /\ {name, avatar, field, current} \cup typed \subseteq Values
          /\ status \in Settled \cup {"loading", "working"}
          /\ \A j \in ToSet(jobs) \cup ToSet(posted) : j.kind \in Kinds /\ j.value \in Values
          /\ {shown, alive, loaded, hasty, unnamed} \subseteq BOOLEAN
          /\ fuel \in [Steps -> Nat]

(***************************************************************************)
(* The display name is the one the profile began with or one that the user *)
(* typed: the id with which the field begins is saved as his name only if  *)
(* he saves while the profile has not come, or if the profile that came    *)
(* names nobody or does not parse -- the field then keeps the id, though   *)
(* the dialog says "Ready." (profile_dialog.cpp:85-94).                    *)
(* When nothing is under way the dialog does not say that it works.        *)
(***************************************************************************)
NameIsTheUsers ==
    /\ name = UserId => hasty \/ unnamed
    /\ name \in {0, UserId, Given} \cup typed
    /\ shown /\ jobs = <<>> /\ posted = <<>> => status \in Settled
=============================================================================
