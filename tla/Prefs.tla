-------------------------------- MODULE Prefs --------------------------------
(***************************************************************************)
(* Preferences: PrefsDialog, opened and given its functions by the toolbar *)
(* (ToolbarHandler::onSettings) and modal until it is saved or cancelled.  *)
(*                                                                         *)
(* A button of the security and key-backup groups is disabled while its    *)
(* request is under way, the others are not, nor is "Cancel".  An answer   *)
(* may open a message box over whatever box is open.                       *)
(*                                                                         *)
(* The functions belong to the engine: what they do at the homeserver is   *)
(* modelled from how the dialog uses them.  A key backup is named by the   *)
(* number of its recovery key.  Left out: wordings, the room keys, shields.*)
(***************************************************************************)
EXTENDS Naturals, Sequences, SequencesExt

CONSTANTS
    Devices, NoDevice, \* the other devices of the user
    Budget             \* bound: clicks

\* What the constants are assumed to be.
ConstantsOK == /\ NoDevice \notin Devices
               /\ Budget \in Nat

VARIABLES
    backup,      \* the homeserver: the backup's recovery key, 0 if there is no backup
    created,     \* the homeserver: recovery keys made so far
    uia,         \* the engine: uiaSession is not empty
    busy,        \* the buttons that are disabled
    jobs,        \* requests under way
    posted,      \* callbacks posted to the dialog
    boxes,       \* boxes over the dialog, the innermost last
    backupLabel, \* backupStatus
    xsLabel,     \* xsStatusLabel_: the button whose request succeeded
    section,     \* devicesSection_
    edited,      \* what the fields of the form say
    saved,       \* QSettings
    verifying,   \* the device startSelfVerification was called for
    shown,       \* the dialog exists
    keysShown,   \* history: recovery keys the user was shown
    calm,        \* history: requests about the backup came one at a time, every key was kept
    fuel         \* what is left of Budget

vars == <<backup, created, uia, busy, jobs, posted, boxes, backupLabel, xsLabel, section, edited,
          saved, verifying, shown, keysShown, calm, fuel>>

server == <<backup, created, uia>>
labels == <<backupLabel, xsLabel, section>>
form   == <<edited, saved, verifying, shown>>
past   == <<keysShown, calm>>

Security == {"setup", "reset"}
Backups  == {"create", "now", "delete"}
Secrets  == {"restore", "push", "pull"} \* from the recovery key; SSSS
Buttons  == Security \cup Backups \cup Secrets
FileButtons == {"export", "import"}

Request == [kind : {"run", "password", "upload"}, btn : Buttons] \cup {[kind |-> "devices"]}
Answer  == [job : Request, ok : BOOLEAN, key : Nat]
Box     == [kind : {"ask", "uia", "key", "written", "told"}, btn : Buttons \cup FileButtons]

Init == /\ created \in {0, 1} /\ backup = created /\ uia = FALSE
        /\ busy = {} /\ jobs = {[kind |-> "devices"]} /\ posted = <<>> /\ boxes = <<>>
        /\ backupLabel = "none" /\ xsLabel = "none" /\ section = "loading"
        /\ edited = 0 /\ saved = 0 /\ verifying = NoDevice /\ shown = TRUE
        /\ keysShown = 1..created /\ calm = TRUE
        /\ fuel = Budget

-----------------------------------------------------------------------------
(***************************************************************************)
(* Requests                                                                *)
(***************************************************************************)
Open(kind, b) == boxes' = Append(boxes, [kind |-> kind, btn |-> b])

AboutBackup(b) == b \in Backups \cup {"restore"}

\* runAsyncButton, runSecurityAction and the request of "Create backup..."; stack is
\* what remains of the boxes.
RunAsync(kind, b, stack) ==
    /\ busy' = busy \cup {b}
    /\ jobs' = jobs \cup {[kind |-> kind, btn |-> b]}
    /\ boxes' = stack
    /\ calm' = (calm /\ (AboutBackup(b) => \A c \in busy : ~AboutBackup(c)))
    /\ UNCHANGED keysShown

Usable == shown /\ boxes = <<>>

\* "Set up", "Create backup" and "Backup now" begin at once, the others ask first.
OnClicked(b) ==
    /\ Usable /\ b \notin busy
    /\ fuel > 0 /\ fuel' = fuel - 1
    /\ IF b \in {"setup", "create", "now"} THEN RunAsync("run", b, boxes)
       ELSE Open("ask", b) /\ UNCHANGED <<busy, jobs, past>>
    /\ UNCHANGED <<server, posted, labels, form>>

\* Export and import read and write their file on the UI thread.
OnFileClicked(f) ==
    /\ Usable
    /\ fuel > 0 /\ fuel' = fuel - 1
    /\ Open("ask", f)
    /\ UNCHANGED <<server, busy, jobs, posted, labels, form, past>>

Innermost == Last(boxes)

\* The innermost box is closed with yes, a recovery key, a password or a file, or it
\* is a message that is read.
Confirm ==
    /\ boxes # <<>>
    /\ LET b == Innermost.btn
       IN  \/ /\ Innermost.kind = "ask" /\ b \in Buttons
              /\ RunAsync("run", b, Front(boxes)) /\ UNCHANGED backupLabel
           \/ /\ Innermost.kind = "ask" /\ b \in FileButtons
              /\ boxes' = Append(Front(boxes), [kind |-> "told", btn |-> b])
              /\ UNCHANGED <<busy, jobs, backupLabel, past>>
           \/ /\ Innermost.kind = "uia"
              /\ RunAsync("password", b, Front(boxes)) /\ UNCHANGED backupLabel
           \/ /\ Innermost.kind = "key"
              /\ boxes' = Append(Front(boxes), [kind |-> "written", btn |-> b])
              /\ UNCHANGED <<busy, jobs, backupLabel, past>>
           \/ /\ Innermost.kind = "written"
              /\ backupLabel' = "configured"
              /\ RunAsync("upload", b, Front(boxes))
    /\ UNCHANGED <<server, posted, xsLabel, section, form, fuel>>

\* It is closed otherwise; the recovery key is asked about all the same.
Dismiss ==
    /\ boxes # <<>> /\ Innermost.kind # "key"
    /\ boxes' = Front(boxes)
    /\ calm' = (calm /\ Innermost.kind # "written")
    /\ UNCHANGED <<server, busy, jobs, posted, labels, form, keysShown, fuel>>

-----------------------------------------------------------------------------
(***************************************************************************)
(* The form, and the end of the dialog                                     *)
(***************************************************************************)
Edit == /\ Usable
        /\ edited' = 1 - edited
        /\ UNCHANGED <<server, busy, jobs, posted, boxes, labels, saved, verifying, shown, past, fuel>>

\* exec() returns; what was posted to the dialog goes with it.
Leave == shown' = FALSE /\ posted' = <<>>

OnSave == /\ Usable
          /\ saved' = edited
          /\ Leave
          /\ UNCHANGED <<server, busy, jobs, boxes, labels, edited, verifying, past, fuel>>

Cancel == /\ Usable
          /\ Leave
          /\ UNCHANGED <<server, busy, jobs, boxes, labels, edited, saved, verifying, past, fuel>>

\* A device's "Verify".
OnVerifyClicked(d) ==
    /\ Usable /\ section = "listed"
    /\ verifying' = d
    /\ Leave
    /\ UNCHANGED <<server, busy, jobs, boxes, labels, edited, saved, past, fuel>>

-----------------------------------------------------------------------------
(***************************************************************************)
(* Workers                                                                 *)
(***************************************************************************)
\* What a request does at the homeserver: a backup may replace another one, nothing
\* can be uploaded without one, and the homeserver may ask for the password.
Effect(j, ok) ==
    CASE j.kind = "run" /\ j.btn = "create" /\ ok ->
             created' = created + 1 /\ backup' = created' /\ UNCHANGED uia
      [] j.kind = "run" /\ j.btn = "delete" /\ ok ->
             backup' = 0 /\ UNCHANGED <<created, uia>>
      [] j.kind = "upload" \/ (j.kind = "run" /\ j.btn \in {"now", "restore"}) ->
             (ok => backup # 0) /\ UNCHANGED server
      [] j.kind = "run" /\ j.btn \in Security /\ ~ok ->
             uia' \in {uia, TRUE} /\ UNCHANGED <<backup, created>>
      [] j.kind = "password" /\ ok -> uia' = FALSE /\ UNCHANGED <<backup, created>>
      [] OTHER -> UNCHANGED server

\* The answers of two workers come in either order.  Those for a dialog that is gone
\* are dropped.
Work(j) ==
    /\ j \in jobs
    /\ jobs' = jobs \ {j}
    /\ \E ok \in BOOLEAN :
           /\ IF j.kind = "devices" THEN UNCHANGED server ELSE Effect(j, ok)
           /\ IF shown
              THEN \E i \in 1..(Len(posted) + 1) :
                       posted' = InsertAt(posted, i, [job |-> j, ok |-> ok, key |-> created'])
              ELSE UNCHANGED posted
    /\ UNCHANGED <<busy, boxes, labels, form, past, fuel>>

-----------------------------------------------------------------------------
(***************************************************************************)
(* Callbacks                                                               *)
(***************************************************************************)
\* The button is enabled again.  MUTANT: only when the request succeeded.
EnableIfOk(a) == busy' = IF a.ok THEN busy \ {a.job.btn} ELSE busy

Enable(a) == busy' = busy \ {a.job.btn}

\* The first request of "Set up" or "Reset": when the homeserver wants the password,
\* it is asked for, and both go on with setupCrossSigningWithPassword.
OnSecurityDone(a) ==
    /\ xsLabel' = IF a.ok THEN a.job.btn ELSE xsLabel
    /\ Open(IF ~a.ok /\ uia THEN "uia" ELSE "told", a.job.btn)
    /\ UNCHANGED <<backupLabel, section, keysShown>>

OnPasswordDone(a) ==
    /\ xsLabel' = IF a.ok THEN a.job.btn ELSE xsLabel
    /\ Open("told", a.job.btn)
    /\ UNCHANGED <<backupLabel, section, keysShown>>

\* The recovery key is shown, once.
OnCreated(a) ==
    /\ keysShown' = IF a.ok THEN keysShown \cup {a.key} ELSE keysShown
    /\ Open(IF a.ok THEN "key" ELSE "told", a.job.btn)
    /\ UNCHANGED labels

\* What the label of the group says after an answer.
\* MUTANT: a deletion is announced whether or not it succeeded.
LabelAfterAny(a) ==
    CASE a.job.kind = "upload" -> IF a.ok THEN "uploaded" ELSE "configured"
      [] a.job.btn = "delete" -> "deleted"
      [] a.ok /\ a.job.btn = "now" -> "uploaded"
      [] a.job.btn \in {"restore", "pull"} -> "secrets"
      [] a.ok /\ a.job.btn = "push" -> "secrets"
      [] OTHER -> backupLabel

LabelAfter(a) ==
    CASE a.job.kind = "upload" -> IF a.ok THEN "uploaded" ELSE "configured"
      [] a.ok /\ a.job.btn = "delete" -> "deleted"
      [] a.ok /\ a.job.btn = "now" -> "uploaded"
      [] a.job.btn \in {"restore", "pull"} -> "secrets"
      [] a.ok /\ a.job.btn = "push" -> "secrets"
      [] OTHER -> backupLabel

\* A failed deletion, upload or push is told in a box of its own.
OnBackupDone(a) ==
    /\ backupLabel' = LabelAfter(a)
    /\ IF ~a.ok /\ a.job.kind = "run" /\ a.job.btn \in {"delete", "now", "push"}
       THEN Open("told", a.job.btn) ELSE UNCHANGED boxes
    /\ UNCHANGED <<xsLabel, section, keysShown>>

OnDevices(a) == /\ section' = IF a.ok THEN "listed" ELSE "error"
                /\ UNCHANGED <<busy, boxes, backupLabel, xsLabel, keysShown>>

Deliver ==
    /\ posted # <<>> /\ posted' = Tail(posted)
    /\ LET a == Head(posted)
       IN  \/ a.job.kind = "devices" /\ OnDevices(a)
           \/ /\ a.job.kind = "run" /\ a.job.btn \in Security
              /\ Enable(a) /\ OnSecurityDone(a)
           \/ a.job.kind = "password" /\ Enable(a) /\ OnPasswordDone(a)
           \/ a.job.kind = "run" /\ a.job.btn = "create" /\ Enable(a) /\ OnCreated(a)
           \/ /\ a.job.kind = "upload" \/ (a.job.kind = "run" /\ a.job.btn \in {"now", "delete"} \cup Secrets)
              /\ Enable(a) /\ OnBackupDone(a)
    /\ UNCHANGED <<server, jobs, form, calm, fuel>>

Next == \/ \E b \in Buttons : OnClicked(b)
        \/ \E f \in FileButtons : OnFileClicked(f)
        \/ \E d \in Devices : OnVerifyClicked(d)
        \/ Confirm \/ Dismiss \/ Edit \/ OnSave \/ Cancel \/ Deliver
        \/ \E j \in jobs : Work(j)

Spec == Init /\ [][Next]_vars

-----------------------------------------------------------------------------
(***************************************************************************)
(* Properties                                                              *)
(***************************************************************************)
TypeOK == /\ created \in Nat /\ backup \in 0..created
          /\ busy \subseteq Buttons
          /\ jobs \subseteq Request
          /\ posted \in Seq(Answer)
          /\ boxes \in Seq(Box)
          /\ backupLabel \in {"none", "configured", "uploaded", "deleted", "secrets"}
          /\ xsLabel \in Security \cup {"none"}
          /\ section \in {"loading", "error", "listed"}
          /\ edited \in {0, 1} /\ saved \in {0, 1}
          /\ verifying \in Devices \cup {NoDevice}
          /\ keysShown \subseteq 1..created
          /\ {uia, shown, calm} \subseteq BOOLEAN
          /\ fuel \in Nat

(***************************************************************************)
(* A button is disabled exactly while its request, one only, is under way  *)
(* or its answer waits: no outcome, password prompt or second request of   *)
(* the same button leaves it disabled or lets it be pressed twice.         *)
(***************************************************************************)
Pending(b) == {j \in jobs : j.kind # "devices" /\ j.btn = b}
Waiting(b) == {i \in DOMAIN posted : posted[i].job.kind # "devices" /\ posted[i].job.btn = b}

BusyIffUnderWay ==
    shown => \A b \in Buttons :
        /\ b \in busy <=> Pending(b) # {} \/ Waiting(b) # {}
        /\ Pending(b) # {} => Waiting(b) = {}
        /\ \A i, k \in Waiting(b) : i = k
        /\ \A j, k \in Pending(b) : j = k

(***************************************************************************)
(* When nothing is under way, the label of the key backup is right about   *)
(* it: it announces a backup only if there is one, and the deletion only   *)
(* if there is none -- if requests about the backup never overlapped and   *)
(* the user said of every recovery key that he wrote it down.              *)
(***************************************************************************)
BackupLabelTrue ==
    calm /\ shown /\ jobs = {} /\ posted = <<>> /\ boxes = <<>> =>
        /\ backupLabel \in {"configured", "uploaded"} => backup # 0
        /\ backupLabel = "deleted" => backup = 0

(***************************************************************************)
(* "Show the recovery key ONCE with a confirmation": the recovery key of   *)
(* the backup that the server has was shown when all requests have ended.  *)
(* The dialog can be left while the backup is being created.               *)
(***************************************************************************)
RecoveryKeyShown == jobs = {} /\ posted = <<>> /\ backup # 0 => backup \in keysShown
=============================================================================
