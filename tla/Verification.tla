----------------------------- MODULE Verification -----------------------------
(***************************************************************************)
(* VerificationHandler: the banner for incoming requests and the emoji     *)
(* dialog of SAS verification.                                             *)
(*                                                                         *)
(* The transactions live in core's VerificationManager and change state on *)
(* the sync thread.  Each change posts the transaction's id to the UI      *)
(* thread, which looks the transaction up when the event is delivered and  *)
(* acts on the state it has by then.  There is one banner and one dialog   *)
(* for all transactions.                                                   *)
(***************************************************************************)
EXTENDS Sequences, SequencesExt, Selection

CONSTANTS
    Txns,  \* the verifications of a session
    NoTxn  \* bannerTxnId_ or dialog_ is empty

\* What the constants are assumed to be.
ConstantsOK == NoTxn \notin Txns

VARIABLES
    state,   \* VerificationTransaction::state
    posted,  \* events of the UI thread: changed transactions; NoTxn is deleteLater
    banner,  \* bannerTxnId_
    dialog,  \* dialog_: the transaction whose emojis it shows
    window,  \* that dialog's window
    closed   \* history: the user closed a dialog without choosing a button

vars == <<state, posted, banner, dialog, window, closed>>

\* RequestReceived, KeyReceived, Done and Cancelled are the states the handler
\* tells apart; "begun" and "matched" stand for the ones between.
States  == {"none", "requested", "begun", "keys", "matched", "done", "cancelled"}
Active  == {"requested", "begun", "keys", "matched"}
Windows == {"none", "open", "answered", "closing"}

Init == /\ state = [t \in Txns |-> "none"]
        /\ posted = <<>>
        /\ banner = NoTxn
        /\ dialog = NoTxn
        /\ window = "none"
        /\ closed = FALSE

-----------------------------------------------------------------------------
(***************************************************************************)
(* The transactions (core)                                                 *)
(***************************************************************************)
\* What setStateChangedFn's callback does on the thread that changes the state.
Becomes(t, s) == /\ state' = [state EXCEPT ![t] = s]
                 /\ posted' = Append(posted, t)

\* A controller call for a transaction that is over changes nothing.
Asked(t, from, s) == IF state[t] \in from THEN Becomes(t, s)
                     ELSE UNCHANGED <<state, posted>>

\* The sync thread processes a verification event of the other device.
Incoming(t) ==
    /\ \/ state[t] = "none" /\ Becomes(t, "requested")
       \/ state[t] = "begun" /\ Becomes(t, "keys")
       \/ state[t] = "matched" /\ Becomes(t, "done")
       \/ state[t] \in Active /\ Becomes(t, "cancelled")
    /\ UNCHANGED <<banner, dialog, window, closed>>

\* VerificationHandler::startSelfVerification and startUserVerification.
Start(t) == /\ state[t] = "none"
            /\ Becomes(t, "begun")
            /\ UNCHANGED <<banner, dialog, window, closed>>

-----------------------------------------------------------------------------
(***************************************************************************)
(* The banner                                                              *)
(***************************************************************************)
Accept == /\ banner # NoTxn
          /\ Asked(banner, {"requested"}, "begun")
          /\ banner' = NoTxn
          /\ UNCHANGED <<dialog, window, closed>>

Reject == /\ banner # NoTxn
          /\ Asked(banner, Active, "cancelled")
          /\ banner' = NoTxn
          /\ UNCHANGED <<dialog, window, closed>>

-----------------------------------------------------------------------------
(***************************************************************************)
(* The dialog                                                              *)
(***************************************************************************)
\* The dialog's widget is deleted by the event loop after it was closed: until
\* then dialog_ is not null.  A dialog_ that the handler cleared itself forgets
\* the widget, so that its deletion no longer matters.
Forgotten(queue) == Selected(queue, {i \in DOMAIN queue : queue[i] # NoTxn})

Shown(t) == dialog' = t /\ window' = "open"

\* "They match": SasVerificationDialog disables its three buttons.
Match == /\ window = "open"
         /\ Asked(dialog, {"keys"}, "matched")
         /\ window' = "answered"
         /\ UNCHANGED <<banner, dialog, closed>>

\* "They don't match" and "Cancel".
Mismatch ==
    /\ window = "open"
    /\ Asked(dialog, Active, "cancelled")
    /\ dialog' = NoTxn
    /\ window' = "none"
    /\ UNCHANGED <<banner, closed>>

\* The window's close button, or Escape: neither signal is emitted.
CloseWindow ==
    /\ window \in {"open", "answered"}
    /\ window' = "closing"
    /\ posted' = Append(posted, NoTxn)
    /\ closed' = TRUE
    /\ UNCHANGED <<state, banner, dialog>>

-----------------------------------------------------------------------------
(***************************************************************************)
(* The UI thread's events                                                  *)
(***************************************************************************)
\* onTransactionStateChanged, RequestReceived.
ShowBanner(t) == /\ state[t] = "requested"
                 /\ banner' = t
                 /\ posted' = Tail(posted)
                 /\ UNCHANGED <<dialog, window>>

\* onTransactionStateChanged, KeyReceived: one dialog at a time.
ShowEmojis(t) == /\ state[t] = "keys"
                 /\ IF dialog = NoTxn THEN Shown(t) ELSE UNCHANGED <<dialog, window>>
                 /\ posted' = Tail(posted)
                 /\ UNCHANGED banner

\* onTransactionStateChanged, Done and Cancelled: the dialog and the banner go,
\* whosever they are, and a transaction whose dialog was skipped gets one.
\* MUTANT: it does not.
CloseWithoutResume(t) ==
    /\ state[t] \in {"done", "cancelled"}
    /\ banner' = NoTxn
    /\ posted' = Tail(Forgotten(posted))
    /\ dialog' = NoTxn
    /\ window' = "none"

\* MUTANT: the banner is left alone.
CloseDialogOnly(t) ==
    /\ state[t] \in {"done", "cancelled"}
    /\ posted' = Tail(Forgotten(posted))
    /\ IF \E u \in Txns : state[u] = "keys"
       THEN \E u \in Txns : state[u] = "keys" /\ Shown(u)
       ELSE dialog' = NoTxn /\ window' = "none"
    /\ UNCHANGED banner

CloseAndResume(t) ==
    /\ state[t] \in {"done", "cancelled"}
    /\ banner' = NoTxn
    /\ posted' = Tail(Forgotten(posted))
    /\ IF \E u \in Txns : state[u] = "keys"
       THEN \E u \in Txns : state[u] = "keys" /\ Shown(u)
       ELSE dialog' = NoTxn /\ window' = "none"

\* The states the handler does not tell apart.
Ignore(t) == /\ state[t] \in {"begun", "matched"}
             /\ posted' = Tail(posted)
             /\ UNCHANGED <<banner, dialog, window>>

Deliver == /\ posted # <<>>
           /\ Head(posted) # NoTxn
           /\ LET t == Head(posted)
              IN  ShowBanner(t) \/ ShowEmojis(t) \/ CloseAndResume(t) \/ Ignore(t)
           /\ UNCHANGED <<state, closed>>

\* The closed dialog is deleted: QPointer becomes null.
DeleteDialog == /\ posted # <<>>
                /\ Head(posted) = NoTxn
                /\ posted' = Tail(posted)
                /\ dialog' = NoTxn
                /\ window' = "none"
                /\ UNCHANGED <<state, banner, closed>>

Next == \/ \E t \in Txns : Incoming(t) \/ Start(t)
        \/ Accept \/ Reject
        \/ Match \/ Mismatch \/ CloseWindow
        \/ Deliver \/ DeleteDialog

Spec == Init /\ [][Next]_vars

-----------------------------------------------------------------------------
(***************************************************************************)
(* Properties                                                              *)
(***************************************************************************)
TypeOK == /\ state \in [Txns -> States]
          /\ posted \in Seq(Txns \cup {NoTxn})
          /\ banner \in Txns \cup {NoTxn}
          /\ dialog \in Txns \cup {NoTxn}
          /\ window \in Windows
          /\ closed \in BOOLEAN
          /\ (dialog = NoTxn) <=> (window = "none")

Awaited(t) == \E i \in DOMAIN posted : posted[i] = t

(***************************************************************************)
(* What the window asks the user about is still to be decided, or the      *)
(* event that takes the question away is under way: no request or emojis   *)
(* stay on screen for a verification that is over, whichever the order in  *)
(* which the two devices, the events and the user act.                     *)
(***************************************************************************)
QuestionsAreCurrent ==
    /\ banner # NoTxn => state[banner] = "requested" \/ Awaited(banner)
    /\ window \in {"open", "answered"} =>
           state[dialog] \in {"keys", "matched"} \/ Awaited(dialog)

(***************************************************************************)
(* "If a concurrent verification is waiting at KeyReceived (its dialog was *)
(* skipped by the one-dialog guard), surface it now that this dialog is    *)
(* closed" (verification_handler.cpp): once the events are delivered, a    *)
(* transaction with emojis waits for the user only behind another dialog   *)
(* -- unless the user closed a dialog by its window's button.              *)
(***************************************************************************)
SkippedIsSurfaced ==
    posted = <<>> /\ dialog = NoTxn /\ ~closed => \A t \in Txns : state[t] # "keys"
=============================================================================
