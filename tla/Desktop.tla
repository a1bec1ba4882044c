------------------------------ MODULE Desktop ------------------------------
(***************************************************************************)
(* The parts of the main window around the open room: the accounts, the    *)
(* room list, the dialogs and what else has a module of its own.  These    *)
(* modules share no variable, and each is closed: the calls between them   *)
(* are inputs (an effect of the homeserver, a box that is answered) on     *)
(* either side.  So nothing is lost when one part at a time takes steps,   *)
(* and TLC explores the sum of their states, not the product.              *)
(***************************************************************************)
EXTENDS Naturals, Sequences, Dialogs, Panels

\* The constants of the other parts.
CONSTANTS
    AccountIds, NoUser, Stored0, QueueMax

VARIABLES
    part, \* the part that is in use
    stored, accSaved, made, running, user, server, crypto, sync,
    accPosted, accWorking, accRows, combo, index, adding, logins, attempt, carried,
    accOdd, lapse, accFuel

Accounts == INSTANCE AccountSession WITH
    Users <- AccountIds, Budget <- Budgets.accounts, saved <- accSaved, posted <- accPosted,
    working <- accWorking, rows <- accRows, odd <- accOdd,
    fuel <- accFuel

ASSUME ConstantsAssumption ==
    /\ Accounts!ConstantsOK /\ List!ConstantsOK /\ Directory!ConstantsOK
    /\ Tools!ConstantsOK /\ Threads!ConstantsOK /\ People!ConstantsOK
    /\ Preferences!ConstantsOK /\ Profile!ConstantsOK /\ Attachments!ConstantsOK
    /\ Reacting!ConstantsOK /\ Verifying!ConstantsOK /\ Ingest!ConstantsOK

accountsVars == <<stored, accSaved, made, running, user, server, crypto, sync,
                  accPosted, accWorking, accRows, combo, index, adding, logins,
                  attempt, carried, accOdd, lapse, accFuel>>
listVars == <<listMember, listNews, responses, workers, commands, listPosted,
              listRows, invite, hidden, open, menu, switcher, latest,
              listTold, listOdd, listFuel>>
directoryVars == <<text, results, dirNextBatch, moreEnabled, dirJobs, answers,
                   dirBoxes, accepted, joinedRoom, dirShown, dirAlive,
                   dirMember, listed, asked, dirCalm, dirFuel>>
toolsVars == <<toolBoxes, label, toolJobs, toolPosted, identity, outbound,
               published, relogin, room, log, toolVerified, confirmed, unsent,
               toolFuel>>
threadsVars == <<pages, list, thrNextBatch, more, thrStatus, thrJobs,
                 thrPosted, thrShown, thrAlive, opened, thrCalm, thrFuel>>
peopleVars == <<joined, power, all, peoLoaded, search, timer, peoRows,
                peoStatus, canReload, profile, avatars, box, peoVerified,
                peoJobs, peoPosted, peoShown, peoAlive, peoCount, peoFuel>>
preferencesVars == <<backup, created, uia, busy, prefJobs, prefPosted,
                     prefBoxes, backupLabel, xsLabel, section, edited,
                     prefSaved, verifying, prefShown, keysShown, prefCalm,
                     prefFuel>>
profileVars == <<name, avatar, field, current, profStatus, profJobs,
                 profPosted, profShown, profAlive, typed, profLoaded, hasty,
                 unnamed, profFuel>>
attachmentsVars == <<attJobs, attPosted, cache, windows, attSaved, clicked,
                     attTold, attFuel>>
reactionsVars == <<reaReactions, reaCount, reaNews, reaRows, chips, ids,
                   reaJobs, reaPosted, wished, reaCalm, reaFuel>>
verificationVars == <<state, verPosted, banner, dialog, window, closed>>
ingestVars == <<ingLog, ingTold, ingRows, shows, ingChips, before, ingMore,
                ingJobs, ingPosted, ingCount, rowAt, cameAt, onPage, ingFuel>>

-----------------------------------------------------------------------------
Parts == {"accounts", "list", "directory", "tools", "threads", "people",
          "preferences", "profile", "attachments", "reactions",
          "verification", "ingest"}

\* Where a part may begin in several ways, it does so only if it is the one in use.
Init == /\ part \in Parts
        /\ Accounts!Init
        /\ List!Init
        /\ Directory!Init
        /\ part = "directory" \/ text = "q1"
        /\ Tools!Init
        /\ Threads!Init
        /\ part = "threads" \/ pages = 0
        /\ People!Init
        /\ Preferences!Init
        /\ part = "preferences" \/ created = 0
        /\ Profile!Init
        /\ part = "profile" \/ name = 0
        /\ Attachments!Init
        /\ Reacting!Init
        /\ Verifying!Init
        /\ Ingest!Init
        /\ part = "ingest" \/ (Len(ingLog) = 2 /\ ingFuel["news"] = 2)

\* No other part takes the step.
Only(p) == /\ UNCHANGED part
           /\ IF p = "accounts" THEN TRUE ELSE UNCHANGED accountsVars
           /\ IF p = "list" THEN TRUE ELSE UNCHANGED listVars
           /\ IF p = "directory" THEN TRUE ELSE UNCHANGED directoryVars
           /\ IF p = "tools" THEN TRUE ELSE UNCHANGED toolsVars
           /\ IF p = "threads" THEN TRUE ELSE UNCHANGED threadsVars
           /\ IF p = "people" THEN TRUE ELSE UNCHANGED peopleVars
           /\ IF p = "preferences" THEN TRUE ELSE UNCHANGED preferencesVars
           /\ IF p = "profile" THEN TRUE ELSE UNCHANGED profileVars
           /\ IF p = "attachments" THEN TRUE ELSE UNCHANGED attachmentsVars
           /\ IF p = "reactions" THEN TRUE ELSE UNCHANGED reactionsVars
           /\ IF p = "verification" THEN TRUE ELSE UNCHANGED verificationVars
           /\ IF p = "ingest" THEN TRUE ELSE UNCHANGED ingestVars

Next == \/ part = "accounts" /\ Accounts!Next /\ Only("accounts")
        \/ part = "list" /\ List!Next /\ Only("list")
        \/ part = "directory" /\ Directory!Next /\ Only("directory")
        \/ part = "tools" /\ Tools!Next /\ Only("tools")
        \/ part = "threads" /\ Threads!Next /\ Only("threads")
        \/ part = "people" /\ People!Next /\ Only("people")
        \/ part = "preferences" /\ Preferences!Next /\ Only("preferences")
        \/ part = "profile" /\ Profile!Next /\ Only("profile")
        \/ part = "attachments" /\ Attachments!Next /\ Only("attachments")
        \/ part = "reactions" /\ Reacting!Next /\ Only("reactions")
        \/ part = "verification" /\ Verifying!Next /\ Only("verification")
        \/ part = "ingest" /\ Ingest!Next /\ Only("ingest")

vars == <<part, accountsVars, listVars, directoryVars, toolsVars, threadsVars,
          peopleVars, preferencesVars, profileVars, attachmentsVars, reactionsVars,
          verificationVars, ingestVars>>

Spec == Init /\ [][Next]_vars

-----------------------------------------------------------------------------
(***************************************************************************)
(* Properties of the parts                                                 *)
(***************************************************************************)
\* Every part keeps to the types its module states.
TypeOK == /\ part = "accounts" => Accounts!TypeOK
          /\ part = "list" => List!TypeOK
          /\ part = "directory" => Directory!TypeOK
          /\ part = "tools" => Tools!TypeOK
          /\ part = "threads" => Threads!TypeOK
          /\ part = "people" => People!TypeOK
          /\ part = "preferences" => Preferences!TypeOK
          /\ part = "profile" => Profile!TypeOK
          /\ part = "attachments" => Attachments!TypeOK
          /\ part = "reactions" => Reacting!TypeOK
          /\ part = "verification" => Verifying!TypeOK
          /\ part = "ingest" => Ingest!TypeOK

\* The room list shows rooms of the account in use (carried: see AccountSession).
RowsOfAccount == part = "accounts" => Accounts!RowsOfAccount

\* The decryptor holds the identity of the account in use, and the store each account's own.
CryptoOfAccount == part = "accounts" => Accounts!CryptoOfAccount

\* The account in use is served, but for dialogs, and what a dismissed or failed login leaves.
SessionIsServed == part = "accounts" => Accounts!SessionIsServed

\* When all is delivered the list shows the rooms the user is in or invited to (odd: see RoomList).
ListFollowsServer == part = "list" => List!ListFollowsServer

\* No response, however late, lists a room again that the user hid.
HiddenStaysHidden == part = "list" => List!HiddenStaysHidden

\* The directory shows the pages of one search, each once and in order.
ResultsOfOneSearch == part = "directory" => Directory!ResultsOfOneSearch

\* The device identity is replaced only after an accepted password or an explicit confirmation.
ResetIsAuthorised == part = "tools" => Tools!ResetIsAuthorised

\* Persisted sessions are bound to the device's identity, whose keys the homeserver gets.
IdentityIsKnown == part = "tools" => Tools!IdentityIsKnown

\* Every thread of the pages that were loaded is listed, once.
ThreadsListed == part = "threads" => Threads!ThreadsListed

\* The member list shows what the search text asks for.
FilterApplied == part = "people" => People!FilterApplied

\* No dialog about members says that it works when nothing is under way.
StatusSettles == part = "people" => People!StatusSettles

\* A button of the preferences is disabled exactly while its one request is under way.
BusyIffUnderWay == part = "preferences" => Preferences!BusyIffUnderWay

\* The label of the key backup is right about the backup.
BackupLabelTrue == part = "preferences" => Preferences!BackupLabelTrue

\* The user id the name field begins with is saved as a name only by a hasty user, or an unnamed one.
NameIsTheUsers == part = "profile" => Profile!NameIsTheUsers

\* Every click on an attachment ends in one viewer, box or file given to the desktop.
EveryClickIsAnswered == part = "attachments" => Attachments!EveryClickIsAnswered

\* When all is told, every reaction is on the chip of its message.
ReactionsShown == part = "reactions" => Reacting!ReactionsShown

\* The window asks about no verification that is over.
QuestionsAreCurrent == part = "verification" => Verifying!QuestionsAreCurrent

\* A verification that waited behind another's dialog is shown when that is closed.
SkippedIsSurfaced == part = "verification" => Verifying!SkippedIsSurfaced

\* No event that a page or a response brought is lost, in whatever order they came.
ToldIsShown == part = "ingest" => Ingest!ToldIsShown

\* A stored identity is replaced only when its account is added again.
IdentityKept == Accounts!IdentityKept
=============================================================================
