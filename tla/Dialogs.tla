------------------------------ MODULE Dialogs ------------------------------
(***************************************************************************)
(* The dialogs of the main window that have a module of their own, and     *)
(* what the open room brings: its events, and the attachments and          *)
(* verifications that are opened from there.                               *)
(***************************************************************************)
EXTENDS Naturals, Sequences

\* The constants of the parts, which their modules explain.
CONSTANTS
    Queries, Pages, PageCounts,
    Persons, Strangers, Searches, LocalSenders, WithAvatar, WithDevice,
    MyPower, Powers, AvatarCacheMax,
    Images, Files, Broken, CacheMax,
    Txns, NoTxn,
    MaxEvents, PageSize, Starts,
    DialogBudgets \* bound: the Budget of every part

VARIABLES
    text, results, dirNextBatch, moreEnabled, dirJobs, answers, dirBoxes,
    accepted, joinedRoom, dirShown, dirAlive, dirMember, listed, asked,
    dirCalm, dirFuel,
    pages, list, thrNextBatch, more, thrStatus, thrJobs, thrPosted,
    thrShown, thrAlive, opened, thrCalm, thrFuel,
    joined, power, all, peoLoaded, search, timer, peoRows, peoStatus,
    canReload, profile, avatars, box, peoVerified, peoJobs, peoPosted,
    peoShown, peoAlive, peoCount, peoFuel,
    name, avatar, field, current, profStatus, profJobs, profPosted,
    profShown, profAlive, typed, profLoaded, hasty, unnamed, profFuel,
    attJobs, attPosted, cache, windows, attSaved, clicked, attTold,
    attFuel,
    state, verPosted, banner, dialog, window, closed,
    ingLog, ingTold, ingRows, shows, ingChips, before, ingMore, ingJobs,
    ingPosted, ingCount, rowAt, cameAt, onPage, ingFuel

Directory == INSTANCE RoomDirectory WITH
    Budget <- DialogBudgets.directory,
    nextBatch <- dirNextBatch, jobs <- dirJobs, boxes <- dirBoxes,
    shown <- dirShown, alive <- dirAlive, member <- dirMember,
    calm <- dirCalm, fuel <- dirFuel

Threads == INSTANCE ThreadsDialog WITH
    Budget <- DialogBudgets.threads,
    nextBatch <- thrNextBatch, status <- thrStatus, jobs <- thrJobs,
    posted <- thrPosted, shown <- thrShown, alive <- thrAlive,
    calm <- thrCalm, fuel <- thrFuel

People == INSTANCE Members WITH
    Users <- Persons, Budget <- DialogBudgets.people,
    loaded <- peoLoaded, rows <- peoRows, status <- peoStatus,
    verified <- peoVerified, jobs <- peoJobs, posted <- peoPosted,
    shown <- peoShown, alive <- peoAlive, count <- peoCount,
    fuel <- peoFuel

Profile == INSTANCE MyProfile WITH
    Budget <- DialogBudgets.profile, status <- profStatus,
    jobs <- profJobs, posted <- profPosted, shown <- profShown,
    alive <- profAlive, loaded <- profLoaded, fuel <- profFuel

Attachments == INSTANCE Media WITH
    Budget <- DialogBudgets.attachments, jobs <- attJobs,
    posted <- attPosted, saved <- attSaved, told <- attTold,
    fuel <- attFuel

Verifying == INSTANCE Verification WITH
    posted <- verPosted

Ingest == INSTANCE TimelineIngest WITH
    log <- ingLog, told <- ingTold, rows <- ingRows, chips <- ingChips,
    more <- ingMore, jobs <- ingJobs, posted <- ingPosted,
    count <- ingCount, fuel <- ingFuel
=============================================================================
