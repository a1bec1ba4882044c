------------------------------- MODULE Panels -------------------------------
(***************************************************************************)
(* The parts of the main window that last as long as it does: the room     *)
(* list, the toolbar, the reactions of the open room; and the preferences, *)
(* whose requests outlast their dialog.                                    *)
(***************************************************************************)
EXTENDS Naturals, Sequences

\* The constants of the parts, which their modules explain.
CONSTANTS
    Rooms, NoRoom, Member0,
    Devices, NoDevice,
    Messages, Own,
    Budgets \* bound: the Budget of every part, and of the accounts

VARIABLES
    listMember, listNews, responses, workers, commands, listPosted,
    listRows, invite, hidden, open, menu, switcher, latest, listTold,
    listOdd, listFuel,
    toolBoxes, label, toolJobs, toolPosted, identity, outbound, published,
    relogin, room, log, toolVerified, confirmed, unsent, toolFuel,
    backup, created, uia, busy, prefJobs, prefPosted, prefBoxes,
    backupLabel, xsLabel, section, edited, prefSaved, verifying, prefShown,
    keysShown, prefCalm, prefFuel,
    reaReactions, reaCount, reaNews, reaRows, chips, ids, reaJobs,
    reaPosted, wished, reaCalm, reaFuel

List == INSTANCE RoomList WITH
    Budget <- Budgets.list,
    member <- listMember, news <- listNews, posted <- listPosted,
    rows <- listRows, told <- listTold, odd <- listOdd, fuel <- listFuel

Tools == INSTANCE Toolbar WITH
    Budget <- Budgets.tools, boxes <- toolBoxes,
    jobs <- toolJobs, posted <- toolPosted, verified <- toolVerified,
    fuel <- toolFuel

Preferences == INSTANCE Prefs WITH
    Budget <- Budgets.preferences,
    jobs <- prefJobs, posted <- prefPosted, boxes <- prefBoxes,
    saved <- prefSaved, shown <- prefShown, calm <- prefCalm,
    fuel <- prefFuel

Reacting == INSTANCE Reactions WITH
    Budget <- Budgets.reactions,
    reactions <- reaReactions, count <- reaCount, news <- reaNews,
    rows <- reaRows, jobs <- reaJobs, posted <- reaPosted, calm <- reaCalm,
    fuel <- reaFuel
=============================================================================
