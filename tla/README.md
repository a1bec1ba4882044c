# Verification of progressive-desktop

TLA+ models of the Matrix client in this repository, model-checked with TLC and
proved with TLAPS. Paths are relative to the repository; `ui/` is `src/ui/`.

## 1. The system

The client is a Qt program over an engine (`core/`: HTTP client, sync loop, end-to-end
encryption, the data behind the list models, a thread pool). The engine is a submodule
and not part of the repository, so it is modelled only as far as the UI uses it. The
UI code is the subject.

Three kinds of threads act:

- the UI thread, which runs the handlers (clicks) and the callbacks posted to it, one
  at a time, in the order they were posted;
- the four workers of `ThreadPool`, which run the HTTP requests of the handlers and
  post a callback each (`QMetaObject::invokeMethod(..., Qt::QueuedConnection)`);
- the sync thread, which posts every `/sync` response.

A handler captures what it needs (the open room, a pagination token, an event id), and
the callback uses the captured values long after. Nearly every hazard of this program
is of that kind: the state has moved on when the answer comes.

### Inventory

| Component | State | Operations | Interacts with | What makes it correct |
|---|---|---|---|---|
| Open room (`ui/handlers/room_handler`, `ui/room/room_data_loader`, `room_store`, `ui/handlers/sync_response_handler`) | open room, pagination token, load-older button, room list rows, timeline | open, history, load older, sync apply, room states, accept, reject, leave | everything below | the timeline is the open room's, no message is lost, the button comes back, the message box sends to the open room, encryption is never forgotten |
| Thread view (`ui/handlers/thread_handler`) | open thread root, banner | open, close, reply | shares the one timeline | leaving a thread restores the room |
| Timeline model (`ui/timeline/timeline_model`) | rows, their reactions, pins, echoes; row signals to the view | append, prepend, replace echo, delete, react | all writers above | ids are unique, the view's row count follows the model's |
| Event ingestion (`room_store`, `room_data_loader`, `room_handler`, `event_parser`) | none | an event becomes a row, an edit, a reaction, a redaction | timeline model | the three paths agree on the same events |
| Sending (`ui/chat/chat_view`, `ui/timeline/timeline_handlers`, `ui/handlers/room_key_helper`, `slash_command_handler`) | room, encryption flag, thread root, shared-key flag (engine) | send, /me, attach, react, edit, delete, pin | timeline model, engine | an echo becomes its message or an error, keys are shared before use |
| Image loader (`ui/shared/image_loader`) | cache, requests in flight, failures | fetch, fetch encrypted, fetch movie | delegates | one request per image, everybody is answered, what is missing is asked for again, an own upload at once |
| Verification UI (`ui/handlers/verification_handler`, `ui/dialogs/sas_verification_dialog`) | one banner, one dialog | request, emojis, confirm, cancel, done | engine's transactions | a dialog belongs to a live transaction, none is stranded |
| Accounts (`ui/handlers/account_switcher`, `auth_handler`, `session_bootstrap`, `ui/main_window`) | account, saved pickles, sync running | login, logout, switch, close | everything | nothing of one account reaches another, the last state is saved |
| Room list (`ui/room_list_model`, `ui/handlers/room_context_menu`, `ui/notifications`) | rows, hidden rooms, unread counts | upsert, remove, hide, forget, notify | sync apply | a room that was left is not listed |
| Attachments (`ui/handlers/attachment_handler`, `ui/dialogs/image_viewer_dialog`) | downloads under way, full-image cache, open viewers | open, save | timeline's clicks | every click ends in one window or file |
| Preferences (`ui/dialogs/prefs_dialog`) | disabled buttons, boxes, labels, settings | cross-signing, key backup, secrets, devices, export, save | sync engine, verification | a button is disabled exactly while its request runs, the label is true, the recovery key is seen |
| Toolbar (`ui/handlers/toolbar_handler`, `ui/chat/chat_logger`) | boxes, chat log | new chat, join, reset of the device keys, chat log, opens the dialogs | engine, room list | no reset without authorisation, the homeserver ends with the device's identity |
| Room directory, threads (`ui/dialogs/room_directory_dialog`, `threads_dialog`) | a paged list, its token | search, more, join; refresh, more, open | room list, open room | the list is of one question, complete and without repetition |
| Members and profiles (`ui/profile/*`) | member list, filter and timer, one profile, avatar cache | reload, filter, invite, kick, ban, promote, verify | verification | the filter holds, no status says "working" for ever |
| Own profile (`ui/profile_dialog`) | name field, avatar, status | save name, set avatar | | the name saved is the user's |
| Room settings, pickers, logs, colours, painting, theme | widgets | | | no state beyond one step or one repaint |

### Hard behaviours

Interleaving of clicks, workers and callbacks; answers out of order; answers that are
lost although the server acted (join, leave); a sync response prepared before and
applied after another step; one button or banner that stands for several requests;
boxes that run an event loop of their own, so that an answer arrives below a question;
dialogs that are gone when their workers end; bounds (200 rows, caches). `PROJECT.json` lists them one by one, at
their lines.

## 2. Modules

| Module | What it is |
|---|---|
| `RoomTimeline` | the open room and its timeline: every handler and callback of the first two rows of the inventory, the worker and sync steps between them, and the homeserver |
| `SingleFlight` | abstract: a control that starts one background request and opens again when it lands |
| `ImageLoader` | the image loader, its caches and downloads, and the painters that ask it |
| `SendPath` | everything the user sends: the job of each thing sent, the echo, the room key, the answer, and the sync that may come first |
| `TimelineIngest` | how messages, edits, reactions and redactions become rows: history, load older, sync |
| `Reactions` | reactions with one emoji: toggles, React, Remove reaction, and what sync tells of them |
| `AccountSession` | accounts: which one the client, the sync, the decryptor, the store and the window are at |
| `RoomList` | which rooms are listed and hidden, between responses and the list's menus |
| `Verification` | one banner and one emoji dialog for several verifications |
| `Prefs`, `Toolbar`, `RoomDirectory`, `ThreadsDialog`, `Members`, `MyProfile`, `Media` | the dialogs, the toolbar's own operations, attachments |
| `Selection` | the elements of a sequence that meet a condition, in a form to prove about |
| `Dialogs` | an instance of each of the modules of dialogs, attachments and verifications, and of `TimelineIngest` |
| `Panels` | an instance of each of `RoomList`, `Toolbar`, `Prefs` and `Reactions` |
| `Desktop` | `Dialogs`, `Panels` and an instance of `AccountSession`: the main window |
| `MCRoomTimeline`, `MCImageLoader`, `MCSendPath`, `MCReactions`, `MCTimelineIngest`, `MCDesktop` | instances for TLC |
| `RoomTimeline_proofs`, `SendPath_proofs`, `ImageLoader_proofs`, `AccountSession_proofs`, `Panels_proofs`, `Dialogs_proofs`, `Desktop_proofs` | theorems about the module of that name |
| `SequenceLemmas` | what those proofs need of sequences: removal and insertion at a position, the number of occurrences, selection, reversing and joining, the elements of a set in some order |

`RoomTimeline`, `ImageLoader` and `SendPath` overlap in the rows of the timeline and in
the open room, and each keeps of them what its properties need; an input of one (a
response, an answer, a room that is opened) is an action of the other.

`Desktop` does not compose its parts: they share no variable in the program either,
except through the homeserver, the engine and the open room, which each of them takes as
an input. The variable `part` is chosen at the start and only that part takes steps, so
the run explores the sum of the parts' states; `AccountSession`, which stops and starts
everything else, is one of them.

### RoomTimeline and the code

| Model | Code |
|---|---|
| `OpenRoom`, `OnRoomClicked(r)` | `RoomHandler::onRoomClicked` |
| `OnLoadMoreClicked`, `DeliverMore` | `RoomHandler::onLoadMoreClicked`, its callback |
| `DeliverHistory` | the callback of `RoomDataLoader::loadHistory` with the one of `onRoomClicked` or `closeThreadView` inside it |
| `OpenThreadView`, `DeliverThread`, `CloseThreadView` | `ThreadHandler::openThreadView`, its callback, `RoomHandler::closeThreadView` |
| `AcceptInvite`, `DeliverAccept`, `LeaveRoom`, `DeliverLeave` | `RoomHandler::acceptInvite` / `rejectInvite` and the same entries of `RoomContextMenu` |
| `SyncReturn`, `HandleSync`, `WorkerPrepare`, `ApplySync` | `MainWindow::wireSyncCallbacks`, `SyncResponseHandler::handle`: before the job, in the job, in the callback |
| `WorkerStates`, `DeliverState` | `RoomDataLoader::batchLoadRoomStates`: one round of the loop, its callback |
| `WorkerRead`, `WorkerMembership`, `WorkerFault`, `WorkerPost` | an HTTP request of a job returns, or fails; the job posts its callback |
| `NewMessage`, `EnableEncryption`, `MembershipChange` | other users and devices, on the homeserver |

A job is one record: kind, what it captured, and the answer once it has one. The same
record is the callback while it waits in `queue`. `jobs` has one slot per worker. Every
model action is a whole handler: between two of them the UI thread runs nothing else.

`fuel` bounds how often each outside step happens (clicks, load-older clicks, thread
clicks, membership changes, news, faults). `historyFailed` is auxiliary: it remembers
that a history request failed since the timeline was emptied, which `NoMessageLost`
and `MessageShown` need to say what they promise.

Abstractions: a message is its room and its position; the timeline is the set of its
rows with the last one kept apart, because the external model drops ids it already has
and only the read marker looks at an order; a token is the position it stands for, and
a token of another room stands for any position or for none. The answer of `/messages`
with nothing older keeps the token it was asked with, as the code does when `end` is
absent.

### ImageLoader and the code

| Model | Code |
|---|---|
| `Paint(p)`: `PaintImage`, `PaintPlaceholder`, `PaintAvatar` | `RoomListDelegate::paint`, `drawMessageBubble`, `drawBubbleAvatar` |
| `Fetch`, `BeginFetch` | `fetchThumbnail` and `fetchEncryptedThumbnail` up to their job, `beginFetch` |
| `CoolingDown`, `DropExpired`, `MarkFailed` | `isFailed` (which also erases an expired entry), `markFailed` |
| `WorkerFetch` | the job: one download, or two when the thumbnail was no image |
| `Deliver` | the job's callback, with the callbacks queued for the image |
| `Repaints` | what those callbacks do: `TimelineModel::imageLoaded`, or `dataChanged` for one row |
| `Upload(u)`, `Remembered` | `ChatView`'s workers after an upload, `markMxcFreshUpload` and its limit |
| `Appear`, `Expose`, `CooldownEnds` | Qt shows a row, paints a view again; time passes |

A place is anything that shows one image; `Items` gives its kind, the URL it shows and
the URL it asks for. `dirty` holds the places Qt is going to paint, `screen` what the
last paint drew. `cache` is a sequence, most recently used first. A callback is the
place it serves: asking twice for the same place is the same callback. `uploaded` is
auxiliary: every file that this process uploaded, where `fresh` is the code's set, which is
emptied at its limit.

### SendPath, Reactions and the code

| Model | Code |
|---|---|
| `Send`, `Encrypt`, `NewRow` | `ChatView::doSend` and its siblings (`/me`, attach, thread reply) on the UI thread: the row and the choice to encrypt |
| `Prepare`, `Check`, `ShareStarts`, `ShareEnds`, `Request` | the worker's part: upload or session, `roomKeyShared`, `shareRoomKeyForRoom`, the request |
| `Succeeded`, `Unprepared`, `Refused`, `WithSystemRow`, `Replaced` | the callbacks, and `TimelineModel::replaceEcho` |
| `MarkOf`, `Targets` | the timeline's context menu and its handlers: reaction, edit, deletion, pin |
| `ServerRow`, `LearnEncryption` | what a response changes: the message comes back, the room turns encrypted |
| `Toggle`, `React`, `Unreact` | the toggles of `MainWindow`, the emoji bar, the context menu |
| `AppendTimeline`, `WithReactions` | `appendTimelineForRoom`, `TimelineModel::addReaction` |

A job goes through stages; between two of them other jobs, the user and sync act.

### The other modules and the code

In each of them `jobs` are the requests under way, `posted` what waits for the UI
thread, `boxes` the modal boxes (innermost last), `fuel` what is left of `Budget`. An
action is named as the slot it models; `Work` is a worker's end, `Deliver` the next
callback. Variables marked "history" only record what a property speaks of: `calm`, `odd`
and `closed` that the user or the network did what the property excludes.

| Module | Actions beyond the slots | Code |
|---|---|---|
| `AccountSession` | `Boot`, `Quit`, `SwitchTo`; `SyncResponse`, `HandleResponse`, `Prepare`, `ApplyUpdate`; `AuthError`, `TryLogin`, `LoginFails`, `AccountAdded`, `ReLogin`, `CancelAdd`, `CancelLogin` | `SessionBootstrap::start`, `MainWindow::closeEvent`, `AccountSwitcher`; `SyncResponseHandler::handle`, its worker, its callback; `AuthHandler`, `LoginDialog` |
| `RoomList` | `Handle`, `Prepare`, `Apply`; `OpenMenu`, `Choose`, `Accepted`, `Outcomes` | `SyncResponseHandler`, `RoomStore`; `RoomContextMenu`; `RoomSwitcherDialog` |
| `Verification` | `Incoming`, `Asked`; `ShowBanner`, `ShowEmojis`, `CloseAndResume` | the engine's transactions; `VerificationHandler::onTransactionStateChanged` |
| `Prefs` | `Confirm`, `Dismiss`, `Effect` | the boxes; the functions `ToolbarHandler::onSettings` passes in |
| `Toolbar` | `Accept`, `Refuse`, `ProceedWithReset`, `OnDeleted` | its questions, `onResetDeviceKeys` |
| `RoomDirectory`, `ThreadsDialog` | `Leave`, `Work` | the toolbar's slot after `exec`, a worker that outlives its dialog |
| `Members` | `Ask`, `Command`, `Timeout` | boxes, a profile's commands, the debounce timer |
| `TimelineIngest` | `OnSync`, `OnHistory`, `OnOlder`; `Serve` | `appendTimelineForRoom`, the callbacks of `loadHistory` and `onLoadMoreClicked`; a redacted event is served without its content |
| `MyProfile`, `Media` | `Answered`, `Show` | the homeserver; `exec` of a viewer or box |

In `AccountSession` a response goes its whole way: the sync thread posts it, the UI thread
hands it to a worker (`working`), the worker posts an update, the UI thread applies it. An
account may change between any two of these steps. Every `LoginDialog` is modal, and they
nest: an expiry that was posted before "+ Add Account" was clicked opens its dialog above
that one, and the upper one is answered first. A login is two steps (`attempt`), because
`onLoginClicked` runs the event loop and points the client at another homeserver before it
knows whether the login succeeds. In `MyProfile` the profile that comes may name nobody, or
not parse.

Several workers reach their dialog's client through a plain pointer. Where the dialog
may be gone the model lets the program end (`alive`) or go on.

## 3. Runs

| Run | Instance | Shows |
|---|---|---|
| `switch` | two rooms of three messages, encrypted or not, three workers, two clicks, one load older, one event, one fault; or one room joined and one invited to, two clicks (open, accept, reject, leave) and a membership change elsewhere | `TypeOK`, `MessageBoxMatchesRoom`, `LoadMoreSingleFlight`, `NoMessageLost`, `EncryptionSticky`, `MixedOnlyByStaleCallback` |
| `thread` | one room; one click, two thread steps, one load older, one event, one fault; with fairness | `LoadMoreIsSingleFlight` (refinement, with its liveness), `MessageShown` |
| `window` | a picture and an avatar in both lists, with two own uploads, one more than are remembered, and two repaints; or four kinds of media that fail in their own ways; a cache of one image; with fairness | `TypeOK`, `ReasonMatches`, `FetchIsSingleFlight`, `FreshRetried`, `ImageShown` |
| `send` | two things sent, of nine kinds, in two rooms, listed as encrypted or not, two rooms opened, failures at every stage; with fairness | `TypeOK`, `KeyBeforeMessage`, `EncryptedWhenListed`, `MessageShownOnce`, `ForeignRowsAreLate`, `EchoResolved` |
| `desktop` | twelve modules, one at a time (below) | `TypeOK` of all and the properties below |
| `flag` | one click, one event | violation of `SendsFlipWithRoom` |
| `marker` | three clicks: to a room, away, and back | violation of `MarkerIsOfRoom` |
| `thumbnail` | one picture with an encrypted thumbnail | violation of `ThumbShown` |
| `avatar` | two messages of one sender | violation of `PendingIsInFlight` |
| `edits` | one room whose newest page holds a message and its edit | violation of `EditsUpdateTheirRow` |
| `recovery` | `Prefs` alone | violation of `RecoveryKeyShown` |
| `toggle` | two messages, no failure | violation of `ToggleTakesBack` |

The open room:

- `LoadMoreSingleFlight`, `LoadMoreIsSingleFlight`: the button is disabled exactly
  while one request is in the pool or in the queue, through room switches, thread
  views and failures, and it always comes back.
- `NoMessageLost`: when everything is quiet, the open room shows its newest page,
  whichever of history and sync came first (`memory/PROGRESS.md`, B33).
- `MessageShown`: a message of the open room is shown eventually, also after a thread.
- `EncryptionSticky`: no response, state answer or join makes an encrypted, joined row
  unencrypted.
- `MixedOnlyByStaleCallback`: messages or a token of another room enter the timeline of
  the open one only through a callback that captured another room. The code does let
  them in that way; the property says it is the only way, so a check of the room in
  those callbacks would be enough.
- `MessageBoxMatchesRoom`: while the message box is shown, the chat sends to the open
  room.

Images:

- `FetchIsSingleFlight`: for each image, whatever asks for it and whatever its download
  yields, the loader keeps the promise of `SingleFlight`: there is an entry of waiting
  callbacks exactly while one download is under way, and it is emptied in the end.
- `FreshRetried`: painting an own upload that is not there always asks for it, until the
  process has uploaded more files than `freshUploadSet` keeps. It ranges over all that was
  uploaded, not over that set: the set must have every upload up to its limit. Beyond the
  limit the code breaks its promise (below).
- `ImageShown`: a place that waits shows its image in the end, unless the download
  failed or the cache is full of others. It says nothing of a place whose callback
  already got a failure: nothing paints that one until the view is painted again.
- `ReasonMatches`: an image that is there has no failure reason, one on cooldown has one.

Sending:

- `KeyBeforeMessage`: no encrypted event is with the server of a room whose key was not
  shared, but where the job's own attempt to share it failed.
- `EncryptedWhenListed`: a text, or a context menu's event, for a room listed as
  encrypted never goes in clear. It leaves out `/me`, files and the emoji bar, which go
  by the chat's flag (see `flag`), and the toggles of `MainWindow`, which never encrypt.
- `MessageShownOnce`, `ForeignRowsAreLate`, `EchoResolved`: a message is shown once,
  whether sync or the answer was first; a row of another room can only be a late
  answer's; the echo of a message, or of a thread's message, becomes the message or a
  notice in the end, whatever fails. Of `/me` that holds only when the server refuses it:
  when it was sent nothing replaces its echo (sync brings another row), and when it could
  not be encrypted nothing is said (below).

The parts of `desktop`:

| Part | Instance | Properties |
|---|---|---|
| Accounts | two accounts, one response, error, login, failed login and restart each, two events in the queue, any number of dialogs | `RowsOfAccount`, `CryptoOfAccount`, `IdentityKept`, `SessionIsServed` |
| List | two rooms, one change of membership, two responses, two commands | `ListFollowsServer`, `HiddenStaysHidden` |
| Directory | two searches of three pages and one, four requests, a fault | `ResultsOfOneSearch` |
| Tools | two clicks, a fault, two other steps | `ResetIsAuthorised`, `IdentityIsKnown` |
| Threads | none, one or three pages, three clicks, a fault | `ThreadsListed` |
| People | two users, one more powerful and one not yet there; two clicks, two profiles, a search, a fault; a cache of one avatar | `FilterApplied`, `StatusSettles` |
| Preferences | two clicks, one other device, a backup or none | `BusyIffUnderWay`, `BackupLabelTrue` |
| Profile | a profile with a name or without; two edits, two saves, a fault | `NameIsTheUsers` |
| Attachments | three images, of which one cannot be decoded, and a file; four clicks, a fault; a cache of one | `EveryClickIsAnswered` |
| Reacting | two messages, three steps of the user, one of another user, a fault | `ReactionsShown` |
| Ingest | pages of two; a room with an edit, a reaction, or both, before the newest message or after it; one or two new events (any edit, reaction, redaction or message), two older pages, a second opening, a fault | `ToldIsShown` |
| Verifying | two verifications | `QuestionsAreCurrent`, `SkippedIsSurfaced` |

Each property is stated with its exceptions in its module; the exceptions are what the
code really does. So `ListFollowsServer` leaves out the rooms for which a response was
applied after a later one, `CryptoOfAccount` ends when somebody logs in as someone else
in the dialog of an expired session, `SessionIsServed` names what leaves the window without a
sync that answers (a dismissed dialog of an expired session; a login that failed, after which
the client stays at the homeserver it was tried at), `NameIsTheUsers` leaves out the user who
saves before the profile has come and the profile without a name, for which the field keeps the
id, `ResultsOfOneSearch` and `ThreadsListed` ask the
user to wait for answers, because nothing is disabled meanwhile, and `StatusSettles`
leaves out the profile whose avatar was cached: it says "Loading..." for good.
`ToldIsShown` promises a reaction of an older page only for a row of another answer, and
says "an edit" where a page that is read again at the start of the room applies the
edits newest first and so leaves the oldest.

Seven comments or notes of the repository are not met, each shown by a run:

- `ui/handlers/room_handler.cpp:35` ("sends must flip with it"), when the room is opened
  between a response and its callback (`flag`);
- `ui/handlers/room_handler.cpp:147` ("Send read marker for last loaded event"), when
  late answers of another room lie behind the last event (`marker`);
- `ui/timeline/timeline_painter.cpp:403` ("Prefer the small encrypted thumbnail when
  present"): the thumbnail is cached under its own URL and the row looks under the
  picture's, so it is never shown; and since each paint finds it in the cache, is called
  back at once and asks to be painted again, painting never stops (the last state of
  `thumbnail` is one that a paint leads back to);
- `ui/timeline/timeline_painter.cpp:118` ("capture the pending set by shared
  ownership"): a copy is captured, so an avatar the timeline asked for once is never
  asked for again (`avatar`);
- `checklist.md:184` ("sync/history/load-more update the original row"): an edit is
  looked up among the rows there before its page, which a history page never finds, so
  the edit and the unedited message are two rows (`edits`);
- `ui/dialogs/prefs_dialog.cpp:162` ("Show the recovery key ONCE"): the dialog can be
  left while the backup is created, and the key is dropped with the answer (`recovery`);
- `memory/PROGRESS.md:109` ("Double-click emoji (Telegram toggle)"): the chip of a
  reaction the user made by a double-click has no event id, so the next one sends it
  again in place of taking it back (`toggle`).

Two more are met in part, and the properties say in which part:

- `ui/shared/image_loader.hpp:26` ("they must never be negative-cached, and the next paint
  retries"): the set of fresh uploads is emptied when it grows beyond its limit, so a picture
  uploaded by then, the newest included, is cached as failed if its download fails, and not
  asked for until its cooldown ends. `FreshRetried` holds up to the limit;
- `checklist.md:163` ("/me failures show an error notice"): the worker of `/me` returns
  without a word when there is no session or the encryption fails (`ui/chat/chat_view.cpp:61`,
  `:65`), and its echo stays. `EchoResolved` covers the `/me` that the server refused.

Bounds. Two rooms are enough for every mix-up of two rooms; three workers let two
answers overtake each other while a third job waits; three messages and pages of two
make a history with a second page, and a fourth position leaves room for one new
event. For the images, two URLs and a cache of one make every eviction that more would;
the limit of failures (2) is out of reach of the window with own uploads, because
`ImageShown` is not true beyond it: an image whose entry is dropped at the limit is neither
shown nor explained. The other window goes beyond it. The limit of fresh uploads (1) is met
by the first upload and passed by the second. Two things sent make every race of two
workers for a key, and a reply or a mark needs one message before it. In `desktop`, each budget admits two requests of
a kind under way at once and an answer that comes after the step that makes it stale.
`CHECK_DEADLOCK FALSE` in every run: with its budget spent and its answers
delivered the program is idle, which is no error. `SYMMETRY` only in `switch`, which
has no liveness property. `marker` runs under fairness, and its counterexample is a
finite prefix that needs none.

Fairness. `WF(Callback)`: the Qt event loop keeps running. `WF(SyncReturn)`: the sync
loop polls for ever. `WF(WorkerStep(k))` for each worker: a worker never stops, and a
request ends, with an answer or when it times out. In `ImageLoader` the same, as
`WF(WorkerFetch(job))` and `WF(Deliver)`, and `WF(Paint(p))`: Qt paints what is due. In
`SendPath` each job's steps and the delivery of its result are fair, for the same
reasons. Nothing is assumed of users, of the homeserver's events or of faults.

## 4. Proofs

Everything below holds for every value of the constants that meets the named
assumptions: any sets of rooms, users, images or accounts, any budgets, any number of
workers up to the pool's four. Each proof follows one pattern: an invariant stronger than
the property, a lemma per action (or per group of actions that touch the same variables)
that the action keeps it, a lemma that `Next` does, and the theorem by temporal logic.

`RoomTimeline_proofs`:

| Theorem | States | Argument |
|---|---|---|
| `TypeCorrect` | `TypeOK` | inductive as it is; the record lemmas (`FieldTypes`, `MessagesReplyType`, ...) say that each answer and each job is well formed |
| `NothingLost` | `NoMessageLost` | `CoverInv`: each of the newest messages of the open room is on the screen, or is brought by a request that was not answered yet, by an answer that will not have failed, or by a response that captured this room, or the homeserver has not told it. The property speaks of quiet states only, and nothing about them is inductive: a message may be in an answer when another one empties the timeline, so the invariant has to follow it through every stage of every request |
| `RoomsMixOnlyLate` | `MixedOnlyByStaleCallback` | `ContentsInv`: a request carries contents of its own room only, so a callback that captured the open room cannot bring others |
| `MessageBoxSafe` | `MessageBoxMatchesRoom` | inductive with `TypeOK`; only `OpenRoom` and `ApplySync` touch the three variables |
| `EncryptionIsSticky` | `EncryptionSticky` | an action property, from `TypeOK`; four actions write the list |
| `LoadMoreSafe` | `LoadMoreSingleFlight` | inductive with `TypeOK`; `KeepsFlight` covers every step that moves no load-older request, three lemmas the three that do |
| `LoadMoreFlies` | the refinement of `SingleFlight`, without its fairness | under `LoadMoreSingleFlight` the abstract flight is a function of the button, so a step that leaves the button stutters and the others depart or land |

`SendPath_proofs`, about one invariant `Inv` of two parts, `JobsInv` (what each stage of a
job has established: the key it found, what the server has of it, that its result waits
once) and `RowsInv` (where each row of the timeline comes from, and that it is there once):

| Theorem | States | Argument |
|---|---|---|
| `TypeCorrect` | `TypeOK` | part of `JobsInv` |
| `KeySharedFirst` | `KeyBeforeMessage` | `KeyState`: a job that goes on has found or shared the key, or knows that it failed; keys are never unshared |
| `ListedIsEncrypted` | `EncryptedWhenListed` | `AnswerState`: an event in clear comes from a job that did not choose encryption |
| `ShownOnce` | `MessageShownOnce` | `RowsInv`: no two rows of one job and form; while its room stays open, a job that is not over has its echo or its message, one that is over what its result says. `ReplacedRows` says what `replaceEcho` leaves, `SucceededRows`, `UnpreparedRows` and `RefusedRows` what each callback does |
| `ForeignRowsLate` | `ForeignRowsAreLate` | the last conjunct of `RowState` |

`ImageLoader_proofs`:

| Theorem | States | Argument |
|---|---|---|
| `TypeCorrect` | `TypeOK` | with `WaitInv`, `FlightInv`, `ReasonInv`: who waits is in the window; an image has one download, in the pool or posted, exactly while somebody waits for it, and is not cached meanwhile |
| `OneDownload` | the refinement of `SingleFlight` for each image, without its fairness | `FlightInv`: the flights of an image are counted by its waiting callbacks |
| `FreshAskedAgain` | `FreshRetried` | an action property, from `UploadsInv`: up to its limit the set of fresh uploads is all that was uploaded, because every upload adds to it and nothing takes away (`UploadsKept`). The painters then find no failure of it, and ask |
| `ReasonsMatch` | `ReasonMatches`, if `MalformedAlone` | `CoolInv`: a failure on cooldown has its reason, and is not of an image that is on its way, or the image could arrive and keep its cooldown without its reason |

`MalformedAlone` says that no event that can never be fetched (an encrypted picture
without its key, an encrypted video) names the file of one that can. Without it the
invariant is false, which TLC shows with three items: painting the malformed event marks
the file as failed (`ui/shared/image_loader.cpp:161`) while the other event's download of
it is under way, and the download's success erases the reason but not the
failure (`ui/shared/image_loader.cpp:131`). The three instances of the runs meet it, and so
does every window in which no two events share a file.

`Panels_proofs`, `Dialogs_proofs` and `Desktop_proofs`. `PartsBehave` proves that a behaviour of `Desktop` is
a behaviour of each part: the other parts only make it stutter. So each property is proved
of its part alone and then holds in the window:

| Theorem | States | Argument |
|---|---|---|
| `RowsFollowAccount` | `RowsOfAccount` | `AccountSession_proofs`: a response under way, in the queue, with a worker or prepared, is of the account in use or was left behind when the account changed |
| `CryptoFollowsAccount` | `CryptoOfAccount` | the decryptor has what the store has for the account in use (`KeptInv`) |
| `IdentityStays` | `IdentityKept` | an action property, from the same invariant |
| `SessionServed` | `SessionIsServed` | a sync that stands still has its login dialog posted, open or dismissed; a client that is at another homeserver than its account's is in a login attempt or behind one that failed |
| `ResetAuthorised` | `ResetIsAuthorised` | `Authorised`, an equation: what was agreed to and did not change the identity yet is an accepted deletion on its way |
| `IdentityKnown` | `IdentityIsKnown` | `KnownInv`: what the homeserver does not know is being uploaded, or another reset will follow |
| `ClicksAnswered` | `EveryClickIsAnswered` | `Counted`: the equation of clicks and answers, inductive with the types of the two queues |
| `MembersFollowSearch` | `FilterApplied` | inductive as it is |
| `StatusEnds` | `StatusSettles` | a status that says "working" has a request under way for that very profile or list; profiles are numbered, so that a late answer is not taken for another's |
| `QuestionsCurrent`, `SkippedSurfaces` | `QuestionsAreCurrent`, `SkippedIsSurfaced` | `StatesFit`, `NobodyWaits`: with no dialog open, a transaction with keys is announced, or the end of another one is, which will surface it |
| `DirectoryShowsSearch` | `ResultsOfOneSearch` | `SearchInv`: one search or answer is under way for a patient user, and asks for the page after those shown |
| `NameStays` | `NameIsTheUsers` | the field holds the user's text or the name that came; it is the id only while no profile has come, after a save that did not wait for it, or after a profile that named nobody; a save of the id that is under way is of one of the last two kinds |
| `ThreadsAreListed` | `ThreadsListed` | what is shown, asked for and still to be asked for are all pages, each once |
| `HiddenStays` | `HiddenStaysHidden` | `HiddenInv`: no row is hidden. An update that captured its rooms before one was hidden is still harmless, because the model skips what is hidden when it is applied; the rows of an update are the old ones less the removed, plus rooms that are not hidden (`ListExtended`) |
| `ListFollows` | `ListFollowsServer` | `ListedInv`: of the responses under way and the updates made of them that tell of a room, the one with the highest number says the room's membership at the server, unless news or a command's answer about it are still to come, or an item is already overtaken (then the room is named `odd` when that item is applied); a room of which nothing more will be told is shown as it is (`StillListed`, `ListedUpdate`). An answer that waits is made up for by something behind it, or the room is left (`SuccessTold`) |
| `ButtonsEnabledAgain` | `BusyIffUnderWay` | `PrefInv`: a box that asks for a request, or holds the key that it made, is the only one about its button, and the button is free; so whatever the user answers, the request that begins is the only one of its button |
| `BackupLabelIsTrue` | `BackupLabelTrue` | `LabelInv`: of the buttons about the backup at most one is busy while the user is calm; where the label is not right, an answer, or a box that holds the key, is about to put it right |
| `ToldStaysShown` | `ToldIsShown` | `IngestInv`: every page on its way says what the room holds, each event once, as it was before it was redacted or after; an event has a row exactly if an answer made one. `Applied` is what the three callbacks have in common, and `NotedShown` concludes from it: what came before is where it was, or was changed by an edit or a redaction of the same answer |
| `ReactionsAreShown` | `ReactionsShown` | `ReactInv`: what the homeserver has is on its chip or waits behind its message; the ids the client knows are of the user's own reactions; a removal he waits for is of a reaction that is gone |
| `TypesCorrect` | `TypeOK` of all twelve parts | a lemma for each part (`ListIsTyped`, `PreferencesAreTyped`, `PeopleAreTyped`, ...). Most types are inductive only with what the other theorems show: that a room keeps one row (`RoomRowsFit`) needs what filtering and upserting do to distinct elements, a recovery key that is shown was made because the answer that waits carries one that was (`PrefKeys`), the label of cross-signing is of a button that asks for a password (`Belongs`), the cache of attachments stays within its bound and holds only pictures that can be shown (`CacheFits`) |

Assumptions. Only the named ones on the constants (`RoomsAssumption`, `SizeAssumption`,
`StartsAssumption`, `ReplyToAssumption` of `RoomTimeline`, those of `SendPath` and
`ImageLoader`, and `ConstantsAssumption` of `Desktop`, the conjunction of the parts'
`ConstantsOK`), which TLC evaluates in the runs. Only `ReasonsMatch` has a hypothesis of
its own.

Every invariant that a passing run checks is a theorem. Only model-checked are
`MessageShown`, `ImageShown`, `EchoResolved`, and the liveness half of
`LoadMoreIsSingleFlight` and `FetchIsSingleFlight`: liveness under fairness is out of
the prover's reach.

## 5. Plan

Done: `RoomTimeline` with `SingleFlight`, `ImageLoader`, `SendPath`, `Reactions`,
`AccountSession`, `RoomList`, `Verification`, the dialogs, the toolbar, `Media` and
`TimelineIngest`, and the proofs of all invariants. Left: `TimelineModel`, the rows as a
sequence with their cap and the signals that keep the view's row count; the engine's half
is external.

The modules declare no `RECURSIVE` operator, so that they can be proved about. Where an
order matters (`Updated`), a definition chooses the last element rather than folding,
because what a fold computes for every input needs induction over data.

## 6. Not modelled

- The engine: not in the repository. What its operations do is marked external in
  `PROJECT.json` and taken from how the UI uses them.
- The cap and the row signals of the timeline (plan). In `TimelineIngest`: decryption and
  the in-place replacement of a row, membership rows, names and avatars.
- The room settings dialog: it is opened with an empty room id only
  (`ui/handlers/toolbar_handler.cpp:191`), so none of its requests can succeed.
- The emoji picker, the dialogs for colours, logs and shortcuts, full screen, keyboard
  navigation, painting (but for what it asks of the image loader), layout, theme and
  zooming: no request and no state that outlives a step.
- In `RoomTimeline`: names and avatars, status texts, rows that are no events, the
  in-place decryption of a row. In `ImageLoader`: `fetchMovie`, which nothing calls,
  sizes, the lengths of the cooldowns, rows that go away, and the data race between
  `markMxcFreshUpload` on a worker and `isFailed` on the UI thread.
- In `SendPath`: that two workers share one key twice is possible (each asks before either
  has marked it) and not counted; unpinning, the context menu's download and its request for a missing
  key, what the menu does with an echo's row, and what the slash commands of the table
  do (all but `/help` go through a member pointer that is null, and end the program).
- In `RoomList`: order, unread counts, notifications. In `AccountSession`: device ids,
  a failed initialisation of the encryption. In `Members`: names, trust shields. In
  `Prefs`: the room keys that are exported or imported.
