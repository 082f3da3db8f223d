# Karagram: TLA+ models, checks and proofs

Karagram is a fork of Telegram Desktop whose server is a small FastAPI
application. This directory models what is Karagram's own, the backend
(`backend/app`) and the client's network layer
(`Telegram/SourceFiles/custom_network`), and four parts of the Telegram client
that it inherits, chosen because they are protocols: they interleave, fail and
recover. Where a build replaces MTProto by the backend (`CUSTOM_BACKEND`,
ARCHITECTURE.md:44) the updates, the histories and the keys of these four are not
at work; what is said of them applies to the inherited client. `PROJECT.json` maps
every definition to the lines it models and lists the runs, mutants, findings,
hazards and theorems.

## 1. Inventory

### The parts and their state

| Part | State | Operations | Correct means |
|---|---|---|---|
| Chats, members, messages API (`api/chats.py`, `members.py`, `messages.py`) | tables `chats`, `memberships`, `messages`; per request a database session with the objects it has loaded | create, update, delete a chat; add, remove, re-role a member; send, edit, delete a message | one membership per user and chat, owners stay, senders are members, deletions are final, no row without its chat |
| WebSocket manager and handler (`websocket/`) | sockets per room and per user; one handler coroutine per socket | connect, join, leave, typing, read receipt, presence, ping, disconnect | nothing is left of an ended handler, a live one stays registered, broadcasts reach the room |
| Authentication (`auth/`) | users; tokens are stateless | register, login, refresh, logout (no effect), `get_current_user` | one account per e-mail; an ended session is over |
| Notifications, read receipts, files, users API | single rows; MinIO objects | mark read, upload, download, edit profile | flags are only set; no interplay |
| Service layer (`services/`) | none | a second copy of the handlers' queries, not called | - |
| Client session (`session_manager.cpp`, `custom_api.cpp`, `rest_client.cpp`, `karagram_backend.cpp`) | tokens in memory, in the REST client and in `karagram_session.json`; calls in flight | initialize, shutdown, login, refresh, logout and their replies | the file is the session, logout is final, a restored session works |
| Client WebSocket (`websocket_client.cpp`) | socket, kept token, reconnect timer and delay | connect, disconnect, connected, disconnected, timeout | reconnects what is lost, and only that |
| Updates engine (`api_updates.cpp`, `data_pts_waiter.cpp`) | `_good`, `_last`, `_count` and the queue of a `PtsWaiter`; `_updatesSeq`, the messages kept by seq, two timers, the request in flight | receive, apply, find a gap, ask for the difference, retry | nothing between the positions asked from is skipped; what was heard of is made up for |
| Requests about a chat (`data_histories.cpp`) | per history: requests sent and postponed, what is read and to be read; entries asked for | send, cancel, postpone, finish, read, refresh the entry | no part of a history during a deletion; readings grow and arrive; entries arrive |
| Local storage (`storage_file_utilities.cpp`) | queue and schedule of the writing thread; three variants of each file | write, write and wait, sync, read; crash | a reader finds a complete file that never goes back |
| Datacenter keys (`mtproto/details/mtproto_dcenter.cpp`, `session_private.cpp`, `session.cpp`, `mtp_instance.cpp`) | persistent and temporary keys, flags of their creation; per session the key it uses, the creation and the binding at work | connect, acquire the creation, create, bind, release, lose, forget, save | one creator per key; temporary keys belong to the present persistent one; each session gets a key |
| Client adapters, first-generation client, the rest of Telegram Desktop | - | - | see section 6 |

### Interactions

The client calls REST handlers (one coroutine and one database session per
request) and holds one WebSocket. The handlers share the database; the WebSocket
handlers share the `ConnectionManager`, in one process on one event loop.
Nothing in the REST handlers calls the manager. In the client everything runs on
the GUI thread: calls, reply callbacks, socket and timer signals; the parts share
the tokens, of which the session, the REST client, the WebSocket client and the
file each have a copy. The inherited parts meet through their callers only
(answers to requests of `Data::Histories` carry a pts for the updates engine: the
"affected" messages of `PtsUpdates`), so each is a model of its own.

### What is hard

* Every handler checks in one statement and writes in another, under READ
  COMMITTED and without locks, and decides on attributes that its session may
  have loaded as early as `get_current_user` (`lazy="selectin"`).
* `broadcast_to_room` and `send_personal` await inside an iteration over live
  sets.
* REST replies arrive in any order and are applied without looking at what has
  happened since; the process may end, or crash in the middle of a save.
* The reconnect timer repeats, and cannot tell a loss from a requested end.
* Updates are lost, delayed, reordered and dropped while a difference is asked
  for; one timer serves several causes.
* Answers about a chat come in any order, and handlers assert what the maps hold.
* The files of the local storage are replaced in steps, in another thread, each of
  which may fail unnoticed; the main thread reads meanwhile, and the program may
  crash between any two.
* Each MTProto session has its own thread; they share a `Dcenter` whose assertions
  are made outside of its lock, and tell the main thread of changes later.

The list of hazards, each at its line, is in `PROJECT.json`.

## 2. Modules

| Module | Models | Composition |
|---|---|---|
| `ChatBackend` | the nine handlers that change `chats`, `memberships`, `messages` | - |
| `WsManager` | `ConnectionManager` and the handler coroutines | - |
| `WsClient` | `WebSocketClient` with its `QWebSocket` and `QTimer` | - |
| `ClientSession` | session, REST calls, storage, start and end of the process | EXTENDS `WsClient` and drives it: its actions call `ConnectToServer` and `Disconnect` |
| `PtsUpdates` | `PtsWaiter` and the common half of `Api::Updates` | implements `Replica` |
| `Replica` | abstract: a replica of the server's log, with a position that never passes an unseen event | - |
| `Histories` | `Data::Histories` | - |
| `TdfStorage` | the `WriteManager`, its thread, `writeNow`, `ReadFile` | implements `DurableCells` |
| `DurableCells` | abstract: cells whose value on disk is complete, moves forward and is confirmed | - |
| `DcKeys` | the keys of one `Dcenter` and the sessions that share it | - |
| `MC*` | instances for TLC | |
| `ChatBackendProofs`, `WsManagerProofs`, `ClientProofs` (for `ClientSession` and `WsClient`), `PtsUpdatesProofs`, `HistoriesProofs`, `TdfStorageProofs`, `DcKeysProofs` | theorems | each EXTENDS the module it is about |

### ChatBackend

A request in slot `p` is `req[p]`. `Begin` is `get_current_user`, with the
arguments chosen from the constants; `LookupChat`, `LookupCaller`,
`LookupTarget` and `LookupMessage` are the SELECTs with the checks that follow
them; `CreateChat` and the `Commit...` actions are the rest of each handler up to
its commit. Between two of them any other request may run. `DatabaseFails` may
end a request at any await. A check that fails ends the request with its status
code (`Reply`).

A SQLAlchemy session returns an object it holds with the attributes of the first
load, and writes only columns that differ from the loaded value. `roles`, `old`
and `oldTitle` of a request are what its session holds of the rows the request is
about (`update_chat` loads the memberships of the chat with it, by `selectin`, and
so the caller's role before its own SELECT); `hadMembers` is whether the ORM will try to null the children's `chat_id`
when the chat is deleted. These rules, and the foreign keys of PostgreSQL, are
marked external or mapped to the model classes that declare them.

Left out: read-only handlers, descriptions, avatars, message types and
`reply_to_id`, inactive users (the token check is part of `Begin`, and a refused
request changes nothing).

### WsManager

`rooms` and `conns` are the two dictionaries of sets, `roomKeys` and `userKeys`
their keys (room keys are never deleted; a user's is, when its set becomes
empty). A handler is a record with a program counter; while it is inside a
broadcast, `it` is the suspended iteration: the set as it was, the sockets sent
to, the socket whose send is awaited, the failed ones. `Advance` is the code from
one await to the next. Python's set iterator raises when the size has changed;
when the set has been changed and has its old size again, elements may be missed
or met, so the iteration may end or go on. An exception in the loop disconnects
the handler's own socket (`Raise`); `Leave` and `Goodbye` are the
`except WebSocketDisconnect` clause. A send fails only if the receiver is gone,
and need not fail even then. Events that a client sent before it went may still
be read.

Left out: payloads; `typing` and `read_receipt` are one action, as they differ in
the payload only; a read receipt without message id and a presence event of a
user without an entry have no effect.

### WsClient and ClientSession

Each slot and each call is one action. `sock` is what the signals of `QWebSocket`
tell: `open()` on a live socket drops it silently, a failed attempt and every end
give `disconnected`, after `close()` too. `timer` is the interval of the repeating
timer, 0 when stopped; `delay` runs through the real values 1000, 2000, ... 16000,
30000. `wanted` is history: the last call of the owner was a connect.

In `ClientSession` an access and refresh token always travel together and are one
number, in the order of issue. `calls` counts the logins and refreshes in flight;
`TokensReply` and `ErrorReply` answer any of them at any time. `Initialize` reads
the file twice, as the code's two `SessionManager`s do. `CrashInSave` is a process
that dies after `saveToStorage` has truncated the file. Loads, saves and removals
may fail, which the code does not notice: `missed` is history, the last of them
failed. `ended` is history, the session there was when the process last ended, and
`out`: logged out and not logged in since. `checkTokenExpiry` emits a signal
without receivers and is left out. `RefreshToken` and `ConnectWebSocket` are public
calls of the API; apart from `connectWebSocket` in `initialize` the repository has
no caller of them, so they are never assumed to be called.

### PtsUpdates

The server raises pts by the count of each event and may number a push with a
seq; `Lose`, and the free choice of the message received next, are the network.
A message is a push, the updates in an answer, or an "affected" answer, which only
tells the pts of something the caller has applied. `good`, `last` and `count` are
the fields of `PtsWaiter`, `queue` what came too early, `waiting` and `ptsTime`
its timer as `Updates` keeps it. `Check` is `PtsWaiter::check`; `GetDifference`,
`Answer`, `AnswerDone`, `RequestFails` and `RetryAfterFail` are the request and
its ways to end, a slice included. After `updates.differenceTooLong`, and after a
failed `updates.getState`, the code does nothing more and leaves `_requesting` set:
`request` is "stuck". `UpdatesTooLong` is the push that only says that there is too
much. An update of count 0 that is counted stops the timer of a gap; `silent` is
history: such a one was counted last. `setState` replays messages kept for their seq
in a loop that re-enters `applyUpdates`: `Drain` is one turn, and nothing else
happens while there is a next one. `applied` is history: what the events were.
Under `position <- good`, every step is one of `Replica` or a stutter. Left out:
updates that announce a forced log-out, which are looked at also while a difference
is requested, and end the session.

### Histories

`states[h]` is the `State` of a history, `pending` and `dialogs` the two maps of
`requestDialogEntry`, `batches` the requests for entries in flight, `calls` the
postponed calls of `sendDialogRequests`. A request is its number, its type and,
for a reading, the id; `SendRequest` stands for the callers of `sendRequest`,
`ReadInboxTill` and `ReadTimer` for those that read.
`Finish` and `ReadFinished` are the answers, with all that `finishSentRequest`
does after them; the deletion of a channel has none, since its handlers never call
`finish()`. `ReadElsewhere`, with the entry it asks for, is `inboxRead`.
`DialogsDone` begins the loop over the entries of an answer: `ApplyEntry` is one
turn of it, `Callback` what `readInbox` has asked to be called, which reads and so
comes back into the module, and `Settle` a turn whose callback is done; nothing
else happens before the loop has ended. Times are choices: the timer may find any
set of readings due.

### TdfStorage

A file has the variants 's', '0' and '1'; contents are numbered; `Torn` is a file
that was opened for writing and not finished. At the start a file is an 's' or, if
it is among `Old`, a '0' or '1'. `Write` and `SyncAll` are the main
thread, which is `blocked` while it waits; `TakeJob` and the steps of `writeNow`
(`Commit`, `DropSimple`, `DropOld`; after a failed commit `Open`, `WritePlain`,
`DropBackup`, `Rename`) are the thread, one per operation on the disk. Each of
these operations may fail: `CommitFails`, `OpenFails` (the write is given up),
`ShortWrite` (what there is gets renamed all the same), `RenameFails` (after which
`DropSafe` removes the good file), `RemoveFails`. `ReadLooks` and `ReadRemoves` are
a reader in the main thread where it changes something: it finds a '0' and a '1'
and removes the one it has not read, while the thread goes on. That it looks at
both in one step is an abstraction; between looking and removing the thread may do
anything. `Crash` may come between any two steps.

`broken` is history: the files whose only copy is being truncated, or whose last
write was given up, until the last content handed over is on the disk as 's'. Under
`durable <- ReadFile` every step is one of `DurableCells`, where a file may become
broken only with the second failure, or with the first if it is in an old form.

### DcKeys

`sess[x]` is the part of `SessionPrivate` and `Session` that is about keys. Calls
of the `Dcenter` are atomic; `checkAuthKey`, which makes several, is three actions,
and a session that has changed the keys (`BindDone`, `DestroyTemporaryKey`) has a
`report` to queue for the main thread, which `TellMain` does later: the code queues
it after the lock of the `Dcenter` is released. The thread does nothing else in
between (`Runs`), and a kill waits for it (both hold the owner's mutex).
`AcquireKeyCreation` and `ReleaseKeyCreationOnFail` are the functions of those
names, `DestroyTemporaryKey` is the whole of `destroyTemporaryKey`. The server
answers a binding by what it knows when it is asked, and the session handles the
answer later; in between, other sessions and the main thread run. `main` and
`todo` are the queues of calls between the threads. Faults (a failed creation or
binding, a lost connection, a revoked or forgotten key, a change of the addresses,
a killed session) are chosen from `FaultPlans`, and each happens once. Left out:
sessions that are stopped and started again (`Session::stop`, `start`), whose
connection starts anew, and the age below which a persistent key is not believed to be lost
(60 s), which is a choice.

## 3. Runs

Passing runs:

| Run | Shows | Bounds |
|---|---|---|
| `backend` | `TypeOK`, `ForeignKeys` (`delete_chat` against all that inserts children), `SenderWasMember`, `DeletedTextIsBlank`, `NothingComesBack`: late commits revive nothing | 2 requests of all nine operations, 2 users, 1 chat, 2 membership rows, 1 message, a role that does not exist included |
| `ws` | `TypeOK`, `NoGhost`, `StaysRegistered`, `PersonalKeyPresent`, `GoneIsForgotten` | 2 sockets of one user, 2 rooms, 2 suspended broadcasts |
| `session` | `TypeOK`, `RestoresSession`, `RestTokenIsSessions`, `NeverStranded`, `TriesAgain` | 3 token pairs, 2 logins and 2 refreshes in flight, all delays |
| `updates` | `TypeOK`, `RequestingEnds`, `GapIsWaited`, `KnownIsCovered`, and `FollowsTheLog`: `PtsUpdates` implements `Replica` | pts up to 3, seq up to 2, counts 0 to 2, 2 messages on their way (one of them with count 0), 1 failure or new session |
| `histories` | `TypeOK`, `PartsWaitForDeletion`, `ReadingsGrow`, `EntryIsAwaited`, `EntryArrives`, `ReadIsSent` | 2 chats, one of them read and the other a channel that may be deleted, 3 ids, 3 requests, 1 refresh from outside |
| `storage` | `TypeOK`, `WritesArrive`, and `KeepsThePromise`: `TdfStorage` implements `DurableCells` | 2 files, one of an older version, 3 writes, 1 crash, 3 operations that fail |
| `dc_keys` | `TypeOK`, `CreatorHasLock`, `BoundToCurrent`, `SavedIsCurrent`, `GetsKey` | 2 sessions, one for downloads, 5 plans of 1 or 2 faults |

Violations, each a disagreement between the code and what the repository says:

| Run | What happens |
|---|---|
| `backend_duplicate` | two `add_member` calls for the same user both pass "Already a member" and insert (`OneMembershipEach`); no lookup of this membership succeeds any more |
| `backend_owner` | `remove_member` loads a plain member, who is then made an owner, and deletes the owner's row (`OwnerNeverRemoved`) |
| `ws_broadcast` | a join or leave during a broadcast raises in the iteration: members are skipped, the sender is disconnected |
| `session_late_reply` | the reply to a login sent before `logout()` brings the session back |
| `dc_keys_lock` | a binding that succeeds after the persistent key was forgotten leaves the flag of the creation set, with nobody creating: `releaseKeyCreationOnDone` returns before it resets the flag, and the session no longer knows that it held it |

More disagreements were met while modelling and have no run of their own:

* `create_chat` inserts a row for each id in `member_ids`; a user named twice breaks
  `OneMembershipEach` without any interleaving (`MaxRepeat = 2`).
* The creator cannot delete a chat that has members, itself for one, although
  API.md offers it: the children's `chat_id` is NOT NULL and nothing cascades.
* The reconnect timer repeats after a successful connect and drops the connection
  it has made.
* A session restored at start reaches the WebSocket and not the REST client.
* `logout()` disconnects the WebSocket, `onDisconnected` starts the reconnect
  timer all the same, `_token` is kept, and a second later the client is connected
  again with the token of the session it has left.
* `tokenRefreshNeeded` and `tokenExpired` are connected to nothing, and nothing
  calls `refreshToken()`: the session ends with its first access token. The kept
  `_token` of the WebSocket client is then refused at every attempt
  (`handler.py:16-19`), so that `TriesAgain` is all that holds: it tries for ever.
* An update of count 0 that comes during a gap is applied and stops the timer of
  the gap (`data_pts_waiter.cpp:53`), against "1s wait for skipped seq or pts in
  updates" (`data_pts_waiter.h:23`): the exception of `GapIsWaited`. The next
  update with a count makes up for it; the no-updates timer only sends a ping.
* After `updates.differenceTooLong` (`api_updates.cpp:518`) and after a failed
  `updates.getState` the flag `_requesting` stays set and nothing is to come, so
  that every further update is dropped until the program is started again: the
  exception of `RequestingEnds` and `KnownIsCovered`.
* Deleting a channel never calls `finish()`; after an error the chat stays blocked,
  the exception of `EntryArrives`.
* Two failed operations in the writing of a file lose the write or the file, with
  neither checked: a short write is renamed over the good file, a failed open
  gives the write up, and after a failed rename the good file is removed. A file of
  an older version that is a '0' is truncated after the first.
* A session thread that has set a new persistent key and not yet said so may be
  overtaken by a report that this key is lost; the main thread then forgets the
  key and, with the report that comes too late, saves it. The dead key stays in
  the file, even when another has been made meanwhile: the exception of
  `SavedIsCurrent`. As reports of keys younger than 60 s are not believed, it takes
  a thread that is held up that long between two statements.
* A session that reconnects with a key it still has, after that key was dropped
  for all, acquires the creation of a new one and does not start it until the
  server rejects the old key; and the sessions that wait for a key are not told
  when the session that creates it is killed. `GetsKey` is therefore stated
  for a datacenter without media only addresses in which no session is killed; it
  also leaves out the revocation of the persistent key, after which
  `dc_keys_lock` shows what may happen.

### Why the bounds are enough

The backend properties are about pairs of requests that meet in one row, and two
slots are reused without end; more requests add no new conflict between two
commits, and the theorems hold for any number. The third membership row, which a
duplicated pair beside an owner needs, is in the violating runs only. In `WsManager` `MaxRounds = 2` lets two broadcasts overlap,
and two rooms a goodbye go on after a room. A set that changes and has its old size
again needs three sockets (one leaves, one comes, one iterates): `ws` has two, and
only `ws_broadcast`, with four, meets it; with three sockets the space is beyond a
run of a few minutes. The theorems on the four safety properties of `ws` hold for
any number of sockets, users, rooms and broadcasts. In `ClientSession` two calls in flight of each kind
give every order of replies around a logout; the third token is the one that
replaces the second.

In `PtsUpdates` two positions beyond the first hold a gap and an event after it, an
event of count 2, and one of count 0 at any place; two messages on their way come
in both orders. In
`Histories` a deletion, a part of the history and a reading are the three requests
that meet; the second chat shares the timer and the batches, and may be deleted as
a channel. In `TdfStorage` two
asynchronous writes and a synchronous one of the same file are the race of the
schedule; the second file is what a write can be overtaken by. Three failures are
those that end one write (a failed commit and one of the fallback's steps) and one
in the next, which has to mend the file. In `DcKeys` one session creates
while the other connects, waits or is killed; the pairs of faults are those of
which the second follows from the first or races with it, and the theorems hold
for all.

Every bound is a constant: sets of ids, `MaxRepeat`, `MaxRounds`, `MaxToken`,
`MaxCalls`, `MaxPts`, `MaxSeq`, `MaxNet`, `Faults`, `MaxId`, `MaxRequests`,
`MaxEntries`, `MaxWrites`, `MaxCrashes`, `MaxFailures`, `MaxKeys`, `MaxReports`,
`FaultPlans`. Symmetry is used in the safety runs only, over ids that the
specification treats alike.

### Deadlock

`WsManager` may stop: every socket is used once and its handler returns
(`CHECK_DEADLOCK FALSE`). So may the four inherited parts, which rest when
nothing is asked of them and the bounds are used up. In the others deadlock is
checked.

### Fairness

* `WsManager`: weak fairness of each handler's own steps: the event loop runs
  every coroutine that can go on, and a send ends or fails. Strong fairness of
  `Disconnected`: a client that is gone has sent finitely many events, so the
  receive that raises comes in the end. Clients owe nothing.
* `ClientSession`: weak fairness of the timeout: a running `QTimer` goes off. The
  network and the server owe nothing, so that `TriesAgain` promises attempts and no
  connection.
* `PtsUpdates`: weak fairness of the timers, the retry, the answers and the loop
  of `setState`. The network owes nothing: messages may all be lost. Requests fail
  at most `Faults` times, as `KnownIsCovered` needs a request that succeeds.
* `Histories`: weak fairness of the timer, the postponed calls, the answers (an
  error is an answer) and the loop over the entries of one. The deletion of a
  channel is never answered.
* `TdfStorage`: weak fairness of the thread. The reader owes nothing.
* `DcKeys`: weak fairness of each session's steps, those of the server it is
  connected to included, and of the main thread. Faults are finite.

## 4. Proofs

TLAPS proves every safety property of the passing runs, invariants, action
properties and the two refinements, for every value of the constants. Each inductive invariant was checked with TLC on
the instance of the component's run before it was proved.

| Theorem | Argument |
|---|---|
| `TypeCorrect`: `Spec => []TypeOK` (ChatBackend) | `TypeInv` adds to `TypeOK` what the steps before a commit have established of a request (`RequestOK`): a message operation has an existing id and, when ready, loaded columns; a ready `add_member` or role change has a real role. Without it a commit could store what a client made up. |
| `NothingComesBackHolds`: `Spec => NothingComesBack` | from `TypeInv`, one case per action; a write of changed columns can only set the two flags because no handler sets one to false |
| `SenderWasMemberHolds`: `Spec => []SenderWasMember` | `SenderInv` adds that the caller of a `send_message` that has passed its check was a member; this survives the removal of the row because a row that was inserted is never free again (`MembersStay`, from the previous theorem's lemma) |
| `ForeignKeysHold`: `Spec => []ForeignKeys` | `KeysInv`: a live row names a chat id whose chat is live. `KeysKept` reduces each commit to two questions: does it delete a chat that a row names (`delete_chat` looks again when it commits), and does it add rows only to chats that are there |
| `DeletedTextIsBlankHolds`: `Spec => []DeletedTextIsBlank` | `TextInv` says what an old version of the columns still tells of the row (`OlderVersion`): an edit mark seen is still there, and a text seen blank is blank unless the message is marked as edited since. The first makes an edit always end with the mark, the second makes a deletion that finds the text already blank, and so does not write it, harmless |
| `SessionInvariant`, `TypeCorrect`: `Spec => [](TypeOK /\ NeverStranded)` (ClientSession) | inductive together: the delay is at least 1000, so that `onDisconnected` really starts the timer, and the tokens the session hands over are not empty. Each step of the session is a call, a slot, a stutter or a reset of the WebSocket client, for each of which there is a lemma |
| `RestTokenIsSessionsHolds` | strengthened by: a process that is not running has no REST token, so that the session loaded at the next start cannot meet an older one |
| `RestoresSessionHolds`: `Spec => RestoresSession` | `FileInv`: as long as no operation on the file has failed and no save was cut short, the file of a running process holds its session, and that of an ended one the session it ended with |
| `TypeCorrect`, `NoGhostHolds`, `StaysRegisteredHolds`, `PersonalKeyPresentHolds` (WsManager) | one invariant, `WsInv`. `OneUserEach` (a socket is in its own user's set only) is what makes one `disconnect` enough for `NoGhost`; `PassOK` says of each broadcast that the sockets it will remove are gone (for `StaysRegistered`), and that its user has a key unless the set was dropped under it (for `PersonalKeyPresent`). The lemmas are the two kinds of steps, a handler that goes on (`MoveStep`) and `disconnect` (`DisconnectStep`); `AdvanceStep` reduces every turn of a broadcast to them |
| `CreatorHasLockHolds`: `Spec => []CreatorHasLock` (DcKeys) | `KeysInv`: with the types and `Binding`. A session with a persistent key to bind to is a creator whose key in use was made for it; one that creates a persistent key finds none in the `Dcenter`. The lemmas are the kinds of steps (a session that neither takes nor gives back a creation, one that acquires, one that gives up), and each action is an instance of one of them |
| `BoundToCurrentHolds`: `Spec => []BoundToCurrent` (DcKeys) | from the same `KeysInv`. The only step that stores a key, `BindDone`, needs all of it: the key is bound to `binder`, which is the persistent key or becomes it; in the second case there was none, hence no other temporary key, and `CreatorHasLock` excludes a second creator |
| `TypeCorrect`, `SavedIsCurrentHolds`: `Spec => []SavedIsCurrent` (DcKeys) | `SavedInv` adds to `KeysInv` what the main thread has not handled, queued or still to be queued (`Pending`). `Losses`: only destroyed keys are reported, or about to be reported, as destroyed. `Told`: a pending new persistent key is that of the `Dcenter` or lost, and that of the `Dcenter` is saved or pending, unless the saved one is lost. When `BindDone` stores a new key there was none, so that all that was pending is lost; when the main thread forgets one, `Losses` says the same |
| `TypeCorrect`, `StorageKeepsThePromise`: `Spec => KeepsThePromise` (TdfStorage) | `StorageInv`: some variant of each file that is not broken is complete at every step of `writeNow` (`Readable`, from `OnDisk` and `StepDone`); it is in the fallback only with a failure to blame (`Blamed`), and a reader removes no copy that is needed (`ReaderSpares`); contents reach the disk in the order they were handed over (`InOrder`); nothing handed over is forgotten (`Kept`); and the main thread waits for the last job it queued (`WaitsForLast`), so that what it waits for covers what it has written. Each step is then one of `DurableCells` under `durable <- ReadFile` |
| `TypeCorrect`, `RequestingHasAnEnd`, `UpdatesFollowTheLog`: `Spec => FollowsTheLog` (PtsUpdates) | `UpdatesInv`. The events of the log take disjoint ranges of pts; `Counted`: `_count` is `_good` plus the number of values of pts taken by what was received since. So when `_count` reaches `_last` these values fill the interval and `_good` may move to `_last`: the counting argument behind `PtsWaiter`, with the cardinality theorems of the library |
| `GapsAreWaitedFor`: `Spec => []GapIsWaited` | from `UpdatesInv` and, as the queue of a `PtsWaiter` keeps nothing while its timer is stopped, inductive with it |
| `TypeCorrect`, `PartsWait`, `ReadingsOnlyGrow`, `EntriesAreAwaited` (Histories) | `HistoriesInv`. A reading in flight is at most `sentTill` or, once that is forgotten, behind what is known to be read, and always behind what is still to be read (`Readings`, `Beyond`): the assertions of `sendReadRequest` and its answer need both halves. No more request numbers are in use than requests were made, so that a free one is found. For the entries the invariant follows the loop of an answer: what is still to be applied counts as awaited, and a callback to come belongs to an entry asked for or being settled |

The assumptions are those named in the modules: registered users are among the
ids a client may name, the absent value is no user, tokens are positive numbers,
bounds are naturals, the chats are finitely many, chats that are read and channels
are chats, files of an older version are files, and downloading sessions are
sessions. The bounds themselves are arbitrary in the proofs, as are the
numbers of requests, rows, sockets, chats, files, failures and sessions and the
plans of faults.

Only model-checked are the liveness properties (`GoneIsForgotten`, `TriesAgain`,
`KnownIsCovered`, `EntryArrives`, `ReadIsSent`, `WritesArrive`, `GetsKey`), which
are out of the prover's reach with their fairness; and, being refuted, the
properties of the violating runs.

## 5. Plan

1. Prove more about what the liveness properties rest on: that a step which must
   come is never ruled out for good (a queued write has a job at work or a tick to
   come, a session that waits for a key has a creator), as invariants.
2. Model more, where a question is worth a run: offset paging while messages
   arrive, the unique keys under concurrent `register`, a timed `WsClient` for slow
   handshakes, the waiters of channels, the acknowledgement and resending of
   MTProto messages.

## 6. Not modelled

* `register`, `login`, `refresh`, `logout` of the server: tokens are stateless,
  `logout` does nothing; `register` has one race, on the list of hazards.
* Notifications, read receipts, profile and file handlers: single-row or
  object-store operations that do not interact; nothing creates notifications.
* `services/`: not called by any handler.
* Client adapters, file transfer: stateless, or a single flag.
* The first-generation `Custom::` classes: not built.
* Of the updates engine: the waiters of channels, the qts and date of the state,
  and what an update means to the data. Of `Data::Histories`: forum topics,
  delivery reports, folders. Of the storage: encryption, and the choice and
  clearing of keys. Of the datacenter: the key exchange, CDN datacenters, requests,
  stopped sessions, and the destruction of old keys.
* The rest of Telegram Desktop: more than a million lines, most of them user
  interface, media and data model; the four parts above were taken for the
  protocols they hold, and no larger share of the program is within a model's reach.
* Vendored libraries, migrations, deployment.
