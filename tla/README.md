# A verification development for fourinarow-server

TLA+ models of the server's core logic, model-checked with TLC and, where it says so, proved with
TLAPS. All paths below are relative to the repository's root, `src/` in this tree; the Rust sources
are in its own `src/` directory, so `game/lobby.rs` below is `src/src/game/lobby.rs` here.

## 1. The system

The server is one process of actix actors (each handles one message at a time from a FIFO mailbox)
and an HTTP API over a PostgreSQL database. A client keeps a WebSocket open; over it runs a small
reliability layer, and above that a text protocol for lobbies, a game of four in a row, chat, and
JSON messages for minigames.

```
 client == WebSocket == ClientConnection --> ClientAdapter --> ClientState --> Lobby x 2 players
                            |   ^                                |   |          |
                            v   | Connect/Disconnect/Close       |   v          v
                        ConnectionManager <-- BindUser/Unbind ---+  LobbyManager
                                                                 v          |
                                                             UserManager <--+ PlayedGame
                                                                 |
                                                     PlayerRepository, collections --> PostgreSQL
```

| Component | State | Operations | Hard behaviour | What makes it correct |
|---|---|---|---|---|
| Reliability layer: `ClientAdapter` | ids, queue of early client messages, queue of unacknowledged server messages, the socket | receive MSG/ACK, send, re-send every 250 ms, park while disconnected, give up after 16 retries | loss, duplicates, reordering, reconnection, notifications handled later | in order, once, nothing lost that was acknowledged |
| Connections and presence: `ConnectionManager`, `ClientConnection`, `ClientState` | sessions by ws token, user to session, socket states | HELLO, reconnect, disconnect, 30 s timeout, bind, unbind, login, logout | old and new connections of a user, messages that cross, dead sockets | a session in use is not timed out; a user on line is known as such; sessions end |
| Lobbies: `LobbyManager`, `Lobby`, `ClientState` | the lobby on offer, private and closed lobbies, the lobby's players, each client's seat | create, match, join by id, ping and pong, leave, timeouts, battle requests | every pair of those in both orders | one joiner per offer, agreeing seats, nobody left in an ended lobby |
| Board: `GameInfo` | field, turn, winner | `place_chip`, `check_win`, `reset` | scan boundaries | who completes four wins, nobody else |
| Games of a lobby | winner, rematch request, settlements under way | moves, rematch, GameStart, PlayedGame, settlement | late moves, repeated requests, duplicate settlements | mutual rematch, each game recorded once |
| Player repository | cached aggregates (dirty, version), database rows, idempotency keys, ledger | flush, reload, purchase, rewards, settle | await between read and write, partial failure, crash | nothing dirty lost, no flush undoes a transaction |
| Accounts: `UserManager`, `UserCollection` | users, identities of platforms, sessions | register, login, platform login | chains of single statements, two at once, broken off | one user for one identity, one name for one user |
| Friends: `UserManager`, `UserCollection` | one row for a pair, cached views of it | request, accept, refuse, remove | decisions on a cached view, invalidation that crosses a read | friends have both asked |
| Quests, inventory, invites, levels, inbox | rows with a status, stock, ledger | event, purchase, redeem, claim, complete, delete | concurrent transactions, rows that are not there to be locked | nothing without a reason, nothing twice, limits kept |
| Minigame tasks | best stars, daily plays, sign-in row, claims, rounds | score, sign in, claim | read, then write; midnight | rewards were earned, rounds in order |
| Minigame configuration | versions, the pointer to one of them | draft, publish, roll back, serve | a client reads twice, an administrator acts in between | what is announced is published, and no version changes |
| Activity log | mailbox, buffer, batches | record, flush, shutdown | bounded mailbox, failing batches, exit | no event is written twice |
| Leaderboards, chat, notifications, feedback, HTTP, start-up | single rows | single statements | little | - |

`PROJECT.json` lists every component with its state of modelling, and under `hazards` what is hard to
test in this code, each at its line, with the properties that cover it.

## 2. The modules

| Module | Models | Checked by |
|---|---|---|
| `InOrderChannel` | the promise of the reliability layer, as an abstract specification | refinement |
| `ReliabilityLayer` | `game/client_adapter.rs`, both directions | `Reliability`, `ReliabilityLive` |
| `ReliabilityLayerProofs` | theorems about it | TLAPS |
| `Matchmaking` | `game/lobby_mgr.rs`, `game/lobby.rs`, the lobby part of `game/client_state.rs` | `Matchmaking`, `MatchmakingLive`, `MatchmakingWaiting` |
| `MatchmakingProofs` | theorems about it | TLAPS |
| `GameInfo` | `game/game_info.rs` | `LobbyGame` |
| `LobbyGame` | the handlers of a lobby with two players, on the board of `GameInfo`; the record of a settlement | `LobbyGame`, `LobbyGameRematch` |
| `LobbyGameProofs` | theorems about `GameInfo` and `LobbyGame` | TLAPS |
| `Presence` | `game/connection_mgr.rs`, `game/client_connection.rs`, login and logout of `ClientState`, StartPlaying and StopPlaying of `UserManager` | `Presence`, `PresenceShared` |
| `PresenceProofs` | theorems about it | TLAPS |
| `PlayerRepository` | `player/repository.rs`, `player/aggregate.rs`, `claim_inbox` of `database/inbox.rs`: the cache and the operations around their transactions | `PlayerRepository`, `PlayerStats` |
| `PlayerRepositoryProofs` | theorems about it | TLAPS |
| `Requests` | what the request handlers share: users and the futures that serve them | `Services` |
| `Friendships` | `UserAction` and `GetUserMe` of `api/users/user_mgr.rs`, `database/friendships.rs`, the user cache of `database/users.rs` | `Services` |
| `Accounts` | registration, login and logout in `api/users/user_mgr.rs`, the platform login in `database/users.rs` | `Services` |
| `UsersProofs` | theorems about `Friendships` and `Accounts` | TLAPS |
| `MinigameTasks` | `api/minigame_tasks.rs`, `database/minigame_tasks.rs`, submit_score of `api/minigame_leaderboard.rs` | `Services` |
| `MinigameConfig` | `api/minigame_config.rs`, `database/minigame_config.rs` | `Services` |
| `MinigameProofs` | theorems about `MinigameTasks` and `MinigameConfig` | TLAPS |
| `ActivityLog` | `logging/activity.rs`, the shutdown in `main.rs` | `Services` |
| `Rewards` | the transactions of `player/repository.rs`, and `database/inbox.rs` | `Services` |
| `ServicesProofs` | theorems about `ActivityLog` and `Rewards` | TLAPS |
| `MC...` | the instances: model values, symmetry, bounds; `MCServices` puts the seven request modules into one run | |

`PROJECT.json` maps each definition to its lines. Definitions keep the names of the source. A
definition described as *a mistake* is not the code: it is a plausible bug, kept beside the definition
it alters, to show that a property would notice it.

### ReliabilityLayer

The variables of the adapter are its fields; `ctx.notify` of a packet is a member of `notified_msgs`
or `notified_acks`, handled by a later action in any order. The link is sets of packets: reading does not
remove, so packets are duplicated and reordered, and `Lose` removes. `RecvMsg` has three cases (the
next id, an id beyond a gap, a known id), `Transmit`, `GiveUp` and `Park` are what becomes of a notified
server message. The retry limit is a constant. The client is the peer the code expects and is not in
the repository.

Upward: a gap filled releases the run behind it (`Payload`, `ProcessedUpTo`), which is `process_queue`
with its drain and refill. Downward: the queue is emptied and refilled by the re-send interval, a lost
acknowledgement causes a second transmission, and disconnection parks messages without counting a retry.

### Matchmaking

Mailboxes of LobbyManager, of each Lobby and of each ClientState are sequences. A message of a player is
handled when it is sent, since nothing orders it against the rest. The ids of private games may be
drawn again. A lobby's state is a record with its kind, id, host, joiner and status; a timeout may fire
as soon as it is set. Three handlers end a lobby and do not say so alike: `CloseLobbyMsg` is sent when a
player leaves, and not when a timeout ends it.

### GameInfo and LobbyGame

Each of the code's four scans is a sequence of cells with a count of equal chips; the model says which
sequences those are (`Diagonal`, `AntiDiagonal`, `Columns`) and what ends a run (`RunEnds`). Two things
about them are visible in the model and named in the properties: a line that rises to the right into
the top row is not scanned (`Unseen`), and chips at the bottom of one column and the top of the next
count as neighbours (`OverTheEdge`). `FourIsFound` and `WinnerHasFour` say that these are the only
deviations from the definition of a line by its cells.

`LobbyGame` extends the board with what the lobby's handlers do around it. A move on a board that is won
is accepted by the code, judged again, and sent on again as `PlayedGame`. `FirstStart` and `Rematch` are
the two ways GameStart is handled; what an actor has notified itself is handled together.

### Presence

A session is named after the socket that created it. Mailboxes are sequences, and UserManager's futures
are a set of tasks with a read step and a write step, which run concurrently. The end of a session
passes through four actors (ConnectionManager, ClientAdapter, ClientState, ClientConnection), each in a
step of its own. LOGIN blocks ClientState until UserManager has answered.

### PlayerRepository

The cache is shared by the request threads, UserManager's futures and the flush worker, and no guard is
held over an await. Each operation is therefore a list of steps (`SettleGame`, `Purchase`, `CompleteLevel`,
...), and every step is an action: one access to the cache, one statement, or one transaction. Loading reads
assets and statistics in two statements. A flush copies the entry (`Snapshot`), writes bucket after
bucket (`SaveBucket`, `SaveFails`) and clears what has not changed since it was copied (`MarkFlushed`). Only
the statistics are ever dirty; `NothingWrittenBack` says what depends on that, since `save_bucket` replaces the
whole bucket. Whether writes are deferred is chosen once, by an environment variable.

One operation changes a player's assets and is not the repository's: `ClaimInbox` is a transaction with no step on the cache.
The history variable `bypassed` holds the players whose entry, if any, was loaded before such a commit. A transaction is one
step whose answer arrives; a COMMIT that is executed and answered with an error is left out. The rows of level 0 that
`ensure_mode_progress` inserts, also past the cache, stand for missing rows and are none of `Assets`.

Operations that overlap can lose a count or leave a stale entry: two settlements of one player, or a
`get_readonly` that loads before a purchase and inserts after it. The design accepts the first
and does not speak of the second. The history variable `spoilt` notes that operations overlapped, that an entry was dropped, or
that a settlement or the process failed after a commit; `CountedWhenAlone` says that nothing else
loses a count, `FreshWhenAlone` that nothing else but `ClaimInbox` leaves an old entry, while `NothingWrittenBack`, `NeverCountedTwice` and `MarkedIsWritten` hold in all states.

### Friendships, Accounts

A request is a future: `friend_call` and `login_call` hold, for each, the statement it will execute next and
what it has read so far. `CallArrives` finds the cached view or goes to the table; `FriendshipsRead` and `CachePut` are
two steps because the code awaits between them; `Decide` follows the match of the handler; `StatementRuns`
executes its statement on whatever row is there by then, with the `WHERE` of the code (`RowAfter`); `Invalidate` drops
the two views. The history variable `asked` records who has ever asked whom. A stale view may make a handler
insert, accept or delete on a row that has changed: `FriendsHaveBothAsked` says that even so nobody becomes
a friend unasked. `ViewIsCurrentWhenAlone` says that a stale view needs two requests under way at once, and `NamesDifferWhenAlone` the
same of two names that differ in case; neither says anything of requests that do overlap.

The platform login looks for an identity, chooses a name, inserts the user, then the identity
(which fails if another login has inserted it first), then opens a session. It may break off between any two; the
user without an identity that then remains is a state of the model.

### MinigameTasks, MinigameConfig, ActivityLog

A sign-in takes its date once, reads the row and writes a streak that follows from what it read; two on
either side of midnight may end in either order. `Value` is the metric of each task (`load_ctx`), `paid` the
rounds that were answered with a reward; an error of `advance_step` is answered like a refusal, so a round can be counted and
not paid. `MinigameConfig` has one transaction for `Publish`, two steps for a
rollback (the target is read without a lock) and three reads of clients: the manifest, the bundle in use,
and any version by its number, drafts included. `ActivityLog` is the actor with its bounded mailbox, its buffer, the batches that tasks are
writing, the timer and the end of `main`.

### Rewards

A transaction begins with reads under row locks (`Locked` names the rows), and ends with a commit that writes all of it
or a rollback. A row that is not there cannot be locked: two first events of a player both find no
quest row. For a story quest the insert of the second fails on the key; for a daily one it does nothing (`ON
CONFLICT DO NOTHING`) and the event is not counted, which `QuestsCountEvents` takes into account. The ledger is a set of entries with their reason, and
`LedgerBalances` compares it with the inventory.

## 3. What the checks show

| Run | Bounds | Shows |
|---|---|---|
| `Reliability` | one direction at a time: 3 messages, 2 payloads, 1 queued copy of a packet, 1 retry | `TypeOK`, `NoPlayerMessageLost`, `NoServerMessageLost`, `QueuesAreSound`; each direction implements `InOrderChannel` |
| `ReliabilityLive` | 2 messages in one direction, 1 retry | `IssuedIsForwarded`, `SaidIsReceived` |
| `Matchmaking` | 2 clients, 2 lobbies, 2 ids | `OfferedOnce`, `SeatsAgree`, `NobodyLeftBehind`, `LeftIsUnlisted`, `UpdateIsCurrent` |
| `MatchmakingLive` | 3 clients, 1 lobby, 1 battle request | `JoinerIsReleased` |
| `MatchmakingWaiting` | 2 clients, 1 lobby | a counterexample: see below |
| `LobbyGame` | board 4 by 4, 3 in a row; registered players: 2 games, 1 late move, 6 chips, the last column empty; others: 1 game to its end | `NeverRecordedTwice`, `FourIsFound`, `WinnerHasFour`, `BoardIsLegal`, `RematchIsMutual` |
| `LobbyGameRematch` | board 3 by 3, 2 games | a counterexample: see below |
| `Presence` | 2 sockets, 1 user with 2 api tokens, 2 LOGIN or LOGOUT | `LatestStaysConnected`, `UnbindIsOwn`, `SessionsEnd` |
| `PresenceShared` | the same | a counterexample: see below |
| `PlayerRepository` | 2 players, 2 settlements, 1 key, 3 operations of which 2 overlap | `NothingWrittenBack`, `NeverCountedTwice`, `MarkedIsWritten`, `CountedWhenAlone`, `FreshWhenAlone` |
| `PlayerStats` | the same | a counterexample: see below |
| `Services` | 2 users, 2 requests at a time, one service at a time; 3 names, 1 platform user; 2 levels, 3 days, 3 sign-ins; 3 versions of 2 contents; 4 events, batches of 2, a mailbox of 2; 4 quests, 3 coins, 2 items, 1 use, 3 levels, 3 events | `FriendsHaveBothAsked`, `ViewIsCurrentWhenAlone`, `OneUserPerIdentity`, `NamesDifferWhenAlone`, `StreakWithinTotal`, `RoundsInOrder`, `RewardsWereEarned`, `AnnouncedIsPublished`, `LoggedOnce`, `LedgerBalances`, `LimitsHold`, `QuestsCountEvents`, `MilestonesAreMailed` |

**Why the bounds are enough.** Three messages are the least with a gap, a message beyond it and one that
follows both; one retry separates the first transmission, a retry and giving up. The theorems below
cover all larger values. Two clients and two lobbies give every pair of a lobby that ends and one that
begins; three clients and one lobby give a third player who comes late. On 4 by 4 with three in a row
there are diagonals beside the main ones, and columns longer than a run, as on 7 by 7 with four; both
deviations occur. Two games are the least with a rematch; they and a full board at once are out of TLC's reach, so
registered players play two short games and others one long one (`StepIsBounded` in `MCLobbyGame`), and the proofs below have
neither bound. Three operations of
`PlayerRepository` are two that race and one before or after them; two settlements give the second something
to lose, and two players a settlement that fails between them (four operations, or three at a time, pass as
well and take longer). In `Presence`, two sockets are an old and a
new connection; a third would be needed to see what a second stale connection does, and is out of TLC's
reach with two tokens. `InOrder` (in `MCPresence`) picks one of each pair of behaviours that differ only in the names of
sockets or tokens, and is used in place of TLC's symmetry because a liveness property is checked.

In `Services` the modules share users and futures and no row: a step of one is no step of another, so the run
chooses first which service it looks at (`service`), and for the tasks and the rewards which of their operations, and
explores those completely. Two requests are the least that interleave, and each kind of request
is repeated often enough that a third one finds what two have left. Three days are a midnight on either side of a
day, three versions a rollback past a draft; two buffers of two events and a mailbox of two overflow, and an event
is left for the exit. One item more than the coins of one player buy and one use of a code are contended by two.

**Deadlock** is not an error in these instances: every one of them stops when its bounded messages,
sessions or moves are used up. The liveness properties say what must have happened by then.

**Fairness.** Actors handle what is in their mailboxes, timers and intervals fire, tasks end: weak
fairness of those actions, which the actix runtime provides. What clients and the network do is not
fair, with two exceptions. In `ReliabilityLayer` the client re-sends what is not acknowledged and a
packet sent again and again is received at some time (strong fairness of receiving), without which
no protocol delivers. In `Presence` an adapter whose socket is closed runs out of retries: ConnectionManager
sends the server's state to all sessions whenever one has come or gone, and nobody acknowledges it there.
A failing StartPlaying and a message that a player sends are never required.

### Where the code and its documents differ

* `MatchmakingWaiting`: a public lobby that ends by a timeout stays on offer, because it sends no
  `CloseLobbyMsg`; the next player is matched with it and told that the lobby waits for its host.
* `LobbyGameRematch`: a rematch keeps the settlement id of the first game, so its settlement is skipped as
  a duplicate, while the specification of settlements requires rating, statistics and rewards for a game
  with a winner.
* `PresenceShared`: `UnbindUser` is guarded by the api token and not by the connection; when a user logs in
  on a second connection with the same api token, the first one takes the user off line as it stops.
* `PlayerStats`: a quest event or a completed level removes the cached player without a flush, against the invariant
  that the design of the cache names; with deferred writing the statistics of the last game are lost.

Two more are in the models as states that are reached, and have no run of their own:

* `inbox.rs:141`: the design of the cache promises that assets are read as they are last. `claim_inbox` changes the inventory past the
  cache; a player who was cached goes on reading the old inventory until another operation has him loaded again. `FreshWhenAlone` says
  that no other operation does so while it is alone.
* `user_mgr.rs:388`: a comment says that StopPlaying resets the address only if it is still the stopping session's own. The address it
  compares was read before an await, and it removes that of a session that has started to play meanwhile.

Met on the way, and no run of their own: the two deviations of the scans for a winner (named by `Unseen` and
`OverTheEdge`), and the following, about which the repository promises nothing.

* `client_adapter.rs:136`: every duplicate of a message beyond a gap is queued again, and `process_queue` releases one
  of them, so the queue may grow while a client re-sends. `client_adapter.rs:221`: a packet that does not parse is
  answered with an error and never acknowledged, so a client that re-sends it never gets on.
* `lobby_mgr.rs:55`: the id of the lobby on offer is in neither map and may be drawn again.
* `client_state.rs:142`: an accepted battle request overwrites whatever lobby the client has entered since. `client_state.rs:139`: a
  second `Reset` of an ended lobby can reach a client in the next one. `client_state.rs:213`: a joiner that leaves before the
  host has answered is not announced.
* `game_info.rs:231`: a full board without a line is no end: no move is accepted and no rematch can be asked for.
* `connection_mgr.rs:374`: a LOGIN repeated on one connection makes that connection the "old" one and closes it.
* `lobby.rs:411`: moves are accepted from the pong on, and GameStart two seconds later clears the board, with a game that was won
  in between; that game has been announced and settled.
* `minigame_tasks.rs:231`: an answer that is lost after the round was counted is taken for a refusal, and the round is never paid.
* `user_mgr.rs:84`: two registrations at once, of names that differ in case, both find the name free, and the table is unique only for
  names as written.
* `repository.rs:1291`: a milestone with a gap of 0 or less would be reached over and over within one level; the assumption
  `QuantitiesAreNumbers` excludes such a row.

## 4. What is proved

`ReliabilityLayerProofs`, for every number of messages, every set of payloads and every retry limit:

* `TypeCorrect`: `Spec => []TypeOK`.
* `UpInvariant`, `PlayerMessagesSafe`: what ClientState was handed is a prefix of what the client issued,
  an acknowledged message is not missing, and no handler leaves the next message in the queue.
* `DownInvariant`, `ServerMessagesSafe`: what the client took is a prefix of what was said; what it lacks is
  in the queue or notified as long as the adapter runs, in one copy, whose retry count is the number of
  transmissions.
* `UpRefinement`, `DownRefinement`: each direction implements `InOrderChannel`.

The argument. The safety properties are not inductive: that the next message is the right one depends on
what packets say. `UpInv` adds that every packet on the link and every queued copy carries the message the
client issued under its id (`CarriesIssued`), and that only forwarded messages are acknowledged.
`DownInv` adds the same for server messages, that ids beyond the last one were never written, and that a
message is either held or was taken. Each is shown to hold initially and to be preserved, one step per
action (`UpStep`, `DownStep`); the step that releases a run of queued messages is a lemma of its own
(`RecvExpectedFacts`), as it is the only one that changes several things at once. Refinement then needs no
new invariant: a step that forwards or takes messages extends a prefix, any other leaves both sequences
alone. The only assumption is `BoundsAssumption` on the constants, which TLC evaluates in every run.

`LobbyGameProofs`, for boards of any size, lines of any length up to it, and any number of games and late moves:

* `CheckWin`, with the lemmas before it: what `check_win_internal` returns holds a line or a run over the edge of a column; and
  (`LineIsFound`) if it returns nothing there is no line but one that rises into the top row. A run of a scan is turned into the
  cells it went over (`DiagonalRun`, `AntiDiagonalRun`, `ColumnRun`, `RowRun`); for the columns that needs the
  arithmetic of index, column and row (`CellOfColumns`, `ColumnsOfCell`), and for the first run that a scan finds the least element of
  a set of numbers (`LeastNatural`).
* `LobbyInvariant` and from it `FourIsAlwaysFound`, `NobodyWinsWithLess`, `BoardStaysLegal`, `RecordedOnce`, `RematchNeedsBoth`.
  What makes the invariant inductive: a chip only ever takes an empty cell, so a winner's line stays
  (`MoveKeepsBoard`); whoever is entered as asking has asked (`RequestsAreKept`); what was sent or recorded comes
  from a game that was won, and all of a lobby's records share one settlement id (`RecordsAreCounted`).

`MatchmakingProofs`, for any number of clients, lobbies, ids and battle requests:

* `MatchmakingTypes`, `LobbyIsOfferedOnce` (`OfferedOnce`), `PlayersSitWhereTheySay` (`SeatsAgree`), `StoppedLobbyResets`
  (`NobodyLeftBehind`), `LeftLobbyIsUnlisted` (`LeftIsUnlisted`), `ShownUpdateIsCurrent` (`UpdateIsCurrent`).

All of them depend on what is still in mailboxes, and on its order. `MatchmakingInv` says that a lobby that is offered
has no second player and nobody on the way to it (`JoinedOnce`); that every invitation to a lobby that has
stopped is followed by a `Reset` in the same mailbox, so that a player who takes it gets out again (`Follows`, in
`PlayersAreHosts`); that a client that asked LobbyManager waits for one answer, which makes its answer the one it is waiting for
(`AskersWait`); that a listed lobby is of its kind and under its id (`ListedByKind`); and that an actor not yet started has no mail (`NewIsFresh`).
`RejoinersAreReset` closes the one loop that is left: who asks to join the lobby he was in, that a player has left, and is
answered before `CloseLobbyMsg` arrives, has a `Reset` waiting.

`PresenceProofs`, for any number of sockets, users, api tokens, LOGINs and LOGOUTs:

* `PresenceTypes`, `LatestSocketCounts` (`LatestStaysConnected`), `UnbindComesFromOwner` (`UnbindIsOwn`).

`PresenceInv`: a socket asks once for a session, so that no ClientState is started twice (`StartedOnce`); a socket that has stopped is
told nothing more, and only such a socket has reported that it is closed (`StoppedForGood`), so a session is
connected to its latest socket or that has stopped (`LatestOrAway`); an `UnbindUser` comes from a session that has
used the token and ended (`UnbindersEnded`); a LOGIN that waits has one task (`OneAnswerEach`), on which the types of the mailboxes depend.

`PlayerRepositoryProofs`, for any users, futures, settlements, keys and number of operations, with failures and crashes:

* `RepositoryInvariant`, `AssetsAreKept` (`NothingWrittenBack`), `ChangesStayDirty` (`MarkedIsWritten`). The
  invariant follows every list of steps: only statistics are ever dirty, asked for or copied (`SafeStep`), and
  two copies of a player with the same `changed_at` agree (`StampsTellApart`): a change takes a new time, everything else only
  copies, cleans or drops.
* `CountsAreRight` (`NeverCountedTwice`). Every list that a future has left to do is the end of one of the operations
  (`ListsFit`, with `Fits` saying which steps may follow which). A committed game that a future has still to count is owed (`Owed`), and
  wherever a count of a player's games is or is about to be put, in the cache, the database or a future's copy, it leaves room
  for the games owed (`RoomInv`). Overlapping operations may lower a count; none can take the room.
* `CacheIsFresh` (`FreshWhenAlone`) and `GamesAreCounted` (`CountedWhenAlone`), which are about operations that follow one
  another. `OneWorksAtATime`: then one future at most has steps left. `FreshInv`: an entry with old assets is about to be loaded again or
  dropped, or its player has claimed a mail since it was loaded, and what was read for it is not old. `CountInv`: games counted and games owed are the games recorded, since nothing that is
  loaded over an entry is loaded while it is dirty.

`UsersProofs`, for any users, names, platform ids and number of requests:

* `FriendsTypeCorrect`; `FriendsAreMutual` (`FriendsHaveBothAsked`), whose invariant says of rows, cached views and
  the views that requests hold that each shows only what was asked; `CacheFollowsTable`
  (`ViewIsCurrentWhenAlone`), which adds that an undisturbed request is the only one.
* `OneUserForEachIdentity` (`OneUserPerIdentity`), from the fact that an identity once inserted is never another's and that a login
  about to open a session holds it; `NamesStayApart` (`NamesDifferWhenAlone`).

`MinigameProofs`, for any number of requests, levels, days, versions and clients:

* `StreaksAreWithinTotal`, where a pending write has to be compared with a row that others have moved since; `RoundsAreInOrder`: each
  round at most once, below the one that is next.
* `RewardsAreEarned` (`RewardsWereEarned`). What a claim has read as reached stays reached, because nothing that tasks look at is
  taken back (`Grows`), and the round that is counted is the one that was read. The metric of "perfectionist" is a fold over the levels; that
  a better result of one level does not make it less (`TotalGrows`) takes an induction over sets of levels, which is done without an
  induction theorem: a set with the least of the counterexamples, from `WFMin` and the well-foundedness of strict subsets
  (`SubsetInduction`), and the uniqueness of the function that `CHOOSE` picks in the fold (`TotalsAgree`).
* `AnnouncedStaysPublished` (`AnnouncedIsPublished`), where the versions made are an initial part of the
  numbers (so a draft takes a new one), a pending rollback holds a published version, and a bundle, drafts included, is its version
  as it was made.

`ServicesProofs`, for any sizes of mailbox and batch, any players, quests, items, milestones and number of requests:

* `EventsAreLoggedOnce` (`LoggedOnce`): an event is in the mailbox, the buffer, one batch, the table, or given up, in one of
  them and there once (`Apart`), and every step moves events from one to another.
* `NothingIsOversold` (`LimitsHold`) and `EachMilestoneIsMailed` (`MilestonesAreMailed`). `RewardsInv`: no row is locked twice
  (`LocksAreExclusive`), so what a transaction has read under a lock is still so when it commits (`ReadsHold`; a commit of
  another changes only rows it has locked, `ChangesOwn`), its idempotency key is still unused (`KeysAreFree`), and a player has reached as many
  milestones as were mailed to him (`MilestonesDue`, with `Threshold`).
* `EveryEntryIsBooked` (`LedgerBalances`): a commit adds one entry with a new key and moves one balance by it. The balance is a sum over
  a set, so the induction over sets is needed here too, as above.
* `EventsAreCounted` (`QuestsCountEvents`): a row that a transaction will write is locked as it was read, or was missing; then
  the quest before it is completed, now or by this transaction (`ReadsQuests`). As a story advances in the order of `sort_order`, what an
  event makes of the rows is a recursive function of the quest before, and its values are given by induction over `sort_order`.

Theorems about a request module are about its own specification; `Services` checks the same actions.

The assumptions are those on the constants, each named in the module that declares them. Sizes are numbers, the players and `None` are
distinct, and `None` is not a value of a type it stands beside (`NoneIsNoCall`, `NoneIsNoSignin`, `NoneIsNoStars`,
`NoneIsNoConfig`, `NoneIsNoWinner`, `NoneIsNoEntry`, `NoneIsNobody`); a name is no platform id; a flush that is asked for is no event
(`ForceFlushIsNoEvent`); a settlement has two different players; a game has finitely many levels (`LevelsAreFinite`).
`QuantitiesAreNumbers` has a milestone begin above 0, as the rows that migration 007 creates do, and `QuestsAreDefined` has
each story quest after the one it requires in `sort_order`. TLC evaluates them all in the runs.

Only model-checked are the liveness properties (`IssuedIsForwarded`, `SaidIsReceived`, `JoinerIsReleased`, `SessionsEnd`): fairness
and ENABLED are out of the prover's reach here. Every other property of a passing run is a theorem.

## 5. Not modelled

* The legacy protocol without ids (it promises neither order nor delivery), chat, notifications, feedback, formatting and
  parsing, the HTTP layer, start-up and migrations, the waiting-room statistics apart from the flag that somebody waits.
* Of a settlement the rating and the achievements for games won; in `PlayerRepository` what a transaction does to the rows is one
  change of `Assets`, and `Rewards` has the rows of the operations it names.
* `MinigameTasks`: `rank_board`, whose metric depends on all players; `score_master` and `daily_clear_3` work as tasks do that
  are modelled.
* `Accounts`: passwords, the formats of tokens, the platforms' own services, the hundredth name that `make_unique_username` tries.
* The inbox's read flag, the draw of an invite code, and queries that change nothing (leaderboards, shop, quest lists).
* Functions that nobody calls: `QuestCollection::on_event`, `ItemCollection::purchase`, `consume` and `add`.

## 6. Plan

All modules of the first plan exist, and every safety and action property of the passing runs is proved. Next, in this order:

1. An abstract specification of the cache (a player's aggregate as one value) that `PlayerRepository` implements while operations
   follow one another, and one of matchmaking (pairs of players), each with its refinement proved from the invariants above.
2. The rating and the achievements of a settlement as rows of `Rewards`.
3. A third socket in `Presence`, once its state can be made smaller: the proofs cover it, liveness does not.
