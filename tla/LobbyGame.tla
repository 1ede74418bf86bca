------------------------------- MODULE LobbyGame -------------------------------
(***************************************************************************)
(* The games two players play in one lobby: the handlers of Lobby          *)
(* (src/game/lobby.rs) in its state TwoPlayers, on the board of GameInfo,  *)
(* and the settlement of what was won (UserManager and                     *)
(* PlayerRepository::settle_game).                                         *)
(*                                                                         *)
(* The lobby's mailbox is left out: any message of a player may come at    *)
(* any time.  A handler that answers with an error changes nothing and is  *)
(* no action here, nor is chat.  What ends the lobby is in Matchmaking.    *)
(* UserManager settles the games it is told of concurrently, so any of     *)
(* them may be first.  Of a settlement only its record is kept here.       *)
(*                                                                         *)
(* An operator described as a mistake is not the code: it takes the place  *)
(* of the definition after it to show that a property would notice.        *)
(***************************************************************************)
EXTENDS GameInfo, Sequences

CONSTANTS
    MaxGames,           \* bound: no move is made once so many games were won
    MaxLateMoves        \* bound: moves made after the game is over

ASSUME BoundsAssumption == MaxGames \in Nat /\ MaxLateMoves \in Nat

VARIABLES
    registered,         \* GameType: Registered or Anonymous
    start_timer,        \* the GameStart that follows the pong is due
    start_notified,     \* a GameStart was notified for a rematch
    played_games,       \* PlayedGame sent and not settled
    \* the database
    operations,         \* player_operation_idempotency: settlement ids
    games,              \* the table games: the winners
    \* history
    won_games,          \* games that came to an end
    late_moves,         \* moves since the game was over
    asked,              \* who asked for a rematch since the game was over
    settle_failed       \* a settlement was rolled back

dbVars == <<operations, games, settle_failed>>
vars == <<gameVars, registered, start_timer, start_notified, played_games, dbVars,
          won_games, late_moves, asked>>

\* GameOId::new() when both players are in.  A rematch goes on with it.
game_oid == 1
PlayedGame == [settlement_id : {game_oid}, winner : Player]

TypeOK ==
    /\ GameTypeOK
    /\ registered \in BOOLEAN
    /\ start_timer \in BOOLEAN
    /\ start_notified \in BOOLEAN
    /\ played_games \in Seq(PlayedGame)
    /\ operations \subseteq {game_oid}
    /\ games \in Seq(Player)
    /\ won_games \in Nat /\ late_moves \in Nat
    /\ asked \subseteq Player
    /\ settle_failed \in BOOLEAN

\* TakePong of the lobby: both players are in, and GameStart is due.
Init ==
    /\ GameInit
    /\ registered \in BOOLEAN
    /\ start_timer = TRUE
    /\ start_notified = FALSE
    /\ played_games = <<>>
    /\ operations = {}
    /\ games = <<>>
    /\ won_games = 0
    /\ late_moves = 0
    /\ asked = {}
    /\ settle_failed = FALSE

\* ClientLobbyMessage::PlaceChip.  A game that is over goes on: every later move
\* on a won board announces, and sends on, the end of the game once more.
PlaceChip(p, x) == \E y \in Coord :
    LET won == Completes(p, x, y) IN
    /\ IF winner = None THEN won_games < MaxGames ELSE late_moves < MaxLateMoves
    /\ place_chip(p, x, y)
    /\ played_games' = IF won # None /\ registered
            THEN Append(played_games, [settlement_id |-> game_oid, winner |-> won])
            ELSE played_games
    /\ won_games' = IF won # None /\ winner = None THEN won_games + 1 ELSE won_games
    /\ late_moves' = IF winner = None THEN 0 ELSE late_moves + 1
    /\ UNCHANGED <<registered, start_timer, start_notified, dbVars, asked>>

\* A mistake: asking twice counts as an answer.
PlayAgainRequestAlone(p) ==
    /\ winner # None
    /\ winner' = [winner EXCEPT !.requesting_rematch = IF @ = None THEN p ELSE @]
    /\ start_notified' = (start_notified \/ winner.requesting_rematch # None)
    /\ asked' = asked \cup {p}
    /\ UNCHANGED <<field, turn, registered, start_timer, played_games, dbVars, won_games,
                   late_moves>>

\* ClientLobbyMessage::PlayAgainRequest
PlayAgainRequest(p) ==
    /\ winner # None
    /\ winner' = [winner EXCEPT !.requesting_rematch = IF @ = None THEN p ELSE @]
    /\ start_notified' = (start_notified \/ winner.requesting_rematch = Other(p))
    /\ asked' = asked \cup {p}
    /\ UNCHANGED <<field, turn, registered, start_timer, played_games, dbVars, won_games,
                   late_moves>>

\* LobbyMessage::GameStart: GameInfo::reset(), with a player drawn to begin.
ResetGame ==
    /\ reset
    /\ late_moves' = 0
    /\ asked' = {}
    /\ UNCHANGED <<registered, played_games, dbVars, won_games>>

\* The actor polls what it has spawned in one go, without taking messages in
\* between: what was notified, once or several times, is handled together, and
\* together with the GameStart that is due GAME_START_DELAY_S after the pong.
FirstStart ==
    /\ start_timer
    /\ start_timer' = FALSE
    /\ start_notified' = FALSE
    /\ ResetGame

Rematch ==
    /\ start_notified
    /\ start_notified' = FALSE
    /\ ResetGame
    /\ UNCHANGED start_timer

\* A mistake: a settlement is recorded whether or not it was before.
SettleAnyway(i) ==
    /\ played_games' = [k \in 1..(Len(played_games) - 1) |->
                            played_games[IF k < i THEN k ELSE k + 1]]
    /\ games' = Append(games, played_games[i].winner)
    /\ operations' = operations \cup {played_games[i].settlement_id}
    /\ UNCHANGED <<gameVars, registered, start_timer, start_notified, settle_failed,
                   won_games, late_moves, asked>>

\* settle_game: one transaction, skipped if its settlement id is known.
Settle(i) ==
    LET id == played_games[i].settlement_id IN
    /\ played_games' = [k \in 1..(Len(played_games) - 1) |->
                            played_games[IF k < i THEN k ELSE k + 1]]
    /\ games' = IF id \in operations THEN games ELSE Append(games, played_games[i].winner)
    /\ operations' = operations \cup {id}
    /\ UNCHANGED <<gameVars, registered, start_timer, start_notified, settle_failed,
                   won_games, late_moves, asked>>

\* A missing user or a database error: rolled back, logged, not tried again.
SettleFails(i) ==
    /\ played_games' = [k \in 1..(Len(played_games) - 1) |->
                            played_games[IF k < i THEN k ELSE k + 1]]
    /\ settle_failed' = TRUE
    /\ UNCHANGED <<gameVars, registered, start_timer, start_notified, operations, games,
                   won_games, late_moves, asked>>

Next ==
    \/ \E p \in Player, x \in Coord : PlaceChip(p, x)
    \/ \E p \in Player : PlayAgainRequest(p)
    \/ FirstStart \/ Rematch
    \/ \E i \in 1..Len(played_games) : Settle(i) \/ SettleFails(i)

Spec == Init /\ [][Next]_vars

-------------------------------------------------------------------------------
\* A game that is over is cleared for a rematch only when both players have
\* asked for one since it was over (PlayAgainRequest).
RematchIsMutual == [][Rematch => asked = Player]_vars

\* A game is recorded once at most, however often its end is announced and in
\* whatever order the announcements are settled (settle_game, insert_idempotency).
NeverRecordedTwice == Len(games) <= won_games

\* "winner 的 SR、统计、任务进度和奖励 MUST 更新": every game that two registered
\* players finished is on record once all that was sent has been settled.
EveryGameIsRecorded ==
    registered /\ played_games = <<>> /\ ~settle_failed => Len(games) = won_games
===============================================================================
