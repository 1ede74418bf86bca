------------------------------ MODULE MCLobbyGame ------------------------------
(* Lobbies with small boards for TLC.                                      *)
EXTENDS LobbyGame, TLC

\* The two players are alike.
PlayerSymmetry == Permutations(Player)

\* Bound: no game is won in the two seconds before the first GameStart.
NotWonBeforeStart == start_timer => won_games = 0

\* Bound: registered players play both games, with few chips and without the last
\* column; others play one game, once it has been started, until it is won or the
\* board is full.
MaxChips == 6
Placed == Cardinality({c \in Coord \X Coord : field[c[1]][c[2]] # None})
StepIsBounded ==
    IF registered THEN Placed' <= MaxChips /\ field'[FIELD_SIZE - 1] = [y \in Coord |-> None]
    ELSE asked' = {} /\ late_moves' = 0 /\ (start_timer' => field' = Empty)

BoundedSpec == Init /\ [][Next /\ StepIsBounded]_vars
===============================================================================
