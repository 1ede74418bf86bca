------------------------------- MODULE GameInfo -------------------------------
(***************************************************************************)
(* GameInfo (src/game/game_info.rs): the board of one lobby, whose turn it *)
(* is, and who has won.  A move that is refused (not the player's turn, no *)
(* such column, column full) changes nothing and is no action here.        *)
(*                                                                         *)
(* An operator described as a mistake is not the code: it takes the place  *)
(* of the definition after it to show that a property would notice.        *)
(***************************************************************************)
EXTENDS Integers, FiniteSets

CONSTANTS
    FIELD_SIZE,         \* columns and rows (7 in the code)
    WIN_LENGTH,         \* chips in a row that win (4 in the code)
    One, Two,           \* the players
    None

ASSUME GameAssumption ==
    /\ FIELD_SIZE \in Nat \ {0}
    /\ WIN_LENGTH \in 1..FIELD_SIZE
    /\ One # Two /\ None \notin {One, Two}

Player == {One, Two}
Other(p) == IF p = One THEN Two ELSE One

Coord == 0..(FIELD_SIZE - 1)
Cell == Player \cup {None}
WinnerInfo == [winner : Player, requesting_rematch : Cell]

ASSUME NoneIsNoWinner == None \notin WinnerInfo

VARIABLES
    field,              \* field[column][y]; y = 0 is the top
    turn,
    winner              \* None or a WinnerInfo

gameVars == <<field, turn, winner>>

GameTypeOK ==
    /\ field \in [Coord -> [Coord -> Cell]]
    /\ turn \in Player
    /\ winner \in WinnerInfo \cup {None}

-------------------------------------------------------------------------------
(* check_win_internal.  A scan goes along a sequence of cells and counts    *)
(* equal chips; a cell beyond the edge counts as empty.                     *)

CellAt(f, x, y) == IF x \in Coord /\ y \in Coord THEN f[x][y] ELSE None

\* A mistake: one chip too few is enough.
RunEndsEarly(s, k, step) ==
    /\ k > (WIN_LENGTH - 1) * step
    /\ s[k] # None
    /\ \A j \in 1..(WIN_LENGTH - 2) : s[k - j * step] = s[k]

\* The last WIN_LENGTH cells of s up to k, step by step, hold one player's chips.
RunEnds(s, k, step) ==
    /\ k > (WIN_LENGTH - 1) * step
    /\ s[k] # None
    /\ \A j \in 1..(WIN_LENGTH - 1) : s[k - j * step] = s[k]

FirstOf(s, ends) ==
    IF ends = {} THEN None ELSE s[CHOOSE k \in ends : \A l \in ends : k <= l]

RANGE == FIELD_SIZE - WIN_LENGTH

Diagonal(f, r) == [k \in 1..FIELD_SIZE |-> CellAt(f, k - 1 + r, k - 1)]

\* The second loop leaves out FIELD_SIZE - 1: it never looks at the top row.
AntiDiagonal(f, r) == [k \in 1..(FIELD_SIZE - 1) |-> CellAt(f, FIELD_SIZE - 1 - k + r, k)]

\* The count along a column is not reset where the next column begins.
Columns(f) ==
    [k \in 1..(FIELD_SIZE * FIELD_SIZE) |-> f[(k - 1) \div FIELD_SIZE][(k - 1) % FIELD_SIZE]]

ScanLine(s) == FirstOf(s, {k \in DOMAIN s : RunEnds(s, k, 1)})
ScanColumns(s) ==
    FirstOf(s, {k \in DOMAIN s : RunEnds(s, k, 1) \/ RunEnds(s, k, FIELD_SIZE)})

\* A mistake: the diagonals next to the corners are left out.
ScansTooFew(f) ==
    [n \in 1..3 |-> IF n = 1 THEN ScanLine(Diagonal(f, 0))
                    ELSE IF n = 2 THEN ScanLine(AntiDiagonal(f, 0))
                    ELSE ScanColumns(Columns(f))]

\* What the scans find, in their order.
Scans(f) ==
    [n \in 1..(4 * RANGE + 3) |->
        LET r == (n - 1) \div 2 - RANGE IN
        IF n = 4 * RANGE + 3 THEN ScanColumns(Columns(f))
        ELSE IF n % 2 = 1 THEN ScanLine(Diagonal(f, r)) ELSE ScanLine(AntiDiagonal(f, r))]

check_win_internal(f) ==
    LET scans == Scans(f) IN FirstOf(scans, {n \in DOMAIN scans : scans[n] # None})

-------------------------------------------------------------------------------
Empty == [x \in Coord |-> [y \in Coord |-> None]]

\* GameInfo::new: the player to begin is drawn.
GameInit ==
    /\ field = Empty
    /\ turn \in Player
    /\ winner = None

\* A mistake: the cell is looked for from the top.
LowestFromTop(x, y) ==
    /\ field[x][y] = None
    /\ \A above \in Coord : field[x][above] = None => y <= above

\* place_chip: the chip falls to the lowest empty cell of the column.
Lowest(x, y) ==
    /\ field[x][y] = None
    /\ \A below \in Coord : field[x][below] = None => below <= y

\* The player who completes a line by p's chip at <<x, y>>: check_win.
Completes(p, x, y) == check_win_internal([field EXCEPT ![x][y] = p])

\* A chip may be placed on a won board too: it is judged again, and the winner
\* is set again, without the request for a rematch.
place_chip(p, x, y) ==
    LET won == Completes(p, x, y) IN
    /\ p = turn
    /\ Lowest(x, y)
    /\ field' = [field EXCEPT ![x][y] = p]
    /\ turn' = Other(p)
    /\ winner' = IF won = None THEN winner
                 ELSE [winner |-> won, requesting_rematch |-> None]

reset ==
    /\ field' = Empty
    /\ turn' \in Player
    /\ winner' = None

GameNext == reset \/ \E p \in Player, x, y \in Coord : place_chip(p, x, y)

GameSpec == GameInit /\ [][GameNext]_gameVars

-------------------------------------------------------------------------------
(* What "four in a row" means, independently of the scans.                  *)

\* The cells of a line that starts at <<x, y>> and goes in direction <<dx, dy>>.
Line(x, y, dx, dy) == {<<x + j * dx, y + j * dy>> : j \in 0..(WIN_LENGTH - 1)}

Lines == {l \in {Line(x, y, d[1], d[2]) : x \in Coord, y \in Coord,
                     d \in {<<1, 0>>, <<0, 1>>, <<1, 1>>, <<1, -1>>}} :
            l \subseteq Coord \X Coord}

Holds(p, cells) == \A c \in cells : field[c[1]][c[2]] = p

\* Lines the scans do not see: those that rise to the right into the top row.
Unseen == {l \in Lines : \E x, y \in Coord : l = Line(x, y, 1, -1) /\ y = WIN_LENGTH - 1}

\* Cells that are no line, but that the scans take for one: the bottom of a
\* column and the top of the next.
OverTheEdge == {{<<k \div FIELD_SIZE, k % FIELD_SIZE>> : k \in b..(b + WIN_LENGTH - 1)} :
                    b \in 0..(FIELD_SIZE * FIELD_SIZE - WIN_LENGTH)} \ Lines

\* Whoever completes a line ends the game, whatever its direction and whichever
\* of its chips is the last; only a line that rises into the top row is missed
\* (check_win_internal).
FourIsFound ==
    winner = None => \A l \in Lines \ Unseen : \A p \in Player : ~Holds(p, l)

\* The winner has a line, or a run over the edge of a column: no scan counts
\* across a gap, across the end of a diagonal or across a change of player.
WinnerHasFour ==
    winner # None => \E l \in Lines \cup OverTheEdge : Holds(winner.winner, l)

Chips(p) == Cardinality({c \in Coord \X Coord : field[c[1]][c[2]] = p})

\* No chip hangs in the air, and nobody is more than the move that is due ahead
\* of the other: so in every game of the lobby, also after moves that came too
\* early, too late or while a rematch was being started (place_chip).
BoardIsLegal ==
    /\ \A x, y \in Coord : field[x][y] # None =>
           \A below \in Coord : below > y => field[x][below] # None
    /\ Chips(Other(turn)) - Chips(turn) \in {0, 1}
===============================================================================
