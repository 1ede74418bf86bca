----------------------------- MODULE LobbyGameProofs -----------------------------
(* The board, the rematch and the record of a game, for a board of any size,     *)
(* lines of any length and any number of games and late moves.                   *)
EXTENDS LobbyGame, FiniteSetTheorems, SequenceTheorems, WellFoundedInduction, TLAPS

N == FIELD_SIZE
W == WIN_LENGTH
Board == [Coord -> [Coord -> Cell]]

-------------------------------------------------------------------------------
(* Numbers                                                                  *)

LEMMA Sizes == N \in Nat /\ N >= 1 /\ W \in Nat /\ 1 <= W /\ W <= N /\ RANGE \in Nat
               /\ RANGE = N - W /\ N * N \in Nat
  BY GameAssumption DEF N, W, RANGE

LEMMA LeastNatural ==
    ASSUME NEW T \in SUBSET Nat, T # {}
    PROVE  \E m \in T : \A k \in T : m <= k
<1> DEFINE R == OpToRel(<, Nat)
<1>1. IsWellFoundedOn(R, Nat)
  BY NatLessThanWellFounded
<1> HIDE DEF R
<1>2. PICK m \in T : \A k \in T : ~ (<<k, m>> \in R)
  BY <1>1, WFMin
<1>3. \A k \in T : <<k, m>> \in R <=> k < m
  BY DEF R, OpToRel
<1>4. ASSUME NEW k \in T
      PROVE  m <= k
  <2>1. ~(k < m)
    BY <1>2, <1>3
  <2>2. k \in Nat /\ m \in Nat
    OBVIOUS
  <2>3. QED
    BY <2>1, <2>2
<1>5. QED
  BY <1>4

\* Where a cell of the board is in the order of the columns.
LEMMA CellOfColumns ==
    ASSUME NEW x \in Int, NEW y \in Int, 0 <= y, y < N
    PROVE  (x * N + y) \div N = x /\ (x * N + y) % N = y
<1> DEFINE a == x * N + y
           q == a \div N
           m == a % N
<1>1. N \in Nat /\ N >= 1 /\ a \in Int
  BY Sizes
<1>2. q \in Int /\ m \in Int /\ 0 <= m /\ m < N /\ a = N * q + m
  BY <1>1
<1> HIDE DEF q, m
<1>3. N * (q - x) = y - m
  BY <1>1, <1>2
<1>4. q = x
  <2>1. CASE q >= x + 1
    <3>1. N * (q - x) >= N
      BY <1>1, <1>2, <2>1
    <3>2. QED
      BY <1>1, <1>2, <1>3, <3>1
  <2>2. CASE q <= x - 1
    <3>1. N * (x - q) >= N
      BY <1>1, <1>2, <2>2
    <3>2. N * (x - q) = m - y
      BY <1>1, <1>2, <1>3
    <3>3. QED
      BY <1>1, <1>2, <3>1, <3>2
  <2>3. QED
    BY <1>2, <2>1, <2>2
<1>5. QED
  BY <1>1, <1>2, <1>3, <1>4 DEF q, m

LEMMA ColumnsOfCell ==
    ASSUME NEW a \in 0..(N * N - 1)
    PROVE  /\ a \div N \in Coord /\ a % N \in Coord
           /\ a = (a \div N) * N + (a % N)
<1> DEFINE q == a \div N
           m == a % N
<1>1. N \in Nat /\ N >= 1 /\ a \in Nat /\ a < N * N
  BY Sizes
<1>2. q \in Int /\ m \in Int /\ 0 <= m /\ m < N /\ a = N * q + m
  BY <1>1
<1> HIDE DEF q, m
<1>3. q >= 0
  <2>1. CASE q <= -1
    <3>1. N * q <= -N
      BY <1>1, <1>2, <2>1
    <3>2. QED
      BY <1>1, <1>2, <3>1
  <2>2. QED
    BY <1>2, <2>1
<1>4. q < N
  <2>1. CASE q >= N
    <3>1. N * q >= N * N
      BY <1>1, <1>2, <2>1
    <3>2. QED
      BY <1>1, <1>2, <3>1
  <2>2. QED
    BY <1>1, <1>2, <2>1
<1>5. q \in Coord /\ m \in Coord
  BY <1>1, <1>2, <1>3, <1>4 DEF Coord, N
<1>6. a = q * N + m
  BY <1>1, <1>2
<1>7. a \div N \in Coord /\ a % N \in Coord
  BY <1>5 DEF q, m
<1>8. a = (a \div N) * N + (a % N)
  BY <1>6 DEF q, m
<1>9. QED
  BY <1>7, <1>8

-------------------------------------------------------------------------------
(* What the scans find                                                      *)

HoldsIn(f, p, cells) == \A c \in cells : f[c[1]][c[2]] = p
Direction == {<<1, 0>>, <<0, 1>>, <<1, 1>>, <<1, -1>>}

LEMMA CellAtFacts ==
    ASSUME NEW f \in Board, NEW x \in Int, NEW y \in Int
    PROVE  /\ CellAt(f, x, y) \in Cell
           /\ CellAt(f, x, y) # None =>
                x \in Coord /\ y \in Coord /\ f[x][y] = CellAt(f, x, y)
  BY DEF CellAt, Board, Cell

\* As many chips of w in one direction as a line has cells are a line.
LEMMA ChipsAreLine ==
    ASSUME NEW f, NEW w, NEW x \in Int, NEW y \in Int, NEW d \in Direction,
           \A j \in 0..(W - 1) : /\ x + j * d[1] \in Coord /\ y + j * d[2] \in Coord
                                 /\ f[x + j * d[1]][y + j * d[2]] = w
    PROVE  Line(x, y, d[1], d[2]) \in Lines /\ HoldsIn(f, w, Line(x, y, d[1], d[2]))
<1>1. d[1] \in Int /\ d[2] \in Int /\ W \in Nat /\ 1 <= W
  BY Sizes DEF Direction
<1>2. x \in Coord /\ y \in Coord
  <2>1. 0 \in 0..(W - 1) /\ x + 0 * d[1] = x /\ y + 0 * d[2] = y
    BY <1>1
  <2>2. QED
    BY <2>1
<1>3. ASSUME NEW c \in Line(x, y, d[1], d[2])
      PROVE  c \in Coord \X Coord /\ f[c[1]][c[2]] = w
  <2>1. PICK j \in 0..(W - 1) : c = <<x + j * d[1], y + j * d[2]>>
    BY DEF Line, W
  <2>2. QED
    BY <2>1
<1>4. Line(x, y, d[1], d[2]) \in Lines
  BY <1>2, <1>3 DEF Lines, Direction
<1>5. QED
  BY <1>3, <1>4 DEF HoldsIn

\* The cells a run goes over, the last of them first.
LEMMA RunCells ==
    ASSUME NEW s, NEW k \in Nat, NEW stride \in Nat, RunEnds(s, k, stride)
    PROVE  /\ k > (W - 1) * stride /\ s[k] # None
           /\ \A j \in 0..(W - 1) : s[k - j * stride] = s[k]
<1>1. k - 0 * stride = k
  OBVIOUS
<1>2. W \in Nat /\ 1 <= W
  BY Sizes
<1>3. \A j \in 0..(W - 1) : j = 0 \/ j \in 1..(W - 1)
  BY <1>2
<1>4. QED
  BY <1>1, <1>3 DEF RunEnds, W

LEMMA DiagonalRun ==
    ASSUME NEW f \in Board, NEW r \in Int, NEW k \in 1..N, RunEnds(Diagonal(f, r), k, 1)
    PROVE  /\ Diagonal(f, r)[k] \in Player
           /\ \E l \in Lines : HoldsIn(f, Diagonal(f, r)[k], l)
<1> DEFINE s == Diagonal(f, r)
<1>1. \A i \in 1..N : s[i] = CellAt(f, i - 1 + r, i - 1)
  BY DEF Diagonal, N
<1>2. /\ k > W - 1 /\ s[k] # None
      /\ \A j \in 0..(W - 1) : s[k - j] = s[k]
  <2>1. W \in Nat
    BY Sizes
  <2>2. (W - 1) * 1 = W - 1 /\ \A j \in 0..(W - 1) : k - j * 1 = k - j
    BY <2>1
  <2>3. QED
    BY <2>2, RunCells
<1> HIDE DEF s
<1>3. ASSUME NEW j \in 0..(W - 1)
      PROVE  /\ k - W + r + j \in Coord /\ k - W + j \in Coord
             /\ f[k - W + r + j][k - W + j] = s[k]
  <2>1. W \in Nat /\ N \in Nat /\ W - 1 - j \in 0..(W - 1)
        /\ k - (W - 1 - j) = k - W + j + 1 /\ k - W + j + 1 \in 1..N
    BY <1>2, Sizes
  <2>2. s[k - W + j + 1] = s[k]
    BY <1>2, <2>1
  <2>3. s[k - W + j + 1] = CellAt(f, k - W + r + j, k - W + j)
    <3>1. k - W + j + 1 - 1 = k - W + j /\ k - W + j + 1 - 1 + r = k - W + r + j
      BY <2>1
    <3>2. QED
      BY <1>1, <2>1, <3>1
  <2>4. QED
    BY <1>2, <2>1, <2>2, <2>3, CellAtFacts
<1>4. s[k] \in Player
  <2>1. s[k] \in Cell
    BY <1>1, CellAtFacts DEF N
  <2>2. QED
    BY <1>2, <2>1 DEF Cell
<1>5. \E l \in Lines : HoldsIn(f, s[k], l)
  <2> DEFINE d == <<1, 1>>
  <2>1. d \in Direction /\ d[1] = 1 /\ d[2] = 1
    BY DEF Direction
  <2>2. k - W + r \in Int /\ k - W \in Int
    BY Sizes
  <2>3. \A j \in 0..(W - 1) : k - W + r + j * d[1] = k - W + r + j /\ k - W + j * d[2] = k - W + j
    BY <2>1, <2>2
  <2> HIDE DEF d
  <2>4. \A j \in 0..(W - 1) : /\ k - W + r + j * d[1] \in Coord /\ k - W + j * d[2] \in Coord
                              /\ f[k - W + r + j * d[1]][k - W + j * d[2]] = s[k]
    BY <1>3, <2>3
  <2>5. /\ Line(k - W + r, k - W, d[1], d[2]) \in Lines
        /\ HoldsIn(f, s[k], Line(k - W + r, k - W, d[1], d[2]))
    BY <2>1, <2>2, <2>4, ChipsAreLine
  <2>6. QED
    BY <2>5
<1>6. QED
  BY <1>4, <1>5 DEF s

LEMMA AntiDiagonalRun ==
    ASSUME NEW f \in Board, NEW r \in Int, NEW k \in 1..(N - 1),
           RunEnds(AntiDiagonal(f, r), k, 1)
    PROVE  /\ AntiDiagonal(f, r)[k] \in Player
           /\ \E l \in Lines : HoldsIn(f, AntiDiagonal(f, r)[k], l)
<1> DEFINE s == AntiDiagonal(f, r)
<1>1. \A i \in 1..(N - 1) : s[i] = CellAt(f, N - 1 - i + r, i)
  BY DEF AntiDiagonal, N
<1>2. /\ k > W - 1 /\ s[k] # None
      /\ \A j \in 0..(W - 1) : s[k - j] = s[k]
  <2>1. W \in Nat
    BY Sizes
  <2>2. (W - 1) * 1 = W - 1 /\ \A j \in 0..(W - 1) : k - j * 1 = k - j
    BY <2>1
  <2>3. k \in Nat
    BY Sizes
  <2>4. QED
    BY <2>2, <2>3, RunCells
<1> HIDE DEF s
<1> DEFINE x == N - 1 - k + r
<1>3. ASSUME NEW j \in 0..(W - 1)
      PROVE  x + j \in Coord /\ k - j \in Coord /\ f[x + j][k - j] = s[k]
  <2>1. W \in Nat /\ N \in Nat /\ k - j \in 1..(N - 1) /\ N - 1 - (k - j) + r = x + j
        /\ x + j \in Int /\ k - j \in Int
    BY <1>2, Sizes
  <2> HIDE DEF x
  <2>2. s[k - j] = s[k] /\ s[k - j] = CellAt(f, x + j, k - j)
    BY <1>1, <1>2, <2>1
  <2>3. QED
    BY <1>2, <2>1, <2>2, CellAtFacts
<1>4. s[k] \in Player
  <2>1. s[k] \in Cell
    BY <1>1, CellAtFacts, Sizes
  <2>2. QED
    BY <1>2, <2>1 DEF Cell
<1>5. x \in Int /\ k \in Int
  BY Sizes
<1> HIDE DEF x
<1>6. \E l \in Lines : HoldsIn(f, s[k], l)
  <2> DEFINE d == <<1, -1>>
  <2>1. d \in Direction /\ d[1] = 1 /\ d[2] = -1
    BY DEF Direction
  <2>2. \A j \in 0..(W - 1) : x + j * d[1] = x + j /\ k + j * d[2] = k - j
    BY <1>5, <2>1, Sizes
  <2> HIDE DEF d
  <2>3. \A j \in 0..(W - 1) : /\ x + j * d[1] \in Coord /\ k + j * d[2] \in Coord
                              /\ f[x + j * d[1]][k + j * d[2]] = s[k]
    BY <1>3, <2>2
  <2>4. Line(x, k, d[1], d[2]) \in Lines /\ HoldsIn(f, s[k], Line(x, k, d[1], d[2]))
    BY <1>5, <2>1, <2>3, ChipsAreLine
  <2>5. QED
    BY <2>4
<1>7. QED
  BY <1>4, <1>6 DEF s

LEMMA ColumnsFacts ==
    ASSUME NEW f \in Board
    PROVE  /\ \A k \in 1..(N * N) : Columns(f)[k] = f[(k - 1) \div N][(k - 1) % N]
           /\ \A k \in 1..(N * N) : k - 1 \in 0..(N * N - 1)
           /\ \A k \in 1..(N * N) : Columns(f)[k] \in Cell
<1>1. \A k \in 1..(N * N) : Columns(f)[k] = f[(k - 1) \div N][(k - 1) % N]
  BY DEF Columns, N
<1>2. \A k \in 1..(N * N) : k - 1 \in 0..(N * N - 1)
  BY Sizes
<1>3. ASSUME NEW k \in 1..(N * N)
      PROVE  Columns(f)[k] \in Cell
  <2> DEFINE x == (k - 1) \div N
             y == (k - 1) % N
  <2>1. x \in Coord /\ y \in Coord
    BY <1>2, ColumnsOfCell
  <2>2. Columns(f)[k] = f[x][y]
    BY <1>1
  <2> HIDE DEF x, y
  <2>3. QED
    BY <2>1, <2>2 DEF Board
<1>4. QED
  BY <1>1, <1>2, <1>3

\* A run of neighbours in the order of the columns is a line, or goes over the edge.
LEMMA ColumnRun ==
    ASSUME NEW f \in Board, NEW k \in 1..(N * N), RunEnds(Columns(f), k, 1)
    PROVE  /\ Columns(f)[k] \in Player
           /\ \E l \in Lines \cup OverTheEdge : HoldsIn(f, Columns(f)[k], l)
<1> DEFINE s == Columns(f)
           b == k - W
           cells == {<<i \div N, i % N>> : i \in b..(b + W - 1)}
<1>1. k \in Nat /\ N \in Nat /\ W \in Nat /\ 1 <= W /\ N * N \in Nat
  BY Sizes
<1>2. /\ k > W - 1 /\ s[k] # None
      /\ \A j \in 0..(W - 1) : s[k - j] = s[k]
  <2>1. (W - 1) * 1 = W - 1 /\ \A j \in 0..(W - 1) : k - j * 1 = k - j
    BY <1>1
  <2>2. /\ k > (W - 1) * 1 /\ s[k] # None
        /\ \A j \in 0..(W - 1) : s[k - j * 1] = s[k]
    BY <1>1, RunCells
  <2> HIDE DEF s
  <2>3. QED
    BY <1>1, <2>1, <2>2
<1>3. b \in 0..(N * N - W) /\ b + W - 1 = k - 1
  BY <1>1, <1>2
<1>4. cells \in Lines \cup OverTheEdge
  BY <1>3 DEF OverTheEdge, N, W
<1>5. ASSUME NEW i \in b..(b + W - 1)
      PROVE  f[i \div N][i % N] = s[k]
  <2>1. i + 1 \in 1..(N * N) /\ k - 1 - i \in 0..(W - 1) /\ k - (k - 1 - i) = i + 1
        /\ i + 1 - 1 = i
    BY <1>1, <1>3
  <2>2. s[i + 1] = s[k]
    BY <1>2, <2>1
  <2>3. s[i + 1] = f[i \div N][i % N]
    BY <2>1, ColumnsFacts
  <2>4. QED
    BY <2>2, <2>3
<1>6. HoldsIn(f, s[k], cells)
  BY <1>5 DEF HoldsIn
<1>7. s[k] \in Player
  BY <1>2, ColumnsFacts DEF Cell
<1>8. QED
  BY <1>4, <1>6, <1>7

\* A run of cells one column apart is a row.
LEMMA RowRun ==
    ASSUME NEW f \in Board, NEW k \in 1..(N * N), RunEnds(Columns(f), k, FIELD_SIZE)
    PROVE  /\ Columns(f)[k] \in Player
           /\ \E l \in Lines : HoldsIn(f, Columns(f)[k], l)
<1> DEFINE s == Columns(f)
           q == (k - 1) \div N
           m == (k - 1) % N
<1>1. k \in Nat /\ N \in Nat /\ N >= 1 /\ W \in Nat /\ 1 <= W /\ W <= N /\ N * N \in Nat
  BY Sizes
<1>2. /\ k > (W - 1) * N /\ s[k] # None
      /\ \A j \in 0..(W - 1) : s[k - j * N] = s[k]
  BY <1>1, RunCells DEF N
<1>3. q \in Coord /\ m \in Coord /\ k - 1 = q * N + m
  BY ColumnsFacts, ColumnsOfCell
<1> HIDE DEF q, m
<1>4. q \in Nat /\ m \in Nat /\ q < N /\ m < N
  BY <1>1, <1>3 DEF Coord, N
<1>5. q >= W - 1
  <2>1. CASE q <= W - 2
    <3>1. q * N <= (W - 2) * N
      BY <1>1, <1>4, <2>1
    <3>2. (W - 2) * N = (W - 1) * N - N
      BY <1>1
    <3>3. (W - 1) * N \in Int /\ q * N \in Int
      BY <1>1, <1>4
    <3>4. QED
      BY <1>1, <1>2, <1>3, <1>4, <3>1, <3>2, <3>3
  <2>2. QED
    BY <1>1, <1>4, <2>1
<1>6. ASSUME NEW j \in 0..(W - 1)
      PROVE  q - j \in Coord /\ f[q - j][m] = s[k]
  <2>1. q - j \in Nat /\ q - j < N /\ q - j \in Int /\ j \in Int
    BY <1>1, <1>4, <1>5
  <2>2. q - j \in Coord
    BY <1>1, <2>1 DEF Coord, N
  <2>3. k - j * N - 1 = (q - j) * N + m
    <3>1. (q - j) * N = q * N - j * N
      BY <1>1, <1>4, <2>1
    <3>2. q * N \in Int /\ j * N \in Int
      BY <1>1, <1>4, <2>1
    <3>3. QED
      BY <1>1, <1>3, <1>4, <3>1, <3>2
  <2>4. k - j * N \in 1..(N * N)
    <3>1. j * N \in Nat /\ (q - j) * N \in Nat
      BY <1>1, <2>1
    <3>2. k - j * N >= 1
      BY <1>1, <1>4, <2>3, <3>1
    <3>3. QED
      BY <1>1, <3>1, <3>2
  <2>5. (k - j * N - 1) \div N = q - j /\ (k - j * N - 1) % N = m
    BY <1>4, <2>1, <2>3, CellOfColumns
  <2>6. s[k - j * N] = f[q - j][m]
    BY <2>4, <2>5, ColumnsFacts
  <2>7. QED
    BY <1>2, <2>2, <2>6
<1> DEFINE x == q - (W - 1)
<1>7. x \in Int /\ m \in Int
  BY <1>1, <1>4
<1>8. \A j \in 0..(W - 1) : /\ (W - 1) - j \in 0..(W - 1) /\ q - ((W - 1) - j) = x + j
  BY <1>1, <1>4
<1> HIDE DEF x
<1>9. \A j \in 0..(W - 1) : x + j \in Coord /\ f[x + j][m] = s[k]
  <2> TAKE j \in 0..(W - 1)
  <2>1. (W - 1) - j \in 0..(W - 1) /\ q - ((W - 1) - j) = x + j
    BY <1>8
  <2>2. QED
    BY <1>6, <2>1
<1>10. \E l \in Lines : HoldsIn(f, s[k], l)
  <2> DEFINE d == <<1, 0>>
  <2>1. d \in Direction /\ d[1] = 1 /\ d[2] = 0
    BY DEF Direction
  <2>2. \A j \in 0..(W - 1) : x + j * d[1] = x + j /\ m + j * d[2] = m
    BY <1>7, <2>1, Sizes
  <2> HIDE DEF d
  <2>3. \A j \in 0..(W - 1) : /\ x + j * d[1] \in Coord /\ m + j * d[2] \in Coord
                              /\ f[x + j * d[1]][m + j * d[2]] = s[k]
    BY <1>3, <1>9, <2>2
  <2>4. Line(x, m, d[1], d[2]) \in Lines /\ HoldsIn(f, s[k], Line(x, m, d[1], d[2]))
    BY <1>7, <2>1, <2>3, ChipsAreLine
  <2>5. QED
    BY <2>4
<1>11. s[k] \in Player
  BY <1>2, ColumnsFacts DEF Cell
<1>12. QED
  BY <1>10, <1>11

LEMMA FirstOfFacts ==
    ASSUME NEW s, NEW ends \in SUBSET Nat
    PROVE  /\ ends = {} => FirstOf(s, ends) = None
           /\ ends # {} => \E k \in ends : FirstOf(s, ends) = s[k]
<1>1. CASE ends = {}
  BY <1>1 DEF FirstOf
<1>2. CASE ends # {}
  <2> DEFINE k == CHOOSE k \in ends : \A l \in ends : k <= l
  <2>1. \E m \in ends : \A l \in ends : m <= l
    BY <1>2, LeastNatural
  <2>2. k \in ends
    BY <2>1
  <2>3. FirstOf(s, ends) = s[k]
    BY <1>2 DEF FirstOf
  <2>4. QED
    BY <1>2, <2>2, <2>3
<1>3. QED
  BY <1>1, <1>2

\* w has a line, or what the scans take for one.
Found(f, w) == w \in Player /\ \E l \in Lines \cup OverTheEdge : HoldsIn(f, w, l)

\* What a scan along one diagonal finds, and that it misses no run.
LEMMA DiagonalScan ==
    ASSUME NEW f \in Board, NEW r \in Int, NEW w, w = ScanLine(Diagonal(f, r))
    PROVE  /\ w # None => Found(f, w)
           /\ w = None => \A k \in 1..N : ~RunEnds(Diagonal(f, r), k, 1)
<1> DEFINE s == Diagonal(f, r)
           ends == {k \in DOMAIN s : RunEnds(s, k, 1)}
<1>1. DOMAIN s = 1..N /\ ends \in SUBSET Nat /\ N \in Nat
  BY Sizes DEF Diagonal, N
<1>2. w = FirstOf(s, ends)
  BY DEF ScanLine
<1>3. \A k \in ends : k \in 1..N /\ RunEnds(s, k, 1)
  BY <1>1
<1>4. \A k \in ends : s[k] # None /\ Found(f, s[k])
  BY <1>3, DiagonalRun DEF Found, RunEnds
<1>5. CASE ends = {}
  <2>1. w = None /\ \A k \in 1..N : ~RunEnds(s, k, 1)
    BY <1>1, <1>2, <1>5, FirstOfFacts
  <2>2. QED
    BY <2>1
<1>6. CASE ends # {}
  <2>1. w # None /\ Found(f, w)
    <3> HIDE DEF ends, s
    <3>1. PICK k \in ends : w = s[k]
      BY <1>1, <1>2, <1>6, FirstOfFacts
    <3>2. QED
      BY <1>4, <3>1
  <2>2. QED
    BY <2>1
<1>7. QED
  BY <1>5, <1>6

LEMMA AntiDiagonalScan ==
    ASSUME NEW f \in Board, NEW r \in Int, NEW w, w = ScanLine(AntiDiagonal(f, r))
    PROVE  /\ w # None => Found(f, w)
           /\ w = None => \A k \in 1..(N - 1) : ~RunEnds(AntiDiagonal(f, r), k, 1)
<1> DEFINE s == AntiDiagonal(f, r)
           ends == {k \in DOMAIN s : RunEnds(s, k, 1)}
<1>1. DOMAIN s = 1..(N - 1) /\ ends \in SUBSET Nat
  BY Sizes DEF AntiDiagonal, N
<1>2. w = FirstOf(s, ends)
  BY DEF ScanLine
<1>3. \A k \in ends : k \in 1..(N - 1) /\ RunEnds(s, k, 1)
  BY <1>1
<1>4. \A k \in ends : s[k] # None /\ Found(f, s[k])
  BY <1>3, AntiDiagonalRun DEF Found, RunEnds
<1>5. CASE ends = {}
  <2>1. w = None /\ \A k \in 1..(N - 1) : ~RunEnds(s, k, 1)
    BY <1>1, <1>2, <1>5, FirstOfFacts
  <2>2. QED
    BY <2>1
<1>6. CASE ends # {}
  <2>1. w # None /\ Found(f, w)
    <3> HIDE DEF ends, s
    <3>1. PICK k \in ends : w = s[k]
      BY <1>1, <1>2, <1>6, FirstOfFacts
    <3>2. QED
      BY <1>4, <3>1
  <2>2. QED
    BY <2>1
<1>7. QED
  BY <1>5, <1>6

LEMMA ColumnsScan ==
    ASSUME NEW f \in Board, NEW w, w = ScanColumns(Columns(f))
    PROVE  /\ w # None => Found(f, w)
           /\ w = None => \A k \in 1..(N * N) : /\ ~RunEnds(Columns(f), k, 1)
                                                /\ ~RunEnds(Columns(f), k, FIELD_SIZE)
<1> DEFINE s == Columns(f)
           ends == {k \in DOMAIN s : RunEnds(s, k, 1) \/ RunEnds(s, k, FIELD_SIZE)}
<1>1. DOMAIN s = 1..(N * N) /\ ends \in SUBSET Nat
  BY Sizes DEF Columns, N
<1>2. w = FirstOf(s, ends)
  BY DEF ScanColumns
<1>3. \A k \in ends : k \in 1..(N * N) /\ (RunEnds(s, k, 1) \/ RunEnds(s, k, FIELD_SIZE))
  BY <1>1
<1>4. \A k \in ends : s[k] # None /\ Found(f, s[k])
  <2> TAKE k \in ends
  <2>1. CASE RunEnds(s, k, 1)
    BY <1>3, <2>1, ColumnRun DEF Found, RunEnds
  <2>2. CASE RunEnds(s, k, FIELD_SIZE)
    BY <1>3, <2>2, RowRun DEF Found, RunEnds
  <2>3. QED
    BY <1>3, <2>1, <2>2
<1>5. CASE ends = {}
  <2>1. w = None /\ \A k \in 1..(N * N) : ~RunEnds(s, k, 1) /\ ~RunEnds(s, k, FIELD_SIZE)
    BY <1>1, <1>2, <1>5, FirstOfFacts
  <2>2. QED
    BY <2>1
<1>6. CASE ends # {}
  <2>1. w # None /\ Found(f, w)
    <3> HIDE DEF ends, s
    <3>1. PICK k \in ends : w = s[k]
      BY <1>1, <1>2, <1>6, FirstOfFacts
    <3>2. QED
      BY <1>4, <3>1
  <2>2. QED
    BY <2>1
<1>7. QED
  BY <1>5, <1>6

\* All the scans together.
LEMMA CheckWin ==
    ASSUME NEW f \in Board, NEW w, w = check_win_internal(f)
    PROVE  /\ w # None => Found(f, w)
           /\ w = None =>
                /\ \A r \in (-RANGE)..RANGE : ScanLine(Diagonal(f, r)) = None
                /\ \A r \in (-RANGE)..RANGE : ScanLine(AntiDiagonal(f, r)) = None
                /\ ScanColumns(Columns(f)) = None
<1> DEFINE scans == Scans(f)
           ends == {n \in DOMAIN scans : scans[n] # None}
<1>1. RANGE \in Nat
  BY Sizes
<1>2. DOMAIN scans = 1..(4 * RANGE + 3) /\ ends \in SUBSET Nat
  BY <1>1 DEF Scans
<1>3. w = FirstOf(scans, ends)
  BY DEF check_win_internal
<1>4. scans[4 * RANGE + 3] = ScanColumns(Columns(f))
  BY <1>1 DEF Scans
<1>5. ASSUME NEW r \in (-RANGE)..RANGE
      PROVE  /\ 2 * (r + RANGE) + 1 \in 1..(4 * RANGE + 3)
             /\ scans[2 * (r + RANGE) + 1] = ScanLine(Diagonal(f, r))
             /\ 2 * (r + RANGE) + 2 \in 1..(4 * RANGE + 3)
             /\ scans[2 * (r + RANGE) + 2] = ScanLine(AntiDiagonal(f, r))
  <2> DEFINE n == 2 * (r + RANGE) + 1
  <2>1. /\ n \in 1..(4 * RANGE + 3) /\ n # 4 * RANGE + 3
        /\ n % 2 = 1 /\ (n - 1) \div 2 - RANGE = r
    BY <1>1
  <2>2. /\ n + 1 \in 1..(4 * RANGE + 3) /\ n + 1 # 4 * RANGE + 3
        /\ (n + 1) % 2 # 1 /\ ((n + 1) - 1) \div 2 - RANGE = r
    BY <1>1
  <2>3. n + 1 = 2 * (r + RANGE) + 2
    BY <1>1
  <2> HIDE DEF n
  <2>4. scans[n] = ScanLine(Diagonal(f, r))
    BY <2>1 DEF Scans
  <2>5. scans[n + 1] = ScanLine(AntiDiagonal(f, r))
    BY <2>2 DEF Scans
  <2>6. QED
    BY <2>1, <2>2, <2>3, <2>4, <2>5 DEF n
<1>6. ASSUME NEW n \in 1..(4 * RANGE + 3)
      PROVE  \/ scans[n] = ScanColumns(Columns(f))
             \/ \E r \in Int : \/ scans[n] = ScanLine(Diagonal(f, r))
                               \/ scans[n] = ScanLine(AntiDiagonal(f, r))
  <2>1. (n - 1) \div 2 - RANGE \in Int
    BY <1>1
  <2>2. QED
    BY <2>1 DEF Scans
<1>7. \A n \in ends : scans[n] # None /\ Found(f, scans[n])
  BY <1>2, <1>6, DiagonalScan, AntiDiagonalScan, ColumnsScan
<1>8. CASE ends = {}
  <2>1. \A n \in 1..(4 * RANGE + 3) : scans[n] = None
    BY <1>2, <1>8
  <2>2. 4 * RANGE + 3 \in 1..(4 * RANGE + 3)
    BY <1>1
  <2>3. w = None
    BY <1>2, <1>3, <1>8, FirstOfFacts
  <2> HIDE DEF scans
  <2>4. QED
    BY <1>4, <1>5, <2>1, <2>2, <2>3
<1>9. CASE ends # {}
  <2> HIDE DEF ends, scans
  <2>1. PICK n \in ends : w = scans[n]
    BY <1>2, <1>3, <1>9, FirstOfFacts
  <2>2. QED
    BY <1>7, <2>1
<1>10. QED
  BY <1>8, <1>9

\* A line the scans look at is found.
LEMMA LineIsFound ==
    ASSUME NEW f \in Board, check_win_internal(f) = None,
           NEW p \in Player, NEW l \in Lines \ Unseen
    PROVE  ~HoldsIn(f, p, l)
<1> SUFFICES ASSUME HoldsIn(f, p, l) PROVE FALSE
  OBVIOUS
<1>1. N \in Nat /\ N >= 1 /\ W \in Nat /\ 1 <= W /\ W <= N /\ RANGE \in Nat
      /\ RANGE = N - W /\ N * N \in Nat
  BY Sizes
<1>2. PICK x \in Coord, y \in Coord, d \in Direction :
         l = Line(x, y, d[1], d[2]) /\ l \subseteq Coord \X Coord
  BY DEF Lines, Direction
<1>3. x \in Nat /\ y \in Nat /\ x < N /\ y < N
  BY <1>1 DEF Coord, N
<1>4. \A j \in 0..(W - 1) : /\ x + j * d[1] \in Coord /\ y + j * d[2] \in Coord
                            /\ f[x + j * d[1]][y + j * d[2]] = p
  <2> TAKE j \in 0..(W - 1)
  <2>1. <<x + j * d[1], y + j * d[2]>> \in l
    BY <1>2 DEF Line, W
  <2>2. QED
    BY <1>2, <2>1 DEF HoldsIn
<1>5. p # None
  BY GameAssumption DEF Player
<1>6. W - 1 \in 0..(W - 1)
  BY <1>1
<1>7. CASE d = <<1, 1>>
  <2> DEFINE r == x - y
             k == y + W
             s == Diagonal(f, r)
  <2>1. \A j \in 0..(W - 1) : /\ x + j \in Coord /\ y + j \in Coord
                              /\ f[x + j][y + j] = p
    <3>1. d[1] = 1 /\ d[2] = 1
      BY <1>7
    <3>2. \A j \in 0..(W - 1) : j * 1 = j
      BY <1>1
    <3>3. QED
      BY <1>4, <3>1, <3>2
  <2>2. x + W - 1 < N /\ y + W - 1 < N
    BY <1>1, <1>3, <1>6, <2>1 DEF Coord, N
  <2>3. r \in (-RANGE)..RANGE /\ k \in 1..N /\ k > (W - 1) * 1 /\ r \in Int
    BY <1>1, <1>3, <2>2
  <2>4. ASSUME NEW j \in 0..(W - 1)
        PROVE  s[k - j * 1] = p
    <3>1. /\ k - j * 1 \in 1..N /\ W - 1 - j \in 0..(W - 1)
          /\ (k - j * 1) - 1 + r = x + (W - 1 - j) /\ (k - j * 1) - 1 = y + (W - 1 - j)
      BY <1>1, <1>3, <2>2
    <3>2. s[k - j * 1] = CellAt(f, x + (W - 1 - j), y + (W - 1 - j))
      <4> HIDE DEF k, r
      <4>1. s[k - j * 1] = CellAt(f, (k - j * 1) - 1 + r, (k - j * 1) - 1)
        BY <3>1 DEF Diagonal, N
      <4>2. QED
        BY <3>1, <4>1
    <3>3. QED
      BY <2>1, <3>1, <3>2 DEF CellAt
  <2>5. s[k] = p
    <3>1. 0 \in 0..(W - 1) /\ k - 0 * 1 = k
      BY <1>1, <1>3
    <3> HIDE DEF k, s
    <3>2. QED
      BY <2>4, <3>1
  <2> HIDE DEF k, s, r
  <2>6. RunEnds(s, k, 1)
    <3>1. \A j \in 1..(W - 1) : j \in 0..(W - 1)
      BY <1>1
    <3>2. QED
      BY <1>5, <2>3, <2>4, <2>5, <3>1 DEF RunEnds, W
  <2>7. ScanLine(s) = None
    BY <2>3, CheckWin DEF s
  <2>8. QED
    BY <2>3, <2>6, <2>7, DiagonalScan DEF s
<1>8. CASE d = <<1, -1>>
  <2> DEFINE r == x + y - N + 1
             s == AntiDiagonal(f, r)
  <2>1. \A j \in 0..(W - 1) : /\ x + j \in Coord /\ y - j \in Coord
                              /\ f[x + j][y - j] = p
    <3>1. d[1] = 1 /\ d[2] = -1
      BY <1>8
    <3>2. \A j \in 0..(W - 1) : j * 1 = j /\ y + j * (-1) = y - j
      BY <1>1, <1>3
    <3>3. QED
      BY <1>4, <3>1, <3>2
  <2>2. x + W - 1 < N /\ y - (W - 1) >= 0
    BY <1>1, <1>3, <1>6, <2>1 DEF Coord, N
  <2>3. y # W - 1
    <3>1. l = Line(x, y, 1, -1)
      BY <1>2, <1>8
    <3>2. QED
      BY <3>1 DEF Unseen, W
  <2>4. r \in (-RANGE)..RANGE /\ y \in 1..(N - 1) /\ y > (W - 1) * 1 /\ r \in Int
    BY <1>1, <1>3, <2>2, <2>3
  <2>5. ASSUME NEW j \in 0..(W - 1)
        PROVE  s[y - j * 1] = p
    <3>1. /\ y - j * 1 \in 1..(N - 1) /\ y - j * 1 = y - j
          /\ N - 1 - (y - j * 1) + r = x + j
      BY <1>1, <1>3, <2>2, <2>4
    <3>2. s[y - j * 1] = CellAt(f, x + j, y - j)
      <4> HIDE DEF r
      <4>1. s[y - j * 1] = CellAt(f, N - 1 - (y - j * 1) + r, y - j * 1)
        BY <3>1 DEF AntiDiagonal, N
      <4>2. QED
        BY <3>1, <4>1
    <3>3. QED
      BY <2>1, <3>2 DEF CellAt
  <2>6. s[y] = p
    <3>1. 0 \in 0..(W - 1) /\ y - 0 * 1 = y
      BY <1>1, <1>3
    <3> HIDE DEF s
    <3>2. QED
      BY <2>5, <3>1
  <2> HIDE DEF s, r
  <2>7. RunEnds(s, y, 1)
    <3>1. \A j \in 1..(W - 1) : j \in 0..(W - 1)
      BY <1>1
    <3>2. QED
      BY <1>5, <2>4, <2>5, <2>6, <3>1 DEF RunEnds, W
  <2>8. ScanLine(s) = None
    BY <2>4, CheckWin DEF s
  <2>9. QED
    BY <2>4, <2>7, <2>8, AntiDiagonalScan DEF s
<1> DEFINE s == Columns(f)
<1>9. ASSUME NEW a \in Coord, NEW b \in Coord
      PROVE  a * N + b + 1 \in 1..(N * N) /\ s[a * N + b + 1] = f[a][b]
  <2>1. a \in Nat /\ b \in Nat /\ a <= N - 1 /\ b < N
    BY <1>1 DEF Coord, N
  <2>2. a * N \in Nat /\ a * N <= (N - 1) * N /\ (N - 1) * N = N * N - N
    BY <1>1, <2>1
  <2>3. a * N + b + 1 \in 1..(N * N) /\ (a * N + b + 1) - 1 = a * N + b
    BY <1>1, <2>1, <2>2
  <2>4. (a * N + b) \div N = a /\ (a * N + b) % N = b
    BY <1>1, <2>1, CellOfColumns
  <2>5. \A k \in 1..(N * N) : s[k] = f[(k - 1) \div N][(k - 1) % N]
    BY ColumnsFacts
  <2> HIDE DEF s
  <2>6. \A k \in 1..(N * N) : k - 1 = a * N + b => s[k] = f[a][b]
    BY <2>4, <2>5
  <2>7. QED
    BY <2>3, <2>6
<1>10. ScanColumns(s) = None
  BY CheckWin
<1>11. \A k \in 1..(N * N) : ~RunEnds(s, k, 1) /\ ~RunEnds(s, k, N)
  BY <1>10, ColumnsScan DEF N
<1> HIDE DEF s
<1>12. CASE d = <<0, 1>>
  <2> DEFINE k == x * N + (y + (W - 1)) + 1
  <2>1. \A j \in 0..(W - 1) : y + j \in Coord /\ f[x][y + j] = p
    <3>1. d[1] = 0 /\ d[2] = 1
      BY <1>12
    <3>2. \A j \in 0..(W - 1) : j * 1 = j /\ x + j * 0 = x
      BY <1>1, <1>3
    <3>3. QED
      BY <1>4, <3>1, <3>2
  <2>2. x * N \in Nat
    BY <1>1, <1>3
  <2>3. k \in 1..(N * N)
    BY <1>6, <1>9, <2>1
  <2>4. k > (W - 1) * 1
    BY <1>1, <1>3, <2>2
  <2>5. ASSUME NEW j \in 0..(W - 1)
        PROVE  s[k - j * 1] = p
    <3>1. W - 1 - j \in 0..(W - 1) /\ k - j * 1 = x * N + (y + (W - 1 - j)) + 1
      BY <1>1, <1>3, <2>2
    <3> HIDE DEF k
    <3>2. s[k - j * 1] = f[x][y + (W - 1 - j)]
      BY <1>9, <2>1, <3>1
    <3>3. QED
      BY <2>1, <3>1, <3>2
  <2>6. s[k] = p
    <3>1. 0 \in 0..(W - 1) /\ k - 0 * 1 = k
      BY <1>1, <1>3, <2>2
    <3> HIDE DEF k
    <3>2. QED
      BY <2>5, <3>1
  <2> HIDE DEF k
  <2>7. RunEnds(s, k, 1)
    <3>1. \A j \in 1..(W - 1) : j \in 0..(W - 1)
      BY <1>1
    <3>2. QED
      BY <1>5, <2>4, <2>5, <2>6, <3>1 DEF RunEnds, W
  <2>8. QED
    BY <1>11, <2>3, <2>7
<1>13. CASE d = <<1, 0>>
  <2> DEFINE k == (x + (W - 1)) * N + y + 1
  <2>1. \A j \in 0..(W - 1) : x + j \in Coord /\ f[x + j][y] = p
    <3>1. d[1] = 1 /\ d[2] = 0
      BY <1>13
    <3>2. \A j \in 0..(W - 1) : j * 1 = j /\ y + j * 0 = y
      BY <1>1, <1>3
    <3>3. QED
      BY <1>4, <3>1, <3>2
  <2>2. k \in 1..(N * N)
    BY <1>6, <1>9, <2>1
  <2>3. \A j \in 0..(W - 1) : k - j * N = (x + (W - 1 - j)) * N + y + 1
    <3> TAKE j \in 0..(W - 1)
    <3>1. x + (W - 1) \in Nat /\ j \in Nat /\ x + (W - 1 - j) = (x + (W - 1)) - j
      BY <1>1, <1>3
    <3>2. ((x + (W - 1)) - j) * N = (x + (W - 1)) * N - j * N
      BY <1>1, <3>1
    <3>3. (x + (W - 1)) * N \in Nat /\ j * N \in Nat
      BY <1>1, <3>1
    <3>4. QED
      BY <1>3, <3>1, <3>2, <3>3
  <2>4. k > (W - 1) * N
    <3>1. (x + (W - 1)) * N = x * N + (W - 1) * N /\ x * N \in Nat /\ (W - 1) * N \in Nat
      BY <1>1, <1>3
    <3>2. QED
      BY <1>3, <3>1
  <2> HIDE DEF k
  <2>5. ASSUME NEW j \in 0..(W - 1)
        PROVE  s[k - j * N] = p
    <3>1. W - 1 - j \in 0..(W - 1)
      BY <1>1
    <3>2. QED
      BY <1>3, <1>9, <2>1, <2>3, <3>1
  <2>6. s[k] = p
    <3>1. 0 \in 0..(W - 1) /\ k - 0 * N = k
      BY <1>1, <2>2
    <3>2. QED
      BY <2>5, <3>1
  <2>7. RunEnds(s, k, N)
    <3>1. \A j \in 1..(W - 1) : j \in 0..(W - 1)
      BY <1>1
    <3>2. QED
      BY <1>5, <2>4, <2>5, <2>6, <3>1 DEF RunEnds, W
  <2>8. QED
    BY <1>11, <2>2, <2>7
<1>14. QED
  BY <1>7, <1>8, <1>12, <1>13 DEF Direction

-------------------------------------------------------------------------------
(* The board                                                                *)

\* What a rematch waits for: whoever is entered as asking has asked.
RequestsAreKept ==
    /\ start_notified => asked = Player
    /\ winner # None => winner.requesting_rematch \in asked \cup {None}

\* What has been sent or recorded comes from a game that was won, and a record
\* takes the one settlement id of the lobby.
RecordsAreCounted ==
    /\ winner # None => won_games >= 1
    /\ played_games # <<>> => won_games >= 1
    /\ operations # {} => won_games >= 1
    /\ Len(games) = IF operations = {} THEN 0 ELSE 1

\* No chip hangs in the air.
NoChipHangs ==
    \A x, y \in Coord : field[x][y] # None =>
        \A below \in Coord : below > y => field[x][below] # None

LobbyInv ==
    /\ TypeOK
    /\ FourIsFound /\ WinnerHasFour /\ BoardIsLegal
    /\ RequestsAreKept /\ RecordsAreCounted

LEMMA Players ==
    /\ One # Two /\ One # None /\ Two # None /\ Player = {One, Two}
    /\ \A p \in Player : Other(p) \in Player /\ Other(p) # p /\ Other(Other(p)) = p
                         /\ p # None /\ Player = {p, Other(p)}
  BY GameAssumption DEF Player, Other

ChipsIn(f, p) == {c \in Coord \X Coord : f[c[1]][c[2]] = p}

LEMMA ChipsFinite ==
    ASSUME NEW f, NEW p
    PROVE  IsFiniteSet(ChipsIn(f, p)) /\ Cardinality(ChipsIn(f, p)) \in Nat
<1>1. IsFiniteSet(Coord)
  BY Sizes, FS_Interval DEF Coord, N
<1>2. IsFiniteSet(Coord \X Coord)
  BY <1>1, FS_Product
<1>3. ChipsIn(f, p) \subseteq Coord \X Coord
  BY DEF ChipsIn
<1>4. QED
  BY <1>2, <1>3, FS_Subset, FS_CardinalityType

\* An empty board has no line and no chip.
LEMMA EmptyBoard ==
    /\ Empty \in Board
    /\ \A l \in Lines : \A p \in Player : ~HoldsIn(Empty, p, l)
    /\ \A x, y \in Coord : Empty[x][y] = None
    /\ \A p \in Player : Cardinality(ChipsIn(Empty, p)) = 0
<1>1. Empty \in Board /\ \A x, y \in Coord : Empty[x][y] = None
  BY DEF Empty, Board, Cell
<1>2. ASSUME NEW l \in Lines, NEW p \in Player
      PROVE  ~HoldsIn(Empty, p, l)
  <2>1. PICK x \in Coord, y \in Coord, d \in Direction :
           l = Line(x, y, d[1], d[2]) /\ l \subseteq Coord \X Coord
    BY DEF Lines, Direction
  <2>2. 0 \in 0..(W - 1)
    BY Sizes
  <2>3. <<x + 0 * d[1], y + 0 * d[2]>> \in l
    BY <2>1, <2>2 DEF Line, W
  <2>4. PICK c \in l : c \in Coord \X Coord
    BY <2>1, <2>3
  <2>5. Empty[c[1]][c[2]] = None
    BY <1>1, <2>4
  <2>6. QED
    BY <2>4, <2>5, Players DEF HoldsIn
<1>3. ASSUME NEW p \in Player
      PROVE  Cardinality(ChipsIn(Empty, p)) = 0
  <2>1. ChipsIn(Empty, p) = {}
    BY <1>1, Players DEF ChipsIn
  <2>2. QED
    BY <2>1, FS_EmptySet
<1>4. QED
  BY <1>1, <1>2, <1>3

\* A fresh board is as it should be.
LEMMA FreshBoard ==
    ASSUME field' = Empty, turn' \in Player, winner' = None
    PROVE  (GameTypeOK /\ FourIsFound /\ WinnerHasFour /\ BoardIsLegal)'
<1>1. GameTypeOK'
  BY EmptyBoard DEF GameTypeOK, Board
<1>2. FourIsFound'
  <2>1. \A l \in Lines : \A p \in Player : ~(Holds(p, l)')
    BY EmptyBoard DEF Holds, HoldsIn
  <2>2. QED
    BY <2>1 DEF FourIsFound
<1>3. WinnerHasFour'
  BY DEF WinnerHasFour
<1>4. BoardIsLegal'
  <2>1. \A p \in Player : Chips(p)' = 0
    BY EmptyBoard DEF Chips, ChipsIn
  <2>2. Chips(Other(turn))' = 0 /\ Chips(turn)' = 0
    BY <2>1, Players
  <2>3. QED
    BY <2>2, EmptyBoard DEF BoardIsLegal
<1>5. QED
  BY <1>1, <1>2, <1>3, <1>4

LEMMA LineCells ==
    ASSUME NEW l \in Lines \cup OverTheEdge, NEW c \in l
    PROVE  c[1] \in Coord /\ c[2] \in Coord
<1>1. CASE l \in Lines
  <2>1. c \in Coord \X Coord
    BY <1>1 DEF Lines
  <2>2. QED
    BY <2>1
<1>2. CASE l \in OverTheEdge
  <2>1. PICK b \in 0..(N * N - W) : l = {<<k \div N, k % N>> : k \in b..(b + W - 1)}
    BY <1>2 DEF OverTheEdge, N, W
  <2>2. PICK k \in b..(b + W - 1) : c = <<k \div N, k % N>>
    BY <2>1
  <2>3. k \in 0..(N * N - 1)
    BY Sizes
  <2>4. k \div N \in Coord /\ k % N \in Coord
    BY <2>3, ColumnsOfCell
  <2>5. QED
    BY <2>2, <2>4
<1>3. QED
  BY <1>1, <1>2

\* A move keeps the board as it should be.
LEMMA MoveKeepsBoard ==
    ASSUME GameTypeOK, FourIsFound, WinnerHasFour, BoardIsLegal,
           NEW p \in Player, NEW x \in Coord, NEW y \in Coord, place_chip(p, x, y)
    PROVE  /\ (GameTypeOK /\ FourIsFound /\ WinnerHasFour /\ BoardIsLegal)'
           /\ Completes(p, x, y) \in Cell
<1> DEFINE won == Completes(p, x, y)
           g == [field EXCEPT ![x][y] = p]
<1>1. /\ p = turn /\ Lowest(x, y) /\ field' = g /\ turn' = Other(p)
      /\ winner' = IF won = None THEN winner
                   ELSE [winner |-> won, requesting_rematch |-> None]
  BY DEF place_chip
<1>2. field \in Board /\ g \in Board /\ p \in Cell
  BY DEF GameTypeOK, Board, Cell
<1>3. /\ g[x][y] = p /\ field[x][y] = None
      /\ \A a, b \in Coord : a # x \/ b # y => g[a][b] = field[a][b]
  BY <1>1, <1>2 DEF Lowest, Board
<1>4. won = check_win_internal(g)
  BY DEF Completes
<1> HIDE DEF g, won
<1>5. won # None => Found(g, won)
  BY <1>2, <1>4, CheckWin
<1>6. won \in Cell
  BY <1>5 DEF Found, Cell
<1>7. GameTypeOK'
  <2>1. turn' \in Player
    BY <1>1, Players
  <2>2. winner' \in WinnerInfo \cup {None}
    BY <1>1, <1>6 DEF GameTypeOK, WinnerInfo, Cell
  <2>3. QED
    BY <1>1, <1>2, <2>1, <2>2 DEF GameTypeOK, Board
<1>8. FourIsFound'
  <2> SUFFICES ASSUME winner' = None, NEW l \in Lines \ Unseen, NEW q \in Player
               PROVE  ~(Holds(q, l)')
    BY DEF FourIsFound
  <2>1. won = None
    <3> SUFFICES ASSUME won # None PROVE FALSE
      OBVIOUS
    <3>1. winner' \in WinnerInfo
      BY <1>1, <1>6 DEF WinnerInfo, Cell
    <3>2. QED
      BY <3>1, NoneIsNoWinner
  <2>2. ~HoldsIn(g, q, l)
    BY <1>2, <1>4, <2>1, LineIsFound
  <2>3. QED
    BY <1>1, <2>2 DEF Holds, HoldsIn
<1>9. WinnerHasFour'
  <2>1. CASE won # None
    <3>1. winner'.winner = won
      BY <1>1, <2>1
    <3>2. PICK l \in Lines \cup OverTheEdge : HoldsIn(g, won, l)
      BY <1>5, <2>1 DEF Found
    <3>3. Holds(winner.winner, l)'
      BY <1>1, <3>1, <3>2 DEF Holds, HoldsIn
    <3>4. QED
      BY <3>3 DEF WinnerHasFour
  <2>2. CASE won = None
    <3> SUFFICES ASSUME winner # None
                 PROVE  \E l \in Lines \cup OverTheEdge : Holds(winner.winner, l)'
      BY <1>1, <2>2 DEF WinnerHasFour
    <3>1. PICK l \in Lines \cup OverTheEdge : Holds(winner.winner, l)
      BY DEF WinnerHasFour
    <3>2. winner.winner # None /\ winner' = winner
      BY <1>1, <2>2, Players DEF GameTypeOK, WinnerInfo
    <3>3. ASSUME NEW c \in l
          PROVE  g[c[1]][c[2]] = winner.winner
      <4>1. field[c[1]][c[2]] = winner.winner
        BY <3>1 DEF Holds
      <4>2. c[1] \in Coord /\ c[2] \in Coord
        BY LineCells
      <4>3. c[1] # x \/ c[2] # y
        BY <1>3, <3>2, <4>1
      <4>4. QED
        BY <1>3, <4>1, <4>2, <4>3
    <3>4. QED
      BY <1>1, <3>2, <3>3 DEF Holds
  <2>3. QED
    BY <2>1, <2>2
<1>10. BoardIsLegal'
  <2>1. \A a, b \in Coord : g[a][b] # None =>
            \A below \in Coord : below > b => g[a][below] # None
    <3> SUFFICES ASSUME NEW a \in Coord, NEW b \in Coord, g[a][b] # None,
                        NEW below \in Coord, below > b
                 PROVE  g[a][below] # None
      OBVIOUS
    <3>1. CASE a = x /\ b = y
      <4>1. field[x][below] # None
        <5>1. below \in Int /\ y \in Int /\ ~(below <= y)
          BY <3>1, Sizes DEF Coord, N
        <5>2. QED
          BY <1>1, <5>1 DEF Lowest
      <4>2. below # y
        BY <3>1, Sizes DEF Coord, N
      <4>3. QED
        BY <1>3, <3>1, <4>1, <4>2
    <3>2. CASE a # x \/ b # y
      <4>1. field[a][b] # None
        BY <1>3, <3>2
      <4>2. field[a][below] # None
        BY <4>1 DEF BoardIsLegal
      <4>3. QED
        BY <1>3, <4>2, Players
    <3>3. QED
      BY <3>1, <3>2
  <2>2. Chips(p)' = Chips(p) + 1 /\ Chips(p) \in Nat
    <3>1. ChipsIn(g, p) = ChipsIn(field, p) \cup {<<x, y>>} /\ <<x, y>> \notin ChipsIn(field, p)
      <4>1. \A c \in Coord \X Coord : c = <<c[1], c[2]>> /\ c[1] \in Coord /\ c[2] \in Coord
        OBVIOUS
      <4>2. \A c \in Coord \X Coord : (g[c[1]][c[2]] = p) <=>
                                      (field[c[1]][c[2]] = p \/ c = <<x, y>>)
        BY <1>3, <4>1, Players
      <4>3. QED
        BY <1>3, <4>2, Players DEF ChipsIn
    <3>2. Cardinality(ChipsIn(g, p)) = Cardinality(ChipsIn(field, p)) + 1
      BY <3>1, ChipsFinite, FS_AddElement
    <3>3. Chips(p)' = Cardinality(ChipsIn(g, p)) /\ Chips(p) = Cardinality(ChipsIn(field, p))
      BY <1>1 DEF Chips, ChipsIn
    <3>4. QED
      BY <3>2, <3>3, ChipsFinite
  <2>3. Chips(Other(p))' = Chips(Other(p)) /\ Chips(Other(p)) \in Nat
    <3>1. ChipsIn(g, Other(p)) = ChipsIn(field, Other(p))
      <4>1. \A c \in Coord \X Coord : c[1] \in Coord /\ c[2] \in Coord
        OBVIOUS
      <4>2. \A c \in Coord \X Coord : (g[c[1]][c[2]] = Other(p)) <=>
                                      (field[c[1]][c[2]] = Other(p))
        BY <1>3, <4>1, Players
      <4>3. QED
        BY <4>2 DEF ChipsIn
    <3>2. /\ Chips(Other(p))' = Cardinality(ChipsIn(g, Other(p)))
          /\ Chips(Other(p)) = Cardinality(ChipsIn(field, Other(p)))
      BY <1>1 DEF Chips, ChipsIn
    <3>3. QED
      BY <3>1, <3>2, ChipsFinite
  <2>4. Chips(Other(p)) - Chips(p) \in {0, 1}
    BY <1>1 DEF BoardIsLegal
  <2>5. Chips(Other(turn))' = Chips(p)' /\ Chips(turn)' = Chips(Other(p))'
    BY <1>1, Players
  <2>6. (Chips(Other(turn)) - Chips(turn))' \in {0, 1}
    BY <2>2, <2>3, <2>4, <2>5
  <2>7. QED
    BY <1>1, <2>1, <2>6 DEF BoardIsLegal
<1>11. QED
  BY <1>6, <1>7, <1>8, <1>9, <1>10 DEF won

-------------------------------------------------------------------------------
(* The lobby                                                                *)

LEMMA RemoveOne ==
    ASSUME NEW i \in 1..Len(played_games), played_games \in Seq(PlayedGame),
           played_games' = [k \in 1..(Len(played_games) - 1) |->
                                played_games[IF k < i THEN k ELSE k + 1]]
    PROVE  played_games' \in Seq(PlayedGame) /\ played_games # <<>>
<1>1. Len(played_games) \in Nat /\ Len(played_games) >= 1
  BY LenProperties
<1>2. \A k \in 1..(Len(played_games) - 1) :
          (IF k < i THEN k ELSE k + 1) \in 1..Len(played_games)
  BY <1>1
<1>3. \A k \in 1..Len(played_games) : played_games[k] \in PlayedGame
  BY ElementOfSeq
<1>4. \A k \in 1..(Len(played_games) - 1) :
          played_games[IF k < i THEN k ELSE k + 1] \in PlayedGame
  BY <1>2, <1>3
<1>5. Len(played_games) - 1 \in Nat
  BY <1>1
<1>6. played_games' \in Seq(PlayedGame)
  BY <1>4, <1>5, IsASeq
<1>7. played_games # <<>>
  BY <1>1
<1>8. QED
  BY <1>6, <1>7

LEMMA Start == Init => LobbyInv
<1> SUFFICES ASSUME Init PROVE LobbyInv
  OBVIOUS
<1> USE DEF Init, GameInit
<1>1. TypeOK
  BY EmptyBoard, EmptySeq DEF TypeOK, GameTypeOK, Board
<1>2. FourIsFound
  BY EmptyBoard DEF FourIsFound, Holds, HoldsIn
<1>3. WinnerHasFour
  BY DEF WinnerHasFour
<1>4. BoardIsLegal
  <2>1. \A p \in Player : Chips(p) = 0
    BY EmptyBoard DEF Chips, ChipsIn
  <2>2. Chips(Other(turn)) = 0 /\ Chips(turn) = 0
    BY <2>1, Players
  <2>3. QED
    BY <2>2, EmptyBoard DEF BoardIsLegal
<1>5. RequestsAreKept /\ RecordsAreCounted
  BY EmptySeq DEF RequestsAreKept, RecordsAreCounted
<1>6. QED
  BY <1>1, <1>2, <1>3, <1>4, <1>5 DEF LobbyInv

\* What leaves the board alone keeps what is said of it.
LEMMA BoardAlone ==
    ASSUME FourIsFound, WinnerHasFour, BoardIsLegal, UNCHANGED <<field, turn>>,
           winner' = None <=> winner = None, winner # None => winner'.winner = winner.winner
    PROVE  (FourIsFound /\ WinnerHasFour /\ BoardIsLegal)'
<1>1. FourIsFound'
  BY DEF FourIsFound, Holds
<1>2. WinnerHasFour'
  BY DEF WinnerHasFour, Holds
<1>3. BoardIsLegal'
  BY DEF BoardIsLegal, Chips
<1>4. QED
  BY <1>1, <1>2, <1>3

LEMMA ResetKeeps ==
    ASSUME LobbyInv, ResetGame, start_notified' = FALSE, start_timer' \in BOOLEAN
    PROVE  LobbyInv'
<1>1. field' = Empty /\ turn' \in Player /\ winner' = None
  BY DEF ResetGame, reset
<1>2. (GameTypeOK /\ FourIsFound /\ WinnerHasFour /\ BoardIsLegal)'
  BY <1>1, FreshBoard
<1>3. TypeOK'
  BY <1>2 DEF LobbyInv, TypeOK, ResetGame, dbVars
<1>4. (RequestsAreKept /\ RecordsAreCounted)'
  BY <1>1 DEF LobbyInv, RequestsAreKept, RecordsAreCounted, ResetGame, dbVars
<1>5. QED
  BY <1>2, <1>3, <1>4 DEF LobbyInv

LEMMA Step == LobbyInv /\ [Next]_vars => LobbyInv'
<1> SUFFICES ASSUME LobbyInv, [Next]_vars PROVE LobbyInv'
  OBVIOUS
<1>0. TypeOK /\ FourIsFound /\ WinnerHasFour /\ BoardIsLegal /\ RequestsAreKept
      /\ RecordsAreCounted /\ GameTypeOK
  BY DEF LobbyInv, TypeOK
<1>1. ASSUME NEW p \in Player, NEW x \in Coord, PlaceChip(p, x)
      PROVE  LobbyInv'
  <2> PICK y \in Coord :
        LET won == Completes(p, x, y) IN
        /\ place_chip(p, x, y)
        /\ played_games' = IF won # None /\ registered
                THEN Append(played_games, [settlement_id |-> game_oid, winner |-> won])
                ELSE played_games
        /\ won_games' = IF won # None /\ winner = None THEN won_games + 1 ELSE won_games
        /\ late_moves' = IF winner = None THEN 0 ELSE late_moves + 1
        /\ UNCHANGED <<registered, start_timer, start_notified, dbVars, asked>>
    BY <1>1 DEF PlaceChip
  <2> DEFINE won == Completes(p, x, y)
  <2>1. /\ (GameTypeOK /\ FourIsFound /\ WinnerHasFour /\ BoardIsLegal)'
        /\ won \in Cell
    BY <1>0, MoveKeepsBoard
  <2>2. winner' = IF won = None THEN winner
                  ELSE [winner |-> won, requesting_rematch |-> None]
    BY DEF place_chip
  <2> HIDE DEF won
  <2>3. played_games' \in Seq(PlayedGame)
    <3>1. CASE won # None /\ registered
      <4>1. [settlement_id |-> game_oid, winner |-> won] \in PlayedGame
        BY <2>1, <3>1 DEF PlayedGame, Cell
      <4>2. QED
        BY <1>0, <3>1, <4>1, AppendProperties DEF TypeOK, won
    <3>2. CASE ~(won # None /\ registered)
      BY <1>0, <3>2 DEF TypeOK, won
    <3>3. QED
      BY <3>1, <3>2
  <2>4. TypeOK'
    BY <1>0, <2>1, <2>3 DEF TypeOK, dbVars
  <2>5. RequestsAreKept'
    BY <1>0, <2>2 DEF RequestsAreKept
  <2>6. /\ won_games' = IF won # None /\ winner = None THEN won_games + 1 ELSE won_games
        /\ won_games \in Nat
    BY <1>0 DEF won, TypeOK
  <2>7. won # None => won_games' >= 1
    BY <1>0, <2>6 DEF RecordsAreCounted
  <2>8. won_games >= 1 => won_games' >= 1
    BY <2>6
  <2>9. played_games' # <<>> => won # None \/ played_games # <<>>
    BY DEF won
  <2>10. RecordsAreCounted'
    BY <1>0, <2>2, <2>7, <2>8, <2>9 DEF RecordsAreCounted, dbVars
  <2>11. QED
    BY <2>1, <2>4, <2>5, <2>10 DEF LobbyInv
<1>2. ASSUME NEW p \in Player, PlayAgainRequest(p)
      PROVE  LobbyInv'
  <2>1. /\ winner # None /\ winner \in WinnerInfo
        /\ winner' = [winner EXCEPT !.requesting_rematch = IF @ = None THEN p ELSE @]
        /\ start_notified' = (start_notified \/ winner.requesting_rematch = Other(p))
        /\ asked' = asked \cup {p}
        /\ UNCHANGED <<field, turn, registered, start_timer, played_games, operations, games,
                       settle_failed, won_games, late_moves>>
    BY <1>0, <1>2 DEF PlayAgainRequest, GameTypeOK, dbVars
  <2>2. winner' \in WinnerInfo /\ winner'.winner = winner.winner
        /\ winner'.requesting_rematch \in {winner.requesting_rematch, p}
    BY <2>1 DEF WinnerInfo, Cell
  <2>3. winner' # None
    BY <2>2, NoneIsNoWinner
  <2>4. TypeOK'
    BY <1>0, <2>1, <2>2 DEF TypeOK, GameTypeOK
  <2>5. (FourIsFound /\ WinnerHasFour /\ BoardIsLegal)'
    BY <1>0, <2>1, <2>2, <2>3, BoardAlone
  <2>6. RequestsAreKept'
    <3>1. winner'.requesting_rematch \in asked' \cup {None}
      BY <1>0, <2>1, <2>2 DEF RequestsAreKept
    <3>2. ASSUME start_notified' PROVE asked' = Player
      <4>1. CASE start_notified
        BY <1>0, <2>1, <4>1 DEF RequestsAreKept
      <4>2. CASE winner.requesting_rematch = Other(p)
        <5>1. Other(p) \in asked
          BY <1>0, <2>1, <4>2, Players DEF RequestsAreKept
        <5>2. asked \subseteq Player
          BY <1>0 DEF TypeOK
        <5>3. QED
          BY <2>1, <5>1, <5>2, Players
      <4>3. QED
        BY <2>1, <3>2, <4>1, <4>2
    <3>3. QED
      BY <3>1, <3>2 DEF RequestsAreKept
  <2>7. RecordsAreCounted'
    BY <1>0, <2>1 DEF RecordsAreCounted
  <2>8. QED
    BY <2>4, <2>5, <2>6, <2>7 DEF LobbyInv
<1>3. CASE FirstStart
  BY <1>3, ResetKeeps DEF FirstStart
<1>4. CASE Rematch
  <2>1. start_timer' \in BOOLEAN
    BY <1>0, <1>4 DEF Rematch, TypeOK
  <2>2. QED
    BY <1>4, <2>1, ResetKeeps DEF Rematch
<1>5. ASSUME NEW i \in 1..Len(played_games), Settle(i) \/ SettleFails(i)
      PROVE  LobbyInv'
  <2>1. /\ played_games' = [k \in 1..(Len(played_games) - 1) |->
                                played_games[IF k < i THEN k ELSE k + 1]]
        /\ UNCHANGED <<field, turn, winner, registered, start_timer, start_notified,
                       won_games, late_moves, asked>>
    BY <1>5 DEF Settle, SettleFails, gameVars
  <2>2. played_games' \in Seq(PlayedGame) /\ won_games >= 1
        /\ played_games[i] \in PlayedGame
    BY <1>0, <2>1, RemoveOne, ElementOfSeq DEF TypeOK, RecordsAreCounted
  <2>3. (FourIsFound /\ WinnerHasFour /\ BoardIsLegal)'
    BY <1>0, <2>1, BoardAlone
  <2>4. RequestsAreKept'
    BY <1>0, <2>1 DEF RequestsAreKept
  <2>5. CASE Settle(i)
    <3> DEFINE id == played_games[i].settlement_id
    <3>1. id = game_oid /\ played_games[i].winner \in Player
      BY <2>2 DEF PlayedGame
    <3>2. /\ games' = IF id \in operations THEN games ELSE Append(games, played_games[i].winner)
          /\ operations' = operations \cup {id}
          /\ settle_failed' = settle_failed
      BY <2>5 DEF Settle
    <3> HIDE DEF id
    <3>3. games \in Seq(Player) /\ operations \subseteq {game_oid}
      BY <1>0 DEF TypeOK
    <3>4. games' \in Seq(Player) /\ operations' = {game_oid}
      BY <3>1, <3>2, <3>3, AppendProperties
    <3>5. Len(games') = 1
      <4>1. CASE id \in operations
        BY <1>0, <3>2, <4>1 DEF RecordsAreCounted
      <4>2. CASE id \notin operations
        <5>1. operations = {}
          BY <3>1, <3>3, <4>2
        <5>2. Len(games) = 0
          BY <1>0, <5>1 DEF RecordsAreCounted
        <5>3. Len(games') = Len(games) + 1
          BY <3>1, <3>2, <3>3, <4>2, AppendProperties
        <5>4. QED
          BY <5>2, <5>3
      <4>3. QED
        BY <4>1, <4>2
    <3>6. TypeOK'
      BY <1>0, <2>1, <2>2, <3>2, <3>4 DEF TypeOK, GameTypeOK
    <3>7. RecordsAreCounted'
      BY <2>1, <2>2, <3>4, <3>5 DEF RecordsAreCounted
    <3>8. QED
      BY <2>3, <2>4, <3>6, <3>7 DEF LobbyInv
  <2>6. CASE SettleFails(i)
    <3>1. settle_failed' = TRUE /\ UNCHANGED <<operations, games>>
      BY <2>6 DEF SettleFails
    <3>2. TypeOK'
      BY <1>0, <2>1, <2>2, <3>1 DEF TypeOK, GameTypeOK
    <3>3. RecordsAreCounted'
      BY <1>0, <2>1, <2>2, <3>1 DEF RecordsAreCounted
    <3>4. QED
      BY <2>3, <2>4, <3>2, <3>3 DEF LobbyInv
  <2>7. QED
    BY <1>5, <2>5, <2>6
<1>6. CASE UNCHANGED vars
  <2>1. TypeOK'
    BY <1>0, <1>6 DEF vars, gameVars, dbVars, TypeOK, GameTypeOK
  <2>2. (FourIsFound /\ WinnerHasFour /\ BoardIsLegal)'
    BY <1>0, <1>6, BoardAlone DEF vars, gameVars
  <2>3. (RequestsAreKept /\ RecordsAreCounted)'
    BY <1>0, <1>6 DEF vars, gameVars, dbVars, RequestsAreKept, RecordsAreCounted
  <2>4. QED
    BY <2>1, <2>2, <2>3 DEF LobbyInv
<1>7. QED
  BY <1>1, <1>2, <1>3, <1>4, <1>5, <1>6 DEF Next

\* The inductive invariant of a lobby, for boards and lines of any size.
THEOREM LobbyInvariant == Spec => []LobbyInv
<1>1. Init => LobbyInv
  BY Start
<1>2. LobbyInv /\ [Next]_vars => LobbyInv'
  BY Step
<1>3. QED
  BY <1>1, <1>2, PTL DEF Spec

\* check_win_internal misses no line but those that rise into the top row: on a
\* board of any size, for lines of any length and in every game of the lobby.
THEOREM FourIsAlwaysFound == Spec => []FourIsFound
<1>1. LobbyInv => FourIsFound
  BY DEF LobbyInv
<1>2. QED
  BY <1>1, LobbyInvariant, PTL

\* Nobody is told to have won without a line or a run over the edge of a column.
THEOREM NobodyWinsWithLess == Spec => []WinnerHasFour
<1>1. LobbyInv => WinnerHasFour
  BY DEF LobbyInv
<1>2. QED
  BY <1>1, LobbyInvariant, PTL

\* place_chip and reset keep chips on the ground and the players in turn.
THEOREM BoardStaysLegal == Spec => []BoardIsLegal
<1>1. LobbyInv => BoardIsLegal
  BY DEF LobbyInv
<1>2. QED
  BY <1>1, LobbyInvariant, PTL

\* settle_game records a game once at most, however many moves come too late.
THEOREM RecordedOnce == Spec => []NeverRecordedTwice
<1>1. LobbyInv => NeverRecordedTwice
  <2> SUFFICES ASSUME LobbyInv PROVE Len(games) <= won_games
    BY DEF NeverRecordedTwice
  <2>1. /\ Len(games) = IF operations = {} THEN 0 ELSE 1
        /\ operations # {} => won_games >= 1
        /\ won_games \in Nat
    BY DEF LobbyInv, RecordsAreCounted, TypeOK
  <2>2. QED
    BY <2>1
<1>2. QED
  BY <1>1, LobbyInvariant, PTL

\* A game is cleared for a rematch only when both players have asked for it.
THEOREM RematchNeedsBoth == Spec => RematchIsMutual
<1>1. LobbyInv /\ [Next]_vars => [Rematch => asked = Player]_vars
  BY DEF LobbyInv, RequestsAreKept, Rematch
<1>2. QED
  BY <1>1, LobbyInvariant, PTL DEF Spec, RematchIsMutual
===============================================================================
