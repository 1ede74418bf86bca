--------------------------- MODULE MCPlayerRepository ---------------------------
(* Two players who play each other, for TLC.                               *)
EXTENDS PlayerRepository, TLC

CONSTANTS p, q, s1, s2

PWins == s1 :> p @@ s2 :> p
QLoses == s1 :> q @@ s2 :> q

\* The futures are alike, and so are the settlements.
RepositorySymmetry == Permutations(Task) \cup Permutations(Settlement)
===============================================================================
