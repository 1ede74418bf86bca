----------------------------- MODULE MCMatchmaking -----------------------------
(* Small instances of Matchmaking for TLC.                                 *)
EXTENDS Matchmaking

\* Clients, lobbies and game ids are only compared for equality.
Symmetry == Permutations(Client) \cup Permutations(Lobby) \cup Permutations(GameId)
===============================================================================
