------------------------------- MODULE MCPresence ------------------------------
(* A user with two api tokens and two sockets for TLC.                     *)
EXTENDS Presence, TLC

CONSTANTS alice, a1, a2, c1, c2

OneUser == a1 :> alice @@ a2 :> alice

\* The sockets are alike, and so are the tokens: c1 says HELLO first, and the first
\* LOGIN is with a1.
InOrder ==
    /\ connection_state[c1] = "NotConnected" => connection_state[c2] = "NotConnected"
    /\ logins = 1 => \A s \in Conn : login[s] # a2 /\ a2 \notin used[s]
===============================================================================
