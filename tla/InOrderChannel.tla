---------------------------- MODULE InOrderChannel ----------------------------
(***************************************************************************)
(* What the reliable layer of the WebSocket link promises for each of its  *)
(* two directions (README.md: "delivery and order"): the messages handed   *)
(* to the receiver are the messages handed to the sender, in the order in  *)
(* which they were sent, each of them once.  Several messages may be       *)
(* released at a time, when a gap before them is filled.                   *)
(***************************************************************************)
EXTENDS Naturals, Sequences

CONSTANT Msg            \* the payloads

VARIABLES
    sent,               \* the messages the sender has accepted
    delivered           \* the messages the receiver has been given

chan == <<sent, delivered>>

Init ==
    /\ sent = <<>>
    /\ delivered = <<>>

Send == \E m \in Msg :
    /\ sent' = Append(sent, m)
    /\ UNCHANGED delivered

\* The receiver is given the next messages, up to some later position.
Deliver == \E n \in (Len(delivered) + 1)..Len(sent) :
    /\ delivered' = [i \in 1..n |-> sent[i]]
    /\ UNCHANGED sent

Next == Send \/ Deliver

Spec == Init /\ [][Next]_chan
===============================================================================
