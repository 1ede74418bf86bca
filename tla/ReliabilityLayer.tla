--------------------------- MODULE ReliabilityLayer ---------------------------
(***************************************************************************)
(* ClientAdapter (src/game/client_adapter.rs): the actor that numbers,     *)
(* acknowledges, re-sends and re-orders the messages between one client    *)
(* and its ClientState, across the WebSocket connections the client opens  *)
(* one after the other.                                                    *)
(*                                                                         *)
(* Abstractions.  A wire packet "MSG::<id>::<payload>" is a record         *)
(* [id, msg], "ACK::<id>" is the id.  The link is four sets of packets     *)
(* that have been written and not lost: a packet may be read in any order, *)
(* any number of times (an old socket can still hand over what a newer one *)
(* has overtaken), or be lost (with the socket that carried it).           *)
(* ctx.notify() spawns a future of the actor's own; pending notifications  *)
(* are sets too, handled in any order.  Time is left out: any queued       *)
(* message may be overdue when the re-send interval fires.  The client is  *)
(* not in the repository; it is modelled as the peer this code expects: it *)
(* numbers its messages from 1, keeps each until it is acknowledged, and   *)
(* acknowledges what it takes in order.  The adapter of a legacy client,   *)
(* which has no ids and no re-sending, is not modelled here.               *)
(*                                                                         *)
(* An operator described as a mistake is not the code: it takes the place  *)
(* of the definition after it to show that a property would notice.        *)
(***************************************************************************)
EXTENDS Naturals, Sequences

CONSTANTS
    Msg,                \* payloads
    MaxPlayerMsgs,      \* bound: messages the client issues
    MaxServerMsgs,      \* bound: messages the server issues
    MaxCopies,          \* bound: copies of one packet in player_msg_q
    RPKT_RETRY_LIMIT    \* transmissions after the first (16 in the code)

ASSUME BoundsAssumption ==
    /\ MaxPlayerMsgs \in Nat
    /\ MaxServerMsgs \in Nat
    /\ MaxCopies \in Nat \ {0}
    /\ RPKT_RETRY_LIMIT \in Nat

PlayerIds == 1..MaxPlayerMsgs
ServerIds == 1..MaxServerMsgs
PlayerPacket == [id : PlayerIds, msg : Msg]
ServerPacket == [id : ServerIds, msg : Msg]
\* QueuedMessage<ServerMessage>, and ReliablePacketOut::Msg on its way to the
\* handler that writes it.
QueuedMessage == [id : ServerIds, msg : Msg, retry_count : 0..(RPKT_RETRY_LIMIT + 1)]

VARIABLES
    \* ClientAdapter
    running,            \* FALSE once ctx.stop() was called
    client_connection,  \* "Connected" or "Disconnected"
    player_msg_index,   \* last player message taken in order
    player_msg_q,       \* copies held of each player packet ahead of a gap
    server_msg_index,   \* last id given to a server message
    server_msg_q,       \* server messages written and not acknowledged
    notified_msgs,      \* ReliablePacketOut::Msg notified, not yet handled
    notified_acks,      \* ReliablePacketOut::Ack notified, not yet handled
    \* ClientState, as far as the adapter sees it
    client_state_up,    \* its mailbox still accepts messages
    forwarded,          \* the player messages it has been handed
    said,               \* the server messages it has handed to the adapter
    \* the client
    issued,             \* the player messages it has sent, by id
    unacked,            \* ids it still keeps for re-sending
    received,           \* the server messages it has taken
    \* the link
    up, up_acks,        \* from the client: packets, acknowledged ids
    down, down_acks,    \* to the client: packets, acknowledged ids
    \* history
    transmissions       \* how often each server message was written

adapterVars == <<running, client_connection, player_msg_index, player_msg_q,
                 server_msg_index, server_msg_q, notified_msgs, notified_acks>>
stateVars == <<client_state_up, forwarded, said>>
clientVars == <<issued, unacked, received>>
linkVars == <<up, up_acks, down, down_acks>>
vars == <<adapterVars, stateVars, clientVars, linkVars, transmissions>>

AdapterTypeOK ==
    /\ running \in BOOLEAN
    /\ client_connection \in {"Connected", "Disconnected"}
    /\ player_msg_index \in 0..MaxPlayerMsgs
    /\ player_msg_q \in [PlayerPacket -> 0..MaxCopies]
    /\ server_msg_index \in 0..MaxServerMsgs
    /\ server_msg_q \subseteq QueuedMessage
    /\ notified_msgs \subseteq QueuedMessage
    /\ notified_acks \subseteq 0..MaxPlayerMsgs

StateTypeOK ==
    /\ client_state_up \in BOOLEAN
    /\ forwarded \in Seq(Msg)
    /\ said \in Seq(Msg)

ClientTypeOK ==
    /\ issued \in Seq(Msg)
    /\ Len(issued) <= MaxPlayerMsgs
    /\ unacked \subseteq 1..Len(issued)
    /\ received \in Seq(Msg)

LinkTypeOK ==
    /\ up \subseteq PlayerPacket
    /\ up_acks \subseteq ServerIds
    /\ down \subseteq ServerPacket
    /\ down_acks \subseteq 0..MaxPlayerMsgs
    /\ transmissions \in [ServerIds -> Nat]

TypeOK == AdapterTypeOK /\ StateTypeOK /\ ClientTypeOK /\ LinkTypeOK

\* A new adapter (ClientAdapter::new): connected, every index 0, queues empty.
Init ==
    /\ running = TRUE
    /\ client_connection = "Connected"
    /\ player_msg_index = 0
    /\ player_msg_q = [p \in PlayerPacket |-> 0]
    /\ server_msg_index = 0
    /\ server_msg_q = {}
    /\ notified_msgs = {}
    /\ notified_acks = {}
    /\ client_state_up = TRUE
    /\ forwarded = <<>>
    /\ said = <<>>
    /\ issued = <<>>
    /\ unacked = {}
    /\ received = <<>>
    /\ up = {}
    /\ up_acks = {}
    /\ down = {}
    /\ down_acks = {}
    /\ transmissions = [i \in ServerIds |-> 0]

-------------------------------------------------------------------------------
(* The client and the link.                                                *)

ClientIssue(m) ==
    LET id == Len(issued) + 1 IN
    /\ id \in PlayerIds
    /\ issued' = Append(issued, m)
    /\ unacked' = unacked \cup {id}
    /\ up' = up \cup {[id |-> id, msg |-> m]}
    /\ UNCHANGED <<adapterVars, stateVars, received, up_acks, down, down_acks,
                   transmissions>>

ClientResend(id) ==
    /\ id \in unacked
    /\ up' = up \cup {[id |-> id, msg |-> issued[id]]}
    /\ UNCHANGED <<adapterVars, stateVars, clientVars, up_acks, down, down_acks,
                   transmissions>>

ClientTakeAck(id) ==
    /\ id \in down_acks
    /\ unacked' = unacked \ {id}
    /\ UNCHANGED <<adapterVars, stateVars, issued, received, linkVars, transmissions>>

\* The client takes the next message, acknowledges what it already has, and
\* ignores what is ahead of a gap.
ClientTakeMsg(p) ==
    /\ p \in down
    /\ p.id <= Len(received) + 1
    /\ received' = IF p.id = Len(received) + 1 THEN Append(received, p.msg) ELSE received
    /\ up_acks' = up_acks \cup {p.id}
    /\ UNCHANGED <<adapterVars, stateVars, issued, unacked, up, down, down_acks,
                   transmissions>>

Lose ==
    /\ \/ /\ \E p \in up : up' = up \ {p}
          /\ UNCHANGED <<up_acks, down, down_acks>>
       \/ /\ \E id \in up_acks : up_acks' = up_acks \ {id}
          /\ UNCHANGED <<up, down, down_acks>>
       \/ /\ \E p \in down : down' = down \ {p}
          /\ UNCHANGED <<up, up_acks, down_acks>>
       \/ /\ \E id \in down_acks : down_acks' = down_acks \ {id}
          /\ UNCHANGED <<up, up_acks, down>>
    /\ UNCHANGED <<adapterVars, stateVars, clientVars, transmissions>>

-------------------------------------------------------------------------------
(* received_reliable_pkt: a packet of the client arrives.  It does so in   *)
(* either connection state: the socket that hands it over need not be the  *)
(* one the adapter writes to.                                              *)

Queued(id) == \E m \in Msg : player_msg_q[[id |-> id, msg |-> m]] > 0

\* A mistake in process_queue: the arriving payload is used for every message.
PayloadOfArrival(p, id) == p.msg

\* The payload of player message id when p arrives: p's own, or a queued one.
Payload(p, id) ==
    IF id = p.id THEN p.msg
    ELSE CHOOSE m \in Msg : player_msg_q[[id |-> id, msg |-> m]] > 0

\* process_queue: after p, the queued messages without a gap are forwarded up
\* to the message `last`; one copy of each leaves the queue.
ProcessedUpTo(p, last) ==
    /\ \A id \in (p.id + 1)..last : Queued(id)
    /\ last + 1 \in PlayerIds => ~Queued(last + 1)

\* The expected message: it and the queued messages that follow it without a
\* gap are forwarded and acknowledged.  When ClientState is gone the send()
\* fails and the adapter stops; what it had notified is dropped with it.
RecvExpected(p) == \E last \in p.id..MaxPlayerMsgs :
    /\ running
    /\ p \in up
    /\ p.id = player_msg_index + 1
    /\ ProcessedUpTo(p, last)
    /\ player_msg_index' = last
    /\ forwarded' = IF client_state_up
            THEN forwarded \o [k \in 1..(last - player_msg_index) |->
                                  Payload(p, player_msg_index + k)]
            ELSE forwarded
    /\ running' = client_state_up
    /\ player_msg_q' = [q \in PlayerPacket |->
            IF q.id \in (p.id + 1)..last /\ q.msg = Payload(p, q.id)
            THEN player_msg_q[q] - 1 ELSE player_msg_q[q]]
    /\ notified_acks' = notified_acks \cup p.id..last
    /\ UNCHANGED <<client_connection, server_msg_index, server_msg_q, notified_msgs,
                   client_state_up, said, clientVars, linkVars, transmissions>>

\* A mistake: a message beyond a gap is acknowledged by its own id, and dropped.
RecvAheadDropped(p) ==
    /\ running
    /\ p \in up
    /\ p.id > player_msg_index + 1
    /\ notified_acks' = notified_acks \cup {p.id}
    /\ UNCHANGED <<running, client_connection, player_msg_index, player_msg_q,
                   server_msg_index, server_msg_q, notified_msgs, stateVars, clientVars,
                   linkVars, transmissions>>

\* A message beyond a gap: queued (again, if it was already), and the last
\* message taken is acknowledged once more.
RecvAhead(p) ==
    /\ running
    /\ p \in up
    /\ p.id > player_msg_index + 1
    /\ player_msg_q[p] < MaxCopies
    /\ player_msg_q' = [player_msg_q EXCEPT ![p] = @ + 1]
    /\ notified_acks' = notified_acks \cup {player_msg_index}
    /\ UNCHANGED <<running, client_connection, player_msg_index, server_msg_index,
                   server_msg_q, notified_msgs, stateVars, clientVars, linkVars,
                   transmissions>>

\* A message taken before: acknowledged, not processed.
RecvKnown(p) ==
    /\ running
    /\ p \in up
    /\ p.id <= player_msg_index
    /\ notified_acks' = notified_acks \cup {p.id}
    /\ UNCHANGED <<running, client_connection, player_msg_index, player_msg_q,
                   server_msg_index, server_msg_q, notified_msgs, stateVars, clientVars,
                   linkVars, transmissions>>

RecvMsg(p) == RecvExpected(p) \/ RecvAhead(p) \/ RecvKnown(p)

\* ReliablePacketIn::Ack removes the message from the queue, if it is there
\* (it is not while its re-send is notified and not yet handled).
RecvAck(id) ==
    /\ running
    /\ id \in up_acks
    /\ server_msg_q' = {q \in server_msg_q : q.id # id}
    /\ UNCHANGED <<running, client_connection, player_msg_index, player_msg_q,
                   server_msg_index, notified_msgs, notified_acks, stateVars, clientVars,
                   linkVars, transmissions>>

-------------------------------------------------------------------------------
(* Server messages.                                                        *)

\* A mistake: the id that was given last is given again.
SendServerMessageSameId(m) ==
    LET id == IF server_msg_index = 0 THEN 1 ELSE server_msg_index IN
    /\ running /\ client_state_up
    /\ id \in ServerIds
    /\ server_msg_index' = id
    /\ notified_msgs' = notified_msgs \cup {[id |-> id, msg |-> m, retry_count |-> 0]}
    /\ said' = Append(said, m)
    /\ Len(said) < MaxServerMsgs
    /\ UNCHANGED <<running, client_connection, player_msg_index, player_msg_q,
                   server_msg_q, notified_acks, client_state_up, forwarded, clientVars,
                   linkVars, transmissions>>

\* Handler<ServerMessage>: the message gets the next id.
SendServerMessage(m) ==
    LET id == server_msg_index + 1 IN
    /\ running /\ client_state_up
    /\ id \in ServerIds
    /\ server_msg_index' = id
    /\ notified_msgs' = notified_msgs \cup {[id |-> id, msg |-> m, retry_count |-> 0]}
    /\ said' = Append(said, m)
    /\ UNCHANGED <<running, client_connection, player_msg_index, player_msg_q,
                   server_msg_q, notified_acks, client_state_up, forwarded, clientVars,
                   linkVars, transmissions>>

\* Handler<ReliablePacketOut>, Connected: the message is queued and written.
Transmit(r) ==
    /\ running /\ r \in notified_msgs
    /\ client_connection = "Connected"
    /\ r.retry_count <= RPKT_RETRY_LIMIT
    /\ notified_msgs' = notified_msgs \ {r}
    /\ server_msg_q' = server_msg_q \cup {[r EXCEPT !.retry_count = @ + 1]}
    /\ down' = down \cup {[id |-> r.id, msg |-> r.msg]}
    /\ transmissions' = [transmissions EXCEPT ![r.id] = @ + 1]
    /\ UNCHANGED <<running, client_connection, player_msg_index, player_msg_q,
                   server_msg_index, notified_acks, stateVars, clientVars, up, up_acks,
                   down_acks>>

\* Handler<ReliablePacketOut>, Connected, after too many retries.
GiveUp(r) ==
    /\ running /\ r \in notified_msgs
    /\ client_connection = "Connected"
    /\ r.retry_count > RPKT_RETRY_LIMIT
    /\ running' = FALSE
    /\ UNCHANGED <<client_connection, player_msg_index, player_msg_q, server_msg_index,
                   server_msg_q, notified_msgs, notified_acks, stateVars, clientVars,
                   linkVars, transmissions>>

\* Two mistakes: a message notified while Disconnected is dropped, like an
\* acknowledgement, or is charged for a transmission that did not happen.
ParkDropped(r) ==
    /\ running /\ r \in notified_msgs
    /\ client_connection = "Disconnected"
    /\ notified_msgs' = notified_msgs \ {r}
    /\ UNCHANGED <<running, client_connection, player_msg_index, player_msg_q,
                   server_msg_index, server_msg_q, notified_acks, stateVars, clientVars,
                   linkVars, transmissions>>

ParkCharged(r) ==
    /\ running /\ r \in notified_msgs
    /\ client_connection = "Disconnected"
    /\ notified_msgs' = notified_msgs \ {r}
    /\ server_msg_q' = server_msg_q \cup {[r EXCEPT !.retry_count = @ + 1]}
    /\ UNCHANGED <<running, client_connection, player_msg_index, player_msg_q,
                   server_msg_index, notified_acks, stateVars, clientVars, linkVars,
                   transmissions>>

\* Handler<ReliablePacketOut>, Disconnected: the message waits in the queue.
Park(r) ==
    /\ running /\ r \in notified_msgs
    /\ client_connection = "Disconnected"
    /\ notified_msgs' = notified_msgs \ {r}
    /\ server_msg_q' = server_msg_q \cup {r}
    /\ UNCHANGED <<running, client_connection, player_msg_index, player_msg_q,
                   server_msg_index, notified_acks, stateVars, clientVars, linkVars,
                   transmissions>>

\* Handler<ReliablePacketOut> for an acknowledgement: written when Connected,
\* dropped when Disconnected.
WriteAck(id) ==
    /\ running /\ id \in notified_acks
    /\ notified_acks' = notified_acks \ {id}
    /\ down_acks' = IF client_connection = "Connected" THEN down_acks \cup {id}
                    ELSE down_acks
    /\ UNCHANGED <<running, client_connection, player_msg_index, player_msg_q,
                   server_msg_index, server_msg_q, notified_msgs, stateVars, clientVars,
                   up, up_acks, down, transmissions>>

\* resend_queued_interval: the overdue messages leave the queue and are
\* notified for re-sending; the others stay.
ResendQueued(overdue) ==
    /\ running /\ overdue \subseteq server_msg_q /\ overdue # {}
    /\ server_msg_q' = server_msg_q \ overdue
    /\ notified_msgs' = notified_msgs \cup overdue
    /\ UNCHANGED <<running, client_connection, player_msg_index, player_msg_q,
                   server_msg_index, notified_acks, stateVars, clientVars, linkVars,
                   transmissions>>

-------------------------------------------------------------------------------
(* ClientAdapterMsg, sent by ConnectionManager and ClientState.            *)

Connect ==
    /\ running
    /\ client_connection' = "Connected"
    /\ UNCHANGED <<running, player_msg_index, player_msg_q, server_msg_index, server_msg_q,
                   notified_msgs, notified_acks, stateVars, clientVars, linkVars,
                   transmissions>>

Disconnect ==
    /\ running
    /\ client_connection' = "Disconnected"
    /\ UNCHANGED <<running, player_msg_index, player_msg_q, server_msg_index, server_msg_q,
                   notified_msgs, notified_acks, stateVars, clientVars, linkVars,
                   transmissions>>

Close ==
    /\ running
    /\ running' = FALSE
    /\ UNCHANGED <<client_connection, player_msg_index, player_msg_q, server_msg_index,
                   server_msg_q, notified_msgs, notified_acks, stateVars, clientVars,
                   linkVars, transmissions>>

\* ClientState stops, before the adapter (its stopping() then sends Close) or
\* because the adapter stopped.
ClientStateStops ==
    /\ client_state_up
    /\ client_state_up' = FALSE
    /\ UNCHANGED <<adapterVars, forwarded, said, clientVars, linkVars, transmissions>>

-------------------------------------------------------------------------------
Client ==
    \/ \E m \in Msg : ClientIssue(m)
    \/ \E id \in unacked : ClientResend(id)
    \/ \E id \in down_acks : ClientTakeAck(id)
    \/ \E p \in down : ClientTakeMsg(p)

Adapter ==
    \/ \E p \in up : RecvMsg(p)
    \/ \E id \in up_acks : RecvAck(id)
    \/ \E m \in Msg : SendServerMessage(m)
    \/ \E r \in notified_msgs : Transmit(r) \/ GiveUp(r) \/ Park(r)
    \/ \E id \in notified_acks : WriteAck(id)
    \/ \E overdue \in SUBSET server_msg_q : ResendQueued(overdue)
    \/ Connect \/ Disconnect \/ Close

Next == Client \/ Adapter \/ Lose \/ ClientStateStops

Spec == Init /\ [][Next]_vars

-------------------------------------------------------------------------------
(* Safety.                                                                 *)

\* ClientState is handed the client's messages in the order in which the client
\* issued them, each once, whatever the link does and however often a message
\* is re-sent (received_reliable_pkt and process_queue).
ForwardedInOrder ==
    /\ Len(forwarded) <= Len(issued)
    /\ \A i \in 1..Len(forwarded) : forwarded[i] = issued[i]
    /\ running => Len(forwarded) = player_msg_index

\* The client is handed the messages of ClientState in order, each once: ids
\* are never reused and always carry the same message, over every re-send,
\* reconnection and reordering of the notifications.
ReceivedInOrder ==
    /\ Len(received) <= Len(said)
    /\ \A i \in 1..Len(received) : received[i] = said[i]

\* An acknowledgement says that the message was forwarded.  A client that drops
\* what is acknowledged therefore loses nothing: every message it issued has
\* been forwarded or is still kept for re-sending.
NoPlayerMessageLost ==
    \A i \in 1..Len(issued) : i \in unacked \/ i <= Len(forwarded)

\* While the adapter runs, a message the client does not have yet is queued for
\* re-sending or notified: none falls between the queue, the re-send interval
\* and an acknowledgement.
NoServerMessageLost ==
    running => \A i \in 1..Len(said) :
        \/ i <= Len(received)
        \/ \E q \in server_msg_q \cup notified_msgs : q.id = i

\* The adapter holds at most one copy of a server message, queued or notified:
\* an acknowledgement, which removes one, removes the message.
SingleCopy ==
    /\ \A q, r \in server_msg_q \cup notified_msgs : q.id = r.id => q = r
    /\ server_msg_q \cap notified_msgs = {}

\* The retry count of a message is the number of times it was really written:
\* waiting out a disconnection costs no retry, and the adapter gives up on a
\* message only after RPKT_RETRY_LIMIT + 1 transmissions.
RetriesAreTransmissions ==
    \A q \in server_msg_q \cup notified_msgs : q.retry_count = transmissions[q.id]

\* "If player_msg_index is 2 and the queue contains [4, 5, 3, 7] all except 7
\* will be processed" (client_adapter.rs:150): no handler leaves the next
\* message behind in the queue.
NextIsNotQueued ==
    player_msg_index < MaxPlayerMsgs => ~Queued(player_msg_index + 1)

\* Both queues hold what they should in every state: nothing that could be
\* forwarded, and one copy, rightly counted, of what the client may lack
\* (process_queue, resend_queued_interval, and the handlers of what is notified).
QueuesAreSound == NextIsNotQueued /\ SingleCopy /\ RetriesAreTransmissions

-------------------------------------------------------------------------------
(* Why the safety properties hold: the inductive invariants of the two      *)
(* directions.                                                              *)

\* p is the player (server) message that its id names.
CarriesIssued(p) == p.id <= Len(issued) /\ p.msg = issued[p.id]
CarriesSaid(p) == p.id <= Len(said) /\ p.msg = said[p.id]

PlayerPacketsSound ==
    /\ \A p \in up : CarriesIssued(p)
    /\ \A p \in PlayerPacket : player_msg_q[p] > 0 => CarriesIssued(p)

PlayerAcksSound ==
    /\ \A id \in down_acks : id <= Len(forwarded)
    /\ running => \A id \in notified_acks : id <= Len(forwarded)

ServerPacketsSound ==
    /\ server_msg_index = Len(said)
    /\ \A p \in down \cup server_msg_q \cup notified_msgs : CarriesSaid(p)

ServerAcksSound == \A id \in up_acks : id <= Len(received)

NothingWrittenYet == \A id \in ServerIds : id > Len(said) => transmissions[id] = 0

\* Every packet under way and every queued copy carries the message of its id,
\* and only forwarded messages are acknowledged: with that, the client-to-server
\* direction keeps its order and loses nothing in every step.
UpInv ==
    /\ ForwardedInOrder
    /\ NoPlayerMessageLost
    /\ NextIsNotQueued
    /\ PlayerPacketsSound
    /\ PlayerAcksSound

\* The same for the server-to-client direction, with one copy of each message
\* whose retry count is the number of its transmissions.
DownInv ==
    /\ ReceivedInOrder
    /\ NoServerMessageLost
    /\ SingleCopy
    /\ RetriesAreTransmissions
    /\ ServerPacketsSound
    /\ ServerAcksSound
    /\ NothingWrittenYet

-------------------------------------------------------------------------------
(* Refinement: each direction is an in-order channel.                      *)

UpChannel == INSTANCE InOrderChannel WITH sent <- issued, delivered <- forwarded
DownChannel == INSTANCE InOrderChannel WITH sent <- said, delivered <- received

\* The client-to-server direction implements the in-order channel.
ImplementsUpChannel == UpChannel!Spec

\* The server-to-client direction implements the in-order channel.
ImplementsDownChannel == DownChannel!Spec

-------------------------------------------------------------------------------
(* Liveness.  The client keeps re-sending; a packet written again and again *)
(* is read at some time; the actor handles what was notified and its        *)
(* interval fires; a client that stays away is closed by ConnectionManager  *)
(* after CONNECTION_KEEPALIVE_SECONDS.                                      *)

Fairness ==
    /\ \A id \in PlayerIds :
        /\ WF_vars(ClientResend(id))
        /\ SF_vars(\E p \in up : p.id = id /\ RecvMsg(p))
    /\ \A r \in QueuedMessage : WF_vars(Transmit(r) \/ GiveUp(r) \/ Park(r))
    /\ WF_vars(ResendQueued(server_msg_q))
    /\ WF_vars(client_connection = "Disconnected" /\ Close)

FairSpec == Spec /\ Fairness

\* Every message the client issues is forwarded, unless the adapter or its
\* ClientState stops.
IssuedIsForwarded == \A id \in PlayerIds :
    Len(issued) >= id ~> Len(forwarded) >= id \/ ~running \/ ~client_state_up

\* The client stops coming and going: it stays, or it stays away.
ConnectionSettles ==
    \/ <>[](client_connection = "Connected")
    \/ <>[](client_connection = "Disconnected")

\* Once the connection settles, every server message reaches the client or
\* leads to the end of the adapter (by GiveUp, or by the timeout of a client
\* that stays away): none waits in the queue forever.
SaidIsReceived == ConnectionSettles => \A id \in ServerIds :
    Len(said) >= id ~> Len(received) >= id \/ ~running
===============================================================================
