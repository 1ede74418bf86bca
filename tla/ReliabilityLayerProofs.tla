------------------------ MODULE ReliabilityLayerProofs ------------------------
(***************************************************************************)
(* Proofs about ReliabilityLayer, for every set of payloads, every number  *)
(* of messages and every retry limit: both directions deliver in order and *)
(* exactly once, nothing is lost while the adapter runs, and each direction*)
(* implements InOrderChannel.                                              *)
(***************************************************************************)
EXTENDS ReliabilityLayer, TLAPS

-------------------------------------------------------------------------------
(* Types.                                                                  *)

\* process_queue takes from the queue only copies that are in it.
LEMMA PayloadIsQueued ==
    ASSUME AdapterTypeOK, NEW p \in PlayerPacket, NEW id \in PlayerIds, id # p.id,
           Queued(id)
    PROVE  /\ Payload(p, id) \in Msg
           /\ player_msg_q[[id |-> id, msg |-> Payload(p, id)]] > 0
  BY DEF Payload, Queued

\* The id of a new message extends the range of the ids by one.
LEMMA NextIdInRange ==
    ASSUME NEW n \in Nat, NEW S, S \subseteq 1..n
    PROVE  S \cup {n + 1} \subseteq 1..(n + 1)
  OBVIOUS

\* Length and elements of a concatenation.
LEMMA Concatenation ==
    ASSUME NEW S, NEW s \in Seq(S), NEW t \in Seq(S)
    PROVE  /\ Len(s \o t) = Len(s) + Len(t)
           /\ \A i \in 1..(Len(s) + Len(t)) :
                 (s \o t)[i] = IF i <= Len(s) THEN s[i] ELSE t[i - Len(s)]
  OBVIOUS

\* A function on 1..n is a sequence of length n.
LEMMA FunctionIsSequence ==
    ASSUME NEW S, NEW n \in Nat, NEW f \in [1..n -> S]
    PROVE  f \in Seq(S) /\ Len(f) = n
  OBVIOUS

\* What the handlers of the adapter do to its own variables.
LEMMA AdapterTypeStep == TypeOK /\ [Next]_vars => AdapterTypeOK'
<1> SUFFICES ASSUME TypeOK, [Next]_vars PROVE AdapterTypeOK'
  OBVIOUS
<1> USE BoundsAssumption
        DEF TypeOK, AdapterTypeOK, PlayerIds, ServerIds, QueuedMessage
<1>1. ASSUME UNCHANGED adapterVars PROVE AdapterTypeOK'
  BY <1>1 DEF adapterVars
<1>2. ASSUME NEW p \in up, RecvExpected(p) PROVE AdapterTypeOK'
  <2>1. PICK last \in p.id..MaxPlayerMsgs :
            /\ p.id = player_msg_index + 1
            /\ ProcessedUpTo(p, last)
            /\ player_msg_index' = last
            /\ running' = client_state_up
            /\ player_msg_q' = [q \in PlayerPacket |->
                    IF q.id \in (p.id + 1)..last /\ q.msg = Payload(p, q.id)
                    THEN player_msg_q[q] - 1 ELSE player_msg_q[q]]
            /\ notified_acks' = notified_acks \cup p.id..last
            /\ UNCHANGED <<client_connection, server_msg_index, server_msg_q,
                           notified_msgs>>
    BY <1>2 DEF RecvExpected
  <2>2. p \in PlayerPacket /\ p.id \in PlayerIds
    BY DEF LinkTypeOK, PlayerPacket
  <2>3. ASSUME NEW q \in PlayerPacket, q.id \in (p.id + 1)..last, q.msg = Payload(p, q.id)
        PROVE  player_msg_q[q] > 0
    <3>1. Queued(q.id) /\ q.id \in PlayerIds /\ q.id # p.id
      BY <2>1, <2>2, <2>3 DEF ProcessedUpTo, PlayerPacket
    <3>2. player_msg_q[[id |-> q.id, msg |-> Payload(p, q.id)]] > 0
      BY <2>2, <3>1, PayloadIsQueued
    <3>3. q = [id |-> q.id, msg |-> Payload(p, q.id)]
      BY <2>3 DEF PlayerPacket
    <3>4. QED
      BY <3>2, <3>3
  <2>4. player_msg_q' \in [PlayerPacket -> 0..MaxCopies]
    BY <2>1, <2>3
  <2>5. notified_acks' \subseteq 0..MaxPlayerMsgs
    BY <2>1, <2>2
  <2>6. player_msg_index' \in 0..MaxPlayerMsgs
    BY <2>1, <2>2
  <2>7. running' \in BOOLEAN
    BY <2>1, Zenon DEF StateTypeOK
  <2>8. UNCHANGED <<client_connection, server_msg_index, server_msg_q, notified_msgs>>
    BY <2>1
  <2>9. QED
    BY <2>4, <2>5, <2>6, <2>7, <2>8
<1>3. ASSUME NEW p \in up, RecvAhead(p) PROVE AdapterTypeOK'
  <2>1. p \in PlayerPacket
    BY DEF LinkTypeOK
  <2>2. player_msg_q' \in [PlayerPacket -> 0..MaxCopies]
    BY <1>3, <2>1 DEF RecvAhead
  <2>3. notified_acks' \subseteq 0..MaxPlayerMsgs
    BY <1>3 DEF RecvAhead
  <2>4. UNCHANGED <<running, client_connection, player_msg_index, server_msg_index,
                    server_msg_q, notified_msgs>>
    BY <1>3 DEF RecvAhead
  <2>5. QED
    BY <2>2, <2>3, <2>4
<1>4. ASSUME NEW p \in up, RecvKnown(p) PROVE AdapterTypeOK'
  <2>1. p.id \in 0..MaxPlayerMsgs
    BY DEF LinkTypeOK, PlayerPacket
  <2>2. notified_acks' \subseteq 0..MaxPlayerMsgs
    BY <1>4, <2>1 DEF RecvKnown
  <2>3. QED
    BY <1>4, <2>2 DEF RecvKnown
<1>5. ASSUME NEW id \in up_acks, RecvAck(id) PROVE AdapterTypeOK'
  <2>1. server_msg_q' \subseteq QueuedMessage
    BY <1>5 DEF RecvAck
  <2>2. QED
    BY <1>5, <2>1 DEF RecvAck
<1>6. ASSUME NEW m \in Msg, SendServerMessage(m) PROVE AdapterTypeOK'
  <2>1. notified_msgs' \subseteq QueuedMessage
    BY <1>6 DEF SendServerMessage
  <2>2. QED
    BY <1>6, <2>1 DEF SendServerMessage
<1>7. ASSUME NEW r \in notified_msgs, Transmit(r) PROVE AdapterTypeOK'
  <2>1. r \in QueuedMessage
    OBVIOUS
  <2>2. [r EXCEPT !.retry_count = @ + 1] \in QueuedMessage
    BY <1>7, <2>1 DEF Transmit
  <2>3. QED
    BY <1>7, <2>2 DEF Transmit
<1>8. ASSUME NEW r \in notified_msgs, GiveUp(r) \/ Park(r) PROVE AdapterTypeOK'
  BY <1>8 DEF GiveUp, Park
<1>9. ASSUME NEW id \in notified_acks, WriteAck(id) PROVE AdapterTypeOK'
  BY <1>9 DEF WriteAck
<1>10. ASSUME NEW overdue \in SUBSET server_msg_q, ResendQueued(overdue)
       PROVE AdapterTypeOK'
  BY <1>10 DEF ResendQueued
<1>11. ASSUME Connect \/ Disconnect \/ Close PROVE AdapterTypeOK'
  BY <1>11 DEF Connect, Disconnect, Close
<1>12. ASSUME Client \/ Lose \/ ClientStateStops PROVE UNCHANGED adapterVars
  BY <1>12 DEF Client, ClientIssue, ClientResend, ClientTakeAck, ClientTakeMsg, Lose,
               ClientStateStops
<1>13. CASE UNCHANGED vars
  BY <1>1, <1>13 DEF vars
<1>14. QED
  BY <1>1, <1>2, <1>3, <1>4, <1>5, <1>6, <1>7, <1>8, <1>9, <1>10, <1>11, <1>12, <1>13
     DEF Next, Adapter, RecvMsg

\* What ClientState, the client and the link do to theirs.
LEMMA PeerTypeStep ==
    TypeOK /\ [Next]_vars => StateTypeOK' /\ ClientTypeOK' /\ LinkTypeOK'
<1> SUFFICES ASSUME TypeOK, [Next]_vars
             PROVE  StateTypeOK' /\ ClientTypeOK' /\ LinkTypeOK'
  OBVIOUS
<1> DEFINE Goal == StateTypeOK /\ ClientTypeOK /\ LinkTypeOK
<1> USE BoundsAssumption
        DEF TypeOK, StateTypeOK, ClientTypeOK, LinkTypeOK, stateVars, clientVars, linkVars,
            PlayerIds, ServerIds, PlayerPacket, ServerPacket
<1>1. ASSUME NEW m \in Msg, ClientIssue(m) PROVE Goal'
  <2>1. /\ issued' \in Seq(Msg)
        /\ Len(issued') = Len(issued) + 1
        /\ Len(issued') <= MaxPlayerMsgs
    BY <1>1 DEF ClientIssue
  <2>2. unacked' \subseteq 1..Len(issued')
    <3>1. unacked' = unacked \cup {Len(issued) + 1} /\ Len(issued) \in Nat
      BY <1>1 DEF ClientIssue
    <3>2. QED
      BY <2>1, <3>1, NextIdInRange
  <2>3. up' \subseteq PlayerPacket
    BY <1>1 DEF ClientIssue
  <2>4. QED
    BY <1>1, <2>1, <2>2, <2>3 DEF ClientIssue
<1>2. ASSUME NEW id \in unacked, ClientResend(id) PROVE Goal'
  <2>1. id \in PlayerIds /\ issued[id] \in Msg
    OBVIOUS
  <2>2. up' \subseteq PlayerPacket
    BY <1>2, <2>1 DEF ClientResend
  <2>3. QED
    BY <1>2, <2>2 DEF ClientResend
<1>3. ASSUME NEW id \in down_acks, ClientTakeAck(id) PROVE Goal'
  BY <1>3 DEF ClientTakeAck
<1>4. ASSUME NEW p \in down, ClientTakeMsg(p) PROVE Goal'
  <2>1. p.id \in ServerIds /\ p.msg \in Msg
    OBVIOUS
  <2>2. received' \in Seq(Msg)
    BY <1>4, <2>1 DEF ClientTakeMsg
  <2>3. up_acks' \subseteq ServerIds
    BY <1>4, <2>1 DEF ClientTakeMsg
  <2>4. UNCHANGED <<stateVars, issued, unacked, up, down, down_acks, transmissions>>
    BY <1>4 DEF ClientTakeMsg
  <2>5. QED
    BY <2>2, <2>3, <2>4
<1>5. ASSUME NEW p \in up, RecvExpected(p) PROVE Goal'
  <2>1. PICK last \in p.id..MaxPlayerMsgs :
            /\ p.id = player_msg_index + 1
            /\ ProcessedUpTo(p, last)
            /\ forwarded' = IF client_state_up
                  THEN forwarded \o [k \in 1..(last - player_msg_index) |->
                                        Payload(p, player_msg_index + k)]
                  ELSE forwarded
            /\ UNCHANGED <<client_state_up, said, clientVars, linkVars, transmissions>>
    BY <1>5 DEF RecvExpected
  <2>2. p.id \in PlayerIds /\ p.msg \in Msg
    OBVIOUS
  <2>3. ASSUME NEW k \in 1..(last - player_msg_index)
        PROVE  Payload(p, player_msg_index + k) \in Msg
    <3>1. CASE k = 1
      BY <2>1, <2>2, <3>1 DEF Payload, AdapterTypeOK
    <3>2. CASE k > 1
      <4> DEFINE id == player_msg_index + k
      <4>1. id \in PlayerIds /\ id # p.id /\ id \in (p.id + 1)..last
        BY <2>1, <2>2, <3>2 DEF AdapterTypeOK
      <4>2. Queued(id)
        BY <2>1, <4>1 DEF ProcessedUpTo
      <4>3. QED
        BY <4>1, <4>2, PayloadIsQueued
    <3>3. QED
      BY <3>1, <3>2
  <2>4. [k \in 1..(last - player_msg_index) |-> Payload(p, player_msg_index + k)]
            \in Seq(Msg)
    BY <2>1, <2>2, <2>3 DEF AdapterTypeOK
  <2>5. forwarded' \in Seq(Msg)
    BY <2>1, <2>4
  <2>6. QED
    BY <2>1, <2>5
<1>6. ASSUME NEW m \in Msg, SendServerMessage(m) PROVE Goal'
  BY <1>6 DEF SendServerMessage
<1>7. ASSUME NEW r \in notified_msgs, Transmit(r) PROVE Goal'
  <2>1. r.id \in ServerIds /\ r.msg \in Msg
    BY DEF AdapterTypeOK, QueuedMessage
  <2>2. down' \subseteq ServerPacket
    BY <1>7, <2>1 DEF Transmit
  <2>3. transmissions' \in [ServerIds -> Nat]
    BY <1>7, <2>1 DEF Transmit
  <2>4. QED
    BY <1>7, <2>2, <2>3 DEF Transmit
<1>8. ASSUME NEW id \in notified_acks, WriteAck(id) PROVE Goal'
  <2>1. down_acks' \subseteq 0..MaxPlayerMsgs
    BY <1>8 DEF WriteAck, AdapterTypeOK
  <2>2. QED
    BY <1>8, <2>1 DEF WriteAck
<1>9. ASSUME Lose \/ ClientStateStops PROVE Goal'
  BY <1>9 DEF Lose, ClientStateStops
<1>10. ASSUME \/ \E p \in up : RecvAhead(p) \/ RecvKnown(p)
              \/ \E id \in up_acks : RecvAck(id)
              \/ \E r \in notified_msgs : GiveUp(r) \/ Park(r)
              \/ \E overdue \in SUBSET server_msg_q : ResendQueued(overdue)
              \/ Connect \/ Disconnect \/ Close
              \/ UNCHANGED vars
       PROVE UNCHANGED <<stateVars, clientVars, linkVars, transmissions>>
  BY <1>10 DEF RecvAhead, RecvKnown, RecvAck, GiveUp, Park, ResendQueued, Connect,
               Disconnect, Close, vars
<1>11. ASSUME UNCHANGED <<stateVars, clientVars, linkVars, transmissions>> PROVE Goal'
  BY <1>11
<1>12. QED
  BY <1>1, <1>2, <1>3, <1>4, <1>5, <1>6, <1>7, <1>8, <1>9, <1>10, <1>11
     DEF Next, Client, Adapter, RecvMsg

\* Every variable keeps its type.
THEOREM TypeCorrect == Spec => []TypeOK
<1>1. Init => TypeOK
  BY BoundsAssumption
     DEF Init, TypeOK, AdapterTypeOK, StateTypeOK, ClientTypeOK, LinkTypeOK, PlayerIds,
         ServerIds
<1>2. TypeOK /\ [Next]_vars => TypeOK'
  BY AdapterTypeStep, PeerTypeStep DEF TypeOK
<1>3. QED
  BY <1>1, <1>2, PTL DEF Spec

-------------------------------------------------------------------------------
(* From the client to the server.                                          *)

\* RecvExpected, said with the facts the invariant needs.
LEMMA RecvExpectedFacts ==
    ASSUME TypeOK, UpInv, NEW p \in up, RecvExpected(p)
    PROVE  \E last \in Nat :
             /\ p.id <= last /\ last <= Len(issued)
             /\ p.id = player_msg_index + 1
             /\ player_msg_index' = last
             /\ running /\ running' = client_state_up
             /\ client_state_up => /\ Len(forwarded') = last
                                   /\ \A i \in 1..last : forwarded'[i] = issued[i]
             /\ ~client_state_up => forwarded' = forwarded
             /\ \A q \in PlayerPacket : player_msg_q'[q] <= player_msg_q[q]
             /\ last + 1 \in PlayerIds => ~Queued(last + 1)
             /\ notified_acks' = notified_acks \cup p.id..last
             /\ UNCHANGED <<clientVars, linkVars>>
<1> USE BoundsAssumption
        DEF TypeOK, AdapterTypeOK, StateTypeOK, ClientTypeOK, LinkTypeOK, PlayerIds,
            UpInv, ForwardedInOrder, PlayerPacketsSound, CarriesIssued
<1>1. PICK last \in p.id..MaxPlayerMsgs :
          /\ running
          /\ p.id = player_msg_index + 1
          /\ ProcessedUpTo(p, last)
          /\ player_msg_index' = last
          /\ forwarded' = IF client_state_up
                THEN forwarded \o [k \in 1..(last - player_msg_index) |->
                                      Payload(p, player_msg_index + k)]
                ELSE forwarded
          /\ running' = client_state_up
          /\ player_msg_q' = [q \in PlayerPacket |->
                  IF q.id \in (p.id + 1)..last /\ q.msg = Payload(p, q.id)
                  THEN player_msg_q[q] - 1 ELSE player_msg_q[q]]
          /\ notified_acks' = notified_acks \cup p.id..last
          /\ UNCHANGED <<clientVars, linkVars>>
  BY DEF RecvExpected
<1>2. p \in PlayerPacket /\ p.id \in PlayerIds /\ p.msg = issued[p.id]
      /\ p.id <= Len(issued)
  BY DEF PlayerPacket
<1>3. ASSUME NEW id \in p.id..last
      PROVE  id <= Len(issued) /\ Payload(p, id) = issued[id]
  <2>1. CASE id = p.id
    BY <1>2, <2>1 DEF Payload
  <2>2. CASE id # p.id
    <3>1. id \in PlayerIds /\ id \in (p.id + 1)..last
      BY <1>1, <1>2, <2>2
    <3>2. Queued(id)
      BY <1>1, <3>1 DEF ProcessedUpTo
    <3> DEFINE q == [id |-> id, msg |-> Payload(p, id)]
    <3>3. Payload(p, id) \in Msg /\ player_msg_q[q] > 0
      BY <1>2, <2>2, <3>1, <3>2, PayloadIsQueued
    <3>4. q \in PlayerPacket
      BY <3>1, <3>3 DEF PlayerPacket
    <3>5. CarriesIssued(q)
      BY <3>3, <3>4
    <3>6. QED
      BY <3>5
  <2>3. QED
    BY <2>1, <2>2
<1>4. p.id <= last /\ last <= Len(issued) /\ last \in Nat
  BY <1>1, <1>2, <1>3
<1>5. ASSUME client_state_up
      PROVE  /\ Len(forwarded') = last
             /\ \A i \in 1..last : forwarded'[i] = issued[i]
  <2> DEFINE released == [k \in 1..(last - player_msg_index) |->
                              Payload(p, player_msg_index + k)]
  <2>1. /\ released \in Seq(Msg)
        /\ Len(released) = last - player_msg_index
        /\ \A k \in 1..(last - player_msg_index) :
              released[k] = issued[player_msg_index + k]
    <3>1. ASSUME NEW k \in 1..(last - player_msg_index)
          PROVE  /\ Payload(p, player_msg_index + k) = issued[player_msg_index + k]
                 /\ issued[player_msg_index + k] \in Msg
      <4>1. player_msg_index + k \in p.id..last
        BY <1>1, <1>4
      <4>2. /\ Payload(p, player_msg_index + k) = issued[player_msg_index + k]
            /\ player_msg_index + k <= Len(issued)
        BY <1>3, <4>1
      <4>3. player_msg_index \in Nat /\ issued \in Seq(Msg)
        OBVIOUS
      <4> HIDE DEF TypeOK, AdapterTypeOK, StateTypeOK, ClientTypeOK, LinkTypeOK, PlayerIds,
                   UpInv, ForwardedInOrder, PlayerPacketsSound, CarriesIssued
      <4>4. player_msg_index + k \in 1..Len(issued)
        BY <4>2, <4>3
      <4>5. QED
        BY <4>2, <4>3, <4>4
    <3>2. last - player_msg_index \in Nat
      BY <1>1, <1>4
    <3>3. released \in [1..(last - player_msg_index) -> Msg]
      BY <3>1
    <3>4. released \in Seq(Msg) /\ Len(released) = last - player_msg_index
      <4> HIDE DEF released
      <4>1. QED
        BY <3>2, <3>3, FunctionIsSequence
    <3>5. QED
      BY <3>1, <3>4
  <2> HIDE DEF released
  <2>2. forwarded' = forwarded \o released /\ Len(forwarded) = player_msg_index
    BY <1>1, <1>5 DEF released
  <2>3. Len(forwarded') = last
    <3>1. forwarded \in Seq(Msg) /\ player_msg_index \in Nat
      OBVIOUS
    <3> HIDE DEF TypeOK, AdapterTypeOK, StateTypeOK, ClientTypeOK, LinkTypeOK, PlayerIds,
                 UpInv, ForwardedInOrder, PlayerPacketsSound, CarriesIssued
    <3>2. Len(forwarded \o released) = Len(forwarded) + Len(released)
      BY <2>1, <3>1, Concatenation
    <3>3. QED
      BY <1>4, <2>1, <2>2, <3>1, <3>2
  <2>4. ASSUME NEW i \in 1..last PROVE forwarded'[i] = issued[i]
    <3>1. forwarded \in Seq(Msg) /\ player_msg_index \in Nat /\ last \in Nat
          /\ \A j \in 1..Len(forwarded) : forwarded[j] = issued[j]
      BY <1>4
    <3> HIDE DEF TypeOK, AdapterTypeOK, StateTypeOK, ClientTypeOK, LinkTypeOK, PlayerIds,
                 UpInv, ForwardedInOrder, PlayerPacketsSound, CarriesIssued
    <3>2. i <= player_msg_index => forwarded[i] = issued[i]
      BY <2>2, <3>1
    <3>3. forwarded'[i] = IF i <= player_msg_index THEN forwarded[i]
                          ELSE released[i - player_msg_index]
      BY <1>4, <2>1, <2>2, <3>1, Concatenation
    <3>4. CASE i <= player_msg_index
      BY <3>2, <3>3, <3>4
    <3>5. CASE i > player_msg_index
      <4>1. i - player_msg_index \in 1..(last - player_msg_index)
        BY <1>4, <3>1, <3>5
      <4>2. QED
        BY <2>1, <3>1, <3>3, <3>5, <4>1
    <3>6. QED
      BY <1>4, <3>1, <3>4, <3>5
  <2>5. QED
    BY <2>3, <2>4
<1>6. ASSUME NEW q \in PlayerPacket PROVE player_msg_q'[q] <= player_msg_q[q]
  <2>1. player_msg_q[q] \in 0..MaxCopies
    OBVIOUS
  <2>2. QED
    BY <1>1, <2>1
<1>7. last + 1 \in PlayerIds => ~Queued(last + 1)
  BY <1>1 DEF ProcessedUpTo
<1>8. QED
  BY <1>1, <1>4, <1>5, <1>6, <1>7

\* Every step keeps the invariant of the client-to-server direction.
LEMMA UpStep == TypeOK /\ UpInv /\ [Next]_vars => UpInv'
<1> SUFFICES ASSUME TypeOK, UpInv, [Next]_vars PROVE UpInv'
  OBVIOUS
<1> DEFINE upVars == <<running, player_msg_index, player_msg_q, notified_acks, forwarded,
                       issued, unacked, up, down_acks>>
<1> USE BoundsAssumption
        DEF TypeOK, AdapterTypeOK, StateTypeOK, ClientTypeOK, LinkTypeOK, PlayerIds,
            adapterVars, stateVars, clientVars, linkVars, UpInv, ForwardedInOrder,
            NoPlayerMessageLost, NextIsNotQueued, PlayerPacketsSound, PlayerAcksSound,
            CarriesIssued, Queued
<1>1. ASSUME NEW m \in Msg, ClientIssue(m) PROVE UpInv'
  <2>1. /\ issued' = Append(issued, m)
        /\ Len(issued') = Len(issued) + 1
        /\ \A i \in 1..Len(issued) : issued'[i] = issued[i]
        /\ issued'[Len(issued) + 1] = m
        /\ unacked' = unacked \cup {Len(issued) + 1}
        /\ up' = up \cup {[id |-> Len(issued) + 1, msg |-> m]}
        /\ UNCHANGED <<running, player_msg_index, player_msg_q, notified_acks, forwarded,
                       down_acks>>
    BY <1>1 DEF ClientIssue
  <2>2. ForwardedInOrder'
    BY <2>1
  <2>3. NoPlayerMessageLost'
    BY <2>1
  <2>4. NextIsNotQueued'
    BY <2>1
  <2>5. PlayerPacketsSound'
    <3>1. ASSUME NEW p \in up' PROVE CarriesIssued(p)'
      <4>1. CASE p \in up
        BY <2>1, <4>1 DEF PlayerPacket
      <4>2. CASE p = [id |-> Len(issued) + 1, msg |-> m]
        BY <2>1, <4>2
      <4>3. QED
        BY <2>1, <4>1, <4>2
    <3>2. ASSUME NEW p \in PlayerPacket, player_msg_q'[p] > 0 PROVE CarriesIssued(p)'
      <4>1. CarriesIssued(p) /\ p.id \in 1..Len(issued)
        BY <2>1, <3>2 DEF PlayerPacket
      <4>2. QED
        BY <2>1, <4>1
    <3>3. QED
      BY <3>1, <3>2
  <2>6. PlayerAcksSound'
    BY <2>1
  <2>7. QED
    BY <2>2, <2>3, <2>4, <2>5, <2>6
<1>2. ASSUME NEW id \in unacked, ClientResend(id) PROVE UpInv'
  <2>1. PlayerPacketsSound'
    BY <1>2 DEF ClientResend
  <2>2. UNCHANGED <<running, player_msg_index, player_msg_q, notified_acks, forwarded,
                    issued, unacked, down_acks>>
    BY <1>2 DEF ClientResend
  <2>3. QED
    BY <2>1, <2>2
<1>3. ASSUME NEW id \in down_acks, ClientTakeAck(id) PROVE UpInv'
  BY <1>3 DEF ClientTakeAck
<1>4. ASSUME NEW p \in up, RecvExpected(p) PROVE UpInv'
  <2>1. PICK last \in Nat :
            /\ p.id <= last /\ last <= Len(issued)
            /\ p.id = player_msg_index + 1
            /\ player_msg_index' = last
            /\ running /\ running' = client_state_up
            /\ client_state_up => /\ Len(forwarded') = last
                                  /\ \A i \in 1..last : forwarded'[i] = issued[i]
            /\ ~client_state_up => forwarded' = forwarded
            /\ \A q \in PlayerPacket : player_msg_q'[q] <= player_msg_q[q]
            /\ last + 1 \in PlayerIds => ~Queued(last + 1)
            /\ notified_acks' = notified_acks \cup p.id..last
            /\ UNCHANGED <<clientVars, linkVars>>
    BY <1>4, RecvExpectedFacts
  <2>2. AdapterTypeOK'
    BY AdapterTypeStep
  <2>3. ForwardedInOrder'
    BY <2>1
  <2>4. Len(forwarded) <= Len(forwarded')
    BY <2>1
  <2>5. NoPlayerMessageLost'
    BY <2>1, <2>4
  <2>6. ASSUME NEW q \in PlayerPacket, player_msg_q'[q] > 0 PROVE player_msg_q[q] > 0
    BY <2>1, <2>2, <2>6
  <2>7. NextIsNotQueued'
    <3> SUFFICES ASSUME NEW m \in Msg, last < MaxPlayerMsgs,
                        player_msg_q'[[id |-> last + 1, msg |-> m]] > 0
                 PROVE  FALSE
      BY <2>1
    <3>1. last + 1 \in PlayerIds
      BY <2>1
    <3>2. [id |-> last + 1, msg |-> m] \in PlayerPacket
      BY <3>1 DEF PlayerPacket
    <3>3. player_msg_q[[id |-> last + 1, msg |-> m]] > 0
      BY <2>6, <3>2
    <3>4. QED
      BY <2>1, <3>1, <3>3
  <2>8. PlayerPacketsSound'
    BY <2>1, <2>6
  <2>9. PlayerAcksSound'
    BY <2>1, <2>4
  <2>10. QED
    BY <2>3, <2>5, <2>7, <2>8, <2>9
<1>5. ASSUME NEW p \in up, RecvAhead(p) PROVE UpInv'
  <2>1. /\ p \in PlayerPacket
        /\ p.id > player_msg_index + 1
        /\ player_msg_q' = [player_msg_q EXCEPT ![p] = @ + 1]
        /\ notified_acks' = notified_acks \cup {player_msg_index}
        /\ UNCHANGED <<running, player_msg_index, forwarded, issued, unacked, up,
                       down_acks>>
    BY <1>5 DEF RecvAhead
  <2>2. ASSUME NEW q \in PlayerPacket, q # p PROVE player_msg_q'[q] = player_msg_q[q]
    BY <2>1, <2>2
  <2>3. NextIsNotQueued'
    <3>1. ASSUME NEW m \in Msg, player_msg_index < MaxPlayerMsgs,
                 player_msg_q'[[id |-> player_msg_index + 1, msg |-> m]] > 0
          PROVE  FALSE
      <4>1. /\ [id |-> player_msg_index + 1, msg |-> m] \in PlayerPacket
            /\ [id |-> player_msg_index + 1, msg |-> m] # p
        BY <2>1, <3>1 DEF PlayerPacket
      <4>2. QED
        BY <2>2, <3>1, <4>1
    <3>2. QED
      BY <2>1, <3>1
  <2>4. PlayerPacketsSound'
    BY <2>1, <2>2
  <2>5. PlayerAcksSound'
    BY <2>1
  <2>6. QED
    BY <2>1, <2>3, <2>4, <2>5
<1>6. ASSUME NEW p \in up, RecvKnown(p) PROVE UpInv'
  BY <1>6 DEF RecvKnown
<1>7. ASSUME NEW id \in notified_acks, WriteAck(id) PROVE UpInv'
  BY <1>7 DEF WriteAck
<1>8. ASSUME Lose PROVE UpInv'
  BY <1>8 DEF Lose
<1>9. ASSUME \/ \E r \in notified_msgs : GiveUp(r)
             \/ Close
      PROVE UpInv'
  BY <1>9 DEF GiveUp, Close
<1>10. ASSUME \/ \E p \in down : ClientTakeMsg(p)
              \/ \E id \in up_acks : RecvAck(id)
              \/ \E m \in Msg : SendServerMessage(m)
              \/ \E r \in notified_msgs : Transmit(r) \/ Park(r)
              \/ \E overdue \in SUBSET server_msg_q : ResendQueued(overdue)
              \/ Connect \/ Disconnect \/ ClientStateStops
              \/ UNCHANGED vars
       PROVE UNCHANGED upVars
  BY <1>10 DEF ClientTakeMsg, RecvAck, SendServerMessage, Transmit, Park, ResendQueued,
               Connect, Disconnect, ClientStateStops, vars
<1>11. ASSUME UNCHANGED upVars PROVE UpInv'
  BY <1>11
<1>12. QED
  BY <1>1, <1>2, <1>3, <1>4, <1>5, <1>6, <1>7, <1>8, <1>9, <1>10, <1>11
     DEF Next, Client, Adapter, RecvMsg

\* Every message is forwarded in order, each once, and none is lost.
THEOREM UpInvariant == Spec => []UpInv
<1>1. ASSUME Init PROVE UpInv
  <2>1. ForwardedInOrder /\ NoPlayerMessageLost /\ PlayerAcksSound
    BY <1>1 DEF Init, ForwardedInOrder, NoPlayerMessageLost, PlayerAcksSound
  <2>2. \A p \in PlayerPacket : player_msg_q[p] = 0
    BY <1>1 DEF Init
  <2>3. NextIsNotQueued
    <3> SUFFICES ASSUME player_msg_index < MaxPlayerMsgs, NEW m \in Msg,
                        player_msg_q[[id |-> player_msg_index + 1, msg |-> m]] > 0
                 PROVE  FALSE
      BY DEF NextIsNotQueued, Queued
    <3>1. [id |-> player_msg_index + 1, msg |-> m] \in PlayerPacket
      BY <1>1, BoundsAssumption DEF Init, PlayerPacket, PlayerIds
    <3>2. QED
      BY <2>2, <3>1
  <2>4. PlayerPacketsSound
    BY <1>1, <2>2 DEF Init, PlayerPacketsSound
  <2>5. QED
    BY <2>1, <2>3, <2>4 DEF UpInv
<1>2. QED
  BY <1>1, UpStep, TypeCorrect, PTL DEF Spec

\* What ClientState is handed, and what the client may drop.
THEOREM PlayerMessagesSafe ==
    Spec => [](ForwardedInOrder /\ NoPlayerMessageLost /\ NextIsNotQueued)
<1>1. UpInv => ForwardedInOrder /\ NoPlayerMessageLost /\ NextIsNotQueued
  BY DEF UpInv
<1>2. QED
  BY <1>1, UpInvariant, PTL

-------------------------------------------------------------------------------
(* From the server to the client.                                          *)

\* The ids below the next one.
LEMMA EarlierId ==
    ASSUME NEW n \in Nat, NEW i \in 1..(n + 1), i # n + 1
    PROVE  i \in 1..n
  OBVIOUS

\* While the adapter runs it holds a copy of what the client does not have.
LEMMA CopyIsHeld ==
    ASSUME NoServerMessageLost, running, NEW i \in 1..Len(said), ~(i <= Len(received))
    PROVE  \E q \in server_msg_q \cup notified_msgs : q.id = i
  BY Zenon DEF NoServerMessageLost

\* Every step keeps the invariant of the server-to-client direction.
LEMMA DownStep == TypeOK /\ DownInv /\ [Next]_vars => DownInv'
<1> SUFFICES ASSUME TypeOK, DownInv, [Next]_vars PROVE DownInv'
  OBVIOUS
<1> DEFINE copies == server_msg_q \cup notified_msgs
<1> DEFINE downVars == <<running, server_msg_index, server_msg_q, notified_msgs, said,
                         received, up_acks, down, transmissions>>
<1> USE BoundsAssumption
        DEF TypeOK, AdapterTypeOK, StateTypeOK, ClientTypeOK, LinkTypeOK, ServerIds,
            adapterVars, stateVars, clientVars, linkVars, DownInv, ReceivedInOrder,
            NoServerMessageLost, SingleCopy, RetriesAreTransmissions, ServerPacketsSound,
            ServerAcksSound, NothingWrittenYet, CarriesSaid
<1>1. ASSUME NEW p \in down, ClientTakeMsg(p) PROVE DownInv'
  <2>1. /\ p.id <= Len(received) + 1
        /\ p.id <= Len(said) /\ p.msg = said[p.id] /\ p.id \in ServerIds /\ p.msg \in Msg
        /\ received' = IF p.id = Len(received) + 1 THEN Append(received, p.msg)
                       ELSE received
        /\ up_acks' = up_acks \cup {p.id}
        /\ UNCHANGED <<running, server_msg_index, server_msg_q, notified_msgs, said, down,
                       transmissions>>
    BY <1>1 DEF ClientTakeMsg, ServerPacket
  <2>2. /\ Len(received) <= Len(received') /\ p.id <= Len(received')
        /\ Len(received') <= Len(said)
        /\ \A i \in 1..Len(received') : received'[i] = said[i]
    <3>1. received \in Seq(Msg) /\ p.id \in Nat /\ Len(received) <= Len(said)
          /\ Len(said) \in Nat /\ \A i \in 1..Len(received) : received[i] = said[i]
      BY <2>1
    <3> HIDE DEF TypeOK, AdapterTypeOK, StateTypeOK, ClientTypeOK, LinkTypeOK, ServerIds,
                 DownInv, ReceivedInOrder, NoServerMessageLost, SingleCopy,
                 RetriesAreTransmissions, ServerPacketsSound, ServerAcksSound,
                 NothingWrittenYet, CarriesSaid
    <3>2. CASE p.id = Len(received) + 1
      BY <2>1, <3>1, <3>2
    <3>3. CASE p.id # Len(received) + 1
      BY <2>1, <3>1, <3>3
    <3>4. QED
      BY <3>2, <3>3
  <2>3. ReceivedInOrder'
    BY <2>1, <2>2
  <2>4. NoServerMessageLost'
    BY <2>1, <2>2
  <2>5. ServerAcksSound'
    BY <2>1, <2>2
  <2>6. UNCHANGED <<running, server_msg_index, server_msg_q, notified_msgs, said, down,
                    transmissions>>
    BY <2>1
  <2>7. QED
    BY <2>3, <2>4, <2>5, <2>6
<1>2. ASSUME NEW id \in up_acks, RecvAck(id) PROVE DownInv'
  <2>1. /\ id <= Len(received)
        /\ server_msg_q' = {q \in server_msg_q : q.id # id}
        /\ UNCHANGED <<running, server_msg_index, notified_msgs, said, received, up_acks,
                       down, transmissions>>
    BY <1>2 DEF RecvAck
  <2>2. NoServerMessageLost'
    <3> SUFFICES ASSUME running, NEW i \in 1..Len(said), ~(i <= Len(received))
                 PROVE  \E q \in server_msg_q' \cup notified_msgs' : q.id = i
      BY <2>1
    <3>1. PICK q \in copies : q.id = i
      BY CopyIsHeld
    <3>2. q \in server_msg_q' \cup notified_msgs'
      BY <2>1, <3>1
    <3>3. QED
      BY <3>1, <3>2
  <2>3. QED
    BY <2>1, <2>2
<1>3. ASSUME NEW m \in Msg, SendServerMessage(m) PROVE DownInv'
  <2> DEFINE new == [id |-> Len(said) + 1, msg |-> m, retry_count |-> 0]
  <2>1. /\ Len(said) + 1 \in ServerIds
        /\ server_msg_index' = Len(said) + 1
        /\ notified_msgs' = notified_msgs \cup {new}
        /\ said' = Append(said, m)
        /\ UNCHANGED <<running, server_msg_q, received, up_acks, down, transmissions>>
    BY <1>3 DEF SendServerMessage
  <2>2. /\ Len(said') = Len(said) + 1
        /\ \A i \in 1..Len(said) : said'[i] = said[i]
        /\ said'[Len(said) + 1] = m
    BY <2>1
  <2>3. ReceivedInOrder'
    BY <2>1, <2>2
  <2>4. NoServerMessageLost'
    <3> SUFFICES ASSUME running, NEW i \in 1..(Len(said) + 1), ~(i <= Len(received))
                 PROVE  \E q \in server_msg_q' \cup notified_msgs' : q.id = i
      BY <2>1, <2>2
    <3>1. CASE i = Len(said) + 1
      <4>1. new \in notified_msgs' /\ new.id = i
        BY <2>1, <3>1
      <4>2. QED
        BY <4>1
    <3>2. CASE i # Len(said) + 1
      <4>1. i \in 1..Len(said)
        <5>1. Len(said) \in Nat
          OBVIOUS
        <5>2. QED
          BY <3>2, <5>1, EarlierId
      <4>2. PICK q \in copies : q.id = i
        BY <4>1, CopyIsHeld
      <4>3. q \in server_msg_q' \cup notified_msgs'
        BY <2>1
      <4>4. QED
        BY <4>2, <4>3
    <3>3. QED
      BY <3>1, <3>2
  <2>5. \A q \in copies : q.id \in 1..Len(said)
    BY DEF QueuedMessage
  <2>6. new.id \notin 1..Len(said)
    OBVIOUS
  <2>7. SingleCopy'
    BY <2>1, <2>5, <2>6
  <2>8. RetriesAreTransmissions'
    BY <2>1
  <2>9. ServerPacketsSound'
    <3>1. ASSUME NEW p \in down \cup copies PROVE CarriesSaid(p)'
      <4>1. p.id \in 1..Len(said)
        BY DEF QueuedMessage, ServerPacket
      <4>2. QED
        BY <2>2, <4>1
    <3>2. new.id <= Len(said') /\ new.msg = said'[new.id]
      BY <2>2
    <3>3. QED
      BY <2>1, <2>2, <3>1, <3>2
  <2>10. NothingWrittenYet'
    BY <2>1, <2>2
  <2>11. QED
    BY <2>1, <2>3, <2>4, <2>7, <2>8, <2>9, <2>10
<1>4. ASSUME NEW r \in notified_msgs, Transmit(r) PROVE DownInv'
  <2> DEFINE s == [r EXCEPT !.retry_count = @ + 1]
  <2>1. /\ notified_msgs' = notified_msgs \ {r}
        /\ server_msg_q' = server_msg_q \cup {s}
        /\ down' = down \cup {[id |-> r.id, msg |-> r.msg]}
        /\ transmissions' = [transmissions EXCEPT ![r.id] = @ + 1]
        /\ UNCHANGED <<running, server_msg_index, said, received, up_acks>>
    BY <1>4 DEF Transmit
  <2>2. /\ r \in QueuedMessage /\ r.id \in ServerIds
        /\ s.id = r.id /\ s.msg = r.msg /\ s.retry_count = r.retry_count + 1
    BY DEF QueuedMessage
  <2>3. \A q \in copies : q # r => q.id # r.id
    OBVIOUS
  <2>4. copies' = (copies \ {r}) \cup {s}
    BY <2>1
  <2>5. NoServerMessageLost'
    <3> SUFFICES ASSUME running, NEW i \in 1..Len(said), ~(i <= Len(received))
                 PROVE  \E q \in server_msg_q' \cup notified_msgs' : q.id = i
      BY <2>1
    <3>1. PICK q \in copies : q.id = i
      BY CopyIsHeld
    <3>2. CASE q = r
      <4>1. s \in server_msg_q'
        BY <2>1
      <4>2. s.id = i
        BY <2>2, <3>1, <3>2
      <4>3. QED
        BY <4>1, <4>2
    <3>3. CASE q # r
      <4>1. q \in server_msg_q' \cup notified_msgs'
        BY <2>1, <3>3
      <4>2. QED
        BY <3>1, <4>1
    <3>4. QED
      BY <3>2, <3>3
  <2>6. SingleCopy'
    <3>1. ASSUME NEW p \in copies', NEW q \in copies', p.id = q.id PROVE p = q
      BY <2>2, <2>3, <2>4, <3>1
    <3>2. server_msg_q' \cap notified_msgs' = {}
      <4>1. s \notin notified_msgs'
        BY <2>1, <2>2, <2>3
      <4>2. server_msg_q \cap notified_msgs = {}
        OBVIOUS
      <4> HIDE DEF s
      <4>3. QED
        BY <2>1, <4>1, <4>2
    <3>3. QED
      BY <3>1, <3>2
  <2>7. RetriesAreTransmissions'
    <3>1. ASSUME NEW q \in copies', q # s PROVE q.retry_count = transmissions'[q.id]
      <4>1. q \in copies /\ q.id # r.id /\ q.id \in ServerIds
        BY <2>3, <2>4, <3>1 DEF QueuedMessage
      <4>2. QED
        BY <2>1, <4>1
    <3>2. s.retry_count = transmissions'[s.id]
      BY <2>1, <2>2
    <3>3. QED
      BY <3>1, <3>2
  <2>8. ServerPacketsSound'
    <3>1. r.id <= Len(said) /\ r.msg = said[r.id]
      OBVIOUS
    <3>2. s.id <= Len(said) /\ s.msg = said[s.id]
      BY <2>2, <3>1
    <3>3. \A p \in copies' : CarriesSaid(p)
      BY <2>4, <3>2
    <3>4. \A p \in down' : CarriesSaid(p)
      BY <2>1, <3>1
    <3>5. QED
      BY <2>1, <3>3, <3>4
  <2>9. NothingWrittenYet'
    BY <2>1, <2>2
  <2>10. ReceivedInOrder' /\ ServerAcksSound'
    BY <2>1
  <2>11. QED
    BY <2>5, <2>6, <2>7, <2>8, <2>9, <2>10
<1>5. ASSUME \/ \E r \in notified_msgs : Park(r)
             \/ \E overdue \in SUBSET server_msg_q : ResendQueued(overdue)
      PROVE DownInv'
  <2>1. /\ copies' = copies
        /\ server_msg_q' \cap notified_msgs' = {}
        /\ UNCHANGED <<running, server_msg_index, said, received, up_acks, down,
                       transmissions>>
    BY <1>5 DEF Park, ResendQueued
  <2> HIDE DEF copies
  <2>2. /\ copies = server_msg_q \cup notified_msgs
        /\ copies' = server_msg_q' \cup notified_msgs'
    BY DEF copies
  <2>3. QED
    BY <2>1, <2>2
<1>6. ASSUME NEW p \in up, RecvExpected(p) PROVE DownInv'
  <2>1. running /\ UNCHANGED <<server_msg_index, server_msg_q, notified_msgs, said,
                               received, up_acks, down, transmissions>>
    BY <1>6 DEF RecvExpected
  <2>2. QED
    BY <2>1
<1>7. ASSUME \/ \E r \in notified_msgs : GiveUp(r)
             \/ Close
      PROVE DownInv'
  BY <1>7 DEF GiveUp, Close
<1>8. ASSUME Lose PROVE DownInv'
  BY <1>8 DEF Lose
<1>9. ASSUME \/ \E m \in Msg : ClientIssue(m)
             \/ \E id \in unacked : ClientResend(id)
             \/ \E id \in down_acks : ClientTakeAck(id)
             \/ \E p \in up : RecvAhead(p) \/ RecvKnown(p)
             \/ \E id \in notified_acks : WriteAck(id)
             \/ Connect \/ Disconnect \/ ClientStateStops
             \/ UNCHANGED vars
      PROVE UNCHANGED downVars
  BY <1>9 DEF ClientIssue, ClientResend, ClientTakeAck, RecvAhead, RecvKnown, WriteAck,
              Connect, Disconnect, ClientStateStops, vars
<1>10. ASSUME UNCHANGED downVars PROVE DownInv'
  BY <1>10
<1>11. QED
  BY <1>1, <1>2, <1>3, <1>4, <1>5, <1>6, <1>7, <1>8, <1>9, <1>10
     DEF Next, Client, Adapter, RecvMsg

\* The client takes every server message in order, each once, and none is lost.
THEOREM DownInvariant == Spec => []DownInv
<1>1. ASSUME Init PROVE DownInv
  <2>1. /\ said = <<>> /\ received = <<>> /\ server_msg_index = 0
        /\ server_msg_q = {} /\ notified_msgs = {} /\ down = {} /\ up_acks = {}
        /\ \A i \in ServerIds : transmissions[i] = 0
    BY <1>1 DEF Init
  <2>2. QED
    BY <2>1 DEF DownInv, ReceivedInOrder, NoServerMessageLost, SingleCopy,
                RetriesAreTransmissions, ServerPacketsSound, ServerAcksSound,
                NothingWrittenYet
<1>2. QED
  BY <1>1, DownStep, TypeCorrect, PTL DEF Spec

\* What the client is handed, and what the adapter may drop.
THEOREM ServerMessagesSafe ==
    Spec => [](ReceivedInOrder /\ NoServerMessageLost /\ SingleCopy
                   /\ RetriesAreTransmissions)
<1>1. DownInv => ReceivedInOrder /\ NoServerMessageLost /\ SingleCopy
                     /\ RetriesAreTransmissions
  BY DEF DownInv
<1>2. QED
  BY <1>1, DownInvariant, PTL

\* Nothing that could be forwarded stays behind, and of every message the client
\* may lack there is one copy, with the count of its transmissions.
THEOREM QueuesSafe == Spec => []QueuesAreSound
<1>1. UpInv /\ DownInv => QueuesAreSound
  BY DEF UpInv, DownInv, QueuesAreSound
<1>2. QED
  BY <1>1, UpInvariant, DownInvariant, PTL

-------------------------------------------------------------------------------
(* Each direction implements the in-order channel.                         *)

\* A sequence that agrees with t up to its length is that prefix of t.
LEMMA PrefixAsFunction ==
    ASSUME NEW S, NEW s \in Seq(S), NEW t, \A i \in 1..Len(s) : s[i] = t[i]
    PROVE  s = [i \in 1..Len(s) |-> t[i]]
  OBVIOUS

\* A step of the system is a step of the client-to-server channel, or none.
LEMMA UpChannelStep ==
    TypeOK /\ TypeOK' /\ UpInv /\ [Next]_vars => [UpChannel!Next]_(UpChannel!chan)
<1> SUFFICES ASSUME TypeOK, TypeOK', UpInv, [Next]_vars
             PROVE  UpChannel!Next \/ UNCHANGED <<issued, forwarded>>
  BY DEF UpChannel!chan
<1> USE DEF stateVars, clientVars
<1>1. ASSUME NEW m \in Msg, ClientIssue(m) PROVE UpChannel!Next
  <2>1. issued' = Append(issued, m) /\ UNCHANGED forwarded
    BY <1>1 DEF ClientIssue
  <2>2. QED
    BY <2>1 DEF UpChannel!Next, UpChannel!Send
<1>2. ASSUME NEW p \in up, RecvExpected(p)
      PROVE  UpChannel!Next \/ UNCHANGED <<issued, forwarded>>
  <2>1. PICK last \in Nat :
            /\ p.id <= last /\ last <= Len(issued)
            /\ p.id = player_msg_index + 1
            /\ running
            /\ client_state_up => /\ Len(forwarded') = last
                                  /\ \A i \in 1..last : forwarded'[i] = issued[i]
            /\ ~client_state_up => forwarded' = forwarded
            /\ UNCHANGED clientVars
    BY <1>2, RecvExpectedFacts
  <2>2. CASE client_state_up
    <3>1. forwarded' = [i \in 1..last |-> issued[i]]
      <4>1. forwarded' \in Seq(Msg)
        BY DEF TypeOK, StateTypeOK
      <4>2. QED
        BY <2>1, <2>2, <4>1, PrefixAsFunction
    <3>2. last \in (Len(forwarded) + 1)..Len(issued)
      BY <2>1 DEF UpInv, ForwardedInOrder, TypeOK, AdapterTypeOK, ClientTypeOK
    <3>3. UpChannel!Deliver
      BY <2>1, <3>1, <3>2 DEF UpChannel!Deliver
    <3>4. QED
      BY <3>3 DEF UpChannel!Next
  <2>3. CASE ~client_state_up
    BY <2>1, <2>3
  <2>4. QED
    BY <2>2, <2>3
<1>3. ASSUME \/ \E id \in unacked : ClientResend(id)
             \/ \E id \in down_acks : ClientTakeAck(id)
             \/ \E p \in down : ClientTakeMsg(p)
             \/ \E p \in up : RecvAhead(p) \/ RecvKnown(p)
             \/ \E id \in up_acks : RecvAck(id)
             \/ \E m \in Msg : SendServerMessage(m)
             \/ \E r \in notified_msgs : Transmit(r) \/ GiveUp(r) \/ Park(r)
             \/ \E id \in notified_acks : WriteAck(id)
             \/ \E overdue \in SUBSET server_msg_q : ResendQueued(overdue)
             \/ Connect \/ Disconnect \/ Close \/ Lose \/ ClientStateStops
             \/ UNCHANGED vars
      PROVE UNCHANGED <<issued, forwarded>>
  BY <1>3 DEF ClientResend, ClientTakeAck, ClientTakeMsg, RecvAhead, RecvKnown, RecvAck,
              SendServerMessage, Transmit, GiveUp, Park, WriteAck, ResendQueued, Connect,
              Disconnect, Close, Lose, ClientStateStops, vars
<1>4. QED
  BY <1>1, <1>2, <1>3 DEF Next, Client, Adapter, RecvMsg

\* From the client to the server, the link is an in-order channel.
THEOREM UpRefinement == Spec => ImplementsUpChannel
<1>1. Init => UpChannel!Init
  BY DEF Init, UpChannel!Init
<1>2. QED
  BY <1>1, UpChannelStep, UpInvariant, TypeCorrect, PTL
     DEF Spec, ImplementsUpChannel, UpChannel!Spec

\* A step of the system is a step of the server-to-client channel, or none.
LEMMA DownChannelStep ==
    TypeOK /\ DownInv /\ [Next]_vars => [DownChannel!Next]_(DownChannel!chan)
<1> SUFFICES ASSUME TypeOK, DownInv, [Next]_vars
             PROVE  DownChannel!Next \/ UNCHANGED <<said, received>>
  BY DEF DownChannel!chan
<1> USE DEF stateVars, clientVars
<1>1. ASSUME NEW m \in Msg, SendServerMessage(m) PROVE DownChannel!Next
  <2>1. said' = Append(said, m) /\ UNCHANGED received
    BY <1>1 DEF SendServerMessage
  <2>2. QED
    BY <2>1 DEF DownChannel!Next, DownChannel!Send
<1>2. ASSUME NEW p \in down, ClientTakeMsg(p)
      PROVE  DownChannel!Next \/ UNCHANGED <<said, received>>
  <2>1. /\ received' = IF p.id = Len(received) + 1 THEN Append(received, p.msg)
                       ELSE received
        /\ UNCHANGED said
    BY <1>2 DEF ClientTakeMsg
  <2>2. CASE p.id = Len(received) + 1
    <3> DEFINE n == Len(received) + 1
    <3>1. /\ n <= Len(said) /\ p.msg = said[n] /\ p.msg \in Msg
          /\ received \in Seq(Msg) /\ Len(received) \in Nat
          /\ \A i \in 1..Len(received) : received[i] = said[i]
      BY <2>2 DEF TypeOK, ClientTypeOK, LinkTypeOK, ServerPacket, DownInv, ReceivedInOrder,
                  ServerPacketsSound, CarriesSaid
    <3>2. /\ received' \in Seq(Msg) /\ Len(received') = n
          /\ \A i \in 1..n : received'[i] = said[i]
      BY <2>1, <2>2, <3>1
    <3>3. received' = [i \in 1..n |-> said[i]]
      BY <3>2, PrefixAsFunction
    <3>4. n \in (Len(received) + 1)..Len(said)
      BY <3>1 DEF TypeOK, StateTypeOK
    <3>5. DownChannel!Deliver
      BY <2>1, <3>3, <3>4 DEF DownChannel!Deliver
    <3>6. QED
      BY <3>5 DEF DownChannel!Next
  <2>3. CASE p.id # Len(received) + 1
    BY <2>1, <2>3
  <2>4. QED
    BY <2>2, <2>3
<1>3. ASSUME \/ \E m \in Msg : ClientIssue(m)
             \/ \E id \in unacked : ClientResend(id)
             \/ \E id \in down_acks : ClientTakeAck(id)
             \/ \E p \in up : RecvExpected(p) \/ RecvAhead(p) \/ RecvKnown(p)
             \/ \E id \in up_acks : RecvAck(id)
             \/ \E r \in notified_msgs : Transmit(r) \/ GiveUp(r) \/ Park(r)
             \/ \E id \in notified_acks : WriteAck(id)
             \/ \E overdue \in SUBSET server_msg_q : ResendQueued(overdue)
             \/ Connect \/ Disconnect \/ Close \/ Lose \/ ClientStateStops
             \/ UNCHANGED vars
      PROVE UNCHANGED <<said, received>>
  BY <1>3 DEF ClientIssue, ClientResend, ClientTakeAck, RecvExpected, RecvAhead, RecvKnown,
              RecvAck, Transmit, GiveUp, Park, WriteAck, ResendQueued, Connect,
              Disconnect, Close, Lose, ClientStateStops, vars
<1>4. QED
  BY <1>1, <1>2, <1>3 DEF Next, Client, Adapter, RecvMsg

\* From the server to the client, the link is an in-order channel.
THEOREM DownRefinement == Spec => ImplementsDownChannel
<1>1. Init => DownChannel!Init
  BY DEF Init, DownChannel!Init
<1>2. QED
  BY <1>1, DownChannelStep, DownInvariant, TypeCorrect, PTL
     DEF Spec, ImplementsDownChannel, DownChannel!Spec
===============================================================================
