----------------------------- MODULE PresenceProofs -----------------------------
(* Who is online, for any number of sockets, users, tokens and messages: what  *)
(* sockets that close late, and sessions that end late, cannot undo.           *)
EXTENDS Presence, SequenceTheorems, TLAPS

-------------------------------------------------------------------------------
(* The invariant.                                                             *)

Mail(box) == {box[i] : i \in 1..Len(box)}
AtMostOne(box, S) == \A i, j \in 1..Len(box) : box[i] \in S /\ box[j] \in S => i = j

RequestsOf(c) ==
    [type : {"RequestAdapterNew"}, conn : {c}]
        \cup [type : {"RequestAdapterExisting"}, conn : {c}, session : Conn]
Closed(c, s) == [type |-> "Disconnect", conn |-> c, session |-> s]
Unbind(u, t) == [type |-> "UnbindUser", user |-> u, token |-> t]

\* A LOGIN that waits for an answer has one task, and no other LOGIN has any.
OneAnswerEach == \A k \in tasks : k.type = "StartPlaying" =>
    /\ login[k.session] # None
    /\ \A l \in tasks : l.type = "StartPlaying" /\ l.session = k.session => l = k

\* A socket that has stopped is told nothing any more, and only such a socket has
\* reported that it is closed.
StoppedForGood == \A c \in Conn :
    /\ connection_state[c] = "Stopped" => conn_mailbox[c] = <<>>
    /\ \A s \in Conn : Closed(c, s) \in Mail(mgr_mailbox) => connection_state[c] = "Stopped"

\* A session is taken to be connected to its latest socket, or that has stopped.
LatestOrAway == \A s \in Conn : connections[s] # None =>
    /\ latest[s] \in Conn
    /\ \/ connections[s].state = latest[s]
       \/ connections[s].state = "Disconnected" /\ connection_state[latest[s]] = "Stopped"

\* A socket has asked for its session, and no request for it is left.
Begun(c) == /\ connection_state[c] # "NotConnected"
            /\ Mail(mgr_mailbox) \cap RequestsOf(c) = {}

\* A socket asks once, so that no ClientState is started twice.
StartedOnce == \A c \in Conn :
    /\ AtMostOne(mgr_mailbox, RequestsOf(c))
    /\ Mail(mgr_mailbox) \cap RequestsOf(c) # {} => connection_state[c] # "NotConnected"
    /\ c \in running \cup closing => Begun(c)

\* UnbindUser comes from a session that has used the token and runs no more.
UnbindersEnded ==
    /\ \A s \in Conn : maybe_api_token[s] \in used[s] \cup {None}
    /\ \A u \in User, t \in SessionToken : Unbind(u, t) \in Mail(mgr_mailbox) =>
           \E s \in Conn : t \in used[s] /\ s \notin running /\ Begun(s)

PresenceInv ==
    TypeOK /\ OneAnswerEach /\ StoppedForGood /\ LatestOrAway /\ StartedOnce /\ UnbindersEnded

-------------------------------------------------------------------------------
(* Mailboxes: a message is added at the end, or taken from the front.         *)

LEMMA AppendMail ==
    ASSUME NEW S, NEW box \in Seq(S), NEW m \in S
    PROVE  LET all == Append(box, m) IN
           /\ all \in Seq(S)
           /\ Mail(all) = Mail(box) \cup {m}
           /\ \A T : AtMostOne(box, T) /\ (m \notin T \/ Mail(box) \cap T = {}) => AtMostOne(all, T)
<1> DEFINE all == Append(box, m)
<1>1. /\ all \in Seq(S) /\ Len(box) \in Nat /\ Len(all) = Len(box) + 1
      /\ \A i \in 1..Len(box) : all[i] = box[i]
      /\ all[Len(box) + 1] = m
  BY AppendProperties, LenProperties
<1> HIDE DEF all
<1>2. \A i \in 1..Len(all) : i \in 1..Len(box) \/ i = Len(box) + 1
  BY <1>1
<1>3. 1..Len(box) \subseteq 1..Len(all) /\ Len(box) + 1 \in 1..Len(all)
  BY <1>1
<1>4. Mail(all) = Mail(box) \cup {m}
  BY <1>1, <1>2, <1>3 DEF Mail
<1>5. \A T : AtMostOne(box, T) /\ (m \notin T \/ Mail(box) \cap T = {}) => AtMostOne(all, T)
  BY <1>1, <1>2, <1>3 DEF Mail, AtMostOne
<1>6. QED
  BY <1>1, <1>4, <1>5 DEF all

LEMMA TailMail ==
    ASSUME NEW S, NEW box \in Seq(S), box # <<>>
    PROVE  LET rest == Tail(box) IN
           /\ rest \in Seq(S) /\ Head(box) \in S
           /\ Mail(box) = Mail(rest) \cup {Head(box)}
           /\ \A T : AtMostOne(box, T) =>
                AtMostOne(rest, T) /\ (Head(box) \in T => Mail(rest) \cap T = {})
<1> DEFINE rest == Tail(box)
<1>1. /\ rest \in Seq(S) /\ Head(box) \in S /\ Head(box) = box[1]
      /\ Len(box) \in Nat /\ Len(box) >= 1 /\ Len(rest) = Len(box) - 1
      /\ \A i \in 1..Len(rest) : rest[i] = box[i + 1]
  BY HeadTailProperties, LenProperties, EmptySeq
<1> HIDE DEF rest
<1>2. /\ \A i \in 1..Len(rest) : i + 1 \in 1..Len(box)
      /\ 1 \in 1..Len(box)
  BY <1>1
<1>3. ASSUME NEW i \in 1..Len(box), i # 1
      PROVE  i - 1 \in 1..Len(rest) /\ box[i] = rest[i - 1]
  <2>1. i - 1 \in 1..Len(rest) /\ (i - 1) + 1 = i
    BY <1>1, <1>3
  <2>2. QED
    BY <1>1, <2>1
<1>4. Mail(box) = Mail(rest) \cup {Head(box)}
  <2>1. \A x \in Mail(box) : x \in Mail(rest) \cup {Head(box)}
    BY <1>1, <1>3 DEF Mail
  <2>2. \A x \in Mail(rest) : x \in Mail(box)
    BY <1>1, <1>2 DEF Mail
  <2>3. Head(box) \in Mail(box)
    BY <1>1, <1>2 DEF Mail
  <2>4. QED
    BY <2>1, <2>2, <2>3
<1>5. ASSUME NEW T, AtMostOne(box, T)
      PROVE  AtMostOne(rest, T) /\ (Head(box) \in T => Mail(rest) \cap T = {})
  <2>1. ASSUME NEW i \in 1..Len(rest), NEW j \in 1..Len(rest), rest[i] \in T, rest[j] \in T
        PROVE  i = j
    <3>1. i + 1 = j + 1
      BY <1>1, <1>2, <1>5, <2>1 DEF AtMostOne
    <3>2. QED
      BY <3>1
  <2>2. ASSUME Head(box) \in T, NEW i \in 1..Len(rest), rest[i] \in T
        PROVE  FALSE
    <3>1. 1 = i + 1
      BY <1>1, <1>2, <1>5, <2>2 DEF AtMostOne
    <3>2. QED
      BY <3>1
  <2>3. QED
    BY <2>1, <2>2 DEF AtMostOne, Mail
<1>6. QED
  BY <1>1, <1>4, <1>5 DEF rest

\* What a message to ConnectionManager changes, and what taking one does.
ToldMgr(m) ==
    /\ mgr_mailbox' \in Seq(ConnectionManagerMsg)
    /\ Mail(mgr_mailbox') = Mail(mgr_mailbox) \cup {m}
    /\ \A T : AtMostOne(mgr_mailbox, T) /\ (m \notin T \/ Mail(mgr_mailbox) \cap T = {})
                => AtMostOne(mgr_mailbox', T)

MgrTook(m) ==
    /\ mgr_mailbox' \in Seq(ConnectionManagerMsg)
    /\ m \in ConnectionManagerMsg
    /\ Mail(mgr_mailbox) = Mail(mgr_mailbox') \cup {m}
    /\ \A T : AtMostOne(mgr_mailbox, T) =>
                AtMostOne(mgr_mailbox', T) /\ (m \in T => Mail(mgr_mailbox') \cap T = {})

LEMMA MgrIsTold ==
    ASSUME TypeOK, NEW m \in ConnectionManagerMsg, ToMgr(m)
    PROVE  ToldMgr(m)
<1>1. mgr_mailbox \in Seq(ConnectionManagerMsg)
  BY DEF TypeOK
<1>2. QED
  BY <1>1, AppendMail DEF ToMgr, ToldMgr

LEMMA MgrTakes ==
    ASSUME TypeOK, NEW type, TakesFromMailbox(type)
    PROVE  MgrTook(Head(mgr_mailbox)) /\ Head(mgr_mailbox).type = type
<1>1. mgr_mailbox \in Seq(ConnectionManagerMsg)
  BY DEF TypeOK
<1>2. QED
  BY <1>1, TailMail DEF TakesFromMailbox, MgrTook

\* The mailboxes of the sockets and of the adapters.
LEMMA SentFacts ==
    ASSUME NEW S, NEW box \in [Conn -> Seq(S)], NEW to, NEW m \in S
    PROVE  /\ Sent(box, to, m) \in [Conn -> Seq(S)]
           /\ \A a \in Conn : a \notin to => Sent(box, to, m)[a] = box[a]
<1>1. \A a \in Conn : Append(box[a], m) \in Seq(S)
  BY AppendProperties
<1>2. QED
  BY <1>1 DEF Sent

LEMMA TakenFacts ==
    ASSUME NEW S, NEW box \in [Conn -> Seq(S)], NEW c \in Conn, box[c] # <<>>
    PROVE  /\ Head(box[c]) \in S
           /\ [box EXCEPT ![c] = Tail(@)] \in [Conn -> Seq(S)]
<1>1. Head(box[c]) \in S /\ Tail(box[c]) \in Seq(S)
  BY HeadTailProperties
<1>2. QED
  BY <1>1

-------------------------------------------------------------------------------
(* What is there to begin with, and what most steps leave as it is.           *)

LEMMA InitMeetsInv == Init => PresenceInv
<1> SUFFICES ASSUME Init PROVE PresenceInv
  OBVIOUS
<1> USE PresenceAssumption
<1>1. Mail(<<>>) = {} /\ \A T : AtMostOne(<<>>, T)
  BY DEF Mail, AtMostOne
<1>2. \A S : <<>> \in Seq(S)
  OBVIOUS
<1>3. TypeOK
  BY <1>2 DEF Init, TypeOK
<1>4. OneAnswerEach /\ StoppedForGood /\ LatestOrAway
  BY <1>1 DEF Init, OneAnswerEach, StoppedForGood, LatestOrAway
<1>5. StartedOnce
  BY <1>1 DEF Init, StartedOnce
<1>6. UnbindersEnded
  BY <1>1 DEF Init, UnbindersEnded
<1>7. QED
  BY <1>3, <1>4, <1>5, <1>6 DEF PresenceInv

NoNewRequests == \A c \in Conn :
    /\ AtMostOne(mgr_mailbox, RequestsOf(c)) => AtMostOne(mgr_mailbox', RequestsOf(c))
    /\ Mail(mgr_mailbox') \cap RequestsOf(c) \subseteq Mail(mgr_mailbox)

NoneIsNewAgain ==
    \A c \in Conn : connection_state[c] # "NotConnected" => connection_state'[c] # "NotConnected"

LEMMA StartsKept ==
    ASSUME StartedOnce, NoNewRequests, NoneIsNewAgain,
           running' \subseteq running, closing' \subseteq closing \cup running
    PROVE  StartedOnce' /\ \A c \in Conn : Begun(c) => Begun(c)'
<1>1. \A c \in Conn : Begun(c) => Begun(c)'
  BY DEF NoNewRequests, NoneIsNewAgain, Begun
<1>2. ASSUME NEW c \in Conn
      PROVE  /\ AtMostOne(mgr_mailbox', RequestsOf(c))
             /\ Mail(mgr_mailbox') \cap RequestsOf(c) # {} => connection_state'[c] # "NotConnected"
             /\ c \in running' \cup closing' => Begun(c)'
  BY <1>1 DEF StartedOnce, NoNewRequests, NoneIsNewAgain
<1>3. QED
  BY <1>1, <1>2 DEF StartedOnce

LEMMA UnbindersKept ==
    ASSUME UnbindersEnded, \A c \in Conn : Begun(c) => Begun(c)',
           \A c \in Conn : Begun(c) /\ c \notin running => c \notin running',
           \A u \in User, t \in SessionToken :
               Unbind(u, t) \in Mail(mgr_mailbox') => Unbind(u, t) \in Mail(mgr_mailbox),
           used' = used, maybe_api_token' = maybe_api_token
    PROVE  UnbindersEnded'
<1>1. ASSUME NEW u \in User, NEW t \in SessionToken, Unbind(u, t) \in Mail(mgr_mailbox')
      PROVE  \E s \in Conn : t \in used'[s] /\ s \notin running' /\ Begun(s)'
  <2>1. PICK s \in Conn : t \in used[s] /\ s \notin running /\ Begun(s)
    BY <1>1 DEF UnbindersEnded
  <2>2. QED
    BY <2>1
<1>2. QED
  BY <1>1 DEF UnbindersEnded, Unbind

\* The mailbox of ConnectionManager is left alone.
LEMMA MailUntouched ==
    ASSUME mgr_mailbox' = mgr_mailbox
    PROVE  NoNewRequests
  BY DEF NoNewRequests

\* It takes a message, or is sent one that is no request for a session.
LEMMA MailTaken ==
    ASSUME NEW m, MgrTook(m)
    PROVE  NoNewRequests
  BY DEF NoNewRequests, MgrTook

LEMMA MailAdded ==
    ASSUME NEW m, ToldMgr(m), m.type \notin {"RequestAdapterNew", "RequestAdapterExisting"}
    PROVE  NoNewRequests
<1>1. \A c \in Conn : m \notin RequestsOf(c)
  BY DEF RequestsOf
<1>2. QED
  BY <1>1 DEF NoNewRequests, ToldMgr

StoppedStays ==
    \A c \in Conn : connection_state[c] = "Stopped" => connection_state'[c] = "Stopped"

LEMMA SocketsKept ==
    ASSUME StoppedForGood, StoppedStays, NoneIsNewAgain,
           \A c \in Conn : connection_state'[c] = "Stopped" => conn_mailbox'[c] = <<>>,
           \A c, s \in Conn :
               Closed(c, s) \in Mail(mgr_mailbox') => Closed(c, s) \in Mail(mgr_mailbox)
    PROVE  StoppedForGood'
  BY DEF StoppedForGood, StoppedStays, Closed

LEMMA SessionsKept ==
    ASSUME LatestOrAway, StoppedStays, connections' = connections, latest' = latest
    PROVE  LatestOrAway'
  BY DEF LatestOrAway, StoppedStays

LEMMA LoginsKept ==
    ASSUME OneAnswerEach, tasks' = tasks, login' = login
    PROVE  OneAnswerEach'
  BY DEF OneAnswerEach

\* What the sockets and ConnectionManager are asked by other actors, or are not.
SameMail == mgr_mailbox' = mgr_mailbox /\ connection_state' = connection_state

LEMMA SameMailKeeps ==
    ASSUME SameMail
    PROVE  NoNewRequests /\ NoneIsNewAgain /\ StoppedStays
  BY DEF SameMail, NoNewRequests, NoneIsNewAgain, StoppedStays

\* Steps of the adapters, of a ClientState that is not heard, and of UserManager.
LEMMA QuietStepKeeps ==
    ASSUME PresenceInv, SameMail, connections' = connections, latest' = latest,
           running' = running, closing' \subseteq closing \cup running,
           used' = used, maybe_api_token' = maybe_api_token,
           \A c \in Conn : connection_state[c] = "Stopped" => conn_mailbox'[c] = conn_mailbox[c]
    PROVE  StoppedForGood' /\ LatestOrAway' /\ StartedOnce' /\ UnbindersEnded'
<1>1. StoppedForGood /\ LatestOrAway /\ StartedOnce /\ UnbindersEnded
  BY DEF PresenceInv
<1>2. NoNewRequests /\ NoneIsNewAgain /\ StoppedStays /\ Mail(mgr_mailbox') = Mail(mgr_mailbox)
  BY SameMailKeeps DEF SameMail
<1>3. StoppedForGood'
  <2>1. \A c \in Conn : connection_state'[c] = "Stopped" => conn_mailbox'[c] = <<>>
    BY <1>1 DEF SameMail, StoppedForGood
  <2>2. QED
    BY <1>1, <1>2, <2>1, SocketsKept
<1>4. LatestOrAway'
  BY <1>1, <1>2, SessionsKept
<1>5. StartedOnce' /\ \A c \in Conn : Begun(c) => Begun(c)'
  BY <1>1, <1>2, StartsKept
<1>6. UnbindersEnded'
  BY <1>1, <1>2, <1>5, UnbindersKept
<1>7. QED
  BY <1>3, <1>4, <1>5, <1>6

-------------------------------------------------------------------------------
(* Sockets.                                                                   *)

LEMMA HelloKeepsInv ==
    ASSUME PresenceInv, NEW c \in Conn, Hello(c)
    PROVE  PresenceInv'
<1> USE PresenceAssumption
<1>1. TypeOK /\ OneAnswerEach /\ StoppedForGood /\ LatestOrAway /\ StartedOnce /\ UnbindersEnded
  BY DEF PresenceInv
<1>2. PICK m \in RequestsOf(c) : ToMgr(m)
  BY DEF Hello, RequestsOf
<1>3. m \in ConnectionManagerMsg /\ m.type \in {"RequestAdapterNew", "RequestAdapterExisting"}
      /\ m.conn = c
  BY DEF RequestsOf, ConnectionManagerMsg
<1>4. ToldMgr(m)
  BY <1>1, <1>2, <1>3, MgrIsTold
<1>5. /\ connection_state[c] = "NotConnected"
      /\ connection_state' = [connection_state EXCEPT ![c] = "Pending"]
      /\ UNCHANGED <<conn_mailbox, mgrVars, adapterVars, adapter_mailbox, running, closing,
                     stateVars, userVars>>
  BY DEF Hello
<1>6. StoppedStays /\ NoneIsNewAgain
  BY <1>1, <1>5 DEF TypeOK, StoppedStays, NoneIsNewAgain
<1>7. TypeOK'
  BY <1>1, <1>4, <1>5
     DEF TypeOK, ToldMgr, mgrVars, adapterVars, stateVars, userVars
<1>8. OneAnswerEach'
  BY <1>1, <1>5, LoginsKept DEF stateVars, userVars
<1>9. StoppedForGood'
  <2>1. \A d \in Conn : connection_state'[d] = "Stopped" => conn_mailbox'[d] = <<>>
    BY <1>1, <1>5 DEF TypeOK, StoppedForGood
  <2>2. \A d, s \in Conn : Closed(d, s) # m
    BY <1>3 DEF Closed
  <2>3. QED
    BY <1>1, <1>4, <1>6, <2>1, <2>2, SocketsKept DEF ToldMgr
<1>10. LatestOrAway'
  BY <1>1, <1>5, <1>6, SessionsKept DEF mgrVars
<1>11. ASSUME NEW d \in Conn, d # c
       PROVE  m \notin RequestsOf(d) /\ connection_state'[d] = connection_state[d]
  BY <1>1, <1>3, <1>5, <1>11 DEF RequestsOf, TypeOK
<1>12. /\ Mail(mgr_mailbox) \cap RequestsOf(c) = {}
       /\ c \notin running \cup closing
  BY <1>1, <1>5 DEF StartedOnce, Begun
<1>13. \A d \in Conn : Begun(d) => Begun(d)'
  <2>1. ~Begun(c)
    BY <1>5 DEF Begun
  <2>2. QED
    BY <1>4, <1>11, <2>1 DEF Begun, ToldMgr
<1>14. StartedOnce'
  <2>1. ASSUME NEW d \in Conn
        PROVE  /\ AtMostOne(mgr_mailbox', RequestsOf(d))
               /\ Mail(mgr_mailbox') \cap RequestsOf(d) # {} => connection_state'[d] # "NotConnected"
    <3>1. CASE d = c
      BY <1>1, <1>4, <1>5, <1>12, <3>1 DEF StartedOnce, ToldMgr, TypeOK
    <3>2. CASE d # c
      BY <1>1, <1>4, <1>11, <3>2 DEF StartedOnce, ToldMgr
    <3>3. QED
      BY <3>1, <3>2
  <2>2. \A d \in Conn : d \in running' \cup closing' => Begun(d)'
    BY <1>1, <1>5, <1>13 DEF StartedOnce
  <2>3. QED
    BY <2>1, <2>2 DEF StartedOnce
<1>15. UnbindersEnded'
  <2>1. \A u \in User, t \in SessionToken : Unbind(u, t) # m
    BY <1>3 DEF Unbind
  <2>2. QED
    BY <1>1, <1>4, <1>5, <1>13, <2>1, UnbindersKept DEF ToldMgr, stateVars
<1>16. QED
  BY <1>7, <1>8, <1>9, <1>10, <1>14, <1>15 DEF PresenceInv

LEMMA SocketStopsKeepsInv ==
    ASSUME PresenceInv, NEW c \in Conn, SocketStops(c)
    PROVE  PresenceInv'
<1> USE PresenceAssumption
<1>1. TypeOK /\ OneAnswerEach /\ StoppedForGood /\ LatestOrAway /\ StartedOnce /\ UnbindersEnded
  BY DEF PresenceInv
<1>2. /\ connection_state' = [connection_state EXCEPT ![c] = "Stopped"]
      /\ conn_mailbox' = [conn_mailbox EXCEPT ![c] = <<>>]
      /\ UNCHANGED <<mgrVars, adapterVars, adapter_mailbox, running, closing, stateVars, userVars>>
  BY DEF SocketStops
<1>3. \/ \E s \in Conn : ToldMgr(Closed(c, s))
      \/ mgr_mailbox' = mgr_mailbox
  <2>1. CASE connection_state[c] \in Conn
    <3>1. ToMgr(Closed(c, connection_state[c]))
      BY <2>1 DEF SocketStops, Closed
    <3>2. Closed(c, connection_state[c]) \in ConnectionManagerMsg
      BY <2>1 DEF Closed, ConnectionManagerMsg
    <3>3. QED
      BY <1>1, <2>1, <3>1, <3>2, MgrIsTold
  <2>2. CASE connection_state[c] \notin Conn
    BY <2>2 DEF SocketStops
  <2>3. QED
    BY <2>1, <2>2
<1>4. /\ mgr_mailbox' \in Seq(ConnectionManagerMsg)
      /\ NoNewRequests
      /\ \A d, s \in Conn : Closed(d, s) \in Mail(mgr_mailbox') =>
             Closed(d, s) \in Mail(mgr_mailbox) \/ d = c
      /\ \A u \in User, t \in SessionToken :
             Unbind(u, t) \in Mail(mgr_mailbox') => Unbind(u, t) \in Mail(mgr_mailbox)
  <2>1. CASE mgr_mailbox' = mgr_mailbox
    BY <1>1, <2>1, MailUntouched DEF TypeOK
  <2>2. ASSUME NEW s \in Conn, ToldMgr(Closed(c, s))
        PROVE  <1>4!1 /\ <1>4!2 /\ <1>4!3 /\ <1>4!4
    <3>1. Closed(c, s).type = "Disconnect" /\ Closed(c, s).conn = c
      BY DEF Closed
    <3>2. \A u \in User, t \in SessionToken : Unbind(u, t) # Closed(c, s)
      BY DEF Closed, Unbind
    <3>3. \A d, x \in Conn : Closed(d, x) = Closed(c, s) => d = c
      BY DEF Closed
    <3>4. NoNewRequests
      BY <2>2, <3>1, MailAdded
    <3>5. QED
      BY <2>2, <3>2, <3>3, <3>4 DEF ToldMgr
  <2>3. QED
    BY <1>3, <2>1, <2>2
<1>5. StoppedStays /\ NoneIsNewAgain
  BY <1>1, <1>2 DEF TypeOK, StoppedStays, NoneIsNewAgain
<1>6. TypeOK'
  <2>1. conn_mailbox' \in [Conn -> Seq(ClientConnectionMsg)]
    BY <1>1, <1>2 DEF TypeOK
  <2>2. QED
    BY <1>1, <1>2, <1>4, <2>1 DEF TypeOK, mgrVars, adapterVars, stateVars, userVars
<1>7. OneAnswerEach'
  BY <1>1, <1>2, LoginsKept DEF stateVars, userVars
<1>8. StoppedForGood'
  <2>1. \A d \in Conn : connection_state'[d] = "Stopped" => conn_mailbox'[d] = <<>>
    BY <1>1, <1>2 DEF TypeOK, StoppedForGood
  <2>2. connection_state'[c] = "Stopped"
    BY <1>1, <1>2 DEF TypeOK
  <2>3. QED
    BY <1>1, <1>4, <1>5, <2>1, <2>2 DEF StoppedForGood, StoppedStays, Closed
<1>9. LatestOrAway'
  BY <1>1, <1>2, <1>5, SessionsKept DEF mgrVars
<1>10. StartedOnce' /\ \A d \in Conn : Begun(d) => Begun(d)'
  BY <1>1, <1>2, <1>4, <1>5, StartsKept
<1>11. UnbindersEnded'
  BY <1>1, <1>2, <1>4, <1>10, UnbindersKept DEF stateVars
<1>12. QED
  BY <1>6, <1>7, <1>8, <1>9, <1>10, <1>11 DEF PresenceInv

LEMMA TakeConnectKeepsInv ==
    ASSUME PresenceInv, NEW c \in Conn, TakeConnect(c)
    PROVE  PresenceInv'
<1> USE PresenceAssumption
<1>1. TypeOK /\ OneAnswerEach /\ StoppedForGood /\ LatestOrAway /\ StartedOnce /\ UnbindersEnded
  BY DEF PresenceInv
<1>2. /\ conn_mailbox[c] # <<>> /\ Head(conn_mailbox[c]).type = "Connect"
      /\ connection_state' = [connection_state EXCEPT ![c] = Head(conn_mailbox[c]).session]
      /\ conn_mailbox' = [conn_mailbox EXCEPT ![c] = Tail(@)]
      /\ UNCHANGED <<mgrVars, mgr_mailbox, adapterVars, adapter_mailbox, running, closing,
                     stateVars, userVars>>
  BY DEF TakeConnect
<1>3. conn_mailbox \in [Conn -> Seq(ClientConnectionMsg)]
  BY <1>1 DEF TypeOK
<1>4. Head(conn_mailbox[c]) \in ClientConnectionMsg
      /\ conn_mailbox' \in [Conn -> Seq(ClientConnectionMsg)]
  BY <1>2, <1>3, TakenFacts
<1>5. Head(conn_mailbox[c]).session \in Conn
  BY <1>2, <1>4 DEF ClientConnectionMsg
<1>6. connection_state[c] # "Stopped"
  BY <1>1, <1>2 DEF StoppedForGood
<1>7. StoppedStays /\ NoneIsNewAgain
  BY <1>1, <1>2, <1>5, <1>6 DEF TypeOK, StoppedStays, NoneIsNewAgain
<1>8. TypeOK'
  <2>1. connection_state' \in [Conn -> Conn \cup {"NotConnected", "Pending", "Stopped"}]
    BY <1>1, <1>2, <1>5 DEF TypeOK
  <2>2. QED
    BY <1>1, <1>2, <1>4, <2>1 DEF TypeOK, mgrVars, adapterVars, stateVars, userVars
<1>9. OneAnswerEach'
  BY <1>1, <1>2, LoginsKept DEF stateVars, userVars
<1>10. StoppedForGood'
  <2>1. \A d \in Conn : connection_state'[d] = "Stopped" => conn_mailbox'[d] = <<>>
    <3>1. connection_state'[c] # "Stopped"
      BY <1>1, <1>2, <1>5 DEF TypeOK
    <3>2. QED
      BY <1>1, <1>2, <3>1 DEF TypeOK, StoppedForGood
  <2>2. QED
    BY <1>1, <1>2, <1>7, <2>1, SocketsKept
<1>11. LatestOrAway'
  BY <1>1, <1>2, <1>7, SessionsKept DEF mgrVars
<1>12. StartedOnce' /\ \A d \in Conn : Begun(d) => Begun(d)'
  BY <1>1, <1>2, <1>7, MailUntouched, StartsKept
<1>13. UnbindersEnded'
  BY <1>1, <1>2, <1>12, UnbindersKept DEF stateVars
<1>14. QED
  BY <1>8, <1>9, <1>10, <1>11, <1>12, <1>13 DEF PresenceInv

-------------------------------------------------------------------------------
(* ConnectionManager.                                                         *)

LEMMA RequestAdapterNewKeepsInv == PresenceInv /\ RequestAdapterNew => PresenceInv'
<1> SUFFICES ASSUME PresenceInv, RequestAdapterNew PROVE PresenceInv'
  OBVIOUS
<1> USE PresenceAssumption
<1> DEFINE m == Head(mgr_mailbox)
<1>1. TypeOK /\ OneAnswerEach /\ StoppedForGood /\ LatestOrAway /\ StartedOnce /\ UnbindersEnded
  BY DEF PresenceInv
<1>2. PICK c \in Conn :
      /\ TakesFromMailbox("RequestAdapterNew") \/ TakesFromMailbox("RequestAdapterExisting")
      /\ c = m.conn
      /\ connections' = [connections EXCEPT ![c] = [state |-> c, user_id |-> None]]
      /\ latest' = [latest EXCEPT ![c] = c]
      /\ adapter' = [adapter EXCEPT ![c] = "Running"]
      /\ client_connection' = [client_connection EXCEPT ![c] = c]
      /\ running' = running \cup {c}
      /\ conn_mailbox' = Sent(conn_mailbox, Open(c), [type |-> "Connect", session |-> c])
      /\ UNCHANGED <<connection_state, user_to_session, bound, adapter_mailbox, closing,
                     stateVars, userVars>>
  BY DEF RequestAdapterNew
<1>3. MgrTook(m) /\ m.type \in {"RequestAdapterNew", "RequestAdapterExisting"}
  BY <1>1, <1>2, MgrTakes
<1> HIDE DEF m
<1>4. m \in RequestsOf(c)
  BY <1>2, <1>3 DEF MgrTook, ConnectionManagerMsg, RequestsOf
<1>5. /\ NoNewRequests /\ NoneIsNewAgain /\ StoppedStays
      /\ ~Begun(c) /\ c \notin running \cup closing /\ connection_state[c] # "NotConnected"
  <2>1. m \in Mail(mgr_mailbox) \cap RequestsOf(c)
    BY <1>3, <1>4 DEF MgrTook
  <2>2. QED
    BY <1>1, <1>2, <1>3, <2>1, MailTaken DEF StartedOnce, Begun, NoneIsNewAgain, StoppedStays
<1>6. /\ conn_mailbox' \in [Conn -> Seq(ClientConnectionMsg)]
      /\ \A d \in Conn : connection_state[d] = "Stopped" => conn_mailbox'[d] = conn_mailbox[d]
  <2>1. [type |-> "Connect", session |-> c] \in ClientConnectionMsg
    BY DEF ClientConnectionMsg
  <2>2. \A d \in Conn : connection_state[d] = "Stopped" => d \notin Open(c)
    BY DEF Open
  <2>3. conn_mailbox \in [Conn -> Seq(ClientConnectionMsg)]
    BY <1>1 DEF TypeOK
  <2>4. QED
    BY <1>2, <2>1, <2>2, <2>3, SentFacts
<1>7. TypeOK'
  <2>1. [state |-> c, user_id |-> None] \in Connection
    BY DEF Connection
  <2>2. connections' \in [Conn -> Connection \cup {None}] /\ latest' \in [Conn -> Conn \cup {None}]
    BY <1>1, <1>2, <2>1 DEF TypeOK
  <2>3. /\ adapter' \in [Conn -> {None, "Running", "Stopped"}]
        /\ client_connection' \in [Conn -> Conn \cup {None}]
        /\ running' \subseteq Conn
    BY <1>1, <1>2 DEF TypeOK
  <2>4. QED
    BY <1>1, <1>2, <1>3, <1>6, <2>2, <2>3 DEF TypeOK, MgrTook, stateVars, userVars
<1>8. OneAnswerEach'
  BY <1>1, <1>2, LoginsKept DEF stateVars, userVars
<1>9. StoppedForGood'
  <2>1. \A d \in Conn : connection_state'[d] = "Stopped" => conn_mailbox'[d] = <<>>
    BY <1>1, <1>2, <1>6 DEF StoppedForGood
  <2>2. QED
    BY <1>1, <1>3, <1>5, <2>1, SocketsKept DEF MgrTook
<1>10. LatestOrAway'
  BY <1>1, <1>2 DEF LatestOrAway, TypeOK
<1>11. \A d \in Conn : Begun(d) => Begun(d)'
  BY <1>5 DEF Begun, NoNewRequests, NoneIsNewAgain
<1>12. StartedOnce'
  <2>1. ASSUME NEW d \in Conn
        PROVE  /\ AtMostOne(mgr_mailbox', RequestsOf(d))
               /\ Mail(mgr_mailbox') \cap RequestsOf(d) # {} => connection_state'[d] # "NotConnected"
    BY <1>1, <1>5 DEF StartedOnce, NoNewRequests, NoneIsNewAgain
  <2>2. Begun(c)'
    BY <1>1, <1>2, <1>3, <1>4, <1>5 DEF StartedOnce, MgrTook, Begun
  <2>3. \A d \in Conn : d \in running' \cup closing' => Begun(d)'
    BY <1>1, <1>2, <1>11, <2>2 DEF StartedOnce
  <2>4. QED
    BY <2>1, <2>3 DEF StartedOnce
<1>13. UnbindersEnded'
  <2>1. \A d \in Conn : Begun(d) /\ d \notin running => d \notin running'
    BY <1>2, <1>5
  <2>2. used' = used /\ maybe_api_token' = maybe_api_token
    BY <1>2 DEF stateVars
  <2>3. QED
    BY <1>1, <1>3, <1>11, <2>1, <2>2, UnbindersKept DEF MgrTook
<1>14. QED
  BY <1>7, <1>8, <1>9, <1>10, <1>12, <1>13 DEF PresenceInv

\* A message is taken that starts no session, and no socket is told anything but
\* one that is open.
LEMMA TakenKeeps ==
    ASSUME PresenceInv, NEW m, MgrTook(m), connection_state' = connection_state,
           UNCHANGED <<running, closing, stateVars, userVars>>,
           \A c \in Conn : connection_state[c] = "Stopped" => conn_mailbox'[c] = conn_mailbox[c]
    PROVE  OneAnswerEach' /\ StoppedForGood' /\ StartedOnce' /\ UnbindersEnded'
<1>1. OneAnswerEach /\ StoppedForGood /\ StartedOnce /\ UnbindersEnded
  BY DEF PresenceInv
<1>2. /\ NoNewRequests /\ NoneIsNewAgain /\ StoppedStays
      /\ Mail(mgr_mailbox') \subseteq Mail(mgr_mailbox)
  BY MailTaken DEF NoneIsNewAgain, StoppedStays, MgrTook
<1>3. OneAnswerEach'
  BY <1>1, LoginsKept DEF stateVars, userVars
<1>4. StoppedForGood'
  <2>1. \A c \in Conn : connection_state'[c] = "Stopped" => conn_mailbox'[c] = <<>>
    BY <1>1 DEF StoppedForGood
  <2>2. QED
    BY <1>1, <1>2, <2>1, SocketsKept
<1>5. StartedOnce' /\ \A c \in Conn : Begun(c) => Begun(c)'
  BY <1>1, <1>2, StartsKept
<1>6. UnbindersEnded'
  BY <1>1, <1>2, <1>5, UnbindersKept DEF stateVars
<1>7. QED
  BY <1>3, <1>4, <1>5, <1>6

LEMMA AdapterIsTold ==
    ASSUME TypeOK, NEW to, NEW m \in ClientAdapterMsg
    PROVE  Sent(adapter_mailbox, to, m) \in [Conn -> Seq(ClientAdapterMsg)]
<1>1. adapter_mailbox \in [Conn -> Seq(ClientAdapterMsg)]
  BY DEF TypeOK
<1>2. QED
  BY <1>1, SentFacts

LEMMA RequestAdapterExistingKeepsInv == PresenceInv /\ RequestAdapterExisting => PresenceInv'
<1> SUFFICES ASSUME PresenceInv, RequestAdapterExisting PROVE PresenceInv'
  OBVIOUS
<1> USE PresenceAssumption
<1> DEFINE m == Head(mgr_mailbox)
<1>1. TypeOK /\ LatestOrAway
  BY DEF PresenceInv
<1>2. PICK c \in Conn, s \in Conn :
      /\ TakesFromMailbox("RequestAdapterExisting")
      /\ connections[s] # None
      /\ connections' = [connections EXCEPT ![s].state = c]
      /\ latest' = [latest EXCEPT ![s] = c]
      /\ adapter_mailbox' = Sent(adapter_mailbox, Alive(s), [type |-> "Connect", conn |-> c])
      /\ conn_mailbox' = Sent(conn_mailbox, Open(c), [type |-> "Connect", session |-> s])
      /\ UNCHANGED <<connection_state, user_to_session, bound, adapterVars, running, closing,
                     stateVars, userVars>>
  BY DEF RequestAdapterExisting
<1>3. MgrTook(m)
  BY <1>1, <1>2, MgrTakes
<1> HIDE DEF m
<1>4. /\ conn_mailbox' \in [Conn -> Seq(ClientConnectionMsg)]
      /\ \A d \in Conn : connection_state[d] = "Stopped" => conn_mailbox'[d] = conn_mailbox[d]
  <2>1. [type |-> "Connect", session |-> s] \in ClientConnectionMsg
    BY DEF ClientConnectionMsg
  <2>2. \A d \in Conn : connection_state[d] = "Stopped" => d \notin Open(c)
    BY DEF Open
  <2>3. conn_mailbox \in [Conn -> Seq(ClientConnectionMsg)]
    BY <1>1 DEF TypeOK
  <2>4. PICK told, to : told = [type |-> "Connect", session |-> s] /\ to = Open(c)
    OBVIOUS
  <2>5. /\ Sent(conn_mailbox, to, told) \in [Conn -> Seq(ClientConnectionMsg)]
        /\ \A d \in Conn : d \notin to => Sent(conn_mailbox, to, told)[d] = conn_mailbox[d]
    <3>1. told \in ClientConnectionMsg
      BY <2>1, <2>4
    <3>2. QED
      BY <2>3, <3>1, SentFacts
  <2>6. conn_mailbox' = Sent(conn_mailbox, to, told)
    BY <1>2, <2>4
  <2>7. QED
    BY <2>2, <2>4, <2>5, <2>6
<1>5. connections[s] \in Connection
  BY <1>1, <1>2 DEF TypeOK
<1>6. [connections[s] EXCEPT !.state = c] \in Connection
      /\ [connections[s] EXCEPT !.state = c].state = c
  BY <1>5 DEF Connection
<1>7. connections' = [connections EXCEPT ![s] = [connections[s] EXCEPT !.state = c]]
  BY <1>2
<1>8. TypeOK'
  <2>1. connections' \in [Conn -> Connection \cup {None}] /\ latest' \in [Conn -> Conn \cup {None}]
    BY <1>1, <1>2, <1>6, <1>7 DEF TypeOK
  <2>2. adapter_mailbox' \in [Conn -> Seq(ClientAdapterMsg)]
    BY <1>1, <1>2, AdapterIsTold DEF ClientAdapterMsg
  <2>3. QED
    BY <1>1, <1>2, <1>3, <1>4, <2>1, <2>2 DEF TypeOK, MgrTook, adapterVars, stateVars, userVars
<1>9. OneAnswerEach' /\ StoppedForGood' /\ StartedOnce' /\ UnbindersEnded'
  BY <1>2, <1>3, <1>4, TakenKeeps
<1>10. LatestOrAway'
  BY <1>1, <1>2, <1>6, <1>7 DEF LatestOrAway, TypeOK
<1>11. QED
  BY <1>8, <1>9, <1>10 DEF PresenceInv

LEMMA DisconnectKeepsInv == PresenceInv /\ Disconnect => PresenceInv'
<1> SUFFICES ASSUME PresenceInv, Disconnect PROVE PresenceInv'
  OBVIOUS
<1> USE PresenceAssumption
<1> DEFINE m == Head(mgr_mailbox)
<1>1. TypeOK /\ LatestOrAway /\ StoppedForGood
  BY DEF PresenceInv
<1>2. PICK s \in Conn :
      /\ TakesFromMailbox("Disconnect")
      /\ s = m.session
      /\ IF connections[s] # None /\ connections[s].state = m.conn
         THEN /\ connections' = [connections EXCEPT ![s].state = "Disconnected"]
              /\ adapter_mailbox' = Sent(adapter_mailbox, Alive(s), [type |-> "Disconnect"])
         ELSE UNCHANGED <<connections, adapter_mailbox>>
      /\ UNCHANGED <<socketVars, user_to_session, latest, bound, adapterVars, running, closing,
                     stateVars, userVars>>
  BY DEF Disconnect
<1>3. MgrTook(m) /\ m.type = "Disconnect"
  BY <1>1, <1>2, MgrTakes
<1> HIDE DEF m
<1>4. m.conn \in Conn /\ m = Closed(m.conn, s)
  BY <1>2, <1>3 DEF MgrTook, ConnectionManagerMsg, Closed
<1>5. connection_state[m.conn] = "Stopped"
  BY <1>1, <1>3, <1>4 DEF MgrTook, StoppedForGood
<1>6. /\ connections' \in [Conn -> Connection \cup {None}]
      /\ adapter_mailbox' \in [Conn -> Seq(ClientAdapterMsg)]
      /\ LatestOrAway'
  <2>1. CASE ~(connections[s] # None /\ connections[s].state = m.conn)
    BY <1>1, <1>2, <2>1 DEF TypeOK, LatestOrAway, socketVars
  <2>2. CASE connections[s] # None /\ connections[s].state = m.conn
    <3> DEFINE away == [connections[s] EXCEPT !.state = "Disconnected"]
    <3>1. connections[s] \in Connection
      BY <1>1, <2>2 DEF TypeOK
    <3>2. away \in Connection /\ away.state = "Disconnected"
      BY <3>1 DEF Connection
    <3>3. connections' = [connections EXCEPT ![s] = away]
      BY <1>2, <2>2
    <3> HIDE DEF away
    <3>4. latest[s] = m.conn
      BY <1>1, <1>4, <2>2 DEF LatestOrAway
    <3>5. adapter_mailbox' \in [Conn -> Seq(ClientAdapterMsg)]
      BY <1>1, <1>2, <2>2, AdapterIsTold DEF ClientAdapterMsg
    <3>6. connections' \in [Conn -> Connection \cup {None}]
      BY <1>1, <3>2, <3>3 DEF TypeOK
    <3>7. LatestOrAway'
      BY <1>1, <1>2, <1>4, <1>5, <3>2, <3>3, <3>4 DEF LatestOrAway, TypeOK, socketVars
    <3>8. QED
      BY <3>5, <3>6, <3>7
  <2>3. QED
    BY <2>1, <2>2
<1>7. TypeOK'
  BY <1>1, <1>2, <1>3, <1>6 DEF TypeOK, MgrTook, socketVars, adapterVars, stateVars, userVars
<1>8. OneAnswerEach' /\ StoppedForGood' /\ StartedOnce' /\ UnbindersEnded'
  BY <1>2, <1>3, TakenKeeps DEF socketVars
<1>9. QED
  BY <1>6, <1>7, <1>8 DEF PresenceInv

LEMMA BindUserKeepsInv == PresenceInv /\ BindUser => PresenceInv'
<1> SUFFICES ASSUME PresenceInv, BindUser PROVE PresenceInv'
  OBVIOUS
<1> USE PresenceAssumption
<1> DEFINE m == Head(mgr_mailbox)
           Old(u) == {o \in Conn : /\ user_to_session[u] # None /\ o = user_to_session[u][1]
                                   /\ connections[o] # None}
           Released(u) == [o \in Conn |-> IF o \in Old(u)
                                          THEN [connections[o] EXCEPT !.user_id = None]
                                          ELSE connections[o]]
<1>1. TypeOK /\ LatestOrAway
  BY DEF PresenceInv
<1>2. PICK u \in User, s \in Conn :
      /\ TakesFromMailbox("BindUser")
      /\ connections' = [Released(u) EXCEPT ![s] =
                             IF @ = None THEN None ELSE [@ EXCEPT !.user_id = u]]
      /\ adapter_mailbox' =
             Sent(adapter_mailbox, {o \in Old(u) : adapter[o] = "Running"}, [type |-> "Close"])
      /\ user_to_session' = [user_to_session EXCEPT ![u] = <<s, m.token>>]
      /\ bound' = [bound EXCEPT ![u] = s]
      /\ UNCHANGED <<socketVars, latest, adapterVars, running, closing, stateVars, userVars>>
  BY DEF BindUser
<1>3. MgrTook(m) /\ m.type = "BindUser"
  BY <1>1, <1>2, MgrTakes
<1> HIDE DEF m
<1>4. m.token \in SessionToken
  BY <1>3 DEF MgrTook, ConnectionManagerMsg
<1>5. ASSUME NEW o \in Conn, o \in Old(u)
      PROVE  /\ [connections[o] EXCEPT !.user_id = None] \in Connection
             /\ [connections[o] EXCEPT !.user_id = None].state = connections[o].state
  <2>1. connections[o] \in Connection
    BY <1>1, <1>5 DEF TypeOK
  <2>2. QED
    BY <2>1 DEF Connection
<1>6. ASSUME NEW o \in Conn
      PROVE  /\ Released(u)[o] \in Connection \cup {None}
             /\ Released(u)[o] # None =>
                  connections[o] # None /\ Released(u)[o].state = connections[o].state
  <2>1. CASE o \in Old(u)
    BY <1>5, <2>1
  <2>2. CASE o \notin Old(u)
    BY <1>1, <2>2 DEF TypeOK
  <2>3. QED
    BY <2>1, <2>2
<1>7. Released(u) = [o \in Conn |-> Released(u)[o]]
  OBVIOUS
<1>8. adapter_mailbox' \in [Conn -> Seq(ClientAdapterMsg)]
  BY <1>1, <1>2, AdapterIsTold DEF ClientAdapterMsg
<1> HIDE DEF Released, Old
<1>9. ASSUME NEW o \in Conn
      PROVE  /\ connections'[o] \in Connection \cup {None}
             /\ connections'[o] # None =>
                  connections[o] # None /\ connections'[o].state = connections[o].state
  <2>1. CASE o # s \/ Released(u)[o] = None
    BY <1>2, <1>6, <1>7, <2>1
  <2>2. CASE o = s /\ Released(u)[o] # None
    <3>1. connections'[o] = [Released(u)[o] EXCEPT !.user_id = u]
      BY <1>2, <1>7, <2>2
    <3>2. Released(u)[o] \in Connection
      BY <1>6, <2>2
    <3>3. [Released(u)[o] EXCEPT !.user_id = u] \in Connection
          /\ [Released(u)[o] EXCEPT !.user_id = u].state = Released(u)[o].state
      BY <3>2 DEF Connection
    <3>4. QED
      BY <1>6, <2>2, <3>1, <3>3
  <2>3. QED
    BY <2>1, <2>2
<1>10. TypeOK'
  <2>1. connections' \in [Conn -> Connection \cup {None}]
    <3>1. connections' = [o \in Conn |-> connections'[o]]
      BY <1>2, <1>7
    <3>2. QED
      BY <1>9, <3>1
  <2>2. /\ user_to_session' \in [User -> (Conn \X SessionToken) \cup {None}]
        /\ bound' \in [User -> Conn \cup {None}]
    BY <1>1, <1>2, <1>4 DEF TypeOK
  <2>3. QED
    BY <1>1, <1>2, <1>3, <1>8, <2>1, <2>2
       DEF TypeOK, MgrTook, socketVars, adapterVars, stateVars, userVars
<1>11. OneAnswerEach' /\ StoppedForGood' /\ StartedOnce' /\ UnbindersEnded'
  BY <1>2, <1>3, TakenKeeps DEF socketVars
<1>12. LatestOrAway'
  BY <1>1, <1>2, <1>9 DEF LatestOrAway, socketVars
<1>13. QED
  BY <1>10, <1>11, <1>12 DEF PresenceInv

LEMMA UnbindUserKeepsInv == PresenceInv /\ UnbindUser => PresenceInv'
<1> SUFFICES ASSUME PresenceInv, UnbindUser PROVE PresenceInv'
  OBVIOUS
<1> USE PresenceAssumption
<1> DEFINE m == Head(mgr_mailbox)
<1>1. TypeOK /\ LatestOrAway
  BY DEF PresenceInv
<1>2. PICK u \in User :
      /\ TakesFromMailbox("UnbindUser")
      /\ user_to_session' = [user_to_session EXCEPT ![u] =
             IF @ # None /\ @[2] = m.token THEN None ELSE @]
      /\ UNCHANGED <<socketVars, connections, latest, bound, adapterVars, adapter_mailbox,
                     running, closing, stateVars, userVars>>
  BY DEF UnbindUser
<1>3. MgrTook(m)
  BY <1>1, <1>2, MgrTakes
<1> HIDE DEF m
<1>4. TypeOK'
  <2>1. user_to_session' \in [User -> (Conn \X SessionToken) \cup {None}]
    BY <1>1, <1>2 DEF TypeOK
  <2>2. QED
    BY <1>1, <1>2, <1>3, <2>1
       DEF TypeOK, MgrTook, socketVars, adapterVars, stateVars, userVars
<1>5. OneAnswerEach' /\ StoppedForGood' /\ StartedOnce' /\ UnbindersEnded'
  BY <1>2, <1>3, TakenKeeps DEF socketVars
<1>6. LatestOrAway'
  BY <1>1, <1>2 DEF LatestOrAway, socketVars
<1>7. QED
  BY <1>4, <1>5, <1>6 DEF PresenceInv

LEMMA TimesOutKeepsInv ==
    ASSUME PresenceInv, NEW s \in Conn, TimesOut(s)
    PROVE  PresenceInv'
<1> USE PresenceAssumption
<1> DEFINE u == connections[s].user_id
<1>1. TypeOK /\ OneAnswerEach /\ LatestOrAway
  BY DEF PresenceInv
<1>2. /\ connections[s] # None
      /\ adapter_mailbox' = Sent(adapter_mailbox, Alive(s), [type |-> "Close"])
      /\ user_to_session' = IF u = None THEN user_to_session
                            ELSE [user_to_session EXCEPT ![u] = None]
      /\ connections' = [connections EXCEPT ![s] = None]
      /\ UNCHANGED <<socketVars, latest, bound, mgr_mailbox, adapterVars, running, closing,
                     stateVars, userVars>>
  BY DEF TimesOut
<1>3. u \in User \cup {None}
  BY <1>1, <1>2 DEF TypeOK, Connection
<1> HIDE DEF u
<1>4. TypeOK'
  <2>1. user_to_session' \in [User -> (Conn \X SessionToken) \cup {None}]
    BY <1>1, <1>2, <1>3 DEF TypeOK
  <2>2. connections' \in [Conn -> Connection \cup {None}]
    BY <1>1, <1>2 DEF TypeOK
  <2>3. adapter_mailbox' \in [Conn -> Seq(ClientAdapterMsg)]
    BY <1>1, <1>2, AdapterIsTold DEF ClientAdapterMsg
  <2>4. QED
    BY <1>1, <1>2, <2>1, <2>2, <2>3 DEF TypeOK, socketVars, adapterVars, stateVars, userVars
<1>5. OneAnswerEach'
  BY <1>1, <1>2, LoginsKept DEF stateVars, userVars
<1>6. StoppedForGood' /\ StartedOnce' /\ UnbindersEnded'
  <2>1. StoppedForGood /\ StartedOnce /\ UnbindersEnded
    BY DEF PresenceInv
  <2>2. SameMail /\ NoNewRequests /\ NoneIsNewAgain /\ StoppedStays
    BY <1>2, SameMailKeeps DEF SameMail, socketVars
  <2>3. StoppedForGood'
    <3>1. \A c \in Conn : connection_state'[c] = "Stopped" => conn_mailbox'[c] = <<>>
      BY <1>2, <2>1 DEF StoppedForGood, socketVars
    <3>2. QED
      BY <2>1, <2>2, <3>1, SocketsKept DEF SameMail
  <2>4. StartedOnce' /\ \A c \in Conn : Begun(c) => Begun(c)'
    BY <1>2, <2>1, <2>2, StartsKept
  <2>5. UnbindersEnded'
    BY <1>2, <2>1, <2>2, <2>4, UnbindersKept DEF stateVars, SameMail
  <2>6. QED
    BY <2>3, <2>4, <2>5
<1>7. LatestOrAway'
  BY <1>1, <1>2 DEF LatestOrAway, TypeOK, socketVars
<1>8. QED
  BY <1>4, <1>5, <1>6, <1>7 DEF PresenceInv

-------------------------------------------------------------------------------
(* Adapters.                                                                  *)

LEMMA TakeConnectionKeepsInv ==
    ASSUME PresenceInv, NEW s \in Conn, TakeConnection(s)
    PROVE  PresenceInv'
<1> USE PresenceAssumption
<1>1. TypeOK /\ OneAnswerEach
  BY DEF PresenceInv
<1>2. /\ adapter_mailbox[s] # <<>>
      /\ client_connection' = [client_connection EXCEPT ![s] =
             IF Head(adapter_mailbox[s]).type = "Connect" THEN Head(adapter_mailbox[s]).conn
             ELSE None]
      /\ adapter_mailbox' = [adapter_mailbox EXCEPT ![s] = Tail(@)]
      /\ UNCHANGED <<socketVars, mgrVars, mgr_mailbox, adapter, running, closing, stateVars,
                     userVars>>
  BY DEF TakeConnection
<1>3. adapter_mailbox \in [Conn -> Seq(ClientAdapterMsg)]
  BY <1>1 DEF TypeOK
<1>4. /\ Head(adapter_mailbox[s]) \in ClientAdapterMsg
      /\ adapter_mailbox' \in [Conn -> Seq(ClientAdapterMsg)]
  BY <1>2, <1>3, TakenFacts
<1>5. client_connection' \in [Conn -> Conn \cup {None}]
  BY <1>1, <1>2, <1>4 DEF TypeOK, ClientAdapterMsg
<1>6. TypeOK'
  BY <1>1, <1>2, <1>4, <1>5 DEF TypeOK, socketVars, mgrVars, stateVars, userVars
<1>7. OneAnswerEach'
  BY <1>1, <1>2, LoginsKept DEF stateVars, userVars
<1>8. StoppedForGood' /\ LatestOrAway' /\ StartedOnce' /\ UnbindersEnded'
  BY <1>2, QuietStepKeeps DEF SameMail, socketVars, mgrVars, stateVars
<1>9. QED
  BY <1>6, <1>7, <1>8 DEF PresenceInv

LEMMA AdapterStopsKeepsInv ==
    ASSUME PresenceInv, NEW s \in Conn, AdapterStops(s)
    PROVE  PresenceInv'
<1> USE PresenceAssumption
<1>1. TypeOK /\ OneAnswerEach
  BY DEF PresenceInv
<1>2. /\ adapter' = [adapter EXCEPT ![s] = "Stopped"]
      /\ adapter_mailbox' = [adapter_mailbox EXCEPT ![s] = <<>>]
      /\ closing' = closing \cup ({s} \cap running)
      /\ conn_mailbox' = Sent(conn_mailbox, Open(client_connection[s]), [type |-> "Close"])
      /\ UNCHANGED <<connection_state, mgrVars, mgr_mailbox, client_connection, running,
                     stateVars, userVars>>
  BY DEF AdapterStops
<1>3. /\ conn_mailbox' \in [Conn -> Seq(ClientConnectionMsg)]
      /\ \A d \in Conn : connection_state[d] = "Stopped" => conn_mailbox'[d] = conn_mailbox[d]
  <2>1. [type |-> "Close"] \in ClientConnectionMsg
    BY DEF ClientConnectionMsg
  <2>2. \A d \in Conn : connection_state[d] = "Stopped" => d \notin Open(client_connection[s])
    BY DEF Open
  <2>3. conn_mailbox \in [Conn -> Seq(ClientConnectionMsg)]
    BY <1>1 DEF TypeOK
  <2>4. QED
    BY <1>2, <2>1, <2>2, <2>3, SentFacts
<1>4. TypeOK'
  <2>1. /\ adapter_mailbox' \in [Conn -> Seq(ClientAdapterMsg)]
        /\ adapter' \in [Conn -> {None, "Running", "Stopped"}]
        /\ closing' \subseteq Conn
    BY <1>1, <1>2 DEF TypeOK
  <2>2. QED
    BY <1>1, <1>2, <1>3, <2>1 DEF TypeOK, mgrVars, stateVars, userVars
<1>5. OneAnswerEach'
  BY <1>1, <1>2, LoginsKept DEF stateVars, userVars
<1>6. StoppedForGood' /\ LatestOrAway' /\ StartedOnce' /\ UnbindersEnded'
  BY <1>2, <1>3, QuietStepKeeps DEF SameMail, mgrVars, stateVars
<1>7. QED
  BY <1>4, <1>5, <1>6 DEF PresenceInv

-------------------------------------------------------------------------------
(* ClientState and UserManager.                                               *)

\* Steps that only concern logins and who is playing.
LEMMA LoginStepKeeps ==
    ASSUME PresenceInv, TypeOK', OneAnswerEach', SameMail,
           UNCHANGED <<conn_mailbox, mgrVars, running, closing, used, maybe_api_token>>
    PROVE  PresenceInv'
<1>1. StoppedForGood' /\ LatestOrAway' /\ StartedOnce' /\ UnbindersEnded'
  BY QuietStepKeeps DEF mgrVars
<1>2. QED
  BY <1>1 DEF PresenceInv

StopTask(s) ==
    [type |-> "StopPlaying", session |-> s, user |-> maybe_user_info[s],
     nth |-> logins, step |-> "New", seen |-> None]

LEMMA StopTaskFacts ==
    ASSUME TypeOK, NEW s \in Conn, maybe_user_info[s] # None
    PROVE  /\ StopTask(s) \in Task /\ StopTask(s).type = "StopPlaying"
           /\ \A T : StopPlaying(s, T) = T \cup {StopTask(s)}
<1>1. maybe_user_info[s] \in User /\ logins \in Nat
  BY DEF TypeOK
<1>2. StopTask(s) \in Task
  BY <1>1 DEF StopTask, Task
<1>3. StopTask(s).type = "StopPlaying"
  BY DEF StopTask
<1>4. \A T : StopPlaying(s, T) = T \cup {StopTask(s)}
  BY DEF StopPlaying, StopTask
<1>5. QED
  BY <1>2, <1>3, <1>4

LEMMA LoginKeepsInv ==
    ASSUME PresenceInv, NEW s \in Conn, NEW t \in SessionToken, Login(s, t)
    PROVE  PresenceInv'
<1> USE PresenceAssumption
<1> DEFINE k == [type |-> "StartPlaying", session |-> s, user |-> UserOf[t], nth |-> logins,
                 step |-> "New", seen |-> None]
<1>1. TypeOK /\ OneAnswerEach
  BY DEF PresenceInv
<1>2. /\ login[s] = None
      /\ logins' = logins + 1
      /\ login' = [login EXCEPT ![s] = t]
      /\ tasks' = (IF maybe_user_info[s] = None THEN tasks ELSE StopPlaying(s, tasks)) \cup {k}
      /\ UNCHANGED <<socketVars, mgrVars, mgr_mailbox, adapterVars, adapter_mailbox, running,
                     closing, maybe_user_info, maybe_api_token, used, playing, close_later>>
  BY DEF Login, ClientSends
<1>3. k \in Task /\ k.session = s
  BY <1>1 DEF TypeOK, Task
<1> HIDE DEF k
<1>4. \/ tasks' = tasks \cup {k}
      \/ \E x \in Task : x.type = "StopPlaying" /\ tasks' = tasks \cup {x} \cup {k}
  BY <1>1, <1>2, StopTaskFacts
<1>5. TypeOK'
  <2>1. tasks' \subseteq Task
    BY <1>1, <1>3, <1>4 DEF TypeOK
  <2>2. login' \in [Conn -> SessionToken \cup {None}] /\ logins' \in Nat
    BY <1>1, <1>2 DEF TypeOK
  <2>3. QED
    BY <1>1, <1>2, <2>1, <2>2 DEF TypeOK, socketVars, mgrVars, adapterVars
<1>6. OneAnswerEach'
  <2>1. \A l \in tasks' : l.type = "StartPlaying" => l \in tasks \/ l = k
    BY <1>4
  <2>2. \A l \in tasks : l.type = "StartPlaying" => l.session # s /\ l.session \in Conn
    BY <1>1, <1>2 DEF OneAnswerEach, TypeOK, Task
  <2>3. login'[s] # None /\ \A d \in Conn : d # s => login'[d] = login[d]
    BY <1>1, <1>2 DEF TypeOK
  <2>4. ASSUME NEW l \in tasks', l.type = "StartPlaying"
        PROVE  /\ login'[l.session] # None
               /\ \A j \in tasks' : j.type = "StartPlaying" /\ j.session = l.session => j = l
    <3>1. CASE l = k
      BY <1>3, <2>1, <2>2, <2>3, <3>1
    <3>2. CASE l \in tasks
      <4>1. l.session # s /\ l.session \in Conn
        BY <2>2, <2>4, <3>2
      <4>2. login'[l.session] # None
        BY <1>1, <2>3, <2>4, <3>2, <4>1 DEF OneAnswerEach
      <4>3. QED
        BY <1>1, <1>3, <2>1, <2>4, <3>2, <4>1, <4>2 DEF OneAnswerEach
    <3>3. QED
      BY <2>1, <2>4, <3>1, <3>2
  <2>5. QED
    BY <2>4 DEF OneAnswerEach
<1>7. QED
  BY <1>2, <1>5, <1>6, LoginStepKeeps DEF SameMail, socketVars

\* A LOGIN is answered: its task is done, and there is no other.
LEMMA AnswerKeepsLogins ==
    ASSUME TypeOK, OneAnswerEach, NEW k \in tasks, k.type = "StartPlaying",
           tasks' = tasks \ {k}, login' = [login EXCEPT ![k.session] = None]
    PROVE  OneAnswerEach'
<1>1. ASSUME NEW l \in tasks', l.type = "StartPlaying"
      PROVE  login'[l.session] # None
  <2>1. l.session # k.session /\ l.session \in Conn /\ k.session \in Conn
    BY <1>1 DEF OneAnswerEach, TypeOK, Task
  <2>2. QED
    BY <1>1, <2>1 DEF OneAnswerEach, TypeOK
<1>2. QED
  BY <1>1 DEF OneAnswerEach

LEMMA LoggedInKeepsInv ==
    ASSUME PresenceInv, NEW s \in Conn, LoggedIn(s)
    PROVE  PresenceInv'
<1> USE PresenceAssumption
<1>1. TypeOK /\ OneAnswerEach /\ StoppedForGood /\ LatestOrAway /\ StartedOnce /\ UnbindersEnded
  BY DEF PresenceInv
<1>2. PICK k \in tasks :
      /\ k.type = "StartPlaying" /\ k.session = s
      /\ tasks' = tasks \ {k}
      /\ login' = [login EXCEPT ![s] = None]
      /\ maybe_user_info' = [maybe_user_info EXCEPT ![s] = k.user]
      /\ maybe_api_token' = [maybe_api_token EXCEPT ![s] = login[s]]
      /\ used' = [used EXCEPT ![s] = @ \cup {login[s]}]
      /\ ToMgr([type |-> "BindUser", user |-> k.user, token |-> login[s], session |-> s])
      /\ UNCHANGED <<socketVars, mgrVars, adapterVars, adapter_mailbox, running, closing, logins,
                     playing, close_later>>
  BY DEF LoggedIn
<1> DEFINE m == [type |-> "BindUser", user |-> k.user, token |-> login[s], session |-> s]
<1>3. k.user \in User /\ login[s] \in SessionToken
  BY <1>1, <1>2 DEF TypeOK, Task, OneAnswerEach
<1>4. m \in ConnectionManagerMsg /\ m.type = "BindUser"
  BY <1>3 DEF ConnectionManagerMsg
<1> HIDE DEF m
<1>5. ToldMgr(m)
  BY <1>1, <1>2, <1>4, MgrIsTold DEF m
<1>6. NoNewRequests /\ NoneIsNewAgain /\ StoppedStays
  BY <1>2, <1>4, <1>5, MailAdded DEF NoneIsNewAgain, StoppedStays, socketVars
<1>7. TypeOK'
  <2>1. /\ tasks' \subseteq Task
        /\ login' \in [Conn -> SessionToken \cup {None}]
        /\ maybe_user_info' \in [Conn -> User \cup {None}]
        /\ maybe_api_token' \in [Conn -> SessionToken \cup {None}]
        /\ used' \in [Conn -> SUBSET SessionToken]
    BY <1>1, <1>2, <1>3 DEF TypeOK
  <2>2. QED
    BY <1>1, <1>2, <1>5, <2>1 DEF TypeOK, ToldMgr, socketVars, mgrVars, adapterVars
<1>8. OneAnswerEach'
  BY <1>1, <1>2, AnswerKeepsLogins
<1>9. StoppedForGood'
  <2>1. \A c, d \in Conn : Closed(c, d) # m
    BY <1>4 DEF Closed
  <2>2. \A c \in Conn : connection_state'[c] = "Stopped" => conn_mailbox'[c] = <<>>
    BY <1>1, <1>2 DEF StoppedForGood, socketVars
  <2>3. QED
    BY <1>1, <1>5, <1>6, <2>1, <2>2, SocketsKept DEF ToldMgr
<1>10. LatestOrAway'
  BY <1>1, <1>2, <1>6, SessionsKept DEF mgrVars
<1>11. StartedOnce' /\ \A c \in Conn : Begun(c) => Begun(c)'
  BY <1>1, <1>2, <1>6, StartsKept
<1>12. UnbindersEnded'
  <2>1. \A c \in Conn : used[c] \subseteq used'[c]
    BY <1>1, <1>2 DEF TypeOK
  <2>2. \A c \in Conn : maybe_api_token'[c] \in used'[c] \cup {None}
    BY <1>1, <1>2 DEF TypeOK, UnbindersEnded
  <2>3. ASSUME NEW u \in User, NEW t \in SessionToken, Unbind(u, t) \in Mail(mgr_mailbox')
        PROVE  \E d \in Conn : t \in used'[d] /\ d \notin running' /\ Begun(d)'
    <3>1. Unbind(u, t) # m
      BY <1>4 DEF Unbind
    <3>2. PICK d \in Conn : t \in used[d] /\ d \notin running /\ Begun(d)
      BY <1>1, <1>5, <2>3, <3>1 DEF UnbindersEnded, ToldMgr
    <3>3. QED
      BY <1>2, <1>11, <2>1, <3>2
  <2>4. QED
    BY <2>2, <2>3 DEF UnbindersEnded, Unbind
<1>13. QED
  BY <1>7, <1>8, <1>9, <1>10, <1>11, <1>12 DEF PresenceInv

\* More tasks that answer no LOGIN.
LEMMA StopTaskKeepsLogins ==
    ASSUME OneAnswerEach, login' = login,
           \A l \in tasks' : l.type = "StartPlaying" => l \in tasks
    PROVE  OneAnswerEach'
  BY DEF OneAnswerEach

LEMMA LogoutKeepsInv ==
    ASSUME PresenceInv, NEW s \in Conn, Logout(s)
    PROVE  PresenceInv'
<1> USE PresenceAssumption
<1>1. TypeOK /\ OneAnswerEach
  BY DEF PresenceInv
<1>2. /\ maybe_user_info[s] # None
      /\ logins' = logins + 1
      /\ tasks' = StopPlaying(s, tasks)
      /\ maybe_user_info' = [maybe_user_info EXCEPT ![s] = None]
      /\ UNCHANGED <<socketVars, mgrVars, mgr_mailbox, adapterVars, adapter_mailbox, running,
                     closing, login, maybe_api_token, used, playing, close_later>>
  BY DEF Logout
<1>3. /\ tasks' = tasks \cup {StopTask(s)}
      /\ StopTask(s) \in Task /\ StopTask(s).type = "StopPlaying"
  BY <1>1, <1>2, StopTaskFacts
<1>4. TypeOK'
  <2>1. /\ tasks' \subseteq Task /\ logins' \in Nat
        /\ maybe_user_info' \in [Conn -> User \cup {None}]
    BY <1>1, <1>2, <1>3 DEF TypeOK
  <2>2. QED
    BY <1>1, <1>2, <2>1 DEF TypeOK, socketVars, mgrVars, adapterVars
<1>5. OneAnswerEach'
  BY <1>1, <1>2, <1>3, StopTaskKeepsLogins
<1>6. QED
  BY <1>2, <1>4, <1>5, LoginStepKeeps DEF SameMail, socketVars

LEMMA StateClosesKeepsInv ==
    ASSUME PresenceInv, NEW s \in Conn, StateCloses(s)
    PROVE  PresenceInv'
<1> USE PresenceAssumption
<1> DEFINE u == maybe_user_info[s]
           t == maybe_api_token[s]
<1>1. TypeOK /\ OneAnswerEach /\ StoppedForGood /\ LatestOrAway /\ StartedOnce /\ UnbindersEnded
  BY DEF PresenceInv
<1>2. /\ s \in closing
      /\ running' = running \ {s}
      /\ closing' = closing \ {s}
      /\ tasks' = IF u = None THEN tasks ELSE StopPlaying(s, tasks)
      /\ IF u # None /\ t # None THEN ToMgr(Unbind(u, t)) ELSE UNCHANGED mgr_mailbox
      /\ adapter_mailbox' = Sent(adapter_mailbox, Alive(s), [type |-> "Close"])
      /\ UNCHANGED <<socketVars, mgrVars, adapterVars, stateVars, playing, close_later>>
  BY DEF StateCloses, Unbind
<1>3. \/ mgr_mailbox' = mgr_mailbox
      \/ u \in User /\ t \in SessionToken /\ t \in used[s] /\ ToldMgr(Unbind(u, t))
  <2>1. CASE u # None /\ t # None
    <3>1. u \in User /\ t \in SessionToken /\ t \in used[s]
      BY <1>1, <2>1 DEF TypeOK, UnbindersEnded
    <3>2. Unbind(u, t) \in ConnectionManagerMsg
      BY <3>1 DEF Unbind, ConnectionManagerMsg
    <3>3. QED
      BY <1>1, <1>2, <2>1, <3>1, <3>2, MgrIsTold
  <2>2. CASE ~(u # None /\ t # None)
    BY <1>2, <2>2
  <2>3. QED
    BY <2>1, <2>2
<1>4. /\ mgr_mailbox' \in Seq(ConnectionManagerMsg)
      /\ NoNewRequests
      /\ \A c, d \in Conn :
             Closed(c, d) \in Mail(mgr_mailbox') => Closed(c, d) \in Mail(mgr_mailbox)
      /\ \A v \in User, x \in SessionToken : Unbind(v, x) \in Mail(mgr_mailbox') =>
             Unbind(v, x) \in Mail(mgr_mailbox) \/ x \in used[s]
  <2>1. CASE mgr_mailbox' = mgr_mailbox
    BY <1>1, <2>1, MailUntouched DEF TypeOK
  <2>2. CASE t \in used[s] /\ ToldMgr(Unbind(u, t))
    <3>1. Unbind(u, t).type = "UnbindUser"
      BY DEF Unbind
    <3>2. NoNewRequests
      BY <2>2, <3>1, MailAdded
    <3>3. \A c, d \in Conn : Closed(c, d) # Unbind(u, t)
      BY DEF Closed, Unbind
    <3>4. \A v \in User, x \in SessionToken : Unbind(v, x) = Unbind(u, t) => x = t
      BY DEF Unbind
    <3>5. QED
      BY <2>2, <3>2, <3>3, <3>4 DEF ToldMgr
  <2>3. QED
    BY <1>3, <2>1, <2>2
<1>5. NoneIsNewAgain /\ StoppedStays
  BY <1>2 DEF NoneIsNewAgain, StoppedStays, socketVars
<1>6. /\ tasks' \subseteq Task
      /\ \A l \in tasks' : l.type = "StartPlaying" => l \in tasks
  BY <1>1, <1>2, StopTaskFacts DEF TypeOK
<1>7. TypeOK'
  <2>1. running' \subseteq Conn /\ closing' \subseteq Conn
    BY <1>1, <1>2 DEF TypeOK
  <2>2. adapter_mailbox' \in [Conn -> Seq(ClientAdapterMsg)]
    BY <1>1, <1>2, AdapterIsTold DEF ClientAdapterMsg
  <2>3. QED
    BY <1>1, <1>2, <1>4, <1>6, <2>1, <2>2 DEF TypeOK, socketVars, mgrVars, adapterVars, stateVars
<1>8. OneAnswerEach'
  BY <1>1, <1>2, <1>6, StopTaskKeepsLogins DEF stateVars
<1>9. StoppedForGood'
  <2>1. \A c \in Conn : connection_state'[c] = "Stopped" => conn_mailbox'[c] = <<>>
    BY <1>1, <1>2 DEF StoppedForGood, socketVars
  <2>2. QED
    BY <1>1, <1>4, <1>5, <2>1, SocketsKept
<1>10. LatestOrAway'
  BY <1>1, <1>2, <1>5, SessionsKept DEF mgrVars
<1>11. StartedOnce' /\ \A c \in Conn : Begun(c) => Begun(c)'
  BY <1>1, <1>2, <1>4, <1>5, StartsKept
<1>12. UnbindersEnded'
  <2>1. Begun(s)' /\ s \notin running'
    BY <1>1, <1>2, <1>11 DEF StartedOnce
  <2>2. used' = used /\ maybe_api_token' = maybe_api_token
    BY <1>2 DEF stateVars
  <2>3. ASSUME NEW v \in User, NEW x \in SessionToken, Unbind(v, x) \in Mail(mgr_mailbox')
        PROVE  \E d \in Conn : x \in used'[d] /\ d \notin running' /\ Begun(d)'
    <3>1. CASE x \in used[s]
      BY <2>1, <2>2, <3>1
    <3>2. CASE Unbind(v, x) \in Mail(mgr_mailbox)
      <4>1. PICK d \in Conn : x \in used[d] /\ d \notin running /\ Begun(d)
        BY <1>1, <3>2 DEF UnbindersEnded
      <4>2. QED
        BY <1>2, <1>11, <2>2, <4>1
    <3>3. QED
      BY <1>4, <2>3, <3>1, <3>2
  <2>4. QED
    BY <1>1, <2>2, <2>3 DEF UnbindersEnded, Unbind
<1>13. QED
  BY <1>7, <1>8, <1>9, <1>10, <1>11, <1>12 DEF PresenceInv

LEMMA PassCloseKeepsInv ==
    ASSUME PresenceInv, NEW s \in Conn, PassClose(s)
    PROVE  PresenceInv'
<1> USE PresenceAssumption
<1>1. TypeOK /\ OneAnswerEach
  BY DEF PresenceInv
<1>2. /\ close_later' = close_later \ {s}
      /\ adapter_mailbox' = Sent(adapter_mailbox, Alive(s) \cap running, [type |-> "Close"])
      /\ UNCHANGED <<socketVars, mgrVars, mgr_mailbox, adapterVars, running, closing, stateVars,
                     playing, tasks>>
  BY DEF PassClose
<1>3. TypeOK'
  <2>1. adapter_mailbox' \in [Conn -> Seq(ClientAdapterMsg)] /\ close_later' \subseteq Conn
    BY <1>1, <1>2, AdapterIsTold DEF ClientAdapterMsg, TypeOK
  <2>2. QED
    BY <1>1, <1>2, <2>1 DEF TypeOK, socketVars, mgrVars, adapterVars, stateVars
<1>4. OneAnswerEach'
  BY <1>1, <1>2, LoginsKept DEF stateVars
<1>5. QED
  BY <1>2, <1>3, <1>4, LoginStepKeeps DEF SameMail, socketVars, stateVars

\* A task goes on as another of its type and session.
LEMMA TaskGoesOn ==
    ASSUME OneAnswerEach, login' = login, NEW k \in tasks, NEW l,
           l.type = k.type, l.session = k.session, tasks' = (tasks \ {k}) \cup {l}
    PROVE  OneAnswerEach'
<1>1. ASSUME NEW i \in tasks', i.type = "StartPlaying"
      PROVE  /\ login'[i.session] # None
             /\ \A j \in tasks' : j.type = "StartPlaying" /\ j.session = i.session => j = i
  BY <1>1 DEF OneAnswerEach
<1>2. QED
  BY <1>1 DEF OneAnswerEach

LEMMA ReadUserKeepsInv ==
    ASSUME PresenceInv, NEW k \in tasks, ReadUser(k)
    PROVE  PresenceInv'
<1> USE PresenceAssumption
<1> DEFINE l == [k EXCEPT !.step = "Read", !.seen = playing[k.user]]
<1>1. TypeOK /\ OneAnswerEach
  BY DEF PresenceInv
<1>2. /\ tasks' = (tasks \ {k}) \cup {l} \/ tasks' = tasks \ {k}
      /\ UNCHANGED <<socketVars, mgrVars, mgr_mailbox, adapterVars, adapter_mailbox, running,
                     closing, stateVars, playing, close_later>>
      /\ k.type = "StartPlaying" => tasks' = (tasks \ {k}) \cup {l}
  BY DEF ReadUser
<1>3. k \in Task /\ playing[k.user] \in Conn \cup {None}
  BY <1>1 DEF TypeOK, Task
<1>4. l \in Task /\ l.type = k.type /\ l.session = k.session
  BY <1>3 DEF Task
<1> HIDE DEF l
<1>5. TypeOK'
  <2>1. tasks' \subseteq Task
    BY <1>1, <1>2, <1>4 DEF TypeOK
  <2>2. QED
    BY <1>1, <1>2, <2>1 DEF TypeOK, socketVars, mgrVars, adapterVars, stateVars
<1>6. OneAnswerEach'
  <2>1. login' = login
    BY <1>2 DEF stateVars
  <2>2. CASE tasks' = (tasks \ {k}) \cup {l}
    BY <1>1, <1>4, <2>1, <2>2, TaskGoesOn
  <2>3. CASE tasks' = tasks \ {k}
    BY <1>1, <2>1, <2>3, StopTaskKeepsLogins
  <2>4. QED
    BY <1>2, <2>2, <2>3
<1>7. QED
  BY <1>2, <1>5, <1>6, LoginStepKeeps DEF SameMail, socketVars, stateVars

LEMMA WriteUserKeepsInv ==
    ASSUME PresenceInv, NEW k \in tasks, WriteUser(k)
    PROVE  PresenceInv'
<1> USE PresenceAssumption
<1> DEFINE l == [k EXCEPT !.step = "Done"]
<1>1. TypeOK /\ OneAnswerEach
  BY DEF PresenceInv
<1>2. /\ \/ /\ playing' = [playing EXCEPT ![k.user] = k.session]
            /\ tasks' = (tasks \ {k}) \cup {l}
            /\ close_later' = close_later \cup ({k.seen} \ {None, k.session})
         \/ /\ playing' = [playing EXCEPT ![k.user] = None]
            /\ tasks' = tasks \ {k}
            /\ close_later' = close_later
      /\ UNCHANGED <<socketVars, mgrVars, mgr_mailbox, adapterVars, adapter_mailbox, running,
                     closing, stateVars>>
  BY DEF WriteUser
<1>3. k \in Task
  BY <1>1 DEF TypeOK
<1>4. l \in Task /\ l.type = k.type /\ l.session = k.session
  BY <1>3 DEF Task
<1> HIDE DEF l
<1>5. TypeOK'
  <2>1. /\ tasks' \subseteq Task
        /\ playing' \in [User -> Conn \cup {None}]
        /\ close_later' \subseteq Conn
    BY <1>1, <1>2, <1>3, <1>4 DEF TypeOK, Task
  <2>2. QED
    BY <1>1, <1>2, <2>1 DEF TypeOK, socketVars, mgrVars, adapterVars, stateVars
<1>6. OneAnswerEach'
  <2>1. login' = login
    BY <1>2 DEF stateVars
  <2>2. CASE tasks' = (tasks \ {k}) \cup {l}
    BY <1>1, <1>4, <2>1, <2>2, TaskGoesOn
  <2>3. CASE tasks' = tasks \ {k}
    BY <1>1, <2>1, <2>3, StopTaskKeepsLogins
  <2>4. QED
    BY <1>2, <2>2, <2>3
<1>7. QED
  BY <1>2, <1>5, <1>6, LoginStepKeeps DEF SameMail, socketVars, stateVars

LEMMA StartFailsKeepsInv ==
    ASSUME PresenceInv, NEW k \in tasks, StartFails(k)
    PROVE  PresenceInv'
<1> USE PresenceAssumption
<1>1. TypeOK /\ OneAnswerEach
  BY DEF PresenceInv
<1>2. /\ k.type = "StartPlaying"
      /\ tasks' = tasks \ {k}
      /\ login' = [login EXCEPT ![k.session] = None]
      /\ UNCHANGED <<socketVars, mgrVars, mgr_mailbox, adapterVars, adapter_mailbox, running,
                     closing, maybe_user_info, maybe_api_token, used, logins, playing,
                     close_later>>
  BY DEF StartFails
<1>3. TypeOK'
  <2>1. tasks' \subseteq Task /\ login' \in [Conn -> SessionToken \cup {None}]
    BY <1>1, <1>2 DEF TypeOK
  <2>2. QED
    BY <1>1, <1>2, <2>1 DEF TypeOK, socketVars, mgrVars, adapterVars
<1>4. OneAnswerEach'
  BY <1>1, <1>2, AnswerKeepsLogins
<1>5. QED
  BY <1>2, <1>3, <1>4, LoginStepKeeps DEF SameMail, socketVars

LEMMA StutterKeepsInv == PresenceInv /\ UNCHANGED vars => PresenceInv'
<1> SUFFICES ASSUME PresenceInv, UNCHANGED vars PROVE PresenceInv'
  OBVIOUS
<1> USE DEF vars, socketVars, mgrVars, adapterVars, stateVars, userVars
<1>1. TypeOK' /\ OneAnswerEach'
  BY DEF PresenceInv, TypeOK, OneAnswerEach
<1>2. QED
  BY <1>1, LoginStepKeeps DEF SameMail

-------------------------------------------------------------------------------
(* The theorems.                                                              *)

\* The inductive invariant: every socket asks for one session, what has stopped
\* stays so, a LOGIN has one answer, and UnbindUser comes from sessions that ended.
THEOREM PresenceInvariant == Spec => []PresenceInv
<1>1. PresenceInv /\ [Next]_vars => PresenceInv'
  <2> SUFFICES ASSUME PresenceInv, Next PROVE PresenceInv'
    BY StutterKeepsInv
  <2>1. ASSUME NEW c \in Conn, Hello(c) \/ SocketFails(c) \/ TakeConnect(c) \/ TakeClose(c)
        PROVE  PresenceInv'
    BY <2>1, HelloKeepsInv, SocketStopsKeepsInv, TakeConnectKeepsInv DEF SocketFails, TakeClose
  <2>2. CASE \/ RequestAdapterNew \/ RequestAdapterExisting \/ Disconnect \/ BindUser
             \/ UnbindUser
    BY <2>2, RequestAdapterNewKeepsInv, RequestAdapterExistingKeepsInv, DisconnectKeepsInv,
       BindUserKeepsInv, UnbindUserKeepsInv
  <2>3. ASSUME NEW s \in Conn,
               TimesOut(s) \/ TakeConnection(s) \/ AdapterCloses(s) \/ GiveUp(s)
        PROVE  PresenceInv'
    BY <2>3, TimesOutKeepsInv, TakeConnectionKeepsInv, AdapterStopsKeepsInv
       DEF AdapterCloses, GiveUp
  <2>4. ASSUME NEW s \in Conn, NEW t \in SessionToken, Login(s, t)
        PROVE  PresenceInv'
    BY <2>4, LoginKeepsInv
  <2>5. ASSUME NEW s \in Conn, LoggedIn(s) \/ Logout(s) \/ StateCloses(s) \/ PassClose(s)
        PROVE  PresenceInv'
    BY <2>5, LoggedInKeepsInv, LogoutKeepsInv, StateClosesKeepsInv, PassCloseKeepsInv
  <2>6. ASSUME NEW k \in tasks, ReadUser(k) \/ WriteUser(k) \/ StartFails(k)
        PROVE  PresenceInv'
    BY <2>6, ReadUserKeepsInv, WriteUserKeepsInv, StartFailsKeepsInv
  <2>7. QED
    BY <2>1, <2>2, <2>3, <2>4, <2>5, <2>6 DEF Next
<1>2. QED
  BY <1>1, InitMeetsInv, PTL DEF Spec

\* Types of the sockets, sessions, mailboxes and tasks, for any number of them.
THEOREM PresenceTypes == Spec => []TypeOK
<1>1. PresenceInv => TypeOK
  BY DEF PresenceInv
<1>2. QED
  BY <1>1, PresenceInvariant, PTL

\* A session whose latest socket is open is not taken for disconnected, in whatever
\* order the requests and the closings of its sockets reach ConnectionManager.
THEOREM LatestSocketCounts == Spec => []LatestStaysConnected
<1>1. PresenceInv => LatestStaysConnected
  BY DEF PresenceInv, LatestOrAway, LatestStaysConnected
<1>2. QED
  BY <1>1, PresenceInvariant, PTL

\* UnbindUser takes a user off line only for a session that has stopped, or if
\* another session has used the token the user is bound with.
THEOREM UnbindComesFromOwner == Spec => UnbindIsOwn
<1> DEFINE Own ==
        \A u \in User : UnbindUser /\ user_to_session[u] # user_to_session'[u] =>
            \/ user_to_session[u][1] \notin running
            \/ \E s \in Conn \ {user_to_session[u][1]} : user_to_session[u][2] \in used[s]
<1>1. PresenceInv /\ [Next]_vars => [Own]_vars
  <2> SUFFICES ASSUME PresenceInv, UnbindUser, NEW u \in User,
                      user_to_session[u] # user_to_session'[u]
               PROVE  \/ user_to_session[u][1] \notin running
                      \/ \E s \in Conn \ {user_to_session[u][1]} :
                             user_to_session[u][2] \in used[s]
    OBVIOUS
  <2> USE PresenceAssumption
  <2> DEFINE m == Head(mgr_mailbox)
  <2>1. TypeOK /\ UnbindersEnded
    BY DEF PresenceInv
  <2>2. PICK v \in User :
        /\ TakesFromMailbox("UnbindUser") /\ v = m.user
        /\ user_to_session' = [user_to_session EXCEPT ![v] =
               IF @ # None /\ @[2] = m.token THEN None ELSE @]
    BY DEF UnbindUser
  <2>3. MgrTook(m) /\ m.type = "UnbindUser"
    BY <2>1, <2>2, MgrTakes
  <2> HIDE DEF m
  <2>4. v = u /\ user_to_session[u] # None /\ user_to_session[u][2] = m.token
    BY <2>1, <2>2 DEF TypeOK
  <2>5. m.token \in SessionToken /\ m = Unbind(u, m.token)
    BY <2>2, <2>3, <2>4 DEF MgrTook, ConnectionManagerMsg, Unbind
  <2>6. PICK s \in Conn : m.token \in used[s] /\ s \notin running
    BY <2>1, <2>3, <2>5 DEF MgrTook, UnbindersEnded
  <2>7. QED
    BY <2>4, <2>6
<1>2. QED
  BY <1>1, PresenceInvariant, PTL DEF Spec, UnbindIsOwn
===============================================================================
