--------------------------- MODULE MatchmakingProofs ---------------------------
(* How players come to share a lobby and leave it, for any number of clients,  *)
(* lobbies, ids and messages: every safety property of Matchmaking.            *)
EXTENDS Matchmaking, FiniteSetTheorems, SequenceTheorems, TLAPS

-------------------------------------------------------------------------------
(* What is in a mailbox, and in which order.                                  *)

HasIn(box, S) == \E i \in 1..Len(box) : box[i] \in S
AtMostOne(box, S) == \A i, j \in 1..Len(box) : box[i] \in S /\ box[j] \in S => i = j

\* After every x there is a y.
Follows(box, x, y) ==
    \A i \in 1..Len(box) : box[i] = x => \E j \in 1..Len(box) : i < j /\ box[j] = y

\* There is an x with no y before it.
Ahead(box, x, y) ==
    \E i \in 1..Len(box) : box[i] = x /\ \A j \in 1..Len(box) : j < i => box[j] # y

-------------------------------------------------------------------------------
(* The invariant.                                                             *)

Joined(c) == [type |-> "PlayerJoined", from |-> c]
Joins == [type : {"PlayerJoined"}, from : Client]
Invitation(l) == [type |-> "BattleReqJoinLobby", lobby |-> l]
Join(c, g) == [type |-> "JoinLobby", from |-> c, game_id |-> g]
CloseMsg(g) == [type |-> "CloseLobbyMsg", game_id |-> g]
RequestsOf(c) ==
    [type : {"NewLobby"}, from : {c}, kind : LobbyKind]
        \cup [type : {"JoinLobby"}, from : {c}, game_id : GameId]

Stopped(l) == lobby[l].status \in {"Left", "TimedOut"}

\* An actor that has not been started has no mail and no players; one that has, has
\* an id.
NewIsFresh == \A l \in Lobby :
    /\ lobby[l].status = "New" =>
         lobby_mailbox[l] = <<>> /\ lobby[l].joined = None /\ lobby[l].phase = "OnePlayer"
    /\ lobby[l].status # "New" => lobby[l].game_id \in GameId

\* A client that has asked LobbyManager waits for one answer, and handles nothing
\* else; one that is gone is sent nothing.
AskersWait == \A c \in Client :
    /\ HasIn(lm_mailbox, RequestsOf(c)) => client[c].awaiting
    /\ AtMostOne(lm_mailbox, RequestsOf(c))
    /\ client[c].awaiting => client[c].up
    /\ ~client[c].up => client_mailbox[c] = <<>>

\* What is listed is a lobby of its kind, a private one under its own id.
ListedByKind ==
    /\ open_lobby # None =>
         lobby[open_lobby].status # "New" /\ lobby[open_lobby].kind = "Public"
    /\ \A g \in GameId : LET l == open_lobby_map[g] IN
         l # None => /\ lobby[l].status # "New" /\ lobby[l].kind = "Private"
                     /\ lobby[l].game_id = g

\* A lobby has a second player from the moment it leaves OnePlayer, and a public one
\* is joined once.
JoinedOnce == \A l \in Lobby :
    /\ lobby[l].phase = "OnePlayer" <=> lobby[l].joined = None
    /\ lobby[l].kind = "Public" =>
         /\ AtMostOne(lobby_mailbox[l], Joins)
         /\ lobby[l].joined # None => ~HasIn(lobby_mailbox[l], Joins)

\* A player's lobby, and one he is invited to, has been started; the host is
\* invited to his own, and a Reset follows if it has stopped since.
PlayersAreHosts == \A c \in Client :
    /\ client[c].lobby_state # "Idle" => lobby[client[c].lobby].status # "New"
    /\ \A l \in Lobby : Has(client_mailbox[c], Invitation(l)) =>
         lobby[l].status # "New" /\ lobby[l].host = c
    /\ \A l \in Lobby : Stopped(l) => Follows(client_mailbox[c], Invitation(l), Reset)

\* Who asks to join a lobby again, that he was in and that a player has left, and is
\* answered before LobbyManager hears of it, has a Reset waiting.
RejoinersAreReset == \A c \in Client, g \in GameId :
    LET l == open_lobby_map[g] IN
    /\ l # None /\ lobby[l].status = "Left" /\ lobby[l].joined = c
    /\ Ahead(lm_mailbox, Join(c, g), CloseMsg(g))
    => Has(client_mailbox[c], Reset)

MatchmakingInv ==
    /\ TypeOK /\ NewIsFresh /\ AskersWait /\ ListedByKind /\ JoinedOnce /\ PlayersAreHosts
    /\ RejoinersAreReset
    /\ OfferedOnce /\ SeatsAgree /\ NobodyLeftBehind /\ LeftIsUnlisted /\ UpdateIsCurrent

-------------------------------------------------------------------------------
(* Mailboxes: a message is added at the end, or taken from the front.         *)

LEMMA EmptyBox ==
    /\ \A x : ~Has(<<>>, x)
    /\ \A T : ~HasIn(<<>>, T) /\ AtMostOne(<<>>, T)
    /\ \A x, y : Follows(<<>>, x, y) /\ ~Ahead(<<>>, x, y)
  BY DEF Has, HasIn, AtMostOne, Follows, Ahead

LEMMA NothingToFollow ==
    ASSUME NEW box, NEW x, NEW y, ~Has(box, x)
    PROVE  Follows(box, x, y)
  BY DEF Has, Follows

LEMMA HasOfSet ==
    ASSUME NEW box, NEW T, NEW x \in T, Has(box, x)
    PROVE  HasIn(box, T)
  BY DEF Has, HasIn

LEMMA AppendFacts ==
    ASSUME NEW S, NEW box \in Seq(S), NEW m \in S
    PROVE  LET all == Append(box, m) IN
           /\ all \in Seq(S)
           /\ \A x : Has(all, x) <=> Has(box, x) \/ x = m
           /\ \A T : HasIn(all, T) <=> HasIn(box, T) \/ m \in T
           /\ \A T : AtMostOne(box, T) /\ (m \notin T \/ ~HasIn(box, T)) => AtMostOne(all, T)
           /\ \A x, y : Ahead(all, x, y) => Ahead(box, x, y) \/ (m = x /\ ~Has(box, y))
<1> DEFINE all == Append(box, m)
<1>1. /\ all \in Seq(S) /\ Len(box) \in Nat /\ Len(all) = Len(box) + 1
      /\ \A i \in 1..Len(box) : all[i] = box[i]
      /\ all[Len(box) + 1] = m
  BY AppendProperties, LenProperties
<1> HIDE DEF all
<1>2. \A i \in 1..Len(all) : i \in 1..Len(box) \/ i = Len(box) + 1
  BY <1>1
<1>3. 1..Len(box) \subseteq 1..Len(all) /\ Len(box) + 1 \in 1..Len(all)
  BY <1>1
<1>4. \A x : Has(all, x) <=> Has(box, x) \/ x = m
  BY <1>1, <1>2, <1>3 DEF Has
<1>5. \A T : HasIn(all, T) <=> HasIn(box, T) \/ m \in T
  BY <1>1, <1>2, <1>3 DEF HasIn
<1>6. \A T : AtMostOne(box, T) /\ (m \notin T \/ ~HasIn(box, T)) => AtMostOne(all, T)
  BY <1>1, <1>2, <1>3 DEF HasIn, AtMostOne
<1>7. ASSUME NEW x, NEW y, Ahead(all, x, y)
      PROVE  Ahead(box, x, y) \/ (m = x /\ ~Has(box, y))
  <2>1. PICK i \in 1..Len(all) : all[i] = x /\ \A j \in 1..Len(all) : j < i => all[j] # y
    BY <1>7 DEF Ahead
  <2>2. CASE i \in 1..Len(box)
    BY <1>1, <1>3, <2>1, <2>2 DEF Ahead
  <2>3. CASE i = Len(box) + 1
    BY <1>1, <1>3, <2>1, <2>3 DEF Has
  <2>4. QED
    BY <1>2, <2>2, <2>3
<1>8. QED
  BY <1>1, <1>4, <1>5, <1>6, <1>7 DEF all

LEMMA TailFacts ==
    ASSUME NEW S, NEW box \in Seq(S), box # <<>>
    PROVE  LET rest == Tail(box) IN
           /\ rest \in Seq(S) /\ Head(box) \in S
           /\ \A x : Has(box, x) <=> Head(box) = x \/ Has(rest, x)
           /\ \A T : HasIn(box, T) <=> Head(box) \in T \/ HasIn(rest, T)
           /\ \A T : AtMostOne(box, T) =>
                AtMostOne(rest, T) /\ (Head(box) \in T => ~HasIn(rest, T))
           /\ \A x, y : Follows(box, x, y) =>
                Follows(rest, x, y) /\ (Head(box) = x => Has(rest, y))
           /\ \A x, y : Ahead(rest, x, y) /\ Head(box) # y => Ahead(box, x, y)
           /\ \A y : Ahead(box, Head(box), y)
<1> DEFINE rest == Tail(box)
<1>1. /\ rest \in Seq(S) /\ Head(box) \in S /\ Head(box) = box[1]
      /\ Len(box) \in Nat /\ Len(box) >= 1 /\ Len(rest) = Len(box) - 1
      /\ \A i \in 1..Len(rest) : rest[i] = box[i + 1]
  BY HeadTailProperties, LenProperties, EmptySeq
<1> HIDE DEF rest
<1>2. /\ \A i \in 1..Len(rest) : i + 1 \in 1..Len(box)
      /\ \A i \in 1..Len(box) : i = 1 \/ (i - 1 \in 1..Len(rest) /\ box[i] = rest[i - 1])
      /\ 1 \in 1..Len(box)
  <2>1. ASSUME NEW i \in 1..Len(box), i # 1
        PROVE  i - 1 \in 1..Len(rest) /\ box[i] = rest[i - 1]
    <3>1. i - 1 \in 1..Len(rest) /\ (i - 1) + 1 = i
      BY <1>1, <2>1
    <3>2. QED
      BY <1>1, <3>1
  <2>2. QED
    BY <1>1, <2>1
<1>3. \A x : Has(box, x) <=> Head(box) = x \/ Has(rest, x)
  BY <1>1, <1>2 DEF Has
<1>4. \A T : HasIn(box, T) <=> Head(box) \in T \/ HasIn(rest, T)
  BY <1>1, <1>2 DEF HasIn
<1>5. ASSUME NEW T, AtMostOne(box, T)
      PROVE  AtMostOne(rest, T) /\ (Head(box) \in T => ~HasIn(rest, T))
  <2>1. ASSUME NEW i \in 1..Len(rest), NEW j \in 1..Len(rest), rest[i] \in T, rest[j] \in T
        PROVE  i = j
    <3>1. i + 1 = j + 1
      BY <1>1, <1>2, <1>5, <2>1 DEF AtMostOne
    <3>2. QED
      BY <3>1
  <2>2. ASSUME Head(box) \in T, NEW i \in 1..Len(rest), rest[i] \in T
        PROVE  FALSE
    <3>1. 1 = i + 1
      BY <1>1, <1>2, <1>5, <2>2 DEF AtMostOne
    <3>2. QED
      BY <3>1
  <2>3. QED
    BY <2>1, <2>2 DEF AtMostOne, HasIn
<1>6. ASSUME NEW x, NEW y, Follows(box, x, y)
      PROVE  Follows(rest, x, y) /\ (Head(box) = x => Has(rest, y))
  <2>1. ASSUME NEW i \in 1..Len(rest), rest[i] = x
        PROVE  \E j \in 1..Len(rest) : i < j /\ rest[j] = y
    <3>1. PICK k \in 1..Len(box) : i + 1 < k /\ box[k] = y
      BY <1>1, <1>2, <1>6, <2>1 DEF Follows
    <3>2. k - 1 \in 1..Len(rest) /\ rest[k - 1] = y /\ i < k - 1
      BY <1>2, <3>1
    <3>3. QED
      BY <3>2
  <2>2. ASSUME Head(box) = x
        PROVE  Has(rest, y)
    <3>1. PICK k \in 1..Len(box) : 1 < k /\ box[k] = y
      BY <1>1, <1>2, <1>6, <2>2 DEF Follows
    <3>2. k - 1 \in 1..Len(rest) /\ rest[k - 1] = y
      BY <1>2, <3>1
    <3>3. QED
      BY <3>2 DEF Has
  <2>3. QED
    BY <2>1, <2>2 DEF Follows
<1>7. ASSUME NEW x, NEW y, Ahead(rest, x, y), Head(box) # y
      PROVE  Ahead(box, x, y)
  <2>1. PICK i \in 1..Len(rest) : rest[i] = x /\ \A j \in 1..Len(rest) : j < i => rest[j] # y
    BY <1>7 DEF Ahead
  <2>2. i + 1 \in 1..Len(box) /\ box[i + 1] = x
    BY <1>1, <1>2, <2>1
  <2>3. ASSUME NEW j \in 1..Len(box), j < i + 1
        PROVE  box[j] # y
    <3>1. CASE j = 1
      BY <1>1, <1>7, <3>1
    <3>2. CASE j # 1
      <4>1. j - 1 \in 1..Len(rest) /\ box[j] = rest[j - 1] /\ j - 1 < i
        BY <1>2, <2>3, <3>2
      <4>2. QED
        BY <2>1, <4>1
    <3>3. QED
      BY <3>1, <3>2
  <2>4. QED
    BY <2>2, <2>3 DEF Ahead
<1>8. \A y : Ahead(box, Head(box), y)
  BY <1>1, <1>2 DEF Ahead
<1>9. QED
  BY <1>1, <1>3, <1>4, <1>5, <1>6, <1>7, <1>8 DEF rest

WithCopies(box, m, n) == box \o [i \in 1..n |-> m]

\* A mailbox all, which is box and m after it if n is not 0.
Extended(S, all, box, m, n) ==
    /\ all \in Seq(S)
    /\ \A x : Has(all, x) <=> Has(box, x) \/ (n # 0 /\ x = m)
    /\ \A x, y : Follows(box, x, y) /\ x # m => Follows(all, x, y)
    /\ \A x : n # 0 /\ x # m => Follows(all, x, m)
    /\ n = 0 => all = box

LEMMA CopiesFacts ==
    ASSUME NEW S, NEW box \in Seq(S), NEW n \in Nat, NEW m \in S
    PROVE  Extended(S, WithCopies(box, m, n), box, m, n)
<1> DEFINE more == [i \in 1..n |-> m]
           all == WithCopies(box, m, n)
<1>1. more \in Seq(S) /\ Len(more) = n /\ \A i \in 1..n : more[i] = m
  <2>1. more \in Seq(S)
    BY SeqDef
  <2>2. QED
    BY <2>1, LenProperties
<1> HIDE DEF more
<1>2. /\ all \in Seq(S) /\ Len(box) \in Nat /\ Len(all) = Len(box) + n
      /\ \A i \in 1..(Len(box) + n) :
             all[i] = IF i <= Len(box) THEN box[i] ELSE more[i - Len(box)]
  <2>1. all = box \o more
    BY DEF WithCopies, more
  <2>2. /\ box \o more \in Seq(S) /\ Len(box \o more) = Len(box) + Len(more)
        /\ \A i \in 1..(Len(box) + Len(more)) :
               (box \o more)[i] = IF i <= Len(box) THEN box[i] ELSE more[i - Len(box)]
    BY <1>1, ConcatProperties
  <2>3. Len(box) \in Nat
    BY LenProperties
  <2> HIDE DEF all
  <2>4. QED
    BY <1>1, <2>1, <2>2, <2>3
<1>3. n = 0 => all = box
  <2> SUFFICES ASSUME n = 0
               PROVE  all = box
    OBVIOUS
  <2>1. more = <<>>
    BY <1>1, EmptySeq
  <2>2. QED
    BY <2>1, ConcatEmptySeq DEF WithCopies, more
<1> HIDE DEF all
<1>4. /\ \A i \in 1..Len(box) : i \in 1..Len(all) /\ all[i] = box[i]
      /\ \A i \in 1..Len(all) : i \in 1..Len(box) \/ (i > Len(box) /\ all[i] = m)
      /\ n # 0 => Len(all) \in 1..Len(all) /\ all[Len(all)] = m /\ Len(all) > Len(box)
  <2>1. ASSUME NEW i \in 1..Len(all), i \notin 1..Len(box)
        PROVE  i > Len(box) /\ all[i] = m
    <3>1. i - Len(box) \in 1..n /\ i > Len(box)
      BY <1>2, <2>1
    <3>2. QED
      BY <1>1, <1>2, <3>1
  <2>2. QED
    BY <1>2, <2>1
<1>5. \A x : Has(all, x) <=> Has(box, x) \/ (n # 0 /\ x = m)
  <2>1. ASSUME NEW x, Has(all, x)
        PROVE  Has(box, x) \/ (n # 0 /\ x = m)
    <3>1. PICK i \in 1..Len(all) : all[i] = x
      BY <2>1 DEF Has
    <3>2. CASE i \in 1..Len(box)
      BY <1>4, <3>1, <3>2 DEF Has
    <3>3. CASE i > Len(box) /\ all[i] = m
      BY <1>2, <3>1, <3>3
    <3>4. QED
      BY <1>4, <3>2, <3>3
  <2>2. QED
    BY <1>4, <2>1 DEF Has
<1>6. ASSUME NEW x, NEW y, Follows(box, x, y), x # m
      PROVE  Follows(all, x, y)
  <2>1. ASSUME NEW i \in 1..Len(all), all[i] = x
        PROVE  \E j \in 1..Len(all) : i < j /\ all[j] = y
    <3>1. i \in 1..Len(box) /\ box[i] = x
      BY <1>4, <1>6, <2>1
    <3>2. PICK j \in 1..Len(box) : i < j /\ box[j] = y
      BY <1>6, <3>1 DEF Follows
    <3>3. QED
      BY <1>4, <3>2
  <2>2. QED
    BY <2>1 DEF Follows
<1>7. ASSUME NEW x, n # 0, x # m
      PROVE  Follows(all, x, m)
  <2>1. ASSUME NEW i \in 1..Len(all), all[i] = x
        PROVE  \E j \in 1..Len(all) : i < j /\ all[j] = m
    <3>1. i \in 1..Len(box)
      BY <1>4, <1>7, <2>1
    <3>2. i < Len(all)
      BY <1>2, <1>4, <1>7, <3>1
    <3>3. QED
      BY <1>4, <1>7, <3>2
  <2>2. QED
    BY <2>1 DEF Follows
<1>8. QED
  BY <1>2, <1>3, <1>5, <1>6, <1>7 DEF all, Extended

-------------------------------------------------------------------------------
(* Sending, and types.                                                        *)

Posted(box, l, m) ==
    /\ box \in [Lobby -> Seq(LobbyMsg)]
    /\ \A k \in Lobby : k # l \/ ~Running(l) => box[k] = lobby_mailbox[k]
    /\ \A k \in Lobby : \A x : Has(box[k], x) <=>
         Has(lobby_mailbox[k], x) \/ (k = l /\ Running(l) /\ x = m)
    /\ \A k \in Lobby : \A T : HasIn(box[k], T) <=>
         HasIn(lobby_mailbox[k], T) \/ (k = l /\ Running(l) /\ m \in T)
    /\ \A k \in Lobby : \A T :
         AtMostOne(lobby_mailbox[k], T) /\ (m \notin T \/ ~HasIn(lobby_mailbox[k], T))
             => AtMostOne(box[k], T)

LEMMA SentToLobbyFacts ==
    ASSUME TypeOK, NEW l \in Lobby, NEW m \in LobbyMsg
    PROVE  Posted(SentToLobby(l, m), l, m)
<1> DEFINE box == SentToLobby(l, m)
<1>1. lobby_mailbox \in [Lobby -> Seq(LobbyMsg)] /\ lobby_mailbox[l] \in Seq(LobbyMsg)
  BY DEF TypeOK
<1>2. /\ DOMAIN box = Lobby
      /\ \A k \in Lobby : k # l \/ ~Running(l) => box[k] = lobby_mailbox[k]
      /\ Running(l) => box[l] = Append(lobby_mailbox[l], m)
  BY <1>1 DEF SentToLobby
<1>3. box = [k \in Lobby |-> box[k]]
  BY <1>1 DEF SentToLobby
<1> HIDE DEF box
<1>4. CASE Running(l)
  <2>1. \A k \in Lobby : box[k] \in Seq(LobbyMsg)
    <3>1. Append(lobby_mailbox[l], m) \in Seq(LobbyMsg)
      BY <1>1, AppendFacts
    <3>2. QED
      BY <1>1, <1>2, <1>4, <3>1
  <2>2. box \in [Lobby -> Seq(LobbyMsg)]
    BY <1>3, <2>1
  <2> DEFINE all == Append(lobby_mailbox[l], m)
  <2>5. /\ \A x : Has(all, x) <=> Has(lobby_mailbox[l], x) \/ x = m
        /\ \A T : HasIn(all, T) <=> HasIn(lobby_mailbox[l], T) \/ m \in T
        /\ \A T : AtMostOne(lobby_mailbox[l], T)
                  /\ (m \notin T \/ ~HasIn(lobby_mailbox[l], T)) => AtMostOne(all, T)
    BY <1>1, AppendFacts
  <2> HIDE DEF all
  <2>6. box[l] = all
    BY <1>2, <1>4 DEF all
  <2>3. ASSUME NEW k \in Lobby
        PROVE  /\ \A x : Has(box[k], x) <=> Has(lobby_mailbox[k], x) \/ (k = l /\ x = m)
               /\ \A T : HasIn(box[k], T) <=> HasIn(lobby_mailbox[k], T) \/ (k = l /\ m \in T)
               /\ \A T : AtMostOne(lobby_mailbox[k], T)
                         /\ (m \notin T \/ ~HasIn(lobby_mailbox[k], T)) => AtMostOne(box[k], T)
    <3>1. CASE k # l
      BY <1>2, <3>1
    <3>2. CASE k = l
      BY <2>5, <2>6, <3>2
    <3>3. QED
      BY <3>1, <3>2
  <2>4. QED
    BY <1>2, <1>4, <2>2, <2>3 DEF box, Posted
<1>5. CASE ~Running(l)
  <2>1. box = lobby_mailbox
    BY <1>1, <1>2, <1>3, <1>5
  <2>2. QED
    BY <1>1, <1>2, <1>5, <2>1 DEF box, Posted
<1>6. QED
  BY <1>4, <1>5

\* Whom a message is sent to, and who is there, has it.
Addressed(cs, c) == client[c].up /\ \E k \in DOMAIN cs : cs[k] = c

Delivered(box, cs, m) ==
    /\ box \in [Client -> Seq(ClientMsg)]
    /\ \A c \in Client : ~client[c].up => box[c] = client_mailbox[c]
    /\ \A c \in Client : \A x : Has(box[c], x) <=>
         Has(client_mailbox[c], x) \/ (Addressed(cs, c) /\ x = m)
    /\ \A c \in Client : \A x, y :
         Follows(client_mailbox[c], x, y) /\ x # m => Follows(box[c], x, y)
    /\ \A c \in Client : \A x : Addressed(cs, c) /\ x # m => Follows(box[c], x, m)
    /\ \A c \in Client : ~Addressed(cs, c) => box[c] = client_mailbox[c]

LEMMA SentToClientsFacts ==
    ASSUME TypeOK, NEW m \in ClientMsg, NEW n \in Nat, NEW cs, DOMAIN cs = 1..n
    PROVE  Delivered(SentToClients(cs, m), cs, m)
<1> DEFINE box == SentToClients(cs, m)
           Places(c) == {k \in DOMAIN cs : cs[k] = c}
           Times(c) == Cardinality(Places(c))
           all(c) == WithCopies(client_mailbox[c], m, Times(c))
<1>1. ASSUME NEW c \in Client
      PROVE  Times(c) \in Nat /\ (Times(c) # 0 <=> \E k \in DOMAIN cs : cs[k] = c)
  <2>1. IsFiniteSet(Places(c))
    <3>1. IsFiniteSet(1..n) /\ Places(c) \in SUBSET (1..n)
      BY FS_Interval
    <3>2. QED
      BY <3>1, FS_Subset
  <2>2. QED
    BY <2>1, FS_CardinalityType, FS_EmptySet
<1> HIDE DEF Times
<1>2. ASSUME NEW c \in Client
      PROVE  /\ client_mailbox[c] \in Seq(ClientMsg) /\ Times(c) \in Nat
             /\ all(c) \in Seq(ClientMsg)
             /\ \A x : Has(all(c), x) <=> Has(client_mailbox[c], x) \/ (Times(c) # 0 /\ x = m)
             /\ \A x, y : Follows(client_mailbox[c], x, y) /\ x # m => Follows(all(c), x, y)
             /\ \A x : Times(c) # 0 /\ x # m => Follows(all(c), x, m)
             /\ Times(c) = 0 => all(c) = client_mailbox[c]
  <2>1. client_mailbox[c] \in Seq(ClientMsg) /\ Times(c) \in Nat
    BY <1>1 DEF TypeOK
  <2>2. PICK b \in Seq(ClientMsg), t \in Nat : b = client_mailbox[c] /\ t = Times(c)
    BY <2>1
  <2>3. all(c) = WithCopies(b, m, t)
    BY <2>2
  <2>4. Extended(ClientMsg, WithCopies(b, m, t), b, m, t)
    BY CopiesFacts
  <2> HIDE DEF all
  <2>5. QED
    BY <2>2, <2>3, <2>4 DEF Extended
<1>3. box = [c \in Client |-> IF client[c].up THEN all(c) ELSE client_mailbox[c]]
  BY DEF SentToClients, Times, WithCopies
<1> HIDE DEF all, box
<1>4. box \in [Client -> Seq(ClientMsg)]
  BY <1>2, <1>3
<1>5. ASSUME NEW c \in Client
      PROVE  /\ ~client[c].up => box[c] = client_mailbox[c]
             /\ \A x : Has(box[c], x) <=>
                    Has(client_mailbox[c], x) \/ (Addressed(cs, c) /\ x = m)
             /\ \A x, y : Follows(client_mailbox[c], x, y) /\ x # m => Follows(box[c], x, y)
             /\ \A x : Addressed(cs, c) /\ x # m => Follows(box[c], x, m)
             /\ ~Addressed(cs, c) => box[c] = client_mailbox[c]
  <2>1. CASE ~client[c].up
    BY <1>3, <2>1 DEF Addressed
  <2>2. CASE client[c].up
    <3>1. box[c] = all(c) /\ (Addressed(cs, c) <=> Times(c) # 0)
      BY <1>1, <1>3, <2>2 DEF Addressed
    <3>2. QED
      BY <1>2, <2>2, <3>1
  <2>3. QED
    BY <2>1, <2>2
<1>6. QED
  BY <1>4, <1>5 DEF box, Delivered

\* The addresses of a lobby, and the player who stays behind and is told twice.
LEMMA OccupantsFacts ==
    ASSUME NEW l \in Lobby, NEW other
    PROVE  LET both == <<other>> \o Occupants(l) IN
           /\ \E n \in Nat : DOMAIN Occupants(l) = 1..n
           /\ \E n \in Nat : DOMAIN both = 1..n
           /\ \A c \in Client : (\E k \in DOMAIN Occupants(l) : Occupants(l)[k] = c) <=>
                c = lobby[l].host \/ (lobby[l].phase # "OnePlayer" /\ c = lobby[l].joined)
           /\ \A c \in Client : (\E k \in DOMAIN Occupants(l) : Occupants(l)[k] = c) =>
                \E k \in DOMAIN both : both[k] = c
<1> DEFINE host == lobby[l].host
           joined == lobby[l].joined
           all == Occupants(l)
           T == {host, joined, other}
<1>1. /\ all \in Seq(T) /\ Len(all) \in {1, 2}
      /\ \A c : (\E k \in 1..Len(all) : all[k] = c) <=>
             c = host \/ (lobby[l].phase # "OnePlayer" /\ c = joined)
  <2>1. CASE lobby[l].phase = "OnePlayer"
    <3>1. all = <<host>>
      BY <2>1 DEF Occupants
    <3> HIDE DEF host, joined, all
    <3>2. <<host>> \in Seq(T) /\ Len(<<host>>) = 1 /\ <<host>>[1] = host
      OBVIOUS
    <3>3. 1 \in 1..1 /\ \A k \in 1..1 : k = 1
      OBVIOUS
    <3>4. QED
      BY <2>1, <3>1, <3>2, <3>3
  <2>2. CASE lobby[l].phase # "OnePlayer"
    <3>1. all = <<host, joined>>
      BY <2>2 DEF Occupants
    <3> HIDE DEF host, joined, all
    <3>2. /\ <<host, joined>> \in Seq(T) /\ Len(<<host, joined>>) = 2
          /\ <<host, joined>>[1] = host /\ <<host, joined>>[2] = joined
      OBVIOUS
    <3>3. {1, 2} \subseteq 1..2 /\ \A k \in 1..2 : k = 1 \/ k = 2
      OBVIOUS
    <3>4. QED
      BY <2>2, <3>1, <3>2, <3>3
  <2>3. QED
    BY <2>1, <2>2
<1> HIDE DEF all, host, joined
<1>2. /\ <<other>> \in Seq(T) /\ Len(<<other>>) = 1 /\ <<other>>[1] = other
  OBVIOUS
<1> DEFINE both == <<other>> \o all
<1>3. /\ both \in Seq(T) /\ Len(both) = 1 + Len(all)
      /\ \A k \in 1..(1 + Len(all)) :
             both[k] = IF k <= 1 THEN <<other>>[k] ELSE all[k - 1]
  BY <1>1, <1>2, ConcatProperties
<1>4. \A k \in 1..Len(all) : k + 1 \in 1..Len(both) /\ both[k + 1] = all[k]
  <2> SUFFICES ASSUME NEW k \in 1..Len(all)
               PROVE  k + 1 \in 1..Len(both) /\ both[k + 1] = all[k]
    OBVIOUS
  <2>1. k + 1 \in 1..(1 + Len(all)) /\ ~(k + 1 <= 1) /\ (k + 1) - 1 = k
    BY <1>1
  <2> HIDE DEF both
  <2>2. QED
    BY <1>3, <2>1
<1>5. DOMAIN all = 1..Len(all) /\ DOMAIN both = 1..Len(both)
      /\ Len(all) \in Nat /\ Len(both) \in Nat
  BY <1>1, <1>3, LenProperties
<1> HIDE DEF both
<1>6. /\ \E n \in Nat : DOMAIN all = 1..n
      /\ \E n \in Nat : DOMAIN both = 1..n
  BY <1>5
<1>7. \A c : (\E k \in DOMAIN all : all[k] = c) <=>
          c = host \/ (lobby[l].phase # "OnePlayer" /\ c = joined)
  BY <1>1, <1>5
<1>8. \A c : (\E k \in DOMAIN all : all[k] = c) => \E k \in DOMAIN both : both[k] = c
  BY <1>4, <1>5
<1>9. QED
  BY <1>6, <1>7, <1>8 DEF all, both, host, joined

LEMMA NoneIsNobody == /\ \A c \in Client : c # None
                      /\ \A l \in Lobby : l # None
                      /\ \A g \in GameId : g # None
  BY LobbyAssumption

LEMMA MessageTypes ==
    /\ \A c \in Client, kind \in LobbyKind :
           [type |-> "NewLobby", from |-> c, kind |-> kind] \in LobbyManagerMsg
    /\ \A c \in Client, g \in GameId : Join(c, g) \in LobbyManagerMsg
    /\ \A g \in GameId : CloseMsg(g) \in LobbyManagerMsg
    /\ \A c \in Client : [type |-> "BattleReq", from |-> c] \in LobbyManagerMsg
    /\ \A c \in Client : Joined(c) \in LobbyMsg
    /\ \A p \in Player : [type |-> "PlayerLeaving", sender |-> p] \in LobbyMsg
    /\ [type |-> "ReceivedReadyForGamePong"] \in LobbyMsg
    /\ Reset \in ClientMsg
    /\ [type |-> "LobbyRequestResponseReady"] \in ClientMsg
    /\ \A l \in Lobby : Invitation(l) \in ClientMsg
  BY DEF LobbyManagerMsg, LobbyMsg, ClientMsg, Join, CloseMsg, Joined, Reset, Invitation

LEMMA MessageKinds ==
    /\ \A m \in LobbyManagerMsg :
           /\ m.type = "NewLobby" => m.from \in Client /\ m.kind \in LobbyKind
                                     /\ m \in RequestsOf(m.from)
           /\ m.type = "JoinLobby" => m.from \in Client /\ m.game_id \in GameId
                                      /\ m \in RequestsOf(m.from) /\ m = Join(m.from, m.game_id)
           /\ m.type = "CloseLobbyMsg" => m.game_id \in GameId /\ m = CloseMsg(m.game_id)
           /\ m.type = "BattleReq" => m.from \in Client
           /\ \A c : m \in RequestsOf(c) => m.type \in {"NewLobby", "JoinLobby"} /\ m.from = c
    /\ \A m \in LobbyMsg :
           /\ m.type = "PlayerJoined" => m.from \in Client /\ m = Joined(m.from) /\ m \in Joins
           /\ m.type = "PlayerLeaving" => m.sender \in Player
           /\ m \in Joins => m.type = "PlayerJoined"
    /\ \A m \in ClientMsg :
           /\ m.type = "BattleReqJoinLobby" => m.lobby \in Lobby /\ m = Invitation(m.lobby)
           /\ m.type = "Reset" => m = Reset
           /\ m.type = "LobbyRequestResponseReady" => m # Reset
           /\ m.type = "BattleReqJoinLobby" => m # Reset
<1>1. ASSUME NEW m \in LobbyManagerMsg
      PROVE  /\ m.type = "NewLobby" => m.from \in Client /\ m.kind \in LobbyKind
                                       /\ m \in RequestsOf(m.from)
             /\ m.type = "JoinLobby" => m.from \in Client /\ m.game_id \in GameId
                                      /\ m \in RequestsOf(m.from) /\ m = Join(m.from, m.game_id)
             /\ m.type = "CloseLobbyMsg" => m.game_id \in GameId /\ m = CloseMsg(m.game_id)
             /\ m.type = "BattleReq" => m.from \in Client
             /\ \A c : m \in RequestsOf(c) => m.type \in {"NewLobby", "JoinLobby"} /\ m.from = c
  BY DEF LobbyManagerMsg, RequestsOf, Join, CloseMsg
<1>2. ASSUME NEW m \in LobbyMsg
      PROVE  /\ m.type = "PlayerJoined" => m.from \in Client /\ m = Joined(m.from) /\ m \in Joins
             /\ m.type = "PlayerLeaving" => m.sender \in Player
             /\ m \in Joins => m.type = "PlayerJoined"
  BY DEF LobbyMsg, Joined, Joins
<1>3. ASSUME NEW m \in ClientMsg
      PROVE  /\ m.type = "BattleReqJoinLobby" => m.lobby \in Lobby /\ m = Invitation(m.lobby)
             /\ m.type = "Reset" => m = Reset
             /\ m.type = "LobbyRequestResponseReady" => m # Reset
             /\ m.type = "BattleReqJoinLobby" => m # Reset
  BY DEF ClientMsg, Reset, Invitation
<1>4. QED
  BY <1>1, <1>2, <1>3

\* The states of a client, by what it may do.
LEMMA ClientStates ==
    /\ Idle \in ClientType /\ [Idle EXCEPT !.up = FALSE] \in ClientType
    /\ \A p \in Player, l \in Lobby, state \in {"InLobbyWaitingForHost", "InLobby"} :
           [Idle EXCEPT !.lobby_state = state, !.player = p, !.lobby = l] \in ClientType
    /\ \A r \in ClientType :
           /\ r.lobby_state = "Idle" => [r EXCEPT !.awaiting = TRUE] \in ClientType
           /\ r.lobby_state = "Idle" => [r EXCEPT !.awaiting = FALSE] \in ClientType
           /\ r.lobby_state # "Idle" =>
                [r EXCEPT !.lobby_state = "InLobby"] \in ClientType
                /\ r.player \in Player /\ r.lobby \in Lobby /\ r.up /\ ~r.awaiting
           /\ r.up /\ ~r.awaiting => \A l \in Lobby :
                [r EXCEPT !.lobby_state = "InLobby", !.player = "One", !.lobby = l] \in ClientType
  BY DEF ClientType, Idle, Player

LEMMA HeadOfLobbyManager ==
    ASSUME TypeOK, NEW type, Handle(type)
    PROVE  /\ Head(lm_mailbox) \in LobbyManagerMsg /\ Head(lm_mailbox).type = type
           /\ lm_mailbox' \in Seq(LobbyManagerMsg)
           /\ \A x : Has(lm_mailbox, x) <=> Head(lm_mailbox) = x \/ Has(lm_mailbox', x)
           /\ \A T : HasIn(lm_mailbox, T) <=> Head(lm_mailbox) \in T \/ HasIn(lm_mailbox', T)
           /\ \A T : AtMostOne(lm_mailbox, T) =>
                AtMostOne(lm_mailbox', T) /\ (Head(lm_mailbox) \in T => ~HasIn(lm_mailbox', T))
           /\ \A x, y : Ahead(lm_mailbox', x, y) /\ Head(lm_mailbox) # y =>
                Ahead(lm_mailbox, x, y)
           /\ \A y : Ahead(lm_mailbox, Head(lm_mailbox), y)
<1>1. /\ lm_mailbox \in Seq(LobbyManagerMsg) /\ lm_mailbox # <<>>
      /\ lm_mailbox' = Tail(lm_mailbox) /\ Head(lm_mailbox).type = type
  BY DEF TypeOK, Handle
<1>2. QED
  BY <1>1, TailFacts

LEMMA HeadOfLobby ==
    ASSUME TypeOK, NEW l \in Lobby, NEW type, LobbyReceive(l, type)
    PROVE  LET box == lobby_mailbox[l] IN
           /\ Head(box) \in LobbyMsg /\ Head(box).type = type /\ Tail(box) \in Seq(LobbyMsg)
           /\ \A x : Has(box, x) <=> Head(box) = x \/ Has(Tail(box), x)
           /\ \A T : HasIn(box, T) <=> Head(box) \in T \/ HasIn(Tail(box), T)
           /\ \A T : AtMostOne(box, T) =>
                AtMostOne(Tail(box), T) /\ (Head(box) \in T => ~HasIn(Tail(box), T))
<1>1. /\ lobby_mailbox[l] \in Seq(LobbyMsg) /\ lobby_mailbox[l] # <<>>
      /\ Head(lobby_mailbox[l]).type = type
  BY DEF TypeOK, LobbyReceive
<1>2. QED
  BY <1>1, TailFacts

LEMMA HeadOfClient ==
    ASSUME TypeOK, NEW c \in Client, NEW type, Receive(c, type)
    PROVE  LET box == client_mailbox[c] IN
           /\ Head(box) \in ClientMsg /\ Head(box).type = type
           /\ client_mailbox' \in [Client -> Seq(ClientMsg)] /\ client_mailbox'[c] = Tail(box)
           /\ \A d \in Client : d # c => client_mailbox'[d] = client_mailbox[d]
           /\ \A x : Has(box, x) <=> Head(box) = x \/ Has(Tail(box), x)
           /\ \A x, y : Follows(box, x, y) =>
                Follows(Tail(box), x, y) /\ (Head(box) = x => Has(Tail(box), y))
<1>1. /\ client_mailbox[c] \in Seq(ClientMsg) /\ client_mailbox[c] # <<>>
      /\ Head(client_mailbox[c]).type = type
      /\ client_mailbox \in [Client -> Seq(ClientMsg)]
      /\ client_mailbox' = [client_mailbox EXCEPT ![c] = Tail(client_mailbox[c])]
  BY DEF TypeOK, Receive
<1>2. LET box == client_mailbox[c] IN
      /\ Tail(box) \in Seq(ClientMsg) /\ Head(box) \in ClientMsg
      /\ \A x : Has(box, x) <=> Head(box) = x \/ Has(Tail(box), x)
      /\ \A x, y : Follows(box, x, y) =>
           Follows(Tail(box), x, y) /\ (Head(box) = x => Has(Tail(box), y))
  BY <1>1, TailFacts
<1>3. QED
  BY <1>1, <1>2

-------------------------------------------------------------------------------
(* The invariant holds at first.                                              *)

LEMMA InitMeetsInv == Init => MatchmakingInv
<1> SUFFICES ASSUME Init
             PROVE  MatchmakingInv
  OBVIOUS
<1> USE DEF Init
<1>1. \A S : <<>> \in Seq(S)
  BY EmptySeq
<1>2. TypeOK
  BY <1>1, ClientStates DEF TypeOK, LobbyType
<1>3. NewIsFresh /\ JoinedOnce
  BY EmptyBox, NoneIsNobody DEF NewIsFresh, JoinedOnce, LobbyKind
<1>4. AskersWait
  BY EmptyBox DEF AskersWait, Idle
<1>5. ListedByKind /\ RejoinersAreReset /\ OfferedOnce /\ UpdateIsCurrent
  BY EmptyBox DEF ListedByKind, RejoinersAreReset, OfferedOnce, UpdateIsCurrent
<1>6. PlayersAreHosts /\ SeatsAgree /\ NobodyLeftBehind
  BY EmptyBox DEF PlayersAreHosts, SeatsAgree, NobodyLeftBehind, Idle
<1>7. LeftIsUnlisted
  BY DEF LeftIsUnlisted
<1>8. QED
  BY <1>2, <1>3, <1>4, <1>5, <1>6, <1>7 DEF MatchmakingInv

-------------------------------------------------------------------------------
(* What a player asks for.                                                    *)

\* The client asks LobbyManager, and waits.
LEMMA AskKeepsInv ==
    ASSUME MatchmakingInv, NEW c \in Client, NEW m \in RequestsOf(c),
           Ready(c), client[c].lobby_state = "Idle",
           lm_mailbox' = Append(lm_mailbox, m),
           client' = [client EXCEPT ![c].awaiting = TRUE],
           UNCHANGED <<open_lobby, open_lobby_map, closed_lobby_map, update, lobbyVars,
                       client_mailbox, battle_reqs>>
    PROVE  MatchmakingInv'
<1> USE DEF MatchmakingInv, lobbyVars
<1>1. /\ m \in LobbyManagerMsg /\ lm_mailbox \in Seq(LobbyManagerMsg)
      /\ m.type \in {"NewLobby", "JoinLobby"} /\ m.from = c
      /\ \A d : m \in RequestsOf(d) => d = c
      /\ \A g : m # CloseMsg(g)
  BY DEF TypeOK, LobbyManagerMsg, RequestsOf, CloseMsg
<1>2. /\ lm_mailbox' \in Seq(LobbyManagerMsg)
      /\ \A x : Has(lm_mailbox', x) <=> Has(lm_mailbox, x) \/ x = m
      /\ \A T : HasIn(lm_mailbox', T) <=> HasIn(lm_mailbox, T) \/ m \in T
      /\ \A T : AtMostOne(lm_mailbox, T) /\ (m \notin T \/ ~HasIn(lm_mailbox, T))
                    => AtMostOne(lm_mailbox', T)
      /\ \A x, y : Ahead(lm_mailbox', x, y) =>
                Ahead(lm_mailbox, x, y) \/ (m = x /\ ~Has(lm_mailbox, y))
  BY <1>1, AppendFacts
<1>3. /\ client' \in [Client -> ClientType]
      /\ \A d \in Client : /\ client'[d].lobby_state = client[d].lobby_state
                           /\ client'[d].lobby = client[d].lobby
                           /\ client'[d].player = client[d].player
                           /\ client'[d].up = client[d].up
                           /\ client'[d].awaiting = (client[d].awaiting \/ d = c)
  <2>1. client \in [Client -> ClientType] /\ [client[c] EXCEPT !.awaiting = TRUE] \in ClientType
    BY ClientStates DEF TypeOK
  <2>2. \A d \in Client :
            client'[d] = IF d = c THEN [client[d] EXCEPT !.awaiting = TRUE] ELSE client[d]
    BY <2>1
  <2>3. \A d \in Client : client[d] \in ClientType /\ client'[d] \in ClientType
    BY <2>1, <2>2
  <2>4. client' \in [Client -> ClientType]
    BY <2>1, <2>3
  <2>5. ASSUME NEW d \in Client
        PROVE  /\ client'[d].lobby_state = client[d].lobby_state
               /\ client'[d].lobby = client[d].lobby
               /\ client'[d].player = client[d].player
               /\ client'[d].up = client[d].up
               /\ client'[d].awaiting = (client[d].awaiting \/ d = c)
    <3>1. CASE d = c
      <4>1. /\ client'[d].lobby_state = client[d].lobby_state
            /\ client'[d].lobby = client[d].lobby
            /\ client'[d].player = client[d].player
            /\ client'[d].up = client[d].up
            /\ client'[d].awaiting = TRUE
        <5>1. PICK r \in ClientType : r = client[d]
          BY <2>3
        <5>2. PICK s : s = [r EXCEPT !.awaiting = TRUE]
          OBVIOUS
        <5>3. /\ s.lobby_state = r.lobby_state /\ s.lobby = r.lobby /\ s.player = r.player
              /\ s.up = r.up /\ s.awaiting = TRUE
          BY <5>2 DEF ClientType
        <5>4. client'[d] = s
          BY <2>2, <3>1, <5>1, <5>2
        <5>5. QED
          BY <5>1, <5>3, <5>4
      <4>2. QED
        BY <3>1, <4>1
    <3>2. CASE d # c
      <4>1. client[d].awaiting \in BOOLEAN
        BY <2>3 DEF ClientType
      <4>2. client'[d] = client[d]
        BY <2>2, <3>2
      <4>3. client[d].awaiting = (client[d].awaiting \/ d = c)
        BY <3>2, <4>1
      <4>4. QED
        BY <4>2, <4>3
    <3>3. QED
      BY <3>1, <3>2
  <2>6. QED
    BY <2>4, <2>5
<1>4. TypeOK'
  BY <1>2, <1>3 DEF TypeOK
<1>5. NewIsFresh' /\ JoinedOnce' /\ ListedByKind' /\ OfferedOnce' /\ UpdateIsCurrent'
  BY DEF NewIsFresh, JoinedOnce, ListedByKind, OfferedOnce, UpdateIsCurrent
<1>6. AskersWait'
  BY <1>1, <1>2, <1>3 DEF AskersWait, Ready
<1>7. PlayersAreHosts' /\ SeatsAgree' /\ NobodyLeftBehind'
  BY <1>3 DEF PlayersAreHosts, SeatsAgree, NobodyLeftBehind, Stopped, Running
<1>8. LeftIsUnlisted'
  BY <1>1, <1>2 DEF LeftIsUnlisted, CloseMsg
<1>9. RejoinersAreReset'
  <2> SUFFICES ASSUME NEW d \in Client, NEW g \in GameId, NEW l, l = open_lobby_map[g],
                      l # None, lobby[l].status = "Left", lobby[l].joined = d,
                      Ahead(lm_mailbox', Join(d, g), CloseMsg(g))
               PROVE  Has(client_mailbox[d], Reset)
    BY DEF RejoinersAreReset
  <2>1. l \in Lobby /\ lobby[l].game_id = g
    BY DEF TypeOK, ListedByKind
  <2>2. Has(lm_mailbox, CloseMsg(g))
    BY <2>1 DEF LeftIsUnlisted, CloseMsg
  <2>3. Ahead(lm_mailbox, Join(d, g), CloseMsg(g))
    BY <1>2, <2>2
  <2>4. QED
    BY <2>3 DEF RejoinersAreReset
<1>10. QED
  BY <1>4, <1>5, <1>6, <1>7, <1>8, <1>9

\* Mail to a lobby that says nothing of who joins it.
SameJoins ==
    /\ lobby_mailbox' \in [Lobby -> Seq(LobbyMsg)]
    /\ \A k \in Lobby : lobby[k].status = "New" => lobby_mailbox'[k] = lobby_mailbox[k]
    /\ \A k \in Lobby, d \in Client :
           Has(lobby_mailbox'[k], Joined(d)) <=> Has(lobby_mailbox[k], Joined(d))
    /\ \A k \in Lobby : HasIn(lobby_mailbox'[k], Joins) <=> HasIn(lobby_mailbox[k], Joins)
    /\ \A k \in Lobby : AtMostOne(lobby_mailbox[k], Joins) => AtMostOne(lobby_mailbox'[k], Joins)

LEMMA OtherMail ==
    ASSUME TypeOK, NEW l \in Lobby, NEW m \in LobbyMsg, m \notin Joins,
           lobby_mailbox' = SentToLobby(l, m)
    PROVE  SameJoins
<1>1. \A d \in Client : m # Joined(d)
  BY DEF Joined, Joins
<1>2. Posted(lobby_mailbox', l, m)
  BY SentToLobbyFacts
<1>3. QED
  BY <1>1, <1>2 DEF SameJoins, Posted, Running

LEMMA NoMail ==
    ASSUME TypeOK, lobby_mailbox' = lobby_mailbox
    PROVE  SameJoins
  BY DEF SameJoins, TypeOK

\* What depends on the lobbies and their mail alone.
LEMMA OtherMailKeeps ==
    ASSUME MatchmakingInv, SameJoins, UNCHANGED <<lobby, open_lobby, open_lobby_map, update>>
    PROVE  NewIsFresh' /\ JoinedOnce' /\ ListedByKind' /\ OfferedOnce' /\ UpdateIsCurrent'
<1> USE DEF MatchmakingInv, SameJoins
<1>1. NewIsFresh'
  BY DEF NewIsFresh
<1>2. JoinedOnce'
  BY DEF JoinedOnce
<1>3. ListedByKind' /\ UpdateIsCurrent'
  BY DEF ListedByKind, UpdateIsCurrent
<1>4. OfferedOnce'
  BY DEF OfferedOnce, TypeOK, Joined
<1>5. QED
  BY <1>1, <1>2, <1>3, <1>4

\* A client that leaves its lobby, if it is in one, or is gone.
LEMMA LeaveKeepsInv ==
    ASSUME MatchmakingInv, NEW c \in Client, Ready(c), SameJoins,
           NEW r \in {Idle, [Idle EXCEPT !.up = FALSE]},
           client' = [client EXCEPT ![c] = r],
           client_mailbox' = IF r.up THEN client_mailbox
                             ELSE [client_mailbox EXCEPT ![c] = <<>>],
           UNCHANGED <<lmVars, lobby, battle_reqs>>
    PROVE  MatchmakingInv'
<1> USE DEF MatchmakingInv, lmVars
<1>1. /\ client' \in [Client -> ClientType]
      /\ client'[c].lobby_state = "Idle" /\ ~client'[c].awaiting
      /\ ~client'[c].up => client_mailbox'[c] = <<>>
      /\ \A d \in Client : d # c => client'[d] = client[d]
  <2>1. r \in ClientType /\ r.lobby_state = "Idle" /\ ~r.awaiting
    <3>1. r \in ClientType
      BY ClientStates
    <3>2. QED
      BY <3>1 DEF Idle
  <2>2. client'[c] = r /\ client \in [Client -> ClientType]
    BY DEF TypeOK
  <2>3. QED
    BY <2>1, <2>2 DEF TypeOK
<1>2. /\ client_mailbox' \in [Client -> Seq(ClientMsg)]
      /\ \A d \in Client : d # c => client_mailbox'[d] = client_mailbox[d]
      /\ client_mailbox'[c] \in {client_mailbox[c], <<>>}
  BY EmptySeq DEF TypeOK
<1>3. TypeOK'
  BY <1>1, <1>2 DEF TypeOK, SameJoins
<1>4. NewIsFresh' /\ JoinedOnce' /\ ListedByKind' /\ OfferedOnce' /\ UpdateIsCurrent'
  BY OtherMailKeeps
<1>5. ~HasIn(lm_mailbox, RequestsOf(c))
  BY DEF AskersWait, Ready
<1>6. AskersWait'
  BY <1>1, <1>2, <1>5 DEF AskersWait
<1>7. \A x : Has(client_mailbox'[c], x) => Has(client_mailbox[c], x)
  BY <1>2, EmptyBox
<1>8. PlayersAreHosts'
  BY <1>1, <1>2, <1>7, EmptyBox DEF PlayersAreHosts, Stopped
<1>9. SeatsAgree'
  BY <1>1 DEF SeatsAgree, SameJoins, Running, TypeOK, Joined, ClientType
<1>10. NobodyLeftBehind' /\ LeftIsUnlisted'
  BY <1>1, <1>2 DEF NobodyLeftBehind, LeftIsUnlisted
<1>11. RejoinersAreReset'
  <2> SUFFICES ASSUME NEW d \in Client, NEW g \in GameId, NEW l, l = open_lobby_map[g],
                      l # None, lobby[l].status = "Left", lobby[l].joined = d,
                      Ahead(lm_mailbox, Join(d, g), CloseMsg(g))
               PROVE  Has(client_mailbox'[d], Reset)
    BY DEF RejoinersAreReset
  <2>1. Has(client_mailbox[d], Reset)
    BY DEF RejoinersAreReset
  <2>2. Has(lm_mailbox, Join(d, g)) /\ Join(d, g) \in RequestsOf(d)
    BY DEF Ahead, Has, Join, RequestsOf
  <2>3. d # c
    BY <1>5, <2>2, HasOfSet
  <2>4. QED
    BY <1>2, <2>1, <2>3
<1>12. QED
  BY <1>3, <1>4, <1>6, <1>8, <1>9, <1>10, <1>11

\* Leaving and Close announce a player in a lobby to it.
LEMMA LeavingMail ==
    ASSUME TypeOK, NEW c \in Client,
           lobby_mailbox' = IF InLobby(c)
               THEN SentToLobby(client[c].lobby,
                                [type |-> "PlayerLeaving", sender |-> client[c].player])
               ELSE lobby_mailbox
    PROVE  SameJoins
<1>1. CASE InLobby(c)
  <2>1. client[c] \in ClientType /\ client[c].lobby_state # "Idle"
    BY <1>1 DEF TypeOK, InLobby
  <2>2. client[c].lobby \in Lobby /\ client[c].player \in Player
    BY <2>1, ClientStates
  <2>3. [type |-> "PlayerLeaving", sender |-> client[c].player] \notin Joins
    BY DEF Joins
  <2>4. QED
    BY <1>1, <2>2, <2>3, OtherMail, MessageTypes
<1>2. CASE ~InLobby(c)
  BY <1>2, NoMail
<1>3. QED
  BY <1>1, <1>2

LEMMA PlayerAsksKeepsInv == MatchmakingInv /\ PlayerAsks => MatchmakingInv'
<1> SUFFICES ASSUME MatchmakingInv, NEW c \in Client,
                    \/ \E kind \in LobbyKind : LobbyRequest(c, kind)
                    \/ \E g \in GameId : LobbyJoin(c, g)
                    \/ Leaving(c) \/ Close(c) \/ ReadyForGamePong(c) \/ BattleReq(c)
             PROVE  MatchmakingInv'
  BY DEF PlayerAsks
<1>0. TypeOK
  BY DEF MatchmakingInv
<1>1. ASSUME NEW kind \in LobbyKind, LobbyRequest(c, kind)
      PROVE  MatchmakingInv'
  <2>1. [type |-> "NewLobby", from |-> c, kind |-> kind] \in RequestsOf(c)
    BY DEF RequestsOf
  <2>2. QED
    BY <1>1, <2>1, AskKeepsInv DEF LobbyRequest
<1>2. ASSUME NEW g \in GameId, LobbyJoin(c, g)
      PROVE  MatchmakingInv'
  <2>1. [type |-> "JoinLobby", from |-> c, game_id |-> g] \in RequestsOf(c)
    BY DEF RequestsOf
  <2>2. QED
    BY <1>2, <2>1, AskKeepsInv DEF LobbyJoin
<1>3. CASE Leaving(c)
  <2>1. SameJoins
    BY <1>0, <1>3, LeavingMail DEF Leaving
  <2>2. Idle.up
    BY DEF Idle
  <2>3. QED
    BY <1>3, <2>1, <2>2, LeaveKeepsInv DEF Leaving
<1>4. CASE Close(c)
  <2>1. SameJoins
    BY <1>0, <1>4, LeavingMail DEF Close
  <2> DEFINE gone == [Idle EXCEPT !.up = FALSE]
  <2>2. ~gone.up
    BY DEF Idle
  <2> HIDE DEF gone
  <2>3. client' = [client EXCEPT ![c] = gone] /\ gone \in {Idle, [Idle EXCEPT !.up = FALSE]}
    BY <1>4 DEF Close, gone
  <2>4. QED
    BY <1>4, <2>1, <2>2, <2>3, LeaveKeepsInv DEF Close
<1>5. CASE ReadyForGamePong(c)
  <2>1. client[c].lobby \in Lobby
    BY <1>0, <1>5, ClientStates DEF TypeOK, ReadyForGamePong, InLobby
  <2>2. [type |-> "ReceivedReadyForGamePong"] \notin Joins
    BY DEF Joins
  <2>3. SameJoins
    BY <1>0, <1>5, <2>1, <2>2, OtherMail, MessageTypes DEF ReadyForGamePong
  <2>4. NewIsFresh' /\ JoinedOnce' /\ ListedByKind' /\ OfferedOnce' /\ UpdateIsCurrent'
    BY <1>5, <2>3, OtherMailKeeps DEF ReadyForGamePong, lmVars
  <2> USE <1>5 DEF ReadyForGamePong, lmVars, clientVars, MatchmakingInv
  <2>5. TypeOK' /\ AskersWait' /\ PlayersAreHosts' /\ RejoinersAreReset'
    BY <2>3 DEF TypeOK, SameJoins, AskersWait, PlayersAreHosts, RejoinersAreReset, Stopped
  <2>6. NobodyLeftBehind' /\ LeftIsUnlisted'
    BY DEF NobodyLeftBehind, LeftIsUnlisted
  <2>7. SeatsAgree'
    BY <2>3 DEF SeatsAgree, SameJoins, Running, TypeOK, Joined, ClientType
  <2>8. QED
    BY <2>4, <2>5, <2>6, <2>7
<1>6. CASE BattleReq(c)
  <2> USE <1>6 DEF BattleReq, lmVars, lobbyVars, clientVars, MatchmakingInv
  <2>1. TypeOK' /\ NewIsFresh' /\ AskersWait' /\ ListedByKind' /\ JoinedOnce'
    BY DEF TypeOK, NewIsFresh, AskersWait, ListedByKind, JoinedOnce
  <2>2. PlayersAreHosts' /\ RejoinersAreReset'
    BY DEF PlayersAreHosts, RejoinersAreReset, Stopped
  <2>3. OfferedOnce' /\ SeatsAgree' /\ NobodyLeftBehind' /\ LeftIsUnlisted' /\ UpdateIsCurrent'
    BY DEF OfferedOnce, SeatsAgree, NobodyLeftBehind, LeftIsUnlisted, UpdateIsCurrent, Running
  <2>4. QED
    BY <2>1, <2>2, <2>3
<1>7. QED
  BY <1>1, <1>2, <1>3, <1>4, <1>5, <1>6

-------------------------------------------------------------------------------
(* What a client is told.                                                     *)

\* The client takes a message and is r from then on.
LEMMA TakeKeepsInv ==
    ASSUME MatchmakingInv, NEW c \in Client, NEW type, Receive(c, type),
           NEW r \in ClientType, r.up, ~r.awaiting, client' = [client EXCEPT ![c] = r],
           r.lobby_state # "Idle" =>
               /\ lobby[r.lobby].status # "New"
               /\ r.player = "One" => lobby[r.lobby].host = c
               /\ r.player = "Two" =>
                    client[c].player = "Two" /\ client[c].lobby_state # "Idle"
                        /\ client[c].lobby = r.lobby,
           LET l == r.lobby IN
               /\ r.lobby_state # "Idle"
               /\ lobby[l].status = "Left"
                  \/ (lobby[l].status = "TimedOut" /\ lobby[l].kind = "Public")
               /\ IF r.player = "One" THEN lobby[l].host = c ELSE lobby[l].joined = c
               => Has(Tail(client_mailbox[c]), Reset)
    PROVE  MatchmakingInv'
<1> USE DEF MatchmakingInv
<1>1. /\ client' \in [Client -> ClientType] /\ client'[c] = r
      /\ \A d \in Client : d # c => client'[d] = client[d]
  BY DEF TypeOK
<1>2. UNCHANGED <<lmVars, lobbyVars, battle_reqs>> /\ Ready(c)
  BY DEF Receive
<1>3. LET box == client_mailbox[c] IN
      /\ client_mailbox' \in [Client -> Seq(ClientMsg)] /\ client_mailbox'[c] = Tail(box)
      /\ \A d \in Client : d # c => client_mailbox'[d] = client_mailbox[d]
      /\ \A x : Has(client_mailbox'[c], x) => Has(box, x)
      /\ \A x, y : Follows(box, x, y) => Follows(client_mailbox'[c], x, y)
  <2>1. LET box == client_mailbox[c] IN
        /\ client_mailbox' \in [Client -> Seq(ClientMsg)] /\ client_mailbox'[c] = Tail(box)
        /\ \A d \in Client : d # c => client_mailbox'[d] = client_mailbox[d]
        /\ \A x : Has(box, x) <=> Head(box) = x \/ Has(Tail(box), x)
        /\ \A x, y : Follows(box, x, y) => Follows(Tail(box), x, y)
    BY HeadOfClient
  <2>2. QED
    BY <2>1
<1> USE <1>2 DEF lmVars, lobbyVars
<1>4. TypeOK'
  BY <1>1, <1>3 DEF TypeOK
<1>5. NewIsFresh' /\ JoinedOnce' /\ ListedByKind' /\ OfferedOnce' /\ UpdateIsCurrent'
  BY DEF NewIsFresh, JoinedOnce, ListedByKind, OfferedOnce, UpdateIsCurrent
<1>6. ~HasIn(lm_mailbox, RequestsOf(c))
  BY DEF AskersWait, Ready
<1>7. AskersWait'
  BY <1>1, <1>3, <1>6 DEF AskersWait
<1>8. PlayersAreHosts'
  <2>1. ASSUME NEW d \in Client, client'[d].lobby_state # "Idle"
        PROVE  lobby'[client'[d].lobby].status # "New"
    BY <1>1, <2>1 DEF PlayersAreHosts
  <2>2. ASSUME NEW d \in Client
        PROVE  /\ \A x : Has(client_mailbox'[d], x) => Has(client_mailbox[d], x)
               /\ \A x, y : Follows(client_mailbox[d], x, y) => Follows(client_mailbox'[d], x, y)
    BY <1>3
  <2>3. QED
    BY <2>1, <2>2 DEF PlayersAreHosts, Stopped
<1>9. SeatsAgree'
  <2>1. ASSUME NEW d \in Client, d # c
        PROVE  client'[d] = client[d]
    BY <1>1, <2>1
  <2>2. QED
    BY <1>1, <2>1 DEF SeatsAgree, Running
<1>10. NobodyLeftBehind' /\ LeftIsUnlisted'
  <2>1. ASSUME NEW d \in Client, d # c
        PROVE  client'[d] = client[d] /\ client_mailbox'[d] = client_mailbox[d]
    BY <1>1, <1>3, <2>1
  <2>2. ASSUME NEW d \in Client, client'[d].lobby_state # "Idle",
               LET l == client'[d].lobby IN
                 /\ lobby[l].status = "Left"
                    \/ (lobby[l].status = "TimedOut" /\ lobby[l].kind = "Public")
                 /\ IF client'[d].player = "One" THEN lobby[l].host = d
                    ELSE lobby[l].joined = d
        PROVE  Has(client_mailbox'[d], Reset)
    <3>1. CASE d = c
      BY <1>1, <1>3, <2>2, <3>1
    <3>2. CASE d # c
      BY <2>1, <2>2, <3>2 DEF NobodyLeftBehind
    <3>3. QED
      BY <3>1, <3>2
  <2>3. NobodyLeftBehind'
    BY <2>2 DEF NobodyLeftBehind
  <2>4. QED
    BY <2>3 DEF LeftIsUnlisted
<1>11. RejoinersAreReset'
  <2> SUFFICES ASSUME NEW d \in Client, NEW g \in GameId, NEW l, l = open_lobby_map[g],
                      l # None, lobby[l].status = "Left", lobby[l].joined = d,
                      Ahead(lm_mailbox, Join(d, g), CloseMsg(g))
               PROVE  Has(client_mailbox'[d], Reset)
    BY DEF RejoinersAreReset
  <2>1. Has(client_mailbox[d], Reset)
    BY DEF RejoinersAreReset
  <2>2. Has(lm_mailbox, Join(d, g)) /\ Join(d, g) \in RequestsOf(d)
    BY DEF Ahead, Has, Join, RequestsOf
  <2>3. d # c
    BY <1>6, <2>2, HasOfSet
  <2>4. QED
    BY <1>3, <2>1, <2>3
<1>12. QED
  BY <1>4, <1>5, <1>7, <1>8, <1>9, <1>10, <1>11

LEMMA ClientTakesKeepsInv ==
    ASSUME MatchmakingInv, NEW c \in Client, ClientTakes(c)
    PROVE  MatchmakingInv'
<1>0. TypeOK /\ client[c] \in ClientType
  BY DEF MatchmakingInv, TypeOK
<1>1. CASE TakeReset(c)
  <2>1. Idle \in ClientType
    BY ClientStates
  <2>2. Idle.up /\ ~Idle.awaiting /\ Idle.lobby_state = "Idle"
    BY DEF Idle
  <2>3. QED
    BY <1>1, <2>1, <2>2, TakeKeepsInv DEF TakeReset
<1>2. CASE TakeReady(c)
  <2> DEFINE r == IF client[c].lobby_state = "InLobbyWaitingForHost"
                  THEN [client[c] EXCEPT !.lobby_state = "InLobby"] ELSE client[c]
             type == "LobbyRequestResponseReady"
  <2>1. Ready(c) /\ Receive(c, type)
    BY <1>2 DEF TakeReady, Receive
  <2>2. /\ r \in ClientType
        /\ r.up = client[c].up /\ r.awaiting = client[c].awaiting
        /\ r.player = client[c].player /\ r.lobby = client[c].lobby
        /\ r.lobby_state # "Idle" <=> client[c].lobby_state # "Idle"
    <3>1. CASE client[c].lobby_state = "InLobbyWaitingForHost"
      <4>1. [client[c] EXCEPT !.lobby_state = "InLobby"] \in ClientType
        BY <1>0, <3>1, ClientStates
      <4>2. QED
        BY <1>0, <3>1, <4>1 DEF ClientType
    <3>2. CASE client[c].lobby_state # "InLobbyWaitingForHost"
      BY <1>0, <3>2
    <3>3. QED
      BY <3>1, <3>2
  <2>3. client' = [client EXCEPT ![c] = r]
    BY <1>0, <1>2 DEF TakeReady, TypeOK
  <2> HIDE DEF r
  <2>4. Has(client_mailbox[c], Reset) => Has(Tail(client_mailbox[c]), Reset)
    <3>1. /\ Head(client_mailbox[c]) \in ClientMsg /\ Head(client_mailbox[c]).type = type
          /\ \A x : Has(client_mailbox[c], x) <=>
                 Head(client_mailbox[c]) = x \/ Has(Tail(client_mailbox[c]), x)
      BY <1>0, <2>1, HeadOfClient
    <3>2. QED
      BY <3>1 DEF Reset
  <2>5. LET l == client[c].lobby IN
        client[c].lobby_state # "Idle" =>
          /\ lobby[l].status # "New"
          /\ client[c].player = "One" => lobby[l].host = c
          /\ /\ lobby[l].status = "Left"
                \/ (lobby[l].status = "TimedOut" /\ lobby[l].kind = "Public")
             /\ IF client[c].player = "One" THEN lobby[l].host = c ELSE lobby[l].joined = c
             => Has(client_mailbox[c], Reset)
    BY DEF MatchmakingInv, PlayersAreHosts, SeatsAgree, NobodyLeftBehind
  <2> HIDE DEF type
  <2>6. QED
    BY <2>1, <2>2, <2>3, <2>4, <2>5, TakeKeepsInv DEF Ready
<1>3. CASE TakeBattleReqJoinLobby(c)
  <2> DEFINE l == Head(client_mailbox[c]).lobby
             r == [client[c] EXCEPT !.lobby_state = "InLobby", !.player = "One", !.lobby = l]
             type == "BattleReqJoinLobby"
  <2>1. Ready(c) /\ Receive(c, type)
    BY <1>3 DEF TakeBattleReqJoinLobby, Receive
  <2>2. /\ l \in Lobby /\ Has(client_mailbox[c], Invitation(l))
        /\ \A y : Follows(client_mailbox[c], Invitation(l), y) => Has(Tail(client_mailbox[c]), y)
    <3>1. /\ Head(client_mailbox[c]) \in ClientMsg /\ Head(client_mailbox[c]).type = type
          /\ \A x : Has(client_mailbox[c], x) <=>
                 Head(client_mailbox[c]) = x \/ Has(Tail(client_mailbox[c]), x)
          /\ \A x, y : Follows(client_mailbox[c], x, y) =>
                 (Head(client_mailbox[c]) = x => Has(Tail(client_mailbox[c]), y))
      BY <1>0, <2>1, HeadOfClient
    <3>2. l \in Lobby /\ Head(client_mailbox[c]) = Invitation(l)
      BY <3>1, MessageKinds
    <3>3. QED
      BY <3>1, <3>2
  <2>3. client' = [client EXCEPT ![c] = r]
    BY <1>0, <1>3 DEF TakeBattleReqJoinLobby, TypeOK
  <2> HIDE DEF l
  <2>4. r \in ClientType
    BY <1>0, <2>1, <2>2, ClientStates DEF Ready
  <2>5. /\ r.up /\ ~r.awaiting /\ r.player = "One" /\ r.lobby = l
    BY <1>0, <2>1 DEF ClientType, Ready
  <2> HIDE DEF r
  <2>6. /\ lobby[l].status # "New" /\ lobby[l].host = c
        /\ Stopped(l) => Has(Tail(client_mailbox[c]), Reset)
    BY <2>2 DEF MatchmakingInv, PlayersAreHosts
  <2> HIDE DEF type
  <2>7. QED
    BY <2>1, <2>3, <2>4, <2>5, <2>6, TakeKeepsInv DEF Stopped
<1>4. QED
  BY <1>1, <1>2, <1>3 DEF ClientTakes

\* UserManager hands the request on, or does not.
LEMMA ForwardKeepsInv ==
    ASSUME MatchmakingInv, NEW c \in Client, ForwardBattleReq(c)
    PROVE  MatchmakingInv'
<1> DEFINE m == [type |-> "BattleReq", from |-> c]
<1> USE DEF MatchmakingInv, ForwardBattleReq, lobbyVars, clientVars
<1>1. /\ lm_mailbox \in Seq(LobbyManagerMsg) /\ m \in LobbyManagerMsg
      /\ \A d \in Client : m \notin RequestsOf(d)
      /\ \A g : m # CloseMsg(g) /\ \A d : m # Join(d, g)
  BY MessageTypes DEF TypeOK, RequestsOf, CloseMsg, Join
<1>2. /\ lm_mailbox' \in Seq(LobbyManagerMsg)
      /\ \A d \in Client : HasIn(lm_mailbox', RequestsOf(d)) <=> HasIn(lm_mailbox, RequestsOf(d))
      /\ \A d \in Client :
             AtMostOne(lm_mailbox, RequestsOf(d)) => AtMostOne(lm_mailbox', RequestsOf(d))
      /\ \A g : Has(lm_mailbox', CloseMsg(g)) <=> Has(lm_mailbox, CloseMsg(g))
      /\ \A d, g : \A y : Ahead(lm_mailbox', Join(d, g), y) => Ahead(lm_mailbox, Join(d, g), y)
  <2>1. CASE lm_mailbox' = lm_mailbox
    BY <1>1, <2>1
  <2>2. CASE lm_mailbox' = Append(lm_mailbox, m)
    <3>1. /\ lm_mailbox' \in Seq(LobbyManagerMsg)
          /\ \A x : Has(lm_mailbox', x) <=> Has(lm_mailbox, x) \/ x = m
          /\ \A T : HasIn(lm_mailbox', T) <=> HasIn(lm_mailbox, T) \/ m \in T
          /\ \A T : AtMostOne(lm_mailbox, T) /\ (m \notin T \/ ~HasIn(lm_mailbox, T))
                        => AtMostOne(lm_mailbox', T)
          /\ \A x, y : Ahead(lm_mailbox', x, y) =>
                Ahead(lm_mailbox, x, y) \/ (m = x /\ ~Has(lm_mailbox, y))
      BY <1>1, <2>2, AppendFacts
    <3> HIDE DEF m, ForwardBattleReq
    <3>2. \A d \in Client :
              /\ HasIn(lm_mailbox', RequestsOf(d)) <=> HasIn(lm_mailbox, RequestsOf(d))
              /\ AtMostOne(lm_mailbox, RequestsOf(d)) => AtMostOne(lm_mailbox', RequestsOf(d))
      BY <1>1, <3>1
    <3>3. \A g : Has(lm_mailbox', CloseMsg(g)) <=> Has(lm_mailbox, CloseMsg(g))
      BY <1>1, <3>1
    <3>4. ASSUME NEW d, NEW g, NEW y, Ahead(lm_mailbox', Join(d, g), y)
          PROVE  Ahead(lm_mailbox, Join(d, g), y)
      <4>1. PICK x : x = Join(d, g)
        OBVIOUS
      <4>2. m # x
        BY <1>1, <4>1
      <4>3. QED
        BY <3>1, <3>4, <4>1, <4>2
    <3>5. QED
      BY <3>1, <3>2, <3>3, <3>4
  <2>3. QED
    BY <2>1, <2>2
<1>3. TypeOK' /\ NewIsFresh' /\ ListedByKind' /\ JoinedOnce'
  BY <1>2 DEF TypeOK, NewIsFresh, ListedByKind, JoinedOnce
<1>4. AskersWait' /\ PlayersAreHosts' /\ RejoinersAreReset' /\ LeftIsUnlisted'
  BY <1>2 DEF AskersWait, PlayersAreHosts, RejoinersAreReset, LeftIsUnlisted, Stopped, CloseMsg
<1>5. OfferedOnce' /\ SeatsAgree' /\ NobodyLeftBehind' /\ UpdateIsCurrent'
  BY DEF OfferedOnce, SeatsAgree, NobodyLeftBehind, UpdateIsCurrent, Running
<1>6. QED
  BY <1>3, <1>4, <1>5

-------------------------------------------------------------------------------
(* What LobbyManager does.                                                    *)

\* Who is seated, and where.
LEMMA SeatedFacts ==
    ASSUME TypeOK, NEW c \in Client, NEW p \in Player, NEW l \in Lobby,
           NEW state \in {"InLobbyWaitingForHost", "InLobby"},
           client' = Seated(c, p, l, state)
    PROVE  /\ client' \in [Client -> ClientType]
           /\ \A d \in Client : d # c => client'[d] = client[d]
           /\ client'[c].lobby_state = state /\ client'[c].player = p /\ client'[c].lobby = l
           /\ client'[c].up /\ ~client'[c].awaiting
<1> DEFINE r == [Idle EXCEPT !.lobby_state = state, !.player = p, !.lobby = l]
<1>1. r \in ClientType
  BY ClientStates
<1>2. /\ r.lobby_state = state /\ r.player = p /\ r.lobby = l /\ r.up /\ ~r.awaiting
  BY DEF Idle
<1>3. client' = [client EXCEPT ![c] = r] /\ client \in [Client -> ClientType]
  BY DEF Seated, TypeOK
<1> HIDE DEF r
<1>4. client'[c] = r /\ \A d \in Client : d # c => client'[d] = client[d]
  BY <1>3
<1>5. QED
  BY <1>1, <1>2, <1>3, <1>4

\* A new lobby, for a player who is answered or one who is invited.
LEMMA CreateKeepsInv ==
    ASSUME MatchmakingInv, NEW type \in {"NewLobby", "BattleReq"}, Handle(type),
           NEW l \in Lobby, NEW g \in GameId, NEW c \in Client, NEW kind \in LobbyKind,
           c = Head(lm_mailbox).from, Created(l, g, c, kind),
           UNCHANGED <<closed_lobby_map, lobby_mailbox, battle_reqs>>,
           \/ kind = "Public" /\ open_lobby' = l /\ update' = TRUE /\ UNCHANGED open_lobby_map
           \/ /\ kind = "Private" /\ open_lobby_map' = [open_lobby_map EXCEPT ![g] = l]
              /\ UNCHANGED <<open_lobby, update>>,
           \/ /\ type = "NewLobby" /\ client' = Seated(c, "One", l, "InLobby")
              /\ UNCHANGED client_mailbox
           \/ /\ type = "BattleReq" /\ client_mailbox' = SentToClients(<<c>>, Invitation(l))
              /\ UNCHANGED client
    PROVE  MatchmakingInv'
<1> USE DEF MatchmakingInv
<1>1. /\ lm_mailbox' \in Seq(LobbyManagerMsg)
      /\ \A x : Has(lm_mailbox', x) => Has(lm_mailbox, x)
      /\ \A T : HasIn(lm_mailbox', T) => HasIn(lm_mailbox, T)
      /\ \A T : AtMostOne(lm_mailbox, T) => AtMostOne(lm_mailbox', T)
      /\ type = "NewLobby" => ~HasIn(lm_mailbox', RequestsOf(c))
      /\ \A h : Has(lm_mailbox, CloseMsg(h)) => Has(lm_mailbox', CloseMsg(h))
      /\ \A h, x : Ahead(lm_mailbox', x, CloseMsg(h)) => Ahead(lm_mailbox, x, CloseMsg(h))
  <2>1. /\ Head(lm_mailbox) \in LobbyManagerMsg /\ Head(lm_mailbox).type = type
        /\ lm_mailbox' \in Seq(LobbyManagerMsg)
        /\ \A x : Has(lm_mailbox, x) <=> Head(lm_mailbox) = x \/ Has(lm_mailbox', x)
        /\ \A T : HasIn(lm_mailbox, T) <=> Head(lm_mailbox) \in T \/ HasIn(lm_mailbox', T)
        /\ \A T : AtMostOne(lm_mailbox, T) =>
             AtMostOne(lm_mailbox', T) /\ (Head(lm_mailbox) \in T => ~HasIn(lm_mailbox', T))
        /\ \A x, y : Ahead(lm_mailbox', x, y) /\ Head(lm_mailbox) # y =>
             Ahead(lm_mailbox, x, y)
    BY HeadOfLobbyManager
  <2>2. type = "NewLobby" => Head(lm_mailbox) \in RequestsOf(c)
    BY <2>1, MessageKinds
  <2>3. \A h : Head(lm_mailbox) # CloseMsg(h)
    BY <2>1 DEF CloseMsg
  <2>4. AtMostOne(lm_mailbox, RequestsOf(c))
    BY DEF AskersWait
  <2>5. QED
    BY <2>1, <2>2, <2>3, <2>4
<1>2. /\ l # None /\ lobby[l].status = "New" /\ lobby \in [Lobby -> LobbyType]
      /\ lobby' \in [Lobby -> LobbyType]
      /\ lobby'[l].status = "Running" /\ lobby'[l].kind = kind /\ lobby'[l].game_id = g
      /\ lobby'[l].host = c /\ lobby'[l].joined = lobby[l].joined
      /\ lobby'[l].phase = lobby[l].phase
      /\ \A k \in Lobby : k # l => lobby'[k] = lobby[k]
  <2>1. /\ lobby' = [lobby EXCEPT ![l].status = "Running", ![l].kind = kind,
                                  ![l].game_id = g, ![l].host = c]
        /\ lobby[l].status = "New" /\ lobby \in [Lobby -> LobbyType]
    BY DEF Created, TypeOK
  <2>2. lobby' = [lobby EXCEPT ![l] = [lobby[l] EXCEPT !.status = "Running", !.kind = kind,
                                                       !.game_id = g, !.host = c]]
    BY <2>1
  <2>3. lobby[l] \in LobbyType
    BY <2>1
  <2> DEFINE r == [lobby[l] EXCEPT !.status = "Running", !.kind = kind,
                                   !.game_id = g, !.host = c]
  <2>4. /\ r \in LobbyType /\ r.status = "Running" /\ r.kind = kind /\ r.game_id = g
        /\ r.host = c /\ r.joined = lobby[l].joined /\ r.phase = lobby[l].phase
    BY <2>3 DEF LobbyType
  <2> HIDE DEF r
  <2>5. lobby'[l] = r /\ \A k \in Lobby : k # l => lobby'[k] = lobby[k]
    BY <2>1, <2>2 DEF r
  <2>6. lobby' = [k \in Lobby |-> IF k = l THEN r ELSE lobby[k]]
    BY <2>1, <2>2 DEF r
  <2>7. QED
    BY <2>1, <2>4, <2>5, <2>6, NoneIsNobody
<1>3. /\ lobby_mailbox' = lobby_mailbox /\ lobby_mailbox[l] = <<>>
      /\ lobby[l].joined = None /\ lobby[l].phase = "OnePlayer"
  BY <1>2 DEF NewIsFresh
<1>4. /\ open_lobby' # None => (open_lobby' = l /\ kind = "Public") \/ open_lobby' = open_lobby
      /\ \A h \in GameId : open_lobby_map'[h] # None =>
             \/ open_lobby_map'[h] = l /\ kind = "Private" /\ h = g
             \/ open_lobby_map'[h] = open_lobby_map[h] /\ open_lobby_map[h] # l
      /\ open_lobby_map' \in [GameId -> Lobby \cup {None}]
      /\ open_lobby' \in Lobby \cup {None} /\ update' \in BOOLEAN
      /\ open_lobby # l /\ \A h \in GameId : open_lobby_map[h] # l
  <2>1. open_lobby # l /\ \A h \in GameId : open_lobby_map[h] # l
    BY <1>2 DEF ListedByKind
  <2>2. /\ open_lobby \in Lobby \cup {None} /\ update \in BOOLEAN
        /\ open_lobby_map \in [GameId -> Lobby \cup {None}]
    BY DEF TypeOK
  <2>3. CASE kind = "Public"
    BY <2>1, <2>2, <2>3
  <2>4. CASE kind = "Private"
    <3>1. \A h \in GameId : open_lobby_map'[h] = IF h = g THEN l ELSE open_lobby_map[h]
      BY <2>2, <2>4
    <3>2. QED
      BY <2>1, <2>2, <2>4, <3>1
  <2>5. QED
    BY <2>3, <2>4
<1>5. /\ client' \in [Client -> ClientType]
      /\ \A d \in Client : client'[d] = client[d]
             \/ /\ d = c /\ client'[d].lobby = l /\ client'[d].player = "One"
                /\ client'[d].up /\ ~client'[d].awaiting /\ type = "NewLobby"
  <2>1. CASE type = "NewLobby"
    BY <2>1, SeatedFacts DEF Player
  <2>2. CASE type = "BattleReq"
    BY <2>2 DEF TypeOK
  <2>3. QED
    BY <2>1, <2>2
<1>6. /\ client_mailbox' \in [Client -> Seq(ClientMsg)]
      /\ \A d \in Client : /\ ~client[d].up => client_mailbox'[d] = client_mailbox[d]
                           /\ Has(client_mailbox[d], Reset) => Has(client_mailbox'[d], Reset)
      /\ \A d \in Client, k \in Lobby : Has(client_mailbox'[d], Invitation(k)) =>
             Has(client_mailbox[d], Invitation(k)) \/ (d = c /\ k = l)
      /\ \A d \in Client, k \in Lobby : k # l /\ Follows(client_mailbox[d], Invitation(k), Reset)
             => Follows(client_mailbox'[d], Invitation(k), Reset)
      /\ client' # client => client_mailbox' = client_mailbox
  <2>1. CASE type = "NewLobby"
    BY <2>1 DEF TypeOK
  <2>2. CASE type = "BattleReq"
    <3>0. PICK cs : cs = <<c>>
      OBVIOUS
    <3>1. Invitation(l) \in ClientMsg /\ 1 \in Nat /\ DOMAIN cs = 1..1
      BY <3>0, MessageTypes
    <3>2. Delivered(client_mailbox', cs, Invitation(l))
      <4>1. client_mailbox' = SentToClients(cs, Invitation(l))
        BY <2>2, <3>0
      <4>2. QED
        BY <3>1, <4>1, SentToClientsFacts
    <3>3. \A d \in Client : Addressed(cs, d) => d = c
      BY <3>0 DEF Addressed
    <3>4. \A k \in Lobby : Invitation(k) = Invitation(l) => k = l
      BY DEF Invitation
    <3>5. QED
      BY <2>2, <3>2, <3>3, <3>4 DEF Delivered, Reset, Invitation
  <2>3. QED
    BY <2>1, <2>2
<1> USE UNCHANGED <<closed_lobby_map, lobby_mailbox, battle_reqs>>
<1>7. TypeOK'
  BY <1>1, <1>2, <1>4, <1>5, <1>6 DEF TypeOK
<1>8. NewIsFresh' /\ JoinedOnce'
  BY <1>2, <1>3, EmptyBox DEF NewIsFresh, JoinedOnce
<1>9. AskersWait'
  BY <1>1, <1>5, <1>6 DEF AskersWait
<1>10. ListedByKind' /\ OfferedOnce' /\ UpdateIsCurrent'
  <2>1. ListedByKind'
    <3>1. open_lobby' # None =>
              lobby'[open_lobby'].status # "New" /\ lobby'[open_lobby'].kind = "Public"
      BY <1>2, <1>4 DEF TypeOK, ListedByKind
    <3>2. ASSUME NEW h \in GameId, NEW k, k = open_lobby_map'[h], k # None
          PROVE  lobby'[k].status # "New" /\ lobby'[k].kind = "Private" /\ lobby'[k].game_id = h
      <4>1. CASE k = l /\ kind = "Private" /\ h = g
        BY <1>2, <4>1
      <4>2. CASE k = open_lobby_map[h] /\ k # l
        BY <1>2, <3>2, <4>2 DEF TypeOK, ListedByKind
      <4>3. QED
        BY <1>4, <3>2, <4>1, <4>2
    <3>3. QED
      BY <3>1, <3>2 DEF ListedByKind
  <2>2. OfferedOnce'
    <3>1. CASE open_lobby' = l /\ kind = "Public"
      BY <1>2, <1>3, <3>1, EmptyBox DEF OfferedOnce
    <3>2. CASE open_lobby' = open_lobby /\ open_lobby # None
      BY <1>2, <1>3, <1>4, <3>2 DEF OfferedOnce, TypeOK
    <3>3. QED
      BY <1>4, <3>1, <3>2 DEF OfferedOnce
  <2>3. UpdateIsCurrent'
    BY <1>2 DEF UpdateIsCurrent
  <2>4. QED
    BY <2>1, <2>2, <2>3
<1>11. PlayersAreHosts'
  <2>1. ASSUME NEW d \in Client, client'[d].lobby_state # "Idle"
        PROVE  lobby'[client'[d].lobby].status # "New"
    <3>1. CASE client'[d] = client[d]
      <4>1. client[d].lobby \in Lobby /\ lobby[client[d].lobby].status # "New"
        BY <2>1, <3>1, ClientStates DEF PlayersAreHosts, TypeOK
      <4>2. QED
        BY <1>2, <3>1, <4>1
    <3>2. CASE client'[d].lobby = l
      BY <1>2, <3>2
    <3>3. QED
      BY <1>5, <3>1, <3>2
  <2>2. ASSUME NEW d \in Client, NEW k \in Lobby, Has(client_mailbox'[d], Invitation(k))
        PROVE  lobby'[k].status # "New" /\ lobby'[k].host = d
    BY <1>2, <1>6, <2>2 DEF PlayersAreHosts
  <2>3. ASSUME NEW d \in Client, NEW k \in Lobby, lobby'[k].status \in {"Left", "TimedOut"}
        PROVE  Follows(client_mailbox'[d], Invitation(k), Reset)
    BY <1>2, <1>6, <2>3 DEF PlayersAreHosts, Stopped
  <2>4. QED
    BY <2>1, <2>2, <2>3 DEF PlayersAreHosts, Stopped
<1>12. ASSUME NEW d \in Client, client'[d] = client[d], client[d].lobby_state # "Idle"
       PROVE  client[d].lobby \in Lobby /\ lobby'[client[d].lobby] = lobby[client[d].lobby]
  BY <1>2, <1>12, ClientStates DEF PlayersAreHosts, TypeOK
<1>13. SeatsAgree'
  BY <1>2, <1>5, <1>12 DEF SeatsAgree, Running
<1>14. NobodyLeftBehind'
  BY <1>2, <1>5, <1>6, <1>12 DEF NobodyLeftBehind
<1>15. LeftIsUnlisted'
  BY <1>1, <1>2, <1>4 DEF LeftIsUnlisted, CloseMsg
<1>16. RejoinersAreReset'
  <2> SUFFICES ASSUME NEW d \in Client, NEW h \in GameId, NEW k, k = open_lobby_map'[h],
                      k # None, lobby'[k].status = "Left", lobby'[k].joined = d,
                      Ahead(lm_mailbox', Join(d, h), CloseMsg(h))
               PROVE  Has(client_mailbox'[d], Reset)
    BY DEF RejoinersAreReset
  <2>1. k = open_lobby_map[h] /\ k # l
    BY <1>2, <1>4
  <2>2. lobby'[k] = lobby[k]
    BY <1>2, <2>1 DEF TypeOK
  <2>3. Ahead(lm_mailbox, Join(d, h), CloseMsg(h))
    BY <1>1
  <2>4. QED
    BY <1>6, <2>1, <2>2, <2>3 DEF RejoinersAreReset
<1>17. QED
  BY <1>7, <1>8, <1>9, <1>10, <1>11, <1>13, <1>14, <1>15, <1>16

LEMMA MatchPublicKeepsInv == MatchmakingInv /\ MatchPublic => MatchmakingInv'
<1> SUFFICES ASSUME MatchmakingInv, MatchPublic
             PROVE  MatchmakingInv'
  OBVIOUS
<1> USE DEF MatchmakingInv
<1> DEFINE c == Head(lm_mailbox).from
           o == open_lobby
<1>1. /\ Handle("NewLobby") /\ o # None /\ open_lobby' = None /\ update' = FALSE
      /\ lobby_mailbox' = SentToLobby(o, Joined(c))
      /\ closed_lobby_map' = closed_lobby_map \cup {lobby[o].game_id}
      /\ client' = Seated(c, "Two", o, "InLobbyWaitingForHost")
      /\ UNCHANGED <<open_lobby_map, lobby, client_mailbox, battle_reqs>>
  BY DEF MatchPublic, Joined
<1>2. /\ lm_mailbox' \in Seq(LobbyManagerMsg) /\ c \in Client
      /\ \A x : Has(lm_mailbox', x) => Has(lm_mailbox, x)
      /\ \A T : HasIn(lm_mailbox', T) => HasIn(lm_mailbox, T)
      /\ \A T : AtMostOne(lm_mailbox, T) => AtMostOne(lm_mailbox', T)
      /\ \A h : Has(lm_mailbox, CloseMsg(h)) => Has(lm_mailbox', CloseMsg(h))
      /\ \A h, x : Ahead(lm_mailbox', x, CloseMsg(h)) => Ahead(lm_mailbox, x, CloseMsg(h))
  <2>1. /\ Head(lm_mailbox) \in LobbyManagerMsg /\ Head(lm_mailbox).type = "NewLobby"
        /\ lm_mailbox' \in Seq(LobbyManagerMsg)
        /\ \A x : Has(lm_mailbox, x) <=> Head(lm_mailbox) = x \/ Has(lm_mailbox', x)
        /\ \A T : HasIn(lm_mailbox, T) <=> Head(lm_mailbox) \in T \/ HasIn(lm_mailbox', T)
        /\ \A T : AtMostOne(lm_mailbox, T) =>
             AtMostOne(lm_mailbox', T) /\ (Head(lm_mailbox) \in T => ~HasIn(lm_mailbox', T))
        /\ \A x, y : Ahead(lm_mailbox', x, y) /\ Head(lm_mailbox) # y =>
             Ahead(lm_mailbox, x, y)
    BY <1>1, HeadOfLobbyManager
  <2>2. c \in Client
    BY <2>1, MessageKinds
  <2>3. \A h : Head(lm_mailbox) # CloseMsg(h)
    BY <2>1 DEF CloseMsg
  <2>4. QED
    BY <2>1, <2>2, <2>3
<1> HIDE DEF c
<1>3. /\ o \in Lobby /\ lobby[o].status # "New" /\ lobby[o].kind = "Public"
      /\ lobby[o].joined = None /\ lobby[o].game_id \in GameId
      /\ \A d \in Client : ~Has(lobby_mailbox[o], Joined(d))
  BY <1>1 DEF OfferedOnce, ListedByKind, NewIsFresh, TypeOK, Joined
<1>4. ~HasIn(lobby_mailbox[o], Joins)
  BY <1>3 DEF HasIn, Has, Joins, Joined
<1>5. /\ lobby_mailbox' \in [Lobby -> Seq(LobbyMsg)]
      /\ \A k \in Lobby : k # o \/ ~Running(o) => lobby_mailbox'[k] = lobby_mailbox[k]
      /\ \A k \in Lobby : \A x : Has(lobby_mailbox'[k], x) <=>
           Has(lobby_mailbox[k], x) \/ (k = o /\ Running(o) /\ x = Joined(c))
      /\ AtMostOne(lobby_mailbox[o], Joins) => AtMostOne(lobby_mailbox'[o], Joins)
  <2>1. Joined(c) \in LobbyMsg
    BY <1>2, MessageTypes
  <2>2. Posted(lobby_mailbox', o, Joined(c))
    BY <1>1, <1>3, <2>1, SentToLobbyFacts
  <2>3. QED
    BY <1>3, <1>4, <2>2 DEF Posted
<1>6. /\ client' \in [Client -> ClientType]
      /\ \A d \in Client : d # c => client'[d] = client[d]
      /\ client'[c].lobby_state = "InLobbyWaitingForHost" /\ client'[c].player = "Two"
      /\ client'[c].lobby = o /\ client'[c].up /\ ~client'[c].awaiting
  BY <1>1, <1>2, <1>3, SeatedFacts DEF Player
<1> HIDE DEF o
<1> USE <1>1
<1>7. TypeOK'
  BY <1>2, <1>3, <1>5, <1>6 DEF TypeOK
<1>8. NewIsFresh' /\ JoinedOnce'
  BY <1>3, <1>5 DEF NewIsFresh, JoinedOnce
<1>9. AskersWait'
  <2>1. ~HasIn(lm_mailbox', RequestsOf(c))
    <3>1. /\ Head(lm_mailbox) \in LobbyManagerMsg /\ Head(lm_mailbox).type = "NewLobby"
          /\ \A T : AtMostOne(lm_mailbox, T) =>
               (Head(lm_mailbox) \in T => ~HasIn(lm_mailbox', T))
      BY HeadOfLobbyManager
    <3>2. Head(lm_mailbox) \in RequestsOf(c)
      BY <3>1, MessageKinds DEF c
    <3>3. QED
      BY <1>2, <3>1, <3>2 DEF AskersWait
  <2>2. ASSUME NEW d \in Client, d # c
        PROVE  client'[d] = client[d]
    BY <1>6, <2>2
  <2>3. QED
    BY <1>2, <1>6, <2>1, <2>2 DEF AskersWait
<1>10. ListedByKind' /\ OfferedOnce' /\ UpdateIsCurrent'
  BY DEF ListedByKind, OfferedOnce, UpdateIsCurrent
<1>11. PlayersAreHosts'
  BY <1>3, <1>6 DEF PlayersAreHosts, Stopped
<1>12. SeatsAgree'
  <2> SUFFICES ASSUME NEW d \in Client, NEW l, l = client'[d].lobby,
                      client'[d].lobby_state # "Idle"
               PROVE  /\ client'[d].player = "One" => lobby[l].host = d
                      /\ client'[d].player = "Two" /\ lobby[l].kind = "Public" =>
                           \/ lobby[l].joined = d
                           \/ Has(lobby_mailbox'[l], Joined(d))
                           \/ lobby[l].joined = None /\ ~Running(l)
    BY DEF SeatsAgree, Running, Joined
  <2>1. CASE d = c
    BY <1>3, <1>5, <1>6, <2>1
  <2>2. CASE d # c
    <3>1. client'[d] = client[d] /\ l \in Lobby
      BY <1>6, <2>2, ClientStates DEF TypeOK
    <3>2. QED
      BY <1>5, <3>1 DEF SeatsAgree, Joined
  <2>3. QED
    BY <2>1, <2>2
<1>13. NobodyLeftBehind'
  <2>1. ASSUME NEW d \in Client, d # c
        PROVE  client'[d] = client[d]
    BY <1>6, <2>1
  <2>2. lobby[o].joined # c
    BY <1>2, <1>3, NoneIsNobody
  <2>3. QED
    BY <1>6, <2>1, <2>2 DEF NobodyLeftBehind
<1>14. LeftIsUnlisted'
  BY <1>2, NoneIsNobody DEF LeftIsUnlisted, CloseMsg
<1>15. RejoinersAreReset'
  BY <1>2 DEF RejoinersAreReset
<1>16. QED
  BY <1>7, <1>8, <1>9, <1>10, <1>11, <1>12, <1>13, <1>14, <1>15

LEMMA JoinPrivateKeepsInv == MatchmakingInv /\ JoinPrivate => MatchmakingInv'
<1> SUFFICES ASSUME MatchmakingInv, JoinPrivate
             PROVE  MatchmakingInv'
  OBVIOUS
<1> USE DEF MatchmakingInv
<1> DEFINE c == Head(lm_mailbox).from
           g == Head(lm_mailbox).game_id
           l == open_lobby_map[g]
<1>1. /\ Handle("JoinLobby")
      /\ l = None => client' = [client EXCEPT ![c].awaiting = FALSE]
                     /\ lobby_mailbox' = lobby_mailbox
      /\ l # None => client' = Seated(c, "Two", l, "InLobby")
                     /\ lobby_mailbox' = SentToLobby(l, Joined(c))
      /\ UNCHANGED <<open_lobby, open_lobby_map, closed_lobby_map, update, lobby,
                     client_mailbox, battle_reqs>>
  BY DEF JoinPrivate, Joined
<1>2. /\ lm_mailbox' \in Seq(LobbyManagerMsg) /\ c \in Client /\ g \in GameId
      /\ \A x : Has(lm_mailbox', x) => Has(lm_mailbox, x)
      /\ \A T : HasIn(lm_mailbox', T) => HasIn(lm_mailbox, T)
      /\ \A T : AtMostOne(lm_mailbox, T) => AtMostOne(lm_mailbox', T)
      /\ ~HasIn(lm_mailbox', RequestsOf(c)) /\ HasIn(lm_mailbox, RequestsOf(c))
      /\ \A h : Has(lm_mailbox, CloseMsg(h)) => Has(lm_mailbox', CloseMsg(h))
      /\ \A h, x : Ahead(lm_mailbox', x, CloseMsg(h)) => Ahead(lm_mailbox, x, CloseMsg(h))
      /\ Ahead(lm_mailbox, Join(c, g), CloseMsg(g))
  <2>1. /\ Head(lm_mailbox) \in LobbyManagerMsg /\ Head(lm_mailbox).type = "JoinLobby"
        /\ lm_mailbox' \in Seq(LobbyManagerMsg)
        /\ \A x : Has(lm_mailbox, x) <=> Head(lm_mailbox) = x \/ Has(lm_mailbox', x)
        /\ \A T : HasIn(lm_mailbox, T) <=> Head(lm_mailbox) \in T \/ HasIn(lm_mailbox', T)
        /\ \A T : AtMostOne(lm_mailbox, T) =>
             AtMostOne(lm_mailbox', T) /\ (Head(lm_mailbox) \in T => ~HasIn(lm_mailbox', T))
        /\ \A x, y : Ahead(lm_mailbox', x, y) /\ Head(lm_mailbox) # y =>
             Ahead(lm_mailbox, x, y)
        /\ \A y : Ahead(lm_mailbox, Head(lm_mailbox), y)
    BY <1>1, HeadOfLobbyManager
  <2>2. /\ c \in Client /\ g \in GameId
        /\ Head(lm_mailbox) \in RequestsOf(c) /\ Head(lm_mailbox) = Join(c, g)
    BY <2>1, MessageKinds
  <2>3. \A h : Head(lm_mailbox) # CloseMsg(h)
    BY <2>1 DEF CloseMsg
  <2>4. AtMostOne(lm_mailbox, RequestsOf(c))
    BY <2>2 DEF AskersWait
  <2> HIDE DEF c, g
  <2>5. QED
    BY <2>1, <2>2, <2>3, <2>4
<1> HIDE DEF c, g
<1>3. l # None => l \in Lobby /\ lobby[l].status # "New" /\ lobby[l].kind = "Private"
  BY <1>2 DEF TypeOK, ListedByKind
<1>4. /\ lobby_mailbox' \in [Lobby -> Seq(LobbyMsg)]
      /\ \A k \in Lobby : k = l \/ lobby_mailbox'[k] = lobby_mailbox[k]
      /\ \A k \in Lobby : \A x : Has(lobby_mailbox[k], x) => Has(lobby_mailbox'[k], x)
  <2>1. CASE l = None
    BY <1>1, <2>1 DEF TypeOK
  <2>2. CASE l # None
    <3>1. Joined(c) \in LobbyMsg
      BY <1>2, MessageTypes
    <3>2. Posted(lobby_mailbox', l, Joined(c))
      BY <1>1, <1>3, <2>2, <3>1, SentToLobbyFacts
    <3>3. QED
      BY <3>2 DEF Posted
  <2>3. QED
    BY <2>1, <2>2
<1>5. /\ client' \in [Client -> ClientType]
      /\ \A d \in Client : d # c => client'[d] = client[d]
      /\ client'[c].up /\ ~client'[c].awaiting
      /\ client'[c].lobby_state # "Idle" =>
           l # None /\ client'[c].player = "Two" /\ client'[c].lobby = l
  <2>1. CASE l = None
    <3>1. client[c] \in ClientType /\ client[c].awaiting /\ client[c].up
      BY <1>2 DEF AskersWait, TypeOK
    <3>2. client[c].lobby_state = "Idle"
      BY <3>1, ClientStates
    <3> DEFINE r == [client[c] EXCEPT !.awaiting = FALSE]
    <3>3. r \in ClientType
      BY <3>1, <3>2, ClientStates
    <3>4. r.up /\ ~r.awaiting /\ r.lobby_state = "Idle"
      BY <3>1, <3>2 DEF ClientType
    <3>5. client' = [client EXCEPT ![c] = r] /\ client \in [Client -> ClientType]
      BY <1>1, <2>1 DEF TypeOK
    <3> HIDE DEF r
    <3>6. client'[c] = r /\ \A d \in Client : d # c => client'[d] = client[d]
      BY <1>2, <3>5
    <3>7. QED
      BY <3>3, <3>4, <3>5, <3>6
  <2>2. CASE l # None
    <3>1. client' = Seated(c, "Two", l, "InLobby") /\ l \in Lobby /\ "Two" \in Player
      BY <1>1, <1>3, <2>2 DEF Player
    <3> HIDE DEF l
    <3>2. QED
      BY <1>2, <2>2, <3>1, SeatedFacts
  <2>3. QED
    BY <2>1, <2>2
<1> USE <1>1
<1>6. TypeOK'
  BY <1>2, <1>4, <1>5 DEF TypeOK
<1>7. NewIsFresh' /\ JoinedOnce'
  <2> HIDE DEF l
  <2>1. QED
    BY <1>3, <1>4, NoneIsNobody DEF NewIsFresh, JoinedOnce
<1>8. \A d \in Client : d = c \/ client'[d] = client[d]
  BY <1>5
<1>9. AskersWait'
  BY <1>2, <1>5, <1>8 DEF AskersWait
<1>10. OfferedOnce'
  <2>1. open_lobby # None => open_lobby \in Lobby /\ open_lobby # l
    BY <1>3 DEF TypeOK, ListedByKind
  <2> HIDE DEF l
  <2>2. QED
    BY <1>4, <2>1 DEF OfferedOnce
<1>11. ListedByKind' /\ UpdateIsCurrent'
  BY DEF ListedByKind, UpdateIsCurrent
<1>12. PlayersAreHosts'
  <2> HIDE DEF l
  <2>1. QED
    BY <1>3, <1>5, <1>8 DEF PlayersAreHosts, Stopped
<1>13. SeatsAgree'
  <2> HIDE DEF l
  <2> SUFFICES ASSUME NEW d \in Client, NEW k, k = client'[d].lobby,
                      client'[d].lobby_state # "Idle"
               PROVE  /\ client'[d].player = "One" => lobby[k].host = d
                      /\ client'[d].player = "Two" /\ lobby[k].kind = "Public" =>
                           \/ lobby[k].joined = d
                           \/ Has(lobby_mailbox'[k], Joined(d))
                           \/ lobby[k].joined = None /\ ~Running(k)
    BY DEF SeatsAgree, Running, Joined
  <2>1. CASE d = c
    BY <1>3, <1>5, <2>1
  <2>2. CASE d # c
    <3>1. client'[d] = client[d] /\ k \in Lobby
      BY <1>5, <2>2, ClientStates DEF TypeOK
    <3>2. QED
      BY <1>4, <3>1 DEF SeatsAgree, Joined
  <2>3. QED
    BY <2>1, <2>2
<1>14. NobodyLeftBehind'
  <2>1. l # None /\ lobby[l].status = "Left" /\ lobby[l].joined = c
            => Has(client_mailbox[c], Reset)
    BY <1>2 DEF RejoinersAreReset
  <2> HIDE DEF l
  <2>2. QED
    BY <1>3, <1>5, <1>8, <2>1 DEF NobodyLeftBehind
<1>15. LeftIsUnlisted'
  BY <1>2 DEF LeftIsUnlisted, CloseMsg
<1>16. RejoinersAreReset'
  BY <1>2 DEF RejoinersAreReset
<1>17. QED
  BY <1>6, <1>7, <1>9, <1>10, <1>11, <1>12, <1>13, <1>14, <1>15, <1>16

LEMMA CloseLobbyMsgKeepsInv == MatchmakingInv /\ CloseLobbyMsg => MatchmakingInv'
<1> SUFFICES ASSUME MatchmakingInv, CloseLobbyMsg
             PROVE  MatchmakingInv'
  OBVIOUS
<1> USE DEF MatchmakingInv
<1> DEFINE g == Head(lm_mailbox).game_id
<1>1. /\ Handle("CloseLobbyMsg")
      /\ open_lobby' = IF open_lobby # None /\ lobby[open_lobby].game_id = g THEN None
                       ELSE open_lobby
      /\ open_lobby_map' = [open_lobby_map EXCEPT ![g] = None]
      /\ closed_lobby_map' = closed_lobby_map \ {g}
      /\ update' = (open_lobby' # None)
      /\ UNCHANGED <<lobby, lobby_mailbox, client, client_mailbox, battle_reqs>>
  BY DEF CloseLobbyMsg, lobbyVars, clientVars
<1>2. /\ lm_mailbox' \in Seq(LobbyManagerMsg) /\ g \in GameId
      /\ \A T : HasIn(lm_mailbox', T) => HasIn(lm_mailbox, T)
      /\ \A T : AtMostOne(lm_mailbox, T) => AtMostOne(lm_mailbox', T)
      /\ \A h : h # g /\ Has(lm_mailbox, CloseMsg(h)) => Has(lm_mailbox', CloseMsg(h))
      /\ \A h, x : h # g /\ Ahead(lm_mailbox', x, CloseMsg(h)) =>
             Ahead(lm_mailbox, x, CloseMsg(h))
  <2>1. /\ Head(lm_mailbox) \in LobbyManagerMsg /\ Head(lm_mailbox).type = "CloseLobbyMsg"
        /\ lm_mailbox' \in Seq(LobbyManagerMsg)
        /\ \A x : Has(lm_mailbox, x) <=> Head(lm_mailbox) = x \/ Has(lm_mailbox', x)
        /\ \A T : HasIn(lm_mailbox, T) <=> Head(lm_mailbox) \in T \/ HasIn(lm_mailbox', T)
        /\ \A T : AtMostOne(lm_mailbox, T) => AtMostOne(lm_mailbox', T)
        /\ \A x, y : Ahead(lm_mailbox', x, y) /\ Head(lm_mailbox) # y =>
             Ahead(lm_mailbox, x, y)
    BY <1>1, HeadOfLobbyManager
  <2>2. g \in GameId
    BY <2>1, MessageKinds
  <2>3. \A h : h # g => Head(lm_mailbox) # CloseMsg(h)
    BY DEF CloseMsg
  <2> HIDE DEF g
  <2>4. QED
    BY <2>1, <2>2, <2>3
<1> HIDE DEF g
<1> USE <1>1
<1>3. /\ open_lobby' # None => open_lobby' = open_lobby /\ lobby[open_lobby].game_id # g
      /\ open_lobby' \in Lobby \cup {None}
      /\ open_lobby_map' \in [GameId -> Lobby \cup {None}] /\ open_lobby_map'[g] = None
      /\ \A h \in GameId : h # g => open_lobby_map'[h] = open_lobby_map[h]
  BY <1>2 DEF TypeOK
<1>4. TypeOK' /\ UpdateIsCurrent'
  BY <1>2, <1>3 DEF TypeOK, UpdateIsCurrent
<1>5. NewIsFresh' /\ JoinedOnce' /\ AskersWait' /\ PlayersAreHosts' /\ SeatsAgree'
  BY <1>2 DEF NewIsFresh, JoinedOnce, AskersWait, PlayersAreHosts, SeatsAgree, Running, Stopped
<1>6. ListedByKind' /\ OfferedOnce' /\ NobodyLeftBehind'
  BY <1>3 DEF ListedByKind, OfferedOnce, NobodyLeftBehind
<1>7. LeftIsUnlisted'
  <2> SUFFICES ASSUME NEW l \in Lobby, lobby[l].status = "Left",
                      ~Has(lm_mailbox', CloseMsg(lobby[l].game_id))
               PROVE  open_lobby' # l /\ \A h \in GameId : open_lobby_map'[h] # l
    BY DEF LeftIsUnlisted, CloseMsg
  <2>1. CASE lobby[l].game_id = g
    BY <1>3, <2>1, NoneIsNobody DEF ListedByKind
  <2>2. CASE lobby[l].game_id # g
    <3>1. ~Has(lm_mailbox, CloseMsg(lobby[l].game_id))
      BY <1>2, <2>2
    <3>2. open_lobby # l /\ \A h \in GameId : open_lobby_map[h] # l
      BY <3>1 DEF LeftIsUnlisted, CloseMsg
    <3>3. QED
      BY <1>3, <3>2, NoneIsNobody
  <2>3. QED
    BY <2>1, <2>2
<1>8. RejoinersAreReset'
  BY <1>2, <1>3 DEF RejoinersAreReset
<1>9. QED
  BY <1>4, <1>5, <1>6, <1>7, <1>8

LEMMA LobbyManagerKeepsInv == MatchmakingInv /\ LobbyManagerStep => MatchmakingInv'
<1> SUFFICES ASSUME MatchmakingInv, LobbyManagerStep
             PROVE  MatchmakingInv'
  OBVIOUS
<1> DEFINE c == Head(lm_mailbox).from
<1>1. ASSUME NEW type \in {"NewLobby", "BattleReq"}, Handle(type)
      PROVE  c \in Client
  <2>1. Head(lm_mailbox) \in LobbyManagerMsg /\ Head(lm_mailbox).type = type
    BY <1>1, HeadOfLobbyManager DEF MatchmakingInv
  <2>2. QED
    BY <2>1, MessageKinds
<1>2. CASE CreatePublic
  <2>1. PICK l \in Lobby, g \in GameId :
            /\ Handle("NewLobby") /\ Created(l, g, c, "Public")
            /\ open_lobby' = l /\ update' = TRUE /\ client' = Seated(c, "One", l, "InLobby")
            /\ UNCHANGED <<open_lobby_map, closed_lobby_map, lobby_mailbox, client_mailbox,
                           battle_reqs>>
    BY <1>2 DEF CreatePublic
  <2>2. c \in Client /\ "Public" \in LobbyKind /\ "NewLobby" \in {"NewLobby", "BattleReq"}
    BY <1>1, <2>1 DEF LobbyKind
  <2>3. QED
    BY <2>1, <2>2, CreateKeepsInv
<1>3. CASE CreatePrivate
  <2>1. PICK l \in Lobby, g \in GameId :
            /\ Handle("NewLobby") /\ Created(l, g, c, "Private")
            /\ open_lobby_map' = [open_lobby_map EXCEPT ![g] = l]
            /\ client' = Seated(c, "One", l, "InLobby")
            /\ UNCHANGED <<open_lobby, closed_lobby_map, update, lobby_mailbox,
                           client_mailbox, battle_reqs>>
    BY <1>3 DEF CreatePrivate
  <2>2. c \in Client /\ "Private" \in LobbyKind /\ "NewLobby" \in {"NewLobby", "BattleReq"}
    BY <1>1, <2>1 DEF LobbyKind
  <2>3. QED
    BY <2>1, <2>2, CreateKeepsInv
<1>4. CASE CreateBattle
  <2>1. PICK l \in Lobby, g \in GameId :
            /\ Handle("BattleReq") /\ Created(l, g, c, "Private")
            /\ open_lobby_map' = [open_lobby_map EXCEPT ![g] = l]
            /\ client_mailbox' = SentToClients(<<c>>, Invitation(l))
            /\ UNCHANGED <<open_lobby, closed_lobby_map, update, lobby_mailbox, client,
                           battle_reqs>>
    BY <1>4 DEF CreateBattle, Invitation
  <2>2. c \in Client /\ "Private" \in LobbyKind /\ "BattleReq" \in {"NewLobby", "BattleReq"}
    BY <1>1, <2>1 DEF LobbyKind
  <2>3. QED
    BY <2>1, <2>2, CreateKeepsInv
<1>5. QED
  BY <1>2, <1>3, <1>4, MatchPublicKeepsInv, JoinPrivateKeepsInv, CloseLobbyMsgKeepsInv
     DEF LobbyManagerStep

-------------------------------------------------------------------------------
(* What a lobby does.                                                         *)

\* A lobby ends, and resets everybody it has let in.
LEMMA StopKeepsInv ==
    ASSUME MatchmakingInv, NEW l \in Lobby, Running(l),
           NEW reason \in {"Left", "TimedOut"}, Stop(l, reason),
           IF reason = "Left" THEN lm_mailbox' = Append(lm_mailbox, CloseMsg(lobby[l].game_id))
           ELSE UNCHANGED lm_mailbox,
           NEW cs, NEW n \in Nat, DOMAIN cs = 1..n,
           \A c \in Client : (\E k \in DOMAIN Occupants(l) : Occupants(l)[k] = c) =>
               \E k \in DOMAIN cs : cs[k] = c,
           client_mailbox' = SentToClients(cs, Reset),
           UNCHANGED <<open_lobby, open_lobby_map, closed_lobby_map, update, client, battle_reqs>>
    PROVE  MatchmakingInv'
<1> USE DEF MatchmakingInv
<1>0. /\ TypeOK /\ lobby[l].status = "Running" /\ lobby[l].game_id \in GameId
      /\ Reset \in ClientMsg
  BY MessageTypes DEF Running, NewIsFresh
<1>1. Delivered(client_mailbox', cs, Reset)
  BY <1>0, SentToClientsFacts
<1>2. \A c \in Client : client[c].up /\ (lobby[l].host = c \/ lobby[l].joined = c) =>
          Addressed(cs, c)
  <2>1. ASSUME NEW c \in Client, lobby[l].host = c \/ lobby[l].joined = c
        PROVE  \E k \in DOMAIN Occupants(l) : Occupants(l)[k] = c
    <3>1. c = lobby[l].host \/ (lobby[l].phase # "OnePlayer" /\ c = lobby[l].joined)
      BY <2>1, NoneIsNobody DEF JoinedOnce
    <3>2. QED
      BY <3>1, OccupantsFacts
  <2>2. QED
    BY <2>1 DEF Addressed
<1>3. /\ client_mailbox' \in [Client -> Seq(ClientMsg)]
      /\ \A c \in Client : ~client[c].up => client_mailbox'[c] = client_mailbox[c]
      /\ \A c \in Client : Has(client_mailbox[c], Reset) => Has(client_mailbox'[c], Reset)
      /\ \A c \in Client : client[c].up /\ (lobby[l].host = c \/ lobby[l].joined = c) =>
           Has(client_mailbox'[c], Reset)
      /\ \A c \in Client, k \in Lobby :
           Has(client_mailbox'[c], Invitation(k)) => Has(client_mailbox[c], Invitation(k))
      /\ \A c \in Client, k \in Lobby : Follows(client_mailbox[c], Invitation(k), Reset) =>
           Follows(client_mailbox'[c], Invitation(k), Reset)
      /\ \A c \in Client : client[c].up /\ lobby[l].host = c =>
           Follows(client_mailbox'[c], Invitation(l), Reset)
  <2>1. \A k : Invitation(k) # Reset
    BY DEF Invitation, Reset
  <2>2. QED
    BY <1>1, <1>2, <2>1 DEF Delivered
<1>4. /\ lobby' \in [Lobby -> LobbyType] /\ lobby'[l].status = reason
      /\ \A k \in Lobby : /\ lobby'[k].kind = lobby[k].kind /\ lobby'[k].joined = lobby[k].joined
                          /\ lobby'[k].host = lobby[k].host /\ lobby'[k].phase = lobby[k].phase
                          /\ lobby'[k].game_id = lobby[k].game_id
                          /\ k # l => lobby'[k] = lobby[k]
  <2>1. lobby \in [Lobby -> LobbyType] /\ lobby' = [lobby EXCEPT ![l].status = reason]
    BY <1>0 DEF TypeOK, Stop
  <2> DEFINE r == [lobby[l] EXCEPT !.status = reason]
  <2>2. /\ r \in LobbyType /\ r.status = reason
        /\ r.kind = lobby[l].kind /\ r.joined = lobby[l].joined /\ r.host = lobby[l].host
        /\ r.phase = lobby[l].phase /\ r.game_id = lobby[l].game_id
    BY <2>1 DEF LobbyType
  <2>3. lobby' = [lobby EXCEPT ![l] = r]
    BY <2>1
  <2> HIDE DEF r
  <2>4. \A k \in Lobby : lobby'[k] = IF k = l THEN r ELSE lobby[k]
    BY <2>1, <2>3
  <2>5. QED
    BY <2>1, <2>2, <2>3, <2>4
<1>5. /\ lobby_mailbox' \in [Lobby -> Seq(LobbyMsg)] /\ lobby_mailbox'[l] = <<>>
      /\ \A k \in Lobby : k # l => lobby_mailbox'[k] = lobby_mailbox[k]
  BY EmptySeq DEF Stop, TypeOK
<1>6. /\ lm_mailbox' \in Seq(LobbyManagerMsg)
      /\ \A d \in Client : HasIn(lm_mailbox', RequestsOf(d)) <=> HasIn(lm_mailbox, RequestsOf(d))
      /\ \A d \in Client :
             AtMostOne(lm_mailbox, RequestsOf(d)) => AtMostOne(lm_mailbox', RequestsOf(d))
      /\ \A g : Has(lm_mailbox, CloseMsg(g)) => Has(lm_mailbox', CloseMsg(g))
      /\ reason = "Left" => Has(lm_mailbox', CloseMsg(lobby[l].game_id))
      /\ \A d, g, y : Ahead(lm_mailbox', Join(d, g), y) => Ahead(lm_mailbox, Join(d, g), y)
  <2>1. CASE reason = "TimedOut"
    BY <1>0, <2>1 DEF TypeOK
  <2>2. CASE reason = "Left"
    <3>1. PICK m \in LobbyManagerMsg : m = CloseMsg(lobby[l].game_id)
      BY <1>0, MessageTypes
    <3>2. /\ lm_mailbox' \in Seq(LobbyManagerMsg)
          /\ \A x : Has(lm_mailbox', x) <=> Has(lm_mailbox, x) \/ x = m
          /\ \A T : HasIn(lm_mailbox', T) <=> HasIn(lm_mailbox, T) \/ m \in T
          /\ \A T : AtMostOne(lm_mailbox, T) /\ (m \notin T \/ ~HasIn(lm_mailbox, T))
                        => AtMostOne(lm_mailbox', T)
          /\ \A x, y : Ahead(lm_mailbox', x, y) =>
                Ahead(lm_mailbox, x, y) \/ (m = x /\ ~Has(lm_mailbox, y))
      <4>1. lm_mailbox \in Seq(LobbyManagerMsg) /\ lm_mailbox' = Append(lm_mailbox, m)
        BY <1>0, <2>2, <3>1 DEF TypeOK
      <4>2. QED
        BY <4>1, AppendFacts
    <3>3. \A d \in Client : m \notin RequestsOf(d)
      BY <3>1 DEF RequestsOf, CloseMsg
    <3>4. \A d, g : m # Join(d, g)
      BY <3>1 DEF Join, CloseMsg
    <3>5. ASSUME NEW d, NEW g, NEW y, Ahead(lm_mailbox', Join(d, g), y)
          PROVE  Ahead(lm_mailbox, Join(d, g), y)
      <4>1. PICK x : x = Join(d, g)
        OBVIOUS
      <4>2. m # x
        BY <3>4, <4>1
      <4>3. QED
        BY <3>2, <3>5, <4>1, <4>2
    <3>6. \A d \in Client :
              /\ HasIn(lm_mailbox', RequestsOf(d)) <=> HasIn(lm_mailbox, RequestsOf(d))
              /\ AtMostOne(lm_mailbox, RequestsOf(d)) => AtMostOne(lm_mailbox', RequestsOf(d))
      BY <3>2, <3>3
    <3>7. QED
      BY <3>1, <3>2, <3>5, <3>6
  <2>3. QED
    BY <2>1, <2>2
<1>7. /\ UNCHANGED <<open_lobby, open_lobby_map, closed_lobby_map, update, client, battle_reqs>>
      /\ \A k \in Lobby : lobby'[k].status # lobby[k].status => k = l
  BY <1>4
<1> USE <1>7
<1>8. TypeOK'
  BY <1>0, <1>3, <1>4, <1>5, <1>6 DEF TypeOK
<1>9. NewIsFresh' /\ JoinedOnce'
  <2>1. ASSUME NEW k \in Lobby
        PROVE  /\ lobby_mailbox'[k] \in {lobby_mailbox[k], <<>>}
               /\ lobby'[k].status = "New" => k # l /\ lobby[k].status = "New"
               /\ lobby'[k].status # "New" => lobby[k].status # "New"
    BY <1>0, <1>4, <1>5
  <2>2. NewIsFresh'
    BY <1>4, <2>1 DEF NewIsFresh
  <2>3. JoinedOnce'
    BY <1>4, <2>1, EmptyBox DEF JoinedOnce
  <2>4. QED
    BY <2>2, <2>3
<1>10. AskersWait'
  BY <1>3, <1>6 DEF AskersWait
<1>11. ListedByKind' /\ UpdateIsCurrent'
  <2>1. \A k \in Lobby : lobby[k].status # "New" => lobby'[k].status # "New"
    BY <1>0, <1>4
  <2>2. /\ open_lobby # None => open_lobby \in Lobby
        /\ \A g \in GameId : open_lobby_map[g] # None => open_lobby_map[g] \in Lobby
    BY <1>0 DEF TypeOK
  <2>3. ListedByKind'
    BY <1>4, <2>1, <2>2 DEF ListedByKind
  <2>4. QED
    BY <2>3 DEF UpdateIsCurrent
<1>12. OfferedOnce'
  <2>1. SUFFICES ASSUME open_lobby # None
                 PROVE  /\ lobby'[open_lobby].kind = "Public"
                        /\ lobby'[open_lobby].joined = None
                        /\ \A d \in Client : ~Has(lobby_mailbox'[open_lobby], Joined(d))
    BY <1>7 DEF OfferedOnce, Joined, Has
  <2>2. /\ open_lobby \in Lobby
        /\ lobby[open_lobby].kind = "Public" /\ lobby[open_lobby].joined = None
        /\ \A d \in Client : ~Has(lobby_mailbox[open_lobby], Joined(d))
    BY <1>0, <2>1 DEF OfferedOnce, Joined, TypeOK
  <2>3. lobby'[open_lobby].kind = "Public" /\ lobby'[open_lobby].joined = None
    BY <1>4, <2>2
  <2>4. lobby_mailbox'[open_lobby] \in {lobby_mailbox[open_lobby], <<>>}
    BY <1>5, <2>2
  <2>5. QED
    BY <2>2, <2>3, <2>4, EmptyBox
<1>13. PlayersAreHosts'
  <2>1. ASSUME NEW d \in Client, client[d].lobby_state # "Idle"
        PROVE  lobby'[client[d].lobby].status # "New"
    <3>1. client[d].lobby \in Lobby /\ lobby[client[d].lobby].status # "New"
      BY <1>0, <2>1, ClientStates DEF TypeOK, PlayersAreHosts
    <3>2. QED
      BY <1>4, <3>1
  <2>2. ASSUME NEW d \in Client, NEW k \in Lobby, Has(client_mailbox'[d], Invitation(k))
        PROVE  lobby'[k].status # "New" /\ lobby'[k].host = d
    BY <1>3, <1>4, <2>2 DEF PlayersAreHosts
  <2>3. ASSUME NEW d \in Client, NEW k \in Lobby, lobby'[k].status \in {"Left", "TimedOut"}
        PROVE  Follows(client_mailbox'[d], Invitation(k), Reset)
    <3>1. CASE k # l
      BY <1>3, <1>4, <2>3, <3>1 DEF PlayersAreHosts, Stopped
    <3>2. CASE k = l /\ ~Has(client_mailbox[d], Invitation(l))
      BY <1>3, <3>2, NothingToFollow
    <3>3. CASE k = l /\ Has(client_mailbox[d], Invitation(l))
      <4>1. lobby[l].host = d /\ client[d].up
        BY <3>3, EmptyBox DEF PlayersAreHosts, AskersWait
      <4>2. QED
        BY <1>3, <3>3, <4>1
    <3>4. QED
      BY <3>1, <3>2, <3>3
  <2>4. QED
    BY <2>1, <2>2, <2>3 DEF PlayersAreHosts, Stopped
<1>14. ASSUME NEW d \in Client, client[d].lobby_state # "Idle"
       PROVE  client[d].lobby \in Lobby /\ client[d].up
  BY <1>0, <1>14, ClientStates DEF TypeOK
<1>15. SeatsAgree'
  <2> SUFFICES ASSUME NEW d \in Client, NEW k, k = client'[d].lobby,
                      client'[d].lobby_state # "Idle"
               PROVE  /\ client'[d].player = "One" => lobby'[k].host = d
                      /\ client'[d].player = "Two" /\ lobby'[k].kind = "Public" =>
                           \/ lobby'[k].joined = d
                           \/ Has(lobby_mailbox'[k], Joined(d))
                           \/ lobby'[k].joined = None /\ ~(lobby'[k].status = "Running")
    <3> HIDE <1>7 DEF MatchmakingInv
    <3>1. QED
      BY DEF SeatsAgree, Running, Joined
  <2>0. client' = client
    OBVIOUS
  <2>1. k \in Lobby
    BY <1>14, <2>0
  <2>5. /\ client[d].player = "One" => lobby[k].host = d
        /\ client[d].player = "Two" /\ lobby[k].kind = "Public" =>
             \/ lobby[k].joined = d
             \/ Has(lobby_mailbox[k], Joined(d))
             \/ lobby[k].joined = None /\ lobby[k].status # "Running"
    BY DEF SeatsAgree, Running, Joined
  <2>2. CASE k # l
    BY <1>4, <1>5, <2>1, <2>2, <2>5
  <2>3. CASE k = l
    <3>1. client[d].player = "One" => lobby'[k].host = d
      BY <1>4, <2>1, <2>5
    <3>2. ASSUME client[d].player = "Two", lobby'[k].kind = "Public"
          PROVE  lobby[l].joined = d \/ lobby[l].joined = None
      <4>1. lobby[l].joined = d \/ Has(lobby_mailbox[l], Joined(d))
        BY <1>0, <1>4, <2>3, <2>5, <3>2
      <4>2. Joined(d) \in Joins
        BY DEF Joined, Joins
      <4>3. QED
        BY <1>4, <2>3, <3>2, <4>1, <4>2, HasOfSet DEF JoinedOnce
    <3>3. QED
      BY <1>4, <2>3, <3>1, <3>2
  <2>4. QED
    BY <2>0, <2>2, <2>3
<1>16. NobodyLeftBehind'
  <2> SUFFICES ASSUME NEW d \in Client, NEW k, k = client[d].lobby,
                      client[d].lobby_state # "Idle",
                      \/ lobby'[k].status = "Left"
                      \/ lobby'[k].status = "TimedOut" /\ lobby'[k].kind = "Public",
                      IF client[d].player = "One" THEN lobby'[k].host = d
                      ELSE lobby'[k].joined = d
               PROVE  Has(client_mailbox'[d], Reset)
    BY DEF NobodyLeftBehind
  <2>1. k \in Lobby /\ client[d].up
    BY <1>14
  <2>2. CASE k # l
    BY <1>3, <1>4, <2>1, <2>2 DEF NobodyLeftBehind
  <2>3. CASE k = l
    BY <1>3, <1>4, <2>1, <2>3
  <2>4. QED
    BY <2>2, <2>3
<1>17. LeftIsUnlisted'
  <2> SUFFICES ASSUME NEW k \in Lobby, lobby'[k].status = "Left",
                      ~Has(lm_mailbox', CloseMsg(lobby'[k].game_id))
               PROVE  open_lobby # k /\ \A g \in GameId : open_lobby_map[g] # k
    BY DEF LeftIsUnlisted, CloseMsg
  <2>1. k # l
    BY <1>4, <1>6
  <2>2. lobby[k].status = "Left" /\ ~Has(lm_mailbox, CloseMsg(lobby[k].game_id))
    BY <1>4, <1>6, <2>1
  <2>3. QED
    BY <2>2 DEF LeftIsUnlisted, CloseMsg
<1>18. RejoinersAreReset'
  <2> SUFFICES ASSUME NEW d \in Client, NEW g \in GameId, NEW k, k = open_lobby_map[g],
                      k # None, lobby'[k].status = "Left", lobby'[k].joined = d,
                      Ahead(lm_mailbox', Join(d, g), CloseMsg(g))
               PROVE  Has(client_mailbox'[d], Reset)
    BY DEF RejoinersAreReset
  <2>1. k \in Lobby /\ Ahead(lm_mailbox, Join(d, g), CloseMsg(g))
    BY <1>0, <1>6 DEF TypeOK
  <2>2. CASE k # l
    BY <1>3, <1>4, <2>1, <2>2 DEF RejoinersAreReset
  <2>3. CASE k = l
    <3>1. Has(lm_mailbox, Join(d, g)) /\ Join(d, g) \in RequestsOf(d)
      BY <2>1 DEF Ahead, Has, Join, RequestsOf
    <3>2. client[d].up
      BY <3>1, HasOfSet DEF AskersWait
    <3>3. QED
      BY <1>3, <1>4, <2>1, <2>3, <3>2
  <2>4. QED
    BY <2>2, <2>3
<1>19. QED
  BY <1>8, <1>9, <1>10, <1>11, <1>12, <1>13, <1>15, <1>16, <1>17, <1>18

LEMMA TakeLeavingKeepsInv ==
    ASSUME MatchmakingInv, NEW l \in Lobby, TakeLeaving(l)
    PROVE  MatchmakingInv'
<1> DEFINE other == IF Head(lobby_mailbox[l]).sender = "One" THEN lobby[l].joined
                    ELSE lobby[l].host
           cs == IF lobby[l].phase = "OnePlayer" THEN Occupants(l)
                 ELSE <<other>> \o Occupants(l)
<1>1. /\ \E n \in Nat : DOMAIN cs = 1..n
      /\ \A c \in Client : (\E k \in DOMAIN Occupants(l) : Occupants(l)[k] = c) =>
             \E k \in DOMAIN cs : cs[k] = c
  <2>1. PICK who : who = other
    OBVIOUS
  <2>2. LET both == <<who>> \o Occupants(l) IN
        /\ \E n \in Nat : DOMAIN Occupants(l) = 1..n
        /\ \E n \in Nat : DOMAIN both = 1..n
        /\ \A c \in Client : (\E k \in DOMAIN Occupants(l) : Occupants(l)[k] = c) =>
             \E k \in DOMAIN both : both[k] = c
    BY OccupantsFacts
  <2> HIDE DEF other
  <2>3. QED
    BY <2>1, <2>2
<1>2. /\ client_mailbox' = SentToClients(cs, Reset) /\ Running(l) /\ Stop(l, "Left")
      /\ lm_mailbox' = Append(lm_mailbox, CloseMsg(lobby[l].game_id))
      /\ UNCHANGED <<open_lobby, open_lobby_map, closed_lobby_map, update, client, battle_reqs>>
  BY DEF TakeLeaving, LobbyReceive, CloseMsg
<1> HIDE DEF cs
<1>3. PICK n \in Nat : DOMAIN cs = 1..n
  BY <1>1
<1>4. "Left" \in {"Left", "TimedOut"}
  OBVIOUS
<1>5. QED
  BY <1>1, <1>2, <1>3, <1>4, StopKeepsInv

LEMMA TimeoutKeepsInv ==
    ASSUME MatchmakingInv, NEW l \in Lobby, ReadyTimeout(l) \/ IdleTimeout(l)
    PROVE  MatchmakingInv'
<1>1. /\ client_mailbox' = SentToClients(Occupants(l), Reset) /\ Running(l)
      /\ Stop(l, "TimedOut") /\ UNCHANGED lm_mailbox
      /\ UNCHANGED <<open_lobby, open_lobby_map, closed_lobby_map, update, client, battle_reqs>>
  BY DEF ReadyTimeout, IdleTimeout, lmVars
<1>2. PICK cs : cs = Occupants(l)
  OBVIOUS
<1>3. PICK n \in Nat : DOMAIN cs = 1..n
  BY <1>2, OccupantsFacts
<1>4. "TimedOut" \in {"Left", "TimedOut"} /\ "TimedOut" # "Left"
  OBVIOUS
<1>5. QED
  BY <1>1, <1>2, <1>3, <1>4, StopKeepsInv

\* The second player is let in: the host is pinged.
LEMMA TakeJoinedKeepsInv ==
    ASSUME MatchmakingInv, NEW l \in Lobby, TakeJoined(l)
    PROVE  MatchmakingInv'
<1> USE DEF MatchmakingInv
<1> DEFINE box == lobby_mailbox[l]
           c == Head(box).from
           r == [lobby[l] EXCEPT !.phase = "TwoPlayersWaitingForPing", !.joined = c]
<1>1. /\ LobbyReceive(l, "PlayerJoined") /\ lobby[l].status = "Running"
      /\ lobby_mailbox' = [lobby_mailbox EXCEPT ![l] = Tail(box)]
      /\ lobby' = IF lobby[l].phase = "OnePlayer"
             THEN [lobby EXCEPT ![l].phase = "TwoPlayersWaitingForPing", ![l].joined = c]
             ELSE lobby
      /\ UNCHANGED <<open_lobby, open_lobby_map, closed_lobby_map, lm_mailbox, update,
                     client, client_mailbox, battle_reqs>>
  BY DEF TakeJoined, LobbyReceive, Running, lmVars, clientVars
<1>2. /\ Head(box) = Joined(c) /\ Head(box) \in Joins /\ c \in Client
      /\ Tail(box) \in Seq(LobbyMsg)
      /\ \A x : Has(box, x) <=> Head(box) = x \/ Has(Tail(box), x)
      /\ \A T : HasIn(box, T) <=> Head(box) \in T \/ HasIn(Tail(box), T)
      /\ \A T : AtMostOne(box, T) =>
           AtMostOne(Tail(box), T) /\ (Head(box) \in T => ~HasIn(Tail(box), T))
  <2>1. /\ Head(box) \in LobbyMsg /\ Head(box).type = "PlayerJoined"
        /\ Tail(box) \in Seq(LobbyMsg)
        /\ \A x : Has(box, x) <=> Head(box) = x \/ Has(Tail(box), x)
        /\ \A T : HasIn(box, T) <=> Head(box) \in T \/ HasIn(Tail(box), T)
        /\ \A T : AtMostOne(box, T) =>
             AtMostOne(Tail(box), T) /\ (Head(box) \in T => ~HasIn(Tail(box), T))
    BY <1>1, HeadOfLobby
  <2>2. QED
    BY <2>1, MessageKinds
<1> HIDE DEF c
<1>3. /\ lobby' \in [Lobby -> LobbyType]
      /\ \A k \in Lobby : /\ lobby'[k].status = lobby[k].status
                          /\ lobby'[k].kind = lobby[k].kind /\ lobby'[k].host = lobby[k].host
                          /\ lobby'[k].game_id = lobby[k].game_id
                          /\ k # l => lobby'[k] = lobby[k]
      /\ lobby[l].phase # "OnePlayer" => lobby'[l] = lobby[l]
      /\ lobby[l].phase = "OnePlayer" =>
           lobby'[l].phase # "OnePlayer" /\ lobby'[l].joined = c
  <2>1. lobby \in [Lobby -> LobbyType]
    BY DEF TypeOK
  <2>2. /\ r \in LobbyType /\ r.status = lobby[l].status /\ r.kind = lobby[l].kind
        /\ r.host = lobby[l].host /\ r.game_id = lobby[l].game_id
        /\ r.phase = "TwoPlayersWaitingForPing" /\ r.joined = c
    BY <1>2, <2>1 DEF LobbyType
  <2>3. lobby' = IF lobby[l].phase = "OnePlayer" THEN [lobby EXCEPT ![l] = r] ELSE lobby
    BY <1>1, <2>1
  <2> HIDE DEF r
  <2>4. CASE lobby[l].phase = "OnePlayer"
    <3>1. /\ lobby' \in [Lobby -> LobbyType]
          /\ \A k \in Lobby : lobby'[k] = IF k = l THEN r ELSE lobby[k]
      BY <2>1, <2>2, <2>3, <2>4
    <3>2. QED
      BY <2>2, <2>4, <3>1
  <2>5. CASE lobby[l].phase # "OnePlayer"
    BY <2>1, <2>3, <2>5
  <2>6. QED
    BY <2>4, <2>5
<1>4. /\ lobby_mailbox' \in [Lobby -> Seq(LobbyMsg)] /\ lobby_mailbox'[l] = Tail(box)
      /\ \A k \in Lobby : k # l => lobby_mailbox'[k] = lobby_mailbox[k]
  BY <1>1, <1>2 DEF TypeOK
<1>5. lobby[l].kind = "Public" =>
          /\ AtMostOne(Tail(box), Joins) /\ ~HasIn(Tail(box), Joins)
          /\ lobby[l].joined = None /\ lobby[l].phase = "OnePlayer"
  <2>1. lobby[l].kind = "Public" =>
            AtMostOne(box, Joins) /\ (lobby[l].joined # None => ~HasIn(box, Joins))
    BY DEF JoinedOnce
  <2>2. HasIn(box, Joins)
    BY <1>2
  <2>3. lobby[l].phase = "OnePlayer" <=> lobby[l].joined = None
    BY DEF JoinedOnce
  <2> HIDE DEF box
  <2>4. QED
    BY <1>2, <2>1, <2>2, <2>3
<1>6. open_lobby # l
  <2>1. Has(box, Joined(c))
    BY <1>2
  <2>2. QED
    BY <1>2, <2>1, NoneIsNobody DEF OfferedOnce, Joined
<1> HIDE DEF box, r
<1>7. UNCHANGED <<open_lobby, open_lobby_map, closed_lobby_map, lm_mailbox, update,
                  client, client_mailbox, battle_reqs>>
  BY <1>1
<1> USE <1>7
<1>8. TypeOK'
  BY <1>3, <1>4 DEF TypeOK
<1>9. NewIsFresh'
  BY <1>1, <1>3, <1>4 DEF NewIsFresh
<1>10. JoinedOnce'
  <2>1. c # None
    BY <1>2, NoneIsNobody
  <2>2. ASSUME NEW k \in Lobby
        PROVE  /\ lobby'[k].phase = "OnePlayer" <=> lobby'[k].joined = None
               /\ lobby'[k].kind = "Public" =>
                    /\ AtMostOne(lobby_mailbox'[k], Joins)
                    /\ lobby'[k].joined # None => ~HasIn(lobby_mailbox'[k], Joins)
    <3>1. CASE k # l
      BY <1>3, <1>4, <3>1 DEF JoinedOnce
    <3>2. CASE k = l
      <4>1. lobby'[l].phase = "OnePlayer" <=> lobby'[l].joined = None
        BY <1>3, <2>1 DEF JoinedOnce
      <4>2. QED
        BY <1>3, <1>4, <1>5, <3>2, <4>1
    <3>3. QED
      BY <3>1, <3>2
  <2>3. QED
    BY <2>2 DEF JoinedOnce
<1>11. AskersWait' /\ UpdateIsCurrent'
  BY DEF AskersWait, UpdateIsCurrent
<1>12. ListedByKind' /\ OfferedOnce'
  <2>1. /\ open_lobby # None => open_lobby \in Lobby
        /\ \A g \in GameId : open_lobby_map[g] # None => open_lobby_map[g] \in Lobby
    BY DEF TypeOK
  <2>2. ListedByKind'
    BY <1>3, <2>1 DEF ListedByKind
  <2>3. OfferedOnce'
    BY <1>3, <1>4, <1>6, <2>1 DEF OfferedOnce
  <2>4. QED
    BY <2>2, <2>3
<1>13. ASSUME NEW d \in Client, client[d].lobby_state # "Idle"
       PROVE  client[d].lobby \in Lobby
  BY <1>13, ClientStates DEF TypeOK
<1>14. PlayersAreHosts'
  BY <1>3, <1>13 DEF PlayersAreHosts, Stopped
<1>15. SeatsAgree'
  <2> SUFFICES ASSUME NEW d \in Client, NEW k, k = client'[d].lobby,
                      client'[d].lobby_state # "Idle"
               PROVE  /\ client'[d].player = "One" => lobby'[k].host = d
                      /\ client'[d].player = "Two" /\ lobby'[k].kind = "Public" =>
                           \/ lobby'[k].joined = d
                           \/ Has(lobby_mailbox'[k], Joined(d))
                           \/ lobby'[k].joined = None /\ ~(lobby'[k].status = "Running")
    <3> HIDE <1>7 DEF MatchmakingInv
    <3>1. QED
      BY DEF SeatsAgree, Running, Joined
  <2>1. client' = client /\ k \in Lobby
    BY <1>13
  <2>2. /\ client[d].player = "One" => lobby[k].host = d
        /\ client[d].player = "Two" /\ lobby[k].kind = "Public" =>
             \/ lobby[k].joined = d
             \/ Has(lobby_mailbox[k], Joined(d))
             \/ lobby[k].joined = None /\ lobby[k].status # "Running"
    BY DEF SeatsAgree, Running, Joined
  <2>3. CASE k # l
    BY <1>3, <1>4, <2>1, <2>2, <2>3
  <2>4. CASE k = l
    <3>1. d # None /\ (Joined(d) = Joined(c) => d = c)
      BY NoneIsNobody DEF Joined
    <3>2. Has(lobby_mailbox[l], Joined(d)) => d = c \/ Has(lobby_mailbox'[l], Joined(d))
      BY <1>2, <1>4, <3>1 DEF box
    <3>3. QED
      BY <1>1, <1>3, <1>5, <2>1, <2>2, <2>4, <3>1, <3>2
  <2>5. QED
    BY <2>3, <2>4
<1>16. NobodyLeftBehind'
  <2> SUFFICES ASSUME NEW d \in Client, NEW k, k = client'[d].lobby,
                      client'[d].lobby_state # "Idle",
                      \/ lobby'[k].status = "Left"
                      \/ lobby'[k].status = "TimedOut" /\ lobby'[k].kind = "Public",
                      IF client'[d].player = "One" THEN lobby'[k].host = d
                      ELSE lobby'[k].joined = d
               PROVE  Has(client_mailbox'[d], Reset)
    <3> HIDE <1>7 DEF MatchmakingInv
    <3>1. QED
      BY DEF NobodyLeftBehind
  <2>1. client' = client /\ k \in Lobby /\ k # l
    BY <1>1, <1>3, <1>13
  <2>2. QED
    BY <1>3, <2>1 DEF NobodyLeftBehind
<1>17. LeftIsUnlisted'
  BY <1>3 DEF LeftIsUnlisted
<1>18. RejoinersAreReset'
  <2> SUFFICES ASSUME NEW d \in Client, NEW g \in GameId, NEW k, k = open_lobby_map[g],
                      k # None, lobby'[k].status = "Left", lobby'[k].joined = d,
                      Ahead(lm_mailbox, Join(d, g), CloseMsg(g))
               PROVE  Has(client_mailbox[d], Reset)
    BY DEF RejoinersAreReset
  <2>1. k \in Lobby
    BY DEF TypeOK
  <2>2. lobby'[k] = lobby[k]
    BY <1>1, <1>3, <2>1
  <2>3. QED
    BY <2>2 DEF RejoinersAreReset
<1>19. QED
  BY <1>8, <1>9, <1>10, <1>11, <1>12, <1>14, <1>15, <1>16, <1>17, <1>18

\* The host is there: the second player is told.
LEMMA TakePongKeepsInv ==
    ASSUME MatchmakingInv, NEW l \in Lobby, TakePong(l)
    PROVE  MatchmakingInv'
<1> USE DEF MatchmakingInv
<1> DEFINE box == lobby_mailbox[l]
           ready == [type |-> "LobbyRequestResponseReady"]
<1>1. /\ LobbyReceive(l, "ReceivedReadyForGamePong") /\ lobby[l].status = "Running"
      /\ lobby_mailbox' = [lobby_mailbox EXCEPT ![l] = Tail(box)]
      /\ \/ /\ lobby' = [lobby EXCEPT ![l].phase = "TwoPlayers"]
            /\ lobby[l].phase = "TwoPlayersWaitingForPing"
            /\ client_mailbox' = SentToClients(<<lobby[l].joined>>, ready)
         \/ UNCHANGED <<lobby, client_mailbox>>
      /\ UNCHANGED <<open_lobby, open_lobby_map, closed_lobby_map, lm_mailbox, update,
                     client, battle_reqs>>
  <2>1. LobbyReceive(l, "ReceivedReadyForGamePong") /\ lobby[l].status = "Running"
    BY DEF TakePong, LobbyReceive, Running
  <2>2. /\ lobby_mailbox' = [lobby_mailbox EXCEPT ![l] = Tail(box)]
        /\ UNCHANGED <<open_lobby, open_lobby_map, closed_lobby_map, lm_mailbox, update,
                       client, battle_reqs>>
    BY DEF TakePong, lmVars
  <2>3. \/ /\ lobby' = [lobby EXCEPT ![l].phase = "TwoPlayers"]
           /\ lobby[l].phase = "TwoPlayersWaitingForPing"
           /\ client_mailbox' = SentToClients(<<lobby[l].joined>>, ready)
        \/ UNCHANGED <<lobby, client_mailbox>>
    <3>1. CASE lobby[l].phase = "TwoPlayersWaitingForPing"
      BY <3>1, Zenon DEF TakePong
    <3>2. CASE lobby[l].phase # "TwoPlayersWaitingForPing"
      BY <3>2, Zenon DEF TakePong
    <3>3. QED
      BY <3>1, <3>2
  <2>4. QED
    BY <2>1, <2>2, <2>3
<1>2. SameJoins
  <2>1. /\ Head(box) \in LobbyMsg /\ Head(box).type = "ReceivedReadyForGamePong"
        /\ Tail(box) \in Seq(LobbyMsg)
        /\ \A x : Has(box, x) <=> Head(box) = x \/ Has(Tail(box), x)
        /\ \A T : HasIn(box, T) <=> Head(box) \in T \/ HasIn(Tail(box), T)
        /\ \A T : AtMostOne(box, T) =>
             AtMostOne(Tail(box), T) /\ (Head(box) \in T => ~HasIn(Tail(box), T))
    BY <1>1, HeadOfLobby
  <2>2. Head(box) \notin Joins /\ \A d : Head(box) # Joined(d)
    BY <2>1 DEF Joins, Joined
  <2> HIDE DEF box
  <2>3. /\ lobby_mailbox' \in [Lobby -> Seq(LobbyMsg)] /\ lobby_mailbox'[l] = Tail(box)
        /\ \A k \in Lobby : k # l => lobby_mailbox'[k] = lobby_mailbox[k]
    BY <1>1, <2>1 DEF TypeOK
  <2>4. lobby_mailbox[l] = box
    BY DEF box
  <2>5. QED
    BY <1>1, <2>1, <2>2, <2>3, <2>4 DEF SameJoins
<1>3. /\ lobby' \in [Lobby -> LobbyType]
      /\ \A k \in Lobby : /\ lobby'[k].status = lobby[k].status
                          /\ lobby'[k].kind = lobby[k].kind /\ lobby'[k].host = lobby[k].host
                          /\ lobby'[k].game_id = lobby[k].game_id
                          /\ lobby'[k].joined = lobby[k].joined
                          /\ lobby'[k].phase = "OnePlayer" <=> lobby[k].phase = "OnePlayer"
                          /\ k # l => lobby'[k] = lobby[k]
  <2> DEFINE r == [lobby[l] EXCEPT !.phase = "TwoPlayers"]
  <2>1. lobby \in [Lobby -> LobbyType]
    BY DEF TypeOK
  <2>2. /\ r \in LobbyType /\ r.status = lobby[l].status /\ r.kind = lobby[l].kind
        /\ r.host = lobby[l].host /\ r.game_id = lobby[l].game_id
        /\ r.joined = lobby[l].joined /\ r.phase = "TwoPlayers"
    BY <2>1 DEF LobbyType
  <2>3. \/ lobby' = [lobby EXCEPT ![l] = r] /\ lobby[l].phase = "TwoPlayersWaitingForPing"
        \/ lobby' = lobby
    BY <1>1, <2>1
  <2> HIDE DEF r
  <2>4. CASE lobby' = [lobby EXCEPT ![l] = r] /\ lobby[l].phase = "TwoPlayersWaitingForPing"
    <3>1. /\ lobby' \in [Lobby -> LobbyType]
          /\ \A k \in Lobby : lobby'[k] = IF k = l THEN r ELSE lobby[k]
      BY <2>1, <2>2, <2>4
    <3>2. QED
      BY <2>2, <2>4, <3>1
  <2>5. CASE lobby' = lobby
    BY <2>1, <2>5
  <2>6. QED
    BY <2>3, <2>4, <2>5
<1>4. /\ client_mailbox' \in [Client -> Seq(ClientMsg)]
      /\ \A c \in Client : ~client[c].up => client_mailbox'[c] = client_mailbox[c]
      /\ \A c \in Client : Has(client_mailbox[c], Reset) => Has(client_mailbox'[c], Reset)
      /\ \A c \in Client, k \in Lobby :
           Has(client_mailbox'[c], Invitation(k)) => Has(client_mailbox[c], Invitation(k))
      /\ \A c \in Client, k \in Lobby : Follows(client_mailbox[c], Invitation(k), Reset) =>
           Follows(client_mailbox'[c], Invitation(k), Reset)
  <2>1. CASE client_mailbox' = SentToClients(<<lobby[l].joined>>, ready)
    <3>1. PICK cs : cs = <<lobby[l].joined>>
      OBVIOUS
    <3>2. ready \in ClientMsg /\ 1 \in Nat /\ DOMAIN cs = 1..1
      BY <3>1, MessageTypes
    <3>3. client_mailbox' = SentToClients(cs, ready)
      BY <2>1, <3>1
    <3> HIDE DEF ready
    <3>4. Delivered(client_mailbox', cs, ready)
      BY <3>2, <3>3, SentToClientsFacts
    <3>5. \A k : Invitation(k) # ready
      BY DEF Invitation, ready
    <3>6. QED
      BY <3>4, <3>5 DEF Delivered
  <2>2. CASE client_mailbox' = client_mailbox
    BY <2>2 DEF TypeOK
  <2>3. QED
    BY <1>1, <2>1, <2>2
<1>5. UNCHANGED <<open_lobby, open_lobby_map, closed_lobby_map, lm_mailbox, update,
                  client, battle_reqs>>
  BY <1>1
<1> USE <1>5
<1>6. TypeOK'
  BY <1>2, <1>3, <1>4 DEF TypeOK, SameJoins
<1>7. NewIsFresh' /\ JoinedOnce'
  <2>1. ASSUME NEW k \in Lobby
        PROVE  /\ lobby[k].status = "New" =>
                    /\ lobby_mailbox'[k] = lobby_mailbox[k] /\ lobby'[k] = lobby[k]
               /\ HasIn(lobby_mailbox'[k], Joins) <=> HasIn(lobby_mailbox[k], Joins)
               /\ AtMostOne(lobby_mailbox[k], Joins) => AtMostOne(lobby_mailbox'[k], Joins)
    BY <1>1, <1>2, <1>3 DEF SameJoins
  <2>2. NewIsFresh'
    BY <1>3, <2>1 DEF NewIsFresh
  <2>3. JoinedOnce'
    BY <1>3, <2>1 DEF JoinedOnce
  <2>4. QED
    BY <2>2, <2>3
<1>8. AskersWait' /\ UpdateIsCurrent'
  BY <1>4 DEF AskersWait, UpdateIsCurrent
<1>9. ListedByKind' /\ OfferedOnce'
  <2>1. /\ open_lobby # None => open_lobby \in Lobby
        /\ \A g \in GameId : open_lobby_map[g] # None => open_lobby_map[g] \in Lobby
    BY DEF TypeOK
  <2>2. ListedByKind'
    BY <1>3, <2>1 DEF ListedByKind
  <2>3. OfferedOnce'
    <3>1. SUFFICES ASSUME open_lobby # None
                   PROVE  /\ lobby'[open_lobby].kind = "Public"
                          /\ lobby'[open_lobby].joined = None
                          /\ \A d \in Client : ~Has(lobby_mailbox'[open_lobby], Joined(d))
      BY <1>5 DEF OfferedOnce, Joined, Has
    <3>2. /\ open_lobby \in Lobby
          /\ lobby[open_lobby].kind = "Public" /\ lobby[open_lobby].joined = None
          /\ \A d \in Client : ~Has(lobby_mailbox[open_lobby], Joined(d))
      BY <2>1, <3>1 DEF OfferedOnce, Joined
    <3>3. lobby'[open_lobby].kind = "Public" /\ lobby'[open_lobby].joined = None
      BY <1>3, <3>2
    <3>4. \A d \in Client : ~Has(lobby_mailbox'[open_lobby], Joined(d))
      BY <1>2, <3>2 DEF SameJoins
    <3>5. QED
      BY <3>3, <3>4
  <2>4. QED
    BY <2>2, <2>3
<1>10. ASSUME NEW d \in Client, client[d].lobby_state # "Idle"
       PROVE  client[d].lobby \in Lobby
  BY <1>10, ClientStates DEF TypeOK
<1>11. PlayersAreHosts'
  <2>1. ASSUME NEW d \in Client, client'[d].lobby_state # "Idle"
        PROVE  lobby'[client'[d].lobby].status # "New"
    BY <1>3, <1>10, <2>1 DEF PlayersAreHosts
  <2>2. ASSUME NEW d \in Client, NEW k \in Lobby, Has(client_mailbox'[d], Invitation(k))
        PROVE  lobby'[k].status # "New" /\ lobby'[k].host = d
    BY <1>3, <1>4, <2>2 DEF PlayersAreHosts
  <2>3. ASSUME NEW d \in Client, NEW k \in Lobby, Stopped(k)'
        PROVE  Follows(client_mailbox'[d], Invitation(k), Reset)
    <3>1. Stopped(k)
      BY <1>3, <2>3 DEF Stopped
    <3>2. QED
      BY <1>4, <3>1 DEF PlayersAreHosts
  <2>4. QED
    BY <2>1, <2>2, <2>3 DEF PlayersAreHosts
<1>12. SeatsAgree'
  <2> SUFFICES ASSUME NEW d \in Client, NEW k, k = client'[d].lobby,
                      client'[d].lobby_state # "Idle"
               PROVE  /\ client'[d].player = "One" => lobby'[k].host = d
                      /\ client'[d].player = "Two" /\ lobby'[k].kind = "Public" =>
                           \/ lobby'[k].joined = d
                           \/ Has(lobby_mailbox'[k], Joined(d))
                           \/ lobby'[k].joined = None /\ ~(lobby'[k].status = "Running")
    <3> HIDE <1>5 DEF MatchmakingInv
    <3>1. QED
      BY DEF SeatsAgree, Running, Joined
  <2>1. client' = client /\ k \in Lobby
    BY <1>10
  <2>2. /\ client[d].player = "One" => lobby[k].host = d
        /\ client[d].player = "Two" /\ lobby[k].kind = "Public" =>
             \/ lobby[k].joined = d
             \/ Has(lobby_mailbox[k], Joined(d))
             \/ lobby[k].joined = None /\ lobby[k].status # "Running"
    BY DEF SeatsAgree, Running, Joined
  <2>3. QED
    BY <1>2, <1>3, <2>1, <2>2 DEF SameJoins
<1>13. NobodyLeftBehind'
  <2> SUFFICES ASSUME NEW d \in Client, NEW k, k = client'[d].lobby,
                      client'[d].lobby_state # "Idle",
                      \/ lobby'[k].status = "Left"
                      \/ lobby'[k].status = "TimedOut" /\ lobby'[k].kind = "Public",
                      IF client'[d].player = "One" THEN lobby'[k].host = d
                      ELSE lobby'[k].joined = d
               PROVE  Has(client_mailbox'[d], Reset)
    <3> HIDE <1>5 DEF MatchmakingInv
    <3>1. QED
      BY DEF NobodyLeftBehind
  <2>1. client' = client /\ k \in Lobby
    BY <1>10
  <2>2. QED
    BY <1>3, <1>4, <2>1 DEF NobodyLeftBehind
<1>14. LeftIsUnlisted'
  BY <1>3 DEF LeftIsUnlisted
<1>15. RejoinersAreReset'
  <2> SUFFICES ASSUME NEW d \in Client, NEW g \in GameId, NEW k, k = open_lobby_map[g],
                      k # None, lobby'[k].status = "Left", lobby'[k].joined = d,
                      Ahead(lm_mailbox, Join(d, g), CloseMsg(g))
               PROVE  Has(client_mailbox'[d], Reset)
    BY DEF RejoinersAreReset
  <2>1. k \in Lobby
    BY DEF TypeOK
  <2>2. QED
    BY <1>3, <1>4, <2>1 DEF RejoinersAreReset
<1>16. QED
  BY <1>6, <1>7, <1>8, <1>9, <1>11, <1>12, <1>13, <1>14, <1>15

-------------------------------------------------------------------------------
(* The theorems.                                                              *)

LEMMA StutterKeepsInv == MatchmakingInv /\ UNCHANGED vars => MatchmakingInv'
<1> SUFFICES ASSUME MatchmakingInv, UNCHANGED vars
             PROVE  MatchmakingInv'
  OBVIOUS
<1> USE DEF MatchmakingInv, vars, lmVars, lobbyVars, clientVars
<1>1. TypeOK' /\ NewIsFresh' /\ AskersWait' /\ ListedByKind' /\ JoinedOnce'
  BY DEF TypeOK, NewIsFresh, AskersWait, ListedByKind, JoinedOnce
<1>2. PlayersAreHosts' /\ RejoinersAreReset'
  BY DEF PlayersAreHosts, RejoinersAreReset, Stopped
<1>3. OfferedOnce' /\ SeatsAgree' /\ NobodyLeftBehind' /\ LeftIsUnlisted' /\ UpdateIsCurrent'
  BY DEF OfferedOnce, SeatsAgree, NobodyLeftBehind, LeftIsUnlisted, UpdateIsCurrent, Running
<1>4. QED
  BY <1>1, <1>2, <1>3

\* The actors of matchmaking keep their invariant, however many clients, lobbies,
\* ids and messages there are (lobby_mgr.rs, lobby.rs, client_state.rs).
THEOREM MatchmakingInvariant == Spec => []MatchmakingInv
<1>1. MatchmakingInv /\ [Next]_vars => MatchmakingInv'
  <2> SUFFICES ASSUME MatchmakingInv, [Next]_vars
               PROVE  MatchmakingInv'
    OBVIOUS
  <2>1. CASE PlayerAsks
    BY <2>1, PlayerAsksKeepsInv
  <2>2. ASSUME NEW c \in Client, ClientTakes(c) \/ ForwardBattleReq(c)
        PROVE  MatchmakingInv'
    BY <2>2, ClientTakesKeepsInv, ForwardKeepsInv
  <2>3. CASE LobbyManagerStep
    BY <2>3, LobbyManagerKeepsInv
  <2>4. ASSUME NEW l \in Lobby, LobbyTakes(l) \/ ReadyTimeout(l) \/ IdleTimeout(l)
        PROVE  MatchmakingInv'
    BY <2>4, TakeLeavingKeepsInv, TakeJoinedKeepsInv, TakePongKeepsInv, TimeoutKeepsInv
       DEF LobbyTakes
  <2>5. CASE UNCHANGED vars
    BY <2>5, StutterKeepsInv
  <2>6. QED
    BY <2>1, <2>2, <2>3, <2>4, <2>5 DEF Next
<1>2. QED
  BY <1>1, InitMeetsInv, PTL DEF Spec

\* Every variable keeps its type.
THEOREM MatchmakingTypes == Spec => []TypeOK
<1>1. MatchmakingInv => TypeOK
  BY DEF MatchmakingInv
<1>2. QED
  BY <1>1, MatchmakingInvariant, PTL

\* The lobby on offer is a public one that nobody was sent to (NewLobby in
\* lobby_mgr.rs).
THEOREM LobbyIsOfferedOnce == Spec => []OfferedOnce
<1>1. MatchmakingInv => OfferedOnce
  BY DEF MatchmakingInv
<1>2. QED
  BY <1>1, MatchmakingInvariant, PTL

\* Nobody speaks to a lobby in the name of another player (client_state.rs).
THEOREM PlayersSitWhereTheySay == Spec => []SeatsAgree
<1>1. MatchmakingInv => SeatsAgree
  BY DEF MatchmakingInv
<1>2. QED
  BY <1>1, MatchmakingInvariant, PTL

\* A lobby that stopped leaves no player behind (stopping() in lobby.rs).
THEOREM StoppedLobbyResets == Spec => []NobodyLeftBehind
<1>1. MatchmakingInv => NobodyLeftBehind
  BY DEF MatchmakingInv
<1>2. QED
  BY <1>1, MatchmakingInvariant, PTL

\* A lobby that a player left is offered to nobody, once LobbyManager has heard of it
\* (CloseLobbyMsg in lobby_mgr.rs).
THEOREM LeftLobbyIsUnlisted == Spec => []LeftIsUnlisted
<1>1. MatchmakingInv => LeftIsUnlisted
  BY DEF MatchmakingInv
<1>2. QED
  BY <1>1, MatchmakingInvariant, PTL

\* Clients are shown whether somebody waits as it is (lobby_mgr.rs).
THEOREM ShownUpdateIsCurrent == Spec => []UpdateIsCurrent
<1>1. MatchmakingInv => UpdateIsCurrent
  BY DEF MatchmakingInv
<1>2. QED
  BY <1>1, MatchmakingInvariant, PTL

===============================================================================
