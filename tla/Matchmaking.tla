------------------------------ MODULE Matchmaking ------------------------------
(***************************************************************************)
(* How two clients come to share a lobby, and how they leave it: the actors*)
(* LobbyManager (src/game/lobby_mgr.rs), Lobby (src/game/lobby.rs) and     *)
(* ClientState (src/game/client_state.rs).                                 *)
(*                                                                         *)
(* An actor handles one message at a time from a FIFO mailbox; do_send()   *)
(* appends to the mailbox of a running actor and is dropped otherwise.     *)
(* What a player sends may reach ClientState at any time, so it is handled *)
(* here as soon as it is sent.  ClientState waits for the answer of        *)
(* LobbyManager with its mailbox blocked, so the answer is taken in the    *)
(* step that gives it.  Time is left out: a timeout may fire as soon as it *)
(* is set.                                                                 *)
(*                                                                         *)
(* Left out, as they change none of this state: messages to the players,   *)
(* the logger, chat, and what happens on the board.  UserManager, which    *)
(* hands on or refuses a battle request, is modelled as doing either.      *)
(*                                                                         *)
(* An operator described as a mistake is not the code: it takes the place  *)
(* of the definition after it to show that a property would notice.        *)
(***************************************************************************)
EXTENDS Naturals, Sequences, FiniteSets, SequencesExt

CONSTANTS
    Client,             \* ClientState actors
    Lobby,              \* Lobby actors that may be started (bound)
    GameId,             \* ids the players use; the code draws from 23^4
    MaxSends,           \* bound: nobody asks to join, or pongs, a lobby that
                        \* has this many messages waiting
    MaxBattleReqs,      \* bound: battle requests UserManager looks into at once
    None

ASSUME LobbyAssumption ==
    /\ None \notin Client \cup Lobby \cup GameId
    /\ IsFiniteSet(Lobby) /\ IsFiniteSet(GameId)
    /\ Cardinality(GameId) >= Cardinality(Lobby)
    /\ MaxSends \in Nat /\ MaxBattleReqs \in Nat

Player == {"One", "Two"}
LobbyKind == {"Public", "Private"}

VARIABLES
    \* LobbyManager
    open_lobby,         \* the public lobby that waits for a second player
    open_lobby_map,     \* the private lobbies by game id
    closed_lobby_map,   \* game ids of the public lobbies that were matched
    lm_mailbox,
    update,             \* last ConnectionManagerMsg::Update: "someone waits"
    \* Lobby
    lobby,              \* its state: see LobbyType
    lobby_mailbox,
    \* ClientState
    client,             \* its ClientLobbyState: see ClientType
    client_mailbox,
    \* UserManager
    battle_reqs         \* the senders of battle requests it is looking into

lmVars == <<open_lobby, open_lobby_map, closed_lobby_map, lm_mailbox, update>>
lobbyVars == <<lobby, lobby_mailbox>>
clientVars == <<client, client_mailbox>>
vars == <<lmVars, lobbyVars, clientVars, battle_reqs>>

\* status: not started, running, or stopped because a player left or because
\* of a timeout.  kind and the reason of the stop are history.
LobbyType ==
    [status : {"New", "Running", "Left", "TimedOut"}, kind : LobbyKind \cup {None},
     game_id : GameId \cup {None},
     phase : {"OnePlayer", "TwoPlayersWaitingForPing", "TwoPlayers"},
     host : Client \cup {None}, joined : Client \cup {None}]

\* awaiting: .wait(ctx) blocks the mailbox until LobbyManager answers.
ClientType ==
    [up : BOOLEAN, awaiting : BOOLEAN, lobby_state : {"Idle"},
     player : {None}, lobby : {None}]
        \cup [up : {TRUE}, awaiting : {FALSE},
              lobby_state : {"InLobbyWaitingForHost", "InLobby"},
              player : Player, lobby : Lobby]

LobbyManagerMsg ==
    [type : {"NewLobby"}, from : Client, kind : LobbyKind]
        \cup [type : {"JoinLobby"}, from : Client, game_id : GameId]
        \cup [type : {"CloseLobbyMsg"}, game_id : GameId]
        \cup [type : {"BattleReq"}, from : Client]

LobbyMsg ==
    [type : {"PlayerJoined"}, from : Client]
        \cup [type : {"PlayerLeaving"}, sender : Player]
        \cup [type : {"ReceivedReadyForGamePong"}]

ClientMsg ==
    [type : {"Reset", "LobbyRequestResponseReady"}]
        \cup [type : {"BattleReqJoinLobby"}, lobby : Lobby]

TypeOK ==
    /\ open_lobby \in Lobby \cup {None}
    /\ open_lobby_map \in [GameId -> Lobby \cup {None}]
    /\ closed_lobby_map \subseteq GameId
    /\ lm_mailbox \in Seq(LobbyManagerMsg)
    /\ update \in BOOLEAN
    /\ lobby \in [Lobby -> LobbyType]
    /\ lobby_mailbox \in [Lobby -> Seq(LobbyMsg)]
    /\ client \in [Client -> ClientType]
    /\ client_mailbox \in [Client -> Seq(ClientMsg)]
    /\ battle_reqs \subseteq Client

Idle == [lobby_state |-> "Idle", player |-> None, lobby |-> None,
         up |-> TRUE, awaiting |-> FALSE]

Init ==
    /\ open_lobby = None
    /\ open_lobby_map = [g \in GameId |-> None]
    /\ closed_lobby_map = {}
    /\ lm_mailbox = <<>>
    /\ update = FALSE
    /\ lobby = [l \in Lobby |->
            [status |-> "New", kind |-> None, game_id |-> None, phase |-> "OnePlayer",
             host |-> None, joined |-> None]]
    /\ lobby_mailbox = [l \in Lobby |-> <<>>]
    /\ client = [c \in Client |-> Idle]
    /\ client_mailbox = [c \in Client |-> <<>>]
    /\ battle_reqs = {}

-------------------------------------------------------------------------------
(* Sending.                                                                *)

Running(l) == lobby[l].status = "Running"

\* The mailbox of every lobby after do_send(m) to l.
SentToLobby(l, m) ==
    [lobby_mailbox EXCEPT ![l] = IF Running(l) THEN Append(@, m) ELSE @]

\* The mailbox of every client after do_send(m) to each of cs, in this order.
SentToClients(cs, m) ==
    [c \in Client |-> IF client[c].up
        THEN client_mailbox[c] \o [i \in 1..Cardinality({k \in DOMAIN cs : cs[k] = c}) |-> m]
        ELSE client_mailbox[c]]

Reset == [type |-> "Reset"]

\* Bound: a lobby is left for every request under way that starts one.
CanCreate ==
    Cardinality({l \in Lobby : lobby[l].status = "New"})
        > Cardinality(battle_reqs)
            + Len(SelectSeq(lm_mailbox, LAMBDA m : m.type \in {"NewLobby", "BattleReq"}))

-------------------------------------------------------------------------------
(* ClientState: what the player asks for.                                  *)

Ready(c) == client[c].up /\ ~client[c].awaiting
InLobby(c) == client[c].lobby_state = "InLobby"

LobbyRequest(c, kind) ==
    /\ Ready(c) /\ client[c].lobby_state = "Idle"
    /\ CanCreate \/ (kind = "Public" /\ open_lobby # None)
    /\ lm_mailbox' = Append(lm_mailbox, [type |-> "NewLobby", from |-> c, kind |-> kind])
    /\ client' = [client EXCEPT ![c].awaiting = TRUE]
    /\ UNCHANGED <<open_lobby, open_lobby_map, closed_lobby_map, update, lobbyVars,
                   client_mailbox, battle_reqs>>

LobbyJoin(c, g) ==
    /\ Ready(c) /\ client[c].lobby_state = "Idle"
    /\ open_lobby_map[g] # None => Len(lobby_mailbox[open_lobby_map[g]]) < MaxSends
    /\ lm_mailbox' = Append(lm_mailbox, [type |-> "JoinLobby", from |-> c, game_id |-> g])
    /\ client' = [client EXCEPT ![c].awaiting = TRUE]
    /\ UNCHANGED <<open_lobby, open_lobby_map, closed_lobby_map, update, lobbyVars,
                   client_mailbox, battle_reqs>>

\* Only a player in a lobby is announced to it; the state is Idle in any case.
Leaving(c) ==
    /\ Ready(c) /\ client[c].lobby_state # "Idle"
    /\ lobby_mailbox' = IF InLobby(c)
            THEN SentToLobby(client[c].lobby,
                             [type |-> "PlayerLeaving", sender |-> client[c].player])
            ELSE lobby_mailbox
    /\ client' = [client EXCEPT ![c] = Idle]
    /\ UNCHANGED <<lmVars, lobby, client_mailbox, battle_reqs>>

\* ClientStateMessage::Close: the same for a client that is gone, which stops.
Close(c) ==
    /\ Ready(c)
    /\ lobby_mailbox' = IF InLobby(c)
            THEN SentToLobby(client[c].lobby,
                             [type |-> "PlayerLeaving", sender |-> client[c].player])
            ELSE lobby_mailbox
    /\ client' = [client EXCEPT ![c] = [Idle EXCEPT !.up = FALSE]]
    /\ client_mailbox' = [client_mailbox EXCEPT ![c] = <<>>]
    /\ UNCHANGED <<lmVars, lobby, battle_reqs>>

ReadyForGamePong(c) ==
    /\ Ready(c) /\ InLobby(c)
    /\ Running(client[c].lobby) /\ Len(lobby_mailbox[client[c].lobby]) < MaxSends
    /\ lobby_mailbox' =
            SentToLobby(client[c].lobby, [type |-> "ReceivedReadyForGamePong"])
    /\ UNCHANGED <<lmVars, lobby, clientVars, battle_reqs>>

BattleReq(c) ==
    /\ Ready(c) /\ client[c].lobby_state = "Idle" /\ CanCreate
    /\ c \notin battle_reqs /\ Cardinality(battle_reqs) < MaxBattleReqs
    /\ battle_reqs' = battle_reqs \cup {c}
    /\ UNCHANGED <<lmVars, lobbyVars, clientVars>>

-------------------------------------------------------------------------------
(* ClientState: what the other actors tell it.                             *)

Receive(c, type) ==
    /\ Ready(c) /\ client_mailbox[c] # <<>> /\ Head(client_mailbox[c]).type = type
    /\ client_mailbox' = [client_mailbox EXCEPT ![c] = Tail(@)]
    /\ UNCHANGED <<lmVars, lobbyVars, battle_reqs>>

TakeReset(c) ==
    /\ Receive(c, "Reset")
    /\ client' = [client EXCEPT ![c] = Idle]

TakeReady(c) ==
    /\ Receive(c, "LobbyRequestResponseReady")
    /\ client' = IF client[c].lobby_state = "InLobbyWaitingForHost"
            THEN [client EXCEPT ![c].lobby_state = "InLobby"] ELSE client

TakeBattleReqJoinLobby(c) ==
    /\ Receive(c, "BattleReqJoinLobby")
    /\ client' = [client EXCEPT ![c].lobby_state = "InLobby", ![c].player = "One",
                                ![c].lobby = Head(client_mailbox[c]).lobby]

\* UserManager: the request goes on to LobbyManager, or is refused.
ForwardBattleReq(c) ==
    /\ c \in battle_reqs
    /\ battle_reqs' = battle_reqs \ {c}
    /\ \/ lm_mailbox' = Append(lm_mailbox, [type |-> "BattleReq", from |-> c])
       \/ UNCHANGED lm_mailbox
    /\ UNCHANGED <<open_lobby, open_lobby_map, closed_lobby_map, update, lobbyVars,
                   clientVars>>

-------------------------------------------------------------------------------
(* LobbyManager.                                                           *)

Handle(type) ==
    /\ lm_mailbox # <<>> /\ Head(lm_mailbox).type = type
    /\ lm_mailbox' = Tail(lm_mailbox)

\* create_lobby: a new actor, with an id that neither map uses.
Created(l, g, c, kind) ==
    /\ lobby[l].status = "New"
    /\ g \notin closed_lobby_map /\ open_lobby_map[g] = None
    /\ lobby' = [lobby EXCEPT ![l].status = "Running", ![l].kind = kind,
                              ![l].game_id = g, ![l].host = c]

\* The answer: c is player p of l.
Seated(c, p, l, state) ==
    [client EXCEPT ![c] = [Idle EXCEPT !.lobby_state = state, !.player = p, !.lobby = l]]

\* NewLobby(Public), nobody waits.
CreatePublic == \E l \in Lobby, g \in GameId :
    LET c == Head(lm_mailbox).from IN
    /\ Handle("NewLobby") /\ Head(lm_mailbox).kind = "Public" /\ open_lobby = None
    /\ Created(l, g, c, "Public")
    /\ open_lobby' = l
    /\ update' = TRUE
    /\ client' = Seated(c, "One", l, "InLobby")
    /\ UNCHANGED <<open_lobby_map, closed_lobby_map, lobby_mailbox, client_mailbox,
                   battle_reqs>>

\* A mistake: the matched lobby stays on offer.
MatchPublicStillOpen ==
    LET c == Head(lm_mailbox).from IN
    /\ Handle("NewLobby") /\ Head(lm_mailbox).kind = "Public" /\ open_lobby # None
    /\ lobby_mailbox' = SentToLobby(open_lobby, [type |-> "PlayerJoined", from |-> c])
    /\ closed_lobby_map' = closed_lobby_map \cup {lobby[open_lobby].game_id}
    /\ update' = FALSE
    /\ client' = Seated(c, "Two", open_lobby, "InLobbyWaitingForHost")
    /\ UNCHANGED <<open_lobby, open_lobby_map, lobby, client_mailbox, battle_reqs>>

\* NewLobby(Public), somebody waits.
MatchPublic ==
    LET c == Head(lm_mailbox).from IN
    /\ Handle("NewLobby") /\ Head(lm_mailbox).kind = "Public" /\ open_lobby # None
    /\ open_lobby' = None
    /\ lobby_mailbox' = SentToLobby(open_lobby, [type |-> "PlayerJoined", from |-> c])
    /\ closed_lobby_map' = closed_lobby_map \cup {lobby[open_lobby].game_id}
    /\ update' = FALSE
    /\ client' = Seated(c, "Two", open_lobby, "InLobbyWaitingForHost")
    /\ UNCHANGED <<open_lobby_map, lobby, client_mailbox, battle_reqs>>

CreatePrivate == \E l \in Lobby, g \in GameId :
    LET c == Head(lm_mailbox).from IN
    /\ Handle("NewLobby") /\ Head(lm_mailbox).kind = "Private"
    /\ Created(l, g, c, "Private")
    /\ open_lobby_map' = [open_lobby_map EXCEPT ![g] = l]
    /\ client' = Seated(c, "One", l, "InLobby")
    /\ UNCHANGED <<open_lobby, closed_lobby_map, update, lobby_mailbox, client_mailbox,
                   battle_reqs>>

JoinPrivate ==
    LET c == Head(lm_mailbox).from
        l == open_lobby_map[Head(lm_mailbox).game_id] IN
    /\ Handle("JoinLobby")
    /\ IF l = None
       THEN /\ client' = [client EXCEPT ![c].awaiting = FALSE]
            /\ UNCHANGED lobby_mailbox
       ELSE /\ client' = Seated(c, "Two", l, "InLobby")
            /\ lobby_mailbox' = SentToLobby(l, [type |-> "PlayerJoined", from |-> c])
    /\ UNCHANGED <<open_lobby, open_lobby_map, closed_lobby_map, update, lobby,
                   client_mailbox, battle_reqs>>

CreateBattle == \E l \in Lobby, g \in GameId :
    LET c == Head(lm_mailbox).from IN
    /\ Handle("BattleReq")
    /\ Created(l, g, c, "Private")
    /\ open_lobby_map' = [open_lobby_map EXCEPT ![g] = l]
    /\ client_mailbox' =
            SentToClients(<<c>>, [type |-> "BattleReqJoinLobby", lobby |-> l])
    /\ UNCHANGED <<open_lobby, closed_lobby_map, update, lobby_mailbox, client,
                   battle_reqs>>

\* Two mistakes: the closed lobby stays on offer, or nobody is told that it is
\* gone.
CloseLobbyMsgStillOpen ==
    LET g == Head(lm_mailbox).game_id IN
    /\ Handle("CloseLobbyMsg")
    /\ open_lobby_map' = [open_lobby_map EXCEPT ![g] = None]
    /\ closed_lobby_map' = closed_lobby_map \ {g}
    /\ UNCHANGED <<open_lobby, update, lobbyVars, clientVars, battle_reqs>>

CloseLobbyMsgUntold ==
    LET g == Head(lm_mailbox).game_id IN
    /\ Handle("CloseLobbyMsg")
    /\ open_lobby' = IF open_lobby # None /\ lobby[open_lobby].game_id = g THEN None
                     ELSE open_lobby
    /\ open_lobby_map' = [open_lobby_map EXCEPT ![g] = None]
    /\ closed_lobby_map' = closed_lobby_map \ {g}
    /\ UNCHANGED <<update, lobbyVars, clientVars, battle_reqs>>

CloseLobbyMsg ==
    LET g == Head(lm_mailbox).game_id IN
    /\ Handle("CloseLobbyMsg")
    /\ open_lobby' = IF open_lobby # None /\ lobby[open_lobby].game_id = g THEN None
                     ELSE open_lobby
    /\ open_lobby_map' = [open_lobby_map EXCEPT ![g] = None]
    /\ closed_lobby_map' = closed_lobby_map \ {g}
    /\ update' = (open_lobby' # None)
    /\ UNCHANGED <<lobbyVars, clientVars, battle_reqs>>

-------------------------------------------------------------------------------
(* Lobby.                                                                  *)

\* A mistake: a lobby that waits for the pong resets its host only.
OccupantsWithoutJoiner(l) ==
    IF lobby[l].phase = "TwoPlayers" THEN <<lobby[l].host, lobby[l].joined>>
    ELSE <<lobby[l].host>>

\* The addresses that stopping() resets.
Occupants(l) ==
    IF lobby[l].phase = "OnePlayer" THEN <<lobby[l].host>>
    ELSE <<lobby[l].host, lobby[l].joined>>

Stop(l, reason) ==
    /\ lobby' = [lobby EXCEPT ![l].status = reason]
    /\ lobby_mailbox' = [lobby_mailbox EXCEPT ![l] = <<>>]

LobbyReceive(l, type) ==
    /\ Running(l) /\ lobby_mailbox[l] # <<>> /\ Head(lobby_mailbox[l]).type = type

\* PlayerLeaving: the other player is reset, then stopping() resets both.
TakeLeaving(l) ==
    LET other == IF Head(lobby_mailbox[l]).sender = "One" THEN lobby[l].joined
                 ELSE lobby[l].host IN
    /\ LobbyReceive(l, "PlayerLeaving")
    /\ lm_mailbox' =
            Append(lm_mailbox, [type |-> "CloseLobbyMsg", game_id |-> lobby[l].game_id])
    /\ client_mailbox' = SentToClients(
            IF lobby[l].phase = "OnePlayer" THEN Occupants(l) ELSE <<other>> \o Occupants(l),
            Reset)
    /\ Stop(l, "Left")
    /\ UNCHANGED <<open_lobby, open_lobby_map, closed_lobby_map, update, client,
                   battle_reqs>>

\* PlayerJoined: the host is pinged.  A third player is not let in.
TakeJoined(l) ==
    /\ LobbyReceive(l, "PlayerJoined")
    /\ lobby_mailbox' = [lobby_mailbox EXCEPT ![l] = Tail(@)]
    /\ lobby' = IF lobby[l].phase = "OnePlayer"
            THEN [lobby EXCEPT ![l].phase = "TwoPlayersWaitingForPing",
                               ![l].joined = Head(lobby_mailbox[l]).from]
            ELSE lobby
    /\ UNCHANGED <<lmVars, clientVars, battle_reqs>>

TakePong(l) ==
    /\ LobbyReceive(l, "ReceivedReadyForGamePong")
    /\ lobby_mailbox' = [lobby_mailbox EXCEPT ![l] = Tail(@)]
    /\ IF lobby[l].phase = "TwoPlayersWaitingForPing"
       THEN /\ lobby' = [lobby EXCEPT ![l].phase = "TwoPlayers"]
            /\ client_mailbox' = SentToClients(<<lobby[l].joined>>,
                                     [type |-> "LobbyRequestResponseReady"])
       ELSE UNCHANGED <<lobby, client_mailbox>>
    /\ UNCHANGED <<lmVars, client, battle_reqs>>

\* No answer to the ping for GAME_READY_RESPONSE_TIMEOUT_MS.  The timer is set
\* with the phase and cancelled with it.
ReadyTimeout(l) ==
    /\ Running(l) /\ lobby[l].phase = "TwoPlayersWaitingForPing"
    /\ client_mailbox' = SentToClients(Occupants(l), Reset)
    /\ Stop(l, "TimedOut")
    /\ UNCHANGED <<lmVars, client, battle_reqs>>

\* No message of a player for LOBBY_TIMEOUT_S, then LobbyClose.  A message that
\* comes too late to be handled is one sent to a stopped lobby.
IdleTimeout(l) ==
    /\ Running(l) /\ lobby_mailbox[l] = <<>>
    /\ client_mailbox' = SentToClients(Occupants(l), Reset)
    /\ Stop(l, "TimedOut")
    /\ UNCHANGED <<lmVars, client, battle_reqs>>

-------------------------------------------------------------------------------
PlayerAsks == \E c \in Client :
    \/ \E kind \in LobbyKind : LobbyRequest(c, kind)
    \/ \E g \in GameId : LobbyJoin(c, g)
    \/ Leaving(c)
    \/ Close(c)
    \/ ReadyForGamePong(c)
    \/ BattleReq(c)

ClientTakes(c) == TakeReset(c) \/ TakeReady(c) \/ TakeBattleReqJoinLobby(c)

LobbyManagerStep ==
    \/ CreatePublic \/ MatchPublic \/ CreatePrivate
    \/ JoinPrivate \/ CreateBattle \/ CloseLobbyMsg

LobbyTakes(l) == TakeLeaving(l) \/ TakeJoined(l) \/ TakePong(l)

Next ==
    \/ PlayerAsks
    \/ \E c \in Client : ClientTakes(c) \/ ForwardBattleReq(c)
    \/ LobbyManagerStep
    \/ \E l \in Lobby : LobbyTakes(l) \/ ReadyTimeout(l) \/ IdleTimeout(l)

Spec == Init /\ [][Next]_vars

-------------------------------------------------------------------------------
(* Safety.                                                                 *)

Has(mailbox, m) == \E i \in 1..Len(mailbox) : mailbox[i] = m

\* The lobby on offer to the next public player is a public one that nobody was
\* sent to: LobbyManager never hands it to two players (lobby_mgr.rs, NewLobby).
OfferedOnce ==
    open_lobby # None =>
        /\ lobby[open_lobby].kind = "Public"
        /\ lobby[open_lobby].joined = None
        /\ \A c \in Client :
              ~Has(lobby_mailbox[open_lobby], [type |-> "PlayerJoined", from |-> c])

\* Whoever speaks to a lobby as player One is its host, and whoever speaks to a
\* public lobby as player Two is the one that joined it or is about to: nobody
\* moves or leaves in the name of another player.
SeatsAgree == \A c \in Client :
    LET l == client[c].lobby IN
    client[c].lobby_state # "Idle" =>
        /\ client[c].player = "One" => lobby[l].host = c
        /\ client[c].player = "Two" /\ lobby[l].kind = "Public" =>
              \/ lobby[l].joined = c
              \/ Has(lobby_mailbox[l], [type |-> "PlayerJoined", from |-> c])
              \/ lobby[l].joined = None /\ ~Running(l)

\* A lobby that stopped leaves no player behind: a player whom it had let in and
\* who still takes part in it has a Reset in the mailbox (stopping(), in every
\* state of the lobby).  Not so in a private lobby that timed out: it stays in
\* open_lobby_map, and who was in it can join it again.
NobodyLeftBehind == \A c \in Client :
    LET l == client[c].lobby IN
    /\ client[c].lobby_state # "Idle"
    /\ \/ lobby[l].status = "Left"
       \/ lobby[l].status = "TimedOut" /\ lobby[l].kind = "Public"
    /\ IF client[c].player = "One" THEN lobby[l].host = c ELSE lobby[l].joined = c
    => Has(client_mailbox[c], Reset)

\* A lobby that a player left is offered to nobody once LobbyManager has taken
\* its CloseLobbyMsg, though ids may be drawn again.
LeftIsUnlisted == \A l \in Lobby :
    /\ lobby[l].status = "Left"
    /\ ~Has(lm_mailbox, [type |-> "CloseLobbyMsg", game_id |-> lobby[l].game_id])
    => open_lobby # l /\ \A g \in GameId : open_lobby_map[g] # l

\* What ConnectionManager shows to every client, "someone wants to play", is
\* the state of LobbyManager: no handler changes the open lobby without saying.
UpdateIsCurrent == update = (open_lobby # None)

\* "If true the lobby is waiting for the host to respond to ping"
\* (lobby_mgr.rs:132): a client that was answered waiting: true is in the hands
\* of a lobby, or of a message that ends the wait.
WaitingIsForHost == \A c \in Client :
    LET l == client[c].lobby IN
    client[c].lobby_state = "InLobbyWaitingForHost" =>
        \/ Running(l) /\ (\/ lobby[l].joined = c
                          \/ Has(lobby_mailbox[l], [type |-> "PlayerJoined", from |-> c]))
        \/ Has(client_mailbox[c], Reset)
        \/ Has(client_mailbox[c], [type |-> "LobbyRequestResponseReady"])

-------------------------------------------------------------------------------
(* Liveness: actors handle their mailboxes, and a timer fires.              *)

Fairness ==
    /\ \A c \in Client : WF_vars(ClientTakes(c))
    /\ WF_vars(LobbyManagerStep)
    /\ \A l \in Lobby : WF_vars(LobbyTakes(l)) /\ WF_vars(ReadyTimeout(l))

FairSpec == Spec /\ Fairness

\* A player that a lobby has taken in waits for the host only so long: the pong,
\* the timeout, or the end of the lobby releases him.
JoinerIsReleased == \A c \in Client, l \in Lobby :
    lobby[l].joined = c /\ client[c].lobby = l
            /\ client[c].lobby_state = "InLobbyWaitingForHost"
        ~> ~(client[c].lobby = l /\ client[c].lobby_state = "InLobbyWaitingForHost")
===============================================================================
