------------------------------- MODULE Presence -------------------------------
(***************************************************************************)
(* Who is online: ConnectionManager with its sessions and its mapping from *)
(* users to sessions (src/game/connection_mgr.rs), the sockets             *)
(* (ClientConnection), the two actors of a session (ClientAdapter and      *)
(* ClientState) as far as they log in, log out and stop, and UserManager's *)
(* note of who is playing (StartPlaying, StopPlaying).                     *)
(*                                                                         *)
(* A session is named after the socket it was created for.  A mailbox is a *)
(* sequence where the order of its messages matters; a ClientState has     *)
(* none, as what its client asks may come at any time.  What UserManager   *)
(* is asked runs as concurrent tasks, which read and later write.  Left    *)
(* out: clients of the legacy protocol, lobbies, chat and pushes.          *)
(*                                                                         *)
(* An operator described as a mistake is not the code: it takes the place  *)
(* of the definition after it to show that a property would notice.        *)
(***************************************************************************)
EXTENDS Naturals, Sequences, FiniteSets

CONSTANTS
    Conn,               \* sockets; also the ws session tokens
    User,
    SessionToken,       \* api session tokens
    UserOf,             \* [SessionToken -> User]: the table sessions
    None,
    MaxLogins           \* bound: LOGIN and LOGOUT messages

ASSUME PresenceAssumption ==
    /\ UserOf \in [SessionToken -> User]
    /\ None \notin Conn \cup User \cup SessionToken
    /\ Conn \cap {"NotConnected", "Pending", "Stopped", "Disconnected"} = {}
    /\ MaxLogins \in Nat

VARIABLES
    \* ClientConnection
    connection_state,   \* NotConnected, Pending, Stopped, or the session it is connected to
    conn_mailbox,
    \* ConnectionManager
    connections,        \* None, or the Connection of a session
    user_to_session,    \* None, or the session and the api token of a user
    mgr_mailbox,
    \* ClientAdapter
    adapter,            \* None (not created), Running or Stopped
    client_connection,  \* the socket it writes to, None while Disconnected
    adapter_mailbox,
    \* ClientState
    running,            \* the sessions whose ClientState runs
    closing,            \* sessions whose ClientState has been sent Close
    login,              \* the token of a LOGIN that waits for StartPlaying
    maybe_user_info,
    maybe_api_token,
    \* UserManager
    playing,            \* playing_users_cache: the ClientState that plays as a user
    tasks,              \* StartPlaying and StopPlaying under way
    close_later,        \* ClientStates to be sent Close 100 ms later
    \* history
    latest,             \* the socket ConnectionManager connected a session to last
    used,               \* the tokens a session has logged in with
    bound,              \* the session of the last BindUser of a user
    logins

socketVars == <<connection_state, conn_mailbox>>
mgrVars == <<connections, user_to_session, latest, bound>>
adapterVars == <<adapter, client_connection>>
stateVars == <<login, maybe_user_info, maybe_api_token, used, logins>>
userVars == <<playing, tasks, close_later>>
vars == <<socketVars, mgrVars, mgr_mailbox, adapterVars, adapter_mailbox, running, closing,
          stateVars, userVars>>

Connection == [state : Conn \cup {"Disconnected"}, user_id : User \cup {None}]

ConnectionManagerMsg ==
         [type : {"RequestAdapterNew"}, conn : Conn]
    \cup [type : {"RequestAdapterExisting"}, conn : Conn, session : Conn]
    \cup [type : {"Disconnect"}, conn : Conn, session : Conn]
    \cup [type : {"BindUser"}, user : User, token : SessionToken, session : Conn]
    \cup [type : {"UnbindUser"}, user : User, token : SessionToken]

ClientAdapterMsg == [type : {"Connect"}, conn : Conn] \cup [type : {"Disconnect", "Close"}]
ClientConnectionMsg == [type : {"Connect"}, session : Conn] \cup [type : {"Close"}]

\* step: New until the user is read, Read until it is written back, then, for
\* StartPlaying, Done until ClientState takes the answer.  nth tells tasks apart.
Task == [type : {"StartPlaying", "StopPlaying"}, session : Conn, user : User, nth : Nat,
         step : {"New", "Read", "Done"}, seen : Conn \cup {None}]

TypeOK ==
    /\ connection_state \in [Conn -> Conn \cup {"NotConnected", "Pending", "Stopped"}]
    /\ conn_mailbox \in [Conn -> Seq(ClientConnectionMsg)]
    /\ connections \in [Conn -> Connection \cup {None}]
    /\ user_to_session \in [User -> (Conn \X SessionToken) \cup {None}]
    /\ mgr_mailbox \in Seq(ConnectionManagerMsg)
    /\ adapter \in [Conn -> {None, "Running", "Stopped"}]
    /\ client_connection \in [Conn -> Conn \cup {None}]
    /\ adapter_mailbox \in [Conn -> Seq(ClientAdapterMsg)]
    /\ running \subseteq Conn /\ closing \subseteq Conn
    /\ login \in [Conn -> SessionToken \cup {None}]
    /\ maybe_user_info \in [Conn -> User \cup {None}]
    /\ maybe_api_token \in [Conn -> SessionToken \cup {None}]
    /\ playing \in [User -> Conn \cup {None}]
    /\ tasks \subseteq Task
    /\ close_later \subseteq Conn
    /\ latest \in [Conn -> Conn \cup {None}]
    /\ used \in [Conn -> SUBSET SessionToken]
    /\ bound \in [User -> Conn \cup {None}]
    /\ logins \in Nat

Init ==
    /\ connection_state = [c \in Conn |-> "NotConnected"]
    /\ conn_mailbox = [c \in Conn |-> <<>>]
    /\ connections = [s \in Conn |-> None]
    /\ user_to_session = [u \in User |-> None]
    /\ mgr_mailbox = <<>>
    /\ adapter = [s \in Conn |-> None]
    /\ client_connection = [s \in Conn |-> None]
    /\ adapter_mailbox = [s \in Conn |-> <<>>]
    /\ running = {} /\ closing = {}
    /\ login = [s \in Conn |-> None]
    /\ maybe_user_info = [s \in Conn |-> None]
    /\ maybe_api_token = [s \in Conn |-> None]
    /\ playing = [u \in User |-> None]
    /\ tasks = {} /\ close_later = {}
    /\ latest = [s \in Conn |-> None]
    /\ used = [s \in Conn |-> {}]
    /\ bound = [u \in User |-> None]
    /\ logins = 0

-------------------------------------------------------------------------------
(* Sending.  What is sent to an actor that has stopped is dropped.          *)

ToMgr(m) == mgr_mailbox' = Append(mgr_mailbox, m)

\* Mailbox box with m for the actors of set to.
Sent(box, to, m) == [a \in DOMAIN box |-> IF a \in to THEN Append(box[a], m) ELSE box[a]]

Alive(s) == {a \in {s} : adapter[a] = "Running"}
Open(c) == {a \in {c} : a # None /\ connection_state[a] # "Stopped"}

\* T with a task that ends the playing of session s.
StopPlaying(s, T) ==
    T \cup {[type |-> "StopPlaying", session |-> s, user |-> maybe_user_info[s],
             nth |-> logins, step |-> "New", seen |-> None]}

-------------------------------------------------------------------------------
(* ClientConnection                                                         *)

\* received_text: HELLO, with or without the ws token of a session that was
\* created (a token of no session is answered like none).
Hello(c) ==
    /\ connection_state[c] = "NotConnected"
    /\ connection_state' = [connection_state EXCEPT ![c] = "Pending"]
    /\ \/ ToMgr([type |-> "RequestAdapterNew", conn |-> c])
       \/ \E s \in Conn : /\ adapter[s] # None
                          /\ ToMgr([type |-> "RequestAdapterExisting", conn |-> c, session |-> s])
    /\ UNCHANGED <<conn_mailbox, mgrVars, adapterVars, adapter_mailbox, running, closing,
                   stateVars, userVars>>

\* stopping(): the socket is closed by the client or by an error, it does not
\* answer pings, or it is told to close.
SocketStops(c) ==
    /\ connection_state' = [connection_state EXCEPT ![c] = "Stopped"]
    /\ conn_mailbox' = [conn_mailbox EXCEPT ![c] = <<>>]
    /\ IF connection_state[c] \in Conn
       THEN ToMgr([type |-> "Disconnect", conn |-> c, session |-> connection_state[c]])
       ELSE UNCHANGED mgr_mailbox
    /\ UNCHANGED <<mgrVars, adapterVars, adapter_mailbox, running, closing, stateVars, userVars>>

SocketFails(c) == connection_state[c] \notin {"NotConnected", "Stopped"} /\ SocketStops(c)

TakeConnect(c) ==
    /\ conn_mailbox[c] # <<>> /\ Head(conn_mailbox[c]).type = "Connect"
    /\ connection_state' = [connection_state EXCEPT ![c] = Head(conn_mailbox[c]).session]
    /\ conn_mailbox' = [conn_mailbox EXCEPT ![c] = Tail(@)]
    /\ UNCHANGED <<mgrVars, mgr_mailbox, adapterVars, adapter_mailbox, running, closing,
                   stateVars, userVars>>

TakeClose(c) ==
    /\ conn_mailbox[c] # <<>> /\ Head(conn_mailbox[c]).type = "Close"
    /\ SocketStops(c)

-------------------------------------------------------------------------------
(* ConnectionManager                                                        *)

TakesFromMailbox(type) ==
    /\ mgr_mailbox # <<>> /\ Head(mgr_mailbox).type = type
    /\ mgr_mailbox' = Tail(mgr_mailbox)

\* RequestAdapterNew, and RequestAdapterExisting with the token of a session that
\* is gone: ClientState and ClientAdapter are started.
RequestAdapterNew ==
    \E c \in Conn :
    /\ \/ TakesFromMailbox("RequestAdapterNew")
       \/ /\ TakesFromMailbox("RequestAdapterExisting")
          /\ connections[Head(mgr_mailbox).session] = None
    /\ c = Head(mgr_mailbox).conn
    /\ connections' = [connections EXCEPT ![c] = [state |-> c, user_id |-> None]]
    /\ latest' = [latest EXCEPT ![c] = c]
    /\ adapter' = [adapter EXCEPT ![c] = "Running"]
    /\ client_connection' = [client_connection EXCEPT ![c] = c]
    /\ running' = running \cup {c}
    /\ conn_mailbox' = Sent(conn_mailbox, Open(c), [type |-> "Connect", session |-> c])
    /\ UNCHANGED <<connection_state, user_to_session, bound, adapter_mailbox, closing,
                   stateVars, userVars>>

RequestAdapterExisting ==
    \E c, s \in Conn :
    /\ TakesFromMailbox("RequestAdapterExisting")
    /\ c = Head(mgr_mailbox).conn /\ s = Head(mgr_mailbox).session
    /\ connections[s] # None
    /\ connections' = [connections EXCEPT ![s].state = c]
    /\ latest' = [latest EXCEPT ![s] = c]
    /\ adapter_mailbox' = Sent(adapter_mailbox, Alive(s), [type |-> "Connect", conn |-> c])
    /\ conn_mailbox' = Sent(conn_mailbox, Open(c), [type |-> "Connect", session |-> s])
    /\ UNCHANGED <<connection_state, user_to_session, bound, adapterVars, running, closing,
                   stateVars, userVars>>

\* A mistake: whichever socket of the session was closed, the session is away.
DisconnectAny ==
    \E s \in Conn :
    /\ TakesFromMailbox("Disconnect")
    /\ s = Head(mgr_mailbox).session
    /\ IF connections[s] # None
       THEN /\ connections' = [connections EXCEPT ![s].state = "Disconnected"]
            /\ adapter_mailbox' = Sent(adapter_mailbox, Alive(s), [type |-> "Disconnect"])
       ELSE UNCHANGED <<connections, adapter_mailbox>>
    /\ UNCHANGED <<socketVars, user_to_session, latest, bound, adapterVars, running, closing,
                   stateVars, userVars>>

\* Disconnect: only if the session has not been connected to another socket since.
Disconnect ==
    \E s \in Conn :
    /\ TakesFromMailbox("Disconnect")
    /\ s = Head(mgr_mailbox).session
    /\ IF connections[s] # None /\ connections[s].state = Head(mgr_mailbox).conn
       THEN /\ connections' = [connections EXCEPT ![s].state = "Disconnected"]
            /\ adapter_mailbox' = Sent(adapter_mailbox, Alive(s), [type |-> "Disconnect"])
       ELSE UNCHANGED <<connections, adapter_mailbox>>
    /\ UNCHANGED <<socketVars, user_to_session, latest, bound, adapterVars, running, closing,
                   stateVars, userVars>>

\* BindUser: the session the user was mapped to is told to close, if it is still
\* there, and be it the one that logs in.
BindUser ==
    \E u \in User, s \in Conn :
    /\ TakesFromMailbox("BindUser")
    /\ u = Head(mgr_mailbox).user /\ s = Head(mgr_mailbox).session
    /\ LET old == {o \in Conn : /\ user_to_session[u] # None /\ o = user_to_session[u][1]
                                /\ connections[o] # None}
           released == [o \in Conn |-> IF o \in old THEN [connections[o] EXCEPT !.user_id = None]
                                       ELSE connections[o]] IN
       /\ connections' = [released EXCEPT ![s] =
                              IF @ = None THEN None ELSE [@ EXCEPT !.user_id = u]]
       /\ adapter_mailbox' =
              Sent(adapter_mailbox, {o \in old : adapter[o] = "Running"}, [type |-> "Close"])
    /\ user_to_session' = [user_to_session EXCEPT ![u] = <<s, Head(mgr_mailbox).token>>]
    /\ bound' = [bound EXCEPT ![u] = s]
    /\ UNCHANGED <<socketVars, latest, adapterVars, running, closing, stateVars, userVars>>

\* A mistake: the token is not compared.
UnbindUnguarded ==
    \E u \in User :
    /\ TakesFromMailbox("UnbindUser")
    /\ u = Head(mgr_mailbox).user
    /\ user_to_session' = [user_to_session EXCEPT ![u] = None]
    /\ UNCHANGED <<socketVars, connections, latest, bound, adapterVars, adapter_mailbox,
                   running, closing, stateVars, userVars>>

\* UnbindUser: ignored unless the user was bound with this api token.
UnbindUser ==
    \E u \in User :
    /\ TakesFromMailbox("UnbindUser")
    /\ u = Head(mgr_mailbox).user
    /\ user_to_session' = [user_to_session EXCEPT ![u] =
           IF @ # None /\ @[2] = Head(mgr_mailbox).token THEN None ELSE @]
    /\ UNCHANGED <<socketVars, connections, latest, bound, adapterVars, adapter_mailbox,
                   running, closing, stateVars, userVars>>

\* A mistake: the session is forgotten without being told.
TimesOutUntold(s) ==
    LET u == connections[s].user_id IN
    /\ connections[s] # None /\ connections[s].state = "Disconnected"
    /\ user_to_session' = IF u = None THEN user_to_session
                          ELSE [user_to_session EXCEPT ![u] = None]
    /\ connections' = [connections EXCEPT ![s] = None]
    /\ UNCHANGED <<socketVars, latest, bound, mgr_mailbox, adapterVars, adapter_mailbox,
                   running, closing, stateVars, userVars>>

\* check_connectionstate_interval: a session that has been Disconnected for 30 s.
TimesOut(s) ==
    LET u == connections[s].user_id IN
    /\ connections[s] # None /\ connections[s].state = "Disconnected"
    /\ adapter_mailbox' = Sent(adapter_mailbox, Alive(s), [type |-> "Close"])
    /\ user_to_session' = IF u = None THEN user_to_session
                          ELSE [user_to_session EXCEPT ![u] = None]
    /\ connections' = [connections EXCEPT ![s] = None]
    /\ UNCHANGED <<socketVars, latest, bound, mgr_mailbox, adapterVars, running, closing,
                   stateVars, userVars>>

-------------------------------------------------------------------------------
(* ClientAdapter                                                            *)

TakeConnection(s) ==
    /\ adapter_mailbox[s] # <<>> /\ Head(adapter_mailbox[s]).type # "Close"
    /\ client_connection' = [client_connection EXCEPT ![s] =
           IF Head(adapter_mailbox[s]).type = "Connect" THEN Head(adapter_mailbox[s]).conn
           ELSE None]
    /\ adapter_mailbox' = [adapter_mailbox EXCEPT ![s] = Tail(@)]
    /\ UNCHANGED <<socketVars, mgrVars, mgr_mailbox, adapter, running, closing, stateVars, userVars>>

\* stopping()
AdapterStops(s) ==
    /\ adapter' = [adapter EXCEPT ![s] = "Stopped"]
    /\ adapter_mailbox' = [adapter_mailbox EXCEPT ![s] = <<>>]
    /\ closing' = closing \cup ({s} \cap running)
    /\ conn_mailbox' = Sent(conn_mailbox, Open(client_connection[s]), [type |-> "Close"])
    /\ UNCHANGED <<connection_state, mgrVars, mgr_mailbox, client_connection, running,
                   stateVars, userVars>>

AdapterCloses(s) ==
    /\ adapter_mailbox[s] # <<>> /\ Head(adapter_mailbox[s]).type = "Close"
    /\ AdapterStops(s)

\* A message that is not acknowledged has been sent RPKT_RETRY_LIMIT times.
GiveUp(s) ==
    /\ adapter[s] = "Running" /\ client_connection[s] # None
    /\ AdapterStops(s)

-------------------------------------------------------------------------------
(* ClientState.  While a LOGIN waits for its answer nothing else is handled. *)

\* A socket waits for the adapter, and the adapter for ClientState, to take a
\* message: it is as if it were handled while both are there.
ClientSends(s) ==
    /\ \E c \in Conn : connection_state[c] = s
    /\ adapter[s] = "Running" /\ s \in running /\ login[s] = None

\* PlayerMessage::Login
Login(s, t) ==
    /\ ClientSends(s)
    /\ logins < MaxLogins
    /\ logins' = logins + 1
    /\ login' = [login EXCEPT ![s] = t]
    /\ tasks' = (IF maybe_user_info[s] = None THEN tasks ELSE StopPlaying(s, tasks))
           \cup {[type |-> "StartPlaying", session |-> s, user |-> UserOf[t], nth |-> logins,
                  step |-> "New", seen |-> None]}
    /\ UNCHANGED <<socketVars, mgrVars, mgr_mailbox, adapterVars, adapter_mailbox, running,
                   closing, maybe_user_info, maybe_api_token, used, playing, close_later>>

\* The answer to a LOGIN: the user is bound to this session.
LoggedIn(s) == \E k \in tasks :
    /\ k.type = "StartPlaying" /\ k.step = "Done" /\ k.session = s
    /\ tasks' = tasks \ {k}
    /\ login' = [login EXCEPT ![s] = None]
    /\ maybe_user_info' = [maybe_user_info EXCEPT ![s] = k.user]
    /\ maybe_api_token' = [maybe_api_token EXCEPT ![s] = login[s]]
    /\ used' = [used EXCEPT ![s] = @ \cup {login[s]}]
    /\ ToMgr([type |-> "BindUser", user |-> k.user, token |-> login[s], session |-> s])
    /\ UNCHANGED <<socketVars, mgrVars, adapterVars, adapter_mailbox, running, closing, logins,
                   playing, close_later>>

\* PlayerMessage::Logout: ConnectionManager is told nothing.
Logout(s) ==
    /\ ClientSends(s) /\ maybe_user_info[s] # None
    /\ logins < MaxLogins
    /\ logins' = logins + 1
    /\ tasks' = StopPlaying(s, tasks)
    /\ maybe_user_info' = [maybe_user_info EXCEPT ![s] = None]
    /\ UNCHANGED <<socketVars, mgrVars, mgr_mailbox, adapterVars, adapter_mailbox, running,
                   closing, login, maybe_api_token, used, playing, close_later>>

\* ClientStateMessage::Close and stopping()
StateCloses(s) ==
    LET u == maybe_user_info[s]
        t == maybe_api_token[s] IN
    /\ s \in closing /\ login[s] = None
    /\ running' = running \ {s}
    /\ closing' = closing \ {s}
    /\ tasks' = IF u = None THEN tasks ELSE StopPlaying(s, tasks)
    /\ IF u # None /\ t # None
       THEN ToMgr([type |-> "UnbindUser", user |-> u, token |-> t])
       ELSE UNCHANGED mgr_mailbox
    /\ adapter_mailbox' = Sent(adapter_mailbox, Alive(s), [type |-> "Close"])
    /\ UNCHANGED <<socketVars, mgrVars, adapterVars, stateVars, playing, close_later>>

\* ClientAdapterMsg::Close from StartPlaying's timer is passed on to the adapter.
PassClose(s) ==
    /\ s \in close_later /\ login[s] = None
    /\ close_later' = close_later \ {s}
    /\ adapter_mailbox' = Sent(adapter_mailbox, Alive(s) \cap running, [type |-> "Close"])
    /\ UNCHANGED <<socketVars, mgrVars, mgr_mailbox, adapterVars, running, closing, stateVars,
                   playing, tasks>>

-------------------------------------------------------------------------------
(* UserManager                                                              *)

\* The user is read, from the cache or from the database, with who plays now.
ReadUser(k) ==
    /\ k.step = "New"
    /\ tasks' = (tasks \ {k}) \cup
           {l \in {[k EXCEPT !.step = "Read", !.seen = playing[k.user]]} :
                k.type = "StopPlaying" => playing[k.user] = k.session}
    /\ UNCHANGED <<socketVars, mgrVars, mgr_mailbox, adapterVars, adapter_mailbox, running,
                   closing, stateVars, playing, close_later>>

\* The user is written back, with all that was read.
WriteUser(k) ==
    /\ k.step = "Read"
    /\ IF k.type = "StartPlaying"
       THEN /\ playing' = [playing EXCEPT ![k.user] = k.session]
            /\ tasks' = (tasks \ {k}) \cup {[k EXCEPT !.step = "Done"]}
            /\ close_later' = close_later \cup ({k.seen} \ {None, k.session})
       ELSE /\ playing' = [playing EXCEPT ![k.user] = None]
            /\ tasks' = tasks \ {k}
            /\ UNCHANGED close_later
    /\ UNCHANGED <<socketVars, mgrVars, mgr_mailbox, adapterVars, adapter_mailbox, running,
                   closing, stateVars>>

\* The token is unknown, or the database fails: LOGIN is refused.
StartFails(k) ==
    /\ k.type = "StartPlaying" /\ k.step = "New"
    /\ tasks' = tasks \ {k}
    /\ login' = [login EXCEPT ![k.session] = None]
    /\ UNCHANGED <<socketVars, mgrVars, mgr_mailbox, adapterVars, adapter_mailbox, running,
                   closing, maybe_user_info, maybe_api_token, used, logins, playing, close_later>>

Next ==
    \/ \E c \in Conn : Hello(c) \/ SocketFails(c) \/ TakeConnect(c) \/ TakeClose(c)
    \/ RequestAdapterNew \/ RequestAdapterExisting \/ Disconnect \/ BindUser \/ UnbindUser
    \/ \E s \in Conn : TimesOut(s) \/ TakeConnection(s) \/ AdapterCloses(s) \/ GiveUp(s)
    \/ \E s \in Conn, t \in SessionToken : Login(s, t)
    \/ \E s \in Conn : LoggedIn(s) \/ Logout(s) \/ StateCloses(s) \/ PassClose(s)
    \/ \E k \in tasks : ReadUser(k) \/ WriteUser(k) \/ StartFails(k)

Spec == Init /\ [][Next]_vars

\* Actors handle what they are sent, tasks end, the interval finds the sessions
\* that stay away, and an adapter runs out of retries on a socket that is closed:
\* ConnectionManager keeps sending the server's state to every session.
Fairness ==
    /\ WF_vars(RequestAdapterNew) /\ WF_vars(RequestAdapterExisting)
    /\ WF_vars(Disconnect) /\ WF_vars(BindUser) /\ WF_vars(UnbindUser)
    /\ \A s \in Conn :
           /\ WF_vars(TimesOut(s)) /\ WF_vars(TakeConnection(s)) /\ WF_vars(AdapterCloses(s))
           /\ WF_vars(Open(client_connection[s]) = {} /\ GiveUp(s))
           /\ WF_vars(LoggedIn(s)) /\ WF_vars(StateCloses(s))
           /\ WF_vars(\E k \in tasks : k.session = s /\ k.type = "StartPlaying"
                                        /\ (ReadUser(k) \/ WriteUser(k)))

FairSpec == Spec /\ Fairness

-------------------------------------------------------------------------------
\* As long as the socket a session was connected to last stays open, the session
\* is not taken for disconnected, whenever its older sockets close (Disconnect).
LatestStaysConnected ==
    \A s \in Conn : connections[s] # None /\ connection_state[latest[s]] # "Stopped" =>
        connections[s].state = latest[s]

\* No session outlives its clients: once all sockets are closed, be it before
\* they were told of their session, every ClientState stops (Disconnect, TimesOut,
\* GiveUp, Close).
SessionsEnd == (\A c \in Conn : connection_state[c] = "Stopped") ~> running = {}

\* "token-guarded unbind to prevent old connection from clearing new mapping":
\* UnbindUser takes a user off line only if the session the user is mapped to has
\* stopped, or if another session has used its api token.
UnbindIsOwn ==
    [][\A u \in User : UnbindUser /\ user_to_session[u] # user_to_session'[u] =>
        \/ user_to_session[u][1] \notin running
        \/ \E s \in Conn \ {user_to_session[u][1]} : user_to_session[u][2] \in used[s]]_vars

\* Nothing is under way.
Quiet ==
    /\ mgr_mailbox = <<>> /\ tasks = {} /\ close_later = {} /\ closing = {}
    /\ \A s \in Conn : adapter_mailbox[s] = <<>>

\* Once all is settled, the session that was bound to a user last, and still runs
\* and is logged in as that user, is the one the user is mapped to.
PresenceIsCurrent ==
    Quiet => \A u \in User : bound[u] \in running /\ maybe_user_info[bound[u]] = u =>
                 user_to_session[u] # None /\ user_to_session[u][1] = bound[u]
===============================================================================
