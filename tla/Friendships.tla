------------------------------ MODULE Friendships ------------------------------
(* Friend requests: UserAction and GetUserMe (api/users/user_mgr.rs), the    *)
(* friendships table (database/friendships.rs) and the cache of users in     *)
(* front of it (database/users.rs).  A handler decides on the view of its    *)
(* user that get_by_id gives it, and get_by_id reads the table, waits, and   *)
(* only then fills the cache: what was read may have been invalidated since. *)
(* An operator described as a mistake is not the code: it takes the place of *)
(* the definition after it to show which property notices.                  *)
EXTENDS Requests

VARIABLES
    friendship,    \* the table: the row of a pair, or None
    asked,         \* who has ever asked whom (history)
    user_cache,    \* UserCollection::user_cache: a user's friendships, or None
    friend_call,   \* what each future is doing
    disturbed      \* whether two calls were ever under way at once, or a read failed (history)

friendVars == <<friendship, asked, user_cache, friend_call, disturbed>>

\* normalize: a pair has one row, whoever asks.
Pair == {{a, b} : a, b \in UserId}

\* DbFriendship: the request of requester, or a friendship that came of it.
FriendshipRow == [requester : UserId, status : {"pending", "friends"}]

BackendFriendshipState == {"Stranger", "ReqIncoming", "ReqOutgoing", "Friends"}

\* BackendFriendshipsMe: how a user stands with everyone.
Views == [UserId -> BackendFriendshipState]

FriendCall == [user : UserId, other : UserId, action : {"Me", "Request", "Delete"},
               pc : {"query", "put", "decide", "execute", "invalidate"},
               view : Views \cup {None}]

ASSUME NoneIsNoCall == None \notin FriendCall

FriendsTypeOK ==
    /\ friendship \in [Pair -> FriendshipRow \cup {None}]
    /\ asked \subseteq UserId \X UserId
    /\ user_cache \in [UserId -> Views \cup {None}]
    /\ friend_call \in [Request -> FriendCall \cup {None}]
    /\ disturbed \in BOOLEAN

FriendsInit ==
    /\ friendship = [p \in Pair |-> None]
    /\ asked = {}
    /\ user_cache = [u \in UserId |-> None]
    /\ friend_call = [r \in Request |-> None]
    /\ disturbed = FALSE

\* A mistake: whoever looks at a request takes it for one made to him.
ToBackendAlwaysIncoming(u, o) ==
    LET row == friendship[{u, o}]
    IN  IF row = None THEN "Stranger"
        ELSE IF row.status = "friends" THEN "Friends"
        ELSE "ReqIncoming"

\* DbFriendship::to_backend.
ToBackend(u, o) ==
    LET row == friendship[{u, o}]
    IN  IF row = None THEN "Stranger"
        ELSE IF row.status = "friends" THEN "Friends"
        ELSE IF row.requester = u THEN "ReqOutgoing" ELSE "ReqIncoming"

\* FriendshipCollection::get_for.
GetFor(u) == [o \in UserId |-> ToBackend(u, o)]

\* What the handler of UserAction does, by how its user stands with the other.
\* "agree" answers true and changes nothing, "refuse" answers false.
Decision(action, state) ==
    CASE action = "Request" /\ state = "ReqIncoming" -> "upgrade_to_friends"
      [] action = "Request" /\ state = "ReqOutgoing" -> "agree"
      [] action = "Request" /\ state = "Stranger"    -> "insert"
      [] action = "Delete"  /\ state # "Stranger"    -> "remove"
      [] OTHER                                       -> "refuse"

------------------------------------------------------------------------------

\* A request arrives and get_by_id looks into the cache.
CallArrives(r, u, o, action) ==
    /\ friend_call[r] = None
    /\ friend_call' = [friend_call EXCEPT ![r] =
           [user |-> u, other |-> o, action |-> action, view |-> user_cache[u],
            pc |-> IF user_cache[u] = None THEN "query" ELSE "decide"]]
    /\ asked' = IF action = "Request" THEN asked \cup {<<u, o>>} ELSE asked
    /\ disturbed' = (disturbed \/ \E q \in Request : friend_call[q] # None)
    /\ UNCHANGED <<friendship, user_cache>>

\* The database answers get_for.
FriendshipsRead(r) ==
    /\ friend_call[r] # None /\ friend_call[r].pc = "query"
    /\ friend_call' = [friend_call EXCEPT ![r].view = GetFor(friend_call[r].user),
                                          ![r].pc = "put"]
    /\ UNCHANGED <<friendship, asked, user_cache, disturbed>>

\* A query fails: the user is not found and the call is over, or get_for has no
\* row, and everybody is taken for a stranger.
ReadFails(r) ==
    /\ friend_call[r] # None /\ friend_call[r].pc = "query"
    /\ friend_call' \in {[friend_call EXCEPT ![r] = None],
                        [friend_call EXCEPT ![r].view = [o \in UserId |-> "Stranger"],
                                            ![r].pc = "put"]}
    /\ disturbed' = TRUE
    /\ UNCHANGED <<friendship, asked, user_cache>>

\* The answer arrives: cache_put, and on to the handler.
CachePut(r) ==
    /\ friend_call[r] # None /\ friend_call[r].pc = "put"
    /\ user_cache' = [user_cache EXCEPT ![friend_call[r].user] = friend_call[r].view]
    /\ friend_call' = [friend_call EXCEPT ![r].pc = "decide"]
    /\ UNCHANGED <<friendship, asked, disturbed>>

\* The handler decides on the view it was given: nothing to do, or a statement.
Decide(r) ==
    LET call     == friend_call[r]
        decision == Decision(call.action, call.view[call.other])
    IN  /\ call # None /\ call.pc = "decide"
        /\ friend_call' =
             IF decision = "refuse" THEN [friend_call EXCEPT ![r] = None]
             ELSE [friend_call EXCEPT ![r].pc =
                       IF decision = "agree" THEN "invalidate" ELSE "execute"]
        /\ UNCHANGED <<friendship, asked, user_cache, disturbed>>

\* INSERT .. ON CONFLICT DO NOTHING, UPDATE and DELETE of the pair's row: they
\* do not look at what the row has become since it was read.
RowAfter(decision, u, row) ==
    CASE decision = "insert" /\ row = None ->
            [requester |-> u, status |-> "pending"]
      [] decision = "upgrade_to_friends" /\ row # None ->
            [row EXCEPT !.status = "friends"]
      [] decision = "remove" -> None
      [] OTHER -> row

\* The statement runs; what it answers says that it ran, not that it changed a row.
StatementRuns(r) ==
    LET call == friend_call[r]
        pair == {call.user, call.other}
    IN  /\ call # None /\ call.pc = "execute"
        /\ friendship' = [friendship EXCEPT ![pair] =
               RowAfter(Decision(call.action, call.view[call.other]), call.user, @)]
        /\ friend_call' = [friend_call EXCEPT ![r].pc = "invalidate"]
        /\ UNCHANGED <<asked, user_cache, disturbed>>

\* The statement fails: updated is false, nothing is invalidated.
StatementFails(r) ==
    /\ friend_call[r] # None /\ friend_call[r].pc = "execute"
    /\ friend_call' = [friend_call EXCEPT ![r] = None]
    /\ UNCHANGED <<friendship, asked, user_cache, disturbed>>

\* A mistake: only the entry of the user who acts is dropped.
InvalidateOwn(r) ==
    LET call == friend_call[r]
    IN  /\ call # None /\ call.pc = "invalidate"
        /\ user_cache' = [user_cache EXCEPT ![call.user] = None]
        /\ friend_call' = [friend_call EXCEPT ![r] = None]
        /\ UNCHANGED <<friendship, asked, disturbed>>

\* invalidate_cache of both users, and the answer.
Invalidate(r) ==
    LET call == friend_call[r]
    IN  /\ call # None /\ call.pc = "invalidate"
        /\ user_cache' = [user_cache EXCEPT ![call.user] = None, ![call.other] = None]
        /\ friend_call' = [friend_call EXCEPT ![r] = None]
        /\ UNCHANGED <<friendship, asked, disturbed>>

\* An entry is older than CACHE_TTL_SECS, or a settlement or a connection has
\* changed the user (UserCollection::update, invalidate_cache).
CacheForgets(u) ==
    /\ user_cache[u] # None
    /\ user_cache' = [user_cache EXCEPT ![u] = None]
    /\ UNCHANGED <<friendship, asked, friend_call, disturbed>>

FriendsNext ==
    \/ \E r \in Request :
         \/ \E u \in UserId : \E o \in UserId \ {u}, action \in {"Me", "Request", "Delete"} :
              CallArrives(r, u, o, action)
         \/ FriendshipsRead(r)
         \/ ReadFails(r)
         \/ CachePut(r)
         \/ Decide(r)
         \/ StatementRuns(r)
         \/ StatementFails(r)
         \/ Invalidate(r)
    \/ \E u \in UserId : CacheForgets(u)

FriendsSpec == FriendsInit /\ [][FriendsNext]_friendVars

------------------------------------------------------------------------------

\* Two users are friends only if each has asked for it: on however old a view
\* a request is decided, nobody is made a friend by the other alone
\* (user_mgr.rs:506-518 upgrades whatever row the pair has by then).
FriendsHaveBothAsked ==
    \A a, b \in UserId :
        a # b /\ friendship[{a, b}] # None /\ friendship[{a, b}].status = "friends"
            => {<<a, b>>, <<b, a>>} \subseteq asked

\* As long as one call has followed another and every read was answered, the
\* cache shows nobody a friendship that the table no longer has: between calls
\* each entry is the table's (users.rs:236-251 fills it, user_mgr.rs:529-531 and
\* 551-554 drop it).
ViewIsCurrentWhenAlone ==
    ~disturbed /\ (\A r \in Request : friend_call[r] = None) =>
        \A u \in UserId : user_cache[u] # None =>
            \A o \in UserId \ {u} : user_cache[u][o] = ToBackend(u, o)
===============================================================================
