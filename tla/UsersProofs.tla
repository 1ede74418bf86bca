------------------------------ MODULE UsersProofs -------------------------------
(* What is stored of users is decided on old views, by any number of requests  *)
(* at once: nobody is made a friend by the other alone, a platform user is one *)
(* user of the server, and names do not collide when nobody interferes.        *)
EXTENDS Friendships, Accounts, TLAPS

-------------------------------------------------------------------------------
(* Friendships.                                                              *)

\* A row is the request of one of its two users, who has asked; and if it is a
\* friendship both have.
RowsAreAskedFor ==
    \A a, b \in UserId : a # b /\ friendship[{a, b}] # None =>
        /\ friendship[{a, b}].requester \in {a, b}
        /\ friendship[{a, b}].requester = a => <<a, b>> \in asked
        /\ friendship[{a, b}].status = "friends" => <<a, b>> \in asked

\* A view is old, but who is shown as asking has asked.
ViewIsAskedFor(u, view) ==
    \A o \in UserId : o # u /\ view[o] = "ReqIncoming" => <<o, u>> \in asked

CachesAreAskedFor ==
    \A u \in UserId : user_cache[u] # None => ViewIsAskedFor(u, user_cache[u])

CallIsAskedFor(call) ==
    /\ call.user # call.other
    /\ call.action = "Request" => <<call.user, call.other>> \in asked
    /\ call.pc # "query" => call.view \in Views /\ ViewIsAskedFor(call.user, call.view)

CallsAreAskedFor ==
    \A r \in Request : friend_call[r] # None => CallIsAskedFor(friend_call[r])

FriendsInv == FriendsTypeOK /\ RowsAreAskedFor /\ CachesAreAskedFor /\ CallsAreAskedFor

-------------------------------------------------------------------------------

\* A pair is one row, in whichever order its users are named.
LEMMA PairFacts ==
    ASSUME NEW a \in UserId, NEW b \in UserId
    PROVE  /\ {a, b} \in Pair
           /\ {a, b} = {b, a}
           /\ \A u, o \in UserId : {a, b} = {u, o} => (a = u /\ b = o) \/ (a = o /\ b = u)
  BY DEF Pair

\* What a decision presupposes.
LEMMA DecisionFacts ==
    ASSUME NEW action, NEW state
    PROVE  /\ Decision(action, state) = "insert" => action = "Request"
           /\ Decision(action, state) = "upgrade_to_friends" =>
                action = "Request" /\ state = "ReqIncoming"
  BY DEF Decision

\* What a user is shown of the table has been asked for.
LEMMA TableIsAskedFor ==
    ASSUME FriendsTypeOK, RowsAreAskedFor, NEW u \in UserId
    PROVE  GetFor(u) \in Views /\ ViewIsAskedFor(u, GetFor(u))
<1>1. ASSUME NEW o \in UserId
      PROVE  ToBackend(u, o) \in BackendFriendshipState
  BY DEF ToBackend, BackendFriendshipState
<1>2. GetFor(u) \in Views
  BY <1>1 DEF GetFor, Views
<1>3. ASSUME NEW o \in UserId, o # u, GetFor(u)[o] = "ReqIncoming"
      PROVE  <<o, u>> \in asked
  <2> DEFINE row == friendship[{o, u}]
  <2>1. ToBackend(u, o) = "ReqIncoming"
    BY <1>3 DEF GetFor
  <2>2. row # None /\ row.requester # u
    BY <2>1, PairFacts DEF ToBackend
  <2>3. row.requester \in {o, u} /\ (row.requester = o => <<o, u>> \in asked)
    BY <1>3, <2>2 DEF RowsAreAskedFor
  <2>4. QED
    BY <2>2, <2>3
<1>4. QED
  BY <1>2, <1>3 DEF ViewIsAskedFor

\* A statement leaves what has been asked for.
LEMMA RowAfterIsAskedFor ==
    ASSUME FriendsTypeOK, RowsAreAskedFor, NEW call \in FriendCall, CallIsAskedFor(call),
           call.pc # "query", NEW d, d = Decision(call.action, call.view[call.other]),
           NEW row, row = RowAfter(d, call.user, friendship[{call.user, call.other}])
    PROVE  /\ row \in FriendshipRow \cup {None}
           /\ row # None =>
                /\ row.requester \in {call.user, call.other}
                /\ row.requester = call.user => <<call.user, call.other>> \in asked
                /\ row.requester = call.other => <<call.other, call.user>> \in asked
                /\ row.status = "friends" =>
                     {<<call.user, call.other>>, <<call.other, call.user>>} \subseteq asked
<1> DEFINE u == call.user
           o == call.other
           old == friendship[{u, o}]
<1>1. u \in UserId /\ o \in UserId /\ u # o
  BY DEF FriendCall, CallIsAskedFor
<1>2. old \in FriendshipRow \cup {None}
  BY <1>1 DEF FriendsTypeOK, Pair
<1>3. old # None =>
        /\ old.requester \in {u, o}
        /\ old.requester = u => <<u, o>> \in asked
        /\ old.requester = o => <<o, u>> \in asked
        /\ old.status = "friends" => {<<u, o>>, <<o, u>>} \subseteq asked
  <2>1. {u, o} = {o, u}
    OBVIOUS
  <2>2. old # None => /\ old.requester \in {u, o}
                      /\ old.requester = u => <<u, o>> \in asked
                      /\ old.status = "friends" => <<u, o>> \in asked
    BY <1>1 DEF RowsAreAskedFor
  <2>3. old # None => /\ old.requester = o => <<o, u>> \in asked
                      /\ old.status = "friends" => <<o, u>> \in asked
    BY <1>1, <2>1 DEF RowsAreAskedFor
  <2>4. QED
    BY <2>2, <2>3
<1>4. CASE d = "insert" /\ old = None
  <2>1. row = [requester |-> u, status |-> "pending"]
    BY <1>4 DEF RowAfter
  <2>2. <<u, o>> \in asked
    BY <1>4, DecisionFacts DEF CallIsAskedFor
  <2>3. QED
    BY <1>1, <2>1, <2>2 DEF FriendshipRow
<1>5. CASE d = "upgrade_to_friends" /\ old # None
  <2>1. row = [old EXCEPT !.status = "friends"]
    BY <1>5 DEF RowAfter
  <2>2. <<u, o>> \in asked /\ <<o, u>> \in asked
    BY <1>1, <1>5, DecisionFacts DEF CallIsAskedFor, ViewIsAskedFor
  <2>3. QED
    BY <1>1, <1>2, <1>3, <1>5, <2>1, <2>2 DEF FriendshipRow
<1>6. CASE d = "remove"
  BY <1>6 DEF RowAfter
<1>7. CASE ~(d = "insert" /\ old = None) /\ ~(d = "upgrade_to_friends" /\ old # None)
           /\ d # "remove"
  <2>1. row = old
    BY <1>7 DEF RowAfter
  <2>2. QED
    BY <1>2, <1>3, <2>1
<1>8. QED
  BY <1>4, <1>5, <1>6, <1>7

-------------------------------------------------------------------------------

LEMMA FriendsInvInit == FriendsInit => FriendsInv
  BY PairFacts DEF FriendsInit, FriendsInv, FriendsTypeOK, RowsAreAskedFor,
                   CachesAreAskedFor, CallsAreAskedFor

\* A request arrives.
LEMMA ArrivalKeepsInv ==
    ASSUME FriendsInv, NEW r \in Request, NEW u \in UserId, NEW o \in UserId \ {u},
           NEW action \in {"Me", "Request", "Delete"}, CallArrives(r, u, o, action)
    PROVE  FriendsInv'
<1> USE DEF FriendsInv
<1>1. FriendsTypeOK'
  BY DEF FriendsTypeOK, CallArrives, FriendCall
<1>2. asked \subseteq asked' /\ friendship' = friendship /\ user_cache' = user_cache
  BY DEF CallArrives
<1>3. RowsAreAskedFor'
  BY <1>2 DEF RowsAreAskedFor
<1>4. CachesAreAskedFor'
  BY <1>2 DEF CachesAreAskedFor, ViewIsAskedFor
<1>5. ASSUME NEW q \in Request, friend_call'[q] # None
      PROVE  CallIsAskedFor(friend_call[q])'
  <2>1. CASE q # r
    <3>1. friend_call'[q] = friend_call[q]
      BY <2>1 DEF CallArrives, FriendsTypeOK
    <3>2. CallIsAskedFor(friend_call[q])
      BY <1>5, <3>1 DEF CallsAreAskedFor
    <3>3. QED
      BY <1>2, <3>1, <3>2 DEF CallIsAskedFor, ViewIsAskedFor
  <2>2. CASE q = r
    <3>1. friend_call'[r] = [user |-> u, other |-> o, action |-> action, view |-> user_cache[u],
              pc |-> IF user_cache[u] = None THEN "query" ELSE "decide"]
      BY DEF CallArrives, FriendsTypeOK
    <3>2. action = "Request" => <<u, o>> \in asked'
      BY DEF CallArrives
    <3>3. user_cache[u] # None => user_cache[u] \in Views /\ ViewIsAskedFor(u, user_cache[u])'
      BY <1>2 DEF FriendsTypeOK, CachesAreAskedFor, ViewIsAskedFor
    <3>4. QED
      BY <1>2, <2>2, <3>1, <3>2, <3>3 DEF CallIsAskedFor
  <2>3. QED
    BY <2>1, <2>2
<1>6. QED
  BY <1>1, <1>3, <1>4, <1>5 DEF CallsAreAskedFor

\* A call goes on as another that is asked for, or ends; the others are untouched.
LEMMA CallUpdated ==
    ASSUME FriendsInv, NEW r \in Request, NEW c,
           c # None => c \in FriendCall /\ CallIsAskedFor(c),
           friend_call' = [friend_call EXCEPT ![r] = c]
    PROVE  /\ friend_call' \in [Request -> FriendCall \cup {None}]
           /\ \A q \in Request \ {r} : friend_call'[q] = friend_call[q]
           /\ friend_call'[r] # None => CallIsAskedFor(friend_call'[r])
<1>1. c \in FriendCall \cup {None} /\ friend_call \in [Request -> FriendCall \cup {None}]
  BY DEF FriendsInv, FriendsTypeOK
<1>2. friend_call'[r] = c
  BY <1>1
<1>3. QED
  BY <1>1, <1>2

\* Steps of a call that change nothing but the call, or fill or drop cache entries.
LEMMA CallStepKeepsInv ==
    ASSUME FriendsInv, NEW r \in Request,
           \/ FriendshipsRead(r) \/ ReadFails(r) \/ CachePut(r) \/ Decide(r)
           \/ StatementFails(r) \/ Invalidate(r)
    PROVE  FriendsInv'
<1> USE DEF FriendsInv
<1> DEFINE call == friend_call[r]
<1>1. /\ call # None /\ call \in FriendCall /\ CallIsAskedFor(call)
      /\ friendship' = friendship /\ asked' = asked
  BY DEF FriendsTypeOK, CallsAreAskedFor, FriendshipsRead, ReadFails, CachePut, Decide,
         StatementFails, Invalidate
<1>2. RowsAreAskedFor'
  BY <1>1 DEF RowsAreAskedFor
<1>3. /\ friend_call' \in [Request -> FriendCall \cup {None}]
      /\ \A q \in Request \ {r} : friend_call'[q] = friend_call[q]
      /\ friend_call'[r] # None => CallIsAskedFor(friend_call'[r])
  <2>1. CASE FriendshipsRead(r)
    <3>1. GetFor(call.user) \in Views /\ ViewIsAskedFor(call.user, GetFor(call.user))
      BY <1>1, TableIsAskedFor DEF FriendCall
    <3>2. friend_call' = [friend_call EXCEPT ![r] =
              [call EXCEPT !.view = GetFor(call.user), !.pc = "put"]]
      BY <2>1 DEF FriendshipsRead, FriendsTypeOK
    <3>3. /\ [call EXCEPT !.view = GetFor(call.user), !.pc = "put"] \in FriendCall
          /\ CallIsAskedFor([call EXCEPT !.view = GetFor(call.user), !.pc = "put"])
      BY <1>1, <3>1 DEF FriendCall, CallIsAskedFor
    <3>4. QED
      BY <3>2, <3>3, CallUpdated
  <2>2. CASE ReadFails(r)
    <3> DEFINE strangers == [o \in UserId |-> "Stranger"]
    <3>1. strangers \in Views /\ ViewIsAskedFor(call.user, strangers)
      BY DEF Views, BackendFriendshipState, ViewIsAskedFor
    <3>2. \/ friend_call' = [friend_call EXCEPT ![r] = None]
          \/ friend_call' = [friend_call EXCEPT ![r] =
                                 [call EXCEPT !.view = strangers, !.pc = "put"]]
      BY <2>2 DEF ReadFails, FriendsTypeOK
    <3>3. /\ [call EXCEPT !.view = strangers, !.pc = "put"] \in FriendCall
          /\ CallIsAskedFor([call EXCEPT !.view = strangers, !.pc = "put"])
      BY <1>1, <3>1 DEF FriendCall, CallIsAskedFor
    <3>4. QED
      BY <3>2, <3>3, CallUpdated
  <2>3. CASE CachePut(r)
    <3>1. friend_call' = [friend_call EXCEPT ![r] = [call EXCEPT !.pc = "decide"]]
      BY <2>3 DEF CachePut, FriendsTypeOK
    <3>2. [call EXCEPT !.pc = "decide"] \in FriendCall
          /\ CallIsAskedFor([call EXCEPT !.pc = "decide"])
      BY <1>1, <2>3 DEF FriendCall, CallIsAskedFor, CachePut
    <3>3. QED
      BY <3>1, <3>2, CallUpdated
  <2>4. CASE Decide(r)
    <3>1. \/ friend_call' = [friend_call EXCEPT ![r] = None]
          \/ friend_call' = [friend_call EXCEPT ![r] = [call EXCEPT !.pc = "invalidate"]]
          \/ friend_call' = [friend_call EXCEPT ![r] = [call EXCEPT !.pc = "execute"]]
      BY <2>4 DEF Decide, FriendsTypeOK
    <3>2. ASSUME NEW pc \in {"invalidate", "execute"}
          PROVE  [call EXCEPT !.pc = pc] \in FriendCall
                 /\ CallIsAskedFor([call EXCEPT !.pc = pc])
      BY <1>1, <2>4 DEF FriendCall, CallIsAskedFor, Decide
    <3>3. QED
      BY <3>1, <3>2, CallUpdated
  <2>5. CASE StatementFails(r) \/ Invalidate(r)
    BY <2>5 DEF StatementFails, Invalidate, FriendsTypeOK
  <2>6. QED
    BY <2>1, <2>2, <2>3, <2>4, <2>5
<1>4. CallsAreAskedFor'
  <2>1. ASSUME NEW q \in Request, friend_call'[q] # None
        PROVE  CallIsAskedFor(friend_call'[q])
    BY <1>3, <2>1 DEF CallsAreAskedFor
  <2>2. QED
    BY <1>1, <2>1 DEF CallsAreAskedFor, CallIsAskedFor, ViewIsAskedFor
<1>5. /\ user_cache' \in [UserId -> Views \cup {None}]
      /\ \A u \in UserId : user_cache'[u] # None => ViewIsAskedFor(u, user_cache'[u])
  <2>1. CASE CachePut(r)
    <3>1. call.view \in Views /\ ViewIsAskedFor(call.user, call.view)
      BY <1>1, <2>1 DEF CachePut, CallIsAskedFor
    <3>2. user_cache' = [user_cache EXCEPT ![call.user] = call.view]
      BY <2>1 DEF CachePut
    <3>3. QED
      BY <3>1, <3>2 DEF FriendsTypeOK, CachesAreAskedFor
  <2>2. CASE Invalidate(r)
    BY <2>2 DEF Invalidate, FriendsTypeOK, CachesAreAskedFor
  <2>3. CASE ~CachePut(r) /\ ~Invalidate(r)
    BY <2>3 DEF FriendsTypeOK, CachesAreAskedFor, FriendshipsRead, ReadFails, Decide,
                StatementFails
  <2>4. QED
    BY <2>1, <2>2, <2>3
<1>6. CachesAreAskedFor'
  BY <1>1, <1>5 DEF CachesAreAskedFor, ViewIsAskedFor
<1>7. disturbed' \in BOOLEAN
  BY DEF FriendsTypeOK, FriendshipsRead, ReadFails, CachePut, Decide, StatementFails, Invalidate
<1>8. QED
  BY <1>1, <1>2, <1>3, <1>4, <1>5, <1>6, <1>7 DEF FriendsTypeOK

\* A statement of a request or a removal runs.
LEMMA StatementKeepsInv ==
    ASSUME FriendsInv, NEW r \in Request, StatementRuns(r)
    PROVE  FriendsInv'
<1> USE DEF FriendsInv
<1> DEFINE call == friend_call[r]
           d == Decision(call.action, call.view[call.other])
           pair == {call.user, call.other}
           row == RowAfter(d, call.user, friendship[pair])
<1>1. /\ call # None /\ call \in FriendCall /\ CallIsAskedFor(call) /\ call.pc = "execute"
      /\ asked' = asked /\ user_cache' = user_cache /\ disturbed' = disturbed
  BY DEF FriendsTypeOK, CallsAreAskedFor, StatementRuns
<1>2. friend_call' = [friend_call EXCEPT ![r] = [call EXCEPT !.pc = "invalidate"]]
  BY DEF StatementRuns, FriendsTypeOK
<1>3. friend_call' \in [Request -> FriendCall \cup {None}] /\ CallsAreAskedFor'
  <2>1. [call EXCEPT !.pc = "invalidate"] \in FriendCall
        /\ CallIsAskedFor([call EXCEPT !.pc = "invalidate"])
    BY <1>1 DEF FriendCall, CallIsAskedFor
  <2>2. ASSUME NEW q \in Request, friend_call'[q] # None
        PROVE  CallIsAskedFor(friend_call'[q])
    BY <1>2, <2>1, <2>2 DEF FriendsTypeOK, CallsAreAskedFor
  <2>3. QED
    BY <1>1, <1>2, <2>1, <2>2 DEF FriendsTypeOK, CallsAreAskedFor, CallIsAskedFor,
                                  ViewIsAskedFor
<1>4. CachesAreAskedFor'
  BY <1>1 DEF CachesAreAskedFor, ViewIsAskedFor
<1>5. call.user \in UserId /\ call.other \in UserId /\ call.user # call.other /\ pair \in Pair
  BY <1>1, PairFacts DEF FriendCall, CallIsAskedFor
<1>6. friendship' = [friendship EXCEPT ![pair] = row]
  BY DEF StatementRuns
<1>7. /\ row \in FriendshipRow \cup {None}
      /\ row # None =>
           /\ row.requester \in pair
           /\ row.requester = call.user => <<call.user, call.other>> \in asked
           /\ row.requester = call.other => <<call.other, call.user>> \in asked
           /\ row.status = "friends" =>
                {<<call.user, call.other>>, <<call.other, call.user>>} \subseteq asked
  <2>1. call.pc # "query"
    BY <1>1
  <2>2. QED
    BY <1>1, <2>1, RowAfterIsAskedFor
<1>8. FriendsTypeOK'
  BY <1>1, <1>3, <1>5, <1>6, <1>7 DEF FriendsTypeOK
<1>9. RowsAreAskedFor'
  <2> SUFFICES ASSUME NEW a \in UserId, NEW b \in UserId, a # b, friendship'[{a, b}] # None
               PROVE  /\ friendship'[{a, b}].requester \in {a, b}
                      /\ friendship'[{a, b}].requester = a => <<a, b>> \in asked
                      /\ friendship'[{a, b}].status = "friends" => <<a, b>> \in asked
    BY <1>1 DEF RowsAreAskedFor
  <2>1. {a, b} \in Pair
    BY PairFacts
  <2>2. CASE {a, b} # pair
    <3>1. friendship'[{a, b}] = friendship[{a, b}]
      BY <1>6, <2>1, <2>2 DEF FriendsTypeOK
    <3>2. QED
      BY <3>1 DEF RowsAreAskedFor
  <2>3. CASE {a, b} = pair
    <3>1. friendship'[{a, b}] = row
      BY <1>6, <2>1, <2>3 DEF FriendsTypeOK
    <3>2. (a = call.user /\ b = call.other) \/ (a = call.other /\ b = call.user)
      BY <1>5, <2>3, PairFacts
    <3>3. QED
      BY <1>7, <2>3, <3>1, <3>2
  <2>4. QED
    BY <2>2, <2>3
<1>10. QED
  BY <1>3, <1>4, <1>8, <1>9

\* An entry of the cache is forgotten.
LEMMA ForgettingKeepsInv ==
    ASSUME FriendsInv, NEW u \in UserId, CacheForgets(u)
    PROVE  FriendsInv'
  BY DEF FriendsInv, FriendsTypeOK, CacheForgets, RowsAreAskedFor, CachesAreAskedFor,
         CallsAreAskedFor, CallIsAskedFor, ViewIsAskedFor

-------------------------------------------------------------------------------

\* The inductive invariant: rows, cached views and views held by calls show only
\* requests that were made.
THEOREM FriendsInvariant == FriendsSpec => []FriendsInv
<1>1. FriendsInv /\ [FriendsNext]_friendVars => FriendsInv'
  <2> SUFFICES ASSUME FriendsInv, [FriendsNext]_friendVars
               PROVE  FriendsInv'
    OBVIOUS
  <2>1. CASE UNCHANGED friendVars
    BY <2>1 DEF friendVars, FriendsInv, FriendsTypeOK, RowsAreAskedFor, CachesAreAskedFor,
                CallsAreAskedFor, CallIsAskedFor, ViewIsAskedFor
  <2>2. CASE \E r \in Request, u \in UserId : \E o \in UserId \ {u},
                action \in {"Me", "Request", "Delete"} : CallArrives(r, u, o, action)
    BY <2>2, ArrivalKeepsInv
  <2>3. CASE \E r \in Request : FriendshipsRead(r) \/ ReadFails(r) \/ CachePut(r) \/ Decide(r)
                                  \/ StatementFails(r) \/ Invalidate(r)
    BY <2>3, CallStepKeepsInv
  <2>4. CASE \E r \in Request : StatementRuns(r)
    BY <2>4, StatementKeepsInv
  <2>5. CASE \E u \in UserId : CacheForgets(u)
    BY <2>5, ForgettingKeepsInv
  <2>6. QED
    BY <2>1, <2>2, <2>3, <2>4, <2>5 DEF FriendsNext
<1>2. QED
  BY <1>1, FriendsInvInit, PTL DEF FriendsSpec

\* Types, for any users and any number of requests.
THEOREM FriendsTypeCorrect == FriendsSpec => []FriendsTypeOK
<1>1. FriendsInv => FriendsTypeOK
  BY DEF FriendsInv
<1>2. QED
  BY <1>1, FriendsInvariant, PTL

\* Two users are friends only if each has asked for it: UserAction decides on an
\* old view and upgrades whatever row is there, and yet never makes a friend of
\* somebody who did not ask.
THEOREM FriendsAreMutual == FriendsSpec => []FriendsHaveBothAsked
<1>1. FriendsInv => FriendsHaveBothAsked
  <2> SUFFICES ASSUME FriendsInv, NEW a \in UserId, NEW b \in UserId, a # b,
                      friendship[{a, b}] # None, friendship[{a, b}].status = "friends"
               PROVE  {<<a, b>>, <<b, a>>} \subseteq asked
    BY DEF FriendsHaveBothAsked
  <2>1. {a, b} = {b, a}
    OBVIOUS
  <2>2. QED
    BY <2>1 DEF FriendsInv, RowsAreAskedFor
<1>2. QED
  BY <1>1, FriendsInvariant, PTL

-------------------------------------------------------------------------------

\* Undisturbed, one call is under way at most, what it has read is what the table
\* has, and so is every cached view but those it is about to drop.
OneCallAtMost ==
    \A r, q \in Request : friend_call[r] # None /\ friend_call[q] # None => r = q

ReadsAreCurrent ==
    \A r \in Request : friend_call[r] # None /\ friend_call[r].pc = "put" =>
        \A o \in UserId \ {friend_call[r].user} :
            friend_call[r].view[o] = ToBackend(friend_call[r].user, o)

IsDropped(u) ==
    \E r \in Request : /\ friend_call[r] # None /\ friend_call[r].pc = "invalidate"
                       /\ u \in {friend_call[r].user, friend_call[r].other}

IsCurrent(u) == \A o \in UserId \ {u} : user_cache[u][o] = ToBackend(u, o)

CachesAreCurrent == \A u \in UserId : user_cache[u] # None /\ ~IsDropped(u) => IsCurrent(u)

CurrentInv == ~disturbed => OneCallAtMost /\ ReadsAreCurrent /\ CachesAreCurrent

\* While no row changes the table shows everyone the same.
LEMMA TableUnchanged ==
    ASSUME friendship' = friendship
    PROVE  \A u, o : ToBackend(u, o)' = ToBackend(u, o)
  BY DEF ToBackend

\* The call under way becomes another, or ends; the others are idle.
LEMMA TheCallChanges ==
    ASSUME FriendsInv, OneCallAtMost, NEW r \in Request, friend_call[r] # None, NEW c,
           friend_call' = [friend_call EXCEPT ![r] = c]
    PROVE  /\ friend_call'[r] = c
           /\ \A q \in Request \ {r} : friend_call[q] = None /\ friend_call'[q] = None
           /\ OneCallAtMost'
<1>1. /\ friend_call'[r] = c
      /\ \A q \in Request \ {r} : friend_call[q] = None /\ friend_call'[q] = None
  BY DEF FriendsInv, FriendsTypeOK, OneCallAtMost
<1>2. QED
  BY <1>1 DEF OneCallAtMost

LEMMA ArrivalKeepsCurrent ==
    ASSUME FriendsInv, CurrentInv, NEW r \in Request, NEW u \in UserId,
           NEW o \in UserId \ {u}, NEW action, CallArrives(r, u, o, action)
    PROVE  CurrentInv'
<1> SUFFICES ASSUME ~disturbed'
             PROVE  OneCallAtMost' /\ ReadsAreCurrent' /\ CachesAreCurrent'
  BY DEF CurrentInv
<1>1. /\ ~disturbed /\ \A q \in Request : friend_call[q] = None
      /\ friendship' = friendship /\ user_cache' = user_cache
  BY DEF CallArrives
<1>2. /\ friend_call'[r].pc \in {"query", "decide"}
      /\ \A q \in Request \ {r} : friend_call'[q] = None
  BY <1>1 DEF CallArrives, FriendsInv, FriendsTypeOK
<1>3. OneCallAtMost' /\ ReadsAreCurrent'
  BY <1>2 DEF OneCallAtMost, ReadsAreCurrent
<1>4. \A v \in UserId : ~IsDropped(v)
  BY <1>1 DEF IsDropped
<1>5. CachesAreCurrent'
  BY <1>1, <1>4, TableUnchanged DEF CurrentInv, CachesAreCurrent, IsCurrent
<1>6. QED
  BY <1>3, <1>5

\* Steps of the call that leave the table alone.
LEMMA CallStepKeepsCurrent ==
    ASSUME FriendsInv, CurrentInv, NEW r \in Request,
           \/ FriendshipsRead(r) \/ CachePut(r) \/ Decide(r)
           \/ StatementFails(r) \/ Invalidate(r)
    PROVE  CurrentInv'
<1> DEFINE call == friend_call[r]
<1>1. /\ call # None /\ call \in FriendCall /\ friendship' = friendship
      /\ disturbed' = disturbed
  BY DEF FriendsInv, FriendsTypeOK, FriendshipsRead, CachePut, Decide, StatementFails,
         Invalidate
<1> SUFFICES ASSUME ~disturbed
             PROVE  OneCallAtMost' /\ ReadsAreCurrent' /\ CachesAreCurrent'
  BY <1>1 DEF CurrentInv
<1>2. OneCallAtMost /\ ReadsAreCurrent /\ CachesAreCurrent
  BY DEF CurrentInv
<1>3. \A u, o : ToBackend(u, o)' = ToBackend(u, o)
  BY <1>1, TableUnchanged
<1>4. call.user \in UserId /\ call.other \in UserId
  BY <1>1 DEF FriendCall
<1>5. \A q \in Request \ {r} : friend_call[q] = None
  BY <1>1, <1>2 DEF OneCallAtMost
<1>6. call.pc # "invalidate" => \A u \in UserId : user_cache[u] # None => IsCurrent(u)
  BY <1>2, <1>5 DEF CachesAreCurrent, IsDropped
<1>7. CASE FriendshipsRead(r)
  <2>1. PICK c : /\ c = [call EXCEPT !.view = GetFor(call.user), !.pc = "put"]
                 /\ friend_call' = [friend_call EXCEPT ![r] = c]
    BY <1>7 DEF FriendshipsRead, FriendsInv, FriendsTypeOK
  <2>2. c.pc = "put" /\ c.user = call.user /\ c.view = GetFor(call.user)
    BY <1>1, <2>1 DEF FriendCall
  <2>3. /\ friend_call'[r] = c /\ OneCallAtMost'
        /\ \A q \in Request \ {r} : friend_call'[q] = None
    BY <1>1, <1>2, <2>1, TheCallChanges
  <2>4. ReadsAreCurrent'
    BY <1>3, <1>4, <2>2, <2>3 DEF ReadsAreCurrent, GetFor
  <2>5. CachesAreCurrent'
    BY <1>3, <1>6, <1>7 DEF FriendshipsRead, CachesAreCurrent, IsCurrent
  <2>6. QED
    BY <2>3, <2>4, <2>5
<1>8. CASE CachePut(r)
  <2>1. PICK c : /\ c = [call EXCEPT !.pc = "decide"]
                 /\ friend_call' = [friend_call EXCEPT ![r] = c]
    BY <1>8 DEF CachePut, FriendsInv, FriendsTypeOK
  <2>2. c.pc = "decide"
    BY <1>1, <2>1 DEF FriendCall
  <2>3. /\ friend_call'[r] = c /\ OneCallAtMost'
        /\ \A q \in Request \ {r} : friend_call'[q] = None
    BY <1>1, <1>2, <2>1, TheCallChanges
  <2>4. ReadsAreCurrent'
    BY <2>2, <2>3 DEF ReadsAreCurrent
  <2>5. \A o \in UserId \ {call.user} : call.view[o] = ToBackend(call.user, o)
    BY <1>1, <1>2, <1>8 DEF CachePut, ReadsAreCurrent
  <2>6. \A u \in UserId : user_cache'[u] = IF u = call.user THEN call.view ELSE user_cache[u]
    BY <1>4, <1>8 DEF CachePut, FriendsInv, FriendsTypeOK
  <2>7. call.pc # "invalidate"
    BY <1>8 DEF CachePut
  <2>8. CachesAreCurrent'
    BY <1>3, <1>6, <2>5, <2>6, <2>7 DEF CachesAreCurrent, IsCurrent
  <2>9. QED
    BY <2>3, <2>4, <2>8
<1>9. CASE Decide(r) \/ StatementFails(r)
  <2>1. PICK c : /\ c # None => c.pc # "put"
                 /\ friend_call' = [friend_call EXCEPT ![r] = c]
    <3>1. \/ friend_call' = [friend_call EXCEPT ![r] = None]
          \/ \E pc \in {"invalidate", "execute"} :
                friend_call' = [friend_call EXCEPT ![r] = [call EXCEPT !.pc = pc]]
      BY <1>9 DEF Decide, StatementFails, FriendsInv, FriendsTypeOK
    <3>2. \A pc \in {"invalidate", "execute"} : [call EXCEPT !.pc = pc].pc = pc
      BY <1>1 DEF FriendCall
    <3>3. QED
      BY <3>1, <3>2
  <2>2. /\ friend_call'[r] = c /\ OneCallAtMost'
        /\ \A q \in Request \ {r} : friend_call'[q] = None
    BY <1>1, <1>2, <2>1, TheCallChanges
  <2>3. ReadsAreCurrent'
    BY <2>1, <2>2 DEF ReadsAreCurrent
  <2>4. user_cache' = user_cache /\ call.pc # "invalidate"
    BY <1>9 DEF Decide, StatementFails
  <2>5. CachesAreCurrent'
    BY <1>3, <1>6, <2>4 DEF CachesAreCurrent, IsCurrent
  <2>6. QED
    BY <2>2, <2>3, <2>5
<1>10. CASE Invalidate(r)
  <2>1. /\ friend_call' = [friend_call EXCEPT ![r] = None]
        /\ user_cache' = [user_cache EXCEPT ![call.user] = None, ![call.other] = None]
    BY <1>10 DEF Invalidate
  <2>2. /\ friend_call'[r] = None /\ OneCallAtMost'
        /\ \A q \in Request \ {r} : friend_call'[q] = None
    BY <1>1, <1>2, <2>1, TheCallChanges
  <2>3. ReadsAreCurrent'
    BY <2>2 DEF ReadsAreCurrent
  <2>4. \A u \in UserId : user_cache'[u] =
            IF u \in {call.user, call.other} THEN None ELSE user_cache[u]
    BY <1>4, <2>1 DEF FriendsInv, FriendsTypeOK
  <2>5. \A u \in UserId \ {call.user, call.other} : ~IsDropped(u)
    BY <1>5 DEF IsDropped
  <2>6. CachesAreCurrent'
    BY <1>2, <1>3, <2>4, <2>5 DEF CachesAreCurrent, IsCurrent
  <2>7. QED
    BY <2>2, <2>3, <2>6
<1>11. QED
  BY <1>7, <1>8, <1>9, <1>10

\* The row of a pair changes, and what its two users see of each other is dropped next.
LEMMA StatementKeepsCurrent ==
    ASSUME FriendsInv, CurrentInv, NEW r \in Request, StatementRuns(r)
    PROVE  CurrentInv'
<1> DEFINE call == friend_call[r]
           pair == {call.user, call.other}
<1>1. /\ call # None /\ call \in FriendCall /\ call.pc = "execute"
      /\ disturbed' = disturbed /\ user_cache' = user_cache
  BY DEF FriendsInv, FriendsTypeOK, StatementRuns
<1> SUFFICES ASSUME ~disturbed
             PROVE  OneCallAtMost' /\ ReadsAreCurrent' /\ CachesAreCurrent'
  BY <1>1 DEF CurrentInv
<1>2. OneCallAtMost /\ CachesAreCurrent
  BY DEF CurrentInv
<1>3. PICK c : /\ c = [call EXCEPT !.pc = "invalidate"]
               /\ friend_call' = [friend_call EXCEPT ![r] = c]
  BY DEF StatementRuns, FriendsInv, FriendsTypeOK
<1>4. /\ c.pc = "invalidate" /\ c.user = call.user /\ c.other = call.other
      /\ c \in FriendCall
  BY <1>1, <1>3 DEF FriendCall
<1>5. /\ friend_call'[r] = c /\ OneCallAtMost'
      /\ \A q \in Request \ {r} : friend_call[q] = None /\ friend_call'[q] = None
  BY <1>1, <1>2, <1>3, TheCallChanges
<1>6. ReadsAreCurrent'
  BY <1>4, <1>5 DEF ReadsAreCurrent
<1>7. ASSUME NEW u \in UserId, user_cache'[u] # None, ~IsDropped(u)', NEW o \in UserId \ {u}
      PROVE  user_cache'[u][o] = ToBackend(u, o)'
  <2>1. friend_call'[r] # None
    BY <1>4, <1>5, NoneIsNoCall
  <2>2. u \notin pair
    BY <1>4, <1>5, <1>7, <2>1 DEF IsDropped
  <2>3. friendship'[{u, o}] = friendship[{u, o}]
    BY <1>7, <2>2, PairFacts DEF StatementRuns, FriendsInv, FriendsTypeOK
  <2>4. ~IsDropped(u)
    BY <1>1, <1>5 DEF IsDropped
  <2>5. user_cache[u][o] = ToBackend(u, o)
    BY <1>1, <1>2, <1>7, <2>4 DEF CachesAreCurrent, IsCurrent
  <2>6. QED
    BY <1>1, <2>3, <2>5 DEF ToBackend
<1>8. QED
  BY <1>5, <1>6, <1>7 DEF CachesAreCurrent, IsCurrent

\* As long as calls follow one another the cache is the table: each entry is
\* filled from it, and dropped when one of its rows has changed.
THEOREM CacheFollowsTable == FriendsSpec => []ViewIsCurrentWhenAlone
<1>1. FriendsInit => CurrentInv
  BY DEF FriendsInit, CurrentInv, OneCallAtMost, ReadsAreCurrent, CachesAreCurrent
<1>2. FriendsInv /\ CurrentInv /\ [FriendsNext]_friendVars => CurrentInv'
  <2> SUFFICES ASSUME FriendsInv, CurrentInv, [FriendsNext]_friendVars
               PROVE  CurrentInv'
    OBVIOUS
  <2>1. CASE UNCHANGED friendVars
    BY <2>1 DEF friendVars, CurrentInv, OneCallAtMost, ReadsAreCurrent, CachesAreCurrent,
                IsDropped, IsCurrent, ToBackend
  <2>2. CASE \E r \in Request, u \in UserId : \E o \in UserId \ {u},
                action \in {"Me", "Request", "Delete"} : CallArrives(r, u, o, action)
    BY <2>2, ArrivalKeepsCurrent
  <2>3. CASE \E r \in Request : FriendshipsRead(r) \/ CachePut(r) \/ Decide(r)
                                  \/ StatementFails(r) \/ Invalidate(r)
    BY <2>3, CallStepKeepsCurrent
  <2>4. CASE \E r \in Request : StatementRuns(r)
    BY <2>4, StatementKeepsCurrent
  <2>5. CASE \E r \in Request : ReadFails(r)
    BY <2>5 DEF ReadFails, CurrentInv
  <2>6. ASSUME NEW u \in UserId, CacheForgets(u)
        PROVE  CurrentInv'
    <3>1. /\ \A v \in UserId : user_cache'[v] = IF v = u THEN None ELSE user_cache[v]
          /\ UNCHANGED <<friendship, friend_call, disturbed>>
      BY <2>6 DEF CacheForgets, FriendsInv, FriendsTypeOK
    <3>2. /\ \A v, o \in UserId : ToBackend(v, o)' = ToBackend(v, o)
          /\ \A v \in UserId : IsDropped(v)' <=> IsDropped(v)
      BY <3>1 DEF ToBackend, IsDropped
    <3>3. OneCallAtMost => OneCallAtMost'
      BY <3>1 DEF OneCallAtMost
    <3>4. ReadsAreCurrent => ReadsAreCurrent'
      BY <3>1 DEF ReadsAreCurrent, ToBackend
    <3>5. ASSUME CachesAreCurrent, NEW v \in UserId, user_cache'[v] # None, ~IsDropped(v)'
          PROVE  IsCurrent(v)'
      <4>1. user_cache'[v] = user_cache[v] /\ ~IsDropped(v)
        BY <3>1, <3>2, <3>5
      <4>2. IsCurrent(v)
        BY <3>5, <4>1 DEF CachesAreCurrent
      <4>3. QED
        BY <3>2, <4>1, <4>2 DEF IsCurrent
    <3>6. CachesAreCurrent => CachesAreCurrent'
      BY <3>5 DEF CachesAreCurrent
    <3>7. QED
      BY <3>1, <3>3, <3>4, <3>6 DEF CurrentInv
  <2>7. QED
    BY <2>1, <2>2, <2>3, <2>4, <2>5, <2>6 DEF FriendsNext
<1>3. CurrentInv => ViewIsCurrentWhenAlone
  BY DEF CurrentInv, CachesAreCurrent, IsDropped, IsCurrent, ViewIsCurrentWhenAlone
<1>4. QED
  BY <1>1, <1>2, <1>3, FriendsInvariant, PTL DEF FriendsSpec

-------------------------------------------------------------------------------
(* Accounts.                                                                 *)

PlatformPc == {"find", "choose_name", "insert_user", "insert_identity", "open"}

\* What a call has to know at the statement it has come to.
CallKnows(call) ==
    /\ IF call.pc \in PlatformPc THEN call.by \in PlatformId ELSE call.by \in Name
    /\ call.pc \in {"check", "insert", "authenticate", "insert_user"} => call.name \in Name
    /\ call.pc \in {"insert", "choose_name", "insert_user", "insert_identity"} =>
         call.user \in UserId
    /\ call.pc = "open" => call.user \in UserId /\ identity[call.by] = call.user

CallsKnow == \A r \in Request : login_call[r] # None => CallKnows(login_call[r])

SessionsAreIdentities ==
    \A s \in session : s.by \in PlatformId => s.user \in UserId /\ identity[s.by] = s.user

AccountsInv == AccountsTypeOK /\ CallsKnow /\ SessionsAreIdentities

\* Once a platform user has an identity it is not another one's.
IdentityStays == \A p \in PlatformId : identity[p] # None => identity'[p] = identity[p]

-------------------------------------------------------------------------------

\* A call begins, goes on as another or ends, and no identity changes hands:
\* what calls know and what sessions stand for is still true.
LEMMA CallsStillKnow ==
    ASSUME AccountsInv, NEW r \in Request, NEW c,
           login_call' = [login_call EXCEPT ![r] = c],
           c # None => c \in LoginCall /\ CallKnows(c)',
           identity' \in [PlatformId -> UserId \cup {None}], IdentityStays
    PROVE  /\ login_call' \in [Request -> LoginCall \cup {None}]
           /\ CallsKnow'
<1>1. login_call \in [Request -> LoginCall \cup {None}]
  BY DEF AccountsInv, AccountsTypeOK
<1>2. login_call' \in [Request -> LoginCall \cup {None}]
  BY <1>1
<1>3. ASSUME NEW q \in Request, q # r, login_call[q] # None
      PROVE  CallKnows(login_call[q])'
  <2> DEFINE call == login_call[q]
  <2>1. login_call'[q] = call
    BY <1>1, <1>3
  <2>2. CallKnows(call) /\ call \in LoginCall
    BY <1>1, <1>3 DEF AccountsInv, CallsKnow
  <2>3. call.pc = "open" => identity'[call.by] = call.user
    BY <2>2, NoneIsNobody DEF CallKnows, IdentityStays, PlatformPc
  <2>4. QED
    BY <2>1, <2>2, <2>3 DEF CallKnows
<1>4. ASSUME NEW q \in Request, login_call'[q] # None
      PROVE  CallKnows(login_call[q])'
  <2>1. CASE q = r
    <3>1. login_call'[q] = c
      BY <1>1, <2>1
    <3>2. QED
      BY <1>4, <3>1 DEF CallKnows
  <2>2. CASE q # r
    BY <1>1, <1>3, <1>4, <2>2
  <2>3. QED
    BY <2>1, <2>2
<1>5. QED
  BY <1>2, <1>4 DEF CallsKnow

\* Sessions that were there stand for whom they stood for.
LEMMA SessionsStillStand ==
    ASSUME AccountsInv, session' \subseteq session, IdentityStays
    PROVE  SessionsAreIdentities'
  BY NoneIsNobody DEF AccountsInv, SessionsAreIdentities, IdentityStays

\* A request arrives.
LEMMA ArrivalKeepsAccounts ==
    ASSUME AccountsInv, NEW r \in Request, NEW call \in LoginCall,
           CallKnows(call), call.pc # "open", Starts(r, call)
    PROVE  AccountsInv'
<1>1. /\ login_call' = [login_call EXCEPT ![r] = call] /\ contended' \in BOOLEAN
      /\ username' = username /\ identity' = identity /\ session' = session
  BY DEF Starts, AccountsInv, AccountsTypeOK
<1>2. IdentityStays /\ identity' \in [PlatformId -> UserId \cup {None}]
  BY <1>1 DEF IdentityStays, AccountsInv, AccountsTypeOK
<1>3. CallKnows(call)'
  BY <1>1 DEF CallKnows
<1>4. login_call' \in [Request -> LoginCall \cup {None}] /\ CallsKnow'
  BY <1>1, <1>2, <1>3, CallsStillKnow
<1>5. SessionsAreIdentities'
  BY <1>1, <1>2, SessionsStillStand
<1>6. AccountsTypeOK'
  BY <1>1, <1>4 DEF AccountsInv, AccountsTypeOK
<1>7. QED
  BY <1>4, <1>5, <1>6 DEF AccountsInv

\* A statement that opens no session and writes no identity.
LEMMA StatementKeepsAccounts ==
    ASSUME AccountsInv, NEW r \in Request,
           \/ CheckUsername(r) \/ CheckFails(r) \/ InsertUser(r) \/ FindIdentity(r)
           \/ MakeUniqueUsername(r) \/ InsertPlatformUser(r)
    PROVE  AccountsInv'
<1> DEFINE call == login_call[r]
<1>1. call \in LoginCall /\ CallKnows(call) /\ identity' = identity /\ session' = session
  BY DEF AccountsInv, AccountsTypeOK, CallsKnow, At, CheckUsername, CheckFails, InsertUser,
         FindIdentity, MakeUniqueUsername, InsertPlatformUser
<1>2. IdentityStays /\ identity' \in [PlatformId -> UserId \cup {None}]
  BY <1>1 DEF IdentityStays, AccountsInv, AccountsTypeOK
<1>3. PICK c : /\ login_call' = [login_call EXCEPT ![r] = c]
               /\ c # None => c \in LoginCall /\ CallKnows(c)
  <2>1. CASE CheckUsername(r) \/ CheckFails(r)
    <3>1. \/ login_call' = [login_call EXCEPT ![r] = None]
          \/ \E u \in UserId :
               login_call' = [login_call EXCEPT ![r] = [call EXCEPT !.user = u, !.pc = "insert"]]
      BY <2>1 DEF CheckUsername, CheckFails, Done, FreeId, AccountsInv, AccountsTypeOK
    <3>2. ASSUME NEW u \in UserId
          PROVE  /\ [call EXCEPT !.user = u, !.pc = "insert"] \in LoginCall
                 /\ CallKnows([call EXCEPT !.user = u, !.pc = "insert"])
      BY <1>1, <2>1 DEF CheckUsername, CheckFails, At, LoginCall, CallKnows, PlatformPc
    <3>3. QED
      BY <3>1, <3>2
  <2>2. CASE InsertUser(r)
    <3>1. login_call' = [login_call EXCEPT ![r] = [call EXCEPT !.pc = "authenticate"]]
      BY <2>2 DEF InsertUser, AccountsInv, AccountsTypeOK
    <3>2. /\ [call EXCEPT !.pc = "authenticate"] \in LoginCall
          /\ CallKnows([call EXCEPT !.pc = "authenticate"])
      BY <1>1, <2>2 DEF InsertUser, At, LoginCall, CallKnows, PlatformPc
    <3>3. QED
      BY <3>1, <3>2
  <2>3. CASE FindIdentity(r)
    <3> DEFINE found == identity[call.by]
    <3>1. \/ login_call' = [login_call EXCEPT ![r] = None]
          \/ /\ found # None
             /\ login_call' = [login_call EXCEPT ![r] = [call EXCEPT !.user = found, !.pc = "open"]]
          \/ \E u \in UserId :
               login_call' = [login_call EXCEPT ![r] =
                                  [call EXCEPT !.user = u, !.pc = "choose_name"]]
      BY <2>3 DEF FindIdentity, Done, FreeId, AccountsInv, AccountsTypeOK
    <3>2. call.by \in PlatformId
      BY <1>1, <2>3 DEF FindIdentity, At, CallKnows, PlatformPc
    <3>3. found # None =>
            /\ [call EXCEPT !.user = found, !.pc = "open"] \in LoginCall
            /\ CallKnows([call EXCEPT !.user = found, !.pc = "open"])
      BY <1>1, <3>2 DEF LoginCall, CallKnows, PlatformPc, AccountsInv, AccountsTypeOK
    <3>4. ASSUME NEW u \in UserId
          PROVE  /\ [call EXCEPT !.user = u, !.pc = "choose_name"] \in LoginCall
                 /\ CallKnows([call EXCEPT !.user = u, !.pc = "choose_name"])
      BY <1>1, <3>2 DEF LoginCall, CallKnows, PlatformPc
    <3>5. QED
      BY <3>1, <3>3, <3>4
  <2>4. CASE MakeUniqueUsername(r)
    <3>1. PICK name \in Name : login_call' = [login_call EXCEPT ![r] =
                                   [call EXCEPT !.name = name, !.pc = "insert_user"]]
      BY <2>4 DEF MakeUniqueUsername, AccountsInv, AccountsTypeOK
    <3>2. /\ [call EXCEPT !.name = name, !.pc = "insert_user"] \in LoginCall
          /\ CallKnows([call EXCEPT !.name = name, !.pc = "insert_user"])
      BY <1>1, <2>4 DEF MakeUniqueUsername, At, LoginCall, CallKnows, PlatformPc
    <3>3. QED
      BY <3>1, <3>2
  <2>5. CASE InsertPlatformUser(r)
    <3>1. \/ login_call' = [login_call EXCEPT ![r] = None]
          \/ login_call' = [login_call EXCEPT ![r] = [call EXCEPT !.pc = "insert_identity"]]
      BY <2>5 DEF InsertPlatformUser, Done, AccountsInv, AccountsTypeOK
    <3>2. /\ [call EXCEPT !.pc = "insert_identity"] \in LoginCall
          /\ CallKnows([call EXCEPT !.pc = "insert_identity"])
      BY <1>1, <2>5 DEF InsertPlatformUser, At, LoginCall, CallKnows, PlatformPc
    <3>3. QED
      BY <3>1, <3>2
  <2>6. QED
    BY <2>1, <2>2, <2>3, <2>4, <2>5
<1>4. login_call' \in [Request -> LoginCall \cup {None}] /\ CallsKnow'
  <2>1. c # None => CallKnows(c)'
    BY <1>1, <1>3 DEF CallKnows
  <2>2. QED
    BY <1>2, <1>3, <2>1, CallsStillKnow
<1>5. SessionsAreIdentities'
  BY <1>1, <1>2, SessionsStillStand
<1>6. username' \in [UserId -> Name \cup {None}] /\ contended' \in BOOLEAN
  <2>1. CASE InsertUser(r) \/ InsertPlatformUser(r)
    <3>1. call.user \in UserId /\ call.name \in Name
      BY <1>1, <2>1 DEF InsertUser, InsertPlatformUser, At, CallKnows, PlatformPc
    <3>2. QED
      BY <2>1, <3>1 DEF InsertUser, InsertPlatformUser, AccountsInv, AccountsTypeOK
  <2>2. CASE ~(InsertUser(r) \/ InsertPlatformUser(r))
    BY <2>2 DEF AccountsInv, AccountsTypeOK, CheckUsername, CheckFails, FindIdentity,
                MakeUniqueUsername
  <2>3. QED
    BY <2>1, <2>2
<1>7. AccountsTypeOK'
  BY <1>1, <1>4, <1>6 DEF AccountsInv, AccountsTypeOK
<1>8. QED
  BY <1>4, <1>5, <1>7 DEF AccountsInv

\* The identity is inserted only where there is none.
LEMMA InsertIdentityKeepsAccounts ==
    ASSUME AccountsInv, NEW r \in Request, InsertIdentity(r)
    PROVE  AccountsInv'
<1> DEFINE call == login_call[r]
<1>1. /\ call \in LoginCall /\ CallKnows(call) /\ call.pc = "insert_identity"
      /\ session' = session /\ username' = username /\ contended' = contended
  BY DEF AccountsInv, AccountsTypeOK, CallsKnow, At, InsertIdentity
<1>2. call.by \in PlatformId /\ call.user \in UserId
  BY <1>1 DEF CallKnows, PlatformPc
<1>3. PICK opened : opened = [call EXCEPT !.pc = "open"]
  OBVIOUS
<1>4. /\ identity' \in [PlatformId -> UserId \cup {None}] /\ IdentityStays
      /\ \/ login_call' = [login_call EXCEPT ![r] = None]
         \/ login_call' = [login_call EXCEPT ![r] = opened] /\ identity'[call.by] = call.user
  BY <1>2, <1>3 DEF InsertIdentity, Done, IdentityStays, AccountsInv, AccountsTypeOK
<1>5. /\ opened \in LoginCall
      /\ identity'[call.by] = call.user => CallKnows(opened)'
  <2>1. /\ opened \in LoginCall
        /\ opened.pc = "open" /\ opened.by = call.by /\ opened.user = call.user
    BY <1>1, <1>3 DEF LoginCall
  <2>2. QED
    BY <1>2, <2>1 DEF CallKnows, PlatformPc
<1>6. login_call' \in [Request -> LoginCall \cup {None}] /\ CallsKnow'
  <2>1. CASE login_call' = [login_call EXCEPT ![r] = None]
    BY <1>4, <2>1, CallsStillKnow
  <2>2. CASE login_call' = [login_call EXCEPT ![r] = opened] /\ identity'[call.by] = call.user
    BY <1>4, <1>5, <2>2, CallsStillKnow
  <2>3. QED
    BY <1>4, <2>1, <2>2
<1>7. SessionsAreIdentities'
  BY <1>1, <1>4, SessionsStillStand
<1>8. AccountsTypeOK'
  BY <1>1, <1>4, <1>6 DEF AccountsInv, AccountsTypeOK
<1>9. QED
  BY <1>6, <1>7, <1>8 DEF AccountsInv

\* A session is opened, or a call or a session ends.
LEMMA SessionKeepsAccounts ==
    ASSUME AccountsInv,
           \/ \E r \in Request : Authenticate(r) \/ OpenSession(r)
           \/ \E s \in session : Logout(s)
    PROVE  AccountsInv'
<1>1. /\ identity' = identity /\ username' = username /\ contended' = contended
      /\ IdentityStays /\ identity' \in [PlatformId -> UserId \cup {None}]
  BY DEF Authenticate, OpenSession, Logout, IdentityStays, AccountsInv, AccountsTypeOK
<1>2. login_call' \in [Request -> LoginCall \cup {None}] /\ CallsKnow'
  <2>1. CASE \E s \in session : Logout(s)
    BY <1>1, <2>1 DEF Logout, AccountsInv, AccountsTypeOK, CallsKnow, CallKnows
  <2>2. CASE \E r \in Request : login_call' = [login_call EXCEPT ![r] = None]
    BY <1>1, <2>2, CallsStillKnow
  <2>3. QED
    BY <2>1, <2>2 DEF Authenticate, OpenSession, Done
<1>3. session' \subseteq Session /\ SessionsAreIdentities'
  <2>1. CASE session' \subseteq session
    BY <1>1, <2>1, SessionsStillStand DEF AccountsInv, AccountsTypeOK
  <2>2. ASSUME NEW r \in Request, Authenticate(r) \/ OpenSession(r), ~(session' \subseteq session)
        PROVE  session' \subseteq Session /\ SessionsAreIdentities'
    <3> DEFINE call == login_call[r]
    <3>1. call \in LoginCall /\ CallKnows(call)
      BY <2>2 DEF AccountsInv, AccountsTypeOK, CallsKnow, At, Authenticate, OpenSession
    <3>2. CASE Authenticate(r)
      <4>1. call.by \in Name
        BY <3>1, <3>2 DEF Authenticate, At, CallKnows, PlatformPc
      <4>2. PICK u \in UserId : session' = session \cup {[by |-> call.by, user |-> u]}
        BY <2>2, <3>2 DEF Authenticate, Called
      <4>3. QED
        BY <1>1, <4>1, <4>2, NamesAreNoPlatformIds
           DEF AccountsInv, AccountsTypeOK, SessionsAreIdentities, Session
    <3>3. CASE OpenSession(r)
      <4>1. call.by \in PlatformId /\ call.user \in UserId /\ identity[call.by] = call.user
        BY <3>1, <3>3 DEF OpenSession, At, CallKnows, PlatformPc
      <4>2. session' = session \cup {[by |-> call.by, user |-> call.user]}
        BY <2>2, <3>3 DEF OpenSession
      <4>3. QED
        BY <1>1, <4>1, <4>2 DEF AccountsInv, AccountsTypeOK, SessionsAreIdentities, Session
    <3>4. QED
      BY <2>2, <3>2, <3>3
  <2>3. QED
    BY <2>1, <2>2 DEF Logout
<1>4. AccountsTypeOK'
  BY <1>1, <1>2, <1>3 DEF AccountsInv, AccountsTypeOK
<1>5. QED
  BY <1>2, <1>3, <1>4 DEF AccountsInv

-------------------------------------------------------------------------------

\* The inductive invariant: a login that is about to open a session holds the
\* user of its identity, and so does every session of a platform user.
THEOREM AccountsInvariant == AccountsSpec => []AccountsInv
<1>1. AccountsInit => AccountsInv
  BY DEF AccountsInit, AccountsInv, AccountsTypeOK, CallsKnow, SessionsAreIdentities
<1>2. AccountsInv /\ [AccountsNext]_accountVars => AccountsInv'
  <2> SUFFICES ASSUME AccountsInv, [AccountsNext]_accountVars
               PROVE  AccountsInv'
    OBVIOUS
  <2>1. CASE UNCHANGED accountVars
    BY <2>1 DEF accountVars, AccountsInv, AccountsTypeOK, CallsKnow, CallKnows,
                SessionsAreIdentities
  <2>2. ASSUME NEW r \in Request, NEW name \in Name, Register(r, name) \/ Login(r, name)
        PROVE  AccountsInv'
    <3>1. ASSUME NEW pc \in {"check", "authenticate"},
                 Starts(r, [by |-> name, user |-> None, name |-> name, pc |-> pc])
          PROVE  AccountsInv'
      <4> DEFINE call == [by |-> name, user |-> None, name |-> name, pc |-> pc]
      <4>1. call \in LoginCall /\ CallKnows(call) /\ call.pc # "open"
        BY DEF LoginCall, CallKnows, PlatformPc
      <4>2. QED
        BY <3>1, <4>1, ArrivalKeepsAccounts
    <3>2. QED
      BY <2>2, <3>1 DEF Register, Login
  <2>3. ASSUME NEW r \in Request, NEW p \in PlatformId, PlatformLogin(r, p)
        PROVE  AccountsInv'
    <3> DEFINE call == [by |-> p, user |-> None, name |-> None, pc |-> "find"]
    <3>1. call \in LoginCall /\ CallKnows(call) /\ call.pc # "open"
      BY DEF LoginCall, CallKnows, PlatformPc
    <3>2. QED
      BY <2>3, <3>1, ArrivalKeepsAccounts DEF PlatformLogin
  <2>4. CASE \E r \in Request : \/ CheckUsername(r) \/ CheckFails(r) \/ InsertUser(r)
                               \/ FindIdentity(r) \/ MakeUniqueUsername(r)
                               \/ InsertPlatformUser(r)
    BY <2>4, StatementKeepsAccounts
  <2>5. CASE \E r \in Request : InsertIdentity(r)
    BY <2>5, InsertIdentityKeepsAccounts
  <2>6. CASE \/ \E r \in Request : Authenticate(r) \/ OpenSession(r)
             \/ \E s \in session : Logout(s)
    BY <2>6, SessionKeepsAccounts
  <2>7. QED
    BY <2>1, <2>2, <2>3, <2>4, <2>5, <2>6 DEF AccountsNext
<1>3. QED
  BY <1>1, <1>2, PTL DEF AccountsSpec

\* Whoever comes through a platform is always the same user, although looking
\* for the identity and inserting it are two statements.
THEOREM OneUserForEachIdentity == AccountsSpec => []OneUserPerIdentity
<1>1. AccountsInv => OneUserPerIdentity
  BY DEF AccountsInv, SessionsAreIdentities, OneUserPerIdentity
<1>2. QED
  BY <1>1, AccountsInvariant, PTL

-------------------------------------------------------------------------------

\* Undisturbed, one call is under way at most, and a name it is about to insert
\* is still nobody's.
NamesDiffer ==
    \A u, v \in UserId :
        username[u] # None /\ username[v] # None /\ Lower(username[u]) = Lower(username[v])
            => u = v

CallsAreAlone ==
    /\ \A r, q \in Request : login_call[r] # None /\ login_call[q] # None => r = q
    /\ \A r \in Request :
         login_call[r] # None /\ login_call[r].pc \in {"insert", "insert_user"}
             => Called(login_call[r].name) = {}

AloneInv == ~contended => NamesDiffer /\ CallsAreAlone

\* A call goes on or ends, and no name is written.
LEMMA GoingOnKeepsAlone ==
    ASSUME AccountsInv, AloneInv, NEW r \in Request, login_call[r] # None, NEW c,
           login_call' = [login_call EXCEPT ![r] = c], username' = username,
           contended' = contended,
           c # None /\ c.pc \in {"insert", "insert_user"} => Called(c.name) = {}
    PROVE  AloneInv'
<1> SUFFICES ASSUME ~contended
             PROVE  NamesDiffer' /\ CallsAreAlone'
  BY DEF AloneInv
<1>1. NamesDiffer /\ CallsAreAlone
  BY DEF AloneInv
<1>2. /\ login_call'[r] = c
      /\ \A q \in Request \ {r} : login_call'[q] = login_call[q] /\ login_call[q] = None
  BY <1>1 DEF AccountsInv, AccountsTypeOK, CallsAreAlone
<1>3. QED
  BY <1>1, <1>2 DEF NamesDiffer, CallsAreAlone, Called

\* A name is written that nobody had when it was looked for, and nobody came in
\* between.
LEMMA InsertKeepsAlone ==
    ASSUME AccountsInv, AloneInv, NEW r \in Request, InsertUser(r) \/ InsertPlatformUser(r)
    PROVE  AloneInv'
<1> DEFINE call == login_call[r]
<1>1. /\ call # None /\ call \in LoginCall /\ CallKnows(call) /\ contended' = contended
      /\ call.pc \in {"insert", "insert_user"}
  BY DEF AccountsInv, AccountsTypeOK, CallsKnow, InsertUser, InsertPlatformUser, At
<1>2. PICK c : /\ login_call' = [login_call EXCEPT ![r] = c]
               /\ c # None => c.pc \notin {"insert", "insert_user"}
  <2>1. \/ login_call' = [login_call EXCEPT ![r] = None]
        \/ \E pc \in {"authenticate", "insert_identity"} :
              login_call' = [login_call EXCEPT ![r] = [call EXCEPT !.pc = pc]]
    BY DEF InsertUser, InsertPlatformUser, Done, AccountsInv, AccountsTypeOK
  <2>2. \A pc \in {"authenticate", "insert_identity"} : [call EXCEPT !.pc = pc].pc = pc
    BY <1>1 DEF LoginCall
  <2>3. QED
    BY <2>1, <2>2
<1>3. CASE username' = username
  BY <1>1, <1>2, <1>3, GoingOnKeepsAlone
<1>4. CASE username' # username
  <2> SUFFICES ASSUME ~contended
               PROVE  NamesDiffer' /\ CallsAreAlone'
    BY <1>1 DEF AloneInv
  <2>1. /\ username[call.user] = None /\ call.user \in UserId
        /\ username' = [username EXCEPT ![call.user] = call.name]
    BY <1>1, <1>4 DEF InsertUser, InsertPlatformUser, Insertable, CallKnows
  <2>2. NamesDiffer /\ CallsAreAlone /\ Called(call.name) = {}
    BY <1>1 DEF AloneInv, CallsAreAlone
  <2>3. \A v \in UserId : username[v] # None => Lower(username[v]) # Lower(call.name)
    BY <2>2 DEF Called
  <2>4. \A v \in UserId : username'[v] = IF v = call.user THEN call.name ELSE username[v]
    BY <2>1 DEF AccountsInv, AccountsTypeOK
  <2>5. NamesDiffer'
    <3> SUFFICES ASSUME NEW u \in UserId, NEW v \in UserId, u # v, username'[u] # None,
                        username'[v] # None, Lower(username'[u]) = Lower(username'[v])
                 PROVE  FALSE
      BY DEF NamesDiffer
    <3>1. CASE u = call.user
      BY <2>3, <2>4, <3>1
    <3>2. CASE v = call.user
      BY <2>3, <2>4, <3>2
    <3>3. CASE u # call.user /\ v # call.user
      BY <2>2, <2>4, <3>3 DEF NamesDiffer
    <3>4. QED
      BY <3>1, <3>2, <3>3
  <2>6. /\ login_call'[r] = c
        /\ \A q \in Request \ {r} : login_call'[q] = login_call[q] /\ login_call[q] = None
    BY <1>1, <1>2, <2>2 DEF AccountsInv, AccountsTypeOK, CallsAreAlone
  <2>7. CallsAreAlone'
    BY <1>2, <2>6 DEF CallsAreAlone
  <2>8. QED
    BY <2>5, <2>7
<1>5. QED
  BY <1>3, <1>4

\* The first call, or a second one, which is noted.
LEMMA ArrivalKeepsAlone ==
    ASSUME AccountsInv, AloneInv, NEW r \in Request, NEW call, Starts(r, call),
           call.pc \in {"check", "authenticate", "find"}
    PROVE  AloneInv'
<1> SUFFICES ASSUME ~contended'
             PROVE  NamesDiffer' /\ CallsAreAlone'
  BY DEF AloneInv
<1>1. /\ ~contended /\ \A q \in Request : login_call[q] = None
      /\ username' = username /\ login_call' = [login_call EXCEPT ![r] = call]
  BY DEF Starts
<1>2. login_call'[r] = call /\ \A q \in Request \ {r} : login_call'[q] = None
  BY <1>1 DEF AccountsInv, AccountsTypeOK
<1>3. QED
  BY <1>1, <1>2 DEF AloneInv, NamesDiffer, CallsAreAlone

\* The other statements: what a call goes on as, if it goes on.
LEMMA StatementKeepsAlone ==
    ASSUME AccountsInv, AloneInv, NEW r \in Request,
           \/ CheckUsername(r) \/ Authenticate(r) \/ FindIdentity(r)
           \/ MakeUniqueUsername(r) \/ InsertIdentity(r) \/ OpenSession(r)
    PROVE  AloneInv'
<1> DEFINE call == login_call[r]
<1>1. call # None /\ call \in LoginCall /\ username' = username /\ contended' = contended
  BY DEF AccountsInv, AccountsTypeOK, CheckUsername, Authenticate, FindIdentity,
         MakeUniqueUsername, InsertIdentity, OpenSession, At
<1>2. PICK c : /\ login_call' = [login_call EXCEPT ![r] = c]
               /\ c # None /\ c.pc \in {"insert", "insert_user"} => Called(c.name) = {}
  <2>1. CASE Done(r)
    BY <2>1 DEF Done
  <2>2. CASE CheckUsername(r) /\ ~Done(r)
    <3>1. PICK u \in UserId :
             login_call' = [login_call EXCEPT ![r] = [call EXCEPT !.user = u, !.pc = "insert"]]
      BY <2>2 DEF CheckUsername, FreeId, AccountsInv, AccountsTypeOK
    <3>2. [call EXCEPT !.user = u, !.pc = "insert"].name = call.name
      BY <1>1 DEF LoginCall
    <3>3. Called(call.name) = {}
      BY <2>2 DEF CheckUsername
    <3>4. QED
      BY <3>1, <3>2, <3>3
  <2>3. CASE MakeUniqueUsername(r)
    <3>1. PICK name \in Name : /\ Called(name) = {}
             /\ login_call' = [login_call EXCEPT ![r] =
                                   [call EXCEPT !.name = name, !.pc = "insert_user"]]
      BY <2>3 DEF MakeUniqueUsername, AccountsInv, AccountsTypeOK
    <3>2. [call EXCEPT !.name = name, !.pc = "insert_user"].name = name
      BY <1>1 DEF LoginCall
    <3>3. QED
      BY <3>1, <3>2
  <2>4. CASE FindIdentity(r) /\ ~Done(r)
    <3>1. PICK pc \in {"open", "choose_name"} : \E u :
             login_call' = [login_call EXCEPT ![r] = [call EXCEPT !.user = u, !.pc = pc]]
      <4>1. \/ login_call' = [login_call EXCEPT ![r] =
                                 [call EXCEPT !.user = identity[call.by], !.pc = "open"]]
            \/ \E u \in FreeId : login_call' = [login_call EXCEPT ![r] =
                                 [call EXCEPT !.user = u, !.pc = "choose_name"]]
        BY <2>4 DEF FindIdentity, AccountsInv, AccountsTypeOK
      <4>2. QED
        BY <4>1
    <3>2. \A u : [call EXCEPT !.user = u, !.pc = pc].pc = pc
      BY <1>1 DEF LoginCall
    <3>3. QED
      BY <3>1, <3>2
  <2>5. CASE InsertIdentity(r) /\ ~Done(r)
    <3>1. login_call' = [login_call EXCEPT ![r] = [call EXCEPT !.pc = "open"]]
      BY <2>5 DEF InsertIdentity, AccountsInv, AccountsTypeOK
    <3>2. [call EXCEPT !.pc = "open"].pc = "open"
      BY <1>1 DEF LoginCall
    <3>3. QED
      BY <3>1, <3>2
  <2>6. QED
    BY <2>1, <2>2, <2>3, <2>4, <2>5 DEF Authenticate, OpenSession
<1>3. QED
  BY <1>1, <1>2, GoingOnKeepsAlone

\* As long as one call follows another, the name that is looked for and the name
\* that is inserted are the same to the table: names differ in more than case.
THEOREM NamesStayApart == AccountsSpec => []NamesDifferWhenAlone
<1>1. AccountsInit => AloneInv
  BY DEF AccountsInit, AloneInv, NamesDiffer, CallsAreAlone
<1>2. AccountsInv /\ AloneInv /\ [AccountsNext]_accountVars => AloneInv'
  <2> SUFFICES ASSUME AccountsInv, AloneInv, [AccountsNext]_accountVars
               PROVE  AloneInv'
    OBVIOUS
  <2>1. CASE UNCHANGED accountVars
    BY <2>1 DEF accountVars, AloneInv, NamesDiffer, CallsAreAlone, Called
  <2>2. ASSUME NEW r \in Request, NEW by, NEW name, NEW pc \in {"check", "authenticate", "find"},
               Starts(r, [by |-> by, user |-> None, name |-> name, pc |-> pc])
        PROVE  AloneInv'
    <3> DEFINE call == [by |-> by, user |-> None, name |-> name, pc |-> pc]
    <3>1. call.pc = pc
      OBVIOUS
    <3>2. QED
      BY <2>2, <3>1, ArrivalKeepsAlone
  <2>3. CASE \E r \in Request :
               \/ \E name \in Name : Register(r, name) \/ Login(r, name)
               \/ \E p \in PlatformId : PlatformLogin(r, p)
    BY <2>2, <2>3 DEF Register, Login, PlatformLogin
  <2>4. CASE \E r \in Request : CheckFails(r)
    BY <2>4 DEF CheckFails, AloneInv
  <2>5. CASE \E r \in Request : InsertUser(r) \/ InsertPlatformUser(r)
    BY <2>5, InsertKeepsAlone
  <2>6. CASE \E r \in Request : \/ CheckUsername(r) \/ Authenticate(r) \/ FindIdentity(r)
                               \/ MakeUniqueUsername(r) \/ InsertIdentity(r) \/ OpenSession(r)
    BY <2>6, StatementKeepsAlone
  <2>7. CASE \E s \in session : Logout(s)
    BY <2>7 DEF Logout, AloneInv, NamesDiffer, CallsAreAlone, Called
  <2>8. QED
    BY <2>1, <2>3, <2>4, <2>5, <2>6, <2>7 DEF AccountsNext
<1>3. AloneInv => NamesDifferWhenAlone
  BY DEF AloneInv, NamesDiffer, NamesDifferWhenAlone
<1>4. QED
  BY <1>1, <1>2, <1>3, AccountsInvariant, PTL DEF AccountsSpec

===============================================================================
