------------------------------- MODULE Accounts -------------------------------
(* Registration, login and logout (api/users/user_mgr.rs) and the login      *)
(* through a platform (find_or_create_platform_user, database/users.rs).     *)
(* Each is a chain of single statements outside a transaction: what one has  *)
(* found may be untrue when the next one runs, and a chain may break off     *)
(* between two of them.                                                      *)
(* An operator described as a mistake is not the code: it takes the place of *)
(* the definition after it to show which property notices.                  *)
EXTENDS Requests

CONSTANTS
    Name,          \* user names
    Lower(_),      \* LOWER of the database: names that differ in case agree
    PlatformId     \* the users of a platform: provider and provider_user_id

\* Whoever logs in does so by a name or through a platform.
ASSUME NamesAreNoPlatformIds == Name \cap PlatformId = {}

VARIABLES
    username,      \* the users table: the name of each id in use, or None
    identity,      \* auth_identities: the user of each platform user, or None
    session,       \* sessions: who has logged in, and as which user
    login_call,    \* what each future is doing
    contended      \* whether two calls were ever under way at once, or a look-up failed (history)

accountVars == <<username, identity, session, login_call, contended>>

Session == [by : Name \cup PlatformId, user : UserId]

\* user: the id a new account is to get, or the one that was found.
\* name: the name of the new account, or the one to log in with.
LoginCall == [by : Name \cup PlatformId, user : UserId \cup {None}, name : Name \cup {None},
              pc : {"check", "insert", "authenticate",
                    "find", "choose_name", "insert_user", "insert_identity", "open"}]

AccountsTypeOK ==
    /\ username \in [UserId -> Name \cup {None}]
    /\ identity \in [PlatformId -> UserId \cup {None}]
    /\ session \subseteq Session
    /\ login_call \in [Request -> LoginCall \cup {None}]
    /\ contended \in BOOLEAN

AccountsInit ==
    /\ username = [u \in UserId |-> None]
    /\ identity = [p \in PlatformId |-> None]
    /\ session = {}
    /\ login_call = [r \in Request |-> None]
    /\ contended = FALSE

At(r, pc) == login_call[r] # None /\ login_call[r].pc = pc
Done(r) == login_call' = [login_call EXCEPT ![r] = None]

\* UserId::new, drawn until no row has it.
FreeId == {u \in UserId : username[u] = None}

\* SELECT id FROM users WHERE LOWER(username) = LOWER($1)
Called(name) == {u \in UserId : username[u] # None /\ Lower(username[u]) = Lower(name)}

\* UNIQUE (username) and the primary key: names that differ in case may both be there.
Insertable(u, name) == username[u] = None /\ \A v \in UserId : username[v] # name

------------------------------------------------------------------------------

Starts(r, call) ==
    /\ login_call[r] = None
    /\ login_call' = [login_call EXCEPT ![r] = call]
    /\ contended' = (contended \/ \E q \in Request : login_call[q] # None)
    /\ UNCHANGED <<username, identity, session>>

Register(r, name) ==
    Starts(r, [by |-> name, user |-> None, name |-> name, pc |-> "check"])

Login(r, name) ==
    Starts(r, [by |-> name, user |-> None, name |-> name, pc |-> "authenticate"])

PlatformLogin(r, p) ==
    Starts(r, [by |-> p, user |-> None, name |-> None, pc |-> "find"])

\* A mistake: the name is left to the database to check.
CheckUsernameNever(r) ==
    /\ At(r, "check")
    /\ \E u \in FreeId :
         login_call' = [login_call EXCEPT ![r].user = u, ![r].pc = "insert"]
    /\ UNCHANGED <<username, identity, session, contended>>

\* Register: username_is_in_use, then an id that nobody has.
CheckUsername(r) ==
    /\ At(r, "check")
    /\ \/ Called(login_call[r].name) # {} /\ Done(r)
       \/ /\ Called(login_call[r].name) = {}
          /\ \E u \in FreeId :
               login_call' = [login_call EXCEPT ![r].user = u, ![r].pc = "insert"]
    /\ UNCHANGED <<username, identity, session, contended>>

\* A query fails: the name is taken for free, and so is the id that was drawn.
CheckFails(r) ==
    /\ At(r, "check")
    /\ \E u \in UserId :
         login_call' = [login_call EXCEPT ![r].user = u, ![r].pc = "insert"]
    /\ contended' = TRUE
    /\ UNCHANGED <<username, identity, session>>

\* Register: users.insert, whose result nobody looks at.
InsertUser(r) ==
    LET call == login_call[r]
    IN  /\ At(r, "insert")
        /\ \/ Insertable(call.user, call.name)
              /\ username' = [username EXCEPT ![call.user] = call.name]
           \/ UNCHANGED username
        /\ login_call' = [login_call EXCEPT ![r].pc = "authenticate"]
        /\ UNCHANGED <<identity, session, contended>>

\* create_session_token: a user of that name, and a session if the password is his.
Authenticate(r) ==
    /\ At(r, "authenticate")
    /\ \/ \E u \in Called(login_call[r].name) :
            session' = session \cup {[by |-> login_call[r].by, user |-> u]}
       \/ UNCHANGED session
    /\ Done(r)
    /\ UNCHANGED <<username, identity, contended>>

\* find_or_create_platform_user: the identity is known; or it is not, or the
\* query fails, and a new user gets an id, unless ten of them were taken.
FindIdentity(r) ==
    LET found == identity[login_call[r].by]
    IN  /\ At(r, "find")
        /\ \/ /\ found # None
              /\ login_call' = [login_call EXCEPT ![r].user = found, ![r].pc = "open"]
           \/ \E u \in FreeId :
                login_call' = [login_call EXCEPT ![r].user = u, ![r].pc = "choose_name"]
           \/ Done(r)
        /\ UNCHANGED <<username, identity, session, contended>>

\* make_unique_username: the nickname with a number, so that nobody has it.  (A
\* hundred numbers that are all in use, and the unchecked name after them, are left out.)
MakeUniqueUsername(r) ==
    /\ At(r, "choose_name")
    /\ \E name \in Name :
         /\ Called(name) = {}
         /\ login_call' = [login_call EXCEPT ![r].name = name, ![r].pc = "insert_user"]
    /\ UNCHANGED <<username, identity, session, contended>>

\* The user is inserted, or the id or the name has been taken by now, or it fails.
InsertPlatformUser(r) ==
    LET call == login_call[r]
    IN  /\ At(r, "insert_user")
        /\ \/ /\ Insertable(call.user, call.name)
              /\ username' = [username EXCEPT ![call.user] = call.name]
              /\ login_call' = [login_call EXCEPT ![r].pc = "insert_identity"]
           \/ Done(r) /\ UNCHANGED username
        /\ UNCHANGED <<identity, session, contended>>

\* A mistake: an identity that is there already is left as it is, as the
\* inserts of other tables leave theirs.
InsertIdentityIfNone(r) ==
    LET call == login_call[r]
    IN  /\ At(r, "insert_identity")
        /\ identity' = IF identity[call.by] = None
                       THEN [identity EXCEPT ![call.by] = call.user] ELSE identity
        /\ login_call' = [login_call EXCEPT ![r].pc = "open"]
        /\ UNCHANGED <<username, session, contended>>

\* UNIQUE (provider, provider_user_id): of two first logins one ends here, and
\* leaves a user without an identity behind.
InsertIdentity(r) ==
    LET call == login_call[r]
    IN  /\ At(r, "insert_identity")
        /\ \/ /\ identity[call.by] = None
              /\ identity' = [identity EXCEPT ![call.by] = call.user]
              /\ login_call' = [login_call EXCEPT ![r].pc = "open"]
           \/ Done(r) /\ UNCHANGED identity
        /\ UNCHANGED <<username, session, contended>>

OpenSession(r) ==
    LET call == login_call[r]
    IN  /\ At(r, "open")
        /\ \/ session' = session \cup {[by |-> call.by, user |-> call.user]}
           \/ UNCHANGED session
        /\ Done(r)
        /\ UNCHANGED <<username, identity, contended>>

\* Logout: remove_session_token.
Logout(s) ==
    /\ session' = session \ {s}
    /\ UNCHANGED <<username, identity, login_call, contended>>

AccountsNext ==
    \/ \E r \in Request :
         \/ \E name \in Name : Register(r, name) \/ Login(r, name)
         \/ \E p \in PlatformId : PlatformLogin(r, p)
         \/ CheckUsername(r)
         \/ CheckFails(r)
         \/ InsertUser(r)
         \/ Authenticate(r)
         \/ FindIdentity(r)
         \/ MakeUniqueUsername(r)
         \/ InsertPlatformUser(r)
         \/ InsertIdentity(r)
         \/ OpenSession(r)
    \/ \E s \in session : Logout(s)

AccountsSpec == AccountsInit /\ [][AccountsNext]_accountVars

------------------------------------------------------------------------------

\* Whoever comes through a platform is always the same user, however many
\* first logins were under way at once and wherever one of them broke off
\* (users.rs:348-425, a look-up and two inserts with no transaction around them).
OneUserPerIdentity ==
    \A s \in session : s.by \in PlatformId => s.user = identity[s.by]

\* As long as one call has followed another and no look-up failed, no two users have names that
\* differ in case only (user_mgr.rs:84-93 and users.rs:443-468 look for the
\* name; the table is only unique for names as they are written).
NamesDifferWhenAlone ==
    ~contended => \A u, v \in UserId :
        username[u] # None /\ username[v] # None /\ Lower(username[u]) = Lower(username[v])
            => u = v
===============================================================================
