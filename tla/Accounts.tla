------------------------------ MODULE Accounts ------------------------------
(***************************************************************************)
(* Accounts and sessions of JULIBOT: registration, password and Google     *)
(* login, logout, logout everywhere, profile, account deletion, the chat   *)
(* requests that run beside them, and the retention purge.  A handler runs *)
(* from one database round trip to the next; account deletion is five      *)
(* DELETE statements in one transaction.  A token is named after the       *)
(* request that was given it, a conversation after the one that made it.   *)
(***************************************************************************)
EXTENDS Naturals, FiniteSets

CONSTANTS
    Request,  \* requests, each served once
    Ops,      \* endpoints in use
    Person,   \* people: an email address and a username each
    Backends, \* databases it may run on: "postgres", "sqlite"
    MaxUser   \* bound: user ids are 1..MaxUser

AllOps == {"register", "login", "google", "logout", "logout_all", "profile", "chat",
           "delete"}

ASSUME RequestAssumption == "first" \notin Request
ASSUME OpsAssumption == Ops \subseteq AllOps
ASSUME BackendAssumption == Backends \subseteq {"postgres", "sqlite"}
ASSUME UserAssumption == MaxUser \in Nat \ {0}

VARIABLES
    backend,   \* the database, chosen by DATABASE_URL
    users,     \* the rows of users
    lastUser,  \* highest user id handed out so far
    sessions,  \* the rows of sessions
    convs,     \* the rows of conversations
    msgs,      \* the rows of messages
    counts,    \* user ids with a row in user_usage
    req,       \* each request: handler, transaction and response
    issued     \* history: whom each token was issued to

userVars == <<backend, users, lastUser>>
chatVars == <<convs, msgs, counts>>
vars     == <<userVars, sessions, chatVars, req, issued>>

UserId == 1..MaxUser
NoUser == 0
Origin == Request \cup {"first"}  \* "first": there from the start
None   == "none"

\* since: "no", "now", or "old" when longer ago than session_retention_days.
Since   == {"no", "now", "old"}
User    == [id: UserId, person: Person]
Session == [token: Origin, user: UserId, expired: Since, revoked: Since]
Conv    == [id: Origin, user: UserId]
Msg     == [conv: Origin, by: Origin]
Doom    == [msgs: SUBSET Msg, convs: SUBSET Conv, counts: SUBSET UserId,
            tokens: SUBSET Origin]

Stage == {"idle", "find", "insert", "issue",                          \* logging in
          "session", "user",                                          \* deps.py
          "revoke", "profile", "count", "addCount", "talk", "say",
          "messages", "conversations", "usage", "sessions", "account",
          "ended"}

Handler == [
    op:     AllOps \cup {None},
    stage:  Stage,                      \* the round trip it stands at
    person: Person \cup {None},         \* who is registering or logging in
    token:  Origin \cup {None},         \* the token it presented, not expired
    user:   UserId \cup {NoUser},       \* id of the user it acts for
    conv:   Origin \cup {None},         \* conversation a chat is about
    held:   BOOLEAN,                    \* has inserted a usage row, not committed
    doom:   Doom,                       \* rows deleted, not committed
    before: SUBSET Origin,              \* history: good tokens of the user then
    reply:  {"none", "200", "201", "204", "400", "401", "404", "500", "guest"}]

TypeOK ==
    /\ backend \in Backends
    /\ users \subseteq User
    /\ lastUser \in 0..MaxUser
    /\ sessions \subseteq Session
    /\ convs \subseteq Conv
    /\ msgs \subseteq Msg
    /\ counts \subseteq UserId
    /\ req \in [Request -> Handler]
    /\ issued \subseteq [token: Origin, person: Person]

NoDoom == [msgs |-> {}, convs |-> {}, counts |-> {}, tokens |-> {}]

Waiting == [op |-> None, stage |-> "idle", person |-> None, token |-> None,
            user |-> NoUser, conv |-> None, held |-> FALSE, doom |-> NoDoom,
            before |-> {}, reply |-> "none"]

\* One person has an account, is logged in and has a conversation.
Init ==
    /\ backend \in Backends
    /\ \E p \in Person :
        /\ users = {[id |-> 1, person |-> p]}
        /\ issued = {[token |-> "first", person |-> p]}
    /\ lastUser = 1
    /\ sessions = {[token |-> "first", user |-> 1, expired |-> "no", revoked |-> "no"]}
    /\ convs = {[id |-> "first", user |-> 1]}
    /\ msgs = {[conv |-> "first", by |-> "first"]}
    /\ counts = {}
    /\ req = [r \in Request |-> Waiting]

----------------------------------------------------------------------------
(* The tables.                                                             *)

Ids       == {u.id : u \in users}
Tokens    == {i.token : i \in issued}
ConvsOf(u) == {c \in convs : c.user = u}
MsgsIn(C) == {m \in msgs : \E c \in C : m.conv = c.id}
SessionsOf(u) == {s \in sessions : s.user = u}

\* The JWT of the token has expired.  Its row carries the same time; a token
\* whose row is gone is refused at the SELECT, expired or not.
Expired(t) == \E s \in sessions : s.token = t /\ s.expired # "no"

\* Variant of Live: the revocation is not looked at.
LiveAlways(s) == TRUE

\* The row of the session is not revoked: its expiry is not looked at.
Live(s) == s.revoked = "no"

\* History: the tokens of a user that still pass both.
Good(s) == s.expired = "no" /\ s.revoked = "no"

GoodOf(u) == {s.token : s \in {x \in SessionsOf(u) : Good(x)}}

\* A PostgreSQL sequence never goes back; a SQLite rowid is one more than the
\* highest id in the table.
IsNextUser(n) ==
    IF backend = "postgres" THEN n = lastUser + 1
    ELSE (\A k \in Ids : k < n) /\ (n = 1 \/ n - 1 \in Ids)

\* What the SELECTs by email and username find.
NameTaken(p) == \E u \in users : u.person = p

\* Variant of Conflicts: the columns are not unique.
ConflictsNever(p) == FALSE

\* users.email and users.username are unique.
Conflicts(p) == NameTaken(p)

\* Variant of UserThere: no database checks the reference.
UserThereUnchecked(u) == u \in UserId

\* Foreign keys are enforced by PostgreSQL only.
UserThere(u) == backend = "postgres" => u \in Ids
ConvThere(k) == backend = "postgres" => \E c \in convs : c.id = k

Deleting == {"conversations", "usage", "sessions", "account"}

\* SQLite has one writer at a time: an account deletion, or a usage row that
\* is not committed, keeps everyone else from writing.
MayWrite(r) == backend = "sqlite" =>
    \A q \in Request \ {r} : ~req[q].held /\ req[q].stage \notin Deleting

\* Rows another transaction has deleted and not committed are locked, a usage
\* row it has inserted locks its user.
Locked(r, what, S) == \E q \in Request \ {r} : req[q].doom[what] \cap S # {}
HeldFor(r, u) == \E q \in Request \ {r} : req[q].held /\ req[q].user = u

\* Variant of Closed: the transaction is left open.
ClosedLeaking(r, reply) == [req[r] EXCEPT !.stage = "ended", !.reply = reply]

\* The response is complete; what was not committed is rolled back.
Closed(r, reply) == [req[r] EXCEPT !.stage = "ended", !.reply = reply,
                                   !.held = FALSE, !.doom = NoDoom]

End(r, reply) == req' = [req EXCEPT ![r] = Closed(r, reply)]
Fail(r, reply) == End(r, reply) /\ UNCHANGED <<userVars, sessions, chatVars, issued>>
Go(r, stage) == req' = [req EXCEPT ![r].stage = stage]
Only(r, stage) == Go(r, stage) /\ UNCHANGED <<userVars, sessions, chatVars, issued>>

----------------------------------------------------------------------------
(* Registering and logging in.                                             *)

ArriveByName(r, op, p) ==
    /\ req[r].stage = "idle" /\ op \in Ops \cap {"register", "login", "google"}
    /\ req' = [req EXCEPT ![r].op = op, ![r].stage = "find", ![r].person = p]
    /\ UNCHANGED <<userVars, sessions, chatVars, issued>>

\* The SELECTs by email and username.  A password is right or wrong.
FindNobody(r) ==
    /\ req[r].stage = "find" /\ ~NameTaken(req[r].person)
    /\ IF req[r].op = "login" THEN Fail(r, "401") ELSE Only(r, "insert")

FindUser(r) ==
    /\ req[r].stage = "find"
    /\ \E u \in users :
        /\ u.person = req[r].person
        /\ req[r].op # "register"
        /\ req' = [req EXCEPT ![r].user = u.id, ![r].stage = "issue"]
    /\ UNCHANGED <<userVars, sessions, chatVars, issued>>

Refuse(r) ==
    /\ req[r].stage = "find"
    /\ \/ req[r].op = "register" /\ NameTaken(req[r].person) /\ Fail(r, "400")
       \/ req[r].op = "login" /\ NameTaken(req[r].person) /\ Fail(r, "401")

\* Another request has inserted the name since: an IntegrityError, nowhere
\* caught.
InsertUser(r) ==
    /\ req[r].stage = "insert" /\ MayWrite(r) /\ ~Conflicts(req[r].person)
    /\ \E n \in UserId :
        /\ IsNextUser(n)
        /\ users' = users \cup {[id |-> n, person |-> req[r].person]}
        /\ lastUser' = IF n > lastUser THEN n ELSE lastUser
        /\ req' = [req EXCEPT ![r] = IF req[r].op = "register" THEN Closed(r, "201")
                                     ELSE [@ EXCEPT !.user = n, !.stage = "issue"]]
    /\ UNCHANGED <<backend, sessions, chatVars, issued>>

InsertLost(r) ==
    /\ req[r].stage = "insert" /\ MayWrite(r) /\ Conflicts(req[r].person)
    /\ Fail(r, "500")

\* issue_session: a fresh jti, its row, and the token.
IssueSession(r) ==
    /\ req[r].stage = "issue" /\ MayWrite(r) /\ UserThere(req[r].user)
    /\ sessions' = sessions \cup
        {[token |-> r, user |-> req[r].user, expired |-> "no", revoked |-> "no"]}
    /\ issued' = issued \cup {[token |-> r, person |-> req[r].person]}
    /\ End(r, "200")
    /\ UNCHANGED <<userVars, chatVars>>

IssueRefused(r) ==
    /\ req[r].stage = "issue" /\ ~UserThere(req[r].user)
    /\ Fail(r, "500")

----------------------------------------------------------------------------
(* deps.py: from a token to a user.                                        *)

TokenOps == {"logout", "logout_all", "profile", "chat", "delete"}

\* The JWT is decoded, and its expiry judged, before the first await.  A chat
\* may be about a conversation of whoever sends it, or a new one.
ArriveWithToken(r, op, t, c) ==
    /\ req[r].stage = "idle" /\ op \in Ops \cap TokenOps
    /\ t \in Tokens /\ ~Expired(t)
    /\ c # None => op = "chat" /\ \E k \in convs : k.id = c
    /\ req' = [req EXCEPT ![r].op = op, ![r].stage = "session", ![r].token = t,
                          ![r].conv = c]
    /\ UNCHANGED <<userVars, sessions, chatVars, issued>>

\* Whoever has no user goes on as a guest where the endpoint lets guests in.
Without(op) == IF op = "chat" THEN "guest" ELSE "401"

\* The decoder refuses an expired token before anything is asked of the database.
ArriveExpired(r, op, t) ==
    /\ req[r].stage = "idle" /\ op \in Ops \cap TokenOps
    /\ t \in Tokens /\ Expired(t)
    /\ req' = [req EXCEPT ![r].op = op, ![r].stage = "ended", ![r].reply = Without(op)]
    /\ UNCHANGED <<userVars, sessions, chatVars, issued>>

Turned(r) == Fail(r, Without(req[r].op))

\* The SELECT of the session; the token may have expired since it was decoded.
\* The user it names is that of the JWT's sub.
ResolveSession(r) ==
    /\ req[r].stage = "session"
    /\ \E s \in sessions :
        /\ s.token = req[r].token /\ Live(s)
        /\ req' = [req EXCEPT ![r].user = s.user, ![r].stage = "user"]
    /\ UNCHANGED <<userVars, sessions, chatVars, issued>>

SessionRefused(r) ==
    /\ req[r].stage = "session"
    /\ \A s \in sessions : s.token = req[r].token => ~Live(s)
    /\ Turned(r)

AfterUser(op) ==
    CASE op \in {"logout", "logout_all"} -> "revoke"
      [] op = "profile" -> "profile"
      [] op = "chat"    -> "count"
      [] op = "delete"  -> "messages"

\* The SELECT of the user.
ResolveUser(r) ==
    /\ req[r].stage = "user" /\ req[r].user \in Ids
    /\ req' = [req EXCEPT ![r].stage = AfterUser(req[r].op),
                          ![r].before = GoodOf(req[r].user)]
    /\ UNCHANGED <<userVars, sessions, chatVars, issued>>

UserGone(r) ==
    /\ req[r].stage = "user" /\ req[r].user \notin Ids
    /\ Turned(r)

----------------------------------------------------------------------------
(* Logging out, and the profile.                                           *)

\* Variant of Revoked: logging out everywhere forgets the other devices.
RevokedOwn(r) == {s \in sessions : s.token = req[r].token}

\* Rows the UPDATE of a logout is about: revoke_session, or
\* revoke_all_user_sessions.
Revoked(r) == {s \in sessions :
    IF req[r].op = "logout" THEN s.token = req[r].token ELSE s.user = req[r].user}

Revoke(r) ==
    /\ req[r].stage = "revoke" /\ MayWrite(r)
    /\ ~Locked(r, "tokens", {s.token : s \in Revoked(r)})
    /\ sessions' = {IF s \in Revoked(r) /\ s.revoked = "no"
                    THEN [s EXCEPT !.revoked = "now"] ELSE s : s \in sessions}
    /\ End(r, "204")
    /\ UNCHANGED <<userVars, chatVars, issued>>

\* The UPDATE of a user that is gone matches no row: a StaleDataError.
Profile(r) ==
    /\ req[r].stage = "profile" /\ MayWrite(r)
    /\ Fail(r, IF req[r].user \in Ids THEN "200" ELSE "500")

----------------------------------------------------------------------------
(* A chat request, as far as it touches what a deletion deletes: the usage *)
(* row of the day, a conversation and a message (ChatTurns has the rest).  *)

SeeCount(r) ==
    /\ req[r].stage = "count"
    /\ Only(r, IF req[r].user \in counts THEN "talk" ELSE "addCount")

\* The row stays uncommitted until the conversation or message is.
AddCount(r) ==
    /\ req[r].stage = "addCount" /\ MayWrite(r) /\ ~HeldFor(r, req[r].user)
    /\ IF UserThere(req[r].user) /\ req[r].user \notin counts
       THEN /\ req' = [req EXCEPT ![r].held = TRUE, ![r].stage = "talk"]
            /\ UNCHANGED <<userVars, sessions, chatVars, issued>>
       ELSE Fail(r, "500")

\* Variant of CommitCount: a row for the guest, whose id is 0.
CommitCountGuest(r) == counts' = counts \cup {IF req[r].held THEN req[r].user ELSE NoUser}

CommitCount(r) ==
    counts' = IF req[r].held THEN counts \cup {req[r].user} ELSE counts

OpenConversation(r) ==
    /\ req[r].stage = "talk" /\ req[r].conv # None
    /\ IF \E c \in ConvsOf(req[r].user) : c.id = req[r].conv THEN Only(r, "say")
       ELSE Fail(r, "404")

CreateConversation(r) ==
    /\ req[r].stage = "talk" /\ req[r].conv = None /\ MayWrite(r)
    /\ UserThere(req[r].user)
    /\ convs' = convs \cup {[id |-> r, user |-> req[r].user]}
    /\ CommitCount(r)
    /\ req' = [req EXCEPT ![r].conv = r, ![r].held = FALSE, ![r].stage = "say"]
    /\ UNCHANGED <<userVars, sessions, msgs, issued>>

\* The conversation may be deleted and not committed: the insert waits.
AddMessage(r) ==
    /\ req[r].stage = "say" /\ MayWrite(r) /\ ConvThere(req[r].conv)
    /\ ~Locked(r, "convs", {c \in convs : c.id = req[r].conv})
    /\ msgs' = msgs \cup {[conv |-> req[r].conv, by |-> r]}
    /\ CommitCount(r)
    /\ End(r, "200")
    /\ UNCHANGED <<userVars, sessions, convs, issued>>

ChatRefused(r) ==
    /\ \/ req[r].stage = "talk" /\ req[r].conv = None /\ ~UserThere(req[r].user)
       \/ req[r].stage = "say" /\ ~ConvThere(req[r].conv)
    /\ Fail(r, "500")

----------------------------------------------------------------------------
(* delete_account.  What it has deleted stays visible to others until it   *)
(* commits; each statement sees what is committed when it runs.            *)

\* Another deletion of the same user holds the rows: the statement waits.
DeleteMessages(r) ==
    LET mine == MsgsIn(ConvsOf(req[r].user)) IN
    /\ req[r].stage = "messages" /\ MayWrite(r) /\ ~Locked(r, "msgs", mine)
    /\ req' = [req EXCEPT ![r].doom.msgs = mine, ![r].stage = "conversations"]
    /\ UNCHANGED <<userVars, sessions, chatVars, issued>>

\* A message has been added since: PostgreSQL refuses.
DeleteConversations(r) ==
    LET mine == ConvsOf(req[r].user) IN
    /\ req[r].stage = "conversations" /\ ~Locked(r, "convs", mine)
    /\ IF backend = "postgres" /\ ~(MsgsIn(mine) \subseteq req[r].doom.msgs)
       THEN Fail(r, "500")
       ELSE /\ req' = [req EXCEPT ![r].doom.convs = mine, ![r].stage = "usage"]
            /\ UNCHANGED <<userVars, sessions, chatVars, issued>>

DeleteUsage(r) ==
    LET mine == counts \cap {req[r].user} IN
    /\ req[r].stage = "usage" /\ ~Locked(r, "counts", mine)
    /\ req' = [req EXCEPT ![r].doom.counts = mine, ![r].stage = "sessions"]
    /\ UNCHANGED <<userVars, sessions, chatVars, issued>>

DeleteSessions(r) ==
    LET mine == {s.token : s \in SessionsOf(req[r].user)} IN
    /\ req[r].stage = "sessions" /\ ~Locked(r, "tokens", mine)
    /\ req' = [req EXCEPT ![r].doom.tokens = mine, ![r].stage = "account"]
    /\ UNCHANGED <<userVars, sessions, chatVars, issued>>

\* The last DELETE and the commit.  PostgreSQL waits for requests that have
\* inserted a row of the user, refuses when a conversation was added, and
\* takes the sessions and usage rows that were added with it (CASCADE).
Cascades(r, u) == backend = "postgres" /\ u = req[r].user

DeleteUser(r) ==
    LET doom == req[r].doom
        mine == ConvsOf(req[r].user) IN
    /\ req[r].stage = "account"
    /\ backend = "postgres" => ~HeldFor(r, req[r].user)
    /\ IF backend = "postgres" /\ ~(mine \subseteq doom.convs)
       THEN Fail(r, "500")
       ELSE /\ users' = {u \in users : u.id # req[r].user}
            /\ msgs' = msgs \ doom.msgs
            /\ convs' = convs \ doom.convs
            /\ counts' = {u \in counts \ doom.counts : ~Cascades(r, u)}
            /\ sessions' = {s \in sessions :
                    s.token \notin doom.tokens /\ ~Cascades(r, s.user)}
            /\ End(r, "204")
            /\ UNCHANGED <<backend, lastUser, issued>>

----------------------------------------------------------------------------
(* What else may happen to a request.                                      *)

\* PostgreSQL: a chat that holds a usage row waits for a conversation the
\* deletion holds, which waits for the chat; one of the two is cancelled.
Deadlocked(c, d) ==
    /\ backend = "postgres"
    /\ req[c].stage = "say" /\ req[c].held
    /\ req[d].stage = "account" /\ req[d].user = req[c].user
    /\ \E k \in req[d].doom.convs : k.id = req[c].conv

BreakDeadlock(r) ==
    /\ \E q \in Request : Deadlocked(r, q) \/ Deadlocked(q, r)
    /\ Fail(r, "500")

Writing(r) ==
    \/ req[r].stage \in {"insert", "issue", "revoke", "profile", "addCount", "say",
                         "messages"}
    \/ req[r].stage = "talk" /\ req[r].conv = None

\* SQLite: "database is locked" after the busy timeout.
LockTimeout(r) == Writing(r) /\ ~MayWrite(r) /\ Fail(r, "500")

----------------------------------------------------------------------------
(* Time and the purge.                                                     *)

ReplaceSession(s, new) ==
    /\ sessions' = (sessions \ {s}) \cup {new}
    /\ UNCHANGED <<userVars, chatVars, req, issued>>

Expire(s) == s.expired = "no" /\ ReplaceSession(s, [s EXCEPT !.expired = "now"])

\* session_retention_days go by after a revocation or an expiry.
Age(s) ==
    /\ "now" \in {s.expired, s.revoked}
    /\ ReplaceSession(s, [s EXCEPT !.expired = IF @ = "now" THEN "old" ELSE @,
                                   !.revoked = IF @ = "now" THEN "old" ELSE @])

Purgeable(s) == "old" \in {s.expired, s.revoked}

Purge ==
    LET gone == {s \in sessions : Purgeable(s)} IN
    /\ gone # {}
    /\ \A q \in Request : req[q].doom.tokens \cap {s.token : s \in gone} = {}
    /\ backend = "sqlite" => \A q \in Request : ~req[q].held /\ req[q].stage \notin Deleting
    /\ sessions' = sessions \ gone
    /\ UNCHANGED <<userVars, chatVars, req, issued>>

----------------------------------------------------------------------------

LogIn(r) ==
    \/ FindNobody(r) \/ FindUser(r) \/ Refuse(r) \/ InsertUser(r) \/ InsertLost(r)
    \/ IssueSession(r) \/ IssueRefused(r)
Resolve(r) == ResolveSession(r) \/ SessionRefused(r) \/ ResolveUser(r) \/ UserGone(r)
Chat(r) ==
    \/ SeeCount(r) \/ AddCount(r) \/ OpenConversation(r) \/ CreateConversation(r)
    \/ AddMessage(r) \/ ChatRefused(r)
DeleteAccount(r) ==
    \/ DeleteMessages(r) \/ DeleteConversations(r) \/ DeleteUsage(r)
    \/ DeleteSessions(r) \/ DeleteUser(r)

\* The steps a request takes by itself once it has been received.
Progress(r) ==
    \/ LogIn(r) \/ Resolve(r) \/ Revoke(r) \/ Profile(r) \/ Chat(r)
    \/ DeleteAccount(r) \/ BreakDeadlock(r) \/ LockTimeout(r)

Arrive(r) ==
    \/ \E op \in Ops, p \in Person : ArriveByName(r, op, p)
    \/ \E op \in Ops, t \in Origin, c \in Origin \cup {None} : ArriveWithToken(r, op, t, c)
    \/ \E op \in Ops, t \in Origin : ArriveExpired(r, op, t)

\* Every request has been served: the only state the system may stop in.
Quiet == (\A r \in Request : req[r].stage = "ended") /\ UNCHANGED vars

Next ==
    \/ \E r \in Request : Arrive(r) \/ Progress(r)
    \/ \E s \in sessions : Expire(s) \/ Age(s)
    \/ Purge \/ Quiet

Spec == Init /\ [][Next]_vars

\* The event loop resumes every coroutine that can run, and the database
\* answers every statement it does not have to keep waiting.
FairSpec == Spec /\ \A r \in Request : WF_vars(Progress(r))

----------------------------------------------------------------------------
(* Properties.                                                             *)

\* A token is good from its issue on, stale once it has expired, over once it
\* is revoked or its row is gone.  A request has presented a token when the
\* JWT was decoded, and is let in when the SELECT of the session finds it.
life == [t \in Origin |->
    LET mine == {s \in sessions : s.token = t /\ s.revoked = "no"} IN
    CASE t \notin Tokens -> "none"
      [] t \in Tokens /\ mine = {} -> "over"
      [] t \in Tokens /\ mine # {} ->
            IF \E s \in mine : s.expired = "no" THEN "good" ELSE "stale"]
shown == [r \in Request |-> IF req[r].token = None THEN "no token" ELSE req[r].token]
pass  == [r \in Request |->
    IF req[r].token = None \/ req[r].user = NoUser THEN "no token" ELSE req[r].token]

Contract == INSTANCE SessionContract WITH Token <- Origin

\* issue_session, decode_access_token, the SELECT of the session, logout,
\* account deletion and purge keep that promise: no request is let in with a
\* token that had expired when it was presented, or that is revoked or deleted
\* when its session is looked up.  In between it may expire, and after it
\* whatever the request goes on to do is not covered.
MeetsContract == Contract!Spec

\* "a full, consistent purge on every backend ... any token they held is
\* immediately invalid": once the deletion of an account is confirmed nothing
\* of it is left, and nothing that was under way brings anything back.
AccountLeavesNothing ==
    /\ \A r \in Request : req[r].op = "delete" /\ req[r].reply = "204" =>
        /\ req[r].user \notin Ids \cup counts
        /\ SessionsOf(req[r].user) = {} /\ ConvsOf(req[r].user) = {}
    /\ \A m \in msgs : \E c \in convs : c.id = m.conv

\* So it is on PostgreSQL, whose foreign keys refuse or cascade what is late.
PostgresLeavesNothing == backend = "postgres" => AccountLeavesNothing

\* "Log out every session for the current user (all devices)": when it has
\* replied, every token that was good when it resolved its user is over, also
\* those of requests that log in beside it.
LogoutAllIsComplete ==
    \A r \in Request : req[r].op = "logout_all" /\ req[r].reply = "204" =>
        \A s \in sessions : s.token \in req[r].before => ~(s.expired = "no" /\ s.revoked = "no")

\* Of two registrations of the same name at most one is told it succeeded,
\* unless an account was deleted: the name is checked well before the insert.
OneRegistrationWins ==
    \A r, q \in Request :
        /\ r # q /\ req[r].person = req[q].person
        /\ req[r].reply = "201" /\ req[q].reply = "201"
        => \E d \in Request : req[d].op = "delete" /\ req[d].reply = "204"

\* Every request that has been received is answered, although statements wait
\* for the rows of an account deletion and a deletion waits for chats.
EveryRequestEnds ==
    \A r \in Request : req[r].stage # "idle" ~> req[r].stage = "ended"

============================================================================
