---------------------------- MODULE Accounts_proofs ----------------------------
(***************************************************************************)
(* Theorems about Accounts, for any number of requests and people, either  *)
(* database and any set of endpoints.                                      *)
(***************************************************************************)
EXTENDS Accounts, TLAPS

----------------------------------------------------------------------------
(* What a handler knows at each round trip: a handler that logs someone in *)
(* has a person, one that came with a token has that and, once it is past  *)
(* the session, a user; only chats hold a usage row, and only a deletion   *)
(* has deleted rows.                                                       *)

NameOps == {"register", "login", "google"}

NameStages == {"find", "insert", "issue"}
ChatStages == {"count", "addCount", "talk", "say"}
UserStages == {"user", "revoke", "profile", "messages"} \cup ChatStages \cup Deleting

GoodHandler == {h \in Handler :
    /\ h.reply = "none" <=> h.stage # "ended"
    /\ h.stage = "idle" => h = Waiting
    /\ h.stage \in NameStages => h.op \in NameOps /\ h.person \in Person
    /\ h.op \notin TokenOps => h.token = None
    /\ h.stage = "session" => h.op \in TokenOps /\ h.user = NoUser
    /\ h.stage \in UserStages => h.op \in TokenOps
    /\ h.stage \in UserStages \cup {"issue"} => h.user \in UserId
    /\ h.stage \in ChatStages => h.op = "chat"
    /\ h.stage = "revoke" => h.op \in {"logout", "logout_all"}
    /\ h.stage \in Deleting \cup {"messages"} => h.op = "delete"
    /\ h.stage = "say" => h.conv \in Origin
    /\ h.held => h.stage \in {"talk", "say"}
    /\ h.stage \notin Deleting => h.doom = NoDoom
    /\ h.stage = "conversations" => h.doom.convs = {}}

TypeInv == TypeOK /\ req \in [Request -> GoodHandler]

Reply == {"200", "201", "204", "400", "401", "404", "500", "guest"}

----------------------------------------------------------------------------
(* Type correctness.                                                       *)

LEMMA InitTypes == Init => TypeInv
  <1> SUFFICES ASSUME Init PROVE TypeInv
    OBVIOUS
  <1>1. Waiting \in Handler
    BY DEF Waiting, Handler, AllOps, Stage, NoDoom, Doom, NoUser, None
  <1>2. Waiting \in GoodHandler
    BY <1>1 DEF GoodHandler, Waiting, NameStages, UserStages, ChatStages, Deleting,
                TokenOps, NoDoom
  <1>3. TypeOK
    <2>1. 1 \in UserId /\ 1 \in 0..MaxUser
      BY UserAssumption DEF UserId
    <2>2. "first" \in Origin
      BY DEF Origin
    <2> QED
      BY <1>1, <2>1, <2>2 DEF Init, TypeOK, User, Session, Since, Conv, Msg
  <1> QED BY <1>2, <1>3 DEF TypeInv, Init

\* A request that ends: its transaction is over.
LEMMA ClosedIsGood ==
    ASSUME NEW h \in GoodHandler, h.stage # "idle", NEW reply \in Reply
    PROVE  [h EXCEPT !.stage = "ended", !.reply = reply, !.held = FALSE, !.doom = NoDoom]
                \in GoodHandler
  <1> DEFINE d == [h EXCEPT !.stage = "ended", !.reply = reply, !.held = FALSE,
                            !.doom = NoDoom]
  <1>1. d \in Handler
    <2>1. h \in Handler /\ "ended" \in Stage /\ NoDoom \in Doom
      BY DEF GoodHandler, Stage, NoDoom, Doom
    <2>2. reply \in {"none", "200", "201", "204", "400", "401", "404", "500", "guest"}
      BY DEF Reply
    <2> QED BY <2>1, <2>2 DEF Handler
  <1>2. /\ d.stage = "ended" /\ d.reply = reply /\ d.held = FALSE /\ d.doom = NoDoom
        /\ d.op = h.op /\ d.token = h.token
    BY DEF GoodHandler, Handler
  <1> HIDE DEF d
  <1>3. d \in GoodHandler
    BY <1>1, <1>2 DEF GoodHandler, NameStages, UserStages, ChatStages, Deleting, Reply
  <1> QED BY <1>3 DEF d

Tables == <<userVars, sessions, chatVars, issued>>

\* A step of r that leaves the tables alone is well typed if its handler is.
LEMMA HandlerStep ==
    ASSUME TypeInv, UNCHANGED Tables, NEW r \in Request, NEW h \in GoodHandler,
           req' = [req EXCEPT ![r] = h]
    PROVE  TypeInv'
  <1>1. req' \in [Request -> GoodHandler]
    BY DEF TypeInv
  <1>2. GoodHandler \subseteq Handler
    BY DEF GoodHandler
  <1> QED BY <1>1, <1>2 DEF TypeInv, TypeOK, Tables, userVars, chatVars

\* A request that fails ends, and changes nothing else.
LEMMA FailTypes ==
    ASSUME TypeInv, NEW r \in Request, NEW reply \in Reply, Fail(r, reply),
           req[r].stage # "idle"
    PROVE  TypeInv'
  <1>1. Closed(r, reply) \in GoodHandler
    BY ClosedIsGood DEF TypeInv, Closed
  <1> QED BY <1>1, HandlerStep DEF Fail, End, Tables

\* A handler that waits for its next round trip.
LEMMA OnlyTypes ==
    ASSUME TypeInv, NEW r \in Request, NEW next \in Stage, Only(r, next),
           [req[r] EXCEPT !.stage = next] \in GoodHandler
    PROVE  TypeInv'
  BY HandlerStep DEF Only, Go, Tables, TypeInv

\* Logging in: a handler that has found or made its user goes on to issue.
LEMMA LogInTypes ==
    ASSUME TypeInv, NEW r \in Request, LogIn(r)
    PROVE  TypeInv'
  <1> DEFINE h == req[r]
  <1>h. h \in GoodHandler /\ h \in Handler
    BY DEF TypeInv, GoodHandler
  <1>1. CASE FindNobody(r)
    <2>1. [h EXCEPT !.stage = "insert"] \in GoodHandler
      BY <1>1, <1>h DEF FindNobody, GoodHandler, Handler, Stage, NameStages, UserStages,
                        ChatStages, Deleting
    <2> QED
      BY <1>1, <2>1, FailTypes, OnlyTypes DEF FindNobody, Reply, Stage
  <1>2. CASE FindUser(r)
    <2>1. PICK u \in users : /\ h.stage = "find"
                             /\ req' = [req EXCEPT ![r].user = u.id, ![r].stage = "issue"]
                             /\ UNCHANGED Tables
      BY <1>2 DEF FindUser, Tables
    <2> DEFINE d == [h EXCEPT !.user = u.id, !.stage = "issue"]
    <2>2. u.id \in UserId
      BY DEF TypeInv, TypeOK, User
    <2>3. d \in GoodHandler
      BY <1>h, <2>1, <2>2 DEF GoodHandler, Handler, Stage, NameStages, UserStages,
                        ChatStages, Deleting
    <2>4. req' = [req EXCEPT ![r] = d]
      BY <2>1 DEF TypeInv
    <2> QED BY <2>1, <2>3, <2>4, HandlerStep
  <1>3. CASE Refuse(r)
    BY <1>3, FailTypes DEF Refuse, Reply
  <1>4. CASE InsertUser(r)
    <2>1. PICK n \in UserId :
            /\ users' = users \cup {[id |-> n, person |-> h.person]}
            /\ lastUser' = IF n > lastUser THEN n ELSE lastUser
            /\ req' = [req EXCEPT ![r] = IF h.op = "register" THEN Closed(r, "201")
                                         ELSE [h EXCEPT !.user = n, !.stage = "issue"]]
      BY <1>4 DEF InsertUser, TypeInv
    <2>2. h.stage = "insert" /\ UNCHANGED <<backend, sessions, chatVars, issued>>
      BY <1>4 DEF InsertUser
    <2>3. h.person \in Person /\ n \in 0..MaxUser
      BY <1>h, <2>2, UserAssumption DEF GoodHandler, NameStages, UserId
    <2>4. Closed(r, "201") \in GoodHandler
      BY <1>h, <2>2, ClosedIsGood DEF Closed, Reply
    <2>5. [h EXCEPT !.user = n, !.stage = "issue"] \in GoodHandler
      BY <1>h, <2>2 DEF GoodHandler, Handler, Stage, NameStages, UserStages,
                        ChatStages, Deleting
    <2>6. req' \in [Request -> GoodHandler]
      BY <2>1, <2>4, <2>5 DEF TypeInv
    <2>7. users' \subseteq User /\ lastUser' \in 0..MaxUser
      BY <2>1, <2>3 DEF TypeInv, TypeOK, User
    <2>8. req' \in [Request -> Handler]
      BY <2>6 DEF GoodHandler
    <2> QED BY <2>2, <2>6, <2>7, <2>8 DEF TypeInv, TypeOK, chatVars
  <1>5. CASE InsertLost(r)
    BY <1>5, FailTypes DEF InsertLost, Reply
  <1>6. CASE IssueSession(r)
    <2>1. Closed(r, "200") \in GoodHandler
      BY <1>6, <1>h, ClosedIsGood DEF Closed, Reply, IssueSession
    <2>2. req' \in [Request -> GoodHandler]
      BY <1>6, <2>1 DEF IssueSession, End, TypeInv
    <2>3. h.user \in UserId /\ h.person \in Person /\ r \in Origin
      BY <1>6, <1>h DEF IssueSession, GoodHandler, NameStages, Origin
    <2>4. /\ [token |-> r, user |-> h.user, expired |-> "no", revoked |-> "no"] \in Session
          /\ [token |-> r, person |-> h.person] \in [token: Origin, person: Person]
      BY <2>3 DEF Session, Since
    <2>5. sessions' \subseteq Session /\ issued' \subseteq [token: Origin, person: Person]
      BY <1>6, <2>4 DEF IssueSession, TypeInv, TypeOK
    <2>6. req' \in [Request -> Handler]
      BY <2>2 DEF GoodHandler
    <2> QED BY <1>6, <2>2, <2>5, <2>6 DEF IssueSession, TypeInv, TypeOK, userVars, chatVars
  <1>7. CASE IssueRefused(r)
    BY <1>7, FailTypes DEF IssueRefused, Reply
  <1> QED BY <1>1, <1>2, <1>3, <1>4, <1>5, <1>6, <1>7 DEF LogIn

\* From a token to a user.
LEMMA ResolveTypes ==
    ASSUME TypeInv, NEW r \in Request, Resolve(r)
    PROVE  TypeInv'
  <1> DEFINE h == req[r]
  <1>h. h \in GoodHandler /\ h \in Handler
    BY DEF TypeInv, GoodHandler
  <1>1. CASE ResolveSession(r)
    <2>1. PICK s \in sessions : /\ h.stage = "session" /\ UNCHANGED Tables
                                /\ req' = [req EXCEPT ![r].user = s.user, ![r].stage = "user"]
      BY <1>1 DEF ResolveSession, Tables
    <2> DEFINE d == [h EXCEPT !.user = s.user, !.stage = "user"]
    <2>2. s.user \in UserId
      BY DEF TypeInv, TypeOK, Session
    <2>3. d \in GoodHandler
      BY <1>h, <2>1, <2>2 DEF GoodHandler, Handler, Stage, NameStages, UserStages,
                        ChatStages, Deleting
    <2>4. req' = [req EXCEPT ![r] = d]
      BY <2>1 DEF TypeInv
    <2> QED BY <2>1, <2>3, <2>4, HandlerStep
  <1>2. CASE ResolveUser(r)
    <2> DEFINE next == AfterUser(h.op)
               d == [h EXCEPT !.stage = next, !.before = GoodOf(h.user)]
    <2>1. h.stage = "user" /\ UNCHANGED Tables /\ req' = [req EXCEPT ![r] = d]
      BY <1>2 DEF ResolveUser, Tables, TypeInv
    <2>2. GoodOf(h.user) \subseteq Origin
      BY DEF GoodOf, SessionsOf, TypeInv, TypeOK, Session
    <2>3. h.op \in TokenOps /\ h.user \in UserId
      BY <1>h, <2>1 DEF GoodHandler, UserStages
    <2>4. /\ next \in Stage /\ next \notin Deleting \cup {"say", "idle", "session", "ended"}
          /\ next \notin NameStages
          /\ next \in ChatStages => h.op = "chat"
          /\ next = "revoke" => h.op \in {"logout", "logout_all"}
          /\ next = "messages" => h.op = "delete"
      BY <2>3 DEF AfterUser, TokenOps, Stage, Deleting, ChatStages, NameStages
    <2>5. h.held = FALSE /\ h.doom = NoDoom /\ h.reply = "none"
      BY <1>h, <2>1 DEF GoodHandler, Handler, Deleting
    <2> HIDE DEF next
    <2>6. d \in Handler /\ d.stage = next /\ d.op = h.op /\ d.user = h.user
          /\ d.held = h.held /\ d.doom = h.doom /\ d.reply = h.reply
      BY <1>h, <2>2, <2>4 DEF Handler
    <2>7. d \in GoodHandler
      BY <2>3, <2>4, <2>5, <2>6 DEF GoodHandler, Deleting, NameStages
    <2> QED BY <2>1, <2>7, HandlerStep
  <1>3. CASE SessionRefused(r) \/ UserGone(r)
    BY <1>3, FailTypes DEF SessionRefused, UserGone, Turned, Without, Reply
  <1> QED BY <1>1, <1>2, <1>3 DEF Resolve

\* Logging out and the profile.
LEMMA LogoutTypes ==
    ASSUME TypeInv, NEW r \in Request, Revoke(r) \/ Profile(r)
    PROVE  TypeInv'
  <1>1. CASE Profile(r)
    BY <1>1, FailTypes DEF Profile, Reply
  <1>2. CASE Revoke(r)
    <2>1. Closed(r, "204") \in GoodHandler
      BY <1>2, ClosedIsGood DEF Closed, Reply, Revoke, TypeInv
    <2>2. req' \in [Request -> GoodHandler]
      BY <1>2, <2>1 DEF Revoke, End, TypeInv
    <2>3. \A s \in Session : [s EXCEPT !.revoked = "now"] \in Session
      BY DEF Session, Since
    <2>4. sessions' \subseteq Session
      BY <1>2, <2>3 DEF Revoke, TypeInv, TypeOK
    <2>5. req' \in [Request -> Handler]
      BY <2>2 DEF GoodHandler
    <2> QED BY <1>2, <2>2, <2>4, <2>5 DEF Revoke, TypeInv, TypeOK, userVars, chatVars
  <1> QED BY <1>1, <1>2

\* A handler of a chat at its next round trip.
LEMMA ChatHandler ==
    ASSUME NEW h \in GoodHandler, h.stage \in ChatStages, NEW next \in ChatStages,
           NEW held \in BOOLEAN, held => next \in {"talk", "say"},
           NEW conv \in Origin \cup {None}, next = "say" => conv \in Origin
    PROVE  [h EXCEPT !.conv = conv, !.held = held, !.stage = next] \in GoodHandler
  <1> DEFINE d == [h EXCEPT !.conv = conv, !.held = held, !.stage = next]
  <1>1. next \in Stage /\ next \notin {"idle", "ended", "session", "revoke"}
        /\ next \notin Deleting \cup NameStages \cup {"messages"}
    BY DEF ChatStages, Stage, Deleting, NameStages
  <1>2. h \in Handler /\ h.doom = NoDoom /\ h.op = "chat" /\ h.user \in UserId
        /\ h.reply = "none"
    BY DEF GoodHandler, ChatStages, UserStages, Deleting
  <1>3. /\ d \in Handler /\ d.stage = next /\ d.op = h.op /\ d.user = h.user
        /\ d.held = held /\ d.conv = conv /\ d.doom = h.doom /\ d.reply = h.reply
    BY <1>1, <1>2 DEF Handler
  <1> HIDE DEF d
  <1>4. d \in GoodHandler
    BY <1>1, <1>2, <1>3 DEF GoodHandler, TokenOps, Deleting, NameStages
  <1> QED BY <1>4 DEF d

\* A chat request keeps the types.
LEMMA ChatTypes ==
    ASSUME TypeInv, NEW r \in Request, Chat(r)
    PROVE  TypeInv'
  <1> DEFINE h == req[r]
             H(conv, held, next) == [h EXCEPT !.conv = conv, !.held = held, !.stage = next]
  <1>h. h \in GoodHandler /\ h \in Handler
    BY DEF TypeInv, GoodHandler
  <1>g. /\ h.conv \in Origin \cup {None} /\ h.held \in BOOLEAN
        /\ h.held => h.stage \in {"talk", "say"}
        /\ h.stage = "say" => h.conv \in Origin
        /\ h.stage \in ChatStages => h.user \in UserId
    BY <1>h DEF GoodHandler, Handler, UserStages
  <1>f. \A f \in {"count", "addCount", "talk", "say"} : f \in ChatStages
    BY DEF ChatStages
  <1>1. CASE SeeCount(r)
    <2>1. PICK next \in {"talk", "addCount"} : req' = [req EXCEPT ![r] = H(h.conv, h.held, next)]
      BY <1>1, <1>h DEF SeeCount, Only, Go, TypeInv, Handler
    <2>2. H(h.conv, h.held, next) \in GoodHandler
      BY <1>1, <1>h, <1>g, <1>f, ChatHandler DEF SeeCount
    <2>3. UNCHANGED Tables
      BY <1>1 DEF SeeCount, Only, Tables
    <2> QED BY <2>1, <2>2, <2>3, HandlerStep
  <1>2. CASE AddCount(r)
    <2>1. CASE Fail(r, "500")
      BY <1>2, <2>1, FailTypes DEF AddCount, Reply
    <2>2. CASE req' = [req EXCEPT ![r].held = TRUE, ![r].stage = "talk"] /\ UNCHANGED Tables
      <3>1. req' = [req EXCEPT ![r] = H(h.conv, TRUE, "talk")]
        BY <1>h, <2>2 DEF TypeInv, Handler
      <3>2. H(h.conv, TRUE, "talk") \in GoodHandler
        BY <1>2, <1>h, <1>g, <1>f, ChatHandler DEF AddCount
      <3> QED BY <2>2, <3>1, <3>2, HandlerStep
    <2> QED BY <1>2, <2>1, <2>2 DEF AddCount, Tables
  <1>3. CASE OpenConversation(r)
    <2>1. CASE Fail(r, "404")
      BY <1>3, <2>1, FailTypes DEF OpenConversation, Reply
    <2>2. CASE Only(r, "say") /\ \E c \in ConvsOf(h.user) : c.id = h.conv
      <3>1. req' = [req EXCEPT ![r] = H(h.conv, h.held, "say")] /\ UNCHANGED Tables
        BY <1>h, <2>2 DEF TypeInv, Handler, Only, Go, Tables
      <3>2. h.conv \in Origin
        BY <2>2 DEF ConvsOf, TypeInv, TypeOK, Conv
      <3>3. H(h.conv, h.held, "say") \in GoodHandler
        BY <1>3, <1>h, <1>g, <1>f, <3>2, ChatHandler DEF OpenConversation
      <3> QED BY <3>1, <3>3, HandlerStep
    <2> QED BY <1>3, <2>1, <2>2 DEF OpenConversation
  <1>4. ASSUME CommitCount(r), h.stage \in ChatStages
        PROVE  counts' \subseteq UserId
    BY <1>4, <1>g DEF CommitCount, TypeInv, TypeOK
  <1>5. CASE CreateConversation(r)
    <2>1. /\ convs' = convs \cup {[id |-> r, user |-> h.user]}
          /\ CommitCount(r) /\ UNCHANGED <<userVars, sessions, msgs, issued>>
          /\ h.stage = "talk" /\ r \in Origin
          /\ req' = [req EXCEPT ![r] = H(r, FALSE, "say")]
      BY <1>5, <1>h DEF CreateConversation, TypeInv, Handler, Origin
    <2>2. H(r, FALSE, "say") \in GoodHandler
      BY <1>h, <1>f, <2>1, ChatHandler
    <2>3. req' \in [Request -> GoodHandler]
      BY <2>1, <2>2 DEF TypeInv
    <2>4. req' \in [Request -> Handler]
      BY <2>3 DEF GoodHandler
    <2>5. convs' \subseteq Conv /\ counts' \subseteq UserId
      BY <1>4, <1>f, <1>g, <2>1 DEF TypeInv, TypeOK, Conv
    <2> QED BY <2>1, <2>3, <2>4, <2>5 DEF TypeInv, TypeOK, userVars
  <1>6. CASE AddMessage(r)
    <2>1. /\ msgs' = msgs \cup {[conv |-> h.conv, by |-> r]}
          /\ CommitCount(r) /\ UNCHANGED <<userVars, sessions, convs, issued>>
          /\ h.stage = "say" /\ r \in Origin /\ req' = [req EXCEPT ![r] = Closed(r, "200")]
      BY <1>6 DEF AddMessage, End, Origin
    <2>2. Closed(r, "200") \in GoodHandler
      BY <1>h, <2>1, ClosedIsGood DEF Closed, Reply
    <2>3. req' \in [Request -> GoodHandler]
      BY <2>1, <2>2 DEF TypeInv
    <2>4. req' \in [Request -> Handler]
      BY <2>3 DEF GoodHandler
    <2>5. msgs' \subseteq Msg /\ counts' \subseteq UserId
      BY <1>4, <1>f, <1>g, <2>1 DEF TypeInv, TypeOK, Msg
    <2> QED BY <2>1, <2>3, <2>4, <2>5 DEF TypeInv, TypeOK, userVars
  <1>7. CASE ChatRefused(r)
    BY <1>7, FailTypes DEF ChatRefused, Reply
  <1> QED BY <1>1, <1>2, <1>3, <1>5, <1>6, <1>7 DEF Chat

\* A handler of an account deletion after its next statement.
LEMMA DeletionHandler ==
    ASSUME NEW h \in GoodHandler, h.stage \in {"messages"} \cup Deleting,
           NEW next \in Deleting, NEW doom \in Doom,
           next = "conversations" => doom.convs = {}
    PROVE  [h EXCEPT !.doom = doom, !.stage = next] \in GoodHandler
  <1> DEFINE d == [h EXCEPT !.doom = doom, !.stage = next]
  <1>1. next \in Stage /\ next \in {"conversations", "usage", "sessions", "account"}
    BY DEF Stage, Deleting
  <1>2. h \in Handler /\ h.op = "delete" /\ h.user \in UserId /\ h.held = FALSE
        /\ h.reply = "none"
    BY DEF GoodHandler, Handler, UserStages, Deleting
  <1>3. /\ d \in Handler /\ d.stage = next /\ d.op = h.op /\ d.user = h.user
        /\ d.held = h.held /\ d.doom = doom /\ d.reply = h.reply
    BY <1>1, <1>2 DEF Handler
  <1> HIDE DEF d
  <1>4. d \in GoodHandler
    BY <1>1, <1>2, <1>3 DEF GoodHandler, TokenOps, Deleting, NameStages, ChatStages
  <1> QED BY <1>4 DEF d

\* So does an account deletion.
LEMMA DeletionTypes ==
    ASSUME TypeInv, NEW r \in Request, DeleteAccount(r)
    PROVE  TypeInv'
  <1> DEFINE h == req[r]
             H(doom, next) == [h EXCEPT !.doom = doom, !.stage = next]
  <1>h. h \in GoodHandler /\ h \in Handler /\ h.doom \in Doom
    BY DEF TypeInv, GoodHandler, Handler
  <1>m. /\ MsgsIn(ConvsOf(h.user)) \subseteq Msg /\ ConvsOf(h.user) \subseteq Conv
        /\ counts \cap {h.user} \subseteq UserId
        /\ {s.token : s \in SessionsOf(h.user)} \subseteq Origin
    BY DEF MsgsIn, ConvsOf, SessionsOf, TypeInv, TypeOK, Session
  <1>1. CASE DeleteMessages(r)
    <2> DEFINE D == [h.doom EXCEPT !.msgs = MsgsIn(ConvsOf(h.user))]
    <2>1. h.stage = "messages" /\ UNCHANGED Tables
          /\ req' = [req EXCEPT ![r] = H(D, "conversations")]
      BY <1>1, <1>h DEF DeleteMessages, Tables, TypeInv, Handler
    <2>2. D \in Doom /\ D.convs = {}
      BY <1>h, <1>m, <2>1 DEF Doom, GoodHandler, Deleting, NoDoom
    <2>3. H(D, "conversations") \in GoodHandler
      BY <1>h, <2>1, <2>2, DeletionHandler DEF Deleting
    <2> QED BY <2>1, <2>3, HandlerStep
  <1>2. CASE DeleteConversations(r)
    <2> DEFINE D == [h.doom EXCEPT !.convs = ConvsOf(h.user)]
    <2>1. CASE Fail(r, "500")
      BY <1>2, <2>1, FailTypes DEF DeleteConversations, Reply
    <2>2. CASE UNCHANGED Tables /\ req' = [req EXCEPT ![r].doom.convs = ConvsOf(h.user),
                                                      ![r].stage = "usage"]
      <3>1. h.stage = "conversations" /\ req' = [req EXCEPT ![r] = H(D, "usage")]
        BY <1>2, <1>h, <2>2 DEF DeleteConversations, TypeInv, Handler
      <3>2. D \in Doom
        BY <1>h, <1>m DEF Doom
      <3>3. H(D, "usage") \in GoodHandler
        BY <1>h, <3>1, <3>2, DeletionHandler DEF Deleting
      <3> QED BY <2>2, <3>1, <3>3, HandlerStep
    <2> QED BY <1>2, <2>1, <2>2 DEF DeleteConversations, Tables
  <1>3. CASE DeleteUsage(r)
    <2> DEFINE D == [h.doom EXCEPT !.counts = counts \cap {h.user}]
    <2>1. h.stage = "usage" /\ UNCHANGED Tables
          /\ req' = [req EXCEPT ![r] = H(D, "sessions")]
      BY <1>3, <1>h DEF DeleteUsage, Tables, TypeInv, Handler
    <2>2. D \in Doom
      BY <1>h, <1>m DEF Doom
    <2>3. H(D, "sessions") \in GoodHandler
      BY <1>h, <2>1, <2>2, DeletionHandler DEF Deleting
    <2> QED BY <2>1, <2>3, HandlerStep
  <1>4. CASE DeleteSessions(r)
    <2> DEFINE D == [h.doom EXCEPT !.tokens = {s.token : s \in SessionsOf(h.user)}]
    <2>1. h.stage = "sessions" /\ UNCHANGED Tables
          /\ req' = [req EXCEPT ![r] = H(D, "account")]
      BY <1>4, <1>h DEF DeleteSessions, Tables, TypeInv, Handler
    <2>2. D \in Doom
      BY <1>h, <1>m DEF Doom
    <2>3. H(D, "account") \in GoodHandler
      BY <1>h, <2>1, <2>2, DeletionHandler DEF Deleting
    <2> QED BY <2>1, <2>3, HandlerStep
  <1>5. CASE DeleteUser(r)
    <2>1. CASE Fail(r, "500")
      BY <1>5, <2>1, FailTypes DEF DeleteUser, Reply
    <2>2. CASE ~Fail(r, "500")
      <3>1. /\ users' \subseteq users /\ msgs' \subseteq msgs /\ convs' \subseteq convs
            /\ counts' \subseteq counts /\ sessions' \subseteq sessions
            /\ End(r, "204") /\ UNCHANGED <<backend, lastUser, issued>>
            /\ h.stage = "account"
        BY <1>5, <2>2 DEF DeleteUser
      <3>2. Closed(r, "204") \in GoodHandler
        BY <1>h, <3>1, ClosedIsGood DEF Closed, Reply
      <3>3. req' \in [Request -> GoodHandler]
        BY <3>1, <3>2 DEF TypeInv, End
      <3>4. req' \in [Request -> Handler]
        BY <3>3 DEF GoodHandler
      <3> QED BY <3>1, <3>3, <3>4 DEF TypeInv, TypeOK
    <2> QED BY <2>1, <2>2
  <1> QED BY <1>1, <1>2, <1>3, <1>4, <1>5 DEF DeleteAccount

\* So does a request that arrives.
LEMMA ArriveTypes ==
    ASSUME TypeInv, NEW r \in Request, Arrive(r)
    PROVE  TypeInv'
  <1>1. ASSUME NEW op \in Ops, NEW p \in Person, ArriveByName(r, op, p)
        PROVE  TypeInv'
    <2> DEFINE d == [Waiting EXCEPT !.op = op, !.stage = "find", !.person = p]
    <2>1. /\ op \in NameOps /\ op \in AllOps /\ req[r] = Waiting /\ UNCHANGED Tables
      BY <1>1, OpsAssumption DEF ArriveByName, NameOps, Tables, TypeInv, GoodHandler
    <2>2. Waiting \in Handler
      BY <2>1 DEF TypeInv, TypeOK
    <2>3. d \in GoodHandler
      BY <2>1, <2>2 DEF GoodHandler, Handler, Waiting, Stage, NameStages, UserStages,
                        ChatStages, Deleting, NameOps
    <2>4. req' = [req EXCEPT ![r] = d]
      BY <1>1, <2>1 DEF ArriveByName, TypeInv
    <2> QED BY <2>1, <2>3, <2>4, HandlerStep
  <1>2. ASSUME NEW op \in Ops, NEW t \in Origin, NEW c \in Origin \cup {None},
               ArriveWithToken(r, op, t, c)
        PROVE  TypeInv'
    <2> DEFINE d == [Waiting EXCEPT !.op = op, !.stage = "session", !.token = t, !.conv = c]
    <2>1. /\ op \in TokenOps /\ op \in AllOps /\ req[r] = Waiting /\ UNCHANGED Tables
      BY <1>2, OpsAssumption DEF ArriveWithToken, TokenOps, Tables, TypeInv, GoodHandler
    <2>2. Waiting \in Handler
      BY <2>1 DEF TypeInv, TypeOK
    <2>3. d \in GoodHandler
      BY <2>1, <2>2 DEF GoodHandler, Handler, Waiting, Stage, NameStages, UserStages,
                        ChatStages, Deleting, TokenOps, NoUser
    <2>4. req' = [req EXCEPT ![r] = d]
      BY <1>2, <2>1 DEF ArriveWithToken, TypeInv
    <2> QED BY <2>1, <2>3, <2>4, HandlerStep
  <1>3. ASSUME NEW op \in Ops, NEW t \in Origin, ArriveExpired(r, op, t)
        PROVE  TypeInv'
    <2> DEFINE d == [Waiting EXCEPT !.op = op, !.stage = "ended", !.reply = Without(op)]
    <2>1. /\ op \in TokenOps /\ op \in AllOps /\ req[r] = Waiting /\ UNCHANGED Tables
      BY <1>3, OpsAssumption DEF ArriveExpired, TokenOps, Tables, TypeInv, GoodHandler
    <2>2. Waiting \in Handler /\ Without(op) \in {"guest", "401"}
      BY <2>1 DEF TypeInv, TypeOK, Without
    <2>3. d \in GoodHandler
      BY <2>1, <2>2 DEF GoodHandler, Handler, Waiting, Stage, NameStages, UserStages,
                        ChatStages, Deleting, TokenOps, NoDoom
    <2>4. req' = [req EXCEPT ![r] = d]
      BY <1>3, <2>1 DEF ArriveExpired, TypeInv
    <2> QED BY <2>1, <2>3, <2>4, HandlerStep
  <1> QED BY <1>1, <1>2, <1>3 DEF Arrive

\* A request that is cancelled by the database had been received.
LEMMA CancelTypes ==
    ASSUME TypeInv, NEW r \in Request, BreakDeadlock(r) \/ LockTimeout(r)
    PROVE  TypeInv' /\ Fail(r, "500") /\ req[r].stage \notin {"idle", "ended"}
  <1>1. Fail(r, "500") /\ req[r].stage \notin {"idle", "ended"}
    BY DEF BreakDeadlock, LockTimeout, Deadlocked, Writing
  <1> QED BY <1>1, FailTypes DEF Reply

\* A session that grows older, and the purge.
LEMMA TimeTypes ==
    ASSUME TypeInv, (\E s \in sessions : Expire(s) \/ Age(s)) \/ Purge
    PROVE  TypeInv'
  <1>1. ASSUME NEW s \in sessions, Expire(s) \/ Age(s)
        PROVE  sessions' \subseteq Session /\ UNCHANGED <<userVars, chatVars, req, issued>>
    <2>1. s \in Session
      BY DEF TypeInv, TypeOK
    <2>2. /\ [s EXCEPT !.expired = "now"] \in Session
          /\ [s EXCEPT !.expired = IF @ = "now" THEN "old" ELSE @,
                       !.revoked = IF @ = "now" THEN "old" ELSE @] \in Session
      BY <2>1 DEF Session, Since
    <2> QED BY <1>1, <2>2 DEF Expire, Age, ReplaceSession, TypeInv, TypeOK
  <1>2. sessions' \subseteq Session /\ UNCHANGED <<userVars, chatVars, req, issued>>
    BY <1>1 DEF Purge, TypeInv, TypeOK
  <1> QED BY <1>2 DEF TypeInv, TypeOK, userVars, chatVars

LEMMA NextTypes == TypeInv /\ [Next]_vars => TypeInv'
  <1> SUFFICES ASSUME TypeInv, [Next]_vars PROVE TypeInv'
    OBVIOUS
  <1>1. ASSUME NEW r \in Request, Arrive(r) \/ Progress(r)
        PROVE  TypeInv'
    BY <1>1, ArriveTypes, LogInTypes, ResolveTypes, LogoutTypes, ChatTypes,
       DeletionTypes, CancelTypes DEF Progress
  <1>2. CASE (\E s \in sessions : Expire(s) \/ Age(s)) \/ Purge
    BY <1>2, TimeTypes
  <1>3. CASE UNCHANGED vars
    BY <1>3 DEF vars, userVars, chatVars, TypeInv, TypeOK
  <1> QED BY <1>1, <1>2, <1>3 DEF Next, Quiet

LEMMA TypeInvariance == Spec => []TypeInv
  BY InitTypes, NextTypes, PTL DEF Spec

\* Every state of accounts, sessions and requests is well typed, on either
\* database and for any number of requests and people.
THEOREM TypeCorrect == Spec => []TypeOK
  <1>1. TypeInv => TypeOK
    BY DEF TypeInv
  <1> QED BY <1>1, TypeInvariance, PTL

----------------------------------------------------------------------------
(* Most steps of a request change nothing but its own handler: h is the    *)
(* handler of r before such a step, d after it.                            *)

KeepsUser(h, d) ==
    \/ d.user = h.user
    \/ h.user = NoUser /\ d.user \in UserId /\ d.token = h.token
       /\ \E s \in sessions : s.token = h.token /\ Live(s) /\ d.user = s.user
    \/ h.token = None /\ d.token = None /\ d.user \in Ids

KeepsDoom(r, h, d) ==
    \/ d.doom.convs = {}
    \/ d.doom.convs = h.doom.convs /\ d.doom.msgs = h.doom.msgs
    \/ /\ d.doom.convs \subseteq convs
       /\ ~Locked(r, "convs", d.doom.convs)
       /\ backend = "postgres" => MsgsIn(d.doom.convs) \subseteq d.doom.msgs

LocalChange(r, h, d) ==
    /\ h.stage # "ended" /\ d.reply \notin {"201", "204"}
    /\ \/ d.token = h.token
       \/ /\ h.token = None /\ h.user = NoUser /\ d.user = NoUser
          /\ d.token \in Tokens /\ ~Expired(d.token)
    /\ d.before = h.before \/ d.before = GoodOf(h.user)
    /\ d.stage = "revoke" => d.before = GoodOf(d.user)
    /\ d.held => d.user = h.user /\ (h.held \/ UserThere(h.user))
    /\ KeepsUser(h, d)
    /\ KeepsDoom(r, h, d)

LocalStep(r) ==
    /\ UNCHANGED Tables
    /\ req' = [req EXCEPT ![r] = req'[r]]
    /\ LocalChange(r, req[r], req'[r])

\* A request that fails changes its own record only, and confirms nothing.
LEMMA FailIsLocal ==
    ASSUME TypeInv, NEW r \in Request, NEW reply \in Reply \ {"201", "204"},
           Fail(r, reply), req[r].stage # "ended"
    PROVE  LocalStep(r)
  <1> DEFINE h == req[r]
             d == req'[r]
  <1>1. h \in GoodHandler /\ h \in Handler
    BY DEF TypeInv, GoodHandler
  <1>2. req' = [req EXCEPT ![r] = Closed(r, reply)] /\ UNCHANGED Tables
    BY DEF Fail, End, Tables
  <1>3. d = Closed(r, reply)
    BY <1>2 DEF TypeInv
  <1>4. /\ d.token = h.token /\ d.before = h.before /\ d.stage = "ended" /\ d.held = FALSE
        /\ d.user = h.user /\ d.doom = NoDoom /\ d.reply = reply
    BY <1>1, <1>3 DEF Closed, Handler
  <1>5. d.doom.convs = {}
    BY <1>4 DEF NoDoom
  <1> QED BY <1>2, <1>3, <1>4, <1>5 DEF LocalStep, LocalChange, KeepsUser, KeepsDoom

\* The steps of an account deletion before its last one.
LEMMA DeletionIsLocal ==
    ASSUME TypeInv, NEW r \in Request,
           DeleteMessages(r) \/ DeleteConversations(r) \/ DeleteUsage(r) \/ DeleteSessions(r)
    PROVE  LocalStep(r)
  <1> DEFINE h == req[r]
             d == req'[r]
             Same == /\ d.token = h.token /\ d.before = h.before /\ d.held = h.held
                     /\ d.user = h.user /\ d.reply = h.reply /\ d.stage # "revoke"
  <1>1. h \in GoodHandler /\ h \in Handler /\ h.doom \in Doom
    BY DEF TypeInv, GoodHandler, Handler
  <1>2. ASSUME UNCHANGED Tables, req' = [req EXCEPT ![r] = d], Same,
               KeepsDoom(r, h, d), h.stage # "ended"
        PROVE  LocalStep(r)
    BY <1>1, <1>2 DEF LocalStep, LocalChange, KeepsUser, GoodHandler
  <1>3. CASE DeleteMessages(r)
    <2>1. /\ h.stage = "messages" /\ UNCHANGED Tables /\ req' = [req EXCEPT ![r] = d] /\ Same
          /\ d.doom.convs = h.doom.convs
      BY <1>1, <1>3 DEF DeleteMessages, Tables, TypeInv, Handler, Doom
    <2>2. h.doom.convs = {}
      BY <1>1, <2>1 DEF GoodHandler, Deleting, NoDoom
    <2> QED BY <1>2, <2>1, <2>2 DEF KeepsDoom
  <1>4. CASE DeleteConversations(r)
    <2>1. CASE Fail(r, "500")
      BY <1>4, <2>1, FailIsLocal DEF DeleteConversations, Reply
    <2>2. CASE ~Fail(r, "500")
      <3>1. /\ h.stage = "conversations" /\ UNCHANGED Tables /\ ~Locked(r, "convs", ConvsOf(h.user))
            /\ backend = "postgres" => MsgsIn(ConvsOf(h.user)) \subseteq h.doom.msgs
            /\ req' = [req EXCEPT ![r].doom.convs = ConvsOf(h.user), ![r].stage = "usage"]
        BY <1>4, <2>2 DEF DeleteConversations, Tables
      <3>2. /\ req' = [req EXCEPT ![r] = d] /\ Same
            /\ d.doom.convs = ConvsOf(h.user) /\ d.doom.msgs = h.doom.msgs
        BY <1>1, <3>1 DEF TypeInv, Handler, Doom
      <3>3. ConvsOf(h.user) \subseteq convs
        BY DEF ConvsOf
      <3>4. KeepsDoom(r, h, d)
        BY <3>1, <3>2, <3>3 DEF KeepsDoom
      <3> QED BY <1>2, <3>1, <3>2, <3>4
    <2> QED BY <2>1, <2>2
  <1>5. CASE DeleteUsage(r)
    <2>1. /\ h.stage = "usage" /\ UNCHANGED Tables /\ req' = [req EXCEPT ![r] = d] /\ Same
          /\ d.doom.convs = h.doom.convs /\ d.doom.msgs = h.doom.msgs
      BY <1>1, <1>5 DEF DeleteUsage, Tables, TypeInv, Handler, Doom
    <2> QED BY <1>2, <2>1 DEF KeepsDoom
  <1>6. CASE DeleteSessions(r)
    <2>1. /\ h.stage = "sessions" /\ UNCHANGED Tables /\ req' = [req EXCEPT ![r] = d] /\ Same
          /\ d.doom.convs = h.doom.convs /\ d.doom.msgs = h.doom.msgs
      BY <1>1, <1>6 DEF DeleteSessions, Tables, TypeInv, Handler, Doom
    <2> QED BY <1>2, <2>1 DEF KeepsDoom
  <1> QED BY <1>3, <1>4, <1>5, <1>6

\* Arriving, finding and resolving.
LEMMA ResolvingIsLocal ==
    ASSUME TypeInv, NEW r \in Request,
           Arrive(r) \/ FindNobody(r) \/ FindUser(r) \/ Resolve(r)
    PROVE  LocalStep(r)
  <1> DEFINE h == req[r]
             d == req'[r]
  <1>1. h \in GoodHandler /\ h \in Handler
    BY DEF TypeInv, GoodHandler
  <1>2. ASSUME UNCHANGED Tables, req' = [req EXCEPT ![r] = d], d.held = FALSE,
               d.doom.convs = {}, h.stage # "ended", d.reply = "none",
               \/ d.token = h.token
               \/ /\ h.token = None /\ h.user = NoUser /\ d.user = NoUser
                  /\ d.token \in Tokens /\ ~Expired(d.token),
               \/ d.before = h.before /\ d.stage # "revoke"
               \/ d.before = GoodOf(h.user) /\ d.user = h.user,
               KeepsUser(h, d)
        PROVE  LocalStep(r)
    BY <1>2 DEF LocalStep, LocalChange, KeepsDoom
  <1>3. h.stage \notin Deleting => h.doom.convs = {}
    BY <1>1 DEF GoodHandler, NoDoom
  <1>4. h.stage \notin ChatStages => h.held = FALSE
    BY <1>1 DEF GoodHandler, Handler, ChatStages
  <1>5. ASSUME h.stage = "idle"
        PROVE  h.token = None /\ h.user = NoUser
    BY <1>1, <1>5 DEF GoodHandler, Waiting
  <1>6. ASSUME NEW op \in Ops, NEW p \in Person, ArriveByName(r, op, p)
        PROVE  LocalStep(r)
    <2>1. /\ h.stage = "idle" /\ UNCHANGED Tables /\ req' = [req EXCEPT ![r] = d]
          /\ d.token = h.token /\ d.before = h.before /\ d.held = h.held /\ d.user = h.user
          /\ d.reply = h.reply /\ d.stage = "find" /\ d.doom = h.doom
      BY <1>1, <1>6 DEF ArriveByName, Tables, TypeInv, Handler
    <2> QED BY <1>1, <1>2, <1>3, <1>4, <2>1 DEF KeepsUser, GoodHandler, Deleting, ChatStages
  <1>7. ASSUME NEW op \in Ops, NEW t \in Origin, NEW c \in Origin \cup {None},
               ArriveWithToken(r, op, t, c)
        PROVE  LocalStep(r)
    <2>1. /\ h.stage = "idle" /\ UNCHANGED Tables /\ req' = [req EXCEPT ![r] = d]
          /\ d.before = h.before /\ d.held = h.held /\ d.user = h.user
          /\ d.reply = h.reply /\ d.stage = "session" /\ d.doom = h.doom
          /\ d.token \in Tokens /\ ~Expired(d.token)
      BY <1>1, <1>7 DEF ArriveWithToken, Tables, TypeInv, Handler
    <2> QED BY <1>1, <1>2, <1>3, <1>4, <1>5, <2>1 DEF KeepsUser, GoodHandler, Deleting, ChatStages
  <1>8. CASE FindNobody(r)
    <2>1. CASE Fail(r, "401")
      BY <1>8, <2>1, FailIsLocal DEF FindNobody, Reply
    <2>2. CASE Only(r, "insert")
      <3>1. /\ h.stage = "find" /\ UNCHANGED Tables /\ req' = [req EXCEPT ![r] = d]
            /\ d.token = h.token /\ d.before = h.before /\ d.held = h.held /\ d.user = h.user
            /\ d.reply = h.reply /\ d.stage = "insert" /\ d.doom = h.doom
        BY <1>1, <1>8, <2>2 DEF FindNobody, Only, Go, Tables, TypeInv, Handler
      <3> QED BY <1>1, <1>2, <1>3, <1>4, <3>1 DEF KeepsUser, GoodHandler, Deleting, ChatStages
    <2> QED BY <1>8, <2>1, <2>2 DEF FindNobody
  <1>9. CASE FindUser(r)
    <2>1. PICK u \in users : /\ h.stage = "find" /\ UNCHANGED Tables
                             /\ req' = [req EXCEPT ![r].user = u.id, ![r].stage = "issue"]
      BY <1>9 DEF FindUser, Tables
    <2>2. /\ req' = [req EXCEPT ![r] = d]
          /\ d.token = h.token /\ d.before = h.before /\ d.held = h.held /\ d.user = u.id
          /\ d.reply = h.reply /\ d.stage = "issue" /\ d.doom = h.doom
      BY <1>1, <2>1 DEF TypeInv, Handler
    <2>3. h.token = None /\ u.id \in Ids
      BY <1>1, <2>1 DEF GoodHandler, NameStages, NameOps, TokenOps, Ids
    <2> QED BY <1>1, <1>2, <1>3, <1>4, <2>1, <2>2, <2>3
            DEF KeepsUser, GoodHandler, Deleting, ChatStages
  <1>10. CASE ResolveSession(r)
    <2>1. PICK s \in sessions : /\ h.stage = "session" /\ UNCHANGED Tables
                                /\ s.token = h.token /\ Live(s)
                                /\ req' = [req EXCEPT ![r].user = s.user, ![r].stage = "user"]
      BY <1>10 DEF ResolveSession, Tables
    <2>2. /\ req' = [req EXCEPT ![r] = d]
          /\ d.token = h.token /\ d.before = h.before /\ d.held = h.held /\ d.user = s.user
          /\ d.reply = h.reply /\ d.stage = "user" /\ d.doom = h.doom
      BY <1>1, <2>1 DEF TypeInv, Handler
    <2>3. h.user = NoUser /\ s.user \in UserId
      BY <1>1, <2>1 DEF GoodHandler, TypeInv, TypeOK, Session
    <2> QED BY <1>1, <1>2, <1>3, <1>4, <2>1, <2>2, <2>3
            DEF KeepsUser, GoodHandler, Deleting, ChatStages
  <1>11. CASE ResolveUser(r)
    <2>1. /\ h.stage = "user" /\ UNCHANGED Tables
          /\ req' = [req EXCEPT ![r] = [h EXCEPT !.stage = AfterUser(h.op),
                                                 !.before = GoodOf(h.user)]]
      BY <1>11 DEF ResolveUser, Tables, TypeInv
    <2>2. /\ req' = [req EXCEPT ![r] = d]
          /\ d.token = h.token /\ d.before = GoodOf(h.user) /\ d.held = h.held
          /\ d.user = h.user /\ d.reply = h.reply /\ d.doom = h.doom
      BY <1>1, <2>1 DEF TypeInv, Handler
    <2> QED BY <1>1, <1>2, <1>3, <1>4, <2>1, <2>2
            DEF KeepsUser, GoodHandler, Deleting, ChatStages
  <1>12. CASE SessionRefused(r) \/ UserGone(r)
    BY <1>12, FailIsLocal DEF SessionRefused, UserGone, Turned, Without, Reply
  <1>13. ASSUME NEW op \in Ops, NEW t \in Origin, ArriveExpired(r, op, t)
         PROVE  LocalStep(r)
    <2>1. /\ h.stage = "idle" /\ UNCHANGED Tables /\ req' = [req EXCEPT ![r] = d]
          /\ d.token = h.token /\ d.before = h.before /\ d.held = h.held /\ d.user = h.user
          /\ d.reply \in {"guest", "401"} /\ d.stage = "ended" /\ d.doom = h.doom
      BY <1>1, <1>13 DEF ArriveExpired, Without, Tables, TypeInv, Handler
    <2>2. h.held = FALSE /\ d.doom.convs = {}
      BY <1>3, <1>4, <2>1 DEF Deleting, ChatStages
    <2> QED BY <2>1, <2>2 DEF LocalStep, LocalChange, KeepsUser, KeepsDoom
  <1> QED BY <1>6, <1>7, <1>8, <1>9, <1>10, <1>11, <1>12, <1>13 DEF Arrive, Resolve

\* A chat up to its first commit.
LEMMA ChatIsLocal ==
    ASSUME TypeInv, NEW r \in Request, SeeCount(r) \/ AddCount(r) \/ OpenConversation(r)
    PROVE  LocalStep(r)
  <1> DEFINE h == req[r]
             d == req'[r]
             Same == /\ d.token = h.token /\ d.before = h.before /\ d.user = h.user
                     /\ d.reply = h.reply /\ d.stage # "revoke" /\ d.doom = h.doom
  <1>1. h \in GoodHandler /\ h \in Handler
    BY DEF TypeInv, GoodHandler
  <1>2. ASSUME UNCHANGED Tables, req' = [req EXCEPT ![r] = d], Same,
               d.held => h.held \/ UserThere(h.user), h.stage # "ended"
        PROVE  LocalStep(r)
    BY <1>1, <1>2 DEF LocalStep, LocalChange, KeepsUser, KeepsDoom, GoodHandler
  <1>3. ASSUME NEW next \in ChatStages, Only(r, next), h.stage # "ended"
        PROVE  LocalStep(r)
    <2>1. /\ UNCHANGED Tables /\ req' = [req EXCEPT ![r] = d] /\ d.held = h.held /\ Same
      BY <1>1, <1>3 DEF Only, Go, Tables, TypeInv, Handler, ChatStages
    <2> QED BY <1>2, <1>3, <2>1
  <1>4. CASE SeeCount(r)
    BY <1>3, <1>4 DEF SeeCount, ChatStages
  <1>5. CASE AddCount(r)
    <2>1. CASE Fail(r, "500")
      BY <1>5, <2>1, FailIsLocal DEF AddCount, Reply
    <2>2. CASE ~Fail(r, "500")
      <3>1. /\ h.stage = "addCount" /\ UNCHANGED Tables /\ UserThere(h.user)
            /\ req' = [req EXCEPT ![r].held = TRUE, ![r].stage = "talk"]
        BY <1>5, <2>2 DEF AddCount, Tables
      <3>2. req' = [req EXCEPT ![r] = d] /\ Same
        BY <1>1, <3>1 DEF TypeInv, Handler
      <3> QED BY <1>2, <3>1, <3>2
    <2> QED BY <2>1, <2>2
  <1>6. CASE OpenConversation(r)
    BY <1>3, <1>6, FailIsLocal DEF OpenConversation, ChatStages, Reply
  <1> QED BY <1>4, <1>5, <1>6

\* The last step of a deletion that is not refused.
Deleted(r) ==
    /\ DeleteUser(r)
    /\ backend = "postgres" => ConvsOf(req[r].user) \subseteq req[r].doom.convs
    /\ End(r, "204") /\ UNCHANGED <<backend, lastUser, issued>>

\* The steps of a request, by what they write.
LEMMA StepOfRequest ==
    ASSUME TypeInv, NEW r \in Request, Arrive(r) \/ Progress(r)
    PROVE  \/ LocalStep(r)
           \/ InsertUser(r) \/ IssueSession(r) \/ Revoke(r)
           \/ CreateConversation(r) \/ AddMessage(r) \/ Deleted(r)
  <1>1. CASE LogIn(r)
    BY <1>1, FailIsLocal, ResolvingIsLocal
       DEF LogIn, Refuse, InsertLost, IssueRefused, Reply
  <1>2. CASE Arrive(r) \/ Resolve(r)
    BY <1>2, ResolvingIsLocal
  <1>3. CASE Revoke(r) \/ Profile(r)
    BY <1>3, FailIsLocal DEF Profile, Reply
  <1>4. CASE Chat(r)
    BY <1>4, ChatIsLocal, FailIsLocal DEF Chat, ChatRefused, Reply
  <1>5. CASE DeleteAccount(r)
    <2>1. CASE DeleteUser(r)
      BY <2>1, FailIsLocal DEF DeleteUser, Deleted, Reply
    <2> QED BY <1>5, <2>1, DeletionIsLocal DEF DeleteAccount
  <1>6. CASE BreakDeadlock(r) \/ LockTimeout(r)
    BY <1>6, CancelTypes, FailIsLocal DEF Reply
  <1> QED BY <1>1, <1>2, <1>3, <1>4, <1>5, <1>6 DEF Progress

\* What the other steps do to their handler.
Kept(r) ==
    /\ req'[r].op = req[r].op         /\ req'[r].person = req[r].person
    /\ req'[r].token = req[r].token   /\ req'[r].before = req[r].before
    /\ \A q \in Request \ {r} : req'[q] = req[q]

Ends(r, reply) ==
    /\ Kept(r) /\ req'[r].user = req[r].user
    /\ req'[r].stage = "ended" /\ req'[r].reply = reply
    /\ req'[r].held = FALSE /\ req'[r].doom = NoDoom

\* What the steps that write a table do to their own request.
LEMMA WritingSteps ==
    ASSUME TypeInv, NEW r \in Request
    PROVE  /\ \A reply : End(r, reply) => Ends(r, reply)
           /\ IssueSession(r) \/ AddMessage(r) => Ends(r, "200")
           /\ Revoke(r) \/ Deleted(r) => Ends(r, "204")
           /\ CreateConversation(r) =>
                /\ Kept(r) /\ req'[r].user = req[r].user /\ req'[r].held = FALSE
                /\ req'[r].stage = "say" /\ req'[r].conv = r
                /\ req'[r].doom = req[r].doom /\ req'[r].reply = req[r].reply
           /\ InsertUser(r) => \E n \in UserId :
                /\ IsNextUser(n) /\ users' = users \cup {[id |-> n, person |-> req[r].person]}
                /\ lastUser' = IF n > lastUser THEN n ELSE lastUser
                /\ \/ req[r].op = "register" /\ Ends(r, "201")
                   \/ /\ req[r].op # "register" /\ Kept(r) /\ req'[r].user = n
                      /\ req'[r].stage = "issue" /\ req'[r].held = req[r].held
                      /\ req'[r].doom = req[r].doom /\ req'[r].reply = req[r].reply
  <1> DEFINE h == req[r]
  <1>1. h \in Handler
    BY DEF TypeInv, TypeOK
  <1>2. ASSUME NEW reply, req' = [req EXCEPT ![r] = Closed(r, reply)]
        PROVE  Ends(r, reply)
    <2>1. req'[r] = Closed(r, reply) /\ \A q \in Request \ {r} : req'[q] = req[q]
      BY <1>2 DEF TypeInv
    <2> QED BY <1>1, <2>1 DEF Closed, Handler, Ends, Kept
  <1>3. \A reply : End(r, reply) => Ends(r, reply)
    BY <1>2 DEF End
  <1>4. CreateConversation(r) =>
            /\ Kept(r) /\ req'[r].user = h.user /\ req'[r].held = FALSE
            /\ req'[r].stage = "say" /\ req'[r].conv = r
            /\ req'[r].doom = h.doom /\ req'[r].reply = h.reply
    BY <1>1 DEF CreateConversation, TypeInv, Handler, Kept
  <1>5. ASSUME InsertUser(r)
        PROVE  \E n \in UserId :
            /\ IsNextUser(n) /\ users' = users \cup {[id |-> n, person |-> h.person]}
            /\ lastUser' = IF n > lastUser THEN n ELSE lastUser
            /\ \/ h.op = "register" /\ Ends(r, "201")
               \/ /\ h.op # "register" /\ Kept(r) /\ req'[r].user = n
                  /\ req'[r].stage = "issue" /\ req'[r].held = h.held
                  /\ req'[r].doom = h.doom /\ req'[r].reply = h.reply
    <2>1. PICK n \in UserId :
            /\ IsNextUser(n) /\ users' = users \cup {[id |-> n, person |-> h.person]}
            /\ lastUser' = IF n > lastUser THEN n ELSE lastUser
            /\ req' = [req EXCEPT ![r] = IF h.op = "register" THEN Closed(r, "201")
                                         ELSE [h EXCEPT !.user = n, !.stage = "issue"]]
      BY <1>5 DEF InsertUser, TypeInv
    <2>2. CASE h.op = "register"
      BY <1>2, <2>1, <2>2
    <2>3. CASE h.op # "register"
      <3>1. req'[r] = [h EXCEPT !.user = n, !.stage = "issue"]
            /\ \A q \in Request \ {r} : req'[q] = req[q]
        BY <2>1, <2>3 DEF TypeInv
      <3>2. /\ req'[r].user = n /\ req'[r].stage = "issue" /\ req'[r].held = h.held
            /\ req'[r].doom = h.doom /\ req'[r].reply = h.reply /\ Kept(r)
        BY <1>1, <3>1 DEF Handler, Kept
      <3> QED BY <2>1, <2>3, <3>2
    <2> QED BY <2>2, <2>3
  <1> QED BY <1>3, <1>4, <1>5
          DEF IssueSession, AddMessage, Revoke, Deleted

\* A request takes no step once it has ended, and none changes another's handler.
LEMMA OwnHandler ==
    ASSUME TypeInv, NEW r \in Request, Arrive(r) \/ Progress(r)
    PROVE  /\ req[r].stage # "ended"
           /\ \A q \in Request \ {r} : req'[q] = req[q]
  <1>1. CASE LocalStep(r)
    BY <1>1 DEF LocalStep, LocalChange, TypeInv
  <1>2. CASE ~LocalStep(r)
    <2>1. req[r].stage # "ended"
      BY <1>2, StepOfRequest
         DEF InsertUser, IssueSession, Revoke, CreateConversation, AddMessage, Deleted, DeleteUser
    <2>2. \A q \in Request \ {r} : req'[q] = req[q]
      BY <1>2, StepOfRequest, WritingSteps DEF Ends, Kept
    <2> QED BY <2>1, <2>2
  <1> QED BY <1>1, <1>2

----------------------------------------------------------------------------
(* Registrations.                                                          *)

SomeoneLeft == \E d \in Request : req[d].op = "delete" /\ req[d].reply = "204"

\* As long as nobody has left, a name that was registered is taken.
RegistrationInv == SomeoneLeft \/
    /\ \A r \in Request : req[r].reply = "201" => NameTaken(req[r].person)
    /\ \A r, q \in Request :
        r # q /\ req[r].reply = "201" /\ req[q].reply = "201" =>
            req[r].person # req[q].person

LEMMA RegistrationStep == TypeInv /\ RegistrationInv /\ [Next]_vars => RegistrationInv'
  <1> SUFFICES ASSUME TypeInv, RegistrationInv, [Next]_vars, ~SomeoneLeft'
               PROVE  RegistrationInv'
    BY DEF RegistrationInv
  <1>1. ASSUME NEW r \in Request, Arrive(r) \/ Progress(r)
        PROVE  RegistrationInv'
    <2>1. req[r].stage # "ended" /\ \A q \in Request \ {r} : req'[q] = req[q]
      BY <1>1, OwnHandler
    <2>2. ~SomeoneLeft
      <3>1. \A d \in Request : req[d].reply = "204" => req'[d] = req[d]
        BY <2>1 DEF TypeInv, GoodHandler
      <3> QED BY <3>1 DEF SomeoneLeft
    <2>3. /\ \A q \in Request : req[q].reply = "201" => NameTaken(req[q].person) /\ q # r
          /\ \A p, q \in Request :
                p # q /\ req[p].reply = "201" /\ req[q].reply = "201" =>
                    req[p].person # req[q].person
      BY <2>1, <2>2 DEF RegistrationInv, TypeInv, GoodHandler
    <2>4. ASSUME req'[r].reply # "201", users \subseteq users'
          PROVE  RegistrationInv'
      BY <2>1, <2>3, <2>4 DEF RegistrationInv, NameTaken
    <2>5. CASE LocalStep(r)
      BY <2>4, <2>5 DEF LocalStep, LocalChange, Tables, userVars
    <2>6. CASE IssueSession(r) \/ Revoke(r) \/ AddMessage(r)
      <3>1. users' = users
        BY <2>6 DEF IssueSession, Revoke, AddMessage, userVars
      <3>2. req'[r].reply \in {"200", "204"}
        BY <2>6, WritingSteps DEF Ends
      <3> QED BY <2>4, <3>1, <3>2
    <2>r. req[r].reply = "none"
      BY <2>1 DEF TypeInv, GoodHandler
    <2>7. CASE CreateConversation(r)
      <3>1. users' = users
        BY <2>7 DEF CreateConversation, userVars
      <3>2. req'[r].reply = req[r].reply
        BY <2>7, WritingSteps
      <3> QED BY <2>4, <2>r, <3>1, <3>2
    <2>8. CASE InsertUser(r)
      <3>1. PICK n \in UserId :
              /\ users' = users \cup {[id |-> n, person |-> req[r].person]}
              /\ \/ req[r].op = "register" /\ Ends(r, "201")
                 \/ req'[r].reply = req[r].reply
        BY <2>8, WritingSteps
      <3>2. users \subseteq users'
        BY <3>1
      <3>3. CASE Ends(r, "201")
        <4>1. req'[r].reply = "201" /\ req'[r].person = req[r].person
          BY <3>3 DEF Ends, Kept
        <4>2. ~NameTaken(req[r].person)
          BY <2>8 DEF InsertUser, Conflicts
        <4>3. \A q \in Request : req[q].reply = "201" => req[q].person # req[r].person
          BY <2>3, <4>2
        <4>4. \E u \in users' : u.person = req[r].person
          <5> DEFINE u == [id |-> n, person |-> req[r].person]
          <5>1. u \in users' /\ u.person = req[r].person
            BY <3>1
          <5> QED BY <5>1
        <4>5. \A q \in Request :
                req'[q].reply = "201" => \E u \in users' : u.person = req'[q].person
          BY <2>1, <2>3, <3>2, <4>1, <4>4 DEF NameTaken
        <4>6. \A p, q \in Request :
                p # q /\ req'[p].reply = "201" /\ req'[q].reply = "201" =>
                    req'[p].person # req'[q].person
          BY <2>1, <2>3, <4>1, <4>3
        <4> QED BY <4>5, <4>6 DEF RegistrationInv, NameTaken
      <3> QED BY <2>4, <2>r, <3>1, <3>2, <3>3
    <2>9. CASE Deleted(r)
      <3>1. req[r].op = "delete"
        BY <2>9 DEF TypeInv, GoodHandler, Deleted, DeleteUser, Deleting
      <3>2. req'[r].reply = "204" /\ req'[r].op = "delete"
        BY <2>9, <3>1, WritingSteps DEF Ends, Kept
      <3> QED BY <3>2 DEF SomeoneLeft
    <2> QED BY <1>1, <2>5, <2>6, <2>7, <2>8, <2>9, StepOfRequest
  <1>2. CASE UNCHANGED <<users, req>>
    BY <1>2 DEF RegistrationInv, SomeoneLeft, NameTaken
  <1> QED BY <1>1, <1>2 DEF Next, Quiet, vars, userVars, Expire, Age, ReplaceSession, Purge

\* Two requests that register the same name at once are never both told that
\* they succeeded, unless an account was deleted: the unique columns decide.
THEOREM RegistrationsExclude == Spec => []OneRegistrationWins
  <1>1. Init => RegistrationInv
    BY DEF Init, RegistrationInv, Waiting
  <1>2. RegistrationInv => OneRegistrationWins
    BY DEF RegistrationInv, OneRegistrationWins, SomeoneLeft
  <1> QED BY <1>1, <1>2, RegistrationStep, TypeInvariance, PTL DEF Spec

----------------------------------------------------------------------------
(* Logging out everywhere.                                                 *)

\* What a session's token says of it: it was issued once, so every session
\* with a token that a logout has seen is of the user that logs out.
LogoutInv ==
    /\ \A t \in Request \cap Tokens : req[t].stage = "ended"
    /\ \A s \in sessions : s.token \in Tokens
    /\ \A s, t \in sessions : s.token = t.token => s.user = t.user
    /\ \A r \in Request : req[r].before \subseteq Tokens
    /\ \A r \in Request : req[r].stage = "revoke" =>
        \A s \in sessions : s.token \in req[r].before => s.user = req[r].user
    /\ LogoutAllIsComplete

\* Every session was there before, with the same user, unexpired if it is now
\* and not revoked if it is not now.
SessionsAge == \A s \in sessions' : \E x \in sessions :
    /\ x.token = s.token /\ x.user = s.user
    /\ s.expired = "no" => x.expired = "no"
    /\ s.revoked = "no" => x.revoked = "no"

\* Only a login adds a session: nothing brings a session back, or to another user.
LEMMA OnlyIssueAdds ==
    ASSUME TypeInv, [Next]_vars, \A r \in Request : ~IssueSession(r)
    PROVE  SessionsAge /\ issued' = issued
  <1>0. CASE sessions' \subseteq sessions /\ issued' = issued
    BY <1>0 DEF SessionsAge
  <1>1. ASSUME NEW r \in Request, Arrive(r) \/ Progress(r)
        PROVE  SessionsAge /\ issued' = issued
    <2>1. CASE Revoke(r)
      <3>1. /\ issued' = issued
            /\ sessions' = {IF s \in Revoked(r) /\ s.revoked = "no"
                            THEN [s EXCEPT !.revoked = "now"] ELSE s : s \in sessions}
        BY <2>1 DEF Revoke
      <3>2. \A s \in sessions : LET n == [s EXCEPT !.revoked = "now"] IN
                n.token = s.token /\ n.user = s.user /\ n.expired = s.expired /\ n.revoked # "no"
        BY DEF TypeInv, TypeOK, Session
      <3>3. ASSUME NEW n \in sessions'
            PROVE  \E s \in sessions : /\ s.token = n.token /\ s.user = n.user
                                       /\ s.expired = n.expired
                                       /\ n.revoked = "no" => s.revoked = "no"
        <4>1. PICK s \in sessions : n = s \/ n = [s EXCEPT !.revoked = "now"]
          BY <3>1
        <4> QED BY <3>2, <4>1
      <3> QED BY <3>1, <3>3 DEF SessionsAge
    <2>2. CASE Deleted(r)
      <3>1. sessions' \subseteq sessions /\ issued' = issued
        BY <2>2 DEF Deleted, DeleteUser, Fail
      <3> QED BY <1>0, <3>1
    <2>3. CASE LocalStep(r) \/ InsertUser(r) \/ CreateConversation(r) \/ AddMessage(r)
      <3>1. sessions' = sessions /\ issued' = issued
        BY <2>3 DEF LocalStep, Tables, InsertUser, CreateConversation, AddMessage
      <3> QED BY <1>0, <3>1
    <2> QED BY <1>1, <2>1, <2>2, <2>3, StepOfRequest
  <1>2. ASSUME NEW s \in sessions, Expire(s) \/ Age(s)
        PROVE  SessionsAge /\ issued' = issued
    <2> DEFINE e == [s EXCEPT !.expired = "now"]
               a == [s EXCEPT !.expired = IF @ = "now" THEN "old" ELSE @,
                              !.revoked = IF @ = "now" THEN "old" ELSE @]
    <2>1. /\ e.token = s.token /\ e.user = s.user
          /\ e.expired # "no" /\ e.revoked = s.revoked
          /\ a.token = s.token /\ a.user = s.user
          /\ (a.expired = "no" => s.expired = "no") /\ (a.revoked = "no" => s.revoked = "no")
      BY DEF TypeInv, TypeOK, Session
    <2> HIDE DEF e, a
    <2>2. PICK n \in {e, a} : sessions' = (sessions \ {s}) \cup {n} /\ issued' = issued
      BY <1>2 DEF Expire, Age, ReplaceSession, e, a
    <2>3. /\ n.token = s.token /\ n.user = s.user
          /\ (n.expired = "no" => s.expired = "no") /\ (n.revoked = "no" => s.revoked = "no")
      BY <2>1
    <2> QED BY <2>2, <2>3 DEF SessionsAge
  <1>3. CASE Purge \/ UNCHANGED vars
    <2>1. sessions' \subseteq sessions /\ issued' = issued
      BY <1>3 DEF Purge, vars
    <2> QED BY <1>0, <2>1
  <1> QED BY <1>1, <1>2, <1>3 DEF Next, Quiet

\* A step that adds no session and keeps what each logout has seen.
LEMMA LogoutKept ==
    ASSUME TypeInv, LogoutInv, SessionsAge, issued' = issued,
           NEW r \in Request, \A q \in Request \ {r} : req'[q] = req[q],
           req[r].stage # "ended",
           req'[r].before \subseteq Tokens,
           req'[r].stage = "revoke" =>
                \A s \in sessions : s.token \in req'[r].before => s.user = req'[r].user,
           req'[r].op = "logout_all" /\ req'[r].reply = "204" =>
                \A s \in sessions' : s.token \in req'[r].before => ~Good(s)
    PROVE  LogoutInv'
  <1>1. Tokens' = Tokens
    BY DEF Tokens
  <1>2. r \notin Tokens /\ req[r].reply # "204"
    BY DEF LogoutInv, TypeInv, GoodHandler
  <1>3. \A t \in Request \cap Tokens : req'[t].stage = "ended"
    BY <1>2 DEF LogoutInv
  <1>4. (\A s \in sessions : s.token \in Tokens)'
    BY <1>1 DEF LogoutInv, SessionsAge
  <1>5. (\A s, t \in sessions : s.token = t.token => s.user = t.user)'
    BY DEF LogoutInv, SessionsAge
  <1>6. \A q \in Request : req'[q].before \subseteq Tokens
    BY DEF LogoutInv
  <1>7. \A q \in Request : req'[q].stage = "revoke" =>
            \A s \in sessions : s.token \in req'[q].before => s.user = req'[q].user
    BY DEF LogoutInv
  <1>8. \A q \in Request : req'[q].stage = "revoke" =>
            \A s \in sessions' : s.token \in req'[q].before => s.user = req'[q].user
    BY <1>7 DEF SessionsAge
  <1>9. ASSUME NEW q \in Request, req'[q].op = "logout_all", req'[q].reply = "204",
               NEW s \in sessions', s.token \in req'[q].before
        PROVE  ~Good(s)
    <2>1. CASE q = r
      BY <1>9, <2>1
    <2>2. CASE q # r
      <3>1. \A x \in sessions : x.token \in req[q].before => ~Good(x)
        BY <1>9, <2>2 DEF LogoutInv, LogoutAllIsComplete, Good
      <3> QED BY <1>9, <2>2, <3>1 DEF SessionsAge, Good
    <2> QED BY <2>1, <2>2
  <1>10. LogoutAllIsComplete'
    BY <1>9 DEF LogoutAllIsComplete, Good
  <1> QED BY <1>1, <1>3, <1>4, <1>5, <1>6, <1>8, <1>10 DEF LogoutInv

LEMMA LogoutStep == TypeInv /\ LogoutInv /\ [Next]_vars => LogoutInv'
  <1> SUFFICES ASSUME TypeInv, LogoutInv, [Next]_vars PROVE LogoutInv'
    OBVIOUS
  <1>g. ASSUME NEW u \in UserId
        PROVE  /\ GoodOf(u) \subseteq Tokens
               /\ \A s \in sessions : s.token \in GoodOf(u) => s.user = u
    BY DEF GoodOf, SessionsOf, LogoutInv
  <1>1. ASSUME NEW r \in Request, Arrive(r) \/ Progress(r)
        PROVE  LogoutInv'
    <2> DEFINE h == req[r]
               d == req'[r]
    <2>1. h.stage # "ended" /\ \A q \in Request \ {r} : req'[q] = req[q]
      BY <1>1, OwnHandler
    <2>2. h \in GoodHandler /\ h \in Handler /\ d \in GoodHandler
      BY NextTypes DEF TypeInv, GoodHandler
    <2>3. CASE IssueSession(r)
      <3> DEFINE new == [token |-> r, user |-> h.user, expired |-> "no", revoked |-> "no"]
      <3>1. /\ sessions' = sessions \cup {new} /\ Ends(r, "200")
            /\ issued' = issued \cup {[token |-> r, person |-> h.person]}
        BY <2>3, WritingSteps DEF IssueSession
      <3>2. Tokens' = Tokens \cup {r} /\ new.token = r /\ r \notin Tokens
        <4>1. Tokens' = Tokens \cup {r}
          <5> DEFINE i == [token |-> r, person |-> h.person]
          <5>1. issued' = issued \cup {i} /\ i.token = r
            BY <3>1
          <5> HIDE DEF i
          <5> QED BY <5>1 DEF Tokens
        <4> QED BY <2>1, <4>1 DEF LogoutInv
      <3>3. (\A t \in Request \cap Tokens : req[t].stage = "ended")'
        BY <2>1, <3>1, <3>2 DEF LogoutInv, Ends
      <3>4. (\A s \in sessions : s.token \in Tokens)'
        BY <3>1, <3>2 DEF LogoutInv
      <3>5. (\A s, t \in sessions : s.token = t.token => s.user = t.user)'
        BY <3>1, <3>2 DEF LogoutInv
      <3>6. \A q \in Request : req'[q].before = req[q].before
        BY <2>1, <3>1 DEF Ends, Kept
      <3>7. (\A q \in Request : req[q].before \subseteq Tokens)'
        BY <3>2, <3>6 DEF LogoutInv
      <3>8. \A q \in Request : r \notin req[q].before
        BY <3>2 DEF LogoutInv
      <3>9. (\A q \in Request : req[q].stage = "revoke" =>
                \A s \in sessions : s.token \in req[q].before => s.user = req[q].user)'
        BY <2>1, <3>1, <3>2, <3>6, <3>8 DEF LogoutInv, Ends
      <3>10. LogoutAllIsComplete'
        BY <2>1, <3>1, <3>2, <3>6, <3>8 DEF LogoutInv, Ends, LogoutAllIsComplete
      <3> QED BY <3>3, <3>4, <3>5, <3>7, <3>9, <3>10 DEF LogoutInv
    <2>4. CASE ~IssueSession(r)
      <3>1. SessionsAge /\ issued' = issued
        <4>1. \A q \in Request : ~IssueSession(q)
          BY <2>1, <2>4, WritingSteps DEF IssueSession, Ends
        <4> QED BY <4>1, OnlyIssueAdds
      <3>2. h.before \subseteq Tokens
        BY DEF LogoutInv
      <3>3. CASE LocalStep(r)
        <4>1. LocalChange(r, h, d)
          BY <3>3 DEF LocalStep
        <4>2. d.before \subseteq Tokens
          BY <1>g, <3>2, <4>1 DEF LocalChange, LogoutInv, GoodOf, SessionsOf
        <4>3. d.stage = "revoke" => d.user \in UserId
          BY <2>2 DEF GoodHandler, UserStages
        <4>4. d.stage = "revoke" => \A s \in sessions : s.token \in d.before => s.user = d.user
          BY <1>g, <4>1, <4>3 DEF LocalChange
        <4> QED BY <2>1, <3>1, <4>1, <4>2, <4>4, LogoutKept DEF LocalChange
      <3>4. CASE Revoke(r)
        <4>1. /\ h.stage = "revoke" /\ Ends(r, "204")
              /\ sessions' = {IF s \in Revoked(r) /\ s.revoked = "no"
                              THEN [s EXCEPT !.revoked = "now"] ELSE s : s \in sessions}
          BY <3>4, WritingSteps DEF Revoke
        <4>2. d.before = h.before /\ d.op = h.op
          BY <4>1 DEF Ends, Kept
        <4>3. h.op = "logout_all" => \A s \in sessions : s.token \in h.before => s \in Revoked(r)
          BY <4>1 DEF LogoutInv, Revoked
        <4>4. \A s \in sessions : LET n == [s EXCEPT !.revoked = "now"] IN
                    n.token = s.token /\ n.revoked # "no"
          BY DEF TypeInv, TypeOK, Session
        <4>5. h.op = "logout_all" => \A s \in sessions' : s.token \in h.before => ~Good(s)
          BY <4>1, <4>3, <4>4 DEF Good
        <4> QED BY <2>1, <3>1, <3>2, <4>1, <4>2, <4>5, LogoutKept DEF Ends
      <3>5. CASE Deleted(r)
        <4>1. h.op = "delete" /\ Ends(r, "204")
          BY <3>5, <2>2, WritingSteps DEF GoodHandler, Deleted, DeleteUser, Deleting
        <4> QED BY <2>1, <3>1, <3>2, <4>1, LogoutKept DEF Ends, Kept
      <3>6. CASE InsertUser(r) \/ CreateConversation(r) \/ AddMessage(r)
        <4>1. d.before = h.before /\ d.stage # "revoke" /\ d.reply # "204"
          BY <3>6, <2>1, <2>2, WritingSteps DEF Ends, Kept, GoodHandler
        <4> QED BY <2>1, <3>1, <3>2, <4>1, LogoutKept
      <3> QED BY <1>1, <2>4, <3>3, <3>4, <3>5, <3>6, StepOfRequest
    <2> QED BY <2>3, <2>4
  <1>2. CASE SessionsAge /\ UNCHANGED <<issued, req>>
    <2>1. Tokens' = Tokens
      BY <1>2 DEF Tokens
    <2>2. LogoutAllIsComplete'
      BY <1>2 DEF LogoutInv, LogoutAllIsComplete, SessionsAge, Good
    <2> QED BY <1>2, <2>1, <2>2 DEF LogoutInv, SessionsAge
  <1>3. CASE UNCHANGED req /\ \A r \in Request : ~IssueSession(r)
    <2>1. SessionsAge /\ issued' = issued
      BY <1>3, OnlyIssueAdds
    <2> QED BY <1>2, <1>3, <2>1
  <1>4. ASSUME UNCHANGED req, NEW r \in Request PROVE ~IssueSession(r)
    BY <1>4, WritingSteps DEF IssueSession, Ends
  <1> QED BY <1>1, <1>3, <1>4
          DEF Next, Quiet, vars, Expire, Age, ReplaceSession, Purge

LEMMA LogoutInvariance == Spec => []LogoutInv
  <1>1. Init => LogoutInv
    BY RequestAssumption DEF Init, LogoutInv, Waiting, Tokens, LogoutAllIsComplete
  <1> QED BY <1>1, LogoutStep, TypeInvariance, PTL DEF Spec

\* "Log out every session for the current user (all devices)": once it has
\* replied, no token that was good when it resolved its user passes again,
\* whatever logs in, logs out or is deleted beside it.
THEOREM LogoutAllCompletes == Spec => []LogoutAllIsComplete
  <1>1. LogoutInv => LogoutAllIsComplete
    BY DEF LogoutInv
  <1> QED BY <1>1, LogoutInvariance, PTL

----------------------------------------------------------------------------
(* The contract of a token.                                                *)

\* Which row decides what has become of a token.
LifeIs(t) ==
    /\ life[t] \in {"none", "good", "stale", "over"}
    /\ life[t] = "none" <=> t \notin Tokens
    /\ life[t] = "good" <=> t \in Tokens /\ \E s \in sessions :
         s.token = t /\ s.revoked = "no" /\ s.expired = "no"
    /\ life[t] \in {"good", "stale"} <=> t \in Tokens /\ \E s \in sessions :
         s.token = t /\ s.revoked = "no"

LEMMA LifeOfToken == \A t \in Origin : LifeIs(t)
  <1> SUFFICES ASSUME NEW t \in Origin PROVE LifeIs(t)
    OBVIOUS
  <1> DEFINE mine == {s \in sessions : s.token = t /\ s.revoked = "no"}
  <1>1. life[t] = CASE t \notin Tokens -> "none"
                    [] t \in Tokens /\ mine = {} -> "over"
                    [] t \in Tokens /\ mine # {} ->
                          IF \E s \in mine : s.expired = "no" THEN "good" ELSE "stale"
    BY DEF life
  <1>2. CASE t \notin Tokens
    BY <1>1, <1>2 DEF LifeIs
  <1>3. CASE t \in Tokens /\ mine = {}
    BY <1>1, <1>3 DEF LifeIs
  <1>4. CASE t \in Tokens /\ mine # {}
    BY <1>1, <1>4 DEF LifeIs
  <1> QED BY <1>2, <1>3, <1>4

\* Logouts, expiry, account deletion and the purge move tokens on, never back.
LEMMA EndingMeetsContract ==
    ASSUME SessionsAge, issued' = issued, UNCHANGED <<shown, pass>>
    PROVE  [Contract!Next]_(Contract!vars)
  <1>1. Tokens' = Tokens
    BY DEF Tokens
  <1>2. (\A t \in Origin : LifeIs(t)) /\ (\A t \in Origin : LifeIs(t))'
    BY LifeOfToken, PTL
  <1>4. ASSUME NEW t \in Origin
        PROVE  life'[t] = life[t] \/ <<life[t], life'[t]>> \in Contract!Onward
    <2>1. life'[t] = "good" => life[t] = "good"
      BY <1>1, <1>2 DEF SessionsAge, LifeIs
    <2>2. life'[t] \in {"good", "stale"} => life[t] \in {"good", "stale"}
      BY <1>1, <1>2 DEF SessionsAge, LifeIs
    <2>3. life'[t] = "none" <=> life[t] = "none"
      BY <1>1, <1>2 DEF LifeIs
    <2>4. /\ life[t] \in {"none", "good", "stale", "over"}
          /\ life'[t] \in {"none", "good", "stale", "over"}
      BY <1>2 DEF LifeIs
    <2> QED BY <2>1, <2>2, <2>3, <2>4 DEF Contract!Onward
  <1>5. life' \in [Origin -> Contract!Life]
    <2>1. life' = [t \in Origin |-> life'[t]]
      BY DEF life
    <2> QED BY <1>2, <2>1 DEF Contract!Life, LifeIs
  <1>6. Contract!Fade
    BY <1>4, <1>5 DEF Contract!Fade
  <1> QED BY <1>6 DEF Contract!Next

\* Only a token that has not expired is presented, and only its own session
\* lets a request in.
LEMMA LocalMeetsContract ==
    ASSUME TypeInv, LogoutInv, NEW r \in Request, LocalStep(r)
    PROVE  [Contract!Next]_(Contract!vars)
  <1> DEFINE h == req[r]
             d == req'[r]
             S(x) == IF x.token = None THEN "no token" ELSE x.token
             P(x) == IF x.token = None \/ x.user = NoUser THEN "no token" ELSE x.token
  <1>1. LocalChange(r, h, d) /\ UNCHANGED Tables /\ req' = [req EXCEPT ![r] = d]
    BY DEF LocalStep
  <1>2. UNCHANGED life
    BY <1>1 DEF life, Tokens, Tables
  <1>3. /\ pass = [q \in Request |-> P(req[q])] /\ pass' = [q \in Request |-> P(req'[q])]
        /\ shown = [q \in Request |-> S(req[q])] /\ shown' = [q \in Request |-> S(req'[q])]
        /\ \A q \in Request \ {r} : req'[q] = req[q]
    BY <1>1 DEF pass, shown, TypeInv
  <1>4. /\ pass' = [pass EXCEPT ![r] = P(d)] /\ pass[r] = P(h)
        /\ shown' = [shown EXCEPT ![r] = S(d)] /\ shown[r] = S(h)
    BY <1>3
  <1>5. CASE d.token = h.token /\ P(d) = P(h)
    <2>1. S(d) = S(h) /\ P(d) = P(h)
      BY <1>5
    <2> HIDE DEF S, P
    <2>2. pass' = pass /\ shown' = shown
      BY <1>3, <2>1
    <2> QED BY <1>2, <2>2 DEF Contract!vars
  <1>6. CASE d.token = h.token /\ P(d) # P(h)
    <2>1. PICK s \in sessions : /\ s.token = h.token /\ s.revoked = "no"
                                /\ h.user = NoUser /\ d.user # NoUser /\ h.token # None
      BY <1>1, <1>6 DEF LocalChange, KeepsUser, Live, UserId, NoUser
    <2>2. h.token \in Origin /\ h.token \in Tokens
      BY <2>1 DEF LogoutInv, TypeInv, TypeOK, Session
    <2>3. life[h.token] \in {"good", "stale"}
      BY <2>1, <2>2, LifeOfToken DEF LifeIs
    <2>4. pass[r] = "no token" /\ P(d) = h.token /\ shown[r] = h.token /\ S(d) = S(h)
      BY <1>4, <1>6, <2>1
    <2> HIDE DEF S, P
    <2>6. shown' = shown
      BY <1>3, <2>4
    <2>5. Contract!LetIn(r, h.token)
      BY <1>2, <1>4, <2>3, <2>4, <2>6 DEF Contract!LetIn, Contract!NoToken
    <2> QED BY <2>2, <2>5 DEF Contract!Next
  <1>7. CASE d.token # h.token
    <2>1. /\ h.token = None /\ h.user = NoUser /\ d.user = NoUser
          /\ d.token \in Tokens /\ ~Expired(d.token)
      BY <1>1, <1>7 DEF LocalChange
    <2>2. d.token \in Origin /\ d.token # None
      BY <1>7, <2>1 DEF Tokens, TypeInv, TypeOK
    <2>3. life[d.token] \in {"good", "over"}
      BY <2>1, <2>2, LifeOfToken DEF Expired, LifeIs
    <2>4. P(d) = P(h) /\ shown[r] = "no token" /\ S(d) = d.token
      BY <1>4, <2>1, <2>2
    <2> HIDE DEF S, P
    <2>6. pass' = pass
      BY <1>3, <2>4
    <2>5. Contract!Present(r, d.token)
      BY <1>2, <1>4, <2>3, <2>4, <2>6 DEF Contract!Present, Contract!NoToken
    <2> QED BY <2>2, <2>5 DEF Contract!Next
  <1> QED BY <1>5, <1>6, <1>7

\* A login issues a token that never was.
LEMMA IssueMeetsContract ==
    ASSUME TypeInv, LogoutInv, NEW r \in Request, IssueSession(r)
    PROVE  [Contract!Next]_(Contract!vars)
  <1> DEFINE h == req[r]
             new == [token |-> r, user |-> h.user, expired |-> "no", revoked |-> "no"]
             i == [token |-> r, person |-> h.person]
  <1>1. /\ sessions' = sessions \cup {new} /\ issued' = issued \cup {i} /\ Ends(r, "200")
        /\ h.stage = "issue"
    BY WritingSteps DEF IssueSession
  <1>2. new.token = r /\ new.expired = "no" /\ new.revoked = "no" /\ i.token = r
    OBVIOUS
  <1> HIDE DEF new, i
  <1>3. Tokens' = Tokens \cup {r} /\ r \notin Tokens /\ r \in Origin
    BY <1>1, <1>2 DEF Tokens, LogoutInv, Origin
  <1>4. life[r] = "none"
    BY <1>3, LifeOfToken DEF LifeIs
  <1>5. life'[r] = "good"
    <2>1. (\A t \in Origin : LifeIs(t))'
      BY LifeOfToken, PTL
    <2> QED BY <1>1, <1>2, <1>3, <2>1 DEF LifeIs
  <1>6. ASSUME NEW t \in Origin \ {r} PROVE life'[t] = life[t]
    <2>1. /\ t \in Tokens' <=> t \in Tokens
          /\ {s \in sessions' : s.token = t /\ s.revoked = "no"}
                = {s \in sessions : s.token = t /\ s.revoked = "no"}
      BY <1>1, <1>2, <1>3
    <2> QED BY <2>1 DEF life
  <1>7. life' = [life EXCEPT ![r] = "good"]
    <2>1. life' = [t \in Origin |-> life'[t]] /\ life = [t \in Origin |-> life[t]]
      BY DEF life
    <2> QED BY <1>5, <1>6, <2>1
  <1>8. pass' = pass /\ shown' = shown
    BY <1>1 DEF pass, shown, Ends, Kept
  <1>9. Contract!Issue(r)
    BY <1>4, <1>7, <1>8 DEF Contract!Issue
  <1> QED BY <1>3, <1>9 DEF Contract!Next

\* Every step issues a token, moves some on, presents one, lets a request in,
\* or changes none of it.
LEMMA ContractStep ==
    ASSUME TypeInv, LogoutInv, [Next]_vars
    PROVE  [Contract!Next]_(Contract!vars)
  <1>1. CASE \E r \in Request : IssueSession(r)
    BY <1>1, IssueMeetsContract
  <1>2. CASE \E r \in Request : LocalStep(r)
    BY <1>2, LocalMeetsContract
  <1>3. CASE UNCHANGED <<shown, pass>> /\ \A r \in Request : ~IssueSession(r)
    BY <1>3, OnlyIssueAdds, EndingMeetsContract
  <1>4. ASSUME NEW r \in Request, Arrive(r) \/ Progress(r), ~LocalStep(r), ~IssueSession(r)
        PROVE  UNCHANGED <<shown, pass>>
    <2> DEFINE h == req[r]
               d == req'[r]
    <2>1. d.token = h.token /\ \A q \in Request \ {r} : req'[q] = req[q]
      BY <1>4, StepOfRequest, WritingSteps DEF Ends, Kept
    <2>2. d.user = h.user \/ h.token = None
      <3>1. CASE InsertUser(r)
        BY <3>1 DEF InsertUser, TypeInv, GoodHandler, NameStages, NameOps, TokenOps
      <3> QED BY <1>4, <3>1, StepOfRequest, WritingSteps DEF Ends
    <2> QED BY <2>1, <2>2 DEF pass, shown
  <1>5. CASE UNCHANGED req
    <2>1. UNCHANGED <<shown, pass>>
      BY <1>5 DEF pass, shown
    <2> QED BY <1>1, <1>3, <2>1
  <1>6. CASE ~UNCHANGED req
    <2>1. PICK r \in Request : Arrive(r) \/ Progress(r)
      BY <1>6 DEF Next, Quiet, vars, Expire, Age, ReplaceSession, Purge
    <2> QED BY <1>1, <1>2, <1>3, <1>4, <2>1
  <1> QED BY <1>5, <1>6

\* Accounts implements SessionContract: a token goes one way from its issue, and
\* a request is let in only with one that had not expired when it was decoded
\* and whose session is neither revoked nor deleted when it is looked up.
THEOREM SessionsMeetContract == Spec => MeetsContract
  <1>1. Init => Contract!Init
    <2> SUFFICES ASSUME Init PROVE Contract!Init
      OBVIOUS
    <2>1. ASSUME NEW t \in Origin PROVE life[t] \in {"none", "good"}
      <3>1. \A k \in Tokens : k = "first"
        BY DEF Init, Tokens
      <3>2. \E s \in sessions : s.token = "first" /\ s.expired = "no" /\ s.revoked = "no"
        BY DEF Init
      <3> QED BY <3>1, <3>2, LifeOfToken DEF LifeIs
    <2>2. life \in [Origin -> {"none", "good"}]
      BY <2>1 DEF life
    <2>3. /\ pass = [r \in Request |-> "no token"]
          /\ shown = [r \in Request |-> "no token"]
      BY DEF Init, pass, shown, Waiting
    <2> QED BY <2>2, <2>3 DEF Contract!Init, Contract!NoToken
  <1> QED BY <1>1, ContractStep, LogoutInvariance, TypeInvariance, PTL
          DEF Spec, MeetsContract, Contract!Spec

----------------------------------------------------------------------------
(* Account deletion on PostgreSQL.                                         *)

\* Every row refers to a user or a conversation that is there, and no id is
\* handed out again.
References ==
    /\ \A u \in users : u.id <= lastUser
    /\ \A c \in convs : c.user \in Ids
    /\ \A s \in sessions : s.user \in Ids
    /\ counts \subseteq Ids
    /\ \A m \in msgs : \E c \in convs : c.id = m.conv

\* A handler's user was there once; it stays as long as the handler holds a
\* usage row, and is gone when the handler has deleted it.
UserKnown(h) ==
    /\ h.user <= lastUser
    /\ h.held => h.user \in Ids
    /\ h.op = "delete" /\ h.reply = "204" => h.user \notin Ids

\* The conversations a deletion has deleted are still in the table, and it has
\* deleted every message in them.
DoomComplete(h) ==
    /\ h.doom.convs \subseteq convs
    /\ MsgsIn(h.doom.convs) \subseteq h.doom.msgs

DoomApart == \A r, q \in Request : r # q =>
    req[r].doom.convs \cap req[q].doom.convs = {}

PostgresInv == backend = "postgres" =>
    /\ References /\ DoomApart
    /\ \A r \in Request : UserKnown(req[r]) /\ DoomComplete(req[r])

\* Every table but the sessions stays as it is, and no handler changes.
LEMMA PostgresSessions ==
    ASSUME PostgresInv, SessionsAge, UNCHANGED <<userVars, chatVars, req>>
    PROVE  PostgresInv'
  <1>1. (\A s \in sessions : s.user \in Ids)' \/ backend # "postgres"
    BY DEF PostgresInv, References, SessionsAge, Ids, userVars
  <1>2. UNCHANGED <<backend, users, lastUser, convs, msgs, counts, req>> /\ Ids' = Ids
    BY DEF userVars, chatVars, Ids
  <1> QED BY <1>1, <1>2
          DEF PostgresInv, References, DoomApart, UserKnown, DoomComplete, MsgsIn

\* A step of a request that writes nothing.
LEMMA PostgresLocal ==
    ASSUME TypeInv, PostgresInv, NEW r \in Request, LocalStep(r)
    PROVE  PostgresInv'
  <1> DEFINE h == req[r]
             d == req'[r]
  <1>1. /\ LocalChange(r, h, d) /\ \A q \in Request \ {r} : req'[q] = req[q]
        /\ UNCHANGED <<backend, users, lastUser, convs, msgs, counts, sessions>> /\ Ids' = Ids
    BY DEF LocalStep, TypeInv, Tables, userVars, chatVars, Ids
  <1> SUFFICES ASSUME backend = "postgres" PROVE PostgresInv'
    BY <1>1 DEF PostgresInv
  <1>2. References /\ DoomApart /\ \A q \in Request : UserKnown(req[q]) /\ DoomComplete(req[q])
    BY DEF PostgresInv
  <1>3. \A u \in Ids : u <= lastUser
    BY <1>2 DEF References, Ids
  <1>4. d.user <= lastUser
    <2>1. h.user <= lastUser /\ \A s \in sessions : s.user <= lastUser
      BY <1>2, <1>3 DEF References, UserKnown
    <2> QED BY <1>1, <1>3, <2>1 DEF LocalChange, KeepsUser
  <1>5. d.held => d.user \in Ids
    BY <1>1, <1>2 DEF LocalChange, UserKnown, UserThere
  <1>6. UserKnown(d)
    BY <1>1, <1>4, <1>5 DEF UserKnown, LocalChange
  <1>7. DoomComplete(d)
    BY <1>1, <1>2 DEF LocalChange, KeepsDoom, DoomComplete, MsgsIn
  <1>8. \A q \in Request \ {r} : req[q].doom.convs \cap d.doom.convs = {}
    BY <1>1, <1>2 DEF LocalChange, KeepsDoom, DoomApart, Locked
  <1>9. DoomApart'
    BY <1>1, <1>2, <1>8 DEF DoomApart
  <1>10. \A q \in Request : UserKnown(req'[q]) /\ DoomComplete(req'[q])
    BY <1>1, <1>2, <1>6, <1>7
  <1>11. \A q \in Request : UserKnown(req[q])' /\ DoomComplete(req[q])'
    BY <1>1, <1>10 DEF UserKnown, DoomComplete, MsgsIn
  <1>12. References'
    BY <1>1, <1>2 DEF References
  <1> QED BY <1>9, <1>11, <1>12 DEF PostgresInv

\* A request that writes and is left with no deleted rows: it is enough that
\* its user and the others' users and deleted rows are accounted for.
LEMMA PostgresWriting ==
    ASSUME TypeInv, PostgresInv, backend = "postgres", NEW r \in Request,
           \A q \in Request \ {r} : req'[q] = req[q],
           req'[r].doom = NoDoom,
           References', UserKnown(req[r])',
           \A q \in Request \ {r} : UserKnown(req[q]) => UserKnown(req[q])',
           \A q \in Request \ {r} : DoomComplete(req[q]) => DoomComplete(req[q])'
    PROVE  PostgresInv'
  <1>1. DoomApart'
    BY DEF PostgresInv, DoomApart, NoDoom
  <1>2. DoomComplete(req[r])'
    BY DEF DoomComplete, NoDoom, MsgsIn
  <1> QED BY <1>1, <1>2 DEF PostgresInv

\* Signing up, logging in and out, and chatting: foreign keys refuse what
\* refers to a row that is gone, a locked row makes the statement wait.
LEMMA PostgresAdding ==
    ASSUME TypeInv, PostgresInv, backend = "postgres", NEW r \in Request,
           \/ InsertUser(r) \/ IssueSession(r) \/ Revoke(r)
           \/ CreateConversation(r) \/ AddMessage(r)
    PROVE  PostgresInv'
  <1> DEFINE h == req[r]
             d == req'[r]
  <1>1. References /\ DoomApart /\ \A q \in Request : UserKnown(req[q]) /\ DoomComplete(req[q])
    BY DEF PostgresInv
  <1>2. h \in GoodHandler /\ h \in Handler
    BY DEF TypeInv, GoodHandler
  <1>3. h.doom = NoDoom /\ (h.op = "delete" => h.reply = "none") /\ h.stage # "ended"
    BY <1>2 DEF GoodHandler, Deleting, InsertUser, IssueSession, Revoke,
                CreateConversation, AddMessage
  <1>4. \A u \in Ids : u <= lastUser
    BY <1>1 DEF References, Ids
  <1>5. ASSUME CommitCount(r)
        PROVE  counts' \subseteq Ids
    BY <1>1, <1>5 DEF CommitCount, References, UserKnown
  <1>6. CASE InsertUser(r)
    <2>1. PICK n \in UserId :
            /\ n = lastUser + 1 /\ users' = users \cup {[id |-> n, person |-> h.person]}
            /\ lastUser' = IF n > lastUser THEN n ELSE lastUser
            /\ \A q \in Request \ {r} : req'[q] = req[q]
            /\ d.op = h.op /\ d.held = h.held /\ d.doom = NoDoom /\ d.reply # "204"
            /\ d.user \in {h.user, n}
      <3>1. h.held = FALSE /\ h.reply = "none"
        BY <1>2, <1>6 DEF GoodHandler, Handler, InsertUser
      <3> QED BY <1>3, <1>6, <3>1, WritingSteps DEF Ends, Kept, IsNextUser
    <2>2. UNCHANGED <<backend, sessions, convs, msgs, counts>>
      BY <1>6 DEF InsertUser, chatVars
    <2>3. lastUser \in Nat /\ lastUser' = lastUser + 1 /\ n \in Nat
      BY <2>1 DEF TypeInv, TypeOK, UserId
    <2>4. Ids' = Ids \cup {n}
      <3> DEFINE u == [id |-> n, person |-> h.person]
      <3>1. users' = users \cup {u} /\ u.id = n
        BY <2>1
      <3> HIDE DEF u
      <3> QED BY <3>1 DEF Ids
    <2>5. \A u \in Ids : u \in Nat
      BY DEF Ids, TypeInv, TypeOK, User, UserId
    <2>6. \A u \in Ids' : u <= lastUser'
      BY <1>4, <2>1, <2>3, <2>4, <2>5
    <2>7. References'
      <3>1. (\A u \in users : u.id <= lastUser)'
        BY <2>6 DEF Ids
      <3> QED BY <1>1, <2>2, <2>4, <3>1 DEF References
    <2>8. \A q \in Request : req[q].user \in Nat
      BY DEF TypeInv, TypeOK, Handler, UserId, NoUser
    <2>9. \A q \in Request \ {r} : UserKnown(req[q]) => UserKnown(req[q])'
      BY <2>1, <2>3, <2>4, <2>8 DEF UserKnown
    <2>10. UserKnown(req[r])'
      <3>1. d.user <= lastUser'
        BY <1>1, <2>1, <2>3, <2>8 DEF UserKnown
      <3>2. h.held = FALSE
        BY <1>2, <1>6 DEF GoodHandler, Handler, InsertUser
      <3> QED BY <2>1, <3>1, <3>2 DEF UserKnown
    <2> QED BY <2>1, <2>2, <2>7, <2>9, <2>10, PostgresWriting DEF DoomComplete, MsgsIn
  <1>7. ASSUME UNCHANGED <<backend, users, lastUser>>,
               \A q \in Request \ {r} : req'[q] = req[q], Kept(r),
               d.doom = NoDoom, d.user = h.user, d.held = FALSE,
               h.op = "delete" => d.reply # "204",
               References',
               \A q \in Request \ {r} : DoomComplete(req[q]) => DoomComplete(req[q])'
        PROVE  PostgresInv'
    <2>1. Ids' = Ids
      BY <1>7 DEF Ids
    <2>2. \A q \in Request \ {r} : UserKnown(req[q]) => UserKnown(req[q])'
      BY <1>7, <2>1 DEF UserKnown
    <2>3. UserKnown(req[r])'
      BY <1>1, <1>7, <2>1 DEF UserKnown, Kept
    <2> QED BY <1>7, <2>2, <2>3, PostgresWriting
  <1>8. CASE IssueSession(r) \/ Revoke(r)
    <2>1. /\ Kept(r) /\ d.doom = NoDoom /\ d.user = h.user /\ d.held = FALSE
          /\ h.op = "delete" => d.reply # "204"
      BY <1>8, <1>2, WritingSteps DEF Ends, Revoke, GoodHandler
    <2>2. UNCHANGED <<backend, users, lastUser, convs, msgs, counts>> /\ Ids' = Ids
      BY <1>8 DEF IssueSession, Revoke, userVars, chatVars, Ids
    <2>3. (\A s \in sessions : s.user \in Ids)'
      <3>1. CASE IssueSession(r)
        BY <1>1, <2>2, <3>1 DEF IssueSession, UserThere, References
      <3>2. CASE Revoke(r)
        <4>1. \A s \in sessions : [s EXCEPT !.revoked = "now"].user = s.user
          BY DEF TypeInv, TypeOK, Session
        <4> QED BY <1>1, <2>2, <3>2, <4>1 DEF Revoke, References
      <3> QED BY <1>8, <3>1, <3>2
    <2>4. References'
      BY <1>1, <2>2, <2>3 DEF References
    <2> QED BY <1>7, <2>1, <2>2, <2>4 DEF Kept, DoomComplete, MsgsIn
  <1>9. CASE CreateConversation(r)
    <2>1. /\ Kept(r) /\ d.doom = NoDoom /\ d.user = h.user /\ d.held = FALSE
          /\ h.op = "delete" => d.reply # "204"
      BY <1>3, <1>9, WritingSteps
    <2>2. /\ convs' = convs \cup {[id |-> r, user |-> h.user]} /\ h.user \in Ids
          /\ UNCHANGED <<backend, users, lastUser, sessions, msgs>> /\ Ids' = Ids
          /\ counts' \subseteq Ids
      BY <1>5, <1>9 DEF CreateConversation, UserThere, userVars, Ids
    <2>3. References'
      BY <1>1, <2>2 DEF References
    <2> QED BY <1>7, <2>1, <2>2, <2>3 DEF Kept, DoomComplete, MsgsIn
  <1>10. CASE AddMessage(r)
    <2> DEFINE m == [conv |-> h.conv, by |-> r]
    <2>1. /\ Kept(r) /\ d.doom = NoDoom /\ d.user = h.user /\ d.held = FALSE
          /\ h.op = "delete" => d.reply # "204"
      BY <1>10, WritingSteps DEF Ends
    <2>2. /\ msgs' = msgs \cup {m} /\ m.conv = h.conv
          /\ UNCHANGED <<backend, users, lastUser, sessions, convs>> /\ Ids' = Ids
          /\ counts' \subseteq Ids
          /\ \E c \in convs : c.id = h.conv
          /\ ~Locked(r, "convs", {c \in convs : c.id = h.conv})
      BY <1>5, <1>10 DEF AddMessage, ConvThere, userVars, Ids
    <2> HIDE DEF m
    <2>3. References'
      BY <1>1, <2>2 DEF References
    <2>4. \A q \in Request \ {r} : \A c \in req[q].doom.convs : c \in convs => c.id # m.conv
      BY <2>2 DEF Locked
    <2>5. \A q \in Request \ {r} : DoomComplete(req[q]) => DoomComplete(req[q])'
      BY <2>1, <2>2, <2>4 DEF Kept, DoomComplete, MsgsIn
    <2> QED BY <1>7, <2>1, <2>2, <2>3, <2>5 DEF Kept
  <1> QED BY <1>6, <1>8, <1>9, <1>10

\* The last step of a deletion: what it has deleted is complete, what was
\* added since is refused or goes with the user.
LEMMA PostgresDeleted ==
    ASSUME TypeInv, PostgresInv, backend = "postgres", NEW r \in Request, Deleted(r)
    PROVE  PostgresInv'
  <1> DEFINE h == req[r]
             d == req'[r]
             D == h.doom
  <1>1. References /\ DoomApart /\ \A q \in Request : UserKnown(req[q]) /\ DoomComplete(req[q])
    BY DEF PostgresInv
  <1>2. Ends(r, "204")
    BY WritingSteps
  <1>3. /\ users' = {u \in users : u.id # h.user}
        /\ msgs' = msgs \ D.msgs /\ convs' = convs \ D.convs
        /\ \A u \in counts' : u \in counts /\ u # h.user
        /\ \A s \in sessions' : s \in sessions /\ s.user # h.user
        /\ UNCHANGED <<backend, lastUser>>
        /\ ~HeldFor(r, h.user) /\ ConvsOf(h.user) \subseteq D.convs
    <2>1. d.reply = "204"
      BY <1>2 DEF Ends
    <2>2. ~Fail(r, "500")
      <3>1. End(r, "500") => Ends(r, "500")
        BY WritingSteps
      <3> QED BY <2>1, <3>1 DEF Fail, Ends
    <2> QED BY <2>2 DEF Deleted, DeleteUser, Cascades
  <1>4. Ids' = Ids \ {h.user}
    BY <1>3 DEF Ids
  <1>5. References'
    <2>1. (\A u \in users : u.id <= lastUser)'
      BY <1>1, <1>3 DEF References
    <2>2. (\A c \in convs : c.user \in Ids)'
      BY <1>1, <1>3, <1>4 DEF References, ConvsOf
    <2>3. (\A s \in sessions : s.user \in Ids)' /\ counts' \subseteq Ids'
      BY <1>1, <1>3, <1>4 DEF References
    <2>4. (\A m \in msgs : \E c \in convs : c.id = m.conv)'
      BY <1>1, <1>3 DEF References, DoomComplete, MsgsIn
    <2> QED BY <2>1, <2>2, <2>3, <2>4 DEF References
  <1>6. UserKnown(req[r])'
    BY <1>1, <1>2, <1>3, <1>4 DEF UserKnown, Ends
  <1>7. \A q \in Request \ {r} : UserKnown(req[q]) => UserKnown(req[q])'
    BY <1>2, <1>3, <1>4 DEF UserKnown, HeldFor, Ends, Kept
  <1>8. \A q \in Request \ {r} : req[q].doom.convs \cap D.convs = {}
    BY <1>1 DEF DoomApart
  <1>9. \A q \in Request \ {r} : DoomComplete(req[q]) => DoomComplete(req[q])'
    BY <1>2, <1>3, <1>8 DEF DoomComplete, MsgsIn, Ends, Kept
  <1> QED BY <1>2, <1>5, <1>6, <1>7, <1>9, PostgresWriting DEF Ends, Kept

LEMMA PostgresStep == TypeInv /\ PostgresInv /\ [Next]_vars => PostgresInv'
  <1> SUFFICES ASSUME TypeInv, PostgresInv, [Next]_vars PROVE PostgresInv'
    OBVIOUS
  <1>1. ASSUME NEW r \in Request, Arrive(r) \/ Progress(r)
        PROVE  PostgresInv'
    <2>1. CASE LocalStep(r)
      BY <2>1, PostgresLocal
    <2>2. CASE ~LocalStep(r) /\ backend = "postgres"
      BY <1>1, <2>2, StepOfRequest, PostgresAdding, PostgresDeleted
    <2>3. CASE ~LocalStep(r) /\ backend # "postgres"
      <3>1. backend' = backend
        BY <1>1, <2>3, StepOfRequest
           DEF InsertUser, IssueSession, Revoke, CreateConversation, AddMessage, Deleted,
               userVars
      <3> QED BY <2>3, <3>1 DEF PostgresInv
    <2> QED BY <2>1, <2>2, <2>3
  <1>2. CASE UNCHANGED <<userVars, chatVars, req>>
    <2>1. \A r \in Request : ~IssueSession(r)
      BY <1>2, WritingSteps DEF IssueSession, Ends
    <2> QED BY <1>2, <2>1, OnlyIssueAdds, PostgresSessions
  <1> QED BY <1>1, <1>2
          DEF Next, Quiet, vars, Expire, Age, ReplaceSession, Purge

\* "A full, consistent purge": on PostgreSQL nothing of a user is left once its
\* deletion is confirmed, nothing under way brings anything back, and no
\* message is ever without its conversation.
THEOREM PostgresDeletesAll == Spec => []PostgresLeavesNothing
  <1>1. Init => PostgresInv
    BY DEF Init, PostgresInv, References, DoomApart, UserKnown, DoomComplete, Ids, MsgsIn,
           Waiting, NoDoom, NoUser
  <1>2. PostgresInv => PostgresLeavesNothing
    BY DEF PostgresInv, References, UserKnown, PostgresLeavesNothing, AccountLeavesNothing,
           SessionsOf, ConvsOf
  <1> QED BY <1>1, <1>2, PostgresStep, TypeInvariance, PTL DEF Spec

============================================================================
