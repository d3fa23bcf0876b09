----------------------------- MODULE WebClient -----------------------------
(***************************************************************************)
(* The page of JULIBOT (app.js) and as much of the server as it depends    *)
(* on.  A click runs a handler up to its first await; what it asks of the  *)
(* server is a call in flight, which the server serves, which may fail on  *)
(* the way, and whose reply runs the rest of the handler, whatever the     *)
(* user has done meanwhile.  The cookie goes with a call as it is when the *)
(* call is sent, and changes when a reply that sets it arrives.            *)
(***************************************************************************)
EXTENDS Integers, FiniteSets, Sequences

CONSTANTS
    User,            \* people that may have an account
    StreamingConfig, \* streaming_enabled, as the server's /config has it
    MaxClicks,       \* bound: clicks of the user
    MaxCalls         \* bound: calls in flight

ASSUME UserAssumption == User \cap {"none", "keep"} = {}
ASSUME StreamingAssumption == StreamingConfig \in BOOLEAN
ASSUME BoundAssumption == MaxClicks \in Nat /\ MaxCalls \in Nat \ {0}

VARIABLES
    view,                  \* what is shown: "blank" while a session is validated
    isGuest,
    currentUser,
    currentConversationId, \* guest conversations have negative ids
    guestConversations,    \* by id, the messages
    activeConversations,   \* ids, or {NoConv}: the guestConversations array itself
    isStreaming,
    streamingEnabled,      \* the server's setting, as far as the page knows it
    configs,               \* who has asked /config for it and has no reply yet
    appSessionVersion,
    cookie,                \* the session token the browser holds
    accounts, live,        \* server: users, and tokens that are not revoked
    stored,                \* server: conversations, by id
    calls,                 \* calls in flight
    clicks,                \* clicks so far
    thread,                \* history: whose messages, asked as a user, the page shows
    strayed,               \* history: a question did not have the page to itself
    replied,               \* history: guests' questions whose answer the page has taken
    left                   \* history: left the account, no login since

pageVars   == <<view, isGuest, currentUser, currentConversationId, guestConversations,
                activeConversations, isStreaming>>
bootVars   == <<streamingEnabled, configs>>
serverVars == <<accounts, live, stored>>
histVars   == <<thread, strayed, replied, left>>
vars == <<pageVars, bootVars, appSessionVersion, cookie, serverVars, calls,
          clicks, histVars>>

None    == "none"
NoConv  == 0
ConvId  == 1..MaxClicks
GuestId == (-MaxClicks)..(-1)
Token   == [user: User, n: 0..MaxClicks]
NoToken == [user |-> None, n |-> 0]
Keep    == [user |-> "keep", n |-> 0]  \* a reply without Set-Cookie
Tokens  == Token \cup {NoToken}

\* A guest conversation's message: who said it, and which question it is or
\* answers, by the click that asked it.
GuestMessage == [role: {"user", "assistant"}, question: 1..MaxClicks]
StoredConv   == [user: User, byGuest: BOOLEAN]

\* The handlers that ask for /config.
Fetch == {"loadGoogleConfig", "checkStreamingConfig"}

Op    == {"login", "register", "logout", "me", "list", "open", "delete", "account", "chat"}
Call  == [
    click:   0..MaxClicks,                 \* the click it comes from; 0 is the boot
    op:      Op,
    phase:   {"sent", "ok"},               \* on its way, or served
    cookie:  Tokens,                       \* as it was when the call was sent
    user:    User \cup {None},             \* who logs in or registers
    version: Nat,                          \* myVersion
    conv:    {NoConv} \cup ConvId \cup GuestId, \* in the request, then in the reply
    guest:   BOOLEAN,                      \* isGuest when it was sent
    file:    {NoConv} \cup GuestId,        \* guestConvObj
    streamed: BOOLEAN,                     \* streamingEnabled when it was sent
    shown:   BOOLEAN,                      \* the answer's element is still in the page
    setCookie: Tokens \cup {Keep},
    list:    SUBSET ConvId]

TypeOK ==
    /\ view \in {"welcome", "auth", "blank", "chat"}
    /\ isGuest \in BOOLEAN
    /\ currentUser \in User \cup {None}
    /\ currentConversationId \in {NoConv} \cup ConvId \cup GuestId
    /\ DOMAIN guestConversations \subseteq GuestId
    /\ \A g \in DOMAIN guestConversations : guestConversations[g] \in Seq(GuestMessage)
    /\ activeConversations \subseteq ConvId \/ activeConversations = {NoConv}
    /\ isStreaming \in BOOLEAN /\ streamingEnabled \in BOOLEAN /\ configs \subseteq Fetch
    /\ appSessionVersion \in Nat
    /\ cookie \in Tokens
    /\ accounts \subseteq User /\ live \subseteq Token
    /\ DOMAIN stored \subseteq ConvId /\ \A c \in DOMAIN stored : stored[c] \in StoredConv
    /\ calls \subseteq Call
    /\ \A c, d \in calls : c.click = d.click => c = d
    /\ clicks \in 0..MaxClicks
    /\ thread \subseteq ConvId /\ replied \subseteq 1..MaxClicks
    /\ strayed \in BOOLEAN /\ left \in BOOLEAN

NoGuestConversations == [g \in {} |-> <<>>]

----------------------------------------------------------------------------
(* Calls.                                                                  *)

Blank == [
    click |-> 0, op |-> "list", phase |-> "sent", cookie |-> NoToken, user |-> None,
    version |-> 0, conv |-> NoConv, guest |-> FALSE, file |-> NoConv,
    streamed |-> FALSE, shown |-> TRUE, setCookie |-> Keep, list |-> {}]

Plain(op) == [Blank EXCEPT !.click = clicks + 1, !.op = op, !.cookie = cookie]
Room == Cardinality(calls) < MaxCalls
Asked(call) == Room /\ calls' = calls \cup {call}
Chats == {c \in calls : c.op = "chat"}

\* The message area is replaced: the elements of answers are not in it any more.
Hidden(C) == {[c EXCEPT !.shown = (c.op # "chat")] : c \in C}

\* A session the server has issued; 0 is there on boot.
First(u) == [user |-> u, n |-> 0]

\* Boot: the settings have been asked for twice, and initializeApp has asked
\* /auth/me, with or without a cookie.
Init ==
    /\ view = "blank" /\ isGuest = FALSE /\ currentUser = None
    /\ currentConversationId = NoConv
    /\ guestConversations = NoGuestConversations /\ activeConversations = {}
    /\ isStreaming = FALSE /\ streamingEnabled = FALSE /\ configs = Fetch
    /\ appSessionVersion = 1
    /\ accounts = User
    /\ \/ cookie = NoToken /\ live = {}
       \/ \E u \in User : cookie = First(u) /\ live = {First(u)}
    /\ stored = [c \in {} |-> {}]
    /\ calls = {[Blank EXCEPT !.op = "me", !.version = 1, !.cookie = cookie]}
    /\ clicks = 0
    /\ thread = {} /\ strayed = FALSE /\ replied = {} /\ left = FALSE

----------------------------------------------------------------------------
(* What the user does.                                                     *)

Click ==
    /\ clicks < MaxClicks /\ clicks' = clicks + 1
    /\ UNCHANGED <<bootVars, cookie, serverVars>>

\* showWelcomeView and showAuthView.
ShowAuth ==
    /\ view = "welcome" \/ (view = "chat" /\ isGuest)
    /\ Click /\ view' = "auth"
    /\ UNCHANGED <<isGuest, currentUser, currentConversationId, guestConversations,
                   activeConversations, isStreaming, appSessionVersion, calls, histVars>>

BackToWelcome ==
    /\ view = "auth"
    /\ Click /\ view' = "welcome"
    /\ UNCHANGED <<isGuest, currentUser, currentConversationId, guestConversations,
                   activeConversations, isStreaming, appSessionVersion, calls, histVars>>

SubmitLogin(u) ==
    /\ view = "auth"
    /\ Click /\ Asked([Plain("login") EXCEPT !.user = u])
    /\ UNCHANGED <<pageVars, appSessionVersion, histVars>>

SubmitRegister(u) ==
    /\ view = "auth"
    /\ Click /\ Asked([Plain("register") EXCEPT !.user = u])
    /\ UNCHANGED <<pageVars, appSessionVersion, histVars>>

\* The reply to /auth/logout is not waited for.
Logout ==
    /\ view = "chat" /\ ~isGuest
    /\ Click /\ Asked(Plain("logout"))
    /\ appSessionVersion' = appSessionVersion + 1
    /\ view' = "welcome" /\ isGuest' = FALSE /\ currentUser' = None
    /\ currentConversationId' = NoConv /\ guestConversations' = NoGuestConversations
    /\ activeConversations' = {}
    /\ left' = TRUE
    /\ UNCHANGED <<isStreaming, thread, strayed, replied>>

\* The message area is emptied (resetChatArea) or filled with a conversation:
\* answers on their way have lost their place.
ShowThread(T) == thread' = T /\ strayed' = (Chats # {})

EnterGuestMode ==
    /\ view = "welcome"
    /\ Click /\ Room
    /\ calls' = Hidden(calls) \cup {Plain("logout")}
    /\ appSessionVersion' = appSessionVersion + 1
    /\ view' = "chat" /\ isGuest' = TRUE /\ currentUser' = None
    /\ currentConversationId' = NoConv /\ guestConversations' = NoGuestConversations
    /\ activeConversations' = {}
    /\ ShowThread({}) /\ left' = TRUE
    /\ UNCHANGED <<isStreaming, replied>>

NewChat ==
    /\ view = "chat"
    /\ Click /\ calls' = Hidden(calls)
    /\ currentConversationId' = NoConv
    /\ ShowThread({})
    /\ UNCHANGED <<view, isGuest, currentUser, guestConversations, activeConversations,
                   isStreaming, appSessionVersion, replied, left>>

\* A question of a guest is filed in the current guest conversation, a new one
\* if there is none; if the current id is not a guest conversation's, nowhere.
AsGuest(q) ==
    LET g == IF currentConversationId = NoConv THEN -q ELSE currentConversationId
        m == [role |-> "user", question |-> q]
    IN  /\ currentConversationId' = g
        /\ guestConversations' =
            IF currentConversationId = NoConv
            THEN [h \in DOMAIN guestConversations \cup {g} |->
                    IF h = g THEN <<m>> ELSE guestConversations[h]]
            ELSE IF g \in DOMAIN guestConversations
            THEN [guestConversations EXCEPT ![g] = Append(@, m)]
            ELSE guestConversations
        /\ Asked([Plain("chat") EXCEPT !.guest = TRUE, !.streamed = streamingEnabled,
                    !.file = IF g \in DOMAIN guestConversations' THEN g ELSE NoConv])
        /\ UNCHANGED thread

AsUser ==
    /\ Asked([Plain("chat") EXCEPT !.conv = currentConversationId,
                                   !.streamed = streamingEnabled])
    /\ thread' = thread \cup ({currentConversationId} \cap ConvId)
    /\ UNCHANGED <<currentConversationId, guestConversations>>

\* sendMessage: the Enter key is not disabled while an answer is awaited, only
\* while it is streamed.  The way it goes on is that of the setting at the click.
Send ==
    /\ view = "chat" /\ ~isStreaming
    /\ Click
    /\ IF isGuest THEN AsGuest(clicks') ELSE AsUser
    /\ isStreaming' = streamingEnabled
    /\ strayed' = (strayed \/ Chats # {})
    /\ UNCHANGED <<view, isGuest, currentUser, activeConversations, appSessionVersion,
                   replied, left>>

Listed == IF activeConversations = {NoConv} THEN DOMAIN guestConversations
          ELSE activeConversations

\* loadConversation: a guest's is in the page, a user's must be fetched.
OpenGuest(k) ==
    /\ k \in DOMAIN guestConversations
    /\ calls' = Hidden(calls)
    /\ currentConversationId' = k
    /\ ShowThread({})

Open(k) ==
    /\ view = "chat" /\ k \in Listed
    /\ Click
    /\ IF isGuest THEN OpenGuest(k)
       ELSE /\ Asked([Plain("open") EXCEPT !.conv = k])
            /\ UNCHANGED <<currentConversationId, thread, strayed>>
    /\ UNCHANGED <<view, isGuest, currentUser, guestConversations, activeConversations,
                   isStreaming, appSessionVersion, replied, left>>

Delete(k) ==
    /\ view = "chat" /\ ~isGuest /\ k \in Listed
    /\ Click /\ Asked([Plain("delete") EXCEPT !.conv = k])
    /\ UNCHANGED <<pageVars, appSessionVersion, histVars>>

DeleteAccount ==
    /\ view = "chat" /\ ~isGuest /\ currentUser # None
    /\ Click /\ Asked(Plain("account"))
    /\ UNCHANGED <<pageVars, appSessionVersion, histVars>>

----------------------------------------------------------------------------
(* The server and the network.                                             *)

Answered(c, new) == calls' = (calls \ {c}) \cup {new}
Away == UNCHANGED <<pageVars, bootVars, appSessionVersion, cookie, clicks, histVars>>

Owned(u) == {k \in DOMAIN stored : stored[k].user = u}
Without(K) == [k \in DOMAIN stored \ K |-> stored[k]]

\* Login and registration need an account, or none.
ServeLogin(c) ==
    /\ c.phase = "sent" /\ c.op = "login" /\ c.user \in accounts
    /\ LET t == [user |-> c.user, n |-> c.click] IN
        /\ live' = live \cup {t}
        /\ Answered(c, [c EXCEPT !.phase = "ok", !.setCookie = t])
    /\ Away /\ UNCHANGED <<accounts, stored>>

ServeRegister(c) ==
    /\ c.phase = "sent" /\ c.op = "register" /\ c.user \notin accounts
    /\ accounts' = accounts \cup {c.user}
    /\ Answered(c, [c EXCEPT !.phase = "ok"])
    /\ Away /\ UNCHANGED <<live, stored>>

ServeLogout(c) ==
    /\ c.phase = "sent" /\ c.op = "logout" /\ c.cookie \in live
    /\ live' = live \ {c.cookie}
    /\ Answered(c, [c EXCEPT !.phase = "ok", !.setCookie = NoToken])
    /\ Away /\ UNCHANGED <<accounts, stored>>

ServeMe(c) ==
    /\ c.phase = "sent" /\ c.op = "me" /\ c.cookie \in live
    /\ Answered(c, [c EXCEPT !.phase = "ok", !.user = c.cookie.user])
    /\ Away /\ UNCHANGED serverVars

ServeAccount(c) ==
    /\ c.phase = "sent" /\ c.op = "account" /\ c.cookie \in live
    /\ accounts' = accounts \ {c.cookie.user}
    /\ live' = {t \in live : t.user # c.cookie.user}
    /\ stored' = Without(Owned(c.cookie.user))
    /\ Answered(c, [c EXCEPT !.phase = "ok", !.setCookie = NoToken])
    /\ Away

\* A guest's list is empty.
ServeList(c) ==
    /\ c.phase = "sent" /\ c.op = "list"
    /\ Answered(c, [c EXCEPT !.phase = "ok",
                    !.list = IF c.cookie \in live THEN Owned(c.cookie.user) ELSE {}])
    /\ Away /\ UNCHANGED serverVars

ServeOpen(c) ==
    /\ c.phase = "sent" /\ c.op = "open" /\ c.cookie \in live
    /\ c.conv \in Owned(c.cookie.user)
    /\ Answered(c, [c EXCEPT !.phase = "ok"])
    /\ Away /\ UNCHANGED serverVars

ServeDelete(c) ==
    /\ c.phase = "sent" /\ c.op = "delete" /\ c.cookie \in live
    /\ c.conv \in Owned(c.cookie.user)
    /\ stored' = Without({c.conv})
    /\ Answered(c, [c EXCEPT !.phase = "ok"])
    /\ Away /\ UNCHANGED <<accounts, live>>

\* A new conversation is named after the question that opened it.
ServeChat(c) ==
    /\ c.phase = "sent" /\ c.op = "chat" /\ c.cookie \in live
    /\ c.conv \in {NoConv} \cup Owned(c.cookie.user)
    /\ LET k == IF c.conv = NoConv THEN c.click ELSE c.conv IN
        /\ stored' = IF k \in DOMAIN stored THEN stored
                     ELSE [j \in DOMAIN stored \cup {k} |->
                            IF j = k THEN [user |-> c.cookie.user, byGuest |-> c.guest]
                            ELSE stored[j]]
        /\ Answered(c, [c EXCEPT !.phase = "ok", !.conv = k])
    /\ Away /\ UNCHANGED <<accounts, live>>

\* Whoever has no session is a guest: nothing is stored, the id is echoed.
ServeGuestChat(c) ==
    /\ c.phase = "sent" /\ c.op = "chat" /\ c.cookie \notin live
    /\ c.conv \notin GuestId
    /\ Answered(c, [c EXCEPT !.phase = "ok"])
    /\ Away /\ UNCHANGED serverVars

Serve(c) ==
    \/ ServeLogin(c) \/ ServeRegister(c) \/ ServeLogout(c) \/ ServeMe(c)
    \/ ServeAccount(c) \/ ServeList(c) \/ ServeOpen(c) \/ ServeDelete(c)
    \/ ServeChat(c) \/ ServeGuestChat(c)

----------------------------------------------------------------------------
(* The replies.                                                            *)

Others(c) == calls \ {c}

\* The reply to a call runs the rest of its handler, which may send another;
\* rest is what becomes of the other calls.
Arrives(c, op, next, rest) ==
    /\ c.op = op /\ c.phase = "ok"
    /\ calls' = next \cup rest
    /\ cookie' = IF c.setCookie = Keep THEN cookie ELSE c.setCookie
    /\ UNCHANGED <<bootVars, serverVars, clicks>>

\* The call was lost, refused or answered with an error, or its reply was lost.
Fails(c) ==
    /\ calls' = Others(c)
    /\ UNCHANGED <<bootVars, cookie, serverVars, clicks>>

Follow(c, op) == [Blank EXCEPT !.click = c.click, !.op = op, !.cookie = cookie]

\* onAuthenticated and the first half of initializeApp.
LoggedIn(c) ==
    /\ Arrives(c, "login", {[Follow(c, "me") EXCEPT !.cookie = c.setCookie,
                                        !.version = appSessionVersion + 1]}, Others(c))
    /\ isGuest' = FALSE /\ currentUser' = c.user
    /\ appSessionVersion' = appSessionVersion + 1
    /\ view' = IF view = "chat" THEN "chat" ELSE "blank"
    /\ left' = FALSE
    /\ UNCHANGED <<currentConversationId, guestConversations, activeConversations,
                   isStreaming, thread, strayed, replied>>

Registered(c) ==
    /\ Arrives(c, "register", {[Follow(c, "login") EXCEPT !.user = c.user]}, Others(c))
    /\ UNCHANGED <<pageVars, appSessionVersion, histVars>>

LoggedOut(c) ==
    /\ Arrives(c, "logout", {}, Others(c))
    /\ UNCHANGED <<pageVars, appSessionVersion, histVars>>

\* Variant of Superseded: the version is not compared.
SupersededNever(c) == FALSE

Superseded(c) == c.version # appSessionVersion

\* The second half of initializeApp.  currentUser is assigned before the
\* version is compared.
Validated(c) ==
    /\ ~Superseded(c)
    /\ Arrives(c, "me", {Follow(c, "list")}, Hidden(Others(c)))
    /\ currentUser' = c.user
    /\ view' = "chat" /\ isGuest' = FALSE
    /\ currentConversationId' = NoConv /\ activeConversations' = {}
    /\ ShowThread({})
    /\ UNCHANGED <<guestConversations, isStreaming, appSessionVersion, replied, left>>

ValidatedLate(c) ==
    /\ Superseded(c)
    /\ Arrives(c, "me", {}, Others(c))
    /\ currentUser' = c.user
    /\ UNCHANGED <<view, isGuest, currentConversationId, guestConversations,
                   activeConversations, isStreaming, appSessionVersion, histVars>>

NotValidated(c) ==
    /\ c.op = "me" /\ Fails(c)
    /\ IF Superseded(c) THEN UNCHANGED <<view, isGuest, currentUser>>
       ELSE view' = "welcome" /\ isGuest' = FALSE /\ currentUser' = None
    /\ UNCHANGED <<currentConversationId, guestConversations, activeConversations,
                   isStreaming, appSessionVersion, histVars>>

ListLoaded(c) ==
    /\ Arrives(c, "list", {}, Others(c))
    /\ activeConversations' = c.list
    /\ UNCHANGED <<view, isGuest, currentUser, currentConversationId, guestConversations,
                   isStreaming, appSessionVersion, histVars>>

Opened(c) ==
    /\ Arrives(c, "open", {}, Hidden(Others(c)))
    /\ currentConversationId' = c.conv
    /\ ShowThread({c.conv})
    /\ UNCHANGED <<view, isGuest, currentUser, guestConversations, activeConversations,
                   isStreaming, appSessionVersion, replied, left>>

\* resetChatArea empties the list as well when the conversation is the current.
Deleted(c) ==
    /\ IF currentConversationId = c.conv
       THEN /\ Arrives(c, "delete", {}, Hidden(Others(c)))
            /\ currentConversationId' = NoConv /\ activeConversations' = {}
            /\ ShowThread({})
       ELSE /\ Arrives(c, "delete", {}, Others(c))
            /\ activeConversations' = activeConversations \ {c.conv}
            /\ UNCHANGED <<currentConversationId, thread, strayed>>
    /\ UNCHANGED <<view, isGuest, currentUser, guestConversations, isStreaming,
                   appSessionVersion, replied, left>>

AccountDeleted(c) ==
    /\ Arrives(c, "account", {}, Others(c))
    /\ appSessionVersion' = appSessionVersion + 1
    /\ view' = "welcome" /\ isGuest' = FALSE /\ currentUser' = None
    /\ currentConversationId' = NoConv /\ guestConversations' = NoGuestConversations
    /\ activeConversations' = {}
    /\ left' = TRUE
    /\ UNCHANGED <<isStreaming, thread, strayed, replied>>

\* loadConversations, from the reply c.
Reloads(c) ==
    IF isGuest
    THEN Arrives(c, "chat", {}, Others(c)) /\ activeConversations' = {NoConv}
    ELSE Arrives(c, "chat", {Follow(c, "list")}, Others(c)) /\ UNCHANGED activeConversations

\* Variant of Filed: a conversation that is not there is begun again.
FiledAnew(c, g) ==
    guestConversations' = [h \in DOMAIN guestConversations \cup {g} |->
        Append(IF h \in DOMAIN guestConversations THEN guestConversations[h] ELSE <<>>,
               [role |-> "assistant", question |-> c.click])]

\* The answer goes into the guest conversation g, if it is still there.
Filed(c, g) ==
    guestConversations' = IF g \in DOMAIN guestConversations
        THEN [guestConversations EXCEPT ![g] =
                Append(@, [role |-> "assistant", question |-> c.click])]
        ELSE guestConversations

\* Variants: the file of an answer looked up when it arrives; the id of a new
\* conversation not taken over.
FileLate(c)  == currentConversationId
AdoptedNever(c) == currentConversationId

File(c) == c.file

Adopted(c) == IF currentConversationId = NoConv THEN c.conv ELSE currentConversationId

Appears(c) ==
    thread' = IF c.shown /\ ~c.guest THEN thread \cup ({c.conv} \cap ConvId) ELSE thread

\* sendNonStreamingMessage goes on as the guest or user it was called as.
GuestAnswered(c) ==
    /\ ~c.streamed /\ c.guest
    /\ Arrives(c, "chat", {}, Others(c))
    /\ Filed(c, File(c))
    /\ replied' = replied \cup {c.click}
    /\ UNCHANGED <<view, isGuest, currentUser, currentConversationId, activeConversations,
                   isStreaming, appSessionVersion, thread, strayed, left>>

UserAnswered(c) ==
    /\ ~c.streamed /\ ~c.guest
    /\ IF currentConversationId = NoConv THEN Reloads(c)
       ELSE Arrives(c, "chat", {}, Others(c)) /\ UNCHANGED activeConversations
    /\ currentConversationId' = Adopted(c)
    /\ Appears(c)
    /\ UNCHANGED <<view, isGuest, currentUser, guestConversations, isStreaming,
                   appSessionVersion, strayed, replied, left>>

\* The "done" event: as the guest or user, and in the conversation, of now.
StreamDone(c) ==
    /\ c.streamed
    /\ isStreaming' = FALSE
    /\ IF isGuest
       THEN /\ Arrives(c, "chat", {}, Others(c))
            /\ Filed(c, currentConversationId)
            /\ UNCHANGED <<currentConversationId, activeConversations>>
       ELSE /\ Reloads(c)
            /\ currentConversationId' = c.conv
            /\ UNCHANGED guestConversations
    /\ Appears(c)
    /\ replied' = IF isGuest /\ c.guest /\ c.shown THEN replied \cup {c.click} ELSE replied
    /\ UNCHANGED <<view, isGuest, currentUser, appSessionVersion, strayed, left>>

\* Variant of AfterFailure: only "done" ends a stream.
AfterFailureNothing(c) == isStreaming

\* An "error" event, a stream cut short, or no response.
AfterFailure(c) == IF c.streamed THEN FALSE ELSE isStreaming

Failed(c) ==
    /\ c.op # "me" /\ Fails(c)
    /\ isStreaming' = AfterFailure(c)
    /\ UNCHANGED <<view, isGuest, currentUser, currentConversationId, guestConversations,
                   activeConversations, appSessionVersion, histVars>>

Deliver(c) ==
    \/ LoggedIn(c) \/ Registered(c) \/ LoggedOut(c)
    \/ Validated(c) \/ ValidatedLate(c) \/ NotValidated(c)
    \/ ListLoaded(c) \/ Opened(c) \/ Deleted(c) \/ AccountDeleted(c)
    \/ GuestAnswered(c) \/ UserAnswered(c) \/ StreamDone(c) \/ Failed(c)

----------------------------------------------------------------------------
(* The replies to /config.                                                 *)

Settles(f) ==
    /\ f \in configs /\ configs' = configs \ {f}
    /\ UNCHANGED <<pageVars, appSessionVersion, cookie, serverVars, calls, clicks, histVars>>

ConfigLoaded(f) == Settles(f) /\ streamingEnabled' = StreamingConfig

\* Only checkStreamingConfig falls back to no streaming.
ConfigFailed(f) ==
    /\ Settles(f)
    /\ streamingEnabled' = IF f = "checkStreamingConfig" THEN FALSE ELSE streamingEnabled

Configured == \E f \in Fetch : ConfigLoaded(f) \/ ConfigFailed(f)

----------------------------------------------------------------------------

Clicks ==
    \/ ShowAuth \/ BackToWelcome \/ EnterGuestMode \/ Logout \/ DeleteAccount
    \/ \E u \in User : SubmitLogin(u) \/ SubmitRegister(u)
    \/ NewChat \/ Send
    \/ \E k \in ConvId \cup GuestId : Open(k) \/ Delete(k)

Network == \E c \in calls : Serve(c) \/ Deliver(c)

\* No call is on its way and the user has stopped.
Idle == calls = {} /\ UNCHANGED vars

Next == Clicks \/ Network \/ Configured \/ Idle

Spec == Init /\ [][Next]_vars

\* A stream is served, and ends or breaks off, in the end: there is one at a time.
\* The page sets no time limit and the server none on Gemini, so this is assumed
\* of the network and of Gemini.
Streams  == {c \in Chats : c.streamed}
FairSpec == Spec /\ WF_vars(\E c \in Streams : Serve(c) \/ Deliver(c))

----------------------------------------------------------------------------
(* Properties.                                                             *)

\* "Guards against stale async init overwriting newer state": once the user has
\* logged out, deleted the account or gone on as a guest, no validation that
\* was under way brings the account's chat back.
LeftStaysLeft == view = "chat" /\ ~isGuest => ~left

\* initializeApp waits for /auth/me, and will empty the page.
Validating == \E c \in calls : c.op = "me" /\ ~Superseded(c)

\* As long as each question has the page to itself until it is answered, the
\* messages on the page are those of the conversation the next one goes to, or
\* the page is about to be emptied: a login took a guest's page over.
ThreadIsCurrent ==
    view = "chat" /\ ~isGuest /\ ~Validating /\ ~strayed =>
        thread \subseteq {currentConversationId}

\* A guest's question that is kept has its answer after it, in the same
\* conversation, once the answer has come: one that comes whole whatever the
\* guest has opened, begun or logged into meanwhile; a streamed one if the page
\* still shows it when it is done.  (A streamed answer goes to the conversation
\* current at that moment: "New Chat" in between loses it.)
GuestAnswersFiled ==
    \A g \in DOMAIN guestConversations :
        LET f == guestConversations[g] IN
        \A i \in DOMAIN f : f[i].role = "user" /\ f[i].question \in replied =>
            \E j \in DOMAIN f :
                j > i /\ f[j] = [role |-> "assistant", question |-> f[i].question]

\* A stream that is cut off, refused or finished lets the user send again.
SendingResumes == isStreaming ~> ~isStreaming

\* "guest requests are NOT authenticated as a real user (and guest
\* conversations are never saved to someone's account)".
GuestsStayAnonymous == \A k \in DOMAIN stored : ~stored[k].byGuest

============================================================================
