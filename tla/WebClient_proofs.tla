---------------------------- MODULE WebClient_proofs ----------------------------
(***************************************************************************)
(* Theorems about WebClient, for any people, any number of clicks and any  *)
(* number of calls in flight, whichever way the server is set to answer.   *)
(***************************************************************************)
EXTENDS WebClient, TLAPS

----------------------------------------------------------------------------
(* Calls in flight.                                                        *)

\* What a call's handler relies on when the reply arrives: the server has set
\* a session in the reply to a login, and opened a conversation it stores.
GoodCall == {c \in Call :
    /\ c.op = "chat" => c.click # 0
    /\ c.op = "open" /\ c.phase = "ok" => c.conv \in ConvId
    /\ c.op = "login" /\ c.phase = "ok" => c.setCookie \in Tokens
    /\ c.op = "register" => c.user \in User}

\* Each click and the boot have at most one call in flight.
CallSet(C, n) ==
    /\ C \subseteq GoodCall
    /\ \A c, d \in C : c.click = d.click => c = d
    /\ \A c \in C : c.click <= n

TypeInv == TypeOK /\ CallSet(calls, clicks)

\* A call of a new click joins those under way.
LEMMA OneMoreCall ==
    ASSUME NEW C, NEW n \in Nat, NEW m \in Nat, n <= m, CallSet(C, n),
           NEW new \in GoodCall, new.click <= m, \A c \in C : c.click # new.click
    PROVE  CallSet(C \cup {new}, m)
  <1>1. \A c \in C : c.click \in Nat
    BY DEF CallSet, GoodCall, Call
  <1> QED BY <1>1 DEF CallSet

\* Hiding the answers' elements keeps everything else of the calls.
LEMMA HiddenCalls ==
    ASSUME NEW C \in SUBSET Call
    PROVE  \A d \in Hidden(C) : \E c \in C :
            /\ d = [c EXCEPT !.shown = (c.op # "chat")]
            /\ d \in Call
            /\ d.click = c.click /\ d.op = c.op /\ d.phase = c.phase /\ d.conv = c.conv
            /\ d.version = c.version /\ d.guest = c.guest /\ d.file = c.file
            /\ d.setCookie = c.setCookie /\ d.shown = (c.op # "chat") /\ d.user = c.user
  <1> SUFFICES ASSUME NEW c \in C, NEW d, d = [c EXCEPT !.shown = (c.op # "chat")]
      PROVE  /\ d \in Call
             /\ d.click = c.click /\ d.op = c.op /\ d.phase = c.phase /\ d.conv = c.conv
             /\ d.version = c.version /\ d.guest = c.guest /\ d.file = c.file
             /\ d.setCookie = c.setCookie /\ d.shown = (c.op # "chat") /\ d.user = c.user
    BY DEF Hidden
  <1> QED BY DEF Call

\* Hiding answers keeps the calls what they are.
LEMMA HiddenCallSet ==
    ASSUME NEW C, NEW n, CallSet(C, n)
    PROVE  CallSet(Hidden(C), n)
  <1>1. C \subseteq Call
    BY DEF CallSet, GoodCall
  <1>2. Hidden(C) \subseteq GoodCall
    BY <1>1, HiddenCalls DEF CallSet, GoodCall
  <1>3. \A d \in Hidden(C) : d.click <= n
    BY <1>1, HiddenCalls DEF CallSet
  <1>4. \A d, e \in Hidden(C) : d.click = e.click => d = e
    BY <1>1, HiddenCalls DEF CallSet
  <1> QED BY <1>2, <1>3, <1>4 DEF CallSet

LEMMA BlankIsCall == Blank \in Call
  BY BoundAssumption DEF Blank, Call, Op, Tokens, NoToken, Keep, None, NoConv

\* A call the user's click sends.
Fresh(c, op, k, g, f) ==
    /\ c \in GoodCall /\ c.click = clicks + 1 /\ c.op = op /\ c.phase = "sent"
    /\ c.conv = k /\ c.guest = g /\ c.file = f /\ c.shown = TRUE /\ c.version = 0

\* What the calls of a click carry.
LEMMA NewCall ==
    ASSUME TypeInv, clicks < MaxClicks, NEW op \in Op
    PROVE  /\ \A u \in User :
                Fresh([Plain(op) EXCEPT !.user = u], op, NoConv, FALSE, NoConv)
           /\ op # "register" =>
                /\ Fresh(Plain(op), op, NoConv, FALSE, NoConv)
                /\ \A k \in {NoConv} \cup ConvId \cup GuestId :
                    Fresh([Plain(op) EXCEPT !.conv = k], op, k, FALSE, NoConv)
                /\ \A k \in {NoConv} \cup ConvId \cup GuestId, s \in BOOLEAN :
                    Fresh([Plain(op) EXCEPT !.conv = k, !.streamed = s], op, k, FALSE, NoConv)
                /\ \A f \in {NoConv} \cup GuestId, s \in BOOLEAN :
                    Fresh([Plain(op) EXCEPT !.guest = TRUE, !.streamed = s, !.file = f],
                          op, NoConv, TRUE, f)
  <1> DEFINE p == Plain(op)
  <1>1. clicks + 1 \in 0..MaxClicks /\ clicks + 1 # 0 /\ cookie \in Tokens
    BY BoundAssumption DEF TypeInv, TypeOK
  <1>2. /\ p \in Call /\ p.click = clicks + 1 /\ p.op = op /\ p.phase = "sent"
        /\ p.conv = NoConv /\ p.guest = FALSE /\ p.file = NoConv /\ p.shown = TRUE
        /\ p.version = 0
    BY <1>1, BlankIsCall DEF Plain, Call, Blank
  <1> HIDE DEF p
  <1>3. ASSUME NEW c \in Call, c.click = p.click, c.op = p.op, c.phase = p.phase,
               op = "register" => c.user \in User
        PROVE  c \in GoodCall
    BY <1>1, <1>2, <1>3 DEF GoodCall
  <1>4. op # "register" => Fresh(p, op, NoConv, FALSE, NoConv)
    BY <1>2, <1>3 DEF Fresh
  <1>5. ASSUME NEW u \in User
        PROVE  Fresh([p EXCEPT !.user = u], op, NoConv, FALSE, NoConv)
    <2> DEFINE c == [p EXCEPT !.user = u]
    <2>1. /\ c \in Call /\ c.click = p.click /\ c.op = p.op /\ c.phase = p.phase
          /\ c.conv = p.conv /\ c.guest = p.guest /\ c.file = p.file /\ c.shown = p.shown
          /\ c.version = p.version /\ c.user = u
      BY <1>2 DEF Call
    <2> QED BY <1>2, <1>3, <2>1 DEF Fresh
  <1>6. ASSUME NEW k \in {NoConv} \cup ConvId \cup GuestId, op # "register"
        PROVE  Fresh([p EXCEPT !.conv = k], op, k, FALSE, NoConv)
    <2> DEFINE c == [p EXCEPT !.conv = k]
    <2>1. /\ c \in Call /\ c.click = p.click /\ c.op = p.op /\ c.phase = p.phase
          /\ c.conv = k /\ c.guest = p.guest /\ c.file = p.file /\ c.shown = p.shown
          /\ c.version = p.version
      BY <1>2 DEF Call
    <2> QED BY <1>2, <1>3, <1>6, <2>1 DEF Fresh
  <1>8. ASSUME NEW k \in {NoConv} \cup ConvId \cup GuestId, NEW s \in BOOLEAN, op # "register"
        PROVE  Fresh([p EXCEPT !.conv = k, !.streamed = s], op, k, FALSE, NoConv)
    <2> DEFINE c == [p EXCEPT !.conv = k, !.streamed = s]
    <2>1. /\ c \in Call /\ c.click = p.click /\ c.op = p.op /\ c.phase = p.phase
          /\ c.conv = k /\ c.guest = p.guest /\ c.file = p.file /\ c.shown = p.shown
          /\ c.version = p.version
      BY <1>2 DEF Call
    <2> QED BY <1>2, <1>3, <1>8, <2>1 DEF Fresh
  <1>7. ASSUME NEW f \in {NoConv} \cup GuestId, NEW s \in BOOLEAN, op # "register"
        PROVE  Fresh([p EXCEPT !.guest = TRUE, !.streamed = s, !.file = f],
                     op, NoConv, TRUE, f)
    <2> DEFINE c == [p EXCEPT !.guest = TRUE, !.streamed = s, !.file = f]
    <2>1. /\ c \in Call /\ c.click = p.click /\ c.op = p.op /\ c.phase = p.phase
          /\ c.conv = p.conv /\ c.guest = TRUE /\ c.file = f /\ c.shown = p.shown
          /\ c.version = p.version
      BY <1>2 DEF Call
    <2> QED BY <1>2, <1>3, <1>7, <2>1 DEF Fresh
  <1> QED BY <1>4, <1>5, <1>6, <1>7, <1>8 DEF p

\* The calls after a click that sends one, or none.
LEMMA ClickCalls ==
    ASSUME TypeInv, Click, NEW C \in {calls, Hidden(calls)}
    PROVE  /\ CallSet(C, clicks')
           /\ \A c \in GoodCall : c.click = clicks + 1 => CallSet(C \cup {c}, clicks')
  <1>1. /\ clicks \in Nat /\ clicks' \in Nat /\ clicks' = clicks + 1 /\ CallSet(C, clicks)
    BY HiddenCallSet DEF TypeInv, TypeOK, Click
  <1>2. \A c \in C : c.click \in Nat /\ c.click <= clicks
    BY <1>1 DEF CallSet, GoodCall, Call
  <1>3. CallSet(C, clicks')
    BY <1>1, <1>2 DEF CallSet
  <1>4. ASSUME NEW c \in GoodCall, c.click = clicks + 1
        PROVE  CallSet(C \cup {c}, clicks')
    BY <1>1, <1>2, <1>4, OneMoreCall
  <1> QED BY <1>3, <1>4

\* The page as the type invariant has it.
PageOK ==
    /\ view \in {"welcome", "auth", "blank", "chat"}
    /\ isGuest \in BOOLEAN
    /\ currentUser \in User \cup {None}
    /\ currentConversationId \in {NoConv} \cup ConvId \cup GuestId
    /\ DOMAIN guestConversations \subseteq GuestId
    /\ \A g \in DOMAIN guestConversations : guestConversations[g] \in Seq(GuestMessage)
    /\ activeConversations \subseteq ConvId \/ activeConversations = {NoConv}
    /\ isStreaming \in BOOLEAN
    /\ appSessionVersion \in Nat
    /\ thread \subseteq ConvId /\ replied \subseteq 1..MaxClicks
    /\ strayed \in BOOLEAN /\ left \in BOOLEAN

\* What only replies and the server change.
BackOK ==
    /\ streamingEnabled \in BOOLEAN /\ configs \subseteq Fetch
    /\ cookie \in Tokens
    /\ accounts \subseteq User /\ live \subseteq Token
    /\ DOMAIN stored \subseteq ConvId /\ \A c \in DOMAIN stored : stored[c] \in StoredConv
    /\ clicks \in 0..MaxClicks

LEMMA TypeParts == TypeInv <=> PageOK /\ BackOK /\ CallSet(calls, clicks)
  <1>1. CallSet(calls, clicks) =>
            calls \subseteq Call /\ \A c, d \in calls : c.click = d.click => c = d
    BY DEF CallSet, GoodCall
  <1> QED BY <1>1 DEF TypeInv, TypeOK, PageOK, BackOK

LEMMA InitTypes == Init => TypeInv
  <1> SUFFICES ASSUME Init PROVE TypeInv
    OBVIOUS
  <1>1. cookie \in Tokens /\ live \subseteq Token
    BY BoundAssumption DEF Init, Tokens, Token, First
  <1>2. PageOK
    BY DEF Init, PageOK, NoGuestConversations, None, NoConv
  <1>3. BackOK
    <2>1. streamingEnabled = FALSE /\ configs = Fetch /\ accounts = User /\ clicks = 0
      BY DEF Init
    <2>2. DOMAIN stored = {}
      BY DEF Init
    <2>3. clicks \in 0..MaxClicks
      BY <2>1, BoundAssumption
    <2> QED BY <1>1, <2>1, <2>2, <2>3 DEF BackOK
  <1>4. CallSet(calls, clicks)
    <2> DEFINE c == [Blank EXCEPT !.op = "me", !.version = 1, !.cookie = cookie]
    <2>1. c \in Call /\ c.op = "me" /\ c.click = 0
      BY <1>1, BlankIsCall DEF Call, Op, Blank
    <2>2. calls = {c} /\ clicks = 0
      BY DEF Init
    <2> HIDE DEF c
    <2> QED BY <2>1, <2>2 DEF CallSet, GoodCall
  <1> QED BY <1>2, <1>3, <1>4, TypeParts

ClickOp == {"login", "register", "logout", "open", "delete", "account", "chat"}

\* What a click does to the calls in flight.
Sends(C) == \E op \in ClickOp, k \in {NoConv} \cup ConvId \cup GuestId, g \in BOOLEAN,
               f \in {NoConv} \cup GuestId, c \in GoodCall :
                Fresh(c, op, k, g, f) /\ calls' = C \cup {c} /\ (op = "chat" => Send)

\* A click sends one call or none, and may hide what is shown.
LEMMA ClickSends ==
    ASSUME TypeInv, Clicks
    PROVE  Click /\ \E C \in {calls, Hidden(calls)} : calls' = C \/ Sends(C)
  <1> USE DEF ClickOp
  <1>1. CASE ShowAuth \/ BackToWelcome \/ NewChat
    BY <1>1 DEF ShowAuth, BackToWelcome, NewChat
  <1>2. ASSUME NEW op \in ClickOp, NEW k \in {NoConv} \cup ConvId \cup GuestId,
               NEW g \in BOOLEAN, NEW f \in {NoConv} \cup GuestId, NEW c,
               Fresh(c, op, k, g, f), op = "chat" => Send,
               NEW C \in {calls, Hidden(calls)}, calls' = C \cup {c}
        PROVE  \E D \in {calls, Hidden(calls)} : Sends(D)
    BY <1>2 DEF Sends, Fresh
  <1>3. clicks < MaxClicks => \A op \in ClickOp :
           /\ \A u \in User :
                Fresh([Plain(op) EXCEPT !.user = u], op, NoConv, FALSE, NoConv)
           /\ op # "register" =>
                /\ Fresh(Plain(op), op, NoConv, FALSE, NoConv)
                /\ \A k \in {NoConv} \cup ConvId \cup GuestId :
                    Fresh([Plain(op) EXCEPT !.conv = k], op, k, FALSE, NoConv)
                /\ \A k \in {NoConv} \cup ConvId \cup GuestId, s \in BOOLEAN :
                    Fresh([Plain(op) EXCEPT !.conv = k, !.streamed = s], op, k, FALSE, NoConv)
                /\ \A f \in {NoConv} \cup GuestId, s \in BOOLEAN :
                    Fresh([Plain(op) EXCEPT !.guest = TRUE, !.streamed = s, !.file = f],
                          op, NoConv, TRUE, f)
    BY NewCall DEF Op
  <1> HIDE DEF ClickOp
  <1>o. \A op \in {"login", "register", "logout", "open", "delete", "account", "chat"} :
            op \in ClickOp
    BY DEF ClickOp
  <1>4. ASSUME NEW u \in User, SubmitLogin(u) \/ SubmitRegister(u)
        PROVE  Click /\ \E C \in {calls, Hidden(calls)} : Sends(C)
    <2>1. PICK op \in {"login", "register"} :
            Click /\ calls' = calls \cup {[Plain(op) EXCEPT !.user = u]}
      BY <1>4 DEF SubmitLogin, SubmitRegister, Asked
    <2>2. Fresh([Plain(op) EXCEPT !.user = u], op, NoConv, FALSE, NoConv)
      BY <1>3, <1>o, <2>1 DEF Click
    <2> QED BY <1>2, <1>o, <2>1, <2>2
  <1>5. CASE Logout \/ EnterGuestMode \/ DeleteAccount
    <2>1. PICK op \in {"logout", "account"}, C \in {calls, Hidden(calls)} :
            Click /\ calls' = C \cup {Plain(op)}
      BY <1>5 DEF Logout, EnterGuestMode, DeleteAccount, Asked
    <2>2. Fresh(Plain(op), op, NoConv, FALSE, NoConv)
      BY <1>3, <1>o, <2>1 DEF Click
    <2> QED BY <1>2, <1>o, <2>1, <2>2
  <1>k. ASSUME NEW op \in {"open", "delete"},
               NEW k \in {NoConv} \cup ConvId \cup GuestId,
               Click, calls' = calls \cup {[Plain(op) EXCEPT !.conv = k]}
        PROVE  Click /\ \E C \in {calls, Hidden(calls)} : Sends(C)
    <2>1. Fresh([Plain(op) EXCEPT !.conv = k], op, k, FALSE, NoConv)
      BY <1>3, <1>o, <1>k DEF Click
    <2> QED BY <1>2, <1>k, <1>o, <2>1
  <1>6. ASSUME NEW k \in ConvId \cup GuestId, Open(k) \/ Delete(k)
        PROVE  Click /\ \E C \in {calls, Hidden(calls)} : calls' = C \/ Sends(C)
    BY <1>k, <1>6 DEF Open, OpenGuest, Delete, Asked
  <1>7. CASE Send
    <2>0. streamingEnabled \in BOOLEAN /\ Click
      BY <1>7 DEF Send, TypeInv, TypeOK
    <2>1. CASE ~isGuest
      <3>1. /\ calls' = calls \cup {[Plain("chat") EXCEPT !.conv = currentConversationId,
                                                       !.streamed = streamingEnabled]}
            /\ currentConversationId \in {NoConv} \cup ConvId \cup GuestId
        BY <1>7, <2>1 DEF Send, AsUser, Asked, TypeInv, TypeOK
      <3>2. Fresh([Plain("chat") EXCEPT !.conv = currentConversationId,
                                        !.streamed = streamingEnabled],
                  "chat", currentConversationId, FALSE, NoConv)
        BY <1>3, <1>o, <2>0, <3>1 DEF Click
      <3> QED BY <1>2, <1>7, <1>o, <2>0, <3>1, <3>2
    <2>2. CASE isGuest
      <3>1. PICK f \in {NoConv, -clicks'} \cup DOMAIN guestConversations :
                calls' = calls \cup {[Plain("chat") EXCEPT !.guest = TRUE,
                                        !.streamed = streamingEnabled, !.file = f]}
        <4>1. CASE currentConversationId = NoConv
          BY <1>7, <2>2, <4>1 DEF Send, AsGuest, Asked
        <4>2. CASE currentConversationId # NoConv
          <5>1. DOMAIN guestConversations' = DOMAIN guestConversations
            BY <1>7, <2>2, <4>2 DEF Send, AsGuest
          <5> QED BY <1>7, <2>2, <4>2, <5>1 DEF Send, AsGuest, Asked
        <4> QED BY <4>1, <4>2
      <3>2. f \in {NoConv} \cup GuestId
        <4>1. -clicks' \in GuestId
          BY <1>7, BoundAssumption DEF Send, Click, GuestId, TypeInv, TypeOK
        <4> QED BY <3>1, <4>1 DEF TypeInv, TypeOK
      <3>3. Click
        BY <1>7 DEF Send
      <3>4. Fresh([Plain("chat") EXCEPT !.guest = TRUE, !.streamed = streamingEnabled,
                                        !.file = f], "chat", NoConv, TRUE, f)
        BY <1>3, <1>o, <2>0, <3>2, <3>3 DEF Click
      <3> QED BY <1>2, <1>7, <1>o, <3>1, <3>2, <3>3, <3>4
    <2> QED BY <2>1, <2>2
  <1> QED BY <1>1, <1>4, <1>5, <1>6, <1>7 DEF Clicks

\* A guest conversation with one more message.
LEMMA AppendedGuest ==
    ASSUME PageOK, NEW g \in GuestId, NEW m \in GuestMessage
    PROVE  \A G : G = [guestConversations EXCEPT ![g] = Append(@, m)] =>
                DOMAIN G \subseteq GuestId /\ \A h \in DOMAIN G : G[h] \in Seq(GuestMessage)
  <1> SUFFICES ASSUME NEW G, G = [guestConversations EXCEPT ![g] = Append(@, m)]
      PROVE  DOMAIN G \subseteq GuestId /\ \A h \in DOMAIN G : G[h] \in Seq(GuestMessage)
    OBVIOUS
  <1>1. DOMAIN G = DOMAIN guestConversations
    OBVIOUS
  <1>2. \A h \in DOMAIN G : G[h] = IF h = g THEN Append(guestConversations[g], m)
                                   ELSE guestConversations[h]
    OBVIOUS
  <1>3. g \in DOMAIN G => Append(guestConversations[g], m) \in Seq(GuestMessage)
    BY <1>1 DEF PageOK
  <1> QED BY <1>1, <1>2, <1>3 DEF PageOK

\* Logging out and a deleted account leave the page alike.
Leaves ==
    /\ appSessionVersion' = appSessionVersion + 1
    /\ view' = "welcome" /\ isGuest' = FALSE /\ currentUser' = None
    /\ currentConversationId' = NoConv /\ guestConversations' = NoGuestConversations
    /\ activeConversations' = {} /\ left' = TRUE
    /\ UNCHANGED <<isStreaming, thread, strayed, replied>>

LEMMA LeavingTypes ==
    ASSUME PageOK, Leaves
    PROVE  PageOK'
  <1>1. DOMAIN NoGuestConversations = {}
    BY DEF NoGuestConversations
  <1>2. /\ isStreaming' \in BOOLEAN /\ strayed' \in BOOLEAN /\ left' \in BOOLEAN
        /\ thread' \subseteq ConvId /\ isGuest' \in BOOLEAN
        /\ replied' \subseteq 1..MaxClicks
    BY DEF PageOK, Leaves
  <1>3. appSessionVersion' \in Nat
    BY DEF PageOK, Leaves
  <1>4. currentUser' \in User \cup {None}
    BY DEF PageOK, Leaves
  <1>5. activeConversations' \subseteq ConvId
    BY DEF PageOK, Leaves
  <1> QED BY <1>1, <1>2, <1>3, <1>4, <1>5 DEF PageOK, Leaves

LEMMA ClickTypes ==
    ASSUME TypeInv, Clicks
    PROVE  TypeInv'
  <1>1. Click /\ PageOK /\ BackOK
    BY ClickSends, TypeParts
  <1>2. CallSet(calls, clicks)'
    <2>1. PICK C \in {calls, Hidden(calls)} : calls' = C \/ Sends(C)
      BY ClickSends
    <2> QED BY <1>1, <2>1, ClickCalls DEF Sends, Fresh
  <1>3. BackOK'
    BY <1>1, BoundAssumption DEF BackOK, Click, bootVars, serverVars
  <1>4. PageOK'
    <2>0. CASE ShowAuth \/ BackToWelcome
      BY <1>1, <2>0 DEF PageOK, ShowAuth, BackToWelcome, histVars
    <2>1. CASE NewChat
      BY <1>1, <2>1 DEF PageOK, NewChat, ShowThread
    <2>2. CASE Logout \/ EnterGuestMode
      <3>1. DOMAIN NoGuestConversations = {}
        BY DEF NoGuestConversations
      <3>2. CASE Logout
        BY <1>1, <3>2, LeavingTypes DEF Logout, Leaves
      <3>3. CASE EnterGuestMode
        BY <1>1, <3>1, <3>3 DEF PageOK, EnterGuestMode, ShowThread
      <3> QED BY <2>2, <3>2, <3>3
    <2>3. CASE DeleteAccount \/ \E u \in User : SubmitLogin(u) \/ SubmitRegister(u)
      BY <1>1, <2>3 DEF PageOK, DeleteAccount, SubmitLogin, SubmitRegister, pageVars, histVars
    <2>4. ASSUME NEW k \in ConvId \cup GuestId, Open(k) \/ Delete(k)
          PROVE  PageOK'
      BY <1>1, <2>4 DEF PageOK, Open, OpenGuest, Delete, ShowThread, pageVars, histVars
    <2>5. CASE Send
      <3>1. /\ UNCHANGED <<view, isGuest, currentUser, activeConversations,
                           appSessionVersion, replied, left>>
            /\ isStreaming' \in BOOLEAN /\ strayed' \in BOOLEAN
        BY <1>1, <2>5 DEF Send, PageOK, BackOK
      <3>2. CASE ~isGuest
        BY <1>1, <2>5, <3>1, <3>2 DEF Send, AsUser, PageOK
      <3>3. CASE isGuest
        <4> DEFINE q == clicks'
                   m == [role |-> "user", question |-> q]
        <4>1. q \in 1..MaxClicks /\ -q \in GuestId /\ m \in GuestMessage
          BY <1>1, BoundAssumption DEF Click, BackOK, GuestId, GuestMessage
        <4>2. UNCHANGED thread
          BY <2>5, <3>3 DEF Send, AsGuest
        <4> HIDE DEF m, q
        <4>3. currentConversationId' \in {NoConv} \cup ConvId \cup GuestId
          BY <1>1, <2>5, <3>3, <4>1 DEF Send, AsGuest, PageOK, q
        <4>4. CASE currentConversationId = NoConv
          <5>1. guestConversations' =
                    [h \in DOMAIN guestConversations \cup {-q} |->
                        IF h = -q THEN <<m>> ELSE guestConversations[h]]
            BY <2>5, <3>3, <4>4 DEF Send, AsGuest, q, m
          <5>2. <<m>> \in Seq(GuestMessage)
            BY <4>1
          <5> QED BY <1>1, <3>1, <4>1, <4>2, <4>3, <5>1, <5>2 DEF PageOK
        <4>5. CASE currentConversationId \in DOMAIN guestConversations
                   /\ currentConversationId # NoConv
          <5>1. guestConversations' =
                    [guestConversations EXCEPT ![currentConversationId] = Append(@, m)]
            BY <2>5, <3>3, <4>5 DEF Send, AsGuest, q, m
          <5>2. currentConversationId \in GuestId
            BY <1>1, <4>5 DEF PageOK
          <5> QED BY <1>1, <3>1, <4>1, <4>2, <4>3, <5>1, <5>2, AppendedGuest DEF PageOK
        <4>6. CASE currentConversationId \notin DOMAIN guestConversations
                   /\ currentConversationId # NoConv
          <5>1. UNCHANGED guestConversations
            BY <2>5, <3>3, <4>6 DEF Send, AsGuest
          <5> QED BY <1>1, <3>1, <4>2, <4>3, <5>1 DEF PageOK
        <4> QED BY <4>4, <4>5, <4>6
      <3> QED BY <3>2, <3>3
    <2> QED BY <2>0, <2>1, <2>2, <2>3, <2>4, <2>5 DEF Clicks
  <1> QED BY <1>2, <1>3, <1>4, TypeParts, PTL

\* A call whose request the server has served keeps what its handler goes on with.
Serves(c, d) ==
    /\ d \in GoodCall /\ d.phase = "ok"
    /\ d.click = c.click /\ d.op = c.op /\ d.version = c.version /\ d.guest = c.guest
    /\ d.file = c.file /\ d.shown = c.shown

\* A served call stays a good one.
LEMMA ServedCall ==
    ASSUME TypeInv, NEW c \in calls, NEW d, Serves(c, d), Answered(c, d), UNCHANGED clicks
    PROVE  CallSet(calls, clicks)'
  <1>1. CallSet(calls \ {c}, clicks) /\ \A e \in calls \ {c} : e.click # d.click
    BY DEF TypeInv, CallSet, Serves
  <1>2. clicks \in Nat /\ d.click <= clicks /\ d \in GoodCall
    BY DEF TypeInv, TypeOK, CallSet, Serves
  <1>3. CallSet((calls \ {c}) \cup {d}, clicks)
    BY <1>1, <1>2, OneMoreCall
  <1> QED BY <1>3 DEF Answered

LEMMA ServeTypes ==
    ASSUME TypeInv, NEW c \in calls, Serve(c)
    PROVE  /\ TypeInv' /\ UNCHANGED <<pageVars, bootVars, appSessionVersion, cookie,
                                      clicks, histVars>>
           /\ \E d : /\ Serves(c, d) /\ Answered(c, d)
                     /\ c.op = "chat" => \/ d.conv = c.conv
                                         \/ c.conv = NoConv /\ d.conv \in ConvId
  <1> DEFINE Sure == UNCHANGED <<pageVars, bootVars, appSessionVersion, cookie,
                                 clicks, histVars>>
             Done == \E d : /\ Serves(c, d) /\ Answered(c, d)
                            /\ c.op = "chat" => \/ d.conv = c.conv
                                                \/ c.conv = NoConv /\ d.conv \in ConvId
  <1>1. /\ PageOK /\ BackOK /\ c \in GoodCall /\ c \in Call
    BY TypeParts DEF CallSet, GoodCall
  <1>2. Sure
    BY DEF Serve, ServeLogin, ServeRegister, ServeLogout, ServeMe, ServeAccount, ServeList,
           ServeOpen, ServeDelete, ServeChat, ServeGuestChat, Away
  <1>3. ASSUME Done, accounts' \subseteq User, live' \subseteq Token, DOMAIN stored' \subseteq ConvId,
               \A k \in DOMAIN stored' : stored'[k] \in StoredConv
        PROVE  TypeInv' /\ Done
    <2>1. CallSet(calls, clicks)'
      BY <1>2, <1>3, ServedCall
    <2>2. PageOK' /\ BackOK'
      BY <1>1, <1>2, <1>3 DEF PageOK, BackOK, pageVars, bootVars, histVars
    <2> QED BY <1>3, <2>1, <2>2, TypeParts, PTL
  <1>4. ASSUME NEW d \in Call, d.phase = "ok", d.click = c.click, d.op = c.op,
               d.version = c.version, d.guest = c.guest, d.file = c.file, d.shown = c.shown,
               c.op = "login" => d.setCookie \in Tokens, c.op = "open" => d.conv \in ConvId,
               c.op = "register" => d.user = c.user
        PROVE  Serves(c, d)
    BY <1>1, <1>4 DEF Serves, GoodCall
  <1> DEFINE Kept(d) == /\ d.phase = "ok" /\ d.click = c.click /\ d.op = c.op
                        /\ d.version = c.version /\ d.guest = c.guest /\ d.file = c.file
                        /\ d.shown = c.shown
  <1>o. \A u : Owned(u) \subseteq ConvId
    BY <1>1 DEF Owned, BackOK
  <1>w. \A K : /\ DOMAIN Without(K) \subseteq ConvId
               /\ \A k \in DOMAIN Without(K) : Without(K)[k] \in StoredConv
    BY <1>1 DEF Without, BackOK
  <1>5. CASE ServeLogin(c)
    <2> DEFINE t == [user |-> c.user, n |-> c.click]
               d == [c EXCEPT !.phase = "ok", !.setCookie = t]
    <2>1. c.op = "login" /\ live' = live \cup {t} /\ Answered(c, d)
          /\ UNCHANGED <<accounts, stored>> /\ c.user \in User
      BY <1>1, <1>5 DEF ServeLogin, BackOK
    <2>2. t \in Token
      BY <1>1, <2>1 DEF Call, Token
    <2> HIDE DEF t
    <2>3. d \in Call /\ Kept(d) /\ d.setCookie = t
      BY <1>1, <2>2 DEF Call, Tokens
    <2>4. Serves(c, d)
      BY <1>4, <2>1, <2>2, <2>3 DEF Tokens
    <2> QED BY <1>1, <1>2, <1>3, <2>1, <2>2, <2>4 DEF BackOK
  <1>6. CASE ServeRegister(c)
    <2> DEFINE d == [c EXCEPT !.phase = "ok"]
    <2>1. c.op = "register" /\ accounts' = accounts \cup {c.user} /\ Answered(c, d)
          /\ UNCHANGED <<live, stored>>
      BY <1>6 DEF ServeRegister
    <2>2. d \in Call /\ Kept(d) /\ d.user = c.user
      BY <1>1 DEF Call
    <2>3. c.user \in User
      BY <1>1, <2>1 DEF GoodCall
    <2>4. Serves(c, d)
      BY <1>4, <2>1, <2>2
    <2> QED BY <1>1, <1>2, <1>3, <2>1, <2>3, <2>4 DEF BackOK
  <1>7. CASE ServeLogout(c) \/ ServeAccount(c)
    <2> DEFINE d == [c EXCEPT !.phase = "ok", !.setCookie = NoToken]
    <2>1. c.op \in {"logout", "account"} /\ Answered(c, d)
      BY <1>7 DEF ServeLogout, ServeAccount
    <2>2. d \in Call /\ Kept(d)
      BY <1>1 DEF Call, Tokens
    <2>3. Serves(c, d)
      BY <1>4, <2>1, <2>2
    <2>4. accounts' \subseteq User /\ live' \subseteq Token
      BY <1>1, <1>7 DEF BackOK, ServeLogout, ServeAccount
    <2>5. stored' = stored \/ stored' = Without(Owned(c.cookie.user))
      BY <1>7 DEF ServeLogout, ServeAccount
    <2> QED BY <1>1, <1>2, <1>3, <1>w, <2>1, <2>3, <2>4, <2>5 DEF BackOK
  <1>8. CASE ServeMe(c)
    <2> DEFINE d == [c EXCEPT !.phase = "ok", !.user = c.cookie.user]
    <2>1. c.op = "me" /\ Answered(c, d) /\ UNCHANGED serverVars /\ c.cookie \in Token
      BY <1>1, <1>8 DEF ServeMe, BackOK
    <2>2. c.cookie.user \in User
      BY <2>1 DEF Token
    <2>3. d \in Call /\ Kept(d)
      BY <1>1, <2>2 DEF Call
    <2>4. Serves(c, d)
      BY <1>4, <2>1, <2>3
    <2> QED BY <1>1, <1>2, <1>3, <2>1, <2>4 DEF BackOK, serverVars
  <1>9. CASE ServeList(c)
    <2> DEFINE L == IF c.cookie \in live THEN Owned(c.cookie.user) ELSE {}
               d == [c EXCEPT !.phase = "ok", !.list = L]
    <2>1. c.op = "list" /\ Answered(c, d) /\ UNCHANGED serverVars
      BY <1>9 DEF ServeList
    <2>2. L \subseteq ConvId
      BY <1>o
    <2> HIDE DEF L
    <2>3. d \in Call /\ Kept(d)
      BY <1>1, <2>2 DEF Call
    <2>4. Serves(c, d)
      BY <1>4, <2>1, <2>3
    <2> QED BY <1>1, <1>2, <1>3, <2>1, <2>4 DEF BackOK, serverVars
  <1>10. CASE ServeOpen(c) \/ ServeDelete(c)
    <2> DEFINE d == [c EXCEPT !.phase = "ok"]
    <2>1. c.op \in {"open", "delete"} /\ Answered(c, d) /\ UNCHANGED <<accounts, live>>
          /\ c.conv \in ConvId
      BY <1>10, <1>o DEF ServeOpen, ServeDelete, serverVars
    <2>2. d \in Call /\ Kept(d) /\ d.conv = c.conv
      BY <1>1 DEF Call
    <2>3. Serves(c, d)
      BY <1>4, <2>1, <2>2
    <2>4. stored' = stored \/ stored' = Without({c.conv})
      BY <1>10 DEF ServeOpen, ServeDelete, serverVars
    <2> QED BY <1>1, <1>2, <1>3, <1>w, <2>1, <2>3, <2>4 DEF BackOK
  <1>11. CASE ServeChat(c)
    <2> DEFINE k == IF c.conv = NoConv THEN c.click ELSE c.conv
               d == [c EXCEPT !.phase = "ok", !.conv = k]
    <2>1. /\ c.op = "chat" /\ Answered(c, d) /\ UNCHANGED <<accounts, live>>
          /\ c.conv \in {NoConv} \cup Owned(c.cookie.user) /\ c.cookie \in Token
          /\ stored' = IF k \in DOMAIN stored THEN stored
                       ELSE [j \in DOMAIN stored \cup {k} |->
                                IF j = k THEN [user |-> c.cookie.user, byGuest |-> c.guest]
                                ELSE stored[j]]
      BY <1>1, <1>11 DEF ServeChat, BackOK
    <2>2. k \in ConvId
      <3>1. c.click \in 0..MaxClicks /\ c.click # 0
        BY <1>1, <2>1 DEF GoodCall, Call
      <3> QED BY <1>o, <2>1, <3>1, BoundAssumption DEF ConvId
    <2>3. k = c.conv \/ c.conv = NoConv
      OBVIOUS
    <2> HIDE DEF k
    <2>4. d \in Call /\ Kept(d) /\ d.conv = k
      BY <1>1, <2>2 DEF Call
    <2>5. Serves(c, d)
      BY <1>4, <2>1, <2>4
    <2>6. [user |-> c.cookie.user, byGuest |-> c.guest] \in StoredConv
      BY <1>1, <2>1 DEF Token, Call, StoredConv
    <2>7. DOMAIN stored' \subseteq ConvId /\ \A j \in DOMAIN stored' : stored'[j] \in StoredConv
      BY <1>1, <2>1, <2>2, <2>6 DEF BackOK
    <2> QED BY <1>1, <1>2, <1>3, <2>1, <2>2, <2>3, <2>4, <2>5, <2>7 DEF BackOK
  <1>12. CASE ServeGuestChat(c)
    <2> DEFINE d == [c EXCEPT !.phase = "ok"]
    <2>1. c.op = "chat" /\ Answered(c, d) /\ UNCHANGED serverVars
      BY <1>12 DEF ServeGuestChat
    <2>2. d \in Call /\ Kept(d) /\ d.conv = c.conv
      BY <1>1 DEF Call
    <2>3. Serves(c, d)
      BY <1>4, <2>1, <2>2
    <2> QED BY <1>1, <1>2, <1>3, <2>1, <2>2, <2>3 DEF BackOK, serverVars
  <1> QED BY <1>2, <1>5, <1>6, <1>7, <1>8, <1>9, <1>10, <1>11, <1>12 DEF Serve

\* The call a reply's handler sends in its turn.
Next1(c, n) ==
    /\ n \in GoodCall /\ n.click = c.click /\ n.phase = "sent"
    /\ n.op \in {"list", "login", "me"}
    /\ n.op = "me" => LoggedIn(c) /\ n.version = appSessionVersion'

Replied(c, R) == calls' = R \/ \E n : Next1(c, n) /\ calls' = R \cup {n}

\* A reply may be followed by another call of the same click.
LEMMA FollowIsCall ==
    ASSUME TypeInv, NEW c \in calls, NEW op \in {"list", "login", "me"}
    PROVE  /\ Follow(c, op) \in Call /\ Follow(c, op).click = c.click
           /\ Follow(c, op).op = op /\ Follow(c, op).phase = "sent"
  <1>1. c \in Call /\ cookie \in Tokens
    BY DEF TypeInv, TypeOK
  <1>2. Follow(c, op) \in Call
    BY <1>1, BlankIsCall DEF Follow, Call, Op
  <1> QED BY <1>2, BlankIsCall DEF Follow, Blank

\* A reply takes its call away, or another takes its place.
LEMMA DeliverCalls ==
    ASSUME TypeInv, NEW c \in calls, Deliver(c)
    PROVE  /\ \E R \in {Others(c), Hidden(Others(c))} : Replied(c, R)
           /\ BackOK' /\ UNCHANGED <<bootVars, serverVars, clicks>>
  <1>1. c \in Call /\ c \in GoodCall /\ BackOK
    BY TypeParts DEF CallSet, GoodCall
  <1>2. ASSUME NEW op, NEW N, NEW R, Arrives(c, op, N, R)
        PROVE  /\ BackOK' /\ calls' = R \cup N /\ c.op = op /\ c.phase = "ok"
               /\ UNCHANGED <<bootVars, serverVars, clicks>>
    <2>1. cookie' \in Tokens
      BY <1>1, <1>2 DEF Arrives, BackOK, Call
    <2> QED BY <1>1, <1>2, <2>1 DEF Arrives, BackOK, bootVars, serverVars
  <1>3. ASSUME Fails(c)
        PROVE  BackOK' /\ calls' = Others(c) /\ UNCHANGED <<bootVars, serverVars, clicks>>
    BY <1>1, <1>3 DEF Fails, BackOK, bootVars, serverVars
  <1>4. ASSUME NEW op \in {"list", "login"}
        PROVE  Follow(c, op) \in GoodCall /\ Next1(c, Follow(c, op))
    BY <1>4, FollowIsCall DEF Next1, GoodCall
  <1>5. CASE LoggedIn(c)
    <2> DEFINE n == [Follow(c, "me") EXCEPT !.cookie = c.setCookie,
                                            !.version = appSessionVersion + 1]
    <2>1. Arrives(c, "login", {n}, Others(c)) /\ appSessionVersion' = appSessionVersion + 1
      BY <1>5 DEF LoggedIn
    <2>2. c.setCookie \in Tokens /\ appSessionVersion + 1 \in Nat
      BY <1>1, <1>2, <2>1 DEF GoodCall, TypeInv, TypeOK
    <2>3. n \in Call /\ n.click = c.click /\ n.op = "me" /\ n.phase = "sent"
          /\ n.version = appSessionVersion + 1
      <3> DEFINE f == Follow(c, "me")
      <3>1. f \in Call /\ f.click = c.click /\ f.op = "me" /\ f.phase = "sent"
        BY FollowIsCall
      <3>2. n = [f EXCEPT !.cookie = c.setCookie, !.version = appSessionVersion + 1]
        OBVIOUS
      <3> HIDE DEF f, n
      <3> QED BY <2>2, <3>1, <3>2 DEF Call
    <2> HIDE DEF n
    <2>4. Next1(c, n)
      BY <1>5, <2>1, <2>3 DEF Next1, GoodCall
    <2> QED BY <1>2, <2>1, <2>4 DEF Replied
  <1>6. CASE Registered(c)
    <2> DEFINE n == [Follow(c, "login") EXCEPT !.user = c.user]
    <2>1. Arrives(c, "register", {n}, Others(c))
      BY <1>6 DEF Registered
    <2>2. n \in Call /\ n.click = c.click /\ n.op = "login" /\ n.phase = "sent"
      <3> DEFINE f == Follow(c, "login")
      <3>1. f \in Call /\ f.click = c.click /\ f.op = "login" /\ f.phase = "sent"
        BY FollowIsCall
      <3>2. c.user \in User \cup {None}
        BY <1>1 DEF Call
      <3> HIDE DEF f
      <3>3. [f EXCEPT !.user = c.user] \in Call
        BY <3>1, <3>2 DEF Call
      <3>4. n = [f EXCEPT !.user = c.user]
        BY DEF f
      <3> QED BY <3>1, <3>3, <3>4 DEF Call
    <2> HIDE DEF n
    <2>3. Next1(c, n)
      BY <2>2 DEF Next1, GoodCall
    <2> QED BY <1>2, <2>1, <2>3 DEF Replied
  <1>7. CASE \E op \in Op, R \in {Others(c), Hidden(Others(c))} :
                Arrives(c, op, {}, R) \/ Arrives(c, op, {Follow(c, "list")}, R)
    <2>1. PICK op \in Op, R \in {Others(c), Hidden(Others(c))} :
                Arrives(c, op, {}, R) \/ Arrives(c, op, {Follow(c, "list")}, R)
      BY <1>7
    <2>2. Next1(c, Follow(c, "list"))
      BY <1>4
    <2>3. calls' = R \/ calls' = R \cup {Follow(c, "list")}
      BY <1>2, <2>1
    <2> QED BY <1>2, <2>1, <2>2, <2>3 DEF Replied
  <1>8. LoggedOut(c) \/ Validated(c) \/ ValidatedLate(c) \/ ListLoaded(c) \/ Opened(c)
        \/ Deleted(c) \/ AccountDeleted(c) \/ GuestAnswered(c) \/ UserAnswered(c)
        \/ StreamDone(c) =>
            \E op \in Op, R \in {Others(c), Hidden(Others(c))} :
                Arrives(c, op, {}, R) \/ Arrives(c, op, {Follow(c, "list")}, R)
    BY DEF LoggedOut, Validated, ValidatedLate, ListLoaded, Opened, Deleted, AccountDeleted,
           GuestAnswered, UserAnswered, StreamDone, Reloads, Op
  <1>9. CASE NotValidated(c) \/ Failed(c)
    <2>1. Fails(c)
      BY <1>9 DEF NotValidated, Failed
    <2> QED BY <1>3, <2>1 DEF Replied
  <1> QED BY <1>5, <1>6, <1>7, <1>8, <1>9 DEF Deliver

LEMMA RepliedCallSet ==
    ASSUME TypeInv, NEW c \in calls, NEW R \in {Others(c), Hidden(Others(c))},
           Replied(c, R), UNCHANGED clicks
    PROVE  CallSet(calls, clicks)'
  <1>1. CallSet(Others(c), clicks) /\ \A e \in Others(c) : e.click # c.click
    BY DEF TypeInv, CallSet, Others
  <1>2. Others(c) \subseteq Call
    BY DEF TypeInv, TypeOK, Others
  <1>3. CallSet(R, clicks) /\ \A e \in R : e.click # c.click
    BY <1>1, <1>2, HiddenCallSet, HiddenCalls
  <1>4. clicks \in Nat /\ c.click <= clicks
    BY DEF TypeInv, TypeOK, CallSet
  <1>5. \A n : Next1(c, n) => CallSet(R \cup {n}, clicks)
    BY <1>3, <1>4, OneMoreCall DEF Next1
  <1> QED BY <1>3, <1>5 DEF Replied

LEMMA DeliverTypes ==
    ASSUME TypeInv, NEW c \in calls, Deliver(c)
    PROVE  TypeInv'
  <1>1. PageOK /\ c \in GoodCall /\ c \in Call
    BY TypeParts DEF CallSet, GoodCall
  <1>2. BackOK' /\ CallSet(calls, clicks)'
    BY DeliverCalls, RepliedCallSet
  <1> SUFFICES PageOK'
    BY <1>2, TypeParts, PTL
  <1>3. /\ c.user \in User \cup {None} /\ c.conv \in {NoConv} \cup ConvId \cup GuestId
        /\ c.list \subseteq ConvId /\ c.file \in {NoConv} \cup GuestId
    BY <1>1 DEF Call
  <1>4. CASE LoggedIn(c)
    <2>1. appSessionVersion' \in Nat /\ view' \in {"chat", "blank"}
      BY <1>1, <1>4 DEF LoggedIn, PageOK
    <2>2. isGuest' \in BOOLEAN /\ left' \in BOOLEAN /\ isStreaming' \in BOOLEAN
          /\ strayed' \in BOOLEAN /\ replied' \subseteq 1..MaxClicks
      BY <1>1, <1>4 DEF LoggedIn, PageOK
    <2> QED BY <1>1, <1>3, <1>4, <2>1, <2>2 DEF LoggedIn, PageOK
  <1>5. CASE Registered(c) \/ LoggedOut(c)
    BY <1>1, <1>5 DEF Registered, LoggedOut, PageOK, pageVars, histVars
  <1>6. CASE Validated(c) \/ ValidatedLate(c)
    BY <1>1, <1>3, <1>6 DEF Validated, ValidatedLate, PageOK, ShowThread, histVars
  <1>7. CASE NotValidated(c) \/ Failed(c)
    BY <1>1, <1>7 DEF NotValidated, Failed, AfterFailure, PageOK, histVars
  <1>8. CASE ListLoaded(c)
    BY <1>1, <1>3, <1>8 DEF ListLoaded, PageOK, histVars
  <1>9. CASE Opened(c)
    <2>1. c.conv \in ConvId
      BY <1>1, <1>9 DEF Opened, Arrives, GoodCall
    <2> QED BY <1>1, <1>9, <2>1 DEF Opened, PageOK, ShowThread
  <1>10. CASE Deleted(c)
    BY <1>1, <1>10 DEF Deleted, PageOK, ShowThread
  <1>11. CASE AccountDeleted(c)
    BY <1>1, <1>11, LeavingTypes DEF AccountDeleted, Leaves
  <1>12. ASSUME NEW g \in {NoConv} \cup ConvId \cup GuestId, Filed(c, g), c.op = "chat"
         PROVE  /\ DOMAIN guestConversations' \subseteq GuestId
                /\ \A h \in DOMAIN guestConversations' :
                        guestConversations'[h] \in Seq(GuestMessage)
    <2> DEFINE m == [role |-> "assistant", question |-> c.click]
    <2>1. c.click \in 1..MaxClicks
      BY <1>1, <1>12, BoundAssumption DEF GoodCall, Call
    <2>2. m \in GuestMessage
      BY <2>1 DEF GuestMessage
    <2>3. g \in DOMAIN guestConversations => g \in GuestId
      BY <1>1 DEF PageOK
    <2>4. \/ UNCHANGED guestConversations
          \/ g \in GuestId /\ guestConversations' = [guestConversations EXCEPT ![g] = Append(@, m)]
      BY <1>12, <2>3 DEF Filed
    <2>5. CASE UNCHANGED guestConversations
      BY <1>1, <2>5 DEF PageOK
    <2>6. CASE g \in GuestId
               /\ guestConversations' = [guestConversations EXCEPT ![g] = Append(@, m)]
      <3> HIDE DEF m
      <3> QED BY <1>1, <2>2, <2>6, AppendedGuest
    <2> QED BY <2>4, <2>5, <2>6
  <1>13. CASE GuestAnswered(c)
    <2>1. c.op = "chat" /\ Filed(c, c.file)
      BY <1>13 DEF GuestAnswered, Arrives, File
    <2>2. c.click \in 1..MaxClicks
      BY <1>1, <2>1, BoundAssumption DEF GoodCall, Call
    <2> QED BY <1>1, <1>3, <1>12, <1>13, <2>1, <2>2 DEF GuestAnswered, PageOK
  <1>14. ASSUME Appears(c) PROVE thread' \subseteq ConvId
    BY <1>1, <1>14 DEF Appears, PageOK
  <1>15. ASSUME Reloads(c)
         PROVE  c.op = "chat" /\ (activeConversations' = {NoConv}
                                   \/ UNCHANGED activeConversations)
    BY <1>15 DEF Reloads, Arrives
  <1>16. CASE UserAnswered(c)
    <2>1. activeConversations' = {NoConv} \/ UNCHANGED activeConversations
      BY <1>15, <1>16 DEF UserAnswered
    <2>2. currentConversationId' \in {NoConv} \cup ConvId \cup GuestId
      BY <1>1, <1>3, <1>16 DEF UserAnswered, Adopted, PageOK
    <2> QED BY <1>1, <1>14, <1>16, <2>1, <2>2 DEF UserAnswered, PageOK
  <1>17. CASE StreamDone(c)
    <2>1. activeConversations' = {NoConv} \/ UNCHANGED activeConversations
      BY <1>15, <1>17 DEF StreamDone
    <2>2. currentConversationId' \in {NoConv} \cup ConvId \cup GuestId
      BY <1>1, <1>3, <1>17 DEF StreamDone, PageOK
    <2>4. replied' \subseteq 1..MaxClicks
      <3>1. c.op = "chat"
        BY <1>17 DEF StreamDone, Arrives, Reloads
      <3>2. c.click \in 1..MaxClicks
        BY <1>1, <3>1, BoundAssumption DEF GoodCall, Call
      <3> QED BY <1>1, <1>17, <3>2 DEF StreamDone, PageOK
    <2>3. /\ DOMAIN guestConversations' \subseteq GuestId
          /\ \A h \in DOMAIN guestConversations' :
                    guestConversations'[h] \in Seq(GuestMessage)
      <3>1. CASE isGuest
        <4>1. c.op = "chat" /\ Filed(c, currentConversationId)
          BY <1>17, <3>1 DEF StreamDone, Arrives
        <4> QED BY <1>1, <1>12, <4>1 DEF PageOK
      <3>2. CASE ~isGuest
        BY <1>1, <1>17, <3>2 DEF StreamDone, PageOK
      <3> QED BY <3>1, <3>2
    <2> QED BY <1>1, <1>14, <1>17, <2>1, <2>2, <2>3, <2>4 DEF StreamDone, PageOK
  <1> QED BY <1>4, <1>5, <1>6, <1>7, <1>8, <1>9, <1>10, <1>11, <1>13, <1>16, <1>17 DEF Deliver

\* A reply to /config changes the setting the page goes by, and nothing else.
LEMMA ConfiguredAlone ==
    ASSUME Configured
    PROVE  UNCHANGED <<pageVars, appSessionVersion, cookie, serverVars, calls, clicks, histVars>>
  BY DEF Configured, ConfigLoaded, ConfigFailed, Settles

LEMMA ConfiguredTypes ==
    ASSUME TypeInv, Configured
    PROVE  TypeInv'
  <1>1. UNCHANGED <<pageVars, appSessionVersion, cookie, serverVars, calls, clicks, histVars>>
    BY ConfiguredAlone
  <1>2. streamingEnabled' \in BOOLEAN /\ configs' \subseteq Fetch
    BY StreamingAssumption
    DEF Configured, ConfigLoaded, ConfigFailed, Settles, TypeInv, TypeOK
  <1>3. PageOK' /\ BackOK' /\ CallSet(calls, clicks)'
    BY <1>1, <1>2, TypeParts DEF PageOK, BackOK, CallSet, pageVars, serverVars, histVars
  <1> QED BY <1>3, TypeParts, PTL

LEMMA NextTypes == TypeInv /\ [Next]_vars => TypeInv'
  <1> SUFFICES ASSUME TypeInv, [Next]_vars PROVE TypeInv'
    OBVIOUS
  <1>1. CASE Clicks
    BY <1>1, ClickTypes
  <1>2. CASE Network
    BY <1>2, ServeTypes, DeliverTypes DEF Network
  <1>3. CASE UNCHANGED vars
    BY <1>3 DEF vars, pageVars, bootVars, serverVars, histVars, TypeInv, TypeOK, CallSet
  <1> QED BY <1>1, <1>2, <1>3, ConfiguredTypes DEF Next, Idle

LEMMA TypeInvariance == Spec => []TypeInv
  BY InitTypes, NextTypes, PTL DEF Spec

\* The page, the server and the calls between them are well typed: in
\* particular no click has two calls in flight.
THEOREM TypeCorrect == Spec => []TypeOK
  <1>1. TypeInv => TypeOK
    BY DEF TypeInv
  <1> QED BY <1>1, TypeInvariance, PTL

----------------------------------------------------------------------------
(* Validations that are out of date.                                       *)

\* No validation is from a later version of the page than the present one, and
\* after the user has left none is from the present one.
LeftInv ==
    /\ \A c \in calls : c.op = "me" => c.version <= appSessionVersion
    /\ left => \A c \in calls : c.op = "me" => Superseded(c)
    /\ LeftStaysLeft

\* Only a login asks for a validation, from the version of the page it begins.
LEMMA Validations ==
    ASSUME TypeInv, Next, NEW d \in calls', d.op = "me"
    PROVE  \/ \E c \in calls : c.op = "me" /\ c.version = d.version
           \/ d.version = appSessionVersion' /\ ~left'
  <1>1. calls \subseteq Call
    BY DEF TypeInv, TypeOK
  <1>2. ASSUME NEW C \in SUBSET calls, d \in Hidden(C)
        PROVE  \E c \in calls : c.op = "me" /\ c.version = d.version
    BY <1>1, <1>2, HiddenCalls
  <1>3. CASE Clicks
    <2>1. PICK C \in {calls, Hidden(calls)} : calls' = C \/ Sends(C)
      BY <1>3, ClickSends
    <2>2. d \in C
      BY <2>1 DEF Sends, Fresh, ClickOp
    <2> QED BY <1>2, <2>2
  <1>4. ASSUME NEW c \in calls, Serve(c)
        PROVE  \E e \in calls : e.op = "me" /\ e.version = d.version
    BY <1>4, ServeTypes DEF Serves, Answered
  <1>5. ASSUME NEW c \in calls, Deliver(c)
        PROVE  \/ \E e \in calls : e.op = "me" /\ e.version = d.version
               \/ d.version = appSessionVersion' /\ ~left'
    <2>1. PICK R \in {Others(c), Hidden(Others(c))} : Replied(c, R)
      BY <1>5, DeliverCalls
    <2>2. CASE d \in R
      BY <1>2, <2>2 DEF Others
    <2>3. CASE d \notin R
      BY <2>1, <2>3 DEF Replied, Next1, LoggedIn
    <2> QED BY <2>2, <2>3
  <1> QED BY <1>3, <1>4, <1>5, ConfiguredAlone DEF Next, Network, Idle, vars


\* The page's version goes up whenever the user leaves or logs in.
LEMMA Versions ==
    ASSUME TypeInv, Next
    PROVE  UNCHANGED <<left, appSessionVersion>> \/ appSessionVersion' = appSessionVersion + 1
  <1>1. CASE Clicks
    BY <1>1 DEF Clicks, ShowAuth, BackToWelcome, EnterGuestMode, Logout, DeleteAccount,
                SubmitLogin, SubmitRegister, NewChat, Send, Open, Delete, histVars
  <1>2. ASSUME NEW c \in calls, Serve(c)
        PROVE  UNCHANGED <<left, appSessionVersion>>
    BY <1>2, ServeTypes DEF histVars
  <1>3. ASSUME NEW c \in calls, Deliver(c)
        PROVE  UNCHANGED <<left, appSessionVersion>>
               \/ appSessionVersion' = appSessionVersion + 1
    BY <1>3 DEF Deliver, LoggedIn, Registered, LoggedOut, Validated, ValidatedLate,
                NotValidated, ListLoaded, Opened, Deleted, AccountDeleted, GuestAnswered,
                UserAnswered, StreamDone, Failed, histVars
  <1> QED BY <1>1, <1>2, <1>3, ConfiguredAlone DEF Next, Network, Idle, vars, histVars

\* Who has left sees a chat only as a guest, until a login.
LEMMA ChatAfterLeaving ==
    ASSUME TypeInv, LeftInv, Next
    PROVE  LeftStaysLeft'
  <1>1. CASE Clicks
    BY <1>1 DEF LeftInv, LeftStaysLeft, Clicks, ShowAuth, BackToWelcome, EnterGuestMode, Logout,
                DeleteAccount, SubmitLogin, SubmitRegister, NewChat, Send, Open, Delete,
                pageVars, histVars
  <1>2. ASSUME NEW c \in calls, Serve(c)
        PROVE  LeftStaysLeft'
    BY <1>2, ServeTypes DEF LeftInv, LeftStaysLeft, pageVars, histVars
  <1>3. ASSUME NEW c \in calls, Deliver(c)
        PROVE  LeftStaysLeft'
    <2>1. CASE Validated(c)
      <3>1. ~left /\ UNCHANGED left
        BY <2>1 DEF LeftInv, Validated, Arrives
      <3> QED BY <3>1 DEF LeftStaysLeft
    <2>2. CASE ~Validated(c)
      BY <1>3, <2>2 DEF LeftInv, LeftStaysLeft, Deliver, LoggedIn, Registered, LoggedOut,
           ValidatedLate, NotValidated, ListLoaded, Opened, Deleted, AccountDeleted,
           GuestAnswered, UserAnswered, StreamDone, Failed, pageVars, histVars
    <2> QED BY <2>1, <2>2
  <1> QED BY <1>1, <1>2, <1>3, ConfiguredAlone
      DEF Next, Network, Idle, vars, pageVars, histVars, LeftInv, LeftStaysLeft

LEMMA LeftInvariance == Spec => []LeftInv
  <1>1. Init => LeftInv
    <2> SUFFICES ASSUME Init PROVE LeftInv
      OBVIOUS
    <2> DEFINE c == [Blank EXCEPT !.op = "me", !.version = 1, !.cookie = cookie]
    <2>1. c.version = 1
      BY DEF Blank
    <2>2. calls = {c} /\ appSessionVersion = 1 /\ left = FALSE
      BY DEF Init
    <2> HIDE DEF c
    <2> QED BY <2>1, <2>2 DEF LeftInv, LeftStaysLeft
  <1>2. TypeInv /\ TypeInv' /\ LeftInv /\ [Next]_vars => LeftInv'
    <2> SUFFICES ASSUME TypeInv, TypeInv', LeftInv, [Next]_vars PROVE LeftInv'
      OBVIOUS
    <2>1. CASE UNCHANGED vars
      BY <2>1 DEF vars, pageVars, histVars, LeftInv, LeftStaysLeft, Superseded
    <2>2. CASE Next
      <3>1. /\ appSessionVersion \in Nat
            /\ \A c \in calls : c.version \in Nat
        BY DEF TypeInv, TypeOK, Call
      <3>2. ASSUME NEW d \in calls', d.op = "me"
            PROVE  d.version <= appSessionVersion' /\ (left' => d.version # appSessionVersion')
        <4>1. CASE \E c \in calls : c.op = "me" /\ c.version = d.version
          BY <2>2, <3>1, <4>1, Versions DEF LeftInv, Superseded
        <4>2. CASE d.version = appSessionVersion' /\ ~left'
          BY <4>2 DEF TypeInv, TypeOK
        <4> QED BY <2>2, <3>2, <4>1, <4>2, Validations
      <3> QED BY <2>2, <3>2, ChatAfterLeaving DEF LeftInv, Superseded
    <2> QED BY <2>1, <2>2
  <1> QED BY <1>1, <1>2, TypeInvariance, PTL DEF Spec

\* The guard of initializeApp against a stale validation holds: after a logout,
\* a deleted account or going on as a guest, no reply that was under way brings
\* the account's chat back, whatever else the user does before it arrives.
THEOREM LeftForGood == Spec => []LeftStaysLeft
  <1>1. LeftInv => LeftStaysLeft
    BY DEF LeftInv
  <1> QED BY <1>1, LeftInvariance, PTL

----------------------------------------------------------------------------
(* Questions that wait for an answer.                                      *)

LEMMA Ids == NoConv \notin ConvId \cup GuestId /\ ConvId \cap GuestId = {}
  BY BoundAssumption DEF NoConv, ConvId, GuestId

\* The same question, later; its answer's element may have left the page.
Carries(c, d) ==
    /\ d.op = c.op /\ d.click = c.click /\ d.file = c.file /\ d.guest = c.guest
    /\ d.op = "chat" /\ d.shown => c.shown

\* Every question waiting after the step did before.
Carried == \A d \in Chats' : \E c \in Chats : Carries(c, d)

\* Hidden questions are still the same questions.
LEMMA HiddenChats ==
    ASSUME TypeInv, NEW C \in SUBSET calls, NEW d \in Hidden(C)
    PROVE  \E c \in C : Carries(c, d)
  <1>1. PICK c \in C : /\ d.click = c.click /\ d.op = c.op /\ d.guest = c.guest
                       /\ d.file = c.file /\ d.shown = (c.op # "chat")
    BY HiddenCalls DEF TypeInv, TypeOK
  <1>2. d.op = "chat" => d.shown = FALSE
    BY <1>1
  <1> QED BY <1>1, <1>2 DEF Carries

\* Only a question sent adds one; the others take answers' elements out of the
\* page, with all its messages, or leave the questions alone.
LEMMA ClickChats ==
    ASSUME TypeInv, Clicks, ~Send
    PROVE  Carried /\ (Chats' = Chats \/ ShowThread({}))
  <1>1. PICK C \in {calls, Hidden(calls)} : calls' = C \/ Sends(C)
    BY ClickSends
  <1>2. \A d \in calls' : d \in C \/ d.op # "chat"
    BY <1>1 DEF Sends, Fresh
  <1>3. \A c \in calls : Carries(c, c)
    BY DEF Carries
  <1>4. Carried
    BY <1>2, <1>3, HiddenChats DEF Carried, Chats, Carries
  <1>5. ASSUME ~ShowThread({})
        PROVE  Chats' = Chats
    <2>1. \A op, u, k : /\ Plain(op).op = op
                        /\ [Plain(op) EXCEPT !.user = u].op = op
                        /\ [Plain(op) EXCEPT !.conv = k].op = op
      BY DEF Plain, Blank
    <2>2. \E new : (calls' = calls \/ calls' = calls \cup {new}) /\ new.op # "chat"
      <3>1. CASE ShowAuth \/ BackToWelcome
        BY <2>1, <3>1 DEF ShowAuth, BackToWelcome
      <3>2. CASE \E u \in User : SubmitLogin(u) \/ SubmitRegister(u)
        <4>1. PICK u \in User, op \in {"login", "register"} :
                calls' = calls \cup {[Plain(op) EXCEPT !.user = u]}
          BY <3>2 DEF SubmitLogin, SubmitRegister, Asked
        <4> QED BY <2>1, <4>1
      <3>3. CASE Logout \/ DeleteAccount
        BY <2>1, <3>3 DEF Logout, DeleteAccount, Asked
      <3>4. CASE \E k \in ConvId \cup GuestId : Open(k) \/ Delete(k)
        BY <1>5, <2>1, <3>4 DEF Open, OpenGuest, Delete, Asked
      <3> QED BY <1>5, <3>1, <3>2, <3>3, <3>4 DEF Clicks, EnterGuestMode, NewChat
    <2> QED BY <2>2 DEF Chats
  <1> QED BY <1>4, <1>5

\* Serving a question gives a new conversation its id and changes nothing else of it.
LEMMA ServeChats ==
    ASSUME TypeInv, NEW c \in calls, Serve(c), NEW d \in Chats', d \notin Chats
    PROVE  /\ c \in Chats /\ Carries(c, d) /\ d.shown = c.shown
           /\ c.phase = "sent" /\ d.phase = "ok"
           /\ d.conv = c.conv \/ (c.conv = NoConv /\ d.conv \in ConvId)
  <1>1. c.phase = "sent"
    BY DEF Serve, ServeLogin, ServeRegister, ServeLogout, ServeMe, ServeAccount, ServeList,
           ServeOpen, ServeDelete, ServeChat, ServeGuestChat
  <1>2. PICK e : /\ Serves(c, e) /\ Answered(c, e)
                 /\ c.op = "chat" => e.conv = c.conv \/ (c.conv = NoConv /\ e.conv \in ConvId)
    BY ServeTypes
  <1>3. d = e
    BY <1>2 DEF Answered, Chats
  <1> QED BY <1>1, <1>2, <1>3 DEF Serves, Carries, Chats

LEMMA ServeCarries ==
    ASSUME TypeInv, NEW c \in calls, Serve(c)
    PROVE  Carried
  <1>1. \A e : Carries(e, e)
    BY DEF Carries
  <1> QED BY <1>1, ServeChats DEF Carried

\* A reply adds no question; it may hide those under way only when it shows
\* another conversation.
LEMMA DeliverChats ==
    ASSUME TypeInv, NEW c \in calls, Deliver(c)
    PROVE  /\ \A d \in Chats' : \E e \in Chats \ {c} : Carries(e, d)
           /\ \/ Chats' = Chats \ {c}
              \/ Validated(c) \/ Opened(c) \/ (Deleted(c) /\ currentConversationId = c.conv)
  <1>1. PICK R \in {Others(c), Hidden(Others(c))} : Replied(c, R)
    BY DeliverCalls
  <1>2. \A d \in calls' : d \in R \/ d.op # "chat"
    BY <1>1 DEF Replied, Next1
  <1>3. \A d \in R : \E e \in Others(c) : Carries(e, d)
    BY HiddenChats DEF Carries, Others
  <1>4. \A d \in Chats' : \E e \in Chats \ {c} : Carries(e, d)
    BY <1>2, <1>3 DEF Chats, Carries, Others
  <1>5. CASE Validated(c) \/ Opened(c) \/ (Deleted(c) /\ currentConversationId = c.conv)
    BY <1>4, <1>5
  <1>6. CASE ~(Validated(c) \/ Opened(c) \/ (Deleted(c) /\ currentConversationId = c.conv))
    <2>1. \A op : Follow(c, op).op = op
      BY DEF Follow, Blank
    <2>2. \E n : n.op # "chat" /\ (calls' = {} \cup Others(c) \/ calls' = {n} \cup Others(c)
                                   \/ calls' = Others(c))
      <3>1. CASE LoggedIn(c)
        <4>1. [Follow(c, "me") EXCEPT !.cookie = c.setCookie,
                                      !.version = appSessionVersion + 1].op = "me"
          BY DEF Follow, Blank
        <4> QED BY <3>1, <4>1 DEF LoggedIn, Arrives
      <3>2. CASE Registered(c)
        <4>1. [Follow(c, "login") EXCEPT !.user = c.user].op = "login"
          BY DEF Follow, Blank
        <4> QED BY <3>2, <4>1 DEF Registered, Arrives
      <3>3. CASE ~(LoggedIn(c) \/ Registered(c))
        BY <1>6, <2>1, <3>3
        DEF Deliver, LoggedOut, ValidatedLate, NotValidated, ListLoaded, Deleted, AccountDeleted,
            GuestAnswered, UserAnswered, StreamDone, Failed, Fails, Reloads, Arrives
      <3> QED BY <3>1, <3>2, <3>3
    <2>3. Chats' = Chats \ {c}
      BY <2>2 DEF Chats, Others
    <2> QED BY <1>4, <2>3
  <1> QED BY <1>5, <1>6

\* The question a click sends.
LEMMA SendChats ==
    ASSUME TypeInv, Send
    PROVE  \E n : /\ Chats' = Chats \cup {n} /\ n.op = "chat" /\ n.click = clicks'
                  /\ n.phase = "sent" /\ n.shown = TRUE /\ n.guest = isGuest
                  /\ isGuest => n.file = IF currentConversationId' \in DOMAIN guestConversations'
                                         THEN currentConversationId' ELSE NoConv
                  /\ ~isGuest => n.file = NoConv /\ n.conv = currentConversationId
  <1>1. clicks' = clicks + 1
    BY DEF Send, Click
  <1>2. CASE isGuest
    <2> DEFINE f == IF currentConversationId' \in DOMAIN guestConversations'
                    THEN currentConversationId' ELSE NoConv
               n == [Plain("chat") EXCEPT !.guest = TRUE, !.streamed = streamingEnabled,
                                          !.file = f]
    <2>1. calls' = calls \cup {n}
      BY <1>2 DEF Send, AsGuest, Asked
    <2>2. n.op = "chat" /\ n.click = clicks + 1 /\ n.phase = "sent" /\ n.shown = TRUE
          /\ n.guest = TRUE /\ n.file = f
      BY DEF Plain, Blank
    <2> HIDE DEF n
    <2> QED BY <1>1, <1>2, <2>1, <2>2 DEF Chats
  <1>3. CASE ~isGuest
    <2> DEFINE n == [Plain("chat") EXCEPT !.conv = currentConversationId,
                                          !.streamed = streamingEnabled]
    <2>1. calls' = calls \cup {n}
      BY <1>3 DEF Send, AsUser, Asked
    <2>2. n.op = "chat" /\ n.click = clicks + 1 /\ n.phase = "sent" /\ n.shown = TRUE
          /\ n.guest = FALSE /\ n.file = NoConv /\ n.conv = currentConversationId
      BY DEF Plain, Blank
    <2> HIDE DEF n
    <2>3. isGuest = FALSE
      BY <1>3 DEF TypeInv, TypeOK
    <2> QED BY <1>1, <1>3, <2>1, <2>2, <2>3 DEF Chats
  <1> QED BY <1>2, <1>3

----------------------------------------------------------------------------
(* Where answers to guests are filed.                                      *)

Question(q) == [role |-> "user", question |-> q]
Answer(q) == [role |-> "assistant", question |-> q]

\* In the guest conversations G, question q was asked in conversation g.
AsksIn(G, g, q) == \E j \in DOMAIN G[g] : G[g][j] = Question(q)

\* In the messages f, question q has its answer after it.
AnsweredIn(f, q) ==
    \A i \in DOMAIN f : f[i] = Question(q) => \E j \in DOMAIN f : j > i /\ f[j] = Answer(q)

\* The property, question by question.
LEMMA FiledAnswers ==
    ASSUME TypeInv
    PROVE  GuestAnswersFiled <=>
                \A g \in DOMAIN guestConversations : \A q \in replied :
                    AnsweredIn(guestConversations[g], q)
  <1>1. ASSUME NEW g \in DOMAIN guestConversations, NEW i \in DOMAIN guestConversations[g]
        PROVE  \A q : /\ guestConversations[g][i] = Question(q) <=>
                            /\ guestConversations[g][i].role = "user"
                            /\ guestConversations[g][i].question = q
    <2>1. guestConversations[g] \in Seq(GuestMessage)
      BY DEF TypeInv, TypeOK
    <2>2. guestConversations[g][i] \in GuestMessage
      BY <2>1
    <2> QED BY <2>2 DEF GuestMessage, Question
  <1> QED BY <1>1 DEF GuestAnswersFiled, AnsweredIn, Answer

\* The conversation a guest is in is the one of every question whose answer has
\* its place on the page.
ShownHere ==
    \A c \in Chats : c.guest /\ c.shown /\ isGuest /\ c.file # NoConv =>
        currentConversationId = c.file

\* Conversations and questions bear the numbers of clicks that have been, and a
\* question waiting for an answer is in no conversation but the one it remembers.
FiledInv ==
    /\ \A g \in DOMAIN guestConversations : -clicks <= g
    /\ \A g \in DOMAIN guestConversations, n \in Nat :
            n > clicks => ~AsksIn(guestConversations, g, n)
    /\ replied \subseteq 1..clicks
    /\ \A c \in Chats : c.file # NoConv => -clicks <= c.file
    /\ \A c \in Chats, g \in DOMAIN guestConversations :
            AsksIn(guestConversations, g, c.click) => c.file = g
    /\ \A g \in DOMAIN guestConversations : \A q \in replied :
            AnsweredIn(guestConversations[g], q)

\* Adding a message keeps all others where they are.
LEMMA MessageAdded ==
    ASSUME TypeInv, NEW g \in DOMAIN guestConversations, NEW m,
           guestConversations' = [guestConversations EXCEPT ![g] = Append(@, m)]
    PROVE  /\ DOMAIN guestConversations' = DOMAIN guestConversations
           /\ \A h \in DOMAIN guestConversations : \A q :
                AsksIn(guestConversations', h, q) =>
                    AsksIn(guestConversations, h, q) \/ (h = g /\ m = Question(q))
           /\ \A h \in DOMAIN guestConversations : \A q :
                AnsweredIn(guestConversations[h], q) /\ m # Question(q) =>
                    AnsweredIn(guestConversations'[h], q)
           /\ \A q : m = Answer(q) => AnsweredIn(guestConversations'[g], q)
  <1> DEFINE G == guestConversations
             H == guestConversations'
  <1>1. /\ DOMAIN H = DOMAIN G
        /\ \A h \in DOMAIN G : h # g => H[h] = G[h]
        /\ H[g] = Append(G[g], m)
    OBVIOUS
  <1>2. G[g] \in Seq(GuestMessage)
    BY DEF TypeInv, TypeOK
  <1>3. /\ Len(G[g]) \in Nat /\ DOMAIN G[g] = 1..Len(G[g])
        /\ DOMAIN H[g] = 1..(Len(G[g]) + 1)
        /\ \A i \in 1..Len(G[g]) : H[g][i] = G[g][i]
        /\ H[g][Len(G[g]) + 1] = m
    BY <1>1, <1>2
  <1> HIDE DEF G, H
  <1>4. ASSUME NEW h \in DOMAIN G, NEW q, AsksIn(H, h, q)
        PROVE  AsksIn(G, h, q) \/ (h = g /\ m = Question(q))
    <2>1. CASE h = g
      BY <1>3, <1>4, <2>1 DEF AsksIn
    <2>2. CASE h # g
      BY <1>1, <1>4, <2>2 DEF AsksIn
    <2> QED BY <2>1, <2>2
  <1>5. ASSUME NEW h \in DOMAIN G, NEW q, AnsweredIn(G[h], q), m # Question(q)
        PROVE  AnsweredIn(H[h], q)
    <2>1. CASE h = g
      BY <1>3, <1>5, <2>1 DEF AnsweredIn
    <2>2. CASE h # g
      BY <1>1, <1>5, <2>2
    <2> QED BY <2>1, <2>2
  <1>6. ASSUME NEW q, m = Answer(q)
        PROVE  AnsweredIn(H[g], q)
    <2> SUFFICES ASSUME NEW i \in DOMAIN H[g], H[g][i] = Question(q)
        PROVE  \E j \in DOMAIN H[g] : j > i /\ H[g][j] = Answer(q)
      BY DEF AnsweredIn
    <2>1. Question(q) # Answer(q)
      BY DEF Question, Answer
    <2>2. i \in 1..Len(G[g])
      BY <1>3, <1>6, <2>1
    <2>3. Len(G[g]) + 1 \in DOMAIN H[g] /\ Len(G[g]) + 1 > i
      BY <1>3, <2>2
    <2> QED BY <1>3, <1>6, <2>3
  <1> QED BY <1>1, <1>4, <1>5, <1>6 DEF G, H

\* A conversation begun with a question holds that question and nothing else.
LEMMA ConversationBegun ==
    ASSUME NEW g, g \notin DOMAIN guestConversations, NEW q,
           guestConversations' = [h \in DOMAIN guestConversations \cup {g} |->
                IF h = g THEN <<Question(q)>> ELSE guestConversations[h]]
    PROVE  /\ DOMAIN guestConversations' = DOMAIN guestConversations \cup {g}
           /\ \A h \in DOMAIN guestConversations :
                guestConversations'[h] = guestConversations[h]
           /\ \A r : AsksIn(guestConversations', g, r) => r = q
           /\ \A r : r # q => AnsweredIn(guestConversations'[g], r)
  <1> DEFINE G == guestConversations
             H == guestConversations'
  <1>1. /\ DOMAIN H = DOMAIN G \cup {g} /\ H[g] = <<Question(q)>>
        /\ \A h \in DOMAIN G : H[h] = G[h]
    OBVIOUS
  <1> HIDE DEF G, H
  <1>2. DOMAIN H[g] = {1} /\ H[g][1] = Question(q)
    BY <1>1
  <1>3. \A r : Question(r) = Question(q) => r = q
    BY DEF Question
  <1>4. \A r : AsksIn(H, g, r) => r = q
    BY <1>2, <1>3 DEF AsksIn
  <1>5. \A r : r # q => AnsweredIn(H[g], r)
    BY <1>2, <1>3 DEF AnsweredIn
  <1> QED BY <1>1, <1>4, <1>5 DEF G, H

\* Steps that leave guest conversations alone, or drop them all, keep the filing.
LEMMA FiledKept ==
    ASSUME TypeInv, FiledInv, Carried, clicks' \in {clicks, clicks + 1},
           guestConversations' \in {guestConversations, NoGuestConversations},
           UNCHANGED replied
    PROVE  FiledInv'
  <1>1. clicks \in Nat /\ (\A c \in Chats : c.file \in Int)
        /\ (\A g \in DOMAIN guestConversations : g \in Int)
    BY DEF TypeInv, TypeOK, Chats, Call, NoConv, GuestId
  <1>2. DOMAIN NoGuestConversations = {}
    BY DEF NoGuestConversations
  <1>3. \A g \in DOMAIN guestConversations' :
            g \in DOMAIN guestConversations /\ guestConversations' = guestConversations
    BY <1>2
  <1>4. \A g \in DOMAIN guestConversations' : -clicks' <= g
    BY <1>1, <1>3 DEF FiledInv
  <1>5. \A d \in Chats' : d.file # NoConv => -clicks' <= d.file
    BY <1>1 DEF FiledInv, Carried, Carries
  <1>6. \A d \in Chats', g \in DOMAIN guestConversations' :
            AsksIn(guestConversations', g, d.click) => d.file = g
    BY <1>3 DEF FiledInv, Carried, Carries
  <1>7. \A g \in DOMAIN guestConversations', n \in Nat :
            n > clicks' => ~AsksIn(guestConversations', g, n)
    BY <1>1, <1>3 DEF FiledInv
  <1>8. replied' \subseteq 1..clicks'
    BY <1>1 DEF FiledInv
  <1>9. \A g \in DOMAIN guestConversations' : \A q \in replied' :
            AnsweredIn(guestConversations'[g], q)
    BY <1>3 DEF FiledInv
  <1> QED BY <1>1, <1>4, <1>5, <1>6, <1>7, <1>8, <1>9 DEF FiledInv

\* An answer that is filed; its question counts as answered only if it is filed
\* in the conversation the question remembers.
LEMMA FiledReply ==
    ASSUME TypeInv, FiledInv, Carried, UNCHANGED clicks, NEW c \in Chats, NEW g,
           Filed(c, g),
           \/ UNCHANGED replied
           \/ replied' = replied \cup {c.click} /\ c.file \in {NoConv, g}
    PROVE  FiledInv'
  <1> DEFINE m == Answer(c.click)
  <1>1. clicks \in Nat /\ c.click \in 1..clicks
        /\ (\A h \in DOMAIN guestConversations : h \in Int /\ h # NoConv)
    <2>1. c \in GoodCall /\ c.op = "chat" /\ c.click <= clicks
      BY DEF TypeInv, CallSet, Chats
    <2>2. clicks \in Nat
      BY DEF TypeInv, TypeOK
    <2>3. c.click \in 1..clicks
      BY <2>1, <2>2, BoundAssumption DEF GoodCall, Call
    <2> QED BY <2>2, <2>3, Ids DEF TypeInv, TypeOK, GuestId
  <1>2. replied' \subseteq 1..clicks'
    BY <1>1 DEF FiledInv
  <1>3. ASSUME NEW h \in DOMAIN guestConversations, h # g, NEW q \in replied', q \notin replied
        PROVE  ~AsksIn(guestConversations, h, q)
    BY <1>1, <1>3 DEF FiledInv
  <1>4. ASSUME NEW h \in DOMAIN guestConversations, NEW q, ~AsksIn(guestConversations, h, q)
        PROVE  AnsweredIn(guestConversations[h], q)
    BY <1>4 DEF AsksIn, AnsweredIn
  <1>5. CASE g \notin DOMAIN guestConversations
    <2>1. UNCHANGED guestConversations
      BY <1>5 DEF Filed
    <2>2. \A h \in DOMAIN guestConversations : \A q \in replied' :
            AnsweredIn(guestConversations[h], q)
      BY <1>3, <1>4, <1>5 DEF FiledInv
    <2> QED BY <1>2, <2>1, <2>2 DEF FiledInv, Carried, Carries
  <1>6. CASE g \in DOMAIN guestConversations
    <2>1. guestConversations' = [guestConversations EXCEPT ![g] = Append(@, m)]
      BY <1>6 DEF Filed, Answer
    <2>2. \A q : m # Question(q)
      BY DEF Question, Answer
    <2> HIDE DEF m
    <2>3. /\ DOMAIN guestConversations' = DOMAIN guestConversations
          /\ \A h \in DOMAIN guestConversations : \A q :
                AsksIn(guestConversations', h, q) => AsksIn(guestConversations, h, q)
          /\ \A h \in DOMAIN guestConversations : \A q :
                AnsweredIn(guestConversations[h], q) => AnsweredIn(guestConversations'[h], q)
          /\ \A q : m = Answer(q) => AnsweredIn(guestConversations'[g], q)
      BY <1>6, <2>1, <2>2, MessageAdded
    <2>4. AnsweredIn(guestConversations'[g], c.click)
      BY <2>3 DEF m
    <2>5. ASSUME NEW h \in DOMAIN guestConversations, NEW q \in replied'
          PROVE  AnsweredIn(guestConversations'[h], q)
      <3>1. CASE q \in replied
        BY <2>3, <3>1 DEF FiledInv
      <3>2. CASE q \notin replied /\ h = g
        BY <2>4, <2>5, <3>2
      <3>3. CASE q \notin replied /\ h # g
        BY <1>3, <1>4, <2>3, <3>3
      <3> QED BY <3>1, <3>2, <3>3
    <2>6. \A d \in Chats', h \in DOMAIN guestConversations :
            AsksIn(guestConversations', h, d.click) => d.file = h
      BY <2>3 DEF FiledInv, Carried, Carries
    <2>7. \A d \in Chats' : d.file # NoConv => -clicks' <= d.file
      BY DEF FiledInv, Carried, Carries
    <2>8. \A h \in DOMAIN guestConversations', n \in Nat :
            n > clicks' => ~AsksIn(guestConversations', h, n)
      BY <2>3 DEF FiledInv
    <2> QED BY <1>1, <1>2, <2>3, <2>5, <2>6, <2>7, <2>8 DEF FiledInv
  <1> QED BY <1>5, <1>6

\* A question of a guest, and where it is filed.
LEMMA GuestAsks ==
    ASSUME TypeInv, FiledInv, Send, isGuest
    PROVE  /\ \A h \in DOMAIN guestConversations' : -clicks' <= h
           /\ \A h \in DOMAIN guestConversations' : \A r :
                AsksIn(guestConversations', h, r) =>
                    \/ h \in DOMAIN guestConversations /\ AsksIn(guestConversations, h, r)
                    \/ h = currentConversationId' /\ r = clicks'
           /\ \A h \in DOMAIN guestConversations' : \A r \in replied :
                AnsweredIn(guestConversations'[h], r)
  <1> DEFINE q == clicks'
             m == Question(q)
  <1>1. /\ clicks \in Nat /\ q = clicks + 1 /\ q \in 1..MaxClicks /\ -q \in GuestId
        /\ \A r \in replied : r # q
    BY BoundAssumption DEF Send, Click, TypeInv, TypeOK, GuestId, FiledInv
  <1>2. /\ DOMAIN guestConversations \subseteq GuestId
        /\ \A h \in DOMAIN guestConversations : h # -q /\ h \in Int /\ -q <= h
    BY <1>1 DEF TypeInv, TypeOK, FiledInv, GuestId
  <1>3. AsGuest(q)
    BY DEF Send
  <1>4. \A r : m = Question(r) => r = q
    BY DEF Question
  <1>5. CASE currentConversationId = NoConv
    <2>1. /\ currentConversationId' = -q
          /\ guestConversations' = [h \in DOMAIN guestConversations \cup {-q} |->
                IF h = -q THEN <<Question(q)>> ELSE guestConversations[h]]
      BY <1>3, <1>5 DEF AsGuest, Question
    <2> HIDE DEF q, m
    <2>2. /\ DOMAIN guestConversations' = DOMAIN guestConversations \cup {-q}
          /\ \A h \in DOMAIN guestConversations :
                guestConversations'[h] = guestConversations[h]
          /\ \A r : AsksIn(guestConversations', -q, r) => r = q
          /\ \A r : r # q => AnsweredIn(guestConversations'[-q], r)
      BY <1>2, <2>1, ConversationBegun
    <2>3. -q <= -q
      BY <1>1
    <2>4. \A h \in DOMAIN guestConversations : \A r :
            AsksIn(guestConversations', h, r) => AsksIn(guestConversations, h, r)
      BY <2>2 DEF AsksIn
    <2>5. \A h \in DOMAIN guestConversations' : \A r \in replied :
            AnsweredIn(guestConversations'[h], r)
      BY <1>1, <2>2 DEF FiledInv
    <2> QED BY <1>2, <2>1, <2>2, <2>3, <2>4, <2>5 DEF q
  <1>6. CASE currentConversationId # NoConv /\ currentConversationId \in DOMAIN guestConversations
    <2>1. /\ currentConversationId' = currentConversationId
          /\ guestConversations' =
                [guestConversations EXCEPT ![currentConversationId] = Append(@, m)]
      BY <1>3, <1>6 DEF AsGuest, Question
    <2> HIDE DEF q, m
    <2>2. /\ DOMAIN guestConversations' = DOMAIN guestConversations
          /\ \A h \in DOMAIN guestConversations : \A r :
                AsksIn(guestConversations', h, r) =>
                    \/ AsksIn(guestConversations, h, r)
                    \/ h = currentConversationId /\ m = Question(r)
          /\ \A h \in DOMAIN guestConversations : \A r :
                AnsweredIn(guestConversations[h], r) /\ m # Question(r) =>
                    AnsweredIn(guestConversations'[h], r)
      BY <1>6, <2>1, MessageAdded
    <2>3. \A h \in DOMAIN guestConversations' : \A r \in replied :
            AnsweredIn(guestConversations'[h], r)
      BY <1>1, <1>4, <2>2 DEF FiledInv
    <2> QED BY <1>2, <1>4, <2>1, <2>2, <2>3 DEF q
  <1>7. CASE currentConversationId # NoConv /\ currentConversationId \notin DOMAIN guestConversations
    <2>1. UNCHANGED <<currentConversationId, guestConversations>>
      BY <1>3, <1>7 DEF AsGuest
    <2> QED BY <1>2, <2>1 DEF FiledInv
  <1> QED BY <1>5, <1>6, <1>7

LEMMA FiledSend ==
    ASSUME TypeInv, FiledInv, Send
    PROVE  FiledInv'
  <1>1. /\ clicks \in Nat /\ clicks' = clicks + 1
        /\ \A c \in Chats : c.file \in Int /\ c.click \in Int /\ c.click <= clicks
    BY DEF TypeInv, TypeOK, CallSet, Chats, Call, NoConv, GuestId, Send, Click
  <1>2. PICK n : /\ Chats' = Chats \cup {n} /\ n.op = "chat" /\ n.click = clicks'
                 /\ isGuest => n.file = IF currentConversationId' \in DOMAIN guestConversations'
                                        THEN currentConversationId' ELSE NoConv
                 /\ ~isGuest => n.file = NoConv
    BY SendChats
  <1>3. UNCHANGED replied /\ replied' \subseteq 1..clicks'
    BY <1>1 DEF Send, FiledInv
  <1>4. CASE isGuest
    <2>1. \A g \in DOMAIN guestConversations' : -clicks' <= g
      BY <1>4, GuestAsks
    <2>2. \A c \in Chats' : c.file # NoConv => -clicks' <= c.file
      BY <1>1, <1>2, <1>4, <2>1 DEF FiledInv
    <2>3. \A c \in Chats', g \in DOMAIN guestConversations' :
            AsksIn(guestConversations', g, c.click) => c.file = g
      <3> SUFFICES ASSUME NEW c \in Chats', NEW g \in DOMAIN guestConversations',
                          AsksIn(guestConversations', g, c.click)
          PROVE  c.file = g
        OBVIOUS
      <3>1. CASE c = n
        <4>1. clicks + 1 \in Nat /\ clicks + 1 > clicks
          BY <1>1
        <4>2. g = currentConversationId'
          BY <1>1, <1>2, <1>4, <3>1, <4>1, GuestAsks DEF FiledInv
        <4> QED BY <1>2, <1>4, <3>1, <4>2
      <3>2. CASE c \in Chats
        <4>1. c.click # clicks'
          BY <1>1, <3>2
        <4> QED BY <1>4, <3>2, <4>1, GuestAsks DEF FiledInv
      <3> QED BY <1>2, <3>1, <3>2
    <2>4. \A g \in DOMAIN guestConversations', k \in Nat :
            k > clicks' => ~AsksIn(guestConversations', g, k)
      <3> SUFFICES ASSUME NEW g \in DOMAIN guestConversations', NEW k \in Nat, k > clicks'
          PROVE  ~AsksIn(guestConversations', g, k)
        OBVIOUS
      <3>1. k > clicks /\ k # clicks'
        BY <1>1
      <3> QED BY <1>4, <3>1, GuestAsks DEF FiledInv
    <2>5. \A g \in DOMAIN guestConversations' : \A q \in replied' :
            AnsweredIn(guestConversations'[g], q)
      BY <1>3, <1>4, GuestAsks
    <2> QED BY <1>1, <1>3, <2>1, <2>2, <2>3, <2>4, <2>5 DEF FiledInv
  <1>5. CASE ~isGuest
    <2>1. UNCHANGED guestConversations
      BY <1>5 DEF Send, AsUser
    <2>2. \A g \in DOMAIN guestConversations : -clicks' <= g
      <3>1. \A g \in DOMAIN guestConversations : g \in Int
        BY DEF TypeInv, TypeOK, GuestId
      <3> QED BY <1>1, <3>1 DEF FiledInv
    <2>3. \A c \in Chats' : c.file # NoConv => -clicks' <= c.file
      BY <1>1, <1>2, <1>5 DEF FiledInv
    <2>4. \A g \in DOMAIN guestConversations, k \in Nat :
            k > clicks => ~AsksIn(guestConversations, g, k)
      BY DEF FiledInv
    <2>5. \A g \in DOMAIN guestConversations : ~AsksIn(guestConversations, g, n.click)
      BY <1>1, <1>2, <2>4
    <2> QED BY <1>1, <1>2, <1>3, <2>1, <2>2, <2>3, <2>4, <2>5 DEF FiledInv
  <1> QED BY <1>4, <1>5

\* Steps that do not move a guest to another conversation.
LEMMA ShownKept ==
    ASSUME ShownHere, Carried, ~isGuest' \/ UNCHANGED <<isGuest, currentConversationId>>
    PROVE  ShownHere'
  BY DEF ShownHere, Carried, Carries, Chats

\* Answers whose elements are not in the page any more are not concerned.
LEMMA ShownHidden ==
    ASSUME TypeInv, NEW C \in SUBSET calls, \A d \in calls' : d.op = "chat" => d \in Hidden(C)
    PROVE  ShownHere'
  <1>1. ASSUME NEW d \in Chats'
        PROVE  d.shown = FALSE
    <2>1. d \in Hidden(C) /\ d.op = "chat"
      BY DEF Chats
    <2>2. PICK c \in C : d.op = c.op /\ d.shown = (c.op # "chat")
      BY <2>1, HiddenCalls DEF TypeInv, TypeOK
    <2> QED BY <2>1, <2>2
  <1> QED BY <1>1 DEF ShownHere

LEMMA ShownClick ==
    ASSUME TypeInv, ShownHere, Clicks
    PROVE  ShownHere'
  <1>1. CASE Send
    <2>1. PICK n : /\ Chats' = Chats \cup {n} /\ n.guest = isGuest
                   /\ isGuest => n.file \in {NoConv, currentConversationId'}
      BY <1>1, SendChats
    <2>2. isGuest => currentConversationId = NoConv \/ UNCHANGED currentConversationId
      BY <1>1 DEF Send, AsGuest
    <2>3. UNCHANGED isGuest
      BY <1>1 DEF Send
    <2> QED BY <2>1, <2>2, <2>3 DEF ShownHere
  <1>2. CASE NewChat \/ EnterGuestMode \/ \E k \in ConvId \cup GuestId : OpenGuest(k)
    <2>1. Plain("logout").op # "chat"
      BY DEF Plain, Blank
    <2>2. \A d \in calls' : d.op = "chat" => d \in Hidden(calls)
      BY <1>2, <2>1 DEF NewChat, EnterGuestMode, OpenGuest
    <2> QED BY <2>2, ShownHidden
  <1>3. CASE ~Send /\ ~(NewChat \/ EnterGuestMode \/ \E k \in ConvId \cup GuestId : OpenGuest(k))
    <2>1. ~isGuest' \/ UNCHANGED <<isGuest, currentConversationId>>
      BY <1>3 DEF Clicks, ShowAuth, BackToWelcome, Logout, DeleteAccount,
                  SubmitLogin, SubmitRegister, Open, Delete, pageVars
    <2> QED BY <1>3, <2>1, ClickChats, ShownKept
  <1> QED BY <1>1, <1>2, <1>3

LEMMA ShownDeliver ==
    ASSUME TypeInv, ShownHere, NEW c \in calls, Deliver(c)
    PROVE  ShownHere'
  <1>1. Carried
    BY DeliverChats DEF Carried
  <1>2. CASE Opened(c) \/ (Deleted(c) /\ currentConversationId = c.conv)
    <2>1. calls' = {} \cup Hidden(Others(c))
      BY <1>2 DEF Opened, Deleted, Arrives
    <2> QED BY <2>1, ShownHidden DEF Others
  <1>3. CASE UserAnswered(c)
    <2>1. UNCHANGED isGuest /\ currentConversationId' = Adopted(c)
      BY <1>3 DEF UserAnswered
    <2>2. currentConversationId = NoConv \/ UNCHANGED currentConversationId
      BY <2>1 DEF Adopted
    <2> QED BY <1>1, <2>1, <2>2 DEF ShownHere, Carried, Carries, Chats
  <1>4. CASE ~Opened(c) /\ ~(Deleted(c) /\ currentConversationId = c.conv) /\ ~UserAnswered(c)
    <2>1. ~isGuest' \/ UNCHANGED <<isGuest, currentConversationId>>
      BY <1>4
      DEF Deliver, LoggedIn, Registered, LoggedOut, Validated, ValidatedLate, NotValidated,
          ListLoaded, Deleted, AccountDeleted, GuestAnswered, StreamDone, Failed, pageVars
    <2> QED BY <1>1, <2>1, ShownKept
  <1> QED BY <1>2, <1>3, <1>4

LEMMA ShownStep ==
    ASSUME TypeInv, ShownHere, Next
    PROVE  ShownHere'
  <1>1. ASSUME NEW c \in calls, Serve(c)
        PROVE  ShownHere'
    <2>1. UNCHANGED <<isGuest, currentConversationId>> /\ Carried
      BY <1>1, ServeTypes, ServeCarries DEF pageVars
    <2> QED BY <2>1, ShownKept
  <1>2. CASE Configured \/ Idle
    <2>1. UNCHANGED <<isGuest, currentConversationId, calls>>
      BY <1>2, ConfiguredAlone DEF Idle, vars, pageVars
    <2> QED BY <2>1 DEF ShownHere, Chats
  <1> QED BY <1>1, <1>2, ShownClick, ShownDeliver DEF Next, Network

LEMMA FiledStep ==
    ASSUME TypeInv, FiledInv, ShownHere, Next
    PROVE  FiledInv'
  <1>1. CASE Send
    BY <1>1, FiledSend
  <1>2. CASE Clicks /\ ~Send
    <2>1. Carried /\ clicks' = clicks + 1
      BY <1>2, ClickChats, ClickSends DEF Click
    <2>2. /\ guestConversations' \in {guestConversations, NoGuestConversations}
          /\ UNCHANGED replied
      BY <1>2 DEF Clicks, ShowAuth, BackToWelcome, EnterGuestMode, Logout, DeleteAccount,
                  SubmitLogin, SubmitRegister, NewChat, Open, Delete, pageVars, histVars
    <2> QED BY <2>1, <2>2, FiledKept
  <1>3. ASSUME NEW c \in calls, Serve(c)
        PROVE  FiledInv'
    <2>1. UNCHANGED <<guestConversations, clicks, replied>> /\ Carried
      BY <1>3, ServeTypes, ServeCarries DEF pageVars, histVars
    <2> QED BY <2>1, FiledKept
  <1>4. ASSUME NEW c \in calls, Deliver(c)
        PROVE  FiledInv'
    <2>1. Carried /\ UNCHANGED clicks
      BY <1>4, DeliverChats, DeliverCalls DEF Carried
    <2>2. CASE GuestAnswered(c)
      <3>1. c \in Chats /\ Filed(c, c.file) /\ replied' = replied \cup {c.click}
        BY <2>2 DEF GuestAnswered, Arrives, File, Chats
      <3> QED BY <2>1, <3>1, FiledReply
    <2>3. CASE StreamDone(c) /\ isGuest
      <3>1. /\ c \in Chats /\ Filed(c, currentConversationId)
            /\ replied' = IF c.guest /\ c.shown THEN replied \cup {c.click} ELSE replied
        BY <2>3 DEF StreamDone, Arrives, Chats
      <3>2. c.guest /\ c.shown => c.file \in {NoConv, currentConversationId}
        BY <2>3, <3>1 DEF ShownHere
      <3> QED BY <2>1, <3>1, <3>2, FiledReply
    <2>4. CASE ~GuestAnswered(c) /\ ~(StreamDone(c) /\ isGuest)
      <3>1. /\ guestConversations' \in {guestConversations, NoGuestConversations}
            /\ UNCHANGED replied
        BY <1>4, <2>4
        DEF Deliver, LoggedIn, Registered, LoggedOut, Validated, ValidatedLate, NotValidated,
            ListLoaded, Opened, Deleted, AccountDeleted, UserAnswered, StreamDone, Failed,
            pageVars, histVars
      <3> QED BY <2>1, <3>1, FiledKept
    <2> QED BY <2>2, <2>3, <2>4
  <1>5. CASE Configured \/ Idle
    <2>1. UNCHANGED <<guestConversations, clicks, calls, replied>>
      BY <1>5, ConfiguredAlone DEF Idle, vars, pageVars, histVars
    <2> QED BY <2>1, FiledKept DEF Carried, Carries, Chats
  <1> QED BY <1>1, <1>2, <1>3, <1>4, <1>5 DEF Next, Network

LEMMA FilingInvariance == Spec => [](FiledInv /\ ShownHere)
  <1>1. Init => FiledInv /\ ShownHere
    <2> SUFFICES ASSUME Init PROVE FiledInv /\ ShownHere
      OBVIOUS
    <2> DEFINE c == [Blank EXCEPT !.op = "me", !.version = 1, !.cookie = cookie]
    <2>1. c.op = "me"
      BY DEF Blank
    <2>2. calls = {c}
      BY DEF Init
    <2> HIDE DEF c
    <2>3. Chats = {}
      BY <2>1, <2>2 DEF Chats
    <2>4. DOMAIN guestConversations = {} /\ replied = {}
      BY DEF Init, NoGuestConversations
    <2> QED BY <2>3, <2>4 DEF FiledInv, ShownHere
  <1>2. TypeInv /\ FiledInv /\ ShownHere /\ [Next]_vars => FiledInv' /\ ShownHere'
    <2> SUFFICES ASSUME TypeInv, FiledInv, ShownHere, [Next]_vars
        PROVE  FiledInv' /\ ShownHere'
      OBVIOUS
    <2>1. CASE UNCHANGED vars
      BY <2>1 DEF vars, pageVars, histVars, FiledInv, ShownHere, Chats
    <2>2. CASE Next
      BY <2>2, FiledStep, ShownStep
    <2> QED BY <2>1, <2>2
  <1> QED BY <1>1, <1>2, TypeInvariance, PTL DEF Spec

\* Once its answer has come, a guest's question has the answer after it in the
\* same conversation: when it comes whole, because the handler remembers the
\* conversation it was sent from; when it is streamed and still shown, because
\* whatever moves the guest to another conversation also empties the page.
THEOREM AnswersFollowQuestions == Spec => []GuestAnswersFiled
  <1>1. TypeInv /\ FiledInv => GuestAnswersFiled
    BY FiledAnswers DEF FiledInv
  <1> QED BY <1>1, FilingInvariance, TypeInvariance, PTL

----------------------------------------------------------------------------
(* The messages on the page.                                               *)

Settled == view = "chat" /\ ~isGuest /\ ~Validating /\ ~strayed

\* A question that was asked in the conversation on the page, or in none when
\* none had begun, and whose answer still has its place there.
AskedHere(c) ==
    /\ c.shown /\ ~c.guest
    /\ c.phase = "sent" => c.conv = currentConversationId
    /\ c.phase = "ok" => c.conv = currentConversationId \/ currentConversationId = NoConv

ThreadInv ==
    Settled =>
        /\ thread \subseteq {currentConversationId}
        /\ \A c, d \in Chats : c = d
        /\ \A c \in Chats : AskedHere(c)

\* Every validation under way still is.
StillValidating ==
    \A c \in calls : c.op = "me" /\ ~Superseded(c) =>
        \E d \in calls' : d.op = "me" /\ d.version = c.version

\* A step that changes none of this does not settle the page.
LEMMA SettledBefore ==
    ASSUME UNCHANGED <<view, isGuest, appSessionVersion>>, strayed => strayed',
           StillValidating
    PROVE  Settled' => Settled
  BY DEF Settled, StillValidating, Validating, Superseded

\* A page filled anew while no question waits.
LEMMA ThreadFilled ==
    ASSUME Carried, thread' \subseteq {currentConversationId'}, strayed' = (Chats # {})
    PROVE  ThreadInv'
  <1> SUFFICES ASSUME Settled'
      PROVE  /\ thread' \subseteq {currentConversationId'}
             /\ \A c, d \in Chats' : c = d
             /\ \A c \in Chats' : AskedHere(c)'
    BY DEF ThreadInv
  <1>1. Chats = {}
    BY DEF Settled
  <1>2. Chats' = {}
    BY <1>1 DEF Carried
  <1> QED BY <1>2

\* Steps that do not touch what is shown keep it current.
LEMMA ThreadKept ==
    ASSUME ThreadInv, Settled' => Settled, UNCHANGED <<thread, currentConversationId>>,
           Chats' \subseteq Chats
    PROVE  ThreadInv'
  <1> SUFFICES ASSUME Settled'
      PROVE  /\ thread' \subseteq {currentConversationId'}
             /\ \A c, d \in Chats' : c = d
             /\ \A c \in Chats' : AskedHere(c)'
    BY DEF ThreadInv
  <1> QED BY DEF ThreadInv, AskedHere

\* Nothing is claimed of a page that is not settled.
LEMMA ThreadUnseen ==
    ASSUME ~Settled'
    PROVE  ThreadInv'
  BY DEF ThreadInv

LEMMA ThreadClick ==
    ASSUME TypeInv, ThreadInv, Clicks, ~Send
    PROVE  ThreadInv'
  <1>1. Carried /\ (Chats' = Chats \/ ShowThread({}))
    BY ClickChats
  <1>2. CASE ShowAuth \/ BackToWelcome \/ EnterGuestMode \/ Logout
    BY <1>2, ThreadUnseen DEF ShowAuth, BackToWelcome, EnterGuestMode, Logout, Settled
  <1>3. CASE ShowThread({})
    BY <1>1, <1>3, ThreadFilled DEF ShowThread
  <1>4. CASE Chats' = Chats
    <2>1. ASSUME UNCHANGED <<view, isGuest, appSessionVersion, thread, currentConversationId,
                             strayed>>,
                 calls \subseteq calls'
          PROVE  ThreadInv'
      <3>1. Settled' => Settled
        BY <2>1, SettledBefore DEF StillValidating
      <3> QED BY <1>4, <2>1, <3>1, ThreadKept
    <2>2. CASE DeleteAccount \/ \E u \in User : SubmitLogin(u) \/ SubmitRegister(u)
      BY <2>1, <2>2 DEF DeleteAccount, SubmitLogin, SubmitRegister, Asked, pageVars, histVars
    <2>3. ASSUME NEW k \in ConvId \cup GuestId, Open(k) \/ Delete(k)
          PROVE  ThreadInv'
      <3>1. CASE Open(k) /\ isGuest
        BY <3>1, ThreadUnseen DEF Open, Settled
      <3>2. CASE Open(k) /\ ~isGuest
        <4>1. UNCHANGED <<view, isGuest, appSessionVersion, thread, currentConversationId,
                          strayed>> /\ calls \subseteq calls'
          BY <3>2 DEF Open, Asked
        <4> QED BY <2>1, <4>1
      <3>3. CASE Delete(k)
        BY <2>1, <3>3 DEF Delete, Asked, pageVars, histVars
      <3> QED BY <2>3, <3>1, <3>2, <3>3
    <2>4. CASE NewChat
      BY <1>3, <2>4 DEF NewChat
    <2> QED BY <1>2, <2>2, <2>3, <2>4 DEF Clicks
  <1> QED BY <1>1, <1>3, <1>4

LEMMA ThreadSend ==
    ASSUME TypeInv, ThreadInv, Send
    PROVE  ThreadInv'
  <1> SUFFICES ASSUME Settled'
      PROVE  /\ thread' \subseteq {currentConversationId'}
             /\ \A c, d \in Chats' : c = d
             /\ \A c \in Chats' : AskedHere(c)'
    BY DEF ThreadInv
  <1>1. ~isGuest /\ Chats = {} /\ AsUser
        /\ UNCHANGED <<view, isGuest, appSessionVersion>> /\ (strayed => strayed')
    BY DEF Settled, Send
  <1>2. calls \subseteq calls' /\ UNCHANGED currentConversationId
        /\ thread' = thread \cup ({currentConversationId} \cap ConvId)
    BY <1>1 DEF AsUser, Asked
  <1>3. Settled
    BY <1>1, <1>2, SettledBefore DEF StillValidating
  <1>4. PICK n : /\ Chats' = Chats \cup {n} /\ n.phase = "sent" /\ n.shown = TRUE
                 /\ n.guest = isGuest
                 /\ ~isGuest => n.conv = currentConversationId
    BY SendChats
  <1>5. AskedHere(n)'
    BY <1>1, <1>2, <1>4 DEF AskedHere
  <1> QED BY <1>1, <1>2, <1>3, <1>4, <1>5 DEF ThreadInv

\* One question at a time stays one.
LEMMA OneQuestion ==
    ASSUME TypeInv, TypeInv', \A c, d \in Chats : c = d, Carried
    PROVE  \A c, d \in Chats' : c = d
  <1>1. \A c, d \in Chats' : c.click = d.click => c = d
    BY DEF TypeInv, TypeOK, Chats
  <1> QED BY <1>1 DEF Carried, Carries

LEMMA ThreadServe ==
    ASSUME TypeInv, TypeInv', ThreadInv, NEW c \in calls, Serve(c)
    PROVE  ThreadInv'
  <1> SUFFICES ASSUME Settled'
      PROVE  /\ thread' \subseteq {currentConversationId'}
             /\ \A d, e \in Chats' : d = e
             /\ \A d \in Chats' : AskedHere(d)'
    BY DEF ThreadInv
  <1>1. UNCHANGED <<view, isGuest, appSessionVersion, thread, currentConversationId, strayed>>
    BY ServeTypes DEF pageVars, histVars
  <1>2. StillValidating
    BY ServeTypes DEF StillValidating, Serves, Answered
  <1>3. Settled
    BY <1>1, <1>2, SettledBefore
  <1>4. \A d, e \in Chats' : d = e
    BY <1>3, ServeCarries, OneQuestion DEF ThreadInv
  <1>5. ASSUME NEW d \in Chats' PROVE AskedHere(d)'
    <2>1. CASE d \in Chats
      BY <1>1, <1>3, <2>1 DEF ThreadInv, AskedHere
    <2>2. CASE d \notin Chats
      BY <1>1, <1>3, <1>5, <2>2, ServeChats DEF ThreadInv, AskedHere, Carries
    <2> QED BY <2>1, <2>2
  <1> QED BY <1>1, <1>3, <1>4, <1>5 DEF ThreadInv

\* The answer to the one question waiting, in the conversation on the page.
LEMMA ThreadAnswered ==
    ASSUME TypeInv, ThreadInv, Settled' => Settled, NEW c \in Chats, c.phase = "ok",
           Chats' = Chats \ {c}, Appears(c),
           currentConversationId' \in {c.conv, Adopted(c)}
    PROVE  ThreadInv'
  <1> SUFFICES ASSUME Settled'
      PROVE  /\ thread' \subseteq {currentConversationId'}
             /\ \A d, e \in Chats' : d = e
             /\ \A d \in Chats' : AskedHere(d)'
    BY DEF ThreadInv
  <1>1. Chats' = {} /\ thread \subseteq {currentConversationId} /\ AskedHere(c)
    BY DEF ThreadInv
  <1>2. thread \subseteq ConvId
    BY DEF TypeInv, TypeOK
  <1>3. thread' \subseteq thread \cup {c.conv}
    BY DEF Appears
  <1>4. thread' \subseteq {currentConversationId'}
    <2>1. CASE currentConversationId = NoConv
      <3>1. thread = {}
        BY <1>1, <1>2, <2>1, Ids
      <3> QED BY <1>3, <2>1, <3>1 DEF Adopted
    <2>2. CASE currentConversationId # NoConv
      BY <1>1, <1>3, <2>2 DEF AskedHere, Adopted
    <2> QED BY <2>1, <2>2
  <1> QED BY <1>1, <1>4

\* A reply takes no validation away but its own.
LEMMA OtherValidations ==
    ASSUME TypeInv, NEW c \in calls, Deliver(c), NEW e \in Others(c), e.op = "me"
    PROVE  \E d \in calls' : d.op = "me" /\ d.version = e.version
  <1>1. PICK R \in {Others(c), Hidden(Others(c))} : Replied(c, R)
    BY DeliverCalls
  <1>2. R \subseteq calls'
    BY <1>1 DEF Replied
  <1>3. e \in Call
    BY DEF TypeInv, TypeOK, Others
  <1>4. LET d == [e EXCEPT !.shown = (e.op # "chat")] IN
        d \in Hidden(Others(c)) /\ d.op = e.op /\ d.version = e.version
    BY <1>3 DEF Hidden, Call
  <1> QED BY <1>2, <1>4

LEMMA ThreadDeliver ==
    ASSUME TypeInv, ThreadInv, NEW c \in calls, Deliver(c)
    PROVE  ThreadInv'
  <1>1. Carried
    BY DeliverChats DEF Carried
  <1>2. CASE Validated(c) \/ Opened(c) \/ (Deleted(c) /\ currentConversationId = c.conv)
    <2>1. thread' \subseteq {currentConversationId'} /\ strayed' = (Chats # {})
      BY <1>2 DEF Validated, Opened, Deleted, ShowThread
    <2> QED BY <1>1, <2>1, ThreadFilled
  <1>3. CASE LoggedIn(c)
    <2> DEFINE n == [Follow(c, "me") EXCEPT !.cookie = c.setCookie,
                                            !.version = appSessionVersion + 1]
    <2>1. n.op = "me" /\ n.version = appSessionVersion + 1
      BY DEF Follow, Blank
    <2>2. n \in calls' /\ appSessionVersion' = appSessionVersion + 1
      BY <1>3 DEF LoggedIn, Arrives
    <2> HIDE DEF n
    <2>3. ~Settled'
      BY <2>1, <2>2 DEF Settled, Validating, Superseded
    <2> QED BY <2>3, ThreadUnseen
  <1>4. CASE AccountDeleted(c) \/ (NotValidated(c) /\ ~Superseded(c))
    BY <1>4, ThreadUnseen DEF AccountDeleted, NotValidated, Settled
  <1>5. CASE ~(\/ Validated(c) \/ Opened(c) \/ (Deleted(c) /\ currentConversationId = c.conv)
               \/ LoggedIn(c) \/ AccountDeleted(c) \/ (NotValidated(c) /\ ~Superseded(c)))
    <2>1. Chats' = Chats \ {c}
      BY <1>5, DeliverChats
    <2>2. /\ UNCHANGED <<view, isGuest, appSessionVersion, strayed>>
          /\ c.op = "me" => Superseded(c)
      BY <1>5 DEF Deliver, Registered, LoggedOut, ValidatedLate, NotValidated, ListLoaded,
                  Deleted, GuestAnswered, UserAnswered, StreamDone, Failed, Reloads, Arrives,
                  pageVars, histVars
    <2>3. StillValidating
      BY <2>2, OtherValidations DEF StillValidating, Others
    <2>4. Settled' => Settled
      BY <2>2, <2>3, SettledBefore
    <2>5. CASE UserAnswered(c) \/ (StreamDone(c) /\ ~isGuest)
      <3>1. /\ c \in Chats /\ c.phase = "ok" /\ Appears(c)
            /\ currentConversationId' \in {c.conv, Adopted(c)}
        BY <2>5 DEF UserAnswered, StreamDone, Reloads, Arrives, Chats
      <3> QED BY <2>1, <2>4, <3>1, ThreadAnswered
    <2>6. CASE StreamDone(c) /\ isGuest
      BY <2>2, <2>6, ThreadUnseen DEF Settled
    <2>7. CASE ~UserAnswered(c) /\ ~StreamDone(c)
      <3>1. UNCHANGED <<thread, currentConversationId>>
        BY <1>5, <2>7
        DEF Deliver, Registered, LoggedOut, ValidatedLate, NotValidated, ListLoaded,
            Deleted, GuestAnswered, Failed, pageVars, histVars
      <3> QED BY <2>1, <2>4, <3>1, ThreadKept
    <2> QED BY <2>5, <2>6, <2>7
  <1> QED BY <1>2, <1>3, <1>4, <1>5

LEMMA ThreadInvariance == Spec => []ThreadInv
  <1>1. Init => ThreadInv
    BY DEF Init, ThreadInv, Settled
  <1>2. TypeInv /\ TypeInv' /\ ThreadInv /\ [Next]_vars => ThreadInv'
    <2> SUFFICES ASSUME TypeInv, TypeInv', ThreadInv, [Next]_vars PROVE ThreadInv'
      OBVIOUS
    <2>1. CASE UNCHANGED vars
      BY <2>1 DEF vars, pageVars, histVars, ThreadInv, Settled, Validating, Superseded, Chats,
                  AskedHere
    <2>2. CASE Clicks
      BY <2>2, ThreadClick, ThreadSend
    <2>3. CASE Network
      BY <2>3, ThreadServe, ThreadDeliver DEF Network
    <2>4. CASE Configured
      BY <2>4, ConfiguredAlone
      DEF pageVars, histVars, ThreadInv, Settled, Validating, Superseded, Chats, AskedHere
    <2> QED BY <2>1, <2>2, <2>3, <2>4 DEF Next, Idle
  <1> QED BY <1>1, <1>2, TypeInvariance, PTL DEF Spec

\* What a user reads is the conversation the next question goes to, whatever
\* was opened, deleted, begun or logged into meanwhile, as long as no question
\* had to share the page; and while a login's validation is under way the page
\* may still show what a guest's page had.
THEOREM PageShowsConversation == Spec => []ThreadIsCurrent
  <1>1. ThreadInv => ThreadIsCurrent
    BY DEF ThreadInv, ThreadIsCurrent, Settled
  <1> QED BY <1>1, ThreadInvariance, PTL

=============================================================================
