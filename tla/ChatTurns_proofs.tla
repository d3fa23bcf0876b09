-------------------------- MODULE ChatTurns_proofs --------------------------
(***************************************************************************)
(* Theorems about ChatTurns, for every set of turns, both databases and    *)
(* every value of the limits and bounds.                                   *)
(***************************************************************************)
EXTENDS ChatTurns, FiniteSetTheorems, TLAPS

----------------------------------------------------------------------------
(* Type correctness.  TypeOK alone is not inductive: a message row needs a *)
(* conversation id, which the handler has only once it has opened one.     *)

PastOpen(h) ==
    \/ h.stage \in {"say", "reload", "ai", "record", "reflush", "save", "title", "titleSave"}
    \/ h.stage \in {"check", "flush"} /\ h.mode = "stream"

OpenHandler == {h \in Handler : PastOpen(h) => h.conv \in ConvId}

TypeInv ==
    /\ TypeOK
    /\ turn \in [Turn -> OpenHandler]

\* A step that only changes one handler keeps the types if the new handler is one.
LEMMA HandlerStep ==
    ASSUME TypeInv, NEW t \in Turn, NEW h \in OpenHandler,
           turn' = [turn EXCEPT ![t] = h],
           UNCHANGED <<dbVars, today, editVars>>
    PROVE  TypeInv'
  <1>1. turn' \in [Turn -> OpenHandler] /\ turn' \in [Turn -> Handler]
    BY DEF TypeInv, OpenHandler
  <1>2. QED
    BY <1>1 DEF TypeInv, TypeOK, dbVars, convVars, msgVars, usageVars, editVars

\* One handler of a typed state: a handler, and past `open` one with a conversation.
LEMMA HandlerType ==
    ASSUME TypeInv, NEW t \in Turn
    PROVE  turn[t] \in Handler /\ (PastOpen(turn[t]) => turn[t].conv \in ConvId)
  BY DEF TypeInv, OpenHandler

\* A session that closes leaves a handler; reply and stage are the caller's.
LEMMA ClosedType ==
    ASSUME TypeInv, NEW t \in Turn, NEW stage \in Stage, NEW r \in Reply
    PROVE  /\ Closed(t, stage, r) \in Handler
           /\ Closed(t, stage, r).stage = stage
           /\ Closed(t, stage, r).conv = turn[t].conv
  <1>1. turn[t] \in Handler
    BY HandlerType
  <1>2. Zero \in Counter
    BY DEF Zero, Counter
  <1>3. QED
    BY <1>1, <1>2 DEF Closed, Handler

\* A rolled-back session (an error, a cancellation) leaves the types alone.
LEMMA AbortType ==
    ASSUME TypeInv, NEW t \in Turn, NEW r \in Reply, Abort(t, r)
    PROVE  TypeInv'
  <1>1. Closed(t, "ended", r) \in OpenHandler
    BY ClosedType DEF Stage, OpenHandler, PastOpen
  <1>2. QED
    BY <1>1, HandlerStep DEF Abort

\* Every reply a handler is given is one of the replies of its type.
LEMMA RepliesType ==
    ASSUME NEW t \in Turn
    PROVE  /\ Raised(t) \in Reply /\ Caught(t) \in Reply /\ Rejected(t) \in Reply
           /\ ByMode(t, "404", "error") \in Reply /\ ByMode(t, "ok", "done") \in Reply
           /\ "gone" \in Reply /\ "error" \in Reply /\ "dried" \in Reply
  BY DEF Raised, Caught, Rejected, ByMode, Reply

\* The steps that end a turn early.
LEMMA EarlyEndType ==
    ASSUME TypeInv, NEW t \in Turn,
           \/ RejectQuota(t) \/ LoseUsageRace(t) \/ ConversationNotFound(t)
           \/ UserMessageRefused(t) \/ ReloadFails(t) \/ StreamFails(t)
           \/ AnswerRefused(t) \/ Disconnect(t) \/ LockTimeout(t)
    PROVE  \E r \in Reply : Abort(t, r)
  <1>1. turn[t].reply \in Reply
    BY HandlerType DEF Handler
  <1>2. QED
    BY <1>1, RepliesType DEF RejectQuota, LoseUsageRace, ConversationNotFound,
       UserMessageRefused, ReloadFails, StreamFails, AnswerRefused, Disconnect,
       LockTimeout

\* The steps that move one handler on and touch no table.
LEMMA MoveType ==
    ASSUME TypeInv, NEW t \in Turn,
           \/ \E m \in Modes, c \in ConvId \cup {NoConv} : Arrive(t, m, c)
           \/ CheckQuota(t) \/ FlushUsageRow(t) \/ OpenConversation(t)
           \/ ReloadConversation(t) \/ AiAnswers(t) \/ AiFails(t)
           \/ RecordUsage(t) \/ TitleOpen(t)
    PROVE  TypeInv'
  <1> DEFINE old == turn[t]
  <1>old. /\ old \in Handler
          /\ PastOpen(old) => old.conv \in ConvId
    BY HandlerType
  <1>day. today \in Day /\ live \subseteq ConvId /\ RowsOf(old.conv) \in SUBSET Row
    BY DEF TypeInv, TypeOK, RowsOf
  <1>cnt. \A d \in Day : CountedUp(t, d) \in Counter
    BY <1>old DEF CountedUp, Counter, TypeInv, TypeOK, Handler
  <1>fun. turn = [u \in Turn |-> turn[u]]
    BY DEF TypeInv, TypeOK
  <1>1. ASSUME NEW m \in Modes, NEW c \in ConvId \cup {NoConv}, Arrive(t, m, c)
        PROVE  TypeInv'
    <2> DEFINE h == [old EXCEPT !.stage = IF m = "stream" THEN "open" ELSE "check",
                                !.mode = m, !.conv = c, !.fresh = (c = NoConv)]
    <2>1. m \in {"sync", "stream"} /\ (c = NoConv) \in BOOLEAN
      BY ClientAssumption
    <2>2. (IF m = "stream" THEN "open" ELSE "check") \in Stage
      BY DEF Stage
    <2>3. h \in Handler
      BY <1>old, <2>1, <2>2 DEF Handler
    <2>4. /\ h.stage = IF m = "stream" THEN "open" ELSE "check"
          /\ h.mode = m
      BY <1>old DEF Handler
    <2>5. ~PastOpen(h)
      BY ONLY <2>4 DEF PastOpen
    <2>6. h \in OpenHandler
      BY ONLY <2>3, <2>5 DEF OpenHandler
    <2>7. turn' = [turn EXCEPT ![t] = h]
      BY <1>1, <1>fun DEF Arrive
    <2>8. QED
      BY <1>1, <2>6, <2>7, HandlerStep DEF Arrive
  <1>2. CASE CheckQuota(t)
    <2> DEFINE h == [old EXCEPT !.day = today,
                         !.stage = IF Sees(t, today) THEN AfterCheck(t) ELSE "flush"]
    <2>1. /\ AfterCheck(t) \in {"open", "ai"}
          /\ AfterCheck(t) = "ai" => old.mode = "stream"
      BY DEF AfterCheck, ByMode
    <2>2. (IF Sees(t, today) THEN AfterCheck(t) ELSE "flush") \in Stage
      BY <2>1 DEF Stage
    <2>3. h \in Handler
      BY <1>old, <1>day, <2>2 DEF Handler
    <2>4. /\ h.stage = IF Sees(t, today) THEN AfterCheck(t) ELSE "flush"
          /\ h.mode = old.mode /\ h.conv = old.conv
      BY <1>old DEF Handler
    <2>5. old.stage = "check"
      BY <1>2 DEF CheckQuota
    <2>6. PastOpen(h) => PastOpen(old)
      BY ONLY <2>1, <2>4, <2>5 DEF PastOpen
    <2>7. h \in OpenHandler
      BY ONLY <1>old, <2>3, <2>4, <2>6 DEF OpenHandler
    <2>8. turn' = [turn EXCEPT ![t] = h]
      BY <1>2, <1>fun DEF CheckQuota
    <2>9. QED
      BY <1>2, <2>7, <2>8, HandlerStep DEF CheckQuota
  <1>3. CASE FlushUsageRow(t)
    <2> DEFINE inserted == [old EXCEPT !.held = @ \cup {old.day}]
               h == IF old.stage = "flush" THEN [inserted EXCEPT !.stage = AfterCheck(t)]
                    ELSE [inserted EXCEPT !.stage = "save",
                                          !.staged = CountedUp(t, old.day)]
    <2>1. inserted \in Handler
      BY <1>old DEF Handler
    <2>2. CountedUp(t, old.day) \in Counter
      BY <1>old, <1>cnt DEF Handler
    <2>3. CASE old.stage = "flush"
      <3>1. h = [inserted EXCEPT !.stage = AfterCheck(t)]
        BY <2>3
      <3>2. AfterCheck(t) \in Stage /\ (AfterCheck(t) = "ai" => old.mode = "stream")
            /\ AfterCheck(t) \in {"open", "ai"}
        BY DEF AfterCheck, ByMode, Stage
      <3>3. h \in Handler /\ h.stage = AfterCheck(t) /\ h.conv = old.conv
        BY <3>1, <3>2, <2>1, <1>old DEF Handler
      <3>4. h \in OpenHandler
        BY <3>2, <3>3, <2>3, <1>old DEF OpenHandler, PastOpen
      <3>5. turn' = [turn EXCEPT ![t] = h]
        BY <1>3 DEF FlushUsageRow
      <3>6. QED
        BY <1>3, <3>4, <3>5, HandlerStep DEF FlushUsageRow
    <2>4. CASE old.stage # "flush"
      <3>1. h = [inserted EXCEPT !.stage = "save", !.staged = CountedUp(t, old.day)]
        BY <2>4
      <3>2. old.stage = "reflush"
        BY <1>3, <2>4 DEF FlushUsageRow, FlushReady
      <3>3. h \in Handler /\ h.stage = "save" /\ h.conv = old.conv
        <4>1. inserted.conv = old.conv /\ "save" \in Stage
          BY <1>old DEF Handler, Stage
        <4>2. ASSUME NEW i \in Handler, NEW n \in Counter,
                     h = [i EXCEPT !.stage = "save", !.staged = n], "save" \in Stage
              PROVE  h \in Handler /\ h.stage = "save" /\ h.conv = i.conv
          BY ONLY <4>2 DEF Handler
        <4> HIDE DEF inserted
        <4> QED BY ONLY <3>1, <2>1, <2>2, <4>1, <4>2
      <3>4. h \in OpenHandler
        BY <3>2, <3>3, <1>old DEF OpenHandler, PastOpen
      <3>5. turn' = [turn EXCEPT ![t] = h]
        BY <1>3 DEF FlushUsageRow
      <3>6. QED
        BY <1>3, <3>4, <3>5, HandlerStep DEF FlushUsageRow
    <2>5. QED
      BY <2>3, <2>4
  <1>4. CASE OpenConversation(t)
    <2> DEFINE h == [old EXCEPT !.stage = "say", !.loaded = RowsOf(old.conv)]
    <2>1. h \in OpenHandler
      BY <1>4, <1>old, <1>day DEF OpenConversation, OpenHandler, Handler, PastOpen, Stage
    <2>2. turn' = [turn EXCEPT ![t] = h]
      BY <1>4, <1>fun DEF OpenConversation
    <2>3. QED
      BY <1>4, <2>1, <2>2, HandlerStep DEF OpenConversation
  <1>5. CASE ReloadConversation(t)
    <2> DEFINE h == [old EXCEPT !.window = Latest(RowsOf(old.conv)),
                                !.stage = ByMode(t, "ai", "check")]
    <2>1. Latest(RowsOf(old.conv)) \in SUBSET Row
      BY <1>day DEF Latest
    <2>2. h \in OpenHandler
      BY <1>5, <1>old, <1>day, <2>1
         DEF ReloadConversation, OpenHandler, Handler, PastOpen, Stage, ByMode
    <2>3. turn' = [turn EXCEPT ![t] = h]
      BY <1>5, <1>fun DEF ReloadConversation
    <2>4. QED
      BY <1>5, <2>2, <2>3, HandlerStep DEF ReloadConversation
  <1>6. CASE AiAnswers(t)
    <2>1. PICK k \in AnswerTokens :
            turn' = [turn EXCEPT ![t].stage = "record", ![t].tokens = k]
      BY <1>6 DEF AiAnswers
    <2> DEFINE h == [old EXCEPT !.stage = "record", !.tokens = k]
    <2>2. h \in OpenHandler
      BY <1>6, <1>old, LimitAssumption DEF AiAnswers, OpenHandler, Handler, PastOpen, Stage
    <2>3. turn' = [turn EXCEPT ![t] = h]
      BY <2>1, <1>fun
    <2>4. QED
      BY <1>6, <2>2, <2>3, HandlerStep DEF AiAnswers
  <1>7. CASE AiFails(t)
    <2> DEFINE h == [old EXCEPT !.stage = "record", !.failed = TRUE]
    <2>1. h \in OpenHandler
      BY <1>7, <1>old DEF AiFails, OpenHandler, Handler, PastOpen, Stage
    <2>2. turn' = [turn EXCEPT ![t] = h]
      BY <1>7, <1>fun DEF AiFails
    <2>3. QED
      BY <1>7, <2>1, <2>2, HandlerStep DEF AiFails
  <1>8. CASE RecordUsage(t)
    <2> DEFINE h == [old EXCEPT !.day = today,
                 !.stage = IF Sees(t, today) THEN "save" ELSE "reflush",
                 !.staged = IF Sees(t, today) THEN CountedUp(t, today) ELSE @]
    <2>1. CountedUp(t, today) \in Counter
      BY <1>day, <1>cnt
    <2>2. h \in OpenHandler
      BY <1>8, <1>old, <1>day, <2>1
         DEF RecordUsage, OpenHandler, Handler, PastOpen, Stage
    <2>3. turn' = [turn EXCEPT ![t] = h]
      BY <1>8, <1>fun DEF RecordUsage
    <2>4. QED
      BY <1>8, <2>2, <2>3, HandlerStep DEF RecordUsage
  <1>9. CASE TitleOpen(t)
    <2>1. PICK g \in {"ai", "temp"} :
            turn' = [turn EXCEPT ![t].draft = g,
                ![t].stage = IF old.conv \in live /\ title[old.conv] # g
                             THEN "titleSave" ELSE "ended"]
      BY <1>9 DEF TitleOpen
    <2> DEFINE h == [old EXCEPT !.draft = g,
                !.stage = IF old.conv \in live /\ title[old.conv] # g
                          THEN "titleSave" ELSE "ended"]
    <2>2. h \in OpenHandler
      BY <1>9, <1>old DEF TitleOpen, OpenHandler, Handler, PastOpen, Stage, Title
    <2>3. turn' = [turn EXCEPT ![t] = h]
      BY <2>1, <1>fun
    <2>4. QED
      BY <1>9, <2>2, <2>3, HandlerStep DEF TitleOpen
  <1>10. QED
    BY <1>1, <1>2, <1>3, <1>4, <1>5, <1>6, <1>7, <1>8, <1>9

\* What the two kinds of insert do to the types of the tables.
LEMMA InsertRowType ==
    ASSUME TypeInv, NEW t \in Turn, NEW role \in {"user", "assistant"}, NEW gone,
           turn[t].conv \in ConvId, InsertRow(t, role, gone)
    PROVE  rows' \subseteq Row /\ lastRow' \in Nat
  <1>1. PICK n \in 1..(lastRow + 1) :
          /\ rows' = {r \in rows : r.id \notin gone} \cup
                     {[id |-> n, conv |-> turn[t].conv, turn |-> t, role |-> role]}
          /\ lastRow' = IF n > lastRow THEN n ELSE lastRow
    BY DEF InsertRow
  <1>2. n \in Nat /\ lastRow \in Nat /\ rows \subseteq Row
    BY DEF TypeInv, TypeOK
  <1>3. [id |-> n, conv |-> turn[t].conv, turn |-> t, role |-> role] \in Row
    BY <1>2 DEF Row
  <1>4. QED
    BY <1>1, <1>2, <1>3

\* A conversation inserted by any endpoint keeps the tables typed.
LEMMA InsertConvType ==
    ASSUME TypeInv, NEW c \in ConvId, NEW name \in Title, InsertConv(c, name)
    PROVE  /\ live' \subseteq ConvId /\ lastConv' \in 0..MaxConv
           /\ title' \in [ConvId -> Title]
  BY BoundAssumption DEF InsertConv, TypeInv, TypeOK, ConvId

\* Replacing one handler by an open one keeps the function of handlers typed.
LEMMA TurnUpdate ==
    ASSUME TypeInv, NEW t \in Turn, NEW h \in OpenHandler, turn' = [turn EXCEPT ![t] = h]
    PROVE  turn' \in [Turn -> OpenHandler] /\ turn' \in [Turn -> Handler]
  BY DEF TypeInv, OpenHandler

\* The steps of a turn that commit.
LEMMA CommitType ==
    ASSUME TypeInv, NEW t \in Turn,
           \/ CreateConversation(t) \/ AddUserMessage(t) \/ SaveAnswer(t) \/ TitleSave(t)
    PROVE  TypeInv'
  <1> DEFINE old == turn[t]
  <1>old. /\ old \in Handler
          /\ PastOpen(old) => old.conv \in ConvId
    BY HandlerType
  <1>fields. old.held \subseteq Day /\ old.day \in Day /\ old.staged \in Counter
             /\ old.draft \in Title
    BY <1>old DEF Handler
  <1>days. usageDays \cup old.held \subseteq Day
    BY <1>fields DEF TypeInv, TypeOK
  <1>fun. turn = [u \in Turn |-> turn[u]]
    BY DEF TypeInv, TypeOK
  <1>1. CASE CreateConversation(t)
    <2>1. PICK c \in ConvId :
            /\ InsertConv(c, "temp")
            /\ turn' = [turn EXCEPT ![t].stage = "say", ![t].conv = c, ![t].held = {}]
      BY <1>1 DEF CreateConversation
    <2> DEFINE h == [old EXCEPT !.stage = "say", !.conv = c, !.held = {}]
    <2>2. "say" \in Stage /\ {} \in SUBSET Day /\ "temp" \in Title
      BY DEF Stage, Title
    <2>3. h \in Handler /\ h.conv = c
      BY <1>old, <2>2 DEF Handler
    <2>4. h \in OpenHandler
      BY ONLY <2>3 DEF OpenHandler
    <2>5. turn' = [turn EXCEPT ![t] = h]
      BY <2>1, <1>fun
    <2>6. turn' \in [Turn -> OpenHandler] /\ turn' \in [Turn -> Handler]
      BY <2>4, <2>5, TurnUpdate
    <2>7. live' \subseteq ConvId /\ lastConv' \in 0..MaxConv /\ title' \in [ConvId -> Title]
      BY <2>1, <2>2, InsertConvType
    <2>8. QED
      BY <1>1, <1>days, <2>6, <2>7
         DEF CreateConversation, TypeInv, TypeOK, msgVars, editVars
  <1>2. CASE AddUserMessage(t)
    <2> DEFINE added == rows' \ rows
               h == [old EXCEPT !.stage = "reload", !.held = {}, !.wrote = added]
    <2>1. "reload" \in Stage /\ {} \in SUBSET Day
      BY DEF Stage
    <2>2. old.conv \in ConvId
      BY <1>2, <1>old DEF AddUserMessage, PastOpen
    <2>3. rows' \subseteq Row /\ lastRow' \in Nat
      BY <1>2, <2>2, InsertRowType DEF AddUserMessage
    <2>4. added \in SUBSET Row
      BY <2>3
    <2>5. turn' = [turn EXCEPT ![t] = h]
      BY <1>2, <1>fun DEF AddUserMessage
    <2> HIDE DEF added
    <2>6. h \in Handler /\ h.conv = old.conv
      BY <1>old, <2>1, <2>4 DEF Handler
    <2>7. h \in OpenHandler
      BY ONLY <2>2, <2>6 DEF OpenHandler
    <2>8. turn' \in [Turn -> OpenHandler] /\ turn' \in [Turn -> Handler]
      BY <2>5, <2>7, TurnUpdate
    <2>9. QED
      BY <1>2, <1>days, <2>3, <2>8
         DEF AddUserMessage, TypeInv, TypeOK, convVars, editVars
  <1>3. CASE SaveAnswer(t)
    <2> DEFINE c == Closed(t, AfterSave(t), ByMode(t, "ok", "done"))
               w == c.wrote \cup (rows' \ rows)
               h == [c EXCEPT !.counted = old.day, !.wrote = w]
    <2>1. AfterSave(t) \in Stage /\ ByMode(t, "ok", "done") \in Reply
      BY RepliesType DEF AfterSave, Stage
    <2>2. old.conv \in ConvId
      BY <1>3, <1>old DEF SaveAnswer, PastOpen
    <2>3. c \in Handler /\ c.conv = old.conv
      BY <2>1, ClosedType
    <2>4. turn' = [turn EXCEPT ![t] = h]
      BY <1>3 DEF SaveAnswer
    <2> HIDE DEF c
    <2>5. rows' \subseteq Row /\ lastRow' \in Nat
      BY <1>3, <2>2, InsertRowType DEF SaveAnswer
    <2>6. w \in SUBSET Row
      BY <2>3, <2>5 DEF Handler
    <2> HIDE DEF w
    <2>7. h \in Handler /\ h.conv = old.conv
      BY <1>fields, <2>3, <2>6 DEF Handler
    <2>8. h \in OpenHandler
      BY ONLY <2>2, <2>7 DEF OpenHandler
    <2>9. turn' \in [Turn -> OpenHandler] /\ turn' \in [Turn -> Handler]
      BY <2>4, <2>8, TurnUpdate
    <2>10. usage' \in [Day -> Counter]
      BY <1>3, <1>fields DEF SaveAnswer, TypeInv, TypeOK
    <2>11. QED
      BY <1>3, <1>days, <2>5, <2>9, <2>10
         DEF SaveAnswer, TypeInv, TypeOK, convVars, editVars
  <1>4. CASE TitleSave(t)
    <2> DEFINE h == [old EXCEPT !.stage = "ended"]
    <2>1. h \in Handler /\ h.stage = "ended"
      BY <1>old DEF Handler, Stage
    <2>2. h \in OpenHandler
      BY ONLY <2>1 DEF OpenHandler, PastOpen
    <2>3. turn' = [turn EXCEPT ![t] = h]
      BY <1>4, <1>fun DEF TitleSave
    <2>4. turn' \in [Turn -> OpenHandler] /\ turn' \in [Turn -> Handler]
      BY <2>2, <2>3, TurnUpdate
    <2>5. title' \in [ConvId -> Title]
      BY <1>4, <1>fields DEF TitleSave, TypeInv, TypeOK
    <2>6. QED
      BY <1>4, <2>4, <2>5
         DEF TitleSave, TypeInv, TypeOK, msgVars, usageVars, editVars
  <1>5. QED
    BY <1>1, <1>2, <1>3, <1>4

\* The other endpoints, and the clock.
LEMMA EditType ==
    ASSUME TypeInv, EditNext \/ Midnight
    PROVE  TypeInv'
  <1>1. CASE PostConversation
    <2>1. PICK c \in ConvId : InsertConv(c, "user")
      BY <1>1 DEF PostConversation
    <2>2. live' \subseteq ConvId /\ lastConv' \in 0..MaxConv /\ title' \in [ConvId -> Title]
      BY <2>1, InsertConvType DEF Title
    <2>3. QED
      BY <1>1, <2>2
         DEF PostConversation, TypeInv, TypeOK, msgVars, usageVars, editVars
  <1>2. CASE ImportConversation
    <2>1. PICK c \in ConvId, n \in 1..(lastRow + 1) :
            LET last == n + ImportSize - 1 IN
            /\ InsertConv(c, "user")
            /\ rows' = rows \cup [id: n..last, conv: {c}, turn: {"imported"}, role: {"user"}]
            /\ lastRow' = IF last > lastRow THEN last ELSE lastRow
      BY <1>2 DEF ImportConversation
    <2>2. live' \subseteq ConvId /\ lastConv' \in 0..MaxConv /\ title' \in [ConvId -> Title]
      BY <2>1, InsertConvType DEF Title
    <2>3. n \in Nat /\ lastRow \in Nat /\ n + ImportSize - 1 \in Int /\ rows \subseteq Row
      BY LimitAssumption DEF TypeInv, TypeOK
    <2>4. lastRow' \in Nat
      BY <2>1, <2>3
    <2>5. n..(n + ImportSize - 1) \subseteq Nat
      BY <2>3
    <2>6. [id: n..(n + ImportSize - 1), conv: {c}, turn: {"imported"}, role: {"user"}]
            \subseteq Row
      BY <2>5 DEF Row
    <2>7. rows' \subseteq Row
      BY <2>1, <2>3, <2>6
    <2>8. QED
      BY <1>2, <2>2, <2>4, <2>7
         DEF ImportConversation, TypeInv, TypeOK, usageVars, editVars
  <1>3. CASE EditTimeout
    BY <1>3 DEF EditTimeout, TypeInv, TypeOK, dbVars, convVars, msgVars, usageVars
  <1>4. ASSUME NEW c \in ConvId, RenameOpen(c) \/ RenameCommit(c)
        PROVE  TypeInv'
    BY <1>4 DEF RenameOpen, RenameCommit, TypeInv, TypeOK, Title, dbVars, convVars,
                msgVars, usageVars
  <1>5. ASSUME NEW c \in ConvId, DeleteOpen(c)
        PROVE  TypeInv'
    <2>1. [conv |-> c, loaded |-> RowsOf(c)] \in Delete
      BY DEF Delete, RowsOf, TypeInv, TypeOK
    <2>2. QED
      BY <1>5, <2>1 DEF DeleteOpen, TypeInv, TypeOK, dbVars, convVars, msgVars, usageVars
  <1>6. ASSUME NEW d \in deletes, DeleteCommit(d)
        PROVE  TypeInv'
    BY <1>6 DEF DeleteCommit, TypeInv, TypeOK, usageVars
  <1>7. CASE Midnight
    BY <1>7, BoundAssumption
       DEF Midnight, TypeInv, TypeOK, Day, dbVars, convVars, msgVars, usageVars, editVars
  <1>8. QED
    BY <1>1, <1>2, <1>3, <1>4, <1>5, <1>6, <1>7 DEF EditNext

\* The initial tables, handlers and clock are typed.
LEMMA TypeInit == Init => TypeInv
  <1> SUFFICES ASSUME Init PROVE TypeInv
    OBVIOUS
  <1>1. Zero \in Counter /\ 1 \in Day /\ 0 \in 0..MaxConv
    BY BoundAssumption DEF Zero, Counter, Day
  <1>2. Waiting \in Handler /\ ~PastOpen(Waiting)
    BY <1>1 DEF Waiting, Handler, Stage, Title, Reply, PastOpen
  <1>3. turn \in [Turn -> OpenHandler] /\ turn \in [Turn -> Handler]
    BY <1>2 DEF Init, OpenHandler
  <1>4. QED
    BY <1>1, <1>3 DEF Init, TypeInv, TypeOK, Title

\* Every step of the server keeps the types.
LEMMA TypeStep == TypeInv /\ [Next]_vars => TypeInv'
  <1> SUFFICES ASSUME TypeInv, [Next]_vars PROVE TypeInv'
    OBVIOUS
  <1>1. CASE UNCHANGED vars
    BY <1>1 DEF TypeInv, TypeOK, vars, dbVars, convVars, msgVars, usageVars, editVars
  <1>2. ASSUME NEW t \in Turn, TurnNext(t)
        PROVE  TypeInv'
    BY <1>2, EarlyEndType, AbortType, MoveType, CommitType DEF TurnNext, Progress
  <1>3. CASE EditNext \/ Midnight
    BY <1>3, EditType
  <1>4. QED
    BY <1>1, <1>2, <1>3 DEF Next, Quiet

\* The type invariant always holds.
LEMMA TypeInvariance == Spec => []TypeInv
  BY TypeInit, TypeStep, PTL DEF Spec

\* Every handler, table and usage row keeps its type, for any number of turns
\* and either database (the state of conversations.py and its session).
THEOREM TypeCorrect == Spec => []TypeOK
  <1>1. TypeInv => TypeOK
    BY DEF TypeInv
  <1>2. QED
    BY <1>1, TypeInvariance, PTL

----------------------------------------------------------------------------
(* Messages and conversations.                                             *)

\* On PostgreSQL no message outlives its conversation or is added to one that
\* is gone, however DELETE /conversations/{id} and the two commits of a chat
\* request interleave: the foreign key and the loaded set together suffice.
THEOREM PostgresKeepsReferences ==
    ASSUME Backend = "postgres"
    PROVE  Spec => []NoDanglingMessages
  <1>1. Init => NoDanglingMessages
    BY DEF Init, NoDanglingMessages
  <1>2. TypeInv /\ NoDanglingMessages /\ [Next]_vars => NoDanglingMessages'
    <2> SUFFICES ASSUME TypeInv, NoDanglingMessages, [Next]_vars
                 PROVE  NoDanglingMessages'
      OBVIOUS
    <2>1. ASSUME NEW t \in Turn, AddUserMessage(t) \/ SaveAnswer(t)
          PROVE  NoDanglingMessages'
      <3>1. turn[t].conv \in live /\ live' = live
        BY <2>1 DEF AddUserMessage, SaveAnswer, MayRefer, convVars
      <3>2. \A r \in rows' : r \in rows \/ r.conv = turn[t].conv
        BY <2>1 DEF AddUserMessage, SaveAnswer, InsertRow
      <3>3. QED
        BY <3>1, <3>2 DEF NoDanglingMessages
    <2>2. ASSUME NEW d \in deletes, DeleteCommit(d)
          PROVE  NoDanglingMessages'
      <3>1. CASE DeleteRefused(d)
        BY <2>2, <3>1 DEF DeleteCommit, NoDanglingMessages
      <3>2. CASE ~DeleteRefused(d)
        <4>1. \A r \in rows : r.conv = d.conv => r.id \in Ids(d.loaded)
          BY <3>2 DEF DeleteRefused, RowsOf, Ids
        <4>2. QED
          BY <2>2, <3>2, <4>1 DEF DeleteCommit, NoDanglingMessages
      <3>3. QED
        BY <3>1, <3>2
    <2>3. CASE ImportConversation
      BY <2>3 DEF ImportConversation, InsertConv, NoDanglingMessages
    <2>4. CASE /\ rows' = rows
               /\ live \subseteq live'
      BY <2>4 DEF NoDanglingMessages
    <2>5. ASSUME NEW t \in Turn, TurnNext(t), ~(AddUserMessage(t) \/ SaveAnswer(t))
          PROVE  rows' = rows /\ live \subseteq live'
      BY <2>5 DEF TurnNext, Progress, Arrive, CheckQuota, RejectQuota, FlushUsageRow,
         LoseUsageRace, OpenConversation, ConversationNotFound, CreateConversation,
         InsertConv, UserMessageRefused, ReloadConversation, ReloadFails, AiAnswers,
         AiFails, StreamFails, RecordUsage, AnswerRefused, TitleOpen, TitleSave,
         Disconnect, LockTimeout, Abort, dbVars, convVars, msgVars
    <2>6. CASE PostConversation \/ EditTimeout \/ Midnight \/ Quiet \/ UNCHANGED vars
               \/ \E c \in ConvId : RenameOpen(c) \/ RenameCommit(c) \/ DeleteOpen(c)
      <3>1. rows' = rows /\ live \subseteq live'
        BY <2>6 DEF PostConversation, InsertConv, EditTimeout, Midnight, Quiet, RenameOpen,
           RenameCommit, DeleteOpen, vars, dbVars, convVars, msgVars
      <3>2. QED
        BY <3>1, <2>4
    <2>7. QED
      BY <2>1, <2>2, <2>3, <2>4, <2>5, <2>6 DEF Next, EditNext
  <1>3. QED
    BY <1>1, <1>2, TypeInvariance, PTL DEF Spec

----------------------------------------------------------------------------
(* Usage counters.  That the committed row never overcounts needs what a   *)
(* turn about to save has staged: at most one request more than had been   *)
(* answered when it read the row, and answers of a day are never unmade.   *)

Answered(h) == h.stage \in {"title", "titleSave", "ended"}

UsageInv ==
    /\ \A t \in Turn : ~Answered(turn[t]) => turn[t].counted = NoDay
    /\ \A t \in Turn, d \in Day : turn[t].stage = "save" /\ turn[t].day = d =>
          turn[t].staged.req <= Cardinality(CountedOn(d)) + 1
    /\ UsageNeverOvercounts

\* The number of turns counted on a day is a natural number.
LEMMA CountedFinite ==
    ASSUME NEW d
    PROVE  IsFiniteSet(CountedOn(d)) /\ Cardinality(CountedOn(d)) \in Nat
  <1>1. CountedOn(d) \subseteq Turn
    BY DEF CountedOn
  <1>2. QED
    BY <1>1, ClientAssumption, FS_Subset, FS_CardinalityType

\* If no turn loses the day it was counted on, no day loses turns.
LEMMA CountedGrows ==
    ASSUME \A t \in Turn : turn[t].counted # NoDay => turn'[t].counted = turn[t].counted,
           NEW d \in Day
    PROVE  Cardinality(CountedOn(d)) <= Cardinality(CountedOn(d)')
  <1>1. d # NoDay
    BY DEF Day, NoDay
  <1>2. CountedOn(d) \subseteq CountedOn(d)'
    BY <1>1 DEF CountedOn
  <1>3. CountedOn(d)' \subseteq Turn
    BY DEF CountedOn
  <1>4. IsFiniteSet(CountedOn(d)')
    BY <1>3, ClientAssumption, FS_Subset
  <1>5. QED
    BY <1>2, <1>4, FS_Subset

\* A step of a turn that saves no answer leaves the counters and every other
\* turn alone; if it gets ready to save, it has just read the counters.
LEMMA OtherTurnSteps ==
    ASSUME TypeInv, NEW t \in Turn, TurnNext(t), ~SaveAnswer(t)
    PROVE  /\ usage' = usage
           /\ \A u \in Turn \ {t} : turn'[u] = turn[u]
           /\ turn'[t].counted = turn[t].counted
           /\ Answered(turn[t]) => Answered(turn'[t])
           /\ turn'[t].stage = "save" => turn'[t].staged = CountedUp(t, turn'[t].day)
  <1>old. turn[t] \in Handler /\ turn \in [Turn -> Handler]
    BY DEF TypeInv, TypeOK
  <1>1. ASSUME NEW r, Abort(t, r)
        PROVE  /\ usage' = usage
               /\ \A u \in Turn \ {t} : turn'[u] = turn[u]
               /\ turn'[t].counted = turn[t].counted
               /\ turn'[t].stage = "ended"
    BY <1>1, <1>old DEF Abort, Closed, Handler, dbVars, usageVars
  <1>2. CASE \/ RejectQuota(t) \/ LoseUsageRace(t) \/ ConversationNotFound(t)
             \/ UserMessageRefused(t) \/ ReloadFails(t) \/ StreamFails(t)
             \/ AnswerRefused(t) \/ Disconnect(t) \/ LockTimeout(t)
    BY <1>2, <1>1, EarlyEndType DEF Answered
  <1>3. ASSUME NEW m, NEW c, Arrive(t, m, c)
        PROVE  /\ usage' = usage
               /\ \A u \in Turn \ {t} : turn'[u] = turn[u]
               /\ turn'[t].counted = turn[t].counted
               /\ ~Answered(turn[t]) /\ turn'[t].stage # "save"
    BY <1>3, <1>old DEF Arrive, Answered, Handler, dbVars, usageVars
  <1>4. CASE CheckQuota(t) \/ OpenConversation(t) \/ CreateConversation(t)
             \/ AddUserMessage(t) \/ ReloadConversation(t) \/ AiAnswers(t) \/ AiFails(t)
    <2>1. usage' = usage
      BY <1>4 DEF CheckQuota, OpenConversation, CreateConversation, AddUserMessage,
         ReloadConversation, AiAnswers, AiFails, dbVars, usageVars
    <2>2. \A u \in Turn \ {t} : turn'[u] = turn[u]
      BY <1>4, <1>old DEF CheckQuota, OpenConversation, CreateConversation, AddUserMessage,
         ReloadConversation, AiAnswers, AiFails
    <2>3. ~Answered(turn[t])
      BY <1>4 DEF CheckQuota, OpenConversation, CreateConversation, AddUserMessage,
         ReloadConversation, AiAnswers, AiFails, Answered
    <2>4. turn'[t].counted = turn[t].counted /\ turn'[t].stage # "save"
      <3>1. CASE CheckQuota(t)
        <4>1. (IF Sees(t, today) THEN AfterCheck(t) ELSE "flush") # "save"
          BY DEF AfterCheck, ByMode
        <4>2. QED
          BY <3>1, <4>1, <1>old DEF CheckQuota, Handler
      <3>2. CASE OpenConversation(t) \/ AddUserMessage(t)
        BY <3>2, <1>old DEF OpenConversation, AddUserMessage, Handler
      <3>3. CASE CreateConversation(t)
        BY <3>3, <1>old DEF CreateConversation, Handler
      <3>4. CASE ReloadConversation(t)
        <4>1. ByMode(t, "ai", "check") # "save"
          BY DEF ByMode
        <4>2. QED
          BY <3>4, <4>1, <1>old DEF ReloadConversation, Handler
      <3>5. CASE AiAnswers(t)
        BY <3>5, <1>old DEF AiAnswers, Handler
      <3>6. CASE AiFails(t)
        BY <3>6, <1>old DEF AiFails, Handler
      <3>7. QED
        BY <1>4, <3>1, <3>2, <3>3, <3>4, <3>5, <3>6
    <2>5. QED
      BY <2>1, <2>2, <2>3, <2>4
  <1>5. CASE FlushUsageRow(t)
    <2>1. turn[t].stage \in {"flush", "reflush"}
      BY <1>5 DEF FlushUsageRow, FlushReady
    <2>2. CASE turn[t].stage = "flush"
      <3>1. turn' = [turn EXCEPT ![t] =
                [[turn[t] EXCEPT !.held = @ \cup {turn[t].day}] EXCEPT !.stage = AfterCheck(t)]]
        BY <1>5, <2>2 DEF FlushUsageRow
      <3>2. AfterCheck(t) # "save"
        BY DEF AfterCheck, ByMode
      <3>3. QED
        BY <1>5, <1>old, <2>2, <3>1, <3>2 DEF FlushUsageRow, Answered, Handler, dbVars, usageVars
    <2>3. CASE turn[t].stage = "reflush"
      <3>1. turn' = [turn EXCEPT ![t] =
                [[turn[t] EXCEPT !.held = @ \cup {turn[t].day}]
                    EXCEPT !.stage = "save", !.staged = CountedUp(t, turn[t].day)]]
        BY <1>5, <2>3 DEF FlushUsageRow
      <3>2. /\ \A u \in Turn \ {t} : turn'[u] = turn[u]
            /\ turn'[t].counted = turn[t].counted /\ turn'[t].day = turn[t].day
            /\ turn'[t].staged = CountedUp(t, turn[t].day)
        BY <1>old, <3>1 DEF Handler
      <3>3. QED
        BY <1>5, <2>3, <3>2 DEF FlushUsageRow, Answered, dbVars, usageVars
    <2>4. QED
      BY <2>1, <2>2, <2>3
  <1>6. CASE RecordUsage(t)
    <2>1. /\ \A u \in Turn \ {t} : turn'[u] = turn[u]
          /\ turn'[t].counted = turn[t].counted /\ turn'[t].day = today
          /\ turn'[t].stage = IF Sees(t, today) THEN "save" ELSE "reflush"
          /\ Sees(t, today) => turn'[t].staged = CountedUp(t, today)
      BY <1>6, <1>old DEF RecordUsage, Handler
    <2>2. usage' = usage /\ ~Answered(turn[t])
      BY <1>6 DEF RecordUsage, Answered, dbVars, usageVars
    <2>3. turn'[t].stage = "save" => Sees(t, today)
      BY <2>1
    <2>4. QED
      BY <2>1, <2>2, <2>3
  <1>7. CASE TitleOpen(t)
    BY <1>7, <1>old DEF TitleOpen, Answered, Handler, dbVars, usageVars
  <1>8. CASE TitleSave(t)
    BY <1>8, <1>old DEF TitleSave, Answered, Handler, usageVars
  <1>9. QED
    BY <1>2, <1>3, <1>4, <1>5, <1>6, <1>7, <1>8 DEF TurnNext, Progress

\* Every step keeps the bound between counted turns and stored answers.
LEMMA UsageStep ==
    ASSUME TypeInv, UsageInv, TypeInv', [Next]_vars
    PROVE  UsageInv'
  <1>nat. /\ \A d \in Day : usage[d].req \in Nat /\ usage'[d].req \in Nat
          /\ \A t \in Turn : /\ turn[t].day \in Day /\ turn'[t].day \in Day
                             /\ turn[t].staged.req \in Nat /\ turn'[t].staged.req \in Nat
    BY DEF TypeInv, TypeOK, Handler, Counter
  <1>car. \A d \in Day : Cardinality(CountedOn(d)) \in Nat
                         /\ Cardinality(CountedOn(d)') \in Nat
    <2>1. \A d \in Day : CountedOn(d)' \subseteq Turn
      BY DEF CountedOn
    <2>2. QED
      BY <2>1, CountedFinite, ClientAssumption, FS_Subset, FS_CardinalityType
  <1>1. CASE UNCHANGED <<usage, turn>>
    <2>1. \A d : CountedOn(d)' = CountedOn(d)
      BY <1>1 DEF CountedOn
    <2>2. QED
      BY <1>1, <2>1 DEF UsageInv, UsageNeverOvercounts
  <1>2. ASSUME NEW t \in Turn, TurnNext(t), ~SaveAnswer(t)
        PROVE  UsageInv'
    <2>1. /\ usage' = usage
          /\ \A u \in Turn \ {t} : turn'[u] = turn[u]
          /\ turn'[t].counted = turn[t].counted
          /\ Answered(turn[t]) => Answered(turn'[t])
          /\ turn'[t].stage = "save" => turn'[t].staged = CountedUp(t, turn'[t].day)
      BY <1>2, OtherTurnSteps
    <2>2. \A u \in Turn : turn'[u].counted = turn[u].counted
      BY <2>1
    <2>3. \A d : CountedOn(d)' = CountedOn(d)
      BY <2>2 DEF CountedOn
    <2>4. ASSUME NEW u \in Turn, ~Answered(turn'[u])
          PROVE  turn'[u].counted = NoDay
      BY <2>1, <2>2, <2>4 DEF UsageInv
    <2>5. ASSUME NEW u \in Turn, NEW d \in Day, turn'[u].stage = "save", turn'[u].day = d
          PROVE  turn'[u].staged.req <= Cardinality(CountedOn(d)') + 1
      <3>1. CASE u # t
        <4>1. turn[u].staged.req <= Cardinality(CountedOn(d)) + 1
          BY <2>1, <2>5, <3>1 DEF UsageInv
        <4>2. QED
          BY <2>1, <2>3, <3>1, <4>1
      <3>2. CASE u = t
        <4>1. turn'[t].staged.req = usage[d].req + 1
          BY <2>1, <2>5, <3>2 DEF CountedUp
        <4>2. usage[d].req <= Cardinality(CountedOn(d))
          BY DEF UsageInv, UsageNeverOvercounts
        <4>3. usage[d].req \in Nat /\ Cardinality(CountedOn(d)) \in Nat
          BY <1>nat, <1>car
        <4>4. turn'[t].staged.req <= Cardinality(CountedOn(d)) + 1
          BY <4>1, <4>2, <4>3
        <4>5. QED
          BY <2>3, <3>2, <4>4
      <3>3. QED
        BY <3>1, <3>2
    <2>6. UsageNeverOvercounts'
      BY <2>1, <2>3 DEF UsageInv, UsageNeverOvercounts
    <2>7. QED
      BY <2>4, <2>5, <2>6 DEF UsageInv
  <1>3. ASSUME NEW t \in Turn, SaveAnswer(t)
        PROVE  UsageInv'
    <2>0. PICK d \in Day : d = turn[t].day
      BY <1>nat
    <2>1. /\ d # NoDay
          /\ turn[t].counted = NoDay /\ turn[t].stage = "save"
          /\ turn[t].staged.req <= Cardinality(CountedOn(d)) + 1
      BY <1>3, <2>0 DEF SaveAnswer, UsageInv, Answered, Day, NoDay
    <2>2. /\ \A u \in Turn \ {t} : turn'[u] = turn[u]
          /\ turn'[t].counted = d /\ turn'[t].stage = AfterSave(t)
      BY <1>3, <2>0 DEF SaveAnswer, Closed, TypeInv, TypeOK, Handler
    <2>3. Answered(turn'[t]) /\ turn'[t].stage # "save"
      BY <2>2 DEF Answered, AfterSave
    <2>4. \A e \in Day : Cardinality(CountedOn(e)) <= Cardinality(CountedOn(e)')
      BY <2>1, <2>2, CountedGrows
    <2>5. Cardinality(CountedOn(d)') = Cardinality(CountedOn(d)) + 1
      <3>1. CountedOn(d)' = CountedOn(d) \cup {t}
        BY <2>2 DEF CountedOn
      <3>2. t \notin CountedOn(d)
        BY <2>1 DEF CountedOn
      <3>3. QED
        BY <3>1, <3>2, CountedFinite, FS_AddElement
    <2>6. ASSUME NEW u \in Turn, ~Answered(turn'[u])
          PROVE  turn'[u].counted = NoDay
      BY <2>2, <2>3, <2>6 DEF UsageInv
    <2>7. ASSUME NEW u \in Turn, NEW e \in Day, turn'[u].stage = "save", turn'[u].day = e
          PROVE  turn'[u].staged.req <= Cardinality(CountedOn(e)') + 1
      <3>1. u # t /\ turn'[u] = turn[u]
        BY <2>2, <2>3, <2>7
      <3>2. turn[u].staged.req <= Cardinality(CountedOn(e)) + 1
        BY <2>7, <3>1 DEF UsageInv
      <3>3. /\ turn[u].staged.req \in Nat
            /\ Cardinality(CountedOn(e)) \in Nat /\ Cardinality(CountedOn(e)') \in Nat
        BY <1>nat, <1>car
      <3>4. Cardinality(CountedOn(e)) <= Cardinality(CountedOn(e)')
        BY <2>4
      <3>5. turn[u].staged.req <= Cardinality(CountedOn(e)') + 1
        BY <3>2, <3>3, <3>4
      <3>6. QED
        BY <3>1, <3>5
    <2>8. ASSUME NEW e \in Day
          PROVE  usage'[e].req <= Cardinality(CountedOn(e)')
      <3>1. usage[e].req <= Cardinality(CountedOn(e))
        BY DEF UsageInv, UsageNeverOvercounts
      <3>2. usage' = [usage EXCEPT ![d] = turn[t].staged] /\ usage \in [Day -> Counter]
        BY <1>3, <2>0 DEF SaveAnswer, TypeInv, TypeOK
      <3>3. CASE e = d
        BY <2>1, <2>5, <3>2, <3>3
      <3>4. CASE e # d
        BY <1>nat, <1>car, <2>4, <3>1, <3>2, <3>4
      <3>5. QED
        BY <3>3, <3>4
    <2>9. QED
      BY <2>6, <2>7, <2>8 DEF UsageInv, UsageNeverOvercounts
  <1>4. CASE EditNext \/ Midnight \/ Quiet \/ UNCHANGED vars
    <2>1. UNCHANGED <<usage, turn>>
      BY <1>4 DEF EditNext, PostConversation, ImportConversation, EditTimeout, RenameOpen,
         RenameCommit, DeleteOpen, DeleteCommit, Midnight, Quiet, vars, dbVars, usageVars
    <2>2. QED
      BY <2>1, <1>1
  <1>5. QED
    BY <1>2, <1>3, <1>4 DEF Next

\* Counted turns and stored answers always agree so far.
LEMMA UsageInvariance == Spec => []UsageInv
  <1>1. Init => UsageInv
    <2> SUFFICES ASSUME Init PROVE UsageInv
      OBVIOUS
    <2>1. \A t \in Turn : turn[t].counted = NoDay /\ turn[t].stage = "idle"
      BY DEF Init, Waiting
    <2>2. \A d \in Day : usage[d].req = 0
      BY DEF Init, Zero
    <2>3. \A d \in Day : Cardinality(CountedOn(d)) \in Nat
      BY CountedFinite
    <2>4. QED
      BY <2>1, <2>2, <2>3 DEF UsageInv, UsageNeverOvercounts
  <1>2. TypeInv /\ UsageInv /\ TypeInv' /\ [Next]_vars => UsageInv'
    BY UsageStep
  <1>3. QED
    BY <1>1, <1>2, TypeInvariance, PTL DEF Spec

\* However the read, the staging and the commit of record_usage interleave
\* between concurrent turns, a usage row never shows more requests than that
\* day had answers.
THEOREM UsageCounts == Spec => []UsageNeverOvercounts
  <1>1. UsageInv => UsageNeverOvercounts
    BY DEF UsageInv
  <1>2. QED
    BY <1>1, UsageInvariance, PTL

----------------------------------------------------------------------------
(* One turn at a time.  Nobody then saves between a turn's look at the     *)
(* counters and its own commit, so that the counters are exact; and a      *)
(* limit that was not reached when it was checked is not reached when the  *)
(* turn is counted, or the day has changed and is at zero.                 *)

\* Only the title job and the end of a stream are left to an answered turn, and
\* neither changes what the turn was or had answered.
LEMMA AnsweredStays ==
    ASSUME TypeInv, NEW t \in Turn, TurnNext(t), Answered(turn[t])
    PROVE  /\ turn'[t].conv = turn[t].conv /\ turn'[t].fresh = turn[t].fresh
           /\ turn'[t].failed = turn[t].failed /\ turn'[t].counted = turn[t].counted
           /\ turn'[t].tokens = turn[t].tokens /\ turn'[t].day = turn[t].day
           /\ turn'[t].stage \in {"title", "titleSave"} =>
                turn[t].stage \in {"title", "titleSave"}
           /\ Answered(turn'[t])
  <1>old. turn[t] \in Handler /\ turn \in [Turn -> Handler]
    BY DEF TypeInv, TypeOK
  <1>1. CASE Disconnect(t) \/ LockTimeout(t)
    <2>1. PICK r : Abort(t, r)
      BY <1>1 DEF Disconnect, LockTimeout
    <2> QED BY <2>1, <1>old DEF Abort, Closed, Handler, Answered
  <1>2. CASE TitleOpen(t) \/ TitleSave(t)
    BY <1>2, <1>old DEF TitleOpen, TitleSave, Handler, Answered
  <1>3. Disconnect(t) \/ LockTimeout(t) \/ TitleOpen(t) \/ TitleSave(t)
    BY DEF Answered, TurnNext, Progress, Arrive, CheckQuota, RejectQuota, FlushUsageRow,
       FlushReady, LoseUsageRace, OpenConversation, ConversationNotFound,
       CreateConversation, AddUserMessage, UserMessageRefused, ReloadConversation,
       ReloadFails, AiAnswers, AiFails, StreamFails, RecordUsage, SaveAnswer,
       AnswerRefused
  <1> QED BY <1>1, <1>2, <1>3

Alone == \A t, u \in InFlight : t = u

\* The quota of the day has been checked; the day of the usage row is chosen.
Checked(h)  == h.stage \in IF h.mode = "stream" THEN {"flush", "ai", "record"}
                           ELSE {"flush", "open", "say", "reload", "ai", "record"}
Recorded(h) == h.stage \in {"reflush", "save"}

ExactInv ==
    /\ Alone
    /\ \A t \in Turn : turn[t].stage = "save" =>
          turn[t].staged = [req |-> usage[turn[t].day].req + 1,
                            out |-> usage[turn[t].day].out + turn[t].tokens]
    /\ UsageExact

\* A request is let in only when no other is being served.
LEMMA AloneStep ==
    ASSUME MaxInFlight = 1, TypeInv, Alone, [Next]_vars
    PROVE  Alone'
  <1>1. ASSUME NEW t \in Turn, TurnNext(t)
        PROVE  Alone'
    <2>1. \A u \in Turn \ {t} : turn'[u] = turn[u]
      <3>1. CASE SaveAnswer(t)
        BY <3>1 DEF SaveAnswer, TypeInv, TypeOK
      <3> QED BY <1>1, <3>1, OtherTurnSteps
    <2>2. CASE t \in InFlight
      BY <2>1, <2>2 DEF Alone, InFlight
    <2>3. CASE turn[t].stage = "idle"
      <3>1. PICK m \in Modes, c \in ConvId \cup {NoConv} : Arrive(t, m, c)
        BY <1>1, <2>3 DEF TurnNext, Progress, CheckQuota, RejectQuota, FlushUsageRow,
           FlushReady, LoseUsageRace, OpenConversation, ConversationNotFound,
           CreateConversation, AddUserMessage, UserMessageRefused, ReloadConversation,
           ReloadFails, AiAnswers, AiFails, StreamFails, RecordUsage, SaveAnswer,
           AnswerRefused, TitleOpen, TitleSave, Disconnect, LockTimeout, Writing
      <3>2. InFlight \subseteq Turn
        BY DEF InFlight
      <3>3. IsFiniteSet(InFlight) /\ Cardinality(InFlight) \in Nat
        BY <3>2, ClientAssumption, FS_Subset, FS_CardinalityType
      <3>4. Cardinality(InFlight) = 0
        BY <3>1, <3>3 DEF Arrive
      <3>5. InFlight = {}
        BY <3>3, <3>4, FS_EmptySet
      <3> QED BY <2>1, <3>5 DEF Alone, InFlight
    <2>4. CASE Answered(turn[t])
      <3>1. Answered(turn'[t])
        BY <1>1, <2>4, AnsweredStays
      <3> QED BY <2>1, <2>4, <3>1 DEF Alone, InFlight, Answered
    <2> QED BY <2>2, <2>3, <2>4 DEF InFlight, Answered
  <1>2. CASE EditNext \/ Midnight \/ Quiet \/ UNCHANGED vars
    <2>1. UNCHANGED turn
      BY <1>2 DEF EditNext, PostConversation, ImportConversation, EditTimeout, RenameOpen,
         RenameCommit, DeleteOpen, DeleteCommit, Midnight, Quiet, vars
    <2> QED BY <2>1 DEF Alone, InFlight
  <1> QED BY <1>1, <1>2 DEF Next

\* How a turn comes by its check, its day and its place before the commit.
LEMMA CountingSteps ==
    ASSUME TypeInv, NEW t \in Turn, TurnNext(t), ~SaveAnswer(t)
    PROVE  LET h == turn[t]  k == turn'[t] IN
           /\ Checked(k) => Checked(h) \/ CheckQuota(t)
           /\ Recorded(k) => \/ Recorded(h) /\ k.day = h.day
                             \/ Checked(h) /\ k.day = today
           /\ k.day \in {h.day, today}
           /\ k.stage = "save" => k.tokens = h.tokens /\ k.day \in usageDays \cup k.held
           /\ usageDays \subseteq usageDays' /\ today' = today
  <1> DEFINE h == turn[t]
             k == turn'[t]
  <1>old. h \in Handler /\ turn \in [Turn -> Handler]
    BY DEF TypeInv, TypeOK
  <1>db. usageDays \subseteq usageDays' /\ today' = today
    BY DEF TurnNext, Progress, Arrive, CheckQuota, RejectQuota, FlushUsageRow, LoseUsageRace,
       OpenConversation, ConversationNotFound, CreateConversation, AddUserMessage,
       UserMessageRefused, ReloadConversation, ReloadFails, AiAnswers, AiFails, StreamFails,
       RecordUsage, SaveAnswer, AnswerRefused, TitleOpen, TitleSave, Disconnect,
       LockTimeout, Abort, dbVars, usageVars
  <1>1. CASE \/ RejectQuota(t) \/ LoseUsageRace(t) \/ ConversationNotFound(t)
             \/ UserMessageRefused(t) \/ ReloadFails(t) \/ StreamFails(t)
             \/ AnswerRefused(t) \/ Disconnect(t) \/ LockTimeout(t)
    <2>1. PICK r \in Reply : Abort(t, r)
      BY <1>1, EarlyEndType
    <2>2. k.stage = "ended" /\ k.day = h.day
      BY <2>1, <1>old DEF Abort, Closed, Handler
    <2> QED BY <2>2, <1>db DEF Checked, Recorded
  <1>2. CASE \E m \in Modes, c \in ConvId \cup {NoConv} : Arrive(t, m, c)
    <2>1. PICK m \in Modes, c \in ConvId \cup {NoConv} : Arrive(t, m, c)
      BY <1>2
    <2>2. k.stage = (IF m = "stream" THEN "open" ELSE "check") /\ k.mode = m /\ k.day = h.day
      BY <2>1, <1>old DEF Arrive, Handler
    <2> QED BY <2>2, <1>db DEF Checked, Recorded
  <1>3. CASE CheckQuota(t)
    <2>1. AfterCheck(t) \in {"open", "ai"}
      BY DEF AfterCheck, ByMode
    <2> HIDE DEF AfterCheck
    <2>2. k.stage \in {AfterCheck(t), "flush"} /\ k.day = today
      BY <1>3, <1>old DEF CheckQuota, Handler
    <2> QED BY <1>3, <1>db, <2>1, <2>2 DEF Recorded
  <1>4. CASE FlushUsageRow(t)
    <2>1. h.stage \in {"flush", "reflush"}
      BY <1>4 DEF FlushUsageRow, FlushReady
    <2>2. CASE h.stage = "flush"
      <3>1. turn' = [turn EXCEPT ![t] =
                [[turn[t] EXCEPT !.held = @ \cup {turn[t].day}] EXCEPT !.stage = AfterCheck(t)]]
        BY <1>4, <2>2 DEF FlushUsageRow
      <3>2. AfterCheck(t) = IF h.mode = "stream" THEN "ai" ELSE "open"
        BY DEF AfterCheck, ByMode
      <3>3. k.stage = AfterCheck(t) /\ k.mode = h.mode /\ k.day = h.day
        BY <3>1, <1>old DEF Handler
      <3> QED BY <2>2, <3>2, <3>3, <1>db DEF Checked, Recorded
    <2>3. CASE h.stage = "reflush"
      <3>1. turn' = [turn EXCEPT ![t] =
                [[turn[t] EXCEPT !.held = @ \cup {turn[t].day}]
                    EXCEPT !.stage = "save", !.staged = CountedUp(t, turn[t].day)]]
        BY <1>4, <2>3 DEF FlushUsageRow
      <3>2. /\ k.stage = "save" /\ k.day = h.day /\ k.tokens = h.tokens
            /\ k.held = h.held \cup {h.day}
        BY <3>1, <1>old DEF Handler
      <3> QED BY <2>3, <3>2, <1>db DEF Checked, Recorded
    <2> QED BY <2>1, <2>2, <2>3
  <1>5. CASE OpenConversation(t) \/ CreateConversation(t) \/ AddUserMessage(t)
    <2>1. /\ \/ h.stage = "open" /\ k.stage = "say"
             \/ h.stage = "say" /\ k.stage = "reload"
          /\ k.mode = h.mode /\ k.day = h.day
      <3>1. CASE OpenConversation(t)
        BY <3>1, <1>old DEF OpenConversation, Handler
      <3>2. CASE CreateConversation(t)
        BY <3>2, <1>old DEF CreateConversation, Handler
      <3>3. CASE AddUserMessage(t)
        BY <3>3, <1>old DEF AddUserMessage, Handler
      <3> QED BY <1>5, <3>1, <3>2, <3>3
    <2> QED BY <2>1, <1>db DEF Checked, Recorded
  <1>6. CASE ReloadConversation(t)
    <2>1. /\ h.stage = "reload" /\ k.stage = (IF h.mode = "stream" THEN "check" ELSE "ai")
          /\ k.mode = h.mode /\ k.day = h.day
      BY <1>6, <1>old DEF ReloadConversation, ByMode, Handler
    <2> QED BY <2>1, <1>db DEF Checked, Recorded
  <1>7. CASE AiAnswers(t) \/ AiFails(t)
    <2>1. h.stage = "ai" /\ k.stage = "record" /\ k.day = h.day
      BY <1>7, <1>old DEF AiAnswers, AiFails, Handler
    <2> QED BY <2>1, <1>db DEF Checked, Recorded
  <1>8. CASE RecordUsage(t)
    <2>1. /\ h.stage = "record" /\ k.day = today /\ k.tokens = h.tokens /\ k.held = h.held
          /\ k.stage = IF Sees(t, today) THEN "save" ELSE "reflush"
      BY <1>8, <1>old DEF RecordUsage, Handler
    <2> QED BY <2>1, <1>db DEF Checked, Recorded, Sees
  <1>9. CASE TitleOpen(t) \/ TitleSave(t)
    <2>1. k.stage \in {"titleSave", "ended"} /\ k.day = h.day
      BY <1>9, <1>old DEF TitleOpen, TitleSave, Handler
    <2> QED BY <2>1, <1>db DEF Checked, Recorded
  <1> QED BY <1>1, <1>2, <1>3, <1>4, <1>5, <1>6, <1>7, <1>8, <1>9 DEF TurnNext, Progress


\* What the commit of an answer does to the counters: its turn is counted once,
\* on the day of the row it writes.
LEMMA SavedCounts ==
    ASSUME TypeInv, UsageInv, NEW t \in Turn, SaveAnswer(t),
           NEW d \in Day, d = turn[t].day
    PROVE  /\ t \notin CountedOn(d)
           /\ CountedOn(d)' = CountedOn(d) \cup {t}
           /\ \A e \in Day \ {d} : CountedOn(e)' = CountedOn(e)
           /\ usage' = [usage EXCEPT ![d] = turn[t].staged]
           /\ \A u \in Turn \ {t} : turn'[u] = turn[u]
           /\ Answered(turn'[t]) /\ turn'[t].day = d /\ turn'[t].tokens = turn[t].tokens
  <1>1. d # NoDay
    BY DEF Day, NoDay
  <1>2. turn[t].counted = NoDay
    BY DEF SaveAnswer, UsageInv, Answered
  <1>3. /\ usage' = [usage EXCEPT ![d] = turn[t].staged]
        /\ \A u \in Turn \ {t} : turn'[u] = turn[u]
        /\ turn'[t].counted = d /\ turn'[t].stage = AfterSave(t)
        /\ turn'[t].day = d /\ turn'[t].tokens = turn[t].tokens
    BY DEF SaveAnswer, Closed, TypeInv, TypeOK, Handler
  <1>4. Answered(turn'[t])
    BY <1>3 DEF AfterSave, Answered
  <1>5. CountedOn(d)' = CountedOn(d) \cup {t} /\ t \notin CountedOn(d)
    BY <1>1, <1>2, <1>3 DEF CountedOn
  <1>6. \A e \in Day \ {d} : CountedOn(e)' = CountedOn(e)
    <2>1. \A e \in Day : e # NoDay
      BY DEF Day, NoDay
    <2> QED BY <1>2, <1>3, <2>1 DEF CountedOn
  <1> QED BY <1>1, <1>3, <1>4, <1>5, <1>6

\* Every step keeps the counters of a lone turn exact.
LEMMA ExactStep ==
    ASSUME MaxInFlight = 1, TypeInv, UsageInv, ExactInv, [Next]_vars
    PROVE  ExactInv'
  <1>alone. Alone'
    BY AloneStep DEF ExactInv
  <1>1. ASSUME NEW t \in Turn, TurnNext(t), ~SaveAnswer(t)
        PROVE  ExactInv'
    <2>1. /\ usage' = usage
          /\ \A u \in Turn \ {t} : turn'[u] = turn[u]
          /\ turn'[t].counted = turn[t].counted
          /\ turn'[t].stage = "save" => turn'[t].staged = CountedUp(t, turn'[t].day)
      BY <1>1, OtherTurnSteps
    <2>2. turn'[t].stage = "save" => turn'[t].tokens = turn[t].tokens
      BY <1>1, CountingSteps
    <2>3. \A d : CountedOn(d)' = CountedOn(d)
      BY <2>1 DEF CountedOn
    <2>4. UsageExact'
      BY <2>1, <2>3 DEF ExactInv, UsageExact
    <2>5. ASSUME NEW u \in Turn, turn'[u].stage = "save"
          PROVE  turn'[u].staged = [req |-> usage'[turn'[u].day].req + 1,
                                    out |-> usage'[turn'[u].day].out + turn'[u].tokens]
      <3>1. CASE u = t
        BY <2>1, <2>2, <2>5, <3>1 DEF CountedUp
      <3>2. CASE u # t
        BY <2>1, <2>5, <3>2 DEF ExactInv
      <3> QED BY <3>1, <3>2
    <2> QED BY <1>alone, <2>4, <2>5 DEF ExactInv
  <1>2. ASSUME NEW t \in Turn, SaveAnswer(t)
        PROVE  ExactInv'
    <2>0. PICK d \in Day : d = turn[t].day
      BY DEF TypeInv, TypeOK, Handler
    <2>1. /\ t \notin CountedOn(d)
          /\ CountedOn(d)' = CountedOn(d) \cup {t}
          /\ \A e \in Day \ {d} : CountedOn(e)' = CountedOn(e)
          /\ usage' = [usage EXCEPT ![d] = turn[t].staged]
          /\ \A u \in Turn \ {t} : turn'[u] = turn[u]
          /\ Answered(turn'[t])
      BY <1>2, <2>0, SavedCounts
    <2>2. turn[t].stage = "save" /\ usage \in [Day -> Counter]
      BY <1>2 DEF SaveAnswer, TypeInv, TypeOK
    <2>3. turn[t].staged = [req |-> usage[d].req + 1, out |-> usage[d].out + turn[t].tokens]
      BY <2>0, <2>2 DEF ExactInv
    <2>4. Cardinality(CountedOn(d)') = Cardinality(CountedOn(d)) + 1
      BY <2>1, CountedFinite, FS_AddElement
    <2>5. ASSUME NEW e \in Day
          PROVE  usage'[e].req = Cardinality(CountedOn(e)')
      <3>1. usage[e].req = Cardinality(CountedOn(e))
        BY DEF ExactInv, UsageExact
      <3>2. CASE e = d
        BY <2>1, <2>2, <2>3, <2>4, <3>1, <3>2
      <3>3. CASE e # d
        <4>1. usage'[e] = usage[e] /\ CountedOn(e)' = CountedOn(e)
          BY <2>1, <2>2, <3>3
        <4> QED BY <3>1, <4>1
      <3> QED BY <3>2, <3>3
    <2>6. ASSUME NEW u \in Turn
          PROVE  turn'[u].stage # "save"
      <3>1. CASE u = t
        BY <2>1, <3>1 DEF Answered
      <3>2. CASE u # t
        BY <2>1, <2>2, <3>2 DEF ExactInv, Alone, InFlight
      <3> QED BY <3>1, <3>2
    <2> QED BY <1>alone, <2>5, <2>6 DEF ExactInv, UsageExact
  <1>3. CASE EditNext \/ Midnight \/ Quiet \/ UNCHANGED vars
    <2>1. UNCHANGED <<usage, turn>>
      BY <1>3 DEF EditNext, PostConversation, ImportConversation, EditTimeout, RenameOpen,
         RenameCommit, DeleteOpen, DeleteCommit, Midnight, Quiet, vars, dbVars, usageVars
    <2>2. \A d : CountedOn(d)' = CountedOn(d)
      BY <2>1 DEF CountedOn
    <2> QED BY <1>alone, <2>1, <2>2 DEF ExactInv, UsageExact
  <1> QED BY <1>1, <1>2, <1>3 DEF Next

\* The counters of a lone turn are exact from the first request on.
LEMMA ExactInvariance ==
    ASSUME MaxInFlight = 1
    PROVE  Spec => []ExactInv
  <1>1. Init => ExactInv
    <2> SUFFICES ASSUME Init PROVE ExactInv
      OBVIOUS
    <2>1. \A t \in Turn : turn[t].counted = NoDay /\ turn[t].stage = "idle"
      BY DEF Init, Waiting
    <2>2. \A d \in Day : usage[d].req = 0 /\ d # NoDay
      BY DEF Init, Zero, Day, NoDay
    <2>3. \A d \in Day : CountedOn(d) = {}
      BY <2>1, <2>2 DEF CountedOn
    <2> QED BY <2>1, <2>2, <2>3, FS_EmptySet DEF ExactInv, Alone, InFlight, UsageExact
  <1>2. TypeInv /\ UsageInv /\ ExactInv /\ [Next]_vars => ExactInv'
    BY ExactStep
  <1> QED BY <1>1, <1>2, TypeInvariance, UsageInvariance, PTL DEF Spec

\* A user who waits for each answer before the next message has every answered
\* request in user_usage once, on the day record_usage looked up, across
\* midnight and after failed, rejected and abandoned turns (quota.py).
THEOREM SequentialUsageExact ==
    ASSUME MaxInFlight = 1
    PROVE  Spec => []UsageExact
  <1>1. ExactInv => UsageExact
    BY DEF ExactInv
  <1> QED BY <1>1, ExactInvariance, PTL


\* A day's row is zero until an answer is committed to it; whoever passed the
\* quota check, or is about to be counted, is below the limits of that day.
LimitInv ==
    /\ \A d \in Day : d > today \/ d \notin usageDays => usage[d] = Zero
    /\ \A t \in Turn :
          /\ turn[t].day <= today
          /\ Checked(turn[t]) => ~OverQuota(today)
          /\ Recorded(turn[t]) => ~OverQuota(turn[t].day)
          /\ turn[t].stage = "save" => Sees(t, turn[t].day)
    /\ DailyLimitsEnforced

\* A day without answers is below the limits.
LEMMA ZeroIsBelow ==
    ASSUME NEW d \in Day, usage[d] = Zero
    PROVE  ~OverQuota(d)
  BY LimitAssumption DEF OverQuota, Zero

\* No step of a turn but the commit of its answer touches what the limits are about.
LEMMA LimitOtherSteps ==
    ASSUME TypeInv, UsageInv, LimitInv, NEW t \in Turn, TurnNext(t), ~SaveAnswer(t)
    PROVE  LimitInv'
  <1>1. /\ usage' = usage /\ today' = today /\ usageDays \subseteq usageDays'
        /\ \A u \in Turn \ {t} : turn'[u] = turn[u]
        /\ turn'[t].counted = turn[t].counted
    BY OtherTurnSteps, CountingSteps
  <1>2. /\ Checked(turn'[t]) => Checked(turn[t]) \/ CheckQuota(t)
        /\ Recorded(turn'[t]) => \/ Recorded(turn[t]) /\ turn'[t].day = turn[t].day
                                 \/ Checked(turn[t]) /\ turn'[t].day = today
        /\ turn'[t].day \in {turn[t].day, today}
        /\ turn'[t].stage = "save" => turn'[t].day \in usageDays \cup turn'[t].held
    BY CountingSteps
  <1>nat. today \in Day /\ today <= today
    BY DEF TypeInv, TypeOK, Day
  <1>3. \A d \in Day : d > today' \/ d \notin usageDays' => usage'[d] = Zero
    BY <1>1 DEF LimitInv
  <1>4. ASSUME NEW u \in Turn
        PROVE  /\ turn'[u].day <= today'
               /\ Checked(turn'[u]) => ~OverQuota(today)'
               /\ Recorded(turn'[u]) => ~OverQuota(turn[u].day)'
               /\ turn'[u].stage = "save" => Sees(u, turn[u].day)'
    <2>1. CASE u # t
      BY <1>1, <2>1 DEF LimitInv, OverQuota, Sees
    <2>2. CASE u = t
      <3>1. turn'[t].day <= today'
        BY <1>1, <1>2, <1>nat DEF LimitInv
      <3>2. Checked(turn'[t]) => ~OverQuota(today)
        <4>1. CASE CheckQuota(t)
          BY <1>nat, <4>1, ZeroIsBelow DEF CheckQuota, Sees, LimitInv
        <4> QED BY <1>2, <4>1 DEF LimitInv
      <3>3. Recorded(turn'[t]) => ~OverQuota(turn'[t].day)
        BY <1>2 DEF LimitInv
      <3> QED BY <1>1, <1>2, <2>2, <3>1, <3>2, <3>3 DEF OverQuota, Sees
    <2> QED BY <2>1, <2>2
  <1>5. DailyLimitsEnforced'
    <2>1. \A d : CountedOn(d)' = CountedOn(d)
      BY <1>1 DEF CountedOn
    <2>2. \A u \in Turn, d \in Day : u \in CountedOn(d) => turn'[u].tokens = turn[u].tokens
      <3>1. \A d \in Day : t \in CountedOn(d) => Answered(turn[t])
        BY DEF CountedOn, UsageInv, Day, NoDay
      <3>2. Answered(turn[t]) => turn'[t].tokens = turn[t].tokens
        BY AnsweredStays
      <3> QED BY <1>1, <3>1, <3>2
    <2>3. \A d \in Day : CountedOn(d) \subseteq Turn
      BY DEF CountedOn
    <2> QED BY <1>1, <2>1, <2>2, <2>3 DEF LimitInv, DailyLimitsEnforced
  <1> QED BY <1>3, <1>4, <1>5 DEF LimitInv

\* The answer of a lone turn is counted on a day that was below its limits.
LEMMA LimitSaveStep ==
    ASSUME TypeInv, UsageInv, ExactInv, LimitInv, NEW t \in Turn, SaveAnswer(t)
    PROVE  LimitInv'
  <1>0. PICK d \in Day : d = turn[t].day
    BY DEF TypeInv, TypeOK, Handler
  <1>1. /\ t \notin CountedOn(d)
        /\ CountedOn(d)' = CountedOn(d) \cup {t}
        /\ \A e \in Day \ {d} : CountedOn(e)' = CountedOn(e)
        /\ usage' = [usage EXCEPT ![d] = turn[t].staged]
        /\ \A u \in Turn \ {t} : turn'[u] = turn[u]
        /\ Answered(turn'[t]) /\ turn'[t].day = d /\ turn'[t].tokens = turn[t].tokens
    BY <1>0, SavedCounts
  <1>2. /\ turn[t].stage = "save"
        /\ usageDays' = usageDays \cup turn[t].held /\ today' = today
        /\ usage \in [Day -> Counter] /\ today \in Day
    BY DEF SaveAnswer, TypeInv, TypeOK
  <1>3. turn[t].staged = [req |-> usage[d].req + 1, out |-> usage[d].out + turn[t].tokens]
    BY <1>0, <1>2 DEF ExactInv
  <1>4. ASSUME NEW e \in Day, e > today' \/ e \notin usageDays'
        PROVE  usage'[e] = Zero
    <2>1. d \in usageDays' /\ d <= today
      BY <1>0, <1>2 DEF LimitInv, Sees
    <2>2. e # d
      BY <1>2, <1>4, <2>1 DEF Day
    <2>3. usage'[e] = usage[e]
      BY <1>1, <1>2, <2>2
    <2>4. e > today \/ e \notin usageDays
      BY <1>2, <1>4
    <2> QED BY <2>3, <2>4 DEF LimitInv
  <1>5. ASSUME NEW u \in Turn
        PROVE  /\ turn'[u].day <= today'
               /\ ~Checked(turn'[u]) /\ ~Recorded(turn'[u]) /\ turn'[u].stage # "save"
    <2>1. CASE u = t
      BY <1>0, <1>1, <1>2, <2>1 DEF LimitInv, Answered, Checked, Recorded
    <2>2. CASE u # t
      <3>1. u \notin InFlight /\ turn'[u] = turn[u]
        BY <1>1, <1>2, <2>2 DEF ExactInv, Alone, InFlight
      <3>2. turn[u].stage \in {"idle", "title", "titleSave", "ended"}
        BY <3>1 DEF InFlight
      <3>3. ~Checked(turn[u]) /\ ~Recorded(turn[u]) /\ turn[u].stage # "save"
        BY <3>2 DEF Checked, Recorded
      <3> QED BY <1>2, <3>1, <3>3 DEF LimitInv
    <2> QED BY <2>1, <2>2
  <1>6. ASSUME NEW e \in Day
        PROVE  /\ Cardinality(CountedOn(e)') <= DailyRequests
               /\ CountedOn(e)' # {} => \E u \in CountedOn(e)' :
                    usage'[e].out < DailyTokens + turn'[u].tokens
    <2>1. CASE e # d
      <3>1. usage'[e] = usage[e] /\ CountedOn(e)' = CountedOn(e)
        BY <1>1, <1>2, <2>1
      <3>2. \A u \in CountedOn(e) : turn'[u].tokens = turn[u].tokens
        BY <1>1 DEF CountedOn
      <3> QED BY <3>1, <3>2 DEF LimitInv, DailyLimitsEnforced
    <2>2. CASE e = d
      <3>1. ~OverQuota(d)
        BY <1>0, <1>2 DEF LimitInv, Recorded
      <3>2. usage[d].req \in Nat /\ usage[d].out \in Nat /\ turn[t].tokens \in Nat
        BY <1>2 DEF TypeInv, TypeOK, Handler, Counter
      <3>3. usage[d].req < DailyRequests /\ usage[d].out < DailyTokens
        BY <3>1, <3>2, LimitAssumption DEF OverQuota
      <3>4. Cardinality(CountedOn(d)') = usage[d].req + 1
        <4>1. Cardinality(CountedOn(d)') = Cardinality(CountedOn(d)) + 1
          BY <1>1, CountedFinite, FS_AddElement
        <4> QED BY <4>1 DEF ExactInv, UsageExact
      <3>5. Cardinality(CountedOn(d)') <= DailyRequests
        BY <3>2, <3>3, <3>4, LimitAssumption
      <3>6. usage'[d] = turn[t].staged
        BY <1>1, <1>2
      <3>7. usage'[d].out = usage[d].out + turn[t].tokens
        BY <1>3, <3>6
      <3>8. usage'[d].out < DailyTokens + turn'[t].tokens
        BY <1>1, <3>2, <3>3, <3>7, LimitAssumption
      <3>9. t \in CountedOn(d)'
        BY <1>1
      <3>10. CountedOn(e)' = CountedOn(d)' /\ usage'[e] = usage'[d]
        BY <2>2
      <3> QED BY <3>5, <3>8, <3>9, <3>10
    <2> QED BY <2>1, <2>2
  <1> QED BY <1>4, <1>5, <1>6 DEF LimitInv, DailyLimitsEnforced


\* Every step keeps the days' rows and the checks against them together; at
\* midnight the new day's row is zero.
LEMMA LimitStep ==
    ASSUME TypeInv, UsageInv, ExactInv, LimitInv, [Next]_vars
    PROVE  LimitInv'
  <1>1. CASE UNCHANGED <<usage, usageDays, turn>> /\ today' = today
    <2>1. \A d : CountedOn(d)' = CountedOn(d)
      BY <1>1 DEF CountedOn
    <2>2. DailyLimitsEnforced'
      BY <1>1, <2>1 DEF LimitInv, DailyLimitsEnforced
    <2> QED BY <1>1, <2>2 DEF LimitInv, OverQuota, Sees
  <1>2. CASE Midnight
    <2>1. UNCHANGED <<usage, usageDays, turn>> /\ today' = today + 1 /\ today + 1 \in Day
      <3>1. today \in Nat /\ today >= 1 /\ MaxDay \in Nat
        BY BoundAssumption DEF TypeInv, TypeOK, Day
      <3>2. UNCHANGED <<usage, usageDays, turn>> /\ today' = today + 1 /\ today < MaxDay
        BY <1>2 DEF Midnight, dbVars, usageVars
      <3> QED BY <3>1, <3>2 DEF Day
    <2>2. \A d : CountedOn(d)' = CountedOn(d)
      BY <2>1 DEF CountedOn
    <2>3. DailyLimitsEnforced'
      BY <2>1, <2>2 DEF LimitInv, DailyLimitsEnforced
    <2>4. today \in Nat /\ today + 1 > today
      BY DEF TypeInv, TypeOK, Day
    <2>5. usage[today + 1] = Zero
      BY <2>1, <2>4 DEF LimitInv
    <2>6. ~OverQuota(today + 1)
      BY <2>1, <2>5, ZeroIsBelow
    <2>7. \A d \in Day : d > today + 1 => d > today
      BY <2>4 DEF Day
    <2>8. \A t \in Turn : turn[t].day \in Nat
      BY DEF TypeInv, TypeOK, Handler, Day
    <2>9. \A t \in Turn : turn'[t].day <= today'
      BY <2>1, <2>4, <2>8 DEF LimitInv
    <2>10. ~OverQuota(today)'
      BY <2>1, <2>6 DEF OverQuota
    <2> QED BY <2>1, <2>3, <2>7, <2>9, <2>10 DEF LimitInv, OverQuota, Sees
  <1>3. ASSUME NEW t \in Turn, TurnNext(t)
        PROVE  LimitInv'
    BY <1>3, LimitOtherSteps, LimitSaveStep
  <1>4. CASE EditNext \/ Quiet \/ UNCHANGED vars
    <2>1. UNCHANGED <<usage, usageDays, turn>> /\ today' = today
      BY <1>4 DEF EditNext, PostConversation, ImportConversation, EditTimeout, RenameOpen,
         RenameCommit, DeleteOpen, DeleteCommit, Quiet, vars, dbVars, usageVars
    <2> QED BY <2>1, <1>1
  <1> QED BY <1>2, <1>3, <1>4 DEF Next

\* For a user who waits for each answer before the next message, no day has
\* more answered requests than quota_daily_requests, and a day's output tokens
\* pass quota_daily_output_tokens by less than its last answer: check_quota
\* before the AI call and record_usage after it are enough, also when midnight
\* falls between them.
THEOREM SequentialLimits ==
    ASSUME MaxInFlight = 1
    PROVE  Spec => []DailyLimitsEnforced
  <1>1. Init => LimitInv
    <2> SUFFICES ASSUME Init PROVE LimitInv
      OBVIOUS
    <2>1. today = 1 /\ \A d \in Day : usage[d] = Zero
      BY DEF Init
    <2>2. \A t \in Turn : /\ turn[t].counted = NoDay /\ turn[t].stage = "idle"
                          /\ turn[t].day = 1
      BY DEF Init, Waiting
    <2>3. \A d \in Day : CountedOn(d) = {}
      BY <2>2 DEF CountedOn, Day, NoDay
    <2>4. DailyLimitsEnforced
      BY <2>3, FS_EmptySet, LimitAssumption DEF DailyLimitsEnforced
    <2>5. \A t \in Turn : /\ turn[t].day <= today /\ ~Checked(turn[t])
                          /\ ~Recorded(turn[t]) /\ turn[t].stage # "save"
      BY <2>1, <2>2 DEF Checked, Recorded
    <2> QED BY <2>1, <2>4, <2>5 DEF LimitInv
  <1>2. TypeInv /\ UsageInv /\ ExactInv /\ LimitInv /\ [Next]_vars => LimitInv'
    BY LimitStep
  <1>3. LimitInv => DailyLimitsEnforced
    BY DEF LimitInv
  <1>4. Spec => []ExactInv
    BY ExactInvariance
  <1> QED BY <1>1, <1>2, <1>3, <1>4, TypeInvariance, UsageInvariance, PTL DEF Spec

============================================================================
