-------------------------- MODULE ChatStorage_proofs --------------------------
(***************************************************************************)
(* Theorems about what the chat endpoints store while ids only go up: on   *)
(* PostgreSQL or without deletions of conversations.                       *)
(***************************************************************************)
EXTENDS ChatTurns_proofs

----------------------------------------------------------------------------
(* What a turn has done so far, by its stage.                              *)

Opened(h)       == PastOpen(h) /\ ~Answered(h)
Said(h)         == Answered(h) \/ (Opened(h) /\ h.stage # "say")
Pruning(h)      == Opened(h) /\ h.stage \notin {"say", "reload"}
Acknowledged(h) == h.reply \in {"ok", "done"}

(* Rows are known by their ids: one that a session has loaded is the row   *)
(* the table has under that id, or none if it has been deleted.            *)

Seen == rows \cup (UNION {turn[t].loaded : t \in Turn}) \cup (UNION {d.loaded : d \in deletes})

IdsInv ==
    /\ \A r \in Seen : r \in Row /\ r.id <= lastRow
    /\ \A r, q \in Seen : r.id = q.id => r = q

\* A finite table, of which every part can be counted.
LEMMA RowsFinite ==
    ASSUME TypeInv, IdsInv, NEW S \in SUBSET rows
    PROVE  IsFiniteSet(S) /\ Cardinality(S) \in Nat
  <1> DEFINE f == [r \in rows |-> r.id]
  <1>1. \A r \in rows : r.id \in 0..lastRow
    BY DEF IdsInv, Seen, TypeInv, TypeOK, Row
  <1>2. f \in Injection(rows, 0..lastRow)
    BY <1>1 DEF IdsInv, Seen, Injection, IsInjective
  <1>3. IsFiniteSet(0..lastRow)
    BY FS_Interval DEF TypeInv, TypeOK
  <1>4. IsFiniteSet(rows)
    <2> HIDE DEF f
    <2> QED BY <1>2, <1>3, FS_Injection
  <1> QED BY <1>4, FS_Subset, FS_CardinalityType

\* A larger part of the table has at least as many rows.
LEMMA MoreRows ==
    ASSUME TypeInv, IdsInv, NEW S \in SUBSET rows, NEW T \in SUBSET S
    PROVE  Cardinality(T) \in Nat /\ Cardinality(S) \in Nat
           /\ Cardinality(T) <= Cardinality(S)
  BY RowsFinite, FS_Subset

\* The newest of some rows.
LEMMA NewestRow ==
    ASSUME TypeInv, IdsInv, NEW S \in SUBSET rows, S # {}
    PROVE  \E q \in S : \A p \in S : ~(p.id > q.id)
  <1> DEFINE R == {p \in Nat \X Nat : p[1] < p[2]}
             D == {lastRow - q.id : q \in S}
  <1>1. \A q \in S : q.id \in Nat /\ lastRow \in Nat /\ q.id <= lastRow
    BY DEF TypeInv, TypeOK, Row, IdsInv, Seen
  <1>2. D \in SUBSET Nat /\ D # {}
    BY <1>1
  <1>3. IsWellFoundedOn(R, Nat)
    BY NatLessThanWellFounded DEF OpToRel
  <1>4. \A x, y \in Nat : y < x => <<y, x>> \in R
    OBVIOUS
  <1>5. PICK x \in D : \A y \in D : ~(<<y, x>> \in R)
    <2> HIDE DEF R, D
    <2> QED BY <1>2, <1>3, WFMin
  <1>6. PICK q \in S : x = lastRow - q.id
    OBVIOUS
  <1>7. ASSUME NEW p \in S, p.id > q.id
        PROVE  FALSE
    <2>1. lastRow - p.id \in D /\ lastRow - p.id < x
      BY <1>1, <1>6, <1>7
    <2> HIDE DEF R, D
    <2> QED BY <1>2, <1>4, <1>5, <2>1
  <1> QED BY <1>7

\* Whatever overflowed rows a commit deletes, Window rows stay behind each.
LEMMA WindowBehind ==
    ASSUME TypeInv, IdsInv, NEW r \in Row, Overflowed(r)
    PROVE  \E L \in SUBSET NewerThan(r) :
              Cardinality(L) >= Window /\ \A q \in L : ~Overflowed(q)
  <1> DEFINE N == NewerThan(r)
             L == {q \in N : ~Overflowed(q)}
  <1>1. N \subseteq rows
    BY DEF NewerThan
  <1>2. CASE L = N
    BY <1>2 DEF Overflowed
  <1>3. CASE L # N
    <2>1. N \ L # {} /\ N \ L \subseteq rows
      BY <1>1, <1>3
    <2>2. PICK q \in N \ L : \A p \in N \ L : ~(p.id > q.id)
      <3> HIDE DEF N, L
      <3> QED BY <2>1, NewestRow
    <2>3. r.id \in Nat /\ \A p \in rows : p.id \in Nat
      BY DEF TypeInv, TypeOK, Row
    <2>4. NewerThan(q) \subseteq L
      <3>1. ASSUME NEW p \in NewerThan(q)
            PROVE  p \in N /\ p.id > q.id
        <4>1. p \in rows /\ p.conv = r.conv /\ p.id > q.id /\ q.id > r.id /\ q \in rows
          BY <3>1 DEF NewerThan
        <4>2. p.id > r.id
          BY <2>3, <4>1
        <4> QED BY <4>1, <4>2 DEF NewerThan
      <3> QED BY <2>2, <3>1
    <2>5. Overflowed(q)
      OBVIOUS
    <2>6. Cardinality(L) >= Window
      <3>1. L \in SUBSET rows /\ NewerThan(q) \in SUBSET L
        BY <1>1, <2>4
      <3>2. /\ Cardinality(NewerThan(q)) \in Nat /\ Cardinality(L) \in Nat
            /\ Cardinality(NewerThan(q)) <= Cardinality(L)
        <4> HIDE DEF L
        <4> QED BY <3>1, MoreRows
      <3> HIDE DEF L
      <3> QED BY <2>5, <3>2, LimitAssumption DEF Overflowed
    <2> QED BY <2>6
  <1> QED BY <1>2, <1>3

----------------------------------------------------------------------------
(* The steps of a turn, by what they do to what a turn has loaded.         *)

\* The handler goes on with what it has.
MovesOn(h, k) ==
    /\ k.conv = h.conv /\ k.loaded = h.loaded /\ k.window = h.window /\ k.reply = h.reply
    /\ Opened(k) <=> Opened(h)
    /\ Said(k) <=> Said(h)
    /\ Answered(k) <=> Answered(h)
    /\ Pruning(k) <=> Pruning(h)

\* The handler ends, without the answer it has not had before.
CutShort(h, k) ==
    /\ k.stage = "ended" /\ k.conv = h.conv /\ k.loaded = {}
    /\ Acknowledged(k) => k.reply = h.reply

\* Ids only go up.  On PostgreSQL they do.  SQLite gives an id again when the
\* highest is gone, which takes a DELETE of a conversation: a turn that deletes
\* messages inserts one above them.
Steady ==
    \/ Backend = "postgres"
    \/ /\ "delete" \notin Endpoints /\ deletes = {}
       /\ live = 1..lastConv /\ \A t \in Turn : turn[t].conv <= lastConv
       /\ lastRow # 0 => \E r \in rows : r.id = lastRow

\* A message is put into the conversation after all others.
Inserts(t, role, gone) ==
    /\ rows' = {r \in rows : r.id \notin gone} \cup
               {[id |-> lastRow + 1, conv |-> turn[t].conv, turn |-> t, role |-> role]}
    /\ lastRow' = lastRow + 1

\* The next message id is one above all handed out before.
LEMMA NextRowIsLast ==
    ASSUME Steady, TypeInv, NEW n \in 1..(lastRow + 1), IsNextRow(n)
    PROVE  n = lastRow + 1
  <1>1. lastRow \in Nat
    BY DEF TypeInv, TypeOK
  <1> QED BY <1>1 DEF IsNextRow, Steady

\* So a message is the newest when it is inserted.
LEMMA InsertsLast ==
    ASSUME Steady, TypeInv, NEW t \in Turn, NEW role, NEW gone,
           InsertRow(t, role, gone)
    PROVE  Inserts(t, role, gone)
  <1>1. PICK n \in 1..(lastRow + 1) :
          /\ IsNextRow(n)
          /\ rows' = {r \in rows : r.id \notin gone} \cup
                     {[id |-> n, conv |-> turn[t].conv, turn |-> t, role |-> role]}
          /\ lastRow' = IF n > lastRow THEN n ELSE lastRow
    BY DEF InsertRow
  <1>2. lastRow \in Nat /\ n = lastRow + 1
    BY <1>1, NextRowIsLast DEF TypeInv, TypeOK
  <1> QED BY <1>1, <1>2 DEF Inserts

\* The same of conversations.
LEMMA InsertsConvLast ==
    ASSUME Steady, TypeInv, NEW c \in ConvId, NEW name, InsertConv(c, name)
    PROVE  c = lastConv + 1 /\ lastConv' = c /\ live' = live \cup {c}
  <1>1. lastConv \in Nat /\ c \in Nat /\ c > 0
    BY DEF TypeInv, TypeOK, ConvId
  <1>2. c = lastConv + 1
    <2>1. CASE Backend = "postgres"
      BY <2>1 DEF InsertConv, IsNextConv
    <2>2. CASE Backend # "postgres"
      <3>1. /\ \A k \in 1..lastConv : k < c
            /\ c = 1 \/ c - 1 \in 1..lastConv
        BY <2>2 DEF InsertConv, IsNextConv, Steady
      <3>2. CASE lastConv = 0
        BY <1>1, <3>1, <3>2
      <3>3. CASE lastConv # 0
        <4>1. lastConv \in 1..lastConv
          BY <1>1, <3>3
        <4> QED BY <1>1, <3>1, <4>1
      <3> QED BY <3>2, <3>3
    <2> QED BY <2>1, <2>2
  <1> QED BY <1>1, <1>2 DEF InsertConv

\* What a message refers to is there.
LEMMA ReferredLives ==
    ASSUME Steady, TypeInv, NEW t \in Turn, PastOpen(turn[t]), MayRefer(turn[t].conv)
    PROVE  turn[t].conv \in live
  <1>1. turn[t].conv \in ConvId /\ lastConv \in Nat
    BY DEF TypeInv, TypeOK, OpenHandler, Handler, NoConv, ConvId
  <1> QED BY <1>1 DEF MayRefer, Steady, ConvId

\* No reply but the one after the commit tells the client that it is saved.
LEMMA CutShortCases ==
    ASSUME TypeInv, NEW t \in Turn,
           \/ RejectQuota(t) \/ LoseUsageRace(t) \/ ConversationNotFound(t)
           \/ UserMessageRefused(t) \/ ReloadFails(t) \/ StreamFails(t)
           \/ AnswerRefused(t) \/ Disconnect(t) \/ LockTimeout(t)
    PROVE  CutShort(turn[t], turn'[t])
  <1>old. turn[t] \in Handler /\ turn \in [Turn -> Handler]
    BY DEF TypeInv, TypeOK
  <1>1. ASSUME NEW r, Abort(t, r), r \notin {"ok", "done"} \/ r = turn[t].reply
        PROVE  CutShort(turn[t], turn'[t])
    BY <1>1, <1>old DEF Abort, Closed, Handler, CutShort, Acknowledged
  <1>2. Raised(t) \notin {"ok", "done"} /\ Caught(t) \notin {"ok", "done"}
        /\ Rejected(t) \notin {"ok", "done"} /\ ByMode(t, "404", "error") \notin {"ok", "done"}
    BY DEF Raised, Caught, Rejected, ByMode
  <1>4. \E r : Abort(t, r) /\ (r \notin {"ok", "done"} \/ r = turn[t].reply)
    <2>1. CASE RejectQuota(t) \/ ConversationNotFound(t) \/ UserMessageRefused(t)
               \/ ReloadFails(t) \/ AnswerRefused(t)
      BY <1>2, <2>1 DEF RejectQuota, ConversationNotFound, UserMessageRefused, ReloadFails,
                        AnswerRefused
    <2>2. CASE LoseUsageRace(t)
      BY <1>2, <2>2 DEF LoseUsageRace
    <2>3. CASE StreamFails(t)
      BY <2>3 DEF StreamFails
    <2>4. CASE Disconnect(t)
      BY <2>4 DEF Disconnect
    <2>5. CASE LockTimeout(t)
      BY <1>2, <2>5 DEF LockTimeout
    <2> QED BY <2>1, <2>2, <2>3, <2>4, <2>5
  <1> QED BY <1>1, <1>4

\* The steps that go on keep what the handler has loaded.
LEMMA MovesOnCases ==
    ASSUME TypeInv, NEW t \in Turn,
           \/ CheckQuota(t) \/ FlushUsageRow(t) \/ AiAnswers(t) \/ AiFails(t)
           \/ RecordUsage(t) \/ TitleOpen(t) \/ TitleSave(t)
    PROVE  MovesOn(turn[t], turn'[t])
  <1>old. turn[t] \in Handler /\ turn \in [Turn -> Handler]
    BY DEF TypeInv, TypeOK
  <1> DEFINE h == turn[t]
             k == turn'[t]
  <1>keep. /\ k.conv = h.conv /\ k.loaded = h.loaded /\ k.window = h.window
           /\ k.reply = h.reply /\ k.mode = h.mode
    <2>1. CASE CheckQuota(t) \/ AiAnswers(t) \/ AiFails(t) \/ RecordUsage(t)
      BY <2>1, <1>old DEF CheckQuota, AiAnswers, AiFails, RecordUsage, Handler
    <2>2. CASE FlushUsageRow(t) /\ h.stage = "flush"
      <3>1. turn' = [turn EXCEPT ![t] =
                [[turn[t] EXCEPT !.held = @ \cup {turn[t].day}] EXCEPT !.stage = AfterCheck(t)]]
        BY <2>2 DEF FlushUsageRow
      <3> QED BY <3>1, <1>old DEF Handler
    <2>3. CASE FlushUsageRow(t) /\ h.stage # "flush"
      <3>1. turn' = [turn EXCEPT ![t] =
                [[turn[t] EXCEPT !.held = @ \cup {turn[t].day}]
                    EXCEPT !.stage = "save", !.staged = CountedUp(t, turn[t].day)]]
        BY <2>3 DEF FlushUsageRow
      <3> QED BY <3>1, <1>old DEF Handler
    <2>4. CASE TitleOpen(t) \/ TitleSave(t)
      BY <2>4, <1>old DEF TitleOpen, TitleSave, Handler
    <2> QED BY <2>1, <2>2, <2>3, <2>4
  <1>stage. \/ /\ h.stage \in {"check", "flush"}
               /\ h.mode = "stream" => k.stage \in {"flush", "ai"}
               /\ h.mode # "stream" => k.stage \in {"flush", "open"}
            \/ /\ h.stage \in {"ai", "record", "reflush"}
               /\ k.stage \in {"record", "reflush", "save"}
            \/ /\ h.stage \in {"title", "titleSave"}
               /\ k.stage \in {"titleSave", "ended"}
    <2>0. AfterCheck(t) = IF h.mode = "stream" THEN "ai" ELSE "open"
      BY DEF AfterCheck, ByMode
    <2>1. CASE CheckQuota(t)
      <3>1. h.stage = "check"
            /\ k.stage = IF Sees(t, today) THEN AfterCheck(t) ELSE "flush"
        BY <2>1, <1>old DEF CheckQuota, Handler
      <3> QED BY <2>0, <3>1
    <2>2. CASE FlushUsageRow(t)
      <3>1. h.stage \in {"flush", "reflush"}
        BY <2>2 DEF FlushUsageRow, FlushReady
      <3>2. CASE h.stage = "flush"
        <4>1. turn' = [turn EXCEPT ![t] =
                [[turn[t] EXCEPT !.held = @ \cup {turn[t].day}] EXCEPT !.stage = AfterCheck(t)]]
          BY <2>2, <3>2 DEF FlushUsageRow
        <4> QED BY <2>0, <3>2, <4>1, <1>old DEF Handler
      <3>3. CASE h.stage = "reflush"
        <4>1. turn' = [turn EXCEPT ![t] =
                [[turn[t] EXCEPT !.held = @ \cup {turn[t].day}]
                    EXCEPT !.stage = "save", !.staged = CountedUp(t, turn[t].day)]]
          BY <2>2, <3>3 DEF FlushUsageRow
        <4> QED BY <3>3, <4>1, <1>old DEF Handler
      <3> QED BY <3>1, <3>2, <3>3
    <2>3. CASE AiAnswers(t) \/ AiFails(t) \/ RecordUsage(t)
      BY <2>3, <1>old DEF AiAnswers, AiFails, RecordUsage, Handler
    <2>4. CASE TitleOpen(t) \/ TitleSave(t)
      BY <2>4, <1>old DEF TitleOpen, TitleSave, Handler
    <2> QED BY <2>1, <2>2, <2>3, <2>4
  <1> HIDE DEF h, k
  <1>1. /\ Opened(k) <=> Opened(h)
        /\ Answered(k) <=> Answered(h)
    BY <1>keep, <1>stage DEF Opened, Answered, PastOpen
  <1>2. /\ Said(k) <=> Said(h)
        /\ Pruning(k) <=> Pruning(h)
    BY <1>1, <1>stage DEF Said, Pruning
  <1>3. MovesOn(h, k)
    BY <1>keep, <1>1, <1>2 DEF MovesOn
  <1> QED BY <1>3 DEF h, k

\* A step of a turn leaves the other turns and the DELETEs alone, and it arrives,
\* loads or writes unless it only goes on or ends.
LEMMA TurnCases ==
    ASSUME TypeInv, NEW t \in Turn, TurnNext(t)
    PROVE  /\ \A u \in Turn \ {t} : turn'[u] = turn[u]
           /\ UNCHANGED deletes
           /\ \/ /\ UNCHANGED <<live, lastConv, rows, lastRow>>
                 /\ MovesOn(turn[t], turn'[t]) \/ CutShort(turn[t], turn'[t])
              \/ \E m \in Modes, c \in ConvId \cup {NoConv} : Arrive(t, m, c)
              \/ OpenConversation(t) \/ CreateConversation(t) \/ AddUserMessage(t)
              \/ ReloadConversation(t) \/ SaveAnswer(t)
  <1>old. turn[t] \in Handler /\ turn \in [Turn -> Handler]
    BY DEF TypeInv, TypeOK
  <1>1. \A u \in Turn \ {t} : turn'[u] = turn[u]
    <2>1. CASE SaveAnswer(t)
      BY <2>1, <1>old DEF SaveAnswer
    <2> QED BY <2>1, OtherTurnSteps
  <1>2. UNCHANGED deletes
    BY DEF TurnNext, Progress, Arrive, CheckQuota, RejectQuota, FlushUsageRow,
       LoseUsageRace, OpenConversation, ConversationNotFound, CreateConversation,
       AddUserMessage, UserMessageRefused, ReloadConversation, ReloadFails, AiAnswers,
       AiFails, StreamFails, RecordUsage, SaveAnswer, AnswerRefused, TitleOpen,
       TitleSave, Disconnect, LockTimeout, Abort, editVars
  <1>3. CASE \/ RejectQuota(t) \/ LoseUsageRace(t) \/ ConversationNotFound(t)
             \/ UserMessageRefused(t) \/ ReloadFails(t) \/ StreamFails(t)
             \/ AnswerRefused(t) \/ Disconnect(t) \/ LockTimeout(t)
    <2>1. UNCHANGED <<live, lastConv, rows, lastRow>>
      BY <1>3, EarlyEndType DEF Abort, dbVars, convVars, msgVars
    <2> QED BY <1>1, <1>2, <1>3, <2>1, CutShortCases
  <1>4. CASE \/ CheckQuota(t) \/ FlushUsageRow(t) \/ AiAnswers(t) \/ AiFails(t)
             \/ RecordUsage(t) \/ TitleOpen(t) \/ TitleSave(t)
    <2>1. UNCHANGED <<live, lastConv, rows, lastRow>>
      BY <1>4 DEF CheckQuota, FlushUsageRow, AiAnswers, AiFails, RecordUsage, TitleOpen,
                  TitleSave, dbVars, convVars, msgVars
    <2> QED BY <1>1, <1>2, <1>4, <2>1, MovesOnCases
  <1> QED BY <1>1, <1>2, <1>3, <1>4 DEF TurnNext, Progress

\* The steps of everything else.
LEMMA EditCases ==
    ASSUME EditNext \/ Midnight \/ Quiet \/ UNCHANGED vars
    PROVE  /\ UNCHANGED turn
           /\ \/ UNCHANGED <<live, lastConv, rows, lastRow>> /\ deletes' \subseteq deletes
              \/ PostConversation \/ ImportConversation
              \/ \E c \in ConvId : DeleteOpen(c)
              \/ \E d \in deletes : DeleteCommit(d)
  <1>1. UNCHANGED turn
    BY DEF EditNext, PostConversation, ImportConversation, EditTimeout, RenameOpen,
       RenameCommit, DeleteOpen, DeleteCommit, Midnight, Quiet, vars
  <1>2. CASE Midnight \/ Quiet \/ UNCHANGED vars \/ EditTimeout
             \/ \E c \in ConvId : RenameOpen(c) \/ RenameCommit(c)
    <2>1. UNCHANGED <<live, lastConv, rows, lastRow>> /\ deletes' \subseteq deletes
      BY <1>2 DEF Midnight, Quiet, EditTimeout, RenameOpen, RenameCommit, vars, dbVars,
                  convVars, msgVars, editVars
    <2> QED BY <1>1, <2>1
  <1> QED BY <1>1, <1>2 DEF EditNext

(* How far a turn is before and after the steps that load or write.        *)

\* A request that arrives has done nothing yet.
LEMMA ArriveEffect ==
    ASSUME TypeInv, NEW t \in Turn, NEW m, NEW c, Arrive(t, m, c)
    PROVE  /\ ~Opened(turn[t]) /\ ~Said(turn[t]) /\ ~Answered(turn[t]) /\ ~Opened(turn'[t])
           /\ turn'[t].conv \in 0..lastConv /\ turn'[t].loaded = turn[t].loaded
           /\ turn'[t].reply = turn[t].reply
           /\ UNCHANGED <<live, lastConv, rows, lastRow>>
  <1> DEFINE h == turn[t]
             k == turn'[t]
  <1>old. h \in Handler /\ turn \in [Turn -> Handler] /\ lastConv \in Nat
    BY DEF TypeInv, TypeOK
  <1>1. h.stage = "idle" /\ k.stage = (IF m = "stream" THEN "open" ELSE "check")
        /\ k.mode = m /\ k.conv = c /\ k.loaded = h.loaded /\ k.reply = h.reply
    BY <1>old DEF Arrive, Handler
  <1>2. c \in 0..lastConv /\ UNCHANGED <<live, lastConv, rows, lastRow>>
    BY DEF Arrive, dbVars, convVars, msgVars
  <1> QED BY <1>1, <1>2 DEF Opened, Said, Answered, PastOpen

\* What a turn loads of a stored conversation.
LEMMA OpenEffect ==
    ASSUME TypeInv, NEW t \in Turn, OpenConversation(t)
    PROVE  /\ ~Opened(turn[t]) /\ ~Said(turn[t]) /\ ~Answered(turn[t])
           /\ Opened(turn'[t]) /\ ~Said(turn'[t])
           /\ turn'[t].conv = turn[t].conv /\ turn'[t].loaded = RowsOf(turn[t].conv)
           /\ turn'[t].reply = turn[t].reply
           /\ UNCHANGED <<live, lastConv, rows, lastRow>>
  <1> DEFINE h == turn[t]
             k == turn'[t]
  <1>old. h \in Handler /\ turn \in [Turn -> Handler] /\ lastConv \in Nat
    BY DEF TypeInv, TypeOK
  <1>1. h.stage = "open" /\ k.stage = "say" /\ k.conv = h.conv
        /\ k.loaded = RowsOf(h.conv) /\ k.reply = h.reply
    BY <1>old DEF OpenConversation, Handler
  <1>2. UNCHANGED <<live, lastConv, rows, lastRow>>
    BY DEF OpenConversation, dbVars, convVars, msgVars
  <1> QED BY <1>1, <1>2 DEF Opened, Said, Answered, PastOpen

\* A new conversation has the next id.
LEMMA CreateEffect ==
    ASSUME TypeInv, NEW t \in Turn, CreateConversation(t)
    PROVE  /\ ~Opened(turn[t]) /\ ~Said(turn[t]) /\ ~Answered(turn[t])
           /\ Opened(turn'[t]) /\ ~Said(turn'[t])
           /\ turn'[t].loaded = turn[t].loaded /\ turn'[t].reply = turn[t].reply
           /\ UNCHANGED <<rows, lastRow>>
           /\ Steady => /\ turn'[t].conv = lastConv'
                                      /\ lastConv' = lastConv + 1
                                      /\ live' = live \cup {lastConv'}
  <1> DEFINE h == turn[t]
             k == turn'[t]
  <1>old. h \in Handler /\ turn \in [Turn -> Handler] /\ lastConv \in Nat
    BY DEF TypeInv, TypeOK
  <1>1. PICK c \in ConvId :
          /\ InsertConv(c, "temp")
          /\ turn' = [turn EXCEPT ![t].stage = "say", ![t].conv = c, ![t].held = {}]
    BY DEF CreateConversation
  <1>2. Steady => c = lastConv + 1 /\ lastConv' = c /\ live' = live \cup {c}
    BY <1>1, InsertsConvLast
  <1>3. h.stage = "open" /\ k.stage = "say" /\ k.conv = c
        /\ k.loaded = h.loaded /\ k.reply = h.reply
    BY <1>old, <1>1 DEF CreateConversation, Handler
  <1>4. UNCHANGED <<rows, lastRow>>
    BY DEF CreateConversation, msgVars
  <1> QED BY <1>2, <1>3, <1>4 DEF Opened, Said, Answered, PastOpen

\* The user's message is the newest row.
LEMMA SayEffect ==
    ASSUME TypeInv, NEW t \in Turn, AddUserMessage(t)
    PROVE  /\ Opened(turn[t]) /\ ~Said(turn[t]) /\ ~Answered(turn[t])
           /\ Opened(turn'[t]) /\ Said(turn'[t]) /\ ~Pruning(turn'[t]) /\ ~Answered(turn'[t])
           /\ turn'[t].conv = turn[t].conv /\ turn'[t].loaded = turn[t].loaded
           /\ turn'[t].reply = turn[t].reply
           /\ UNCHANGED <<live, lastConv>>
           /\ Steady => Inserts(t, "user", {}) /\ turn[t].conv \in live
  <1> DEFINE h == turn[t]
             k == turn'[t]
  <1>old. h \in Handler /\ turn \in [Turn -> Handler] /\ lastConv \in Nat
    BY DEF TypeInv, TypeOK
  <1>1. h.stage = "say" /\ k.stage = "reload" /\ k.conv = h.conv
        /\ k.loaded = h.loaded /\ k.reply = h.reply
    BY <1>old DEF AddUserMessage, Handler
  <1>2. /\ UNCHANGED <<live, lastConv>>
        /\ Steady => Inserts(t, "user", {}) /\ h.conv \in live
    BY <1>1, InsertsLast, ReferredLives DEF AddUserMessage, convVars, PastOpen
  <1> QED BY <1>1, <1>2 DEF Opened, Said, Answered, Pruning, PastOpen

\* What the reload keeps.
LEMMA ReloadEffect ==
    ASSUME TypeInv, NEW t \in Turn, ReloadConversation(t)
    PROVE  /\ Opened(turn[t]) /\ Said(turn[t]) /\ ~Answered(turn[t])
           /\ Opened(turn'[t]) /\ Said(turn'[t]) /\ Pruning(turn'[t]) /\ ~Answered(turn'[t])
           /\ turn'[t].conv = turn[t].conv /\ turn'[t].loaded = turn[t].loaded
           /\ turn'[t].reply = turn[t].reply
           /\ turn'[t].window = Latest(RowsOf(turn[t].conv))
           /\ UNCHANGED <<live, lastConv, rows, lastRow>>
  <1> DEFINE h == turn[t]
             k == turn'[t]
  <1>old. h \in Handler /\ turn \in [Turn -> Handler] /\ lastConv \in Nat
    BY DEF TypeInv, TypeOK
  <1>1. h.stage = "reload" /\ k.stage = (IF h.mode = "stream" THEN "check" ELSE "ai")
        /\ k.mode = h.mode
        /\ k.conv = h.conv /\ k.loaded = h.loaded /\ k.reply = h.reply
        /\ k.window = Latest(RowsOf(h.conv))
    BY <1>old DEF ReloadConversation, ByMode, Handler
  <1>2. UNCHANGED <<live, lastConv, rows, lastRow>>
    BY DEF ReloadConversation, dbVars, convVars, msgVars
  <1> QED BY <1>1, <1>2 DEF Opened, Said, Answered, Pruning, PastOpen

\* The commit of the answer.
LEMMA SaveEffect ==
    ASSUME TypeInv, NEW t \in Turn, SaveAnswer(t)
    PROVE  /\ Opened(turn[t]) /\ Said(turn[t]) /\ ~Answered(turn[t]) /\ Pruning(turn[t])
           /\ ~Opened(turn'[t]) /\ Said(turn'[t]) /\ Answered(turn'[t])
           /\ turn'[t].conv = turn[t].conv /\ turn'[t].loaded = {}
           /\ UNCHANGED <<live, lastConv>>
           /\ Steady => /\ Inserts(t, "assistant", Ids(Orphans(t)))
                                      /\ turn[t].conv \in live
  <1> DEFINE h == turn[t]
             k == turn'[t]
  <1>old. h \in Handler /\ turn \in [Turn -> Handler] /\ lastConv \in Nat
    BY DEF TypeInv, TypeOK
  <1>1. h.stage = "save" /\ k.stage = AfterSave(t) /\ k.conv = h.conv /\ k.loaded = {}
    BY <1>old DEF SaveAnswer, Closed, Handler
  <1>2. AfterSave(t) \in {"title", "ended"}
    BY DEF AfterSave
  <1>3. /\ UNCHANGED <<live, lastConv>>
        /\ Steady => Inserts(t, "assistant", Ids(Orphans(t))) /\ h.conv \in live
    BY <1>1, InsertsLast, ReferredLives DEF SaveAnswer, convVars, PastOpen
  <1> QED BY <1>1, <1>2, <1>3 DEF Opened, Said, Answered, Pruning, PastOpen

\* A step that is not a turn's own leaves its handler alone.
LEMMA OneTurnAtATime ==
    ASSUME TypeInv, [Next]_vars, NEW t \in Turn
    PROVE  TurnNext(t) \/ turn'[t] = turn[t]
  <1>1. ASSUME NEW u \in Turn, TurnNext(u), u # t
        PROVE  turn'[t] = turn[t]
    BY <1>1, TurnCases
  <1>2. CASE EditNext \/ Midnight \/ Quiet \/ UNCHANGED vars
    BY <1>2, EditCases
  <1> QED BY <1>1, <1>2 DEF Next

----------------------------------------------------------------------------
(* What the tables and the sessions hold.                                  *)

\* A turn loads rows of its conversation, from before its own messages; a
\* DELETE loads rows of its conversation.
LoadedInv ==
    /\ \A t \in Turn : ~Opened(turn[t]) => turn[t].loaded = {}
    /\ \A t \in Turn : \A r \in turn[t].loaded : r.conv = turn[t].conv /\ r.turn # t
    /\ \A d \in deletes : \A r \in d.loaded : r.conv = d.conv

\* A turn's messages are in its conversation, the question once it has said it,
\* the answer once it has saved it; until then it has told nobody of them.
OwnInv ==
    /\ \A t \in Turn : turn[t].conv <= lastConv
    /\ \A t \in Turn : ~Answered(turn[t]) => ~Acknowledged(turn[t])
    /\ \A t \in Turn : \A r \in rows : r.turn = t =>
         /\ Said(turn[t]) /\ r.conv = turn[t].conv
         /\ r.role = "assistant" => Answered(turn[t])

StoreInv == IdsInv /\ LoadedInv /\ OwnInv

\* New rows have new ids.
LEMMA FreshRows ==
    ASSUME Steady, TypeInv, [Next]_vars
    PROVE  /\ lastRow \in Nat /\ lastRow' \in Nat /\ lastRow <= lastRow'
           /\ \A r \in rows' \ rows : lastRow < r.id /\ r.id <= lastRow'
           /\ \A r, q \in rows' \ rows : r.id = q.id => r = q
  <1>nat. lastRow \in Nat
    BY DEF TypeInv, TypeOK
  <1>1. CASE lastRow' = lastRow /\ rows' \subseteq rows
    BY <1>nat, <1>1
  <1>2. ASSUME NEW t \in Turn, NEW role, NEW gone, Inserts(t, role, gone)
        PROVE  /\ lastRow' = lastRow + 1
               /\ \A r \in rows' \ rows : r.id = lastRow + 1
               /\ \A r, q \in rows' \ rows : r = q
    BY <1>2 DEF Inserts
  <1>3. CASE ImportConversation
    <2>1. PICK c \in ConvId, n \in 1..(lastRow + 1) :
            /\ IsNextRow(n)
            /\ rows' = rows \cup [id: n..(n + ImportSize - 1), conv: {c},
                                  turn: {"imported"}, role: {"user"}]
            /\ lastRow' = IF n + ImportSize - 1 > lastRow THEN n + ImportSize - 1
                          ELSE lastRow
      BY <1>3 DEF ImportConversation
    <2>2. n = lastRow + 1
      BY <2>1, NextRowIsLast
    <2>3. lastRow' = lastRow + ImportSize /\ lastRow' \in Nat
      BY <1>nat, <2>1, <2>2, LimitAssumption
    <2>4. \A r \in rows' \ rows : /\ r.id \in n..(n + ImportSize - 1)
                                  /\ r = [id |-> r.id, conv |-> c,
                                          turn |-> "imported", role |-> "user"]
      BY <2>1
    <2>5. \A r \in rows' \ rows : lastRow < r.id /\ r.id <= lastRow'
      BY <1>nat, <2>2, <2>3, <2>4, LimitAssumption
    <2> QED BY <1>nat, <2>3, <2>4, <2>5, LimitAssumption
  <1>4. ASSUME NEW t \in Turn, TurnNext(t)
        PROVE  \/ lastRow' = lastRow /\ rows' \subseteq rows
               \/ \E role, gone : Inserts(t, role, gone)
    <2>1. CASE AddUserMessage(t)
      BY <2>1, SayEffect
    <2>2. CASE SaveAnswer(t)
      BY <2>2, SaveEffect
    <2> QED BY <1>4, <2>1, <2>2, TurnCases, ArriveEffect, OpenEffect, CreateEffect,
               ReloadEffect
  <1>5. CASE EditNext \/ Midnight \/ Quiet \/ UNCHANGED vars
    <2>1. \/ lastRow' = lastRow /\ rows' \subseteq rows
          \/ ImportConversation
      BY <1>5, EditCases DEF PostConversation, DeleteOpen, DeleteCommit, msgVars, dbVars
    <2> QED BY <1>1, <1>3, <2>1
  <1>6. ASSUME NEW t \in Turn, TurnNext(t), NEW role, NEW gone, Inserts(t, role, gone)
        PROVE  /\ lastRow' \in Nat /\ lastRow <= lastRow'
               /\ \A r \in rows' \ rows : lastRow < r.id /\ r.id <= lastRow'
               /\ \A r, q \in rows' \ rows : r.id = q.id => r = q
    BY <1>nat, <1>2, <1>6
  <1>7. ASSUME NEW t \in Turn, TurnNext(t)
        PROVE  /\ lastRow' \in Nat /\ lastRow <= lastRow'
               /\ \A r \in rows' \ rows : lastRow < r.id /\ r.id <= lastRow'
               /\ \A r, q \in rows' \ rows : r.id = q.id => r = q
    BY <1>nat, <1>4, <1>6, <1>7
  <1> QED BY <1>nat, <1>5, <1>7 DEF Next

\* What a session holds, it held already or has just found in the table.
LEMMA LoadedBefore ==
    ASSUME Steady, TypeInv, [Next]_vars
    PROVE  /\ \A t \in Turn : turn'[t].loaded \subseteq turn[t].loaded \cup rows
           /\ \A d \in deletes' : d \in deletes \/ d.loaded = RowsOf(d.conv)
  <1>1. ASSUME NEW t \in Turn, TurnNext(t)
        PROVE  /\ turn'[t].loaded \subseteq turn[t].loaded \cup rows
               /\ \A u \in Turn \ {t} : turn'[u] = turn[u]
               /\ deletes' = deletes
    <2>1. CASE MovesOn(turn[t], turn'[t]) \/ CutShort(turn[t], turn'[t])
      BY <1>1, <2>1, TurnCases DEF MovesOn, CutShort
    <2>2. CASE OpenConversation(t)
      BY <1>1, <2>2, TurnCases, OpenEffect DEF RowsOf
    <2>3. CASE \/ \E m \in Modes, c \in ConvId \cup {NoConv} : Arrive(t, m, c)
               \/ CreateConversation(t) \/ AddUserMessage(t) \/ ReloadConversation(t)
               \/ SaveAnswer(t)
      <3>1. turn'[t].loaded = turn[t].loaded \/ turn'[t].loaded = {}
        BY <2>3, ArriveEffect, CreateEffect, SayEffect, ReloadEffect, SaveEffect
      <3> QED BY <1>1, <3>1, TurnCases
    <2> QED BY <1>1, <2>1, <2>2, <2>3, TurnCases
  <1>2. CASE EditNext \/ Midnight \/ Quiet \/ UNCHANGED vars
    <2>1. UNCHANGED turn
      BY <1>2, EditCases
    <2>2. \A d \in deletes' : d \in deletes \/ d.loaded = RowsOf(d.conv)
      BY <1>2, EditCases DEF PostConversation, ImportConversation, DeleteOpen, DeleteCommit,
                             editVars
    <2> QED BY <2>1, <2>2
  <1> QED BY <1>1, <1>2 DEF Next

\* Every step keeps rows known by their ids.
LEMMA IdsStep ==
    ASSUME Steady, TypeInv, TypeInv', IdsInv, [Next]_vars
    PROVE  IdsInv'
  <1>1. \A r \in Seen' : r \in Seen \/ r \in rows' \ rows
    BY LoadedBefore DEF Seen, RowsOf
  <1>2. \A r \in rows' : r \in Row
    BY DEF TypeInv, TypeOK
  <1>3. \A r \in Seen : r \in Row /\ r.id <= lastRow /\ r.id \in Nat
    BY DEF IdsInv, Row
  <1>4. /\ lastRow \in Nat /\ lastRow' \in Nat /\ lastRow <= lastRow'
        /\ \A r \in rows' \ rows : lastRow < r.id /\ r.id <= lastRow' /\ r.id \in Nat
        /\ \A r, q \in rows' \ rows : r.id = q.id => r = q
    BY <1>2, FreshRows DEF Row
  <1>5. \A r \in Seen' : r \in Row /\ r.id <= lastRow'
    BY <1>1, <1>2, <1>3, <1>4
  <1>6. ASSUME NEW r \in Seen', NEW q \in Seen', r.id = q.id
        PROVE  r = q
    <2>1. CASE r \in Seen /\ q \in Seen
      BY <1>6, <2>1 DEF IdsInv
    <2>2. CASE r \in rows' \ rows /\ q \in rows' \ rows
      BY <1>4, <1>6, <2>2
    <2>3. CASE (r \in Seen /\ q \in rows' \ rows) \/ (q \in Seen /\ r \in rows' \ rows)
      BY <1>3, <1>4, <1>6, <2>3
    <2> QED BY <1>1, <2>1, <2>2, <2>3
  <1> QED BY <1>5, <1>6 DEF IdsInv

\* Every step keeps what the sessions have loaded from before their own messages.
LEMMA LoadedStep ==
    ASSUME Steady, TypeInv, LoadedInv, OwnInv, [Next]_vars
    PROVE  LoadedInv'
  <1>1. \A d \in deletes' : \A r \in d.loaded : r.conv = d.conv
    BY LoadedBefore DEF LoadedInv, RowsOf
  <1>2. ASSUME NEW t \in Turn, TurnNext(t)
        PROVE  /\ ~Opened(turn'[t]) => turn'[t].loaded = {}
               /\ \A r \in turn'[t].loaded : r.conv = turn'[t].conv /\ r.turn # t
    <2>0. /\ ~Opened(turn[t]) => turn[t].loaded = {}
          /\ \A r \in turn[t].loaded : r.conv = turn[t].conv /\ r.turn # t
      BY DEF LoadedInv
    <2>1. CASE MovesOn(turn[t], turn'[t]) \/ CutShort(turn[t], turn'[t])
      BY <2>0, <2>1 DEF MovesOn, CutShort
    <2>2. CASE OpenConversation(t)
      BY <2>2, OpenEffect DEF RowsOf, OwnInv
    <2>3. CASE \E m \in Modes, c \in ConvId \cup {NoConv} : Arrive(t, m, c)
      BY <2>0, <2>3, ArriveEffect
    <2>4. CASE CreateConversation(t)
      BY <2>0, <2>4, CreateEffect
    <2>5. CASE AddUserMessage(t) \/ ReloadConversation(t)
      BY <2>0, <2>5, SayEffect, ReloadEffect
    <2>6. CASE SaveAnswer(t)
      BY <2>6, SaveEffect
    <2> QED BY <1>2, <2>1, <2>2, <2>3, <2>4, <2>5, <2>6, TurnCases
  <1>3. ASSUME NEW t \in Turn
        PROVE  /\ ~Opened(turn'[t]) => turn'[t].loaded = {}
               /\ \A r \in turn'[t].loaded : r.conv = turn'[t].conv /\ r.turn # t
    <2>1. CASE TurnNext(t)
      BY <1>2, <2>1
    <2>2. CASE turn'[t] = turn[t]
      BY <2>2 DEF LoadedInv
    <2>3. TurnNext(t) \/ turn'[t] = turn[t]
      BY OneTurnAtATime
    <2> QED BY <2>1, <2>2, <2>3
  <1> QED BY <1>1, <1>3 DEF LoadedInv

\* Conversation ids go up, and one that was handed out never comes back.
LEMMA ConvsGoUp ==
    ASSUME Steady, TypeInv, [Next]_vars
    PROVE  /\ lastConv \in Nat /\ lastConv' \in Nat /\ lastConv <= lastConv'
           /\ \A c \in live' \ live : c \in Nat /\ c > lastConv
  <1>nat. lastConv \in Nat
    BY DEF TypeInv, TypeOK
  <1>1. CASE lastConv' = lastConv /\ live' \subseteq live
    BY <1>nat, <1>1
  <1>2. CASE lastConv' = lastConv + 1 /\ live' = live \cup {lastConv + 1}
    BY <1>nat, <1>2
  <1>3. CASE PostConversation \/ ImportConversation
    BY <1>nat, <1>2, <1>3, InsertsConvLast DEF PostConversation, ImportConversation
  <1>4. ASSUME NEW t \in Turn, TurnNext(t)
        PROVE  \/ lastConv' = lastConv /\ live' \subseteq live
               \/ lastConv' = lastConv + 1 /\ live' = live \cup {lastConv + 1}
    BY <1>4, TurnCases, ArriveEffect, OpenEffect, CreateEffect, SayEffect, ReloadEffect,
       SaveEffect
  <1>5. CASE EditNext \/ Midnight \/ Quiet \/ UNCHANGED vars
    <2>1. \/ lastConv' = lastConv /\ live' \subseteq live
          \/ PostConversation \/ ImportConversation
      BY <1>5, EditCases DEF DeleteOpen, DeleteCommit, dbVars, convVars
    <2> QED BY <1>1, <1>3, <2>1
  <1> QED BY <1>1, <1>2, <1>4, <1>5 DEF Next

\* Where a new row comes from.
LEMMA NewRows ==
    ASSUME TypeInv, [Next]_vars, NEW r \in rows' \ rows
    PROVE  \/ /\ ImportConversation /\ r.turn = "imported"
              /\ Steady => r.conv = lastConv + 1
           \/ \E t \in Turn : /\ r.turn = t /\ r.conv = turn[t].conv
                              /\ \/ AddUserMessage(t) /\ r.role = "user"
                                 \/ SaveAnswer(t) /\ r.role = "assistant"
  <1>1. ASSUME NEW t \in Turn, TurnNext(t)
        PROVE  /\ r.turn = t /\ r.conv = turn[t].conv
               /\ \/ AddUserMessage(t) /\ r.role = "user"
                  \/ SaveAnswer(t) /\ r.role = "assistant"
    <2>1. CASE AddUserMessage(t)
      BY <2>1 DEF AddUserMessage, InsertRow
    <2>2. CASE SaveAnswer(t)
      BY <2>2 DEF SaveAnswer, InsertRow
    <2> QED BY <1>1, <2>1, <2>2, TurnCases, ArriveEffect, OpenEffect, CreateEffect,
               ReloadEffect
  <1>2. CASE ImportConversation
    <2>1. PICK c \in ConvId, n \in 1..(lastRow + 1) :
            /\ InsertConv(c, "user")
            /\ rows' = rows \cup [id: n..(n + ImportSize - 1), conv: {c},
                                  turn: {"imported"}, role: {"user"}]
      BY <1>2 DEF ImportConversation
    <2> QED BY <1>2, <2>1, InsertsConvLast
  <1>3. CASE (EditNext \/ Midnight \/ Quiet \/ UNCHANGED vars) /\ ~ImportConversation
    BY <1>3, EditCases DEF PostConversation, DeleteOpen, DeleteCommit, msgVars, dbVars
  <1> QED BY <1>1, <1>2, <1>3 DEF Next

\* A turn that has said its message stays in its conversation, and what it has
\* done stays done.
LEMMA TurnsGoOn ==
    ASSUME TypeInv, [Next]_vars, NEW t \in Turn, Said(turn[t])
    PROVE  /\ turn'[t].conv = turn[t].conv /\ Said(turn'[t])
           /\ Answered(turn[t]) => Answered(turn'[t])
  <1>1. CASE TurnNext(t)
    <2>1. CASE MovesOn(turn[t], turn'[t]) \/ CutShort(turn[t], turn'[t])
      BY <2>1 DEF MovesOn, CutShort, Said, Answered
    <2> QED BY <1>1, <2>1, TurnCases, ArriveEffect, OpenEffect, CreateEffect, SayEffect,
               ReloadEffect, SaveEffect
  <1>2. CASE turn'[t] = turn[t]
    BY <1>2
  <1> QED BY <1>1, <1>2, OneTurnAtATime

\* Every step keeps the messages of a turn its own.
LEMMA OwnStep ==
    ASSUME Steady, TypeInv, TypeInv', LoadedInv, OwnInv, [Next]_vars
    PROVE  OwnInv'
  <1>1. ASSUME NEW t \in Turn
        PROVE  /\ turn'[t].conv <= lastConv'
               /\ ~Answered(turn'[t]) => ~Acknowledged(turn'[t])
    <2>0. /\ turn[t].conv <= lastConv /\ turn[t].conv \in Nat
          /\ turn'[t].conv \in Nat
          /\ lastConv \in Nat /\ lastConv' \in Nat /\ lastConv <= lastConv'
          /\ ~Answered(turn[t]) => ~Acknowledged(turn[t])
      BY ConvsGoUp DEF OwnInv, TypeInv, TypeOK, Handler, ConvId, NoConv
    <2>1. CASE TurnNext(t)
      <3>1. CASE MovesOn(turn[t], turn'[t])
        BY <2>0, <3>1 DEF MovesOn, Acknowledged
      <3>2. CASE CutShort(turn[t], turn'[t])
        BY <2>0, <3>2 DEF CutShort, Answered
      <3>3. CASE \E m \in Modes, c \in ConvId \cup {NoConv} : Arrive(t, m, c)
        BY <2>0, <3>3, ArriveEffect DEF Acknowledged
      <3>4. CASE CreateConversation(t)
        BY <2>0, <3>4, CreateEffect DEF Acknowledged
      <3>5. CASE OpenConversation(t) \/ AddUserMessage(t) \/ ReloadConversation(t)
        BY <2>0, <3>5, OpenEffect, SayEffect, ReloadEffect DEF Acknowledged
      <3>6. CASE SaveAnswer(t)
        BY <2>0, <3>6, SaveEffect
      <3> QED BY <2>1, <3>1, <3>2, <3>3, <3>4, <3>5, <3>6, TurnCases
    <2>2. CASE turn'[t] = turn[t]
      BY <2>0, <2>2
    <2> QED BY <2>1, <2>2, OneTurnAtATime
  <1>2. ASSUME NEW t \in Turn, NEW r \in rows', r.turn = t
        PROVE  /\ Said(turn'[t]) /\ r.conv = turn'[t].conv
               /\ r.role = "assistant" => Answered(turn'[t])
    <2>1. CASE r \in rows
      BY <1>2, <2>1, TurnsGoOn DEF OwnInv
    <2>2. CASE r \notin rows
      BY <1>2, <2>2, NewRows, SayEffect, SaveEffect, ClientAssumption
    <2> QED BY <2>1, <2>2
  <1> QED BY <1>1, <1>2 DEF OwnInv

\* The row with the highest id handed out goes only with its conversation.
LEMMA LastRowStays ==
    ASSUME Steady, TypeInv, [Next]_vars, deletes = {}
    PROVE  (rows \subseteq rows' /\ lastRow' = lastRow) \/ \E r \in rows' : r.id = lastRow'
  <1>nat. lastRow \in Nat
    BY DEF TypeInv, TypeOK
  <1>1. ASSUME NEW t \in Turn, NEW role, NEW gone, Inserts(t, role, gone)
        PROVE  \E r \in rows' : r.id = lastRow'
    <2> DEFINE new == [id |-> lastRow + 1, conv |-> turn[t].conv, turn |-> t, role |-> role]
    <2>1. new \in rows' /\ lastRow' = lastRow + 1
      BY <1>1 DEF Inserts
    <2>2. new.id = lastRow + 1
      OBVIOUS
    <2> QED BY <2>1, <2>2
  <1>2. CASE ImportConversation
    <2>1. PICK c \in ConvId, n \in 1..(lastRow + 1) :
            /\ IsNextRow(n)
            /\ rows' = rows \cup [id: n..(n + ImportSize - 1), conv: {c},
                                  turn: {"imported"}, role: {"user"}]
            /\ lastRow' = IF n + ImportSize - 1 > lastRow THEN n + ImportSize - 1
                          ELSE lastRow
      BY <1>2 DEF ImportConversation
    <2>2. n = lastRow + 1
      BY <2>1, NextRowIsLast
    <2>3. CASE ImportSize = 0
      BY <1>nat, <2>1, <2>2, <2>3
    <2>4. CASE ImportSize # 0
      <3> DEFINE new == [id |-> lastRow + ImportSize, conv |-> c, turn |-> "imported",
                         role |-> "user"]
      <3>1. lastRow' = lastRow + ImportSize /\ lastRow + ImportSize \in n..(n + ImportSize - 1)
        BY <1>nat, <2>1, <2>2, <2>4, LimitAssumption
      <3>2. new \in rows'
        BY <2>1, <3>1
      <3>3. new.id = lastRow + ImportSize
        OBVIOUS
      <3> QED BY <3>1, <3>2, <3>3
    <2> QED BY <2>3, <2>4
  <1>3. ASSUME NEW t \in Turn, TurnNext(t)
        PROVE  \/ rows' = rows /\ lastRow' = lastRow
               \/ \E role, gone : Inserts(t, role, gone)
    <2>1. CASE AddUserMessage(t)
      BY <2>1, SayEffect
    <2>2. CASE SaveAnswer(t)
      BY <2>2, SaveEffect
    <2> QED BY <1>3, <2>1, <2>2, TurnCases, ArriveEffect, OpenEffect, CreateEffect,
               ReloadEffect
  <1>4. CASE EditNext \/ Midnight \/ Quiet \/ UNCHANGED vars
    <2>1. (rows' = rows /\ lastRow' = lastRow) \/ ImportConversation
      BY <1>4, EditCases DEF PostConversation, DeleteOpen, msgVars, dbVars
    <2> QED BY <1>2, <2>1
  <1> QED BY <1>1, <1>3, <1>4 DEF Next

\* Ids go on going up.
LEMMA SteadyStep ==
    ASSUME Steady, TypeInv, TypeInv', OwnInv', [Next]_vars
    PROVE  Steady'
  <1>1. CASE Backend = "postgres"
    BY <1>1 DEF Steady
  <1>2. CASE Backend # "postgres"
    <2>0. /\ "delete" \notin Endpoints /\ deletes = {} /\ live = 1..lastConv
          /\ lastRow # 0 => \E r \in rows : r.id = lastRow
      BY <1>2 DEF Steady
    <2>nat. lastConv \in Nat
      BY DEF TypeInv, TypeOK
    <2>1. deletes' = {}
      <3>1. ASSUME NEW t \in Turn, TurnNext(t)
            PROVE  deletes' = {}
        BY <2>0, <3>1, TurnCases
      <3>2. CASE EditNext \/ Midnight \/ Quiet \/ UNCHANGED vars
        BY <2>0, <3>2, EditCases DEF PostConversation, ImportConversation, DeleteOpen, editVars
      <3> QED BY <3>1, <3>2 DEF Next
    <2>2. live' = 1..lastConv'
      <3>1. CASE live' = live /\ lastConv' = lastConv
        BY <2>0, <3>1
      <3>2. ASSUME NEW c \in ConvId, NEW name, InsertConv(c, name)
            PROVE  live' = 1..lastConv'
        <4>1. lastConv' = lastConv + 1 /\ live' = live \cup {lastConv + 1}
          BY <3>2, InsertsConvLast
        <4> QED BY <2>0, <2>nat, <4>1
      <3>3. ASSUME NEW t \in Turn, TurnNext(t)
            PROVE  live' = 1..lastConv'
        <4>1. CASE CreateConversation(t)
          BY <3>2, <4>1 DEF CreateConversation
        <4> QED BY <3>1, <3>3, <4>1, TurnCases, ArriveEffect, OpenEffect, SayEffect,
                   ReloadEffect, SaveEffect
      <3>4. CASE EditNext \/ Midnight \/ Quiet \/ UNCHANGED vars
        <4>1. CASE PostConversation \/ ImportConversation
          BY <3>2, <4>1 DEF PostConversation, ImportConversation
        <4>2. CASE ~PostConversation /\ ~ImportConversation
          BY <2>0, <3>1, <3>4, <4>2, EditCases DEF DeleteOpen, dbVars, convVars
        <4> QED BY <4>1, <4>2
      <3> QED BY <3>3, <3>4 DEF Next
    <2>3. lastRow' # 0 => \E r \in rows' : r.id = lastRow'
      BY <2>0, LastRowStays
    <2>4. \A t \in Turn : turn'[t].conv <= lastConv'
      BY DEF OwnInv
    <2> QED BY <2>0, <2>1, <2>2, <2>3, <2>4 DEF Steady
  <1> QED BY <1>1, <1>2

\* While ids only go up, the tables and sessions always fit together.
LEMMA StoreInvariance ==
    ASSUME Backend = "postgres" \/ "delete" \notin Endpoints
    PROVE  Spec => [](Steady /\ StoreInv)
  <1>1. Init => Steady /\ StoreInv
    BY DEF Init, Waiting, Steady, StoreInv, IdsInv, Seen, LoadedInv, OwnInv, NoConv,
           Acknowledged
  <1>2. TypeInv /\ Steady /\ StoreInv /\ [Next]_vars /\ TypeInv' => Steady' /\ StoreInv'
    BY IdsStep, LoadedStep, OwnStep, SteadyStep DEF StoreInv
  <1> QED BY <1>1, <1>2, TypeInvariance, PTL DEF Spec

----------------------------------------------------------------------------
(* Titles.  A turn has a title job only when its answer has been counted   *)
(* and is not an error, and an answered turn never takes that back.        *)

Earned(h) == h.fresh /\ ~h.failed /\ h.counted # NoDay

TitleInv ==
    /\ \A t \in Turn : turn[t].stage \in {"title", "titleSave"} => Earned(turn[t])
    /\ GeneratedTitleFollowsAnswer

\* What an answered turn has earned, it keeps.
LEMMA EarnedStays ==
    ASSUME TypeInv, NEW t \in Turn, TurnNext(t), Answered(turn[t])
    PROVE  /\ turn'[t].conv = turn[t].conv
           /\ Earned(turn'[t]) <=> Earned(turn[t])
           /\ turn'[t].stage \in {"title", "titleSave"} =>
                turn[t].stage \in {"title", "titleSave"}
  BY AnsweredStays DEF Earned

\* A title job begins only behind a committed answer that is not an error.
LEMMA EarnedFirst ==
    ASSUME TypeInv, NEW t \in Turn, TurnNext(t), ~Answered(turn[t]),
           turn'[t].stage \in {"title", "titleSave"}
    PROVE  Earned(turn'[t])
  <1>old. turn[t] \in Handler /\ turn \in [Turn -> Handler]
    BY DEF TypeInv, TypeOK
  <1>1. CASE SaveAnswer(t)
    <2>1. /\ turn'[t].stage = AfterSave(t) /\ turn'[t].counted = turn[t].day
          /\ turn'[t].fresh = turn[t].fresh /\ turn'[t].failed = turn[t].failed
      BY <1>1, <1>old DEF SaveAnswer, Closed, Handler
    <2>2. turn[t].fresh /\ ~turn[t].failed
      BY <2>1 DEF AfterSave
    <2>3. turn[t].day # NoDay
      BY <1>old DEF Handler, Day, NoDay
    <2> QED BY <2>1, <2>2, <2>3 DEF Earned
  <1>2. CASE \/ RejectQuota(t) \/ LoseUsageRace(t) \/ ConversationNotFound(t)
             \/ UserMessageRefused(t) \/ ReloadFails(t) \/ StreamFails(t)
             \/ AnswerRefused(t) \/ Disconnect(t) \/ LockTimeout(t)
    <2>1. PICK r \in Reply : Abort(t, r)
      BY <1>2, EarlyEndType
    <2>2. turn'[t].stage = "ended"
      BY <2>1, <1>old DEF Abort, Closed, Handler
    <2> QED BY <2>2
  <1>3. CASE CheckQuota(t)
    <2>1. (IF Sees(t, today) THEN AfterCheck(t) ELSE "flush") \notin {"title", "titleSave"}
      BY DEF AfterCheck, ByMode
    <2> QED BY <1>3, <2>1, <1>old DEF CheckQuota, Handler
  <1>4. CASE FlushUsageRow(t)
    <2>1. AfterCheck(t) \notin {"title", "titleSave"}
      BY DEF AfterCheck, ByMode
    <2> HIDE DEF AfterCheck
    <2>2. turn'[t].stage \in {AfterCheck(t), "save"}
      BY <1>4, <1>old DEF FlushUsageRow, Handler
    <2> QED BY <2>1, <2>2
  <1>5. CASE \/ (\E m, c : Arrive(t, m, c)) \/ CreateConversation(t)
             \/ OpenConversation(t) \/ AddUserMessage(t) \/ ReloadConversation(t)
             \/ AiAnswers(t) \/ AiFails(t) \/ RecordUsage(t)
    <2>0. CASE \E m, c : Arrive(t, m, c)
      BY <2>0, <1>old DEF Arrive, Handler
    <2>1. CASE CreateConversation(t)
      BY <2>1, <1>old DEF CreateConversation, Handler
    <2>2. CASE OpenConversation(t) \/ AddUserMessage(t)
      BY <2>2, <1>old DEF OpenConversation, AddUserMessage, Handler
    <2>3. CASE ReloadConversation(t)
      BY <2>3, <1>old DEF ReloadConversation, ByMode, Handler
    <2>4. CASE AiAnswers(t) \/ AiFails(t) \/ RecordUsage(t)
      BY <2>4, <1>old DEF AiAnswers, AiFails, RecordUsage, Handler
    <2> QED BY <1>5, <2>0, <2>1, <2>2, <2>3, <2>4
  <1>6. ~TitleOpen(t) /\ ~TitleSave(t)
    BY DEF Answered, TitleOpen, TitleSave
  <1> QED BY <1>1, <1>2, <1>3, <1>4, <1>5, <1>6 DEF TurnNext, Progress

\* The only title a turn sets, besides the temporary one of a conversation it
\* creates, is the one its job generated.
LEMMA TitlesSet ==
    ASSUME TypeInv, [Next]_vars, NEW c \in live', title'[c] = "ai"
    PROVE  \/ c \in live /\ title[c] = "ai"
           \/ \E t \in Turn : TitleSave(t) /\ turn[t].conv = c
  <1>tit. title \in [ConvId -> Title] /\ live \subseteq ConvId
    BY DEF TypeInv, TypeOK
  <1>1. ASSUME NEW k \in ConvId, NEW name \in {"temp", "user"}, InsertConv(k, name)
        PROVE  c \in live /\ title[c] = "ai"
    BY <1>1, <1>tit DEF InsertConv
  <1>2. CASE UNCHANGED title /\ live' \subseteq live
    BY <1>2
  <1>3. ASSUME NEW t \in Turn, TurnNext(t), ~TitleSave(t), ~CreateConversation(t)
        PROVE  UNCHANGED title /\ live' \subseteq live
    BY <1>3 DEF TurnNext, Progress, Arrive, CheckQuota, RejectQuota, FlushUsageRow,
       LoseUsageRace, OpenConversation, ConversationNotFound, AddUserMessage,
       UserMessageRefused, ReloadConversation, ReloadFails, AiAnswers, AiFails,
       StreamFails, RecordUsage, SaveAnswer, AnswerRefused, TitleOpen, Disconnect,
       LockTimeout, Abort, dbVars, convVars
  <1>4. ASSUME NEW t \in Turn, TitleSave(t) \/ CreateConversation(t)
        PROVE  \/ c \in live /\ title[c] = "ai"
               \/ TitleSave(t) /\ turn[t].conv = c
    <2>1. CASE TitleSave(t)
      BY <1>tit, <2>1 DEF TitleSave
    <2>2. CASE CreateConversation(t)
      BY <1>1, <2>2 DEF CreateConversation
    <2> QED BY <1>4, <2>1, <2>2
  <1>5. CASE PostConversation \/ ImportConversation
    BY <1>1, <1>5 DEF PostConversation, ImportConversation
  <1>6. ASSUME NEW k \in ConvId, RenameCommit(k)
        PROVE  c \in live /\ title[c] = "ai"
    BY <1>6, <1>tit DEF RenameCommit
  <1>7. CASE \/ EditTimeout \/ Midnight \/ Quiet \/ UNCHANGED vars
             \/ \E k \in ConvId : RenameOpen(k) \/ DeleteOpen(k)
             \/ \E d \in deletes : DeleteCommit(d)
    <2>1. UNCHANGED title /\ live' \subseteq live
      BY <1>7 DEF EditTimeout, Midnight, Quiet, RenameOpen, DeleteOpen, DeleteCommit,
                  vars, dbVars, convVars
    <2> QED BY <1>2, <2>1
  <1> QED BY <1>2, <1>3, <1>4, <1>5, <1>6, <1>7 DEF Next, EditNext

\* Every step keeps the titles earned.
LEMMA TitleStep ==
    ASSUME TypeInv, UsageInv, TitleInv, [Next]_vars
    PROVE  TitleInv'
  <1>1. CASE UNCHANGED turn
    <2>1. ASSUME NEW c \in live', title'[c] = "ai"
          PROVE  \E t \in Turn : turn[t].conv = c /\ Earned(turn[t])
      <3>1. ~\E t \in Turn : TitleSave(t)
        BY <1>1 DEF TitleSave, TypeInv, TypeOK, Handler
      <3>2. c \in live /\ title[c] = "ai"
        BY <2>1, <3>1, TitlesSet
      <3> QED BY <3>2 DEF TitleInv, GeneratedTitleFollowsAnswer, Earned
    <2> QED BY <1>1, <2>1 DEF TitleInv, GeneratedTitleFollowsAnswer, Earned
  <1>2. ASSUME NEW t \in Turn, TurnNext(t)
        PROVE  TitleInv'
    <2>1. \A u \in Turn \ {t} : turn'[u] = turn[u]
      <3>1. CASE SaveAnswer(t)
        BY <3>1 DEF SaveAnswer, TypeInv, TypeOK
      <3> QED BY <1>2, <3>1, OtherTurnSteps
    <2>2. ASSUME NEW u \in Turn, Earned(turn[u])
          PROVE  Earned(turn'[u]) /\ turn'[u].conv = turn[u].conv
      <3>1. Answered(turn[u])
        BY <2>2 DEF Earned, UsageInv
      <3>2. CASE u = t
        BY <1>2, <2>2, <3>1, <3>2, EarnedStays
      <3> QED BY <2>1, <2>2, <3>2
    <2>3. ASSUME NEW u \in Turn, turn'[u].stage \in {"title", "titleSave"}
          PROVE  Earned(turn'[u])
      <3>1. CASE u # t
        BY <2>1, <2>3, <3>1 DEF TitleInv
      <3>2. CASE u = t /\ Answered(turn[t])
        BY <1>2, <2>3, <3>2, EarnedStays DEF TitleInv
      <3>3. CASE u = t /\ ~Answered(turn[t])
        BY <1>2, <2>3, <3>3, EarnedFirst
      <3> QED BY <3>1, <3>2, <3>3
    <2>4. ASSUME NEW c \in live', title'[c] = "ai"
          PROVE  \E u \in Turn : turn'[u].conv = c /\ Earned(turn'[u])
      <3>1. CASE c \in live /\ title[c] = "ai"
        <4>1. PICK u \in Turn : turn[u].conv = c /\ Earned(turn[u])
          BY <3>1 DEF TitleInv, GeneratedTitleFollowsAnswer, Earned
        <4> QED BY <2>2, <4>1
      <3>2. ASSUME NEW u \in Turn, TitleSave(u), turn[u].conv = c
            PROVE  \E v \in Turn : turn'[v].conv = c /\ Earned(turn'[v])
        <4>1. Earned(turn[u])
          BY <3>2 DEF TitleInv, TitleSave
        <4> QED BY <2>2, <3>2, <4>1
      <3> QED BY <2>4, <3>1, <3>2, TitlesSet
    <2> QED BY <2>3, <2>4 DEF TitleInv, GeneratedTitleFollowsAnswer, Earned
  <1>3. CASE EditNext \/ Midnight \/ Quiet \/ UNCHANGED vars
    <2>1. UNCHANGED turn
      BY <1>3 DEF EditNext, PostConversation, ImportConversation, EditTimeout, RenameOpen,
         RenameCommit, DeleteOpen, DeleteCommit, Midnight, Quiet, vars
    <2> QED BY <1>1, <2>1
  <1> QED BY <1>2, <1>3 DEF Next

\* The turn that created a conversation: one, since no other gets its id.
OneCreator == \A t, u \in Turn :
    /\ turn[t].fresh /\ turn[u].fresh
    /\ turn[t].conv = turn[u].conv /\ turn[t].conv # NoConv
    => t = u

\* A turn stays with the conversation it has, and one that creates its
\* conversation gets the next id.
LEMMA CreatorStays ==
    ASSUME Steady, TypeInv, [Next]_vars, NEW t \in Turn
    PROVE  \/ turn'[t].conv = turn[t].conv /\ turn'[t].fresh = turn[t].fresh
           \/ turn'[t].fresh => turn'[t].conv = NoConv
           \/ CreateConversation(t) /\ turn'[t].conv = lastConv + 1
  <1>old. turn[t] \in Handler /\ turn \in [Turn -> Handler]
    BY DEF TypeInv, TypeOK
  <1>1. CASE \E m, c : Arrive(t, m, c)
    <2>1. PICK m, c : Arrive(t, m, c)
      BY <1>1
    <2>2. turn'[t].conv = c /\ turn'[t].fresh = (c = NoConv)
      BY <1>old, <2>1 DEF Arrive, Handler
    <2> QED BY <2>2
  <1>2. CASE CreateConversation(t)
    BY <1>2, CreateEffect
  <1>3. CASE \/ RejectQuota(t) \/ LoseUsageRace(t) \/ ConversationNotFound(t)
             \/ UserMessageRefused(t) \/ ReloadFails(t) \/ StreamFails(t)
             \/ AnswerRefused(t) \/ Disconnect(t) \/ LockTimeout(t)
    <2>1. PICK r \in Reply : Abort(t, r)
      BY <1>3, EarlyEndType
    <2> QED BY <1>old, <2>1 DEF Abort, Closed, Handler
  <1>4. CASE CheckQuota(t) \/ OpenConversation(t) \/ AddUserMessage(t)
             \/ ReloadConversation(t) \/ AiAnswers(t) \/ AiFails(t)
             \/ RecordUsage(t) \/ TitleOpen(t) \/ TitleSave(t)
    BY <1>4, <1>old DEF CheckQuota, OpenConversation, AddUserMessage, ReloadConversation,
       AiAnswers, AiFails, RecordUsage, TitleOpen, TitleSave, Handler
  <1>5. CASE FlushUsageRow(t)
    <2> DEFINE inserted == [turn[t] EXCEPT !.held = @ \cup {turn[t].day}]
    <2>1. PICK h \in {[inserted EXCEPT !.stage = AfterCheck(t)],
                      [inserted EXCEPT !.stage = "save",
                                       !.staged = CountedUp(t, turn[t].day)]} :
            turn' = [turn EXCEPT ![t] = h]
      BY <1>5 DEF FlushUsageRow
    <2>2. h.conv = turn[t].conv /\ h.fresh = turn[t].fresh
      BY <1>old DEF Handler
    <2> QED BY <1>old, <2>1, <2>2
  <1>6. CASE SaveAnswer(t)
    BY <1>6, <1>old DEF SaveAnswer, Closed, Handler
  <1>7. CASE turn'[t] = turn[t]
    BY <1>7
  <1> QED BY <1>1, <1>2, <1>3, <1>4, <1>5, <1>6, <1>7, OneTurnAtATime
          DEF TurnNext, Progress

\* Every step keeps one creator of each conversation.
LEMMA CreatorStep ==
    ASSUME Steady, TypeInv, OwnInv, OneCreator, [Next]_vars
    PROVE  OneCreator'
  <1> SUFFICES ASSUME NEW t \in Turn, NEW u \in Turn, turn'[t].fresh, turn'[u].fresh,
                      turn'[t].conv = turn'[u].conv, turn'[t].conv # NoConv, t # u
               PROVE  FALSE
    BY DEF OneCreator
  <1>1. ~(CreateConversation(t) /\ CreateConversation(u))
    <2>1. ASSUME CreateConversation(t), CreateConversation(u)
          PROVE  FALSE
      <3>1. turn'[u] = turn[u]
        BY <2>1, OtherTurnSteps DEF CreateConversation, TypeInv, TypeOK
      <3> QED BY <2>1, <3>1, CreateEffect
    <2> QED BY <2>1
  <1>2. CASE /\ turn'[t].conv = turn[t].conv /\ turn'[t].fresh = turn[t].fresh
             /\ turn'[u].conv = turn[u].conv /\ turn'[u].fresh = turn[u].fresh
    BY <1>2 DEF OneCreator
  <1>3. ASSUME NEW v \in Turn, turn'[v].fresh, turn'[v].conv # NoConv
        PROVE  \/ turn'[v].conv = turn[v].conv /\ turn'[v].fresh = turn[v].fresh
               \/ CreateConversation(v) /\ turn'[v].conv = lastConv + 1
    BY <1>3, CreatorStays
  <1>4. ASSUME NEW v \in Turn, turn'[v].conv = turn[v].conv, turn'[v].conv = lastConv + 1
        PROVE  FALSE
    <2>1. turn[v].conv <= lastConv /\ lastConv \in Nat
      BY DEF OwnInv, TypeInv, TypeOK
    <2> QED BY <1>4, <2>1
  <1> QED BY <1>1, <1>2, <1>3, <1>4

\* "A generated title" is only given to a conversation whose one creating turn
\* has a committed answer that is no error, whatever else renames or deletes.
\* Where ids come back (SQLite after a deletion) an earlier conversation's turn
\* could stand in for the creator; there nothing is claimed.
THEOREM TitlesAreEarned ==
    ASSUME Backend = "postgres" \/ "delete" \notin Endpoints
    PROVE  Spec => [](GeneratedTitleFollowsAnswer /\ OneCreator)
  <1>1. Init => TitleInv /\ OneCreator
    BY DEF Init, Waiting, TitleInv, GeneratedTitleFollowsAnswer, OneCreator
  <1>2. TypeInv /\ UsageInv /\ TitleInv /\ [Next]_vars => TitleInv'
    BY TitleStep
  <1>3. TypeInv /\ Steady /\ StoreInv /\ OneCreator /\ [Next]_vars => OneCreator'
    BY CreatorStep DEF StoreInv
  <1>4. TitleInv => GeneratedTitleFollowsAnswer
    BY DEF TitleInv
  <1> QED BY <1>1, <1>2, <1>3, <1>4, TypeInvariance, UsageInvariance, StoreInvariance, PTL
          DEF Spec

----------------------------------------------------------------------------
(* Pruning.  What a turn is going to delete has been overflowed since its  *)
(* reload, and stays so: other turns delete only overflowed rows too, and  *)
(* a DELETE takes the whole conversation.                                  *)

PruneInv == \A t \in Turn : Pruning(turn[t]) =>
                \A r \in Orphans(t) \cap rows : Overflowed(r)

\* Rows go with the commit of an answer, overflowed, or with their conversation.
LEMMA GoneRows ==
    ASSUME Steady, TypeInv, StoreInv, PruneInv, [Next]_vars,
           NEW q \in rows \ rows'
    PROVE  \/ \E t \in Turn : /\ SaveAnswer(t) /\ q \in Orphans(t) /\ q.conv = turn[t].conv
                              /\ Overflowed(q)
           \/ q.conv \notin live' /\ \A p \in rows' : p.conv # q.conv
  <1>1. ASSUME NEW t \in Turn, TurnNext(t)
        PROVE  SaveAnswer(t) /\ q \in Orphans(t) /\ q.conv = turn[t].conv /\ Overflowed(q)
    <2>1. SaveAnswer(t)
      BY <1>1, TurnCases, ArriveEffect, OpenEffect, CreateEffect, SayEffect, ReloadEffect
         DEF Inserts
    <2>2. PICK o \in Orphans(t) : o.id = q.id
      BY <2>1, SaveEffect DEF Inserts, Ids
    <2>3. o = q
      BY <2>2 DEF StoreInv, IdsInv, Seen, Orphans
    <2> QED BY <2>1, <2>2, <2>3, SaveEffect
            DEF PruneInv, StoreInv, LoadedInv, Orphans
  <1>2. ASSUME NEW d \in deletes, DeleteCommit(d)
        PROVE  q.conv \notin live' /\ \A p \in rows' : p.conv # q.conv
    <2>1. /\ RowsOf(d.conv) \subseteq d.loaded
          /\ live' = live \ {d.conv}
          /\ rows' = {r \in rows : r.id \notin Ids(d.loaded)}
      BY <1>2 DEF DeleteCommit, DeleteRefused, Steady
    <2>2. PICK o \in d.loaded : o.id = q.id
      BY <2>1 DEF Ids
    <2>3. o = q
      BY <2>2 DEF StoreInv, IdsInv, Seen
    <2>4. q.conv = d.conv
      BY <2>2, <2>3 DEF StoreInv, LoadedInv
    <2> QED BY <2>1, <2>4 DEF RowsOf, Ids
  <1>3. CASE EditNext \/ Midnight \/ Quiet \/ UNCHANGED vars
    <2>1. \E d \in deletes : DeleteCommit(d)
      BY <1>3, EditCases DEF PostConversation, ImportConversation, DeleteOpen, msgVars, dbVars
    <2> QED BY <1>2, <2>1
  <1> QED BY <1>1, <1>3 DEF Next

\* A row that has been overflowed stays so as long as its conversation stays,
\* whether or not it is still there itself.
LEMMA OverflowStays ==
    ASSUME Steady, TypeInv, StoreInv, PruneInv, IsFiniteSet(rows'),
           [Next]_vars, NEW r \in Row, Overflowed(r), r \in rows' \/ r.conv \in live'
    PROVE  Overflowed(r)'
  <1>1. PICK L \in SUBSET NewerThan(r) :
            Cardinality(L) >= Window /\ \A q \in L : ~Overflowed(q)
    BY WindowBehind DEF StoreInv
  <1>2. L \subseteq NewerThan(r)'
    <2>1. ASSUME NEW q \in L
          PROVE  q \in rows'
      <3>1. q \in rows /\ q.conv = r.conv
        BY DEF NewerThan
      <3> QED BY <1>1, <3>1, GoneRows
    <2> QED BY <2>1 DEF NewerThan
  <1>3. IsFiniteSet(NewerThan(r)')
    <2>1. NewerThan(r)' \subseteq rows'
      BY DEF NewerThan
    <2> QED BY <2>1, FS_Subset
  <1>4. /\ Cardinality(L) <= Cardinality(NewerThan(r)')
        /\ Cardinality(L) \in Nat /\ Cardinality(NewerThan(r)') \in Nat
    BY <1>2, <1>3, FS_Subset, FS_CardinalityType
  <1> QED BY <1>1, <1>4, LimitAssumption DEF Overflowed

\* Every step keeps what is going to be deleted overflowed.
LEMMA PruneStep ==
    ASSUME Steady, TypeInv, StoreInv, PruneInv, IsFiniteSet(rows'), [Next]_vars
    PROVE  PruneInv'
  <1> SUFFICES ASSUME NEW t \in Turn, Pruning(turn'[t]),
                      NEW r \in rows', r \in turn'[t].loaded, r \notin turn'[t].window
               PROVE  Overflowed(r)'
    BY DEF PruneInv, Orphans
  <1>1. CASE turn'[t].loaded = turn[t].loaded /\ turn'[t].window = turn[t].window
             /\ Pruning(turn[t])
    <2>1. r \in Orphans(t)
      BY <1>1 DEF Orphans
    <2>2. r.id <= lastRow /\ r.id \in Nat
      BY <1>1 DEF StoreInv, IdsInv, Seen, Row
    <2>3. r \in rows /\ r \in Row
      BY <2>2, FreshRows DEF TypeInv, TypeOK
    <2> QED BY <1>1, <2>1, <2>3, OverflowStays DEF PruneInv
  <1>2. CASE ReloadConversation(t)
    <2>1. /\ UNCHANGED rows /\ turn'[t].window = Latest(RowsOf(turn[t].conv))
          /\ r \in turn[t].loaded
      BY <1>2, ReloadEffect
    <2>2. r \in RowsOf(turn[t].conv)
      BY <2>1 DEF RowsOf, StoreInv, LoadedInv
    <2>3. NewerThan(r) = {q \in RowsOf(turn[t].conv) : q.id > r.id}
      BY <2>2 DEF NewerThan, RowsOf
    <2>4. ~(Cardinality(NewerThan(r)) < Window)
      BY <2>1, <2>2, <2>3 DEF Latest
    <2>5. Cardinality(NewerThan(r)) \in Nat
      <3>1. NewerThan(r) \in SUBSET rows
        BY DEF NewerThan
      <3> QED BY <3>1, RowsFinite DEF StoreInv
    <2>6. Overflowed(r)
      BY <2>4, <2>5, LimitAssumption DEF Overflowed
    <2> QED BY <2>1, <2>6 DEF Overflowed, NewerThan
  <1>3. CASE TurnNext(t) /\ ~ReloadConversation(t)
    <2>1. MovesOn(turn[t], turn'[t])
      BY <1>3, TurnCases, ArriveEffect, OpenEffect, CreateEffect, SayEffect, SaveEffect
         DEF CutShort, Pruning, Said, Opened, Answered
    <2> QED BY <1>1, <2>1 DEF MovesOn
  <1>4. CASE turn'[t] = turn[t]
    BY <1>1, <1>4
  <1> QED BY <1>2, <1>3, <1>4, OneTurnAtATime

\* What the sessions of turns and the tables hold, for every later proof.
LEMMA PruneInvariance ==
    ASSUME Backend = "postgres" \/ "delete" \notin Endpoints
    PROVE  Spec => [](TypeInv /\ Steady /\ StoreInv /\ IsFiniteSet(rows) /\ PruneInv)
  <1>1. Init => PruneInv
    BY DEF Init, Waiting, PruneInv, Pruning, Opened, PastOpen
  <1>2. TypeInv /\ StoreInv => IsFiniteSet(rows)
    BY RowsFinite DEF StoreInv
  <1>3. TypeInv /\ Steady /\ StoreInv /\ PruneInv /\ [Next]_vars /\ IsFiniteSet(rows)'
            => PruneInv'
    BY PruneStep
  <1> QED BY <1>1, <1>2, <1>3, TypeInvariance, StoreInvariance, PTL DEF Spec

\* Of a conversation that stays, only messages with a full window of newer ones
\* are ever deleted, on PostgreSQL and, without deletions, on SQLite: the
\* orphans a turn found at its reload are still superfluous when it commits,
\* although other turns have pruned the same conversation in between.
THEOREM PruningIsSafe ==
    ASSUME Backend = "postgres" \/ "delete" \notin Endpoints
    PROVE  Spec => OnlyOverflowIsPruned
  <1>1. TypeInv /\ Steady /\ StoreInv /\ PruneInv /\ [Next]_vars =>
            [\A r \in rows \ rows' : r.conv \in live' => Overflowed(r)]_vars
    BY GoneRows
  <1> QED BY <1>1, PruneInvariance, PTL DEF Spec, OnlyOverflowIsPruned

----------------------------------------------------------------------------
(* What was acknowledged is kept: what a turn has written goes with its    *)
(* conversation or behind a full window of newer messages.                 *)

Remains(r) == r \in rows \/ r.conv \notin live \/ Overflowed(r)

\* The question is there from its commit on, the answer from its own.
KeptInv == \A t \in Turn :
    /\ \A r \in turn[t].wrote : r.conv = turn[t].conv /\ Said(turn[t]) /\ Remains(r)
    /\ Said(turn[t]) /\ (Answered(turn[t]) => Acknowledged(turn[t])) =>
         \E r \in turn[t].wrote : r.role = "user"
    /\ Acknowledged(turn[t]) => \E r \in turn[t].wrote : r.role = "assistant"

\* What a turn has written only grows, by what it inserts.
LEMMA WroteGrows ==
    ASSUME TypeInv, [Next]_vars, NEW t \in Turn
    PROVE  turn'[t].wrote =
             IF AddUserMessage(t) THEN rows' \ rows
             ELSE IF SaveAnswer(t) THEN turn[t].wrote \cup (rows' \ rows)
             ELSE turn[t].wrote
  <1>old. turn[t] \in Handler /\ turn \in [Turn -> Handler]
    BY DEF TypeInv, TypeOK
  <1>1. CASE AddUserMessage(t)
    BY <1>1, <1>old DEF AddUserMessage, Handler
  <1>2. CASE SaveAnswer(t)
    <2>1. turn'[t].wrote = turn[t].wrote \cup (rows' \ rows)
      BY <1>2, <1>old DEF SaveAnswer, Closed, Handler
    <2> QED BY <1>2, <2>1 DEF SaveAnswer, AddUserMessage
  <1>3. ASSUME TurnNext(t), ~AddUserMessage(t), ~SaveAnswer(t)
        PROVE  turn'[t].wrote = turn[t].wrote
    <2>1. CASE \/ RejectQuota(t) \/ LoseUsageRace(t) \/ ConversationNotFound(t)
               \/ UserMessageRefused(t) \/ ReloadFails(t) \/ StreamFails(t)
               \/ AnswerRefused(t) \/ Disconnect(t) \/ LockTimeout(t)
      <3>1. PICK r \in Reply : Abort(t, r)
        BY <2>1, EarlyEndType
      <3> QED BY <1>old, <3>1 DEF Abort, Closed, Handler
    <2>2. CASE CheckQuota(t) \/ OpenConversation(t) \/ ReloadConversation(t)
               \/ AiAnswers(t) \/ AiFails(t) \/ RecordUsage(t) \/ TitleOpen(t)
               \/ TitleSave(t)
      BY <1>old, <2>2 DEF CheckQuota, OpenConversation, ReloadConversation, AiAnswers,
         AiFails, RecordUsage, TitleOpen, TitleSave, Handler
    <2>3. CASE \E m, c : Arrive(t, m, c)
      BY <1>old, <2>3 DEF Arrive, Handler
    <2>4. CASE FlushUsageRow(t)
      <3> DEFINE inserted == [turn[t] EXCEPT !.held = @ \cup {turn[t].day}]
      <3>1. PICK h \in {[inserted EXCEPT !.stage = AfterCheck(t)],
                        [inserted EXCEPT !.stage = "save",
                                         !.staged = CountedUp(t, turn[t].day)]} :
              turn' = [turn EXCEPT ![t] = h]
        BY <2>4 DEF FlushUsageRow
      <3>2. h.wrote = turn[t].wrote
        BY <1>old DEF Handler
      <3> QED BY <1>old, <3>1, <3>2
    <2>5. CASE CreateConversation(t)
      BY <1>old, <2>5 DEF CreateConversation, Handler
    <2> QED BY <1>3, <2>1, <2>2, <2>3, <2>4, <2>5 DEF TurnNext, Progress
  <1>4. ASSUME turn'[t] = turn[t], AddUserMessage(t) \/ SaveAnswer(t)
        PROVE  FALSE
    BY <1>4, SayEffect, SaveEffect
  <1> QED BY <1>1, <1>2, <1>3, <1>4, OneTurnAtATime

\* What remains goes on remaining.
LEMMA KeptStays ==
    ASSUME Steady, TypeInv, StoreInv, PruneInv, IsFiniteSet(rows'), [Next]_vars,
           NEW r \in Row, r.conv <= lastConv, Remains(r)
    PROVE  Remains(r)'
  <1>1. CASE r \in rows /\ r \notin rows'
    <2>1. Overflowed(r) \/ r.conv \notin live'
      BY <1>1, GoneRows
    <2> QED BY <2>1, OverflowStays DEF Remains
  <1>2. CASE r.conv \notin live
    <2>1. r.conv \notin live'
      BY <1>2, ConvsGoUp DEF Row, ConvId
    <2> QED BY <2>1 DEF Remains
  <1>3. CASE Overflowed(r)
    BY <1>3, OverflowStays DEF Remains
  <1> QED BY <1>1, <1>2, <1>3 DEF Remains

\* Every step keeps what was said and acknowledged.
LEMMA KeptStep ==
    ASSUME Steady, TypeInv, TypeInv', StoreInv, PruneInv, IsFiniteSet(rows'),
           KeptInv, [Next]_vars
    PROVE  KeptInv'
  <1> SUFFICES ASSUME NEW t \in Turn
               PROVE  /\ \A r \in turn'[t].wrote : /\ r.conv = turn'[t].conv
                                                   /\ Said(turn'[t]) /\ Remains(r)'
                      /\ Said(turn'[t]) /\ (Answered(turn'[t]) => Acknowledged(turn'[t]))
                            => \E r \in turn'[t].wrote : r.role = "user"
                      /\ Acknowledged(turn'[t]) =>
                            \E r \in turn'[t].wrote : r.role = "assistant"
    BY DEF KeptInv
  <1>own. ~Answered(turn[t]) => ~Acknowledged(turn[t])
    BY DEF StoreInv, OwnInv
  <1>kept. ASSUME NEW r \in turn[t].wrote
           PROVE  r.conv = turn'[t].conv /\ Said(turn'[t]) /\ Remains(r)'
    <2>1. r.conv = turn[t].conv /\ Said(turn[t]) /\ Remains(r)
      BY DEF KeptInv
    <2>2. r \in Row /\ r.conv <= lastConv
      BY <2>1 DEF TypeInv, TypeOK, Handler, StoreInv, OwnInv
    <2> QED BY <2>1, <2>2, KeptStays, TurnsGoOn
  <1>new. ASSUME NEW role, NEW gone, Inserts(t, role, gone)
          PROVE  /\ \A r \in rows' \ rows : r.conv = turn[t].conv /\ r.role = role
                                            /\ Remains(r)'
                 /\ rows' \ rows # {}
    <2> DEFINE new == [id |-> lastRow + 1, conv |-> turn[t].conv, turn |-> t, role |-> role]
    <2>1. new \in rows' /\ \A r \in rows' \ rows : r = new
      BY <1>new DEF Inserts
    <2>2. new \notin rows
      <3>1. \A r \in rows : r.id <= lastRow
        BY DEF StoreInv, IdsInv, Seen
      <3>2. new.id = lastRow + 1 /\ lastRow \in Nat
        BY DEF TypeInv, TypeOK
      <3> QED BY <3>1, <3>2
    <2>3. new.conv = turn[t].conv /\ new.role = role
      OBVIOUS
    <2> HIDE DEF new
    <2> QED BY <2>1, <2>2, <2>3 DEF Remains
  <1>1. CASE AddUserMessage(t)
    <2>1. turn'[t].wrote = rows' \ rows /\ Inserts(t, "user", {})
          /\ turn'[t].conv = turn[t].conv /\ Said(turn'[t]) /\ ~Acknowledged(turn'[t])
      BY <1>1, <1>own, WroteGrows, SayEffect DEF Acknowledged
    <2> QED BY <1>new, <2>1
  <1>2. CASE SaveAnswer(t)
    <2>1. /\ turn'[t].wrote = turn[t].wrote \cup (rows' \ rows)
          /\ Inserts(t, "assistant", Ids(Orphans(t)))
          /\ turn'[t].conv = turn[t].conv /\ Said(turn[t]) /\ Said(turn'[t])
          /\ ~Answered(turn[t])
      BY <1>2, WroteGrows, SaveEffect DEF SaveAnswer, AddUserMessage
    <2>2. \E r \in turn[t].wrote : r.role = "user"
      BY <2>1 DEF KeptInv
    <2>3. /\ \A r \in rows' \ rows : r.conv = turn[t].conv /\ r.role = "assistant"
                                     /\ Remains(r)'
          /\ rows' \ rows # {}
      BY <1>new, <2>1
    <2> QED BY <1>kept, <2>1, <2>2, <2>3
  <1>3. CASE ~AddUserMessage(t) /\ ~SaveAnswer(t)
    <2>0. turn'[t].wrote = turn[t].wrote
      BY <1>3, WroteGrows
    <2>1. /\ Said(turn'[t]) => Said(turn[t]) \/ (Answered(turn'[t]) /\ ~Acknowledged(turn'[t]))
          /\ Acknowledged(turn'[t]) => Acknowledged(turn[t])
      <3>1. CASE TurnNext(t)
        <4>1. CASE MovesOn(turn[t], turn'[t])
          BY <4>1 DEF MovesOn, Acknowledged
        <4>2. CASE CutShort(turn[t], turn'[t])
          BY <1>own, <4>2 DEF CutShort, Acknowledged, Answered, Said
        <4>3. CASE \E m \in Modes, c \in ConvId \cup {NoConv} : Arrive(t, m, c)
          BY <4>3, <1>own, ArriveEffect DEF Acknowledged, Said
        <4>4. CASE OpenConversation(t) \/ CreateConversation(t) \/ ReloadConversation(t)
          BY <4>4, OpenEffect, CreateEffect, ReloadEffect DEF Acknowledged
        <4> QED BY <1>3, <3>1, <4>1, <4>2, <4>3, <4>4, TurnCases
      <3>2. CASE turn'[t] = turn[t]
        BY <3>2
      <3> QED BY <3>1, <3>2, OneTurnAtATime
    <2>2. ASSUME Said(turn'[t]), Answered(turn'[t]) => Acknowledged(turn'[t])
          PROVE  \E r \in turn[t].wrote : r.role = "user"
      <3>1. Said(turn[t])
        BY <2>1, <2>2
      <3>2. Answered(turn[t]) => Acknowledged(turn[t])
        BY <2>1, <2>2, <3>1, TurnsGoOn
      <3> QED BY <3>1, <3>2 DEF KeptInv
    <2>3. Acknowledged(turn'[t]) => \E r \in turn[t].wrote : r.role = "assistant"
      BY <2>1 DEF KeptInv
    <2> QED BY <1>kept, <2>0, <2>2, <2>3
  <1> QED BY <1>1, <1>2, <1>3

\* What a client was told is saved is there until the conversation is deleted
\* or Window newer messages follow it, whatever other turns commit, prune or
\* import and whoever disconnects: on PostgreSQL and, while nothing is deleted,
\* on SQLite.
THEOREM AcknowledgedIsStored ==
    ASSUME Backend = "postgres" \/ "delete" \notin Endpoints
    PROVE  Spec => []AcknowledgedTurnStored
  <1>1. Init => KeptInv
    BY DEF Init, Waiting, KeptInv, Said, Opened, PastOpen, Answered, Acknowledged
  <1>2. TypeInv /\ TypeInv' /\ Steady /\ StoreInv /\ PruneInv /\ KeptInv
          /\ IsFiniteSet(rows)' /\ [Next]_vars => KeptInv'
    BY KeptStep
  <1>3. StoreInv /\ KeptInv => AcknowledgedTurnStored
    <2> SUFFICES ASSUME StoreInv, KeptInv, NEW t \in Turn, Acknowledged(turn[t]),
                        turn[t].conv \in live, NEW role \in {"user", "assistant"}
                 PROVE  \E r \in turn[t].wrote : r.role = role /\ (r \in rows \/ Overflowed(r))
      BY DEF AcknowledgedTurnStored, Acknowledged
    <2>1. Answered(turn[t]) /\ Said(turn[t])
      BY DEF StoreInv, OwnInv, Said
    <2>2. PICK r \in turn[t].wrote : r.role = role
      BY <2>1 DEF KeptInv
    <2> QED BY <2>2 DEF KeptInv, Remains
  <1> QED BY <1>1, <1>2, <1>3, TypeInvariance, PruneInvariance, PTL DEF Spec

----------------------------------------------------------------------------
(* The history of the AI call, one turn at a time.  The question of a lone *)
(* turn is still the newest message when the conversation is reloaded.  An *)
(* import in between has a conversation of its own while ids only go up;   *)
(* else SQLite may give it the id of the one the turn goes on with.        *)

\* A message of a turn is one it has said.
SaidInv == \A t \in Turn : \A r \in rows : r.turn = t => Said(turn[t])

\* Every step keeps the messages to turns that have said them.
LEMMA SaidStep ==
    ASSUME TypeInv, SaidInv, [Next]_vars
    PROVE  SaidInv'
  <1>1. ASSUME NEW t \in Turn, NEW r \in rows', r.turn = t
        PROVE  Said(turn'[t])
    <2>1. CASE r \in rows
      BY <1>1, <2>1, TurnsGoOn DEF SaidInv
    <2>2. CASE r \notin rows
      BY <1>1, <2>2, NewRows, SayEffect, SaveEffect, ClientAssumption
    <2> QED BY <2>1, <2>2
  <1> QED BY <1>1 DEF SaidInv

\* A question gets the highest id in the table, on either database.
LEMMA NewestMessage ==
    ASSUME TypeInv, Steady => StoreInv, NEW t \in Turn, AddUserMessage(t)
    PROVE  \E n \in Nat : /\ \A p \in rows : p.id < n
                          /\ \A p \in rows' : p \in rows \/ p.id = n
  <1>nat. lastRow \in Nat /\ \A r \in rows : r.id \in Nat
    BY DEF TypeInv, TypeOK, Row
  <1>1. PICK n \in 1..(lastRow + 1) :
          IsNextRow(n) /\ \A p \in rows' : p \in rows \/ p.id = n
    BY DEF AddUserMessage, InsertRow
  <1>2. \A p \in rows : p.id < n
    <2>1. CASE Backend = "postgres"
      BY <1>nat, <1>1, <2>1 DEF IsNextRow, Steady, StoreInv, IdsInv, Seen
    <2>2. CASE Backend # "postgres"
      BY <1>1, <2>2 DEF IsNextRow
    <2> QED BY <2>1, <2>2
  <1> QED BY <1>nat, <1>1, <1>2

NewestInv ==
    /\ \A t \in Turn : turn[t].stage = "reload" =>
          \A r \in rows : r.turn = t => \A q \in rows : q.conv = r.conv => ~(q.id > r.id)
    /\ \A t \in Turn : Pruning(turn[t]) =>
          \A r, q \in turn[t].window : r.turn = t => ~(q.id > r.id)

\* Every step keeps the question of a lone turn the newest it works with.
LEMMA NewestStep ==
    ASSUME Steady \/ "import" \notin Endpoints, Steady => StoreInv,
           TypeInv, SaidInv, Alone, NewestInv, [Next]_vars
    PROVE  NewestInv'
  <1>reload. \A h : h.stage = "reload" <=> Opened(h) /\ Said(h) /\ ~Pruning(h)
    BY DEF Opened, Said, Pruning, PastOpen, Answered
  <1>1. ASSUME NEW t \in Turn, turn'[t].stage = "reload",
               NEW r \in rows', r.turn = t, NEW q \in rows', q.conv = r.conv, q.id > r.id
        PROVE  FALSE
    <2>1. CASE AddUserMessage(t)
      <3>1. \A p \in rows : p.turn # t
        BY <2>1, SayEffect DEF SaidInv
      <3>2. PICK n \in Nat : /\ \A p \in rows : p.id < n
                            /\ \A p \in rows' : p \in rows \/ p.id = n
        BY <2>1, NewestMessage
      <3>3. \A p \in rows : p.id \in Nat
        BY DEF TypeInv, TypeOK, Row
      <3> QED BY <1>1, <3>1, <3>2, <3>3
    <2>2. CASE turn[t].stage = "reload" /\ rows' = rows
      BY <1>1, <2>2 DEF NewestInv
    <2>3. CASE TurnNext(t) /\ ~AddUserMessage(t)
      <3>1. MovesOn(turn[t], turn'[t]) /\ rows' = rows
        BY <1>1, <1>reload, <2>3, TurnCases, ArriveEffect, OpenEffect, CreateEffect,
           ReloadEffect, SaveEffect DEF CutShort, Said, Opened
      <3>2. turn[t].stage = "reload"
        BY <1>1, <1>reload, <3>1 DEF MovesOn
      <3> QED BY <2>2, <3>1, <3>2
    <2>4. CASE turn'[t] = turn[t]
      <3>1. turn[t].stage = "reload" /\ t \in InFlight
        BY <1>1, <2>4 DEF InFlight
      <3>2. ASSUME NEW u \in Turn, AddUserMessage(u) \/ SaveAnswer(u)
            PROVE  FALSE
        <4>1. u \in InFlight /\ turn[u].stage # "reload"
          BY <3>2 DEF AddUserMessage, SaveAnswer, InFlight
        <4> QED BY <3>1, <4>1 DEF Alone
      <3>3. \A p \in rows' \ rows : /\ p.turn = "imported" /\ p.conv = lastConv + 1
                                    /\ Steady
        BY <3>2, NewRows DEF ImportConversation
      <3>4. r \in rows
        BY <1>1, <3>3, ClientAssumption
      <3>5. Steady =>
              r.conv <= lastConv /\ r.conv \in Nat /\ lastConv \in Nat
        BY <1>1, <3>4 DEF StoreInv, OwnInv, TypeInv, TypeOK, Row, ConvId
      <3>6. q \in rows
        BY <1>1, <3>3, <3>5
      <3> QED BY <1>1, <3>1, <3>4, <3>6 DEF NewestInv
    <2> QED BY <2>1, <2>3, <2>4, OneTurnAtATime
  <1>2. ASSUME NEW t \in Turn, Pruning(turn'[t]), NEW r \in turn'[t].window,
               NEW q \in turn'[t].window, r.turn = t, q.id > r.id
        PROVE  FALSE
    <2>1. CASE Pruning(turn[t]) /\ turn'[t].window = turn[t].window
      BY <1>2, <2>1 DEF NewestInv
    <2>2. CASE ReloadConversation(t)
      <3>1. turn[t].stage = "reload" /\ turn'[t].window \subseteq RowsOf(turn[t].conv)
        BY <2>2, ReloadEffect DEF ReloadConversation, Latest
      <3> QED BY <1>2, <3>1 DEF NewestInv, RowsOf
    <2>3. CASE TurnNext(t) /\ ~ReloadConversation(t)
      <3>1. MovesOn(turn[t], turn'[t])
        BY <1>2, <2>3, TurnCases, ArriveEffect, OpenEffect, CreateEffect, SayEffect,
           SaveEffect DEF CutShort, Pruning, Said, Opened, Answered
      <3> QED BY <1>2, <2>1, <3>1 DEF MovesOn
    <2>4. CASE turn'[t] = turn[t]
      BY <1>2, <2>1, <2>4
    <2> QED BY <2>2, <2>3, <2>4, OneTurnAtATime
  <1> QED BY <1>1, <1>2 DEF NewestInv

\* With one turn at a time messages[:-1] leaves out the turn's own question,
\* which the AI is given apart: other endpoints may import or delete between
\* its commit and the reload, and it is still the last.  On SQLite not both,
\* since an import may take over a deleted conversation's id.
THEOREM SequentialHistory ==
    ASSUME \/ Backend = "postgres"
           \/ "import" \notin Endpoints
           \/ "delete" \notin Endpoints,
           MaxInFlight = 1
    PROVE  Spec => []HistoryExcludesOwnMessage
  <1> DEFINE Stored == (Steady \/ "import" \notin Endpoints) /\ (Steady => StoreInv)
  <1>1. Init => SaidInv /\ NewestInv
    BY DEF Init, Waiting, SaidInv, NewestInv, Pruning, Opened, PastOpen
  <1>2. TypeInv /\ Stored /\ ExactInv /\ SaidInv /\ NewestInv /\ [Next]_vars
            => SaidInv' /\ NewestInv'
    BY SaidStep, NewestStep DEF ExactInv
  <1>3. NewestInv => HistoryExcludesOwnMessage
    <2>1. \A h : h.stage = "ai" => Pruning(h)
      BY DEF Pruning, Opened, PastOpen, Answered
    <2> QED BY <2>1 DEF NewestInv, HistoryExcludesOwnMessage, History
  <1>4. Spec => []ExactInv
    BY ExactInvariance
  <1>5. Spec => []Stored
    <2>1. CASE Backend = "postgres" \/ "delete" \notin Endpoints
      <3>1. Steady /\ StoreInv => Stored
        OBVIOUS
      <3>2. Spec => [](Steady /\ StoreInv)
        BY <2>1, StoreInvariance
      <3> QED BY <3>1, <3>2, PTL
    <2>2. CASE ~(Backend = "postgres" \/ "delete" \notin Endpoints)
      <3>1. Stored
        BY <2>2 DEF Steady
      <3> QED BY <3>1, PTL
    <2> QED BY <2>1, <2>2
  <1> HIDE DEF Stored
  <1> QED BY <1>1, <1>2, <1>3, <1>4, <1>5, TypeInvariance, PTL DEF Spec

============================================================================
