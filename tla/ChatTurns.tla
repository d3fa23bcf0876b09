----------------------------- MODULE ChatTurns -----------------------------
(***************************************************************************)
(* The chat endpoints of JULIBOT (POST /conversations/chat and             *)
(* /conversations/chat/stream) for one registered user, at the grain of    *)
(* their database round trips and AI calls: every await of a handler is a  *)
(* point where another request of the same user may run.  The module holds *)
(* the conversations, messages and user_usage tables, what each turn's ORM *)
(* session has loaded or left uncommitted, the title job a turn schedules, *)
(* and the create / import / rename / delete endpoints that run beside it. *)
(***************************************************************************)
EXTENDS Naturals, FiniteSets

CONSTANTS
    Turn,          \* chat requests (POST /chat or /chat/stream)
    Modes,         \* chat endpoints in use: "sync" (/chat), "stream" (/chat/stream)
    Endpoints,     \* other endpoints in use: "post", "import", "rename", "delete"
    Backend,       \* "postgres" or "sqlite"
    Window,        \* messages reloaded for the AI: max_history_messages + 20
    DailyRequests, \* quota_daily_requests
    DailyTokens,   \* quota_daily_output_tokens
    AnswerTokens,  \* output token counts an AI answer may report
    ImportSize,    \* messages of an imported conversation
    MaxConv,       \* bound: conversation ids are 1..MaxConv
    MaxDay,        \* bound: days are 1..MaxDay
    MaxInFlight    \* bound: chat requests of the user being served at once

ASSUME BackendAssumption == Backend \in {"postgres", "sqlite"}
ASSUME ClientAssumption ==
    /\ IsFiniteSet(Turn)
    /\ "imported" \notin Turn
    /\ Modes \subseteq {"sync", "stream"}
    /\ Endpoints \subseteq {"post", "import", "rename", "delete"}
ASSUME LimitAssumption ==
    /\ Window \in Nat \ {0}
    /\ DailyRequests \in Nat \ {0}
    /\ DailyTokens \in Nat \ {0}
    /\ AnswerTokens \subseteq Nat
    /\ ImportSize \in Nat
ASSUME BoundAssumption ==
    /\ MaxConv \in Nat \ {0}
    /\ MaxDay \in Nat \ {0}
    /\ MaxInFlight \in Nat \ {0}

VARIABLES
    live,       \* ids of the rows of conversations
    lastConv,   \* highest conversation id handed out so far
    title,      \* conversations.title
    rows,       \* the rows of messages
    lastRow,    \* highest message id handed out so far
    usageDays,  \* days that have a committed user_usage row
    usage,      \* counters of those rows (zero where there is no row)
    today,      \* utcnow().date()
    turn,       \* each chat request: handler, session and response
    renames,    \* conversations loaded by a PATCH that has not committed
    deletes     \* what a DELETE that has not committed has loaded

convVars  == <<live, lastConv, title>>
msgVars   == <<rows, lastRow>>
usageVars == <<usageDays, usage>>
dbVars    == <<convVars, msgVars, usageVars>>
editVars  == <<renames, deletes>>
vars      == <<dbVars, today, turn, editVars>>

NoConv == 0
NoDay  == 0
ConvId == 1..MaxConv
Day    == 1..MaxDay

Row     == [id: Nat, conv: ConvId, turn: Turn \cup {"imported"},
            role: {"user", "assistant"}]
Counter == [req: Nat, out: Nat]
Delete  == [conv: ConvId, loaded: SUBSET Row]
Title   == {"temp", "user", "ai"}
Reply   == {"none", "ok", "404", "429", "500", "done", "error", "truncated", "dried",
            "gone"}
Stage   == {"idle", "check", "flush", "open", "say", "reload", "ai", "record",
            "reflush", "save", "title", "titleSave", "ended"}

Handler == [
    stage:   Stage,                     \* the await the handler stands at
    mode:    {"sync", "stream"},        \* /chat or /chat/stream
    conv:    ConvId \cup {NoConv},      \* NoConv until one is created
    fresh:   BOOLEAN,                   \* is_new_conversation
    loaded:  SUBSET Row,                \* conversation.messages as first loaded
    window:  SUBSET Row,                \* what it was then reassigned to
    held:    SUBSET Day,                \* usage rows inserted, not committed
    day:     Day,                       \* date of the last usage SELECT
    failed:  BOOLEAN,                   \* the answer is an "[Error]" text
    tokens:  Nat,                       \* output tokens of the answer
    staged:  Counter,                   \* counters the answer's commit writes
    draft:   Title,                     \* title generated in the background
    reply:   Reply,                     \* how the response ended
    counted: Day \cup {NoDay},          \* history: day its usage was committed on
    wrote:   SUBSET Row]                \* history: the messages it has committed

TypeOK ==
    /\ live \subseteq ConvId
    /\ lastConv \in 0..MaxConv
    /\ title \in [ConvId -> Title]
    /\ rows \subseteq Row
    /\ lastRow \in Nat
    /\ usageDays \subseteq Day
    /\ usage \in [Day -> Counter]
    /\ today \in Day
    /\ turn \in [Turn -> Handler]
    /\ renames \subseteq ConvId
    /\ deletes \subseteq Delete

Zero == [req |-> 0, out |-> 0]

Waiting == [stage |-> "idle", mode |-> "sync", conv |-> NoConv, fresh |-> FALSE,
            loaded |-> {}, window |-> {}, held |-> {}, day |-> 1,
            failed |-> FALSE, tokens |-> 0, staged |-> Zero, draft |-> "temp",
            reply |-> "none", counted |-> NoDay, wrote |-> {}]

Init ==
    /\ live = {} /\ lastConv = 0 /\ title = [c \in ConvId |-> "temp"]
    /\ rows = {} /\ lastRow = 0
    /\ usageDays = {} /\ usage = [d \in Day |-> Zero]
    /\ today = 1
    /\ turn = [t \in Turn |-> Waiting]
    /\ renames = {} /\ deletes = {}

----------------------------------------------------------------------------
(* The tables.                                                             *)

RowsOf(c) == {r \in rows : r.conv = c}
Ids(S)    == {r.id : r \in S}

\* Variant of Latest: the order of the query is ascending.
LatestAscending(S) == {r \in S : Cardinality({q \in S : q.id < r.id}) < Window}

\* ORDER BY created_at DESC LIMIT Window.  Ids grow in commit order, so they
\* stand for created_at among the rows the table holds at one moment.
Latest(S) == {r \in S : Cardinality({q \in S : q.id > r.id}) < Window}

\* Ids the next inserts get: a PostgreSQL sequence never goes back, a SQLite
\* rowid (no AUTOINCREMENT) is one more than the highest id in the table.
IsNextRow(n) ==
    IF Backend = "postgres" THEN n = lastRow + 1
    ELSE /\ \A r \in rows : r.id < n
         /\ n = 1 \/ \E r \in rows : r.id = n - 1
IsNextConv(c) ==
    IF Backend = "postgres" THEN c = lastConv + 1
    ELSE (\A k \in live : k < c) /\ (c = 1 \/ c - 1 \in live)

InsertConv(c, name) ==
    /\ IsNextConv(c)
    /\ live' = live \cup {c}
    /\ lastConv' = IF c > lastConv THEN c ELSE lastConv
    /\ title' = [title EXCEPT ![c] = name]

\* Insert the turn's message and delete the messages with the given ids.
InsertRow(t, role, gone) ==
    \E n \in 1..(lastRow + 1) :
        /\ IsNextRow(n)
        /\ rows' = {r \in rows : r.id \notin gone} \cup
                   {[id |-> n, conv |-> turn[t].conv, turn |-> t, role |-> role]}
        /\ lastRow' = IF n > lastRow THEN n ELSE lastRow

\* Variant of MayRefer: no database checks the reference.
MayReferUnchecked(c) == c \in 1..lastConv

\* Foreign keys are enforced by PostgreSQL only.
MayRefer(c) == Backend = "postgres" => c \in live

\* SQLite has one writer: while a session holds an uncommitted insert nobody
\* else writes.  PostgreSQL blocks on conflicting rows only.
MayWrite(others) == Backend = "sqlite" => \A u \in others : turn[u].held = {}

Others(t) == Turn \ {t}

----------------------------------------------------------------------------
(* What a chat handler's session knows, and how a handler ends.            *)

\* Variant of History: the last message is not left out.
HistoryWhole(t) == turn[t].window

\* conversation.messages[:-1]
History(t) == {r \in turn[t].window : \E q \in turn[t].window : q.id > r.id}

\* Variant of Orphans: a DELETE of whatever is not in the window by now.
OrphansByNow(t) == RowsOf(turn[t].conv) \ turn[t].window

\* Reassigning conversation.messages makes every loaded message that is not
\* in the new list an orphan, deleted by the next flush (delete-orphan).
Orphans(t) == turn[t].loaded \ turn[t].window

\* user_usage rows a SELECT in the turn's transaction returns.
Sees(t, d) == d \in usageDays \cup turn[t].held

\* Variant of OverQuota: the limit itself is still served.
OverQuotaLate(d) == usage[d].req > DailyRequests \/ usage[d].out > DailyTokens

OverQuota(d) == usage[d].req >= DailyRequests \/ usage[d].out >= DailyTokens

\* Variants of CountedUp: failed answers are not counted; the request is
\* counted twice; it is given back.
CountedUnlessFailed(t, d) == [req |-> usage[d].req + (IF turn[t].failed THEN 0 ELSE 1),
                              out |-> usage[d].out + turn[t].tokens]
CountedTwice(t, d) == [req |-> usage[d].req + 2, out |-> usage[d].out + turn[t].tokens]
CountedDown(t, d)  == [req |-> usage[d].req - 1, out |-> usage[d].out + turn[t].tokens]

\* The day's counters with the turn's request and answer added.
CountedUp(t, d) == [req |-> usage[d].req + 1, out |-> usage[d].out + turn[t].tokens]

\* Variant of AfterSave: an "[Error]" answer gets a title job too.
AfterSaveAlways(t) == IF turn[t].fresh THEN "title" ELSE "ended"

\* A new conversation that got a real answer gets a title job.
AfterSave(t) == IF turn[t].fresh /\ ~turn[t].failed THEN "title" ELSE "ended"

InFlight == {t \in Turn : turn[t].stage \notin {"idle", "title", "titleSave", "ended"}}

\* Variant of Closed: the session is left open, its insert uncommitted.
ClosedLeaking(t, stage, r) ==
    [turn[t] EXCEPT !.stage = stage, !.reply = r, !.loaded = {}, !.window = {}]

\* The response is complete and the session closed: what it had loaded is
\* forgotten, what it had not committed is rolled back.
Closed(t, stage, r) ==
    [turn[t] EXCEPT !.stage = stage, !.reply = r,
                    !.loaded = {}, !.window = {}, !.held = {}, !.staged = Zero]

Abort(t, r) ==
    /\ turn' = [turn EXCEPT ![t] = Closed(t, "ended", r)]
    /\ UNCHANGED <<dbVars, today, editVars>>

\* The reply by endpoint: with HTTP status or, once the SSE response has
\* started, without.
ByMode(t, sync, stream) == IF turn[t].mode = "stream" THEN stream ELSE sync
Raised(t)   == ByMode(t, "500", "truncated") \* exception outside any try
Caught(t)   == ByMode(t, "500", "error")     \* exception inside stream's try
Rejected(t) == ByMode(t, "429", "truncated") \* _enforce_quota's HTTPException

----------------------------------------------------------------------------
(* A chat request.                                                         *)

\* A client posts a message to a conversation it knows, which may be deleted
\* by now, or to a new one.
Arrive(t, m, c) ==
    /\ turn[t].stage = "idle"
    /\ Cardinality(InFlight) < MaxInFlight
    /\ c \in 0..lastConv
    /\ turn' = [turn EXCEPT ![t].stage = IF m = "stream" THEN "open" ELSE "check",
                            ![t].mode = m, ![t].conv = c, ![t].fresh = (c = NoConv)]
    /\ UNCHANGED <<dbVars, today, editVars>>

AfterCheck(t) == ByMode(t, "open", "ai")

\* check_quota when today's row is missing, or is there and below the limits.
CheckQuota(t) ==
    /\ turn[t].stage = "check"
    /\ Sees(t, today) => ~OverQuota(today)
    /\ turn' = [turn EXCEPT ![t].day = today,
                            ![t].stage = IF Sees(t, today) THEN AfterCheck(t) ELSE "flush"]
    /\ UNCHANGED <<dbVars, today, editVars>>

RejectQuota(t) ==
    /\ turn[t].stage = "check"
    /\ Sees(t, today) /\ OverQuota(today)
    /\ Abort(t, Rejected(t))

\* _get_or_create's flush waits for any other open transaction that has
\* inserted the same row.
FlushReady(t) ==
    /\ turn[t].stage \in {"flush", "reflush"}
    /\ \A u \in Others(t) : turn[t].day \notin turn[u].held
    /\ MayWrite(Others(t))

\* It leaves the new row uncommitted.  For check_quota that row is below the
\* limits; record_usage counts it up.
FlushUsageRow(t) ==
    LET inserted == [turn[t] EXCEPT !.held = @ \cup {turn[t].day}] IN
    /\ FlushReady(t)
    /\ turn[t].day \notin usageDays
    /\ turn' = [turn EXCEPT ![t] =
            IF turn[t].stage = "flush" THEN [inserted EXCEPT !.stage = AfterCheck(t)]
            ELSE [inserted EXCEPT !.stage = "save",
                                  !.staged = CountedUp(t, turn[t].day)]]
    /\ UNCHANGED <<dbVars, today, editVars>>

\* Another transaction committed the row first: IntegrityError, db.rollback()
\* and a second SELECT.  The rollback expires every object of the session, so
\* the handler fails at the next attribute it reads of its user or
\* conversation, unless the second SELECT shows the quota used up.
LoseUsageRace(t) ==
    /\ FlushReady(t)
    /\ turn[t].day \in usageDays
    /\ Abort(t, IF turn[t].stage = "reflush" THEN Caught(t)
                ELSE IF today \notin usageDays THEN Raised(t)
                ELSE IF OverQuota(today) THEN Rejected(t)
                ELSE Caught(t))

OpenConversation(t) ==
    /\ turn[t].stage = "open" /\ turn[t].conv \in live
    /\ turn' = [turn EXCEPT ![t].stage = "say", ![t].loaded = RowsOf(turn[t].conv)]
    /\ UNCHANGED <<dbVars, today, editVars>>

ConversationNotFound(t) ==
    /\ turn[t].stage = "open" /\ turn[t].conv \notin live \cup {NoConv}
    /\ Abort(t, ByMode(t, "404", "error"))

\* Any commit makes the usage row the session has inserted permanent.
CreateConversation(t) ==
    /\ turn[t].stage = "open" /\ turn[t].conv = NoConv
    /\ MayWrite(Others(t))
    /\ usageDays' = usageDays \cup turn[t].held
    /\ \E c \in ConvId :
        /\ InsertConv(c, "temp")
        /\ turn' = [turn EXCEPT ![t].stage = "say", ![t].conv = c, ![t].held = {}]
    /\ UNCHANGED <<msgVars, usage, today, editVars>>

\* The user's message is committed on its own, before the AI is called.
AddUserMessage(t) ==
    /\ turn[t].stage = "say" /\ MayRefer(turn[t].conv)
    /\ MayWrite(Others(t))
    /\ InsertRow(t, "user", {})
    /\ usageDays' = usageDays \cup turn[t].held
    /\ turn' = [turn EXCEPT ![t].stage = "reload", ![t].held = {},
                            ![t].wrote = rows' \ rows]
    /\ UNCHANGED <<convVars, usage, today, editVars>>

\* The conversation is gone: the foreign key refuses the message.
UserMessageRefused(t) ==
    /\ turn[t].stage = "say" /\ ~MayRefer(turn[t].conv)
    /\ Abort(t, Raised(t))

\* Reload with message_limit: the latest messages replace the collection.
ReloadConversation(t) ==
    /\ turn[t].stage = "reload" /\ turn[t].conv \in live
    /\ turn' = [turn EXCEPT ![t].window = Latest(RowsOf(turn[t].conv)),
                            ![t].stage = ByMode(t, "ai", "check")]
    /\ UNCHANGED <<dbVars, today, editVars>>

ReloadFails(t) ==
    /\ turn[t].stage = "reload" /\ turn[t].conv \notin live
    /\ Abort(t, Caught(t))

AiAnswers(t) ==
    /\ turn[t].stage = "ai"
    /\ \E k \in AnswerTokens :
        turn' = [turn EXCEPT ![t].stage = "record", ![t].tokens = k]
    /\ UNCHANGED <<dbVars, today, editVars>>

\* /chat turns an AIException into an "[Error] ..." answer and goes on.
AiFails(t) ==
    /\ turn[t].stage = "ai" /\ turn[t].mode = "sync"
    /\ turn' = [turn EXCEPT ![t].stage = "record", ![t].failed = TRUE]
    /\ UNCHANGED <<dbVars, today, editVars>>

\* /chat/stream sends an error event and ends.  When the router's stream dries
\* up (ProviderRouter) it ends without an error and without a final chunk.
StreamFails(t) ==
    /\ turn[t].stage = "ai" /\ turn[t].mode = "stream"
    /\ \E r \in {"error", "dried"} : Abort(t, r)

\* record_usage(commit=False): read the counters, stage the new values.
RecordUsage(t) ==
    /\ turn[t].stage = "record"
    /\ turn' = [turn EXCEPT ![t].day = today,
            ![t].stage = IF Sees(t, today) THEN "save" ELSE "reflush",
            ![t].staged = IF Sees(t, today) THEN CountedUp(t, today) ELSE @]
    /\ UNCHANGED <<dbVars, today, editVars>>

\* One transaction: the answer, the staged counters, the orphans' deletion.
SaveAnswer(t) ==
    /\ turn[t].stage = "save" /\ MayRefer(turn[t].conv)
    /\ MayWrite(Others(t))
    /\ InsertRow(t, "assistant", Ids(Orphans(t)))
    /\ usageDays' = usageDays \cup turn[t].held
    /\ usage' = [usage EXCEPT ![turn[t].day] = turn[t].staged]
    /\ turn' = [turn EXCEPT ![t] =
            [Closed(t, AfterSave(t), ByMode(t, "ok", "done"))
                EXCEPT !.counted = turn[t].day, !.wrote = @ \cup (rows' \ rows)]]
    /\ UNCHANGED <<convVars, today, editVars>>

AnswerRefused(t) ==
    /\ turn[t].stage = "save" /\ ~MayRefer(turn[t].conv)
    /\ Abort(t, Caught(t))

----------------------------------------------------------------------------
(* The background title job of a turn, in a session of its own.            *)

\* generate_title falls back on the temporary title when the AI fails; an
\* unchanged title is not written.
TitleOpen(t) ==
    /\ turn[t].stage = "title"
    /\ \E g \in {"ai", "temp"} :
        turn' = [turn EXCEPT ![t].draft = g,
            ![t].stage = IF turn[t].conv \in live /\ title[turn[t].conv] # g
                         THEN "titleSave" ELSE "ended"]
    /\ UNCHANGED <<dbVars, today, editVars>>

\* Without the conversation the UPDATE matches no row; the error is swallowed.
TitleSave(t) ==
    /\ turn[t].stage = "titleSave"
    /\ MayWrite(Others(t))
    /\ title' = IF turn[t].conv \in live
                THEN [title EXCEPT ![turn[t].conv] = turn[t].draft] ELSE title
    /\ turn' = [turn EXCEPT ![t].stage = "ended"]
    /\ UNCHANGED <<live, lastConv, msgVars, usageVars, today, editVars>>

----------------------------------------------------------------------------
(* What cuts a turn short.                                                 *)

\* The client of a stream goes away: the generator is cancelled where it
\* stands.  After the done event only the title job is lost.
Disconnect(t) ==
    /\ turn[t].mode = "stream"
    /\ turn[t].stage \notin {"idle", "titleSave", "ended"}
    /\ Abort(t, IF turn[t].stage = "title" THEN turn[t].reply ELSE "gone")

Writing(t) ==
    \/ turn[t].stage \in {"flush", "say", "reflush", "save", "titleSave"}
    \/ turn[t].stage = "open" /\ turn[t].conv = NoConv

\* SQLite: "database is locked" after the busy timeout.
LockTimeout(t) ==
    /\ Writing(t) /\ ~MayWrite(Others(t))
    /\ Abort(t, IF turn[t].stage = "titleSave" THEN turn[t].reply
                ELSE IF turn[t].stage \in {"reflush", "save"} THEN Caught(t)
                ELSE Raised(t))

----------------------------------------------------------------------------
(* The other endpoints of the same user.                                   *)

\* Bound: these endpoints leave a conversation id for every turn.
RoomForConv ==
    LET unserved == {t \in Turn : turn[t].conv = NoConv /\ turn[t].stage # "ended"}
    IN  lastConv + Cardinality(unserved) < MaxConv

\* POST /conversations/
PostConversation ==
    /\ "post" \in Endpoints /\ RoomForConv /\ MayWrite(Turn)
    /\ \E c \in ConvId : InsertConv(c, "user")
    /\ UNCHANGED <<msgVars, usageVars, today, turn, editVars>>

\* POST /conversations/import: a conversation and its messages in one commit.
ImportConversation ==
    /\ "import" \in Endpoints /\ RoomForConv /\ MayWrite(Turn)
    /\ \E c \in ConvId, n \in 1..(lastRow + 1) :
        LET last == n + ImportSize - 1 IN
        /\ InsertConv(c, "user")
        /\ IsNextRow(n)
        /\ rows' = rows \cup [id: n..last, conv: {c}, turn: {"imported"}, role: {"user"}]
        /\ lastRow' = IF last > lastRow THEN last ELSE lastRow
    /\ UNCHANGED <<usageVars, today, turn, editVars>>

\* PATCH /conversations/{id}: load, then update and commit.
RenameOpen(c) ==
    /\ "rename" \in Endpoints /\ c \in live \ renames
    /\ renames' = renames \cup {c}
    /\ UNCHANGED <<dbVars, today, turn, deletes>>

RenameCommit(c) ==
    /\ c \in renames /\ MayWrite(Turn)
    /\ renames' = renames \ {c}
    /\ title' = IF c \in live THEN [title EXCEPT ![c] = "user"] ELSE title
    /\ UNCHANGED <<live, lastConv, msgVars, usageVars, today, turn, deletes>>

\* DELETE /conversations/{id}: load it with its messages, then delete those.
\* Bound: one DELETE of a conversation at a time.
DeleteOpen(c) ==
    /\ "delete" \in Endpoints /\ c \in live /\ \A d \in deletes : d.conv # c
    /\ deletes' = deletes \cup {[conv |-> c, loaded |-> RowsOf(c)]}
    /\ UNCHANGED <<dbVars, today, turn, renames>>

\* A message that arrived after the load makes the foreign key refuse.
DeleteRefused(d) == Backend = "postgres" /\ ~(RowsOf(d.conv) \subseteq d.loaded)

DeleteCommit(d) ==
    /\ MayWrite(Turn)
    /\ deletes' = deletes \ {d}
    /\ IF DeleteRefused(d) THEN UNCHANGED <<live, rows>>
       ELSE /\ live' = live \ {d.conv}
            /\ rows' = {r \in rows : r.id \notin Ids(d.loaded)}
    /\ UNCHANGED <<lastConv, title, lastRow, usageVars, today, turn, renames>>

EditTimeout ==
    /\ ~MayWrite(Turn)
    /\ \/ \E c \in renames : renames' = renames \ {c} /\ UNCHANGED deletes
       \/ \E d \in deletes : deletes' = deletes \ {d} /\ UNCHANGED renames
    /\ UNCHANGED <<dbVars, today, turn>>

Midnight ==
    /\ today < MaxDay
    /\ today' = today + 1
    /\ UNCHANGED <<dbVars, turn, editVars>>

----------------------------------------------------------------------------

\* The steps a turn takes by itself once it has been received.
Progress(t) ==
    \/ CheckQuota(t) \/ RejectQuota(t) \/ FlushUsageRow(t) \/ LoseUsageRace(t)
    \/ OpenConversation(t) \/ ConversationNotFound(t) \/ CreateConversation(t)
    \/ AddUserMessage(t) \/ UserMessageRefused(t)
    \/ ReloadConversation(t) \/ ReloadFails(t)
    \/ AiAnswers(t) \/ AiFails(t) \/ StreamFails(t)
    \/ RecordUsage(t) \/ SaveAnswer(t) \/ AnswerRefused(t)
    \/ TitleOpen(t) \/ TitleSave(t)

TurnNext(t) ==
    \/ \E m \in Modes, c \in ConvId \cup {NoConv} : Arrive(t, m, c)
    \/ Progress(t) \/ Disconnect(t) \/ LockTimeout(t)

EditNext ==
    \/ PostConversation \/ ImportConversation \/ EditTimeout
    \/ \E c \in ConvId : RenameOpen(c) \/ RenameCommit(c) \/ DeleteOpen(c)
    \/ \E d \in deletes : DeleteCommit(d)

\* Every request has been served: the only state the system may stop in.
Quiet ==
    /\ \A t \in Turn : turn[t].stage = "ended"
    /\ UNCHANGED vars

Next == (\E t \in Turn : TurnNext(t)) \/ EditNext \/ Midnight \/ Quiet

Spec == Init /\ [][Next]_vars

\* The event loop resumes every coroutine that can run, and an AI call ends
\* with an answer or an error.
FairSpec == Spec /\ \A t \in Turn : WF_vars(Progress(t))

----------------------------------------------------------------------------
(* Properties.                                                             *)

CountedOn(d) == {t \in Turn : turn[t].counted = d}

NewerThan(r) == {q \in rows : q.conv = r.conv /\ q.id > r.id}
Overflowed(r) == Cardinality(NewerThan(r)) >= Window

\* The usage row never shows more requests than were answered that day, in
\* whatever order concurrent turns read, stage and commit the counters
\* (record_usage and the assistant commit).
UsageNeverOvercounts ==
    \A d \in Day : usage[d].req <= Cardinality(CountedOn(d))

\* With one turn at a time the counters are exact: no answer goes uncounted,
\* also across midnight and after failed turns.
UsageExact ==
    \A d \in Day : usage[d].req = Cardinality(CountedOn(d))

\* "Enforces configurable daily request and output-token limits": no day has
\* more answered requests than quota_daily_requests, and its output tokens pass
\* quota_daily_output_tokens by less than one of the answers of that day.
DailyLimitsEnforced ==
    \A d \in Day :
        /\ Cardinality(CountedOn(d)) <= DailyRequests
        /\ CountedOn(d) # {} =>
            \E t \in CountedOn(d) : usage[d].out < DailyTokens + turn[t].tokens

\* The history handed to the AI excludes "the user message we just added":
\* the orchestrator appends that message itself.
HistoryExcludesOwnMessage ==
    \A t \in Turn : turn[t].stage = "ai" =>
        \A r \in History(t) : r.turn # t

\* A turn deletes only messages that have at least Window newer ones in their
\* conversation: whatever other turns commit between its reload and its own
\* commit, the latest messages of a live conversation are never lost.
OnlyOverflowIsPruned ==
    [][\A r \in rows \ rows' : r.conv \in live' => Overflowed(r)]_vars

\* What the client was told is saved ("ok" or a done event) is saved: the
\* question and the answer that the turn has committed are there until the
\* conversation is deleted or Window newer messages follow them in it.  What
\* is older than they are is no excuse.
AcknowledgedTurnStored ==
    \A t \in Turn : turn[t].reply \in {"ok", "done"} /\ turn[t].conv \in live =>
        \A role \in {"user", "assistant"} :
            \E r \in turn[t].wrote : r.role = role /\ (r \in rows \/ Overflowed(r))

\* "it must survive even if the AI call or assistant commit fails": while its
\* conversation exists, a committed user message exists.
UserMessagesKept ==
    [][\A r \in rows : r.role = "user" /\ r.conv \in live' => r \in rows']_vars

\* "Delete a conversation and all its messages": every message belongs to an
\* existing conversation, whatever turns were under way when it was deleted.
NoDanglingMessages == \A r \in rows : r.conv \in live

\* A generated title is only ever set once the turn that created the
\* conversation has its answer committed, and that answer is not an error.
GeneratedTitleFollowsAnswer ==
    \A c \in live : title[c] = "ai" =>
        \E t \in Turn : /\ turn[t].conv = c /\ turn[t].fresh
                        /\ turn[t].counted # NoDay /\ ~turn[t].failed

\* Every request that has been received is eventually finished, title job
\* included, although a turn may have to wait for the usage row another turn
\* has inserted but not committed.
EveryTurnEnds ==
    \A t \in Turn : turn[t].stage # "idle" ~> turn[t].stage = "ended"

============================================================================
