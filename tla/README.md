# JULIBOT: formal models and proofs

JULIBOT is a chat application: a FastAPI server (`app/`), a single-page client
(`src/js/app.js`) and a relational database (SQLite in development, PostgreSQL
in production), answering with two AI providers, Gemini and Groq. This
directory holds TLA+ models of its server and of its page, TLC configurations that check
them on small instances, and TLAPS proofs for instances of any size. Paths below are
relative to the repository.

## 1. Inventory

| Component | State | Operations | Hard behaviour | What makes it correct |
|---|---|---|---|---|
| Chat turns: `app/api/conversations.py`, `services/chat_service.py`, `services/quota.py`, models | tables `conversations`, `messages`, `user_usage`; the ORM session of each request | chat, chat/stream, create, import, rename, delete, title job | requests of one user interleave at every await; quota is checked long before it is counted; an ORM cascade deletes messages; midnight; clients that disconnect; SQLite's single writer | counters match the answers, limits hold, nothing acknowledged is lost, no message without a conversation, every request ends |
| Provider router: `services/llm/router.py` | two circuit breakers shared by the process; one call per request | generate, generate_stream, status | concurrent requests report to shared breakers in any order; retry and fallback, also in mid-stream | one attempt supplies a reply, breakers are consistent, failures are hidden when they can be |
| Providers: `services/llm/gemini_new.py`, `groq.py` | SDK clients | generate, generate_stream, error mapping | Gemini's `generate` blocks the event loop | errors mapped to the codes the router knows |
| Orchestrator: `services/ai_orchestrator.py`, `prompts.py` | none | chat, chat_stream, generate_title | – | – |
| Context window: `services/context_manager.py` | none | prune_messages, build_context | edges of the count and token limits | the kept messages are the longest suffix that fits, never empty |
| Rate limiting: `middleware/rate_limit.py` | counters per key | check_rate_limit, cleanup, dispatch | window boundaries, cleanup | at most the limit per window |
| Sessions and accounts: `services/auth_service.py`, `account_service.py`, `api/auth.py`, `api/deps.py` | tables `users`, `sessions`; cached Google keys | register, login, Google login, logout, logout-all, profile, delete account | revocation and account deletion beside requests already authenticated; registration races; key rotation | a revoked token is refused, a deleted account leaves nothing |
| Retention and lifespan: `services/retention.py`, `app/main.py` | – | purge loop, startup, shutdown | runs beside everything | only expired rows go |
| Web client: `src/js/app.js` | current conversation, streaming flag, guest data | send, stream, open, delete, log in and out | responses arrive in any order | what is shown belongs to the conversation shown |

The rest (request logging, body size, security headers, configuration,
schemas, migrations, launcher, static pages) keeps no state between requests.

The client calls the API; middleware limits the rate; `api/deps.py` resolves
the user from a token and its session row; a chat handler works on the database
through one ORM session, calls the orchestrator, which calls the router, which
calls a provider; after the response a title job with a session of its own calls
the router again. Requests meet in the tables and in the breakers.

## 2. Modules

| Module | What it is |
|---|---|
| `ChatTurns` | the chat endpoints, the other writing endpoints of conversations, and the title job, for one user |
| `MCChatTurns` | instances for TLC |
| `ChatTurns_proofs` | theorems about `ChatTurns`: types, references, usage and limits |
| `ChatStorage_proofs` | theorems about what `ChatTurns` stores: titles, pruning, acknowledged turns, history |
| `ReplyContract` | abstract: what callers of the router rely on |
| `ProviderRouter` | router and breakers in detail; implements `ReplyContract` |
| `MCProviderRouter` | instances for TLC |
| `ProviderRouter_proofs` | theorems about `ProviderRouter` |
| `RateLimiter` | the rate limiting middleware and its store |
| `MCRateLimiter` | instances for TLC |
| `RateLimiter_proofs` | theorems about `RateLimiter` |
| `ContextWindow` | what a provider is given of a conversation |
| `MCContextWindow` | instances for TLC |
| `ContextWindow_proofs` | theorems about `ContextWindow` |
| `SessionContract` | abstract: what a token promises |
| `Accounts` | logging in and out, account deletion and purge beside chat requests; implements `SessionContract` |
| `MCAccounts` | instances for TLC |
| `Accounts_proofs` | theorems about `Accounts` |
| `WebClient` | the page and what it needs of the server and the browser |
| `MCWebClient` | instances for TLC |
| `WebClient_proofs` | theorems about `WebClient` |

The modules meet in the call from handler to router: the `ai` stage of
`ChatTurns` (`AiAnswers`, `AiFails`, `StreamFails`) has exactly the endings that
`ProviderRouter` allows a call: an answer, an error, or a stream that dries up.
The history a turn loads (`History` of `ChatTurns`) is what `ContextWindow` prunes.
`Accounts` takes a chat request from its token to its rows, where `ChatTurns` takes
one user for granted; the server of `WebClient` is `Accounts` and `ChatTurns` with
each handler as one step. Every request passes `RateLimiter` before any of them.

### ChatTurns

A `turn` record is a request: `stage` is the await its handler stands at, and the
other fields are its locals and its ORM session. Handlers run one step from an
await to the next, so an action is a stretch of handler code without an await
that matters to another request.

| Stage | Code | Actions |
|---|---|---|
| `check` | `_enforce_quota`, `quota.py:42-76` | `CheckQuota`, `RejectQuota` |
| `flush`, `reflush` | insert of today's usage row, `quota.py:50-64` | `FlushUsageRow`, `LoseUsageRace` |
| `open` | load or create the conversation | `OpenConversation`, `ConversationNotFound`, `CreateConversation` |
| `say` | commit the user's message | `AddUserMessage`, `UserMessageRefused` |
| `reload` | bounded reload, assigned to `conversation.messages` | `ReloadConversation`, `ReloadFails` |
| `ai` | the AI call | `AiAnswers`, `AiFails`, `StreamFails` |
| `record` | `record_usage(commit=False)` | `RecordUsage` |
| `save` | commit answer, counters and orphans | `SaveAnswer`, `AnswerRefused` |
| `title`, `titleSave` | background title job | `TitleOpen`, `TitleSave` |

`/chat` checks the quota first, `/chat/stream` after the reload. `Disconnect`
cancels a stream at any await, `LockTimeout` and `EditTimeout` are SQLite's
"database is locked", `Midnight` changes the date the quota uses. Rename and
delete are two steps, load and commit; create and import are one transaction.

What the ORM and the databases do is modelled from how the code uses them:

- the session is made with `expire_on_commit=False`, `autoflush=False`, so a
  loaded object keeps its values over a commit, and orphans go with the next
  flush that commits; the usage row is held by nothing between two calls of
  `_get_or_create`, so each of them reads it afresh;
- `Conversation.messages` is loaded in full (`lazy="selectin"`) the first time
  and cascades `all, delete-orphan`: assigning the latest messages to it makes
  the others orphans, which the commit of the answer deletes;
- a rollback expires all objects of an async session, and the next attribute
  read fails: losing the race for the usage row ends the turn;
- PostgreSQL checks foreign keys, never reuses ids and makes the second insert of
  a unique key wait for the first one's transaction; SQLite as configured checks
  no foreign keys, reuses the highest rowid once it is deleted, and has one writer;
- ids stand for `created_at`: among the rows of one conversation they are in the
  same order.

Contents are abstracted away: a message is its conversation, turn and role, a
title is one of temporary, chosen by the user or generated, an answer is its
number of output tokens and whether it is an `[Error]` text.

### ProviderRouter

`configured` is the set of providers with an API key, chosen at the start as in
`initialize()` (Groq alone is promoted to primary). `breaker` holds the two
circuit breakers with `age`, the time since the last failure in clock ticks.
A `call` record is a request: its attempt, the error of its first attempt
(`exc`), which attempts have sent content (`sent`), whether the last chunk went
out. Error codes fall in three classes: transient (retried), final
(`NON_FALLBACK_CODES`) and persistent (the others). `Begin` is the start of
`generate` or `generate_stream`; `Answer`, `SendChunk`, `EndStream` what a provider
does; `PrimaryFails`, `RetryFails`, `FallbackFails` the `except` branches;
`Abandon` a consumer that goes away, of which no breaker hears; `Status`
reading the breakers, which turns an open one half-open; `Tick` the clock. While
Gemini serves a request that is not streamed the event loop runs nothing else
(`Blocks`). Each request is served once, and further chunks change nothing.

`ReplyContract` has a phase and a set of sources per reply. The mapping takes a
call without an outcome to `waiting` or `sending` and every bad ending,
also a stream that dried up, to `failed`.

### RateLimiter

`dispatch` awaits nothing before it has decided, so a request is one step:
`RefuseEndpoint` and `RefuseGlobal` are its two 429s, `Admit` a request that passes
both limits, `Elsewhere` a path that has the global limit only. Each does what
`check_rate_limit` does: sweep the store when the interval is over (`Cleaned`),
restart or continue the window (`Counted`), compare (`Over`). Both buckets share
the store, the cleanup and the fixed retention of 120 seconds. The key of an
endpoint is the user of a valid token or the address (`EndpointKey`). `Tick` is the
clock, in fractions of a second, because `Retry-After` is cut to whole seconds. An
entry that is absent has count 0. `passed` and `refused` are history variables:
what has passed in the last window, and the last refusal of each key.
`TimeAssumption` has retention at least as long as a window, which holds in the
code for every limit that `setup_rate_limiting` gives.

### ContextWindow

A message is its role and its length; an item of a request names the place of the
message in the history. `Start` is phase 1 of `prune_messages`, `PopOldest` one turn
of the loop of phase 2, `Build` the rest of `build_context` and the append of the new
message, `BuildTitle` the request of a title, `Convert` the provider's
`_convert_messages`. `TokensFrom` and `Budget` are the estimates, with the code's
constants. No caller passes a summary, so none is modelled.

### Accounts

A `req` record is a request; `stage` is the database round trip it stands at.

| Stage | Code | Actions |
|---|---|---|
| `find` | selects by email and username | `FindNobody`, `FindUser`, `Refuse` |
| `insert`, `issue` | insert of the user, `issue_session` | `InsertUser`, `InsertLost`, `IssueSession`, `IssueRefused` |
| `idle` | decode the token, `deps.py:76` | `ArriveWithToken`, `ArriveExpired` |
| `session`, `user` | the SELECTs of `deps.py:85-97`, from a token to a user | `ResolveSession`, `SessionRefused`, `ResolveUser`, `UserGone` |
| `revoke`, `profile` | logout, logout-all, profile | `Revoke`, `Profile` |
| `count`, `addCount` | today's usage row | `SeeCount`, `AddCount` |
| `talk`, `say` | conversation and message of a chat | `OpenConversation`, `CreateConversation`, `AddMessage`, `ChatRefused` |
| `messages` ... `account` | the five DELETEs of `delete_account` | `DeleteMessages`, `DeleteConversations`, `DeleteUsage`, `DeleteSessions`, `DeleteUser` |

The deletion is one transaction: what its statements have matched is in `doom`,
still visible to the others, until `DeleteUser` commits it. On PostgreSQL other
statements wait for rows in `doom` (`Locked`), the deletion waits for a chat that
holds a usage row of its user (`HeldFor`), foreign keys refuse (`UserThere`,
`ConvThere`) or cascade (`Cascades`), and the two waits can form a circle, which
the database breaks at either end (`BreakDeadlock`). SQLite has one writer
(`MayWrite`, `LockTimeout`), checks no foreign key and hands a user id out again.
`Expire`, `Age` and `Purge` are the token's lifetime, the retention period and
`purge_expired_sessions`. A session keeps its token's expiry and its own as one,
since both are set to the same moment. The expiry is judged when the token is decoded,
before the handler's first await; the SELECT of the session looks only at whether the
row is there and not revoked (`Live`), so a token may expire in between and is let in.
`before` and `issued` are history variables.
`SessionContract` sees the life of each token (none, good, stale, over), the token each
request presented and the one it was let in with. It binds letting in, not what the
request writes afterwards: a session revoked behind `ResolveSession` stops nobody.

### WebClient

A click runs a handler of `app.js` up to its first await. What it asks is a `call`
in flight, `sent` until the server has served it (`Serve*`), then `ok` until its
reply runs the rest of the handler (`LoggedIn`, `Validated`, `Opened`,
`StreamDone`, ...); either half may be lost (`Failed`, `NotValidated`). Calls
overtake one another in any way, though of one handler only one is under way. The
cookie travels with a call as it was when the call was sent and changes when a
reply sets it. At boot the page asks `/config` twice (`configs`), and `streamingEnabled`
is `FALSE` until a reply sets it (`ConfigLoaded`, `ConfigFailed`), which may be between
any two clicks; a `chat` call goes on as it was sent (`streamed`). `StreamingConfig` is
the server's setting. The page's variables have the names of the code;
`appSessionVersion` is the code's own guard against late validations. A guest
conversation is named `-q` after the question that began it, a stored one `q`, so
that neither is ever taken for the other. `Hidden` marks answers whose element has
been removed from the page. History variables: `thread` (conversations
whose messages the page shows), `strayed` (a question did not have the page to
itself), `replied` (guests' questions whose answer the page has taken), `left` (the
account was left, no login since). `ThreadIsCurrent` is said of
a page that no login is about to empty (`Validating`): a conversation opened as a
guest may arrive late, be asked in, and be followed by the reply to a login, whose
page then ends the guest's stream and goes on with the guest's conversation until
`/auth/me` has answered. Eight clicks reach it; the proof met it first.

## 3. Runs

| Run | Instance | Shows |
|---|---|---|
| `chat_serving` | 2 turns at once, both endpoints, imports of 2 messages, window 2, PostgreSQL, fair | `UsageNeverOvercounts`, `AcknowledgedTurnStored`, `OnlyOverflowIsPruned`, `EveryTurnEnds` |
| `chat_editing` | 2 turns at once, create, rename and delete, PostgreSQL | `NoDanglingMessages`, `GeneratedTitleFollowsAnswer` |
| `chat_sequential` | 2 turns in sequence, title jobs, renames and deletions beside them, SQLite, 2 days, limits 1 request or 3 tokens | `TypeOK`, `UsageExact`, `DailyLimitsEnforced`, `HistoryExcludesOwnMessage` |
| `router_fallback` | 3 requests, both methods, every configuration, threshold 2, recovery 2 ticks | `TypeOK`, `BreakerMatchesCount`, `PrimaryFailureHidden`, `OfflineOnlyWhileFailing`, `MeetsContract` |
| `limiter_windows` | one endpoint, a user and guests at one address, limits 1 and 2, window of 4 ticks, 8 ticks | `TypeOK`, `TwiceTheLimit`, `RefusedOnlyIfServed`, `WaitingHelps`, `OldEntriesGo` |
| `context_pruning` | every history of up to 4 messages of 4 sizes, both providers | `TypeOK`, `LongestEnd`, `CountWithinLimit`, `ProviderSeesConversation` |
| `accounts_sessions` | 2 requests to any of 8 endpoints, 2 people, both databases, fair | `TypeOK`, `PostgresLeavesNothing`, `LogoutAllIsComplete`, `OneRegistrationWins`, `MeetsContract`, `EveryRequestEnds` |
| `client_page` | 4 clicks, 2 calls in flight, streaming off until a `/config` reply turns it on, fair | `TypeOK`, `LeftStaysLeft`, `ThreadIsCurrent`, `GuestAnswersFiled`, `SendingResumes` |
| `chat_forgets` | violation of `UserMessagesKept` | section 5 |
| `chat_overquota` | violation of `DailyLimitsEnforced` | section 5 |
| `accounts_leftover` | violation of `AccountLeavesNothing` | section 5 |
| `client_guest` | violation of `GuestsStayAnonymous` | section 5 |

Why the bounds are enough. Chat: every race in the handlers is between two
requests of one user, so two turns at once show it; the limits and the exact
counts are about turns that follow one another. `Window` stands for
`max_history_messages + 20`: two messages fill it, so that a turn overflows it
with what was imported or with the messages of the turn before.
`MaxConv` leaves an id for every turn that may create a conversation
(`RoomForConv`), and is never what stops a turn. Two days contain one midnight,
which may fall between any two steps. Router: a threshold of two takes one retried
request or two requests to open a breaker, and three requests leave one to meet it
open, half-open or closed again by a late answer. Limiter: eight ticks hold two
full windows and two cleanups, and a global limit of two lets a burst of two pass
at either side of a boundary; `MaxExcess` lets two requests in a row be refused.
Context: four messages exceed the limit of three by one, and the sizes reach an empty
message, a short one, one of which several fit and one that exceeds the budget
alone. Accounts: every race is of two requests, or of one with the purge; two
people keep a deleted user's id apart from the next one's, and three ids are never
used up. Client: four clicks are enough to ask, open or start another
conversation and ask again, to log out, go on as a guest and ask, or to log in and be
overtaken by a late reply; the first validation may find a cookie, which saves the
login. To leave a guest's conversation and open it again (`OpenGuest`) takes six, so the
run does not reach that branch; and `Reloads` is never used as a guest by `StreamDone`.
The theorems about the page hold for any number of clicks.

Turns and requests are symmetric, and the symmetry is used where no liveness is
checked. `limiter_windows` stops when its clock does, so it does not check for
deadlock; every other run does.

`Quiet` lets the chat model stop only when every request has ended, so a deadlock
of turns would be reported in each run.

Fairness: `FairSpec` is weak fairness of each turn's own steps (`Progress`): the
event loop resumes every coroutine that can run, and a call to a provider ends
with an answer or an error. The latter holds for Groq, which has a timeout of 60
seconds (`groq.py:47`); for Gemini the code sets none and it is an assumption
about the SDK. Nothing is assumed of clients, disconnects, edits or the clock.
`Accounts` assumes the same of each request's own steps: the database answers every
statement it does not have to keep waiting, and ends a wait in a circle or a
timeout. `WebClient` assumes of a streamed question only that it is served and its
stream ends or breaks off in the end. The page sets no time limit, so this is an
assumption about the network and about Gemini again; nothing is assumed of other
calls, of the replies to `/config` or of the user. `RateLimiter` and `ContextWindow` state no fairness.

Variants of a definition (`OrphansByNow`, `OverQuotaLate`, `CountedMoving`, ...)
stand before it; they are the plausible mistakes against which each property was
seen to fail, and nothing in the specifications uses them.

## 4. Proofs

All theorems hold for any number of turns or requests, any limits, window,
threshold and bounds, from the named assumptions on constants only.

`ChatTurns_proofs`:

- `TypeCorrect`: `Spec => []TypeOK`, on either database. The inductive invariant
  `TypeInv` adds that a handler past `open` knows its conversation (`OpenHandler`),
  without which an insert could have no conversation.
- `PostgresKeepsReferences`: on PostgreSQL, `Spec => []NoDanglingMessages`. An
  insert needs a live conversation, a delete of one needs all its messages loaded.
- `UsageCounts`: `Spec => []UsageNeverOvercounts`. `UsageInv` strengthens it: the
  counters a turn has staged for its commit exceed those already counted on that
  day by at most the turn itself, so that any order of commits is safe.
- `SequentialUsageExact` and `SequentialLimits` have the hypothesis `MaxInFlight = 1`:
  the user waits for each answer. `chat_overquota` shows that without it the limits
  fail; the exact count fails with them, as two turns may stage the same number.
  `ExactInv` says that no other turn is served (`Alone`; title jobs and other
  endpoints still run beside it) and that the staged counters are today's plus the
  turn itself. `LimitInv` says that the day a handler has checked is below the limits
  until its answer is committed, and that a later day has no usage yet: a turn which
  is checked before midnight and counted after it is counted on a day that was empty.

`ChatStorage_proofs`:

- `TitlesAreEarned`: `Spec => [](GeneratedTitleFollowsAnswer /\ OneCreator)`, on
  PostgreSQL, and on SQLite for a user who deletes nothing. A title job starts only
  behind a counted answer without error, and a handler that has answered never takes
  that back (`TitleInv`, `EarnedStays`). `OneCreator` says that a conversation's id
  belongs to at most one turn that created it, so that the turn the property speaks of
  is the one that did; with deletions on SQLite an id is used again, and a second
  conversation could show a title on the first one's account.
- `PruningIsSafe` (`Spec => OnlyOverflowIsPruned`) and `AcknowledgedIsStored`
  (`Spec => []AcknowledgedTurnStored`) hold on PostgreSQL, and on SQLite for a user who
  deletes nothing. Both need that ids only go up (`Steady`): on SQLite the highest id
  comes back when its row goes, but a turn that deletes messages inserts one above them,
  so that it takes a DELETE of a conversation. `IdsInv` says that a row a session has
  loaded is the row the table has under that id, or none; `LoadedInv` and `OwnInv` that a
  turn has loaded rows of its own conversation from before its own message. `PruneInv`
  says that what a turn is going to delete has been overflowed since its reload. It is
  inductive because other commits delete overflowed rows only, and behind any
  overflowed row stand `Window` rows that are not overflowed and stay (`WindowBehind`);
  a DELETE takes the whole conversation. `KeptInv` says the same of what a turn has
  committed itself (`wrote`): each of its rows is in the table, or was overflowed when
  it went, from the question's own commit on. A row that is overflowed stays so
  (`OverflowStays`), also when it is gone: whatever deletes newer rows leaves a window
  of still newer ones, or takes the whole conversation.
- `SequentialHistory`: with `MaxInFlight = 1` the turn's own question is still the
  newest message when it reloads (`NewestInv`), so that `messages[:-1]` leaves out that one.
  Proved for PostgreSQL with all other endpoints, and for SQLite with imports or
  deletions. With both it is false there: a conversation is deleted with the rows its
  DELETE had loaded before the question came, the import gets the id that is free
  again, and the turn reloads the imported messages after its own (ten steps in TLC). A
  user with one chat at a time needs two more requests under way for that.

`ProviderRouter_proofs`:

- `RouterTypes`, `BreakersConsistent` from `Inv`: each operation of a breaker
  keeps `fails >= Threshold <=> state # "closed"`, and a call under way has sent
  content from its present attempt only.
- `RouterMeetsContract`: `Spec => MeetsContract`, the refinement of
  `ReplyContract`. Each action of a call is shown to be a `CallStep`, which keeps
  `Inv` and is a step or a stutter of the contract.
- `PrimaryFailuresHidden` and `OfflineWhileFailing` from `ErrorInv`, which adds that
  a stream at its retry has a fallback: without it a stream could be refused with
  no breaker open.

`RateLimiter_proofs`, from `KeyAssumption`, `LimitAssumption` and `TimeAssumption`:

- `TypeCorrect`, `LimitHoldsTwice`, `RefusalsAreEarned`, `WaitingIsEnough` and
  `StoreIsSwept` are the five properties of the run. The inductive invariant `Inv`
  says of each key, besides types: its passes belong to the entry's window or to
  ones that ended before it (`PassesFit`); windows begin at least a window apart and
  number their passes once (`Apart`); what an entry counts up to the limit has
  passed (`Served`); a refusal's waiting time covers the window it was refused in
  (`RefusalFits`). The passes of a key
  within one window length fall into two windows and are numbered in each, which
  maps them one-to-one into `1..2 * Limit` (`PassedAtMostTwice`).
  That cleanup keeps no window short rests on `Retention >= Window`.

`ContextWindow_proofs`:

- `KeepsLongestEnd` and `StaysWithinLimit`. The invariant says of the loop that no
  place before `first` fits, and the lemmas that a history's estimate is a natural
  number for histories of any length. The sum is a recursive function, and its
  existence is shown by a least counterexample (`LeastElement`, from the
  well-foundedness of `<` on the naturals).
- `TypeCorrect` and `GivenInOrder` from `RequestInv`, which says of a request that it is
  the prompt, what was kept, and the new message, or the question for a title. Both
  `_convert_messages` are loops that take messages by role (`OfRoles`, a recursive
  function). A loop over a sequence in which the wanted messages stand together takes
  that stretch (`TakenTogether`); in a request the messages of users and assistants do
  (`PromptThenSpoken`), whatever order of roles failed turns have left in the history.

`Accounts_proofs`:

- `TypeCorrect` from `TypeInv`, which says of each stage what its handler knows by
  then (`GoodHandler`): a resolved session, a user id, a conversation, a usage row.
  The later proofs rest on `StepOfRequest`: a step of a request changes its own record
  only (`LocalStep`) or is one of the six that write a table.
- `RegistrationsExclude` from `RegistrationInv`: until someone has left, the name of
  everybody who was told 201 is taken, and the unique column lets one insert through.
- `LogoutAllCompletes` from `LogoutInv`: all sessions of one token are of one user, and
  what a handler that is about to revoke remembers to have been good belongs to its
  own user. Only an issue adds a session (`OnlyIssueAdds`), of a new token; nothing
  else brings one back or to another user (`SessionsAge`).
- `SessionsMeetContract`: `Spec => MeetsContract`, the refinement of
  `SessionContract`; every step changes each token's life, what each request has
  presented and its admission as the contract allows or not at all (`ContractStep`).
  The contract lets a request in with a token that had not expired when it was
  presented and is not revoked or deleted at the SELECT.
- `PostgresDeletesAll` from `PostgresInv`: the foreign keys hold (`References`); the user
  of a handler was there once, is there while the handler holds a usage row, and is
  gone when its deletion is confirmed (`UserKnown`); the conversations a deletion has
  in its `doom` are still in the table with no message outside the `doom`
  (`DoomComplete`), and no two deletions doom the same conversation (`DoomApart`), so
  that a commit leaves no message without its conversation.

`WebClient_proofs`, from `StreamingAssumption`:

- `TypeCorrect` from `TypeInv`, which adds what the calls carry (`GoodCall`): a served
  login brings a session, an opened conversation is stored, a click has one call.
- `LeftForGood` from `LeftInv`: no validation carries a later `appSessionVersion` than
  the page's, and after leaving every one under way carries an earlier one.
- `AnswersFollowQuestions` from `FiledInv`: the question of a call under way is in no
  conversation but the one its call remembers, no later click has its number, and those
  in `replied` have been answered behind the question. The end of a stream looks
  at the current conversation instead, so that it needs `ShownHere`: the current
  conversation of a guest's page is that of every question whose answer still has its
  place on it.
- `PageShowsConversation` from `ThreadInv`: a page that is settled (no login about to
  empty it, no question strayed) shows nothing but the current conversation, and at
  most one question waits, which was asked there.

Every invariant and every action property of the passing runs is a theorem. Only
model-checked are the liveness properties (`EveryTurnEnds`, `EveryRequestEnds`,
`SendingResumes`), which are out of the prover's reach. The theorems with a
hypothesis cover the instances of the runs: `chat_serving` and `chat_editing` are on
PostgreSQL; `chat_sequential` has one turn at a time, on SQLite without imports.
With deletions on SQLite `NoDanglingMessages`, `GeneratedTitleFollowsAnswer`,
`OnlyOverflowIsPruned` and `AcknowledgedTurnStored` are not claimed: no foreign key is
checked and ids are used again (section 5).

## 5. Disagreements of code and documents

Shown by a run:

- A chat turn deletes messages that are older than the window
  (`chat_service.py:106` with `models/conversation.py:38-44`), though the comment
  at `conversations.py:305-306`, `core/config.py:106-108` and `retention.py:6-7` say
  messages stay until the account is deleted (`chat_forgets`).
- Concurrent turns exceed the daily limits that `quota.py:4` says are enforced
  (`chat_overquota`).
- On SQLite a login beside an account deletion leaves its session behind
  (`account_service.py:51`, before the user is deleted at `:52`), though
  `account_service.py:8` promises a "full, consistent purge on every backend"
  (`accounts_leftover`).
- A guest's message sent before the logout of `app.js:734` has taken effect, or after
  it has failed, is stored in the account the cookie still names, though
  `app.js:724-726` says guest conversations are never saved to someone's account
  (`client_guest`).

Seen while modelling, and allowed by the models without a run of their own:

- a stream over quota is cut without the error event of `conversations.py:396`;
- a stream whose retry fails after sending content ends like a complete one
  (`router.py:304`);
- on SQLite, deleting a conversation during a turn leaves messages without a
  conversation, and a reused id lets a turn write to, or prune, another one;
- on PostgreSQL a conversation deleted during the AI call makes the commit of the
  answer fail and the call go uncounted, though `conversations.py:350-353` says it
  is always counted;
- with two turns on one conversation the history of one may contain its own
  message, since `messages[:-1]` leaves out the other's (`conversations.py:325`);
- the retry's error does not count for the choice to fall back (`router.py:243`),
  and a router with one provider does not retry streams (`router.py:293`), unlike
  `router.py:94`;
- the retry does not ask the breaker (`router.py:233`, `299`), and title jobs ask
  the primary for the fallback's model (`ai_orchestrator.py:238`), so that their
  failures count on the breaker that chat requests share;
- the docstring of `rate_limit.py:40` says "sliding window", but the window is fixed:
  around its end twice the limit passes (`TwiceTheLimit` is what holds).
  `PRODUCTION.md:125` says limits rely on the database; they are in memory, one
  store per process;
- `SECURITY.md:63-64` says there is no account-deletion endpoint; there is;
- Google login does not look at `is_active` (`auth.py:253`, unlike `auth.py:125`), so
  an inactive user is issued a token, which `deps.py:95` then refuses;
- on SQLite the id of a deleted user is given to the next one, so a token check or a
  request under way for the old user goes on for the new one; on PostgreSQL a chat
  and the deletion of its account can wait for each other (`Deadlocked`);
- `purge_old_usage` compares with the server's local date (`retention.py:52`), quotas
  count by UTC;
- a token that expires between its decoding (`deps.py:76`) and the SELECT of its session
  (`deps.py:87-89`) is let in, since the SELECT does not look at `expires_at`; a request
  let in goes on although its session is revoked meanwhile;
- `is_available` is looked up once and remembered (`ai_orchestrator.py:76-80`),
  breakers that open later notwithstanding;
- `build_context` counts a summary that it has not included, and never counts the new
  message; the system prompt reaches Gemini twice and Groq once;
- the page assigns `currentUser` before it compares the version (`app.js:1716-1717`),
  so a late validation leaves a user's name in a page that has logged out;
- a stream's end makes its conversation the current one whatever is shown
  (`app.js:947`); deleting the open conversation empties the whole list until it is
  loaded again (`app.js:1271-1273`); a list, chat or conversation that arrives after a
  logout is used in the guest mode that follows; and the page may believe it is
  logged in when its cookie has gone with the reply to an earlier logout, and then
  sends as a guest;
- a guest's streamed answer is filed in the conversation that is current when it is done
  (`app.js:932-944`): after "New Chat" in the middle of a stream (`app.js:779-780`) it is
  filed nowhere, and after another conversation was opened, in that one.
  `GuestAnswersFiled` promises what is left. A guest's question is itself filed nowhere
  when the late reply to a question asked as a user has set the current conversation;
- a guest's conversations do not appear in the list: only `loadConversations` puts them
  there (`app.js:1138-1142`), and nothing calls it for a guest, except an answer to a
  question sent before guest mode began.

## 6. Not modelled

- Chat: guests (nothing is persisted for them), several users (their rows are
  disjoint: they share the breakers, which `ProviderRouter` covers, and SQLite's
  lock), texts and prompts, read-only endpoints. A crash of the server leaves the
  committed tables, as `Disconnect` does for a turn; that a crash also loses title
  jobs and in-memory breakers and counters is not modelled.
- Router: `CircuitBreaker.reset` and `generate_summary` have no callers. The event
  loop blocked by Gemini is modelled among AI requests only. The SDK calls, the
  mapping of their exceptions and models' names are external.
- Accounts: password hashing, the cookie's attributes, Google's key cache and the
  verification of its tokens (a Google login is one of a person who exists there),
  `is_active`, which no endpoint changes, changes of email or name in a profile.
- Retention: `purge_old_usage` deletes rows that no quota looks at any more; the
  order of startup and shutdown.
- Page: renaming, profile form, Google login, pop-ups, rendering. No code calls the
  `abort` of a stream (`app.js:900`).
- Request logging, body size and security headers pass each request on and keep no
  state. Configuration and schemas are the constants and the domains of the modules.
  Migrations, launcher and scripts run once; pages and styles are static.

## 7. Plan

1. Done: `ChatTurns`, `ProviderRouter` and `ReplyContract`; `RateLimiter`,
   `ContextWindow`, `Accounts` and `SessionContract`, `WebClient`; their runs; the
   theorems of section 4.
2. Done: the proofs about `Accounts` and `WebClient` of section 4.
3. Done: the theorems about what `ChatTurns` stores, its counts and limits, and about
   the requests of `ContextWindow`.
4. Open: what bounds the excess of concurrent turns over the limits. A turn that commits
   late sets the counters back to what it had staged, so that the number of turns
   under way alone does not.
