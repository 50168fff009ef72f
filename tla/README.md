# Formal model of changate

changate is a gateway between Feishu (Lark) and AI agents. Feishu posts events
to `/feishu/:appName`; the gateway checks them, hands every message to a
goroutine that asks the app's or user's agent, and posts the answer in the
chat. This directory models the parts of it that are concurrent, fail, or
depend on the order of things, checks them with TLC, and proves with TLAPS, for
every value of the constants, every safety property that a run checks and finds
to hold. All paths are relative to the root of the repository.

## Inventory

| Component | State it keeps | Operations | Module |
|---|---|---|---|
| message dispatcher, `src/internal/handler/callback.go:45-58, 219-272, 395-399` | `h.active`, one semaphore channel per app, two goroutines per message | count and start, acquire, work, release, wait | `Dispatch`, `Gateway` |
| server lifecycle, `src/cmd/server/main.go` | main goroutine | listen, signal, `Shutdown` (30 s), wait, exit | `Dispatch` |
| agent client cache, `agent_cache.go` | map, LRU list, expiry times | `Get`, `Set`, `GetOrCreate` | `AgentCache`, `Gateway` |
| HTTP callback handler, `callback.go:64-247` | none of its own between requests | `HandleCallback`, `handleMessageEvent` | `Callback` |
| configuration loader and etcd client, `etcd_loader.go`, `etcd/client.go` | none; etcd is read on every request | `GetAppConfigOnly`, `GetResolvedConfig` | `Callback`, `Retry` |
| retry loop, `src/pkg/retry/retry.go` | attempt, last error | `Do` | `Retry` |
| agent HTTP client, `src/internal/agent` | configuration only | `doCall`, `executeWithRetry`, the two builders and parsers | `Retry`, `Reply`, `AnswerText`, `Content` |
| Feishu client, `src/internal/feishu/client.go` | configuration only | tokens, download, upload, reply | `Retry`, `Reply` |
| message worker, `callback.go:274-387` | two deadlines, the answer | everything done for one message | `Reply` |
| agent answers, `src/internal/model/agent.go` | – | text and media path of an answer | `AnswerText`, `Content`, `Reply` |
| message parsing, mentions, `event.go`, `mentions.go` | – | pure functions | `MessageText`, `Content`; an input of `Callback` |
| decryption, `src/pkg/crypto/aes.go` | – | pure function | `MessageText`, `Content`; abstracted in `Callback` |
| configuration file, router, logging | – | start-up wiring | not modelled |

How they interact: the HTTP handler calls the loader (etcd) and then the
dispatcher, which lives in the same object; a worker looks its agent client up
in the cache, which is shared by all workers, and calls Feishu and the agent
over HTTP, through `retry.Do`; main waits for the HTTP server and then for the
dispatcher's counter. There is no database and no recovery: what is in flight
when the process ends is gone.

What is hard, and what correctness means there:

- *Two goroutines per message and one counter.* Tokens must neither leak nor be
  returned twice, the limit of an app must hold, no message may starve, and
  the shutdown must end.
- *A cache whose fill is not atomic.* Map and list must agree; outdated clients
  must go away in a bounded time; nobody may get another user's client.
- *Retries.* A result must come from the last request, nothing may leak, a
  late context must stop the loop, and an effect must not be repeated for the
  wrong reason.
- *Several reads of a configuration that changes in between*, and *events that
  are delivered again*.
- *A chain of calls under two shared deadlines*, any of which may fail.
- *Texts that go through several representations*, where one function relies on
  what another one left: the padding of a body, the JSON a mention is cut out
  of, the parts of a post, the answer of one API read as one of the other.
- *Configuration that ages in a queue*: a message waits for room with what it
  was resolved with, and then fills the cache everybody uses.

`PROJECT.json` lists the hazards with their lines and the properties on them.

## Modules and how they correspond to the code

**`BoundedService`** is the abstract specification of the dispatcher: a message
is accepted, started when its app has room, and finished. The room of an app is
fixed once. The service may stop only when no more messages wait than have
finished (which is all the code guarantees), or be killed.

**`Dispatch`** has one program counter for each of the three goroutines that
carry a message: `handler[m]`, `outer[m]` (`handleMessageEvent`, 243-246) and
`inner[m]` (`processMessageAsync`, 268-388), one for main, the counter
`active`, and for each app the semaphore as `capacity` (0 when it is not in the
map) and `tokens` in its buffer. Each channel operation, each change of the
counter and each `go` statement is an action; `getSemaphore` is one action
because it holds the mutex. The limit that a message was resolved with is
chosen anew for every message, since operators may change it in etcd. The work
itself is one step here, and the subject of `Reply`. A failed `Shutdown` sets
`forced`, and main goes on as the code does. `Panic` is a panic in a worker,
which nothing recovers: the process ends, also with `forced` set, which makes
it a `Kill` of the bounded service.

**`AgentCache`** has the map as a set of key strings, the list as a sequence,
and a clock. Names are sequences of characters, and the string of a key is that of the code,
the app name, a `|` and the user ID (`KeyString`), so that two keys may have the same one; an
entry then keeps the key it was inserted with, whoever's client replaces the first. `Get` is the actions `Miss`, `Expire` and `Hit`; `Set` is
`Replace` and `Insert`; a worker is between the two in state `creating`, where
others may run. A worker carries the configuration it was resolved with, which
is what makes a stale overwrite possible. `usedAfter` and `staleUntil` are history
variables. `Expired` is a strict comparison, as `time.Now().After` is.

**`Retry`** follows one call of `retry.Do` for each of its four users, from the
first attempt to what the user returns (`ReturnAgent` to `ReturnDownload`,
`verdict`). The `select` is split into what happens on entry and what happens
later, because a context that has already expired always wins against a
positive delay, and either may win afterwards. Each user has its own
classification of answers (`AgentClass` ... `DownloadClass`) and its own rule
for the body it leaves open. What a server did is in `applied`: a 200 follows
the effect, an error, a 5xx or a 200 with an error in its body may hide one.
Reply and upload retry with a request whose body has already been read; whether
the transport can rewind it depends on the connection, so such an attempt may
end in any answer, an error included. Delays are numbers: `AgentDelay` is the
loader's product and the default for 0, `Delay` the shift and the product of
the loop, both wrapped at `Width` bits (`HalfRange`, from `PowerOfTwo`, a
recursive function). The time spent waiting (`waited`) is
compared with the caller's timeout, so that a timer can win only if it fits; the time the
requests take is the nondeterminism of `ContextExpires`.

**`Callback`** follows the deliveries of one event: `LookupApp` (67-79), `Check`
(81-134), `ResolveApp` and `ResolveUser` (the two reads of
`GetResolvedConfig`), `Dispatch` (157-162, 219-247). Operators change etcd
between any two of them, and etcd may fail to answer. `seenApp`, `seenUser` and
`outage` are history. A body or a signature is the key it was made with. Whether a message is
for the bot, and whether anything is left of it without the bot's placeholder, is computed at the
dispatch, from the names the event mentions and the `bot_name` of the app as it was read
last (`ShouldProcess`, `Content`); which of the mentions count and what exactly is cut out are
the subject of `Content`.

**`Reply`** is the worker from the client it got to the posted text. Each call to
Feishu or the agent may fail, and succeeds only while its context is alive.
`content` distinguishes no text, the empty text, the lone newline that an
empty chat answer becomes, words, and an answer that names a media file.

**`MessageText`** and **`AnswerText`** hold the pure functions as operators on
sequences of tokens. A body is a sequence of bytes, of which the ciphertext is
represented by what it decrypts to; a placeholder such as `@_user_1` is one
token, and followed by a digit it is the beginning of a longer one; the JSON of
a text message is the text between two brackets, because the code cuts the
mention out of the JSON before it parses it (`Open` and `Close`); `"MEDIA:"` is
one token. `Token` is the set of all tokens, `Blank` the white space among it, of which
`strings.TrimSpace` knows more than the scan for a path; `TokenAssumption` names the
tokens that the code itself uses. They declare no state and no recursion: a loop that appends to a slice is
the `FlattenSeq` of what its rounds append (`<<>>` where a round goes on to the
next), a search is the minimum of a set of positions.

**`Content`** applies them in the order and under the conditions of
`HandleCallback`, `handleMessageEvent` and `processMessageAsync`, one action for
each step of the data: `Decrypt`, `Take` or `Ignore`, `Parse`, `Ask`, `Send`,
`Receive`, and the ways out. Input is chosen when it is read. `R` is an instance
of `Reply` whose view of an answer is computed from the texts, so that
`ReplyKnowsAnswer` ties the abstraction of `Reply` (`ContentOf`) to the parsers
and to `GetContent`.

**`Gateway`** composes the dispatcher, by its promise `BoundedService`, with
`AgentCache`, whose workers are the messages. `AcceptMsg` is a joint step of
both; `MakeRoom` takes the capacity from the configuration the message holds,
and it is the room of the app from then on;
cache steps need a message that runs; `GiveUp` is the early return of a worker
without a client. `Dispatch` implements the one side by a proved refinement, so
what is checked of the composition is about the code's goroutines too, as far
as it is safety. The end of the process takes the cache with it.

`MC*` modules give the constants of the runs; each `*Proofs` module holds the
theorems about the module it is named for, and `SequenceLemmas` what they share.
The definitions that begin a comment with "Mistake" are not part of
the specifications: each is a plausible wrong version of the definition after
it, with which the property named for it in `PROJECT.json` fails.

## Runs

| Run | Instance | Shows |
|---|---|---|
| `dispatch` | 3 messages, 1 app, limits −1, 1 and 2, default capacity 3 | the counters are exact, the limit holds, each message handed over completes, shutdown ends, and the dispatcher implements `BoundedService!FairSpec` |
| `agentcache` | 3 keys, room for 2, 2 workers, 2 configurations of which one makes no client, TTL 1, clock to 2 | coherence, LRU order, what leaves |
| `agentcache_keys` | the same with room for 1 and keys of which two have the same string | a bound on staleness, a foreign client only where strings collide |
| `retry` | four users; −1, 1, 3 (by default) and 7 retries of the agent, 2 of the others; four base delays, two timeouts, durations of 6 bits | results up to what the user returns, late calls, delays without overflow, repeated effects, bodies, termination |
| `callback` | one of eleven requests, up to two deliveries, eight apps with different names for the bot or none, five users, one change | refusals explained, live configuration, duplicates and losses explained |
| `reply` | all messages of up to three parts, both agent types, three clients | order of the parts, matching client, no answer dropped, termination |
| `content` | blocks of 2 bytes and all bodies of up to 6; up to 2 mentions, texts of 3 tokens, posts of 2 blocks with 2 items, answers of 2 items with texts of 4 tokens | padding, stripping, posts, media paths, and that `Reply` takes each answer for what it is |
| `gateway` | 3 messages of one user, 2 configurations, room for 1 or 2, one of them without a client, TTL 1, clock to 2 | the room holds whatever the limit becomes, outdated clients die out, every accepted message ends |
| `dispatch_exit`, `retry_negative`, `callback_readme`, `content_clean` | as above, or smaller | the findings below |

*Bounds.* Three messages are enough for one to wait while one runs and one
completes, which is what the counter's drift and the limits need: with them
`active` becomes negative and a wait ends early. With a limit of 1 two messages queue, with the
default capacity none does. Messages of different apps share only `active` and main; the
proofs cover any number of both. Three keys and room for two make evictions, two workers make
the race in `GetOrCreate`; a third key next to two that collide shares the app of one and
the user of the other, and with room for one its client and theirs evict each other. A TTL of one tick and a clock of two let an entry
expire, be hit at its last moment and be replaced. Workers are reused, so two
stand for any number that follow one another. The default of three retries and
its neighbours cover the loop's boundaries; with seven and durations of six
bits the delays would overflow if the deadline did not end the loop, and one
base delay overflows in the loader. Two bytes are the smallest block in
which padding can be wrong in a byte that is not the last; two mentions are the
fewest of which the second can be the bot's, three tokens put something on
both sides of a placeholder, two blocks and items let an unusable one come
first or last, and four tokens hold a prefix, a separator, a path and an end. In `Gateway` three
messages are needed for a client to be built, hit and served again; more users
change nothing there but who evicts whom, which `agentcache` checks. Two deliveries are the smallest
duplicate; one change can fall between any two reads. The workers of the cache are
symmetric, and in `agentcache` the app names, which differ in one character, are too: they occur
only in equalities, and no liveness is checked there.

*Fairness.* Runnable goroutines run (weak fairness of each step). Senders blocked on a
channel are queued first come first served by the Go runtime, and a receive
hands its slot to the first of them; hence strong fairness of `Acquire`. The
worker ends because every call in it has a deadline or a client timeout; timers fire,
so the drain ends at its timeout. One call has no deadline, `os.ReadFile` of the file named in an
answer (`feishu/client.go:143`); that it ends is assumed, of a regular file. Nothing is
assumed of Feishu, operators, signals and expiring contexts.
`Retry` makes one assumption on timing: a goroutine is not stalled between arming a timer and the
`select` for as long as the timer runs, so that a context that is done before the `select` wins against a
positive delay (`EnterSelect`, `CancelledAtOnce`).
`Retry` and `Reply` assume weak fairness of the caller only. `Gateway` has
strong fairness of `StartMsg`, for the same queue, and weak fairness of every
other step of a message after its acceptance.

`CHECK_DEADLOCK` is on everywhere; terminal states have explicit steps
(`Exited`, `Ended`, `Over`, `AllAnswered`). In `Dispatch` a signal is always possible
before the exit, so that absence of deadlock says little there; the
liveness properties are what shows that messages do not get stuck.

## Findings

1. `callback.go:244, 270`: `h.active` goes down twice for every message, so
   `WaitForCompletion` may return, and the process exit, with accepted messages
   unfinished (`WaitsForInFlight`). What does hold is `ExitBacklog`, proved below: no more
   are still on their way to a worker than have ever completed.
2. `retry.go:23`: a negative `max_retries` makes `Do` succeed without a call,
   and `doCall` panics on the nil response (`SuccessHasResponse`).
3. `README.md:140` writes `"retry_base_delay": "100ms"`, which the decoder
   refuses; the app is answered 404 (`DocumentedAppIsFound`).
4. `mentions.go:52, 57`, called at `callback.go:228`: the trim is applied to the JSON of the content and not
   to the text in it, so that the blank after a placeholder reaches the agent, where `mentions.go:45-46`
   promises that leftover leading whitespace is trimmed (`AgentGetsCleanInput`, which the run refutes
   with such a text). Its other half is no truer: the key is cut out at its first occurrence, also as the beginning of
   a longer placeholder, where `mentions.go:47` speaks of a whole word. With the bot as
   `@_user_1`, a text in which `@_user_10` comes first loses a part of that one, and keeps the bot's own.

Smaller observations, which no run states as a property:

- `mentions.go:20, 38`: a mention without a type counts as one of the bot, where
  `README.md:33` asks for the type `bot` and the case "type missing treated as not
  bot" of `mentions_test.go:54` expects false. The models have the code's reading.
- `model/agent.go:109`: an empty chat answer is a newline, passes the test for
  empty answers (`callback.go:360`) and is posted. `ReplyKnowsAnswer` says when an answer is that.
- `etcd_loader.go:98`: a `retry_base_delay` beyond the range of its type in
  nanoseconds becomes negative, and the retries run without the backoff of `README.md:32`;
  `DelaysDouble` and `AtMostOneLateCall` are for positive base delays.
- `callback.go:365`: the text that replaces a failed file ("falling back to text", 377) is sent under
  the deadline that the attempts to send the file may have used up.
- `agent_cache.go:19`: with a `|` in an app name and one in a user ID two pairs share a key string,
  and a user is served by the client of another. `OwnClient` says that it takes both, so an
  operator who keeps the `|` out of app names need not trust the user IDs.
- `callback.go:220`: a message of a group to the bot, by a name that is not or no longer the app's `bot_name`,
  is acknowledged and never seen again (`LostOnlyIfOpaqueOrUnnamed`).
- `callback.go:233`: a message that holds nothing but the mention is answered
  400, and Feishu delivers it again.
- `client.go:359-374`: a download leaves open the bodies of its failed attempts,
  and that of the last one when reading it fails.
- `client.go:87, 294`: a retried reply or upload sends a request whose body the first attempt has read.
  No property asks that such a retry can succeed: whether the transport has the body again depends on
  the connection.

## Proofs

| Module | Theorem | States |
|---|---|---|
| `DispatchProofs` | `Typing` | `Spec => []TypeOK` |
| | `TokensAreAccounted` | `Spec => []TokenAccounting` |
| | `AppsStayWithinLimit` | `Spec => []ConcurrencyBound` |
| | `ActiveIsAccounted` | `Spec => []ActiveAccounting` |
| | `ShutdownBacklog` | `Spec => []ExitBacklog` |
| | `DispatcherImplementsService` | `Spec => Service!Spec` |
| `AgentCacheProofs` | `Typing` | `Spec => []TypeOK` |
| | `MapAndListAgree` | `Spec => []CacheCoherent` |
| | `ListIsOrderOfUse` | `Spec => []LruOrder` |
| | `OutdatedClientsExpire` | `Spec => []StalenessBound` |
| | `NobodyElsesClient` | `Spec => []OwnClient` |
| | `OnlyOldOrExpiredLeave` | `Spec => LeavesOnlyOldOrExpired`, an action property |
| `GatewayProofs` | `Typing` | `Spec => []TypeOK` |
| | `OutdatedClientsDieOut` | `Spec => OutdatedClientServedBriefly`, an action property |
| | `WorkersStayInRoom` | `Spec => []WorkersHaveRoom` |
| | `GatewayImplementsService` | `Spec => Service!Spec` |
| `RetryProofs` | `Typing` | `Spec => []TypeOK` |
| | `ResultsAreEarned` | `Spec => []ResultIsEarned` |
| | `DelaysNeverOverflow` | `Spec => []DelaysDouble` |
| | `DeadlineStopsTheLoop` | `Spec => []AtMostOneLateCall` |
| | `RepliesRepeatOnly5xx` | `Spec => []RepliesRepeatOnlyAfter5xx` |
| | `BodiesAreClosed` | `Spec => []BodiesClosed` |
| `CallbackProofs` | `Typing` | `Spec => []TypeOK` |
| | `EveryRefusalIsExplained` | `Spec => []RefusalsExplained` |
| | `JobsUseLiveConfigs` | `Spec => []JobConfigWasLive` |
| | `NoDuplicateWithoutGivingUp` | `Spec => []DuplicatesOnlyAfterGivingUp` |
| | `LostMessagesAreOpaqueOrUnnamed` | `Spec => []LostOnlyIfOpaqueOrUnnamed` |
| `ReplyProofs` | `Typing` | `Spec => []TypeOK` |
| | `AgentSeesOrder` | `Spec => []AgentSeesMessageInOrder` |
| | `PostsNeedMatchingClient` | `Spec => []RepliesNeedMatchingClient` |
| | `OnlyFeishuLosesAnswers` | `Spec => []AnswerLostOnlyByFeishu` |
| `ContentProofs` | `Typing` | `Spec => []TypeOK` |
| | `DecryptionIsExact` | `Spec => DecryptionInvertsPadding`, an action property |
| | `MentionsAreStripped` | `Spec => []MentionIsStripped` |
| | `PostsAreCarried` | `Spec => []RequestCarriesPost` |
| | `FilesAreNamed` | `Spec => []FileIsNamedInReply` |
| | `AnswersAreKnown` | `Spec => []ReplyKnowsAnswer` |

In every module the theorems follow from one inductive invariant, `IInv` (in
`DispatchProofs`, from several that are proved one after the other): the initial
states satisfy it, each action keeps it, one lemma for each, and it implies the
properties. None of the properties but the type invariants is inductive alone;
what has to be added says why the code is right.

*Assumptions.* They are those the modules state about their constants, and TLC
evaluates them on the runs' instances.

| Assumption | Why the code or its surroundings justify it |
|---|---|
| `DispatchAssumption` | finitely many messages; the default capacity is the positive constant of `callback.go:52`; the limits operators set are any integers |
| `CacheAssumption` | `maxSize` is 1000 (`callback.go:41`); names are strings of any characters, `\|` included |
| `GatewayAssumption` | finitely many messages, and that of the cache; what `getSemaphore` makes of any configured limit is positive |
| `RetryAssumption` | any retries and delays; a delay of the loader plus the caller's timeout fits a duration. With 64 bits of nanoseconds, that is not so only for base delays of about 292 years less the timeout |
| `CallbackAssumption` | deliveries of one event have an order, and are finitely many |
| `ReplyAssumption` | a message is a sequence of texts and images |
| `MessageTextAssumption`, `TokenAssumption` | a block has a size (16 in `aes.go`); blanks, tabs and newlines are white space, of which there may be more; brackets and `MEDIA:` are other tokens |
| `ContentAssumption` | what Feishu sends: a placeholder is a token of its own, not a blank, a bracket or nothing; the content of a text message is a JSON object, without blanks around it, or is no object and does not become one when something is cut out; only a post has blocks, each a list of items or something else. Bodies, posts and answers are of the types their structs have, and of any size |

**Dispatch.** The inductive invariant is built in layers, each proved with the earlier
ones as given:

1. `TypeOK`.
2. `HandOver`: an outer goroutine exists only once the handler has returned, an
   inner one exactly when the outer one is past its `go` statement. Without it
   a message could be counted twice in the sets below, and no step could be
   shown to change their sizes by one.
3. `ActiveAccounting` and `TokenAccounting`: each step moves at most one message
   in or out of the counted sets (`OneMore`, `OneLess`).
4. `TokensFit`: the buffer fits its channel. It needs that `getSemaphore` never
   replaces a channel. With `TokenAccounting` it gives `ConcurrencyBound`, since
   the messages at work are among the holders of tokens.
5. `AfterDrain`: after an orderly drain no handler is left that could raise the
   counter, so what main read stays true. With `ActiveAccounting` it gives
   `ExitBacklog`.

The refinement maps a message's three program counters to its `Status`.
`Acquire` alone is a stutter; the start of the abstract message is `SpawnInner`,
where `TokenAccounting` and `TokensFit` give that there is room. `Exit` is
`Stop` when the shutdown was orderly, by `ExitBacklog`, and `Kill` otherwise.

**AgentCache.** All that the operations do to the list is one kind of step
(`Moved`): at most one new entry in front, the others in their old order, some
left out. `FrontMoves`, `InsertMoves`, `ExpireMoves` and `StaysMoved` show that
a hit or update, an insertion, an expiry and everything else are of that kind;
what is then left to show of an action is that the entry it puts in front is
sound. `Coherent` makes the position of a key unique, so that moving it to the
front neither duplicates nor loses an entry. `UsesCached` keeps the history to
what is cached, so that a key dropped and inserted again starts anew in
`LruOrder`. `EntriesSound` holds the three facts about an entry that survive a
hit: its client is its key's own, it ends within a TTL from now, and, when it is
outdated, within a TTL of `staleUntil`. Its own is one with its key string: from there to `OwnClient` it is
a matter of the strings alone (`SameString`): if two keys differ and their strings do not, one app name is a
proper beginning of the other, which goes on with the separator (`LongerAppName`), and that
separator and all that precedes it is in the user ID of the one with the shorter name. `StaleKnown` ties that to the workers:
whoever holds an outdated configuration does so now, which is what a slow worker
needs to write it back without breaking the bound.

**Gateway.** Each step is a step of the cache, leaves it alone, or ends the
process, which empties it; so the invariant of the cache and its lemmas carry
over through an instance of `AgentCacheProofs` with the messages as workers, and
`OutdatedClientServedBriefly` follows from it at the step that takes a client.
`WorkersHaveRoom` relates the two components and needs a fact about each:
`RoomKept`, that no more messages run than the app has room, because the room
is made while none of them runs and never changes again, and `ServingRuns`, that
a message is at the cache or the agent only while it runs. Every step is also
one of `BoundedService` or changes nothing of it (`GatewayImplementsService`), so the
composition with the cache takes nothing back of what `Dispatch` is proved to promise.
The types of the gateway are proved only (`Typing`); those of the cache, which is all that could be
wrong with them, TLC checks in `agentcache`.

**Retry.** `Control` says what the loop variable and the last answer are at each
point, so that `result` can be traced to the last request (`Earned`). `Pace`
carries `DelaysDouble`: the sum of the delays so far is one base delay short of
the next delay, and it has fitted the timeout, because otherwise the context
would have won the `select`; so the next delay is at most the timeout plus one
base delay, which fits, and neither the shift nor the product overflows. This
is the argument why the missing bound on `max_retries` does no harm, and it rests on
`RetryAssumption`. `LateCall` says that a call made after the deadline is the last:
all it can lead to is a `select` in which a done context wins against a timer
that has yet to run. `Bodies` counts separately for downloads.
`PowerDef` proves the recursive equation of `PowerOfTwo`, from the least member
of a set of naturals, since the library's theorems on induction take a
predicate, which the provers cannot supply.

**Callback.** The invariant has one part for each delivery (`DeliveryInv`) and
one for all of them (`InTurn`: Feishu delivers again only what it has got no 200
for). A step of one handler changes nothing of the other deliveries (`KeptInv`,
`HandlerMoves`), and a change by an operator only adds to what they have seen
(`SeenGrows`). `Live` is carried from the first reading to the dispatch: the
configuration of a job is made of values each of which was in etcd while the
request was handled, though perhaps never at the same time. `Explained` keeps for every status its reason,
which only grows while operators change etcd (`ReasonsStay`); `Processed` keeps of a delivery that was answered
200 without a job why it was not for the bot, by the name read last. From `InTurn` the
jobs of two deliveries imply that Feishu gave up the earlier one, which is
counted without induction (`NoDuplicateWithoutGivingUp`).

**Reply.** `LeftIsRest` and `PartsInOrder` say what the loop over the parts has
done so far: every part sent is of the processed ones, in order, and no
processed text is missing. `AnswerKnown` keeps, from the agent's answer to the
end, that the client was of the app's type; `FileSettled` that the text is not reached
before the file was posted or has failed, without which an answer that names a
file could end with neither.

**Content.** `PadUnpad` is the arithmetic of the padding. `FileFound` follows the
scan of `extractMediaPath` from the first prefix over its blanks to the separator
and proves both directions: the path returned is there, and where none is
returned there is none. `SameMention` shows that the loop of `IsBotMentioned`
and the loop of `BotMentionKey` find the same mention, `CutOut` that cutting a
placeholder out of the JSON is cutting it out of the text, with the trim outside of it, and `NothingAdded`
that a content which is no object does not become one by the cut.

What the loops of the parsers and builders collect is proved in `SequenceLemmas`.
`FlattenSeq` is defined by recursion, on which the provers cannot do induction
by a predicate; `UpTo` does it with a set instead, and `FlattenFacts` then gives the
flattened sequence its `Offsets`: where each of the concatenated pieces begins,
and that there is nothing else. `FilterFacts` is what follows for a loop that appends some of the
elements and skips the others: the one at `i` comes at its `Rank`, the number of
those taken up to `i` (`Collects`). With it `BlockParts` and `PostParts` place every
usable item of a post among its parts (`Counts` adds up the blocks before it),
`DownloadedParts` places them in the request without the lost images, and
`ResponsesText` and `ChatText` say when an answer makes no text, or one of newlines only
(`FlattenEmpty`, `FlattenLonger`). The invariant keeps, for each variable, what it was computed
from as long as the worker has that too: `EventKnown`, `PartsKnown` and `PostKnown` from the
gate to the request, `RequestKnown` for the request, `AnswerKnown` and `FileKnown` for the reply.
`ReplyKnowsAnswer` needs `FileIsNamedInReply` too: an answer of empty messages in a
chat is a text of newlines, which is blank to `Reply` only if no file is found in it.

Only model-checked is what rests on fairness, which is out of the prover's
reach: `EveryMessageCompletes`, `ShutdownTerminates` and the fairness part of
`ImplementsService` of `Dispatch`, `Returns` of `Retry`, `JobEnds` of `Reply`,
`EveryMessageEnds` of `Gateway`.

## Not modelled

- The scalar fields of agent requests and answers, token usage and tools, the
  values of tokens, log output. JSON is modelled only where the code treats it
  as text (`callback.go:225-231`); the cipher and base64 are taken as inverse to encryption.
- Goroutine panics: `gin.Recovery` turns a handler's panic into 500, which is in
  `Callback`; a panic in a worker ends the process (`Panic` of `Dispatch`); the one
  place found that can panic is that of finding 2.
- Loading of the configuration file; after a failed load `main.go:31` uses a nil
  configuration and the process ends before it serves anything. What `validateConfig` does is
  straight-line defaulting, about which nothing could be said but the assignments.
- `cfg.Agent.User`, which the factory does not read (`callback.go:298` passes the sender).
- Failures to read the HTTP body, and redelivery limits of Feishu.

## Plan

1. `Dispatch`, `BoundedService`, `DispatchProofs` – done.
2. `AgentCache`, `Retry`, `Callback`, `Reply` – done, model-checked and proved.
3. `MessageText`, `AnswerText`, `Content`: the pure algorithms – done, checked over bounded
   inputs and proved for inputs of any size.
4. `Gateway`: dispatcher, cache and configuration changes composed – done, model-checked and
   proved.
5. Proofs – done for every safety property that the runs check. Left is liveness, which stays
   with TLC.
