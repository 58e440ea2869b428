# A TLA+ model of pgwire-mock

pgwire-mock is a TCP server that speaks the PostgreSQL wire protocol and answers
from rules, from a small in-memory table store, or with canned results, together
with an HTTP API to register rules, inspect the queries and stream them live.
This directory holds TLA+ specifications of its concurrent and stateful parts,
the TLC configurations that check them on small instances, and proofs, checked
by TLAPS, of the properties that matter most.

Paths such as `server.go` are below `internal/` of the repository: `server/`,
`mock/`, `admin/`, `protocol/`. `PROJECT.json` maps every definition to the lines
it models.

## 1. Inventory

| Part | State it keeps | Operations | Talks to | What is hard | What makes it correct |
|---|---|---|---|---|---|
| **TCP server** `server/server.go`, `cmd/pgwire-mock/main.go` | listener, `conns` under `connsMu`, WaitGroup `wg`, `shutdown`, gauge `activeConns` | Start, acceptLoop, the goroutine per connection, Stop | spawns handlers; Stop closes their sockets | connections accepted while Stop runs, wg.Add against wg.Wait, every way a handler ends | nothing is left when Stop returns, Stop returns, no connection leaks |
| **Connection handler** `server/conn_handler.go` | `txStatus`, `stmts`, `portals` (pointers), the bufio.Reader | handshake with SSL/TLS, Query, Parse, Bind, Describe, Execute, Close, Sync, Flush, Terminate | calls `Engine.Match`; socket closed under it by Stop or by a rule | pipelining, errors half-way, the socket closed with messages still buffered | one ReadyForQuery per synchronisation point, portals keep their statement, the handler ends |
| **Fault injection** `conn_handler.go:433-470`, `mock/rules.go` | `Rule.hits`, an atomic counter shared by all sessions | drop_connection, latency and jitter, error, fail_after_n | reads the counter `Match` has raised | the counter is raised in one place and read in another, after a sleep | the budget of successes is exact up to calls under way |
| **Engine** `mock/engine.go` | `rules` under `mu`, `logs` under `logMu`, the hook | AddRule, PrependRule, DeleteRule, ClearRules, Match, LogQuery, ResetLogs | called by every handler and by the admin API; calls the store and the hook | `Match` walks the backing array after unlocking, DeleteRule shifts it in place | the first matching registered rule answers; log and counters agree |
| **Table store** `mock/state_store.go` | `tables`: map of columns and rows, under one RWMutex | CREATE, DROP, TRUNCATE, INSERT, SELECT, UPDATE, DELETE | called by `Match`; handlers read the rows it returns after unlocking | SELECT locks twice, UPDATE writes in place, rows are shared | statements act as if one at a time; a SELECT sees one state |
| **Event stream** `admin/events.go` | `clients`: set of buffered channels, under `mu` | Subscribe, Unsubscribe, Broadcast, ServeHTTP | fed by the engine's hook in the session's goroutine | full buffers, clients that stall or leave, closing a channel others send on, the write deadline | never blocks a session, keeps order, never sends on a closed channel, streams end |
| **Admin API** `admin/api.go` | none of its own | add, delete and list rules, log, reset, assert, metrics, health, dashboard | engine, broker | runs while sessions do; compares the log by rules of its own | a posted rule overrides just what it matches, a call that was answered can be asserted |
| **Matcher** `mock/matcher.go` | a cache of compiled patterns | Matches, normalisation | called by `Match` | four criteria, two spellings of NULL | what it takes for equal, the assertions do too |
| **Built-ins and catalog** `engine.go`, `mock/catalog.go` | none | canned answers for SELECT 1, SET, version(), pg_catalog ... | called by `Match` | the order of rules, built-ins, store, catalog, fallback | tag, types and rows agree |
| **Templates** `mock/template.go` | one atomic sequence | substitution in cells | handler | NULL, types of what is substituted | cells decode as announced |
| **Rules loader** `mock/rules.go`, **replay** `proxy/recorder.go` | none after startup | load once, fill in defaults | main | the same defaults in three places | a rule means the same whatever way it came in |
| **config**, **TLS** | none after startup | read once | main | none | sequential |
| **Codec** `protocol/*.go` | none | framing, messages, binary encodings | handler | length arithmetic, widths and signs, time ranges | the client reads what was rendered |
| **Buffer pool** `server/buffer.go`, **recorder** `proxy/recorder.go` | a sync.Pool; a file | nobody calls Get, or NewRecorder | nobody | none | not reached |
| **Dashboard, SDKs, examples** | none | HTTP wrappers | admin API | none | outside the server |

Sharing, in short: each handler goroutine owns its session state; engine, store,
broker and server are shared under one mutex each; hit counters, totals and the
gauge are atomics. The order between critical sections is where the difficulties
are, and that is what the modules model step by step.

## 2. The modules and the code

`A -> B` reads "A extends or instantiates B".

    MCServerLifecycle -> ServerLifecycle            <- ServerLifecycle_proofs
    MCEngine          -> Engine -> RuleList         <- Engine_proofs
    MCFaults          -> Faults -> Engine           <- Faults_proofs -> Engine_proofs
    MCSession         -> Session                    <- Session_proofs
    MCStore           -> Store  -> Statement, Tables -> Statement
                                                    <- Store_proofs -> Statement_proofs
    MCBroker          -> Broker                     <- Broker_proofs
    MCAnswers         -> Answers -> Canned -> Replies -> Matching,  Answers -> Tables
                                                    <- Answers_proofs -> Statement_proofs

**ServerLifecycle** (`server.go`, `main.go`, the deferred calls of `Handle`).
`mainPC` and `acceptPC` are program counters of main and of the accept loop,
`handler[c]` that of the goroutine that serves `c`; `conns`, `wg`, `activeConns`
are the variables of that name, `conn[c]` the server's end of a socket. Accept,
registration, `wg.Add` and `go` are four steps, so Stop can come between any two,
and each deferred call of a handler is a step. A failure of `net.Listen`, and an
error of `Accept` other than a closed listener, are actions. The handler's
message loop is reduced to the ways it can end; `Session` has the loop itself.

**Engine** (`engine.go`, and what `api.go` calls of it). `rules` is the slice header
and `heap` the backing arrays; a header of `Match` (`match[s].arr`, `.len`) is a
copy. `append` writes in place when the array has room (`Slack` chooses how much
Go gives it) and moves otherwise; DeleteRule's memmove is one step per slot, in
any order, while a `Match` reads slots between them. `IncrementHits`, the time
stamp and the append to the log are separate steps, as they hold no lock in
common. `RuleMatches` and `AnswerOf` stand for the pure functions Match calls. The admin API
prepends and deletes; AddRule and ClearRules are operations of the package that nothing in the
program calls, and are modelled as such.

**RuleList** is the abstract registry: an ordered list changed by atomic operations.

**Faults** adds what the handler does with the rule `Match` returned
(`executeRuleResponse`, `handleDescribe`). Its steps either are engine steps or
leave the engine alone, so it implements Engine. A rule that drops the connection only
closes the socket: the handler goes on with the messages in its reader, so the session asks
again, and what it asks is counted and logged.

**Session** (`conn_handler.go`, `reader.go` for what a message is). `sent`,
`fetched`, `taken` divide the client's messages into those on the wire, those in
the bufio.Reader and those processed. `parsed` is the heap of ParseMessages that
`stmts` and `portals` point to. A message's replies are queued in `todo` and
written one by one; the socket may be closed between any two by the client, by
Stop (`Swept`) or by a rule with drop_connection, and a write that fails is
ignored after the handshake and fatal during it, as in the code. Whether a payload
parses is a field of the message; what the engine makes of a text is any of
`Outcomes[text]`. Told 'S', the client sends `hello`, its half of the TLS handshake. That
handshake reads the connection and not the bufio.Reader, which is replaced after it: `Upgrade`
throws away what the reader had fetched in the clear, while what had not been fetched yet
spoils the handshake (`UpgradeFails`), and as long as nothing arrives the handler waits, for
Handshake has no deadline. A behaviour has one kind of client, `driver`, one of `Drivers`: whether it
uses TLS, what it opens with, which messages it sends, how many and how far ahead.

**Statement** holds what a parsed SQL statement says about rows: which a WHERE finds
(`Hits`), the list of those a loop keeps (`Those`), what SET and an inserted row's length
make of cells. **Tables** is the abstract store, **Store** the concrete one: `tables` maps a name to an object in
`objs`, whose rows are indexes into `cells`, the row slices. SELECT's lookup and scan
are two steps because `RLock` is taken twice; `SELECT *` keeps the indexes (the
slices are not copied) and sends cell by cell afterwards; UPDATE stores each cell in
two halves because a Go string is two words.

**Broker** (`events.go`, the hook in `api.go:55`, the HTTP server's WriteTimeout).
`clients` and `chan` are the map and the channels, `serve[k]` the program counter of
ServeHTTP, `held` the event between the receive and the write. A client may read,
stall, leave or outlive the write deadline.

The modules above leave open what Match decides and what is sent; the next four are about
that and nothing else, with one session whose steps are not interrupted.

**Matching** (`matcher.go`, `LogQuery`, `handleAssert`). A text is a sequence of words
with what normalisation removes (semicolons, blanks, case) as fields; a value is a kind
and a number. `Matches` has the parameters and the four criteria; `Counted` and `Passes`
are the other comparison of texts, the one assertions make with the log.

**Replies** (`executeRuleResponse`, `handleDescribe`, `template.go`, `binary.go`). From a
rule, the parameters and the result formats to the fields, the encoded cells and the tag;
the columns Describe announces, worked out separately as in the code; and the defaults of
the rules file, of `handleAddRule` and of a tape. A cell is a value and its size in bytes.
Numbers have the width and sign of their type: an integer that fits becomes the two's
complement of its size, a float the nearest multiple of the finest unit that will do, halves
to even, and what is out of range, or no number, stays a text. The widths are the constants
`Half`, `Exact` and `Units`. A number is an integer or an odd number of halves, which is enough
to tell integers from other numbers and exact from rounded ones.

**Canned** (`matchDefaultSystemQuery`, `MatchCatalogQuery`, `detectCommandTag`) is two
tables of texts and answers, in the order the code tries them.

**Answers** puts them together: `Source` is the order rule, built-in answer, store,
catalog, fallback; `Match` also logs and runs the store's statement, on `Tables`, the
abstract store that Store implements; `SimpleQuery`, `Bind`, `Describe` and `Execute` use
it as the handler does, `PostRule`, `DeleteRule` and `Reset` are the admin API. `written`
and `heard` are history: the rules as their authors wrote them, the calls behind the log.

## 3. What the runs check

| Run | Instance | What it shows |
|---|---|---|
| `lifecycle` | 3 connections | `TypeOK`, `WgAccurate`, `StopQuiescent`, `AtMostOneStraggler`, `NoAddFromZero`, `StopReturnsOrStraggler`, `NoLeak` |
| `stop_returns` | same | *violated*: `StopReturns`, finding 1 |
| `engine` | 3 rules (two share an id), 2 queries, one session, 4 registry operations, 2 calls, one log reset, 0 or 1 spare slots | `TypeOK`, `OnlyRegistered`, `FirstMatchWins`, the refinement `RegistryIsList` |
| `rule_missed` | 3 rules, 1 operation, 1 call | *violated*: `RuleNotMissed`, finding 2 |
| `faults` | 2 sessions, 2 calls each, fail_after_n = 2, a rule that drops, one log reset | `HitsMatchLog`, `SessionOrder`, `BudgetNotExceeded`, `FewEarlyFailures` |
| `describe_counted` | one session, 2 calls | *violated*: `LogCountsExecutions`, finding 3 |
| `session` | six kinds of client: 4 messages with a pipeline of 2, with and without TLS and SSLRequest; 6 with a pipeline of 3 by one that does not wait for the answer to SSLRequest; 5 and 4 messages of the extended protocol; broken ones | `TypeOK`, `SyncPoints`, `HandshakeOrder`, `ServedEncrypted`, `PortalKeepsStatement`, `Answered`, `EndsWhenClosed` |
| `failed_block` | 3 messages | *violated*: `FailedBlockReported`, finding 4 |
| `store` | one name, 2 columns and a foreign one, 2 sessions, 5 statements of 8 kinds | `TypeOK`, `SelectSeesOneState`, the refinement `StoreIsTables` |
| `store_torn` | 4 statements of 3 kinds | *violated*: `RowsSentWereStored`, finding 5 |
| `broker` | 2 sessions, 2 streams, buffer of 1, 3 queries: two of one session, one of the other | `TypeOK`, `StreamInOrder`, `BurstKept`, `QueriesGoOn`, `StreamsEnd` |
| `answers` | seven worlds, 2 or 3 calls of Match, 1 or 2 operations | `TypeOK`, `SameWhateverSource`, `ValuesDecode`, `TagCountsRows`, `AnsweredIsAssertable`, `DescribedIsSent`, `OnlyOwnAnswersChange` |

Why the bounds are enough to see the interesting cases:

- *lifecycle*: with three connections one can be served, one between Accept and its
  registration and one in the backlog when Stop runs. A fourth would repeat a role.
- *engine*: four operations allow a deletion, an append into the freed slot, a
  second deletion and a prepend under one `Match`; three rules allow a rule before,
  at and after the cursor. One session is enough there, for sessions share nothing in
  `Match` but the array, which none of them writes; *faults* has two sessions, whose
  counters and log do interact.
- *faults*: four calls against a budget of two exceed it from every side.
- *session*: four messages give SSLRequest, startup and two messages pipelined, the
  first of which may drop the connection. Extended: startup, then Parse, Bind, a Parse
  or Close of the same name, and Execute need five. The hasty client needs six: SSLRequest, startup
  and query in the clear, all of them or a part fetched before the handshake, then hello,
  startup and query. Kinds of client are kept apart, since
  all message types together with pipelining would be out of reach.
- *store*: five statements allow create, insert, a SELECT that has looked the table
  up, a drop, a recreation. Sessions are interchangeable (SYMMETRY, safety only).
- *broker*: a capacity of one with three events overflows; two sessions and two
  streams show that a full or departed stream does not disturb the other.

- *answers*: the worlds are rules that compete for one query in three spellings and with
  three parameters (a value, NULL and the text NULL); a rule that is there twice with
  another between the two, and one that finds the empty text; columns of eleven types in five
  combinations of result formats, from a rules file or from a tape; the store with ten
  statements and a table of the catalog's name; every built-in text, with and without
  a semicolon and the store. A posted rule, its deletion and two calls give every
  before and after; the store needs a third call to create, fill and read. The widths are
  smaller than the true ones and in the same order: 2^15, 2^17 for the 24 bits of a float4,
  2^19, 2^21, 2^23, and then the largest float4 and float8. Values lie on both sides of each
  limit they meet, and two of them are rounded.

`MaxOps`, `MaxQueries`, `MaxResets`, `MaxMessages`, `MaxStatements` and `MaxCalls`, and the limits
of a driver and of a world below them, are the only bounds put on the program; no proof depends on their values. Every
specification has a stuttering disjunct for the states in which the system rightly
rests (`Exited`, `Idle`, `Rest`), so TLC's deadlock check stays on everywhere and
reports a state in which something is stuck half-way.

### Fairness

- ServerLifecycle: weak fairness of Stop's steps, of the accept loop and of each
  handler's steps: goroutines that can run are run by Go's scheduler. Nothing is
  assumed of clients, of the signal, of `Quits` or of `DropConnection`.
- Session: weak fairness of the handler. This includes delivering a reply: a client
  that stays is taken to read. Without it a handler blocks in a write for as long as the
  client likes, as the code sets no deadline.
- Broker: weak fairness of each session's Broadcast and of ServeHTTP's own steps, but
  not of `Write` (a client may never read) nor of `Expire`, so `StreamsEnd` and
  `QueriesGoOn` rely on neither.
- Engine, Faults, Store and Answers are checked for safety only.

## 4. What is proved

Each theorem holds for every value of the constants that satisfies the named
assumptions of the module (finite `Clients`; `Nil` no rule; bounds natural
numbers, and so on).

**ServerLifecycle_proofs.** `TypeCorrect`, `WgCounts`, `StopLeavesNothing`,
`OneStraggler`, `WaitGroupUse`. The inductive invariant is `Typed` (types without the
sign of the counters), `Shape` (which program counters go together: a goroutine
exists only for an accepted connection, the loop holds a connection exactly while
it hands it over), `Counted` (wg and the gauge equal the cardinalities of the sets of
goroutines they count) and `Swept` (after the sweep at most one connection is open, and
wg is zero once Stop has returned). None of the last three is
inductive alone: that wg never goes negative follows from `Counted`, `Counted` needs
`Shape`, and `StopQuiescent` needs all four.

**Engine_proofs.** `TypeCorrect`, `NoStrayRule`, `RegistryRefines`, `UndisturbedMatch`,
`HitsAreLogged`, `LogIsOrdered`.

- `OnlyRegistered` is not inductive: a `Match` may read slots that a later step
  rewrites. The strengthening `IInv` says that *every* slot the current header or a
  running `Match`'s copy covers holds a rule that has been registered since the call
  began; it survives append into a shared array, since the slot written holds a rule that
  has just joined, and a half-done deletion, since each slot gets its right neighbour of
  the list before.
- `RegistryRefines`: every step is, on the registered list, one step of RuleList or none.
  `Order` adds that ids are where they should be and, while the shift is on its way,
  which slots hold their old rule and which their right neighbour's; so the list that the
  lock hides is the old one until the deletion unlocks, and then the old one without the
  first rule of that id.
- `UndisturbedMatch`: as long as no DeleteRule has overlapped a `Match`, the slots it
  covers are the list it started with and those it has passed did not match (`Steady`).
  What is prepended goes to a new array, what is appended behind the copied length. That
  the rule found is the first that matches follows where the loop stops.
- `HitsAreLogged` and `LogIsOrdered` come from one invariant, `Books`: hits are log entries
  plus calls between the two, a session's entries are as many as its finished calls, and
  the clock is ahead of every entry (`Dated`). It needs finitely many *calls*, not
  sessions: only a session inside `Match` counts.

**Faults_proofs.** `FaultsImplementEngine`: every step of Faults is a step of Engine or
leaves it unchanged, so the engine's theorems hold of it. `BudgetHolds`: at most N
successes with fail_after_n = N. Each call remembers the counter its hit produced (its
ticket); tickets of a rule are distinct and no larger than its counter, and a success
reads a counter no larger than N, so successes have distinct tickets in 1..N.
`EarlyFailuresAreFew`: calls that failed or may still fail with a ticket within the budget
were all under way at once when the counter passed N, with the session that did that among the
others; the invariant counts them against the sessions that wait (`FewFail`). It needs a
finite set of sessions, one at least (`SessionsAssumption`).

**Session_proofs.** `SessionTypeCorrect` and `PortalStability`: statements and portals
point to messages that exist (`Pointers`), which never change once allocated, so a portal
still means what it meant at Bind (`Faithful`); `Traffic` types the rest.
`SyncPointsHold`: `InStep` counts the replies that are still queued as well as those
written, so it holds in the middle of a message too, as long as nothing was lost; every
handler queues exactly one ReadyForQuery for a message that asks for one and none for the
others, whatever the engine makes of it. `HandshakeInOrder`: `Greeted` says what has been
sent or queued in each phase; what was sent once remains a prefix. `EncryptedOnly`: where the
server has answered 'S' (`Sworn`), the handler gets past the handshake only by taking the
client's, and with it everything before it (`Secured`).

**Store_proofs.** `StoreTypes`, `SelectsSeeOneState` and the refinement `StoreRefines`.
`TypeOK` alone is not inductive. `Shape` says that tables are different objects and that no
slice stands in two rows, of one table or of two: an UPDATE changes its own table only
because of that. `Lock` says how far an UPDATE under way has come: each cell of its table is as
before, half written or as it will be, so that, when it unlocks, the table is what
Tables' Update makes of it at once; until then others see the rows of before. `Intact`: no
cell is half written but the ones it is at. `Seeing`: the object a SELECT has found
is one whose content it has seen; a table that was dropped meanwhile no longer changes,
and one that was recreated is another object. What is assumed of statements
(`StatementsAssumption`): they name columns and hold texts, and `Generated` has a name for
each value of an INSERT without columns, as col_1, col_2, ... does.

The rows that a loop keeps are written `Those(list, I)`, the members of a list at the positions
I in their order, rather than with SelectSeq, whose recursion the provers cannot unfold.
**Statement_proofs** has what both stores need about it: positions are counted
from first to last (`NthPosition`), those of a list are members of it, from different
positions (`ThoseAreMembers`), what `ColIndex` finds, and the widths of inserted rows.

**Broker_proofs.** `BrokerTypes`, `EventsInOrder`, `BurstIsKept`. A stream is what its client
got, what ServeHTTP holds and what the channel has, in this order; a receive and a write
move an event within it and only a Broadcast extends it. `Heard` says that everything in
it was broadcast before the query its session is at, `Kept` that the first
`Capacity` broadcasts are its beginning, and all of it while they are fewer: the buffer then
has room. That no Broadcast meets a closed channel is `Settled`: a channel is closed in the step
that takes it out of the map.

**Answers_proofs.** `Assertable`, `AnswersTypes`, `SourceIsNoMatter`, `ValuesArrive`, `TagsCount`,
`OthersStay`, `DescribedIsTrue`: for any words, rules, worlds, patterns and statements. The invariant `AInv` has five parts.

- `IInv`: rules have the type of a rule whether loaded, converted from a tape or posted, and after
  any deletion (`Typed`), and the log and the history have an entry for each other
  (`Logging`), with parameters written as logged and an answer whose own parameters fit
  the call's: of a rule because Match compared them (`AnswerFits`), of every other answer
  because it names none. `Assertable` follows from two facts about the comparisons: what
  EqualFold and ToUpper identify is within itself (`WithinItself`), and parameters that
  fit without a wildcard are logged as the rule has them (`FitIsLogged`).
- `Origin`: every rule in use has an author's rule behind it, with the same parts but for
  tag and types, which were filled in as the handler fills them in at the reply
  (`DefaultsAnswer`, `LoadedAnswer`); `SourceIsNoMatter` is that the replies are equal then
  (`SameReply`).
- `DbTyped`: rows of tables are as wide as the tables, after every statement.
- `Replying`: the last reply is right. Each answer, of a rule, of the store, built-in,
  of the catalog or the fallback, has a cell of its type for each column and a tag that counts
  (`Good`, `StoreReady`, `AnswerReady`), and what `EncodeBinaryValue` makes of a cell is
  decoded to it (`EncodedDecodes`, one case per type). Of integers, that two's complement can be
  read back (`IntDecodes`, by `Complement`); of floats, that a number less than `Exact` units
  of a half is in no need of rounding (`FloatExact`), so the theorem is about numbers so
  small that the column has them exactly, and about what is no number.
- `Bounded`: the counters.

The two action properties compare what `Answer` makes of rules and tables at two moments.

- `OthersStay`: a call is answered as before if the first rule that matches it is the same
  rule, or if none did and none does (`AnswerKept`). A posted rule moves all others by one, so the
  first that matches is the new one or the one before (`PostedAnswers`); a deletion of the rule at k
  moves those behind it, so the first is as before unless it was at k (`DeletedAnswers`).
- `DescribedIsTrue`: the columns of an answer are a function of rules, tables and text
  (`HeadFrom`), and the parameters decide no more than which rule it is (`AnswerHead`, with
  `ParamsNoHead` for the store's statements). The invariant `Announced` says that what was
  announced are the columns of the rules as they were and of the tables as Describe *left* them;
  it holds because a statement that Describe runs would have the same columns again (`HeadStays`).

Both properties were false as first stated, and TLC finds the counterexamples in the world
`Doubled`: deleting the first of two equal rules, with another between, looks from the list
alone like deleting either, so the property now says that *some* reading explains every
change; and Describe of an empty text says NoData without asking, although a rule may answer
its Execute, so that text is left out of `DescribedIsSent` (see section 6).

Assumed: the parts of statements (`StatementsAssumption`, as for the store), that the kinds of
values are strings (`StringsAssumption`), the widths positive (`WidthsAssumption`, which holds
of the true ones), that a rule from a tape has no error (`WorldsAssumption`), and that `Nil`, which stands for a missing value,
is neither a value nor a cell (`NilAssumption`, `NoBytesAssumption`).

## 5. What is only model-checked

- Liveness: `StopReturnsOrStraggler`, `NoLeak`, `Answered`, `EndsWhenClosed`,
  `QueriesGoOn`, `StreamsEnd`. The prover does not reason about fairness and ENABLED.

The counterexamples to the five violated properties are TLC's: no theorem is about them.

## 6. Findings

Disagreements between the code and what its documents or comments say, each
with the run that shows it:

1. `stop_returns`: a connection that Accept has returned and the loop has not
   registered when Stop sweeps `conns` is never closed; Stop then waits for as
   long as its client stays (`server.go:113` against the comment at line 99).
   `AtMostOneStraggler` and `StopReturnsOrStraggler` show that this is the only way
   Stop can hang, and that at most one connection can cause it.
2. `rule_missed`: DeleteRule shifts the array that a running Match walks, so Match can
   pass over a rule that matches and stays registered (`engine.go:80`, `160`).
   `FirstMatchWins` shows that without an overlapping DeleteRule this cannot happen.
3. `describe_counted`: Describe calls Match, which logs and counts it like an
   execution (`conn_handler.go:346`), and in stateful mode runs the statement.
4. `failed_block`: ReadyForQuery reports an intact block after an error in it
   (`conn_handler.go:253`).
5. `store_torn`: `SELECT *` sends rows while UPDATE overwrites them in place, so a
   client can get a row the table never held (`state_store.go:226`, `319`).
   `SelectSeesOneState` shows that the choice of rows itself is consistent.

Others met while modelling, which the models follow and no run is spent on:

- CREATE TABLE replaces a table that is there, rows and all, and with IF NOT EXISTS too: the
  pattern skips the words (`state_store.go:40`, `75`).
- INSERT into a known table ignores its column list (`state_store.go:165`).
- A WHERE that is not `column = value`, or names an unknown column, holds of every row
  (`state_store.go:485`), so such a DELETE empties the table.
- INSERT into and TRUNCATE of a missing table succeed (`state_store.go:140`, `109`),
  although README.md:249 promises error 42P01.
- Log entries of different sessions can stand in another order than their time stamps
  (`engine.go:115`), although docs/API_REFERENCE.md:126 calls the list chronological.
- The write deadline of five seconds ends event streams too, at the first event after
  it, which is lost (`api.go:77`).
- What a client sends along with SSLRequest is thrown away without a word if it has been
  fetched, and the handshake after it has no deadline (`conn_handler.go:115-120`). A client that
  takes its query for sent then waits for an answer that never comes: `Answered` exempts just
  these messages, and `ServedEncrypted` shows that they are not acted on either.
- ReadQuery returns no error, whatever the payload, so its caller's branch for one
  is never taken (`reader.go:99`, `conn_handler.go:226`).
- BEGIN and COMMIT of the extended protocol leave `txStatus` alone (`conn_handler.go:414`).
- In stateful mode the store takes a SELECT from pg_type before the catalog can answer, and
  reports 42P01 (`engine.go:180`), although README.md:30 promises introspection.
- Describe asks without the parameters, so a rule with `params` never describes itself
  (`conn_handler.go:346`). `DescribedIsSent` shows that this and changes in between
  are, with the empty text of the next but one, the only ways Describe and Execute can differ.
- `{{param n}}` of NULL is the text NULL (`template.go:81`), in binary formats too.
- An empty statement of the extended protocol is answered OK, or by a rule without a
  query, not with EmptyQueryResponse (`conn_handler.go:414`); its Describe says NoData in
  either case (`conn_handler.go:341`).
- Dates and times more than 106751 days from 2000-01-01 are encoded as that many
  (`binary.go:87`, `113`); `ValuesDecode` is about the others.
- A number that a float column does not have exactly is rounded, as one expects
  (`binary.go:54`, `64`); `ValuesDecode` is about those below 2^24 and 2^53 halves, which are exact.
- A uuid is announced with 16 bytes and sent as its text (`messages.go:86`, `binary.go:120`).
- Built-in answers are logged as builtin-system, not under their rule's id (`engine.go:171`).
- Reset leaves counters, sequence and tables alone (`api.go:289`).
- Nothing calls NewRecorder, so `--upstream` and `--record` do nothing (`recorder.go:44`).

## 7. What is not modelled

- Text: SQL regular expressions, the layout of messages, the values of catalog rows, the
  templates that generate dates, UUIDs, random numbers and addresses, cells that mix text
  and templates. Where a property depends on such a conversion the model keeps what it
  decides (whether a payload parses, which text a pattern finds, which rows satisfy a
  WHERE, what a text of a type is as bytes).
- `SetOnQueryHook`, flags, reading and decoding the rules file or tape, and TLS setup: each
  runs once before the first connection.
- Read-only HTTP handlers, and the admin server's own Shutdown, which gives up after two
  seconds and precedes Stop without touching its state.
- The buffer pool and the recorder: nothing in the program uses them.
- The framing of the byte stream. A header with a length below 4 ends the session (`BadHeader`);
  otherwise `io.ReadFull` waits for whole messages, and Session's `fetched` and `taken` stand
  for that.
- What a panic does to other connections. A length of 2^31 + 4 or more (`conn_handler.go:91`) and a
  negative count in Bind (`reader.go:160`, `172`) make the handler panic, and as nobody recovers
  the process ends; in Session its one connection does (`BadHeader`, `BindPanics`).
- NaN and infinity, signs and leading zeros of numbers, exponents, and fractions other than halves.
- Dashboard and SDKs: pages and wrappers on top of the admin API that keep nothing.
- The interleavings of Answers: one session and one admin request at a time. What other
  sessions do between its steps is the subject of Engine, Faults, Store and Session.
- Memory effects of the data races beyond what is named above: slots of the rule array
  are read and written atomically (a pointer is one word), strings in two halves, and a
  half-written string reads as a text of its own (`Torn`) or as either of the two.

## 8. Plan

Done, in this order, the parts whose interleavings matter most first:
ServerLifecycle, Engine with RuleList, Faults, Session, Store with Tables, Broker, proofs
for the first four; then the sequential part, Matching, Replies, Canned and Answers, and the
first proof about it.

After those, the proofs: first of lifecycle, registry, budget, portals and assertions; then of
every other invariant the runs check and of the two refinements, Store's with `SelectSeq`
replaced by positions.

Then the two action properties of Answers. What is left of the runs' properties is liveness.

Next:

- the safety that the liveness properties rest on, stated with the guards of the steps
  instead of ENABLED, for any number of connections and streams: while Stop waits, some handler can
  take a step or a straggler's client is still there; a message taken from the pipeline is
  never left without a next step of its handler;
- the bounds at which the wire codec gives up (`ReadStartup`'s lengths, Bind's counts), as a module
  over lengths, with the negative payload length of `reader.go:95`.
