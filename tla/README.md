# A verification of the order matching engine

TLA+ modules for the exchange in `src/`: the limit order book and its matcher,
the write-ahead log and snapshots, the engine that connects gateways, shards,
logs and subscribers, and the market-data feed. TLC checks them on small
instances; TLAPS proves the safety of the matcher, the log, the engine and the
feed for all instances, as far as section 4 says. `PROJECT.json` maps every definition to the lines it models and
lists the runs, the mutants that show each property can fail, the findings and
the hazards.

## 1. The system

| Component | State | Operations | Correct when |
|---|---|---|---|
| `core`: `OrderBook`, `matcher::apply` | slab of orders, price levels chained through the orders, id index, stop trees, last trade price | new, cancel, replace; inside: match, rest, fire stops | best price first and first come first served; book never crosses; structures agree; the events tell all; apply returns |
| `wal`: writer, reader | segment files, BufWriter, counters | open, append, fsync, roll, flush; replay | what survives a crash is read back, once, in order, as far as the policy promises |
| `wal`: snapshots; recovery | a JSON file per snapshot, named by a number | save, load, latest; replay of the records after it | a loaded book is the saved one; a crash and a recovery lead to the book as it was |
| `engine` | sequencer, one ring per shard, shard threads, egress bus behind a mutex | submit, run_shard, send_batch, subscribe, shutdown | every accepted command for a symbol with a book is applied once, logged first unless the append fails, heard whole by all from the moment they subscribe; shutdown drains |
| `gateway` | one session per connection | parse, submit, answer | every line of text is answered to a client that reads, and the answer says what became of the command |
| `marketdata` | a builder per symbol, a broadcast channel, a task per WebSocket client | process, publish, recv | what is accepted and trades is published, truly; slow clients hold up nobody and lose only what was overwritten |
| `protocol`, `metrics`, `loadgen`, `ml`, `web`, `deploy` | none that the exchange depends on | | |

How they interact: gateway sessions call `Engine::submit` on a shared engine.
It takes a number from the sequencer and pushes the command into the bounded
ring of the symbol's shard, or hands it back when the ring is full. The shard's
thread, the only one that touches its books, pops a command, appends it to its
log, calls `apply`, and sends the events to every subscriber of the egress bus,
over unbounded channels. One of the subscribers is the gateway's egress
consumer: it hands each event to a builder per symbol, which publishes it on a
broadcast channel; a task per WebSocket client reads from there. Nothing calls
`save_snapshot`, `load_snapshot` or `replay` but tests: a restarted engine
starts with empty books.

What is hard here:

- `apply_new` and `trigger_stops` call each other while the stop trees still
  hold what is being fired and the slab reuses slots at once;
- the intrusive lists, level totals, id index and slab must agree after every
  mixture of fills, cancels and replaces, and the fill-or-kill check trusts
  the totals;
- producers race between the counter and the ring, shards race for the bus,
  receivers come and go in the middle of a batch;
- a process or the machine may stop between any two system calls of the log,
  and errors of the log are ignored by the shard;
- every process numbers its commands from 1, in logs and snapshots that
  outlive it;
- clients of the gateway and of the feed go away, or stop reading, at any step.

## 2. The modules

| Module | What it is |
|---|---|
| `OrderBook` | the book as a record, its operations as operators from book to book |
| `Matcher` | `apply` as a machine with an explicit call stack, over `OrderBook` |
| `MatcherFeed` | `Matcher` with a client that rebuilds its orders from the events |
| `PriceTimeBook` | the abstract specification: queues per price, no slots, links or totals |
| `MatcherRefinement` | the mapping under which `Matcher` implements `PriceTimeBook` |
| `MCCommands`, `MCMatcher`, `MCRecovery` | the commands clients send in the runs of the matcher and of recoveries |
| `Wal` | one shard's log: writer, files, failures, replay |
| `Recovery` | the matcher with its log, its snapshots, crashes and recoveries |
| `Engine` | producers, rings, shards, egress bus, shutdown |
| `Gateway` | the sessions of the clients, over `Engine` |
| `MarketData` | egress consumer, builders, broadcast channel, publisher tasks |
| `Exchange` | `Gateway` and `MarketData` composed, from a client's line to the feed |
| `Selection` | the elements of a sequence that are in a set, used by `Wal`, `Engine` and `Gateway` |
| `MatcherProofs` | each operation of the book and each action of the matcher, for all commands |
| `MatcherListProofs` | the lists, the stops and what follows from them, for tame commands |
| `MatcherTotalsProofs` | the totals of the levels and what fill-or-kill orders rest on, for tame commands whose quantities fit into a word |
| `MatcherFeedProofs` | what the events tell a client: its open orders, and its fill-or-kill orders |
| `SelectionProofs` | induction over the naturals, and lemmas about `Only` |
| `WalProofs` | the log |
| `EngineProofs` | the commands' way through the engine; the events' way over the bus |
| `ExchangeProofs` | the composition: the engine inside it, the answers, the feed |

### OrderBook and Matcher

`book` is the `OrderBook` struct: `arena` with the slab's `vacant` list and
`slots`, `ids` for `id_index`, `levels` for `bids` and `asks`, `stops` for
`stop_buys` and `stop_sells`, `last` for `last_trade`. The slab is an external
crate; what is modelled is that it hands out the slot freed last, which several
findings depend on. Fields that no decision reads are left out: symbol, tick,
tif, seq, ts, status, and a level's `count`.

`stack` holds the calls in progress, `out` the events of the command, `cmd` the
command. `apply` runs to completion on the shard's thread; the stack exists
because it recurses. The actions are the branches of the code: `RejectNew`,
`HoldStop`, `KillFok`, `StartMatch` are `apply_new` up to the match;
`FillMaker` and `CutMaker` are one iteration of `match_order`'s loop;
`FinishFilled`, `Rest`, `CancelRest` are `apply_new` after it; `VisitStop` is
one iteration of a loop of `trigger_stops`, `EndStops` its `retain`. `Cancel`
and `Replace` are `apply_cancel` and `apply_replace`. `Deliver` is the shard
sending the events.

Arithmetic is that of the release profile: words of `QtyMod` values, addition
and `-=` wrap, `saturating_sub` and `saturating_add` saturate. A panic aborts
the process (`panic = "abort"`); an access that would panic on the slab has no
action, and `NoPanic` says that no step that is due would make one.

### MatcherFeed, PriceTimeBook, MatcherRefinement

`MatcherFeed` adds a client that owns all orders. It knows what it asked for
and what the events say, nothing else; `FeedMatchesBook` says that between
commands this is exactly what the index and the arena hold.

`PriceTimeBook` states what a matching engine promises: an order trades with
the best price its limit allows, with the order that has waited longest there;
a partly filled maker keeps its place; nothing rests while it could trade; a
replaced order goes to the back; a fill-or-kill order is refused only if it
cannot be filled; a stop fires only when a trade has reached it. The mapping
walks the chains of the levels to get the queues. Stop triggers are judged by
the trades of the current command and, once its order is through, the last one
before it, because that is when the code looks at the stops.

### Wal

A record reaches a file in two pieces, so that a file may end in the middle of
one; sizes in bytes are replaced by `SegmentSize` and `BufCap` counted in
records, and by a choice whether a record still fits into the BufWriter. `at`
is where `append` is: each step is one system call, a call may fail
(`WriteFails`, `SyncFails`, `OpenFails`; the shard ignores the error and goes
on), and between any two the process may be killed or the power fail. A kill
loses the BufWriter, except what a write in progress got through. A power
failure cuts every file to a length between what was synced and what was
written. `Replayed` is `WalReader::replay` from number 0. A tail of zeros, which
some file systems leave, decodes as truncated as well, so a shorter file stands
for it. Assumed of the system: syncing a file makes its directory entry
durable, and a sync that succeeds covers earlier writes to the file.

### Engine

`submit` is two steps, `Sequence` and `TryPush` (or `Refuse`), because the
counter and the ring are two shared objects. `run_shard` is `Pop`, `Log`,
`Apply` (or `PassOver`), `Lock`, `Send`, `Forget`, `Unlock`. `Send` delivers
one event to one subscriber; `Forget` is `retain` dropping one whose receiver
is gone. `shutdown` takes the engine by value, so `DropSenders` waits until no
producer is in `submit`; `Exit` and `Join` follow. What `apply` does to a book
is `Matcher`; here a command has a batch of events. Whether an append succeeds
is a choice; how the log survives is `Wal`. `since` is a history variable: how
many events the engine's own receiver had heard when another one subscribed,
against which `NothingMissed` holds what that one hears.

### Recovery

The book, stack and events are `Matcher`'s, and `phase` is what the process
does with them: live, down, loading, replaying, recovered, failed. `LogAndApply`
is `run_shard` taking a command: the record joins `log` with the sequencer's
number, and `apply` begins; `ApplyOn` and `Done` are its steps and its end, live
or in a replay. `Save` is `save_snapshot` between two commands; it lists the
orders in any order, as the values of a `HashMap` come. `SaveCutShort` is a
write that stops half way: the file is there and does not parse. `Kill` leaves
the files; `PowerFailure` also takes or cuts any snapshot, since none is
synced. A kill cuts the records of the process that was live to the first of
them, a power failure those of every process: that is what `Wal`'s
`ReplayInOrder` and `NoGaps` say of a log. `Wal` finds gaps only where a power
failure loses a batch that is not the last (`wal_roll`) or an append fails;
these logs are not among those of `Recovery`. `Start` is `Engine::start`.

Which steps make a recovery is written in `architecture.md:136` and done in
`tests/crash_recovery.rs`; no code of the engine does it. `Recover` is
`latest_snapshot` and the start of `load_snapshot`, or no snapshot and a replay
from 0; `LoadOrder` is one turn of `load_snapshot`'s loop; `StartReplay` and
`ReplayRecord` are `replay` with its filter. `past` is a history of what the
live book was after each command, against which a recovered one is held.

### MarketData

`egress` is the consumer's channel, `taken` its own count `seq`, `builders` those
that have not seen the event in hand. The map of builders never changes, so its
order is fixed. `Process` is `SnapshotBuilder::process` and the send on the
broadcast channel. That channel is external: it keeps the last `Capacity`
messages and never blocks the sender, and a receiver that is behind gets an
error once and goes on at the oldest message kept. `task` is the task of a
client: `Accept` subscribes, then come the handshake, and `Recv` and `Sent` in
turn. `got` remembers the positions a client was sent, the one it subscribed
at first. Prices, quantities and the levels of snapshots play no part: the
levels are always empty, because `update_level` is never called.

### Gateway

A session is one of `Engine`'s producers, at the points where
`handle_json_session` awaits: `read`, `submit`, `write`. `ReadCommand` reads a
line that parses and takes the number, `Submit` pushes or gets the command
back, `ReadBadLine` is a line that does not parse, `Write` is the answer.
`ReadGarbage` is a line that is not UTF-8: `next_line` takes it and returns an
error, the loop ends, and a client that is still connected has no answer.
`EndOfInput` needs no closed client: one that sends no more may still read.
`Write` is `write_all`, which waits as long as a connected client leaves its
answers unread, and with it the session. A client may close at any time; a write
to it is then lost or fails, and the code ends the session only when the failed
answer was an acknowledgement. Blank lines change nothing. The gateway never shuts the engine down, so `Engine`'s
shutdown is not part of it.

### Exchange

`MarketData` is instantiated with what the engine's own receiver hears for its
events: the consumer subscribes before the first session opens, so both hear
the same. A batch of the engine has two events here, the second a trade.

## 3. The runs

| Run | Shows | Bounds |
|---|---|---|
| `core` | `ListsAgree`, `TotalsAgree`, `NoPanic`, `NoCross`, `FeedMatchesBook`, `FokAllOrNothing`, `FokKilledRightly`, `KeepsPriceTimePriority` for all order kinds but stops, cancels and replaces, refused ones included; no deadlock | 3 ids, prices 1..2, quantities 1..2 |
| `stops` | `ListsAgree`, `TotalsAgree`, `FeedMatchesBook` and `KeepsPriceTimePriority` again, and `StopsDrained`, `BoundedCalls`, `FiresOnlyReached`, with stop-market orders on both sides that are never cancelled | 2 limit ids, 2 stop ids, prices 1..2 |
| `any` | `TypeOK`, `LevelsNonEmpty`, `IndexSound` for every kind of command, with words that wrap at 4 | 2 ids, `MaxStale` 1, `MaxDepth` 3 |
| `returns` | `ApplyReturns`, with stop-market buys that fire in nested calls | 2 limit ids, 2 stop ids, no symmetry |
| `wal` | `ReplayInOrder`, `OkIsDurable`, `NoGaps` under Off, PerRecord and Every(2) | 4 records, 3 processes, 1 failing call, 1 power failure, segments of 2 |
| `recovery` | `LoadedIsSaved`, `ExactWithoutTies`, `RecoveryEnds`, and `BookIntegrity` of loaded and replayed books | 3 commands of 3 ids, 2 processes, 1 snapshot, 1 cut short, 1 kill, 1 power failure |
| `engine` | `TypeOK`, `NumbersUnique`, `AppliedInOrder`, `LogAhead`, `BatchesWhole`, `NothingMissed`, `ShutdownDrains`, `ShutdownReturns` | 2 producers, 2 commands, 2 shards, rings of 1, 3 receivers, batches of 2 |
| `exchange` | `AnswersAreTrue`, `LosesOnlyOverwritten`, `LinesAnswered`, `AcceptedIsPublished`, `ReadersCatchUp` | 1 session, 2 commands, 1 line that is none, a ring of 1, batches of 2, 1 feed client, a channel of 2 |

Four runs end in a counterexample; each is a disagreement between the code and
what the repository says of it.

| Run | Property | The disagreement |
|---|---|---|
| `stop_limit` | `BoundedCalls` | a stop-limit order that rests after firing is fired again in the nested call, for ever (`matcher.rs:325`, against `architecture.md:99`) |
| `wal_roll` | `LosesOnlyLastBatch` | the end of a rolled segment is never synced (`writer.rs:93`, against `adr.md:73`) |
| `recovery_order` | `RecoveredIsLive` | a snapshot lists orders in the order of a hash map, so orders at one price lose their places (`snapshot.rs:37`, against `architecture.md:143`) |
| `market_lagged` | `LaggedAreDropped` | a receiver that lags is neither dropped nor sent a snapshot: it skips and goes on (`bus.rs:63`, against `bus.rs:49` and `architecture.md:179`) |

`market_lagged` is the other side of `ReadersCatchUp` and `LosesOnlyOverwritten`
in `exchange`: these say that what the code does for a slow client it does
rightly, where the documents would have the client dropped.

Reading the code for these modules showed more. No run is spent on it, either
because the first steps show it or because the run would stop at one of the four
above; the passing runs model these as the code has them or leave out what they
need, as said:

- cancelling or replacing a stop lowers the total of a level it is not in, if
  one has the trigger's price (`matcher.rs:264`), so that a fill-or-kill order may
  be killed that could be filled (`plan.md:103`), and leaves its slot in the stop
  tree, where a later order is fired in its place (`matcher.rs:316`, against
  `plan.md:104`); the theorems of `MatcherProofs` and the run `any` include it;
- an immediate-or-cancel order ignores its limit (`matcher.rs:140`); what the
  repository says of such orders leaves it open, and `core` gives them limits
  that reach all prices;
- a replace with a bad price is rejected after the order has been taken out
  (`matcher.rs:298`, against `architecture.md:188`); `core` has it, and
  `FeedMatchesBook` says only that the client can tell;
- two producers may push in the opposite order of their numbers, and the shard
  applies them so (`lib.rs:89`, against `architecture.md:69`); `engine` has it, and
  `AppliedInOrder` is about each producer by itself;
- a command whose append failed is applied and heard (`shard.rs:67`, against
  `architecture.md:50`); `engine` has it, and `LogAhead` excepts it;
- a line that is not UTF-8 ends the session of a connected client without an
  answer (`session.rs:18`, against `architecture.md:65`); `exchange` has it, and
  `AnswersAreTrue` excepts that line and no other;
- every builder publishes every trade as its own symbol's (`main.rs:79`, against
  the comment at `main.rs:78`); `MarketData` does so;
- waiting stops are saved and come back as resting orders (`snapshot.rs:123`);
  `recovery` has no stops;
- a process starts with an empty book on the log of another (`shard.rs:49`,
  against `plan.md:233`), and a log or a snapshot directory with the numbers of two
  processes gives a book that never was: the filter drops early records of the
  later process, and the greater number of the earlier one names the latest
  snapshot (`reader.rs:37`, `snapshot.rs:139`; names also sort wrongly from 10^10
  on); `recovery` has two processes, and `ExactWithoutTies` speaks of one;
- a torn snapshot stops the recovery although an older one or the log is whole
  (`snapshot.rs:81`, against `architecture.md:178`); `recovery` has it, and
  `RecoveryEnds` counts the failure as an end;
- `update_level` is never called, so published snapshots are empty
  (`snapshot_builder.rs:69`);
- `Every(0)` divides by zero (`writer.rs:70`).

Why `core` and `stops` leave out stops that are cancelled, replaced or limited:
after one of these defects the book is wrong by the code's own
standard, and every property of it would only repeat the finding. The run `any`
and the theorems of `MatcherProofs` include them.

### Bounds and why they are enough

- Three ids make a level with a head, a middle and a tail, or a taker that
  meets two makers; two prices make a best and a second level on either side.
  Quantity 2 against 1 makes partial fills of taker and maker.
- `QtyMod` is 64 where wrapping is not the question and 4 in `any`, where it
  is.
- `MaxDepth` bounds the native stack. In `stops` and `returns` it is above what
  can be reached (`BoundedCalls` is checked below it); in `any` it cuts the
  endless recursion of the stop-limit defect, so `any` does not check deadlock.
- `MaxStale` bounds how many entries of cancelled stops pile up at one trigger.
- In `Wal`, segments of two records and four records reach every combination
  of rolled, torn and lost; three processes make one that starts after a
  process that started after a crash. `wal_roll` uses segments of three, which
  batches of two do not divide, as in the code, where they never do.
- In `Engine`, each hazard is between two commands: two producers in `submit`,
  one command in a ring of one and one refused, two shards with a batch each.
  Three receivers let one go away between two that stay. `MaxFailures` bounds
  failing appends.
- In `recovery`, two sells at one price or at two, a buy that fills one in part
  and a cancel of the rest make books whose snapshot, log prefix and last trade
  all differ; a snapshot may lie before, at or behind the end of what is left of
  the log. `ExactWithoutTies` leaves out books with two orders at one price,
  which is the finding of `recovery_order`; `LoadedIsSaved` covers them up to
  their order. A second process appends to the first one's log: what it leaves
  must still load and replay to an end with a sound book.
- In `exchange`, a channel of 2 overflows with the two messages of one command
  and the first of the next; a ring of 1 refuses the second command while the
  first waits. One session is enough for what its answers say: what two do to
  each other in the ring is `engine`'s.
- Symmetry is used among ids of the same kind in the runs without liveness.

Deadlock is not checked where the system may stop for good: `Wal` after its last
process, `Engine` after shutdown, `Recovery` and `Exchange` at the ends of their
bounds, and the runs that bound the state
(`MaxStale`, `MaxDepth`).

### Fairness

`ApplyReturns` assumes weak fairness of `Apply` and `Deliver`: a shard's thread
that is inside `apply` goes on. Commands need none. `ShutdownReturns` assumes
weak fairness of each shard's thread and of the thread in `join`; nothing is
assumed of producers, receivers, or of who gets the mutex first: work is
finite once the senders are gone.

`RecoveryEnds` assumes weak fairness of the steps of a recovery: the program that
runs it goes on unless it is killed. In `Exchange`, the runtime polls sessions
and the consumer's thread runs:
weak fairness of `Submit` for each session and of `Consume`, none of clients and
so none of `Write`, which waits for one. The rest are antecedents of the
properties that need it, so that nothing else is allowed to lean on it:
`LinesAnswered` assumes that the client in question reads its answers
(`HearsOut`), and not even a shard that runs, because `submit` never waits;
`AcceptedIsPublished` that the shards run (`ShardsRun`), `ReadersCatchUp` that
the client of the feed reads (`ReadsOn`).

## 4. The proofs

Every theorem below is for all values of the constants that the named
assumptions of its module allow: any ids, commands, word size, segment size,
number of producers, shards, receivers, sessions, crashes. The assumptions say
what the code says of these values: a capacity and a batch are not empty, a
symbol is a number, `QtyMod` is positive, the engine's own receiver is not one
of the late ones, `None` is no number and none of the values it stands beside.

### The matcher

`MatcherProofs`, for every set of commands:

- `TypeCorrect`: `Spec => []TypeOK`;
- `NoEmptyLevel`: `Spec => []LevelsNonEmpty`;
- `IndexAlwaysSound`: `Spec => []IndexSound`;
- `InvHolds`: `Spec => []Inv`, the inductive invariant they follow from.

None of the three is inductive by itself. That the index leads to an id's own
order after a slot is reused needs that the vacant list names exactly free
slots and none twice, that slots from `slots` on are unused (`SlabSound`), that
two indexed orders have two slots and that a taker in flight is in the arena
but not in the index (`TakerApart`), so that the fill of a maker or a fired stop
cannot remove it. `StackSound` says what the suspended calls may rely on when a
nested one returns: only that they are `trigger_stops` frames of the right
shape, because everything else may have changed. That is also why `FireStop`
keeps the index sound with a stale slot: it removes the entry of whatever
order it finds there. `Inv` is `BookSound(book)`, `StackSound(stack)`, the type
of `cmd` and `TakerApart`.

`MatcherListProofs`, for commands that are `Tame`:

- `ListsAlwaysAgree`: `Tame` gives `Spec => []ListsAgree`;
- `NeverCrosses`: `Spec => []NoCross`;
- `OnlyReachedFire`: `Spec => []FiresOnlyReached`;
- `NeverPanics`: `Spec => []NoPanic`;
- `NestingIsBounded`: `Spec => []BoundedCalls`, for every finite set of ids;
- `StopsAreDrained`: `Spec => []StopsDrained`;
- `WholeHolds`: `Spec => [](Inv /\ Whole(book, stack))`, from which they follow.

`Tame` says of the constant `Commands` that no new order is a stop-limit order
and that no cancel or replace names the id of a stop. Without it they are
false of the code: a cancelled, replaced or rested stop leaves its slot in the
tree, and a later order is fired in its place (section 3, `stop_limit` and the
list below it). The commands of `core` and of `stops` are tame; all other
kinds, with any prices and quantities, and any nesting of fired stops, are
covered.

`Whole` is needed because `ListsAgree` says nothing of a step in the middle of a
call and has no order to argue along:

- a list is linked in the order of an `age` of its orders (`Linked`). Without
  ages, orders linked in a ring beside the list would satisfy every local
  condition, and popping the head would leave a level that looks empty and is
  not (`LoneHead`);
- every order but the taker is indexed under its own slot, side and price
  (`OrdersSound`), so that a cancel unlinks from the list the order is in;
- a tree, or what a `trigger_stops` has collected, may hold a slot whose stop is
  gone, and whose slot may be in use again, only if a call in progress has
  fired it (`TreesSound`, `CollectedSound`); then no other order can be there
  when the call comes to it, because what nested calls put into the arena is a
  market order that has left it again (`FrameSound`);
- what a taker has filled and what is left of it is what it came with, so the
  difference does not wrap;
- bids are below asks at every step, because a limit order rests only when no
  level across is within its limit.

Two more invariants rest on `Whole`. `Room`: the depth of the calls and the
number of held stops together never exceed the number of ids by more than one.
Every held stop has an id of its own, and a call nests another only by taking a
held stop out of the book, which nothing puts back before the command is done.
`StopsWait`: every held stop is in its tree (`Planted`); a `trigger_stops`, also
one that is suspended, has still before it every held stop that its own trade
reached (`AwaitsAll`); and the innermost call either has nothing due before it,
or goes by the last trade and has swept the sides it is done with
(`CallDrains`). The first case is what a suspended call finds when a nested one
returns: that call has swept for a later trade, so the outer one may go on with
its own older trade. A nested call cannot end without such a sweep, because what
a stop turns into is never refused and never held, and there has been a trade.

`MatcherProofs` begins with one lemma per operation of the book; each of the
modules has one lemma per action and combines them.

`MatcherTotalsProofs` proves `TotalsAlwaysAgree`, `BookIsWhole` and
`FokIsKilledRightly` (`TotalsAgree`, `BookIntegrity`, `FokKilledRightly`) for
tame commands under one more assumption, `Ample`: the ids are finitely many, and
there is a bound on the quantities that, times the number of ids, is less than
`QtyMod`. Without it `TotalsAgree` is false: a level's total is a word of its
own, and wraps when what rests there exceeds it. The code has no check against
this, so the assumption is on the commands. `Counted` is what the totals
are at each step, also within a match: the total of a level is the sum of what
its orders have left. Only an order that comes to rest adds to a total, and only
there is the bound needed: there are no more orders in the arena than ids
(`Countable`), none has more left than the bound (`Modest`). A match subtracts
what it trades from the maker and from its level; popping a maker subtracts what
it has left, which is nothing by then. The sums are the library's
`MapThenSumSet`; what it is on a set with a member more or less is proved by
`SubsetInduction`, from the induction over the naturals of `SelectionProofs`. For
fill-or-kill orders, the totals of the levels within the limit together are what
the orders on these levels together have left (`HeldIsLeft`).

`MatcherFeedProofs` proves the two properties of the events, for `FeedSpec`:

- `FeedAlwaysMatches` (`FeedMatchesBook`), for tame commands. Between commands
  the client's orders are those of the index; the invariant `Informed` says what
  they are at each step in between, if the events emitted so far were delivered
  (`Told`): the same, and besides the order being matched, which is in the arena
  but not in the index, or the stop that has fired and is submitted anew, which
  is in neither (`Belief`). That the second is not refused, and so does not go
  without a word, is what `StopsWait` says of nested calls. The client adds and
  subtracts in the integers, the matcher in words: a trade is never more than
  the taker or the maker has left, so neither wraps.
- `FokFillsOrNothing` (`FokAllOrNothing`), for tame commands that are `Ample`.
  The pre-check reads the totals once, the match that follows ignores the limit.
  In between (`FokTrades`) what the order still wants is at most what the orders
  within its limit have left (`Covered`): so the best level is within the limit
  as long as it wants anything, and each trade takes as much from both. It ends
  filled, since neither an empty side nor an empty level can stop it
  (`FokOnlyFills`), and the stops that fire afterwards find no order of its id
  to trade with its name (`Gone`).

What the client makes of a sequence of events is the fold of the community
modules, a `CHOOSE` over functions on sets of places; that there is one and that
an event more is learnt last (`HeardOne`) is proved by induction over the size of
the set.

### The log

`WalProofs` proves `ReplayKeepsOrder`, `OkSurvives` and `NothingInBetweenIsLost`:
`Spec` implies `[]ReplayInOrder`, `[]OkIsDurable` and `[]NoGaps`. They speak of
what a replay would return, a walk over every file; the inductive invariant
(`Inductive`, theorem `Invariance`) says instead where the records lie. There is
a number `start` and an `owner` for each segment, so that

- a segment holds the pieces of consecutive records of the log from `start` on,
  all of one process, and perhaps half of one more; a later segment holds later
  ones (`Laid`);
- the buffer goes on where the open file ends, up to the last record logged
  (`Follows`);
- when a process goes on to a new segment, all that it has logged before is
  safe: in a file and, under PerRecord, synced (`Unbroken`), and under PerRecord
  so is every record whose append returned Ok (`Confirmed`);
- no two records are equal (`Distinguished`).

From this, what a replay returns is a selection of the log's records at
increasing places, hence, the records being distinct, the log with the lost
ones left out.

### The engine, its bus, the exchange

`EngineProofs`: `SubmitNumbersOnce`, `SubmitInOrder` and `LogBeforeBook`
(`NumbersUnique`, `AppliedInOrder`, `LogAhead`). A number belongs to one command
at each step of its way: no two producers hold the same one, what is accepted is
settled, and the numbers ahead of a shard's log and behind it are apart
(`SubmittedOnce`, `AcceptedSettled`, `PassedOnce`).

On the bus, `BatchesStayWhole`, `LateMissNothing` and
`ShutdownLosesNothing` (`BatchesWhole`, `NothingMissed`, `ShutdownDrains`). What
needs care is a receiver that leaves in the middle of a batch, since `retain`
moves those behind it up. The invariant `Aligned` says for each place in the list
of subscribers how much of the batch in progress has come there, and that before
it the receiver had heard whole batches, the same as the engine's own receiver
but for the first `since` events, which that one had heard when it subscribed.
`BusSound` adds that a receiver that has subscribed and is still there is in the
list.

`ExchangeProofs`: `ImplementsEngine` is `ExchangeSpec => Spec`, each step of the
composition a step of `Engine` or a stutter, so that all that is proved of
`Engine` holds behind the gateway; `AnswersAlwaysTrue` and
`FeedLosesOnlyOverwritten` (`AnswersAreTrue`, `LosesOnlyOverwritten`) for any
sessions, clients and capacity. `AnswersAlwaysTrue` counts one answer per line,
but for the line on which `next_line` fails, after which the session has ended.

### Sequences

`Only` in `Selection` is `SelectSeq` with a set for the test, and a recursive
function, not an operator, so that the provers can reason about it. The
library's induction theorems take an operator as a parameter; `SelectionProofs`
derives induction over sets of natural numbers (`LeastElement`, `Induction`) from
well-foundedness instead, and proves with it what `Only` does to sequences that
grow, are joined, or are walked along increasing places.

### Only model-checked

- The refinement `KeepsPriceTimePriority`: the queues are a recursive walk.
- `LoadedIsSaved`, `ExactWithoutTies`, and `BookIntegrity` of the books that
  `Recovery` loads and replays.
- All liveness, which is out of the prover's reach: `ApplyReturns`,
  `ShutdownReturns`, `RecoveryEnds`, `LinesAnswered`, `AcceptedIsPublished`,
  `ReadersCatchUp`.

## 5. Not modelled

- The codecs, metrics, load generator, sidecar and page: no state that the
  exchange depends on.
- What a line says and how a price is written: `json_to_command` converts field
  by field, and `Gateway` distinguishes lines that parse from those that do not.
- An append that fails before a snapshot is taken: `Wal` has the failing append,
  `Recovery` a log without holes.
- A client that connects again: to a session it is another client.
- Clock readings: timestamps only feed the latency histogram.
- `update_level`, `RingSender::push`, `occupancy_pct`: never called.

## 6. The plan

Done: `OrderBook`, `Matcher` and what surrounds them, first because all else
carries its commands and events; then `Wal` and `Engine`; then `Recovery` over
the matcher, `MarketData`, `Gateway`, and their composition `Exchange`.

Left of the model:

1. `Engine` over `Wal`: what a client has heard of against what is durable.
2. `Recovery` with failing appends and with the stops that a snapshot turns into
   resting orders.

Then, proving more:

3. `Whole` through load and replay: a loaded and replayed book is sound for any
   snapshot and log.
4. Each action of `Matcher` as a step of `PriceTimeBook`: the ages of `Whole`
   are the order of its queues.
