# A formal model of Top Queries

TLA+ modules, TLC configurations and TLAPS proofs for the Top Queries service (`src/app`): a Go
process that reads search events from Kafka, drops fraudulent and forbidden ones, counts the rest
in a sliding window and serves the most frequent queries over HTTP.

## The system

| Part | Source | State | Operations |
| --- | --- | --- | --- |
| Collector | `internal/collector/*.go` | ring of buckets (`expiresAt`, `counters`), `currentTop` | `Add`, `Snapshot`, `StartAggregatorWorker`, `GetTopN`, `GetTopJSON` |
| Ranking | `collector.go: sortTop` | none | order, tie-break, cut |
| Anti-fraud filter | `internal/filters/fraud.go` | LRU of request counters | `Check` |
| Stop-list filter | `internal/filters/stoplist.go` | `stopWords`, `machine` | `Check`, `Add`, `Delete` |
| Filter chain | `filter.go`, `metrics_decorator.go` | none (the decorator counts refusals for Prometheus) | `Check` |
| Kafka consumer | `internal/broker/consumer` | offset, pending commits | `Start`, `Close` |
| HTTP handlers | `internal/handler` | none of their own | `GetTopQueries`, `AddStopWords`, `DeleteStopWords` |
| Lifecycle | `internal/app`, `cmd/main.go`, `internal/broker` | container, errgroup, context | `New`, `Run`, `shutdown`, `WaitKafkaConsumersGroupReadiness` |

How they meet. One consumer goroutine runs fetch → metrics → decode → anti-fraud → stop list →
`Collector.Add`. The aggregator worker wakes every tick, takes a `Snapshot` of the ring bucket by
bucket, ranks it and stores the list in an `atomic.Value`. HTTP goroutines load that value, or
change the stop list, at any time. Shared state: the buckets (one lock each), `currentTop`
(atomic), the LRU (its own lock) with a mutex per counter, the stop list (one RW lock).

What is hard, part by part, and what makes each part correct:

- **Collector.** Slots are reused every turn of the ring; timestamps come late, or ahead of the
  clock; a snapshot is not atomic. Correct when buckets hold exactly one slice, slices live as long
  as they should, and the published list is the exact top of the window.
- **Anti-fraud.** Lookup and insertion are separate; eviction forgets; windows of an address
  straddle. Correct when passes are bounded, rejections are justified, forgetting is rare.
- **Stop list.** Checks run on an automaton that is being replaced; a rebuild can fail half-way.
  Correct when acknowledged changes are in force, checks are atomic and clients are told the truth.
- **Consumer and lifecycle.** Commits precede processing; rebalances deliver again; faults, signals
  and the start-up wait race, and the broker may never answer. Correct when losses and repetitions are bounded and faults are reported.
- **Pipeline.** An event is judged by three clocks: its own timestamp places it in a slice, the
  moment of the check counts it against its address, and a ban is in force from its answer on.
  Correct when a ban still reaches the top list, whoever is dropped as fraud had company near by the
  timestamps, and the limit bounds an address's share of the top.
- **Readers.** Lists are shared with the worker; `limit` is optional. Correct when a response is a
  prefix of one published list and never older than the one before.

## Modules

`TopList` is `sortTop`. `Collector` extends it; `SlidingWindow` is what it promises.
`AntiFraud` is checked against `RateLimiter`, `StopList` (with the two handlers of `BaseHandler`)
against `BanList`. `TopApi` is the reading side. `Pipeline` composes `AntiFraud`, `StopList` and
`Collector` with the actions they have; `Service` is the process around all of it. The `*Proofs`
modules, `AntiFraudBounds` and `SliceArithmetic` hold theorems and lemmas, `MC*` modules bind
constants for TLC.
Operators introduced as "a bug to test the properties with" stand for plausible mistakes; the
specifications do not use them.

### Collector

`clock` is `time.Now().Unix()`; `buckets`, `currentTop` are the fields of the Go struct; `phase`,
`snapNow`, `next`, `result`, `envelope` are the worker's place and locals; `accepted` and `base`
are history. `Add` is one step because everything it does to shared state is under one bucket's
lock. The worker's tick is `BeginSnapshot` (reads the clock), one `VisitBucket` per slot (one read
lock each), `Render` (sort, read `UpdatedAt`) and `Store`. Both collector types have these lines in
common, so one module stands for both. Durations are in units of which `Second` make a second: the
code divides durations for the number of buckets but whole seconds for the stamps, and the run uses
a bucket of two and a half seconds to keep that difference in.

A timestamp is at most `MaxLate` behind and `MaxSkew` ahead of the clock when `Add` runs. The ring
absorbs this lateness as long as

    OnTime:  MaxLate + MaxSkew <= (NumBuckets - 1) * BucketSec

With the shipped configuration (5 s, 5 min) that is just under five minutes. `OnTime` is not an
assumption of the module: `Retained` and `RingAdvances` do without it, `SliceExact` and
`WindowSpec` need it, and the run `collector_late` shows what happens otherwise.

`SlidingWindow` says what a reader may rely on, without a ring: a recount that starts when the
recorded searches are `base` and ends when they are `recorded` publishes the top list of *some*
counts between "everything in `base` that is still covered" and "everything in `recorded` that was
in the window at the start". Covered is `NumBuckets * BucketSec - MaxSkew` seconds: shorter than
the window when the bucket does not divide it, and shorter by the skew because a timestamp from the
future evicts a live slice. `IsTopOf` describes the list independently of how `SortTop` makes it.

### Anti-fraud

A check is `ReadClock` (`now := time.Now()`), `Get`, then `AddCounter` or `Count`; `CheckEmpty` is
the early return for events without an address. Counters are heap objects (`counters`) that the
cache and the callers point to, so a caller may count on an object the cache has already replaced.
The order of use in the LRU is `fresher[x]`, the keys used since x was: the least recent key is the
one with all the others fresher. That is how golang-lru behaves; its code is not part of the
repository.

`RateLimiter` is the promise to a single consumer: windows that begin with a search, `Limit`
searches in each, and an address forgotten only when `CacheSize` others were looked up since
(`since`, a history variable independent of the cache's own order). The deployed service has one
consumer; the tests and benchmarks run many, and the two-worker runs are about those.

### Stop list

`Call`, `Add`/`Delete`, `Return` are a request's arrival, its critical section with the status, and
the response; `Refuse` is the generated handler's answer to a body it cannot decode, which never
gets as far as the filter. `BeginCheck`, `ReadMachine`, `Search`, `EndCheck` are a check. An automaton is the set
of words it was built from (nil is the empty set), a query the set of words that occur in it, and
`CleanForm` is trimming and lowering. `BuildMayFail` lets the automaton library report an error;
`AddStatus` and `DeleteStatus` are what the handlers make of the filter's answer. A request of blank
words adds nothing and is answered 201, where `api.yaml` has 422: `BanList` lets either answer pass,
and the run `stoplist_blank` is about the difference.
`assured` and `freed` are histories of what clients were told, with the doubt that overlapping
opposite requests cause. In `BanList` every request and every check takes effect at one moment; a
concrete check takes effect when it copies the pointer, even if it searches long after.

### Readers

`Publish` is the last step of the worker: it stores a pointer to a list in memory of its own
(`heap`). `Request`, `Handle`, `Render` (one step per item), `Receive` are a request. `Handle` ends
in the generated wrapper that cannot bind `limit` (`RefuseLimit`), in the panic of the struct
handler (`PanicOnNoLimit`), or in a list that is loaded (`GetTopQueries`); the response is then read
from the worker's memory while newer lists are published. `experimental` chooses the handler. A list's place in the order of publication stands for `UpdatedAt`. `OneList` is about
sharing that memory, `NoTimeTravel` about the order in which clients see lists: `floor` is the
newest list anybody had received when the request was sent.

### Pipeline

`Pipeline` has no filter or ring of its own: `Fraud`, `Stop` and `Ring` are instances of the other
modules that share the clock, with the consumer as the one worker and the one checker. `Receive` is
`ReadMessage`, decoding and the head of `AntiFraudFilter.Check`; `LookUp`, then `DropAsFraud` or
`LetPass`, end that filter; `SearchQuery` is the stop list's check, and `JudgeQuery` its verdict with
`Collector.Add`. `Administrate` is any step of a client of the stop list, between any two of these: a
request arrives, is refused, changes the list, or is answered. `BuildMayFail` is a parameter here too.
What `Collector` keeps as history (`accepted`, `adds`) is computed here from `events`, the history of
all events and their fate. The aggregator worker is left out: it only reads.

An event is dealt with at most `MaxLate` after its timestamp, which is at most `MaxSkew` ahead of the
clock; these bounds enter the properties. `BanReachesRing`: a slice that begins more than `MaxSkew`
after a ban was answered never counts the banned query, although a verdict may be old when it is
acted upon; this holds unless a build fails. `HonestPasses`: whoever is dropped as fraud had `Limit`
events of the same address that were not dropped as fraud around it, by the timestamps, which the
filter never looks at, and no further away than `TTL + MaxLate + MaxSkew`. That is less than a promise
that honest events pass: a backlog worked off at once, or events that the stop list dropped
afterwards, may use up the limit. `SliceShare`: what one address
can add to a slice of the top, given that slices and the filter's windows do not coincide.

### Service

`main` is the place of the main goroutine: *loading* the config, *assembling* the application
(`app.New`, whose error is logged and ends main with exit code 0), *building* the container's objects,
*waiting* for the next attempt at the broker, *asking* it, *running* (blocked on the context),
*draining* the HTTP server, *closing* the container, *returning*. `AskBroker` begins an attempt, which
nothing in the code limits; `BrokerAnswers` ends it, if ever, with the start of both goroutines or with
time lost, and `GiveUp` is the panic when the two minutes are over. `loop` is the consumer's place.
`signalled` and `faulted` are the two ways the context is cancelled. The consumer's loop is `CheckDone`
(the `select`), `ReadMessage` or `ReadFails`, `Decode`, `Filter` for each of the two filters of the
chain, `AddQuery`. What a filter decides is free here; the other modules are about that. `AddPanics` is
the message `Add` has no bucket for (`Unplaceable`: a timestamp before 1970, or any timestamp under a
configuration that passes validation with a bucket shorter than a second): the panic ends the
process, and after the restart the message comes back unless its offset was committed. Such a message
can end one life after the other; no property promises progress past it.

The Kafka reader is modelled from its configuration: `ReadMessage` hands the offset over when it
returns (`handed`), `Commit` sends it some time later, closing the reader sends what is left unless
the broker refuses, and a `Rebalance` starts again from what was committed. Killing the process
(`Crash`) is possible at any moment, and `Restart` begins the next life. `handled` and `ended` are
histories: messages whose pass through the loop was completed, and lives that are over; `counts` is
how often the collector of this life holds each message, as repetitions are not recognised. `Lost` is
what was committed and never completed. (What a dead process had *counted* is gone with it: the
window is in memory. `Lost` is not about that.)

## Runs

| Run | Checks | Shows |
| --- | --- | --- |
| `collector` | `TypeOK`, `SliceExact`, `Retained`, `RingAdvances`, `WindowSpec`, `Converges` | under `OnTime`, buckets are exact, slices live, the worker's lists are top lists of the window, and catch up once traffic and clock stop |
| `collector_late` | `NoStaleSearch` | **violated**: a search from before the window is published |
| `antifraud` | `TypeOK`, `BoundedLRU`, `BurstBound`, `RejectJustified`, `LimiterSpec` | one consumer: the limiter is implemented, bursts bounded |
| `antifraud_parallel` | `ColdStartBound` | two goroutines: at most `Limit` per worker in a first window |
| `antifraud_race` | `LimitPerWindow` | **violated**: more than `Limit` pass |
| `stoplist` | `TypeOK`, `AssuredBanned`, `FreedAllowed`, `BanSpec` | two administrators, one check, no build failure: an atomic set |
| `stoplist_failed_rebuild` | `AssuredBanned` | **violated**: a retried POST is answered 201 and bans nothing |
| `stoplist_blank` | `BlankWordsRefused` | **violated**: a POST of blank words is answered 201, not 422 |
| `topapi` | `TypeOK`, `OneList`, `NoTimeTravel` | two clients, both handlers: a response is one published list, and never an older one than somebody had |
| `pipeline` | `BanReachesRing`, `HonestPasses`, `SliceShare` | the composition, with builds that succeed: bans reach the ring, a drop as fraud has its cause near by the timestamps, one address's share of a slice is bounded |
| `service` | `TypeOK`, `LossBound`, `CountedAgain`, `DrainedCleanly`, `StopsInTheEnd`, `KeepsReading` | two lives with every fault: losses and repetitions are bounded, shutdown drains, a signal or fault ends the process unless the broker never answers, messages that are malformed or refused do not hold up the others |
| `service_exit` | `FaultReported` | **violated**: a fault ends in exit code 0 |

The five violations are findings about the code; `PROJECT.json` quotes the lines they contradict. Two
more disagreements with the repository's words are in the models, where one step shows them, without a
run of their own. A request without `limit`, which `api.yaml:18-21` allows, makes the struct handler
dereference nil and is answered 500 (`PanicOnNoLimit`). A broker that takes the connection and never
answers holds up the start beyond the two minutes after which `broker.go:12` says it panics: `AskBroker`
without `BrokerAnswers`, which `StopsInTheEnd` has to except.
`CHECK_DEADLOCK FALSE` is set everywhere because all runs are finite: the clock, the searches and
the requests are bounded, and at the bound nothing is left to do.

Bounds and why they are enough.

- `collector`: two buckets of two and a half seconds for a window of five and a half, so that the
  ring (4 s by whole seconds) is shorter than the window; clock 12–16, timestamps 11–17: the lateness
  `OnTime` allows. Slices 5 to 8 occur, so each slot is used by two slices (the reuse the invariants
  are about; `MCCollector` assumes it). Two queries and a top of one exercise ranking, tie and cut;
  three searches are the fewest that put two queries in one slice and a third into another. The clock
  can pass the window's boundary in the middle of a snapshot.
- `antifraud`: a cache of two for three addresses, so that eviction and return happen; six checks
  are enough for two full windows, or an eviction and a fresh start; `TTL` 2 in a run of 4.
- `antifraud_parallel`: a cache of one for two addresses, so that workers evict each other's.
- `stoplist`: two words, one with two spellings, a blank one, requests of up to two words, three
  requests of two clients: add, delete and add again in every overlap.
- `topapi`: lists of up to two items in both orders, so that torn and cut lists can be told from
  whole ones; limits below, at and above every length; three lists and three requests of two
  clients: a response can be overtaken twice.
- `pipeline`: two slots of two seconds, so that each is reused; one address and events without one,
  one query with the word, `Limit` 1 and `TTL` 2, so that a third event meets a new window of the
  filter in the same or the next slice; one request bans the word, at any point of an event's way (a
  word freed again among other requests is the run `stoplist`'s, and the theorem `BansReachRing`
  holds for any number of requests). Late and early timestamps occur at every step. Two addresses
  would only interact in the cache, which the run `antifraud` covers.
- `stoplist_blank`: one request is all it takes.
- `service`: three messages, the second malformed, the third without a bucket, and two lives: more
  messages than may be lost, so that `LossBound` could fail. One rebalance per life, one request in
  flight, two attempts at the broker.

Fairness. The collector's `FairSpec` is weak fairness of the worker's steps: the ticker keeps firing, and every
lock the worker waits for is held for a bounded piece of straight-line code. Nothing is assumed of
the clock or of the callers of `Add`. In `Service`, `FairSpec` is weak fairness of main
and of the consumer's working steps: goroutines are scheduled, the time between attempts at the broker
and the two minutes pass, the wait for requests has `ShutdownTimeout`, and the reader delivers what the
topic holds. An attempt at the broker has no deadline in the code, so `BrokerAnswers` is not fair:
`StopsInTheEnd` has its never coming back as the one exception. That the closing of the reader returns
is assumed of the Kafka library. Requests need not end, signals need not come, faults need not happen
and commits need not be sent. All other properties are safety properties and use no fairness.

## Proofs

`CollectorProofs` proves, for every configuration that satisfies `ConfigAssumption` and
`ClockAssumption`, any set of queries and any number of searches:

- `TypeCorrect`: `Spec => []TypeOK`.
- `RingInvariant`: `Spec => []RingInv`, the inductive invariant. Each stamp is the start of a slice
  of its slot (or still 0), and at most `MaxSkew` ahead of the clock (`StampsOK`); nothing was ever
  accepted for slice 0, which an unused bucket seems to hold (`NothingAtEpoch`, from the assumption
  that the clock is past the epoch); and no slot is stamped older than the newest slice it received
  a search for (`NewestWins`). `SliceExact` alone is not inductive: without `NewestWins` a bucket
  that rolls forward could meet a slice that already has searches.
- `SlicesRetained`: `Spec => []Retained`, because two slices that share a slot are a whole turn
  apart (`SameSlot`, from division with remainder).
- `NeverTurnsBack`: `Spec => RingAdvances`.
- `BucketsExact`: `OnTime => (Spec => []SliceExact)`. `NeverTooLate` is where `OnTime` is needed: a
  search cannot meet a bucket that is a turn ahead.
- `TopIsExact`: what `SortTop` makes of counts of finitely many queries is their top in the sense of
  `IsTopOf`. `Ahead` is a strict total order (`AheadOrder`), so each entry has a place of its own,
  one more than the number of entries ahead of it, and these numbers are 1 to n (`Places`); cutting
  the list leaves out only what somebody is ahead of.
- `ImplementsSlidingWindow`: `OnTime => (Spec => WindowSpec)`. A recount is not atomic, so the
  invariant (`WalkInv`) speaks of a walk half done (`ScanInv`): the counts so far are at least the
  covered searches that were in the slots walked when the `Snapshot` began, and at most the searches
  that are in these slots now and were in the window when the clock was read (`CountsBounded`). The
  counts are compared as cardinalities of sets of searches, not as sums, so that a slot more is a
  disjoint union (`VisitAtLeast`, `VisitAtMost`). Both bounds need `SliceExact`, and the lower one
  that a covered slice still has its bucket (`Retained`) and lies in the window, as the ring is no
  longer than it (`RingInsideWindow`, by `RoundingDown`: rounding to whole buckets and seconds can
  only lose). `Tallied`, that every `Add` is one search, is what makes the
  queries of a list finitely many, without an assumption on `Queries`. `Store` is the abstract
  publication, `VisitBucket` and `Render` are stutters.
- `NoneIsStale`: `OnTime => (Spec => []NoStaleSearch)`, from the same invariant; the run
  `collector_late` violates it without `OnTime`.

`StopListProofs` proves, for any words, clients and checkers and any number of requests, from
`WordsAssumption`:

- `TypeCorrect`: `Spec => []TypeOK`.
- `PromiseInvariant`: `~BuildMayFail => (Spec => []PromiseInv)`, the inductive invariant. Besides
  "the automaton is that of the list", it says that of two open, opposite requests with a common
  word both doubt it (`DoubtShared`) and that what was decided and is not in doubt still holds when
  the answer arrives (`DoneHolds`). `AssuredBanned` alone is not inductive: without these an answer
  under way could promise what an overlapping request has undone.
- `AdditionsBan`, `DeletionsFree`: the two promises follow.
- `ImplementsBanList`: `~BuildMayFail => (Spec => BanSpec)`, step by step: `ReadMachine` is the
  abstract decision, `Search` a stutter. That builds succeed is needed, as the run
  `stoplist_failed_rebuild` shows.

`ServiceProofs` proves, for a topic of any length and any number of lives, rebalances, requests and
attempts, from `ServiceAssumption`:

- `LifeInvariant`: `Spec => []LifeInv`: the consumer exists exactly while main is past the wait, it
  has a message exactly when it works on one, of what was delivered and not committed all but the
  message in hand is dealt with (`DealtWith`), the broker is asked in time only, nothing is in flight
  before the server starts, and the listener is closed before requests are counted. `DealtWith` is why commits may run ahead freely.
- `TypeCorrect`; `ExitsDrained` (`DrainedCleanly`).
- `AtMostOnePerLife`: `Spec => []LossBound`. A step within a life loses nothing, the end of a life
  at most the message in hand (`LostStep`), and the cardinality follows.
- `RecountedByRebalance`: `Spec => []CountedAgain`, by induction with what the reader has still to
  deliver: a message ahead of the reader is held once per rebalance at most, the others once more
  (`DeliveryInv`).

`AntiFraudProofs` proves, for any addresses, cache size, limit, TTL and number of checks:

- `TypeCorrect`: `Spec => []TypeOK`: pointers of cache and callers lead to counters that exist.
- `CacheBounded`: `Spec => []BoundedLRU`, for any number of workers. The order of use is the point:
  `fresher` orders the keys of the cache strictly, so a full cache has a least recent key (a minimum
  of a finite, well-founded order) and an insertion drops exactly one.
- `ImplementsRateLimiter`: `(\E w : Workers = {w}) => (Spec => LimiterSpec)`. With one consumer no
  counter is replaced between lookup and insertion, so cache and heap of counters stand for the
  limiter's windows, and a key that is dropped has seen `CacheSize` others since. `antifraud_race`
  shows that two consumers break this.

`AntiFraudBounds` continues with how many events pass. What one consumer does to one address in a
step is `WindowStep` (`EveryStepIsWindowStep`): a new window begins with a pass, a pass is counted in
the window, the address is forgotten, or nothing happens to it.

- `BurstBounded`: `(\E w : Workers = {w}) => (Spec => []BurstBound)`. `BurstBound` alone is not
  inductive: a state might have `2 * Limit - 1` passes behind it and a counter with room. `QuotaInv`
  bounds, for every stretch of time, what passed by where the current window begins and how much it
  has counted, and `Dated` says that nothing is dated later than the check in progress. `QuotaInv`
  also holds what `m` windows let through (`StretchQuota`), which the pipeline needs.
- `RejectionsJustified`: `(\E w : Workers = {w}) => (Spec => RejectJustified)`. What a counter has
  counted did pass since its window began (`Justified`), so a full counter means `Limit` passes.
  This one needs no `evicted`: a counter that is forgotten justifies nothing.
- `ColdStartBounded`: `IsFiniteSet(Workers) => (Spec => []ColdStartBound)`. With many goroutines
  several counters of one address are in use at a time. The invariant (`ColdInv`) is a budget: in the
  first window of an address, `Limit` for each check about to add a counter, the room left in the
  counters that can still be counted on, and the events that have passed make up at most `Limit`
  for each goroutine.
- `LimitForOneConsumer`: hence one goroutine, as in the service, keeps `LimitPerWindow`, which the
  run `antifraud_race` shows two goroutines break.

`TopApiProofs` proves, for any lists, limits and number of clients and requests, from
`TopApiAssumption`:

- `ApiInvariant`: `Spec => []ApiInv`: memory of a published list is never written again, a response
  under way is a copy of the first items of the list it loaded, up to where `limit` cut it, and that
  list is no older than any that was received before the request was sent.
- `TypeCorrect`, `ResponseIsOneList` (`OneList`) and `NeverOlder` (`NoTimeTravel`) follow.

`PipelineProofs` proves, for any queries, words, addresses and administrators and any number of
events and requests, from `PipelineAssumption` (the assumptions of the parts, and that the spellings
administrators use are finitely many):

- `ImplementsStopList`: `Spec => List!Spec`, where `List` is the instance of `StopListProofs` with
  the pipeline's variables. Every step of the pipeline is a step of `StopList` or leaves it alone, so
  its theorems hold here without a proof of their own. `HandInv` is what this needs: the two filters
  have the consumer's event one at a time, with a timestamp within `MaxLate` and `MaxSkew`.
- `BansReachRing`: `Ring!OnTime /\ ~BuildMayFail => (Spec => []BanReachesRing)`. That builds succeed
  is what `PromiseInvariant` needs. `BanReachesRing` alone is not
  inductive, as it does not speak of the verdict under way: `VerdictOK` says that the automaton a
  check has copied, and the verdict it gives, are against every assured word of the event, unless the
  word was assured after the event (`Excused`). The ring's part is again that a search on time never
  meets a later slice, and that stamps run ahead of the clock by `MaxSkew` at most.
- `ImplementsRateLimiter`: `Spec => Filter!LimiterSpec`. Every step of the pipeline is a step of the
  filter's one consumer or leaves the filter alone (`FilterStep`). The clock of a pipeline does not
  begin at 0, so the initial state is that of an unused filter at any time (`Unused`), which is all
  that `AntiFraudBounds` asks for.
- `DropsAreHonest`: `Spec => []HonestPasses`, and `SliceShareBounded`: `Spec => []SliceShare`. Both
  are about timestamps, which the filter never looks at. The bridge is `SeenAsPassed`: the events of
  an address that the filter let through, by timestamps in a stretch, are no more than it counts as
  passed in that stretch, widened by `MaxSkew` and `MaxLate`, and the other way round. With it a
  rejection justified by the filter's time is justified by timestamps, and the quota for `m` windows
  of the filter bounds a slice. Neither needs `OnTime`, or that builds succeed.

`SliceArithmetic` holds what these and `CollectorProofs` need to know of division with remainder.

Every safety property and every refinement that a passing run checks is also proved, for the
conditions on constants named above; the run `antifraud_parallel` has `ColdStartBound` for two
goroutines where the theorem has any number. Model-checked only are the
liveness properties, which need fairness and `ENABLED` (`Converges`, `StopsInTheEnd`,
`KeepsReading`), and the counterexamples of the five violations.

## Not modelled

JSON encoding, logging, middleware, metrics and their decorator: no property here depends on them, and
the program never reads a counter. Of the
generated API layer, error types and routing. Of the configuration, the defaults and the overrides
by the environment, which choose values of constants that are free here. Mocks, the load generator
and the deployment files. `ConfigAssumption` and `ClockAssumption` exclude from `Collector` the
configurations that pass validation and make it panic (a bucket shorter than a second or longer than
the window) and negative timestamps; `Service` has them as messages that make `Add` panic. The
worker never stops in the code, and does not here.

## What could come next

1. `Pipeline` with rebalances: a message that is delivered again also uses up its address's limit.
2. `Pipeline` with the aggregator worker and a reader: how long after a ban is answered a response
   may still show the query. `BansReachRing` bounds what the ring holds, `ImplementsSlidingWindow` what
   a list holds, and `NeverOlder` what a client sees.
3. `ColdStartBound` beyond the first window of an address, for many goroutines.
