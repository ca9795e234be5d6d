# polyrust in TLA+

polyrust is a trading bot for five-minute up/down markets: it derives a
probability from Binance's book, buys the side of a Polymarket market that is
cheap against it, and sells when the model no longer supports the position.
This directory models its core logic in TLA+, checks the models with TLC and
proves with TLAPS, for every value of the constants, what matters most about
the inventory, the entry and the exit flow and the process they make together,
the rotation, the two feeds, the signal engine, the entry gates and the orders.
Paths below are relative to the repository; `main.rs` is `src/main.rs`.

## The system

Five tokio tasks share `core: Mutex<RuntimeCore>` and `anchor:
Mutex<AnchorBuffer>` (lock order anchor, then core; `main.rs:223-226`), and two
queues of frames to send. A BUY or SELL runs in a task of its own.

| part | state | operations | talks to |
|---|---|---|---|
| market task (`main.rs:271-304`, `feed.rs`, `market.rs`) | the connection, quotes and quote history in `RuntimeState` | connect, subscribe, apply book and resolution messages | reads the active tokens on connect; reads the queue of subscriptions the rotation fills |
| Binance task (`main.rs:323-418`, `binance.rs`) | the signal's ring, the anchor's samples | sample, resolve the strike, decide, gate, claim, spawn a submit | anchor, then core; one submit task per claim |
| submit tasks (`main.rs:424-550`, `submit.rs`) | one claim each | prepare, sign, POST, record the outcome and the round trip | core before and after the POST, not during it |
| user task (`main.rs:654-776`, `user.rs`, `feed.rs`) | connection, trust | authenticate, subscribe, apply trade events, start and end exit trackers | core per event |
| exit task (`main.rs:784-937`) | decisions of one cycle | plan under one lock, refresh and sign under a second, POST in a task of its own | core twice per SELL |
| maintenance task (`main.rs:943-1186`, `gamma.rs`) | rotation deadline, periodic timer | discover, rotate, expire claims, queue subscriptions | core, then anchor, then the two queues |
| `Inventory` (`inventory.rs`) | balances, trade records, claims, trust | claim, outcome, expiry, trade event, rotation | called under core |
| `SignalEngine` (`signal.rs`) | ring, last book, strike | accept a sample, decide, answer the exits | called under core |
| `AnchorBuffer` (`anchor.rs`) | pending slug, samples | arm, push, resolve | anchor lock |
| orders (`orders.rs`, `types.rs`) | none | size and amount of a BUY or SELL | pure |

What is hard here: an HTTP outcome, the trade events of the same order, expiry
and rotation arrive in any order at one claim; a SELL is decided and signed
under different locks; a rotation changes core, anchor and two subscriptions in
four separate steps while the feeds connect and drop; Gamma may be away for
longer than a market lasts; two gates feed on what they gate (the round-trip
average only moves with submits it may stop); and the integer arithmetic of an
order has to be exact at all 99 prices.

## Modules

| module | models | state and actions against the code |
|---|---|---|
| `Inventory` | `inventory.rs` | one action per method, with its name; each runs under the core mutex, so each is atomic. The fallback match of a trade to any claim of its token and side iterates a HashMap in the code and is any such claim here. |
| `TradeLedger` | what `Inventory` promises | abstract: each trade counts at most once and is reversed at most once, by the size first seen. `Inventory!Ledger` is the refinement mapping. |
| `UserChannel` | the venue and its channel (external) | extends `Inventory`: orders execute, trades settle or fail, one TCP stream in order, lost while down, statuses repeated; `MalformedFrame` is the code's own loss, a frame with a trade that does not parse (`user.rs:82`). |
| `EntryFlow` | Binance callback's claim, submit task, expiry, rotation | extends `UserChannel`: `BinanceTick` claims and spawns in one lock scope; `PrepareFails`, `Post` and the three answers are the submit task, where `classify` takes each answer the venue may give (a status class, a success flag, an error text, an order id) to its outcome; `Maintain`, `RotateMarket` the maintenance task. |
| `ExitFlow` | trackers, `plan_exits`, `refresh_sell_plan`, the exit task | extends `UserChannel`: `PlanExits` is the first lock, `SignSell` the second; everything else may run between them, an earlier request included. `quotes` holds the tokens of the active market that have a bid. |
| `Bot` | both flows in one process | extends `EntryFlow`, instantiates `ExitFlow` over the same inventory, account, clock and market, without the claims, which only the entry side reads: each step is a step of one flow, or of both at once (rotation, time, a trade event). |
| `Decision` | the clock and the quote age `SignalWindow` and `EntryGates` look at | extended by both, so that one module has the proofs about either. |
| `EntryGates` | quote ring, `entry_gate_block`, `record_rtt` | the market channel's updates, a BUY signal, the outcome of a submit. `book` and `rtts` are history variables. |
| `SignalWindow` | `SignalEngine` | `on_sample`, a sample without quotes, `set_strike` and the clock. `seen` is a history variable. |
| `MarketRotation` | discovery and rotation, Gamma, the anchor, two locks | of a rotation, `Answered` is the core lock and `MaintLocks`, `SetPending` the anchor and, inside it, the core lock; of the callback, `CallbackStarts` takes the anchor, `PushAndResolve` works under it, `SetStrike` takes core while it is held. `holder` and `callback` say who has and who wants which lock; a step of the other task may fall between any two. |
| `UserFeed` | `user_feed_loop` and its closures | the await between building and sending the auth frame is a step boundary; so are the two steps of a rotation. |
| `MarketFeed` | `market_feed_loop`, `apply_market_events`, quotes in `RuntimeState` | the same for the market channel, with the tops of the venue's books: both prices, one or none. `executable` is the None of `quote_from_book` and `quote_from_dict`: a message with neither price is dropped and the quote of before stays. |
| `Config` | `config.rs`, the constructors of `signing.rs` and `auth.rs`, the first steps of `main.rs` | pure: which environments the bot starts with, in which mode and with which maker. |
| `BuyLattice` | `canonical_buy_target_for_notional` and the arithmetic below it | pure functions of a price and a policy, no state. |
| `Orders` | `BookDepth`, the BUY cutoff, `prepare_buy_submit`, the SELL of a holding, both signed bodies | extends `BuyLattice` and `Config`: the bot starts, a snapshot is read one raw level a step (or a price change without depth), the limit is decided, the body prepared. `raw`, `input` and `holding` are history variables. |
| `InventoryProofs`, `EntryProofs`, `ExitProofs`, `RotationProofs`, `MarketFeedProofs`, `DecisionProofs`, `OrdersProofs`, `Sums` | theorems | below; the first has the lemmas on venue and channel for both flows, the second is about `Bot` too, the fourth about `UserFeed` too; `Sums` is about sums over sets, and no code. |
| `MC*` | values for the constants | one per module that is run. |

`EntryFlow` and `ExitFlow` compose the same `Inventory` and `UserChannel` with
the entry and the exit side. What one leaves to the other is an environment
action: `EntryFlow` has the SELL the exit task makes (`Sell`), `ExitFlow` a BUY
that executes when no claim would block it (`BuyFills`). That each really is the
environment the other assumes is what `Bot` adds: `ImplementsEntryFlow` and
`ImplementsExitFlow` are refinements of the two specifications by the one
process, and both are proved. What the signal engine decides is left open in all three;
`SignalWindow` has the engine itself.

Abstractions common to all modules: one integer clock for the wall clock and the
monotonic one; token, trade and order identifiers are model values or small
numbers; `f64` values are small integers, and the probability of the signal is
any value with the formula's sign and symmetry; text, logging and HTTP bodies
are left out.

## Runs

| run | asks | bounds, and why they are enough |
|---|---|---|
| EntryClean | Does an open order always block a second BUY of its token, are balances the ledger's and the venue's? | Two BUYs, two SELLs, two markets of one token, trades of both sides may fail, definite HTTP outcomes, events once and none lost. Two BUYs are needed for a second entry, two SELLs for a failure after a sale; I64_MAX is small enough for a balance to saturate. |
| EntryAmbiguous | Does expiry spare live submits, do ambiguous submits stay matchable, does every claim settle, does a gone claim stay gone? | Two BUYs, ambiguous outcomes, dying tasks, one repeated event, a channel that drops, malformed frames; three ticks reach both timeouts (1 and 2). |
| Exit | Is what is posted current, is sellable inventory tracked, is a supported position held? | Two BUYs (a buy, a sell and a buy again), one SELL and two requests in flight, one repeated event, a channel that drops, malformed frames, a rotation to a market without the token. The thresholds are one tick, so that two bids, or none, reach every exit reason; the model says nothing, hold or sell. |
| ExitSellFails | finding, below | One BUY, one SELL that fails. |
| Bot | Is each flow the environment of the other, and is what the account holds sold down to dust, also when an event is repeated? | One token and a second market without it; two BUYs that may fail, each of one sellable unit and one atom of dust, two SELLs, one bid or none, no model, so that the hold boundary alone sells. Any event may come once more, also after its order has settled and the other BUY has been made. Two ticks are the last claim and the hold after its fill; a request ends within its tick. A SELL here takes all it offers: with QUANTUM = 2, FillSize = 3 and three SELLs (either position, and a rest) everything holds too, but in five minutes only with MaxRepeats = 0. |
| Rotation | Is the strike the market's own, no early or backward promotion, recovery after an outage, no deadlock of the two locks? | Windows of 8 ticks, two full rotations, samples late or missing, outages of half a window. The run starts in the last tick of a window, so that the first market is already due to be left. |
| UserFeed, MarketFeed | Is the live connection subscribed to the active market, does it get there, does trust (a quote) survive what it must not? | Four markets and three failures; two markets, two failures and two changes of the books, which may start or become two-sided, one-sided or empty. Two rotations and two failures already give every order of connect, rotate, queue and fail. |
| Gates | Do drift and edge gates see the window's first ask, does the average stay among its samples and latch? | A ring of two and up to three updates a window: the ring may hold all of a window, or have dropped its first. Round trips 1 and 17 around a ceiling of 8, and a negative one. |
| SignalWindow | Does a BUY follow the pressure of one strike's window, and agree with the exit's reading? | Four accepted samples in a ring of three, a window of up to four of them, delays of -1, 0 and 2, four books, two quotes of each side, five ticks. |
| Orders | Is the cutoff the least price at which the book offers the target; are both bodies exact; is no order refused after its claim, no holding above dust left unoffered? | Up to four raw levels of five prices and three sizes, in any order and repeated, with three kept: one more than is kept, and one dropped. An ask alone at every price from 1 to 99; environments with any two order settings missing, unreadable or around their bounds; every kind of account; bids at both ends. |
| OrdersOverrun | finding, below | No raw levels: an ask alone at every price, under every policy. |

Deadlock checking is off in all runs: each has bounds (clock, orders, drops) at
which the model, not the code, stops. The deadlock the code could have is an
invariant, `NeverBothWait`.

Each property has a mutant of the code's operators that breaks it (`PROJECT.json`,
"mutants"; the mutant operators stand before the definitions they change).

## Fairness

- `FairFlowSpec`: weak fairness of time, of the maintenance task (its
  `select!` wakes it at least every ten seconds) and of each submit task, which
  tokio runs to its outcome because the HTTP client has a timeout. A task that
  panics is exempt: `TaskPanics` ends it. No fairness of the venue or channel.
- `FairBotSpec`: weak fairness of each submit task and of the exit task's
  interval, of reading what has arrived and of time; a request ends (killed) at
  its timeout; and strong fairness of a fill, since the code can only retry: a
  venue that kills every SELL for ever clears nothing.
- `FairFeedSpec` of `UserFeed`, `FairSpec` of `MarketFeed`: the loops reconnect for ever, read
  their queue while connected, and a rotation in progress goes on. The number of
  failures is bounded (MaxDrops); nothing forces the venue to do anything but
  accept a connection.

## Proofs

All theorems hold for every value of the constants under the named assumptions
of the modules; no step is taken on trust. An assumption beyond those is in the
theorem's own ASSUME, and named here.

`InventoryProofs` (about `Inventory`, any sequence of calls with any events):

- `TypeCorrect`: balances stay within 0 and I64_MAX, claims and records well
  formed. `TypeOK` is inductive; the lemmas give the type of each operator
  (`DeltaType`, `OwnedAfterType`, `TradeClaimType`, ...), `NextType` one step per
  action.
- `GoneClaims`: no call brings back a claim that was removed. It needs only
  `TypeOK` (a new claim's number is above every number used).
- `InventoryImplementsLedger`: `Inventory` implements `TradeLedger`.
  `TradeIsLedgerStep` splits a trade event into a first application, a reversal
  and a note; `MovedIsDelta` relates the two arithmetics. The property is also
  checked of the composed system in `EntryClean`, where no event is repeated;
  the theorem covers repeats, reordering and loss.

It also has what both flows need of the venue: `VenueInv` (an event on the channel
and a record of the inventory are of a fill of the venue, of its token and side,
and only a side that may fail has failed) and `EndsOnce` (a trade that is
over has nothing more on the way), each preserved by each step of venue and
channel. And it has what a sum over fills adds up to. The sum is a fold, about
which nothing can be shown by induction here; but it is the number of atoms of
the fills, a set with an element for each (`TotalIsAtoms`), because a recursion
over finite sets has one solution (`OneSolution`, by a least set on which two of
them differ) and counting solves it (`AtomsOfOneMore`). From that follow what one
fill more or less does to the venue's balance (`BalanceOfOneMore`, `BalanceSame`)
and its bound (`BalanceBound`).

`EntryProofs` (any markets, claims, SELLs, failed trades, lost connections and
frames, and timeouts above the request's):

- `OpenSubmitAlwaysBlocks`: no second BUY while the first can still execute or
  settle. No event says whose claim it is before the answer, so the invariant
  has to: `EntryInv` says that a token has at most one claim (`ClaimsOfTasks`),
  that every fill is of a task (`OrdersOfTasks`), that a trade has no event after
  its end (`EndsOnce`), and that a claim whose task still runs is too young to
  expire (`InTime`, from the request's timeout). Assumed: `CleanRun` (definite
  answers, no dying task, no repeated event: a repeat or an ambiguous answer
  refutes the property, see below, and a dead task leaves its claim to expiry)
  and `MarketsDisjoint`.
- `LiveSubmitsAreLeft` and `AmbiguousIsKept`, under every fault of the model
  (ambiguous answers, dying tasks, repeats, losses): expiry leaves the claim of
  a task that still runs, and the claim of a BUY the venue may have taken goes
  only with the end of a trade, with its market, or, if its task died before any
  outcome, by expiry. `SubmitInv` is the part of `EntryInv` that survives these
  faults: a claim is as old as its task, one that is still Pending has a task
  without an outcome, an Unknown one a task with one.
- `EntryKeepsLedger`, `GoneClaimsOfEntry`: the composed flow does to the inventory
  only what `Inventory!Next` allows, so it implements `TradeLedger` and no gone
  claim comes back. Assumed: `EveryValue` (the sets from which TLC takes sizes and
  time stamps hold every natural number; the flows compute both).
- `BalanceAlwaysVenueTruth`: once every event has been read, the balances of the
  active market are the venue's. The property only speaks of an empty channel;
  `BalanceInv` says what is on the way before that: `Mirror` has, for each token,
  a balance after each event still to be read, from the inventory's to the
  venue's, all within 0 and I64_MAX, each from the one before by what the event
  is worth. An event is worth something only if it is news, the first of its
  trade or the first failure; `Told` and `OneEnd` say that the first is the
  MATCHED and that an end is followed only by its repeats. So the code, which sees
  one event at a time, never clamps, counts twice or misses a reversal. After a
  rotation nothing was bought of a new token (`NothingOfNothing`). Ambiguous
  answers, dying tasks and repeats are allowed. Assumed: `Reliable` (no loss of
  an event, and a BUY does not fail after its shares were sold: see below),
  `NoOverflow` (every BUY together fits an i64) and `MarketsDisjoint`.

The same module, about the whole process `Bot` (any books, prices, thresholds,
quantum, timeouts and numbers of orders):

- `BotImplementsEntryFlow`, with no further assumption: what the exit side does is
  an environment `EntryFlow` allows. `EntryFlow` lets a SELL happen only of a token
  some BUY of which was counted; the invariant `BoughtInv` carries that from the
  inventory to each request in flight and each SELL at the venue.
- `BotImplementsExitFlow`: what the entry side does is an environment `ExitFlow`
  allows: a BUY executes only of a token of which less than one sellable unit is
  owned and no other BUY is open. The claim is made when that is so; `FlatInv`
  says that it stays so until the BUY executes or its answer comes (`ClaimKeepsFlat`, `DeliverKeepsFlat`, `ExecuteKeepsFlat`), on top
  of `EntryInv`. Assumed: `CleanRun`, `MarketsDisjoint` and that no SELL fails ("SELL"
  not in MayFail); without the last one it is false, see below.
- `BotNeverBuysTwice`, `BotKeepsVenueTruth`: `OpenSubmitBlocks` and
  `BalanceIsVenueTruth` of the process, from the first refinement.
  The theorems of `ExitProofs` hold of the process in the same way through the
  second, under its assumptions.

`ExitProofs` (any tokens, books, thresholds, fair values, losses, repeats):

- `SellsAlwaysCurrent`: from `ExitInv`, which adds to `VenueInv` that quotes are of
  the active market (`MarketInv`), and `UnitsOfBalance`, that a positive size is
  never above the balance.
- `SellableAlwaysTracked`: assumed that no SELL fails ("SELL" not in MayFail);
  without it the run `ExitSellFails` refutes it. `Tracking` follows a trade event
  through the inventory and the tracker together.
- `SupportedAlwaysHeld`: by the exit reasons alone, for all thresholds.

`RotationProofs` (any lengths with ANCHOR_WINDOW + MAX_LATE < WINDOW - PREFETCH,
which is 0.3 s + 30 s < 300 s - 5 s in the code, any lag and outage):

- `StrikeAlwaysOfMarketOpen`, `NeverPromotedEarly`, `MarketAlwaysAdvances`. The
  argument is one of time: a market is left only in its last PREFETCH seconds
  (`Leaves`), and a strike is resolved before those (`ResolvesInTime`), also the one
  that the callback has resolved under the anchor lock and not yet set under
  core; a pending anchor of another market is too old to resolve
  (`PendingIsMarket`).
- `NoDeadlockOfLocks`: `CoreIsFree`, the callback never holds core while it waits.
- `RotationRecovers`: a window and two requests after Gamma is back there is a
  market, and it is over by at most the answer of its own rotation. A rotation
  asks for one slug until that is listed no more, so `RecoveryInv` relates
  four clocks: how long Gamma is up or down, when the retry is due, when the
  query in flight began, and the end of the market it asks for. Assumed:
  `ShortOutage` (MAX_OUTAGE + RETRY + 2 GAMMA_LATENCY < WINDOW, and the next slug
  is listed by the prefetch). In the code a retry is 2 s, a query ends in 10 s (two
  requests of 5 s) and a window has 300 s, so that it covers outages up to 277 s;
  beyond it is false, see below.

The same module, about `UserFeed` (any number of markets and failures):

- `SettledIsSubscribed`: with nothing queued and no rotation in progress, the
  live connection is subscribed to the active market. Not inductive as it
  stands: during a connect or with frames queued the market is still on its way.
  `FeedInv` adds `Reaches` (the active market is subscribed, in the auth frame
  being sent or queued) and `RotatesTo`; both are preserved by each action.
- `TrustNeedsConnection`, `TypeCorrect`: parts of `FeedInv`.

`MarketFeedProofs` (any number of markets, failures and moves of the books):

- `QuoteAlwaysOfMarket`, `EndsByOwnResolution`, `QuoteAlwaysVenues`. None is
  inductive; `FeedInv` speaks of what is on the way: a market not yet announced is
  never asked for (`AsksForKnown`), a resolution in the channel has happened
  (`TellsResolved`), and either the quote or the last message about the market is
  the venue's, unless its book is empty (`Fresh`). While it is, nothing is
  claimed of the quote; the message of the move that ends it makes `Fresh` true
  again.

`DecisionProofs`, about `EntryGates` (any weight, ceiling and samples, any ring,
window and edges):

- `AverageAlwaysAmongSamples` from `BlendBetween`, the shift flooring for either
  sign; `AverageNeverUnlatches`, an action property of it.
- `DriftIsSinceFirst`: the gate reads a ring that forgets and is cleared, the
  property speaks of all updates of the market. `RingInv` says that the ring is
  their end, and all of them unless it is full; the first of the window, or of
  its last QUOTE_HISTORY_CAP updates in a busier one, is then the first the gate
  finds (`RingHasFirst`). Assumed: POLY_DRIFT_WINDOW > 0, the gates are on.
- `EdgeAlwaysCoversFlight`, under the same assumption: the division rounds the
  required edge up (`CeilingCovers`), so that the edge of a claimed BUY covers the
  exact drift in flight.

and about `SignalWindow` (any books, delays, quotes, probabilities and thresholds):

- `RingIsOfStrike`: the ring is the end of what was accepted since the strike was
  set, in the exchange's order, and each flow in it is the one between
  neighbours of that history, also that of the ring's oldest, whose neighbour
  the ring has forgotten. `IsRing` says so of ring and history and is kept by a
  sample that pushes the oldest out (`PushKeepsRing`) and by a new strike.
- `EveryBuyFollowsPressure`: a BUY rests on a move and a flow over all that was
  accepted in the window, as far back as a ring of that size reaches, and over no
  less than MIN_WINDOW. A default ring has 128 slots and a window two seconds, so
  either may be the shorter one; the indices the ring still has of the window are
  those within reach (`WindowOfEnd`), and the move and the sum read from the ring
  are those of the history (`ReadingsOfEnd`). Nothing is assumed.
- `ExitReadsWhatEntryBought`: at the instant of a BUY the exit reads the value the
  BUY was decided on, no pressure against it, and no less than its limit.
  `SignalInv` adds to the ring what made the intent (`Decided`); it is of one
  instant, since any later sample or tick takes the intent away. Assumed:
  MIN_MOVE > 0 (at 0 a move is for and against a side at once) and
  MIN_EDGE >= ENTRY_SLIPPAGE div 2, what the limit is above the price the edge is
  taken at. The code requires neither; the models' findings below have the second.

`OrdersProofs` (every price, target, policy, account and environment, any number of
raw levels):

- `BodyAlwaysExact`, `IntentAlwaysSigned`, `SellAlwaysPriced`, `OvershootAlwaysLeast`,
  `OverrunAlwaysNeeded`, all from `OrdersInv` (one start, one order, and the body
  prepared from the intent). Underneath is the arithmetic of the lattice: that the
  recursive gcd divides both arguments and is a combination of them (`GcdFacts`, by a
  least counterexample, `LeastNat`, in place of induction), so that a size is
  aligned exactly where it is a multiple of the step of its price
  (`AlignedIsMultiple`), and the two sizes the code chooses between are the
  multiples next to the target (`NearestSizes`). `IntentAlwaysSigned` assumes
  `SmallMinima`, that the venue's minima are at most a dollar and a share; with
  larger ones a small order is refused. `OverrunAlwaysNeeded` speaks of every amount
  between the minimum and the cap, the code tries two: an amount that buys a
  size is a multiple of the lattice (`SizeOfAmount`), hence at most the floor or at
  least the ceiling, and if it is at most the floor, the floor is valid and costs no
  more than the target (`FloorIsCheap`), which the cap is not below.
- `CutoffAlwaysCovers`: the cutoff read from the kept levels is the least price up
  to which the whole book offers the target, or the best ask where that takes
  more prices than are kept. The property sums over all raw levels by price, the
  code over the first few of a sorted list, so `BookInv` relates the two: the
  list is a ladder (`Ladder`), ascending, each price once with all of that
  price's size; and a quoted price that is not on it is dearer than all that are,
  which are then as many as are kept. A level that merges (`MergedLadder`), goes in
  between and pushes out the last, or is too dear (`InsertedLadder`) keeps it. What
  the first i levels offer is then the sum over the prices up to the i-th
  (`FirstLevels`, a sum renamed by `SumMoved`).

`Sums` (nothing of the code): two facts that are inductions over data, which the
provers here cannot do, got otherwise. A set of naturals has a least element
(`LeastNat`), from the least of its initial segments in the library's
well-founded order on finite sets. A sum over a finite set, a fold whose order
is not defined, is what is above zero less what is below, each a count of atoms,
so it does not depend on the names of what is summed (`SumMoved`) and adds up term
by term.

Every invariant, action property and refinement of the passing runs is proved.
Only model-checked is liveness, which is out of the prover's reach: `ClaimsSettle`,
`EveryMarketIsReached`, `EveryMarketIsQuoted` and `HeldIsCleared`.

## What the models show

Two statements of the repository are refuted by runs of their own:

- **ExitSellFails.** `README.md:232-233` has the exit loop retry "while WSS-owned
  inventory remains sellable". The MATCHED event of a SELL that empties the
  token removes its tracker (`runtime.rs:416-420`); when that trade fails, the
  shares come back without one, and `plan_exits` passes the token over.
- **OrdersOverrun.** `config.rs:20` calls the setting a "Hard cap on absolute notional
  overrun above the target", and step 5 of `orders.rs:96` says to reject when no
  valid size satisfies the band. At a lattice gap the code takes the size above
  the cap (`orders.rs:173`); the comments inside the function
  (`orders.rs:145-148`, `orders.rs:171-172`) and a test (`orders.rs:242`: target
  101, cap 102, pays 134 cents) accept that, so the repository contradicts itself.
  What does hold is `OverrunOnlyAtGaps`: the cap is passed only where no amount
  within it buys a size at all.

Others bound the runs, each at one constant or one assumption:

- *A long outage.* A failed rotation asks again only for the market after the
  active one (`main.rs:1069`); once Gamma has been away for longer than that market
  lasts, the slug is expired and refused for ever (`gamma.rs:182-188`), and the bot
  keeps the dead market. Rotation has MAX_OUTAGE = 4, half a window; with 12, LAGS = {},
  START = 5 and MaxTime = 60, `Recovered` fails.
- *A repeated CONFIRMED.* After a BUY has settled, a repeat of its CONFIRMED finds
  no claim by order id, falls back to the match by token and side and releases
  the next BUY's claim (`inventory.rs:368`). EntryClean has MaxRepeats = 0; with 1,
  `OpenSubmitBlocks` fails. `ImplementsExitFlow` then fails with a third BUY: Bot, which
  has repeats, has two, and the theorem assumes none.
- *Failures out of order.* When a BUY fails after its shares were sold the balance
  is clamped at 0, and the failure of the SELL then adds shares nobody has
  (`inventory.rs:398`). EntryClean has SettlesInOrder = TRUE; with FALSE,
  `BalanceIsVenueTruth` fails.
- *A SELL that fails under a waiting BUY.* The token is flat when a BUY is claimed;
  a SELL that matched before and fails afterwards brings its shares back while
  the BUY waits, and the BUY then adds to a position (`inventory.rs:283`).
  `ImplementsExitFlow` is checked and proved with BUYs that fail only; with
  MayFail of both sides TLC refutes it.
- *Matched, then unknown.* `mark_submit_unknown` demotes a claim MATCHED has
  already bound, so it can expire before CONFIRMED (`inventory.rs:194`).
  `OpenSubmitBlocks` is checked with definite outcomes only.
- *Trust before discovery.* The first connection usually authenticates before
  the first market is known and is trusted with no subscription
  (`feed.rs:231`); `SettledMeansSubscribed` speaks of a market being active.
- *A quiet drift window.* The reference ask is the first update inside the window,
  not the ask in force when it began (`runtime.rs:324`);
  `DriftSinceFirstBlocks` is about the former.
- *Negative SELL slippage.* It is accepted (`config.rs:206`) and prices a SELL above
  the bid, where it can only be killed; `SellIsPriced` is about the others.
- *Entry slippage above the edge.* Nothing relates the two settings
  (`config.rs:199`): a limit may then be above the value the exit reads at that
  instant. `EntryAgreesWithExit` is checked with settings where it cannot.
- *A window without an ask.* When the first update in the drift window has no ask
  both drift gates pass (`runtime.rs:328`); nothing in the repository says what
  they should do, and `DriftSinceFirstBlocks` leaves the case open.
- *An emptied book.* A book or a change with neither price is no quote
  (`market.rs:158-160`, `market.rs:174-176`; the test
  `price_change_requires_executable_bid_or_ask_and_active_token` of
  `tests/market_state.rs`), so that the quote of before stays, also after the
  empty snapshot of a new connection. `QuoteIsVenues` and `EveryMarketIsQuoted` except a
  book that is empty.
- *A stale bid.* Quotes outlive the market connection (`main.rs:299`) and the exit
  loop asks for no age. `QuoteIsVenues` and `EveryMarketIsQuoted` say when the quote is
  right again; until then nothing bounds its age, and no property does. A SELL at
  a bid that is gone is fill-and-kill and the venue kills it. In `ExitFlow` and `Bot`
  the bids move freely between decision and signing, but the signing reads them
  as they are.

## Not modelled

- The encodings of an order and of a request: EIP-712, ECDSA, the HMAC and the
  JSON of a body (`signing.rs`, `auth.rs`, `submit.rs`), pure functions of what
  `Orders` and `Config` do model; and the two HTTP calls that derive credentials,
  whose result is an input. A failed signature is an order the flows drop.
- `f64` arithmetic of the signal, and settings no value of which is refused.
- Decoding: Binance SBE and JSON (`binance.rs`), the market and the user channel's
  JSON (`market.rs`, `user.rs`), Gamma's HTTP and JSON. The models take what
  decoding accepts, the loss of a malformed user frame and that of a book
  message without a price. One consequence is
  outside them: a JSON frame of Binance
  without a timestamp leaves a 0 that, against its comment, no caller replaces
  (`binance.rs:128`), a sample the engine refuses as late if a greatest lag is set.
- Reconnection delays (`ws.rs`): the loops may reconnect at any time. How often a
  failed first discovery asks again (`main.rs:1080`) is a rate and no property is
  about it; `MarketRotation` has the retry.
- Logging and the probe binaries: output only.

## Plan

Done, in the order of importance: inventory and ledger; entry flow; exit flow;
rotation and anchor with their locks; the two feeds; gates; signal window; BUY
lattice, book depth, SELL sizing and bodies; configuration and start; the
classification of answers; the composition of both flows. Proofs of every safety
property of all of these.

Left to model:

1. Binance frames: the timestamp a frame does not have, and what the ring and
   the anchor make of it.
2. `Bot` under the faults its two flows have by themselves (ambiguous outcomes,
   dying tasks, a channel that drops), and with the feeds' trust and the quotes
   a disconnect leaves behind.

Left to prove: of `Bot` under those faults, what `LiveSubmitsAreLeft`,
`AmbiguousIsKept` and `BalanceAlwaysVenueTruth` say of `EntryFlow` by itself.
