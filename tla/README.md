# Mercury Exchange: formal model

TLA+ modules for the exchange in `src/` and `include/` and for the lock-free queues it runs
on, model-checked with TLC, and theorems about them, checked with TLAPS.

## 1. Inventory

### Components, their state and operations

| component | state | operations that change it |
|---|---|---|
| Order (`Order.hpp`, `Order.cpp`) | quantity, remaining, prices, side, status, type, tif, `book_it` (the iterator of its list node) | the four factories; fields are written by Market and MarketProcessor |
| BuyBook, SellBook | `map<Price, list<Order*>>`, bids by `greater`, asks by `less` | `add_order`, `cancel_order`; Market's loops erase through `get_orders()` |
| Market (`Market.cpp`) | two books, `last_price`, `is_active` | `process_order` (entry checks, then one of four matching functions), `cancel_order`, `activate`, `deactivate` |
| MarketProcessor | a market, the queue of events, `running`, the order table `orders_local_`, the two maps of stop orders | `submit_event`, `start`, `stop`, `run`, `handle_event`, `check_stop_orders` |
| MatchingEngine | a counter per market id | `submit_order`, `cancel_order`, `generate_order_id` |
| MarketRegistry | the map from symbol to processor | `create_market`, `remove_market` |
| MarketDataPublisher | a blocking queue of batches, `running_`, the listeners | `publish`, `subscribe`, `run`, the destructor |
| demo (`main.cpp`) | the objects above, destroyed in the reverse order of their construction | construction, subscription, submission, return |
| LightweightSemaphore (vendored) | `m_count` and a system semaphore | `wait`, `tryWait`, `waitMany`, `tryWaitMany`, `signal` |
| BlockingConcurrentQueue (vendored) | the inner queue and a semaphore | the enqueues and dequeues |
| ConcurrentQueue (vendored) | per producing thread a sub-queue (four indices, a circular block index, blocks); the pool of blocks with its free list; the hash table and the list of producers | `enqueue`, `try_dequeue`, thread start and exit |
| Trade, ProcessResult | - | unused |

### How they interact

Client threads call MatchingEngine, which looks up the processor of the symbol in the
registry and enqueues an `AddOrder` or `CancelOrder` event. One worker thread per market
dequeues and handles events one at a time: it builds the order, keeps it in its table, and
either files it as a stop order or passes it to Market. The events a call of `process_order`
returns are handed to the publisher, whose single thread blocks on its queue and calls the
listeners. After a call that changed the last price the worker processes the stop orders this
triggers. Exceptions of a handler are caught in `run`. The registry's destructor stops and
joins the workers; the publisher's wakes its worker with an empty batch and joins it.

### What is hard

- the iterators kept by orders: each fill, cancel and re-entry has to keep them and the lists
  in step, and a cancel can name any order in any stage of its life;
- partial fills over several orders and levels, with four ends of the loop;
- the accounting checks (fill-or-kill) that read quantities as they were, not as they are;
- cancels that race fills through the queue, from the order's own client or another one;
- stop orders: which are triggered, in which order, and what an exception in the middle of
  the loop leaves behind;
- shutdown: `stop` between reading `running` and dequeuing, events left in a queue, objects
  destroyed while another thread still has a pointer to them, a worker that is blocked;
- maps and vectors without a lock that several threads use;
- the queues: counters that are read apart and used together, wait-free claims that are taken
  back, memory that is recycled while another thread looks at it, timeouts that race signals.

The list with lines is in `PROJECT.json` under `hazards`.

### What makes each component correct

- *Books and Market*: price-time priority; every node is a live order and every set iterator
  points at its order's only node; no level is empty; bids below asks; executed and remaining
  quantity add up; status and events tell the truth; a fill-or-kill order is filled or killed.
- *MarketProcessor*: each waiting stop order is held once and is triggered by a trade that
  reached its stop price, and not missed; every fill is published once; a canceled order does
  not trade; every event is handled and the worker ends after `stop`.
- *Engine, registry*: ids are unique; a processor outlives its users, as long as nobody adds or
  removes the market they use; none is lost.
- *Publisher, main*: every batch reaches every listener, in order, once; shutdown ends, loses
  nothing, and destroys nothing that is still called.
- *Queues*: FIFO per producer, nothing lost or doubled; a permit for each element; nobody
  sleeps beside an element; a block has one owner and a producer one thread.

## 2. Modules

| module | models |
|---|---|
| `Orders` | the order record, the factories, `validate` |
| `Market` | both books and Market; its properties and the conjunction `IInv` |
| `PriceTimeBook`, `MarketRefinement` | what a market promises, without levels, lists or iterators; and the refinement mapping from `Market` to it |
| `MarketProcessor` | extends `Market` with the worker, its queue, the stop orders and the clients |
| `MatchingEngine` | the engine's calls in their steps, the registry, the life of processor objects and their workers, order ids |
| `MarketDataPublisher` | the feed: callers, the worker, the vector of listeners, the destructor |
| `Exchange` | extends it with the workers of the markets and main's order of destruction |
| `LightweightSemaphore` | all ways to wait and to signal |
| `BlockingConcurrentQueue` | extends it with enqueues and dequeues of one element or several |
| `ImplicitProducer`, `FifoQueue` | the sub-queue of one producing thread; and the FIFO queue it implements |
| `BlockPool` | the blocks handed out once, and the lock-free list of those that came back |
| `ImplicitProducerHash` | how a thread finds its sub-queue, also after other threads have exited |
| `MCMarket`, `MCProcessor` | order sets, submissions and symmetry for the runs |
| `MCSlots` | a schedule for more threads at the hash table than TLC can interleave in every way |
| `MCEngine`, `MCQueue` | two and three modules that share nothing, for one run: `part` says which of them a behaviour is about, and it never changes |
| `MarketProofs`, `RefinementProofs`, `ProcessorProofs`, `EngineProofs`, `SemaphoreProofs`, `PublisherProofs` (also of `Exchange`), `ProducerProofs`, `QueueProofs` | theorems |

**State of the market.** `orders` is the table of order objects (Null where none exists);
`levels[side]` are the keys of a book's map and `queue[side][price]` the list at a key, so a
forgotten `erase` of an empty level is a state that the model can be in. `book_it` is reduced
to whether the iterator is set: which node it points at is the property `IteratorsValid`, and
`list::erase` of an iterator that is not set is the step that makes `crashed` true, after
which nothing more happens. `executed` (per order, what Trade events reported), `published`
and `reached` are history variables; no action reads them. The history variables of the other
modules are marked as such where they are declared.

**Granularity.** In `Market`, `process_order` is the entry step (with the exceptions and the
fill-or-kill return), then one `Match` step per iteration of the inner loop, then a `Finish`
step; `taker` names the order of the call under way. So the invariants are also checked in the
middle of the loops, as lemmas for the proofs and as what a reader on another thread could
see. The buy and sell functions differ in the book and in the comparison only; `Opposite`,
`Better` and `Reaches` carry that difference. In `MarketProcessor` the worker's position is
`worker`, and `check` holds the locals of `check_stop_orders`. `run`'s read of `running` and
its dequeue are two steps, and so are `Market::cancel_order` and the assignment of the status.
In `MatchingEngine` a call holds the pointer it has looked up between its steps, and calls of
every kind overlap, also `create_market` and `remove_market` for one symbol. Each access to one
of the two maps is a step (`create_market` has four of them, and `operator[]` on the counters is
a find and an insert, which may both find nothing on two threads) and is atomic, which
`std::unordered_map` does not promise when threads change it: a torn map is not modelled. A use
of what is gone sets `crashed`, and nothing more happens. In `MarketDataPublisher` the loop over the listeners is one step per listener and notices when
the vector's buffer has moved (`ReadFreed`; the model says nothing of what follows).

In the modules of the queues an action is one atomic access, with the thread-local code around
it. Two accesses share an action where nothing can come between that matters: a load and the
compare-exchange on its result in `LightweightSemaphore` (a failed exchange loads again); the
second look at the tail and `headIndex.fetch_add` in `ImplicitProducer` (the tail only grows),
the store of an element in a block nobody else has and the block's requisition; in
`ImplicitProducerHash` the test-and-set and the load behind it (only who has the flag stores what
is loaded), and the two compare-exchanges of the copy loop, of which the second is tried only on
a key the first has just seen. In `LooksEmpty` the tail was
loaded first and may be old, so the step is always possible.

**Memory model.** Accesses are interleaved: sequential consistency. The orderings that the
vendored code asks for (acquire, release, fences) are taken to give it that; whether each is
strong enough is not examined.

**Data.** Prices are doubles in the code and integers here. `is_valid_price`, an `fmod` of
doubles, is the set `ValidPrices`: which decimal prices pass it depends on rounding, which the
model does not decide. `Null` is `std::nullopt` and the null pointer. Left out: symbols of
orders, client ids, timestamps, latency counters, printing. Integers keep their width where it
matters: `Wrap` in `validate_fulfillment`, the 48 bits of an id's counter (`CounterSize`), the
queue's indices (`IndexMod`, for 2^64, with the signed division of
`get_block_index_index_for_index`), the reference counts of the free list.

**Layers.** The exchange's modules do not contain the queue's steps: `MarketProcessor` and
`MarketDataPublisher` have one sequence per producing thread, of which a dequeue takes the head
of any. That is what `FifoQueue` says and `ImplicitProducer` is shown to implement, and what
`OneThreadEach` and `KeepsProducer` make one queue per thread. `wait_dequeue` is enabled when
there is an element, which `PermitsBacked` and `DequeuesReturn` justify.

## 3. Runs

| run | bounds | what it shows |
|---|---|---|
| `market` | 3 orders, 2 valid prices and an off-tick one, quantities 1 and 2, limit GTC/IOC/FOK, market and stop orders, any order canceled at any time | all properties of `Market`, and that it implements `PriceTimeBook` |
| `processor` | 3 orders, 2 clients, 1 cancel, 2 events pending, stop and stop-limit orders on both sides, a request the factory refuses, `stop` at any time | all safety properties of `MarketProcessor` for on-tick prices |
| `processor_liveness` | the same bounds, 4 kinds of submission, no symmetry | with a fair worker every event is handled while running, and the worker ends after `stop` |
| `exchange` | 2 markets, 2 orders, 2 batches per market, 2 subscriptions (the second reallocates the vector), main returns at any time | order, completeness and agreement of the feed; shutdown |
| `engine`, part `engine` | 2 symbols, 2 processors, 2 clients, 3 submissions and cancels, markets created and removed at any time, one market id, counters of 1 bit | unique ids; what is gone is used only where calls raced; the life of processors; calls return |
| `engine`, part `blocking` | 3 threads, 3 elements, 2 dequeues of up to 2 elements that try, wait or time out | permits, wake-ups, dequeues return |
| `queue`, part `producer` | 2 consumers, 2 blocks of 2 elements, indices modulo 8, a block index of 2 that may double once, one dequeue counted out again | finds the right block, keeps every block, implements `FifoQueue` |
| `queue`, part `pool` | 3 threads, 2 blocks | a block is in one place |
| `queue`, part `hash` | 2 ids in the same slot, a table of 1 slot, 3 threads in all | one thread per producer, the same producer in every call |
| `limit_fok` | as `market` | a fill-or-kill order trades partially and rests |
| `cancel_crash` | as `processor` | a cancel kills the process |
| `missed_trigger` | 4 orders: a trade at 1 and buy stops at 1 and 2 | a reached stop order stays waiting |
| `stop_reprocessed` | 5 orders with an off-tick stop-limit order | a stop order becomes a limit order without price |
| `feed_lost` | 1 order, 1 subscription | a published batch is not delivered |
| `slot_free` | a first table of 4 slots, 17 threads in the order of a schedule, all ids in one slot | a table of the hash fills up to its last slot |

The largest has a million distinct states (`queue`); each takes less than two minutes.

**Why the bounds suffice.** Three orders give two resting orders and a taker: two at one level
(time priority), at two levels (sweep), partially filled by an earlier taker, or three in one
list with a cancel in the middle. Quantities 1 and 2 give partial fills on either side. Two
prices and an off-tick one give crossing, not crossing and rejection. For stop orders, a trade
needs two orders, with quantity 2 leaving liquidity for the triggered one. `MaxPending`
bounds the queue and `MaxCancels` the cancels: one client thread's backlog only postpones
what a shorter queue already shows. `MaxInt` is 100, which no sum comes near. Two
subscriptions move the vector's buffer under the loop once. Two clients let any two calls
overlap, two symbols and two processors let a market be created anew while the old one is still
being destroyed; three submissions let two threads insert the same counter and, with one bit,
run it over. One market id is the worst case: all markets share a counter. Three threads let a waiter
time out while a second one sleeps and a third one signals. Indices modulo 8 with blocks of 2
go around the circle of the block index and around the integers; two consumers with one
retraction make `dequeueOptimisticCount` run ahead of `dequeueOvercommit`. Three threads at
the pool let one hold an old head while a second takes it and a third puts it back. Two ids
and three threads give a thread with the id of an exited one, and a table that grows between.

**Deadlock** checking is off: the systems stop when all orders are used up, when everything
has been destroyed, when every thread waits for an element nobody will enqueue (which the code
allows), and when they have crashed.

**Symmetry.** Order ids, clients, consumers and blocks are interchangeable: nothing compares
them. The runs with liveness properties use none, except that `queue` checks two properties
that are safety properties.

**Fairness.** `WF(Work)` in `processor_liveness`: the worker is one thread that never blocks
(an empty queue makes it sleep 100 ns and look again), and the operating system schedules it.
In `exchange`, the same for the markets' workers and for the publisher's, which is blocked only
while its queue is empty; and for the destructors once main has returned: when main subscribes,
submits or returns is left open. In `engine`, a thread goes on with a call it has begun and a
worker runs; in `blocking`, a thread in a call is scheduled, except that nobody has to enqueue.
Weak fairness is enough everywhere: no step competes with others for a lock for ever.

**Mutants.** Each checked property has a variant of the code (definitions marked `Mutant`)
under which TLC finds it violated.

### Findings

1. `validate_fulfillment` sums `quantity`, not `remaining` (`Market.cpp:30,40`): a FOK limit
   order can fill partially, and then rests in the book.
2. The market functions ignore `tif` (`Market.cpp:285`): a FOK market order fills partially.
   Visible in a single call, so no run.
3. `cancel_order` erases through `book_it` without looking whether it is set
   (`Market.cpp:371,380`): a cancel of an order that is filled, or is a waiting stop-limit
   order, at a price where another order rests, is undefined behaviour. The passing runs
   include these cancels, they end in `crashed`.
4. The stop maps are ordered away from the market (`MarketProcessor.hpp:54-55`), so a farther
   stop hides a nearer one; besides, the last price is captured once, so the trades of
   triggered orders trigger nothing themselves until the price changes again.
5. An exception in `check_stop_orders` leaves a half-processed level in the map.
6. The publisher's destructor clears `running_` before the queue is empty: batches that were
   published for a subscriber and are still in the queue then are dropped. `QuietShutdownIsSafe`
   shows that nothing is lost if nothing was under way when main returned, which its sleep makes
   likely.
7. The queue's comment "at least one slot is free in the hash table" (`concurrentqueue.h:3412`)
   is not so (`slot_free`): the table grows at half and makes threads wait at three quarters of
   its capacity, but what is compared is a count, and the count does not bound the used slots of
   the newest table. A thread that read an older table before the newest was added, and found
   the flag of the resize set, takes over a marked slot of the older table and counts itself out
   again; its next call copies its id into an empty slot of the newest table, uncounted. When it
   exits it leaves that slot marked, and a new thread takes it over, counts itself out and stays.
   With enough threads that read the old table this fills the newest one while the count stays
   low, and a probe for an absent id then never ends. The run has a first table of 4 slots; with
   the code's own 32 TLC finds the same with 143 threads, in a trace of 16,936 states that is too
   long to keep as a run. `FilledByThreads` says that it takes at least as many threads at one
   queue as the table has slots.

Met while modelling and not stated by any doc, so no run: a cancel of a waiting stop-limit
order marks it canceled but leaves it in its list, and it trades when triggered; a cancel of
a waiting stop order throws (`price.value()`) and does nothing; a filled order's status
becomes Canceled by a late cancel; a market order that finds no counterparty is
PartiallyFilled; the `market_id` argument of `create_market` is dropped and `market_id` is
never set, so markets may share a counter, or two markets ids of the same series (which is
harmless for uniqueness as long as they share the counter too); two threads that place the
first orders of a market race in an `unordered_map` and may hand out the same id;
`subscribe` while a batch is being delivered reads a freed buffer; `remove_market` while a
client is in a call for the same symbol leaves it with a dangling pointer, two `remove_market`
leave one of them with an iterator to nothing, and two `create_market` for one symbol may start a
worker twice or destroy a market that the other has just returned (`OnlyRacesCrash` says that
these overlaps are the only way to such a use, and so what a caller has to keep apart); the
unbounded sum of
`validate_fulfillment` may overflow.

## 4. Proofs

The theorems hold for every value of the constants that satisfies the named assumptions of the
modules: prices are integers, `Null` is none of the other values, a caller passes only orders
fresh from a factory (`Orders`, `Market`); a submission has the types of the factories'
parameters (`MarketProcessor`); `Null` is no processor or symbol, `CounterSize` is
positive (`MatchingEngine`); threads are finitely many, a call wants at most `MaxWant`
elements (`LightweightSemaphore`); the owner is not one of the publishing threads
(`MarketDataPublisher`); the two marks of a slot without a thread differ and are no
thread's id, and the first table has a slot (`ImplicitProducerHash`); the mark in a node's
counter is above what all threads together can count (`BlockPool`); the sizes of blocks, of the
first and of the largest block index and of the range of indices divide each other, as powers of
two do, and consumers and retracted dequeues together are at most half that range, 2^63
(`ImplicitProducer`: the code counts retracted dequeues in a 64-bit counter that is never reset;
what happens beyond 2^63 of them is not examined).

**`MarketProofs`.** `Invariance`: `MarketSpec => []IInv`, and from it a theorem for each of
seven of the invariants that the run `market` checks, `CallsAccountedFor` for the eighth;
`Finality` and `KilledOnlyForWant` for two of its action properties.

*Why IInv.* No single part is inductive. That a fill removes the right node needs
`NodesLive` (the matched order is live and is not the taker) and `IteratorsValid` (it has no
second node); that a cancel does needs `IteratorsValid`; `NoEmptyLevel` is what makes the head
of the best level exist; `Uncrossed` after an order rests needs the negation of the loop
condition at the end of the loop; `Accounting` needs that the taker's executed and remaining
quantity add up during the call, which is in `CallOK`; `StatusAgrees` needs `Accounting`.
`BooksInv` is `IInv` without what it says of the status: that is the part the worker of
`MarketProcessor`, which overwrites a status between two calls, leaves intact.

*How.* Lists change in two ways: a node is dropped (`DropNode`, used for fills and cancels) or
one is appended (`RestNode`). Both rest on lemmas about sequences (`RemoveAtProperties`,
`DroppedNodes`, `AppendedNodes`). `TradeEffect` says what one iteration of the loop does.
`EntryBooks`, `SwitchBooks`, `MatchBooks`, `FinishBooks` and `CancelBooks` show that each action
preserves `BooksInv`, and `EntryInv`, `SwitchInv`, `MatchInv`, `FinishInv` and `CancelInv` the
rest of `IInv`; `ReplaceOrder` is the write to an order that is in no book.

*Sums.* The library's sum over a finite set is the number of a set of tokens, so many for each
element as its summand (`SumCounts`); that a sum grows by one summand, or is the sum of the same
summands, is then a fact about finite sets (`SumOneMore`, `SumSame`). `CallsAccountedFor` needs
more than the invariant it proves (`EventsInv`): while a call is under way all trades of the
vector are the taker's and add up to what it has executed, no level is left that is better than a
price already traded at, and an order reported as filled has nothing left. `TradeAppends` and
`FinishAppends` say what a step adds to the vector. `KilledOnlyForWant` compares two sums:
what the orders in reach have left has its tokens among those of what `validate_fulfillment`
adds up, because each of these orders has a node and no two share one (`CountsEnough`). Its
hypothesis, that there are finitely many orders and that their number times the largest
quantity is an int, keeps the code's sum from wrapping around (`SumFits`); the run `market`
satisfies it. Without it the code's sum may be negative and the order killed for nothing.

**`RefinementProofs`.** `Refinement`: `MarketSpec => ImplementsBook`, and `TimePriority`:
`PriceTimePriority`. Under `BooksInv`, `Ahead` is an order of the resting orders of one level
(`AheadNodes`); a dropped node takes its order out of it and changes nothing else
(`DroppedOrder`, `AheadDrop`), an appended one comes last (`AppendedOrder`, `AheadAppend`).
Lifted to `Priority` these are the abstract book's `Without` and `Rest` (`PriorityDrop`,
`PriorityRest`). The head of the best level is first in `Priority` (`FirstInPriority`), a
price is in reach exactly if it crosses (`ReachesCrosses`), and so the loop ends only when the
abstract book cannot trade either (`NothingToTrade`). `EntryImplements`, `MatchImplements`,
`FinishImplements` and `CancelImplements` then take each action to the one it implements.

**`ProcessorProofs`.** All its theorems have the hypothesis `OnTick`: every stop-limit order's
price passes `is_valid_price`. Without it they are false: `process_order` throws in the middle of
`check_stop_orders`, and the run `stop_reprocessed` shows what that leads to (finding 5). `PInv`
is `BooksInv` with what the worker knows at each place (`WorkerOK`), that an id is
submitted once and is not in the table before its request is handled (`IdsFresh`), that a waiting
stop order is, up to its status, as its factory made it (`WaitingOK`), and that every waiting
order which the loop's price reaches has seen a trade at that price (`PricesSeen`), besides the
checked `StopsHeld` and `TriggeredByTrade`. The argument: what the worker writes
outside the market concerns orders that are in no book, and that a node of the stop maps is such
an order is `StopsHeld`, also in the middle of the loop. So `MarketProofs`' and
`RefinementProofs`' steps apply to the market inside the processor, and with them the refinement
and price-time priority (`ProcessorKeepsThePromise`, `ProcessorTimePriority`): triggered
orders enter like any other. `FeedIsComplete` is proved from `FeedInv`: what was handed to the
publisher accounts for every order up to what the vector of the call under way adds, which is
nothing between calls; and the taker is in no batch as filled before its call ends.
`MatchFeed` and `FinishFeed` show that a step adds to the vector what it takes from the orders,
`HandedOn` that the end of a call loses nothing of it.

**`PublisherProofs`**, part one, `MarketDataPublisher`. `PubInv`: the queue of a thread holds its last batches (`QueuesOK`), the
batch in hand is the last one taken out (`BatchOK`), the listeners up to `iter.next` have been told
of it and the others not (`LoopOK`), a listener that has heard of a thread has heard of its
latest batch (`HeardOK`), and of two listeners the later one heard an end of what the earlier one
did (`FeedOK`). From it `InOrderOnce` and `OneFeed`. `InOrderOnce` says that of two
batches of a thread that a listener hears, the thread's batch just before the later one is the
earlier one or lies between them: that is order, no gap and no repetition at once.

Part two, `Exchange`. `XInv`: how far main has come says which flags are cleared and which
workers have ended (`TakenDown`), and after a quiet return no queue ever holds a batch again
(`StaysQuiet`). From it `OutlivesWorkers` and `QuietEnd`. `ExchangeIsAPublisher`: every step of the
program is a step of the publisher or leaves it alone, so the publisher's theorems hold in the
program (`ListenersOfTheProgram`).

**`EngineProofs`.** Nothing restricts who calls what when. `EInv` is about ownership: entries and
calls know a processor under one symbol only (`OneSymbolEach`); a new one is its maker's alone, and
one that is being destroyed is in no entry and has one destroyer (`OneOwner`); an entry's
processor exists (`EntriesSound`); and one without an entry has an owner (`NoneLost`). What a call
relies on depends on the callers: as long as its symbol has not raced, a call that creates or
removes the market is the only one for it (`Exclusive`), so what each call holds is what the
registry has (`CallsSound`), and its next step is defined. Steps of calls for other symbols
leave that alone because of `OneSymbolEach`. Last, a counter in hand is in the map
(`NodesSound`). From it `OnlyOverlapsCrash`, `OneEntryEach` and
`EngineTypes`. `Uniqueness` needs `UInv` besides: as long
as a market id has one counter that has not run over, its ids are below the counter and
unlike.

**`SemaphoreProofs`.** `SInv` is two balances. The posts of the system semaphore, made or to
be made, are the registered waiters beyond those the count is below zero for; and the elements
are the count, the registered waiters, the permits held and the signals on their way. Neither
is kept by a step without knowing what a thread at each place holds (`ThreadSound`). Sums over
threads are cardinalities of sets of tokens (`SumOver`), so that a step's effect on a sum is
one on a finite set (`SumSplit`). From it `WakeUps` and `Permits`.

**`QueueProofs`**, part one, `ImplicitProducerHash`. `HInv`: an id is in a table once, with its
thread's producer, and on the path from the id's hash to its slot no slot is empty
(`KeysOK`), so a probe that meets an empty slot has not missed the id (`NotFound`); a probe under
way has passed neither (`ProbeOK`); where a thread is says which tables it is not in
(`ThreadOK`). The path is what open addressing relies on, and an exit keeps it because it leaves
the slot marked, not empty. From it `ProducersAreNotShared` and `ThreadsKeepTheirProducer`.

How full a table gets is a separate count (`FillInv`): each thread that has started fills at most
one empty slot of a table, because its id is in the table once and it fills none when it exits;
so a table holds at most as many ids and marks as threads have started (`FilledByThreads`). The
count that the code compares gives no such bound, which is finding 7: that a slot is free is
false, in general, of a program that starts as many threads at one queue as a table has slots.

Part two, `BlockPool`. `PoolInv`: there is a stack of blocks without repetition whose top is
the head and whose links are the nodes' `freeListNext`; and each block has one place (not given
out yet, used, on the list, taken, added before or after its counter is set to 1, deferred), which
says who is at it and what its counter is: the number of its holders, plus one, or plus the mark
(`RefsAt`). A thread that has a reference to a node knows its `freeListNext`, because only the adder
of a node that nobody refers to writes it (`LocalsOK`, `StoreNextStep`): this is why the
compare-exchange of `try_get` is not subject to ABA. From it `BlocksInOnePlace`; that the walk
of `InOnePlace` goes down the stack is `WalkOf`, by a least counterexample.

**`ProducerProofs`.** `QInv` has five layers, none of which is inductive without those before.

1. *The counters* (`CountersOK`). `dequeueOptimisticCount` less `dequeueOvercommit` is the head
   plus the dequeues that were counted in and neither served nor counted out (`Balance`). A
   dequeue that looks a second time compares its number with the tail, not with the head, so
   it may be served though its own element is gone to another. What makes this right is that
   those looking again can be ranked (`TicketsOK`): each one's number is at least its rank
   ahead of the head, or there are more elements than its rank. So whoever finds its number in
   stock leaves an element for itself (`ThereIsOne`, `FetchAddHeadStep`): after it is served
   those of a higher rank move down by one, as does the number of elements. A newcomer gets the
   last rank (`FetchAddOptimisticStep`). The comparisons are circular, and mean what they say
   because no distance passes half the range (`LengthOK`, `InStockMeans`).
2. *The block index* (`EntriesOK`, `KeysOK`, `ProducerOK`). Positions of the newest index and
   entries correspond one to one. An entry in use that is `j` positions behind the tail has
   the key of the block `j` blocks behind (`RightKey`), modulo the number of blocks in the range
   of indices; the index is never longer than that, so a key is at one entry in use (`OneEntry`).
   While any block is in use the key at the tail is right too, and the one before it while the
   producer may still turn the tail back (`NoBlockStep`). Doubling keeps both (`Grown`).
3. *The way of a consumer* (`PathsOK`). The header and the tail it has read may be old, but
   counting back from there some `j` positions gets to its entry, and the key it will read is the
   right one for that distance (`OnTheWay`); the producer can go on, go back or double the index
   and this remains (`KeyPathTurns`, `KeyPathStays`, `NewBlockIndexStep`), because an entry in use is
   not written and the key at the tail that was read is rewritten only in ways that keep it right.
   `CountedBack` is the signed division of `get_block_index_index_for_index`.
4. *Places and elements* (`PlacesOK`, `ElementsOK`). Each block is in one place; an index in the
   queue or claimed is found, at the entry with its base, and claimed by one consumer.
5. *What is left to do in a block* (`CountsOK`): what was counted by `set_empty`, the elements that
   are there or will be, and the consumers between taking one and counting it make
   `BlockSize`. So the consumer that counts the last is alone with the block
   (`SetEmptyStep`), also against a producer that has not yet filled it.

From it `BlocksAreFound` and `BlocksAreKept`. `QueueRefinement`: by the invariant the elements between
head and tail, as memory has them, are the numbers from head to tail (`IsSeen`), so `Commit` is
`Enqueue`, `FetchAddHead` is `Dequeue`, `MoveOut` is `CarryOff`, and everything else is invisible.

**Only model-checked**: the six liveness properties (`RequestsServed`, `WorkerEnds`,
`Delivered`, `ShutdownCompletes`, `CallsReturn`, `DequeuesReturn`). Liveness under fairness is out of
the prover's reach (as are `ENABLED` and what a recursive definition computes for every input;
the sums above are proved without it). Every other property of the passing runs is a theorem, under the
hypotheses named above.

## 5. Plan

Done: the modules and theorems above; nothing of the plan is left. What the models leave out:

**Not modelled.** The string conversions and printing (no state), `Trade` and `ProcessResult`
(unused). Of the vendored queue what the exchange never calls: tokens and explicit producers,
bulk operations on the inner queue (`dequeue` of several elements takes them one by one from
the count of elements, which is all `BlockingConcurrentQueue` has of it), moving and swapping,
its destructor; further, blocks that are allocated when the pool is empty (they are never put
on the free list), the order in which `try_dequeue` visits the producers, and memory orders
weaker than sequential consistency. Time: a timeout may strike at any moment.
