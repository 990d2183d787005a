# Verification of the trading system

TLA+ models of the C++ code under `src/`, TLC configurations that check them on
small instances, and TLAPS proofs about the threads and the queue between them,
the receive loop, the hash map, the book of the feed, the exchange server and
order entry.

## The system

| Part | State | Operations | Hard behaviour |
|---|---|---|---|
| `common/spsc_ring_buffer.hpp` | two atomic indexes, slots, metrics | `tryPush`, `tryPop` | two threads, acquire/release only |
| `pipeline/market_data_pipeline`, `dispatcher` | `running_`, `worker_`, `processedCount_` | `start`, `stop`, `submit`, worker loop | lifecycle races, drain at stop |
| `apps/trading_runtime.cpp` | file position, counters | replay or live input, wait, stop, receive | full queue, waiting for another thread's count |
| `dpdk/receiver` | mbuf pool, receive ring | burst loop | mbuf ownership |
| `dpdk/parser`, `market_data/replay` | none | frames and records to events | options, padding, records cut off |
| `common/fixed_hash_map.hpp` | entries, size | `insert`, `find`, `erase` | tombstones, wrap-around |
| `orderbook/software` (book, levels, pool) | linked lists, bitmaps, best prices, index, free list | add, cancel, reduce, execute, replace | pointers and derived state kept in step |
| `pipeline/market_data_book_consumer` | book and pool | one handler per event | events lost before it |
| `orderbook/software/matching_engine`, `sequencer` | book, pool, sequence | `submitOrder`, `executeTrade` | partial fills, release on each path |
| `exchange` handler, session map, listener, `position`, `dispatcher` | order to client, positions, last responses | `handleEnterOrder`, `onTrade` | trades in the middle of entering an order |
| `exchange` server | per-client buffers, epoll interest | `pollOnce` and what it calls | split reads and writes, peers that stop |
| `gateway`, `risk`, `execution/ouch` | position, reference numbers, socket | `submit`, `check`, `send`, `receive` | failure between send and count |
| `execution/ouch` encoders and decoders | none | a message to bytes and back | separate offsets, bytes missing |

Market data flows from the receiver or the replay reader through the ring
buffer to the worker thread, which updates the book and asks the strategy; an
intent goes through the gateway and the risk check to the exchange server,
whose matching engine has a book of its own.  `PROJECT.json` lists every part,
also those that are not modelled, and the hazards with their lines.

## Modules

* `SpscQueue` is what the queue promises: a bounded FIFO whose ends may know of
  each other late. `SpscRingBuffer` is the code, one step per shared access. An
  index is its modification order; an acquire load returns any entry not older
  than the last one read.
* `MarketDataPipeline` builds on `SpscQueue`; `pc` is where each controlling
  thread is in `start()` or `stop()`, `wpc` where the worker is.
* `Receiver` is the burst loop beside a NIC that fills mbufs. A frame fails the
  header checks ("other"), carries an ITCH message or carries other bytes.
* `TradingRuntime` composes the two with `main()`. In replay mode `main()` reads
  records, waits and stops; in DPDK mode it stays in the receive loop. Either way
  it is the producer of the queue and the only thread that controls the pipeline.
  What `submit` refuses is remembered in `refused`.
* `WireFormat`, `ItchWire` and `OuchWire` are the bytes: readers and writers of
  integers, the five ITCH messages with the Ethernet, IPv4 and UDP headers around
  them, and the OUCH messages at the offsets of their encoders and decoders.
  `TickToTrade` sends a message all the way: from a file, which may be cut off
  anywhere, or a frame, to an event, an intent, an `EnterOrder`, the order the
  exchange decodes, and its answer. An integer keeps its number of bytes, but a
  byte of it is a digit of base 10 in the run, because eight bytes of base 256 do
  not fit TLC's integers. Base 10 still tells every byte of a field from the
  others.
* `BoundedMap` is the promise of `FixedHashMap`, whose hash function is any
  function from keys to entries. `MCFixedHashMap` adds the symmetry of the
  values and keys.
* `ArrayOrderBook` is the book, its price levels and the order pool as operators
  on records. `MarketDataBookConsumer` (promise: `LimitOrderBook`) and
  `MatchingEngine` (promise: `PriceTimePriority`) use them. `front`, `remove`,
  `refreshBestBid` and the others keep the source's names.
* `ExchangeOuchHandler` extends `MatchingEngine` with the way orders get in and
  trades get out: `handleEnterOrder` with the session map, the in-process sink,
  and the listeners, which run inside `matchOne`. They are registered as in
  `tests/integration/exchange_ouch_handler_test.cpp`; `exchange_runtime`
  registers none, and no program of the repository feeds one engine both ways.
* `ExchangeTcpServer` is the epoll loop with its peers. Streams are counted in
  units so that messages can be split. The order handler is here a count of the
  orders processed. `epoll_wait` reports all ready descriptors (the code takes
  at most `MaxEvents`, the rest at the next call).
* `OrderEntry` extends it with the gateway, the risk manager and the transport.

Operators whose comment starts with "Variant" are plausible wrong versions of
the definition after them. No specification uses them; they show that each
property can fail.

## Runs

| Run | Bounds | Shows |
|---|---|---|
| `ring_buffer` | 2 values, 3 slots, 5 pushes: the indexes wrap and the ring is full and empty | race freedom, FIFO, metrics, delivery |
| `pipeline` | 1 controller, 2 starts, 4 submits: a restart with events queued | drain, exact count, `stop()` returns |
| `runtime` | 4 records or 4 frames, usable capacity 2, 2 mbufs, ring and burst of 2: the queue, the ring and the pool run full, and mbufs are used again while events are queued | the consumer sees the feed in order and once; the reported count is what was consumed; mbufs are freed once; stored frames get through; `main()` never hangs |
| `replay_overflow` | as above | **violated**: a full queue loses records |
| `hash_map` | 4 keys, 3 entries, all hash functions: full table, tombstones, wrap | it is a bounded map |
| `book` | 3 orders, 4 ids, 2 prices in 2 bitmap words, quantities 0 to 2: removal at head, middle and tail, full pool, best price moving between words | lists, index, bitmap and pool agree; the book is that of the feed, in time priority and with its best prices |
| `book_quantity` | 1 price | **violated**: level total after a partial reduction |
| `exchange` | 4 orders, pool of 3, 2 prices, quantities 0 to 2, one account over OUCH and one in the process: partial fills, an order that trades twice, trades with oneself, a rejected order | price-time priority, conservation, no leak, progress; every fill is reported under the right reference; positions are what was filled |
| `exchange_server` | 2 clients, one pipelines 2 orders; orders and answers of 2 units, room for 1 | alignment, order and accounting of answers; every order is answered, neither client starves the other |
| `order_entry` | 3 orders, position limit 2 | position covers the exchange, calls return |
| `tick_to_trade` | 3 messages of all kinds; files cut off at every byte; frames with options, padding, another type, version, protocol or port; answers with bytes missing | events follow the feed; orders and answers survive the wire |
| `tick_to_trade_symbol` | as above | **violated**: an intent that answers an event other than an AddOrder names no instrument |

`book` compares states by `LiveView`, which leaves out the fields of orders that
are not in use and the totals of the levels. No operation reads either before
writing it, and no property of that run mentions them.

The three violated properties state what the repository's documents say; the
findings in `PROJECT.json` quote them.

`CHECK_DEADLOCK FALSE` is used where the bounded environment may stop: all
pushes or orders are used up, or the process has ended.

### Fairness

Threads that run keep running: the worker, `main()` with the receive loop in it,
the trading thread inside a call and the server loop are weakly fair. A poll
eventually sees what was queued (strong fairness of the dispatch that reads the
last index: an atomic store becomes visible in finite time). A peer reads what it
is sent, which `OrdersAreAnswered` needs. No peer has to send anything, no frame
has to arrive, nobody has to call `start()` or `stop()`, and failures are never
forced. The receive over TLS at the end of a replay is not fair: nothing in the
process ensures that the exchange answers.

## Proofs

`SpscRingBufferProofs` proves, for every capacity above the module's assumption,
every set of values and every bound: `TypeCorrect`, `RaceFreedom`,
`HighWaterMark`, `DepthFromIndexes` and `Refinement` (the ring implements
`SpscQueue`). None of these properties is inductive. `Inv` adds that the k-th
value of an index is k modulo the capacity (`IndexInv`), what each side's view
allows it to do (`ViewInv`), what the slots between tail and head hold
(`ContentInv`), who touched a slot last (`RaceInv`), and how far the metrics lag
(`DepthInv`, `CountInv`). There is one lemma per action; lemmas on `%` say that
two numbers closer than the capacity have different slots. The proofs use the
named assumptions on the constants and nothing else.

`TradingRuntimeProofs` has three parts. For the pipeline it proves
`StopDrainsQueue`, `ProcessedCountIsExact` and `NeverTerminates` for every
capacity and every number of submits and starts, under `OneThread`: the thread
that feeds the pipeline is the only one that controls it. `PipelineInv` says in
which states of the caller a worker exists and where it may be (`Lifecycle`),
that the worker knows of every push before `stop()` once it has seen `running_`
false (`Drained`), and that every event popped is in the count or in the dispatch
under way (`Counted`).

For the receiver it proves `LoopAccountsForMbufs` for every finite pool and every
ring and burst size. `MbufsAccounted` counts; the inductive `ReceiverInv` needs
that no mbuf is in two places and that frames are held in the order of their
arrival, which the composition uses.

For the composition it proves `RuntimeRunsItsParts` (a step of the runtime is a
step or a stutter of the pipeline, and one of the receiver), and with both
invariants `ReportIsExact`, `ConsumerFollowsFeed` and `RuntimeAccountsForMbufs`.
`RuntimeInv` adds where `main()` is in the calls of the pipeline, that its tally
is the number of accepted events, and `Behind`: what was accepted or refused
comes before everything that the file, the ring or the burst still holds, so the
queue can only be extended in order. `MainAssumption` (in `TradingRuntime`) gives
`OneThread`.

`FixedHashMapProofs` proves `SizeIsExact` and `TableIsBoundedMap` for every
capacity, hash function, and set of keys and values (`MapAssumption`). `HashInv`
says that a probe for a present key reaches its entry before one that was never
used (`Reachable`), that no key is stored twice (`Once`), and that `size_` counts
the occupied entries. A tombstone keeps what lies behind it reachable; the
first-tombstone rule of `insert` is what `Once` rests on.

`OrderEntryProofs` has two parts. For the server it proves `FramesStayAligned`,
`ResponsesStayInOrder`, `AnswersAreAccounted` and `PendingStaysWatched` for every
set of clients, message sizes and socket room. `ServerInv` ties, client by
client, what was sent, buffered, decoded, processed, answered and flushed to one
running count, and the epoll interest to what is pending. For the client it
proves `PositionCovers` and `ExposureStaysWithinLimit` for every limit and every
`Quantities` of natural numbers: `EntryInv` adds to `ServerInv` which orders are
whole on the socket, and that the risk manager counts at least those.

The book is proved in four modules. `PriceLevelProofs` has the lemmas on the
linked lists (what `push_back` and `remove` do to a list read in either
direction), on walking one, and on the bitmaps (what the search for the next set
bit finds). `ArrayOrderBookProofs` has one lemma per operation of the book and
the pool: each keeps `Consistent` (lists, links, index, bitmaps and best prices
agree), and each has its effect on the lists and on nothing else.
`MarketDataBookConsumerProofs` proves `BookInvariant`, and from it
`ListsStayIntact`, `NothingLeaks` and `BitmapsMatch`, with one lemma per event;
`MarketDataBookRefinement` proves `BookRefinesFeed`: lists read in time order,
index and best prices are a step or a stutter of `LimitOrderBook` at every event.
All hold for every pool capacity, number of levels, word size and feed
(`BookAssumption`, `FeedAssumption`). The list of a level is not a variable: the
invariant says that some sequence of addresses without repetition is linked as
the level's list, and the lemmas carry that sequence from state to state.

Only model-checked: the matching engine and the exchange path, the wire formats,
and all liveness. The prover does not handle liveness and `ENABLED`, nor the
recursive operators of the wire formats. Induction over data is not available as
a rule; where it is needed (probe sequences, running totals, walks along a list)
the proofs take the least counterexample from `WellFoundedInduction` instead.

## Assumptions and limits

* The feed does not repeat an order id, and prices are above 0 and within the
  levels of the book. The code checks neither.
* Counts of submits, orders, frames and starts are bounded; the bounds are named
  constants. With an endless producer `dispatch()` need not return, and with an
  endlessly writing client neither need `handleClientReadable`.
* The lengths in the headers of a frame agree with the frame. The parsers check
  the IPv4 header length against it, but not the total length or the UDP length.
* The strategy may answer any event with any intent once orders of both sides
  have been seen; its floating-point score is not modelled.
* One thread starts and stops the pipeline, as in the runtimes. With two in
  `Controllers`, `NoTerminate` fails: a `start()` between another thread's
  `stop()` and its join assigns over a joinable `std::thread`. The documentation
  (`docs/architecture/market_data_pipeline_details.md:358`) claims "Thread-safe
  lifecycle management".
* Per-client state of the server is independent but for the batch of events, so
  one client pipelining beside another with a single order is enough.

## Not modelled

* Floating-point features and scores: TLC and the provers have no such numbers.
* Logging, journal, trade publisher, statistics, CPU pinning, NUMA placement,
  option parsing and EAL initialisation: output or placement, with no state that
  another part reads.
* TLS records and certificates: a connection is a stream of bytes that a
  handshake opens, which is all the code sees of it.
* The pcap reader, `ItchParser`, the demo, the benchmarks and the sender tools:
  no runtime uses them.
* The FPGA Ethernet parser: one stage that nothing is connected to, with a
  testbench that checks nothing. `PROJECT.json` lists the hazard in it.
* Two threads that control one pipeline, beyond the remark above; an order id
  used twice and a price outside the levels, which the code does not check.
