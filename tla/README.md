# Grok: a TLA+ verification project

Grok is a JPEG 2000 codec. `src/lib/core` is the C++ library that compresses
and decompresses code streams; `mercury` is a Rust engine that decodes one tile
as a graph of cooperating nodes. This directory holds TLA+ modules for the parts
where the order of steps decides whether the program is right, TLC configurations
that check them on small instances, and TLAPS proofs for every instance.

`PROJECT.json` lists the components, the runs, the map from definitions to source
lines, the hazards and the theorems. Paths below are relative to the repository;
`CSD` is `src/lib/core/codestream/decompress/CodeStreamDecompress.cpp`.

## 1. The system

A call of `grk_decompress` on a multi-tile image starts a **producer** thread. It
parses the code stream tile part by tile part or, when the stream has a TLM index,
walks the index. Parsed tiles go into a **batch queue**, from which
`scheduleTileBatch()` hands them to a **task pool**. Each tile's task graph parses
packets (T2), decodes blocks (T1), inverts the wavelet, and ends in a post callback
that tells the **tile completion tracker**. The **consumer** (the application)
calls `wait` for one swath of rows after another; when it moves down it releases
the rows above, and that lets more tiles be scheduled. With a network source a
**fetch worker** requests byte ranges and delivers them to a **decompress
consumer**. For eligible tiles mercury replaces T1 and the wavelet: a **weft**
graph of nodes joined by rings, run by a pool of workers.

| part | state | operations | what makes it hard |
|---|---|---|---|
| weft node word, `mercury/src/weft/node.rs` | SCHEDULED and DIRTY bits | `tug`, `open_shed`, `try_tie_off` | a tug that races a runner about to leave; weak memory order |
| weft ring, `weft/ring.rs` | `head`, `tail`, slots | `slack`, `pick`, `beat`, `picks_ready`, `peek`, `unwind` | late counters, slots reused in place |
| weft runtime, `weft/rt.rs` | run queue, `outstanding`, `failed`, `shutdown`, workers | `tug`, `spool`, `treadle_loop`, `ply_node`, `fail`, `await_stillness`, drop | inline chains, panics, deciding that all is done |
| decode graph, `decode/graph.rs` | row cursors of subband, level and merge nodes | `shuttle` of each | back-pressure in both directions |
| tile completion, `tile_processor/TileCompletion.h` | completed tiles, contiguous prefix, rows released, waited swath | `complete`, `wait`, release | completions in any order and repeated, lost signals |
| swath pipeline, `CSD` | batch queues, headroom, rows scheduled, futures | parse, `scheduleTileBatch`, post, `onRowCompleted`, `wait` | a throttle with three parties, each waiting for the next |
| fetch worker, `stream/fetchers/CurlFetcher.cpp` | jobs, active handles, current batch | `fetchTiles`, batches, write callback, retry, stop | partial data, retries, a count that outlives its job |
| fetch pipeline, `CSD` 1853-2440 | decompress queue, in-flight count, highest row fetched | fetch callbacks, consumer thread, throttle | two throttles on one flow |
| band output, `CSD` 300-410, 700-712, 1015-1022 | pending bands, next row to write | row callback, parser back-pressure | ordered output of unordered rows |
| tile cache, `tile_processor/TileCache.h` | entries, dirty marks, LRU list | `put`, `get`, evict, release, discard | eviction between two uses |
| compressed chunk cache, `cache/CompressedChunkCache.h` | bytes held, LRU list, spilled tiles | `put`, `get`, spill, reload | data shared with queued tiles |
| packet order, `t2/PacketIter.cpp`, `t2/T2Decompress.cpp`, `t2/T2Compress.cpp` | loop counters, odometer of tile parts, packet tracker | `next`, `enable_tile_part_generation`, `compressPackets`, `parsePackets` | encoder and decoder must count alike, by different loops |
| T1, packet bits, wavelet, markers, formats, codecs | buffers | pure or sequential | arithmetic and parsing, not order |

## 2. Modules and how they correspond to the code

**`WeftWakeup`** - the word of one node, as `rt.rs` drives it. `TugLoad`,
`TugRetry`, `TugSwap` are the load and the two outcomes of the compare-exchange in
`tug`; `OpenShed` is `open_shed`; `TieLoad`, `TieAgain`, `TieRetry`, `TieOff` are
`try_tie_off`; `Beat` publishes a row before the tug, `Take` is the hand-off through
the run queue and `Shuttle` the pass. Memory is not sequentially consistent: each
thread has a *view* of the ring tails; an Acquire load returns any value from its
view up to the newest one; every write of the word joins views; a Relaxed load of
the word may return any value the word has had since the thread last wrote it.

**`WeftRing`** - one ring. Each side's copy of the other side's counter is a
variable (`pHead`, `cTail`) that a load advances to any value not past the real
one. Filling a slot takes two steps, with `Torn` in between. **`RowQueue`** is the
abstract promise of an edge, a bounded queue of rows in order; `WeftRing`
implements it under the mapping `RowsHeld`.

**`WeftRuntime`** - the runtime driving a whole decode graph. A worker's stack of
`ply_node` calls is a sequence of frames, innermost first; a frame holds its node,
its step, the tugs it still owes and the node it will chain to. The graph is a
parameter: subband nodes with block rows of given heights, level nodes with the
number of fresh rows of each parity they need for each output row (the lifting
schedule), rings with a given span, leading rows that drain unread. A subband may
report a decode error and any pass may panic (`MaxFaults` in one behaviour).
Atomics are single steps here; `WeftWakeup` and `WeftRing` justify that.

**`TileCompletion`** - the tracker. `complete`, the wait loop with its condition
variable (also waking spuriously), releasing rows, the row callback.

**`SwathPipeline`** extends `TileCompletion` with the producer of either kind, the
batch queue and its headroom, `scheduleTileBatch()` as its sequence of atomic reads
and critical sections, the task pool, `onRowCompleted`, the best-effort pass after
a truncated stream, and a consumer that waits for given swaths and then, perhaps,
for the whole image. `stream`, one of `Streams`, says what is decoded and how it is
read: `ParseOrder` is the order in which tiles end in the stream, `Cut` the tile the
stream ends in, `Partial` the tiles with only some of their parts, `Failing` tiles
with a stage that fails, `Rejected` TLM tiles that are refused, `Requests` the
swaths waited for and `FullWait` whether `wait(nullptr)` follows.

**`BandDrain`** extends `TileCompletion` with the other use of a tracker, writing the
image band by band (a tracker never serves both, `CSD:277`; `use` says which it
is). `EnterDrain`, `DrainBand`, `LeaveDrain` are the row callback under
`bandOrderMutex_`, run by whichever thread completed a row: a worker, the parser or
the caller. `MaySchedule` is the parser's back-pressure; its wait is timed, so it is
a guard. `ParseTile` to `FinishEnd` are the parser of a synchronous decode
with its best-effort pass, `Sweep` the end of `decompress()`, the rest of the caller
`wait(nullptr)`. The strip buffer is, for every column, the row whose samples it
holds. That the parser waits for a best-effort tile's future before it completes the
tile is `Awaited`; without it (`BugAwaited`) `BandsIntact` fails, the tile being
released under its tasks. A best-effort tile whose preparation fails is not scheduled
(`BestEffort`), and without memory for the strip buffer the decode fails
(`TaskDecode`).

**`FetchWorker`** - the thread of the network fetcher, on the path that fetches
tiles. A request is a tile part; its body comes in `BodyChunks` pieces, and the part
is handed over from curl's write callback with the last one, before curl's verdict
on the transfer. Retries (`Faults`, `MaxRetries`), ranges past the end of the file
(`Clipped`), responses longer than asked for (`Excess`: the piece too many is not
copied, but hands the part over again), requests that `curl_multi_add_handle()`
refuses on the first attempt or on a retry (`AddFails`), an error of curl itself
(`MultiErrors`) and late verdicts (`LateDone`, `LateError`) are constants.
`scheduled_ - completed_` wraps as the code's does. The ranges come from a cursor
(`next`) of their own: once a request was refused it is ahead of `scheduled_`, and a
part is asked for with the range of a later one (`source`). That such a range also
has another length is left out. **`FetchService`** is what `fetchTiles()` promises:
each tile at most once, at most one answer per future, "true" only after all tiles.
**`FetchPipeline`** composes the worker with the decompress queue, its consumer
thread, the task pool and a caller that makes the calls of one of `Plans`, some of
them header probes, and waits for swaths and then for everything. After a probe the
tiles it fetched whole (`Reused`) are queued at once, past the throttle; with nothing
else to fetch there is no job and no future, and with nothing at all the call fails.
It implements `FetchService` (`IsFetchService`; the variables `answer` and
`delivered` are the abstract ones).

**`PacketIter`** - the precinct grid of a tile and the encoder's loops in the five
orders as operators on a tile's description. **`TilePartWriter`** - the division
into tile parts, an odometer over the letters of the order. **`PacketReader`** - the
decoder's loops, plain and per resolution (`...OPT`), as the list of packets they
parse and of runs they skip by packet length (PLT). **`PacketStream`** composes
them: the encoder writes tile part after tile part, the code stream may be cut
between two packets, the decoder walks what is left. A skip past the end of the data
leaves `parsePackets` by an exception (`mode` is "thrown"). A code stream does not
name its packets, so the decoder
is right exactly when the packet it believes to be at the cursor is the one there.

**`WeftWakeupProofs`**, **`WeftRingProofs`** hold the theorems. The `MC...` modules
instantiate for TLC. Operators named `Bug...` stand next to the definition they
are a plausible mistake in; no specification uses them.

## 3. Runs

| run | instance | shows |
|---|---|---|
| `weft_wakeup` | 2 producers, 2 workers, 2 rows each | passes exclude each other, no wakeup is lost, no pass sees older tails than the one before, every row published is taken |
| `weft_ring` | 3 slots, 7 rows | the counters never wrap, no slot is written while referred to, rows are whole and in order, the ring implements `RowQueue` |
| `weft_faults` | one level over two bands, two workers, one fault | one owner per node, `outstanding` exact until a panic, Ok only with every row handed out, Err only with a message, `weave` always returns |
| `weft_levels` | two levels of a window at the foot of seven rows, two workers, rings of one and three slots | when the graph comes to rest every wanted row was handed out: neither back-pressure nor the rows drained unread stall it; no deadlock |
| `tile_completion` | window of 2x3 tiles in a 3x4 grid, any of the swaths of `MCSwaths` | prefix and rows exact under repeated, unordered completion; one callback per row; nothing below the waited row released; a wait returns. With the six streams of `MCStreams` and a band callback: bands in order, none lost or doubled, each with its own samples; no tile released under its tasks; the decode ends |
| `swath_batches` | 2x2 tiles, the six streams of `MCStreams` | each tile scheduled once, the unscheduled count exact, a swath handed over intact, with TLM nothing left after the full wait, the consumer served |
| `fetch_pipeline` | the eight sequences of the ten calls of `MCCalls`; batches of 2, one retry | the batch count is exact, a tile reaches the decoder once, whole and with its own bytes, the backlog and the rows fetched ahead are bounded, `FetchService` is implemented, and a call returns except in three named places |
| `packet_stream` | the tiles of `RegularTiles`, cut between any two packets | the tile parts hold every packet once, in the declared order; the decoder stays in step; a window gets all its packets that are there |
| `swath_order` | 1x4 tiles parsed as 0, 3, 1, 2 | **violation**: see finding 1 |
| `swath_full_wait` | 1x6 tiles | **violation**: see finding 2 |
| `swath_failed` | 1x2 tiles, tile 1 partial and failing | **violation**: see finding 3 |
| `swath_cut` | 2x2 tiles, the stream ends in a queued one | **violation**: see finding 4 |

**Bounds.** `weft_wakeup` has two producers, so that a tug meets another tug as
well as a runner, and rows enough for a second wakeup after the node has been let
go. In `weft_ring` the counters pass the span more than twice, so that every slot
is reused with a late counter on either side. `weft_faults` has a block row taller
than the next node needs at a time and rings of two slots, so that both full and
empty rings occur; `ChainDepthCap` is the code's 2, and both graphs are deep enough
to reach it. `weft_levels` is what the planner makes of an image of rows 1 to 7 of
which the last is wanted: the upper level computes rows 3 to 7, its padded window, the
first four of them only to be discarded, and the lower level drains its first row
unread from the child's ring, so that a child not told of the room stands still. Its
workers are interchangeable (symmetry). It checks `StillnessSound` and not
`WeaveReturns`: a graph that has stalled is at rest too, and `weave` returns from it,
with rows missing.
The swath runs use window sizes of 1 (2 in the code; the constants are
`maxRowsAhead_`, `batchTileInitialRows_`, `batchTileNextRows_`), which makes the
queue and the consumer block on each other with four tiles (the parser's own bound
is reached in `swath_order` only);
the runs of findings 2 and 3 use the code's own 2, 2, 2. `MCStreams` of `swath_batches` has
an index or none, tiles in column order, a stream that ends in a tile, a partial tile
and failing ones, and a consumer that reads row by row, one row and then all, or all at once, so that tiles
are queued when `wait(nullptr)` is called. A stream without TLM read by
`wait(nullptr)` is finding 2; what does not hold of the one that ends in a tile is
finding 4. `Workers = 2` is the least
the code batches with. `MaxFaults` and `MaxRows` bound what would be unbounded.
The streams of `MCBandDrain` are: rows out of order with an empty one; one cut in its
second row with a failing tile; one with TLM and a refused tile; one with a row the
sink rejects and tiles missing; one with an invalid marker; one without memory for
its strip. Three rows is the least
with which the parser can be two ahead.
In `fetch_pipeline` call 2 is more than two batches, tile 0 has two parts,
`MaxInFlight` is 1 and `MaxRowsAhead` 0, so that both throttles close; `Faults`
breaks off a probe and a data range (each is retried and succeeds), and a probe and
a data range for good; `AddFails` refuses a request of a first batch, one of a
refill and two retries; calls 8, 9 and 10 have all tiles, one tile far down, and no
tile reused. The three places where a call may stay for ever are part of
`CallsReturn`: `FetchLost` (calls 5 and 7), `RowsHeldBack` (call 9), `RequestLost`
(call 6); leaving out any of them TLC finds the call that stays there. The run
assumes `LateDone = FALSE` (curl reports a transfer in the round in which its last
byte arrived), `LateError = FALSE` (no transfer fails after its last byte) and no
`Excess` or `Clipped` range, and refuses no range but the last of its job. What
happens otherwise is in section 5.
The tiles of `packet_stream` have up to 8x8 samples, two components, two
resolutions and two layers, with several precincts on both axes: every order with
every divider, origins inside a precinct and at its edge, 4:2:2 subsampling, windows
at the origin, inside and at the far edge with and without PLT, a reduced read, and
all pairs of orders in a progression order change. Three conditions (`OdometerFits`,
`OriginInside`, `SkipsFit`, with the reason for each in `MCPacketStream`) leave out
the tiles with which the code loses count, listed in section 5; so do the choice of
subsampling and of the second order of `LayerPoc`.

**Fairness.** The weft modules have weak fairness per thread and `TileCompletion`
weak fairness of the consumer and of each tile's completion: a thread that can go
on does so eventually, which the operating system's scheduler gives. `SwathPipeline`
assumes less, weak fairness of all threads together: the process does not stop
while some thread can go on. That is enough because no thread can go on for ever
by itself. No fault, spurious wakeup or alternative of one thread is ever required
to happen. `FetchPipeline` and the band side of `BandDrain` assume the same, with the
network counted among the threads: every request has a timeout, so an open one ends.
Condition variables are modelled with their real `notify`, so a lost
signal would show. Deadlock is not checked in the swath,
band, fetch and packet runs, where the behaviour ends with the caller;
`ConsumerServed`, `BandsFinish` and `CallsReturn` say that it does end there.

## 4. What is proved

The theorems hold for every value of the constants, under the assumptions the
modules name: `WakeupAssumption` (producers and workers are different threads, the
number of rows is a natural number) and `RingAssumption` (a ring has at least one
slot).

**`WeftWakeupProofs`.** `WakeupTypeCorrect`, `WakeupExclusive`, `WakeupNeverLost`,
`WakeupNeverRewinds` follow from the inductive invariant `IInv`. Exclusive execution
is almost inductive by itself; no lost wakeup is not, since it speaks of rows while
the code only moves bits. What connects them is knowledge, kept in views:

- `Released`: a producer outside a tug has made its rows known to the word;
- `Pending`: while DIRTY is clear, the owner knows every row released to the word or
  has already taken it, and without an owner every one is taken;
- `Inherited`: whoever runs the node next knows at least what has been taken;
- `Taken`: after its pass the owner knows of nothing it has not taken.

The step where the argument bites is `TugSwap` on a word that already has DIRTY: the
write changes no bit, but it is the write that keeps `Released`. The early return
that `mercury/docs/weft-design.md` section 4 shows in its place (`BugTugLoad`) breaks
it, and TLC finds the lost row.

**`WeftRingProofs`.** `RingCountersOrdered`, `RingNoSharedSlot`, `RingWindowIntact`
follow from `RInv`: the counters are ordered, each side stays in its part of the ring
as it *knows* it (`Sides`, on the late counters), and every published or filled row
is in its slot (`Contents`). The arithmetic is in one lemma, `ResiduesDiffer`: two
rows less than a span apart have different slots. `RingIsRowQueue` is the refinement:
in a reachable state the slots from `head` to `tail` read as those rows in order, so
`Beat` is `Send`, `Unwind` is `Receive` and all else stutters.

**Only model-checked:** all of `WeftRuntime`, `TileCompletion`, `BandDrain`,
`SwathPipeline`, the fetch and the packet modules so far, the refinement
`IsFetchService` among them; liveness (`EveryRowTaken`, `WeaveReturns`, `WaitReturns`,
`BandsFinish`, `ConsumerServed`, `CallsReturn`), which the
prover does not do; and what the packet loops compute, which are folds over data.

## 5. Where the code and its comments disagree

1. `swath_order` - a consumer that waits row by row can wait for ever when tiles end
   in the stream in another order than the rows. A call of `scheduleTileBatch()` that
   is within the window spends its budget on the first queued tiles, whatever their
   row; the row callbacks of rows further down are skipped (`CSD:1762`), and nothing
   schedules the tile that is waited for. The comments at `CSD:1794` and `CSD:1803`
   mean to exclude that.
2. `swath_full_wait` - `wait(nullptr)` may return with tiles still being decoded: it
   waits for the futures that exist when it looks (`CSD:1670`), and row callbacks may
   schedule more. `grok.h:1601` promises "the entire decompression".
3. `swath_failed` - a tile with a failed stage is not completed, because the task
   graph replaces the post callback too; the comment at `CSD:1317` says "Always mark
   tile as complete". Nor is it when it is a best-effort tile, which `CSD:883` says
   "complete here": marking it truncated made `hasUnparsedTileParts` false.
4. `swath_cut` - the tile the stream ends in is completed while still queued
   (`CSD:885-887`): a tile has no future until it leaves the queue, so there is
   nothing to wait for. `CSD:868` says of parsed tiles that they "must not be completed
   here", and `CSD:884` "wait first".

Further observations, each seen with TLC on the constants named, without a run of its
own (limits are `MaxRowsAhead`, `InitialRows`, `NextRows`):

- 1x5 tiles, one swath over all, limits 2, 2, 2: `ConsumerServed` fails; a swath of
  more rows than the window and the first two batches hold can hang (`CSD:1762`).
- 2x8 tiles in column order, no swath, then `wait(nullptr)`, limits 2, 2, 2:
  `ConsumerServed` fails; the parser stays blocked although the comment at `CSD:1628`
  says the remaining tiles are force-scheduled "so the worker thread can exit".
- 1x5 tiles with TLM, limits 2, 2, 2: `WindowKept` fails; a consumer that waits before
  the producer has scheduled its first rows schedules the whole image (`CSD:733`,
  `CSD:1801`). It costs memory, not correctness.
- 2x2 tiles with TLM, no swath, `wait(nullptr)`, tile 1 failing, limits 1, 1, 1:
  `ConsumerServed` fails. The flush of `wait(nullptr)` may come before the producer has
  filled the queue; the row of the failing tile then never calls back, and the
  producer waits for its queue for ever.
- `decompress()` completes tiles that a worker is still posting (`CSD:429`):
  `CompletedWhenDone` fails.
- 1x5 tiles with TLM, tile 2 refused: `wait(nullptr)` hangs, since the refusal ends
  the batch with tiles still queued (`CSD:1828`).
- A wait returns when the *contiguous prefix* of tiles reaches the swath, which may be
  later than "as soon as the requested swath tiles are decompressed" (`CSD:1583`,
  `TileCompletion.h:142`): `PromptReturn`.

**Bands** (`BandDrain`).

- Three rows in raster order, a tile of the first with a failing stage:
  `BandsFinish` fails. The row never completes and is fully scheduled, and nothing
  clears `success_` for a failed stage, so the parser waits for ever. The comment at
  `CSD:1011` has the timed wait "periodically re-check success_ even if the Taskflow
  task graph skips the post callback on error".
- A tile that is missing or failed leaves its column of the strip buffer as the
  row before left it, and that band is written so (by reading: `CSD:355-370`; the
  model's `strip` shows it).
- A tile refused on the TLM path ends the schedule (`CSD:711`); the decode returns
  with `success_` set and the rows from there on unwritten.

**Fetch** (`FetchPipeline`; other constants as in the run unless named).

- One call for tiles 0 to 5 in one column, one swath of six rows, `MaxRowsAhead` 2,
  `MaxInFlight` 2: the call stays in `RowsHeldBack`. The row throttle
  (`CSD:2240-2246`) holds back rows the caller is waiting for until it has cleared the
  ones above. A reused tile does the same when it is further down than the throttle
  allows (`CSD:2423-2426`, call 9 of the run).
- A request refused in a later batch (`CurlFetcher.cpp:508-513`, the result is ignored
  at the refill) is not asked for again: its job is never answered (`RequestLost`, call
  6 of the run). When it is not the last, `AddFails` with `<<<<2, 4>>, 0>>`,
  `QueuedIntact` fails: the cursor has moved on, and the next part is filled from the
  range after its own.
- `Excess` with `<<2, 1>>`: `QueuedIntact` fails. The piece too many is not copied
  (`TPFetchSeq.h:234`), but `fetchOffset_` still equals the length, and the part is
  handed over and counted once more.
- `LateDone`: `AccountingExact` fails (`CurlFetcher.h:224` calls it the limit on
  concurrent requests), and `CallsReturn` with it. A transfer of a job that has been
  answered is counted against the next one, the unsigned difference at
  `CurlFetcher.cpp:489` wraps, and no further batch is opened.
- `LateError` and a tile in two parts: `QueuedIntact` fails. A part delivered from the
  write callback whose transfer then fails is fetched and counted again, so the tile
  counts as complete with a part missing (`TPFetchSeq.h:316`).
- By reading, with the model agreeing where it covers the code: a header probe that
  fails for good leaves `phase1Future.get()` waiting (`CSD:2376`, `FetchLost`); a failed data fetch
  leaves `wait(swath)` asleep (`FetchLost`), and makes `wait(nullptr)` return without closing the
  queue or joining the consumer (`CSD:1651-1655`); a refused tile keeps its in-flight
  slot (`CSD:764`); a range clipped at the end of the file is never complete
  (`CurlFetcher.cpp:496-501`); `postSingleTile` never gives back an in-flight slot
  (`CSD:1215-1230`); a batch may pass the row limit of the comment at `CSD:2238`;
  `doc/S3.md:240` promises a delay between retries, and `retryDelayMs_` is not used.

**Packets** (`PacketStream`; arguments of `Tile` in `MCPacketStream`).

- `Tiles <- SecondTile`: `InStep` fails. The packets to the left of and above the window are
  counted from the precinct grid's origin and not the tile's (`PacketIter.cpp:977`,
  `:981`); `PacketIter.h:145` and `:149` say "packets in precinct columns to the left
  of the decode window" and "packets in precinct rows above the decode window".
- `Tile(<<3,8>>, <<0,4>>, Same, <<1,2>>, <<1,1>>, 1, "RPCL", "")`: `InStep` and
  `WindowServed` fail; the tile's origin is not in the first precinct of the
  resolution, against the comment at `PacketIter.cpp:1583-1587`.
- `Tile(<<0,8>>, <<0,8>>, Same, <<0,3>>, <<3,1>>, 1, "PCRL", "R")`: `StreamComplete` fails;
  the odometer has more cells than the precincts that bound the number of tile parts.
- `Tile(<<3,6>>, <<3,8>>, Same, <<2,1>>, <<2,2>>, 2, "CPRL", "L")`: `StreamComplete` and
  `InStep` fail; the first cell is cut by the tile's edge (`PacketIter.cpp:574-577`).
- CPRL with the subsampled component first: `StreamComplete` fails; the steps of the
  coarser component are used for the finer one (`PacketIter.cpp:1059`, `:1088-1090`, against the
  comment at `:845-848`).
- `LayerPoc("RPCL", "RPCL")`: `WindowServed` fails; the second progression's packets
  are dropped with the first's (`PacketIter.cpp:1070-1080`, `:1118-1126`).
- Read with PLT from a code stream cut within a run of skipped packets: the skip throws
  (`SparseBuffer.cpp:120`) in `next()`, outside the `try` of `parsePackets`
  (`T2Decompress.cpp:86`), and nothing in the tile's task catches it; a stream cut
  elsewhere is decoded as truncated. `WindowServed` still holds then.
- By reading: the iterators start at resolution and component 0 whatever the
  progression's first ones are; the per-resolution loops take the precinct sizes of
  component 0 for all.

## 6. Plan

1. **Proofs**: `PrefixExact` and `RowCallbackOnce` of `TileCompletion` for every grid,
   and with them `BandsIntact` of `BandDrain`; `OneOwner` and `OutstandingExact` of
   `WeftRuntime` for every graph and pool; `ScheduledOnce` and `UnscheduledExact` of
   `SwathPipeline`; the safety part of `IsFetchService` and `AccountingExact`.
2. **`TileCache`** and **`ChunkCache`**: LRU order and budget, eviction against use,
   spilled data against queued tiles.
3. **Pure algorithms**: tag tree encoder against decoder; row windows of
   `decode/window.rs`; byte ranges of `SelectiveFetchRanges.cpp`.

## 7. What is not modelled

Entropy coding (T1), packet bits (T2), wavelet and colour arithmetic, rate control,
marker and box parsing, image codecs, request signing: sequential or pure code whose
risk is in the data. What the modelled parts need of it is a parameter: block heights
and row schedules in `WeftRuntime`; order, completeness and failure of tiles in
`SwathPipeline` and `BandDrain`; tile parts and their ranges in `FetchPipeline`;
precinct sizes in the packet modules. Third-party libraries and examples that the
repository carries are not part of the system.

In `SwathPipeline`, `success_` stays true on the modelled paths. `BandDrain` is the
synchronous decode of a local multi-tile image with a parser thread of its own (with a
single thread the caller does the parser's work first, one of its interleavings); bands from a network source are
neither there nor in `FetchPipeline`. `FetchWorker` has the tile path only: the chunk
path (`fetchChunks`, `ChunkBuffer`), which a stream without TLM uses, is left out, as
is the choice of the ranges and of the reused tiles of the second selective phase.
Reused tiles are queued in one step, before the consumer thread takes the first.
In `PacketStream` a packet that is there is sound: corrupt packets, and the bound on
how many are passed over with PLT (`T2Decompress.cpp:120-148`), are left out.
`SwathPipeline` leaves out a decode without memory for the composite image, which
`BandDrain` has. `PacketIter` leaves out
`next_prcl` and precinct sizes that differ between components. The tile cache and the
compressed chunk cache are in the plan. Taskflow, which runs the tile graphs, and
curl are taken as the code uses them: a graph runs its stages in order on any thread
of the pool; a transfer delivers its body in pieces and then has a verdict.
