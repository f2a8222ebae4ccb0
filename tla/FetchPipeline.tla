---------------------------- MODULE FetchPipeline ---------------------------
(***************************************************************************)
(* Decoding over the network (codestream/decompress/                       *)
(* CodeStreamDecompress.cpp): fetchByTile() and the two phases of          *)
(* fetchByTileSelective(), the consumer thread that starts the decode of   *)
(* each fetched tile, the task pool, and the caller, which waits for       *)
(* swaths and then for everything.  The fetcher is throttled by the tiles  *)
(* fetched and not decoded, and by the caller's position in the image.     *)
(*                                                                         *)
(* Call j of the caller fetches job j of FetchWorker.  A second phase may  *)
(* find tiles whole in what the first one fetched: these are queued at     *)
(* once, and are not fetched.                                              *)
(***************************************************************************)
EXTENDS FetchWorker

CONSTANTS
  Columns,        \* t_grid_width_
  Plans,          \* the sequences of calls that the caller may make
  Probes,         \* calls that fetch tile headers, before the data
  Reused,         \* of each call: the tiles the first phase fetched whole, in order
  Swaths,         \* of each call: where the swaths it waits for end, in tile rows
  Tracked,        \* whether there is a tileCompletion_
  MaxInFlight,    \* maxDecompressInFlight_
  MaxRowsAhead,   \* maxRowsAhead_
  Refused         \* tiles decompressPrepareWithTLM() refuses

Row(t) == t \div Columns
Fetched(j) == {j} \X TilesOf(j)
Prefetched(j) == [i \in DOMAIN Reused[j] |-> <<j, Reused[j][i]>>]
Wanted(j) == Fetched(j) \cup {Prefetched(j)[i] : i \in DOMAIN Reused[j]}
AllWanted == UNION {Wanted(j) : j \in Jobs}
LastRow(tiles) == CHOOSE m \in {-1} \cup {Row(t) : t \in tiles} : \A t \in tiles : Row(t) <= m
Int16Max == 32767

VARIABLES
  delivered,           \* tiles whose last part has come, by job
  tileQueue, closed,   \* decompressQueue_
  maxRow, cleared,     \* maxFetchedTileRow_, lastClearedTileY_
  inFlight,            \* decompressInFlight_
  dpc, held,           \* the consumer thread, and the tile it has popped
  decode,              \* of each tile the consumer has started: its decode
  call, plan,          \* the caller: its call, the calls to come,
  upc, swath           \* its place, its next swath

pipeVars == <<delivered, tileQueue, closed, maxRow, cleared, inFlight, dpc, held, decode,
              call, plan, upc, swath>>
vars == <<workerVars, pipeVars>>

NoTile == <<0, 0>>

Init ==
  /\ WorkerInit
  /\ delivered = {} /\ tileQueue = <<>> /\ closed = FALSE
  /\ maxRow = -1 /\ cleared = -1 /\ inFlight = 0
  /\ dpc = "off" /\ held = NoTile
  /\ decode = [d \in AllWanted |-> "none"]
  /\ \E p \in Plans : call = Head(p) /\ plan = Tail(p)
  /\ upc = "call" /\ swath = 1

BugThrottleOpen ==
  /\ Tracked => maxRow < cleared + MaxRowsAhead + 2
  /\ inFlight < MaxInFlight

BugThrottleRows == Len(tileQueue) + inFlight < MaxInFlight

\* installFetchThrottle(): may more requests be opened?  A tile the consumer
\* holds and has not started is in neither count.
ThrottleOpen ==
  /\ Tracked => maxRow < cleared + MaxRowsAhead + 2
  /\ Len(tileQueue) + inFlight < MaxInFlight

-----------------------------------------------------------------------------
(* The callbacks fetchTiles() was given, run by the fetch worker.          *)

SamePipe == UNCHANGED pipeVars

\* A tile is whole: it is queued for the consumer; a header probe only
\* takes note of it.
TileFetched(d) ==
  /\ delivered' = delivered \cup {d}
  /\ IF d[1] \in Probes THEN UNCHANGED <<tileQueue, maxRow>>
     ELSE /\ tileQueue' = Append(tileQueue, d)
          /\ maxRow' = IF Row(d[2]) > maxRow THEN Row(d[2]) ELSE maxRow

ReceivePiece(r) ==
  /\ Receive(r)
  /\ IF CompletesTile(r) THEN TileFetched(<<r[1], TileOf(r)>>)
     ELSE UNCHANGED <<delivered, tileQueue, maxRow>>
  /\ UNCHANGED <<closed, cleared, inFlight, dpc, held, decode, call, plan, upc, swath>>

Network(r) == ReceivePiece(r) \/ (Finish(r) /\ SamePipe)

-----------------------------------------------------------------------------
(* The consumer thread and the pool.                                       *)

Pop ==
  /\ dpc = "pop" /\ tileQueue # <<>>
  /\ held' = Head(tileQueue) /\ tileQueue' = Tail(tileQueue)
  /\ dpc' = "throttle"
  /\ UNCHANGED <<workerVars, delivered, closed, maxRow, cleared, inFlight, decode, call, plan, upc,
                 swath>>

PopClosed ==
  /\ dpc = "pop" /\ tileQueue = <<>> /\ closed
  /\ dpc' = "off"
  /\ UNCHANGED <<workerVars, delivered, tileQueue, closed, maxRow, cleared, inFlight, held, decode,
                 call, plan, upc, swath>>

\* The slot of a tile that is refused is not given back.
StartDecode ==
  /\ dpc = "throttle" /\ inFlight < MaxInFlight
  /\ inFlight' = inFlight + 1
  /\ decode' = [decode EXCEPT ![held] = IF held[2] \in Refused THEN "refused" ELSE "running"]
  /\ held' = NoTile /\ dpc' = "pop"
  /\ UNCHANGED <<workerVars, delivered, tileQueue, closed, maxRow, cleared, call, plan, upc, swath>>

\* postMultiTile(): the slot is given back ...
ReleaseSlot(d) ==
  /\ decode[d] = "running"
  /\ decode' = [decode EXCEPT ![d] = "released"]
  /\ inFlight' = inFlight - 1
  /\ UNCHANGED <<workerVars, delivered, tileQueue, closed, maxRow, cleared, dpc, held, call, plan,
                 upc, swath>>

\* ... and then the tile is completed.
Post(d) ==
  /\ decode[d] = "released"
  /\ decode' = [decode EXCEPT ![d] = "posted"]
  /\ UNCHANGED <<workerVars, delivered, tileQueue, closed, maxRow, cleared, inFlight, dpc, held,
                 call, plan, upc, swath>>

-----------------------------------------------------------------------------
(* The caller.                                                             *)

\* fetchByTileSelective(), first phase: the headers are fetched, and waited for
\* through the callback; the job's own future is dropped.
ProbeHeaders ==
  /\ upc = "call" /\ call \in Probes
  /\ FetchTiles(call)
  /\ upc' = "headers"
  /\ UNCHANGED <<delivered, tileQueue, closed, maxRow, cleared, inFlight, dpc, held, decode, call,
                 plan, swath>>

\* The headers tell which data is wanted, and the second phase follows.
HeadersCome ==
  /\ upc = "headers" /\ Fetched(call) \subseteq delivered
  /\ upc' = "call" /\ call' = Head(plan) /\ plan' = Tail(plan)
  /\ UNCHANGED <<workerVars, delivered, tileQueue, closed, maxRow, cleared, inFlight, dpc, held,
                 decode, swath>>

\* fetchByTile(), or the second phase: a new queue and a new consumer thread.
\* Tiles at hand are queued first, whatever the throttle says; the others, if
\* there are any, are fetched.
FetchByTile ==
  /\ upc = "call" /\ call \notin Probes
  /\ Ranges[call] # <<>> \/ Reused[call] # <<>>
  /\ IF Ranges[call] = <<>> THEN UNCHANGED workerVars ELSE FetchTiles(call)
  /\ tileQueue' = Prefetched(call) /\ closed' = FALSE /\ dpc' = "pop"
  /\ maxRow' = LastRow({Reused[call][i] : i \in DOMAIN Reused[call]}) /\ cleared' = -1
  /\ upc' = "swaths" /\ swath' = 1
  /\ UNCHANGED <<delivered, inFlight, held, decode, call, plan>>

\* No tile has data: the call fails.
NothingToFetch ==
  /\ upc = "call" /\ call \notin Probes /\ Ranges[call] = <<>> /\ Reused[call] = <<>>
  /\ upc' = "failed"
  /\ UNCHANGED <<workerVars, delivered, tileQueue, closed, maxRow, cleared, inFlight, dpc, held,
                 decode, call, plan, swath>>

SwathStart == IF swath = 1 THEN 0 ELSE Swaths[call][swath - 1]

\* wait(swath) clears the rows above the swath ...
ClearRows ==
  /\ upc = "swaths" /\ swath <= Len(Swaths[call])
  /\ cleared' = SwathStart - 1
  /\ upc' = "rows"
  /\ UNCHANGED <<workerVars, delivered, tileQueue, closed, maxRow, inFlight, dpc, held, decode,
                 call, plan, swath>>

\* ... and returns when the tiles down to its last row are complete.
SwathReady ==
  /\ upc = "rows"
  /\ \A d \in Wanted(call) : Row(d[2]) < Swaths[call][swath] => decode[d] = "posted"
  /\ upc' = "swaths" /\ swath' = swath + 1
  /\ UNCHANGED <<workerVars, delivered, tileQueue, closed, maxRow, cleared, inFlight, dpc, held,
                 decode, call, plan>>

\* wait(nullptr) lifts the row throttle and waits for the future.
FullWait ==
  /\ upc = "swaths" /\ swath > Len(Swaths[call])
  /\ cleared' = Int16Max
  /\ upc' = "future"
  /\ UNCHANGED <<workerVars, delivered, tileQueue, closed, maxRow, inFlight, dpc, held, decode,
                 call, plan, swath>>

\* A failed fetch ends the wait there: the queue stays open, the consumer runs on.
FutureFailed ==
  /\ upc = "future" /\ answer[call] = "false"
  /\ upc' = "failed"
  /\ UNCHANGED <<workerVars, delivered, tileQueue, closed, maxRow, cleared, inFlight, dpc, held,
                 decode, call, plan, swath>>

\* Without a fetch there is no future to wait for.
FutureReady ==
  /\ upc = "future" /\ (Ranges[call] = <<>> \/ answer[call] = "true")
  /\ closed' = TRUE
  /\ upc' = "join"
  /\ UNCHANGED <<workerVars, delivered, tileQueue, maxRow, cleared, inFlight, dpc, held, decode,
                 call, plan, swath>>

\* The consumer is joined, then the tiles' futures are waited for.
CallReturns ==
  /\ upc = "join" /\ dpc = "off"
  /\ \A d \in Wanted(call) : decode[d] \notin {"running", "released"}
  /\ IF plan = <<>> THEN upc' = "drop" /\ UNCHANGED <<call, plan>>
     ELSE upc' = "call" /\ call' = Head(plan) /\ plan' = Tail(plan)
  /\ UNCHANGED <<workerVars, delivered, tileQueue, closed, maxRow, cleared, inFlight, dpc, held,
                 decode, swath>>

\* The codec is dropped, and with its stream the fetcher.
Drop ==
  /\ upc = "drop"
  /\ StopWorker
  /\ upc' = "stopping"
  /\ UNCHANGED <<delivered, tileQueue, closed, maxRow, cleared, inFlight, dpc, held, decode, call,
                 plan, swath>>

Joined ==
  /\ upc = "stopping" /\ fpc = "exited"
  /\ upc' = "done"
  /\ UNCHANGED <<workerVars, delivered, tileQueue, closed, maxRow, cleared, inFlight, dpc, held,
                 decode, call, plan, swath>>

Worker == WorkerStep(ThrottleOpen) /\ SamePipe
Consumer == Pop \/ PopClosed \/ StartDecode
Caller ==
  \/ ProbeHeaders \/ HeadersCome \/ FetchByTile \/ NothingToFetch
  \/ ClearRows \/ SwathReady \/ FullWait
  \/ FutureFailed \/ FutureReady \/ CallReturns \/ Drop \/ Joined

Next ==
  \/ Worker
  \/ \E r \in AllRequests : Network(r)
  \/ Consumer
  \/ \E d \in AllWanted : ReleaseSlot(d) \/ Post(d)
  \/ Caller

\* While a thread, a task or an open request can go on, one of them does.  Each
\* step uses up a piece, a retry, a message or a tile, so that no thread can go on
\* for ever by itself; only a job that is never answered keeps the worker turning.
Fairness == WF_vars(Next)

Spec == Init /\ [][Next]_vars /\ Fairness

-----------------------------------------------------------------------------
\* scheduled_ - completed_ is the number of requests curl has, and at most a
\* batch: "up to batchSize_ concurrent requests".
AccountingExact ==
  activeJobs # {} =>
    /\ current.scheduled - current.completed = Cardinality(handles)
    /\ Cardinality(handles) <= BatchSize

\* "When the returned value equals size(), all tile-parts for this tile have been
\* fetched": a tile is handed to the consumer once, with every part whole and
\* filled from its own range.
QueuedIntact ==
  /\ \A d \in delivered : \A r \in PartsOf(d[1], d[2]) :
       offset[r] >= BodyChunks /\ source[r] = r[2]
  /\ \A i \in DOMAIN tileQueue :
       /\ decode[tileQueue[i]] = "none" /\ tileQueue[i] # held
       /\ \A k \in DOMAIN tileQueue : tileQueue[k] = tileQueue[i] => k = i

\* installFetchThrottle(): the tiles at hand and not decoded are bounded by the
\* throttle, the batch it let through and the one the consumer holds.  Only tiles
\* of the first phase, which pass by the throttle, can be more.
BacklogBounded ==
  LET backlog == Len(tileQueue) + inFlight + (IF held = NoTile THEN 0 ELSE 1)
  IN backlog <= MaxInFlight + BatchSize \/ backlog <= Len(Reused[call])

\* The row throttle: of the rows the caller is not near yet, at most a batch of
\* tiles is fetched.
RowsAheadBounded ==
  call \notin Probes =>
    Cardinality({d \in delivered \cap Fetched(call) : Row(d[2]) >= cleared + MaxRowsAhead + 2})
      <= BatchSize

\* The places where the caller is left waiting.  The headers it waits for, or a
\* tile of its swath, was in a fetch that failed, of which only wait(nullptr)
\* takes notice.
FetchLost == upc \in {"headers", "rows"} /\ answer[call] = "false"

\* The row throttle is closed by a tile that its swath does not reach, while
\* tiles that it does reach are still to be fetched.
RowsHeldBack == upc = "rows" /\ maxRow >= cleared + MaxRowsAhead + 2 /\ HasMore(current)

\* A range was taken and not requested, and its job waits for it.
RequestLost == current.next > current.scheduled /\ answer[current.job] = "pending"

\* Every wait of the caller returns, with success or failure: unless it stays for
\* ever in one of these places.
CallsReturn ==
  \/ <>(upc \in {"done", "failed"})
  \/ <>[](FetchLost \/ RowsHeldBack \/ RequestLost)

Service == INSTANCE FetchService
\* The worker keeps the promise of fetchTiles().
IsFetchService == Service!Spec
=============================================================================
