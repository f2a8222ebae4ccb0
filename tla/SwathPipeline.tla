---------------------------- MODULE SwathPipeline ---------------------------
(***************************************************************************)
(* Batched asynchronous decoding of a multi-tile image                     *)
(* (codestream/decompress/CodeStreamDecompress.cpp): a producer thread     *)
(* that parses tiles or walks the TLM index, the task pool that decodes    *)
(* them, and a consumer that waits for swaths, or for the whole image,     *)
(* and whose progress throttles the other two through scheduleTileBatch(). *)
(*                                                                         *)
(* scheduleTileBatch() is called by the consumer and, when a tile row is   *)
(* complete, by whichever thread completed it.  Each atomic read, each     *)
(* critical section and each tile handed to the pool is a step of its own: *)
(* the budget of a call is computed before batchTileQueueMutex_ is taken.  *)
(***************************************************************************)
EXTENDS TileCompletion

CONSTANTS
  Streams,         \* code streams and what the consumer asks of them, see below
  Workers,         \* threads of the pool, at least two: one thread does not batch
  MaxRowsAhead, InitialRows, NextRows   \* maxRowsAhead_, batchTile{Initial,Next}Rows_

Consumer == -1
Producer == -2
NoOne == -3
Callers == Tiles \cup {Consumer, Producer}   \* threads that may call scheduleTileBatch()
Int16Max == 32767

VARIABLES
  stream,          \* the one decoded, fixed at the start
  queue,           \* batchTileQueueTLM_ or batchTileQueueSequential_
  headroom,        \* batchTileScheduleHeadroomSequential_
  unscheduled,     \* batchTileUnscheduledSequential_
  scheduledRows,   \* batchTileScheduledRows_
  rowScheduled,    \* bandRowScheduledTiles_; <<>> while the vector is empty
  queueLock,       \* who holds batchTileQueueMutex_
  bpc, bvar,       \* scheduleTileBatch() of each caller: place and locals
  tpc,             \* the decode of each tile
  truncated,       \* tiles with TileProcessor::truncated_
  ppc, pnext,      \* the producer
  cpc, request,    \* the consumer outside wait(swath), and its next request
  futures          \* the tiles TileFutureManager::wait() set out to wait for

batchVars == <<queue, headroom, unscheduled, scheduledRows, rowScheduled, queueLock, bpc, bvar>>
vars == <<completionVars, stream, batchVars, tpc, truncated, ppc, pnext, cpc, request, futures>>

Tlm == stream.tlm             \* cp_.hasTLM(): which of the two producers runs
ParseOrder == stream.order    \* sequential: tiles in the order their parsing ends
Cut == stream.cut             \* ... of these, the one the codestream ends in, if any
Partial == stream.partial     \* tiles with some of their tile parts, when the stream ends
Failing == stream.failing     \* tiles whose header parse, T2 or allocation fails
Rejected == stream.rejected   \* TLM: tiles decompressPrepareWithTLM() refuses
Requests == stream.requests   \* the swaths the consumer waits for, in order
FullWait == stream.full       \* whether it then calls wait(nullptr)

Uint16(n) == n % 65536
HeadroomIncrement(rows, left) == Smaller(Uint16(Width * rows), left)
MaxQueued == Uint16(Width * (MaxRowsAhead + 1))

\* pendingTiles is an ordered set.
Pending == [i \in 1 .. Cardinality(Tiles) |->
              CHOOSE t \in Tiles : LocalIndex(t) = i - 1]

Parsed == {ParseOrder[i] : i \in DOMAIN ParseOrder}
NoLocals == [row |-> 0, cleared |-> 0, allowed |-> 0, needed |-> 0, rows |-> 0, left |-> 0]

-----------------------------------------------------------------------------
\* startSequentialDecompress() sets the counters up before it starts the
\* producer; decompressTLM() does it on the producer thread.
Init ==
  /\ CompletionInit
  /\ stream \in Streams
  /\ queue = <<>> /\ queueLock = NoOne
  /\ unscheduled = IF Tlm THEN 0 ELSE Cardinality(Tiles)
  /\ headroom = IF Tlm THEN 0 ELSE HeadroomIncrement(InitialRows, Cardinality(Tiles))
  /\ scheduledRows = IF Tlm THEN 0 ELSE InitialRows
  /\ rowScheduled = IF Tlm THEN <<>> ELSE [r \in 0 .. GridRows - 1 |-> 0]
  /\ bpc = [c \in Callers |-> "off"] /\ bvar = [c \in Callers |-> NoLocals]
  /\ tpc = [t \in Tiles |-> "idle"] /\ truncated = {}
  /\ ppc = IF Tlm THEN "assign" ELSE "parse"
  /\ pnext = 1
  /\ cpc = "sweep" /\ request = 1 /\ futures = {}

\* schedule(): counts the tile in its row and hands it to the pool.
Schedule(t) ==
  /\ rowScheduled' = IF Row(t) \in DOMAIN rowScheduled
                     THEN [rowScheduled EXCEPT ![Row(t)] = @ + 1] ELSE rowScheduled
  /\ tpc' = IF Tlm /\ t \in Rejected THEN tpc ELSE [tpc EXCEPT ![t] = "run"]

Accepted(t) == ~(Tlm /\ t \in Rejected)

\* complete() by thread c, with the row callback it may owe.
Complete(c, t) ==
  /\ MarkComplete(t)
  /\ IF t \notin completed /\ FiresRow(t)
     THEN /\ bpc' = [bpc EXCEPT ![c] = "row"]
          /\ bvar' = [bvar EXCEPT ![c].row = Row(t)]
     ELSE UNCHANGED <<bpc, bvar>>

Keep(c, locals) == bvar' = [bvar EXCEPT ![c] = locals]   \* the locals still of use
Goto(c, place) == bpc' = [bpc EXCEPT ![c] = place]
Leave(c) == Goto(c, "off") /\ Keep(c, NoLocals)
SameQueue == UNCHANGED <<queue, headroom, unscheduled, scheduledRows, rowScheduled, queueLock>>
SameActors == UNCHANGED <<tpc, truncated, ppc, pnext, cpc, request, futures>>

-----------------------------------------------------------------------------
(* onRowCompleted() and scheduleTileBatch(), called by thread c.           *)

\* scheduleTileBatch() begins by reading where the consumer is.
Begin(c) == Goto(c, "limit") /\ Keep(c, [NoLocals EXCEPT !.cleared = lastCleared])

\* A row too far ahead of the consumer schedules nothing.  Both functions read
\* lastClearedTileY_; it only grows, so the second read stands for the two.
OnRowCompleted(c) ==
  /\ bpc[c] = "row"
  /\ IF bvar[c].row - lastCleared > MaxRowsAhead THEN Leave(c) ELSE Begin(c)
  /\ SameQueue /\ SameActors /\ UNCHANGED completionVars

\* The consumer's need may lift the limit its position sets.
BatchLimit(c) ==
  /\ bpc[c] = "limit"
  /\ Goto(c, "compare")
  /\ Keep(c, [bvar[c] EXCEPT !.needed = needed,
                            !.allowed = Larger(bvar[c].cleared + MaxRowsAhead + 1, needed)])
  /\ SameQueue /\ SameActors /\ UNCHANGED completionVars

BatchCompare(c) ==
  /\ bpc[c] = "compare"
  /\ IF scheduledRows >= bvar[c].allowed
     THEN Goto(c, "rows") /\ Keep(c, [bvar[c] EXCEPT !.allowed = 0])
     ELSE Goto(c, "budget") /\ Keep(c, [NoLocals EXCEPT !.allowed = bvar[c].allowed])
  /\ SameQueue /\ SameActors /\ UNCHANGED completionVars

RowFullyScheduled(r) == r \in DOMAIN rowScheduled => rowScheduled[r] >= Width

BugSwathRowsFullyScheduled(cleared, upto) == TRUE

SwathRowsFullyScheduled(cleared, upto) ==
  \A r \in Larger(cleared + 1, Y0) .. upto - 1 : RowFullyScheduled(r)

\* Past the limit, and yet a tile of a waited row may still be to come.
BatchRows(c) ==
  /\ bpc[c] = "rows"
  /\ IF SwathRowsFullyScheduled(bvar[c].cleared, bvar[c].needed)
     THEN Leave(c)
     ELSE Goto(c, "lock") /\ Keep(c, [NoLocals EXCEPT !.rows = GridRows])
  /\ SameQueue /\ SameActors /\ UNCHANGED completionVars

\* batchTileScheduledRows_ is read a second time; the budget is cut to 16 bits.
BatchBudget(c) ==
  /\ bpc[c] = "budget"
  /\ LET budget == bvar[c].allowed - scheduledRows
     IN Keep(c, [NoLocals EXCEPT !.rows = IF budget < NextRows THEN Uint16(budget) ELSE NextRows])
  /\ Goto(c, "lock")
  /\ SameQueue /\ SameActors /\ UNCHANGED completionVars

\* The lock is taken and the number of tiles settled; with none to hand over,
\* the call is done.
BatchLock(c) ==
  /\ bpc[c] = "lock" /\ queueLock = NoOne
  /\ LET more == HeadroomIncrement(bvar[c].rows, IF Tlm THEN Len(queue) ELSE unscheduled)
     IN /\ headroom' = IF Tlm THEN headroom ELSE headroom + more
        /\ IF queue # <<>> /\ more + headroom > 0
           THEN /\ queueLock' = c
                /\ Goto(c, "drain") /\ Keep(c, [bvar[c] EXCEPT !.left = IF Tlm THEN more ELSE 0])
                /\ UNCHANGED scheduledRows
           ELSE /\ scheduledRows' = scheduledRows + bvar[c].rows
                /\ Leave(c) /\ UNCHANGED queueLock
  /\ SameActors /\ UNCHANGED <<completionVars, queue, unscheduled, rowScheduled>>

MoreToDrain(c) == IF Tlm THEN bvar[c].left > 0 ELSE headroom > 0 /\ queue # <<>>

BugBatchDrain(c) ==
  /\ bpc[c] = "drain" /\ MoreToDrain(c)
  /\ Schedule(Head(queue))
  /\ bvar' = [bvar EXCEPT ![c].left = @ - 1]
  /\ UNCHANGED <<queue, bpc, queueLock, headroom, unscheduled>>
  /\ UNCHANGED <<completionVars, scheduledRows, truncated, ppc, pnext, cpc, request, futures>>

\* One tile leaves the queue for the pool.  A tile the TLM path refuses ends
\* the call, with the rest of its tiles left in the queue.
BatchDrain(c) ==
  /\ bpc[c] = "drain" /\ MoreToDrain(c)
  /\ Schedule(Head(queue))
  /\ queue' = Tail(queue)
  /\ CASE ~Accepted(Head(queue)) -> /\ Leave(c) /\ queueLock' = NoOne
                                    /\ UNCHANGED <<headroom, unscheduled>>
       [] Accepted(Head(queue)) /\ Tlm -> /\ bvar' = [bvar EXCEPT ![c].left = @ - 1]
                                          /\ UNCHANGED <<bpc, queueLock, headroom, unscheduled>>
       [] ~Tlm -> /\ headroom' = headroom - 1 /\ unscheduled' = unscheduled - 1
                  /\ UNCHANGED <<bpc, bvar, queueLock>>
  /\ UNCHANGED <<completionVars, scheduledRows, truncated, ppc, pnext, cpc, request, futures>>

BatchDone(c) ==
  /\ bpc[c] = "drain" /\ ~MoreToDrain(c)
  /\ scheduledRows' = scheduledRows + bvar[c].rows
  /\ queueLock' = NoOne
  /\ Leave(c)
  /\ SameActors /\ UNCHANGED <<completionVars, queue, headroom, unscheduled, rowScheduled>>

BatchStep(c) ==
  \/ OnRowCompleted(c) \/ BatchLimit(c) \/ BatchCompare(c) \/ BatchRows(c)
  \/ BatchBudget(c) \/ BatchLock(c) \/ BatchDrain(c) \/ BatchDone(c)

-----------------------------------------------------------------------------
(* The decode of a tile on the pool.                                       *)

\* Tasks that occupy a thread of the pool.
Busy == {t \in Tiles : tpc[t] = "extracted" \/ bpc[t] # "off"}

\* A failed header parse, T2 or allocation skips the post callback.  T2 overwrites truncated_ with
\* what it found; of interest only where some tile parts are missing.
TaskDecode(t) ==
  /\ tpc[t] = "run" /\ Cardinality(Busy) < Workers
  /\ tpc' = [tpc EXCEPT ![t] = IF t \in Failing THEN "failed" ELSE "extracted"]
  /\ \/ UNCHANGED truncated
     \/ t \in Cut \cup Partial /\ truncated' = truncated \cup {t}
     \/ t \in (Cut \cup Partial) \ Failing /\ truncated' = truncated \ {t}
  /\ UNCHANGED <<completionVars, batchVars, ppc, pnext, cpc, request, futures>>

\* postMultiTile(): the image is extracted and the tile flagged as decoded
\* (the step above); compositing, the user's callback and complete() follow.
TaskPost(t) ==
  /\ tpc[t] = "extracted"
  /\ tpc' = [tpc EXCEPT ![t] = "posted"]
  /\ Complete(t, t)
  /\ SameQueue /\ UNCHANGED <<truncated, ppc, pnext, cpc, request, futures>>

TaskEnded(t) == tpc[t] \in {"posted", "failed"} /\ bpc[t] = "off"

-----------------------------------------------------------------------------
(* decompressTLM(): the producer of a stream with TLM markers.             *)

TlmAssign ==
  /\ ppc = "assign" /\ ppc' = "push"
  /\ rowScheduled' = [r \in 0 .. GridRows - 1 |-> 0]
  /\ UNCHANGED <<completionVars, queue, headroom, unscheduled, scheduledRows, queueLock,
                 bpc, bvar, tpc, truncated, pnext, cpc, request, futures>>

TlmPush ==
  /\ ppc = "push" /\ queueLock = NoOne
  /\ queue' = queue \o Pending
  /\ ppc' = "rows"
  /\ UNCHANGED <<completionVars, headroom, unscheduled, scheduledRows, rowScheduled, queueLock,
                 bpc, bvar, tpc, truncated, pnext, cpc, request, futures>>

TlmRows ==
  /\ ppc = "rows"
  /\ scheduledRows' = InitialRows
  /\ pnext' = HeadroomIncrement(InitialRows, Cardinality(Tiles))
  /\ ppc' = "lock"
  /\ UNCHANGED <<completionVars, queue, headroom, unscheduled, rowScheduled, queueLock,
                 bpc, bvar, tpc, truncated, cpc, request, futures>>

TlmLock ==
  /\ ppc = "lock" /\ queueLock = NoOne
  /\ queueLock' = Producer /\ ppc' = "first"
  /\ UNCHANGED <<completionVars, queue, headroom, unscheduled, scheduledRows, rowScheduled,
                 bpc, bvar, tpc, truncated, pnext, cpc, request, futures>>

\* The first rows; a refused tile ends the producer.
TlmFirst ==
  /\ ppc = "first"
  /\ IF pnext = 0 \/ queue = <<>>
     THEN /\ ppc' = "drained" /\ queueLock' = NoOne
          /\ UNCHANGED <<queue, rowScheduled, tpc, pnext>>
     ELSE /\ Schedule(Head(queue)) /\ queue' = Tail(queue) /\ pnext' = pnext - 1
          /\ IF Accepted(Head(queue)) THEN UNCHANGED <<ppc, queueLock>>
             ELSE ppc' = "done" /\ queueLock' = NoOne
  /\ UNCHANGED <<completionVars, headroom, unscheduled, scheduledRows, bpc, bvar,
                 truncated, cpc, request, futures>>

BugTlmDrained ==
  /\ ppc = "drained"
  /\ ppc' = "done"
  /\ UNCHANGED <<completionVars, batchVars, tpc, truncated, pnext, cpc, request, futures>>

\* Every call that takes tiles from the queue signals batchTileQueueCondition_
\* afterwards, so the wait is a guard.
TlmDrained ==
  /\ ppc = "drained" /\ queueLock = NoOne /\ queue = <<>>
  /\ ppc' = "done"
  /\ UNCHANGED <<completionVars, batchVars, tpc, truncated, pnext, cpc, request, futures>>

-----------------------------------------------------------------------------
(* decompressSequential(): the producer of a stream without them.          *)

BugParseHeadroom ==
  /\ ppc = "parse" /\ pnext <= Len(ParseOrder) /\ queueLock = NoOne
  /\ headroom' = headroom - 1
  /\ IF headroom > 0
     THEN unscheduled' = unscheduled - 1 /\ ppc' = "schedule" /\ UNCHANGED queue
     ELSE queue' = Append(queue, ParseOrder[pnext]) /\ ppc' = "blocked" /\ UNCHANGED unscheduled
  /\ UNCHANGED <<completionVars, scheduledRows, rowScheduled, queueLock, bpc, bvar,
                 tpc, truncated, pnext, cpc, request, futures>>

BugParseCount ==
  /\ ppc = "parse" /\ pnext <= Len(ParseOrder) /\ queueLock = NoOne
  /\ unscheduled' = unscheduled - 1
  /\ IF headroom > 0
     THEN headroom' = headroom - 1 /\ ppc' = "schedule" /\ UNCHANGED queue
     ELSE queue' = Append(queue, ParseOrder[pnext]) /\ ppc' = "blocked" /\ UNCHANGED headroom
  /\ UNCHANGED <<completionVars, scheduledRows, rowScheduled, queueLock, bpc, bvar,
                 tpc, truncated, pnext, cpc, request, futures>>

\* sequentialParseAndSchedule(), once the next tile is parsed.
Parse ==
  /\ ppc = "parse" /\ pnext <= Len(ParseOrder) /\ queueLock = NoOne
  /\ IF headroom > 0
     THEN /\ headroom' = headroom - 1 /\ unscheduled' = unscheduled - 1
          /\ ppc' = "schedule" /\ UNCHANGED queue
     ELSE /\ queue' = Append(queue, ParseOrder[pnext])
          /\ ppc' = "blocked" /\ UNCHANGED <<headroom, unscheduled>>
  /\ UNCHANGED <<completionVars, scheduledRows, rowScheduled, queueLock, bpc, bvar,
                 tpc, truncated, pnext, cpc, request, futures>>

ParseSchedule ==
  /\ ppc = "schedule" /\ ppc' = "parse" /\ pnext' = pnext + 1
  /\ Schedule(ParseOrder[pnext])
  /\ UNCHANGED <<completionVars, queue, headroom, unscheduled, scheduledRows, queueLock,
                 bpc, bvar, truncated, cpc, request, futures>>

\* The parser blocks until the queue has drained.
ParseBlocked ==
  /\ ppc = "blocked" /\ queueLock = NoOne /\ Len(queue) <= MaxQueued
  /\ ppc' = "parse" /\ pnext' = pnext + 1
  /\ UNCHANGED <<completionVars, batchVars, tpc, truncated, cpc, request, futures>>

ParseEnd ==
  /\ ppc = "parse" /\ pnext > Len(ParseOrder)
  /\ ppc' = "best" /\ pnext' = 1
  /\ UNCHANGED <<completionVars, batchVars, tpc, truncated, cpc, request, futures>>

\* The tiles the two closing loops over pendingTiles do something for.
PartialTiles == SelectSeq(Pending, LAMBDA t : t \in Partial)
IncompleteTiles == SelectSeq(Pending, LAMBDA t : t \notin Parsed \ Cut)

\* Tiles with some of their tile parts are scheduled as they are, past the
\* queue and its counters, unless preparing them fails.
BestEffort ==
  /\ ppc = "best"
  /\ IF pnext > Len(PartialTiles)
     THEN ppc' = "finish" /\ pnext' = 1 /\ UNCHANGED <<rowScheduled, tpc, truncated>>
     ELSE LET t == PartialTiles[pnext] IN
          /\ \/ Schedule(t)
             \/ t \in Failing /\ UNCHANGED <<rowScheduled, tpc>>
          /\ truncated' = truncated \cup {t}
          /\ pnext' = pnext + 1 /\ UNCHANGED ppc
  /\ UNCHANGED <<completionVars, queue, headroom, unscheduled, scheduledRows, queueLock,
                 bpc, bvar, cpc, request, futures>>

HasUnparsedTileParts(t) == t \in Cut \cup Partial /\ t \notin truncated

\* Tiles that were never parsed are completed here; so are tiles with tile
\* parts missing, once their future, if they have one, is ready.
FinishTiles ==
  /\ ppc = "finish" /\ bpc[Producer] = "off"
  /\ IF pnext > Len(IncompleteTiles)
     THEN ppc' = "done" /\ UNCHANGED <<completionVars, bpc, bvar, pnext>>
     ELSE LET t == IncompleteTiles[pnext] IN
          /\ pnext' = pnext + 1 /\ UNCHANGED ppc
          /\ CASE t \notin Parsed \cup Partial -> Complete(Producer, t)
               [] HasUnparsedTileParts(t) -> /\ tpc[t] = "idle" \/ TaskEnded(t)
                                             /\ Complete(Producer, t)
               [] OTHER -> UNCHANGED <<completionVars, bpc, bvar>>
  /\ SameQueue /\ UNCHANGED <<tpc, truncated, cpc, request, futures>>

ProducerStep ==
  \/ TlmAssign \/ TlmPush \/ TlmRows \/ TlmLock \/ TlmFirst \/ TlmDrained
  \/ Parse \/ ParseSchedule \/ ParseBlocked \/ ParseEnd \/ BestEffort \/ FinishTiles

-----------------------------------------------------------------------------
(* The consumer: the thread that called decompress().                      *)

\* The end of decompress(): a slated tile already decoded is completed again,
\* for the sake of tiles kept from an earlier call.
Sweep ==
  /\ cpc = "sweep" /\ bpc[Consumer] = "off"
  /\ IF request > Len(Pending)
     THEN cpc' = "swaths" /\ request' = 1 /\ UNCHANGED <<completionVars, bpc, bvar>>
     ELSE LET t == Pending[request] IN
          /\ request' = request + 1 /\ UNCHANGED cpc
          /\ IF tpc[t] \in {"extracted", "posted"} THEN Complete(Consumer, t)
             ELSE UNCHANGED <<completionVars, bpc, bvar>>
  /\ SameQueue /\ UNCHANGED <<tpc, truncated, ppc, pnext, futures>>

\* wait(swath), with scheduleTileBatch() as its rowsReleasedCallback_.
RequestSwath ==
  /\ cpc = "swaths" /\ request <= Len(Requests)
  /\ WaitCall(Requests[request])
  /\ request' = request + 1
  /\ UNCHANGED <<batchVars, tpc, truncated, ppc, pnext, cpc, futures>>

ReleaseCallback ==
  /\ RowsReleased
  /\ Begin(Consumer)
  /\ SameQueue /\ SameActors

\* A wakeup that nobody signalled only matters to TileCompletion on its own: it
\* finds the swath done just where the signal was late.
SwathWait ==
  /\ bpc[Consumer] = "off"
  /\ WaitClear \/ WaitCheck \/ WaitWake \/ Consumed
  /\ UNCHANGED batchVars /\ SameActors

Served == cpc = "swaths" /\ request > Len(Requests) /\ wpc = "idle"

\* wait(nullptr): the throttle is lifted, then the threads are joined and the
\* futures known by then are waited for.
FlushRows ==
  /\ Served
  /\ IF FullWait THEN cpc' = "flush" /\ scheduledRows' = 0
     ELSE cpc' = "done" /\ UNCHANGED scheduledRows
  /\ UNCHANGED <<completionVars, queue, headroom, unscheduled, rowScheduled, queueLock,
                 bpc, bvar, tpc, truncated, ppc, pnext, request, futures>>

FlushCleared ==
  /\ cpc = "flush" /\ cpc' = "join"
  /\ lastCleared' = Int16Max
  /\ Goto(Consumer, "limit") /\ Keep(Consumer, [NoLocals EXCEPT !.cleared = Int16Max])
  /\ SameQueue
  /\ UNCHANGED <<completed, perRow, fired, heap, start, contiguousEnd, waitEnd,
                 currentTileY, needed, released, swath, wpc, notified,
                 tpc, truncated, ppc, pnext, request, futures>>

JoinProducer ==
  /\ cpc = "join" /\ bpc[Consumer] = "off" /\ ppc = "done"
  /\ cpc' = "futures"
  /\ futures' = {t \in Tiles : tpc[t] # "idle"}
  /\ UNCHANGED <<completionVars, batchVars, tpc, truncated, ppc, pnext, request>>

AwaitFutures ==
  /\ cpc = "futures" /\ \A t \in futures : TaskEnded(t)
  /\ cpc' = "done"
  /\ UNCHANGED <<completionVars, batchVars, tpc, truncated, ppc, pnext, request, futures>>

ConsumerStep ==
  \/ Sweep \/ RequestSwath \/ ReleaseCallback \/ SwathWait
  \/ FlushRows \/ FlushCleared \/ JoinProducer \/ AwaitFutures

-----------------------------------------------------------------------------
TaskStep(t) == TaskDecode(t) \/ TaskPost(t)

Progress ==
  /\ \/ \E c \in Callers : BatchStep(c)
     \/ \E t \in Tiles : TaskStep(t)
     \/ ProducerStep
     \/ ConsumerStep
  /\ UNCHANGED stream

Next == Progress

\* While a thread or a pool task can run, one of them does.  No step can be
\* taken for ever, so nothing more is needed for all of them to have run.
Fairness == WF_vars(Progress)

Spec == Init /\ [][Next]_vars /\ Fairness

-----------------------------------------------------------------------------
Handed(t) == tpc[t] # "idle"
InQueue(t) == \E i \in DOMAIN queue : queue[i] = t

\* The state stays within its types; the counters of tiles never go below zero.
TypeOK ==
  /\ CompletionTypeOK
  /\ headroom \in Nat /\ unscheduled \in Nat /\ scheduledRows \in Nat
  /\ queueLock \in Callers \cup {NoOne}
  /\ \A r \in DOMAIN rowScheduled : rowScheduled[r] \in 0 .. Width
  /\ \A c \in Callers : bpc[c] \in {"off", "row", "limit", "compare", "rows", "budget", "lock", "drain"}
  /\ tpc \in [Tiles -> {"idle", "run", "extracted", "posted", "failed"}]

\* A tile is scheduled once: it is never in the queue twice, nor in the queue
\* and with the pool at the same time, whoever drains the queue.
ScheduledOnce ==
  \A i, j \in DOMAIN queue : ~Handed(queue[i]) /\ (queue[i] = queue[j] => i = j)

\* The sequential counter of unscheduled tiles counts exactly the tiles that
\* no call has taken from the parser or the queue yet.
UnscheduledExact ==
  ~Tlm /\ queueLock = NoOne =>
    unscheduled + (IF ppc = "schedule" THEN 1 ELSE 0)
      = Cardinality({t \in Tiles : ~Handed(t) \/ t \in Partial})


\* "Tiles that WERE parsed are still being decompressed asynchronously and must
\* not be completed here": a tile is not completed, and so up for release, while
\* it waits in the queue to be decoded.
NotCompletedInQueue == \A t \in completed : ~InQueue(t)

\* No tile is completed, and so up for release, while its own task still
\* works on it.
CompletedWhenDone == \A t \in completed : tpc[t] \notin {"run", "extracted"}

\* "We allow up to maxRowsAhead_ rows beyond what the consumer has cleared",
\* or as far as it waits for.
WindowKept ==
  \A t \in Tiles : Handed(t) => Row(t) < Larger(lastCleared + MaxRowsAhead + 1, needed)

\* wait(nullptr) "waits for the entire decompression to complete": when it
\* returns, no tile is still queued or with the pool.
FullWaitComplete == (FullWait /\ cpc = "done") => \A t \in Tiles : TaskEnded(t)

\* Every wait of the consumer returns.
ConsumerServed == <>(cpc = "done")

\* A tile handed to the pool is completed, whether or not its decode fails.
HandedCompletes == \A t \in Tiles : Handed(t) ~> (t \in completed)
=============================================================================
