----------------------------- MODULE FetchWorker ----------------------------
(***************************************************************************)
(* The network fetcher's worker thread, on the path that fetches tiles     *)
(* (stream/fetchers/CurlFetcher.cpp, FetchCommon.h and TPFetchSeq.h).      *)
(*                                                                         *)
(* A caller queues jobs; the worker opens byte-range requests in batches,  *)
(* drives them through curl's multi interface and retries failed ones.  A  *)
(* tile part is handed over from curl's write callback, as soon as its     *)
(* last byte is in: curl's verdict on the transfer comes later.            *)
(*                                                                         *)
(* Request <<j, i>> is the one for the i-th tile part of job j, and asks   *)
(* for its range unless an earlier one could not be opened.  A body        *)
(* arrives in BodyChunks pieces.  Polls that find nothing new are left out: perform   *)
(* returns when there is something to do, which every open request will    *)
(* see to, for each has a timeout.                                         *)
(***************************************************************************)
EXTENDS Integers, Sequences, FiniteSets

CONSTANTS
  Ranges,        \* of each job: the tile of each range, in file order
  BatchSize,     \* batchSize_
  MaxRetries,    \* maxRetries_
  BodyChunks,
  Faults,        \* how often the transfers of a request may fail, where they may at all
  Clipped,       \* tile parts whose range passes the end of the file
  Excess,        \* requests whose response has a piece too many
  AddFails,      \* pairs of a tile part and an attempt that curl_multi_add_handle() refuses
  LateDone,      \* curl may report the end of a transfer in a later round than its last byte
  LateError,     \* ... and may report an error then
  MultiErrors    \* jobs during which curl_multi_perform() itself may fail

ASSUME FetchAssumption ==
  /\ BatchSize \in Nat \ {0} /\ BodyChunks \in Nat \ {0}
  /\ MaxRetries \in Nat

Jobs == DOMAIN Ranges
RequestsOf(j) == {j} \X DOMAIN Ranges[j]
AllRequests == UNION {RequestsOf(j) : j \in Jobs}
TileOf(r) == Ranges[r[1]][r[2]]
TilesOf(j) == {TileOf(r) : r \in RequestsOf(j)}
PartsOf(j, t) == {r \in RequestsOf(j) : TileOf(r) = t}

VARIABLES
  jobQueue,              \* tile_fetch_queue_
  answer,                \* of each job: what its promise holds
  activeJobs,            \* active_jobs_
  current,               \* currentFetch_: the job it is for, the ranges taken from
                         \* requests_, scheduled_ and completed_
  handles,               \* active_handles_
  wire,                  \* curl's view of a request
  source,                \* the range a request asks for
  offset,                \* TPFetch::fetchOffset_, in pieces; one more when a piece was too many
  retries,               \* FetchResult::retryCount_
  fetchCount,            \* TPFetchSeq::fetchCount_, by job and tile
  completeCount,         \* TileFetchContext::completeCount_, by job
  running,               \* still_running
  stop, fpc              \* stop_, and the worker's place

workerVars == <<jobQueue, answer, activeJobs, current, handles, wire, source, offset,
                retries, fetchCount, completeCount, running, stop, fpc>>

WorkerInit ==
  /\ jobQueue = <<>> /\ activeJobs = {} /\ handles = {}
  /\ answer = [j \in Jobs |-> "none"]
  /\ current = [job |-> 0, next |-> 0, scheduled |-> 0, completed |-> 0]
  /\ wire = [r \in AllRequests |-> "closed"]
  /\ source = [r \in AllRequests |-> r[2]]
  /\ offset = [r \in AllRequests |-> 0]
  /\ retries = [r \in AllRequests |-> 0]
  /\ fetchCount = [j \in Jobs |-> [t \in TilesOf(j) |-> 0]]
  /\ completeCount = [j \in Jobs |-> 0]
  /\ running = 0 /\ stop = FALSE /\ fpc = "top"

\* fetchTiles(), on the caller's thread.
FetchTiles(j) ==
  /\ jobQueue' = Append(jobQueue, j)
  /\ answer' = [answer EXCEPT ![j] = "pending"]
  /\ UNCHANGED <<activeJobs, current, handles, wire, source, offset, retries, fetchCount,
                 completeCount, running, stop, fpc>>

-----------------------------------------------------------------------------
(* Batches.                                                                *)

HasMore(c) == c.job # 0 /\ c.next < Len(Ranges[c.job])

\* In size_t: with more completions than requests the difference wraps round,
\* and nothing is left of the batch.
RemainingBatch(c) ==
  IF c.scheduled >= c.completed /\ BatchSize > c.scheduled - c.completed
  THEN BatchSize - (c.scheduled - c.completed) ELSE 0

\* scheduleNextBatch(): how many ranges of c it takes, the throttle being open or not.
ToSchedule(c, open) ==
  LET left == IF HasMore(c) THEN Len(Ranges[c.job]) - c.next ELSE 0
  IN IF ~open THEN 0 ELSE IF RemainingBatch(c) < left THEN RemainingBatch(c) ELSE left

\* Of these, the ones it opens: it returns false at the first one curl refuses.
Opened(c, open) ==
  {i \in c.next + 1 .. c.next + ToSchedule(c, open) :
     \A k \in c.next + 1 .. i : <<<<c.job, k>>, 0>> \notin AddFails}
AllOpened(c, open) == Cardinality(Opened(c, open)) = ToSchedule(c, open)

\* currentFetch_ is c, and its next ranges are requested for its next tile parts;
\* base is what curl has already.  A range that is refused has been taken and is
\* not asked for again.
OpenBatch(c, open, baseWire, baseHandles) ==
  LET n == Cardinality(Opened(c, open))
      new == {<<c.job, i>> : i \in c.scheduled + 1 .. c.scheduled + n}
  IN /\ current' = [c EXCEPT !.next = @ + n + (IF AllOpened(c, open) THEN 0 ELSE 1),
                             !.scheduled = @ + n]
     /\ wire' = [r \in AllRequests |-> IF r \in new THEN "open" ELSE baseWire[r]]
     /\ source' = [r \in AllRequests |->
                     IF r \in new THEN r[2] + c.next - c.scheduled ELSE source[r]]
     /\ handles' = baseHandles \cup new

\* One queued job is taken over; the job scheduled before it, if it is not
\* through, gets no more requests.  A job of which curl refuses a request fails
\* at once, and those it has opened stay open.
TakeJob(open) ==
  LET j == Head(jobQueue)
      c == [job |-> j, next |-> 0, scheduled |-> 0, completed |-> 0]
  IN /\ fpc = "top" /\ ~stop /\ jobQueue # <<>>
     /\ jobQueue' = Tail(jobQueue)
     /\ OpenBatch(c, open, wire, handles)
     /\ IF AllOpened(c, open) THEN activeJobs' = activeJobs \cup {j} /\ UNCHANGED answer
        ELSE answer' = [answer EXCEPT ![j] = "false"] /\ UNCHANGED activeJobs
     /\ UNCHANGED <<offset, retries, fetchCount, completeCount, running, stop, fpc>>

Drained ==
  /\ fpc = "top" /\ ~stop /\ jobQueue = <<>>
  /\ fpc' = "perform"
  /\ UNCHANGED <<jobQueue, answer, activeJobs, current, handles, wire, source, offset, retries,
                 fetchCount, completeCount, running, stop>>

-----------------------------------------------------------------------------
(* curl_multi_perform().                                                   *)

Available(r) ==
  BodyChunks - (IF <<r[1], source[r]>> \in Clipped THEN 1 ELSE 0) + (IF r \in Excess THEN 1 ELSE 0)

BugAnswer(j, value) ==
  /\ answer' = [answer EXCEPT ![j] = value]
  /\ activeJobs' = activeJobs \ {j}

\* onFetchTilesComplete(): the first answer counts, the job is then forgotten.
Answer(j, value) ==
  /\ answer' = IF j \in activeJobs THEN [answer EXCEPT ![j] = value] ELSE answer
  /\ activeJobs' = activeJobs \ {j}

BugCompletesTile(r) == fetchCount[r[1]][TileOf(r)] + 1 = Cardinality(PartsOf(r[1], TileOf(r)))

\* The caller's callback counts the tile's parts; with the last the tile is whole.
CompletesTile(r) ==
  /\ offset[r] + 1 >= BodyChunks
  /\ fetchCount[r[1]][TileOf(r)] + 1 = Cardinality(PartsOf(r[1], TileOf(r)))

\* tileWriteCallback(): a piece of the body is copied, unless there is no room
\* for it.  With the last one, and with every one after it, the part goes to the
\* caller's callback and is counted.
Receive(r) ==
  /\ fpc = "perform" /\ wire[r] = "open" /\ offset[r] < Available(r)
  /\ offset' = [offset EXCEPT ![r] = @ + 1]
  /\ IF offset[r] + 1 >= BodyChunks
     THEN /\ fetchCount' = [fetchCount EXCEPT ![r[1]][TileOf(r)] = @ + 1]
          /\ completeCount' = [completeCount EXCEPT ![r[1]] = @ + 1]
          /\ IF completeCount[r[1]] + 1 = Len(Ranges[r[1]]) THEN Answer(r[1], "true")
             ELSE UNCHANGED <<answer, activeJobs>>
     ELSE UNCHANGED <<fetchCount, completeCount, answer, activeJobs>>
  /\ UNCHANGED <<jobQueue, current, handles, wire, source, retries, running, stop, fpc>>

\* The transfer ends: whole, or broken off or refused by the server.
Finish(r) ==
  /\ fpc = "perform" /\ wire[r] = "open"
  /\ \/ offset[r] = Available(r) /\ wire' = [wire EXCEPT ![r] = "succeeded"]
     \/ /\ r \in DOMAIN Faults /\ retries[r] < Faults[r] /\ (offset[r] < BodyChunks \/ LateError)
        /\ wire' = [wire EXCEPT ![r] = "failed"]
  /\ UNCHANGED <<jobQueue, answer, activeJobs, current, handles, source, offset, retries, fetchCount,
                 completeCount, running, stop, fpc>>

Open == {r \in AllRequests : wire[r] = "open"}
Done == {r \in AllRequests : wire[r] \in {"succeeded", "failed"}}

PerformReturns ==
  /\ fpc = "perform"
  /\ Done # {} \/ Open = {} \/ jobQueue # <<>> \/ stop
  /\ LateDone \/ \A r \in Open : offset[r] < Available(r)
  /\ running' = Cardinality(Open)
  /\ fpc' = "messages"
  /\ UNCHANGED <<jobQueue, answer, activeJobs, current, handles, wire, source, offset, retries,
                 fetchCount, completeCount, stop>>

\* curl_multi_perform() fails: every active job does, and all handles are dropped.
PerformError ==
  /\ fpc = "perform" /\ Open # {} /\ current.job \in MultiErrors
  /\ answer' = [j \in Jobs |-> IF j \in activeJobs THEN "false" ELSE answer[j]]
  /\ activeJobs' = {} /\ handles' = {}
  /\ wire' = [r \in AllRequests |-> IF r \in handles THEN "closed" ELSE wire[r]]
  /\ fpc' = "top"
  /\ UNCHANGED <<jobQueue, current, source, offset, retries, fetchCount, completeCount, running, stop>>

-----------------------------------------------------------------------------
(* The messages curl left, one per finished transfer.                      *)

ShouldRetry(r) == wire[r] = "failed" /\ retries[r] < MaxRetries

\* retryRequest(): the body is received anew, from its start; the request does
\* not count as completed.  When curl refuses it the job fails.
Retry(r) ==
  /\ fpc = "messages" /\ ShouldRetry(r)
  /\ retries' = [retries EXCEPT ![r] = @ + 1]
  /\ offset' = [offset EXCEPT ![r] = 0]
  /\ source' = [source EXCEPT ![r] = r[2]]
  /\ IF <<r, retries'[r]>> \in AddFails
     THEN /\ wire' = [wire EXCEPT ![r] = "closed"] /\ handles' = handles \ {r}
          /\ Answer(r[1], "false")
     ELSE /\ wire' = [wire EXCEPT ![r] = "open"]
          /\ UNCHANGED <<handles, answer, activeJobs>>
  /\ UNCHANGED <<jobQueue, current, fetchCount, completeCount, running, stop, fpc>>

BugComplete(r, open) ==
  /\ fpc = "messages" /\ r \in Done /\ ~ShouldRetry(r)
  /\ IF wire[r] = "failed" THEN Answer(r[1], "false") ELSE UNCHANGED <<answer, activeJobs>>
  /\ OpenBatch(current, open, [wire EXCEPT ![r] = "closed"], handles \ {r})
  /\ UNCHANGED <<jobQueue, offset, retries, fetchCount, completeCount, running, stop, fpc>>

\* A request is over; whichever job it was of, it counts for the current one.
\* With half a batch completed the next requests are opened.
Complete(r, open) ==
  /\ fpc = "messages" /\ r \in Done /\ ~ShouldRetry(r)
  /\ IF wire[r] = "failed" THEN Answer(r[1], "false") ELSE UNCHANGED <<answer, activeJobs>>
  /\ LET c == [current EXCEPT !.completed = @ + 1]
         refill == c.scheduled > c.completed /\ c.completed >= BatchSize \div 2
     IN OpenBatch(c, open /\ refill, [wire EXCEPT ![r] = "closed"], handles \ {r})
  /\ UNCHANGED <<jobQueue, offset, retries, fetchCount, completeCount, running, stop, fpc>>

BugSettle(open) ==
  /\ fpc = "messages" /\ Done = {}
  /\ IF running > 0 THEN UNCHANGED <<current, wire, source, handles>>
     ELSE /\ activeJobs = {} /\ handles = {} => stop \/ jobQueue # <<>>
          /\ UNCHANGED <<current, wire, source, handles>>
  /\ fpc' = "top"
  /\ UNCHANGED <<jobQueue, answer, activeJobs, offset, retries, fetchCount, completeCount,
                 running, stop>>

\* All messages are read.  With nothing in flight a throttled fetch is resumed,
\* or its consumer waited for: 100 ms at a time, so the wait is a guard.  With
\* nothing to do at all the worker waits for a job; the condition variable is
\* signalled after every change of what it waits for.
Settle(open) ==
  /\ fpc = "messages" /\ Done = {}
  /\ IF running > 0 THEN UNCHANGED <<current, wire, source, handles>>
     ELSE /\ OpenBatch(current, open, wire, handles)
          /\ handles' = {} /\ (activeJobs = {} \/ (HasMore(current) /\ ~open))
               => stop \/ jobQueue # <<>>
  /\ fpc' = "top"
  /\ UNCHANGED <<jobQueue, answer, activeJobs, offset, retries, fetchCount, completeCount,
                 running, stop>>

-----------------------------------------------------------------------------
(* Shutdown.                                                               *)

\* stopWorker(): the caller then joins the thread.
StopWorker ==
  /\ stop' = TRUE
  /\ UNCHANGED <<jobQueue, answer, activeJobs, current, handles, wire, source, offset, retries,
                 fetchCount, completeCount, running, fpc>>

\* Jobs still active fail; a job still queued has its promise broken.
Exit ==
  /\ fpc = "top" /\ stop
  /\ answer' = [j \in Jobs |-> IF j \in activeJobs THEN "false" ELSE answer[j]]
  /\ activeJobs' = {} /\ handles' = {}
  /\ wire' = [r \in AllRequests |-> "closed"]
  /\ fpc' = "exited"
  /\ UNCHANGED <<jobQueue, current, source, offset, retries, fetchCount, completeCount, running,
                 stop>>

\* What the worker does outside curl_multi_perform().
WorkerStep(open) ==
  \/ TakeJob(open) \/ Drained \/ PerformReturns \/ PerformError
  \/ \E r \in Done : Retry(r) \/ Complete(r, open)
  \/ Settle(open) \/ Exit
=============================================================================
