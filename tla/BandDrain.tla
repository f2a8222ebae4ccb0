----------------------------- MODULE BandDrain ------------------------------
(***************************************************************************)
(* Writing an image band by band while it is decoded: decompress() with a  *)
(* band callback (codestream/decompress/CodeStreamDecompress.cpp).  Tiles  *)
(* complete in any order; the row callback of the tracker queues the row,  *)
(* and whoever holds bandOrderMutex_ composites the rows that are due into *)
(* a strip buffer, hands them to the sink and releases their tiles.  The   *)
(* parser waits for the rows it is too far ahead of.                       *)
(*                                                                         *)
(* A tracker serves either bands or swaths, never both: `use' says which.  *)
(* The threads are the pool's, named after the tile they decode, the       *)
(* parser and the caller of decompress().                                  *)
(***************************************************************************)
EXTENDS TileCompletion

CONSTANTS
  Streams      \* codestreams, each a record of
               \*   order     the tiles parsed completely, in their order
               \*   partial   tiles with some of their parts, when the stream ends
               \*   tlm       has it a TLM index?
               \*   refused   tiles the TLM path refuses
               \*   failing   tiles with a stage that fails
               \*   bad       does it end with an invalid marker?
               \*   huge      is there no memory for the strip buffer?
               \*   empty     rows without a sample after reduction
               \*   rejected  rows the sink fails to write

VARIABLES
  use, stream,
  nextBand, pending,    \* nextBandTileY_, and the rows of pendingBands_
  rowScheduled,         \* bandRowScheduledTiles_
  scratch, strip,       \* scratchDataAllocated_; the row each column of the buffer is of
  success,              \* success_
  written,              \* the bands the sink got
  freed,                \* tiles released by the drain
  tpc, truncated,       \* the decode of each tile; those with truncated_
  ppc, pnext,           \* the parser
  cpc, swept,           \* the caller
  holder, owed          \* of bandOrderMutex_ in the drain; the row callback a thread is in

bandVars == <<nextBand, pending, rowScheduled, scratch, strip, success, written, freed>>
threadVars == <<tpc, truncated, ppc, pnext, cpc, swept>>
vars == <<completionVars, use, stream, bandVars, threadVars, holder, owed>>

Parser == -1
Caller == -2
NoOne == -3
NoRow == -1
Threads == Tiles \cup {Parser, Caller}

Columns == X0 .. X1 - 1
Pending == [i \in 1 .. Cardinality(Tiles) |-> CHOOSE t \in Tiles : LocalIndex(t) = i - 1]

Init ==
  /\ CompletionInit
  /\ use \in {"swaths", "bands"}
  /\ stream \in IF use = "bands" THEN Streams ELSE {CHOOSE s \in Streams : TRUE}
  /\ nextBand = Y0 /\ pending = {}
  /\ rowScheduled = [r \in 0 .. GridRows - 1 |-> 0]
  /\ scratch = FALSE /\ strip = [c \in Columns |-> NoRow]
  /\ success = TRUE /\ written = <<>> /\ freed = {}
  /\ tpc = [t \in Tiles |-> "idle"] /\ truncated = {}
  /\ ppc = "parse" /\ pnext = 1 /\ cpc = "sweep" /\ swept = 1
  /\ holder = NoOne /\ owed = [th \in Threads |-> NoRow]

Free(th) == owed[th] = NoRow

\* complete(), by thread th: with the row's last tile it goes on into the row
\* callback, outside the tracker's mutex.
Complete(th, t) ==
  /\ MarkComplete(t)
  /\ owed' = IF t \notin completed /\ FiresRow(t) THEN [owed EXCEPT ![th] = Row(t)] ELSE owed

-----------------------------------------------------------------------------
(* The row callback.                                                       *)

EnterDrain(th) ==
  /\ ~Free(th) /\ holder = NoOne
  /\ holder' = th
  /\ pending' = pending \cup {owed[th]}
  /\ UNCHANGED <<completionVars, nextBand, rowScheduled, scratch, strip, success, written,
                 freed, threadVars, owed>>

HasImage(t) == tpc[t] \in {"extracted", "posted"}

BugBandReady(r) == r \in pending
BandReady(r) == r = nextBand /\ r \in pending

\* The row is composited, written, and its tiles released.  Without a strip
\* buffer no tile was decoded, and the decode fails.
WriteBand(r) ==
  /\ IF scratch
     THEN /\ strip' = [c \in Columns |->
                         IF \E t \in RowTiles(r) : Col(t) = c /\ HasImage(t) THEN r ELSE strip[c]]
          /\ written' = Append(written, [row |-> r, columns |-> strip'])
          /\ success' = (success /\ r \notin stream.rejected)
     ELSE success' = FALSE /\ UNCHANGED <<strip, written>>
  /\ freed' = freed \cup RowTiles(r)

DrainBand(r) ==
  /\ holder # NoOne /\ BandReady(r)
  /\ IF r \in stream.empty THEN UNCHANGED <<strip, written, success, freed>> ELSE WriteBand(r)
  /\ pending' = pending \ {r}
  /\ nextBand' = nextBand + 1
  /\ UNCHANGED <<completionVars, rowScheduled, scratch, threadVars, holder, owed>>

LeaveDrain ==
  /\ holder # NoOne /\ \A r \in TileRows : ~BandReady(r)
  /\ holder' = NoOne
  /\ owed' = [owed EXCEPT ![holder] = NoRow]
  /\ UNCHANGED <<completionVars, bandVars, threadVars>>

Drain == (\E th \in Threads : EnterDrain(th)) \/ (\E r \in TileRows : DrainBand(r)) \/ LeaveDrain

-----------------------------------------------------------------------------
(* The parser.                                                             *)

RowFullyScheduled(r) == r >= GridRows \/ rowScheduled[r] >= Width

BugMaySchedule(r) == r < nextBand + 2 \/ ~success

\* Back-pressure.  The wait is timed, so its condition is a guard.  Tile parts
\* come in any order: a row not yet fully scheduled is only finished by parsing on.
MaySchedule(r) == r < nextBand + 2 \/ ~success \/ ~RowFullyScheduled(nextBand)

Schedule(t) ==
  /\ holder = NoOne
  /\ rowScheduled' = [rowScheduled EXCEPT ![Row(t)] = @ + 1]
  /\ tpc' = IF t \in stream.refused THEN tpc ELSE [tpc EXCEPT ![t] = "running"]
  /\ UNCHANGED <<nextBand, pending, scratch, strip, success, written, freed>>

\* A refused tile ends the walk along the index.
ParseTile ==
  /\ ppc = "parse" /\ pnext <= Len(stream.order)
  /\ LET t == stream.order[pnext] IN
     /\ MaySchedule(Row(t))
     /\ Schedule(t)
     /\ ppc' = IF t \in stream.refused THEN "end" ELSE "parse"
  /\ pnext' = pnext + 1
  /\ UNCHANGED <<completionVars, truncated, cpc, swept, holder, owed>>

ParseEnd ==
  /\ ppc = "parse" /\ pnext > Len(stream.order)
  /\ ppc' = IF stream.tlm THEN "end" ELSE "partial"
  /\ pnext' = 1
  /\ success' = (success /\ ~stream.bad)
  /\ UNCHANGED <<completionVars, nextBand, pending, rowScheduled, scratch, strip, written, freed,
                 tpc, truncated, cpc, swept, holder, owed>>

\* Best effort: tiles with some of their parts are scheduled too, in order,
\* unless preparing them fails.
BestEffort ==
  /\ ppc = "partial"
  /\ LET todo == {t \in stream.partial : tpc[t] = "idle"} IN
     IF todo = {} THEN ppc' = "finish" /\ UNCHANGED <<bandVars, tpc, truncated>>
     ELSE LET t == CHOOSE t \in todo : \A u \in todo : t <= u IN
          /\ \/ Schedule(t)
             \/ /\ t \in stream.failing
                /\ tpc' = [tpc EXCEPT ![t] = "failed"]
                /\ UNCHANGED bandVars
          /\ truncated' = truncated \cup {t}
          /\ UNCHANGED ppc
  /\ UNCHANGED <<completionVars, pnext, cpc, swept, holder, owed>>

Missing(t) == t \notin stream.partial /\ \A i \in DOMAIN stream.order : stream.order[i] # t
HasUnparsedTileParts(t) == t \in stream.partial \ truncated
TaskEnded(t) == tpc[t] \in {"posted", "void", "failed"} /\ Free(t)

BugAwaited(t) == TRUE
\* The future of a tile the parser is to complete is waited for first.
Awaited(t) == HasUnparsedTileParts(t) => TaskEnded(t)

\* Tiles that never came are completed, and best-effort tiles once more.
FinishTile ==
  /\ ppc = "finish" /\ pnext <= Len(Pending) /\ Free(Parser)
  /\ LET t == Pending[pnext] IN
     /\ Awaited(t)
     /\ IF Missing(t) \/ HasUnparsedTileParts(t) THEN Complete(Parser, t)
        ELSE UNCHANGED <<completionVars, owed>>
  /\ pnext' = pnext + 1
  /\ UNCHANGED <<bandVars, tpc, truncated, ppc, cpc, swept, holder>>

FinishEnd ==
  /\ ppc = "finish" /\ pnext > Len(Pending) /\ Free(Parser)
  /\ ppc' = "end"
  /\ UNCHANGED <<completionVars, bandVars, tpc, truncated, pnext, cpc, swept, holder, owed>>

ParserStep == ParseTile \/ ParseEnd \/ BestEffort \/ FinishTile \/ FinishEnd

-----------------------------------------------------------------------------
(* The pool.                                                               *)

\* T2 overwrites truncated_ with what it found, before the blocks are decoded.
TaskT2(t) ==
  /\ tpc[t] = "running" /\ t \in truncated
  /\ truncated' = truncated \ {t}
  /\ UNCHANGED <<completionVars, bandVars, tpc, ppc, pnext, cpc, swept, holder, owed>>

\* A failed stage skips the post callback.  In a decode that has failed, or that
\* fails for want of a strip buffer, the tile's image is not extracted.
TaskDecode(t) ==
  /\ tpc[t] = "running"
  /\ tpc' = [tpc EXCEPT ![t] = IF t \in stream.failing THEN "failed"
                               ELSE IF success /\ ~stream.huge THEN "extracted"
                               ELSE "skipped"]
  /\ scratch' = (scratch \/ tpc'[t] = "extracted")
  /\ success' = (success /\ tpc'[t] # "skipped")
  /\ UNCHANGED <<completionVars, nextBand, pending, rowScheduled, strip, written, freed, truncated,
                 ppc, pnext, cpc, swept, holder, owed>>

TaskPost(t) ==
  /\ tpc[t] \in {"extracted", "skipped"}
  /\ tpc' = [tpc EXCEPT ![t] = IF @ = "extracted" THEN "posted" ELSE "void"]
  /\ Complete(t, t)
  /\ UNCHANGED <<bandVars, truncated, ppc, pnext, cpc, swept, holder>>

-----------------------------------------------------------------------------
(* The caller: the sweep at the end of decompress(), then wait(nullptr).   *)

\* A tile decoded already is completed, for the sake of those kept from before.
Sweep ==
  /\ cpc = "sweep" /\ swept <= Len(Pending) /\ Free(Caller)
  /\ LET t == Pending[swept] IN
     IF HasImage(t) THEN Complete(Caller, t) ELSE UNCHANGED <<completionVars, owed>>
  /\ swept' = swept + 1
  /\ UNCHANGED <<bandVars, tpc, truncated, ppc, pnext, cpc, holder>>

Int16Max == 32767

FullWait ==
  /\ cpc = "sweep" /\ swept > Len(Pending) /\ Free(Caller)
  /\ cpc' = "join"
  /\ lastCleared' = Int16Max
  /\ UNCHANGED <<completed, perRow, fired, heap, start, contiguousEnd, waitEnd, currentTileY,
                 needed, released, swath, wpc, notified>>
  /\ UNCHANGED <<bandVars, tpc, truncated, ppc, pnext, swept, holder, owed>>

JoinParser ==
  /\ cpc = "join" /\ ppc = "end"
  /\ cpc' = "futures"
  /\ UNCHANGED <<completionVars, bandVars, tpc, truncated, ppc, pnext, swept, holder, owed>>

\* cancelAll(), when the decode has failed: what has not run need not.
Cancelled(t) ==
  /\ cpc = "futures" /\ ~success /\ tpc[t] = "running"
  /\ tpc' = [tpc EXCEPT ![t] = "failed"]
  /\ UNCHANGED <<completionVars, bandVars, truncated, ppc, pnext, cpc, swept, holder, owed>>

AwaitFutures ==
  /\ cpc = "futures" /\ \A t \in Tiles : tpc[t] = "idle" \/ TaskEnded(t)
  /\ cpc' = "returned"
  /\ UNCHANGED <<completionVars, bandVars, tpc, truncated, ppc, pnext, swept, holder, owed>>

CallerStep == Sweep \/ FullWait \/ JoinParser \/ AwaitFutures

-----------------------------------------------------------------------------
BandStep ==
  /\ use = "bands"
  /\ Drain \/ ParserStep \/ CallerStep
     \/ \E t \in Tiles : TaskT2(t) \/ TaskDecode(t) \/ TaskPost(t) \/ Cancelled(t)
  /\ UNCHANGED <<use, stream>>

SameBands == UNCHANGED <<use, stream, bandVars, threadVars, holder, owed>>

Next == BandStep \/ (use = "swaths" /\ CompletionNext /\ SameBands)

\* While a thread or a task can go on, one of them does; none can for ever.  A
\* tracker on its own is driven as CompletionFairness says.
Fairness ==
  /\ WF_vars(BandStep)
  /\ \A t \in Tiles : WF_vars(use = "swaths" /\ MarkComplete(t) /\ SameBands)
  /\ WF_vars(use = "swaths" /\ WaitStep /\ SameBands)

Spec == Init /\ [][Next]_vars /\ Fairness

-----------------------------------------------------------------------------
\* The sink gets the rows from the top, none twice and none left out while the
\* decode is good.  A band holds the row's own samples wherever a tile of it was
\* decoded, and no tile is released under the tasks that still decode it.
BandsIntact ==
  /\ \A i \in 1 .. Len(written) - 1 : written[i].row < written[i + 1].row
  /\ success => {written[i].row : i \in DOMAIN written} = (Y0 .. nextBand - 1) \ stream.empty
  /\ \A i \in DOMAIN written : \A t \in RowTiles(written[i].row) :
       HasImage(t) => written[i].columns[Col(t)] = written[i].row
  /\ \A t \in freed : tpc[t] # "running"

\* decompress() returns, and unless it failed or lost a tile every row was written.
BandsFinish ==
  (use = "bands") ~>
    (cpc = "returned" /\ (success /\ stream.failing \cup stream.refused = {} => nextBand = Y1))
=============================================================================
