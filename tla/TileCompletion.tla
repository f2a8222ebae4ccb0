--------------------------- MODULE TileCompletion ---------------------------
(***************************************************************************)
(* The tracker an asynchronous decode keeps of its tiles                   *)
(* (tile_processor/TileCompletion.h, with SimpleHeap of util/MinHeap.h).   *)
(*                                                                         *)
(* Worker threads call complete(tile) in any order.  One caller, the       *)
(* consumer, calls wait(swath): it releases the tile rows above the swath, *)
(* invites the scheduler to go on, and sleeps on a condition variable      *)
(* until the tiles of the swath are completed.                             *)
(*                                                                         *)
(* A critical section of mutex_ is one action.  Tiles are indices of the   *)
(* whole grid, GridCols wide; the tracker covers the half-open rectangle   *)
(* [X0,X1) x [Y0,Y1) of it.  Pixels are relative to the grid's origin.     *)
(***************************************************************************)
EXTENDS Integers, Sequences, FiniteSets

CONSTANTS
  GridCols, GridRows,      \* numTileCols_, numTileRows_
  X0, X1, Y0, Y1,          \* the subregion: tileX0_, tileX1_, tileY0_, tileY1_
  TileWidth, TileHeight,   \* in pixels
  Swaths                   \* what the consumer may ask for, in pixels

ASSUME GridAssumption ==
  /\ {GridCols, GridRows, TileWidth, TileHeight} \subseteq Nat \ {0}
  /\ {X0, X1, Y0, Y1} \subseteq Nat
  /\ X0 < X1 /\ X1 <= GridCols /\ Y0 < Y1 /\ Y1 <= GridRows

VARIABLES
  completed,      \* completedTiles_
  perRow,         \* completedTilesPerRow_, by row of the grid
  fired,          \* how often rowCallback_ was called, by row
  heap, start,    \* heap_: the indices held back, and the next one expected
  contiguousEnd,  \* localContiguousEnd_
  waitEnd,        \* localWaitEnd_
  currentTileY, lastCleared, needed,
  released,       \* tiles handed to TileCache::releaseForSwath
  swath,          \* the tile rectangle of the current wait()
  wpc,            \* where the consumer is in wait()
  notified        \* completionCV_ was signalled since the consumer fell asleep

completionVars == <<completed, perRow, fired, heap, start, contiguousEnd, waitEnd,
                    currentTileY, lastCleared, needed, released, swath, wpc, notified>>

Width == X1 - X0
Col(t) == t % GridCols
Row(t) == t \div GridCols
Tiles == {t \in 0 .. GridCols * GridRows - 1 : Col(t) \in X0 .. X1 - 1 /\ Row(t) \in Y0 .. Y1 - 1}
TileRows == Y0 .. Y1 - 1
RowTiles(r) == {t \in Tiles : Row(t) = r}
LocalIndex(t) == (Row(t) - Y0) * Width + (Col(t) - X0)
LocalIndices == 0 .. Width * (Y1 - Y0) - 1

Larger(a, b) == IF a > b THEN a ELSE b
Smaller(a, b) == IF a < b THEN a ELSE b

\* The pixel rectangle of a swath in tiles, clipped to the subregion.
TileRect(s) ==
  [x0 |-> Larger(X0, s.x0 \div TileWidth),  x1 |-> Smaller(X1, (s.x1 - 1) \div TileWidth + 1),
   y0 |-> Larger(Y0, s.y0 \div TileHeight), y1 |-> Smaller(Y1, (s.y1 - 1) \div TileHeight + 1)]

SwathTiles == {t \in Tiles : Col(t) \in swath.x0 .. swath.x1 - 1 /\ Row(t) \in swath.y0 .. swath.y1 - 1}
NoSwath == [x0 |-> 0, x1 |-> 0, y0 |-> 0, y1 |-> 0]
SwathDone == SwathTiles \subseteq completed

\* swathIndices.back(), or 0 for an empty swath.
LocalEnd ==
  IF SwathTiles = {} THEN 0
  ELSE (swath.y1 - 1 - Y0) * Width + (swath.x1 - 1 - X0)

-----------------------------------------------------------------------------
CompletionInit ==
  /\ completed = {} /\ released = {}
  /\ perRow = [r \in TileRows |-> 0]
  /\ fired = [r \in TileRows |-> 0]
  /\ heap = {} /\ start = 0
  /\ contiguousEnd = -1 /\ waitEnd = -1
  /\ currentTileY = 0 /\ lastCleared = -1 /\ needed = 0
  /\ swath = NoSwath /\ wpc = "idle" /\ notified = FALSE

BugNextStart(h) == CHOOSE n \in 0 .. Width * (Y1 - Y0) : n \notin h /\ \A i \in h : i < n

\* SimpleHeap::push_and_pop pops while the top is the index expected next.
NextStart(h) == CHOOSE n \in start .. start + Cardinality(h) :
                  n \notin h /\ \A i \in start .. n - 1 : i \in h

FiresRow(t) == perRow[Row(t)] + 1 = Width

\* The first completion of a tile.  The consumer is signalled once everything
\* up to index `end' is completed.
RecordCompletion(t, end) ==
  /\ completed' = completed \cup {t}
  /\ perRow' = [perRow EXCEPT ![Row(t)] = @ + 1]
  /\ fired' = IF FiresRow(t) THEN [fired EXCEPT ![Row(t)] = @ + 1] ELSE fired
  /\ LET h == heap \cup {LocalIndex(t)}
         n == NextStart(h)
     IN /\ start' = n
        /\ heap' = {i \in h : i >= n}
        /\ contiguousEnd' = IF n > 0 THEN n - 1 ELSE contiguousEnd
        /\ notified' = (notified \/ (wpc = "asleep" /\ n > 0 /\ n - 1 >= end))
  /\ UNCHANGED <<waitEnd, currentTileY, lastCleared, needed, released, swath, wpc>>

BugMarkComplete(t) == RecordCompletion(t, waitEnd)
BugMarkCompleteSignal(t) == t \notin completed /\ RecordCompletion(t, waitEnd + 1)

\* complete(): only the first completion of a tile counts.
MarkComplete(t) ==
  IF t \in completed THEN UNCHANGED completionVars ELSE RecordCompletion(t, waitEnd)

-----------------------------------------------------------------------------
\* wait(): validates the swath, works out its tiles, publishes how far the
\* scheduler has to go.
WaitCall(s) ==
  /\ wpc = "idle"
  /\ s.x0 < s.x1 /\ s.y0 < s.y1
  /\ s.x1 <= GridCols * TileWidth /\ s.y1 <= GridRows * TileHeight
  /\ swath' = TileRect(s)
  /\ needed' = swath'.y1
  /\ wpc' = "clear"
  /\ UNCHANGED <<completed, perRow, fired, heap, start, contiguousEnd, waitEnd,
                 currentTileY, lastCleared, released, notified>>

\* Completed tiles of the rows above the swath that were not cleared before
\* are released.
ClearedTiles ==
  {t \in completed : Row(t) \in Larger(Y0, lastCleared + 1) .. swath.y0 - 1}

BugWaitClear ==
  /\ wpc = "clear"
  /\ released' = released \cup {t \in completed : Row(t) \in Larger(Y0, lastCleared + 1) .. swath.y0}
  /\ lastCleared' = IF swath.y0 > currentTileY THEN swath.y0 - 1 ELSE lastCleared
  /\ currentTileY' = swath.y0
  /\ wpc' = "released"
  /\ UNCHANGED <<completed, perRow, fired, heap, start, contiguousEnd, waitEnd,
                 needed, swath, notified>>

WaitClear ==
  /\ wpc = "clear"
  /\ IF swath.y0 > currentTileY /\ swath.y0 > lastCleared
     THEN /\ released' = released \cup ClearedTiles
          /\ lastCleared' = swath.y0 - 1
     ELSE UNCHANGED <<released, lastCleared>>
  /\ currentTileY' = swath.y0
  /\ wpc' = "released"
  /\ UNCHANGED <<completed, perRow, fired, heap, start, contiguousEnd, waitEnd,
                 needed, swath, notified>>

\* rowsReleasedCallback_ is called, where there is one, outside the mutex.
RowsReleased ==
  /\ wpc = "released" /\ wpc' = "check"
  /\ UNCHANGED <<completed, perRow, fired, heap, start, contiguousEnd, waitEnd,
                 currentTileY, lastCleared, needed, released, swath, notified>>

BugWaitCheck ==
  /\ wpc = "check"
  /\ IF \A t \in SwathTiles : LocalIndex(t) = LocalEnd => t \in completed
     THEN wpc' = "returned" /\ UNCHANGED <<waitEnd, notified>>
     ELSE wpc' = "asleep" /\ waitEnd' = Larger(waitEnd, LocalEnd) /\ notified' = FALSE
  /\ UNCHANGED <<completed, perRow, fired, heap, start, contiguousEnd,
                 currentTileY, lastCleared, needed, released, swath>>

\* The test and the sleep are one critical section.
WaitCheck ==
  /\ wpc = "check"
  /\ IF SwathDone
     THEN wpc' = "returned" /\ UNCHANGED <<waitEnd, notified>>
     ELSE wpc' = "asleep" /\ waitEnd' = Larger(waitEnd, LocalEnd) /\ notified' = FALSE
  /\ UNCHANGED <<completed, perRow, fired, heap, start, contiguousEnd,
                 currentTileY, lastCleared, needed, released, swath>>

\* Signalled, the consumer tests again.
WaitWake ==
  /\ wpc = "asleep" /\ notified
  /\ wpc' = IF SwathDone THEN "returned" ELSE "asleep"
  /\ notified' = FALSE
  /\ UNCHANGED <<completed, perRow, fired, heap, start, contiguousEnd, waitEnd,
                 currentTileY, lastCleared, needed, released, swath>>

\* A condition variable may also wake its waiter for no reason.
SpuriousWake ==
  /\ wpc = "asleep" /\ ~notified /\ SwathDone
  /\ wpc' = "returned"
  /\ UNCHANGED <<completed, perRow, fired, heap, start, contiguousEnd, waitEnd,
                 currentTileY, lastCleared, needed, released, swath, notified>>

\* The caller has read the tiles of the swath and may wait for another.
Consumed ==
  /\ wpc = "returned" /\ wpc' = "idle"
  /\ UNCHANGED <<completed, perRow, fired, heap, start, contiguousEnd, waitEnd,
                 currentTileY, lastCleared, needed, released, swath, notified>>

-----------------------------------------------------------------------------
\* The tracker on its own: tiles complete in any order, some of them twice,
\* and the consumer asks for any of its swaths in any order.
WaitStep == WaitClear \/ RowsReleased \/ WaitCheck \/ WaitWake

CompletionNext ==
  \/ \E t \in Tiles : MarkComplete(t)
  \/ \E s \in Swaths : WaitCall(s)
  \/ WaitStep
  \/ SpuriousWake
  \/ Consumed

\* Every tile is decoded sooner or later, and the consumer's thread runs.
CompletionFairness ==
  /\ \A t \in Tiles : WF_completionVars(MarkComplete(t))
  /\ WF_completionVars(WaitStep)

CompletionSpec == CompletionInit /\ [][CompletionNext]_completionVars /\ CompletionFairness

-----------------------------------------------------------------------------
\* The state stays within its types.
CompletionTypeOK ==
  /\ completed \subseteq Tiles /\ released \subseteq Tiles
  /\ perRow \in [TileRows -> 0 .. Width]
  /\ fired \in [TileRows -> Nat]
  /\ heap \subseteq LocalIndices /\ start \in 0 .. Width * (Y1 - Y0)
  /\ contiguousEnd \in -1 .. Width * (Y1 - Y0) - 1
  /\ waitEnd \in -1 .. Width * (Y1 - Y0) - 1
  /\ currentTileY \in Nat /\ lastCleared \in Int /\ needed \in Nat
  /\ wpc \in {"idle", "clear", "released", "check", "asleep", "returned"}
  /\ notified \in BOOLEAN

\* localContiguousEnd_ is exactly the end of the completed prefix of the
\* subregion: everything up to it is completed, the next tile is not, and the
\* heap holds the completed tiles beyond it.
PrefixExact ==
  /\ contiguousEnd = start - 1
  /\ \A t \in Tiles : LocalIndex(t) < start => t \in completed
  /\ \A t \in Tiles : LocalIndex(t) = start => t \notin completed
  /\ heap = {LocalIndex(t) : t \in {u \in completed : LocalIndex(u) > start}}

\* rowCallback_ is called once for a row, by the completion that makes the row
\* whole, however often and in whatever order its tiles are completed.
RowCallbackOnce ==
  \A r \in TileRows : fired[r] = IF RowTiles(r) \subseteq completed THEN 1 ELSE 0

\* When wait() returns, every tile of the swath is completed.
ReturnedSwathReady == wpc = "returned" => SwathDone

\* Only completed tiles of rows above one the consumer went on to are released.
ReleasedBehind == \A t \in released : t \in completed /\ Row(t) <= lastCleared

\* A sleeping consumer whose signal condition holds has been signalled: no
\* completion slips between its test and its sleep.
NoLostSignal == (wpc = "asleep" /\ contiguousEnd >= waitEnd) => notified

\* As long as the tiles of the subregion go on completing, every wait() returns.
WaitReturns == (wpc = "clear") ~> (wpc = "returned")

\* wait() "returns as soon as the requested swath tiles are decompressed": a
\* sleeping consumer whose tiles are all completed has been signalled.
PromptReturn == (wpc = "asleep" /\ SwathDone) => notified
=============================================================================
