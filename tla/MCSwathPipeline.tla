-------------------------- MODULE MCSwathPipeline ---------------------------
(***************************************************************************)
(* Instances of SwathPipeline: tiles of one by one pixel, the throttle's   *)
(* constants as in the code or smaller.                                    *)
(***************************************************************************)
EXTENDS SwathPipeline

NoSwaths == {}

Rows(y0, y1) == [x0 |-> 0, x1 |-> GridCols, y0 |-> y0, y1 |-> y1]

\* The consumer walks down the image, one row at a time.
RowByRow == [r \in 1 .. GridRows |-> Rows(r - 1, r)]

\* A whole code stream with a TLM index; one without, its tiles ending in the
\* given order.  Neither has a tile that fails.
WithTlm(requests) ==
  [tlm |-> TRUE, order |-> <<>>, cut |-> {}, partial |-> {}, failing |-> {},
   rejected |-> {}, requests |-> requests, full |-> TRUE]
Sequential(order, requests) ==
  [WithTlm(requests) EXCEPT !.tlm = FALSE, !.order = order, !.full = FALSE]

RasterOrder == [i \in 1 .. GridCols * GridRows |-> i - 1]

\* Two by two tiles.  With TLM: row by row; only the first
\* row, so that the second, one tile of which fails, is still queued when the
\* whole image is waited for; the whole image at once.  Without: column by column
\* with the last tile in part, a stream that ends in its third tile, read at once,
\* and one with a tile in part that fails below the only row waited for.
MCStreams ==
  {[WithTlm(RowByRow) EXCEPT !.full = FALSE],
   [WithTlm(<<Rows(0, 1)>>) EXCEPT !.failing = {3}], WithTlm(<<>>),
   [Sequential(<<0, 2, 1>>, RowByRow) EXCEPT !.partial = {3}],
   [Sequential(<<0, 1, 2>>, <<Rows(0, 2)>>) EXCEPT !.cut = {2}],
   [Sequential(<<0, 1>>, <<Rows(0, 1)>>) EXCEPT !.partial = {2}, !.failing = {2}]}

\* The stream ends in a tile of the second row, which is queued.
CutStreams == {[Sequential(<<0, 1, 2>>, RowByRow) EXCEPT !.cut = {2}]}

\* The last row comes before two the consumer reaches first.
LateStreams == {Sequential(<<0, 3, 1, 2>>, RowByRow)}

\* No swath, only the whole image.
WholeStreams == {[Sequential(RasterOrder, <<>>) EXCEPT !.full = TRUE]}

\* The last tile has some of its tile parts, and a stage of its decode fails.
FailedStreams == {[Sequential(<<0>>, RowByRow) EXCEPT !.partial = {1}, !.failing = {1}]}
=============================================================================
