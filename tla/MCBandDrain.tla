---------------------------- MODULE MCBandDrain -----------------------------
(***************************************************************************)
(* BandDrain over the last two columns and the last three rows of a grid   *)
(* of tiles of two by two pixels.                                          *)
(***************************************************************************)
EXTENDS BandDrain

Px(x0, x1, y0, y1) == [x0 |-> x0, x1 |-> x1, y0 |-> y0, y1 |-> y1]

\* A row, a swath that straddles two rows, one column of a later row, and one
\* that starts outside the subregion.
MCSwaths == {Px(2, 6, 2, 4), Px(2, 6, 3, 6), Px(5, 6, 6, 8), Px(0, 3, 0, 4)}

Whole(order) ==
  [order |-> order, partial |-> {}, tlm |-> FALSE, refused |-> {}, failing |-> {}, bad |-> FALSE,
   huge |-> FALSE, empty |-> {}, rejected |-> {}]

\* Rows out of order, one of them empty; cut in the second row, where one tile
\* fails too, the last row never seen; with an index and a refused tile; a
\* rejected row, and tiles missing behind it; an invalid marker; no strip buffer.
MCStreams ==
  {[Whole(<<4, 10, 5, 7>>) EXCEPT !.empty = {2}],
   [Whole(<<4, 5>>) EXCEPT !.partial = {7, 8}, !.failing = {8}],
   [Whole(<<4, 5, 7, 8, 10, 11>>) EXCEPT !.tlm = TRUE, !.refused = {11}],
   [Whole(<<4, 5, 10>>) EXCEPT !.rejected = {1}],
   [Whole(<<7, 8, 4>>) EXCEPT !.bad = TRUE],
   [Whole(<<4, 7, 5>>) EXCEPT !.huge = TRUE]}
=============================================================================
