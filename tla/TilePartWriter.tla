--------------------------- MODULE TilePartWriter ---------------------------
(***************************************************************************)
(* How the encoder divides a tile into tile parts:                         *)
(* enable_tile_part_generation in t2/PacketIter.cpp and                    *)
(* getNumTilePartsForProgression in CodeStreamCompress.cpp.  The letters   *)
(* of the progression up to the divider are an odometer: every tile part   *)
(* fixes one value for each of them, and runs over the rest.  The          *)
(* odometer's counters (comp_temp, res_temp, ...) hold the value that      *)
(* comes next.                                                             *)
(***************************************************************************)
EXTENDS PacketIter

Letters == [LRCP |-> <<"L", "R", "C", "P">>, RLCP |-> <<"R", "L", "C", "P">>,
            RPCL |-> <<"R", "P", "C", "L">>, PCRL |-> <<"P", "C", "R", "L">>,
            CPRL |-> <<"C", "P", "R", "L">>]
Counter == [L |-> "l", R |-> "r", C |-> "c", P |-> "p"]

\* The loop counters that letter i of the progression stands for.
CountersOf(order, i) ==
  LET letter == Letters[order][i]
  IN IF letter = "P" /\ Spatial(order) THEN {"x", "y"} ELSE {Counter[letter]}

\* The divider's place in the order of the codestream, and, by the product of
\* what the odometer counts, how many tile parts a progression has: a uint8_t.
DividerPos(g) == CHOOSE i \in 1 .. 4 : Letters[g.prg][i] = g.divider

\* Mutant: the divider's own letter is left out of the product.
BugNumTileParts(g, prog) ==
  IF g.divider = "" THEN 1
  ELSE FoldLeft(LAMBDA n, i: n * FullBox(g, prog)[Counter[Letters[g.prg][i]]][2],
                1, Ints(1, DividerPos(g))) % 256

NumTileParts(g, prog) ==
  IF g.divider = "" THEN 1
  ELSE FoldLeft(LAMBDA n, i: n * FullBox(g, prog)[Counter[Letters[g.prg][i]]][2],
                1, Ints(1, DividerPos(g) + 1)) % 256

-----------------------------------------------------------------------------
(* One value of a counter: the next unit, or the cell up to the next       *)
(* multiple of the smallest precinct step.                                 *)

After(g, v, n) ==
  IF v \in {"x", "y"} THEN LET s == MinStep(g, v, Comps(g)) IN n + s - (n % s) ELSE n + 1
Before(g, v, n) ==
  IF v \in {"x", "y"} THEN LET s == MinStep(g, v, Comps(g)) IN n - s - (n % s) ELSE n - 1

\* temp: the counters; box: the bounds of this tile part; incr: carry.
SetTo(g, V, from, o) ==
  [o EXCEPT !.box = [v \in DOMAIN o.box |-> IF v \in V THEN <<from[v], After(g, v, from[v])>>
                                            ELSE o.box[v]],
            !.temp = [v \in DOMAIN o.temp |-> IF v \in V THEN After(g, v, from[v]) ELSE o.temp[v]]]

First(g, prog) ==
  LET full == FullBox(g, prog)
      V == UNION {CountersOf(prog.order, i) : i \in 1 .. DividerPos(g)}
  IN SetTo(g, V, [v \in DOMAIN full |-> full[v][1]],
           [temp |-> [v \in DOMAIN full |-> 0], box |-> full, incr |-> TRUE])

\* checkForRemainingValidProgression: has an outer letter values left?
Remaining(g, prog, temp, i) ==
  \E j \in 1 .. i : \E v \in CountersOf(prog.order, j) : temp[v] # FullBox(g, prog)[v][2]

\* The letter i takes its next value, or starts again and carries.
Turn(g, prog, o, i) ==
  LET full == FullBox(g, prog)
      V == CountersOf(prog.order, i)
      held == [o EXCEPT !.box = [v \in DOMAIN full |->
                 IF v \in V THEN <<Before(g, v, o.temp[v]), o.temp[v]>> ELSE o.box[v]]]
      start == [v \in DOMAIN full |-> full[v][1]]
      used(v) == IF v \in {"x", "y"} THEN o.temp[v] >= full[v][2] ELSE o.temp[v] = full[v][2]
      wrap == SetTo(g, V, start, held)
      stop == [held EXCEPT !.incr = FALSE]
  IN IF ~o.incr THEN held
     ELSE IF \A v \in V : used(v)
          THEN IF Remaining(g, prog, o.temp, i - 1) THEN wrap ELSE stop
     ELSE IF V # {"x", "y"} THEN SetTo(g, V, o.temp, stop)
     ELSE IF used("x") THEN SetTo(g, {"y"}, o.temp, SetTo(g, {"x"}, start, stop))
     ELSE SetTo(g, {"x"}, o.temp, stop)

Following(g, prog, temp) ==
  FoldLeft(LAMBDA o, i: Turn(g, prog, o, i),
           [temp |-> temp, box |-> FullBox(g, prog), incr |-> TRUE],
           Reverse(Ints(1, DividerPos(g) + 1)))

\* The tile part's place in the odometer: the whole progression when the tile
\* is not divided.
TilePart(g, prog, isFirst, temp) ==
  IF g.divider = "" THEN [temp |-> temp, box |-> FullBox(g, prog), incr |-> FALSE]
  ELSE IF isFirst THEN First(g, prog)
  ELSE Following(g, prog, temp)
=============================================================================
