--------------------------- MODULE MCPacketStream ---------------------------
(***************************************************************************)
(* Instances of PacketStream: tiles of at most 8 by 8 samples, at most two *)
(* components, resolutions and layers, with several precincts on each axis *)
(* in at least one resolution.                                             *)
(***************************************************************************)
EXTENDS PacketStream

Axis(m, n) == [x |-> m, y |-> n]

Same == <<Axis(1, 1), Axis(1, 1)>>       \* two components of the same size
Sub == <<Axis(1, 1), Axis(2, 1)>>        \* the second is subsampled (4:2:2)

Prog(order, lay_e, res_s, res_e, comp_s, comp_e) ==
  [order |-> order, lay_e |-> lay_e, res_s |-> res_s, res_e |-> res_e,
   comp_s |-> comp_s, comp_e |-> comp_e]

Tile(x, y, d, ex, ey, layers, order, divider) ==
  [tile |-> Axis(x, y), d |-> d, nres |-> Len(ex), exp |-> Axis(ex, ey), layers |-> layers,
   prg |-> order, progs |-> <<Prog(order, layers, 0, Len(ex), 0, Len(d))>>, divider |-> divider,
   window |-> Axis(x, y), plt |-> FALSE, readRes |-> Len(ex)]

-----------------------------------------------------------------------------
(* Where the code is known to lose count (see the README), and the tiles   *)
(* without those cases.                                                    *)

\* The odometer of a divided spatial progression: as many cells as some
\* resolution has precincts, and the first of them not cut by the tile's edge.
PositionDivided(t) ==
  /\ t.divider # "" /\ Spatial(t.prg)
  /\ \E i \in 1 .. DividerPos(t) : Letters[t.prg][i] = "P"
Cells(t, a) ==
  LET s == MinStep(t, a, Comps(t)) IN CeilDiv(t.tile[a][2], s) - t.tile[a][1] \div s
OdometerFits(t) ==
  PositionDivided(t) => /\ Cells(t, "x") * Cells(t, "y") <= MaxPrecincts(t)
                        /\ \A a \in {"x", "y"} : t.tile[a][1] % MinStep(t, a, Comps(t)) = 0

\* The per-resolution loops of RPCL: the tile's origin is inside the first
\* precinct of every resolution.
OriginInside(t) ==
  (t.prg = "RPCL" /\ Opt(t, "RPCL")) =>
    \A a \in {"x", "y"}, r \in 0 .. t.nres - 1 :
      GridLo(t, a, 0, r) = t.tile[a][1] \div Prj(t, a, 0, r)

\* The skips of a windowed RPCL decode with PLT: the tile's precincts begin
\* where the grid does.
SkipsFit(t) ==
  (t.prg = "RPCL" /\ Opt(t, "RPCL") /\ t.plt /\ ~Whole(t)) =>
    \A a \in {"x", "y"}, r \in 0 .. t.nres - 1 : GridLo(t, a, 0, r) = 0

Regular(t) == OdometerFits(t) /\ OriginInside(t) /\ SkipsFit(t)

-----------------------------------------------------------------------------
\* Every order, divided after every letter.
Divided ==
  {Tile(<<lo, 8>>, <<4, 8>>, d, ex, <<1, 2>>, 2, o, v) :
     lo \in {0, 4}, d \in {Same, Sub}, ex \in {<<1, 2>>, <<2, 1>>},
     o \in DOMAIN Loops, v \in {"", "R", "L", "C"}}

\* Origins inside a precinct, and just below its end.
Offset ==
  {Tile(<<lo, 8>>, <<lo, 7>>, d, ex, ex, 1, o, v) :
     lo \in {1, 2, 3}, d \in {Same, Sub}, ex \in {<<1, 2>>, <<1, 1>>}, o \in DOMAIN Loops,
     v \in {"", "R"}}

\* Windows at the origin, inside and at the far edge, with and without PLT.
WindowedAt(lo, windows) ==
  {[Tile(<<lo, 8>>, <<0, 8>>, d, <<0, 1>>, <<1, 1>>, 1, o, "")
      EXCEPT !.window = Axis(wx, wy), !.plt = plt] :
     d \in {Same, Sub}, o \in {"RPCL", "PCRL", "CPRL"}, wx \in windows,
     wy \in {<<0, 1>>, <<1, 5>>, <<5, 6>>}, plt \in BOOLEAN}
Windowed == WindowedAt(0, {<<0, 1>>, <<1, 5>>, <<5, 6>>}) \cup WindowedAt(4, {<<4, 5>>, <<7, 8>>})
Reduced ==
  {[Tile(<<0, 8>>, <<0, 4>>, Same, <<1, 1>>, <<1, 1>>, 1, o, "") EXCEPT !.readRes = 1] :
     o \in DOMAIN Loops}

\* Progression order changes: the manual's example, in each order, and layers
\* that grow from one progression to the next.
Poc(o1, o2) ==
  [Tile(<<0, 8>>, <<0, 4>>, Same, <<1, 1>>, <<1, 1>>, 1, "LRCP", "")
     EXCEPT !.progs = <<Prog(o1, 1, 0, 1, 0, 1), Prog(o2, 1, 0, 2, 0, 2)>>]
LayerPoc(o1, o2) ==
  [Tile(<<0, 8>>, <<0, 4>>, Same, <<1, 1>>, <<1, 1>>, 2, "LRCP", "")
     EXCEPT !.progs = <<Prog(o1, 1, 0, 2, 0, 2), Prog(o2, 2, 0, 2, 0, 2)>>]
Pocs == {Poc(o1, o2) : o1 \in DOMAIN Loops, o2 \in DOMAIN Loops}
        \cup {LayerPoc(o1, o2) : o1 \in DOMAIN Loops, o2 \in {"LRCP", "RLCP"}}

\* A window inside the second tile of a row, its packet lengths known.
SecondTile ==
  {[Tile(<<4, 8>>, <<0, 4>>, Same, <<0, 1>>, <<1, 1>>, 1, "RPCL", "")
      EXCEPT !.window = Axis(<<7, 8>>, <<0, 4>>), !.plt = TRUE]}

RegularTiles == {t \in Divided \cup Offset \cup Windowed \cup Reduced \cup Pocs : Regular(t)}
=============================================================================
