----------------------------- MODULE PacketIter -----------------------------
(***************************************************************************)
(* The order of the packets of a tile: t2/PacketIter.cpp.                  *)
(*                                                                         *)
(* A packet holds one layer l of one precinct p of one resolution r of one *)
(* component c.  A tile is described by a record g:                        *)
(*   tile     the bounds <<lo, hi>> on the axes "x" and "y"                *)
(*   d        for every component its subsampling on each axis             *)
(*   nres     the number of resolutions                                    *)
(*   exp      for each axis the precinct size exponents by resolution      *)
(*   layers, prg, progs (the progressions, one unless there is a POC),     *)
(*   divider  the letter after which the encoder starts a tile part, or "" *)
(*   window, plt, readRes: what the decoder was asked for, whether it has  *)
(*            packet lengths (PLT), how many resolutions it decodes.       *)
(* Both axes are treated by one operator with the axis a as a parameter.   *)
(***************************************************************************)
EXTENDS Integers, Sequences, FiniteSets, SequencesExt

CeilDiv(m, n) == (m + n - 1) \div n
Ints(m, n) == [i \in 1 .. (IF m < n THEN n - m ELSE 0) |-> m + i - 1]
Walk(m, n, step) == [i \in 1 .. (IF m < n THEN CeilDiv(n - m, step) ELSE 0) |-> m + (i - 1) * step]

Comps(g) == 0 .. Len(g.d) - 1

-----------------------------------------------------------------------------
(* The precinct grid of a resolution.                                      *)

Scale(g, a, c, r) == g.d[c + 1][a] * 2 ^ (g.nres - 1 - r)
PrecSize(g, a, r) == 2 ^ g.exp[a][r + 1]
\* A precinct's size on the reference grid (precWidthPRJ, precHeightPRJ).
Prj(g, a, c, r) == Scale(g, a, c, r) * PrecSize(g, a, r)

ResLo(g, a, c, r) == CeilDiv(g.tile[a][1], Scale(g, a, c, r))
ResHi(g, a, c, r) == CeilDiv(g.tile[a][2], Scale(g, a, c, r))
GridLo(g, a, c, r) == ResLo(g, a, c, r) \div PrecSize(g, a, r)
GridHi(g, a, c, r) == CeilDiv(ResHi(g, a, c, r), PrecSize(g, a, r))
GridLen(g, a, c, r) ==
  IF ResLo(g, a, c, r) = ResHi(g, a, c, r) THEN 0 ELSE GridHi(g, a, c, r) - GridLo(g, a, c, r)

NumPrecincts(g, c, r) == GridLen(g, "x", c, r) * GridLen(g, "y", c, r)
MaxPrecincts(g) == Max({NumPrecincts(g, c, r) : c \in Comps(g), r \in 0 .. g.nres - 1})

MinStep(g, a, C) == Min({Prj(g, a, c, r) : c \in C, r \in 0 .. g.nres - 1})

\* Does a precinct start at coordinate v, and which row or column is it?
Starts(g, a, c, r, v) ==
  \/ v % Prj(g, a, c, r) = 0
  \/ v = g.tile[a][1] /\ ResLo(g, a, c, r) % PrecSize(g, a, r) # 0
GridPos(g, a, c, r, v) ==
  CeilDiv(v, Scale(g, a, c, r)) \div PrecSize(g, a, r) - GridLo(g, a, c, r)
PrecinctIndex(g, c, r, x, y) ==
  GridPos(g, "x", c, r, x) + GridPos(g, "y", c, r, y) * GridLen(g, "x", c, r)

\* The window the decoder was asked for, grown by a precinct, on the grid.
Whole(g) == g.window = g.tile
WinGrid(g, a, r) ==
  LET lo == CeilDiv(g.window[a][1], Scale(g, a, 0, r)) - PrecSize(g, a, r)
      hi == CeilDiv(g.window[a][2], Scale(g, a, 0, r)) + PrecSize(g, a, r)
  IN <<Max({lo, ResLo(g, a, 0, r)}) \div PrecSize(g, a, r),
       CeilDiv(Min({hi, ResHi(g, a, 0, r)}), PrecSize(g, a, r))>>
WinPrj(g, a, r) == [i \in 1 .. 2 |-> WinGrid(g, a, r)[i] * Prj(g, a, 0, r)]

-----------------------------------------------------------------------------
(* The loop nests.  A progression runs its loops within a box: bounds      *)
(* <<start, end>> for every loop variable.  The counters of a new iterator *)
(* are 0 and the tile's origin; only when an inner loop has run does its   *)
(* counter restart from the box.  A position t holds the counters, and     *)
(* t.first: every counter of the loops so far is still the initial one.    *)

Loops == [LRCP |-> <<"l", "r", "c", "p">>, RLCP |-> <<"r", "l", "c", "p">>,
          RPCL |-> <<"r", "y", "x", "c", "l">>, PCRL |-> <<"y", "x", "c", "r", "l">>,
          CPRL |-> <<"c", "y", "x", "r", "l">>]

Initial(g) == [l |-> 0, r |-> 0, c |-> 0, p |-> 0, x |-> g.tile["x"][1], y |-> g.tile["y"][1],
               first |-> TRUE]

\* next_cprl takes the steps of a component from the one before.
StepAt(g, order, a, t) ==
  MinStep(g, a, IF order = "CPRL" /\ t.c > 0 THEN {t.c - 1} ELSE Comps(g))

\* From lo to the next multiple of the step, and on from multiple to multiple.
Coordinates(lo, hi, step) ==
  [i \in 1 .. (IF lo < hi THEN CeilDiv(hi, step) - lo \div step ELSE 0) |->
     IF i = 1 THEN lo ELSE (lo \div step + i - 1) * step]

Values(g, order, box, t, v) ==
  LET lo == IF t.first THEN Initial(g)[v] ELSE box[v][1]
  IN CASE v = "p" -> Ints(0, NumPrecincts(g, t.c, t.r))
       [] v \in {"x", "y"} -> Coordinates(lo, box[v][2], StepAt(g, order, v, t))
       [] OTHER -> Ints(lo, box[v][2])

Advance(g, order, box, t, v) ==
  LET vs == Values(g, order, box, t, v)
  IN [i \in DOMAIN vs |-> [t EXCEPT ![v] = vs[i], !.first = t.first /\ vs[i] = Initial(g)[v]]]

Positions(g, order, box) ==
  FoldLeft(LAMBDA ts, v: FlattenSeq([i \in DOMAIN ts |-> Advance(g, order, box, ts[i], v)]),
           <<Initial(g)>>, Loops[order])

Spatial(order) == order \notin {"LRCP", "RLCP"}

ValidPrecinct(g, order, t) ==
  Spatial(order) => /\ NumPrecincts(g, t.c, t.r) > 0
                    /\ \A a \in {"x", "y"} : Starts(g, a, t.c, t.r, t[a])

Packet(c, r, p, l) == [c |-> c, r |-> r, p |-> p, l |-> l]
PacketAt(g, order, t) ==
  Packet(t.c, t.r, IF Spatial(order) THEN PrecinctIndex(g, t.c, t.r, t.x, t.y) ELSE t.p, t.l)

Packets(g, order, box) ==
  LET ts == SelectSeq(Positions(g, order, box), LAMBDA t: ValidPrecinct(g, order, t))
  IN [i \in DOMAIN ts |-> PacketAt(g, order, ts[i])]

FullBox(g, prog) ==
  [l |-> <<0, prog.lay_e>>, r |-> <<prog.res_s, prog.res_e>>, c |-> <<prog.comp_s, prog.comp_e>>,
   p |-> <<0, MaxPrecincts(g)>>, x |-> g.tile["x"], y |-> g.tile["y"]]
=============================================================================
