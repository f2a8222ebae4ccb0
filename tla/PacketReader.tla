---------------------------- MODULE PacketReader ----------------------------
(***************************************************************************)
(* What the decoder's packet iterators do, as a list of events: "packet"   *)
(* (next returns true and the packet is parsed), "skip" (skipPackets: n    *)
(* packets are passed over by their PLT lengths) and "end" (next returns   *)
(* false before its loops are done).  t2/PacketIter.cpp, with the loop of  *)
(* T2Decompress::parsePackets over the progressions.                       *)
(***************************************************************************)
EXTENDS PacketIter

Yield(pk) == <<[kind |-> "packet", packet |-> pk]>>
Skip(n) == IF n = 0 THEN <<>> ELSE <<[kind |-> "skip", n |-> n]>>
End == <<[kind |-> "end"]>>

Upto(events) ==
  LET ends == {i \in DOMAIN events : events[i] = End[1]}
  IN IF ends = {} THEN events ELSE SubSeq(events, 1, Min(ends) - 1)

Single(g) == Len(g.progs) = 1

\* genPrecinctInfoOPT: the conditions for the per-resolution loops.
Opt(g, order) ==
  /\ Single(g)
  /\ \A c \in Comps(g), a \in {"x", "y"} : g.d[c + 1][a] = 1
  /\ order \in {"PCRL", "CPRL"} => \A a \in {"x", "y"} :
       /\ g.tile[a][1] = 0
       /\ \A r \in 0 .. g.nres - 1 : Prj(g, a, 0, r) >= Prj(g, a, 0, g.nres - 1)

-----------------------------------------------------------------------------
(* RPCL with the steps of the resolution, next_rpclOPT.                    *)

\* The packets left of the window and above it are counted from the grid's
\* origin, those right of it and below it from the tile's end.
LeftSkip(g, r, inner) == WinGrid(g, "x", r)[1] * inner
TopSkip(g, r, inner) == WinGrid(g, "y", r)[1] * (GridHi(g, "x", 0, r) - GridLo(g, "x", 0, r)) * inner
\* Mutant: from the window's left edge.
BugRightSkip(g, r, inner) == (GridHi(g, "x", 0, r) - WinGrid(g, "x", r)[1]) * inner
RightSkip(g, r, inner) == (GridHi(g, "x", 0, r) - WinGrid(g, "x", r)[2]) * inner
BottomSkip(g, r, inner) ==
  (GridHi(g, "y", 0, r) - WinGrid(g, "y", r)[2])
     * (GridHi(g, "x", 0, r) - GridLo(g, "x", 0, r)) * inner

CompLayers(g, r, p) ==
  [i \in 1 .. Len(g.d) * g.layers |->
     Yield(Packet((i - 1) \div g.layers, r, p, (i - 1) % g.layers))[1]]

OptRow(g, r, y, from) ==
  LET inner == Len(g.d) * g.layers
      wx == WinPrj(g, "x", r)
      wy == WinPrj(g, "y", r)
      skipping == ~Whole(g) /\ g.plt
      left == IF skipping /\ from < wx[1] THEN LeftSkip(g, r, inner) ELSE 0
      xs == Walk(IF left > 0 THEN wx[1] ELSE from,
                 IF skipping THEN wx[2] ELSE GridHi(g, "x", 0, r) * Prj(g, "x", 0, r),
                 Prj(g, "x", 0, r))
      past(x) == ~Whole(g) /\ r = g.readRes - 1 /\ y = wy[2] - 1 /\ x >= wx[2]
  IN Skip(left)
     \o FlattenSeq([i \in DOMAIN xs |->
          IF past(xs[i]) THEN End ELSE CompLayers(g, r, PrecinctIndex(g, 0, r, xs[i], y))])
     \o (IF skipping THEN Skip(RightSkip(g, r, inner)) ELSE <<>>)

OptResolution(g, r) ==
  LET inner == Len(g.d) * g.layers
      wy == WinPrj(g, "y", r)
      skipping == ~Whole(g) /\ g.plt
      above == skipping /\ g.tile["y"][1] < wy[1]
      below == skipping /\ BottomSkip(g, r, inner) > 0
      last == ~Whole(g) /\ r = g.readRes - 1
      ys == Walk(IF above THEN wy[1] ELSE g.tile["y"][1],
                 GridHi(g, "y", 0, r) * Prj(g, "y", 0, r), Prj(g, "y", 0, r))
      \* Rows from the window's end on are not reached.
      cut == {i \in DOMAIN ys : ys[i] = wy[2] /\ (last \/ below)}
      rows == IF cut = {} THEN ys ELSE SubSeq(ys, 1, Min(cut) - 1)
      from(i) == IF i = 1 THEN g.tile["x"][1] ELSE GridLo(g, "x", 0, r) * Prj(g, "x", 0, r)
  IN IF NumPrecincts(g, 0, r) = 0 THEN <<>>
     ELSE (IF above THEN Skip(TopSkip(g, r, inner)) ELSE <<>>)
          \o FlattenSeq([i \in DOMAIN rows |-> OptRow(g, r, rows[i], from(i))])
          \o (IF cut = {} THEN <<>> ELSE IF last THEN End ELSE Skip(BottomSkip(g, r, inner)))

RpclOpt(g, box) ==
  FlattenSeq([i \in 1 .. box["r"][2] |-> OptResolution(g, i - 1)])

-----------------------------------------------------------------------------
(* The other orders: the loop nests, with the early ends of a windowed     *)
(* decode, and the skip of next_cprlOPT.                                   *)

\* Mutant: past the window's right edge in any row.
BugPcrlPast(g, t) ==
  LET w(a) == IF Opt(g, "PCRL") THEN WinPrj(g, a, g.nres - 1) ELSE g.window[a]
  IN /\ Opt(g, "PCRL") => ~Whole(g)
     /\ Single(g)
     /\ t.y >= w("y")[2] \/ t.x >= w("x")[2]

\* PCRL ends past the window's last row, or past its corner in that row.
PcrlPast(g, t) ==
  LET w(a) == IF Opt(g, "PCRL") THEN WinPrj(g, a, g.nres - 1) ELSE g.window[a]
  IN /\ Opt(g, "PCRL") => ~Whole(g)
     /\ Single(g)
     /\ t.y >= w("y")[2] \/ (t.y = w("y")[2] - 1 /\ t.x >= w("x")[2])

\* What is left of a component below the window, in every resolution.
CprlSkip(g, box, y) ==
  LET high == g.nres - 1
      rows(r) == CeilDiv(GridHi(g, "y", 0, high) * Prj(g, "y", 0, high), Prj(g, "y", 0, r))
                   - CeilDiv(y, Prj(g, "y", 0, r))
      cols(r) == CeilDiv(GridHi(g, "x", 0, high) * Prj(g, "x", 0, high), Prj(g, "x", 0, r))
      count[r \in 0 .. g.nres] == IF r = 0 THEN 0 ELSE count[r - 1] + rows(r - 1) * cols(r - 1)
  IN count[box["r"][2]] * g.layers

EventAt(g, order, box, t) ==
  LET w == WinPrj(g, "y", g.nres - 1)
      below == order = "CPRL" /\ Opt(g, order) /\ ~Whole(g) /\ t.y >= w[2]
      packet == IF ValidPrecinct(g, order, t) THEN Yield(PacketAt(g, order, t)) ELSE <<>>
  IN CASE order = "PCRL" /\ PcrlPast(g, t) -> End
       [] below /\ t.c = box["c"][2] - 1 -> End
       [] below /\ g.plt /\ t.c < box["c"][2] - 1 ->
            IF t.y = w[2] /\ t.x = 0 /\ t.r = 0 /\ t.l = 0 THEN Skip(CprlSkip(g, box, t.y))
            ELSE <<>>
       [] OTHER -> packet

\* The box of the decoder: PCRL and CPRL run to the end of the highest
\* resolution's grid, RLCP and RPCL stop at the resolutions asked for.
ReadBox(g, prog) ==
  LET b == FullBox(g, prog)
      end(a) == IF Opt(g, prog.order) /\ prog.order \in {"PCRL", "CPRL"}
                THEN GridHi(g, a, 0, g.nres - 1) * Prj(g, a, 0, g.nres - 1) ELSE b[a][2]
      res == IF Single(g) /\ prog.order \in {"RLCP", "RPCL"}
             THEN Min({b["r"][2], g.readRes}) ELSE b["r"][2]
  IN [b EXCEPT !["r"][2] = res, !["x"][2] = end("x"), !["y"][2] = end("y")]

Events(g, prog) ==
  LET box == ReadBox(g, prog)
      ts == Positions(g, prog.order, box)
  IN Upto(IF prog.order = "RPCL" /\ Opt(g, prog.order) THEN RpclOpt(g, box)
          ELSE FlattenSeq([i \in DOMAIN ts |-> EventAt(g, prog.order, box, ts[i])]))

\* With several progressions the tracker (update_include) drops a packet that
\* an earlier one had, and with it the rest of the innermost loop.
SameRun(order, k, m) ==
  k.c = m.c /\ k.r = m.r /\ (IF Spatial(order) THEN k.p = m.p ELSE k.l = m.l)

Included(order, events, seen) ==
  LET dropped(i) == \E j \in 1 .. i : /\ SameRun(order, events[j].packet, events[i].packet)
                                      /\ events[j].packet \in seen
      kept == SelectSeq(Ints(1, Len(events) + 1), LAMBDA i: ~dropped(i))
  IN [i \in DOMAIN kept |-> events[kept[i]]]

PacketsIn(events) == {events[i].packet : i \in {j \in DOMAIN events : events[j].kind = "packet"}}

ReadPlan(g) ==
  IF Single(g) THEN Events(g, g.progs[1])
  ELSE FoldLeft(LAMBDA plan, prog: plan \o Included(prog.order, Events(g, prog), PacketsIn(plan)),
                <<>>, g.progs)
=============================================================================
