---------------------------- MODULE PacketStream ----------------------------
(***************************************************************************)
(* A tile's packets on their way from the encoder to the decoder: the      *)
(* encoder writes them tile part by tile part (writeTileParts,             *)
(* compressPackets), the codestream may be cut, and the decoder runs its   *)
(* own iterators over what is left (parsePackets).  A codestream does not  *)
(* say which packet comes next: both sides must count alike.               *)
(***************************************************************************)
EXTENDS TilePartWriter, PacketReader

CONSTANTS
  Tiles         \* the tiles, codings and read requests (PacketIter)

VARIABLES
  g,            \* the tile
  written,      \* the packets in the codestream
  prog, part,   \* progression and tile part the encoder comes to
  temp,         \* the odometer
  plan,         \* what the decoder's iterators will yet do
  cursor,       \* packets the decoder has passed in the codestream
  parsed,       \* packets it has parsed
  mode,         \* "write", "stored" or "read"; "thrown" if parsePackets is left by an exception
  cut           \* has the codestream lost its end?

vars == <<g, written, prog, part, temp, plan, cursor, parsed, mode, cut>>

Init ==
  /\ g \in Tiles
  /\ written = <<>> /\ prog = 1 /\ part = 0
  /\ temp = [v \in {"l", "r", "c", "p", "x", "y"} |-> 0]
  /\ plan = <<>> /\ cursor = 0 /\ parsed = {} /\ mode = "write" /\ cut = FALSE

\* Mutant: the tracker is cleared for every tile part.
BugUnwritten(packets) == SelectSeq(packets, LAMBDA k: k.p \in 0 .. MaxPrecincts(g) - 1)

\* The packet tracker: valid packets that no tile part has had.
Unwritten(packets) ==
  SelectSeq(packets, LAMBDA k: /\ k \notin Range(written)
                               /\ k.p \in 0 .. MaxPrecincts(g) - 1)

WriteTilePart ==
  LET o == TilePart(g, g.progs[prog], part = 0, temp)
      lastPart == part + 1 >= NumTileParts(g, g.progs[prog])
      lastProg == prog = Len(g.progs)
  IN /\ mode = "write"
     /\ written' = written \o Unwritten(Packets(g, g.progs[prog].order, o.box))
     /\ temp' = o.temp
     /\ part' = IF lastPart THEN 0 ELSE part + 1
     /\ prog' = IF lastPart /\ ~lastProg THEN prog + 1 ELSE prog
     /\ mode' = IF lastPart /\ lastProg THEN "stored" ELSE "write"
     /\ UNCHANGED <<g, plan, cursor, parsed, cut>>

\* The codestream ends early, between two packets.
Cut ==
  /\ mode = "stored" /\ ~cut
  /\ \E n \in 1 .. Len(written) - 1 : written' = SubSeq(written, 1, n)
  /\ cut' = TRUE
  /\ UNCHANGED <<g, prog, part, temp, plan, cursor, parsed, mode>>

\* parsePackets sets up the iterators of all progressions.
Open ==
  /\ mode = "stored"
  /\ mode' = "read" /\ plan' = ReadPlan(g)
  /\ UNCHANGED <<g, written, prog, part, temp, cursor, parsed, cut>>

\* The packet is there and sound, or the tile is truncated and the decoder stops
\* with what it has.
ParsePacket ==
  /\ mode = "read" /\ plan # <<>> /\ Head(plan).kind = "packet"
  /\ IF cursor = Len(written)
     THEN plan' = <<>> /\ UNCHANGED <<cursor, parsed>>
     ELSE /\ cursor' = cursor + 1
          /\ parsed' = parsed \cup {Head(plan).packet}
          /\ plan' = Tail(plan)
  /\ UNCHANGED <<g, written, prog, part, temp, mode, cut>>

\* Lengths popped past the last one are 0.  A skip past the end of the data throws,
\* in next(), where parsePackets catches nothing.
SkipPackets ==
  /\ mode = "read" /\ plan # <<>> /\ Head(plan).kind = "skip"
  /\ IF cut /\ cursor + Head(plan).n > Len(written)
     THEN mode' = "thrown" /\ UNCHANGED <<cursor, plan>>
     ELSE /\ cursor' = Min({cursor + Head(plan).n, Len(written)})
          /\ plan' = Tail(plan) /\ UNCHANGED mode
  /\ UNCHANGED <<g, written, prog, part, temp, parsed, cut>>

Next == WriteTilePart \/ Cut \/ Open \/ ParsePacket \/ SkipPackets

Spec == Init /\ [][Next]_vars

-----------------------------------------------------------------------------
AllPackets ==
  {k \in [c : Comps(g), r : 0 .. g.nres - 1, p : 0 .. MaxPrecincts(g) - 1, l : 0 .. g.layers - 1] :
     k.p < NumPrecincts(g, k.c, k.r)}

\* However the tile is divided, its tile parts together hold every packet, and
\* hold it once (enable_tile_part_generation, the packet tracker).
StreamComplete ==
  (mode = "stored" /\ ~cut) => Range(written) = AllPackets /\ Len(written) = Cardinality(AllPackets)

\* A precinct's corner on the reference grid, and a packet's rank in an order.
Corner(k, a) ==
  LET i == IF a = "x" THEN k.p % GridLen(g, a, k.c, k.r) ELSE k.p \div GridLen(g, "x", k.c, k.r)
  IN Max({g.tile[a][1], (GridLo(g, a, k.c, k.r) + i) * Prj(g, a, k.c, k.r)})

Rank(k) ==
  [i \in DOMAIN Loops[g.prg] |->
     LET v == Loops[g.prg][i] IN IF v \in {"x", "y"} THEN Corner(k, v) ELSE k[v]]

Precedes(m, n) == \E i \in DOMAIN m : m[i] < n[i] /\ \A j \in 1 .. i - 1 : m[j] = n[j]

\* The codestream holds the packets in the order it declares: the loop nest
\* over positions, its odometer of tile parts and the order defined by the
\* precincts' places on the reference grid agree (PacketIter::next_*).
StreamOrdered ==
  (Single(g) /\ mode # "read") =>
    \A i \in 1 .. Len(written) - 1 : Precedes(Rank(written[i]), Rank(written[i + 1]))

\* The packet the decoder takes itself to be at is the one that is there: its
\* iterators, with their other loops and their skips, count as the encoder's.
InStep ==
  (mode = "read" /\ plan # <<>> /\ Head(plan).kind = "packet" /\ cursor < Len(written))
    => written[cursor + 1] = Head(plan).packet

\* Does the precinct hold samples of the window?
Touches(k) ==
  \A a \in {"x", "y"} :
    LET i == IF a = "x" THEN k.p % GridLen(g, a, k.c, k.r) ELSE k.p \div GridLen(g, "x", k.c, k.r)
        lo == (GridLo(g, a, k.c, k.r) + i) * PrecSize(g, a, k.r)
        w(j) == CeilDiv(g.window[a][j], Scale(g, a, k.c, k.r))
    IN lo < w(2) /\ w(1) < lo + PrecSize(g, a, k.r)

\* The decoder ends with every packet of the precincts its window touches,
\* whatever it skipped and wherever it stopped; when the codestream was cut, with
\* every one of them that is left, also when it ends in the middle of a skip.
WindowServed ==
  (mode = "thrown" \/ (mode = "read" /\ plan = <<>>)) =>
    {k \in (IF cut THEN Range(written) ELSE AllPackets) : k.r < g.readRes /\ Touches(k)}
      \subseteq parsed
=============================================================================
