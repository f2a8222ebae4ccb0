---------------------------- MODULE WeftRuntime ----------------------------
(***************************************************************************)
(* The weft runtime (mercury/src/weft/rt.rs) running a decode graph        *)
(* (mercury/src/decode/graph.rs): subband nodes decode block rows into     *)
(* their rings, level nodes synthesise rows from the rings of the bands,   *)
(* and the merge sink hands the rows to the caller.  A pool of workers     *)
(* takes nodes from a shared queue and chains into the node it has just    *)
(* fed; the calling thread kicks the subband nodes, awaits stillness and   *)
(* drops the runtime.  A subband may fail and any node may panic.          *)
(*                                                                         *)
(* Atomics and locked regions are single steps here; the weak memory order *)
(* of the wakeup word and of the rings is the subject of WeftWakeup and    *)
(* WeftRing.  A spurious wakeup of a condition variable re-enters a loop   *)
(* that looks again and is left out.  The order in which one pass tugs its *)
(* peers is left open.                                                     *)
(***************************************************************************)
EXTENDS Integers, Sequences, FiniteSetsExt

CONSTANTS Leaves, Levels, Sink,  \* the nodes
          Consumer,   \* node fed by each subband and level node
          Span,       \* slots of each node's output ring
          Stripes,    \* per subband: rows of each of its block rows
          Inputs,     \* per level and parity: the rings a fresh row is packed from
          Needs,      \* per level, output row and parity: fresh rows packed by then
          Skip,       \* per level: leading rows of its child that drain unread
          Discard,    \* rows the sink drains above the output window
          RowsTotal,  \* rows weave reports
          KickOrder,  \* the subbands in the order they were mounted
          Workers,
          ChainDepthCap,
          MaxFaults   \* decode errors and panics in one behaviour

Makers == Leaves \cup Levels
Nodes == Makers \cup {Sink}
Parities == 0..1

(* A block row always fits its ring (band_ring_picks is at least block_h). *)
ASSUME RuntimeAssumption ==
  /\ Sink \notin Makers /\ Leaves \cap Levels = {} /\ Workers # {}
  /\ Consumer \in [Makers -> Levels \cup {Sink}]
  /\ \A n \in Makers : Span[n] \in Nat \ {0}
  /\ \A n \in Leaves : \A i \in 1..Len(Stripes[n]) : Stripes[n][i] \in 1..Span[n]

VARIABLES
  word,        \* per node: the SCHEDULED and DIRTY bits
  head, tail,  \* per ring: rows unwound and rows beaten across
  block,       \* per subband: block rows decoded (next_block_row)
  seen,        \* rows handed to the caller (rows_seen)
  queue, outstanding, shutdown, failed, failure,
  stack,       \* per worker: the frames of ply_node, innermost first
  at,          \* per worker: where in treadle_loop or in fail it is
  main,        \* where the calling thread is
  kicks,       \* subbands it has yet to kick
  kicked,      \* subband whose bit it has just won
  result,      \* what await_stillness returned
  faults

rings == <<head, tail, block, seen>>
flags == <<shutdown, failed, failure>>
caller == <<main, kicks, kicked, result>>
vars == <<word, rings, queue, outstanding, flags, stack, at, caller, faults>>

None == "none"
SCHEDULED == "SCHEDULED"
DIRTY == "DIRTY"

slack(n) == Span[n] - (tail[n] - head[n])
picks_ready(n) == tail[n] - head[n]
Feeds(n) == {m \in Makers : Consumer[m] = n}

(* A call of ply_node: its node, where it is, the peers the pass has to    *)
(* tug, the peer whose bit it has just won, and the one it will chain to.  *)
Frame(n) == [node |-> n, step |-> "shed", tugs |-> {}, won |-> None, chain |-> None]

Init ==
  /\ word = [n \in Nodes |-> {}]
  /\ head = [n \in Makers |-> 0] /\ tail = [n \in Makers |-> 0]
  /\ block = [n \in Leaves |-> 0]
  /\ seen = 0
  /\ queue = << >> /\ outstanding = 0
  /\ shutdown = FALSE /\ failed = FALSE /\ failure = None
  /\ stack = [w \in Workers |-> << >>]
  /\ at = [w \in Workers |-> "loop"]
  /\ main = "kick" /\ kicks = KickOrder /\ kicked = None /\ result = None
  /\ faults = 0

-----------------------------------------------------------------------------
(* NodeState::tug, as one compare-exchange. *)
Wins(n) == SCHEDULED \notin word[n]
Tug(n) == word' = [word EXCEPT ![n] = IF Wins(n) THEN {SCHEDULED} ELSE @ \cup {DIRTY}]

(* The condition variables: a thread parked on one is at "wait". *)
Parked == {w \in Workers : at[w] = "wait"}
WakeOne == IF Parked = {} THEN UNCHANGED at
           ELSE \E w \in Parked : at' = [at EXCEPT ![w] = "loop"]

(* treadle_loop, under the queue lock: leave, take a node, or park. *)
Treadle(w) ==
  /\ at[w] = "loop" /\ stack[w] = << >>
  /\ \/ /\ shutdown
        /\ at' = [at EXCEPT ![w] = "exit"]
        /\ UNCHANGED <<queue, stack>>
     \/ /\ ~shutdown /\ queue # << >>
        /\ stack' = [stack EXCEPT ![w] = <<Frame(Head(queue))>>]
        /\ queue' = Tail(queue)
        /\ UNCHANGED at
     \/ /\ ~shutdown /\ queue = << >>
        /\ at' = [at EXCEPT ![w] = "wait"]
        /\ UNCHANGED <<queue, stack>>
  /\ UNCHANGED <<word, rings, outstanding, flags, caller, faults>>

Top(w) == stack[w][1]
In(w, step) == at[w] = "loop" /\ stack[w] # << >> /\ Top(w).step = step
Go(w, step) == stack' = [stack EXCEPT ![w][1].step = step]
Owe(w, nodes) == stack' = [stack EXCEPT ![w][1].tugs = @ \cup nodes]

(* Bug: open_shed keeps DIRTY and clears SCHEDULED (the mask not inverted). *)
BugOpenShedMask(w) ==
  /\ In(w, "shed")
  /\ word' = [word EXCEPT ![Top(w).node] = @ \cap {DIRTY}]
  /\ Go(w, IF Top(w).node \in Levels THEN "skip" ELSE "pass")
  /\ UNCHANGED <<rings, queue, outstanding, flags, at, caller, faults>>

(* Bug: open_shed stores zero, giving SCHEDULED away during the pass. *)
BugOpenShedStore(w) ==
  /\ In(w, "shed")
  /\ word' = [word EXCEPT ![Top(w).node] = {}]
  /\ Go(w, IF Top(w).node \in Levels THEN "skip" ELSE "pass")
  /\ UNCHANGED <<rings, queue, outstanding, flags, at, caller, faults>>

(* Bug: DIRTY is not reset, so a node tugged once is run for ever. *)
BugOpenShedKeep(w) ==
  /\ In(w, "shed")
  /\ Go(w, IF Top(w).node \in Levels THEN "skip" ELSE "pass")
  /\ UNCHANGED <<word, rings, queue, outstanding, flags, at, caller, faults>>

(* ply_node: open_shed before each pass. *)
OpenShed(w) ==
  /\ In(w, "shed")
  /\ word' = [word EXCEPT ![Top(w).node] = @ \ {DIRTY}]
  /\ Go(w, IF Top(w).node \in Levels THEN "skip" ELSE "pass")
  /\ UNCHANGED <<rings, queue, outstanding, flags, at, caller, faults>>

(* SubbandDecodeNode::shuttle: the next block row goes into the ring when  *)
(* all of it fits, and the consumer will be tugged.                        *)
BlockRowFits(n) ==
  block[n] < Len(Stripes[n]) /\ slack(n) >= Stripes[n][block[n] + 1]

WeaveBlockRow(w) ==
  LET n == Top(w).node
  IN /\ In(w, "pass") /\ n \in Leaves /\ BlockRowFits(n)
     /\ tail' = [tail EXCEPT ![n] = @ + Stripes[n][block[n] + 1]]
     /\ block' = [block EXCEPT ![n] = @ + 1]
     /\ Owe(w, {Consumer[n]})
     /\ UNCHANGED <<word, head, seen, queue, outstanding, flags, at, caller, faults>>

(* SubbandDecodeNode::shuttle: no room, or no block row left. *)
SubbandRests(w) ==
  /\ In(w, "pass") /\ Top(w).node \in Leaves /\ ~BlockRowFits(Top(w).node)
  /\ Go(w, "tugs")
  /\ UNCHANGED <<word, rings, queue, outstanding, flags, at, caller, faults>>

(* SubbandDecodeNode::shuttle: the coder failed.  The pass returns at once *)
(* and tugs nobody, not even for the block rows beaten across before.      *)
BlockRowFails(w) ==
  /\ In(w, "pass") /\ Top(w).node \in Leaves /\ BlockRowFits(Top(w).node)
  /\ faults < MaxFaults
  /\ faults' = faults + 1
  /\ stack' = [stack EXCEPT ![w][1].step = "tugs", ![w][1].tugs = {}]
  /\ at' = [at EXCEPT ![w] = "fail"]
  /\ UNCHANGED <<word, rings, queue, outstanding, flags, caller>>

Child(n) == Feeds(n) \cap Levels
Unwind(nodes) == head' = [m \in Makers |-> IF m \in nodes THEN head[m] + 1 ELSE head[m]]

(* LevelNode::shuttle: leading rows of the child drain unread, as far as   *)
(* they have arrived.                                                      *)
Skippable(n) == {m \in Child(n) : head[m] < Skip[n] /\ picks_ready(m) > 0}

(* Bug: the child is not told of the rows drained unread. *)
BugSkipRow(w) ==
  LET m == Skippable(Top(w).node)
  IN /\ In(w, "skip")
     /\ IF m = {} THEN Go(w, "pass") /\ UNCHANGED head
                  ELSE UNCHANGED stack /\ Unwind(m)
     /\ UNCHANGED <<word, tail, block, seen, queue, outstanding, flags, at, caller, faults>>

SkipRow(w) ==
  LET m == Skippable(Top(w).node)
  IN /\ In(w, "skip")
     /\ IF m = {} THEN Go(w, "pass") /\ UNCHANGED head
                  ELSE Owe(w, m) /\ Unwind(m)
     /\ UNCHANGED <<word, tail, block, seen, queue, outstanding, flags, at, caller, faults>>

(* LevelInputs: fresh rows packed from a ring, and whether it has another. *)
Packed(n, m) == head[m] - (IF m \in Child(n) THEN Skip[n] ELSE 0)
SubbandReady(n, m) == picks_ready(m) > 0 /\ Packed(n, m) >= 0

(* LevelNode::shuttle goes on while it has rows to draw and room for one.  *)
(* Short gives the parities whose next fresh row the next output row still *)
(* needs; a parity is packed from all its rings at once (hweave).          *)
Drawing(n) == tail[n] < Len(Needs[n]) /\ slack(n) > 0
Short(n) == {par \in Parities : \E m \in Inputs[n][par] :
                                  Packed(n, m) < Needs[n][tail[n] + 1][par]}
FreshPickReady(n, par) == \A m \in Inputs[n][par] : SubbandReady(n, m)

Pack(w) ==
  LET n == Top(w).node
  IN /\ In(w, "pass") /\ n \in Levels /\ Drawing(n)
     /\ \E par \in Short(n) : /\ FreshPickReady(n, par)
                              /\ Unwind(Inputs[n][par])
                              /\ Owe(w, Inputs[n][par])
     /\ UNCHANGED <<word, tail, block, seen, queue, outstanding, flags, at, caller, faults>>

(* try_draw returns a row, which is beaten across. *)
DrawRow(w) ==
  LET n == Top(w).node
  IN /\ In(w, "pass") /\ n \in Levels /\ Drawing(n) /\ Short(n) = {}
     /\ tail' = [tail EXCEPT ![n] = @ + 1]
     /\ Owe(w, {Consumer[n]})
     /\ UNCHANGED <<word, head, block, seen, queue, outstanding, flags, at, caller, faults>>

(* try_draw stalls on a fresh row that has not arrived, or the loop ends. *)
LevelRests(w) ==
  LET n == Top(w).node
  IN /\ In(w, "pass") /\ n \in Levels
     /\ Drawing(n) => \E par \in Short(n) : ~FreshPickReady(n, par)
     /\ Go(w, "tugs")
     /\ UNCHANGED <<word, rings, queue, outstanding, flags, at, caller, faults>>

(* MergeSinkNode::shuttle: the rows every ring has are handed out, less    *)
(* the ones above the window, and every producer is tugged.                *)
SinkReady == Min({picks_ready(m) : m \in Feeds(Sink)})
Unwound == CHOOSE h \in {head[m] : m \in Feeds(Sink)} : TRUE
Dropped(n) == IF Unwound >= Discard THEN 0 ELSE Min({Discard - Unwound, n})

SinkPass(w) ==
  /\ In(w, "pass") /\ Top(w).node = Sink
  /\ seen' = seen + SinkReady - Dropped(SinkReady)
  /\ head' = [m \in Makers |-> IF m \in Feeds(Sink) THEN head[m] + SinkReady ELSE head[m]]
  /\ stack' = [stack EXCEPT ![w][1].step = "tugs",
                            ![w][1].tugs = IF SinkReady = 0 THEN {} ELSE Feeds(Sink)]
  /\ UNCHANGED <<word, tail, block, queue, outstanding, flags, at, caller, faults>>

(* A pass panics: the whole stack unwinds to treadle_loop, which reports   *)
(* it.  No bit is given back and outstanding is not decremented.           *)
Panic(w) ==
  /\ In(w, "pass") /\ faults < MaxFaults
  /\ faults' = faults + 1
  /\ stack' = [stack EXCEPT ![w] = << >>]
  /\ at' = [at EXCEPT ![w] = "fail"]
  /\ UNCHANGED <<word, rings, queue, outstanding, flags, caller>>

-----------------------------------------------------------------------------
(* Ctx::tug: the compare-exchange. *)
TugPeer(w) ==
  /\ In(w, "tugs")
  /\ \E n \in Top(w).tugs :
       /\ Tug(n)
       /\ stack' = [stack EXCEPT ![w][1].tugs = @ \ {n},
                                 ![w][1].step = IF Wins(n) THEN "count" ELSE "tugs",
                                 ![w][1].won = IF Wins(n) THEN n ELSE None]
  /\ UNCHANGED <<rings, queue, outstanding, flags, at, caller, faults>>

(* Bug: the win is not counted. *)
BugCount(w) ==
  /\ In(w, "count")
  /\ Go(w, "hand")
  /\ UNCHANGED <<word, rings, queue, outstanding, flags, at, caller, faults>>

(* Ctx::tug: the node counts as outstanding before anyone can run it. *)
Count(w) ==
  /\ In(w, "count")
  /\ outstanding' = outstanding + 1
  /\ Go(w, "hand")
  /\ UNCHANGED <<word, rings, queue, flags, at, caller, faults>>

(* Bug: the chain is not bounded. *)
BugChains(w) == Top(w).chain = None

(* Ctx::tug: the first win of a pass that is not too deep is chained, any  *)
(* other is spooled.                                                       *)
Chains(w) == Len(stack[w]) - 1 < ChainDepthCap /\ Top(w).chain = None

Hand(w) ==
  LET n == Top(w).won
  IN /\ In(w, "hand")
     /\ \/ /\ Chains(w)
           /\ stack' = [stack EXCEPT ![w][1].step = "tugs", ![w][1].won = None,
                                     ![w][1].chain = n]
           /\ UNCHANGED queue
        \/ /\ ~Chains(w)
           /\ queue' = Append(queue, n)
           /\ stack' = [stack EXCEPT ![w][1].step = "notify", ![w][1].won = None]
     /\ UNCHANGED <<word, rings, outstanding, flags, at, caller, faults>>

(* spool: notify_one, after the lock is dropped. *)
Notify(w) ==
  /\ In(w, "notify")
  /\ WakeOne
  /\ Go(w, "tugs")
  /\ UNCHANGED <<word, rings, queue, outstanding, flags, caller, faults>>

(* ply_node: the chained successor runs to its end, one frame deeper. *)
EndPass(w) ==
  LET f == Top(w)
      ended == [f EXCEPT !.step = "tie", !.chain = None]
  IN /\ In(w, "tugs") /\ f.tugs = {}
     /\ stack' = [stack EXCEPT ![w] = IF f.chain = None THEN <<ended>> \o Tail(@)
                                      ELSE <<Frame(f.chain), ended>> \o Tail(@)]
     /\ UNCHANGED <<word, rings, queue, outstanding, flags, at, caller, faults>>

(* Bug: the tie-off does not look at DIRTY. *)
BugTieOff(w) ==
  /\ In(w, "tie")
  /\ word' = [word EXCEPT ![Top(w).node] = {}]
  /\ Go(w, "leave")
  /\ UNCHANGED <<rings, queue, outstanding, flags, at, caller, faults>>

(* ply_node: try_tie_off ends the call unless a tug raced in. *)
TieOff(w) ==
  LET n == Top(w).node
      again == DIRTY \in word[n]
  IN /\ In(w, "tie")
     /\ word' = [word EXCEPT ![n] = IF again THEN @ ELSE @ \ {SCHEDULED}]
     /\ Go(w, IF again THEN "shed" ELSE "leave")
     /\ UNCHANGED <<rings, queue, outstanding, flags, at, caller, faults>>

(* ply_node: the last one out signals done_cv under the lock. *)
Leave(w) ==
  /\ In(w, "leave")
  /\ outstanding' = outstanding - 1
  /\ IF outstanding = 1 THEN Go(w, "still")
                        ELSE stack' = [stack EXCEPT ![w] = Tail(@)]
  /\ UNCHANGED <<word, rings, queue, flags, at, caller, faults>>

SignalStill(w) ==
  /\ In(w, "still")
  /\ main' = IF main = "wait" THEN "await" ELSE main
  /\ stack' = [stack EXCEPT ![w] = Tail(@)]
  /\ UNCHANGED <<word, rings, queue, outstanding, flags, at, kicks, kicked, result, faults>>

(* Inner::fail, in its four steps: the message (the first one stays), the  *)
(* failed flag, the shutdown flag, and the two notify_all under the lock.  *)
Fail(w) ==
  /\ \/ /\ at[w] = "fail"
        /\ failure' = IF failure = None THEN w ELSE failure
        /\ at' = [at EXCEPT ![w] = "flag"]
        /\ UNCHANGED <<failed, shutdown, main>>
     \/ /\ at[w] = "flag"
        /\ failed' = TRUE
        /\ at' = [at EXCEPT ![w] = "stop"]
        /\ UNCHANGED <<failure, shutdown, main>>
     \/ /\ at[w] = "stop"
        /\ shutdown' = TRUE
        /\ at' = [at EXCEPT ![w] = "wake"]
        /\ UNCHANGED <<failure, failed, main>>
     \/ /\ at[w] = "wake"
        /\ at' = [v \in Workers |-> IF v = w \/ v \in Parked THEN "loop" ELSE at[v]]
        /\ main' = IF main = "wait" THEN "await" ELSE main
        /\ UNCHANGED flags
  /\ UNCHANGED <<word, rings, queue, outstanding, stack, kicks, kicked, result, faults>>

-----------------------------------------------------------------------------
(* WeftDecoder::weave: Runtime::tug of every subband node. *)
Kick ==
  /\ main = "kick" /\ kicks # << >>
  /\ Tug(Head(kicks))
  /\ kicks' = Tail(kicks)
  /\ IF Wins(Head(kicks)) THEN main' = "count" /\ kicked' = Head(kicks)
                          ELSE UNCHANGED <<main, kicked>>
  /\ UNCHANGED <<rings, queue, outstanding, flags, stack, at, result, faults>>

KickCount ==
  /\ main = "count"
  /\ outstanding' = outstanding + 1
  /\ main' = "spool"
  /\ UNCHANGED <<word, rings, queue, flags, stack, at, kicks, kicked, result, faults>>

KickSpool ==
  /\ main = "spool"
  /\ queue' = Append(queue, kicked)
  /\ main' = "notify" /\ kicked' = None
  /\ UNCHANGED <<word, rings, outstanding, flags, stack, at, kicks, result, faults>>

(* Bug: the external tug spools without notifying. *)
BugKickNotify ==
  /\ main = "notify"
  /\ main' = "kick"
  /\ UNCHANGED <<word, rings, queue, outstanding, flags, stack, at, kicks, kicked, result, faults>>

KickNotify ==
  /\ main = "notify"
  /\ WakeOne
  /\ main' = "kick"
  /\ UNCHANGED <<word, rings, queue, outstanding, flags, stack, kicks, kicked, result, faults>>

(* await_stillness, under the queue lock. *)
Await ==
  /\ \/ main = "kick" /\ kicks = << >>
     \/ main = "await"
  /\ main' = IF outstanding # 0 /\ ~failed THEN "wait" ELSE "report"
  /\ UNCHANGED <<word, rings, queue, outstanding, flags, stack, at, kicks, kicked, result, faults>>

Report ==
  /\ main = "report"
  /\ result' = IF failed THEN "err" ELSE "ok"
  /\ main' = "drop"
  /\ UNCHANGED <<word, rings, queue, outstanding, flags, stack, at, kicks, kicked, faults>>

(* Drop for Runtime: stop the workers, wake them, join them. *)
Drop ==
  /\ main = "drop"
  /\ shutdown' = TRUE
  /\ main' = "rouse"
  /\ UNCHANGED <<word, rings, queue, outstanding, failed, failure, stack, at, kicks,
                 kicked, result, faults>>

Rouse ==
  /\ main = "rouse"
  /\ at' = [w \in Workers |-> IF w \in Parked THEN "loop" ELSE at[w]]
  /\ main' = "join"
  /\ UNCHANGED <<word, rings, queue, outstanding, flags, stack, kicks, kicked, result, faults>>

Join ==
  /\ main = "join" /\ \A w \in Workers : at[w] = "exit"
  /\ main' = "joined"
  /\ UNCHANGED <<word, rings, queue, outstanding, flags, stack, at, kicks, kicked, result, faults>>

Joined == main = "joined" /\ UNCHANGED vars

WorkerStep(w) ==
  \/ Treadle(w) \/ OpenShed(w)
  \/ WeaveBlockRow(w) \/ SubbandRests(w) \/ BlockRowFails(w)
  \/ SkipRow(w) \/ Pack(w) \/ DrawRow(w) \/ LevelRests(w) \/ SinkPass(w) \/ Panic(w)
  \/ TugPeer(w) \/ Count(w) \/ Hand(w) \/ Notify(w) \/ EndPass(w)
  \/ TieOff(w) \/ Leave(w) \/ SignalStill(w) \/ Fail(w)
MainStep == Kick \/ KickCount \/ KickSpool \/ KickNotify \/ Await \/ Report \/ Drop \/ Rouse \/ Join

Next == (\E w \in Workers : WorkerStep(w)) \/ MainStep \/ Joined

Spec == Init /\ [][Next]_vars
FairSpec == Spec /\ WF_vars(MainStep) /\ \A w \in Workers : WF_vars(WorkerStep(w))

-----------------------------------------------------------------------------
Steps == {"shed", "skip", "pass", "tugs", "count", "hand", "notify", "tie", "leave", "still"}

(* The bits, counters, stacks and threads hold what they can hold, and a   *)
(* chain is never deeper than CHAIN_DEPTH_CAP allows.                      *)
TypeOK ==
  /\ word \in [Nodes -> {{}, {SCHEDULED}, {SCHEDULED, DIRTY}}]
  /\ head \in [Makers -> Nat] /\ tail \in [Makers -> Nat]
  /\ \A n \in Makers : picks_ready(n) \in 0..Span[n]
  /\ \A n \in Leaves : block[n] \in 0..Len(Stripes[n])
  /\ seen \in 0..RowsTotal /\ outstanding \in Nat
  /\ \A i \in 1..Len(queue) : queue[i] \in Nodes
  /\ shutdown \in BOOLEAN /\ failed \in BOOLEAN /\ failure \in Workers \cup {None}
  /\ \A w \in Workers :
       /\ Len(stack[w]) <= ChainDepthCap + 1
       /\ \A i \in 1..Len(stack[w]) :
            /\ stack[w][i].node \in Nodes /\ stack[w][i].step \in Steps
            /\ stack[w][i].tugs \subseteq Nodes
            /\ {stack[w][i].won, stack[w][i].chain} \subseteq Nodes \cup {None}
  /\ at \in [Workers -> {"loop", "wait", "exit", "fail", "flag", "stop", "wake"}]
  /\ main \in {"kick", "count", "spool", "notify", "await", "wait", "report",
               "drop", "rouse", "join", "joined"}
  /\ \A i \in 1..Len(kicks) : kicks[i] \in Leaves
  /\ kicked \in Leaves \cup {None}
  /\ result \in {None, "ok", "err"} /\ faults \in 0..MaxFaults

Calls == {<<w, i>> \in Workers \X (1..ChainDepthCap + 1) : i <= Len(stack[w])}
Call(c) == stack[c[1]][c[2]]

(* The places where somebody owns a node's SCHEDULED bit: a hand-off in    *)
(* progress, the queue, a chain that waits for its pass to end, a call of  *)
(* ply_node that has not tied off.                                         *)
Held(n) ==
  Cardinality({i \in 1..Len(queue) : queue[i] = n})
  + (IF kicked = n THEN 1 ELSE 0)
  + Cardinality({c \in Calls : Call(c).won = n})
  + Cardinality({c \in Calls : Call(c).chain = n})
  + Cardinality({c \in Calls : Call(c).node = n /\ Call(c).step \notin {"leave", "still"}})

(* A node's pass state belongs to one thread at a time, also while nodes   *)
(* move between the queue, the chains and the workers (the safety comment  *)
(* of Slot), and the bit is held only where somebody will give it back,    *)
(* unless a panic stranded it.                                             *)
OneOwner ==
  \A n \in Nodes :
    /\ Held(n) <= 1
    /\ Held(n) = 1 => SCHEDULED \in word[n]
    /\ SCHEDULED \in word[n] => Held(n) = 1 \/ faults > 0

(* outstanding counts the nodes that are queued, chained or running (the   *)
(* comment of Inner), up to the wins not counted yet and the calls that    *)
(* have tied off and not left: it is zero only when the graph is still.    *)
OutstandingExact ==
  faults = 0 =>
    outstanding = Cardinality({n \in Nodes : Held(n) = 1})
                  + Cardinality({c \in Calls : Call(c).step = "leave"})
                  - Cardinality({c \in Calls : Call(c).step = "count"})
                  - (IF main = "count" THEN 1 ELSE 0)

(* await_stillness returns Ok only when the whole image has been handed    *)
(* out and nothing is queued or running (the last call out may still have  *)
(* to signal), and Err only with a message; a failure that was reported is *)
(* never passed over.                                                      *)
StillnessSound ==
  /\ result = "ok" => /\ seen = RowsTotal
                      /\ failure = None
                      /\ queue = << >>
                      /\ \A c \in Calls : Call(c).step = "still"
  /\ result = "err" => failure # None

(* A queued node never waits for a pool whose workers are all parked,      *)
(* unless somebody is about to notify it.                                  *)
PoolAwake ==
  queue # << >> =>
    \/ \E w \in Workers : at[w] # "wait"
    \/ main = "notify"

(* Rows already handed out are never handed out again or taken back, and   *)
(* after the caller has its answer no row is handed out, unless the graph  *)
(* was failing.                                                            *)
NoRowAfterStillness ==
  [][seen' >= seen /\ (result = "ok" => seen' = seen)]_vars

(* weave returns and the runtime is dropped, whatever fails on the way. *)
WeaveReturns == <>(main = "joined")
=============================================================================
