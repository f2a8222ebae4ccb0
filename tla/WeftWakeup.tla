----------------------------- MODULE WeftWakeup -----------------------------
(***************************************************************************)
(* The wakeup word of one weft node (mercury/src/weft/node.rs), driven the *)
(* way rt.rs drives it: producers publish rows into their own SPSC ring    *)
(* and tug the node; whoever wins SCHEDULED hands the node to a worker;    *)
(* the worker opens the shed, makes a pass over the rings, and ties off.   *)
(*                                                                         *)
(* The word and the ring tails are C11 atomics, so the model is not        *)
(* sequentially consistent.  A ring tail is a monotonic counter, hence its *)
(* value is its own timestamp, and what a thread is guaranteed to see of   *)
(* the tails is a vector of counters, its view: an Acquire load may return *)
(* any value from the view up to the newest one.  Every write of the word  *)
(* is an AcqRel read-modify-write, which joins the view kept with the word *)
(* and the view of the thread.  A Relaxed load of the word may return any  *)
(* value the word has had since the thread last wrote it (readable).       *)
(***************************************************************************)
EXTENDS Integers, Sequences

CONSTANTS Producers,   \* nodes that feed this one, each over its own ring
          Workers,     \* pool threads that may run a pass of the node
          MaxRows      \* rows each producer publishes

ASSUME WakeupAssumption == Producers \cap Workers = {} /\ MaxRows \in Nat

VARIABLES word,      \* the NodeState bits, a subset of {SCHEDULED, DIRTY}
          wordView,  \* tails made visible by acquiring the word
          readable,  \* per thread: values a Relaxed load of the word may return
          tail,      \* per producer: rows published to its ring
          consumed,  \* per producer: rows the passes have taken from its ring
          pc, loaded, view,
          spooled    \* views of the hand-offs a win has queued for a worker

vars == <<word, wordView, readable, tail, consumed, pc, loaded, view, spooled>>

SCHEDULED == "SCHEDULED"
DIRTY == "DIRTY"

Threads == Producers \cup Workers
Views == [Producers -> 0..MaxRows]
NoRows == [p \in Producers |-> 0]
Join(u, v) == [p \in Producers |-> IF u[p] > v[p] THEN u[p] ELSE v[p]]

(* NodeState::warp: nothing published, nobody scheduled. *)
Init ==
  /\ word = {}
  /\ wordView = NoRows
  /\ readable = [t \in Threads |-> {{}}]
  /\ tail = NoRows
  /\ consumed = NoRows
  /\ pc = [t \in Threads |-> IF t \in Producers THEN "weave" ELSE "idle"]
  /\ loaded = [t \in Threads |-> {}]
  /\ view = [t \in Threads |-> NoRows]
  /\ spooled = << >>

(* An AcqRel read-modify-write of the word by thread t. *)
Swap(t, next) ==
  LET joined == Join(wordView, view[t])
  IN /\ word' = next
     /\ wordView' = joined
     /\ view' = [view EXCEPT ![t] = joined]
     /\ readable' = [u \in Threads |-> IF u = t THEN {next}
                                       ELSE readable[u] \cup {next}]

(* Producer::beat: the Release store of the tail, followed by the tug. *)
Beat(p) ==
  /\ pc[p] = "weave"
  /\ tail[p] < MaxRows
  /\ tail' = [tail EXCEPT ![p] = @ + 1]
  /\ view' = [view EXCEPT ![p][p] = tail[p] + 1]
  /\ pc' = [pc EXCEPT ![p] = "tug"]
  /\ UNCHANGED <<word, wordView, readable, consumed, loaded, spooled>>

(* Bug: tug answers from the load when DIRTY already looks set, the early  *)
(* return that docs/weft-design.md section 4 still shows.                  *)
BugTugLoad(p) ==
  /\ pc[p] = "tug"
  /\ \E s \in readable[p] :
       /\ loaded' = [loaded EXCEPT ![p] = s]
       /\ pc' = [pc EXCEPT ![p] = IF DIRTY \in s THEN "weave" ELSE "swap"]
  /\ UNCHANGED <<word, wordView, readable, tail, consumed, view, spooled>>

(* tug: the Relaxed load that opens the loop. *)
TugLoad(p) ==
  /\ pc[p] = "tug"
  /\ \E s \in readable[p] : loaded' = [loaded EXCEPT ![p] = s]
  /\ pc' = [pc EXCEPT ![p] = "swap"]
  /\ UNCHANGED <<word, wordView, readable, tail, consumed, view, spooled>>

(* tug: a compare-exchange that meets another value takes that value. *)
TugRetry(p) ==
  /\ pc[p] = "swap"
  /\ word # loaded[p]
  /\ loaded' = [loaded EXCEPT ![p] = word]
  /\ UNCHANGED <<word, wordView, readable, tail, consumed, pc, view, spooled>>

(* tug: the compare-exchange goes through even when DIRTY looks set, and   *)
(* the thread that turns SCHEDULED on hands the node over.                 *)
TugSwap(p) ==
  /\ pc[p] = "swap"
  /\ word = loaded[p]
  /\ IF SCHEDULED \in loaded[p]
       THEN /\ Swap(p, loaded[p] \cup {DIRTY})
            /\ UNCHANGED spooled
       ELSE /\ Swap(p, {SCHEDULED})
            /\ spooled' = Append(spooled, Join(wordView, view[p]))
  /\ pc' = [pc EXCEPT ![p] = "weave"]
  /\ UNCHANGED <<tail, consumed, loaded>>

(* A worker takes the hand-off; the queue mutex carries the winner's view. *)
Take(w) ==
  /\ pc[w] = "idle"
  /\ spooled # << >>
  /\ view' = [view EXCEPT ![w] = Join(view[w], Head(spooled))]
  /\ spooled' = Tail(spooled)
  /\ pc' = [pc EXCEPT ![w] = "shed"]
  /\ UNCHANGED <<word, wordView, readable, tail, consumed, loaded>>

(* Bug: open_shed keeps DIRTY and clears the rest (the mask not inverted). *)
BugOpenShedMask(w) ==
  /\ pc[w] = "shed"
  /\ Swap(w, word \cap {DIRTY})
  /\ pc' = [pc EXCEPT ![w] = "pass"]
  /\ UNCHANGED <<tail, consumed, loaded, spooled>>

(* Bug: open_shed stores zero, giving SCHEDULED away during the pass. *)
BugOpenShedStore(w) ==
  /\ pc[w] = "shed"
  /\ Swap(w, {})
  /\ pc' = [pc EXCEPT ![w] = "pass"]
  /\ UNCHANGED <<tail, consumed, loaded, spooled>>

(* open_shed: DIRTY is cleared right before the pass. *)
OpenShed(w) ==
  /\ pc[w] = "shed"
  /\ Swap(w, word \ {DIRTY})
  /\ pc' = [pc EXCEPT ![w] = "pass"]
  /\ UNCHANGED <<tail, consumed, loaded, spooled>>

(* The pass: picks_ready loads every tail with Acquire, and the rows it    *)
(* reports are unwound.                                                    *)
Shuttle(w) ==
  /\ pc[w] = "pass"
  /\ \E seen \in Views :
       /\ \A p \in Producers : view[w][p] <= seen[p] /\ seen[p] <= tail[p]
       /\ consumed' = seen
       /\ view' = [view EXCEPT ![w] = seen]
  /\ pc' = [pc EXCEPT ![w] = "tie"]
  /\ UNCHANGED <<word, wordView, readable, tail, loaded, spooled>>

(* try_tie_off: the Relaxed load. *)
TieLoad(w) ==
  /\ pc[w] = "tie"
  /\ \E s \in readable[w] : loaded' = [loaded EXCEPT ![w] = s]
  /\ pc' = [pc EXCEPT ![w] = "tying"]
  /\ UNCHANGED <<word, wordView, readable, tail, consumed, view, spooled>>

(* try_tie_off returns false: a tug raced in, so another pass is due. *)
TieAgain(w) ==
  /\ pc[w] = "tying"
  /\ DIRTY \in loaded[w]
  /\ pc' = [pc EXCEPT ![w] = "shed"]
  /\ UNCHANGED <<word, wordView, readable, tail, consumed, loaded, view, spooled>>

(* try_tie_off: the compare-exchange met another value. *)
TieRetry(w) ==
  /\ pc[w] = "tying"
  /\ DIRTY \notin loaded[w]
  /\ word # loaded[w]
  /\ loaded' = [loaded EXCEPT ![w] = word]
  /\ UNCHANGED <<word, wordView, readable, tail, consumed, pc, view, spooled>>

(* Bug: the compare-exchange of try_tie_off is Relaxed, so the next owner  *)
(* does not inherit what this pass saw.                                    *)
BugTieOff(w) ==
  /\ pc[w] = "tying"
  /\ DIRTY \notin loaded[w]
  /\ word = loaded[w]
  /\ word' = loaded[w] \ {SCHEDULED}
  /\ readable' = [u \in Threads |-> IF u = w THEN {word'}
                                    ELSE readable[u] \cup {word'}]
  /\ pc' = [pc EXCEPT ![w] = "idle"]
  /\ UNCHANGED <<wordView, view, tail, consumed, loaded, spooled>>

(* try_tie_off returns true: SCHEDULED is cleared and the runner leaves. *)
TieOff(w) ==
  /\ pc[w] = "tying"
  /\ DIRTY \notin loaded[w]
  /\ word = loaded[w]
  /\ Swap(w, loaded[w] \ {SCHEDULED})
  /\ pc' = [pc EXCEPT ![w] = "idle"]
  /\ UNCHANGED <<tail, consumed, loaded, spooled>>

ProducerStep(p) == Beat(p) \/ TugLoad(p) \/ TugRetry(p) \/ TugSwap(p)
WorkerStep(w) ==
  \/ Take(w) \/ OpenShed(w) \/ Shuttle(w)
  \/ TieLoad(w) \/ TieAgain(w) \/ TieRetry(w) \/ TieOff(w)

(* Every row has been published, tugged and taken, and the pool is idle. *)
Still ==
  /\ \A p \in Producers : pc[p] = "weave" /\ tail[p] = MaxRows
  /\ \A w \in Workers : pc[w] = "idle"
  /\ spooled = << >>

Rest == Still /\ UNCHANGED vars

Next == \/ \E p \in Producers : ProducerStep(p)
        \/ \E w \in Workers : WorkerStep(w)
        \/ Rest

Fairness == /\ \A p \in Producers : WF_vars(ProducerStep(p))
            /\ \A w \in Workers : WF_vars(WorkerStep(w))

Spec == Init /\ [][Next]_vars
FairSpec == Spec /\ Fairness

-----------------------------------------------------------------------------
Words == {{}, {SCHEDULED}, {SCHEDULED, DIRTY}}
Running(w) == pc[w] # "idle"

(* The bits, counters, views and program counters are what the code can    *)
(* hold; DIRTY never stands without SCHEDULED (the debug_assert of tug).   *)
TypeOK ==
  /\ word \in Words
  /\ wordView \in Views /\ tail \in Views /\ consumed \in Views
  /\ readable \in [Threads -> SUBSET Words]
  /\ loaded \in [Threads -> Words]
  /\ view \in [Threads -> Views]
  /\ spooled \in Seq(Views)
  /\ pc \in [Threads -> {"weave", "tug", "swap", "idle",
                         "shed", "pass", "tie", "tying"}]
  /\ \A p \in Producers : pc[p] \in {"weave", "tug", "swap"}
  /\ \A w \in Workers : pc[w] \in {"idle", "shed", "pass", "tie", "tying"}

(* Exclusive execution: SCHEDULED has exactly one owner, a queued hand-off *)
(* or one running worker, so two passes of the node never overlap          *)
(* (node.rs, "at most one slice of a node runs at a time") and no pass     *)
(* runs without the bit (the debug_asserts of open_shed and try_tie_off).  *)
ExclusivePass ==
  /\ \A v, w \in Workers : Running(v) /\ Running(w) => v = w
  /\ spooled # << >> => Len(spooled) = 1 /\ \A w \in Workers : ~Running(w)
  /\ SCHEDULED \in word <=> (spooled # << >> \/ \E w \in Workers : Running(w))

(* No lost wakeup: when nobody holds SCHEDULED, every row of a producer    *)
(* that is not in the middle of a tug has been taken by a pass.            *)
NoLostWakeup ==
  SCHEDULED \notin word =>
    \A p \in Producers : pc[p] = "weave" => consumed[p] = tail[p]

(* A later pass never sees an older tail than an earlier one: picks_ready  *)
(* (tail - head) cannot underflow when the node moves between workers.     *)
PassesNeverRewind == [][\A p \in Producers : consumed[p] <= consumed'[p]]_vars

(* Every published row is eventually taken by a pass. *)
EveryRowTaken ==
  \A p \in Producers : \A n \in 1..MaxRows : tail[p] = n ~> consumed[p] >= n
=============================================================================
