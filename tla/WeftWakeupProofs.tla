-------------------------- MODULE WeftWakeupProofs --------------------------
(***************************************************************************)
(* Proofs about the wakeup word for any set of producers, any pool of      *)
(* workers and any number of rows: exclusive execution, no lost wakeup,    *)
(* and that a pass never sees older ring tails than the pass before it.    *)
(***************************************************************************)
EXTENDS WeftWakeup, TLAPS

Below(u, v) == \A p \in Producers : u[p] <= v[p]

(* No view runs ahead of the tails, and a producer knows its own tail. *)
ViewsBounded ==
  /\ Below(wordView, tail) /\ Below(consumed, tail)
  /\ \A t \in Threads : Below(view[t], tail)
  /\ \A i \in 1..Len(spooled) : Below(spooled[i], tail)
  /\ \A p \in Producers : view[p][p] = tail[p]

(* A producer that is not inside a tug has released its rows to the word. *)
Released == \A p \in Producers : pc[p] = "weave" => wordView[p] = tail[p]

(* While DIRTY is clear, the owner of the node knows, or its pass has      *)
(* taken, every row released to the word; with no owner all are taken.     *)
Pending ==
  /\ SCHEDULED \notin word => Below(wordView, consumed)
  /\ DIRTY \notin word =>
       \A w \in Workers :
         /\ pc[w] = "pass" => Below(wordView, view[w])
         /\ pc[w] \in {"tie", "tying"} => Below(wordView, consumed)

(* What has been taken is known to whoever runs the node next. *)
Inherited ==
  /\ SCHEDULED \notin word => Below(consumed, wordView)
  /\ \A i \in 1..Len(spooled) : Below(consumed, spooled[i])
  /\ \A w \in Workers : Running(w) => Below(consumed, view[w])

(* After its pass, the owner knows of nothing that it has not taken. *)
Taken == \A w \in Workers : pc[w] \in {"tie", "tying"} => view[w] = consumed

IInv == /\ TypeOK /\ ExclusivePass /\ ViewsBounded
        /\ Released /\ Pending /\ Inherited /\ Taken

-----------------------------------------------------------------------------
(* Join is the least upper bound of two views. *)
LEMMA JoinBounds ==
  ASSUME NEW u \in Views, NEW v \in Views
  PROVE  /\ Join(u, v) \in Views
         /\ Below(u, Join(u, v)) /\ Below(v, Join(u, v))
         /\ \A b \in Views : Below(u, b) /\ Below(v, b) => Below(Join(u, v), b)
  BY WakeupAssumption DEF Join, Views, Below

(* Below is transitive. *)
LEMMA BelowTrans ==
  ASSUME NEW u \in Views, NEW v \in Views, NEW x \in Views,
         Below(u, v), Below(v, x)
  PROVE  Below(u, x)
  <1> SUFFICES ASSUME NEW p \in Producers PROVE u[p] <= x[p]
    BY DEF Below
  <1>1. u[p] \in Int /\ v[p] \in Int /\ x[p] \in Int
    BY WakeupAssumption DEF Views
  <1>2. u[p] <= v[p] /\ v[p] <= x[p]
    BY DEF Below
  <1> QED
    BY <1>1, <1>2

(* The bits of the word are told apart. *)
LEMMA WordBits ==
  /\ SCHEDULED # DIRTY
  /\ \A s \in Words : /\ s \cup {DIRTY} \in Words \/ SCHEDULED \notin s
                      /\ s \ {DIRTY} \in Words
                      /\ DIRTY \notin s => s \ {SCHEDULED} \in Words
                      /\ DIRTY \in s => SCHEDULED \in s
  BY DEF SCHEDULED, DIRTY, Words

(* The initial state satisfies the inductive invariant. *)
LEMMA InitInv == Init => IInv
  <1> SUFFICES ASSUME Init PROVE IInv
    OBVIOUS
  <1>1. NoRows \in Views /\ {} \in Words
    BY WakeupAssumption DEF NoRows, Views, Words
  <1>2. TypeOK
    BY <1>1, WakeupAssumption DEF Init, TypeOK, Threads
  <1>3. ExclusivePass
    BY WakeupAssumption DEF Init, ExclusivePass, Running, Threads
  <1>4. ViewsBounded /\ Released /\ Pending /\ Inherited /\ Taken
    BY WakeupAssumption DEF Init, ViewsBounded, Released, Pending, Inherited, Below,
       Taken, NoRows, Threads, Running
  <1> QED
    BY <1>2, <1>3, <1>4 DEF IInv

(* Publishing a row disturbs nothing the owner of the node relies on. *)
LEMMA BeatInv == ASSUME IInv, NEW p \in Producers, Beat(p) PROVE IInv'
  <1> USE DEF IInv
  <1>1. tail' \in Views /\ Below(tail, tail')
    BY WakeupAssumption DEF Beat, TypeOK, Views, Below
  <1>2. TypeOK'
    BY <1>1, WakeupAssumption DEF Beat, TypeOK, Threads, Views
  <1>3. ExclusivePass'
    BY WakeupAssumption DEF Beat, ExclusivePass, Running, TypeOK, Threads
  <1>4. ViewsBounded'
    <2>1. view' = [view EXCEPT ![p] = [view[p] EXCEPT ![p] = tail[p] + 1]]
      BY DEF Beat
    <2>2. \A t \in Threads : Below(view'[t], tail')
      <3> TAKE t \in Threads
      <3>1. view[t] \in Views /\ tail \in Views /\ Below(view[t], tail')
        BY <1>1, BelowTrans DEF ViewsBounded, TypeOK
      <3>2. tail' = [tail EXCEPT ![p] = tail[p] + 1]
        BY DEF Beat
      <3>3. CASE t = p
        BY <2>1, <3>1, <3>2, <3>3 DEF TypeOK, Below, Views, Threads
      <3>4. CASE t # p
        BY <2>1, <3>1, <3>4 DEF TypeOK
      <3> QED
        BY <3>3, <3>4
    <2>3. \A q \in Producers : view'[q][q] = tail'[q]
      BY <1>1, <2>1 DEF Beat, ViewsBounded, TypeOK, Threads, Views
    <2>4. \A i \in 1..Len(spooled) : spooled[i] \in Views
      BY DEF TypeOK
    <2>5. /\ Below(wordView, tail') /\ Below(consumed, tail')
          /\ \A i \in 1..Len(spooled) : Below(spooled[i], tail')
      BY <1>1, <2>4, BelowTrans DEF ViewsBounded, TypeOK
    <2> QED
      BY <2>2, <2>3, <2>5 DEF ViewsBounded, Beat
  <1>5. Released'
    BY WakeupAssumption DEF Beat, Released, TypeOK, Threads, Views
  <1>6. Pending' /\ Inherited'
    BY WakeupAssumption DEF Beat, Pending, Inherited, Running, TypeOK, Threads, Below
  <1>7. Taken'
    BY WakeupAssumption DEF Beat, Taken, TypeOK, Threads
  <1> QED
    BY <1>2, <1>3, <1>4, <1>5, <1>6, <1>7

(* The loads and the failed compare-exchanges change only local state. *)
LEMMA LoadInv ==
  ASSUME IInv,
         \/ \E p \in Producers : TugLoad(p) \/ TugRetry(p)
         \/ \E w \in Workers : TieLoad(w) \/ TieAgain(w) \/ TieRetry(w)
  PROVE  IInv'
  <1> USE DEF IInv
  <1>1. ASSUME NEW p \in Producers, TugLoad(p) \/ TugRetry(p) PROVE IInv'
    <2>1. TypeOK'
      BY <1>1, WakeupAssumption DEF TugLoad, TugRetry, TypeOK, Threads
    <2>2. ExclusivePass'
      BY <1>1, WakeupAssumption DEF TugLoad, TugRetry, ExclusivePass, Running, TypeOK, Threads
    <2>3. ViewsBounded' /\ Released'
      BY <1>1, WakeupAssumption DEF TugLoad, TugRetry, ViewsBounded, Released, TypeOK, Threads, Below
    <2>4. Pending' /\ Inherited' /\ Taken'
      BY <1>1, WakeupAssumption DEF TugLoad, TugRetry, Pending, Inherited, Taken, Running, TypeOK, Threads, Below
    <2> QED
      BY <2>1, <2>2, <2>3, <2>4
  <1>2. ASSUME NEW w \in Workers, TieLoad(w) \/ TieAgain(w) \/ TieRetry(w) PROVE IInv'
    <2>1. TypeOK'
      BY <1>2, WakeupAssumption DEF TieLoad, TieAgain, TieRetry, TypeOK, Threads
    <2>2. ExclusivePass'
      BY <1>2, WakeupAssumption DEF TieLoad, TieAgain, TieRetry, ExclusivePass, Running, TypeOK, Threads
    <2>3. ViewsBounded' /\ Released'
      BY <1>2, WakeupAssumption DEF TieLoad, TieAgain, TieRetry, ViewsBounded, Released, TypeOK, Threads, Below
    <2>4. Pending' /\ Inherited' /\ Taken'
      BY <1>2, WakeupAssumption DEF TieLoad, TieAgain, TieRetry, Pending, Inherited, Taken, Running, TypeOK, Threads, Below
    <2> QED
      BY <2>1, <2>2, <2>3, <2>4
  <1> QED
    BY <1>1, <1>2

(* An AcqRel read-modify-write leaves the thread and the word with the     *)
(* join of their views, which no tail lies below.                          *)
LEMMA SwapFacts ==
  ASSUME TypeOK, ViewsBounded, NEW t \in Threads, NEW next \in Words, Swap(t, next)
  PROVE  /\ word' = next
         /\ wordView' \in Views /\ view' \in [Threads -> Views]
         /\ readable' \in [Threads -> SUBSET Words]
         /\ wordView' = Join(wordView, view[t])
         /\ Below(wordView, wordView') /\ Below(view[t], wordView')
         /\ Below(wordView', tail)
         /\ view'[t] = wordView'
         /\ \A u \in Threads : u # t => view'[u] = view[u]
  <1>1. wordView \in Views /\ view[t] \in Views /\ tail \in Views
    BY DEF TypeOK
  <1>2. wordView' = Join(wordView, view[t]) /\ word' = next
    BY DEF Swap
  <1>3. /\ wordView' \in Views
        /\ Below(wordView, wordView') /\ Below(view[t], wordView')
    BY <1>1, <1>2, JoinBounds
  <1>4. Below(wordView', tail)
    BY <1>1, <1>2, JoinBounds DEF ViewsBounded
  <1>5. view' = [view EXCEPT ![t] = wordView']
    BY <1>2 DEF Swap
  <1>6. /\ view' \in [Threads -> Views] /\ view'[t] = wordView'
        /\ \A u \in Threads : u # t => view'[u] = view[u]
    BY <1>3, <1>5 DEF TypeOK
  <1>7. readable' \in [Threads -> SUBSET Words]
    BY DEF Swap, TypeOK
  <1> QED
    BY <1>2, <1>3, <1>4, <1>6, <1>7

(* A worker's read-modify-write keeps what producers have released. *)
LEMMA SwapKeepsReleased ==
  ASSUME TypeOK, Released, NEW w \in Workers,
         wordView' \in Views, Below(wordView, wordView'), Below(wordView', tail),
         tail' = tail, pc' = [pc EXCEPT ![w] = pc'[w]]
  PROVE  Released'
  <1> SUFFICES ASSUME NEW p \in Producers, pc'[p] = "weave"
               PROVE  wordView'[p] = tail[p]
    BY DEF Released
  <1>1. wordView[p] = tail[p]
    BY WakeupAssumption DEF Released, TypeOK, Threads
  <1>2. /\ wordView[p] <= wordView'[p] /\ wordView'[p] <= tail[p]
        /\ wordView[p] \in Int /\ wordView'[p] \in Int /\ tail[p] \in Int
    BY WakeupAssumption DEF Below, TypeOK, Views
  <1> QED
    BY <1>1, <1>2

(* A tug releases the producer's rows to the word: either it wins the node *)
(* and queues one hand-off, or it leaves DIRTY for the owner.              *)
LEMMA TugSwapInv == ASSUME IInv, NEW p \in Producers, TugSwap(p) PROVE IInv'
  <1> USE DEF IInv
  <1> DEFINE next == IF SCHEDULED \in word THEN word \cup {DIRTY} ELSE {SCHEDULED}
  <1>1. /\ p \in Threads /\ next \in Words /\ Swap(p, next)
        /\ SCHEDULED \in next
        /\ SCHEDULED \in word => DIRTY \in next
    BY DEF TugSwap, Threads, TypeOK, Words, SCHEDULED, DIRTY
  <1>2. /\ word' = next
        /\ wordView' \in Views /\ view' \in [Threads -> Views]
        /\ readable' \in [Threads -> SUBSET Words]
        /\ wordView' = Join(wordView, view[p])
        /\ Below(wordView, wordView') /\ Below(view[p], wordView')
        /\ Below(wordView', tail)
        /\ view'[p] = wordView'
        /\ \A u \in Threads : u # p => view'[u] = view[u]
    BY <1>1, SwapFacts
  <1>3. spooled' = IF SCHEDULED \in word THEN spooled ELSE Append(spooled, wordView')
    BY <1>2 DEF TugSwap
  <1>4. /\ UNCHANGED <<tail, consumed, loaded>> /\ pc' = [pc EXCEPT ![p] = "weave"]
        /\ p \notin Workers
    BY WakeupAssumption DEF TugSwap
  <1>5. SCHEDULED \notin word => spooled = << >> /\ \A w \in Workers : ~Running(w)
    BY DEF ExclusivePass
  <1>6. TypeOK'
    BY <1>1, <1>2, <1>3, <1>4 DEF TypeOK, Threads
  <1>7. \A w \in Workers : Running(w)' <=> Running(w)
    BY <1>4 DEF Running, TypeOK, Threads
  <1>8. ExclusivePass'
    <2>1. CASE SCHEDULED \in word
      BY <1>1, <1>2, <1>3, <1>7, <2>1 DEF ExclusivePass
    <2>2. CASE SCHEDULED \notin word
      <3>1. spooled' = <<wordView'>>
        BY <1>3, <1>5, <2>2
      <3> QED
        BY <1>1, <1>2, <1>5, <1>7, <2>2, <3>1 DEF ExclusivePass
    <2> QED
      BY <2>1, <2>2
  <1>9. wordView'[p] = tail[p]
    <2>1. view[p][p] = tail[p] /\ tail[p] \in Int /\ wordView'[p] \in Int
      BY <1>2, WakeupAssumption DEF ViewsBounded, TypeOK, Views
    <2>2. tail[p] <= wordView'[p] /\ wordView'[p] <= tail[p]
      BY <1>2, <2>1 DEF Below
    <2> QED
      BY <2>1, <2>2
  <1>10. ViewsBounded'
    <2>1. \A u \in Threads : Below(view'[u], tail)
      BY <1>2 DEF ViewsBounded
    <2>2. \A q \in Producers : view'[q][q] = tail[q]
      BY <1>1, <1>2, <1>9 DEF ViewsBounded, Threads
    <2>3. \A i \in 1..Len(spooled') : Below(spooled'[i], tail)
      <3>1. CASE SCHEDULED \in word
        BY <1>3, <3>1 DEF ViewsBounded
      <3>2. CASE SCHEDULED \notin word
        BY <1>2, <1>3, <1>5, <3>2
      <3> QED
        BY <3>1, <3>2
    <2> QED
      BY <1>2, <1>4, <2>1, <2>2, <2>3 DEF ViewsBounded, Below
  <1>11. Released'
    <2> SUFFICES ASSUME NEW q \in Producers, pc'[q] = "weave"
                 PROVE wordView'[q] = tail[q]
      BY <1>4 DEF Released
    <2>1. CASE q = p
      BY <1>9, <2>1
    <2>2. CASE q # p
      <3>1. wordView[q] = tail[q]
        BY <1>4, <2>2 DEF Released, TypeOK, Threads
      <3>2. /\ wordView[q] <= wordView'[q] /\ wordView'[q] <= tail[q]
            /\ wordView[q] \in Int /\ wordView'[q] \in Int /\ tail[q] \in Int
        BY <1>2, WakeupAssumption DEF Below, TypeOK, Views
      <3> QED
        BY <3>1, <3>2
    <2> QED
      BY <2>1, <2>2
  <1>12. Pending'
    <2>1. SCHEDULED \in word'
      BY <1>1, <1>2
    <2>2. DIRTY \notin word' => \A w \in Workers : pc'[w] = "idle"
      BY <1>1, <1>2, <1>5, <1>7 DEF Running
    <2> QED
      BY <2>1, <2>2 DEF Pending
  <1>13. Inherited'
    <2>1. SCHEDULED \in word'
      BY <1>1, <1>2
    <2>2. ASSUME NEW i \in 1..Len(spooled') PROVE Below(consumed, spooled'[i])
      <3>1. CASE SCHEDULED \in word
        BY <1>3, <2>2, <3>1 DEF Inherited
      <3>2. CASE SCHEDULED \notin word
        <4>1. spooled'[i] = wordView'
          BY <1>3, <1>5, <2>2, <3>2
        <4>2. Below(consumed, wordView)
          BY <3>2 DEF Inherited
        <4> QED
          BY <1>2, <4>1, <4>2, BelowTrans DEF TypeOK
      <3> QED
        BY <3>1, <3>2
    <2>3. ASSUME NEW w \in Workers, Running(w)' PROVE Below(consumed, view'[w])
      BY <1>2, <1>4, <1>7, <2>3 DEF Inherited, Threads
    <2> QED
      BY <1>4, <2>1, <2>2, <2>3 DEF Inherited, Below
  <1>14. Taken'
    BY <1>2, <1>4 DEF Taken, TypeOK, Threads
  <1> QED
    BY <1>6, <1>8, <1>10, <1>11, <1>12, <1>13, <1>14

(* A worker takes the only hand-off and inherits its view. *)
LEMMA TakeInv == ASSUME IInv, NEW w \in Workers, Take(w) PROVE IInv'
  <1> USE DEF IInv
  <1>1. /\ UNCHANGED <<word, wordView, readable, tail, consumed, loaded>>
        /\ pc' = [pc EXCEPT ![w] = "shed"] /\ spooled # << >>
        /\ spooled' = Tail(spooled) /\ w \notin Producers /\ w \in Threads
    BY WakeupAssumption DEF Take, Threads
  <1>2. Len(spooled) = 1 /\ \A v \in Workers : ~Running(v)
    BY <1>1 DEF ExclusivePass
  <1>3. spooled' = << >> /\ Head(spooled) = spooled[1] /\ Head(spooled) \in Views
    BY <1>1, <1>2 DEF TypeOK
  <1> DEFINE joined == Join(view[w], Head(spooled))
  <1>4. /\ joined \in Views /\ Below(Head(spooled), joined)
        /\ Below(joined, tail)
    BY <1>1, <1>2, <1>3, JoinBounds DEF TypeOK, ViewsBounded
  <1>5. view' = [view EXCEPT ![w] = joined]
    BY DEF Take
  <1> HIDE DEF joined
  <1>6. TypeOK'
    BY <1>1, <1>3, <1>4, <1>5 DEF TypeOK
  <1>7. \A v \in Workers : Running(v)' <=> v = w
    BY <1>1, <1>2 DEF Running, TypeOK
  <1>8. SCHEDULED \in word
    BY <1>1 DEF ExclusivePass
  <1>9. ExclusivePass'
    BY <1>1, <1>3, <1>7, <1>8 DEF ExclusivePass
  <1>10. ViewsBounded'
    <2>1. \A t \in Threads : Below(view'[t], tail)
      BY <1>4, <1>5 DEF ViewsBounded, TypeOK
    <2>2. \A p \in Producers : view'[p][p] = tail[p]
      BY <1>1, <1>5 DEF ViewsBounded, TypeOK, Threads
    <2>3. \A i \in 1..Len(spooled') : Below(spooled'[i], tail)
      BY <1>3
    <2> QED
      BY <1>1, <2>1, <2>2, <2>3 DEF ViewsBounded, Below
  <1>11. Released'
    BY <1>1 DEF Released, TypeOK, Threads
  <1>12. Pending'
    <2>1. \A v \in Workers : pc'[v] \notin {"pass", "tie", "tying"}
      BY <1>1, <1>2 DEF Running, TypeOK, Threads
    <2> QED
      BY <1>1, <1>8, <2>1 DEF Pending
  <1>13. Inherited'
    <2>1. Below(consumed, joined)
      BY <1>2, <1>3, <1>4, BelowTrans DEF Inherited, TypeOK
    <2>2. view'[w] = joined
      BY <1>1, <1>5 DEF TypeOK
    <2> QED
      BY <1>1, <1>3, <1>7, <1>8, <2>1, <2>2 DEF Inherited, Below
  <1>14. Taken'
    BY <1>1, <1>2 DEF Taken, Running, TypeOK, Threads
  <1> QED
    BY <1>6, <1>9, <1>10, <1>11, <1>12, <1>13, <1>14

(* The owner clears DIRTY and acquires every row released so far. *)
LEMMA OpenShedInv == ASSUME IInv, NEW w \in Workers, OpenShed(w) PROVE IInv'
  <1> USE DEF IInv
  <1>1. /\ UNCHANGED <<tail, consumed, loaded, spooled>>
        /\ pc' = [pc EXCEPT ![w] = "pass"] /\ pc[w] = "shed"
        /\ w \notin Producers /\ w \in Threads
        /\ Swap(w, word \ {DIRTY}) /\ word \ {DIRTY} \in Words
    BY WakeupAssumption, WordBits DEF OpenShed, Threads, TypeOK
  <1>2. /\ word' = word \ {DIRTY}
        /\ wordView' \in Views /\ view' \in [Threads -> Views]
        /\ readable' \in [Threads -> SUBSET Words]
        /\ wordView' = Join(wordView, view[w])
        /\ Below(wordView, wordView') /\ Below(view[w], wordView')
        /\ Below(wordView', tail)
        /\ view'[w] = wordView'
        /\ \A u \in Threads : u # w => view'[u] = view[u]
    BY <1>1, SwapFacts
  <1>3. Running(w)
    BY <1>1 DEF Running
  <1>4. /\ SCHEDULED \in word /\ SCHEDULED \in word'
        /\ \A v \in Workers : Running(v) => v = w
        /\ spooled = << >>
    BY <1>2, <1>3, WordBits DEF ExclusivePass
  <1>5. \A v \in Workers : Running(v)' <=> Running(v)
    BY <1>1 DEF Running, TypeOK
  <1>6. TypeOK'
    <2>1. /\ word' \in Words /\ wordView' \in Views /\ view' \in [Threads -> Views]
          /\ readable' \in [Threads -> SUBSET Words]
      BY <1>1, <1>2
    <2>2. /\ tail' \in Views /\ consumed' \in Views /\ spooled' \in Seq(Views)
          /\ loaded' \in [Threads -> Words]
      BY <1>1 DEF TypeOK
    <2>3. /\ pc' \in [Threads -> {"weave", "tug", "swap", "idle",
                                  "shed", "pass", "tie", "tying"}]
          /\ \A p \in Producers : pc'[p] \in {"weave", "tug", "swap"}
          /\ \A v \in Workers : pc'[v] \in {"idle", "shed", "pass", "tie", "tying"}
      BY <1>1 DEF TypeOK, Threads
    <2> QED
      BY <2>1, <2>2, <2>3 DEF TypeOK
  <1>7. ExclusivePass'
    BY <1>1, <1>2, <1>4, <1>5 DEF ExclusivePass
  <1>8. ViewsBounded'
    <2>1. \A t \in Threads : Below(view'[t], tail)
      BY <1>2 DEF ViewsBounded
    <2>2. \A p \in Producers : view'[p][p] = tail[p]
      BY <1>1, <1>2 DEF ViewsBounded, Threads
    <2> QED
      BY <1>1, <1>2, <2>1, <2>2 DEF ViewsBounded, Below
  <1>9. Released'
    <2>1. pc' = [pc EXCEPT ![w] = pc'[w]]
      BY <1>1 DEF TypeOK
    <2> QED
      BY <1>1, <1>2, <2>1, SwapKeepsReleased
  <1>10. Pending'
    <2>1. \A v \in Workers : pc'[v] \in {"idle", "pass"} /\ (pc'[v] = "pass" => v = w)
      BY <1>1, <1>4 DEF Running, TypeOK, Threads
    <2>2. Below(wordView', view'[w])
      BY <1>2, WakeupAssumption DEF Below, Views
    <2> QED
      BY <1>4, <2>1, <2>2 DEF Pending, Below
  <1>11. Inherited'
    <2>1. Below(consumed, view'[w])
      BY <1>2, <1>3, BelowTrans DEF Inherited, TypeOK
    <2> QED
      BY <1>1, <1>4, <1>5, <2>1 DEF Inherited, Below
  <1>12. Taken'
    BY <1>1, <1>4 DEF Taken, Running, TypeOK, Threads
  <1> QED
    BY <1>6, <1>7, <1>8, <1>9, <1>10, <1>11, <1>12

(* The pass takes all that its owner knows of, and maybe more. *)
LEMMA ShuttleInv ==
  ASSUME IInv, NEW w \in Workers, Shuttle(w)
  PROVE  IInv' /\ Below(consumed, consumed')
  <1> USE DEF IInv
  <1>1. /\ UNCHANGED <<word, wordView, readable, tail, loaded, spooled>>
        /\ pc' = [pc EXCEPT ![w] = "tie"] /\ pc[w] = "pass"
        /\ w \notin Producers /\ w \in Threads
    BY WakeupAssumption DEF Shuttle, Threads
  <1>2. PICK seen \in Views : /\ Below(view[w], seen) /\ Below(seen, tail)
                              /\ consumed' = seen
                              /\ view' = [view EXCEPT ![w] = seen]
    BY DEF Shuttle, Below
  <1>3. Running(w)
    BY <1>1 DEF Running
  <1>4. /\ SCHEDULED \in word /\ spooled = << >>
        /\ \A v \in Workers : Running(v) => v = w
    BY <1>3 DEF ExclusivePass
  <1>5. \A v \in Workers : Running(v)' <=> Running(v)
    BY <1>1 DEF Running, TypeOK
  <1>6. TypeOK'
    BY <1>1, <1>2 DEF TypeOK
  <1>7. ExclusivePass'
    BY <1>1, <1>4, <1>5 DEF ExclusivePass
  <1>8. ViewsBounded'
    <2>1. \A t \in Threads : Below(view'[t], tail)
      BY <1>2 DEF ViewsBounded, TypeOK
    <2>2. \A p \in Producers : view'[p][p] = tail[p]
      BY <1>1, <1>2 DEF ViewsBounded, TypeOK, Threads
    <2> QED
      BY <1>1, <1>2, <2>1, <2>2 DEF ViewsBounded, Below
  <1>9. Released'
    BY <1>1, SMTT(20) DEF Released, TypeOK, Threads
  <1>10. Pending'
    <2>1. DIRTY \notin word => Below(wordView, consumed')
      BY <1>1, <1>2, BelowTrans DEF Pending, TypeOK
    <2>2. \A v \in Workers : pc'[v] \in {"idle", "tie"}
      BY <1>1, <1>4 DEF Running, TypeOK, Threads
    <2> QED
      BY <1>1, <1>4, <2>1, <2>2 DEF Pending, Below
  <1>11. Inherited'
    <2>1. view'[w] = seen
      BY <1>1, <1>2 DEF TypeOK
    <2>2. Below(consumed', view'[w])
      BY <1>2, <2>1, WakeupAssumption DEF Below, Views
    <2> QED
      BY <1>1, <1>4, <1>5, <2>2 DEF Inherited, Below
  <1>12. Below(consumed, consumed')
    <2>1. consumed \in Views /\ view[w] \in Views
      BY <1>1 DEF TypeOK
    <2>2. Below(consumed, view[w])
      BY <1>3 DEF Inherited
    <2> QED
      BY <1>2, <2>1, <2>2, BelowTrans
  <1>13. Taken'
    BY <1>1, <1>2, <1>4 DEF Taken, Running, TypeOK, Threads
  <1> QED
    BY <1>6, <1>7, <1>8, <1>9, <1>10, <1>11, <1>12, <1>13

(* Tying off releases the pass's view to the word, with nothing pending:   *)
(* DIRTY is clear, so the pass has taken every row released before.        *)
LEMMA TieOffInv == ASSUME IInv, NEW w \in Workers, TieOff(w) PROVE IInv'
  <1> USE DEF IInv
  <1>1. /\ UNCHANGED <<tail, consumed, loaded, spooled>>
        /\ pc' = [pc EXCEPT ![w] = "idle"] /\ pc[w] = "tying"
        /\ w \notin Producers /\ w \in Threads
        /\ DIRTY \notin word /\ word \ {SCHEDULED} \in Words
        /\ Swap(w, word \ {SCHEDULED})
    BY WakeupAssumption, WordBits DEF TieOff, Threads, TypeOK
  <1>2. /\ word' = word \ {SCHEDULED}
        /\ wordView' \in Views /\ view' \in [Threads -> Views]
        /\ readable' \in [Threads -> SUBSET Words]
        /\ wordView' = Join(wordView, view[w])
        /\ Below(wordView, wordView') /\ Below(view[w], wordView')
        /\ Below(wordView', tail)
        /\ view'[w] = wordView'
        /\ \A u \in Threads : u # w => view'[u] = view[u]
    BY <1>1, SwapFacts
  <1>3. Running(w)
    BY <1>1 DEF Running
  <1>4. /\ spooled = << >>
        /\ \A v \in Workers : Running(v) => v = w
    BY <1>3 DEF ExclusivePass
  <1>5. \A v \in Workers : ~Running(v)'
    BY <1>1, <1>4 DEF Running, TypeOK, Threads
  <1>6. TypeOK'
    <2>1. /\ word' \in Words /\ wordView' \in Views /\ view' \in [Threads -> Views]
          /\ readable' \in [Threads -> SUBSET Words]
      BY <1>1, <1>2
    <2>2. /\ tail' \in Views /\ consumed' \in Views /\ spooled' \in Seq(Views)
          /\ loaded' \in [Threads -> Words]
      BY <1>1 DEF TypeOK
    <2>3. /\ pc' \in [Threads -> {"weave", "tug", "swap", "idle",
                                  "shed", "pass", "tie", "tying"}]
          /\ \A p \in Producers : pc'[p] \in {"weave", "tug", "swap"}
          /\ \A v \in Workers : pc'[v] \in {"idle", "shed", "pass", "tie", "tying"}
      BY <1>1 DEF TypeOK, Threads
    <2> QED
      BY <2>1, <2>2, <2>3 DEF TypeOK
  <1>7. ExclusivePass'
    BY <1>1, <1>2, <1>4, <1>5 DEF ExclusivePass
  <1>8. ViewsBounded'
    <2>1. \A t \in Threads : Below(view'[t], tail)
      BY <1>2 DEF ViewsBounded
    <2>2. \A p \in Producers : view'[p][p] = tail[p]
      BY <1>1, <1>2 DEF ViewsBounded, Threads
    <2> QED
      BY <1>1, <1>2, <2>1, <2>2 DEF ViewsBounded, Below
  <1>9. Released'
    <2>1. pc' = [pc EXCEPT ![w] = pc'[w]]
      BY <1>1 DEF TypeOK
    <2> QED
      BY <1>1, <1>2, <2>1, SwapKeepsReleased
  <1>10. Below(view[w], consumed)
    BY <1>1, WakeupAssumption DEF Taken, Below, TypeOK, Views
  <1>11. Pending'
    <2>1. Below(wordView', consumed)
      BY <1>1, <1>2, <1>10, JoinBounds DEF Pending, TypeOK
    <2> QED
      BY <1>1, <1>5, <2>1 DEF Pending, Below, Running
  <1>12. Inherited'
    <2>1. Below(consumed, wordView')
      BY <1>2, <1>3, BelowTrans DEF Inherited, TypeOK
    <2> QED
      BY <1>1, <1>4, <1>5, <2>1 DEF Inherited, Below
  <1>13. Taken'
    BY <1>5 DEF Taken, Running
  <1> QED
    BY <1>6, <1>7, <1>8, <1>9, <1>11, <1>12, <1>13

-----------------------------------------------------------------------------
(* Every step keeps the inductive invariant, and no step gives a row back. *)
LEMMA NextInv ==
  ASSUME IInv, [Next]_vars
  PROVE  IInv' /\ Below(consumed, consumed')
  <1>1. CASE UNCHANGED vars
    <2>1. /\ TypeOK' /\ ExclusivePass' /\ Taken'
      BY <1>1 DEF vars, IInv, TypeOK, ExclusivePass, Taken, Running
    <2>2. /\ ViewsBounded' /\ Released'
      BY <1>1 DEF vars, IInv, ViewsBounded, Released, Running, Below
    <2>3. /\ Pending' /\ Inherited'
      BY <1>1 DEF vars, IInv, Pending, Inherited, Running, Below
    <2>4. Below(consumed, consumed')
      BY <1>1, WakeupAssumption DEF vars, IInv, TypeOK, Below, Views
    <2> QED
      BY <2>1, <2>2, <2>3, <2>4 DEF IInv
  <1>2. ASSUME consumed' = consumed PROVE Below(consumed, consumed')
    BY <1>2, WakeupAssumption DEF Below, IInv, TypeOK, Views
  <1>3. ASSUME NEW p \in Producers, ProducerStep(p)
        PROVE  IInv' /\ Below(consumed, consumed')
    <2>1. consumed' = consumed
      BY <1>3 DEF ProducerStep, Beat, TugLoad, TugRetry, TugSwap
    <2> QED
      BY <1>2, <1>3, <2>1, BeatInv, LoadInv, TugSwapInv DEF ProducerStep
  <1>4. ASSUME NEW w \in Workers, WorkerStep(w)
        PROVE  IInv' /\ Below(consumed, consumed')
    <2>1. CASE Shuttle(w)
      BY <2>1, ShuttleInv
    <2>2. CASE ~Shuttle(w)
      <3>1. consumed' = consumed
        BY <1>4, <2>2 DEF WorkerStep, Take, OpenShed, TieLoad, TieAgain, TieRetry, TieOff
      <3> QED
        BY <1>2, <1>4, <2>2, <3>1, TakeInv, OpenShedInv, LoadInv, TieOffInv DEF WorkerStep
    <2> QED
      BY <2>1, <2>2
  <1> QED
    BY <1>1, <1>3, <1>4 DEF Next, Rest

(* With no owner, what was released has been taken: no wakeup is lost. *)
LEMMA InvImpliesNoLostWakeup == IInv => NoLostWakeup
  <1> SUFFICES ASSUME IInv, SCHEDULED \notin word, NEW p \in Producers, pc[p] = "weave"
               PROVE  consumed[p] = tail[p]
    BY DEF NoLostWakeup
  <1>1. wordView[p] = tail[p] /\ wordView[p] <= consumed[p] /\ consumed[p] <= tail[p]
    BY DEF IInv, Released, Pending, ViewsBounded, Below
  <1>2. consumed[p] \in Int /\ tail[p] \in Int
    BY WakeupAssumption DEF IInv, TypeOK, Views
  <1> QED
    BY <1>1, <1>2

(* The inductive invariant holds in every reachable state. *)
THEOREM WakeupInvariant == Spec => []IInv
  <1>1. IInv /\ [Next]_vars => IInv'
    BY NextInv
  <1> QED
    BY InitInv, <1>1, PTL DEF Spec

(* The word, the rings and the threads keep their types, and DIRTY never   *)
(* stands without SCHEDULED, for every pool and every set of producers.    *)
THEOREM WakeupTypeCorrect == Spec => []TypeOK
  <1>1. IInv => TypeOK
    BY DEF IInv
  <1> QED
    BY WakeupInvariant, <1>1, PTL

(* At most one slice of a node runs at a time (node.rs). *)
THEOREM WakeupExclusive == Spec => []ExclusivePass
  <1>1. IInv => ExclusivePass
    BY DEF IInv
  <1> QED
    BY WakeupInvariant, <1>1, PTL

(* A node that is not scheduled has no untaken row that was tugged for.    *)
THEOREM WakeupNeverLost == Spec => []NoLostWakeup
  BY WakeupInvariant, InvImpliesNoLostWakeup, PTL

(* The passes of a node, whichever workers run them, never see the ring    *)
(* tails go backwards.                                                     *)
THEOREM WakeupNeverRewinds == Spec => PassesNeverRewind
  <1>1. IInv /\ [Next]_vars => [\A p \in Producers : consumed[p] <= consumed'[p]]_vars
    BY NextInv DEF Below
  <1> QED
    BY WakeupInvariant, <1>1, PTL DEF Spec, PassesNeverRewind
=============================================================================
