--------------------------- MODULE WeftRingProofs ---------------------------
(***************************************************************************)
(* Proofs about the ring for every capacity and every number of rows: the  *)
(* counters never cross, no slot is written while it is read, every        *)
(* reference stays intact, and the ring implements the bounded row queue.  *)
(***************************************************************************)
EXTENDS WeftRing, Sequences, TLAPS

(* The slot of row n holds row n. *)
Placed(n) == slot[Slot(n)] = n

(* Each side stays in its own part of the ring. *)
Sides ==
  /\ filling # Torn => tail <= filling /\ filling < pHead + Span /\ filling \notin filled
  /\ \A n \in filled : tail <= n /\ n < pHead + Span
  /\ \A n \in window : head <= n /\ n < cTail

(* Every row that is published or ready to be published is in its slot. *)
Contents ==
  /\ \A n \in head..tail - 1 : Placed(n)
  /\ \A n \in filled : Placed(n)

RInv == TypeOK /\ CountersOrdered /\ Sides /\ Contents

-----------------------------------------------------------------------------
(* Euclidean division. *)
LEMMA Division ==
  ASSUME NEW a \in Int, NEW s \in Int, s > 0
  PROVE  /\ a = s * (a \div s) + (a % s)
         /\ a \div s \in Int /\ a % s \in 0..s - 1
  BY Z3

(* Rows less than a ring apart lie in different slots. *)
LEMMA ResiduesDiffer ==
  ASSUME NEW a \in Nat, NEW b \in Nat, a < b, b < a + Span
  PROVE  Slot(a) # Slot(b)
  <1> SUFFICES ASSUME a % Span = b % Span PROVE FALSE
    BY DEF Slot
  <1> DEFINE q == a \div Span
             r == b \div Span
  <1>1. Span \in Int /\ Span > 0 /\ a \in Int /\ b \in Int
    BY RingAssumption
  <1>2. a = Span * q + (a % Span) /\ q \in Int /\ a % Span \in Int
    BY <1>1, Division
  <1>3. b = Span * r + (b % Span) /\ r \in Int
    BY <1>1, Division
  <1> HIDE DEF q, r
  <1>4. 0 < Span * r - Span * q /\ Span * r - Span * q < Span
    BY <1>1, <1>2, <1>3
  <1> QED
    BY <1>1, <1>2, <1>3, <1>4

(* A row's slot exists. *)
LEMMA SlotRange == ASSUME NEW a \in Nat PROVE Slot(a) \in 0..Span - 1
  BY RingAssumption, Division DEF Slot

(* Writing the slot of row m keeps every other row of the ring's reach. *)
LEMMA WriteKeeps ==
  ASSUME TypeOK, NEW m \in Nat, NEW n \in Nat, NEW v,
         pHead <= m, m < pHead + Span, pHead <= n, n < pHead + Span, m # n,
         slot' = [slot EXCEPT ![Slot(m)] = v], Placed(n)
  PROVE  slot'[Slot(n)] = n
  <1>1. pHead \in Int /\ Span \in Int
    BY RingAssumption DEF TypeOK
  <1>2. Slot(m) # Slot(n)
    <2>1. CASE m < n
      BY <1>1, <2>1, ResiduesDiffer
    <2>2. CASE n < m
      BY <1>1, <2>2, ResiduesDiffer
    <2> QED
      BY <2>1, <2>2
  <1> QED
    BY <1>2, SlotRange DEF Placed, TypeOK

(* A published row lies within the ring's reach. *)
LEMMA PublishedReach ==
  ASSUME RInv, NEW n \in head..tail - 1
  PROVE  n \in Nat /\ pHead <= n /\ n < pHead + Span /\ n < tail /\ Placed(n)
  BY RingAssumption DEF RInv, TypeOK, CountersOrdered, Contents

(* So does a row that is filled and not yet published. *)
LEMMA FilledReach ==
  ASSUME RInv, NEW n \in filled
  PROVE  n \in Nat /\ pHead <= n /\ n < pHead + Span /\ Placed(n)
  BY RingAssumption DEF RInv, TypeOK, CountersOrdered, Sides, Contents

(* The initial state satisfies the inductive invariant. *)
LEMMA RingInit == Init => RInv
  BY RingAssumption DEF Init, RInv, TypeOK, CountersOrdered, Sides, Contents, Torn

(* Loading the other side's counter only widens what the side may touch. *)
LEMMA LoadsInv == ASSUME RInv, LoadHead \/ LoadTail PROVE RInv'
  <1> USE DEF RInv
  <1>1. CASE LoadHead
    BY <1>1, RingAssumption
       DEF LoadHead, TypeOK, CountersOrdered, Sides, Contents, Placed
  <1>2. CASE LoadTail
    BY <1>2, RingAssumption
       DEF LoadTail, TypeOK, CountersOrdered, Sides, Contents, Placed
  <1> QED
    BY <1>1, <1>2

(* A pick opens a slot that neither side counts on. *)
LEMMA PickInv == ASSUME RInv, Pick PROVE RInv'
  <1> USE DEF RInv
  <1>1. PICK i \in 0..slack - 1 :
          /\ tail + i < Rows
          /\ filling' = tail + i
          /\ filled' = filled \ {tail + i}
          /\ slot' = [slot EXCEPT ![Slot(tail + i)] = Torn]
    BY DEF Pick
  <1> DEFINE m == tail + i
  <1>2. UNCHANGED <<head, tail, pHead, cTail, window>>
    BY DEF Pick
  <1>3. /\ m \in Nat /\ tail <= m /\ m < pHead + Span /\ m \in 0..Rows - 1
        /\ Slot(m) \in 0..Span - 1
    BY <1>1, RingAssumption, SlotRange DEF slack, TypeOK, CountersOrdered
  <1> HIDE DEF m
  <1>4. filling' = m /\ filled' = filled \ {m} /\ slot' = [slot EXCEPT ![Slot(m)] = Torn]
    BY <1>1 DEF m
  <1>5. TypeOK'
    BY <1>2, <1>3, <1>4 DEF TypeOK
  <1>6. CountersOrdered'
    BY <1>2 DEF CountersOrdered
  <1>7. Sides'
    BY <1>2, <1>3, <1>4 DEF Sides
  <1>8. Contents'
    <2>1. pHead <= m
      BY <1>3, RingAssumption DEF TypeOK, CountersOrdered
    <2>2. ASSUME NEW n \in head..tail - 1 PROVE slot'[Slot(n)] = n
      <3>1. n # m
        BY <1>3 DEF TypeOK
      <3> QED
        BY <1>3, <1>4, <2>1, <3>1, PublishedReach, WriteKeeps, Zenon DEF Placed
    <2>3. ASSUME NEW n \in filled \ {m} PROVE slot'[Slot(n)] = n
      BY <1>3, <1>4, <2>1, FilledReach, WriteKeeps, Zenon DEF Placed
    <2> QED
      BY <1>2, <1>4, <2>2, <2>3 DEF Contents, Placed
  <1> QED
    BY <1>5, <1>6, <1>7, <1>8

(* Filling completes the row in its slot and touches no other. *)
LEMMA FillInv == ASSUME RInv, Fill PROVE RInv'
  <1> USE DEF RInv
  <1>1. /\ UNCHANGED <<head, tail, pHead, cTail, window>>
        /\ slot' = [slot EXCEPT ![Slot(filling)] = filling]
        /\ filled' = filled \cup {filling} /\ filling' = Torn
    BY DEF Fill
  <1>2. /\ filling \in Nat /\ filling \in 0..Rows - 1 /\ filling \notin filled
        /\ tail <= filling /\ filling < pHead + Span
        /\ Slot(filling) \in 0..Span - 1
    BY SlotRange DEF Fill, TypeOK, Sides
  <1>3. TypeOK'
    BY <1>1, <1>2 DEF TypeOK
  <1>4. CountersOrdered' /\ Sides'
    BY <1>1, <1>2 DEF CountersOrdered, Sides
  <1>5. pHead <= filling
    BY <1>2, RingAssumption DEF TypeOK, CountersOrdered
  <1>6. Contents'
    <2>1. ASSUME NEW n \in head..tail - 1 PROVE slot'[Slot(n)] = n
      <3>1. n # filling
        BY <1>2 DEF TypeOK
      <3> QED
        BY <1>1, <1>2, <1>5, <3>1, PublishedReach, WriteKeeps, Zenon DEF Placed
    <2>2. ASSUME NEW n \in filled PROVE slot'[Slot(n)] = n
      BY <1>1, <1>2, <1>5, FilledReach, WriteKeeps, Zenon DEF Placed
    <2>3. slot'[Slot(filling)] = filling
      BY <1>1, <1>2 DEF TypeOK
    <2> QED
      BY <1>1, <2>1, <2>2, <2>3 DEF Contents, Placed
  <1> QED
    BY <1>3, <1>4, <1>6

(* Beating filled rows across publishes rows that are in their slots. *)
LEMMA BeatInv == ASSUME RInv, Beat PROVE RInv'
  <1> USE DEF RInv
  <1>1. PICK n \in 1..slack : /\ tail..tail + n - 1 \subseteq filled
                              /\ tail' = tail + n
                              /\ filled' = filled \ (tail..tail + n - 1)
    BY DEF Beat
  <1>2. UNCHANGED <<head, pHead, cTail, slot, filling, window>> /\ filling = Torn
    BY DEF Beat
  <1>3. /\ n \in Nat /\ n >= 1 /\ tail \in Nat /\ tail + n <= pHead + Span
        /\ tail + n - 1 \in filled
    BY <1>1, RingAssumption DEF slack, TypeOK, CountersOrdered
  <1>4. TypeOK'
    BY <1>1, <1>2, <1>3, RingAssumption DEF TypeOK
  <1>5. CountersOrdered'
    BY <1>1, <1>2, <1>3, RingAssumption DEF CountersOrdered, TypeOK
  <1>6. Sides'
    BY <1>1, <1>2, <1>3, RingAssumption DEF Sides, TypeOK
  <1>7. Contents'
    BY <1>1, <1>2, <1>3, RingAssumption DEF Contents, Placed, TypeOK
  <1> QED
    BY <1>4, <1>5, <1>6, <1>7

(* The consumer's steps move only its own side. *)
LEMMA ConsumerInv == ASSUME RInv, Peek \/ Unwind PROVE RInv'
  <1> USE DEF RInv
  <1>1. CASE Peek
    BY <1>1, RingAssumption
       DEF Peek, picks_ready, TypeOK, CountersOrdered, Sides, Contents, Placed
  <1>2. CASE Unwind
    BY <1>2, RingAssumption
       DEF Unwind, picks_ready, TypeOK, CountersOrdered, Sides, Contents, Placed
  <1> QED
    BY <1>1, <1>2

-----------------------------------------------------------------------------
(* The inductive invariant holds in every reachable state. *)
THEOREM RingInvariant == Spec => []RInv
  <1>1. RInv /\ [Next]_vars => RInv'
    <2>1. RInv /\ UNCHANGED vars => RInv'
      BY DEF vars, RInv, TypeOK, CountersOrdered, Sides, Contents, Placed
    <2> QED
      BY <2>1, LoadsInv, PickInv, FillInv, BeatInv, ConsumerInv DEF Next
  <1> QED
    BY RingInit, <1>1, PTL DEF Spec

(* The usize differences of slack and picks_ready never wrap, whatever the *)
(* capacity of the ring.                                                   *)
THEOREM RingCountersOrdered == Spec => []CountersOrdered
  <1>1. RInv => CountersOrdered
    BY DEF RInv
  <1> QED
    BY RingInvariant, <1>1, PTL

(* The safety comment of Shared: the two sides never touch the same slot.  *)
THEOREM RingNoSharedSlot == Spec => []NoSharedSlot
  <1>1. RInv => NoSharedSlot
    <2> SUFFICES ASSUME RInv PROVE NoSharedSlot
      OBVIOUS
    <2> USE DEF RInv
    <2>1. \A n \in window : head <= n /\ n < tail
      BY DEF Sides, CountersOrdered, TypeOK
    <2>2. ASSUME filling # Torn
          PROVE  tail <= filling /\ filling < head + Span
      BY <2>2, RingAssumption DEF Sides, CountersOrdered, TypeOK
    <2>3. ASSUME filling # Torn, NEW n \in window PROVE Slot(n) # Slot(filling)
      <3>1. n \in Nat /\ filling \in Nat
        BY <2>3 DEF TypeOK
      <3> QED
        BY <2>1, <2>2, <2>3, <3>1, ResiduesDiffer, RingAssumption DEF TypeOK
    <2> QED
      BY <2>1, <2>2, <2>3 DEF NoSharedSlot
  <1> QED
    BY RingInvariant, <1>1, PTL

(* A row stays whole and in place for as long as a reference to it lives.  *)
THEOREM RingWindowIntact == Spec => []WindowIntact
  <1>1. RInv => WindowIntact
    BY DEF RInv, WindowIntact, Sides, Contents, Placed, CountersOrdered, TypeOK
  <1> QED
    BY RingInvariant, <1>1, PTL

-----------------------------------------------------------------------------
(* In a reachable state the slots between head and tail read as the rows   *)
(* head, head + 1, ... in order.                                           *)
InOrder ==
  /\ RowsHeld = [i \in 1..tail - head |-> head + i - 1]
  /\ Len(RowsHeld) = tail - head
  /\ tail - head \in 0..Span /\ head \in Nat /\ tail \in Nat /\ tail \in 0..Rows

(* The contents part of the invariant gives the order of the rows. *)
LEMMA RowsInOrder == RInv => InOrder
  <1> SUFFICES ASSUME RInv PROVE InOrder
    OBVIOUS
  <1>1. tail - head \in 0..Span /\ head \in Nat /\ tail \in Nat /\ tail \in 0..Rows
    BY RingAssumption DEF RInv, TypeOK, CountersOrdered
  <1>2. ASSUME NEW i \in 1..tail - head PROVE slot[Slot(head + i - 1)] = head + i - 1
    <2>1. head + i - 1 \in head..tail - 1
      BY <1>1
    <2> QED
      BY <2>1 DEF RInv, Contents, Placed
  <1>3. RowsHeld = [i \in 1..tail - head |-> head + i - 1]
    BY <1>2 DEF RowsHeld
  <1> QED
    BY <1>1, <1>3 DEF InOrder

(* The same, after a step. *)
LEMMA RowsStayInOrder == RInv' => InOrder'
  BY RowsInOrder, PTL

(* Every step of the ring is a step of the row queue or leaves it alone. *)
LEMMA StepRefines ==
  ASSUME RInv, RInv', [Next]_vars
  PROVE  [Q!Next]_<<RowsHeld, tail>>
  <1> DEFINE H == [i \in 1..tail - head |-> head + i - 1]
  <1>1. /\ RowsHeld = H /\ Len(RowsHeld) = tail - head
        /\ tail - head \in 0..Span /\ head \in Nat /\ tail \in Nat
    BY RowsInOrder DEF InOrder
  <1>2. /\ RowsHeld' = H' /\ tail' - head' \in 0..Span
        /\ head' \in Nat /\ tail' \in Nat /\ tail' \in 0..Rows
    BY RowsStayInOrder DEF InOrder
  <1>3. CASE UNCHANGED <<head, tail>>
    BY <1>1, <1>2, <1>3
  <1>4. CASE Beat
    <2>1. PICK n \in 1..slack : tail' = tail + n
      BY <1>4 DEF Beat
    <2>2. head' = head /\ n \in 1..Span /\ Rows \in Nat /\ Span \in Nat
      BY <1>1, <1>2, <1>4, <2>1, RingAssumption DEF Beat
    <2>3. RowsHeld' = [i \in 1..Len(RowsHeld) + n |->
                         IF i <= Len(RowsHeld) THEN RowsHeld[i]
                         ELSE tail + i - Len(RowsHeld) - 1]
      BY <1>1, <1>2, <2>1, <2>2
    <2>4. Q!Send(n)
      BY <1>1, <1>2, <2>1, <2>2, <2>3 DEF Q!Send
    <2> QED
      BY <2>2, <2>4 DEF Q!Next
  <1>5. CASE Unwind
    <2>1. PICK n \in 1..picks_ready : head' = head + n
      BY <1>5 DEF Unwind
    <2>2. tail' = tail /\ n \in 1..Span /\ n <= tail - head /\ Span \in Nat
      BY <1>1, <1>2, <1>5, <2>1, RingAssumption DEF Unwind
    <2>3. RowsHeld' = [i \in 1..Len(RowsHeld) - n |-> RowsHeld[i + n]]
      BY <1>1, <1>2, <2>1, <2>2
    <2>4. Q!Receive(n)
      BY <1>1, <2>2, <2>3 DEF Q!Receive
    <2> QED
      BY <2>2, <2>4 DEF Q!Next
  <1> QED
    BY <1>3, <1>4, <1>5 DEF Next, vars, LoadHead, Pick, Fill, LoadTail, Peek

(* The ring implements the bounded queue of rows its users rely on.        *)
THEOREM RingIsRowQueue == Spec => IsRowQueue
  <1>1. Init => Q!Init
    BY DEF Init, Q!Init, RowsHeld
  <1>2. RInv /\ RInv' /\ [Next]_vars => [Q!Next]_<<RowsHeld, tail>>
    BY StepRefines
  <1> QED
    BY RingInvariant, <1>1, <1>2, PTL DEF Spec, IsRowQueue, Q!Spec
=============================================================================
