------------------------------ MODULE WeftRing ------------------------------
(***************************************************************************)
(* The SPSC ring that joins two weft nodes (mercury/src/weft/ring.rs).     *)
(* The producer fills unpublished slots in place and beats them across;    *)
(* the consumer holds a window of published slots and unwinds the oldest.  *)
(* Each side reads its own counter, and the other side's with an Acquire   *)
(* load, which may be late: pHead and cTail are what the loads returned.   *)
(* Filling a slot takes two steps, so that a read may fall between them.   *)
(* A slot holds the number of the row in it, or Torn while it is written.  *)
(***************************************************************************)
EXTENDS Integers

CONSTANTS Span,   \* slots of the ring, picked when the graph is dressed
          Rows    \* rows that travel over the edge

ASSUME RingAssumption == Span \in Nat \ {0} /\ Rows \in Nat

VARIABLES head, tail,   \* rows unwound, rows beaten across
          pHead, cTail, \* the other side's counter as last loaded
          slot,         \* content of each slot
          filling,      \* row the producer is writing, or Torn
          filled,       \* unpublished rows whose slot is complete
          window        \* rows the consumer holds a reference to

vars == <<head, tail, pHead, cTail, slot, filling, filled, window>>

Torn == -1

Slot(n) == n % Span

(* Producer::slack and Consumer::picks_ready, on the loaded counters. *)
slack == Span - (tail - pHead)
picks_ready == cTail - head

(* spin: every slot allocated, nothing written, both counters at zero. *)
Init ==
  /\ head = 0 /\ tail = 0 /\ pHead = 0 /\ cTail = 0
  /\ slot = [i \in 0..Span - 1 |-> Torn]
  /\ filling = Torn
  /\ filled = {}
  /\ window = {}

(* slack: the Acquire load of head. *)
LoadHead ==
  /\ filling = Torn
  /\ \E h \in pHead..head : pHead' = h
  /\ UNCHANGED <<head, tail, cTail, slot, filling, filled, window>>

(* Bug: pick allows one slot more than slack. *)
BugPick ==
  /\ filling = Torn
  /\ \E i \in 0..slack :
       /\ tail + i < Rows
       /\ filling' = tail + i
       /\ filled' = filled \ {tail + i}
       /\ slot' = [slot EXCEPT ![Slot(tail + i)] = Torn]
  /\ UNCHANGED <<head, tail, pHead, cTail, window>>

(* pick(i), i < slack: the slot of row tail + i is being written. *)
Pick ==
  /\ filling = Torn
  /\ \E i \in 0..slack - 1 :
       /\ tail + i < Rows
       /\ filling' = tail + i
       /\ filled' = filled \ {tail + i}
       /\ slot' = [slot EXCEPT ![Slot(tail + i)] = Torn]
  /\ UNCHANGED <<head, tail, pHead, cTail, window>>

(* The caller has filled the slot. *)
Fill ==
  /\ filling # Torn
  /\ slot' = [slot EXCEPT ![Slot(filling)] = filling]
  /\ filled' = filled \cup {filling}
  /\ filling' = Torn
  /\ UNCHANGED <<head, tail, pHead, cTail, window>>

(* Bug: rows are beaten across before they are all filled. *)
BugBeat ==
  /\ filling = Torn
  /\ \E n \in 1..slack :
       /\ tail \in filled
       /\ tail' = tail + n
       /\ filled' = filled \ (tail..tail + n - 1)
  /\ UNCHANGED <<head, pHead, cTail, slot, filling, window>>

(* beat(n): the first n rows, all of them filled, become readable. *)
Beat ==
  /\ filling = Torn
  /\ \E n \in 1..slack :
       /\ tail..tail + n - 1 \subseteq filled
       /\ tail' = tail + n
       /\ filled' = filled \ (tail..tail + n - 1)
  /\ UNCHANGED <<head, pHead, cTail, slot, filling, window>>

(* picks_ready: the Acquire load of tail. *)
LoadTail ==
  /\ \E t \in cTail..tail : cTail' = t
  /\ UNCHANGED <<head, tail, pHead, slot, filling, filled, window>>

(* peek(i), i < picks_ready: a reference to row head + i is taken. *)
Peek ==
  /\ \E i \in 0..picks_ready - 1 : window' = window \cup {head + i}
  /\ UNCHANGED <<head, tail, pHead, cTail, slot, filling, filled>>

(* Bug: unwind frees the rows while the references to them are still held. *)
BugUnwind ==
  /\ \E n \in 1..picks_ready : head' = head + n
  /\ UNCHANGED <<tail, pHead, cTail, slot, filling, filled, window>>

(* Bug: unwind counts against the whole ring. *)
BugUnwindAll ==
  /\ \E n \in 1..Span : head' = head + n /\ head + n <= Rows
  /\ window' = {}
  /\ UNCHANGED <<tail, pHead, cTail, slot, filling, filled>>

(* unwind(n): takes the handle by &mut, so no reference survives it. *)
Unwind ==
  /\ \E n \in 1..picks_ready : head' = head + n
  /\ window' = {}
  /\ UNCHANGED <<tail, pHead, cTail, slot, filling, filled>>

Next == LoadHead \/ Pick \/ Fill \/ Beat \/ LoadTail \/ Peek \/ Unwind

Spec == Init /\ [][Next]_vars

-----------------------------------------------------------------------------
(* The counters, the slots and the two sides hold what they can hold. *)
TypeOK ==
  /\ head \in 0..Rows /\ tail \in 0..Rows /\ pHead \in 0..Rows /\ cTail \in 0..Rows
  /\ slot \in [0..Span - 1 -> 0..Rows - 1 \cup {Torn}]
  /\ filling \in 0..Rows - 1 \cup {Torn}
  /\ filled \subseteq 0..Rows - 1 /\ window \subseteq 0..Rows - 1

(* The differences slack and picks_ready compute on usize never wrap: a    *)
(* loaded counter may be late but never passes the counter it is taken     *)
(* from, and tail never runs more than a ring ahead of head.               *)
CountersOrdered ==
  /\ pHead <= head /\ head <= cTail /\ cTail <= tail
  /\ tail <= pHead + Span

(* The producer never writes the slot of a row the consumer refers to (the *)
(* safety comment of Shared: producer in [tail, head + capacity), consumer *)
(* in [head, tail)).                                                       *)
NoSharedSlot ==
  /\ \A n \in window : head <= n /\ n < tail
  /\ filling # Torn =>
       /\ tail <= filling /\ filling < head + Span
       /\ \A n \in window : Slot(n) # Slot(filling)

(* Every row a reference is held to is whole and is the row it was asked   *)
(* for, for as long as the reference is held.                              *)
WindowIntact == \A n \in window : slot[Slot(n)] = n

(* The rows between head and tail, read through the slots. *)
RowsHeld == [i \in 1..tail - head |-> slot[Slot(head + i - 1)]]

Q == INSTANCE RowQueue WITH queue <- RowsHeld, sent <- tail

(* The ring is a bounded queue of the rows in their order. *)
IsRowQueue == Q!Spec
=============================================================================
