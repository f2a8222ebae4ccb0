------------------------------ MODULE RowQueue ------------------------------
(***************************************************************************)
(* What a weft edge promises (mercury/docs/weft-design.md, section 1): a   *)
(* bounded queue of rows.  The producer adds the next rows at the back     *)
(* while there is room, the consumer drops the oldest ones from the front, *)
(* and the rows in between are the ones that were added, in their order.   *)
(***************************************************************************)
EXTENDS Integers, Sequences

CONSTANTS Span, Rows

VARIABLES queue, sent

Init == queue = << >> /\ sent = 0

Send(n) ==
  /\ Len(queue) + n <= Span
  /\ sent + n <= Rows
  /\ queue' = [i \in 1..Len(queue) + n |->
                 IF i <= Len(queue) THEN queue[i] ELSE sent + i - Len(queue) - 1]
  /\ sent' = sent + n

Receive(n) ==
  /\ n <= Len(queue)
  /\ queue' = [i \in 1..Len(queue) - n |-> queue[i + n]]
  /\ UNCHANGED sent

Next == \E n \in 1..Span : Send(n) \/ Receive(n)

Spec == Init /\ [][Next]_<<queue, sent>>
=============================================================================
