--------------------------- MODULE MCWeftRuntime ---------------------------
(* Two graphs: one level over a low and a high band, and a windowed decode *)
(* of two levels.  The image of the second has rows 1 to 7 and the last is *)
(* asked for: the padded window of the upper level (h1 and the lower       *)
(* level) are its rows 3 to 7, made of LL rows 2 and 3 and three high      *)
(* ones, and that of the lower level (ll and h0) all its rows, 1 to 3, the *)
(* first of which the upper level drains unread.                           *)
EXTENDS WeftRuntime, TLC

CONSTANTS ll, h0, h1, lev0, lev1

(* The 5/3 schedule of n rows the first of which is even (0) or odd (1):   *)
(* rows of the low and the high band packed before each output row.        *)
Rows53(first, n) == [r \in 1..n |-> [p \in 0..1 |->
  IF p = first THEN Min({(r + first) \div 2 + 1, (n + 1) \div 2})
               ELSE Min({(r - first) \div 2 + 1, n \div 2})]]

OneConsumer == [n \in {ll, h0, lev0} |-> IF n = lev0 THEN Sink ELSE lev0]
OneSpan == [n \in {ll, h0, lev0} |-> 2]
OneStripes == [n \in {ll, h0} |-> IF n = ll THEN <<1, 1>> ELSE <<2>>]
OneInputs == [n \in {lev0} |-> [p \in 0..1 |-> IF p = 0 THEN {ll} ELSE {h0}]]
OneNeeds == [n \in {lev0} |-> Rows53(0, 4)]
OneSkip == [n \in {lev0} |-> 0]
OneKicks == <<ll, h0>>

TwoConsumer == [n \in {ll, h0, h1, lev0, lev1} |->
                  IF n = lev1 THEN Sink ELSE IF n \in {h1, lev0} THEN lev1 ELSE lev0]
TwoSpan == [n \in {ll, h0, h1, lev0, lev1} |-> IF n = lev0 THEN 1 ELSE 3]
TwoStripes == [n \in {ll, h0, h1} |-> <<IF n = ll THEN 1 ELSE IF n = h0 THEN 2 ELSE 3>>]
TwoInputs == [n \in {lev0, lev1} |-> [p \in 0..1 |->
                IF n = lev1 THEN IF p = 0 THEN {lev0} ELSE {h1}
                            ELSE IF p = 0 THEN {ll} ELSE {h0}]]
TwoNeeds == [n \in {lev0, lev1} |-> Rows53(1, IF n = lev0 THEN 3 ELSE 5)]
TwoSkip == [n \in {lev0, lev1} |-> IF n = lev1 THEN 1 ELSE 0]
TwoKicks == <<ll, h0, h1>>

Interchangeable == Permutations(Workers)
=============================================================================
