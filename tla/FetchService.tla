---------------------------- MODULE FetchService ----------------------------
(***************************************************************************)
(* What IFetcher::fetchTiles() promises its caller                         *)
(* (stream/fetchers/CurlFetcher.h): a job, once submitted, hands over each *)
(* of its tiles at most once, and answers its future at most once.  The    *)
(* answer "true" comes after all of its tiles.                             *)
(***************************************************************************)
EXTENDS Integers

CONSTANTS Jobs, TilesOf(_)    \* the tiles job j asks for

VARIABLES answer, delivered   \* of each job's future; the tiles handed over

vars == <<answer, delivered>>

Init == answer = [j \in Jobs |-> "none"] /\ delivered = {}

Submit(j) ==
  /\ answer[j] = "none"
  /\ answer' = [answer EXCEPT ![j] = "pending"]
  /\ UNCHANGED delivered

\* Tiles may still come after the job has failed.
Deliver(j, t) ==
  /\ answer[j] # "none" /\ t \in TilesOf(j) /\ <<j, t>> \notin delivered
  /\ delivered' = delivered \cup {<<j, t>>}
  /\ \/ UNCHANGED answer
     \/ /\ answer[j] = "pending" /\ \A u \in TilesOf(j) : <<j, u>> \in delivered'
        /\ answer' = [answer EXCEPT ![j] = "true"]

Fail(js) ==
  /\ js # {} /\ \A j \in js : answer[j] = "pending"
  /\ answer' = [j \in Jobs |-> IF j \in js THEN "false" ELSE answer[j]]
  /\ UNCHANGED delivered

Resolve == \E js \in SUBSET {j \in Jobs : answer[j] = "pending"} : Fail(js)

Next ==
  \/ \E j \in Jobs : Submit(j) \/ \E t \in TilesOf(j) : Deliver(j, t)
  \/ Resolve

Spec == Init /\ [][Next]_vars
=============================================================================
