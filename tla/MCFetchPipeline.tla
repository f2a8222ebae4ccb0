-------------------------- MODULE MCFetchPipeline ---------------------------
(***************************************************************************)
(* Instances of FetchPipeline: a few tile parts, in batches of two, two    *)
(* tiles to a row.                                                         *)
(***************************************************************************)
EXTENDS FetchPipeline, TLC

None == {}

\* The calls: what they fetch, what is at hand, the swaths they wait for.
MCCalls == <<
  \* 1: a header probe, retried once.  2: its data, tile 0 in two parts, of four rows.
  [fetch |-> <<0, 1>>,           reuse |-> <<>>,           swaths |-> <<>>],
  [fetch |-> <<0, 0, 2, 4, 6>>,  reuse |-> <<1>>,          swaths |-> <<1, 2>>],
  \* 3: a fetch of which a request, or all of curl, fails for good.
  [fetch |-> <<0, 1, 2>>,        reuse |-> <<>>,           swaths |-> <<>>],
  \* 4: curl refuses its second request.  5: curl refuses a retry, with a swath.
  [fetch |-> <<0, 1>>,           reuse |-> <<>>,           swaths |-> <<>>],
  [fetch |-> <<0, 2>>,           reuse |-> <<>>,           swaths |-> <<1>>],
  \* 6: curl refuses a request after the first batch.
  [fetch |-> <<0, 1, 2>>,        reuse |-> <<>>,           swaths |-> <<>>],
  \* 7: a header probe that fails for good.
  [fetch |-> <<0, 1>>,           reuse |-> <<>>,           swaths |-> <<>>],
  \* 8: all tiles at hand.  9: one, far below the swath.  10: no tile has data.
  [fetch |-> <<>>,               reuse |-> <<0, 1, 2, 3>>, swaths |-> <<1>>],
  [fetch |-> <<0>>,              reuse |-> <<4>>,          swaths |-> <<1>>],
  [fetch |-> <<>>,               reuse |-> <<>>,           swaths |-> <<>>]>>

MCRanges == [j \in DOMAIN MCCalls |-> MCCalls[j].fetch]
MCReused == [j \in DOMAIN MCCalls |-> MCCalls[j].reuse]
MCSwaths == [j \in DOMAIN MCCalls |-> MCCalls[j].swaths]
MCProbes == {1, 7}
MCPlans == {<<1, 2>>, <<1, 8, 3>>, <<1, 9>>, <<1, 10>>, <<7, 2>>, <<4>>, <<5>>, <<6>>}

MCFaults == (<<1, 1>> :> 1) @@ (<<2, 2>> :> 1) @@ (<<3, 2>> :> 2) @@ (<<5, 1>> :> 1)
            @@ (<<5, 2>> :> 1) @@ (<<7, 1>> :> 2)
MCAddFails == {<<<<4, 2>>, 0>>, <<<<5, 1>>, 1>>, <<<<5, 2>>, 1>>, <<<<6, 3>>, 0>>}
MCMultiErrors == {3}
=============================================================================
