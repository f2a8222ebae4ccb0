----------------------------- MODULE MCWeftRing -----------------------------
(* A ring of three slots through which seven rows pass: each slot is reused twice. *)
EXTENDS WeftRing
=============================================================================
