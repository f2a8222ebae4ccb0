---------------------------- MODULE MCWeftWakeup ----------------------------
(* TLC instance of WeftWakeup and the plausible bugs its properties catch. *)
EXTENDS WeftWakeup
=============================================================================
