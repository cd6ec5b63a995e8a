----------------------------- MODULE MCRvTimer -----------------------------
(* An instance of RvTimer: two counters of two base-3 halves; thresholds in  *)
(* both values of the upper half that a counter reaches.                     *)
EXTENDS RvTimer

MCThresholds == {1, 5}
=============================================================================
