----------------------------- MODULE MCPaneClaim -----------------------------
(* PaneClaim with one loop and two helpers.  A unit of time is 1.5 seconds,   *)
(* the default settle delay; the claim's ten seconds are six of them.         *)
EXTENDS PaneClaim

CONSTANTS g, h
=============================================================================
