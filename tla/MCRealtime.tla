----------------------------- MODULE MCRealtime -----------------------------
(* A small instance of Realtime: one client that edits, one that looks on   *)
(* and edits once.                                                          *)
EXTENDS Realtime, TLC

CONSTANTS c1, c2, e1, e2

Authors == e1 :> c1 @@ e2 :> c2
=============================================================================
