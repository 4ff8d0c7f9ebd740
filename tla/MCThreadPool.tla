--------------------------- MODULE MCThreadPool ---------------------------
(* Instances of ThreadPool for TLC. *)
EXTENDS ThreadPool

CONSTANTS w1, w2, w3, c1, j1, j2
=============================================================================
