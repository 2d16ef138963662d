----------------------------- MODULE MCActiveTab -----------------------------
(* TLC instance of ActiveTab: two or three tabs of one browser. *)
EXTENDS ActiveTab, TLC
CONSTANTS t1, t2, t3

\* Tabs are interchangeable (used only by runs without liveness).
TabSymmetry == Permutations(Tabs)
=============================================================================
