---------------------------- MODULE MCMinixProc -----------------------------
(***************************************************************************)
(* Every program of up to three processes over a small memory, making any  *)
(* system call at any time.  One image has data and bss, one neither.      *)
(***************************************************************************)
EXTENDS MinixProc

OneImage == {[data |-> [a \in Cells |-> 0], datasize |-> 16, bsssize |-> 8]}
TwoImages == OneImage \cup {[data |-> [a \in Cells |-> 0], datasize |-> 0, bsssize |-> 0]}
=============================================================================
