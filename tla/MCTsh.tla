------------------------------- MODULE MCTsh -------------------------------
(***************************************************************************)
(* Values for model-checking Tsh.                                          *)
(***************************************************************************)
EXTENDS Tsh, TLC

FullMask == {Signals}           \* prev_all as if it had been saved
FullOrEmpty == {Signals, {}}    \* prev_all blocks everything or nothing

AllKeys == {"INT", "TSTP"}
CtrlC == {"INT"}
NoKeys == {}

Symmetry == Permutations(Pids)
=============================================================================
