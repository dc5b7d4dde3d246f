------------------------- MODULE MCDispatchSession -------------------------
(* DispatchSession for TLC: connection handles are interchangeable. *)
EXTENDS DispatchSession, TLC

HandleSymmetry == Permutations(Conns)
=============================================================================
