------------------------------ MODULE MCSession ------------------------------
(* Session for TLC: the abstract channel it implements and the symmetry of   *)
(* its worker threads.                                                       *)
EXTENDS Session, TLC

WorkerSymmetry == Permutations(Workers)
=============================================================================
