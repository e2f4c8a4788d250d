----------------------------- MODULE MCGameRoom -----------------------------
(* GameRoom for TLC: sessions are interchangeable.                           *)
EXTENDS GameRoom, TLC

SessionSymmetry == Permutations(Sessions)
=============================================================================
