------------------------------ MODULE MCStages ------------------------------
(* Two stages (three with a second change) of two monsters and one.         *)
EXTENDS Stages
TheMonsters == [s \in 1 .. LastStage |-> IF s = 1 THEN {11, 12} ELSE {10 * s + 1}]
=============================================================================
