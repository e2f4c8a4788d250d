---------------------------- MODULE MCFinalBoss ----------------------------
(* Five levels of health, and a level for each crystal phase.               *)
EXTENDS FinalBoss

LevelBands == <<{3}, {2}, {1}>>
=============================================================================
