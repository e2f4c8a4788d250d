----------------------------- MODULE MCDialogue -----------------------------
(* Dialogue with every script of up to four lines of some five kinds.      *)
EXTENDS Dialogue
CONSTANTS player, announcer
Line(a, n, w) == [speaker |-> a, speech |-> n, walk |-> w]
Spoken == {Line(player, 1, 0), Line(player, 3, 0), Line(announcer, 2, 0)}
Walked == {Line(player, 0, 2), Line(player, 0, 3)}
TheEvents == {Append(e, l) : e \in UNION {[1 .. n -> Spoken \cup Walked] : n \in 0 .. 3}, l \in Spoken}
TheActors == {player, announcer}
TheObjects == {player}
=============================================================================
