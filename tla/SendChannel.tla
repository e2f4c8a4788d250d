----------------------------- MODULE SendChannel -----------------------------
(***************************************************************************)
(* What a session promises to the code that calls Send: packets leave in   *)
(* the order of the calls, each at most once, and none is skipped while    *)
(* the connection lasts.  When the channel breaks, a batch that was being  *)
(* written may be lost; if Lossy, that can happen to an open channel too.  *)
(***************************************************************************)
EXTENDS Integers, Sequences

CONSTANT Lossy

VARIABLES open, submitted, waiting, delivered

chanVars == <<open, submitted, waiting, delivered>>

Init ==
  /\ open = FALSE
  /\ submitted = 0
  /\ waiting = <<>>
  /\ delivered = <<>>

Open ==
  /\ ~open
  /\ open' = TRUE
  /\ UNCHANGED <<submitted, waiting, delivered>>

\* The next packet joins the queue.
Submit ==
  /\ submitted' = submitted + 1
  /\ waiting' = Append(waiting, submitted + 1)
  /\ UNCHANGED <<open, delivered>>

\* A batch of the oldest packets leaves.
Transmit ==
  /\ \E n \in 1..Len(waiting) :
       /\ delivered' = delivered \o SubSeq(waiting, 1, n)
       /\ waiting' = SubSeq(waiting, n + 1, Len(waiting))
  /\ UNCHANGED <<open, submitted>>

\* The channel closes, or is closed already, and a batch may be lost.
Break ==
  /\ open' = FALSE
  /\ \E n \in 0..Len(waiting) : waiting' = SubSeq(waiting, n + 1, Len(waiting))
  /\ UNCHANGED <<submitted, delivered>>

Lose ==
  /\ Lossy
  /\ \E n \in 1..Len(waiting) : waiting' = SubSeq(waiting, n + 1, Len(waiting))
  /\ UNCHANGED <<open, submitted, delivered>>

Next == Open \/ Submit \/ Transmit \/ Break \/ Lose

Spec == Init /\ [][Next]_chanVars
=============================================================================
