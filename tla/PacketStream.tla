---------------------------- MODULE PacketStream ----------------------------
(***************************************************************************)
(* What the receive path promises to OnRecvPacket: the packets the peer    *)
(* wrote are handed on whole, in order, none twice and none skipped.  A    *)
(* packet is named by the position of its first byte in the byte stream,   *)
(* and packets[p] is its size.                                             *)
(***************************************************************************)
EXTENDS Integers

CONSTANT PacketSizes

VARIABLES
  packets,   \* the packets written, by position
  written,   \* bytes written so far
  handed,    \* bytes handed on so far
  frame      \* the bytes of the packet handed on last

streamVars == <<packets, written, handed, frame>>

Init ==
  /\ packets = <<>>
  /\ written = 0
  /\ handed = 0
  /\ frame = <<>>

Write ==
  \E size \in PacketSizes :
    /\ packets' = [p \in DOMAIN packets \cup {written} |->
                     IF p = written THEN size ELSE packets[p]]
    /\ written' = written + size
    /\ UNCHANGED <<handed, frame>>

HandOn ==
  /\ handed \in DOMAIN packets
  /\ frame' = [i \in 1..packets[handed] |-> handed + i - 1]
  /\ handed' = handed + packets[handed]
  /\ UNCHANGED <<packets, written>>

Next == Write \/ HandOn

Spec == Init /\ [][Next]_streamVars
=============================================================================
