---------------------------- MODULE PacketStream ----------------------------
(***************************************************************************)
(* What the receiving side of a connection promises the packet handlers:   *)
(* the packets the client sent, whole, in the order they were sent, each   *)
(* once.                                                                   *)
(***************************************************************************)
EXTENDS Naturals, Sequences

VARIABLES
    expected,  \* the packets the client sends
    handed     \* the packets handed to ProcessPacket

Init == handed = <<>>

HandOver ==
    /\ Len(handed) < Len(expected)
    /\ handed' = Append(handed, expected[Len(handed) + 1])
    /\ UNCHANGED expected

Spec == Init /\ [][HandOver]_<<expected, handed>>

=============================================================================
