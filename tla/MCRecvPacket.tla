---------------------------- MODULE MCRecvPacket ----------------------------
(* The instances of RecvPacket that TLC checks. *)
EXTENDS RecvPacket

\* Packets of no datum, of one, of two, with an empty datum, and with one longer
\* than the buffer; two packets from each client, every pair of them.
Packets == { <<>>, <<1>>, <<3>>, <<2, 4>>, <<0, 2>>, <<6>> }

MCStreams == Packets \X Packets

=============================================================================
