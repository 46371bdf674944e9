--------------------------- MODULE MCMessageChannel ---------------------------
(* The instance of MessageChannel that TLC checks. *)
EXTENDS MessageChannel

\* Winsock: each thread has a buffer of its own.
OwnBuffer == [t \in Threads |-> t]

=============================================================================
