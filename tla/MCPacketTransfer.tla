-------------------------- MODULE MCPacketTransfer --------------------------
(* A file of FileLen different bytes; the user types indices 0 to MaxInput. *)
EXTENDS PacketTransfer, TLC

CONSTANTS FileLen, MaxInput

MCBytes == 1 .. FileLen
MCFile == [i \in 1 .. FileLen |-> i]
MCInputs == 0 .. MaxInput
=============================================================================
