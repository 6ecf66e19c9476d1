----------------------------- MODULE ByteChannel -----------------------------
(***************************************************************************)
(* What a connection between two ports promises: the bytes that were       *)
(* produced and not yet consumed, in order, each once and unchanged.       *)
(*                                                                         *)
(* The k-th byte that is produced has the value k, so that a byte that is  *)
(* lost, doubled, moved or overwritten shows.                              *)
(***************************************************************************)
EXTENDS Naturals, Sequences

CONSTANT MaxBytes       \* bytes the producer makes in all

VARIABLES
    sent,               \* bytes produced so far
    bytes               \* the values a consumer would still read

ChannelInit == sent = 0 /\ bytes = <<>>

Send(n) ==
    /\ sent + n <= MaxBytes
    /\ sent' = sent + n
    /\ bytes' = bytes \o [k \in 1 .. n |-> sent + k]

Receive(n) ==
    /\ n <= Len(bytes)
    /\ bytes' = SubSeq(bytes, n + 1, Len(bytes))
    /\ UNCHANGED sent

ChannelNext == \E n \in 1 .. MaxBytes : Send(n) \/ Receive(n)

ChannelSpec == ChannelInit /\ [][ChannelNext]_<<sent, bytes>>
=============================================================================
