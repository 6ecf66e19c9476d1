------------------------------- MODULE MCTags -------------------------------
(* The instances of Tags that the runs check. *)
EXTENDS Tags

\* a source, a block that puts one item in front of its input, a sink
SecondDelays == <<0, 1, 0>>
=============================================================================
