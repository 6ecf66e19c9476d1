---------------------------- MODULE MCFlowgraph ----------------------------
(* The instances of Flowgraph that the runs check. *)
EXTENDS Flowgraph, TLC

CONSTANTS source, other, sink

\* one output feeds two blocks, and only one of them needs an item to work
Fan == {<<source, 0, other>>, <<source, 0, sink>>}
FanSync == {<<source, 0, sink>>}
Pipe == {<<source, 0, other>>, <<other, 0, sink>>}
Join == {<<source, 0, sink>>, <<other, 0, sink>>}
OtherOnly == {<<other, 0, sink>>}

EachMakesOne == [b \in Blocks |-> 1]
OtherMakesOne == [b \in Blocks |-> IF b = other THEN 1 ELSE 0]
============================================================================
