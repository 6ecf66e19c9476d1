---------------------------- MODULE MCBlockActor ----------------------------
(* Small instances of BlockActor for TLC.                                  *)
EXTENDS BlockActor, TLC

=============================================================================
