------------------------------- MODULE Users -------------------------------
(***************************************************************************)
(* Who uses the library, and the elements they create.                     *)
(***************************************************************************)
EXTENDS FiniteSets

CONSTANTS
    Threads,        \* the user's threads
    Elements,       \* elements that can be created
    None            \* no thread, no element

ASSUME UsersAssumption ==
    /\ None \notin Threads /\ None \notin Elements /\ Threads \cap Elements = {}
    /\ IsFiniteSet(Threads \cup Elements)
============================================================================
