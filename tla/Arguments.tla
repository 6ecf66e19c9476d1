----------------------------- MODULE Arguments -----------------------------
(***************************************************************************)
(* How a registered function or method meets the arguments of a call.      *)
(*                                                                         *)
(* register_factory and register_call store a typed functor; make() and    *)
(* x() pack what they are given, of any type, into a list.  The functor    *)
(* first checks the length of the list, then converts each argument, and   *)
(* only then runs: what does not fit throws before anything has happened.  *)
(* The templates are expanded for 0 to 10 arguments, by what the model     *)
(* writes once for a sequence.                                             *)
(***************************************************************************)
EXTENDS Naturals, Sequences

CONSTANT MaxArgs        \* MAX_ARGS of the expansion, less one

ASSUME ArgumentsAssumption == MaxArgs \in Nat

\* what the properties tell apart of a value: its type
Types == {"number", "string"}

ArgLists == UNION {[1 .. n -> Types] : n \in 0 .. MaxArgs}

\* PMC's safe_as<T>: throws when the value is of another kind
Converts(have, want) == have = want

Accepts(takes, args) ==
    /\ Len(args) = Len(takes)
    /\ \A k \in DOMAIN takes : Converts(args[k], takes[k])
============================================================================
