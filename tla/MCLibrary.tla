----------------------------- MODULE MCLibrary -----------------------------
(* The instance of Library that the runs check. *)
EXTENDS Library, TLC

Fn(takes, body) == [takes |-> takes, body |-> body]
TheFunctions == {Fn(<<>>, "new"), Fn(<<"number">>, "make"), Fn(<<>>, "jit")}

Module(path, fcn, search, loads) ==
    [path |-> path, fcn |-> fcn, search |-> search, loads |-> loads]
TheModules == {Module("/block", Fn(<<>>, "jit"), 1, TRUE),
               Module("/block", Fn(<<>>, "new"), 2, TRUE),
               Module("/block", Fn(<<"number">>, "make"), 3, FALSE)}

Method(takes, returns, body) == [takes |-> takes, returns |-> returns, body |-> body]
Registering == Method(<<>>, "void", "register")
Unregistering == Method(<<>>, "number", "unregister")
Throwing == Method(<<"number">>, "number", "throw")
Calling == Method(<<>>, "void", "call")
TheMethods == {Registering, Unregistering, Throwing, Calling}

\* blocks call the other, or are called
CONSTANTS hier, block, other
TheClasses == (hier :> {}) @@ (block :> {Calling, Unregistering})
                  @@ (other :> {Registering, Throwing})

ThreadSymmetry == Permutations(Threads)
============================================================================
