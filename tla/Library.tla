------------------------------ MODULE Library ------------------------------
(***************************************************************************)
(* The parts of the library that user threads call outside a running flow  *)
(* graph, together: the factory, whose functions create elements; the      *)
(* elements, their identifiers, tree and flows; the calls to their         *)
(* methods.                                                                *)
(*                                                                         *)
(* Two threads work at once.  A thread is in one call at a time, except    *)
(* for what the library calls back.  What the user has to see to is left   *)
(* to the user: an object is not destroyed while one of its methods is     *)
(* called.  A hierarchical block has no actor, and takes no calls here.    *)
(***************************************************************************)
EXTENDS Factory, ElementTree, Callable

CONSTANTS
    MaxMixed,       \* bound: calls of the user, to several parts of the library
    MaxUser         \* bound: calls of the user, when all of them go to one

library == <<factory, tree, callable>>

AtRest(t) == stack[t] = <<>> /\ doing[t] = Idle /\ calling[t] = NoCall
Made      == calls + steps + calls_made
Begins(t, same) ==
    /\ AtRest(t)
    /\ Made < MaxMixed \/ (Made < MaxUser /\ same = Made)

Called(e) == \E c \in Callers : calling[c].to = e \/ calling[e] # NoCall

\* the registered function creates an element: new type(args)
MakesElement(t) ==
    /\ FunctionRuns(t)
    /\ \E e \in Elements : Construct(t, e)

\* a function that throws after that destroys what it created, as Drop does
FactorySteps(t) ==
    \/ RegisterFactory(t) \/ MakeRefused(t) \/ MakeRuns(t)
    \/ \E c \in UserCalls : FunctionCalls(t, c)
    \/ doing[t] = Idle /\ (FunctionThrows(t) \/ MakeReturns(t))
    \/ JitFails(t) \/ JitRegisters(t) \/ JitReturns(t)

UsesFactory(t) == Begins(t, calls) /\ \E c \in UserCalls : Enters(t, c)

UsesElements(t) ==
    \/ Begins(t, steps) /\ TreeCall(t) /\ \A e \in user \ user' : ~Called(e)
    \/ AtRest(t) /\ \E e \in Elements : Construct(t, e)

\* the constructor of a block goes on after that of the element
Constructed(t) == UidFound(t) /\ ConstructorRegisters(doing[t].elem)

UsesCallable(t) ==
    Begins(t, calls_made) /\ \E e \in user \ Hier, args \in ArgLists, want \in Types \cup {"void"} :
        UserX(t, e, args, want)

LibraryInit == FactoryInit /\ TreeInit /\ CallableInit

LibraryNext ==
    \/ \E t \in Threads :
           \/ MakesElement(t) /\ UNCHANGED callable
           \/ (FactorySteps(t) \/ UsesFactory(t)) /\ UNCHANGED <<tree, callable>>
           \/ Constructed(t) /\ UNCHANGED factory
           \/ /\ UidInUse(t) \/ ResetUid(t) \/ FreeUid(t) \/ GotUid(t) \/ UsesElements(t)
              /\ UNCHANGED <<factory, callable>>
           \/ UsesCallable(t) /\ UNCHANGED <<factory, tree>>
    \/ CallableStep /\ UNCHANGED <<factory, tree>>

LibrarySpec == LibraryInit /\ [][LibraryNext]_library
============================================================================
