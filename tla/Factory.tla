------------------------------ MODULE Factory ------------------------------
(***************************************************************************)
(* The element factory, the just in time compiler that feeds it, and the   *)
(* loader that fills it at start-up.                                       *)
(*                                                                         *)
(* Two locks: the mutex of the registry, which make() holds while the      *)
(* registered function runs, and the mutex of the engine monitor, which    *)
(* jit_factory() holds while the static blocks of the compiled source      *)
(* register their functions.  Neither is recursive, and a registered       *)
(* function is user code: it may call make() or jit_factory() itself, as   *)
(* the constructor of a hierarchical block does for its children.          *)
(*                                                                         *)
(* stack[t] holds the calls that thread t is in, the innermost last.       *)
(***************************************************************************)
EXTENDS Arguments, Users

CONSTANTS
    Paths,          \* paths of the factory
    Functions,      \* functions to register: what they take and what they do
    Modules,        \* modules on disk: path, function, search they are found by
    MaxCalls        \* bound: calls of the user into the factory

ASSUME FactoryAssumption ==
    /\ Functions \subseteq [takes : ArgLists, body : {"new", "make", "jit"}]
    /\ Modules \subseteq
           [path : Paths, fcn : Functions, search : 1 .. 3, loads : BOOLEAN]
    /\ MaxCalls \in Nat

VARIABLES
    registry,       \* get_factory_registry(): the entry object of each path
    mutex,          \* the thread in factory.cpp's mutex
    eemon,          \* the thread in the mutex of the ExecutionEngineMonitor
    stack,          \* the calls of each thread
    serial,         \* auxiliary: entry objects made so far, to name them
    calls           \* bound: calls of the user so far

factory == <<registry, mutex, eemon, stack, serial, calls>>

\* an entry object: the functor, and which object it is; 0 is none
Entry(f, s) == [fcn |-> {f}, serial |-> s]
Absent      == [fcn |-> {}, serial |-> 0]

Top(t)     == stack[t][Len(stack[t])]
In(t, op, at) == stack[t] # <<>> /\ Top(t).op = op /\ Top(t).at = at
Call(op, path, what) == [op |-> op, path |-> path, what |-> what, at |-> "lock",
                         serial |-> 0]
Push(t, c) == [stack EXCEPT ![t] = Append(@, c)]
Pop(t)     == [stack EXCEPT ![t] = SubSeq(@, 1, Len(@) - 1)]
At(t, at)  == [stack EXCEPT ![t][Len(stack[t])].at = at]

---------------------------------------------------------------------------
\* register_factory: an entry that is there is replaced, with a warning, and
\* with it the functor is deleted
RegisterFactory(t) ==
    /\ In(t, "register", "lock") /\ mutex = None
    /\ serial' = serial + 1
    /\ registry' = [registry EXCEPT
           ![Top(t).path] = Entry(Top(t).what, serial + 1)]
    /\ stack' = Pop(t)
    /\ UNCHANGED <<mutex, eemon, calls>>

\* (mutant) the locks stay behind
KeepsLocks(t) == UNCHANGED <<mutex, eemon>>

\* the scoped locks of a thread
ReleasesLocks(t) ==
    /\ mutex' = IF mutex = t THEN None ELSE mutex
    /\ eemon' = IF eemon = t THEN None ELSE eemon

\* what an exception out of the functor or the compiler leaves: no calls and
\* no locks
Unwound(t) == stack' = [stack EXCEPT ![t] = <<>>] /\ ReleasesLocks(t)

Takes(e, args) == \E f \in e.fcn : Accepts(f.takes, args)

\* no function for the path, or one that takes something else
MakeRefused(t) ==
    /\ In(t, "make", "lock") /\ mutex = None
    /\ ~Takes(registry[Top(t).path], Top(t).what)
    /\ Unwound(t)
    /\ UNCHANGED <<registry, serial, calls>>

\* (mutant) the lock is only held for the lookup
LocksLookup(t) == UNCHANGED mutex

\* the lock is held until make() returns
LocksMake(t) == mutex' = t

MakeRuns(t) ==
    /\ In(t, "make", "lock") /\ mutex = None
    /\ Takes(registry[Top(t).path], Top(t).what)
    /\ LocksMake(t)
    /\ stack' = [stack EXCEPT
           ![t][Len(stack[t])].at = "run",
           ![t][Len(stack[t])].serial = registry[Top(t).path].serial]
    /\ UNCHANGED <<registry, eemon, serial, calls>>

\* the function calls the factory again
Body(t) == UNION {{f.body : f \in registry[Top(t).path].fcn}}
FunctionCalls(t, c) ==
    /\ In(t, "make", "run") /\ c.op \in Body(t)
    /\ stack' = [At(t, "ran") EXCEPT ![t] = Append(@, c)]
    /\ UNCHANGED <<registry, mutex, eemon, serial, calls>>

\* the function creates the element
FunctionRuns(t) ==
    /\ In(t, "make", "run") /\ "new" \in Body(t)
    /\ stack' = At(t, "ran")
    /\ UNCHANGED <<registry, mutex, eemon, serial, calls>>

FunctionThrows(t) ==
    /\ In(t, "make", "ran")
    /\ Unwound(t)
    /\ UNCHANGED <<registry, serial, calls>>

MakeReturns(t) ==
    /\ In(t, "make", "ran")
    /\ mutex' = None
    /\ stack' = Pop(t)
    /\ UNCHANGED <<registry, eemon, serial, calls>>

---------------------------------------------------------------------------
\* the source does not compile, or the engine is not created
JitFails(t) ==
    /\ In(t, "jit", "lock")
    /\ Unwound(t)
    /\ UNCHANGED <<registry, serial, calls>>

\* add(): the static constructors run under the lock of the monitor
JitRegisters(t) ==
    /\ In(t, "jit", "lock") /\ eemon = None
    /\ eemon' = t
    /\ stack' = [At(t, "ran") EXCEPT
           ![t] = Append(@, Call("register", Top(t).path, Top(t).what))]
    /\ UNCHANGED <<registry, mutex, serial, calls>>

JitReturns(t) ==
    /\ In(t, "jit", "ran")
    /\ eemon' = None
    /\ stack' = Pop(t)
    /\ UNCHANGED <<registry, mutex, serial, calls>>

---------------------------------------------------------------------------
\* the calls that user code can make
UserCalls ==
    {Call("make", p, a) : p \in Paths, a \in ArgLists}
        \cup {Call(op, p, f) : op \in {"register", "jit"}, p \in Paths,
                               f \in Functions}

Enters(t, c) ==
    /\ stack[t] = <<>> /\ calls < MaxCalls
    /\ stack' = Push(t, c)
    /\ calls' = calls + 1
    /\ UNCHANGED <<registry, mutex, eemon, serial>>

\* the modules found by one search come in the order of the directory, which
\* is any; those of a later search replace those of an earlier one; one that
\* does not load is skipped
Loaded(p) == {m \in Modules : m.path = p /\ m.loads}
LoadedLast(p) == {m \in Loaded(p) : \A n \in Loaded(p) : n.search <= m.search}

FactoryInit ==
    /\ registry \in [Paths -> {Absent} \cup {Entry(f, 1) : f \in Functions}]
    /\ \A p \in Paths :
           IF Loaded(p) = {} THEN registry[p] = Absent
           ELSE \E m \in LoadedLast(p) : registry[p] = Entry(m.fcn, 1)
    /\ mutex = None /\ eemon = None
    /\ stack = [t \in Threads |-> <<>>]
    /\ serial = 1 /\ calls = 0

FactoryStep(t) ==
    \/ RegisterFactory(t) \/ MakeRefused(t) \/ MakeRuns(t)
    \/ \E c \in UserCalls : FunctionCalls(t, c)
    \/ FunctionRuns(t) \/ FunctionThrows(t) \/ MakeReturns(t)
    \/ JitFails(t) \/ JitRegisters(t) \/ JitReturns(t)

FactoryNext ==
    \E t \in Threads : FactoryStep(t) \/ \E c \in UserCalls : Enters(t, c)

FactorySpec == FactoryInit /\ [][FactoryNext]_factory

---------------------------------------------------------------------------
\* the frames of a thread that run under a lock
Holds(t, op) == \E k \in DOMAIN stack[t] :
                    stack[t][k].op = op /\ stack[t][k].at # "lock"

\* a registered function has called back into the factory
Reentered == \E t \in Threads : \E k \in DOMAIN stack[t] :
                 k < Len(stack[t]) /\ stack[t][k].op = "make"

\* the thread that t waits for
Lock(t) == IF Top(t).op = "jit" THEN eemon ELSE mutex
Waits(t) == stack[t] # <<>> /\ Top(t).at = "lock" /\ Lock(t) # None
Deadlocked(t) == \E S \in SUBSET Threads :
    t \in S /\ \A u \in S : Waits(u) /\ Lock(u) \in S

(* Safety: threads wait for each other, or a lock is left held by a thread *)
(* that is in no call, only when a registered function has called back     *)
(* into the factory: make(), register_factory() and jit_factory() by       *)
(* themselves, and their exceptions, release what they take.               *)
DeadlockNeedsReentry ==
    \/ Reentered
    \/ \A t \in Threads : /\ ~Deadlocked(t)
                          /\ mutex = t => Holds(t, "make")
                          /\ eemon = t => Holds(t, "jit")

(* Safety: the entry object whose functor runs is the one in the registry: *)
(* a registration that replaces it, and deletes it, cannot come before     *)
(* make() returns.                                                         *)
EntryInUse ==
    \A t \in Threads : \A k \in DOMAIN stack[t] :
        LET c == stack[t][k]
        IN  c.op = "make" /\ c.at # "lock" =>
                registry[c.path].serial = c.serial
============================================================================
