---------------------------- MODULE ElementTree ----------------------------
(***************************************************************************)
(* Elements: their unique identifiers, the tree they are adopted into, and *)
(* the references that keep them.                                          *)
(*                                                                         *)
(* An Element is a handle: a shared pointer to its ElementImpl.  The       *)
(* object the user wrote (a block) is such a handle too, the one the       *)
(* implementation's self points to; every other handle is a copy of the    *)
(* base class.  The object lives as long as its user, or as the container  *)
(* it was given to, a shared pointer that connect() can lock, is held; the *)
(* implementation lives as long as any handle does.                        *)
(*                                                                         *)
(* Identifiers are numbers: name_0, name_1, ... of one name.  The set of   *)
(* those in use has a mutex; the pointer of an element to its own has not. *)
(* A thread uses only objects that nobody destroys or renames meanwhile.   *)
(***************************************************************************)
EXTENDS Naturals, FiniteSets, Sequences, Users

CONSTANTS
    Contained,      \* those whose object is in a shared pointer: weak_self
    Hier,           \* those with a topology
    Names,          \* names of children
    MaxSteps        \* bound: calls of the user on elements

ASSUME TreeAssumption ==
    /\ Contained \cup Hier \subseteq Elements
    /\ MaxSteps \in Nat

VARIABLES
    uid_set,        \* get_uid_set()
    uid_mutex,      \* the thread in uid_mutex
    uid,            \* the identifier each element points to
    user,           \* elements whose object the user holds
    parent,         \* parent
    children,       \* children
    flows,          \* flows of each topology: the elements and how it refers to them
    alive,          \* elements whose implementation exists
    unused,         \* elements not created yet
    doing,          \* the call each thread is in
    steps           \* bound: calls of the user so far

tree == <<uid_set, uid_mutex, uid, user, parent, children, flows,
          alive, unused, doing, steps>>

kept == <<parent, children, flows>>

Idle == [op |-> "idle", elem |-> None, new |-> 0, old |-> 0]
Doing(op, e, n, o) == [op |-> op, elem |-> e, new |-> n, old |-> o]
Uids == 0 .. Cardinality(Elements)

InUse(e) == \E t \in Threads : doing[t].elem = e
May(t)   == doing[t] = Idle /\ steps < MaxSteps

Does(t, d) == doing' = [doing EXCEPT ![t] = d]

---------------------------------------------------------------------------
\* the elements that flows fl of the implementations s hold, and the objects
Ports(s, fl)     == UNION {{f.src, f.sink} : f \in UNION {fl[h] : h \in s}}
Holding(s, fl)   == {p.elem : p \in {q \in Ports(s, fl) : q.by # "pointer"}}
Containing(s, fl) == {p.elem : p \in {q \in Ports(s, fl) : q.by = "container"}}

\* the object of e, which self points to and whose work() is called
Object(e) == e \in user \/ e \in Containing(alive, flows)

\* a handle of e: the object, a copy that a flow or the tree holds
Supported(e, s, us, fl) ==
    \/ e \in us \/ e \in Holding(s, fl)
    \/ \E p \in s : \E n \in Names : children[p][n] = e
    \/ \E c \in s : parent[c] = e

\* counts of references: what is left is the largest set that holds itself
Survivors(us, fl) ==
    UNION {s \in SUBSET alive : \A e \in s : Supported(e, s, us, fl)}

\* ~ElementImpl and free_uid, for what loses its last handle
Settle(us, fl) ==
    LET s == Survivors(us, fl)
    IN  /\ user' = us
        /\ alive' = s
        /\ flows' = [h \in Elements |-> IF h \in s THEN fl[h] ELSE {}]
        /\ uid_set' = uid_set \ {uid[e] : e \in alive \ s}
        /\ UNCHANGED <<uid_mutex, uid, parent, children, unused>>

---------------------------------------------------------------------------
\* Element(name): tries name_0, name_1, ... until one is free
Construct(t, e) ==
    /\ doing[t] = Idle /\ e \in unused
    /\ unused' = unused \ {e}
    /\ Does(t, Doing("construct", e, 0, 0))
    /\ UNCHANGED <<uid_set, uid_mutex, uid, user, parent, children, flows,
                   alive, steps>>

\* (mutant) an identifier in use is taken all the same
TakeUid(u) == uid_set' = uid_set \cup {u}

\* alloc_uid: throws when the identifier is in use
AllocUid(u) == u \notin uid_set /\ uid_set' = uid_set \cup {u}

UidInUse(t) ==
    /\ doing[t].op = "construct" /\ uid_mutex = None
    /\ doing[t].new \in uid_set
    /\ Does(t, [doing[t] EXCEPT !.new = @ + 1])
    /\ UNCHANGED <<uid_set, uid_mutex, uid, user, alive, unused, steps>> /\ UNCHANGED kept

UidFound(t) ==
    LET e == doing[t].elem
    IN  /\ doing[t].op = "construct" /\ uid_mutex = None
        /\ AllocUid(doing[t].new)
        /\ uid' = [uid EXCEPT ![e] = doing[t].new]
        /\ alive' = alive \cup {e} /\ user' = user \cup {e}
        /\ Does(t, Idle)
        /\ UNCHANGED <<uid_mutex, unused, steps>> /\ UNCHANGED kept

\* set_uid: the new identifier is allocated, the pointer exchanged, and the
\* old identifier freed; the mutex is taken for the first and the last
SetUid(t, e, u) ==
    /\ May(t) /\ e \in user /\ ~InUse(e) /\ uid_mutex = None
    /\ AllocUid(u)
    /\ steps' = steps + 1
    /\ Does(t, Doing("set", e, u, uid[e]))
    /\ UNCHANGED <<uid_mutex, uid, user, alive, unused>> /\ UNCHANGED kept

ResetUid(t) ==
    /\ doing[t].op = "set"
    /\ uid' = [uid EXCEPT ![doing[t].elem] = doing[t].new]
    /\ Does(t, [doing[t] EXCEPT !.op = "free"])
    /\ UNCHANGED <<uid_set, uid_mutex, user, alive, unused, steps>> /\ UNCHANGED kept

FreeUid(t) ==
    /\ doing[t].op = "free" /\ uid_mutex = None
    /\ uid_set' = uid_set \ {doing[t].old}
    /\ Does(t, Idle)
    /\ UNCHANGED <<uid_mutex, uid, user, alive, unused, steps>> /\ UNCHANGED kept

\* (mutant) the mutex is not taken
ReadsUnlocked(t) == UNCHANGED uid_mutex

LocksUid(t) == uid_mutex = None /\ uid_mutex' = t

\* get_uid, of an element that another thread may be renaming: the pointer is
\* read, and what it points to, under the mutex
GetUid(t, e) ==
    /\ May(t) /\ e \in user /\ LocksUid(t)
    /\ steps' = steps + 1
    /\ Does(t, Doing("get", e, 0, uid[e]))
    /\ UNCHANGED <<uid_set, uid, user, alive, unused>> /\ UNCHANGED kept

GotUid(t) ==
    /\ doing[t].op = "get"
    /\ uid_mutex' = None
    /\ Does(t, Idle)
    /\ UNCHANGED <<uid_set, uid, user, alive, unused, steps>> /\ UNCHANGED kept

---------------------------------------------------------------------------
\* (mutant) does not ask whether the child has a parent
NameIsFree(p, c, n) == children[p][n] = None

Adoptable(p, c, n) == parent[c] = None /\ children[p][n] = None

\* adopt_element: nothing keeps an element from adopting itself, or the one
\* that adopted it
AdoptElement(t, p, c, n) ==
    /\ May(t) /\ {p, c} \subseteq user
    /\ Adoptable(p, c, n)
    /\ parent' = [parent EXCEPT ![c] = p]
    /\ children' = [children EXCEPT ![p][n] = c]
    /\ steps' = steps + 1 /\ Does(t, Idle)
    /\ UNCHANGED <<uid_set, uid_mutex, uid, user, flows, alive, unused>>

\* e, its parent, the parent of that, as far as there can be different ones
Ancestors(e) ==
    LET up[k \in 0 .. Cardinality(Elements)] ==
            IF k = 0 THEN e
            ELSE IF parent[up[k - 1]] = None THEN up[k - 1] ELSE parent[up[k - 1]]
    IN  up
Up(e) == Ancestors(e)[Cardinality(Elements)]

\* one node of a path: the root when it is empty and first, else this
\* element, the parent, or a child; None is the exception
Node(e, node, first) ==
    IF e = None THEN None
    ELSE CASE node = "" /\ first -> Up(e)
           [] node = "."         -> e
           [] node = ".."        -> parent[e]
           [] OTHER              -> children[e][node]

\* the elements along the path
Along(e, path) ==
    LET at[k \in 0 .. Len(path)] ==
            IF k = 0 THEN e ELSE Node(at[k - 1], path[k], k = 1)
    IN  at
Located(e, path) == Along(e, path)[Len(path)]

\* locate_element changes nothing; but in a cycle of adoptions the way to the
\* root does not end
RootLost(e) == parent[Up(e)] # None

LocateLoops(t, e) ==
    /\ May(t) /\ e \in user /\ RootLost(e)
    /\ steps' = steps + 1
    /\ Does(t, Doing("lost", e, 0, 0))
    /\ UNCHANGED <<uid_set, uid_mutex, uid, user, alive, unused>> /\ UNCHANGED kept

---------------------------------------------------------------------------
\* (mutant) never asks for the container
GetCopy(e) == [elem |-> e, by |-> "copy"]

\* a reference to the container when the element has one, else a copy of the
\* handle
GetRef(e) ==
    [elem |-> e, by |-> IF e \in Contained THEN "container" ELSE "copy"]

Flow(src, sink) == [src |-> GetRef(src), sink |-> GetRef(sink)]

Connect(t, h, src, sink) ==
    /\ May(t) /\ h \in Hier /\ {h, src, sink} \subseteq user
    /\ flows' = [flows EXCEPT ![h] = @ \cup {Flow(src, sink)}]
    /\ steps' = steps + 1 /\ Does(t, Idle)
    /\ UNCHANGED <<uid_set, uid_mutex, uid, user, parent, children, alive, unused>>

\* a flow is found by its ends, whatever they are held by
Disconnect(t, h, src, sink) ==
    LET gone == {f \in flows[h] : f.src.elem = src /\ f.sink.elem = sink}
    IN  /\ May(t) /\ h \in user /\ {src, sink} \subseteq user /\ gone # {}
        /\ uid_mutex = None
        /\ Settle(user, [flows EXCEPT ![h] = @ \ gone])
        /\ steps' = steps + 1 /\ Does(t, Idle)

DisconnectAll(t, h) ==
    /\ May(t) /\ h \in user /\ flows[h] # {} /\ uid_mutex = None
    /\ Settle(user, [flows EXCEPT ![h] = {}])
    /\ steps' = steps + 1 /\ Does(t, Idle)

\* the user's handle goes out of scope: the object, unless a container that a
\* flow holds keeps it
Drop(t, e) ==
    /\ May(t) /\ e \in user /\ ~InUse(e) /\ uid_mutex = None
    /\ Settle(user \ {e}, flows)
    /\ steps' = steps + 1 /\ Does(t, Idle)

---------------------------------------------------------------------------
TreeInit ==
    /\ uid_set = {} /\ uid_mutex = None /\ uid = [e \in Elements |-> 0]
    /\ user = {} /\ alive = {}
    /\ parent = [e \in Elements |-> None]
    /\ children = [e \in Elements |-> [n \in Names |-> None]]
    /\ flows = [e \in Elements |-> {}]
    /\ unused = Elements
    /\ doing = [t \in Threads |-> Idle]
    /\ steps = 0

\* calls that are in progress, and calls that the user may begin
TreeStep(t) ==
    UidInUse(t) \/ UidFound(t) \/ ResetUid(t) \/ FreeUid(t) \/ GotUid(t)

TreeCall(t) == \E e \in Elements :
    \/ \E u \in Uids : SetUid(t, e, u)
    \/ GetUid(t, e) \/ Drop(t, e) \/ DisconnectAll(t, e) \/ LocateLoops(t, e)
    \/ \E f \in Elements :
           \/ \E n \in Names : AdoptElement(t, e, f, n)
           \/ \E h \in Elements : Connect(t, h, e, f) \/ Disconnect(t, h, e, f)

TreeNext == \E t \in Threads :
    \/ TreeStep(t) \/ TreeCall(t)
    \/ \E e \in Elements : Construct(t, e)

TreeSpec == TreeInit /\ [][TreeNext]_tree

---------------------------------------------------------------------------
TreeTypeOK ==
    /\ uid_set \subseteq Nat /\ uid_mutex \in Threads \cup {None}
    /\ uid \in [Elements -> Nat]
    /\ user \cup alive \cup unused \subseteq Elements
    /\ parent \in [Elements -> Elements \cup {None}]
    /\ children \in [Elements -> [Names -> Elements \cup {None}]]
    /\ doing \in [Threads -> [op : {"idle", "construct", "set", "free", "get", "lost"},
                              elem : Elements \cup {None}, new : Nat, old : Nat]]

(* Safety: identifiers are unique across the process, through the renaming *)
(* of one element while others are created, renamed and destroyed: no two  *)
(* elements have the same, no element has one that is being given out or   *)
(* taken back, and none is kept that no element has.                       *)
UidsUnique ==
    LET new == {t \in Threads : doing[t].op = "set"}
        old == {t \in Threads : doing[t].op = "free"}
        owners(u) == Cardinality({e \in alive : uid[e] = u})
            + Cardinality({t \in new : doing[t].new = u})
            + Cardinality({t \in old : doing[t].old = u})
    IN  \A u \in Uids : owners(u) = IF u \in uid_set THEN 1 ELSE 0

(* Safety: get_uid never reads an identifier that has been deleted: the    *)
(* pointer and what it points to are read under the mutex that free_uid    *)
(* takes.                                                                  *)
UidReadIsLive ==
    \A t \in Threads : doing[t].op = "get" => doing[t].old \in uid_set

(* Safety: an implementation in a flow of a live topology exists, and when *)
(* its object is in a container that object exists too, whatever the user  *)
(* has dropped: the executor calls its work().                             *)
FlowKeepsBlock ==
    \A h \in alive : \A f \in flows[h] : \A e \in {f.src.elem, f.sink.elem} :
        e \in alive /\ (e \in Contained => Object(e))

(* Safety: parents and children agree, and all of them exist: an element   *)
(* that is in the tree is the child of one parent, under one name, and     *)
(* locate_element finds it: from its parent by that name, from the root    *)
(* that both have by any path, and its parent from it.                     *)
TreeIsClosed ==
    \A e \in alive : LET p == parent[e] IN
        /\ \A n \in Names : children[e][n] # None => parent[children[e][n]] = e
        /\ p # None =>
               /\ p \in alive
               /\ Located(e, <<"..">>) = p
               /\ \E n \in Names :
                      /\ Located(p, <<n>>) = e /\ Located(e, <<".", "..", n>>) = e
                      /\ \A m \in Names \ {n} : children[p][m] # e
               /\ ~RootLost(e) => Located(p, <<"">>) = Located(e, <<"">>)
============================================================================
