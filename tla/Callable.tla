------------------------------ MODULE Callable ------------------------------
(***************************************************************************)
(* Registered methods, and the calls x() makes to them.                    *)
(*                                                                         *)
(* A block does not run a method on the thread of its caller: the call is  *)
(* a message to the block's actor, and the caller waits for the reply with *)
(* a receiver of its own.  Every exception of the actor's side comes back  *)
(* as text and is thrown again; the last conversion, of the value to the   *)
(* type the caller asked for, is the caller's, and comes too late to undo  *)
(* the method.  A method may itself call another block, and its actor then *)
(* waits; it may also register and unregister methods.                     *)
(***************************************************************************)
EXTENDS Arguments, Users, FiniteSets

CONSTANTS
    Methods,        \* methods: what they take, what they return, what they do
    Declared,       \* the methods a block of each class may register
    MaxX            \* bound: calls of x()

Callers == Threads \cup Elements
Bodies  == {"return", "throw", "call", "unregister", "register"}

ASSUME CallableAssumption ==
    /\ Methods \subseteq [takes : ArgLists, returns : Types \cup {"void"},
                          body : Bodies]
    /\ Declared \in [Elements -> SUBSET Methods] /\ MaxX \in Nat

VARIABLES
    methods,        \* _call_registry of each block, for one name
    mailbox,        \* the calls queued at each actor
    serving,        \* the caller whose method an actor runs
    calling,        \* the call each caller waits in
    returned,       \* the end of each caller's last call
    calls_made      \* bound: calls of x() so far

callable == <<methods, mailbox, serving, calling, returned, calls_made>>

NoCall == [to |-> None, args |-> <<>>, want |-> "void", reply |-> "none"]
NoEnd  == [end |-> "none", took |-> {}, args |-> <<>>, ran |-> 0]

---------------------------------------------------------------------------
\* register_call: throws when the name is taken, and the first entry stays
RegisterCall(e, m) ==
    methods' = [methods EXCEPT ![e] = IF @ = {} THEN {m} ELSE @]

\* unregister_call: throws when the name is not there
UnregisterCall(e) ==
    methods[e] # {} /\ methods' = [methods EXCEPT ![e] = {}]

\* the constructor of the block registers its method
ConstructorRegisters(e) ==
    /\ IF Declared[e] = {} THEN UNCHANGED methods
       ELSE \E m \in Declared[e] : RegisterCall(e, m)
    /\ UNCHANGED <<mailbox, serving, calling, returned, calls_made>>

\* the message with the call
Sent(box, e, c) == [box EXCEPT ![e] = Append(@, c)]

\* x(): the arguments into a list; the caller waits
X(c, e, args, want) ==
    /\ calling' = [calling EXCEPT ![c] =
           [to |-> e, args |-> args, want |-> want, reply |-> "none"]]
    /\ returned' = [returned EXCEPT ![c] = NoEnd]
    /\ calls_made' = calls_made + 1

UserX(t, e, args, want) ==
    /\ calling[t] = NoCall /\ calls_made < MaxX
    /\ X(t, e, args, want)
    /\ mailbox' = Sent(mailbox, e, t)
    /\ UNCHANGED <<methods, serving>>

---------------------------------------------------------------------------
\* the actor takes the next call, when it is in no method
Next1(e) == Head(mailbox[e])
Takes1(e) == mailbox[e] # <<>> /\ serving[e] = None

\* (mutant) an exception leaves the handler without a reply
RepliesValue(c, r) ==
    calling' = IF r = "error" THEN calling ELSE [calling EXCEPT ![c].reply = r]

\* the value, or the text of the exception, to the receiver of the caller
Replies(c, r) == calling' = [calling EXCEPT ![c].reply = r]

Reply(c, r, took, ran) ==
    /\ Replies(c, r)
    /\ returned' = [returned EXCEPT ![c] =
           [end |-> "none", took |-> took, args |-> calling[c].args, ran |-> ran]]

\* _handle_call: no such name, or arguments that do not fit
CallRefused(e) ==
    LET c == Next1(e)
    IN  /\ Takes1(e)
        /\ \A m \in methods[e] : ~Accepts(m.takes, calling[c].args)
        /\ Reply(c, "error", methods[e], 0)
        /\ mailbox' = [mailbox EXCEPT ![e] = Tail(@)]
        /\ UNCHANGED <<methods, serving, calls_made>>

\* what a method does to the registry: registering the name it runs under
\* throws
Throws(m) == m.body \in {"throw", "register"}
Effect(e, m) == CASE m.body = "unregister" -> UnregisterCall(e)
                  [] m.body = "register"   -> \E n \in Declared[e] : RegisterCall(e, n)
                  [] OTHER                 -> UNCHANGED methods

\* the method runs to its end, or to its exception
CallRuns(e, m) ==
    LET c == Next1(e)
    IN  /\ Takes1(e) /\ m \in methods[e] /\ Accepts(m.takes, calling[c].args)
        /\ m.body # "call"
        /\ Effect(e, m)
        /\ Reply(c, IF Throws(m) THEN "error" ELSE m.returns, {m}, 1)
        /\ mailbox' = [mailbox EXCEPT ![e] = Tail(@)]
        /\ UNCHANGED <<serving, calls_made>>

\* the method calls another block, or its own: the actor waits
CallNests(e, m, f, args) ==
    LET c == Next1(e)
    IN  /\ Takes1(e) /\ m \in methods[e] /\ Accepts(m.takes, calling[c].args)
        /\ m.body = "call" /\ calls_made < MaxX
        /\ serving' = [serving EXCEPT ![e] = c]
        /\ X(e, f, args, "void")
        /\ mailbox' = Sent([mailbox EXCEPT ![e] = Tail(@)], f, e)
        /\ UNCHANGED methods

\* the nested call is over: its exception is that of the method
NestEnds(e) ==
    LET c == serving[e]
    IN  /\ c # None /\ calling[e].reply # "none"
        /\ serving' = [serving EXCEPT ![e] = None]
        /\ calling' = [calling EXCEPT ![e] = NoCall, ![c].reply =
               IF calling[e].reply = "error" THEN "error" ELSE "void"]
        /\ returned' = [returned EXCEPT ![e] = NoEnd, ![c] =
               [end |-> "none", took |-> methods[e], args |-> calling[c].args,
                ran |-> 1]]
        /\ UNCHANGED <<methods, mailbox, calls_made>>

---------------------------------------------------------------------------
\* (mutant) the error of the reply is not looked at
AnyReply(r, want) == want \in {"void", r}

\* the reply as the type the caller asked for
ConvertsReply(r, want) == r # "error" /\ want \in {"void", r}

\* x() goes on with the reply: throws what the block threw, and converts the
\* value, which a method without one does not have
XReturns(t) ==
    LET r == calling[t].reply
    IN  /\ r # "none"
        /\ returned' = [returned EXCEPT ![t].end =
               IF ConvertsReply(r, calling[t].want) THEN "value" ELSE "thrown"]
        /\ calling' = [calling EXCEPT ![t] = NoCall]
        /\ UNCHANGED <<methods, mailbox, serving, calls_made>>

CallableInit ==
    /\ methods = [e \in Elements |-> {}]
    /\ mailbox = [e \in Elements |-> <<>>]
    /\ serving = [e \in Elements |-> None]
    /\ calling = [c \in Callers |-> NoCall]
    /\ returned = [c \in Callers |-> NoEnd]
    /\ calls_made = 0

CallableStep ==
    \/ \E e \in Elements :
           \/ CallRefused(e) \/ NestEnds(e)
           \/ \E m \in Methods :
                  \/ CallRuns(e, m)
                  \/ \E f \in Elements, args \in ArgLists : CallNests(e, m, f, args)
    \/ \E t \in Threads : XReturns(t)

---------------------------------------------------------------------------
(* Safety: no call is lost or doubled: the request of a caller that waits  *)
(* is in one place, the mailbox of the block it calls, the method that     *)
(* block runs, or the reply, whatever methods throw, call or unregister in *)
(* between.                                                                *)
CallIsPending ==
    \A c \in Callers :
        Cardinality({e \in Elements : serving[e] = c})
            + Cardinality({p \in Elements \X (1 .. Cardinality(Callers)) :
                    p[2] \in DOMAIN mailbox[p[1]] /\ mailbox[p[1]][p[2]] = c})
            = IF calling[c] # NoCall /\ calling[c].reply = "none" THEN 1 ELSE 0

(* Safety: x() returns a value only when the method registered then took   *)
(* these arguments and ran, and a call whose arguments do not fit throws   *)
(* and runs nothing.                                                       *)
CallRunsOnce ==
    \A t \in Threads : LET r == returned[t] IN
        r.end # "none" =>
            /\ r.end = "value" => r.ran = 1
            /\ r.ran = 1 <=> \E m \in r.took : Accepts(m.takes, r.args)
============================================================================
