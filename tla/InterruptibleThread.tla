------------------------ MODULE InterruptibleThread ------------------------
(***************************************************************************)
(* The special thread in which a block with interruptible_work calls its   *)
(* work(), because that may block until it is interrupted.                 *)
(*                                                                         *)
(* The actor of the block hands the work over with call() and waits for    *)
(* the answer: two threads, a mutex that the special thread keeps while    *)
(* it works, one condition variable for both directions, and two flags.    *)
(* interrupt_all, and the destructor, interrupt a thread that waits or     *)
(* works; the interruption ends it.                                        *)
(***************************************************************************)
EXTENDS Naturals

CONSTANT Threaded   \* blocks whose work() has a special thread

VARIABLES
    thread,         \* the InterruptibleThread of each block
    caller          \* where the block's actor stands in it

\* at: where the thread stands; its own interruption; callable: not empty
ThreadState == [at : {"none", "locks", "waits", "works", "notifies", "leaves",
                  "ended", "clears"},
                wait_msg : BOOLEAN, wait_ack : BOOLEAN, callable : BOOLEAN,
            interrupted : BOOLEAN]

CallerAt == {"out", "calls", "notifies", "locks", "waits", "clears", "joins"}

NoThread == [at |-> "none", wait_msg |-> TRUE, wait_ack |-> TRUE,
             callable |-> FALSE, interrupted |-> FALSE]

\* the mutex: the thread keeps it while it works, and while work() is in the
\* destructor of its own thread; every other critical section is one step
Free(b) == thread[b].at \notin {"works", "clears"}

Woken(at)  == IF at = "waits" THEN "locks" ELSE at
Update(b, r, c) ==
    /\ thread' = [thread EXCEPT ![b] = r]
    /\ caller' = [caller EXCEPT ![b] = c]

\* whoever waits for the condition, notified, takes the mutex again
Notified(r) == [r EXCEPT !.at = Woken(@)]

\* an interruption wakes a thread that waits
Interrupted(r) ==
    IF r.at \in {"none", "ended"} THEN r
    ELSE [r EXCEPT !.interrupted = TRUE, !.at = Woken(@)]

---------------------------------------------------------------------------
(* The actor.                                                              *)

\* the constructor: returns when the thread it created has passed the barrier
NewThread == [NoThread EXCEPT !.at = "locks", !.callable = TRUE]

\* call(), up to the notification
CallBegins(b) ==
    /\ caller[b] = "calls" /\ Free(b)
    /\ IF thread[b].callable
       THEN Update(b, [thread[b] EXCEPT !.wait_msg = FALSE], "notifies")
       ELSE Update(b, thread[b], "out")

CallNotifies(b) ==
    /\ caller[b] = "notifies"
    /\ Update(b, Notified(thread[b]), "locks")

CallWaits(b) ==
    /\ caller[b] = "locks" /\ Free(b)
    /\ IF thread[b].wait_ack
       THEN Update(b, thread[b], "waits")
       ELSE Update(b, [thread[b] EXCEPT !.wait_ack = TRUE], "out")

\* the destructor: empties the callable, interrupts, joins, deletes
Destroys(b) ==
    /\ caller[b] = "clears" /\ Free(b)
    /\ Update(b, Interrupted([thread[b] EXCEPT !.callable = FALSE]), "joins")

Joins(b) ==
    /\ caller[b] = "joins" /\ thread[b].at = "ended"
    /\ Update(b, NoThread, "out")

---------------------------------------------------------------------------
(* The special thread.                                                     *)

\* what it leaves when it ends, for whatever reason
Leaves(r) == [r EXCEPT !.at = "leaves", !.callable = FALSE, !.wait_ack = FALSE]

\* (mutant) the message stays, and is taken again
KeepsMsg(r) == [r EXCEPT !.at = "works"]
TakesMsg(r) == [r EXCEPT !.at = "works", !.wait_msg = TRUE]

\* with the mutex: the conditions of the loops, up to the call of work()
Loops(b) ==
    LET r == thread[b] IN
    /\ r.at = "locks"
    /\ Update(b, IF r.interrupted \/ (~r.wait_msg /\ ~r.callable) THEN Leaves(r)
                 ELSE IF r.wait_msg THEN [r EXCEPT !.at = "waits"]
                 ELSE TakesMsg(r),
              caller[b])

\* work() returns; the answer
Works(b) ==
    /\ thread[b].at = "works"
    /\ Update(b, [thread[b] EXCEPT !.at = "notifies", !.wait_ack = FALSE], caller[b])

\* work() throws, or is interrupted where it blocks
Throws(b) ==
    /\ thread[b].at = "works"
    /\ Update(b, Leaves(thread[b]), caller[b])

Notifies(b) ==
    /\ thread[b].at \in {"notifies", "leaves"}
    /\ Update(b, [thread[b] EXCEPT !.at = IF @ = "leaves" THEN "ended" ELSE "locks"],
              IF caller[b] = "waits" THEN "locks" ELSE caller[b])

\* work() marks its block done: mark_done destroys the thread it runs in
WorkMarksDone(b) ==
    /\ thread[b].at = "works"
    /\ Update(b, [thread[b] EXCEPT !.at = "clears"], caller[b])

ThreadInit ==
    /\ thread = [b \in Threaded |-> NoThread]
    /\ caller = [b \in Threaded |-> "out"]

\* steps that concern nothing but the actor and its thread
Handshake(b) ==
    \/ CallBegins(b) \/ CallNotifies(b) \/ CallWaits(b)
    \/ Destroys(b) \/ Joins(b)
    \/ Loops(b) \/ Notifies(b)

---------------------------------------------------------------------------
(* The special thread calls work() only while the actor of the block waits *)
(* for it in call(): the queues of the block, which have no lock, are      *)
(* touched by one thread at a time, and no work is left over when call()   *)
(* returns (interruptible_thread.hpp: "nice and synchronous").             *)
WorkInCall ==
    \A b \in Threaded :
        thread[b].at \in {"works", "clears"} => caller[b] \in {"notifies", "locks", "waits"}
============================================================================
