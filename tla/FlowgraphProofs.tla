-------------------------- MODULE FlowgraphProofs --------------------------
(***************************************************************************)
(* What is true of every flow graph, and every number of blocks and        *)
(* starts: work() runs in a special thread only while the actor of the     *)
(* block waits for it; wait() returns when all blocks are done, a block    *)
(* hears that its consumers are gone, and one that ends has taken all its  *)
(* input, but for the blocks that ended while a start() was under way.     *)
(*                                                                         *)
(* 1. ThreadInv.  WorkInCall speaks of the thread that works.  Inductive   *)
(* is what the two flags say before: a message that is not taken, and a    *)
(* work that is not answered, belong to the call the actor is in, and      *)
(* outside of a call both flags are raised; but for a thread that has      *)
(* left.  The actor is in a call only in the middle of task_main, so no    *)
(* other handler meets one.                                                *)
(* 2. FlowInv.  Types, and who has to answer a broadcast: the message, the *)
(* end that is owed for it, or the thread that is created, one of them.    *)
(* It ties `starting' and the activation to the broadcast that is sent.    *)
(* 3. TopInv, for WaitEndsAll: who does not hold the token of the TopBlock *)
(* is done or is in `early'.                                               *)
(* 4. HeardInv, for EndIsHeard: a port whose token is unique is marked, or *)
(* an OutputCheck for it is queued or due.                                 *)
(* 5. WiresInv, for EndTakesAll: where the other end of a wire runs, its   *)
(* token is out and no check is queued, so buffers come before the check.  *)
(*                                                                         *)
(* 3 to 5 follow the kinds of steps of StepKinds, and not every action: a  *)
(* step is one that starts, ends or tells of a block, moves a token, is of *)
(* the user's thread, or is "plain".                                       *)
(***************************************************************************)
EXTENDS Flowgraph, FiniteSetTheorems, SequenceTheorems, TLAPS

PcAt == {"idle", "create", "work", "call", "called", "check", "ends", "tells"}

Within == {"notifies", "locks", "waits"}
Left   == {"leaves", "ended"}

\* the flags r of a thread agree with where its actor c stands
Agree(r, c) ==
    /\ r.at \in {"works", "clears"} => c \in Within /\ r.wait_msg /\ r.wait_ack
    /\ r.at \notin Left /\ ~r.wait_msg => c \in Within /\ r.wait_ack
    /\ r.at \notin Left /\ c \notin Within => r.wait_ack

ThreadTypeOK ==
    /\ thread \in [Threaded -> ThreadState]
    /\ caller \in [Threaded -> CallerAt]
    /\ pc \in [Blocks -> PcAt]

ThreadInv ==
    /\ ThreadTypeOK
    /\ \A b \in Threaded : Agree(thread[b], caller[b])
    /\ \A b \in Threaded : caller[b] \in Within \cup {"calls"} => pc[b] = "called"

---------------------------------------------------------------------------
\* a handler moves on, outside of a call
PcStep(b) ==
    /\ pc[b] # "called"
    /\ \E x \in PcAt : pc' = [pc EXCEPT ![b] = x]
    /\ UNCHANGED special

LEMMA PcStepKeeps ==
    ASSUME ThreadInv, NEW b \in Blocks, PcStep(b)
    PROVE  ThreadInv'
<1>1. PICK x \in PcAt : pc' = [pc EXCEPT ![b] = x]
  BY DEF PcStep
<1>2. thread' = thread /\ caller' = caller /\ pc[b] # "called"
  BY DEF PcStep, special
<1>3. pc' \in [Blocks -> PcAt] /\ \A a \in Blocks : a # b => pc'[a] = pc[a]
  BY <1>1 DEF ThreadInv, ThreadTypeOK
<1>4. ThreadTypeOK'
  BY <1>2, <1>3 DEF ThreadInv, ThreadTypeOK
<1>5. \A a \in Threaded : caller'[a] \in Within \cup {"calls"} => pc'[a] = "called"
  BY <1>2, <1>3, FlowgraphAssumption DEF ThreadInv
<1>6. \A a \in Threaded : Agree(thread'[a], caller'[a])
  BY <1>2 DEF ThreadInv
<1>7. QED
  BY <1>4, <1>5, <1>6 DEF ThreadInv

(* A step of the thread of b, or of the actor in it.                       *)
LEMMA UpdateKeeps ==
    ASSUME ThreadInv, NEW b \in Threaded, NEW r \in ThreadState, NEW c \in CallerAt,
           Update(b, r, c), Agree(r, c), pc' \in [Blocks -> PcAt],
           \A a \in Threaded : a # b => pc'[a] = pc[a],
           c \in Within \cup {"calls"} => pc'[b] = "called"
    PROVE  ThreadInv'
<1>1. thread' = [thread EXCEPT ![b] = r] /\ caller' = [caller EXCEPT ![b] = c]
  BY DEF Update
<1>2. \A a \in Threaded : /\ thread'[a] = IF a = b THEN r ELSE thread[a]
                          /\ caller'[a] = IF a = b THEN c ELSE caller[a]
  BY <1>1 DEF ThreadInv, ThreadTypeOK
<1>3. ThreadTypeOK'
  BY <1>1 DEF ThreadInv, ThreadTypeOK
<1>4. \A a \in Threaded : Agree(thread'[a], caller'[a])
  BY <1>2 DEF ThreadInv
<1>5. \A a \in Threaded : caller'[a] \in Within \cup {"calls"} => pc'[a] = "called"
  BY <1>2 DEF ThreadInv
<1>6. QED
  BY <1>3, <1>4, <1>5 DEF ThreadInv

\* what the invariant says of the thread of b
LEMMA OfThread ==
    ASSUME ThreadInv, NEW b \in Threaded
    PROVE  /\ thread[b] \in ThreadState /\ caller[b] \in CallerAt
           /\ Agree(thread[b], caller[b])
           /\ caller[b] \in Within \cup {"calls"} => pc[b] = "called"
           /\ b \in Blocks /\ pc[b] \in PcAt
BY FlowgraphAssumption DEF ThreadInv, ThreadTypeOK

(* The actor in call() and in the destructor.                              *)
LEMMA CallerSteps ==
    ASSUME ThreadInv, NEW b \in Threaded, UNCHANGED pc,
           CallBegins(b) \/ CallNotifies(b) \/ CallWaits(b) \/ Destroys(b) \/ Joins(b)
    PROVE  ThreadInv'
<1>t. pc' \in [Blocks -> PcAt] /\ \A a \in Threaded : pc'[a] = pc[a]
  BY DEF ThreadInv, ThreadTypeOK
<1>o. /\ thread[b] \in ThreadState /\ caller[b] \in CallerAt
      /\ Agree(thread[b], caller[b])
      /\ caller[b] \in Within \cup {"calls"} => pc[b] = "called"
  BY OfThread
<1>1. CASE CallBegins(b)
  <2>1. caller[b] = "calls" /\ thread[b].at \notin {"works", "clears"} /\ pc[b] = "called"
    BY <1>1, <1>o DEF CallBegins, Free
  <2>2. CASE thread[b].callable
    <3>1. PICK r : r = [thread[b] EXCEPT !.wait_msg = FALSE]
      OBVIOUS
    <3>2. r \in ThreadState
      BY <3>1, <1>o DEF ThreadState
    <3>3. Agree(r, "notifies")
      BY <3>1, <2>1, <1>o DEF Agree, Within, ThreadState
    <3>4. Update(b, r, "notifies")
      BY <3>1, <2>2, <1>1 DEF CallBegins
    <3>5. QED
      BY <3>2, <3>3, <3>4, <2>1, <1>t, UpdateKeeps DEF CallerAt
  <2>3. CASE ~thread[b].callable
    <3>1. Agree(thread[b], "out")
      BY <2>1, <1>o DEF Agree, Within
    <3>2. Update(b, thread[b], "out")
      BY <2>3, <1>1 DEF CallBegins
    <3>3. "out" \in CallerAt /\ "out" \notin Within \cup {"calls"}
      BY DEF CallerAt, Within
    <3>4. QED
      BY <3>1, <3>2, <3>3, <1>o, <1>t, UpdateKeeps
  <2>4. QED
    BY <2>2, <2>3
<1>2. CASE CallNotifies(b)
  <2>1. PICK r : r = Notified(thread[b])
    OBVIOUS
  <2>2. r \in ThreadState
    BY <2>1, <1>o DEF ThreadState, Notified, Woken
  <2>3. Agree(r, "locks")
    BY <2>1, <1>2, <1>o DEF Agree, Within, ThreadState, Notified, Woken, Left, CallNotifies
  <2>4. Update(b, r, "locks")
    BY <2>1, <1>2 DEF CallNotifies
  <2>5. pc'[b] = "called" /\ "locks" \in CallerAt
    BY <1>2, <1>o, <1>t DEF CallNotifies, Within, CallerAt
  <2>6. QED
    BY <2>2, <2>3, <2>4, <2>5, <1>t, UpdateKeeps
<1>3. CASE CallWaits(b)
  <2>1. caller[b] = "locks" /\ thread[b].at \notin {"works", "clears"} /\ pc'[b] = "called"
    BY <1>3, <1>o, <1>t DEF CallWaits, Free, Within
  <2>2. CASE thread[b].wait_ack
    <3>1. Agree(thread[b], "waits")
      BY <2>1, <1>o DEF Agree, Within
    <3>2. Update(b, thread[b], "waits") /\ "waits" \in CallerAt
      BY <2>2, <1>3 DEF CallWaits, CallerAt
    <3>3. QED
      BY <3>1, <3>2, <2>1, <1>o, <1>t, UpdateKeeps
  <2>3. CASE ~thread[b].wait_ack
    <3>1. PICK r : r = [thread[b] EXCEPT !.wait_ack = TRUE]
      OBVIOUS
    <3>2. r \in ThreadState
      BY <3>1, <1>o DEF ThreadState
    <3>3. Agree(r, "out")
      BY <3>1, <2>1, <2>3, <1>o DEF Agree, Within, ThreadState
    <3>4. Update(b, r, "out")
      BY <3>1, <2>3, <1>3 DEF CallWaits
    <3>5. "out" \in CallerAt /\ "out" \notin Within \cup {"calls"}
      BY DEF CallerAt, Within
    <3>6. QED
      BY <3>2, <3>3, <3>4, <3>5, <1>t, UpdateKeeps
  <2>4. QED
    BY <2>2, <2>3
<1>4. CASE Destroys(b)
  <2>1. PICK r : r = Interrupted([thread[b] EXCEPT !.callable = FALSE])
    OBVIOUS
  <2>2. r \in ThreadState
    BY <2>1, <1>o DEF ThreadState, Interrupted, Woken
  <2>3. Agree(r, "joins")
    BY <2>1, <1>4, <1>o DEF Agree, Within, Left, ThreadState, Interrupted, Woken, Destroys
  <2>4. Update(b, r, "joins")
    BY <2>1, <1>4 DEF Destroys
  <2>5. "joins" \in CallerAt /\ "joins" \notin Within \cup {"calls"}
    BY DEF CallerAt, Within
  <2>6. QED
    BY <2>2, <2>3, <2>4, <2>5, <1>t, UpdateKeeps
<1>5. CASE Joins(b)
  <2>1. NoThread \in ThreadState /\ Agree(NoThread, "out")
    BY DEF NoThread, ThreadState, Agree
  <2>2. Update(b, NoThread, "out")
    BY <1>5 DEF Joins
  <2>3. "out" \in CallerAt /\ "out" \notin Within \cup {"calls"}
    BY DEF CallerAt, Within
  <2>4. QED
    BY <2>1, <2>2, <2>3, <1>t, UpdateKeeps
<1>6. QED
  BY <1>1, <1>2, <1>3, <1>4, <1>5

(* The special thread; work() in it, too.                                  *)
LEMMA LoopSteps ==
    ASSUME ThreadInv, NEW b \in Threaded, UNCHANGED pc,
           Loops(b) \/ Notifies(b) \/ Works(b) \/ Throws(b) \/ WorkMarksDone(b)
    PROVE  ThreadInv'
<1>t. pc' \in [Blocks -> PcAt] /\ \A a \in Threaded : pc'[a] = pc[a]
  BY DEF ThreadInv, ThreadTypeOK
<1>o. /\ thread[b] \in ThreadState /\ caller[b] \in CallerAt
      /\ Agree(thread[b], caller[b])
      /\ caller[b] \in Within \cup {"calls"} => pc'[b] = "called"
  BY OfThread, <1>t
<1>l. PICK l : l = Leaves(thread[b])
  OBVIOUS
<1>m. l \in ThreadState /\ Agree(l, caller[b])
  BY <1>l, <1>o DEF Leaves, ThreadState, Agree, Left
<1>1. CASE Loops(b)
  <2>1. thread[b].at = "locks"
    BY <1>1 DEF Loops
  <2>2. CASE thread[b].interrupted \/ (~thread[b].wait_msg /\ ~thread[b].callable)
    <3>1. Update(b, l, caller[b])
      BY <2>2, <1>l, <1>1 DEF Loops
    <3>2. QED
      BY <3>1, <1>m, <1>o, <1>t, UpdateKeeps
  <2>3. CASE ~(thread[b].interrupted \/ (~thread[b].wait_msg /\ ~thread[b].callable))
             /\ thread[b].wait_msg
    <3>1. PICK r : r = [thread[b] EXCEPT !.at = "waits"]
      OBVIOUS
    <3>2. r \in ThreadState
      BY <3>1, <1>o DEF ThreadState
    <3>3. Agree(r, caller[b])
      BY <3>1, <2>1, <1>o DEF Agree, Left, ThreadState
    <3>4. Update(b, r, caller[b])
      BY <3>1, <2>3, <1>1 DEF Loops
    <3>5. QED
      BY <3>2, <3>3, <3>4, <1>o, <1>t, UpdateKeeps
  <2>4. CASE ~(thread[b].interrupted \/ (~thread[b].wait_msg /\ ~thread[b].callable))
             /\ ~thread[b].wait_msg
    <3>1. PICK r : r = TakesMsg(thread[b])
      OBVIOUS
    <3>2. r \in ThreadState
      BY <3>1, <1>o DEF ThreadState, TakesMsg
    <3>3. Agree(r, caller[b])
      BY <3>1, <2>1, <2>4, <1>o DEF Agree, Left, ThreadState, TakesMsg
    <3>4. Update(b, r, caller[b])
      BY <3>1, <2>4, <1>1 DEF Loops
    <3>5. QED
      BY <3>2, <3>3, <3>4, <1>o, <1>t, UpdateKeeps
  <2>5. QED
    BY <2>2, <2>3, <2>4
<1>2. CASE Notifies(b)
  <2>1. PICK r, c : /\ r = [thread[b] EXCEPT !.at = IF @ = "leaves" THEN "ended" ELSE "locks"]
                    /\ c = IF caller[b] = "waits" THEN "locks" ELSE caller[b]
    OBVIOUS
  <2>2. r \in ThreadState /\ c \in CallerAt
    BY <2>1, <1>o DEF ThreadState, CallerAt
  <2>3. c \in Within <=> caller[b] \in Within
    BY <2>1 DEF Within
  <2>4. Agree(r, c)
    BY <2>1, <2>3, <1>2, <1>o DEF Agree, Left, ThreadState, Notifies
  <2>5. Update(b, r, c)
    BY <2>1, <1>2 DEF Notifies
  <2>6. c \in Within \cup {"calls"} => pc'[b] = "called"
    BY <2>1, <2>3, <1>o
  <2>7. QED
    BY <2>2, <2>4, <2>5, <2>6, <1>t, UpdateKeeps
<1>3. CASE Works(b)
  <2>1. PICK r : r = [thread[b] EXCEPT !.at = "notifies", !.wait_ack = FALSE]
    OBVIOUS
  <2>2. r \in ThreadState
    BY <2>1, <1>o DEF ThreadState
  <2>3. Agree(r, caller[b])
    BY <2>1, <1>3, <1>o DEF Agree, Left, ThreadState, Works
  <2>4. Update(b, r, caller[b])
    BY <2>1, <1>3 DEF Works
  <2>5. QED
    BY <2>2, <2>3, <2>4, <1>o, <1>t, UpdateKeeps
<1>4. CASE Throws(b)
  <2>1. Update(b, l, caller[b])
    BY <1>l, <1>4 DEF Throws
  <2>2. QED
    BY <2>1, <1>m, <1>o, <1>t, UpdateKeeps
<1>5. CASE WorkMarksDone(b)
  <2>1. PICK r : r = [thread[b] EXCEPT !.at = "clears"]
    OBVIOUS
  <2>2. r \in ThreadState
    BY <2>1, <1>o DEF ThreadState
  <2>3. Agree(r, caller[b])
    BY <2>1, <1>5, <1>o DEF Agree, Left, ThreadState, WorkMarksDone
  <2>4. Update(b, r, caller[b])
    BY <2>1, <1>5 DEF WorkMarksDone
  <2>5. QED
    BY <2>2, <2>3, <2>4, <1>o, <1>t, UpdateKeeps
<1>6. QED
  BY <1>1, <1>2, <1>3, <1>4, <1>5

(* interrupt_all.                                                          *)
LEMMA InterruptKeeps ==
    ASSUME ThreadInv, InterruptAll, UNCHANGED pc
    PROVE  ThreadInv'
<1>1. /\ thread' = [b \in Threaded |-> Interrupted(thread[b])]
      /\ caller' = caller /\ pc' = pc
  BY DEF InterruptAll
<1>2. ASSUME NEW b \in Threaded
      PROVE  thread'[b] \in ThreadState /\ Agree(thread'[b], caller'[b])
  <2>1. thread[b] \in ThreadState /\ Agree(thread[b], caller[b])
    BY OfThread
  <2>2. PICK r : r = Interrupted(thread[b])
    OBVIOUS
  <2>3. r \in ThreadState
    BY <2>1, <2>2 DEF ThreadState, Interrupted, Woken
  <2>4. Agree(r, caller[b])
    BY <2>1, <2>2 DEF ThreadState, Interrupted, Woken, Agree, Left
  <2>5. QED
    BY <1>1, <2>2, <2>3, <2>4
<1>3. ThreadTypeOK'
  BY <1>1, <1>2 DEF ThreadInv, ThreadTypeOK
<1>4. QED
  BY <1>1, <1>2, <1>3 DEF ThreadInv

(* An actor that gives up its old thread: it is in no call.                *)
LEMMA EraseKeeps ==
    ASSUME ThreadInv, NEW b \in Threaded, pc[b] # "called",
           Update(b, thread[b], "clears"),
           pc' \in [Blocks -> PcAt], \A a \in Threaded : a # b => pc'[a] = pc[a]
    PROVE  ThreadInv'
<1>1. thread[b] \in ThreadState /\ Agree(thread[b], caller[b]) /\ caller[b] \notin Within
  BY OfThread
<1>2. "clears" \in CallerAt /\ "clears" \notin Within \cup {"calls"}
  BY DEF CallerAt, Within
<1>3. Agree(thread[b], "clears")
  BY <1>1, <1>2 DEF Agree
<1>4. QED
  BY <1>1, <1>2, <1>3, UpdateKeeps

---------------------------------------------------------------------------
(* What a handler of b does to pc: nothing, or a PcStep.                   *)
Quiet(b) == PcStep(b) \/ UNCHANGED <<pc, special>>

LEMMA QuietKeeps ==
    ASSUME ThreadInv, NEW b \in Blocks, Quiet(b)
    PROVE  ThreadInv'
<1>1. CASE UNCHANGED <<pc, special>>
  BY <1>1 DEF ThreadInv, ThreadTypeOK, special
<1>2. QED
  BY <1>1, PcStepKeeps DEF Quiet

LEMMA HandlerIsQuiet ==
    ASSUME ThreadInv, NEW b \in Blocks, Handler(b), ~HandleTopThread(b)
    PROVE  Quiet(b)
<1>p. \A x \in PcAt : pc[b] # "called" /\ Goes(b, x) /\ UNCHANGED special => Quiet(b)
  BY DEF Quiet, PcStep, Goes
<1>d. MarkDone(b) => \E x \in PcAt : Goes(b, x)
  BY DEF MarkDone, Goes, PcAt
<1>k. \A box, q : \A rest \in {"idle", "check"} : Task(b, box, q, rest) => \E x \in PcAt : Goes(b, x)
  BY DEF Task, Goes, PcAt
<1>i. {"idle", "check", "tells", "ends"} \subseteq PcAt /\ "idle" # "called"
  BY DEF PcAt
<1>1. CASE HandleTopToken(b) \/ HandleTopActive(b) \/ HandleToken(b)
  BY <1>1 DEF HandleTopToken, HandleTopActive, HandleToken, Quiet, special
<1>2. CASE HandleTopInert(b)
  BY <1>2, <1>p, <1>d, <1>i DEF HandleTopInert, Takes
<1>3. CASE HandleInputBuffer(b)
  <2>1. CASE UNCHANGED pc
    BY <2>1, <1>3 DEF HandleInputBuffer, Quiet, special
  <2>2. CASE Task(b, mailbox', queue', "idle")
    BY <2>2, <1>3, <1>p, <1>k, <1>i DEF HandleInputBuffer, Takes
  <2>3. QED
    BY <2>1, <2>2, <1>3 DEF HandleInputBuffer
<1>4. CASE HandleSelfKick(b)
  BY <1>4, <1>p, <1>k, <1>i DEF HandleSelfKick, Takes
<1>5. CASE HandleInputCheck(b)
  BY <1>5, <1>p, <1>k, <1>i DEF HandleInputCheck, Takes
<1>6. CASE HandleOutputCheck(b)
  <2>1. pc[b] = "idle" /\ UNCHANGED special /\ (MarkDone(b) \/ UNCHANGED pc)
    BY <1>6 DEF HandleOutputCheck, Takes
  <2>2. QED
    BY <2>1, <1>p, <1>d, <1>i DEF Quiet
<1>7. CASE Work(b)
  <2>1. pc[b] = "work" /\ UNCHANGED special /\ \E done \in BOOLEAN : Goes(b, IF done THEN "ends" ELSE After(b))
    BY <1>7 DEF Work, PostWork
  <2>2. QED
    BY <2>1, <1>p, <1>i DEF After
<1>8. CASE CheckInput(b)
  BY <1>8, <1>p, <1>d, <1>i DEF CheckInput
<1>9. CASE Ends(b) \/ Tells(b)
  BY <1>9, <1>p, <1>i DEF Ends, Tells
<1>10. QED
  BY <1>1, <1>2, <1>3, <1>4, <1>5, <1>6, <1>7, <1>8, <1>9 DEF Handler

LEMMA TopThreadKeeps ==
    ASSUME ThreadInv, NEW b \in Blocks, HandleTopThread(b)
    PROVE  ThreadInv'
<1>0. pc[b] = "idle"
  BY DEF HandleTopThread, Takes
<1>1. CASE b \in Threaded /\ thread[b].at # "none"
  <2>1. pc' = [pc EXCEPT ![b] = "create"] /\ Update(b, thread[b], "clears")
    BY <1>1 DEF HandleTopThread, Goes
  <2>2. pc' \in [Blocks -> PcAt] /\ \A a \in Threaded : a # b => pc'[a] = pc[a]
    BY <2>1, FlowgraphAssumption DEF ThreadInv, ThreadTypeOK, PcAt
  <2>3. QED
    BY <1>0, <1>1, <2>1, <2>2, EraseKeeps
<1>2. CASE ~(b \in Threaded /\ thread[b].at # "none")
  <2>1. CASE b \in Threaded
    BY <1>0, <1>2, <2>1, PcStepKeeps DEF HandleTopThread, Goes, PcStep, PcAt
  <2>2. CASE b \notin Threaded
    BY <2>2, QuietKeeps DEF HandleTopThread, Quiet
  <2>3. QED
    BY <2>1, <2>2
<1>3. QED
  BY <1>1, <1>2

LEMMA ThreadedStepKeeps ==
    ASSUME ThreadInv, NEW b \in Threaded, ThreadedStep(b)
    PROVE  ThreadInv'
<1>b. b \in Blocks /\ (caller[b] \in Within \cup {"calls"} => pc[b] = "called")
      /\ thread[b] \in ThreadState /\ Agree(thread[b], caller[b])
  BY OfThread
<1>p. ASSUME NEW x \in PcAt, Goes(b, x)
      PROVE  /\ pc' \in [Blocks -> PcAt] /\ pc'[b] = x
             /\ \A a \in Threaded : a # b => pc'[a] = pc[a]
  BY <1>b, <1>p, FlowgraphAssumption DEF Goes, ThreadInv, ThreadTypeOK
<1>i. {"idle", "check", "called"} \subseteq PcAt
  BY DEF PcAt
<1>1. CASE CreatesThread(b)
  <2>1. Update(b, NewThread, "out") /\ Goes(b, "idle")
    BY <1>1 DEF CreatesThread
  <2>2. NewThread \in ThreadState /\ Agree(NewThread, "out")
    BY DEF NewThread, NoThread, ThreadState, Agree
  <2>3. "out" \in CallerAt /\ "out" \notin Within \cup {"calls"}
    BY DEF CallerAt, Within
  <2>4. QED
    BY <2>1, <2>2, <2>3, <1>p, <1>i, UpdateKeeps
<1>2. CASE Calls(b)
  <2>1. pc[b] = "call" /\ Update(b, thread[b], "calls") /\ Goes(b, "called")
    BY <1>2 DEF Calls
  <2>2. "calls" \in CallerAt /\ "calls" \notin Within /\ caller[b] \notin Within
    BY <2>1, <1>b DEF CallerAt, Within
  <2>3. Agree(thread[b], "calls")
    BY <2>2, <1>b DEF Agree
  <2>4. QED
    BY <2>1, <2>2, <2>3, <1>b, <1>p, <1>i, UpdateKeeps
<1>3. CASE CallReturns(b)
  <2>1. /\ caller[b] = "out" /\ thread' = thread /\ caller' = caller
        /\ Goes(b, After(b))
    BY <1>3 DEF CallReturns, PostWork, special
  <2>2. Update(b, thread[b], "out")
    BY <2>1 DEF Update, ThreadInv, ThreadTypeOK
  <2>3. "out" \in CallerAt /\ "out" \notin Within \cup {"calls"} /\ After(b) \in PcAt
    BY <1>i DEF CallerAt, Within, After
  <2>4. Agree(thread[b], "out")
    BY <2>1, <1>b
  <2>5. QED
    BY <2>1, <2>2, <2>3, <2>4, <1>b, <1>p, UpdateKeeps
<1>4. CASE ErasesThread(b)
  <2>1. pc[b] = "ends" /\ Update(b, thread[b], "clears") /\ pc' = pc
    BY <1>4 DEF ErasesThread
  <2>2. pc' \in [Blocks -> PcAt]
    BY <2>1 DEF ThreadInv, ThreadTypeOK
  <2>3. QED
    BY <2>1, <2>2, EraseKeeps
<1>5. CASE ThreadHandshake(b)
  <2>1. pc' = pc /\ Handshake(b)
    BY <1>5 DEF ThreadHandshake
  <2>2. QED
    BY <2>1, CallerSteps, LoopSteps DEF Handshake
<1>6. QED
  BY <1>1, <1>2, <1>3, <1>4, <1>5 DEF ThreadedStep

LEMMA NextKeeps == ThreadInv /\ [Next]_vars => ThreadInv'
<1> SUFFICES ASSUME ThreadInv, [Next]_vars PROVE ThreadInv'
  OBVIOUS
<1>u. UNCHANGED <<pc, special>> => ThreadInv'
  BY DEF ThreadInv, ThreadTypeOK, special
<1>1. ASSUME NEW b \in Blocks, Handler(b) PROVE ThreadInv'
  BY <1>1, HandlerIsQuiet, QuietKeeps, TopThreadKeeps
<1>2. ASSUME NEW b \in Blocks, WaitPolls(b) PROVE ThreadInv'
  BY <1>2, <1>u DEF WaitPolls
<1>3. ASSUME NEW b \in Threaded, ThreadedStep(b) PROVE ThreadInv'
  BY <1>3, ThreadedStepKeeps
<1>4. ASSUME NEW b \in Threaded, ThreadWorks(b) \/ ThreadThrows(b) \/ ThreadEnds(b)
      PROVE  ThreadInv'
  BY <1>4, LoopSteps DEF ThreadWorks, ThreadThrows, ThreadEnds
<1>5. CASE User
  <2>1. CASE Stop
    BY <2>1, InterruptKeeps DEF Stop
  <2>2. QED
    BY <2>1, <1>5, <1>u DEF User, Start, Wait
<1>6. CASE BcastPrioMsg \/ WaitReturns
  BY <1>6, <1>u DEF BcastPrioMsg, Answered, SendTop, WaitReturns
<1>7. CASE UNCHANGED vars
  BY <1>7, <1>u DEF vars
<1>8. QED
  BY <1>1, <1>2, <1>3, <1>4, <1>5, <1>6, <1>7 DEF Next

LEMMA InitThreads == Init => ThreadInv
<1> SUFFICES ASSUME Init PROVE ThreadInv
  OBVIOUS
<1>1. NoThread \in ThreadState /\ Agree(NoThread, "out") /\ "out" \in CallerAt
      /\ "out" \notin Within \cup {"calls"} /\ "idle" \in PcAt
  BY DEF NoThread, ThreadState, Agree, CallerAt, PcAt, Within
<1>2. /\ thread = [b \in Threaded |-> NoThread]
      /\ caller = [b \in Threaded |-> "out"]
      /\ pc = [b \in Blocks |-> "idle"]
  BY DEF Init, ThreadInit
<1>3. QED
  BY <1>1, <1>2 DEF ThreadInv, ThreadTypeOK

LEMMA ThreadInvIsEnough == ThreadInv => WorkInCall
BY DEF ThreadInv, Agree, WorkInCall, Within

(* The special thread calls work() only while the actor of its block waits *)
(* for the answer (interruptible_thread.hpp, "nice and synchronous"), in   *)
(* every flow graph, whatever start() and stop() do to the thread.         *)
THEOREM WorkStaysInCall == Spec => []WorkInCall
<1>1. Spec => []ThreadInv
  BY InitThreads, NextKeeps, PTL DEF Spec
<1>2. QED
  BY <1>1, ThreadInvIsEnough, PTL

---------------------------------------------------------------------------
(* Tokens and broadcasts.                                                  *)

Toks ==
    {TopTok} \cup {<<"input", w, n>> : w \in Wires, n \in Nat}
             \cup {<<"output", Port(w), n>> : w \in Wires, n \in Nat}
Types == {"TopThread", "TopToken", "TopActive", "TopInert", "InputToken", "OutputToken",
          "InputBuffer", "SelfKick", "InputCheck", "OutputCheck"}
Msgs == [type : Types, wire : Wires \cup {<<>>}, tokens : SUBSET Toks, reply : BOOLEAN]

UserCalls == {"new", "start", "started", "stop", "stopped", "wait", "ended"}

MailTypeOK == mailbox \in [Blocks -> Seq(Msgs)]

FlowTypeOK ==
    /\ MailTypeOK
    /\ pc \in [Blocks -> PcAt]
    /\ checking \in [Blocks -> Wires \cup {<<>>}]
    /\ state \in [Blocks -> {"INIT", "LIVE", "DONE"}]
    /\ pool \in [Blocks -> SUBSET Toks]
    /\ starts_seen \in [Blocks -> Nat]
    /\ top \in [call : UserCalls, step : 0 .. 3, unsent : SUBSET Blocks,
                unanswered : SUBSET Blocks]
    /\ starts \in Nat

---------------------------------------------------------------------------
(* Posting.                                                                *)

\* a mailbox s becomes r: d messages, none or the first, are gone from the
\* front, and those of set M, and no other, are posted
Moves(s, r, d, M) ==
    /\ Len(s) \in Nat /\ Len(r) \in Nat /\ d <= Len(s) /\ Len(s) <= Len(r) + d
    /\ \A k \in 1 .. Len(r) :
           IF k + d <= Len(s) THEN r[k] = s[k + d] ELSE r[k] \in M
    /\ \A m \in M : \E k \in 1 .. Len(r) : k + d > Len(s) /\ r[k] = m

\* The order has every wire.
LEMMA OrderOfWires ==
    ASSUME NEW mine, mine \subseteq Wires
    PROVE  \E n \in Nat : /\ InOrder(mine) \in [1 .. n -> mine]
                          /\ \A w \in mine : \E k \in 1 .. n : InOrder(mine)[k] = w
<1>1. IsFiniteSet(mine)
  BY FlowgraphAssumption, FS_Subset
<1>2. PICK n : n = Cardinality(mine)
  OBVIOUS
<1>3. n \in Nat /\ ExistsBijection(1 .. n, mine)
  BY <1>1, <1>2, FS_CardinalityType
<1>4. \E f \in [1 .. n -> mine] : \A i, j \in DOMAIN f : f[i] = f[j] => i = j
  BY <1>3 DEF ExistsBijection, Bijection, Injection, IsInjective
<1>5. /\ InOrder(mine) \in [1 .. n -> mine]
      /\ \A i, j \in DOMAIN InOrder(mine) : InOrder(mine)[i] = InOrder(mine)[j] => i = j
  BY <1>2, <1>4 DEF InOrder
<1>6. InOrder(mine) \in Injection(1 .. n, mine)
  BY <1>5 DEF Injection, IsInjective
<1>7. IsFiniteSet(1 .. n) /\ Cardinality(1 .. n) = Cardinality(mine)
  BY <1>2, <1>3, FS_Interval
<1>8. InOrder(mine) \in Surjection(1 .. n, mine)
  BY <1>1, <1>6, <1>7, FS_Injection
<1>9. QED
  BY <1>3, <1>5, <1>8 DEF Surjection

\* a sequence with the messages of mine
LEMMA PostsSome ==
    ASSUME NEW s \in Seq(Msgs), NEW n \in Nat, NEW p \in [1 .. n -> Msgs],
           NEW M, \A k \in 1 .. n : p[k] \in M, \A m \in M : \E k \in 1 .. n : p[k] = m,
           NEW r, r = s \o p
    PROVE  r \in Seq(Msgs) /\ Moves(s, r, 0, M)
<1>1. p \in Seq(Msgs)
  BY SeqDef
<1>2. Len(p) = n
  BY <1>1, LenProperties
<1>c. /\ s \o p \in Seq(Msgs) /\ Len(s \o p) = Len(s) + Len(p)
      /\ \A k \in 1 .. Len(s) + Len(p) : (s \o p)[k] = IF k <= Len(s) THEN s[k] ELSE p[k - Len(s)]
  BY <1>1, ConcatProperties
<1>3. /\ r \in Seq(Msgs) /\ Len(r) = Len(s) + n
      /\ \A k \in 1 .. Len(s) + n : r[k] = IF k <= Len(s) THEN s[k] ELSE p[k - Len(s)]
  BY ONLY <1>c, <1>2, r = s \o p
<1>4. PICK l \in Nat : l = Len(s)
  BY LenProperties
<1>5. \A k \in 1 .. l + n : k > l => k - l \in 1 .. n
  OBVIOUS
<1>6. \A k \in 1 .. l + n : IF k + 0 <= l THEN r[k] = s[k + 0] ELSE r[k] \in M
  BY <1>3, <1>4, <1>5
<1>7. ASSUME NEW m \in M
      PROVE  \E k \in 1 .. l + n : k + 0 > l /\ r[k] = m
  <2>1. PICK k \in 1 .. n : p[k] = m
    OBVIOUS
  <2>2. k + l \in 1 .. l + n /\ k + l + 0 > l /\ k + l - l = k /\ ~(k + l <= l)
    OBVIOUS
  <2>3. r[k + l] = m
    BY <1>3, <1>4, <2>1, <2>2
  <2>4. QED
    BY <2>2, <2>3
<1>8. Len(r) = l + n /\ Len(s) = l
  BY <1>3, <1>4
<1>9. \A k \in 1 .. Len(r) : IF k + 0 <= Len(s) THEN r[k] = s[k + 0] ELSE r[k] \in M
  BY <1>6, <1>8
<1>10. \A m \in M : \E k \in 1 .. Len(r) : k + 0 > Len(s) /\ r[k] = m
  BY <1>7, <1>8
<1>11. Len(s) \in Nat /\ Len(r) \in Nat /\ 0 <= Len(s) /\ Len(s) <= Len(r) + 0
  BY <1>8
<1>12. QED
  BY ONLY <1>3, <1>9, <1>10, <1>11 DEF Moves

\* What one PostEach adds to the mailbox s of one block.
LEMMA PostsWires ==
    ASSUME NEW s \in Seq(Msgs), NEW mine, mine \subseteq Wires, NEW msg \in [Wires -> Msgs],
           NEW r, r = s \o [k \in DOMAIN InOrder(mine) |-> msg[InOrder(mine)[k]]]
    PROVE  r \in Seq(Msgs) /\ Moves(s, r, 0, {msg[w] : w \in mine})
<1>1. PICK n \in Nat : /\ InOrder(mine) \in [1 .. n -> mine]
                       /\ \A w \in mine : \E k \in 1 .. n : InOrder(mine)[k] = w
  BY OrderOfWires
<1>2. PICK p : p = [k \in 1 .. n |-> msg[InOrder(mine)[k]]]
  OBVIOUS
<1>3. p \in [1 .. n -> Msgs]
  BY <1>1, <1>2
<1>4. \A k \in 1 .. n : p[k] \in {msg[w] : w \in mine}
  BY <1>1, <1>2
<1>5. \A m \in {msg[w] : w \in mine} : \E k \in 1 .. n : p[k] = m
  BY <1>1, <1>2
<1>6. r = s \o p
  BY <1>1, <1>2
<1>7. QED
  BY <1>3, <1>4, <1>5, <1>6, PostsSome

LEMMA MovesTwice ==
    ASSUME NEW s, NEW r, NEW q, NEW d \in 0 .. 1, NEW M, NEW N,
           Moves(s, r, d, M), Moves(r, q, 0, N)
    PROVE  Moves(s, q, d, M \cup N)
<1>1. /\ Len(s) \in Nat /\ Len(r) \in Nat /\ Len(q) \in Nat
      /\ d <= Len(s) /\ Len(s) <= Len(r) + d /\ Len(r) <= Len(q)
  BY DEF Moves
<1>2. ASSUME NEW k \in 1 .. Len(q)
      PROVE  IF k + d <= Len(s) THEN q[k] = s[k + d] ELSE q[k] \in M \cup N
  <2>1. CASE k <= Len(r)
    BY <1>1, <2>1 DEF Moves
  <2>2. CASE k > Len(r)
    BY <1>1, <2>2 DEF Moves
  <2>3. QED
    BY <1>1, <2>1, <2>2
<1>3. ASSUME NEW m \in M \cup N
      PROVE  \E k \in 1 .. Len(q) : k + d > Len(s) /\ q[k] = m
  <2>1. CASE m \in M
    <3>1. PICK k \in 1 .. Len(r) : k + d > Len(s) /\ r[k] = m
      BY <2>1 DEF Moves
    <3>2. k \in 1 .. Len(q) /\ q[k] = m
      BY <1>1, <3>1 DEF Moves
    <3>3. QED
      BY <3>1, <3>2
  <2>2. CASE m \in N
    <3>1. PICK k \in 1 .. Len(q) : k + 0 > Len(r) /\ q[k] = m
      BY <2>2 DEF Moves
    <3>2. QED
      BY <1>1, <3>1
  <2>3. QED
    BY <2>1, <2>2
<1>4. QED
  BY <1>1, <1>2, <1>3 DEF Moves

LEMMA MovesNothing ==
    ASSUME NEW s \in Seq(Msgs) PROVE Moves(s, s, 0, {})
<1>1. Len(s) \in Nat
  BY LenProperties
<1>2. QED
  BY <1>1 DEF Moves

LEMMA MovesTail ==
    ASSUME NEW s \in Seq(Msgs), s # <<>>
    PROVE  Tail(s) \in Seq(Msgs) /\ Moves(s, Tail(s), 1, {}) /\ Head(s) = s[1] /\ 1 \in 1 .. Len(s)
<1>1. /\ Tail(s) \in Seq(Msgs) /\ Len(Tail(s)) = Len(s) - 1
      /\ \A i \in 1 .. Len(Tail(s)) : Tail(s)[i] = s[i + 1]
  BY HeadTailProperties
<1>2. Len(s) \in Nat /\ Len(s) # 0
  BY EmptySeq, LenProperties
<1>3. Head(s) = s[1]
  BY SMT
<1>4. QED
  BY <1>1, <1>2, <1>3 DEF Moves

LEMMA MovesAppend ==
    ASSUME NEW s \in Seq(Msgs), NEW m \in Msgs
    PROVE  Append(s, m) \in Seq(Msgs) /\ Moves(s, Append(s, m), 0, {m})
<1>1. /\ Append(s, m) \in Seq(Msgs) /\ Len(Append(s, m)) = Len(s) + 1
      /\ \A i \in 1 .. Len(s) : Append(s, m)[i] = s[i]
      /\ Append(s, m)[Len(s) + 1] = m
  BY AppendProperties
<1>2. PICK r : r = Append(s, m)
  OBVIOUS
<1>3. Len(s) \in Nat
  BY LenProperties
<1>4. Moves(s, r, 0, {m})
  BY <1>1, <1>2, <1>3 DEF Moves
<1>5. QED
  BY <1>1, <1>2, <1>4

---------------------------------------------------------------------------
(* What each handler posts.                                                *)

Only(b, M) == [c \in Blocks |-> IF c = b THEN M ELSE {}]

BuffersTo(b) == [c \in Blocks |-> {OnWire("InputBuffer", w) : w \in {v \in Outs(b) : To(v) = c}}]

ChecksTo(b) == [c \in Blocks |->
    {OnWire("OutputCheck", w) : w \in {v \in Ins(b) : From(v) = c}}
        \cup {OnWire("InputCheck", w) : w \in {v \in Outs(b) : To(v) = c}}]

InToken(w, n)  == Message("OutputToken", w, {<<"input", w, n>>}, FALSE)
OutToken(w, n) == Message("InputToken", w, {<<"output", Port(w), n>>}, FALSE)
TokensTo(b, n) == [c \in Blocks |->
    {InToken(w, n) : w \in {v \in Ins(b) : From(v) = c}}
        \cup {OutToken(w, n) : w \in {v \in Outs(b) : To(v) = c}}]

\* d messages leave the mailbox of b, and those of M are posted
MailStep(b, d, M) ==
    /\ MailTypeOK'
    /\ \A c \in Blocks : Moves(mailbox[c], mailbox'[c], IF c = b THEN d ELSE 0, M[c])

BoxIs(box, b, d, M) ==
    /\ box \in [Blocks -> Seq(Msgs)]
    /\ \A c \in Blocks : Moves(mailbox[c], box[c], IF c = b THEN d ELSE 0, M[c])

LEMMA BoxIsStep ==
    ASSUME NEW b, NEW d, NEW M, NEW box, BoxIs(box, b, d, M), mailbox' = box
    PROVE  MailStep(b, d, M)
BY DEF BoxIs, MailStep, MailTypeOK

LEMMA Messages ==
    /\ \A type \in Types : Plain(type) \in Msgs
    /\ \A type \in Types, w \in Wires : OnWire(type, w) \in Msgs
    /\ \A w \in Wires, n \in Nat : InToken(w, n) \in Msgs /\ OutToken(w, n) \in Msgs
    /\ \A type \in Types : Broadcast(type, {}) \in Msgs /\ Broadcast(type, {TopTok}) \in Msgs
<1>1. ASSUME NEW type \in Types, NEW w \in Wires \cup {<<>>}, NEW toks \in SUBSET Toks,
             NEW reply \in BOOLEAN
      PROVE  Message(type, w, toks, reply) \in Msgs
  BY <1>1 DEF Message, Msgs
<1>2. {} \in SUBSET Toks /\ {TopTok} \in SUBSET Toks
  BY DEF Toks
<1>3. \A w \in Wires, n \in Nat :
          {<<"input", w, n>>} \in SUBSET Toks /\ {<<"output", Port(w), n>>} \in SUBSET Toks
  BY DEF Toks
<1>4. "OutputToken" \in Types /\ "InputToken" \in Types
  BY DEF Types
<1>5. QED
  BY <1>1, <1>2, <1>3, <1>4 DEF Plain, OnWire, InToken, OutToken, Broadcast

LEMMA PostsOnWires ==
    ASSUME NEW s \in Seq(Msgs), NEW mine, mine \subseteq Wires, NEW type \in Types,
           NEW r, r = s \o [k \in DOMAIN InOrder(mine) |-> OnWire(type, InOrder(mine)[k])]
    PROVE  r \in Seq(Msgs) /\ Moves(s, r, 0, {OnWire(type, w) : w \in mine})
<1>1. PICK n \in Nat : InOrder(mine) \in [1 .. n -> mine]
  BY OrderOfWires
<1>2. PICK msg : msg = [w \in Wires |-> OnWire(type, w)]
  OBVIOUS
<1>3. msg \in [Wires -> Msgs] /\ \A w \in Wires : msg[w] = OnWire(type, w)
  BY <1>2, Messages
<1>4. [k \in DOMAIN InOrder(mine) |-> OnWire(type, InOrder(mine)[k])]
          = [k \in DOMAIN InOrder(mine) |-> msg[InOrder(mine)[k]]]
  BY <1>1, <1>3
<1>5. r = s \o [k \in DOMAIN InOrder(mine) |-> msg[InOrder(mine)[k]]]
  BY <1>4
<1>6. r \in Seq(Msgs) /\ Moves(s, r, 0, {msg[w] : w \in mine})
  BY <1>3, <1>5, PostsWires
<1>7. {msg[w] : w \in mine} = {OnWire(type, w) : w \in mine}
  BY <1>3
<1>8. QED
  BY <1>6, <1>7

LEMMA PostsInTokens ==
    ASSUME NEW s \in Seq(Msgs), NEW mine, mine \subseteq Wires, NEW n \in Nat,
           NEW r, r = s \o [k \in DOMAIN InOrder(mine) |-> InToken(InOrder(mine)[k], n)]
    PROVE  r \in Seq(Msgs) /\ Moves(s, r, 0, {InToken(w, n) : w \in mine})
<1>1. PICK l \in Nat : InOrder(mine) \in [1 .. l -> mine]
  BY OrderOfWires
<1>2. PICK msg : msg = [w \in Wires |-> InToken(w, n)]
  OBVIOUS
<1>3. msg \in [Wires -> Msgs] /\ \A w \in Wires : msg[w] = InToken(w, n)
  BY <1>2, Messages
<1>4. [k \in DOMAIN InOrder(mine) |-> InToken(InOrder(mine)[k], n)]
          = [k \in DOMAIN InOrder(mine) |-> msg[InOrder(mine)[k]]]
  BY <1>1, <1>3
<1>5. r = s \o [k \in DOMAIN InOrder(mine) |-> msg[InOrder(mine)[k]]]
  BY <1>4
<1>6. r \in Seq(Msgs) /\ Moves(s, r, 0, {msg[w] : w \in mine})
  BY <1>3, <1>5, PostsWires
<1>7. {msg[w] : w \in mine} = {InToken(w, n) : w \in mine}
  BY <1>3
<1>8. QED
  BY <1>6, <1>7

LEMMA PostsOutTokens ==
    ASSUME NEW s \in Seq(Msgs), NEW mine, mine \subseteq Wires, NEW n \in Nat,
           NEW r, r = s \o [k \in DOMAIN InOrder(mine) |-> OutToken(InOrder(mine)[k], n)]
    PROVE  r \in Seq(Msgs) /\ Moves(s, r, 0, {OutToken(w, n) : w \in mine})
<1>1. PICK l \in Nat : InOrder(mine) \in [1 .. l -> mine]
  BY OrderOfWires
<1>2. PICK msg : msg = [w \in Wires |-> OutToken(w, n)]
  OBVIOUS
<1>3. msg \in [Wires -> Msgs] /\ \A w \in Wires : msg[w] = OutToken(w, n)
  BY <1>2, Messages
<1>4. [k \in DOMAIN InOrder(mine) |-> OutToken(InOrder(mine)[k], n)]
          = [k \in DOMAIN InOrder(mine) |-> msg[InOrder(mine)[k]]]
  BY <1>1, <1>3
<1>5. r = s \o [k \in DOMAIN InOrder(mine) |-> msg[InOrder(mine)[k]]]
  BY <1>4
<1>6. r \in Seq(Msgs) /\ Moves(s, r, 0, {msg[w] : w \in mine})
  BY <1>3, <1>5, PostsWires
<1>7. {msg[w] : w \in mine} = {OutToken(w, n) : w \in mine}
  BY <1>3
<1>8. QED
  BY <1>6, <1>7

\* The first message is taken.
LEMMA PoppedMoves ==
    ASSUME MailTypeOK, NEW b \in Blocks, mailbox[b] # <<>>
    PROVE  /\ Popped(b) \in [Blocks -> Seq(Msgs)]
           /\ \A c \in Blocks : Moves(mailbox[c], Popped(b)[c], IF c = b THEN 1 ELSE 0, {})
           /\ Got(b) = mailbox[b][1] /\ 1 \in 1 .. Len(mailbox[b])
<1>1. \A c \in Blocks : mailbox[c] \in Seq(Msgs)
  BY DEF MailTypeOK
<1>2. /\ Tail(mailbox[b]) \in Seq(Msgs) /\ Moves(mailbox[b], Tail(mailbox[b]), 1, {})
      /\ Head(mailbox[b]) = mailbox[b][1] /\ 1 \in 1 .. Len(mailbox[b])
  BY <1>1, MovesTail
<1>3. \A c \in Blocks : Popped(b)[c] = IF c = b THEN Tail(mailbox[b]) ELSE mailbox[c]
  BY DEF Popped, MailTypeOK
<1>4. Popped(b) \in [Blocks -> Seq(Msgs)]
  BY <1>2 DEF Popped, MailTypeOK
<1>5. ASSUME NEW c \in Blocks
      PROVE  Moves(mailbox[c], Popped(b)[c], IF c = b THEN 1 ELSE 0, {})
  <2>1. CASE c = b
    BY <1>2, <1>3, <2>1
  <2>2. CASE c # b
    BY <1>1, <1>3, <2>2, MovesNothing
  <2>3. QED
    BY <2>1, <2>2
<1>6. QED
  BY <1>2, <1>4, <1>5 DEF Got

LEMMA PoppedStep ==
    ASSUME MailTypeOK, NEW b \in Blocks, mailbox[b] # <<>>, mailbox' = Popped(b)
    PROVE  MailStep(b, 1, Only(b, {}))
BY PoppedMoves DEF MailStep, Only, MailTypeOK

\* A message is posted to b, after what a step did to the mailboxes.
LEMMA AppendMoves ==
    ASSUME MailTypeOK, NEW b \in Blocks, NEW d \in 0 .. 1, NEW box, NEW M,
           BoxIs(box, b, d, M), NEW m \in Msgs
    PROVE  BoxIs(Append1(box, b, m), b, d,
                 [c \in Blocks |-> IF c = b THEN M[c] \cup {m} ELSE M[c]])
<1>0. box[b] \in Seq(Msgs)
  BY DEF BoxIs
<1>1. PICK r : r = Append(box[b], m)
  OBVIOUS
<1>2. r \in Seq(Msgs) /\ Moves(box[b], r, 0, {m})
  BY <1>0, <1>1, MovesAppend
<1>3. Append1(box, b, m) = [box EXCEPT ![b] = r]
  BY <1>1 DEF Append1
<1>4. Moves(mailbox[b], box[b], d, M[b])
  BY DEF BoxIs
<1>5. Moves(mailbox[b], r, d, M[b] \cup {m})
  BY <1>2, <1>4, MovesTwice
<1>6. QED
  BY <1>2, <1>3, <1>5 DEF BoxIs

LEMMA SelfKickType == "SelfKick" \in Types /\ Plain("SelfKick") \in Msgs
BY Messages DEF Types

LEMMA ActiveStep ==
    ASSUME MailTypeOK, NEW b \in Blocks, mailbox[b] # <<>>,
           mailbox' = SelfKicked(Popped(b), b)
    PROVE  MailStep(b, 1, Only(b, {Plain("SelfKick")}))
<1>1. PICK M : M = [c \in Blocks |-> {}]
  OBVIOUS
<1>2. BoxIs(Popped(b), b, 1, M)
  BY <1>1, PoppedMoves DEF BoxIs
<1>3. BoxIs(Append1(Popped(b), b, Plain("SelfKick")), b, 1,
            [c \in Blocks |-> IF c = b THEN M[c] \cup {Plain("SelfKick")} ELSE M[c]])
  BY <1>2, SelfKickType, AppendMoves
<1>4. QED
  BY <1>1, <1>3 DEF SelfKicked, BoxIs, MailStep, MailTypeOK, Only

LEMMA SendStep ==
    ASSUME MailTypeOK, NEW b \in Blocks, NEW m \in Msgs, mailbox' = Append1(mailbox, b, m)
    PROVE  MailStep(b, 0, Only(b, {m}))
<1>1. PICK M : M = [c \in Blocks |-> {}]
  OBVIOUS
<1>2. BoxIs(mailbox, b, 0, M)
  BY <1>1, MovesNothing DEF BoxIs, MailTypeOK
<1>3. BoxIs(Append1(mailbox, b, m), b, 0,
            [c \in Blocks |-> IF c = b THEN M[c] \cup {m} ELSE M[c]])
  BY <1>2, AppendMoves
<1>4. QED
  BY <1>1, <1>3 DEF BoxIs, MailStep, MailTypeOK, Only

\* The messages of mark_done to the neighbours.
LEMMA TellsStep ==
    ASSUME MailTypeOK, NEW b \in Blocks,
           mailbox' = PostEach(PostEach(mailbox, Ins(b), From, LAMBDA w : OnWire("OutputCheck", w)),
                               Outs(b), To, LAMBDA w : OnWire("InputCheck", w))
    PROVE  MailStep(b, 0, ChecksTo(b))
<1> DEFINE up(c) == {w \in Ins(b) : From(w) = c}
           down(c) == {w \in Outs(b) : To(w) = c}
           mid(c) == mailbox[c] \o [k \in DOMAIN InOrder(up(c)) |->
                                       OnWire("OutputCheck", InOrder(up(c))[k])]
<1>1. mailbox' = [c \in Blocks |-> mid(c) \o [k \in DOMAIN InOrder(down(c)) |->
                                       OnWire("InputCheck", InOrder(down(c))[k])]]
  BY DEF PostEach
<1>2. ASSUME NEW c \in Blocks
      PROVE  mailbox'[c] \in Seq(Msgs) /\ Moves(mailbox[c], mailbox'[c], 0, ChecksTo(b)[c])
  <2>1. mailbox[c] \in Seq(Msgs) /\ up(c) \subseteq Wires /\ down(c) \subseteq Wires
    BY DEF MailTypeOK, Ins, Outs
  <2>2. "OutputCheck" \in Types /\ "InputCheck" \in Types
    BY DEF Types
  <2>3. PICK s : s = mid(c)
    OBVIOUS
  <2>4. s \in Seq(Msgs) /\ Moves(mailbox[c], s, 0, {OnWire("OutputCheck", w) : w \in up(c)})
    BY <2>1, <2>2, <2>3, PostsOnWires
  <2>5. mailbox'[c] = s \o [k \in DOMAIN InOrder(down(c)) |-> OnWire("InputCheck", InOrder(down(c))[k])]
    BY <1>1, <2>3
  <2>6. PICK r : r = mailbox'[c]
    OBVIOUS
  <2>7. r \in Seq(Msgs) /\ Moves(s, r, 0, {OnWire("InputCheck", w) : w \in down(c)})
    BY <2>1, <2>2, <2>4, <2>5, <2>6, PostsOnWires
  <2>8. Moves(mailbox[c], r, 0, {OnWire("OutputCheck", w) : w \in up(c)}
                                    \cup {OnWire("InputCheck", w) : w \in down(c)})
    BY 0 \in 0 .. 1, <2>4, <2>7, MovesTwice
  <2>9. QED
    BY <2>6, <2>7, <2>8 DEF ChecksTo
<1>3. mailbox' \in [Blocks -> Seq(Msgs)]
  BY <1>1, <1>2
<1>4. QED
  BY <1>2, <1>3 DEF MailStep, MailTypeOK

\* The new tokens of a start.
LEMMA TokenStep ==
    ASSUME MailTypeOK, NEW b \in Blocks, mailbox[b] # <<>>, NEW n \in Nat,
           mailbox' = PostEach(PostEach(Popped(b), Ins(b), From, LAMBDA w : InToken(w, n)),
                               Outs(b), To, LAMBDA w : OutToken(w, n))
    PROVE  MailStep(b, 1, TokensTo(b, n))
<1> DEFINE up(c) == {w \in Ins(b) : From(w) = c}
           down(c) == {w \in Outs(b) : To(w) = c}
           mid(c) == Popped(b)[c] \o [k \in DOMAIN InOrder(up(c)) |-> InToken(InOrder(up(c))[k], n)]
<1>1. mailbox' = [c \in Blocks |-> mid(c) \o [k \in DOMAIN InOrder(down(c)) |->
                                       OutToken(InOrder(down(c))[k], n)]]
  BY DEF PostEach
<1>2. ASSUME NEW c \in Blocks
      PROVE  /\ mailbox'[c] \in Seq(Msgs)
             /\ Moves(mailbox[c], mailbox'[c], IF c = b THEN 1 ELSE 0, TokensTo(b, n)[c])
  <2>1. /\ Popped(b)[c] \in Seq(Msgs) /\ up(c) \subseteq Wires /\ down(c) \subseteq Wires
        /\ Moves(mailbox[c], Popped(b)[c], IF c = b THEN 1 ELSE 0, {})
    BY PoppedMoves DEF Ins, Outs
  <2>2. PICK d \in 0 .. 1 : d = IF c = b THEN 1 ELSE 0
    OBVIOUS
  <2>3. PICK s : s = mid(c)
    OBVIOUS
  <2>4. s \in Seq(Msgs) /\ Moves(Popped(b)[c], s, 0, {InToken(w, n) : w \in up(c)})
    BY <2>1, <2>3, PostsInTokens
  <2>5. mailbox'[c] = s \o [k \in DOMAIN InOrder(down(c)) |-> OutToken(InOrder(down(c))[k], n)]
    BY <1>1, <2>3
  <2>6. PICK r : r = mailbox'[c]
    OBVIOUS
  <2>7. r \in Seq(Msgs) /\ Moves(s, r, 0, {OutToken(w, n) : w \in down(c)})
    BY <2>1, <2>4, <2>5, <2>6, PostsOutTokens
  <2>8. Moves(mailbox[c], s, d, {} \cup {InToken(w, n) : w \in up(c)})
    BY <2>1, <2>2, <2>4, MovesTwice
  <2>9. Moves(mailbox[c], r, d, ({} \cup {InToken(w, n) : w \in up(c)})
                                    \cup {OutToken(w, n) : w \in down(c)})
    BY <2>7, <2>8, MovesTwice
  <2>10. {} \cup {InToken(w, n) : w \in up(c)} = {InToken(w, n) : w \in up(c)}
    OBVIOUS
  <2>11. QED
    BY <2>2, <2>6, <2>7, <2>9, <2>10 DEF TokensTo
<1>3. mailbox' \in [Blocks -> Seq(Msgs)]
  BY <1>1, <1>2
<1>4. QED
  BY <1>2, <1>3 DEF MailStep, MailTypeOK

\* What work() sends, and the kick after it.
LEMMA PostWorkStep ==
    ASSUME MailTypeOK, NEW b \in Blocks, NEW sends \in BOOLEAN, NEW done \in BOOLEAN, NEW q,
           PostWork(b, IF sends THEN Sends(mailbox, b) ELSE mailbox, q, done)
    PROVE  \E M : /\ MailStep(b, 0, M)
                  /\ \A c \in Blocks : M[c] \subseteq BuffersTo(b)[c] \cup {Plain("SelfKick")}
<1> DEFINE down(c) == {w \in Outs(b) : To(w) = c}
           sent == IF sends THEN Sends(mailbox, b) ELSE mailbox
           M == [c \in Blocks |-> IF sends THEN BuffersTo(b)[c] ELSE {}]
<1>1. ASSUME NEW c \in Blocks
      PROVE  sent[c] \in Seq(Msgs) /\ Moves(mailbox[c], sent[c], 0, M[c])
  <2>1. mailbox[c] \in Seq(Msgs) /\ down(c) \subseteq Wires /\ "InputBuffer" \in Types
    BY DEF MailTypeOK, Outs, Types
  <2>2. CASE sends
    <3>1. PICK r : r = mailbox[c] \o [k \in DOMAIN InOrder(down(c)) |->
                                         OnWire("InputBuffer", InOrder(down(c))[k])]
      OBVIOUS
    <3>2. sent[c] = r
      BY <2>2, <3>1 DEF Sends, PostEach
    <3>3. r \in Seq(Msgs) /\ Moves(mailbox[c], r, 0, {OnWire("InputBuffer", w) : w \in down(c)})
      BY <2>1, <3>1, PostsOnWires
    <3>4. QED
      BY <2>2, <3>2, <3>3 DEF BuffersTo
  <2>3. CASE ~sends
    BY <2>1, <2>3, MovesNothing
  <2>4. QED
    BY <2>2, <2>3
<1>2. sent \in [Blocks -> Seq(Msgs)]
  <2>1. CASE sends
    <3>1. sent = [c \in Blocks |-> sent[c]]
      BY <2>1 DEF Sends, PostEach
    <3>2. QED
      BY <1>1, <3>1
  <2>2. CASE ~sends
    BY <2>2 DEF MailTypeOK
  <2>3. QED
    BY <2>1, <2>2
<1>3. \A c \in Blocks : M[c] \subseteq BuffersTo(b)[c] \cup {Plain("SelfKick")}
  OBVIOUS
<1>4. mailbox' = sent \/ mailbox' = Append1(sent, b, Plain("SelfKick"))
  BY DEF PostWork, Kicked, SelfKicked
<1> HIDE DEF sent, M
<1>5. CASE mailbox' = sent
  <2>1. MailStep(b, 0, M)
    BY <1>1, <1>2, <1>5 DEF MailStep, MailTypeOK
  <2>2. QED
    BY <1>3, <2>1
<1>6. CASE mailbox' = Append1(sent, b, Plain("SelfKick"))
  <2>1. BoxIs(sent, b, 0, M)
    BY <1>1, <1>2 DEF BoxIs
  <2> DEFINE N == [c \in Blocks |-> IF c = b THEN M[c] \cup {Plain("SelfKick")} ELSE M[c]]
  <2>2. \A c \in Blocks : N[c] \subseteq BuffersTo(b)[c] \cup {Plain("SelfKick")}
    BY <1>3
  <2>3. BoxIs(Append1(sent, b, Plain("SelfKick")), b, 0, N)
    BY <2>1, SelfKickType, AppendMoves
  <2>4. MailStep(b, 0, N)
    BY <1>6, <2>3 DEF BoxIs, MailStep, MailTypeOK
  <2>5. QED
    BY <2>2, <2>4
<1>7. QED
  BY <1>4, <1>5, <1>6

---------------------------------------------------------------------------
(* Broadcasts: who was asked, and has to answer.                           *)

Sending == top.call \in {"start", "stop"}
Now     == IF top.call = "stop" THEN "TopInert"
           ELSE IF top.step = 1 THEN "TopThread"
           ELSE IF top.step = 2 THEN "TopToken" ELSE "TopActive"

\* b was sent the message and has not answered it
Asked(b) == Sending /\ b \in top.unanswered /\ b \notin top.unsent

TopOK ==
    /\ top.unsent \subseteq top.unanswered
    /\ top.call = "start" => top.step \in 1 .. 3
    /\ top.call = "stop" => top.step = 1
    /\ ~Sending => top.unanswered = {}

\* the message, the end that is owed for it, or the thread: one of them
ReplyOK(b) ==
    /\ \A k \in 1 .. Len(mailbox[b]) : mailbox[b][k].reply =>
           /\ Asked(b) /\ mailbox[b][k].type = Now /\ b \notin owes /\ pc[b] # "create"
           /\ \A j \in 1 .. Len(mailbox[b]) : mailbox[b][j].reply => j = k
    /\ b \in owes => Asked(b) /\ top.call = "stop"
    /\ pc[b] = "create" => Asked(b) /\ top.call = "start" /\ top.step = 1

\* who holds whose tokens
MessageOK(c, m) ==
    /\ m.type \in {"TopThread", "TopToken", "TopActive"} => m.reply
    /\ TopTok \in m.tokens => m.type = "TopToken"
    /\ m.tokens # {} => m.type \in {"TopToken", "InputToken", "OutputToken"}
    /\ m.type = "TopToken" => m.tokens \subseteq {TopTok}
    /\ m.type = "OutputCheck" => m.wire \in Outs(c)
    /\ m.type \in {"InputCheck", "InputBuffer"} => m.wire \in Ins(c)
    /\ \A p, n : <<"output", p, n>> \in m.tokens => \E w \in Ins(c) : Port(w) = p
PoolOK(c) ==
    \A p, n : <<"output", p, n>> \in pool[c] => \E w \in Ins(c) : Port(w) = p

RunsOK(b) ==
    /\ pc[b] \in {"work", "call", "called"} => state[b] = "LIVE"
    /\ state[b] = "LIVE" => starts_seen[b] > 0 /\ ~IsAt("new")
    /\ b \in starting => IsAt("start") /\ top.step \in {2, 3} /\ starts_seen[b] > 0
    /\ IsAt("start") /\ top.step = 2 => (b \in starting <=> b \notin top.unanswered)
    /\ IsAt("start") /\ top.step = 3 => (b \in starting <=> b \in top.unanswered)

FlowInv ==
    /\ FlowTypeOK /\ TopOK
    /\ \A b \in Blocks : ReplyOK(b)
    /\ \A b \in Blocks : RunsOK(b)
    /\ \A b \in Blocks : PoolOK(b)
    /\ \A b \in Blocks : \A k \in 1 .. Len(mailbox[b]) : MessageOK(b, mailbox[b][k])

---------------------------------------------------------------------------
LEMMA MessagesKept ==
    ASSUME FlowInv, NEW b \in Blocks, NEW d \in 0 .. 1, NEW M, MailStep(b, d, M),
           \A c \in Blocks : \A m \in M[c] : MessageOK(c, m)
    PROVE  (\A c \in Blocks : \A k \in 1 .. Len(mailbox[c]) : MessageOK(c, mailbox[c][k]))'
<1>1. ASSUME NEW c \in Blocks, NEW k \in 1 .. Len(mailbox'[c])
      PROVE  MessageOK(c, mailbox'[c][k])
  <2>1. PICK e \in 0 .. 1 : Moves(mailbox[c], mailbox'[c], e, M[c])
    BY DEF MailStep
  <2>2. CASE k + e <= Len(mailbox[c])
    <3>1. mailbox'[c][k] = mailbox[c][k + e] /\ k + e \in 1 .. Len(mailbox[c])
      BY <2>1, <2>2 DEF Moves
    <3>2. QED
      BY <3>1 DEF FlowInv
  <2>3. CASE ~(k + e <= Len(mailbox[c]))
    BY <2>1, <2>3 DEF Moves
  <2>4. QED
    BY <2>2, <2>3
<1>2. QED
  BY <1>1 DEF MessageOK

\* what has to do with the answer of c stays
SameAsk(c) ==
    /\ top'.call = top.call /\ top'.step = top.step
    /\ c \in top'.unanswered <=> c \in top.unanswered
    /\ c \in top'.unsent <=> c \in top.unsent
    /\ c \in owes' => c \in owes
    /\ pc'[c] = "create" => pc[c] = "create"

LEMMA RepliesKept ==
    ASSUME FlowInv, NEW c \in Blocks, NEW e \in 0 .. 1, NEW M,
           Moves(mailbox[c], mailbox'[c], e, M), \A m \in M : ~m.reply, SameAsk(c)
    PROVE  ReplyOK(c)'
<1>1. ReplyOK(c)
  BY DEF FlowInv
<1>2. Len(mailbox[c]) \in Nat /\ Len(mailbox'[c]) \in Nat
  BY DEF Moves
<1>3. ASSUME NEW k \in 1 .. Len(mailbox'[c]), mailbox'[c][k].reply
      PROVE  k + e \in 1 .. Len(mailbox[c]) /\ mailbox'[c][k] = mailbox[c][k + e]
  <2>1. k + e <= Len(mailbox[c])
    BY <1>3 DEF Moves
  <2>2. QED
    BY <1>2, <2>1 DEF Moves
<1>4. ASSUME NEW k \in 1 .. Len(mailbox'[c]), mailbox'[c][k].reply
      PROVE  /\ Asked(c) /\ mailbox'[c][k].type = Now /\ c \notin owes /\ pc[c] # "create"
             /\ \A j \in 1 .. Len(mailbox'[c]) : mailbox'[c][j].reply => j = k
  <2>1. k + e \in 1 .. Len(mailbox[c]) /\ mailbox'[c][k] = mailbox[c][k + e]
    BY <1>3, <1>4
  <2>2. /\ Asked(c) /\ mailbox'[c][k].type = Now /\ c \notin owes /\ pc[c] # "create"
        /\ \A i \in 1 .. Len(mailbox[c]) : mailbox[c][i].reply => i = k + e
    BY <1>1, <1>4, <2>1 DEF ReplyOK
  <2>3. ASSUME NEW j \in 1 .. Len(mailbox'[c]), mailbox'[c][j].reply
        PROVE  j = k
    <3>1. j + e \in 1 .. Len(mailbox[c]) /\ mailbox'[c][j] = mailbox[c][j + e]
      BY <1>3, <2>3
    <3>2. j + e = k + e
      BY <2>2, <2>3, <3>1
    <3>3. QED
      BY <1>2, <3>2
  <2>4. QED
    BY <2>2, <2>3
<1>5. (Asked(c)' <=> Asked(c)) /\ Now' = Now
  BY DEF SameAsk, Asked, Sending, Now
<1>6. \A k \in 1 .. Len(mailbox'[c]) : mailbox'[c][k].reply =>
           /\ Asked(c)' /\ mailbox'[c][k].type = Now' /\ c \notin owes' /\ pc'[c] # "create"
           /\ \A j \in 1 .. Len(mailbox'[c]) : mailbox'[c][j].reply => j = k
  BY <1>4, <1>5 DEF SameAsk
<1>7. c \in owes' => Asked(c)' /\ top'.call = "stop"
  BY <1>1, <1>5 DEF SameAsk, ReplyOK
<1>8. pc'[c] = "create" => Asked(c)' /\ top'.call = "start" /\ top'.step = 1
  BY <1>1, <1>5 DEF SameAsk, ReplyOK
<1>9. QED
  BY <1>6, <1>7, <1>8 DEF ReplyOK

\* the one message that wants an answer is taken
LEMMA RepliesGone ==
    ASSUME FlowInv, NEW b \in Blocks, NEW M, Moves(mailbox[b], mailbox'[b], 1, M),
           \A m \in M : ~m.reply, 1 \in 1 .. Len(mailbox[b]), mailbox[b][1].reply
    PROVE  \A k \in 1 .. Len(mailbox'[b]) : ~mailbox'[b][k].reply
<1>1. ASSUME NEW k \in 1 .. Len(mailbox'[b]), mailbox'[b][k].reply
      PROVE  FALSE
  <2>1. Len(mailbox[b]) \in Nat /\ k + 1 <= Len(mailbox[b])
    BY <1>1 DEF Moves
  <2>2. mailbox'[b][k] = mailbox[b][k + 1] /\ k + 1 \in 1 .. Len(mailbox[b])
    BY <2>1 DEF Moves
  <2>3. k + 1 = 1
    BY <1>1, <2>2 DEF FlowInv, ReplyOK
  <2>4. QED
    BY <2>1, <2>3
<1>2. QED
  BY <1>1

\* a step that leaves the broadcast alone
FlowQuiet(b, d, M) ==
    /\ MailStep(b, d, M)
    /\ \A c \in Blocks : \A m \in M[c] : ~m.reply /\ MessageOK(c, m)
    /\ UNCHANGED <<top, owes, starting, starts_seen, starts>>
    /\ pc' \in [Blocks -> PcAt]
    /\ checking' \in [Blocks -> Wires \cup {<<>>}]
    /\ state' \in [Blocks -> {"INIT", "LIVE", "DONE"}]
    /\ pool' \in [Blocks -> SUBSET Toks]
    /\ \A c \in Blocks : /\ pc'[c] = "create" => pc[c] = "create"
                         /\ pc'[c] \in {"work", "call", "called"} => state'[c] = "LIVE"
                         /\ state'[c] = "LIVE" => state[c] = "LIVE"
                         /\ PoolOK(c)'

LEMMA FlowQuietKeeps ==
    ASSUME FlowInv, NEW b \in Blocks, NEW d \in 0 .. 1, NEW M, FlowQuiet(b, d, M)
    PROVE  FlowInv'
<1>1. MailStep(b, d, M) /\ \A c \in Blocks : \A m \in M[c] : ~m.reply /\ MessageOK(c, m)
  BY DEF FlowQuiet
<1>2. (\A c \in Blocks : \A k \in 1 .. Len(mailbox[c]) : MessageOK(c, mailbox[c][k]))'
  BY <1>1, MessagesKept
<1>3. ASSUME NEW c \in Blocks PROVE ReplyOK(c)'
  <2>1. PICK e \in 0 .. 1 : Moves(mailbox[c], mailbox'[c], e, M[c])
    BY <1>1 DEF MailStep
  <2>2. SameAsk(c)
    BY DEF FlowQuiet, SameAsk
  <2>3. QED
    BY <1>1, <2>1, <2>2, RepliesKept
<1>4. FlowTypeOK'
  BY DEF FlowInv, FlowTypeOK, FlowQuiet, MailStep
<1>5. TopOK'
  BY DEF FlowInv, FlowQuiet, TopOK, Sending
<1>6. ASSUME NEW c \in Blocks PROVE RunsOK(c)'
  BY DEF FlowInv, FlowQuiet, RunsOK, IsAt
<1>7. ASSUME NEW c \in Blocks PROVE PoolOK(c)'
  BY DEF FlowQuiet
<1>8. QED
  BY <1>2, <1>3, <1>4, <1>5, <1>6, <1>7 DEF FlowInv

\* the messages of the blocks among themselves
LEMMA PlainIsQuiet ==
    /\ \A c : ~Plain("SelfKick").reply /\ MessageOK(c, Plain("SelfKick"))
    /\ \A c : ~Plain("TopInert").reply /\ MessageOK(c, Plain("TopInert"))
    /\ \A b \in Blocks, c \in Blocks : \A m \in BuffersTo(b)[c] : ~m.reply /\ MessageOK(c, m)
    /\ \A b \in Blocks, c \in Blocks : \A m \in ChecksTo(b)[c] : ~m.reply /\ MessageOK(c, m)
<1>1. ASSUME NEW c, NEW type \in {"SelfKick", "TopInert"}
      PROVE  ~Plain(type).reply /\ MessageOK(c, Plain(type))
  BY DEF Plain, Message, MessageOK
<1>2. ASSUME NEW c, NEW type \in {"InputBuffer", "InputCheck"}, NEW w \in Ins(c)
      PROVE  ~OnWire(type, w).reply /\ MessageOK(c, OnWire(type, w))
  BY DEF OnWire, Message, MessageOK
<1>3. ASSUME NEW c, NEW w \in Outs(c)
      PROVE  ~OnWire("OutputCheck", w).reply /\ MessageOK(c, OnWire("OutputCheck", w))
  BY DEF OnWire, Message, MessageOK
<1>4. ASSUME NEW b \in Blocks, NEW c \in Blocks, NEW m \in BuffersTo(b)[c]
      PROVE  ~m.reply /\ MessageOK(c, m)
  <2>1. PICK w \in Outs(b) : To(w) = c /\ m = OnWire("InputBuffer", w)
    BY DEF BuffersTo
  <2>2. w \in Ins(c)
    BY <2>1 DEF Ins, Outs
  <2>3. QED
    BY <1>2, <2>1, <2>2
<1>5. ASSUME NEW b \in Blocks, NEW c \in Blocks, NEW m \in ChecksTo(b)[c]
      PROVE  ~m.reply /\ MessageOK(c, m)
  <2>1. \/ \E w \in Ins(b) : From(w) = c /\ m = OnWire("OutputCheck", w)
        \/ \E w \in Outs(b) : To(w) = c /\ m = OnWire("InputCheck", w)
    BY DEF ChecksTo
  <2>2. (\A w \in Ins(b) : From(w) = c => w \in Outs(c)) /\ \A w \in Outs(b) : To(w) = c => w \in Ins(c)
    BY DEF Ins, Outs
  <2>3. CASE \E w \in Ins(b) : From(w) = c /\ m = OnWire("OutputCheck", w)
    BY <1>3, <2>2, <2>3
  <2>4. CASE \E w \in Outs(b) : To(w) = c /\ m = OnWire("InputCheck", w)
    BY <1>2, <2>2, <2>4
  <2>5. QED
    BY <2>1, <2>3, <2>4
<1>6. QED
  BY <1>1, <1>4, <1>5

LEMMA TokensAreQuiet ==
    ASSUME NEW b \in Blocks, NEW n \in Nat, NEW c \in Blocks, NEW m \in TokensTo(b, n)[c]
    PROVE  ~m.reply /\ MessageOK(c, m)
<1>1. ASSUME NEW w \in Wires PROVE ~InToken(w, n).reply /\ MessageOK(c, InToken(w, n))
  BY DEF InToken, Message, MessageOK, TopTok
<1>2. ASSUME NEW w \in Wires, To(w) = c PROVE ~OutToken(w, n).reply /\ MessageOK(c, OutToken(w, n))
  BY <1>2 DEF OutToken, Message, MessageOK, TopTok, Ins
<1>3. QED
  BY <1>1, <1>2 DEF TokensTo, Ins, Outs

---------------------------------------------------------------------------
(* What the steps do, one after the other.                                 *)

\* pc changes at b only, and is then in X
PcTo(b, X) == pc'[b] \in X /\ \A c \in Blocks : c # b => pc'[c] = pc[c]

LEMMA GoesTo ==
    ASSUME ThreadInv, NEW b \in Blocks, NEW x, Goes(b, x)
    PROVE  PcTo(b, {x})
BY DEF ThreadInv, ThreadTypeOK, Goes, PcTo

LEMMA MarkDoneTo ==
    ASSUME ThreadInv, NEW b \in Blocks, MarkDone(b)
    PROVE  PcTo(b, {IF state[b] = "DONE" THEN "idle" ELSE "ends"})
BY DEF ThreadInv, ThreadTypeOK, MarkDone, PcTo

LEMMA TaskTo ==
    ASSUME ThreadInv, NEW b \in Blocks, NEW box, NEW q, NEW rest, Task(b, box, q, rest)
    PROVE  PcTo(b, {rest, "work", "call"}) /\ (pc'[b] # rest => state[b] = "LIVE")
<1>1. pc' = [pc EXCEPT ![b] = IF ~Allowed(b, box, q) THEN rest
                              ELSE IF b \in Threaded THEN "call" ELSE "work"]
  BY DEF Task
<1>2. Allowed(b, box, q) => state[b] = "LIVE"
  BY DEF Allowed
<1>3. pc \in [Blocks -> PcAt]
  BY DEF ThreadInv, ThreadTypeOK
<1> HIDE DEF PcAt
<1>4. QED
  BY <1>1, <1>2, <1>3 DEF PcTo

LEMMA NoMail ==
    ASSUME MailTypeOK, NEW b \in Blocks, mailbox' = mailbox
    PROVE  MailStep(b, 0, Only(b, {}))
BY MovesNothing DEF MailStep, MailTypeOK, Only

LEMMA AckFields ==
    ASSUME FlowTypeOK, NEW b \in Blocks, Ack(b)
    PROVE  /\ top' \in [call : UserCalls, step : 0 .. 3, unsent : SUBSET Blocks,
                        unanswered : SUBSET Blocks]
           /\ top'.call = top.call /\ top'.step = top.step /\ top'.unsent = top.unsent
           /\ top'.unanswered = top.unanswered \ {b}
BY DEF FlowTypeOK, Ack

\* a message that is taken
LEMMA Taken ==
    ASSUME FlowInv, NEW b \in Blocks, NEW type, Takes(b, type)
    PROVE  /\ mailbox[b] # <<>> /\ Got(b) = mailbox[b][1] /\ 1 \in 1 .. Len(mailbox[b])
           /\ mailbox[b][1].type = type /\ MessageOK(b, mailbox[b][1]) /\ pc[b] = "idle"
           /\ Got(b) \in Msgs
<1>1. MailTypeOK /\ mailbox[b] # <<>> /\ pc[b] = "idle" /\ Got(b).type = type
  BY DEF FlowInv, FlowTypeOK, Takes, Got
<1>2. Got(b) = mailbox[b][1] /\ 1 \in 1 .. Len(mailbox[b])
  BY <1>1, PoppedMoves
<1>3. MessageOK(b, mailbox[b][1])
  BY <1>2 DEF FlowInv
<1>4. mailbox[b] \in Seq(Msgs)
  BY <1>1 DEF MailTypeOK
<1>5. Got(b) \in Msgs
  BY <1>2, <1>4, ElementOfSeq
<1>6. QED
  BY <1>1, <1>2, <1>3, <1>5

\* a step that neither starts nor ends a block, nor moves a token; those that
\* answer do so for TopThread and TopInert
PlainStep(b, d, M) ==
    /\ MailStep(b, d, M)
    /\ \A c \in Blocks : \A m \in M[c] : \/ m \in BuffersTo(b)[c] /\ state[b] = "LIVE"
                                         \/ m = Plain("SelfKick") \/ m = Plain("TopInert")
    /\ d = 1 => mailbox[b][1].type \in {"TopThread", "TopInert", "InputBuffer", "SelfKick"}
    /\ UNCHANGED <<state, pool, starts_seen, inputs_done, outputs_done, starts, aux>>
    /\ \A c \in Blocks : checking'[c] = checking[c] \/ checking'[c] = <<>>
    /\ \A c \in Blocks : /\ pc'[c] = "tells" <=> pc[c] = "tells"
                         /\ pc[c] = "ends" => pc'[c] = "ends"
    /\ \/ top' = top
       \/ Ack(b) /\ Asked(b) /\ ~(IsAt("start") /\ top.step \in {2, 3}) /\ pc[b] # "tells"

LEMMA PlainMessages ==
    ASSUME NEW b \in Blocks, NEW d, NEW M, PlainStep(b, d, M)
    PROVE  \A c \in Blocks : \A m \in M[c] : ~m.reply /\ MessageOK(c, m)
BY PlainIsQuiet DEF PlainStep

\* nobody answers, and nothing is owed
LEMMA PlainKeeps ==
    ASSUME FlowInv, ThreadInv', NEW b \in Blocks, NEW d \in 0 .. 1, NEW M, PlainStep(b, d, M),
           UNCHANGED <<top, owes>>, checking' \in [Blocks -> Wires \cup {<<>>}],
           \A c \in Blocks : /\ pc'[c] = "create" => pc[c] = "create"
                             /\ pc'[c] \in {"work", "call", "called"} =>
                                    state[c] = "LIVE" \/ pc[c] \in {"work", "call", "called"}
    PROVE  FlowInv'
<1>1. MailStep(b, d, M) /\ UNCHANGED <<state, pool, starts_seen, starts, starting>>
  BY DEF PlainStep, aux
<1>2. \A c \in Blocks : \A m \in M[c] : ~m.reply /\ MessageOK(c, m)
  BY PlainMessages
<1>3. pc' \in [Blocks -> PcAt]
  BY DEF ThreadInv, ThreadTypeOK
<1>4. ASSUME NEW c \in Blocks
      PROVE  pc'[c] \in {"work", "call", "called"} => state[c] = "LIVE"
  BY DEF FlowInv, RunsOK
<1>5. /\ state' \in [Blocks -> {"INIT", "LIVE", "DONE"}]
      /\ pool' \in [Blocks -> SUBSET Toks]
  BY <1>1 DEF FlowInv, FlowTypeOK
<1>6. \A c \in Blocks : PoolOK(c)'
  BY <1>1 DEF FlowInv, PoolOK
<1>7. FlowQuiet(b, d, M)
  BY <1>1, <1>2, <1>3, <1>4, <1>5, <1>6 DEF FlowQuiet
<1>8. QED
  BY <1>7, FlowQuietKeeps

\* b answers, or will; the others are not concerned
LEMMA AnswerKeeps ==
    ASSUME FlowInv, ThreadInv', NEW b \in Blocks, NEW d \in 0 .. 1, NEW M, PlainStep(b, d, M),
           ReplyOK(b)', UNCHANGED checking, PcTo(b, PcAt \ {"work", "call", "called"}),
           owes' \subseteq owes \cup {b}
    PROVE  FlowInv'
<1>1. MailStep(b, d, M) /\ UNCHANGED <<state, pool, starts_seen, starts, starting>>
  BY DEF PlainStep, aux
<1>2. \A c \in Blocks : \A m \in M[c] : ~m.reply /\ MessageOK(c, m)
  BY PlainMessages
<1>3. (\A c \in Blocks : \A k \in 1 .. Len(mailbox[c]) : MessageOK(c, mailbox[c][k]))'
  BY <1>1, <1>2, MessagesKept
<1>4. /\ top' \in [call : UserCalls, step : 0 .. 3, unsent : SUBSET Blocks,
                   unanswered : SUBSET Blocks]
      /\ top'.call = top.call /\ top'.step = top.step /\ top'.unsent = top.unsent
      /\ top'.unanswered = top.unanswered \/ top'.unanswered = top.unanswered \ {b}
      /\ top' = top \/ ~(IsAt("start") /\ top.step \in {2, 3})
  BY AckFields DEF PlainStep, FlowInv, FlowTypeOK
<1>5. FlowTypeOK'
  BY <1>1, <1>4 DEF FlowInv, FlowTypeOK, MailStep, ThreadInv, ThreadTypeOK
<1>6. ASSUME NEW c \in Blocks, c # b PROVE ReplyOK(c)'
  <2>1. Moves(mailbox[c], mailbox'[c], 0, M[c])
    BY <1>1, <1>6 DEF MailStep
  <2>2. SameAsk(c)
    BY <1>4, <1>6 DEF SameAsk, PcTo
  <2>3. QED
    BY 0 \in 0 .. 1, <1>2, <2>1, <2>2, RepliesKept
<1>7. b \notin top.unsent \/ top' = top
  BY DEF PlainStep, Asked
<1>8. TopOK'
  BY <1>4, <1>7 DEF FlowInv, TopOK, Sending
<1>9. ASSUME NEW c \in Blocks PROVE RunsOK(c)'
  BY <1>1, <1>4 DEF FlowInv, RunsOK, IsAt, PcTo
<1>10. ASSUME NEW c \in Blocks PROVE PoolOK(c)'
  BY <1>1 DEF FlowInv, PoolOK
<1>11. QED
  BY <1>3, <1>5, <1>6, <1>8, <1>9, <1>10 DEF FlowInv

IsPlain(b) == \E d \in 0 .. 1 : \E M : PlainStep(b, d, M)

LEMMA BufferPlain ==
    ASSUME FlowInv, ThreadInv, ThreadInv', NEW b \in Blocks, HandleInputBuffer(b) \/ HandleSelfKick(b)
    PROVE  FlowInv' /\ IsPlain(b)
<1>1. PICK type \in {"InputBuffer", "SelfKick"} : Takes(b, type)
  BY DEF HandleInputBuffer, HandleSelfKick
<1>2. mailbox[b] # <<>> /\ mailbox[b][1].type \in {"InputBuffer", "SelfKick"} /\ pc[b] = "idle"
  BY <1>1, Taken
<1>3. /\ mailbox' = Popped(b)
      /\ UNCHANGED <<checking, state, pool, starts_seen, inputs_done, outputs_done, owes, top,
                     starts, aux>>
      /\ pc' = pc \/ \E q : Task(b, mailbox', q, "idle")
  BY DEF HandleInputBuffer, HandleSelfKick, block
<1>4. MailStep(b, 1, Only(b, {}))
  BY <1>2, <1>3, PoppedStep DEF FlowInv, FlowTypeOK
<1>5. /\ \A c \in Blocks : c # b => pc'[c] = pc[c]
      /\ pc'[b] \in {"idle", "work", "call"} /\ (pc'[b] # "idle" => state[b] = "LIVE")
  <2>1. CASE pc' = pc
    BY <1>2, <2>1
  <2>2. CASE \E q : Task(b, mailbox', q, "idle")
    BY <2>2, TaskTo DEF PcTo
  <2>3. QED
    BY <1>3, <2>1, <2>2
<1>6. PlainStep(b, 1, Only(b, {}))
  BY <1>2, <1>3, <1>4, <1>5 DEF PlainStep, Only
<1>7. checking' \in [Blocks -> Wires \cup {<<>>}]
  BY <1>3 DEF FlowInv, FlowTypeOK
<1>8. FlowInv'
  BY 1 \in 0 .. 1, <1>3, <1>5, <1>6, <1>7, PlainKeeps
<1>9. QED
  BY 1 \in 0 .. 1, <1>6, <1>8 DEF IsPlain

LEMMA WorkPlain ==
    ASSUME FlowInv, ThreadInv, ThreadInv', NEW b \in Blocks, Work(b) \/ CallReturns(b)
    PROVE  FlowInv' /\ IsPlain(b)
<1>1. /\ pc[b] \in {"work", "called"}
      /\ UNCHANGED <<checking, state, pool, starts_seen, inputs_done, outputs_done, owes, top,
                     starts, aux>>
  BY DEF Work, CallReturns
<1>2. PICK sends \in BOOLEAN, done \in BOOLEAN :
          \E q : PostWork(b, IF sends THEN Sends(mailbox, b) ELSE mailbox, q, done)
  <2>1. CASE Work(b)
    BY <2>1 DEF Work
  <2>2. CASE CallReturns(b)
    <3>1. (b \in yields) \in BOOLEAN
      OBVIOUS
    <3>2. QED
      BY <2>2, <3>1 DEF CallReturns
  <2>3. QED
    BY <2>1, <2>2
<1>3. PICK M : /\ MailStep(b, 0, M)
               /\ \A c \in Blocks : M[c] \subseteq BuffersTo(b)[c] \cup {Plain("SelfKick")}
  BY <1>2, PostWorkStep DEF FlowInv, FlowTypeOK
<1>4. Goes(b, IF done THEN "ends" ELSE After(b)) /\ After(b) \in {"check", "idle"}
  BY <1>2 DEF PostWork, After
<1>5. PcTo(b, {"ends", "check", "idle"})
  BY <1>4, GoesTo DEF PcTo
<1>6. state[b] = "LIVE"
  BY <1>1 DEF FlowInv, RunsOK
<1>7. PlainStep(b, 0, M)
  BY <1>1, <1>3, <1>5, <1>6 DEF PlainStep, PcTo
<1>8. checking' \in [Blocks -> Wires \cup {<<>>}]
  BY <1>1 DEF FlowInv, FlowTypeOK
<1>9. FlowInv'
  BY 0 \in 0 .. 1, <1>1, <1>5, <1>7, <1>8, PlainKeeps DEF PcTo
<1>10. QED
  BY 0 \in 0 .. 1, <1>7, <1>9 DEF IsPlain

LEMMA CallsPlain ==
    ASSUME FlowInv, ThreadInv, ThreadInv', NEW b \in Blocks, Calls(b)
    PROVE  FlowInv' /\ IsPlain(b)
<1>1. /\ pc[b] = "call" /\ Goes(b, "called")
      /\ UNCHANGED <<mailbox, checking, state, pool, starts_seen, inputs_done, outputs_done, owes,
                     top, starts, aux>>
  BY DEF Calls, block
<1>2. PcTo(b, {"called"})
  BY <1>1, GoesTo
<1>3. MailStep(b, 0, Only(b, {}))
  BY <1>1, NoMail DEF FlowInv, FlowTypeOK
<1>4. PlainStep(b, 0, Only(b, {}))
  BY <1>1, <1>2, <1>3 DEF PlainStep, PcTo, Only
<1>5. checking' \in [Blocks -> Wires \cup {<<>>}]
  BY <1>1 DEF FlowInv, FlowTypeOK
<1>6. FlowInv'
  BY 0 \in 0 .. 1, <1>1, <1>2, <1>4, <1>5, PlainKeeps DEF PcTo
<1>7. QED
  BY 0 \in 0 .. 1, <1>4, <1>6 DEF IsPlain

LEMMA CheckPlain ==
    ASSUME FlowInv, ThreadInv, ThreadInv', NEW b \in Blocks, CheckInput(b)
    PROVE  FlowInv' /\ IsPlain(b)
<1>1. /\ pc[b] = "check" /\ checking' = [checking EXCEPT ![b] = <<>>]
      /\ UNCHANGED <<mailbox, state, pool, starts_seen, inputs_done, outputs_done, owes,
                     top, starts, aux>>
      /\ MarkDone(b) \/ Goes(b, "idle")
  BY DEF CheckInput, block
<1>2. PcTo(b, {"idle", "ends"})
  BY <1>1, GoesTo, MarkDoneTo DEF PcTo
<1>3. MailStep(b, 0, Only(b, {}))
  BY <1>1, NoMail DEF FlowInv, FlowTypeOK
<1>4. /\ checking' \in [Blocks -> Wires \cup {<<>>}]
      /\ \A c \in Blocks : checking'[c] = checking[c] \/ checking'[c] = <<>>
  BY <1>1 DEF FlowInv, FlowTypeOK
<1>5. PlainStep(b, 0, Only(b, {}))
  BY <1>1, <1>2, <1>3, <1>4 DEF PlainStep, PcTo, Only
<1>6. FlowInv'
  BY 0 \in 0 .. 1, <1>1, <1>2, <1>4, <1>5, PlainKeeps DEF PcTo
<1>7. QED
  BY 0 \in 0 .. 1, <1>5, <1>6 DEF IsPlain

LEMMA PollPlain ==
    ASSUME FlowInv, ThreadInv', NEW b \in Blocks, WaitPolls(b)
    PROVE  FlowInv' /\ IsPlain(b)
<1>1. /\ mailbox' = Append1(mailbox, b, Plain("TopInert"))
      /\ UNCHANGED <<pc, checking, state, pool, starts_seen, inputs_done, outputs_done, owes,
                     top, starts, aux>>
  BY DEF WaitPolls, block
<1>2. Plain("TopInert") \in Msgs
  BY Messages DEF Types
<1>3. MailStep(b, 0, Only(b, {Plain("TopInert")}))
  BY <1>1, <1>2, SendStep DEF FlowInv, FlowTypeOK
<1>4. PlainStep(b, 0, Only(b, {Plain("TopInert")}))
  BY <1>1, <1>3 DEF PlainStep, Only
<1>5. checking' \in [Blocks -> Wires \cup {<<>>}]
  BY <1>1 DEF FlowInv, FlowTypeOK
<1>6. FlowInv'
  BY 0 \in 0 .. 1, <1>1, <1>4, <1>5, PlainKeeps
<1>7. QED
  BY 0 \in 0 .. 1, <1>4, <1>6 DEF IsPlain

\* the steps of the special threads, and none at all
LEMMA StillPlain ==
    ASSUME FlowInv, ThreadInv', NEW b \in Blocks,
           UNCHANGED <<mailbox, pc, checking, state, pool, starts_seen, inputs_done, outputs_done,
                       owes, top, starts, aux>>
    PROVE  FlowInv' /\ IsPlain(b)
<1>1. MailStep(b, 0, Only(b, {}))
  BY NoMail DEF FlowInv, FlowTypeOK
<1>2. PlainStep(b, 0, Only(b, {}))
  BY <1>1 DEF PlainStep, Only
<1>3. checking' \in [Blocks -> Wires \cup {<<>>}]
  BY DEF FlowInv, FlowTypeOK
<1>4. FlowInv'
  BY 0 \in 0 .. 1, <1>2, <1>3, PlainKeeps
<1>5. QED
  BY 0 \in 0 .. 1, <1>2, <1>4 DEF IsPlain

\* no message to answer, and nothing else for the answer
NoReply(b) ==
    /\ \A k \in 1 .. Len(mailbox[b]) : ~mailbox[b][k].reply
    /\ b \notin owes /\ pc[b] # "create"

LEMMA NoReplyIsOK == ASSUME NEW b, NoReply(b)' PROVE ReplyOK(b)'
BY DEF NoReply, ReplyOK

\* the message of the broadcast is taken
LEMMA ReplyTaken ==
    ASSUME FlowInv, NEW b \in Blocks, 1 \in 1 .. Len(mailbox[b]), mailbox[b][1].reply,
           NEW M, Moves(mailbox[b], mailbox'[b], 1, M), \A m \in M : ~m.reply
    PROVE  /\ Asked(b) /\ mailbox[b][1].type = Now /\ b \notin owes /\ pc[b] # "create"
           /\ \A k \in 1 .. Len(mailbox'[b]) : ~mailbox'[b][k].reply
<1>1. ReplyOK(b)
  BY DEF FlowInv
<1>2. QED
  BY <1>1, RepliesGone DEF ReplyOK

LEMMA TopThreadPlain ==
    ASSUME FlowInv, ThreadInv, ThreadInv', NEW b \in Blocks, HandleTopThread(b)
    PROVE  FlowInv' /\ IsPlain(b)
<1>1. /\ mailbox[b] # <<>> /\ 1 \in 1 .. Len(mailbox[b]) /\ pc[b] = "idle"
      /\ mailbox[b][1].type = "TopThread" /\ mailbox[b][1].reply
  BY Taken DEF HandleTopThread, MessageOK
<1>2. /\ mailbox' = Popped(b)
      /\ UNCHANGED <<checking, state, pool, starts_seen, inputs_done, outputs_done, owes,
                     starts, aux>>
      /\ \/ Goes(b, "create") /\ UNCHANGED top
         \/ Ack(b) /\ UNCHANGED pc
  BY DEF HandleTopThread, block
<1>3. MailStep(b, 1, Only(b, {}))
  BY <1>1, <1>2, PoppedStep DEF FlowInv, FlowTypeOK
<1>4. PICK M : Moves(mailbox[b], mailbox'[b], 1, M) /\ \A m \in M : ~m.reply
  BY <1>3 DEF MailStep, Only
<1>5. /\ Asked(b) /\ Now = "TopThread" /\ b \notin owes
      /\ \A k \in 1 .. Len(mailbox'[b]) : ~mailbox'[b][k].reply
  BY <1>1, <1>4, ReplyTaken
<1>6. top.call = "start" /\ top.step = 1
  BY <1>5 DEF Now, Asked, Sending
<1>7. PcTo(b, {"idle", "create"})
  BY <1>1, <1>2, GoesTo DEF PcTo
<1>8. ReplyOK(b)'
  <2>1. CASE Goes(b, "create") /\ UNCHANGED top
    BY <1>2, <1>5, <1>6, <2>1 DEF ReplyOK, Asked, Sending
  <2>2. CASE Ack(b) /\ UNCHANGED pc
    BY <1>1, <1>2, <1>5, <2>2, NoReplyIsOK DEF NoReply
  <2>3. QED
    BY <1>2, <2>1, <2>2
<1>9. PlainStep(b, 1, Only(b, {}))
  BY <1>1, <1>2, <1>3, <1>5, <1>6, <1>7 DEF PlainStep, PcTo, Only, IsAt
<1>10. PcTo(b, PcAt \ {"work", "call", "called"})
  BY <1>7 DEF PcTo, PcAt
<1>11. FlowInv'
  BY 1 \in 0 .. 1, <1>2, <1>8, <1>9, <1>10, AnswerKeeps
<1>12. QED
  BY 1 \in 0 .. 1, <1>9, <1>11 DEF IsPlain

LEMMA CreatesPlain ==
    ASSUME FlowInv, ThreadInv, ThreadInv', NEW b \in Blocks, CreatesThread(b)
    PROVE  FlowInv' /\ IsPlain(b)
<1>1. /\ pc[b] = "create" /\ Goes(b, "idle") /\ Ack(b)
      /\ UNCHANGED <<mailbox, checking, state, pool, starts_seen, inputs_done, outputs_done, owes,
                     starts, aux>>
  BY DEF CreatesThread, block
<1>2. PcTo(b, {"idle"})
  BY <1>1, GoesTo
<1>3. MailStep(b, 0, Only(b, {}))
  BY <1>1, NoMail DEF FlowInv, FlowTypeOK
<1>4. /\ Asked(b) /\ top.call = "start" /\ top.step = 1 /\ b \notin owes
      /\ \A k \in 1 .. Len(mailbox[b]) : ~mailbox[b][k].reply
  BY <1>1 DEF FlowInv, ReplyOK
<1>5. ReplyOK(b)'
  BY <1>1, <1>2, <1>4, NoReplyIsOK DEF NoReply, PcTo
<1>6. PlainStep(b, 0, Only(b, {}))
  BY <1>1, <1>2, <1>3, <1>4 DEF PlainStep, PcTo, Only, IsAt
<1>7. PcTo(b, PcAt \ {"work", "call", "called"})
  BY <1>2 DEF PcTo, PcAt
<1>8. FlowInv'
  BY 0 \in 0 .. 1, <1>1, <1>5, <1>6, <1>7, AnswerKeeps
<1>9. QED
  BY 0 \in 0 .. 1, <1>6, <1>8 DEF IsPlain

LEMMA TopInertPlain ==
    ASSUME FlowInv, ThreadInv, ThreadInv', NEW b \in Blocks, HandleTopInert(b)
    PROVE  FlowInv' /\ IsPlain(b)
<1>1. /\ mailbox[b] # <<>> /\ 1 \in 1 .. Len(mailbox[b]) /\ pc[b] = "idle"
      /\ mailbox[b][1].type = "TopInert" /\ Got(b) = mailbox[b][1]
  BY Taken DEF HandleTopInert
<1>2. /\ mailbox' = Popped(b) /\ MarkDone(b)
      /\ UNCHANGED <<checking, state, pool, starts_seen, inputs_done, outputs_done, starts, aux>>
  BY DEF HandleTopInert, block
<1>3. MailStep(b, 1, Only(b, {}))
  BY <1>1, <1>2, PoppedStep DEF FlowInv, FlowTypeOK
<1>4. PcTo(b, {"idle", "ends"})
  BY <1>2, MarkDoneTo DEF PcTo
<1>5. checking' \in [Blocks -> Wires \cup {<<>>}]
  BY <1>2 DEF FlowInv, FlowTypeOK
<1>6. CASE ~Got(b).reply
  <2>1. UNCHANGED <<owes, top>>
    BY <1>6 DEF HandleTopInert
  <2>2. PlainStep(b, 1, Only(b, {}))
    BY <1>1, <1>2, <1>3, <1>4, <2>1 DEF PlainStep, PcTo, Only
  <2>3. FlowInv'
    BY 1 \in 0 .. 1, <1>4, <1>5, <2>1, <2>2, PlainKeeps DEF PcTo
  <2>4. QED
    BY 1 \in 0 .. 1, <2>2, <2>3 DEF IsPlain
<1>7. CASE Got(b).reply
  <2>1. PICK M : Moves(mailbox[b], mailbox'[b], 1, M) /\ \A m \in M : ~m.reply
    BY <1>3 DEF MailStep, Only
  <2>2. /\ Asked(b) /\ Now = "TopInert" /\ b \notin owes
        /\ \A k \in 1 .. Len(mailbox'[b]) : ~mailbox'[b][k].reply
    BY <1>1, <1>7, <2>1, ReplyTaken
  <2>3. top.call = "stop"
    BY <2>2 DEF Now
  <2>4. \/ owes' = owes \cup {b} /\ UNCHANGED top
        \/ UNCHANGED owes /\ Ack(b)
    BY <1>7 DEF HandleTopInert
  <2>5. ReplyOK(b)'
    <3>1. CASE owes' = owes \cup {b} /\ UNCHANGED top
      BY <1>4, <2>2, <2>3, <3>1 DEF ReplyOK, Asked, Sending, PcTo
    <3>2. CASE UNCHANGED owes /\ Ack(b)
      BY <1>4, <2>2, <3>2, NoReplyIsOK DEF NoReply, PcTo
    <3>3. QED
      BY <2>4, <3>1, <3>2
  <2>6. PlainStep(b, 1, Only(b, {}))
    BY <1>1, <1>2, <1>3, <1>4, <2>2, <2>3, <2>4 DEF PlainStep, PcTo, Only, IsAt
  <2>7. PcTo(b, PcAt \ {"work", "call", "called"})
    BY <1>4 DEF PcTo, PcAt
  <2>8. FlowInv'
    BY 1 \in 0 .. 1, <1>2, <2>4, <2>5, <2>6, <2>7, AnswerKeeps
  <2>9. QED
    BY 1 \in 0 .. 1, <2>6, <2>8 DEF IsPlain
<1>8. QED
  BY <1>6, <1>7

---------------------------------------------------------------------------
(* The steps that start and end blocks, and those that move tokens.        *)

\* b has answered a message that it took
LEMMA StepKeeps ==
    ASSUME FlowInv, NEW b \in Blocks, NEW d \in 0 .. 1, NEW M, MailStep(b, d, M),
           \A c \in Blocks : \A m \in M[c] : ~m.reply /\ MessageOK(c, m),
           FlowTypeOK', NoReply(b)', Ack(b), Asked(b), PcTo(b, PcAt), owes' \subseteq owes,
           \A c \in Blocks : RunsOK(c)', \A c \in Blocks : PoolOK(c)'
    PROVE  FlowInv'
<1>1. (\A c \in Blocks : \A k \in 1 .. Len(mailbox[c]) : MessageOK(c, mailbox[c][k]))'
  BY MessagesKept
<1>2. /\ top'.call = top.call /\ top'.step = top.step /\ top'.unsent = top.unsent
      /\ top'.unanswered = top.unanswered \ {b}
  BY AckFields DEF FlowInv
<1>3. TopOK'
  BY <1>2 DEF FlowInv, TopOK, Sending, Asked
<1>4. ASSUME NEW c \in Blocks, c # b PROVE ReplyOK(c)'
  <2>1. Moves(mailbox[c], mailbox'[c], 0, M[c])
    BY <1>4 DEF MailStep
  <2>2. SameAsk(c)
    BY <1>2, <1>4 DEF SameAsk, PcTo
  <2>3. QED
    BY 0 \in 0 .. 1, <2>1, <2>2, RepliesKept
<1>5. ReplyOK(b)'
  BY NoReplyIsOK
<1>6. QED
  BY <1>1, <1>3, <1>4, <1>5 DEF FlowInv

\* b takes the message of the broadcast, and posts M
Answers(b, type, M) ==
    /\ MailStep(b, 1, M)
    /\ \A c \in Blocks : \A m \in M[c] : ~m.reply /\ MessageOK(c, m)
    /\ 1 \in 1 .. Len(mailbox[b]) /\ mailbox[b][1].type = type /\ MessageOK(b, mailbox[b][1])
    /\ IsAt("start") /\ Asked(b) /\ pc[b] = "idle" /\ Ack(b)
    /\ top'.call = top.call /\ top'.step = top.step /\ top'.unsent = top.unsent
    /\ top'.unanswered = top.unanswered \ {b}
    /\ UNCHANGED <<pc, checking, owes, starts, early, hurried>>
    /\ NoReply(b)'

LEMMA AnswersReply ==
    ASSUME FlowInv, NEW b \in Blocks, NEW type \in {"TopToken", "TopActive"}, NEW M,
           Takes(b, type), MailStep(b, 1, M), Ack(b),
           \A c \in Blocks : \A m \in M[c] : ~m.reply /\ MessageOK(c, m),
           UNCHANGED <<pc, checking, owes, starts, early, hurried>>
    PROVE  Answers(b, type, M) /\ Now = type
<1>1. /\ 1 \in 1 .. Len(mailbox[b]) /\ pc[b] = "idle" /\ MessageOK(b, mailbox[b][1])
      /\ mailbox[b][1].type = type /\ mailbox[b][1].reply
  BY Taken DEF MessageOK
<1>2. PICK N : Moves(mailbox[b], mailbox'[b], 1, N) /\ \A m \in N : ~m.reply
  BY DEF MailStep
<1>3. /\ Asked(b) /\ Now = type /\ b \notin owes
      /\ \A k \in 1 .. Len(mailbox'[b]) : ~mailbox'[b][k].reply
  BY <1>1, <1>2, ReplyTaken
<1>4. IsAt("start")
  BY <1>3 DEF Now, Asked, Sending, IsAt
<1>5. NoReply(b)'
  BY <1>1, <1>3 DEF NoReply
<1>6. /\ top'.call = top.call /\ top'.step = top.step /\ top'.unsent = top.unsent
      /\ top'.unanswered = top.unanswered \ {b}
  BY AckFields DEF FlowInv
<1>7. QED
  BY <1>1, <1>3, <1>4, <1>5, <1>6 DEF Answers

LEMMA TopTokenFlow ==
    ASSUME FlowInv, ThreadInv, NEW b \in Blocks, HandleTopToken(b)
    PROVE  /\ FlowInv' /\ top.step = 2 /\ starts_seen'[b] = starts_seen[b] + 1
           /\ Answers(b, "TopToken", TokensTo(b, starts_seen'[b]))
<1>1. Takes(b, "TopToken") /\ mailbox[b] # <<>> /\ MailTypeOK
  BY Taken DEF HandleTopToken, FlowInv, FlowTypeOK
<1>2. PICK n \in Nat : n = starts_seen'[b] /\ n = starts_seen[b] + 1
  BY DEF HandleTopToken, FlowInv, FlowTypeOK
<1>3. mailbox' = PostEach(PostEach(Popped(b), Ins(b), From, LAMBDA w : InToken(w, n)),
                          Outs(b), To, LAMBDA w : OutToken(w, n))
  BY <1>2 DEF HandleTopToken, InToken, OutToken
<1>4. MailStep(b, 1, TokensTo(b, n))
  BY <1>1, <1>3, TokenStep
<1>5. \A c \in Blocks : \A m \in TokensTo(b, n)[c] : ~m.reply /\ MessageOK(c, m)
  BY TokensAreQuiet
<1>6. /\ UNCHANGED <<pc, checking, owes, starts, early, hurried, state>> /\ Ack(b)
      /\ starting' = starting \cup {b}
  BY DEF HandleTopToken
<1>7. Answers(b, "TopToken", TokensTo(b, n)) /\ Now = "TopToken"
  BY <1>1, <1>4, <1>5, <1>6, AnswersReply
<1>8. top.step = 2
  BY <1>7 DEF Now, Answers, IsAt
<1>9. /\ pool' \in [Blocks -> SUBSET Toks] /\ \A c \in Blocks : PoolOK(c)'
  <2>1. pool' = [pool EXCEPT ![b] = @ \cup {TopTok}] /\ pool \in [Blocks -> SUBSET Toks]
    BY DEF HandleTopToken, StoresTop, FlowInv, FlowTypeOK
  <2>2. TopTok \in Toks /\ \A p, m : <<"output", p, m>> # TopTok
    BY DEF Toks, TopTok
  <2>3. pool' \in [Blocks -> SUBSET Toks]
    BY <2>1, <2>2
  <2>4. \A c \in Blocks : pool'[c] \subseteq pool[c] \cup {TopTok}
    BY <2>1
  <2>5. QED
    BY <2>2, <2>3, <2>4 DEF FlowInv, PoolOK
<1>10. /\ starts_seen' \in [Blocks -> Nat]
       /\ \A c \in Blocks : starts_seen[c] > 0 => starts_seen'[c] > 0
  BY DEF HandleTopToken, FlowInv, FlowTypeOK
<1>11. FlowTypeOK'
  BY <1>4, <1>6, <1>9, <1>10, AckFields DEF FlowInv, FlowTypeOK, MailStep
<1>12. starts_seen'[b] > 0
  BY <1>2 DEF FlowInv, FlowTypeOK
<1>13. ASSUME NEW c \in Blocks PROVE RunsOK(c)'
  BY <1>6, <1>7, <1>8, <1>10, <1>12 DEF FlowInv, RunsOK, Answers, IsAt
<1>14. PcTo(b, PcAt)
  BY <1>6 DEF PcTo, ThreadInv, ThreadTypeOK
<1>15. FlowInv'
  BY 1 \in 0 .. 1, <1>4, <1>5, <1>6, <1>7, <1>9, <1>11, <1>13, <1>14, StepKeeps DEF Answers
<1>16. QED
  BY <1>2, <1>7, <1>8, <1>15

LEMMA TopActiveFlow ==
    ASSUME FlowInv, ThreadInv, NEW b \in Blocks, HandleTopActive(b)
    PROVE  /\ FlowInv' /\ top.step = 3 /\ b \in starting
           /\ Answers(b, "TopActive", Only(b, {Plain("SelfKick")}))
<1>1. Takes(b, "TopActive") /\ mailbox[b] # <<>> /\ MailTypeOK
  BY Taken DEF HandleTopActive, FlowInv, FlowTypeOK
<1>2. MailStep(b, 1, Only(b, {Plain("SelfKick")}))
  BY <1>1, ActiveStep DEF HandleTopActive
<1>3. \A c \in Blocks : \A m \in Only(b, {Plain("SelfKick")})[c] : ~m.reply /\ MessageOK(c, m)
  BY PlainIsQuiet DEF Only
<1>4. /\ UNCHANGED <<pc, checking, owes, starts, early, hurried, pool, starts_seen>> /\ Ack(b)
      /\ starting' = starting \ {b} /\ state' = [state EXCEPT ![b] = "LIVE"]
  BY DEF HandleTopActive
<1>5. Answers(b, "TopActive", Only(b, {Plain("SelfKick")})) /\ Now = "TopActive"
  BY <1>1, <1>2, <1>3, <1>4, AnswersReply
<1>6. top.step = 3 /\ b \in top.unanswered
  BY <1>5 DEF Now, Answers, IsAt, Asked, FlowInv, TopOK
<1>7. b \in starting /\ starts_seen[b] > 0
  BY <1>5, <1>6 DEF FlowInv, RunsOK, Answers
<1>8. state' \in [Blocks -> {"INIT", "LIVE", "DONE"}]
  BY <1>4 DEF FlowInv, FlowTypeOK
<1>9. FlowTypeOK'
  BY <1>2, <1>4, <1>8, AckFields DEF FlowInv, FlowTypeOK, MailStep
<1>10. \A c \in Blocks : state'[c] = IF c = b THEN "LIVE" ELSE state[c]
  BY <1>4 DEF FlowInv, FlowTypeOK
<1>11. ASSUME NEW c \in Blocks PROVE RunsOK(c)'
  BY <1>4, <1>5, <1>6, <1>7, <1>10 DEF FlowInv, RunsOK, Answers, IsAt
<1>12. ASSUME NEW c \in Blocks PROVE PoolOK(c)'
  BY <1>4 DEF FlowInv, PoolOK
<1>13. PcTo(b, PcAt)
  BY <1>4 DEF PcTo, ThreadInv, ThreadTypeOK
<1>14. FlowInv'
  BY 1 \in 0 .. 1, <1>2, <1>3, <1>4, <1>5, <1>9, <1>11, <1>12, <1>13, StepKeeps DEF Answers
<1>15. QED
  BY <1>5, <1>6, <1>7, <1>14

LEMMA TokenFlow ==
    ASSUME FlowInv, ThreadInv, NEW b \in Blocks, HandleToken(b)
    PROVE  /\ FlowInv' /\ MailStep(b, 1, Only(b, {})) /\ 1 \in 1 .. Len(mailbox[b])
           /\ mailbox[b][1].type \in {"InputToken", "OutputToken"}
           /\ pool' = [pool EXCEPT ![b] = @ \cup mailbox[b][1].tokens]
<1>1. PICK type \in {"InputToken", "OutputToken"} : Takes(b, type)
  BY DEF HandleToken
<1>2. /\ mailbox[b] # <<>> /\ 1 \in 1 .. Len(mailbox[b]) /\ mailbox[b][1].type = type
      /\ Got(b) = mailbox[b][1] /\ MessageOK(b, mailbox[b][1]) /\ mailbox[b][1] \in Msgs
  BY <1>1, Taken
<1>3. /\ mailbox' = Popped(b) /\ pool' = [pool EXCEPT ![b] = @ \cup mailbox[b][1].tokens]
      /\ UNCHANGED <<pc, checking, state, starts_seen, owes, top, starts, aux>>
  BY <1>2 DEF HandleToken
<1>4. MailStep(b, 1, Only(b, {}))
  BY <1>2, <1>3, PoppedStep DEF FlowInv, FlowTypeOK
<1>5. mailbox[b][1].tokens \subseteq Toks
  BY <1>2 DEF Msgs
<1>6. pool' \in [Blocks -> SUBSET Toks]
  BY <1>3, <1>5 DEF FlowInv, FlowTypeOK
<1>7. ASSUME NEW c \in Blocks PROVE PoolOK(c)'
  <2>1. pool'[c] \subseteq IF c = b THEN pool[b] \cup mailbox[b][1].tokens ELSE pool[c]
    BY <1>3 DEF FlowInv, FlowTypeOK
  <2>2. QED
    BY <1>2, <2>1 DEF FlowInv, PoolOK, MessageOK
<1>8. FlowQuiet(b, 1, Only(b, {}))
  BY <1>3, <1>4, <1>6, <1>7 DEF FlowQuiet, FlowInv, FlowTypeOK, RunsOK, Only, aux
<1>9. FlowInv'
  BY 1 \in 0 .. 1, <1>8, FlowQuietKeeps
<1>10. QED
  BY <1>2, <1>3, <1>4, <1>9

LEMMA InputCheckFlow ==
    ASSUME FlowInv, ThreadInv, ThreadInv', NEW b \in Blocks, HandleInputCheck(b)
    PROVE  /\ FlowInv' /\ MailStep(b, 1, Only(b, {})) /\ 1 \in 1 .. Len(mailbox[b])
           /\ mailbox[b][1].type = "InputCheck" /\ mailbox[b][1].wire \in Ins(b)
           /\ mailbox[b][1].tokens = {}
           /\ Got(b) = mailbox[b][1] /\ PcTo(b, {"check", "work", "call"}) /\ pc[b] = "idle"
<1>1. /\ mailbox[b] # <<>> /\ 1 \in 1 .. Len(mailbox[b]) /\ mailbox[b][1].type = "InputCheck"
      /\ Got(b) = mailbox[b][1] /\ MessageOK(b, mailbox[b][1]) /\ pc[b] = "idle"
  BY Taken DEF HandleInputCheck
<1>2. mailbox[b][1].wire \in Ins(b) /\ mailbox[b][1].tokens = {}
  BY <1>1 DEF MessageOK
<1>3. /\ mailbox' = Popped(b) /\ checking' = [checking EXCEPT ![b] = mailbox[b][1].wire]
      /\ UNCHANGED <<pool, state, starts_seen, owes, top, starts, aux>>
      /\ Task(b, mailbox', queue, "check")
  BY <1>1 DEF HandleInputCheck
<1>4. MailStep(b, 1, Only(b, {}))
  BY <1>1, <1>3, PoppedStep DEF FlowInv, FlowTypeOK
<1>5. PcTo(b, {"check", "work", "call"}) /\ (pc'[b] # "check" => state[b] = "LIVE")
  BY <1>3, TaskTo
<1>6. checking' \in [Blocks -> Wires \cup {<<>>}]
  BY <1>2, <1>3 DEF FlowInv, FlowTypeOK, Ins
<1>7. ASSUME NEW c \in Blocks PROVE PoolOK(c)'
  BY <1>3 DEF FlowInv, PoolOK
<1>8. pc' \in [Blocks -> PcAt]
  BY DEF ThreadInv, ThreadTypeOK
<1>9. \A c \in Blocks : /\ pc'[c] = "create" => pc[c] = "create"
                        /\ pc'[c] \in {"work", "call", "called"} => state[c] = "LIVE"
  BY <1>5 DEF PcTo, FlowInv, RunsOK
<1>10. FlowQuiet(b, 1, Only(b, {}))
  BY <1>3, <1>4, <1>6, <1>7, <1>8, <1>9 DEF FlowQuiet, FlowInv, FlowTypeOK, Only, aux
<1>11. FlowInv'
  BY 1 \in 0 .. 1, <1>10, FlowQuietKeeps
<1>12. QED
  BY <1>1, <1>2, <1>4, <1>5, <1>11

LEMMA OutputCheckFlow ==
    ASSUME FlowInv, ThreadInv, ThreadInv', NEW b \in Blocks, HandleOutputCheck(b)
    PROVE  /\ FlowInv' /\ MailStep(b, 1, Only(b, {})) /\ 1 \in 1 .. Len(mailbox[b])
           /\ mailbox[b][1].type = "OutputCheck" /\ mailbox[b][1].wire \in Outs(b)
           /\ mailbox[b][1].tokens = {}
           /\ Got(b) = mailbox[b][1] /\ PcTo(b, {"idle", "ends"}) /\ pc[b] = "idle"
           /\ AllOutputsDone(b) => pc'[b] = IF state[b] = "DONE" THEN "idle" ELSE "ends"
<1>1. /\ mailbox[b] # <<>> /\ 1 \in 1 .. Len(mailbox[b]) /\ mailbox[b][1].type = "OutputCheck"
      /\ Got(b) = mailbox[b][1] /\ MessageOK(b, mailbox[b][1]) /\ pc[b] = "idle"
  BY Taken DEF HandleOutputCheck
<1>2. mailbox[b][1].wire \in Outs(b) /\ mailbox[b][1].tokens = {}
  BY <1>1 DEF MessageOK
<1>3. /\ mailbox' = Popped(b)
      /\ UNCHANGED <<checking, pool, state, starts_seen, owes, top, starts, starting>>
      /\ IF AllOutputsDone(b) THEN MarkDone(b) ELSE pc' = pc
  BY <1>1 DEF HandleOutputCheck
<1>4. MailStep(b, 1, Only(b, {}))
  BY <1>1, <1>3, PoppedStep DEF FlowInv, FlowTypeOK
<1>5. /\ PcTo(b, {"idle", "ends"})
      /\ AllOutputsDone(b) => pc'[b] = IF state[b] = "DONE" THEN "idle" ELSE "ends"
  <2>1. CASE AllOutputsDone(b)
    BY <1>3, <2>1, MarkDoneTo DEF PcTo
  <2>2. CASE ~AllOutputsDone(b)
    BY <1>1, <1>3, <2>2 DEF PcTo
  <2>3. QED
    BY <2>1, <2>2
<1>6. ASSUME NEW c \in Blocks PROVE PoolOK(c)'
  BY <1>3 DEF FlowInv, PoolOK
<1>7. pc' \in [Blocks -> PcAt]
  BY DEF ThreadInv, ThreadTypeOK
<1>8. \A c \in Blocks : /\ pc'[c] = "create" => pc[c] = "create"
                        /\ pc'[c] \in {"work", "call", "called"} => state[c] = "LIVE"
  BY <1>5 DEF PcTo, FlowInv, RunsOK
<1>9. FlowQuiet(b, 1, Only(b, {}))
  BY <1>3, <1>4, <1>6, <1>7, <1>8 DEF FlowQuiet, FlowInv, FlowTypeOK, Only
<1>10. FlowInv'
  BY 1 \in 0 .. 1, <1>9, FlowQuietKeeps
<1>11. QED
  BY <1>1, <1>2, <1>4, <1>5, <1>10

LEMMA EndsFlow ==
    ASSUME FlowInv, ThreadInv, ThreadInv', NEW b \in Blocks, Ends(b)
    PROVE  /\ FlowInv' /\ MailStep(b, 0, Only(b, {})) /\ PcTo(b, {"tells"})
           /\ \A c \in Blocks : pool'[c] = IF c = b THEN {} ELSE pool[c]
           /\ \A c \in Blocks : state'[c] = IF c = b THEN "DONE" ELSE state[c]
<1>1. /\ pc[b] = "ends" /\ Goes(b, "tells") /\ pool' = [pool EXCEPT ![b] = {}]
      /\ state' = [state EXCEPT ![b] = "DONE"] /\ checking' = [checking EXCEPT ![b] = <<>>]
      /\ UNCHANGED <<mailbox, starts_seen, owes, top, starts, starting>>
  BY DEF Ends, ReleasesTokens
<1>2. MailStep(b, 0, Only(b, {}))
  BY <1>1, NoMail DEF FlowInv, FlowTypeOK
<1>3. PcTo(b, {"tells"})
  BY <1>1, GoesTo
<1>4. /\ pool' \in [Blocks -> SUBSET Toks]
      /\ \A c \in Blocks : pool'[c] = IF c = b THEN {} ELSE pool[c]
  BY <1>1 DEF FlowInv, FlowTypeOK
<1>5. /\ state' \in [Blocks -> {"INIT", "LIVE", "DONE"}]
      /\ \A c \in Blocks : state'[c] = IF c = b THEN "DONE" ELSE state[c]
  BY <1>1 DEF FlowInv, FlowTypeOK
<1>6. checking' \in [Blocks -> Wires \cup {<<>>}]
  BY <1>1 DEF FlowInv, FlowTypeOK
<1>7. pc' \in [Blocks -> PcAt]
  BY DEF ThreadInv, ThreadTypeOK
<1>8. ASSUME NEW c \in Blocks PROVE PoolOK(c)'
  BY <1>4 DEF FlowInv, PoolOK
<1>9. ASSUME NEW c \in Blocks
      PROVE  /\ pc'[c] = "create" => pc[c] = "create"
             /\ pc'[c] \in {"work", "call", "called"} => state'[c] = "LIVE"
             /\ state'[c] = "LIVE" => state[c] = "LIVE"
  BY <1>3, <1>5 DEF PcTo, FlowInv, RunsOK
<1>10. FlowQuiet(b, 0, Only(b, {}))
  BY <1>1, <1>2, <1>4, <1>5, <1>6, <1>7, <1>8, <1>9 DEF FlowQuiet, Only
<1>11. FlowInv'
  BY 0 \in 0 .. 1, <1>10, FlowQuietKeeps
<1>12. QED
  BY <1>2, <1>3, <1>4, <1>5, <1>11

LEMMA TellsFlow ==
    ASSUME FlowInv, ThreadInv, ThreadInv', NEW b \in Blocks, Tells(b)
    PROVE  /\ FlowInv' /\ MailStep(b, 0, ChecksTo(b)) /\ PcTo(b, {"idle"})
           /\ top' = top \/ (Ack(b) /\ Asked(b) /\ top.call = "stop")
<1>1. /\ pc[b] = "tells" /\ Goes(b, "idle")
      /\ UNCHANGED <<checking, state, pool, starts_seen, starts, starting, early, hurried>>
      /\ owes' = owes \ {b}
      /\ IF b \in owes THEN Ack(b) ELSE top' = top
  BY DEF Tells, block, aux
<1>2. MailStep(b, 0, ChecksTo(b))
  BY TellsStep DEF Tells, FlowInv, FlowTypeOK
<1>3. \A c \in Blocks : \A m \in ChecksTo(b)[c] : ~m.reply /\ MessageOK(c, m)
  BY PlainIsQuiet
<1>4. PcTo(b, {"idle"})
  BY <1>1, GoesTo
<1>5. /\ state' \in [Blocks -> {"INIT", "LIVE", "DONE"}] /\ pool' \in [Blocks -> SUBSET Toks]
      /\ checking' \in [Blocks -> Wires \cup {<<>>}] /\ pc' \in [Blocks -> PcAt]
  BY <1>1 DEF FlowInv, FlowTypeOK, ThreadInv, ThreadTypeOK
<1>6. ASSUME NEW c \in Blocks PROVE PoolOK(c)'
  BY <1>1 DEF FlowInv, PoolOK
<1>7. CASE b \notin owes
  <2>1. owes' = owes /\ top' = top
    BY <1>1, <1>7
  <2>2. FlowQuiet(b, 0, ChecksTo(b))
    BY <1>1, <1>2, <1>3, <1>4, <1>5, <1>6, <2>1 DEF FlowQuiet, PcTo, FlowInv, RunsOK
  <2>3. FlowInv'
    BY 0 \in 0 .. 1, <2>2, FlowQuietKeeps
  <2>4. QED
    BY <1>2, <1>4, <2>1, <2>3
<1>8. CASE b \in owes
  <2>1. /\ Ack(b) /\ Asked(b) /\ top.call = "stop"
        /\ \A k \in 1 .. Len(mailbox[b]) : ~mailbox[b][k].reply
    BY <1>1, <1>8 DEF FlowInv, ReplyOK
  <2>2. Moves(mailbox[b], mailbox'[b], 0, ChecksTo(b)[b])
    BY <1>2 DEF MailStep
  <2>3. \A k \in 1 .. Len(mailbox'[b]) : ~mailbox'[b][k].reply
    BY <1>3, <2>1, <2>2 DEF Moves
  <2>4. NoReply(b)'
    BY <1>1, <1>4, <2>3 DEF NoReply, PcTo
  <2>5. /\ FlowTypeOK' /\ top'.call = "stop"
    BY <1>1, <1>2, <1>5, <2>1, AckFields DEF FlowInv, FlowTypeOK, MailStep
  <2>6. ASSUME NEW c \in Blocks PROVE RunsOK(c)'
    BY <1>1, <1>4, <2>1, <2>5 DEF FlowInv, RunsOK, IsAt, PcTo
  <2>7. PcTo(b, PcAt)
    BY <1>4 DEF PcTo, PcAt
  <2>8. FlowInv'
    BY 0 \in 0 .. 1, <1>1, <1>2, <1>3, <1>6, <2>1, <2>4, <2>5, <2>6, <2>7, StepKeeps
  <2>9. QED
    BY <1>2, <1>4, <2>1, <2>8
<1>9. QED
  BY <1>7, <1>8

---------------------------------------------------------------------------
(* The user's thread.                                                      *)

TopType == [call : UserCalls, step : 0 .. 3, unsent : SUBSET Blocks, unanswered : SUBSET Blocks]

\* nobody has a message to answer
LEMMA UserKeeps ==
    ASSUME FlowInv, top.unanswered = {}, top' \in TopType, TopOK', starts' \in Nat,
           UNCHANGED <<mailbox, pc, checking, state, pool, starts_seen, owes, starting>>,
           \A c \in Blocks : RunsOK(c)'
    PROVE  FlowInv'
<1>1. ASSUME NEW c \in Blocks PROVE ReplyOK(c)'
  BY DEF FlowInv, ReplyOK, Asked
<1>2. FlowTypeOK'
  BY DEF FlowInv, FlowTypeOK, MailTypeOK, TopType
<1>3. (\A c \in Blocks : PoolOK(c))'
  BY DEF FlowInv, PoolOK
<1>4. (\A c \in Blocks : \A k \in 1 .. Len(mailbox[c]) : MessageOK(c, mailbox[c][k]))'
  BY DEF FlowInv, MessageOK
<1>5. QED
  BY <1>1, <1>2, <1>3, <1>4 DEF FlowInv

\* everything but top is left alone
UserStep ==
    UNCHANGED <<mailbox, pc, checking, state, pool, starts_seen, inputs_done, outputs_done, owes,
                starting>>

Broadcasting(call, step) ==
    [call |-> call, step |-> step, unsent |-> Blocks, unanswered |-> Blocks]

LEMMA TopTypes ==
    /\ \A call \in UserCalls, step \in 0 .. 3 : Broadcasting(call, step) \in TopType
    /\ \A call \in UserCalls : Returns(call) \in TopType
    /\ {"start", "started", "stop", "stopped", "wait", "ended"} \subseteq UserCalls
BY DEF Broadcasting, Returns, TopType, UserCalls

LEMMA CallFlow ==
    ASSUME FlowInv, Start \/ Stop \/ Wait \/ WaitReturns
    PROVE  FlowInv' /\ UserStep
<1>1. /\ UserStep /\ UNCHANGED aux
      /\ top.call \in {"new", "started", "stopped", "wait", "ended"}
      /\ \/ top' = Broadcasting("start", 1) /\ starts' = starts + 1
         \/ top' = Broadcasting("stop", 1) /\ starts' = starts /\ top.call = "started"
         \/ top' = Returns("wait") /\ starts' = starts /\ ~IsAt("new")
         \/ top' = Returns("ended") /\ starts' = starts /\ ~IsAt("new")
  BY DEF Start, Stop, Wait, WaitReturns, UserStep, block, aux, IsAt, Calling, Broadcasting
<1>2. top.unanswered = {} /\ ~IsAt("start")
  BY <1>1 DEF FlowInv, TopOK, Sending, IsAt
<1>3. \A c \in Blocks : c \notin starting
  BY <1>2 DEF FlowInv, RunsOK
<1>4. starts' \in Nat /\ starting' = starting
  BY <1>1 DEF FlowInv, FlowTypeOK, UserStep
<1>5. top' \in TopType
  BY <1>1, TopTypes
<1>6. TopOK'
  BY <1>1 DEF TopOK, Sending, Broadcasting, Returns
<1>7. ASSUME NEW c \in Blocks PROVE RunsOK(c)'
  <2>1. top'.call # "new" /\ (top'.call = "start" => top'.step = 1)
    BY <1>1 DEF Broadcasting, Returns
  <2>2. QED
    BY <1>1, <1>3, <2>1 DEF FlowInv, RunsOK, IsAt, UserStep
<1>8. FlowInv'
  BY <1>1, <1>2, <1>4, <1>5, <1>6, <1>7, UserKeeps DEF UserStep
<1>9. QED
  BY <1>1, <1>8

LEMMA Lengths ==
    /\ Len(Broadcasts("start")) = 3 /\ Len(Broadcasts("stop")) = 1
    /\ Broadcasts("start")[1] = "TopThread" /\ Broadcasts("start")[2] = "TopToken"
    /\ Broadcasts("start")[3] = "TopActive" /\ Broadcasts("stop")[1] = "TopInert"
BY DEF Broadcasts, StartSeq

LEMMA AnsweredFlow ==
    ASSUME FlowInv, Answered
    PROVE  /\ FlowInv' /\ UserStep /\ starts' = starts /\ top.unanswered = {}
           /\ early' = ThisStart(early) /\ hurried' = ThisStart(hurried)
           /\ \/ IsAt("start") /\ top.step = 1 /\ top' = Broadcasting("start", 2)
              \/ IsAt("start") /\ top.step = 2 /\ top' = Broadcasting("start", 3)
              \/ IsAt("start") /\ top.step = 3 /\ top' = Returns("started")
              \/ IsAt("stop") /\ top' = Returns("stopped")
<1>1. /\ UserStep /\ starts' = starts /\ top.unanswered = {} /\ starting' = starting
      /\ early' = ThisStart(early) /\ hurried' = ThisStart(hurried)
      /\ top.call \in {"start", "stop"}
  BY DEF Answered, UserStep, block
<1>2. top' = IF top.step < Len(Broadcasts(top.call))
             THEN [Calling(top.call) EXCEPT !.step = top.step + 1]
             ELSE Returns(IF top.call = "start" THEN "started" ELSE "stopped")
  BY DEF Answered
<1>3. \/ IsAt("start") /\ top.step = 1 /\ top' = Broadcasting("start", 2)
      \/ IsAt("start") /\ top.step = 2 /\ top' = Broadcasting("start", 3)
      \/ IsAt("start") /\ top.step = 3 /\ top' = Returns("started")
      \/ IsAt("stop") /\ top' = Returns("stopped")
  <2>1. CASE top.call = "stop"
    <3>1. top.step = 1 /\ ~(top.step < 1)
      BY <2>1 DEF FlowInv, TopOK
    <3>2. QED
      BY <1>2, <2>1, <3>1, Lengths DEF IsAt
  <2>2. CASE top.call = "start"
    <3>1. top.step \in 1 .. 3
      BY <2>2 DEF FlowInv, TopOK
    <3>2. top' = IF top.step < 3 THEN [Calling("start") EXCEPT !.step = top.step + 1]
                 ELSE Returns("started")
      BY <1>2, <2>2, Lengths
    <3>3. \A n \in 1 .. 2 : [Calling("start") EXCEPT !.step = n + 1] = Broadcasting("start", n + 1)
      BY DEF Calling, Broadcasting
    <3>4. CASE top.step = 1
      BY <2>2, <3>2, <3>3, <3>4 DEF IsAt
    <3>5. CASE top.step = 2
      BY <2>2, <3>2, <3>3, <3>5 DEF IsAt
    <3>6. CASE top.step = 3
      BY <2>2, <3>2, <3>6 DEF IsAt
    <3>7. QED
      BY <3>1, <3>4, <3>5, <3>6
  <2>3. QED
    BY <1>1, <2>1, <2>2
<1>4. top' \in TopType
  BY <1>3, TopTypes
<1>5. TopOK'
  BY <1>3 DEF TopOK, Sending, Broadcasting, Returns
<1>6. ASSUME NEW c \in Blocks PROVE RunsOK(c)'
  <2>0. /\ pc'[c] = pc[c] /\ state'[c] = state[c] /\ starts_seen'[c] = starts_seen[c]
        /\ RunsOK(c)
    BY <1>1 DEF UserStep, FlowInv
  <2>1. CASE IsAt("start") /\ top.step = 1 /\ top' = Broadcasting("start", 2)
    <3>1. c \notin starting /\ top'.call = "start" /\ top'.step = 2 /\ c \in top'.unanswered
      BY <2>0, <2>1 DEF RunsOK, Broadcasting
    <3>2. QED
      BY <1>1, <2>0, <3>1 DEF RunsOK, IsAt
  <2>2. CASE IsAt("start") /\ top.step = 2 /\ top' = Broadcasting("start", 3)
    <3>1. c \in starting /\ top'.call = "start" /\ top'.step = 3 /\ c \in top'.unanswered
      BY <1>1, <2>0, <2>2 DEF RunsOK, Broadcasting
    <3>2. QED
      BY <1>1, <2>0, <3>1 DEF RunsOK, IsAt
  <2>3. CASE top' = Returns("started") \/ top' = Returns("stopped")
    <3>1. c \notin starting /\ top'.call \in {"started", "stopped"}
      BY <1>1, <1>3, <2>0, <2>3 DEF RunsOK, Returns, Broadcasting, IsAt
    <3>2. QED
      BY <1>1, <2>0, <3>1 DEF RunsOK, IsAt
  <2>4. QED
    BY <1>3, <2>1, <2>2, <2>3
<1>7. starts' \in Nat
  BY <1>1 DEF FlowInv, FlowTypeOK
<1>8. FlowInv'
  BY <1>1, <1>4, <1>5, <1>6, <1>7, UserKeeps DEF UserStep
<1>9. QED
  BY <1>1, <1>3, <1>8

\* the message that is sent to b
TopMessage == Broadcast(Now, IF Now = "TopToken" THEN {TopTok} ELSE {})

LEMMA SendTopFlow ==
    ASSUME FlowInv, NEW b \in Blocks, SendTop(b)
    PROVE  /\ FlowInv' /\ MailStep(b, 0, Only(b, {TopMessage}))
           /\ top'.call = top.call /\ top'.step = top.step /\ top'.unanswered = top.unanswered
           /\ TopMessage.type = Now /\ Now \in {"TopThread", "TopToken", "TopActive", "TopInert"}
           /\ Now = "TopToken" => IsAt("start") /\ top.step = 2
           /\ \A k \in 1 .. Len(mailbox[b]) : mailbox[b][k].type # "TopToken"
<1>1. /\ b \in top.unsent /\ top' = [top EXCEPT !.unsent = @ \ {b}]
      /\ UNCHANGED <<pc, checking, state, pool, starts_seen, owes, starts, starting>>
  BY DEF SendTop, block, aux
<1>2. Sending /\ b \in top.unanswered /\ ~Asked(b)
  BY <1>1 DEF FlowInv, TopOK, Asked
<1>3. Broadcasts(top.call)[top.step] = Now
  <2>1. CASE top.call = "stop"
    BY <2>1, Lengths DEF FlowInv, TopOK, Now
  <2>2. CASE top.call = "start"
    BY <2>2, Lengths DEF FlowInv, TopOK, Now
  <2>3. QED
    BY <1>2, <2>1, <2>2 DEF Sending
<1>4. mailbox' = Append1(mailbox, b, TopMessage)
  BY <1>3 DEF SendTop, TopMessage
<1>5. /\ Now \in {"TopThread", "TopToken", "TopActive", "TopInert"}
      /\ Now = "TopToken" => IsAt("start") /\ top.step = 2
  BY <1>2 DEF Now, Sending, IsAt
<1>6. TopMessage \in Msgs
  BY <1>5, Messages DEF TopMessage, Types
<1>7. TopMessage.type = Now /\ TopMessage.reply /\ MessageOK(b, TopMessage)
  BY <1>5 DEF TopMessage, Broadcast, Message, MessageOK, TopTok
<1>8. MailStep(b, 0, Only(b, {TopMessage}))
  BY <1>4, <1>6, SendStep DEF FlowInv, FlowTypeOK
<1>9. (\A c \in Blocks : \A k \in 1 .. Len(mailbox[c]) : MessageOK(c, mailbox[c][k]))'
  BY 0 \in 0 .. 1, <1>7, <1>8, MessagesKept DEF Only
<1>10. /\ top' \in TopType /\ top'.call = top.call /\ top'.step = top.step
       /\ top'.unanswered = top.unanswered /\ top'.unsent = top.unsent \ {b}
  BY <1>1 DEF FlowInv, FlowTypeOK, TopType
<1>11. FlowTypeOK'
  BY <1>1, <1>8, <1>10 DEF FlowInv, FlowTypeOK, MailStep, TopType
<1>12. TopOK'
  BY <1>10 DEF FlowInv, TopOK, Sending
<1>13. ASSUME NEW c \in Blocks PROVE RunsOK(c)' /\ PoolOK(c)'
  BY <1>1, <1>10 DEF FlowInv, RunsOK, PoolOK, IsAt
<1>14. ASSUME NEW c \in Blocks, c # b PROVE ReplyOK(c)'
  <2>1. PICK N : Moves(mailbox[c], mailbox'[c], 0, N) /\ \A m \in N : ~m.reply
    BY <1>8, <1>14 DEF MailStep, Only
  <2>2. SameAsk(c)
    BY <1>1, <1>10, <1>14 DEF SameAsk
  <2>3. QED
    BY 0 \in 0 .. 1, <2>1, <2>2, RepliesKept
<1>15. /\ \A k \in 1 .. Len(mailbox[b]) : ~mailbox[b][k].reply
       /\ b \notin owes /\ pc[b] # "create"
  BY <1>2 DEF FlowInv, ReplyOK
<1>16. ReplyOK(b)'
  <2>1. Asked(b)' /\ Now' = Now
    BY <1>2, <1>10 DEF Asked, Sending, Now
  <2>2. mailbox'[b] = Append(mailbox[b], TopMessage) /\ mailbox[b] \in Seq(Msgs)
    BY <1>4 DEF Append1, FlowInv, FlowTypeOK, MailTypeOK
  <2>3. /\ Len(mailbox'[b]) = Len(mailbox[b]) + 1 /\ Len(mailbox[b]) \in Nat
        /\ \A i \in 1 .. Len(mailbox[b]) : mailbox'[b][i] = mailbox[b][i]
        /\ mailbox'[b][Len(mailbox[b]) + 1] = TopMessage
    BY <1>6, <2>2, AppendProperties, LenProperties
  <2>4. \A k \in 1 .. Len(mailbox'[b]) : mailbox'[b][k].reply =>
             k = Len(mailbox[b]) + 1 /\ mailbox'[b][k].type = Now
    BY <1>7, <1>15, <2>3
  <2>5. QED
    BY <1>1, <1>15, <2>1, <2>4 DEF ReplyOK
<1>17. \A k \in 1 .. Len(mailbox[b]) : mailbox[b][k].type # "TopToken"
  BY <1>15 DEF FlowInv, MessageOK
<1>18. QED
  BY <1>5, <1>7, <1>8, <1>9, <1>10, <1>11, <1>12, <1>13, <1>14, <1>16, <1>17 DEF FlowInv

---------------------------------------------------------------------------
Still == UNCHANGED <<mailbox, pc, checking, state, pool, starts_seen, inputs_done, outputs_done,
                     owes, top, starts, aux>>

LEMMA StillKeeps == ASSUME FlowInv, ThreadInv', Still PROVE FlowInv'
<1>1. CASE Blocks = {}
  <2>1. FlowTypeOK' /\ TopOK'
    BY DEF FlowInv, Still, FlowTypeOK, MailTypeOK, TopOK, Sending
  <2>2. QED
    BY <1>1, <2>1 DEF FlowInv
<1>2. CASE Blocks # {}
  <2>1. PICK b \in Blocks : TRUE
    BY <1>2
  <2>2. QED
    BY <2>1, StillPlain DEF Still
<1>3. QED
  BY <1>1, <1>2

\* the steps that the rest of the proofs tells apart
BlockStep(b) ==
    \/ IsPlain(b) \/ HandleTopToken(b) \/ HandleTopActive(b) \/ HandleToken(b)
    \/ HandleInputCheck(b) \/ HandleOutputCheck(b) \/ Ends(b) \/ Tells(b) \/ SendTop(b)
CallStep == Start \/ Stop \/ Wait \/ WaitReturns

LEMMA StepKinds ==
    ASSUME FlowInv, ThreadInv, ThreadInv', [Next]_vars
    PROVE  FlowInv' /\ (Still \/ (\E b \in Blocks : BlockStep(b)) \/ CallStep \/ Answered)
<1> DEFINE Goal == FlowInv' /\ (Still \/ (\E b \in Blocks : BlockStep(b)) \/ CallStep \/ Answered)
<1> SUFFICES Goal
  OBVIOUS
<1>s. Still => Goal
  BY StillKeeps
<1>b. ASSUME NEW b \in Blocks, FlowInv' /\ BlockStep(b) PROVE Goal
  BY <1>b
<1>1. ASSUME NEW b \in Blocks, Handler(b) PROVE Goal
  <2>1. CASE HandleTopThread(b)
    BY <2>1, <1>b, TopThreadPlain DEF BlockStep
  <2>2. CASE HandleTopToken(b)
    BY <2>2, <1>b, TopTokenFlow DEF BlockStep
  <2>3. CASE HandleTopActive(b)
    BY <2>3, <1>b, TopActiveFlow DEF BlockStep
  <2>4. CASE HandleTopInert(b)
    BY <2>4, <1>b, TopInertPlain DEF BlockStep
  <2>5. CASE HandleToken(b)
    BY <2>5, <1>b, TokenFlow DEF BlockStep
  <2>6. CASE HandleInputBuffer(b) \/ HandleSelfKick(b)
    BY <2>6, <1>b, BufferPlain DEF BlockStep
  <2>7. CASE HandleInputCheck(b)
    BY <2>7, <1>b, InputCheckFlow DEF BlockStep
  <2>8. CASE HandleOutputCheck(b)
    BY <2>8, <1>b, OutputCheckFlow DEF BlockStep
  <2>9. CASE Work(b)
    BY <2>9, <1>b, WorkPlain DEF BlockStep
  <2>10. CASE CheckInput(b)
    BY <2>10, <1>b, CheckPlain DEF BlockStep
  <2>11. CASE Ends(b)
    BY <2>11, <1>b, EndsFlow DEF BlockStep
  <2>12. CASE Tells(b)
    BY <2>12, <1>b, TellsFlow DEF BlockStep
  <2>13. QED
    BY <1>1, <2>1, <2>2, <2>3, <2>4, <2>5, <2>6, <2>7, <2>8, <2>9, <2>10, <2>11, <2>12 DEF Handler
<1>2. ASSUME NEW b \in Blocks, WaitPolls(b) PROVE Goal
  BY <1>2, <1>b, PollPlain DEF BlockStep
<1>3. ASSUME NEW b \in Threaded, ThreadedStep(b) PROVE Goal
  <2>0. b \in Blocks
    BY FlowgraphAssumption
  <2>1. CASE CreatesThread(b)
    BY <2>0, <2>1, <1>b, CreatesPlain DEF BlockStep
  <2>2. CASE Calls(b)
    BY <2>0, <2>2, <1>b, CallsPlain DEF BlockStep
  <2>3. CASE CallReturns(b)
    BY <2>0, <2>3, <1>b, WorkPlain DEF BlockStep
  <2>4. CASE ErasesThread(b) \/ ThreadHandshake(b)
    <3>1. Still
      BY <2>4 DEF ErasesThread, ThreadHandshake, Still, block
    <3>2. QED
      BY <3>1, <1>s
  <2>5. QED
    BY <1>3, <2>1, <2>2, <2>3, <2>4 DEF ThreadedStep
<1>4. ASSUME NEW b \in Threaded, ThreadWorks(b) \/ ThreadThrows(b) \/ ThreadEnds(b) PROVE Goal
  <2>1. Still
    BY <1>4 DEF ThreadWorks, ThreadThrows, ThreadEnds, Still, block
  <2>2. QED
    BY <2>1, <1>s
<1>5. CASE User \/ WaitReturns
  <2>1. CallStep
    BY <1>5 DEF User, CallStep
  <2>2. QED
    BY <2>1, CallFlow DEF CallStep
<1>6. CASE BcastPrioMsg
  <2>1. CASE Answered
    BY <2>1, AnsweredFlow
  <2>2. ASSUME NEW b \in Blocks, SendTop(b) PROVE Goal
    BY <2>2, <1>b, SendTopFlow DEF BlockStep
  <2>3. QED
    BY <1>6, <2>1, <2>2 DEF BcastPrioMsg
<1>7. CASE UNCHANGED vars
  <2>1. Still
    BY <1>7 DEF vars, block, Still
  <2>2. QED
    BY <2>1, <1>s
<1> HIDE DEF Goal
<1>8. QED
  BY <1>1, <1>2, <1>3, <1>4, <1>5, <1>6, <1>7 DEF Next

LEMMA InitFlow == Init => FlowInv
<1> SUFFICES ASSUME Init PROVE FlowInv
  OBVIOUS
<1>1. \A b \in Blocks : /\ mailbox[b] = <<>> /\ pc[b] = "idle" /\ state[b] = "INIT"
                        /\ pool[b] = {} /\ starts_seen[b] = 0 /\ b \notin owes /\ b \notin starting
  BY DEF Init
<1>2. /\ top.call = "new" /\ top.unsent = {} /\ top.unanswered = {} /\ top \in TopType
  BY TopTypes DEF Init, Returns, UserCalls
<1>3. mailbox \in [Blocks -> Seq(Msgs)]
  BY EmptySeq DEF Init
<1>4. FlowTypeOK
  BY <1>2, <1>3 DEF Init, FlowTypeOK, MailTypeOK, PcAt, TopType
<1>5. TopOK
  BY <1>2 DEF TopOK, Sending
<1>6. ASSUME NEW b \in Blocks
      PROVE  /\ ReplyOK(b) /\ RunsOK(b) /\ PoolOK(b)
             /\ \A k \in 1 .. Len(mailbox[b]) : MessageOK(b, mailbox[b][k])
  BY <1>1, <1>2 DEF ReplyOK, RunsOK, PoolOK, IsAt
<1>7. QED
  BY <1>4, <1>5, <1>6 DEF FlowInv

---------------------------------------------------------------------------
(* A block that does not hold the token of the TopBlock is done, or has    *)
(* given it back before it was activated.                                  *)

\* b has its token of the start that is, or was, under way
Renewed(b) ==
    \/ IsAt("start") /\ (top.step = 3 \/ (top.step = 2 /\ b \notin top.unanswered))
    \/ top.call \in {"started", "stop", "stopped", "wait", "ended"}

HoldsTop(b) ==
    /\ Renewed(b) => \/ TopTok \in pool[b] \/ <<b, starts>> \in early
                     \/ (state[b] = "DONE" /\ b \notin starting)
    /\ IsAt("ended") => state[b] = "DONE" \/ <<b, starts>> \in early

TopInv == \A b \in Blocks : HoldsTop(b)

\* the call of the user goes on, for b
SameCall(b) ==
    /\ top'.call = top.call /\ top'.step = top.step /\ starts' = starts
    /\ top.step = 2 /\ IsAt("start") => (b \in top.unanswered <=> b \in top'.unanswered)

LEMMA HoldsTopStays ==
    ASSUME NEW b \in Blocks, HoldsTop(b), SameCall(b), TopTok \in pool[b] => TopTok \in pool'[b],
           early \subseteq early',
           state[b] = "DONE" => state'[b] = "DONE", b \in starting' => b \in starting
    PROVE  HoldsTop(b)'
<1>1. (Renewed(b)' <=> Renewed(b)) /\ (IsAt("ended")' <=> IsAt("ended"))
  BY DEF SameCall, Renewed, IsAt
<1>2. QED
  BY <1>1 DEF HoldsTop, SameCall

LEMMA PlainSame ==
    ASSUME FlowInv, NEW b \in Blocks, IsPlain(b), NEW c \in Blocks
    PROVE  /\ SameCall(c)
           /\ UNCHANGED <<state, pool, starts_seen, inputs_done, outputs_done, starts, aux>>
<1>1. PICK d \in 0 .. 1 : \E M : PlainStep(b, d, M)
  BY DEF IsPlain
<1>2. /\ UNCHANGED <<state, pool, starts_seen, inputs_done, outputs_done, starts, aux>>
      /\ \/ top' = top
         \/ Ack(b) /\ ~(IsAt("start") /\ top.step \in {2, 3})
  BY <1>1 DEF PlainStep
<1>3. SameCall(c)
  BY <1>2, AckFields DEF SameCall, FlowInv
<1>4. QED
  BY <1>2, <1>3

LEMMA TopInvStep ==
    ASSUME TopInv, FlowInv, ThreadInv, ThreadInv', NEW c \in Blocks, BlockStep(c), NEW b \in Blocks
    PROVE  HoldsTop(b)'
<1>0. HoldsTop(b)
  BY DEF TopInv
<1>1. CASE IsPlain(c)
  <2>1. SameCall(b) /\ UNCHANGED <<state, pool, aux>>
    BY <1>1, PlainSame
  <2>2. QED
    BY <1>0, <2>1, HoldsTopStays DEF aux
<1>2. CASE HandleTopToken(c)
  <2>1. /\ Answers(c, "TopToken", TokensTo(c, starts_seen'[c])) /\ top.step = 2
        /\ pool' = [pool EXCEPT ![c] = @ \cup {TopTok}] /\ UNCHANGED <<state, early>>
        /\ starting' = starting \cup {c}
    BY <1>2, TopTokenFlow DEF HandleTopToken, StoresTop
  <2>2. CASE b = c
    BY <2>1, <2>2 DEF HoldsTop, Answers, IsAt, FlowInv, FlowTypeOK
  <2>3. CASE b # c
    <3>1. SameCall(b)
      BY <2>1, <2>3 DEF SameCall, Answers
    <3>2. pool'[b] = pool[b]
      BY <2>1, <2>3 DEF FlowInv, FlowTypeOK
    <3>3. QED
      BY <1>0, <2>1, <2>3, <3>1, <3>2, HoldsTopStays
  <2>4. QED
    BY <2>2, <2>3
<1>3. CASE HandleTopActive(c)
  <2>1. /\ Answers(c, "TopActive", Only(c, {Plain("SelfKick")})) /\ top.step = 3 /\ c \in starting
        /\ UNCHANGED <<pool, early>> /\ starting' = starting \ {c}
        /\ state' = [state EXCEPT ![c] = "LIVE"]
    BY <1>3, TopActiveFlow DEF HandleTopActive
  <2>2. CASE b = c
    <3>1. TopTok \in pool[b] \/ <<b, starts>> \in early
      BY <1>0, <2>1, <2>2 DEF HoldsTop, Renewed, Answers
    <3>2. starts' = starts /\ top'.call = "start"
      BY <2>1 DEF Answers, IsAt
    <3>3. QED
      BY <2>1, <3>1, <3>2 DEF HoldsTop, IsAt
  <2>3. CASE b # c
    <3>1. SameCall(b)
      BY <2>1, <2>3 DEF SameCall, Answers
    <3>2. state'[b] = state[b]
      BY <2>1, <2>3 DEF FlowInv, FlowTypeOK
    <3>3. QED
      BY <1>0, <2>1, <3>1, <3>2, HoldsTopStays
  <2>4. QED
    BY <2>2, <2>3
<1>4. CASE HandleToken(c)
  <2>1. /\ UNCHANGED <<state, top, starts, starting, early>>
        /\ pool' = [pool EXCEPT ![c] = @ \cup mailbox[c][1].tokens]
    BY <1>4, TokenFlow DEF HandleToken, aux
  <2>2. pool[b] \subseteq pool'[b]
    BY <2>1 DEF FlowInv, FlowTypeOK
  <2>3. QED
    BY <1>0, <2>1, <2>2, HoldsTopStays DEF SameCall
<1>5. CASE HandleInputCheck(c)
  <2>1. UNCHANGED <<state, pool, top, starts, starting, early>>
    BY <1>5 DEF HandleInputCheck, aux
  <2>2. QED
    BY <1>0, <2>1, HoldsTopStays DEF SameCall
<1>6. CASE HandleOutputCheck(c)
  <2>1. UNCHANGED <<state, pool, top, starts, starting>> /\ early \subseteq early'
    BY <1>6 DEF HandleOutputCheck, Early
  <2>2. QED
    BY <1>0, <2>1, HoldsTopStays DEF SameCall
<1>7. CASE Ends(c)
  <2>1. /\ UNCHANGED <<top, starts, starting>> /\ early' = Early(c)
        /\ pool'[b] = (IF b = c THEN {} ELSE pool[b])
        /\ state'[b] = (IF b = c THEN "DONE" ELSE state[b])
    BY <1>7, EndsFlow DEF Ends
  <2>2. CASE b = c
    BY <2>1, <2>2 DEF HoldsTop, Early
  <2>3. CASE b # c
    <3>1. early \subseteq early'
      BY <2>1 DEF Early
    <3>2. QED
      BY <1>0, <2>1, <2>3, <3>1, HoldsTopStays DEF SameCall
  <2>4. QED
    BY <2>2, <2>3
<1>8. CASE Tells(c)
  <2>1. UNCHANGED <<state, pool, starts, starting, early>>
    BY <1>8 DEF Tells, block, aux
  <2>2. SameCall(b)
    BY <1>8, <2>1, TellsFlow, AckFields DEF SameCall, IsAt, FlowInv
  <2>3. QED
    BY <1>0, <2>1, <2>2, HoldsTopStays
<1>9. CASE SendTop(c)
  <2>1. UNCHANGED <<state, pool, starts, starting, early>>
    BY <1>9 DEF SendTop, block, aux
  <2>2. SameCall(b)
    BY <1>9, <2>1, SendTopFlow DEF SameCall
  <2>3. QED
    BY <1>0, <2>1, <2>2, HoldsTopStays
<1>10. QED
  BY <1>1, <1>2, <1>3, <1>4, <1>5, <1>6, <1>7, <1>8, <1>9 DEF BlockStep

LEMMA TopInvCall ==
    ASSUME TopInv, FlowInv, CallStep, NEW b \in Blocks
    PROVE  HoldsTop(b)'
<1>0. HoldsTop(b)
  BY DEF TopInv
<1>1. CASE Start
  <2>1. top'.call = "start" /\ top'.step = 1
    BY <1>1 DEF Start, Calling
  <2>2. QED
    BY <2>1 DEF HoldsTop, Renewed, IsAt
<1>2. CASE Stop \/ Wait
  <2>1. /\ UNCHANGED <<state, pool, starts, early, starting>>
        /\ top.call \in {"started", "stopped"} /\ top'.call \in {"stop", "wait"}
    BY <1>2 DEF Stop, Wait, Calling, Returns, IsAt, block, aux
  <2>2. QED
    BY <1>0, <2>1 DEF HoldsTop, Renewed, IsAt
<1>3. CASE WaitReturns
  <2>1. /\ UNCHANGED <<state, pool, starts, early, starting>>
        /\ top.call = "wait" /\ TopTok \notin pool[b]
    BY <1>3 DEF WaitReturns, Unique, IsAt, block, aux
  <2>2. QED
    BY <1>0, <2>1 DEF HoldsTop, Renewed, IsAt
<1>4. QED
  BY <1>1, <1>2, <1>3 DEF CallStep

\* what happened in this start is remembered
LEMMA ThisStartKeeps ==
    ASSUME NEW set, NEW b
    PROVE  <<b, starts>> \in ThisStart(set) <=> <<b, starts>> \in set
BY DEF ThisStart

LEMMA TopInvAnswered ==
    ASSUME TopInv, FlowInv, Answered, NEW b \in Blocks
    PROVE  HoldsTop(b)'
<1>0. HoldsTop(b)
  BY DEF TopInv
<1>1. /\ UserStep /\ starts' = starts /\ top.unanswered = {} /\ early' = ThisStart(early)
      /\ \/ IsAt("start") /\ top.step = 1 /\ top' = Broadcasting("start", 2)
         \/ IsAt("start") /\ top.step = 2 /\ top' = Broadcasting("start", 3)
         \/ IsAt("start") /\ top.step = 3 /\ top' = Returns("started")
         \/ IsAt("stop") /\ top' = Returns("stopped")
  BY AnsweredFlow
<1>2. <<b, starts>> \in early => <<b, starts'>> \in early'
  BY <1>1, ThisStartKeeps
<1>3. Renewed(b)' => Renewed(b)
  BY <1>1 DEF Renewed, IsAt, Broadcasting, Returns
<1>4. ~IsAt("ended")'
  BY <1>1 DEF IsAt, Broadcasting, Returns
<1>5. QED
  BY <1>0, <1>1, <1>2, <1>3, <1>4 DEF HoldsTop, UserStep

LEMMA TopInvNext ==
    ASSUME TopInv, FlowInv, ThreadInv, ThreadInv', [Next]_vars
    PROVE  TopInv'
<1>1. ASSUME NEW b \in Blocks PROVE HoldsTop(b)'
  <2>1. CASE Still
    <3>1. HoldsTop(b)
      BY DEF TopInv
    <3>2. QED
      BY <2>1, <3>1, HoldsTopStays DEF Still, SameCall, aux
  <2>2. QED
    BY <2>1, StepKinds, TopInvStep, TopInvCall, TopInvAnswered
<1>2. QED
  BY <1>1 DEF TopInv

LEMMA TopInvInit == Init => TopInv
BY DEF Init, TopInv, HoldsTop, Renewed, IsAt, Returns

LEMMA FlowNext == FlowInv /\ ThreadInv /\ ThreadInv' /\ [Next]_vars => FlowInv'
BY StepKinds

LEMMA FlowAlways == Spec => [](FlowInv /\ ThreadInv)
BY InitThreads, NextKeeps, InitFlow, FlowNext, PTL DEF Spec

(* Of the blocks, only those that ended between their token and their      *)
(* activation may run when wait() has returned: every other one is done,   *)
(* in every flow graph, after any number of starts and stops.              *)
THEOREM WaitEndsEveryBlock == Spec => []WaitEndsAll
<1>1. TopInv => WaitEndsAll
  BY DEF TopInv, HoldsTop, WaitEndsAll
<1>2. TopInv /\ FlowInv /\ ThreadInv /\ ThreadInv' /\ [Next]_vars => TopInv'
  BY TopInvNext
<1>3. Spec => []TopInv
  BY <1>2, TopInvInit, FlowAlways, InitThreads, NextKeeps, PTL DEF Spec
<1>4. QED
  BY <1>1, <1>3, PTL

---------------------------------------------------------------------------
(* A block hears that its consumers are gone.                              *)

Held(tok) ==
    \/ \E b \in Blocks : tok \in pool[b]
    \/ \E b \in Blocks : \E k \in 1 .. Len(mailbox[b]) : tok \in mailbox[b][k].tokens

LEMMA HeldIsNotUnique == ASSUME MailTypeOK, NEW tok PROVE Unique(tok) <=> ~Held(tok)
<1>1. \A b \in Blocks : DOMAIN mailbox[b] = 1 .. Len(mailbox[b])
  BY LenProperties DEF MailTypeOK
<1>2. QED
  BY <1>1 DEF Unique, Held

\* a message stays where it is in the order, but for the first if that is taken
LEMMA MessageStays ==
    ASSUME NEW s, NEW r, NEW d \in 0 .. 1, NEW M, Moves(s, r, d, M),
           NEW k \in 1 .. Len(s), k > d
    PROVE  k - d \in 1 .. Len(r) /\ r[k - d] = s[k]
<1>1. Len(s) \in Nat /\ Len(r) \in Nat /\ Len(s) <= Len(r) + d
  BY DEF Moves
<1>2. k - d \in 1 .. Len(r) /\ (k - d) + d = k
  BY <1>1
<1>3. QED
  BY <1>2 DEF Moves

LEMMA HeldStays ==
    ASSUME NEW b \in Blocks, NEW d \in 0 .. 1, NEW M, MailStep(b, d, M), NEW tok, Held(tok),
           \A c \in Blocks : tok \in pool[c] => tok \in pool'[c],
           d = 1 /\ tok \in mailbox[b][1].tokens => tok \in pool'[b]
    PROVE  Held(tok)'
<1>1. CASE \E c \in Blocks : tok \in pool[c]
  BY <1>1 DEF Held
<1>2. ASSUME NEW c \in Blocks, NEW k \in 1 .. Len(mailbox[c]), tok \in mailbox[c][k].tokens
      PROVE  Held(tok)'
  <2>1. PICK e \in 0 .. 1 : e = (IF c = b THEN d ELSE 0) /\ Moves(mailbox[c], mailbox'[c], e, M[c])
    BY DEF MailStep
  <2>2. CASE k > e
    <3>1. k - e \in 1 .. Len(mailbox'[c]) /\ mailbox'[c][k - e] = mailbox[c][k]
      BY <2>1, <2>2, MessageStays
    <3>2. QED
      BY <1>2, <3>1 DEF Held
  <2>3. CASE ~(k > e)
    <3>1. e = 1 /\ k = 1
      BY <2>3
    <3>2. c = b /\ d = 1
      BY <2>1, <3>1
    <3>3. QED
      BY <1>2, <3>1, <3>2 DEF Held
  <2>4. QED
    BY <2>2, <2>3
<1>3. QED
  BY <1>1, <1>2 DEF Held

\* a message that is posted is there
LEMMA PostedIsThere ==
    ASSUME NEW b \in Blocks, NEW d \in 0 .. 1, NEW M, MailStep(b, d, M),
           NEW c \in Blocks, NEW m \in M[c]
    PROVE  \E k \in 1 .. Len(mailbox'[c]) : mailbox'[c][k] = m
<1>1. PICK e \in 0 .. 1 : Moves(mailbox[c], mailbox'[c], e, M[c])
  BY DEF MailStep
<1>2. QED
  BY <1>1 DEF Moves

\* there is an OutputCheck for the port of w
CheckComes(w) ==
    \E k \in 1 .. Len(mailbox[From(w)]) :
        mailbox[From(w)][k].type = "OutputCheck" /\ Port(mailbox[From(w)][k].wire) = Port(w)
\* or one of those who read from it is about to send it
CheckDue(w) == \E v \in Consumers(Port(w)) : pc[To(v)] = "tells"

PortHeard(w) ==
    starts_seen[From(w)] > 0 /\ ~Held(OutTok(Port(w)))
        => Port(w) \in outputs_done \/ CheckComes(w) \/ CheckDue(w)

AllHeard(b) ==
    Renewed(b) /\ (b \in starting \/ state[b] = "LIVE") /\ Ports(b) # {} /\ Ports(b) \subseteq outputs_done
        => (pc[b] = "ends" /\ b \notin starting) \/ <<b, starts>> \in early

HeardInv == (\A w \in Wires : PortHeard(w)) /\ \A b \in Blocks : AllHeard(b)

LEMMA CheckStays ==
    ASSUME NEW b \in Blocks, NEW d \in 0 .. 1, NEW M, MailStep(b, d, M), NEW w \in Wires,
           CheckComes(w), d = 1 /\ b = From(w) =>
               ~(mailbox[b][1].type = "OutputCheck" /\ Port(mailbox[b][1].wire) = Port(w))
    PROVE  CheckComes(w)'
<1>1. PICK k \in 1 .. Len(mailbox[From(w)]) :
          mailbox[From(w)][k].type = "OutputCheck" /\ Port(mailbox[From(w)][k].wire) = Port(w)
  BY DEF CheckComes
<1>2. From(w) \in Blocks
  BY FlowgraphAssumption
<1>3. PICK e \in 0 .. 1 : /\ e = IF From(w) = b THEN d ELSE 0
                          /\ Moves(mailbox[From(w)], mailbox'[From(w)], e, M[From(w)])
  BY <1>2 DEF MailStep
<1>4. k > e
  BY <1>1, <1>3
<1>5. k - e \in 1 .. Len(mailbox'[From(w)]) /\ mailbox'[From(w)][k - e] = mailbox[From(w)][k]
  BY <1>3, <1>4, MessageStays
<1>6. QED
  BY <1>1, <1>5 DEF CheckComes

LEMMA PortHeardStays ==
    ASSUME NEW b \in Blocks, NEW d \in 0 .. 1, NEW M, MailStep(b, d, M), NEW w \in Wires,
           PortHeard(w), starts_seen'[From(w)] = starts_seen[From(w)],
           \A c \in Blocks : pool[c] \subseteq pool'[c],
           d = 1 => mailbox[b][1].type # "OutputCheck" /\ mailbox[b][1].tokens \subseteq pool'[b],
           Port(w) \in outputs_done => Port(w) \in outputs_done',
           \A c \in Blocks : pc[c] = "tells" => pc'[c] = "tells"
    PROVE  PortHeard(w)'
<1>1. OutTok(Port(w))' = OutTok(Port(w))
  BY DEF OutTok, Port, From
<1>2. Held(OutTok(Port(w))) => Held(OutTok(Port(w)))'
  <2>1. SUFFICES ASSUME Held(OutTok(Port(w))) PROVE Held(OutTok(Port(w)))'
    OBVIOUS
  <2>2. PICK tok : tok = OutTok(Port(w))
    OBVIOUS
  <2>3. Held(tok)'
    BY <2>1, <2>2, HeldStays
  <2>4. QED
    BY <1>1, <2>2, <2>3 DEF Held
<1>3. CheckComes(w) => CheckComes(w)'
  BY CheckStays
<1>4. CheckDue(w) => CheckDue(w)'
  BY FlowgraphAssumption DEF CheckDue, Consumers
<1>5. QED
  BY <1>2, <1>3, <1>4 DEF PortHeard

LEMMA AllHeardStays ==
    ASSUME NEW b \in Blocks, AllHeard(b), SameCall(b),
           b \in starting' \/ state'[b] = "LIVE" => b \in starting \/ state[b] = "LIVE",
           Ports(b) \subseteq outputs_done' => Ports(b) \subseteq outputs_done,
           pc[b] = "ends" => pc'[b] = "ends", b \in starting' => b \in starting,
           early \subseteq early'
    PROVE  AllHeard(b)'
<1>1. Renewed(b)' <=> Renewed(b)
  BY DEF SameCall, Renewed, IsAt
<1>2. QED
  BY <1>1 DEF AllHeard, SameCall, Ports

LEMMA PortHeardPlain ==
    ASSUME FlowInv, NEW c \in Blocks, IsPlain(c), NEW w \in Wires, PortHeard(w)
    PROVE  PortHeard(w)'
<1>1. PICK d \in 0 .. 1 : \E M : PlainStep(c, d, M)
  BY DEF IsPlain
<1>2. PICK M : PlainStep(c, d, M)
  BY <1>1
<1>3. /\ MailStep(c, d, M) /\ UNCHANGED <<pool, starts_seen, outputs_done>>
      /\ d = 1 => mailbox[c][1].type \in {"TopThread", "TopInert", "InputBuffer", "SelfKick"}
      /\ \A b \in Blocks : pc[b] = "tells" => pc'[b] = "tells"
  BY <1>2 DEF PlainStep
<1>4. d = 1 => mailbox[c][1].tokens = {}
  <2>1. SUFFICES ASSUME d = 1 PROVE mailbox[c][1].tokens = {}
    OBVIOUS
  <2>2. Moves(mailbox[c], mailbox'[c], 1, M[c])
    BY <1>3, <2>1 DEF MailStep
  <2>5. 1 \in 1 .. Len(mailbox[c])
    BY <2>2 DEF Moves
  <2>3. MessageOK(c, mailbox[c][1])
    BY <2>5 DEF FlowInv
  <2>4. QED
    BY <1>3, <2>1, <2>3 DEF MessageOK
<1>5. QED
  BY <1>3, <1>4, PortHeardStays

LEMMA PortHeardStep ==
    ASSUME FlowInv, ThreadInv, ThreadInv', FlowInv', NEW c \in Blocks, BlockStep(c),
           NEW w \in Wires, PortHeard(w)
    PROVE  PortHeard(w)'
<1>0. From(w) \in Blocks /\ To(w) \in Blocks /\ From(w) # To(w)
  BY FlowgraphAssumption
<1>1. CASE IsPlain(c)
  BY <1>1, PortHeardPlain
<1>2. CASE HandleTopToken(c)
  <2>1. /\ Answers(c, "TopToken", TokensTo(c, starts_seen'[c]))
        /\ pool' = [pool EXCEPT ![c] = @ \cup {TopTok}] /\ pc' = pc
        /\ starts_seen' = [starts_seen EXCEPT ![c] = @ + 1]
        /\ outputs_done' = outputs_done \ Ports(c)
    BY <1>2, TopTokenFlow DEF HandleTopToken, StoresTop
  <2>2. CASE From(w) = c
    <3>1. PICK n : n = starts_seen'[c]
      OBVIOUS
    <3>2. OutToken(w, n) \in TokensTo(c, n)[To(w)]
      BY <1>0, <2>2 DEF TokensTo, Outs
    <3>3. \E k \in 1 .. Len(mailbox'[To(w)]) : mailbox'[To(w)][k] = OutToken(w, n)
      BY 1 \in 0 .. 1, <1>0, <2>1, <3>1, <3>2, PostedIsThere DEF Answers
    <3>4. OutToken(w, n).tokens = {<<"output", Port(w), n>>}
      BY DEF OutToken, Message
    <3>5. OutTok(Port(w))' = <<"output", Port(w), n>>
      BY <2>2, <3>1 DEF OutTok, Port, From
    <3>6. Held(OutTok(Port(w)))'
      BY <1>0, <3>3, <3>4, <3>5 DEF Held
    <3>7. QED
      BY <3>6 DEF PortHeard
  <2>3. CASE From(w) # c
    <3>1. starts_seen'[From(w)] = starts_seen[From(w)] /\ \A b \in Blocks : pool[b] \subseteq pool'[b]
      BY <1>0, <2>1, <2>3 DEF FlowInv, FlowTypeOK
    <3>2. Port(w) \notin Ports(c)
      BY <2>3 DEF Ports, Port, Outs, From
    <3>3. mailbox[c][1].type = "TopToken" /\ mailbox[c][1].tokens \subseteq {TopTok}
      BY <2>1 DEF Answers, MessageOK
    <3>4. TopTok \in pool'[c]
      BY <2>1 DEF FlowInv, FlowTypeOK
    <3>5. MailStep(c, 1, TokensTo(c, starts_seen'[c]))
      BY <2>1 DEF Answers
    <3>6. QED
      BY 1 \in 0 .. 1, <2>1, <3>1, <3>2, <3>3, <3>4, <3>5, PortHeardStays
  <2>4. QED
    BY <2>2, <2>3
<1>3. CASE HandleTopActive(c)
  <2>1. /\ Answers(c, "TopActive", Only(c, {Plain("SelfKick")}))
        /\ UNCHANGED <<pool, pc, starts_seen, outputs_done>>
    BY <1>3, TopActiveFlow DEF HandleTopActive
  <2>2. mailbox[c][1].type = "TopActive" /\ mailbox[c][1].tokens = {}
    BY <2>1 DEF Answers, MessageOK
  <2>3. MailStep(c, 1, Only(c, {Plain("SelfKick")}))
    BY <2>1 DEF Answers
  <2>4. QED
    BY 1 \in 0 .. 1, <2>1, <2>2, <2>3, PortHeardStays
<1>4. CASE HandleToken(c)
  <2>1. /\ MailStep(c, 1, Only(c, {})) /\ mailbox[c][1].type \in {"InputToken", "OutputToken"}
        /\ pool' = [pool EXCEPT ![c] = @ \cup mailbox[c][1].tokens]
        /\ UNCHANGED <<pc, starts_seen, outputs_done>>
    BY <1>4, TokenFlow DEF HandleToken
  <2>2. (\A b \in Blocks : pool[b] \subseteq pool'[b]) /\ mailbox[c][1].tokens \subseteq pool'[c]
    BY <2>1 DEF FlowInv, FlowTypeOK
  <2>3. QED
    BY 1 \in 0 .. 1, <2>1, <2>2, PortHeardStays
<1>5. CASE HandleInputCheck(c)
  <2>1. /\ MailStep(c, 1, Only(c, {})) /\ mailbox[c][1].type = "InputCheck"
        /\ mailbox[c][1].tokens = {} /\ pc[c] = "idle" /\ PcTo(c, {"check", "work", "call"})
        /\ UNCHANGED <<pool, starts_seen, outputs_done>>
    BY <1>5, InputCheckFlow DEF HandleInputCheck
  <2>2. \A b \in Blocks : pc[b] = "tells" => pc'[b] = "tells"
    BY <2>1 DEF PcTo
  <2>3. QED
    BY 1 \in 0 .. 1, <2>1, <2>2, PortHeardStays
<1>6. CASE HandleOutputCheck(c)
  <2>1. /\ MailStep(c, 1, Only(c, {})) /\ mailbox[c][1].type = "OutputCheck"
        /\ mailbox[c][1].wire \in Outs(c) /\ mailbox[c][1].tokens = {} /\ pc[c] = "idle"
        /\ PcTo(c, {"idle", "ends"}) /\ UNCHANGED <<pool, starts_seen>>
        /\ Got(c) = mailbox[c][1]
    BY <1>6, OutputCheckFlow DEF HandleOutputCheck
  <2>2. PICK p : p = Port(mailbox[c][1].wire)
    OBVIOUS
  <2>3. outputs_done' = IF Unique(OutTok(p)) THEN outputs_done \cup {p} ELSE outputs_done \ {p}
    BY <1>6, <2>1, <2>2 DEF HandleOutputCheck, Marked
  <2>4. OutTok(Port(w))' = OutTok(Port(w))
    BY <2>1 DEF OutTok
  <2>5. Held(OutTok(Port(w))) => Held(OutTok(Port(w)))'
    <3>1. SUFFICES ASSUME Held(OutTok(Port(w))) PROVE Held(OutTok(Port(w)))'
      OBVIOUS
    <3>2. PICK tok : tok = OutTok(Port(w))
      OBVIOUS
    <3>3. Held(tok)'
      BY 1 \in 0 .. 1, <2>1, <3>1, <3>2, HeldStays
    <3>4. QED
      BY <2>4, <3>2, <3>3 DEF Held
  <2>6. CheckDue(w) => CheckDue(w)'
    BY <2>1, FlowgraphAssumption DEF CheckDue, Consumers, PcTo
  <2>7. CASE p = Port(w)
    <3>1. ~Held(OutTok(Port(w)))' => Port(w) \in outputs_done'
      BY <2>3, <2>5, <2>7, HeldIsNotUnique DEF FlowInv, FlowTypeOK
    <3>2. QED
      BY <3>1 DEF PortHeard
  <2>8. CASE p # Port(w)
    <3>1. CheckComes(w) => CheckComes(w)'
      BY 1 \in 0 .. 1, <2>1, <2>2, <2>8, CheckStays
    <3>2. Port(w) \in outputs_done => Port(w) \in outputs_done'
      BY <2>3, <2>8
    <3>3. QED
      BY <2>1, <2>5, <2>6, <3>1, <3>2 DEF PortHeard
  <2>9. QED
    BY <2>7, <2>8
<1>7. CASE Ends(c)
  <2>1. /\ MailStep(c, 0, Only(c, {})) /\ PcTo(c, {"tells"})
        /\ \A b \in Blocks : pool'[b] = IF b = c THEN {} ELSE pool[b]
        /\ UNCHANGED <<mailbox, starts_seen, outputs_done>>
    BY <1>7, EndsFlow DEF Ends
  <2>2. PICK n : n = starts_seen[From(w)]
    OBVIOUS
  <2>3. PICK tok : tok = OutTok(Port(w)) /\ tok = <<"output", Port(w), n>>
    BY <2>2 DEF OutTok, Port, From
  <2>4. OutTok(Port(w))' = tok
    BY <2>1, <2>3 DEF OutTok
  <2>5. CASE tok \in pool[c]
    <3>1. PICK v \in Ins(c) : Port(v) = Port(w)
      BY <2>3, <2>5 DEF FlowInv, PoolOK
    <3>2. v \in Consumers(Port(w)) /\ pc'[To(v)] = "tells"
      BY <2>1, <3>1 DEF Consumers, Ins, PcTo
    <3>3. QED
      BY <3>2 DEF PortHeard, CheckDue
  <2>6. CASE tok \notin pool[c]
    <3>1. Held(tok) => Held(tok)'
      BY <2>1, <2>6 DEF Held
    <3>2. CheckComes(w) => CheckComes(w)'
      BY <2>1 DEF CheckComes
    <3>3. CheckDue(w) => CheckDue(w)'
      BY <2>1, FlowgraphAssumption DEF CheckDue, Consumers, PcTo
    <3>4. Held(OutTok(Port(w))) => Held(OutTok(Port(w)))'
      BY <2>3, <2>4, <3>1 DEF Held
    <3>5. QED
      BY <2>1, <3>2, <3>3, <3>4 DEF PortHeard
  <2>7. QED
    BY <2>5, <2>6
<1>8. CASE Tells(c)
  <2>1. /\ MailStep(c, 0, ChecksTo(c)) /\ PcTo(c, {"idle"})
        /\ UNCHANGED <<pool, starts_seen, outputs_done>>
    BY <1>8, TellsFlow DEF Tells, block
  <2>2. OutTok(Port(w))' = OutTok(Port(w))
    BY <2>1 DEF OutTok
  <2>3. Held(OutTok(Port(w))) => Held(OutTok(Port(w)))'
    <3>1. SUFFICES ASSUME Held(OutTok(Port(w))) PROVE Held(OutTok(Port(w)))'
      OBVIOUS
    <3>2. PICK tok : tok = OutTok(Port(w))
      OBVIOUS
    <3>3. Held(tok)'
      BY 0 \in 0 .. 1, <2>1, <3>1, <3>2, HeldStays
    <3>4. QED
      BY <2>2, <3>2, <3>3 DEF Held
  <2>4. CheckComes(w) => CheckComes(w)'
    BY 0 \in 0 .. 1, <2>1, CheckStays
  <2>5. CASE \E v \in Consumers(Port(w)) : To(v) = c
    <3>1. PICK v \in Consumers(Port(w)) : To(v) = c
      BY <2>5
    <3>2. v \in Ins(c) /\ From(v) = From(w) /\ Port(v) = Port(w)
      BY <3>1 DEF Consumers, Ins, Port, From
    <3>3. OnWire("OutputCheck", v) \in ChecksTo(c)[From(w)]
      BY <1>0, <3>2 DEF ChecksTo
    <3>4. \E k \in 1 .. Len(mailbox'[From(w)]) : mailbox'[From(w)][k] = OnWire("OutputCheck", v)
      BY 0 \in 0 .. 1, <1>0, <2>1, <3>3, PostedIsThere
    <3>5. OnWire("OutputCheck", v).type = "OutputCheck" /\ OnWire("OutputCheck", v).wire = v
      BY DEF OnWire, Message
    <3>6. CheckComes(w)'
      BY <3>2, <3>4, <3>5 DEF CheckComes
    <3>7. QED
      BY <3>6 DEF PortHeard
  <2>6. CASE ~\E v \in Consumers(Port(w)) : To(v) = c
    <3>1. CheckDue(w) => CheckDue(w)'
      BY <2>1, <2>6, FlowgraphAssumption DEF CheckDue, Consumers, PcTo
    <3>2. QED
      BY <2>1, <2>3, <2>4, <3>1 DEF PortHeard
  <2>7. QED
    BY <2>5, <2>6
<1>9. CASE SendTop(c)
  <2>1. /\ MailStep(c, 0, Only(c, {TopMessage})) /\ UNCHANGED <<pool, pc, starts_seen, outputs_done>>
    BY <1>9, SendTopFlow DEF SendTop, block
  <2>2. QED
    BY 0 \in 0 .. 1, <2>1, PortHeardStays
<1>10. QED
  BY <1>1, <1>2, <1>3, <1>4, <1>5, <1>6, <1>7, <1>8, <1>9 DEF BlockStep

LEMMA AllHeardStep ==
    ASSUME HeardInv, FlowInv, ThreadInv, ThreadInv', NEW c \in Blocks, BlockStep(c), NEW b \in Blocks
    PROVE  AllHeard(b)'
<1>0. AllHeard(b)
  BY DEF HeardInv
<1>1. CASE IsPlain(c)
  <2>1. SameCall(b) /\ UNCHANGED <<state, outputs_done, aux>>
    BY <1>1, PlainSame
  <2>2. pc[b] = "ends" => pc'[b] = "ends"
    BY <1>1 DEF IsPlain, PlainStep
  <2>3. QED
    BY <1>0, <2>1, <2>2, AllHeardStays DEF aux
<1>2. CASE HandleTopToken(c)
  <2>1. /\ Answers(c, "TopToken", TokensTo(c, starts_seen'[c])) /\ top.step = 2
        /\ UNCHANGED <<pc, state, early>> /\ starting' = starting \cup {c}
        /\ outputs_done' = outputs_done \ Ports(c)
    BY <1>2, TopTokenFlow DEF HandleTopToken
  <2>2. CASE b = c
    <3>1. Ports(b) # {} => ~(Ports(b) \subseteq outputs_done')
      BY <2>1, <2>2
    <3>2. QED
      BY <3>1 DEF AllHeard, Ports
  <2>3. CASE b # c
    <3>1. SameCall(b)
      BY <2>1, <2>3 DEF SameCall, Answers
    <3>2. QED
      BY <1>0, <2>1, <2>3, <3>1, AllHeardStays
  <2>4. QED
    BY <2>2, <2>3
<1>3. CASE HandleTopActive(c)
  <2>1. /\ Answers(c, "TopActive", Only(c, {Plain("SelfKick")})) /\ top.step = 3 /\ c \in starting
        /\ UNCHANGED <<pc, early, outputs_done>> /\ starting' = starting \ {c}
        /\ state' = [state EXCEPT ![c] = "LIVE"]
    BY <1>3, TopActiveFlow DEF HandleTopActive
  <2>2. starts' = starts
    BY <2>1 DEF Answers
  <2>3. CASE b = c
    <3>1. Renewed(b)
      BY <2>1 DEF Renewed, Answers
    <3>2. Ports(b) # {} /\ Ports(b) \subseteq outputs_done => <<b, starts>> \in early
      BY <1>0, <2>1, <2>3, <3>1 DEF AllHeard
    <3>3. QED
      BY <2>1, <2>2, <3>2 DEF AllHeard, Ports
  <2>4. CASE b # c
    <3>1. SameCall(b)
      BY <2>1, <2>4 DEF SameCall, Answers
    <3>2. state'[b] = state[b]
      BY <2>1, <2>4 DEF FlowInv, FlowTypeOK
    <3>3. QED
      BY <1>0, <2>1, <3>1, <3>2, AllHeardStays
  <2>5. QED
    BY <2>3, <2>4
<1>4. CASE HandleToken(c)
  <2>1. UNCHANGED <<pc, state, top, starts, outputs_done, starting, early>>
    BY <1>4 DEF HandleToken, aux
  <2>2. QED
    BY <1>0, <2>1, AllHeardStays DEF SameCall
<1>5. CASE HandleInputCheck(c)
  <2>1. UNCHANGED <<state, top, starts, outputs_done, starting, early>>
    BY <1>5 DEF HandleInputCheck, aux
  <2>2. pc[b] = "ends" => pc'[b] = "ends"
    BY <1>5, InputCheckFlow DEF PcTo
  <2>3. QED
    BY <1>0, <2>1, <2>2, AllHeardStays DEF SameCall
<1>6. CASE HandleOutputCheck(c)
  <2>1. /\ UNCHANGED <<state, top, starts, starting>> /\ early' = Early(c)
        /\ mailbox[c][1].wire \in Outs(c) /\ pc[c] = "idle" /\ PcTo(c, {"idle", "ends"})
        /\ Got(c) = mailbox[c][1]
        /\ AllOutputsDone(c) => pc'[c] = IF state[c] = "DONE" THEN "idle" ELSE "ends"
    BY <1>6, OutputCheckFlow DEF HandleOutputCheck
  <2>2. CASE b = c
    <3>1. b \in starting => <<b, starts>> \in early'
      BY <2>1, <2>2 DEF Early
    <3>2. Ports(b) \subseteq outputs_done' /\ state[b] = "LIVE" => pc'[b] = "ends"
      BY <2>1, <2>2 DEF AllOutputsDone
    <3>3. QED
      BY <2>1, <3>1, <3>2 DEF AllHeard, Ports
  <2>3. CASE b # c
    <3>1. PICK p : p = Port(mailbox[c][1].wire)
      OBVIOUS
    <3>2. outputs_done' \subseteq outputs_done \cup {p}
      BY <1>6, <2>1, <3>1 DEF HandleOutputCheck, Marked
    <3>3. p \notin Ports(b)
      BY <2>1, <2>3, <3>1 DEF Ports, Port, Outs, From
    <3>4. early \subseteq early' /\ pc'[b] = pc[b]
      BY <2>1, <2>3 DEF Early, PcTo
    <3>5. QED
      BY <1>0, <2>1, <3>2, <3>3, <3>4, AllHeardStays DEF SameCall
  <2>4. QED
    BY <2>2, <2>3
<1>7. CASE Ends(c)
  <2>1. /\ UNCHANGED <<top, starts, starting, outputs_done>> /\ early' = Early(c)
        /\ PcTo(c, {"tells"}) /\ state'[b] = (IF b = c THEN "DONE" ELSE state[b])
    BY <1>7, EndsFlow DEF Ends
  <2>2. CASE b = c
    BY <2>1, <2>2 DEF AllHeard, Early
  <2>3. CASE b # c
    <3>1. early \subseteq early' /\ pc'[b] = pc[b]
      BY <2>1, <2>3 DEF Early, PcTo
    <3>2. QED
      BY <1>0, <2>1, <2>3, <3>1, AllHeardStays DEF SameCall
  <2>4. QED
    BY <2>2, <2>3
<1>8. CASE Tells(c)
  <2>1. /\ UNCHANGED <<state, outputs_done, starts, starting, early>> /\ pc[c] = "tells"
        /\ PcTo(c, {"idle"})
    BY <1>8, TellsFlow DEF Tells, block, aux
  <2>2. SameCall(b)
    BY <1>8, <2>1, TellsFlow, AckFields DEF SameCall, IsAt, FlowInv
  <2>3. pc[b] = "ends" => pc'[b] = "ends"
    BY <2>1 DEF PcTo
  <2>4. QED
    BY <1>0, <2>1, <2>2, <2>3, AllHeardStays
<1>9. CASE SendTop(c)
  <2>1. UNCHANGED <<pc, state, outputs_done, starts, starting, early>>
    BY <1>9 DEF SendTop, block, aux
  <2>2. SameCall(b)
    BY <1>9, <2>1, SendTopFlow DEF SameCall
  <2>3. QED
    BY <1>0, <2>1, <2>2, AllHeardStays
<1>10. QED
  BY <1>1, <1>2, <1>3, <1>4, <1>5, <1>6, <1>7, <1>8, <1>9 DEF BlockStep

\* the user's thread moves no token
LEMMA PortHeardUser ==
    ASSUME UserStep, NEW w \in Wires, PortHeard(w)
    PROVE  PortHeard(w)'
<1>1. OutTok(Port(w))' = OutTok(Port(w))
  BY DEF UserStep, OutTok
<1>2. Held(OutTok(Port(w))) => Held(OutTok(Port(w)))'
  BY <1>1 DEF Held, UserStep
<1>3. QED
  BY <1>2 DEF PortHeard, CheckComes, CheckDue, UserStep

LEMMA AllHeardUser ==
    ASSUME FlowInv, CallStep \/ Answered, NEW b \in Blocks, AllHeard(b)
    PROVE  AllHeard(b)'
<1>1. CASE CallStep
  <2>1. /\ UNCHANGED <<pc, state, outputs_done, aux>>
        /\ top.call \in {"new", "started", "stopped", "wait", "ended"}
        /\ \/ top' = Calling("start")
           \/ starts' = starts /\ top' \in {Calling("stop"), Returns("wait"), Returns("ended")}
              /\ ~IsAt("new")
    BY <1>1 DEF CallStep, Start, Stop, Wait, WaitReturns, IsAt, block, aux
  <2>2. CASE top' = Calling("start")
    BY <2>2 DEF AllHeard, Renewed, IsAt, Calling
  <2>3. CASE starts' = starts /\ ~IsAt("new")
    <3>1. Renewed(b)
      BY <2>1, <2>3 DEF Renewed, IsAt
    <3>2. QED
      BY <2>1, <2>3, <3>1 DEF AllHeard, Ports, aux
  <2>4. QED
    BY <2>1, <2>2, <2>3
<1>2. CASE Answered
  <2>1. /\ UserStep /\ starts' = starts /\ top.unanswered = {} /\ early' = ThisStart(early)
        /\ \/ IsAt("start") /\ top.step = 1 /\ top' = Broadcasting("start", 2)
           \/ IsAt("start") /\ top.step = 2 /\ top' = Broadcasting("start", 3)
           \/ IsAt("start") /\ top.step = 3 /\ top' = Returns("started")
           \/ IsAt("stop") /\ top' = Returns("stopped")
    BY <1>2, AnsweredFlow
  <2>2. <<b, starts>> \in early => <<b, starts'>> \in early'
    BY <2>1, ThisStartKeeps
  <2>3. Renewed(b)' => Renewed(b)
    BY <2>1 DEF Renewed, IsAt, Broadcasting, Returns
  <2>4. QED
    BY <2>1, <2>2, <2>3 DEF AllHeard, Ports, UserStep
<1>3. QED
  BY <1>1, <1>2

LEMMA HeardInvNext ==
    ASSUME HeardInv, FlowInv, ThreadInv, ThreadInv', [Next]_vars
    PROVE  HeardInv'
<1>0. FlowInv'
  BY StepKinds
<1>1. ASSUME NEW w \in Wires PROVE PortHeard(w)'
  <2>0. PortHeard(w)
    BY DEF HeardInv
  <2>1. CASE Still \/ CallStep \/ Answered
    <3>1. UserStep
      BY <2>1, CallFlow, AnsweredFlow DEF Still, UserStep, CallStep, aux
    <3>2. QED
      BY <2>0, <3>1, PortHeardUser
  <2>2. QED
    BY <1>0, <2>0, <2>1, StepKinds, PortHeardStep
<1>2. ASSUME NEW b \in Blocks PROVE AllHeard(b)'
  <2>0. AllHeard(b)
    BY DEF HeardInv
  <2>1. CASE Still
    BY <2>0, <2>1, AllHeardStays DEF Still, SameCall, aux
  <2>2. QED
    BY <2>0, <2>1, StepKinds, AllHeardStep, AllHeardUser
<1>3. QED
  BY <1>1, <1>2 DEF HeardInv

LEMMA HeardInvInit == Init => HeardInv
<1> SUFFICES ASSUME Init PROVE HeardInv
  OBVIOUS
<1>1. ASSUME NEW w \in Wires PROVE PortHeard(w)
  BY FlowgraphAssumption DEF Init, PortHeard
<1>2. ASSUME NEW b \in Blocks PROVE AllHeard(b)
  BY DEF Init, AllHeard, Renewed, IsAt, Returns
<1>3. QED
  BY <1>1, <1>2 DEF HeardInv

LEMMA HeardIsEnough == HeardInv /\ FlowInv => EndIsHeard
<1> SUFFICES ASSUME HeardInv, FlowInv, NEW b \in Blocks,
                    ~IsAt("start"), state[b] = "LIVE", pc[b] # "ends", Ports(b) # {},
                    <<b, starts>> \notin early, \A p \in Ports(b) : Unique(OutTok(p)),
                    \A w \in Outs(b) : pc[To(w)] # "tells"
             PROVE  \E k \in DOMAIN mailbox[b] : mailbox[b][k].type = "OutputCheck"
  BY DEF EndIsHeard
<1>1. starts_seen[b] > 0 /\ ~IsAt("new") /\ AllHeard(b)
  BY DEF FlowInv, RunsOK, HeardInv
<1>2. Renewed(b)
  BY <1>1 DEF Renewed, IsAt, FlowInv, FlowTypeOK, UserCalls
<1>3. ~(Ports(b) \subseteq outputs_done)
  BY <1>1, <1>2 DEF AllHeard
<1>4. PICK w \in Outs(b) : Port(w) \notin outputs_done
  BY <1>3 DEF Ports
<1>5. w \in Wires /\ From(w) = b /\ Port(w) \in Ports(b)
  BY <1>4 DEF Outs, Ports
<1>6. ~Held(OutTok(Port(w)))
  BY <1>5, HeldIsNotUnique DEF FlowInv, FlowTypeOK
<1>7. ~CheckDue(w)
  BY <1>5 DEF CheckDue, Consumers, Outs, Port, From
<1>8. CheckComes(w)
  BY <1>1, <1>4, <1>5, <1>6, <1>7 DEF HeardInv, PortHeard
<1>9. DOMAIN mailbox[b] = 1 .. Len(mailbox[b])
  BY LenProperties DEF FlowInv, FlowTypeOK, MailTypeOK
<1>10. QED
  BY <1>5, <1>8, <1>9 DEF CheckComes

(* A block that runs for nobody has the message that ends it, or a consumer *)
(* is about to post it, in every flow graph: no interleaving of the ends of *)
(* the consumers with the tokens of a new start loses the last check.       *)
THEOREM EndIsAlwaysHeard == Spec => []EndIsHeard
<1>1. HeardInv /\ FlowInv /\ ThreadInv /\ ThreadInv' /\ [Next]_vars => HeardInv'
  BY HeardInvNext
<1>2. Spec => []HeardInv
  BY <1>1, HeardInvInit, FlowAlways, InitThreads, NextKeeps, PTL DEF Spec
<1>3. QED
  BY <1>2, FlowAlways, HeardIsEnough, PTL

---------------------------------------------------------------------------
(* A check overtakes no buffer.                                            *)

BuffersOn(w) == {m \in Msgs : m.type = "InputBuffer" /\ m.wire = w}
ChecksOn(w)  == {m \in Msgs : m.type = "InputCheck" /\ m.wire = w}
TopTokens    == {m \in Msgs : m.type = "TopToken"}

None(s, A)       == \A k \in 1 .. Len(s) : s[k] \notin A
Ordered(s, A, B) == \A j, k \in 1 .. Len(s) : s[j] \in A /\ s[k] \in B => j < k

LEMMA NoneStays ==
    ASSUME NEW s, NEW r, NEW d \in 0 .. 1, NEW M, Moves(s, r, d, M), NEW A, None(s, A),
           \A m \in M : m \notin A
    PROVE  None(r, A)
<1>1. SUFFICES ASSUME NEW k \in 1 .. Len(r) PROVE r[k] \notin A
  BY DEF None
<1>2. k \in Nat \ {0} /\ Len(s) \in Nat
  BY DEF Moves
<1>3. CASE k + d <= Len(s)
  <2>1. k + d \in 1 .. Len(s) /\ r[k] = s[k + d]
    BY <1>2, <1>3 DEF Moves
  <2>2. QED
    BY <2>1 DEF None
<1>4. CASE ~(k + d <= Len(s))
  BY <1>4 DEF Moves
<1>5. QED
  BY <1>3, <1>4

\* what is posted comes behind what is there
LEMMA OrderStays ==
    ASSUME NEW s, NEW r, NEW d \in 0 .. 1, NEW M, Moves(s, r, d, M), NEW A, NEW B, Ordered(s, A, B),
           (\A m \in M : m \notin A) \/ (None(s, B) /\ \A m \in M : m \notin B)
    PROVE  Ordered(r, A, B)
<1>0. Len(s) \in Nat /\ Len(r) \in Nat
  BY DEF Moves
<1>1. CASE None(s, B) /\ \A m \in M : m \notin B
  <2>1. None(r, B)
    BY <1>1, NoneStays
  <2>2. QED
    BY <2>1 DEF None, Ordered
<1>2. CASE \A m \in M : m \notin A
  <2>1. SUFFICES ASSUME NEW j \in 1 .. Len(r), NEW k \in 1 .. Len(r), r[j] \in A, r[k] \in B
                 PROVE  j < k
    BY DEF Ordered
  <2>2. j + d \in 1 .. Len(s) /\ r[j] = s[j + d]
    BY <1>0, <1>2, <2>1 DEF Moves
  <2>3. CASE k + d <= Len(s)
    <3>1. k + d \in 1 .. Len(s) /\ r[k] = s[k + d]
      BY <1>0, <2>3 DEF Moves
    <3>2. j + d < k + d
      BY <2>1, <2>2, <3>1 DEF Ordered
    <3>3. QED
      BY <1>0, <3>2
  <2>4. CASE ~(k + d <= Len(s))
    BY <1>0, <2>2, <2>4
  <2>5. QED
    BY <2>3, <2>4
<1>3. QED
  BY <1>1, <1>2

\* the token of w is where it was sent to
TokenOut(w) ==
    \/ InTok(w) \in pool[From(w)]
    \/ \E k \in 1 .. Len(mailbox[From(w)]) : InTok(w) \in mailbox[From(w)][k].tokens

\* the other end of w is about to be activated
Pending(w) ==
    IsAt("start") /\ ((top.step = 2 /\ To(w) \notin top.unanswered)
                      \/ (top.step = 3 /\ From(w) \in starting))

ThisHurry(b) == <<b, starts>> \in hurried
Runs(w) == \/ state[From(w)] = "LIVE" /\ ~Hurried(From(w))
           \/ Pending(w) /\ ~ThisHurry(From(w))

\* where the other end runs nothing says that it ended
WireRuns(w) ==
    Runs(w) => /\ TokenOut(w) /\ w \notin inputs_done /\ pc[From(w)] # "tells"
               /\ None(mailbox[To(w)], ChecksOn(w))

\* what an earlier end has to say is said before the new tokens are made
ToldInTime(w) ==
    IsAt("start") /\ ~ThisHurry(From(w)) =>
        /\ top.step = 2 \/ (top.step = 1 /\ From(w) \notin top.unanswered) => pc[From(w)] # "tells"
        /\ top.step = 2 => Ordered(mailbox[To(w)], ChecksOn(w), TopTokens)

BufferFirst(w) ==
    ~Hurried(From(w)) =>
        /\ Ordered(mailbox[To(w)], BuffersOn(w), ChecksOn(w))
        /\ checking[To(w)] = w /\ w \in inputs_done => None(mailbox[To(w)], BuffersOn(w))

WireOK(w) == WireRuns(w) /\ ToldInTime(w) /\ BufferFirst(w)
WiresInv  == \A w \in Wires : WireOK(w)

LEMMA TokenOutStays ==
    ASSUME NEW b \in Blocks, NEW d \in 0 .. 1, NEW M, MailStep(b, d, M), NEW w \in Wires,
           TokenOut(w), starts_seen'[To(w)] = starts_seen[To(w)],
           pool[From(w)] \subseteq pool'[From(w)],
           d = 1 /\ b = From(w) /\ InTok(w) \in mailbox[b][1].tokens => InTok(w) \in pool'[b]
    PROVE  TokenOut(w)'
<1>0. From(w) \in Blocks
  BY FlowgraphAssumption
<1>1. PICK tok : tok = InTok(w)
  OBVIOUS
<1>2. InTok(w)' = tok
  BY <1>1 DEF InTok, To
<1>3. CASE tok \in pool[From(w)]
  BY <1>2, <1>3 DEF TokenOut
<1>4. CASE tok \notin pool[From(w)]
  <2>1. PICK k \in 1 .. Len(mailbox[From(w)]) : tok \in mailbox[From(w)][k].tokens
    BY <1>1, <1>4 DEF TokenOut
  <2>2. PICK e \in 0 .. 1 : /\ e = IF From(w) = b THEN d ELSE 0
                            /\ Moves(mailbox[From(w)], mailbox'[From(w)], e, M[From(w)])
    BY <1>0 DEF MailStep
  <2>3. CASE k > e
    <3>1. k - e \in 1 .. Len(mailbox'[From(w)]) /\ mailbox'[From(w)][k - e] = mailbox[From(w)][k]
      BY <2>2, <2>3, MessageStays
    <3>2. QED
      BY <1>2, <2>1, <3>1 DEF TokenOut
  <2>4. CASE ~(k > e)
    <3>1. e = 1 /\ k = 1
      BY <2>4
    <3>2. b = From(w) /\ d = 1
      BY <2>2, <3>1
    <3>3. QED
      BY <1>1, <1>2, <2>1, <3>1, <3>2 DEF TokenOut
  <2>5. QED
    BY <2>3, <2>4
<1>5. QED
  BY <1>3, <1>4

\* a step that neither ends nor starts an end of w, and takes no check of it
LEMMA WireStays ==
    ASSUME NEW w \in Wires, WireOK(w), NEW b \in Blocks, NEW d \in 0 .. 1, NEW M, MailStep(b, d, M),
           top'.call = top.call, top'.step = top.step, starts' = starts, hurried' = hurried,
           IsAt("start") /\ top.step = 1 /\ From(w) \notin top'.unanswered =>
               From(w) \notin top.unanswered \/ pc[From(w)] # "tells",
           Runs(w)' => Runs(w), TokenOut(w) => TokenOut(w)', w \in inputs_done' => w \in inputs_done,
           pc'[From(w)] = "tells" => pc[From(w)] = "tells",
           checking'[To(w)] = w => checking[To(w)] = w,
           \A m \in M[To(w)] : m \notin ChecksOn(w) /\ (m \in BuffersOn(w) => state[From(w)] = "LIVE")
    PROVE  WireOK(w)'
<1>1. PICK e \in 0 .. 1 : Moves(mailbox[To(w)], mailbox'[To(w)], e, M[To(w)])
  BY FlowgraphAssumption DEF MailStep
<1>2. ThisHurry(From(w))' = ThisHurry(From(w)) /\ Hurried(From(w))' = Hurried(From(w))
  BY DEF ThisHurry, Hurried
<1>3. WireRuns(w)'
  <2>1. None(mailbox[To(w)], ChecksOn(w)) => None(mailbox'[To(w)], ChecksOn(w))
    BY <1>1, NoneStays
  <2>2. QED
    BY <2>1 DEF WireOK, WireRuns
<1>4. ToldInTime(w)'
  <2>1. Ordered(mailbox[To(w)], ChecksOn(w), TopTokens) => Ordered(mailbox'[To(w)], ChecksOn(w), TopTokens)
    BY <1>1, OrderStays
  <2>2. QED
    BY <1>2, <2>1 DEF WireOK, ToldInTime, IsAt
<1>5. BufferFirst(w)'
  <2>1. SUFFICES ASSUME ~Hurried(From(w))
                 PROVE  /\ Ordered(mailbox'[To(w)], BuffersOn(w), ChecksOn(w))
                        /\ checking'[To(w)] = w /\ w \in inputs_done' =>
                               None(mailbox'[To(w)], BuffersOn(w))
    BY <1>2 DEF BufferFirst
  <2>2. /\ Ordered(mailbox[To(w)], BuffersOn(w), ChecksOn(w))
        /\ checking[To(w)] = w /\ w \in inputs_done => None(mailbox[To(w)], BuffersOn(w))
    BY <2>1 DEF WireOK, BufferFirst
  <2>3. CASE state[From(w)] = "LIVE"
    <3>1. w \notin inputs_done /\ None(mailbox[To(w)], ChecksOn(w))
      BY <2>1, <2>3 DEF WireOK, WireRuns, Runs
    <3>2. Ordered(mailbox'[To(w)], BuffersOn(w), ChecksOn(w))
      BY <1>1, <2>2, <3>1, OrderStays
    <3>3. QED
      BY <3>1, <3>2
  <2>4. CASE state[From(w)] # "LIVE"
    <3>1. \A m \in M[To(w)] : m \notin BuffersOn(w)
      BY <2>4
    <3>2. QED
      BY <1>1, <2>2, <3>1, OrderStays, NoneStays
  <2>5. QED
    BY <2>3, <2>4
<1>6. QED
  BY <1>3, <1>4, <1>5 DEF WireOK

LEMMA PostedKinds ==
    ASSUME NEW w \in Wires, NEW b \in Blocks
    PROVE  /\ \A m \in BuffersTo(b)[To(w)] : m \notin ChecksOn(w) /\ (m \in BuffersOn(w) => b = From(w))
           /\ \A m \in ChecksTo(b)[To(w)] : m \notin BuffersOn(w) /\ (m \in ChecksOn(w) => b = From(w))
           /\ \A n \in Nat : \A m \in TokensTo(b, n)[To(w)] :
                  m \notin BuffersOn(w) /\ m \notin ChecksOn(w)
           /\ \A type \in {"SelfKick", "TopInert"} :
                  Plain(type) \notin BuffersOn(w) /\ Plain(type) \notin ChecksOn(w)
<1>0. To(w) \in Blocks
  BY FlowgraphAssumption
<1>1. ASSUME NEW type, NEW v
      PROVE  OnWire(type, v).type = type /\ OnWire(type, v).wire = v
  BY DEF OnWire, Message
<1>2. ASSUME NEW v, NEW n
      PROVE  InToken(v, n).type = "OutputToken" /\ OutToken(v, n).type = "InputToken"
  BY DEF InToken, OutToken, Message
<1>3. ASSUME NEW m \in BuffersTo(b)[To(w)]
      PROVE  m \notin ChecksOn(w) /\ (m \in BuffersOn(w) => b = From(w))
  BY <1>0, <1>1 DEF BuffersTo, ChecksOn, BuffersOn, Outs
<1>4. ASSUME NEW m \in ChecksTo(b)[To(w)]
      PROVE  m \notin BuffersOn(w) /\ (m \in ChecksOn(w) => b = From(w))
  BY <1>0, <1>1 DEF ChecksTo, ChecksOn, BuffersOn, Outs
<1>5. ASSUME NEW n \in Nat, NEW m \in TokensTo(b, n)[To(w)]
      PROVE  m \notin BuffersOn(w) /\ m \notin ChecksOn(w)
  BY <1>0, <1>2 DEF TokensTo, ChecksOn, BuffersOn
<1>6. \A type \in {"SelfKick", "TopInert"} :
          Plain(type) \notin BuffersOn(w) /\ Plain(type) \notin ChecksOn(w)
  BY DEF Plain, Message, BuffersOn, ChecksOn
<1>7. QED
  BY <1>3, <1>4, <1>5, <1>6

LEMMA WirePlain ==
    ASSUME FlowInv, NEW c \in Blocks, IsPlain(c), NEW w \in Wires, WireOK(w)
    PROVE  WireOK(w)'
<1>0. From(w) \in Blocks /\ To(w) \in Blocks /\ w # <<>>
  BY FlowgraphAssumption
<1>1. PICK d \in 0 .. 1 : \E M : PlainStep(c, d, M)
  BY DEF IsPlain
<1>2. PICK M : PlainStep(c, d, M)
  BY <1>1
<1>3. /\ MailStep(c, d, M) /\ UNCHANGED <<state, pool, starts_seen, inputs_done, starts, aux>>
      /\ d = 1 => mailbox[c][1].type \in {"TopThread", "TopInert", "InputBuffer", "SelfKick"}
      /\ \A b \in Blocks : /\ pc'[b] = "tells" <=> pc[b] = "tells"
                           /\ checking'[b] = checking[b] \/ checking'[b] = <<>>
      /\ \/ top' = top
         \/ Ack(c) /\ Asked(c) /\ ~(IsAt("start") /\ top.step \in {2, 3}) /\ pc[c] # "tells"
  BY <1>2 DEF PlainStep
<1>4. /\ top'.call = top.call /\ top'.step = top.step
      /\ top' = top \/ (/\ top'.unanswered = top.unanswered \ {c} /\ pc[c] # "tells"
                        /\ ~(IsAt("start") /\ top.step \in {2, 3}))
  BY <1>3, AckFields DEF FlowInv
<1>5. d = 1 => mailbox[c][1].tokens = {}
  <2>1. SUFFICES ASSUME d = 1 PROVE mailbox[c][1].tokens = {}
    OBVIOUS
  <2>2. Moves(mailbox[c], mailbox'[c], 1, M[c])
    BY <1>3, <2>1 DEF MailStep
  <2>3. 1 \in 1 .. Len(mailbox[c])
    BY <2>2 DEF Moves
  <2>4. MessageOK(c, mailbox[c][1])
    BY <2>3 DEF FlowInv
  <2>5. QED
    BY <1>3, <2>1, <2>4 DEF MessageOK
<1>6. TokenOut(w) => TokenOut(w)'
  BY <1>3, <1>5, TokenOutStays
<1>7. Runs(w)' => Runs(w)
  BY <1>3, <1>4 DEF Runs, Pending, ThisHurry, Hurried, IsAt, aux
<1>8. \A m \in M[To(w)] : m \notin ChecksOn(w) /\ (m \in BuffersOn(w) => state[From(w)] = "LIVE")
  BY <1>0, <1>2, PostedKinds DEF PlainStep
<1>9. QED
  BY <1>0, <1>3, <1>4, <1>6, <1>7, <1>8, WireStays DEF aux

LEMMA WireTopToken ==
    ASSUME FlowInv, ThreadInv, NEW c \in Blocks, HandleTopToken(c), NEW w \in Wires, WireOK(w)
    PROVE  WireOK(w)'
<1>0. From(w) \in Blocks /\ To(w) \in Blocks /\ From(w) # To(w)
  BY FlowgraphAssumption
<1>1. /\ Answers(c, "TopToken", TokensTo(c, starts_seen'[c])) /\ top.step = 2
      /\ pool' = [pool EXCEPT ![c] = @ \cup {TopTok}] /\ starting' = starting \cup {c}
      /\ starts_seen' = [starts_seen EXCEPT ![c] = @ + 1]
      /\ inputs_done' = inputs_done \ Ins(c) /\ state' = state
      /\ starts_seen'[c] = starts_seen[c] + 1
  BY TopTokenFlow DEF HandleTopToken, StoresTop
<1>2. PICK n \in Nat : n = starts_seen'[c]
  BY <1>1 DEF FlowInv, FlowTypeOK
<1>3. /\ MailStep(c, 1, TokensTo(c, n)) /\ IsAt("start") /\ UNCHANGED <<pc, checking, starts, hurried>>
      /\ top'.call = top.call /\ top'.step = top.step /\ top'.unanswered = top.unanswered \ {c}
      /\ 1 \in 1 .. Len(mailbox[c]) /\ mailbox[c][1].type = "TopToken"
      /\ mailbox[c][1].tokens \subseteq {TopTok}
  BY <1>1, <1>2 DEF Answers, MessageOK
<1>4. \A m \in TokensTo(c, n)[To(w)] : m \notin ChecksOn(w) /\ m \notin BuffersOn(w)
  BY PostedKinds
<1>5. CASE To(w) # c
  <2>1. starts_seen'[To(w)] = starts_seen[To(w)] /\ pool[From(w)] \subseteq pool'[From(w)]
    BY <1>0, <1>1, <1>5 DEF FlowInv, FlowTypeOK
  <2>2. InTok(w) # TopTok
    BY DEF InTok, TopTok
  <2>3. TokenOut(w) => TokenOut(w)'
    BY 1 \in 0 .. 1, <1>3, <2>1, <2>2, TokenOutStays
  <2>4. Runs(w)' => Runs(w)
    BY <1>1, <1>3, <1>5 DEF Runs, Pending, ThisHurry, Hurried, IsAt
  <2>5. QED
    BY 1 \in 0 .. 1, <1>1, <1>3, <1>4, <2>3, <2>4, WireStays
<1>6. CASE To(w) = c
  <2>1. Moves(mailbox[c], mailbox'[c], 1, TokensTo(c, n)[c])
    BY <1>3 DEF MailStep
  <2>2. w \notin inputs_done'
    BY <1>1, <1>6 DEF Ins
  <2>3. ThisHurry(From(w))' = ThisHurry(From(w)) /\ Hurried(From(w))' = Hurried(From(w))
    BY <1>3 DEF ThisHurry, Hurried
  <2>4. ~ThisHurry(From(w)) => /\ pc[From(w)] # "tells"
                               /\ Ordered(mailbox[c], ChecksOn(w), TopTokens)
    BY <1>1, <1>3, <1>6 DEF WireOK, ToldInTime
  <2>5. ~ThisHurry(From(w)) => None(mailbox[c], ChecksOn(w))
    <3>1. mailbox[c][1] \in TopTokens
      BY <1>3, ElementOfSeq DEF TopTokens, FlowInv, FlowTypeOK, MailTypeOK
    <3>2. ASSUME Ordered(mailbox[c], ChecksOn(w), TopTokens),
                 NEW k \in 1 .. Len(mailbox[c]), mailbox[c][k] \in ChecksOn(w)
          PROVE  FALSE
      <4>1. k < 1
        BY <1>3, <3>1, <3>2 DEF Ordered
      <4>2. QED
        BY <4>1
    <3>3. QED
      BY <2>4, <3>2 DEF None
  <2>6. TokenOut(w)'
    <3>1. InToken(w, n) \in TokensTo(c, n)[From(w)]
      BY <1>0, <1>6 DEF TokensTo, Ins
    <3>2. \E k \in 1 .. Len(mailbox'[From(w)]) : mailbox'[From(w)][k] = InToken(w, n)
      BY 1 \in 0 .. 1, <1>0, <1>3, <3>1, PostedIsThere
    <3>3. InToken(w, n).tokens = {<<"input", w, n>>}
      BY DEF InToken, Message
    <3>4. InTok(w)' = <<"input", w, n>>
      BY <1>2, <1>6 DEF InTok, To
    <3>5. QED
      BY <3>2, <3>3, <3>4 DEF TokenOut
  <2>7. Runs(w)' => ~ThisHurry(From(w))
    BY <1>3, <2>3 DEF Runs, ThisHurry, Hurried
  <2>8. WireRuns(w)'
    <3>1. None(mailbox[c], ChecksOn(w)) => None(mailbox'[c], ChecksOn(w))
      BY 1 \in 0 .. 1, <1>4, <1>6, <2>1, NoneStays
    <3>2. QED
      BY <1>3, <1>6, <2>2, <2>4, <2>5, <2>6, <2>7, <3>1 DEF WireRuns
  <2>9. ToldInTime(w)'
    <3>1. Ordered(mailbox[c], ChecksOn(w), TopTokens) => Ordered(mailbox'[c], ChecksOn(w), TopTokens)
      BY 1 \in 0 .. 1, <1>4, <1>6, <2>1, OrderStays
    <3>2. QED
      BY <1>1, <1>3, <1>6, <2>3, <2>4, <3>1 DEF ToldInTime, IsAt
  <2>10. BufferFirst(w)'
    <3>1. Ordered(mailbox[c], BuffersOn(w), ChecksOn(w)) => Ordered(mailbox'[c], BuffersOn(w), ChecksOn(w))
      BY 1 \in 0 .. 1, <1>4, <1>6, <2>1, OrderStays
    <3>2. QED
      BY <1>6, <2>2, <2>3, <3>1 DEF WireOK, BufferFirst
  <2>11. QED
    BY <2>8, <2>9, <2>10 DEF WireOK
<1>7. QED
  BY <1>5, <1>6

LEMMA WireTopActive ==
    ASSUME FlowInv, ThreadInv, NEW c \in Blocks, HandleTopActive(c), NEW w \in Wires, WireOK(w)
    PROVE  WireOK(w)'
<1>0. From(w) \in Blocks /\ To(w) \in Blocks
  BY FlowgraphAssumption
<1>1. /\ Answers(c, "TopActive", Only(c, {Plain("SelfKick")})) /\ top.step = 3 /\ c \in starting
      /\ UNCHANGED <<pool, starts_seen, inputs_done>> /\ starting' = starting \ {c}
      /\ state' = [state EXCEPT ![c] = "LIVE"]
  BY TopActiveFlow DEF HandleTopActive
<1>2. /\ MailStep(c, 1, Only(c, {Plain("SelfKick")})) /\ IsAt("start")
      /\ UNCHANGED <<pc, checking, starts, hurried>>
      /\ top'.call = top.call /\ top'.step = top.step
      /\ mailbox[c][1].tokens = {}
  BY <1>1 DEF Answers, MessageOK
<1>3. Runs(w)' => Runs(w)
  <2>1. ThisHurry(From(w))' = ThisHurry(From(w)) /\ Hurried(From(w))' = Hurried(From(w))
    BY <1>2 DEF ThisHurry, Hurried
  <2>2. Pending(w)' => Pending(w)
    BY <1>1, <1>2 DEF Pending, IsAt
  <2>3. ~Hurried(From(w)) => ~ThisHurry(From(w))
    BY DEF Hurried, ThisHurry
  <2>4. From(w) = c => Pending(w)
    BY <1>1, <1>2 DEF Pending
  <2>5. From(w) # c => state'[From(w)] = state[From(w)]
    BY <1>0, <1>1 DEF FlowInv, FlowTypeOK
  <2>6. QED
    BY <2>1, <2>2, <2>3, <2>4, <2>5 DEF Runs
<1>4. TokenOut(w) => TokenOut(w)'
  BY 1 \in 0 .. 1, <1>1, <1>2, TokenOutStays
<1>5. \A m \in Only(c, {Plain("SelfKick")})[To(w)] : m \notin ChecksOn(w) /\ m \notin BuffersOn(w)
  BY <1>0, PostedKinds DEF Only
<1>6. PICK M : MailStep(c, 1, M) /\ \A m \in M[To(w)] : m \notin ChecksOn(w) /\ m \notin BuffersOn(w)
  BY <1>2, <1>5
<1>7. top.step # 1 /\ inputs_done' = inputs_done
  BY <1>1
<1>8. QED
  BY 1 \in 0 .. 1, <1>2, <1>3, <1>4, <1>6, <1>7, WireStays

LEMMA WireToken ==
    ASSUME FlowInv, ThreadInv, NEW c \in Blocks, HandleToken(c), NEW w \in Wires, WireOK(w)
    PROVE  WireOK(w)'
<1>0. From(w) \in Blocks
  BY FlowgraphAssumption
<1>1. /\ pool' = [pool EXCEPT ![c] = @ \cup mailbox[c][1].tokens]
      /\ UNCHANGED <<pc, checking, state, starts_seen, inputs_done, top, starts, starting, hurried>>
  BY <1>0, TokenFlow DEF HandleToken, aux
<1>2. PICK M : MailStep(c, 1, M) /\ \A m \in M[To(w)] : m \notin ChecksOn(w) /\ m \notin BuffersOn(w)
  <2>1. MailStep(c, 1, Only(c, {})) /\ To(w) \in Blocks
    BY TokenFlow, FlowgraphAssumption
  <2>2. QED
    BY <2>1 DEF Only
<1>3. pool[From(w)] \subseteq pool'[From(w)] /\ mailbox[c][1].tokens \subseteq pool'[c]
  BY <1>0, <1>1 DEF FlowInv, FlowTypeOK
<1>4. TokenOut(w) => TokenOut(w)'
  BY 1 \in 0 .. 1, <1>1, <1>2, <1>3, TokenOutStays
<1>5. Runs(w)' => Runs(w)
  BY <1>1 DEF Runs, Pending, ThisHurry, Hurried, IsAt
<1>6. QED
  BY 1 \in 0 .. 1, <1>1, <1>2, <1>4, <1>5, WireStays

LEMMA WireOutputCheck ==
    ASSUME FlowInv, ThreadInv, ThreadInv', NEW c \in Blocks, HandleOutputCheck(c),
           NEW w \in Wires, WireOK(w)
    PROVE  WireOK(w)'
<1>0. From(w) \in Blocks /\ To(w) \in Blocks
  BY FlowgraphAssumption
<1>1. /\ UNCHANGED <<checking, pool, state, starts_seen, inputs_done, top, starts, starting, hurried>>
      /\ pc[c] = "idle" /\ PcTo(c, {"idle", "ends"}) /\ mailbox[c][1].tokens = {}
  BY OutputCheckFlow DEF HandleOutputCheck
<1>2. PICK M : MailStep(c, 1, M) /\ \A m \in M[To(w)] : m \notin ChecksOn(w) /\ m \notin BuffersOn(w)
  <2>1. MailStep(c, 1, Only(c, {}))
    BY OutputCheckFlow
  <2>2. QED
    BY <1>0, <2>1 DEF Only
<1>3. TokenOut(w) => TokenOut(w)'
  BY 1 \in 0 .. 1, <1>1, <1>2, TokenOutStays
<1>4. Runs(w)' => Runs(w)
  BY <1>1 DEF Runs, Pending, ThisHurry, Hurried, IsAt
<1>5. pc'[From(w)] = "tells" => pc[From(w)] = "tells"
  BY <1>0, <1>1 DEF PcTo
<1>6. QED
  BY 1 \in 0 .. 1, <1>1, <1>2, <1>3, <1>4, <1>5, WireStays

LEMMA WireInputCheck ==
    ASSUME FlowInv, ThreadInv, ThreadInv', NEW c \in Blocks, HandleInputCheck(c),
           NEW w \in Wires, WireOK(w)
    PROVE  WireOK(w)'
<1>0. From(w) \in Blocks /\ To(w) \in Blocks
  BY FlowgraphAssumption
<1>1. /\ UNCHANGED <<pool, state, starts_seen, top, starts, starting, hurried>>
      /\ pc[c] = "idle" /\ PcTo(c, {"check", "work", "call"}) /\ mailbox[c][1].tokens = {}
      /\ 1 \in 1 .. Len(mailbox[c]) /\ mailbox[c][1].type = "InputCheck"
      /\ mailbox[c][1].wire \in Ins(c) /\ Got(c) = mailbox[c][1]
  BY InputCheckFlow DEF HandleInputCheck, aux
<1>2. PICK v : v = mailbox[c][1].wire
  OBVIOUS
<1>3. /\ checking' = [checking EXCEPT ![c] = v]
      /\ \A x \in Wires : x # v => (x \in inputs_done' <=> x \in inputs_done)
  BY <1>1, <1>2 DEF HandleInputCheck, Marked
<1>4. PICK M : MailStep(c, 1, M) /\ \A m \in M[To(w)] : m \notin ChecksOn(w) /\ m \notin BuffersOn(w)
  <2>1. MailStep(c, 1, Only(c, {}))
    BY InputCheckFlow
  <2>2. QED
    BY <1>0, <2>1 DEF Only
<1>5. TokenOut(w) => TokenOut(w)'
  BY 1 \in 0 .. 1, <1>1, <1>4, TokenOutStays
<1>6. Runs(w)' => Runs(w)
  BY <1>1 DEF Runs, Pending, ThisHurry, Hurried, IsAt
<1>7. pc'[From(w)] = "tells" => pc[From(w)] = "tells"
  BY <1>0, <1>1 DEF PcTo
<1>8. CASE v # w
  <2>1. checking'[To(w)] = w => checking[To(w)] = w
    BY <1>0, <1>3, <1>8 DEF FlowInv, FlowTypeOK
  <2>2. QED
    BY 1 \in 0 .. 1, <1>1, <1>3, <1>4, <1>5, <1>6, <1>7, <1>8, <2>1, WireStays
<1>9. CASE v = w
  <2>1. To(w) = c /\ Moves(mailbox[c], mailbox'[c], 1, M[c])
    BY <1>1, <1>2, <1>4, <1>9 DEF Ins, MailStep
  <2>2. mailbox[c][1] \in ChecksOn(w)
    BY <1>1, <1>2, <1>9, ElementOfSeq DEF ChecksOn, FlowInv, FlowTypeOK, MailTypeOK
  <2>3. ~Runs(w)
    BY <1>1, <2>1, <2>2 DEF WireOK, WireRuns, None
  <2>4. WireRuns(w)'
    BY <1>6, <2>3 DEF WireRuns
  <2>5. ThisHurry(From(w))' = ThisHurry(From(w)) /\ Hurried(From(w))' = Hurried(From(w))
    BY <1>1 DEF ThisHurry, Hurried
  <2>6. ToldInTime(w)'
    <3>1. Ordered(mailbox[c], ChecksOn(w), TopTokens) => Ordered(mailbox'[c], ChecksOn(w), TopTokens)
      BY 1 \in 0 .. 1, <1>4, <2>1, OrderStays
    <3>2. QED
      BY <1>1, <1>7, <2>1, <2>5, <3>1 DEF WireOK, ToldInTime, IsAt
  <2>7. BufferFirst(w)'
    <3>1. SUFFICES ASSUME Ordered(mailbox[c], BuffersOn(w), ChecksOn(w))
                   PROVE  /\ Ordered(mailbox'[c], BuffersOn(w), ChecksOn(w))
                          /\ None(mailbox'[c], BuffersOn(w))
      BY <2>1, <2>5 DEF WireOK, BufferFirst
    <3>2. Ordered(mailbox'[c], BuffersOn(w), ChecksOn(w))
      BY 1 \in 0 .. 1, <1>4, <2>1, <3>1, OrderStays
    <3>3. \A j \in 1 .. Len(mailbox[c]) : mailbox[c][j] \notin BuffersOn(w)
      BY <1>1, <2>2, <3>1 DEF Ordered
    <3>4. None(mailbox'[c], BuffersOn(w))
      BY 1 \in 0 .. 1, <1>4, <2>1, <3>3, NoneStays DEF None
    <3>5. QED
      BY <3>2, <3>4
  <2>8. QED
    BY <2>4, <2>6, <2>7 DEF WireOK
<1>10. QED
  BY <1>8, <1>9

LEMMA WireEnds ==
    ASSUME FlowInv, ThreadInv, ThreadInv', NEW c \in Blocks, Ends(c), NEW w \in Wires, WireOK(w)
    PROVE  WireOK(w)'
<1>0. From(w) \in Blocks /\ To(w) \in Blocks /\ From(w) # To(w) /\ w # <<>>
  BY FlowgraphAssumption
<1>1. /\ UNCHANGED <<mailbox, starts_seen, inputs_done, top, starts, starting>>
      /\ PcTo(c, {"tells"}) /\ checking' = [checking EXCEPT ![c] = <<>>]
      /\ \A b \in Blocks : pool'[b] = IF b = c THEN {} ELSE pool[b]
      /\ \A b \in Blocks : state'[b] = IF b = c THEN "DONE" ELSE state[b]
      /\ hurried' = IF IsAt("start") /\ (top.step < 3 \/ c \in starting)
                    THEN hurried \cup {<<c, starts>>} ELSE hurried
  BY EndsFlow DEF Ends
<1>2. Hurried(From(w)) => Hurried(From(w))'
  BY <1>1 DEF Hurried
<1>3. From(w) # c => ThisHurry(From(w))' = ThisHurry(From(w))
  BY <1>1 DEF ThisHurry
<1>4. checking'[To(w)] = w => checking[To(w)] = w
  BY <1>0, <1>1 DEF FlowInv, FlowTypeOK
<1>5. BufferFirst(w)'
  BY <1>1, <1>2, <1>4 DEF WireOK, BufferFirst
<1>6. CASE From(w) = c
  <2>1. IsAt("start") /\ (top.step < 3 \/ c \in starting) => ThisHurry(c)'
    BY <1>1 DEF ThisHurry
  <2>2. top.step = 1 \/ top.step = 2 => top.step < 3
    OBVIOUS
  <2>3. Pending(w)' => ThisHurry(c)'
    BY <1>1, <1>6, <2>1, <2>2 DEF Pending, IsAt
  <2>4. ~Runs(w)'
    BY <1>1, <1>6, <2>3 DEF Runs
  <2>5. WireRuns(w)'
    BY <2>4 DEF WireRuns
  <2>6. ToldInTime(w)'
    BY <1>1, <1>6, <2>1, <2>2 DEF ToldInTime, IsAt
  <2>7. QED
    BY <1>5, <2>5, <2>6 DEF WireOK
<1>7. CASE From(w) # c
  <2>1. pc'[From(w)] = pc[From(w)] /\ pool'[From(w)] = pool[From(w)]
        /\ state'[From(w)] = state[From(w)]
    BY <1>0, <1>1, <1>7 DEF PcTo
  <2>2. TokenOut(w)' <=> TokenOut(w)
    BY <1>1, <2>1 DEF TokenOut, InTok
  <2>3. Runs(w)' => Runs(w)
    BY <1>1, <1>2, <1>3, <1>7, <2>1 DEF Runs, Pending, IsAt
  <2>4. WireRuns(w)'
    BY <1>1, <2>1, <2>2, <2>3 DEF WireOK, WireRuns
  <2>5. ToldInTime(w)'
    BY <1>1, <1>3, <1>7, <2>1 DEF WireOK, ToldInTime, IsAt
  <2>6. QED
    BY <1>5, <2>4, <2>5 DEF WireOK
<1>8. QED
  BY <1>6, <1>7

LEMMA WireTells ==
    ASSUME FlowInv, ThreadInv, ThreadInv', NEW c \in Blocks, Tells(c), NEW w \in Wires, WireOK(w)
    PROVE  WireOK(w)'
<1>0. From(w) \in Blocks /\ To(w) \in Blocks
  BY FlowgraphAssumption
<1>1. /\ pc[c] = "tells" /\ PcTo(c, {"idle"}) /\ MailStep(c, 0, ChecksTo(c))
      /\ UNCHANGED <<checking, pool, state, starts_seen, inputs_done, starts, starting, hurried>>
      /\ top' = top \/ (Ack(c) /\ top.call = "stop")
  BY TellsFlow DEF Tells, block, aux
<1>2. /\ top'.call = top.call /\ top'.step = top.step
      /\ top' = top \/ ~IsAt("start")
  BY <1>1, AckFields DEF FlowInv, IsAt
<1>3. Runs(w)' => Runs(w)
  BY <1>1, <1>2 DEF Runs, Pending, ThisHurry, Hurried, IsAt
<1>4. /\ \A m \in ChecksTo(c)[To(w)] : m \notin BuffersOn(w)
      /\ From(w) # c => \A m \in ChecksTo(c)[To(w)] : m \notin ChecksOn(w)
  BY PostedKinds
<1>5. pc'[From(w)] = "tells" => pc[From(w)] = "tells" /\ From(w) # c
  BY <1>0, <1>1 DEF PcTo
<1>6. PICK M : /\ MailStep(c, 0, M) /\ \A m \in M[To(w)] : m \notin BuffersOn(w)
               /\ From(w) # c => \A m \in M[To(w)] : m \notin ChecksOn(w)
  BY <1>1, <1>4
<1>7. CASE From(w) # c
  <2>1. TokenOut(w) => TokenOut(w)'
    BY 0 \in 0 .. 1, <1>1, <1>6, TokenOutStays
  <2>2. IsAt("start") /\ From(w) \notin top'.unanswered => From(w) \notin top.unanswered
    BY <1>2
  <2>3. QED
    BY 0 \in 0 .. 1, <1>1, <1>2, <1>3, <1>5, <1>6, <1>7, <2>1, <2>2, WireStays
<1>8. CASE From(w) = c
  <2>1. ~Runs(w)
    BY <1>1, <1>8 DEF WireOK, WireRuns
  <2>2. WireRuns(w)'
    BY <1>3, <2>1 DEF WireRuns
  <2>3. ThisHurry(From(w))' = ThisHurry(From(w)) /\ Hurried(From(w))' = Hurried(From(w))
    BY <1>1 DEF ThisHurry, Hurried
  <2>4. ToldInTime(w)'
    BY <1>1, <1>2, <1>5, <1>8, <2>3 DEF WireOK, ToldInTime, IsAt
  <2>5. BufferFirst(w)'
    <3>1. PICK e \in 0 .. 1 : Moves(mailbox[To(w)], mailbox'[To(w)], e, M[To(w)])
      BY <1>0, <1>6 DEF MailStep
    <3>2. /\ Ordered(mailbox[To(w)], BuffersOn(w), ChecksOn(w)) =>
                 Ordered(mailbox'[To(w)], BuffersOn(w), ChecksOn(w))
          /\ None(mailbox[To(w)], BuffersOn(w)) => None(mailbox'[To(w)], BuffersOn(w))
      BY <1>6, <3>1, OrderStays, NoneStays
    <3>3. QED
      BY <1>1, <2>3, <3>2 DEF WireOK, BufferFirst
  <2>6. QED
    BY <2>2, <2>4, <2>5 DEF WireOK
<1>9. QED
  BY <1>7, <1>8

LEMMA WireSendTop ==
    ASSUME FlowInv, NEW c \in Blocks, SendTop(c), NEW w \in Wires, WireOK(w)
    PROVE  WireOK(w)'
<1>0. From(w) \in Blocks /\ To(w) \in Blocks
  BY FlowgraphAssumption
<1>1. /\ UNCHANGED <<pc, checking, pool, state, starts_seen, inputs_done, starts, starting, hurried>>
      /\ top'.call = top.call /\ top'.step = top.step /\ top'.unanswered = top.unanswered
      /\ MailStep(c, 0, Only(c, {TopMessage}))
      /\ TopMessage.type \in {"TopThread", "TopToken", "TopActive", "TopInert"}
  BY SendTopFlow DEF SendTop, block, aux
<1>2. PICK M : MailStep(c, 0, M) /\ \A m \in M[To(w)] : m \notin ChecksOn(w) /\ m \notin BuffersOn(w)
  BY <1>0, <1>1 DEF Only, ChecksOn, BuffersOn
<1>3. TokenOut(w) => TokenOut(w)'
  BY 0 \in 0 .. 1, <1>1, <1>2, TokenOutStays
<1>4. Runs(w)' => Runs(w)
  BY <1>1 DEF Runs, Pending, ThisHurry, Hurried, IsAt
<1>5. QED
  BY 0 \in 0 .. 1, <1>1, <1>2, <1>3, <1>4, WireStays

LEMMA WireStill ==
    ASSUME Still, NEW w \in Wires, WireOK(w)
    PROVE  WireOK(w)'
<1>1. WireRuns(w)'
  BY DEF Still, WireOK, WireRuns, Runs, Pending, ThisHurry, Hurried, TokenOut, InTok, IsAt, aux
<1>2. ToldInTime(w)' /\ BufferFirst(w)'
  BY DEF Still, WireOK, ToldInTime, BufferFirst, ThisHurry, Hurried, IsAt, aux
<1>3. QED
  BY <1>1, <1>2 DEF WireOK

LEMMA WireCall ==
    ASSUME FlowInv, CallStep, NEW w \in Wires, WireOK(w)
    PROVE  WireOK(w)'
<1>0. From(w) \in Blocks
  BY FlowgraphAssumption
<1>1. /\ UNCHANGED <<mailbox, pc, checking, state, pool, starts_seen, inputs_done, hurried>>
      /\ top' \in {Calling("start"), Calling("stop"), Returns("wait"), Returns("ended")}
  BY DEF CallStep, Start, Stop, Wait, WaitReturns, block, aux
<1>2. ~IsAt("start")' \/ (top'.step = 1 /\ From(w) \in top'.unanswered)
  BY <1>0, <1>1 DEF IsAt, Calling, Returns
<1>3. ~Pending(w)'
  BY <1>2 DEF Pending, IsAt
<1>4. Hurried(From(w))' = Hurried(From(w))
  BY <1>1 DEF Hurried
<1>5. TokenOut(w)' <=> TokenOut(w)
  BY <1>1 DEF TokenOut, InTok
<1>6. Runs(w)' => Runs(w)
  BY <1>1, <1>3, <1>4 DEF Runs
<1>7. WireRuns(w)' /\ ToldInTime(w)' /\ BufferFirst(w)'
  BY <1>1, <1>2, <1>4, <1>5, <1>6 DEF WireOK, WireRuns, ToldInTime, BufferFirst, IsAt
<1>8. QED
  BY <1>7 DEF WireOK

LEMMA WireAnswered ==
    ASSUME FlowInv, Answered, NEW w \in Wires, WireOK(w)
    PROVE  WireOK(w)'
<1>0. From(w) \in Blocks /\ To(w) \in Blocks
  BY FlowgraphAssumption
<1>1. /\ UserStep /\ starts' = starts /\ top.unanswered = {} /\ hurried' = ThisStart(hurried)
      /\ \/ IsAt("start") /\ top.step = 1 /\ top' = Broadcasting("start", 2)
         \/ IsAt("start") /\ top.step = 2 /\ top' = Broadcasting("start", 3)
         \/ IsAt("start") /\ top.step = 3 /\ top' = Returns("started")
         \/ IsAt("stop") /\ top' = Returns("stopped")
  BY AnsweredFlow
<1>2. UNCHANGED <<mailbox, pc, checking, state, pool, starts_seen, inputs_done, starting>>
  BY <1>1 DEF UserStep
<1>3. ThisHurry(From(w))' = ThisHurry(From(w))
  BY <1>1, ThisStartKeeps DEF ThisHurry
<1>4. TokenOut(w)' <=> TokenOut(w)
  BY <1>2 DEF TokenOut, InTok
<1>5. CASE IsAt("start") /\ top.step = 2 /\ top' = Broadcasting("start", 3)
  <2>1. top'.call = "start" /\ top'.step = 3
    BY <1>5 DEF Broadcasting
  <2>2. ~ThisHurry(From(w)) => Runs(w)
    BY <1>0, <1>1, <1>5 DEF Runs, Pending
  <2>3. ~Hurried(From(w))' => ~ThisHurry(From(w))
    BY <1>1, <1>3 DEF Hurried, ThisHurry
  <2>4. Runs(w)' => Runs(w)
    BY <1>3, <2>2, <2>3 DEF Runs
  <2>5. WireRuns(w)'
    BY <1>2, <1>4, <2>4 DEF WireOK, WireRuns
  <2>6. ToldInTime(w)'
    BY <2>1 DEF ToldInTime
  <2>7. BufferFirst(w)'
    <3>1. SUFFICES ASSUME ~Hurried(From(w))'
                   PROVE  /\ Ordered(mailbox[To(w)], BuffersOn(w), ChecksOn(w)) /\ w \notin inputs_done
      BY <1>2 DEF BufferFirst
    <3>2. None(mailbox[To(w)], ChecksOn(w)) /\ w \notin inputs_done
      BY <2>2, <2>3, <3>1 DEF WireOK, WireRuns
    <3>3. QED
      BY <3>2 DEF None, Ordered
  <2>8. QED
    BY <2>5, <2>6, <2>7 DEF WireOK
<1>6. CASE ~(IsAt("start") /\ top.step = 2)
  <2>1. hurried' = hurried
    BY <1>1, <1>6 DEF ThisStart
  <2>2. Hurried(From(w))' = Hurried(From(w))
    BY <2>1 DEF Hurried
  <2>3. \/ IsAt("start") /\ top.step = 1 /\ top'.call = "start" /\ top'.step = 2
           /\ top'.unanswered = Blocks
        \/ top'.call # "start"
    BY <1>1, <1>6 DEF Broadcasting, Returns
  <2>4. ~Pending(w)'
    BY <1>0, <2>3 DEF Pending, IsAt
  <2>5. WireRuns(w)' /\ BufferFirst(w)'
    BY <1>2, <1>4, <2>2, <2>4 DEF WireOK, WireRuns, BufferFirst, Runs
  <2>6. ToldInTime(w)'
    <3>1. SUFFICES ASSUME top'.call = "start", ~ThisHurry(From(w))
                   PROVE  /\ pc[From(w)] # "tells"
                          /\ Ordered(mailbox[To(w)], ChecksOn(w), TopTokens)
      BY <1>2, <1>3 DEF ToldInTime, IsAt
    <3>2. IsAt("start") /\ top.step = 1
      BY <2>3, <3>1
    <3>3. pc[From(w)] # "tells"
      BY <1>1, <3>1, <3>2 DEF WireOK, ToldInTime
    <3>4. \A k \in 1 .. Len(mailbox[To(w)]) : mailbox[To(w)][k] \notin TopTokens
      BY <1>0, <1>1 DEF FlowInv, ReplyOK, MessageOK, Asked, TopTokens
    <3>5. QED
      BY <3>3, <3>4 DEF Ordered
  <2>7. QED
    BY <2>5, <2>6 DEF WireOK
<1>7. QED
  BY <1>1, <1>5, <1>6 DEF IsAt

LEMMA WiresInvNext ==
    ASSUME WiresInv, FlowInv, ThreadInv, ThreadInv', [Next]_vars
    PROVE  WiresInv'
<1>1. ASSUME NEW w \in Wires PROVE WireOK(w)'
  <2>1. WireOK(w)
    BY DEF WiresInv
  <2>2. ASSUME NEW c \in Blocks, BlockStep(c) PROVE WireOK(w)'
    BY <2>1, <2>2, WirePlain, WireTopToken, WireTopActive, WireToken, WireInputCheck,
       WireOutputCheck, WireEnds, WireTells, WireSendTop DEF BlockStep
  <2>3. QED
    BY <2>1, <2>2, StepKinds, WireStill, WireCall, WireAnswered
<1>2. QED
  BY <1>1 DEF WiresInv

LEMMA WiresInvInit == Init => WiresInv
<1> SUFFICES ASSUME Init, NEW w \in Wires PROVE WireOK(w)
  BY DEF WiresInv
<1>1. /\ From(w) \in Blocks /\ To(w) \in Blocks /\ mailbox[To(w)] = <<>> /\ inputs_done = {}
      /\ state[From(w)] = "INIT" /\ ~IsAt("start")
  BY FlowgraphAssumption DEF Init, IsAt, Returns
<1>2. QED
  BY <1>1 DEF WireOK, WireRuns, ToldInTime, BufferFirst, Runs, Pending, Ordered, None

\* only the rest of an InputCheck leads from there to the end
LEMMA CheckMoves ==
    ASSUME FlowInv, ThreadInv, [Next]_vars, NEW t \in Blocks, pc[t] = "check", pc'[t] = "ends"
    PROVE  CheckInput(t)
<1>0. pc' # pc
  OBVIOUS
<1>1. ASSUME NEW b \in Blocks, Handler(b) PROVE CheckInput(t)
  <2>1. CASE b # t \/ pc[b] # "check"
    <3>1. \A c \in Blocks : c # b => pc'[c] = pc[c]
      <4>1. CASE HandleTopThread(b) \/ HandleTopInert(b) \/ CheckInput(b) \/ Ends(b) \/ Tells(b)
        BY <4>1, GoesTo, MarkDoneTo DEF HandleTopThread, HandleTopInert, CheckInput, Ends, Tells, PcTo
      <4>2. CASE HandleTopToken(b) \/ HandleTopActive(b) \/ HandleToken(b)
        BY <4>2 DEF HandleTopToken, HandleTopActive, HandleToken
      <4>3. CASE HandleInputBuffer(b) \/ HandleSelfKick(b) \/ HandleInputCheck(b)
        BY <4>3, TaskTo DEF HandleInputBuffer, HandleSelfKick, HandleInputCheck, PcTo
      <4>4. CASE HandleOutputCheck(b)
        BY <4>4, MarkDoneTo DEF HandleOutputCheck, PcTo
      <4>5. CASE Work(b)
        BY <4>5, GoesTo DEF Work, PostWork, PcTo
      <4>6. QED
        BY <1>1, <4>1, <4>2, <4>3, <4>4, <4>5 DEF Handler
    <3>2. b = t
      BY <3>1
    <3>3. QED
      BY <2>1, <3>2
  <2>2. CASE b = t /\ pc[b] = "check"
    BY <1>1, <2>2 DEF Handler, HandleTopThread, HandleTopToken, HandleTopActive, HandleTopInert,
       HandleToken, HandleInputBuffer, HandleSelfKick, HandleInputCheck, HandleOutputCheck, Takes,
       Work, Ends, Tells
  <2>3. QED
    BY <2>1, <2>2
<1>2. ASSUME NEW b \in Threaded, ThreadedStep(b) PROVE CheckInput(t)
  <2>0. b \in Blocks
    BY FlowgraphAssumption
  <2>1. CASE CreatesThread(b) \/ Calls(b) \/ CallReturns(b)
    <3>1. \A c \in Blocks : c # b => pc'[c] = pc[c]
      BY <2>0, <2>1, GoesTo DEF CreatesThread, Calls, CallReturns, PostWork, PcTo
    <3>2. pc[b] # "check"
      BY <2>1 DEF CreatesThread, Calls, CallReturns
    <3>3. QED
      BY <3>1, <3>2
  <2>2. CASE ErasesThread(b) \/ ThreadHandshake(b)
    BY <1>0, <2>2 DEF ErasesThread, ThreadHandshake
  <2>3. QED
    BY <1>2, <2>1, <2>2 DEF ThreadedStep
<1>3. pc' = pc \/ (\E b \in Blocks : Handler(b)) \/ \E b \in Threaded : ThreadedStep(b)
  BY DEF Next, WaitPolls, ThreadWorks, ThreadThrows, ThreadEnds, User, Start, Stop, Wait,
     BcastPrioMsg, Answered, SendTop, WaitReturns, vars
<1>4. QED
  BY <1>0, <1>1, <1>2, <1>3

TakesAll ==
    \A w \in Wires :
        pc[To(w)] = "check" /\ checking[To(w)] = w /\ pc'[To(w)] = "ends" /\ ~Hurried(From(w))
        => /\ queue[w] = 0 /\ state[From(w)] # "LIVE"
           /\ \A k \in DOMAIN mailbox[To(w)] :
                  mailbox[To(w)][k].type = "InputBuffer" => mailbox[To(w)][k].wire # w

LEMMA CheckTakesAll == WiresInv /\ FlowInv /\ ThreadInv /\ [Next]_vars => TakesAll
<1> SUFFICES ASSUME WiresInv, FlowInv, ThreadInv, [Next]_vars, NEW w \in Wires, pc[To(w)] = "check",
                    checking[To(w)] = w, pc'[To(w)] = "ends", ~Hurried(From(w))
             PROVE  /\ queue[w] = 0 /\ state[From(w)] # "LIVE"
                    /\ \A k \in DOMAIN mailbox[To(w)] :
                           mailbox[To(w)][k].type = "InputBuffer" => mailbox[To(w)][k].wire # w
  BY DEF TakesAll
<1>0. To(w) \in Blocks
  BY FlowgraphAssumption
<1>1. CheckInput(To(w))
  BY <1>0, CheckMoves
<1>2. InputEnded(To(w), w)
  <2>1. CASE ~InputEnded(To(w), w)
    <3>1. Goes(To(w), "idle")
      BY <1>1, <2>1 DEF CheckInput
    <3>2. QED
      BY <1>0, <3>1, GoesTo DEF PcTo
  <2>2. QED
    BY <2>1
<1>3. w \in inputs_done /\ queue[w] = 0
  BY <1>2 DEF InputEnded, Ins
<1>4. WireOK(w)
  BY DEF WiresInv
<1>5. state[From(w)] # "LIVE"
  BY <1>3, <1>4 DEF WireOK, WireRuns, Runs
<1>6. None(mailbox[To(w)], BuffersOn(w))
  BY <1>3, <1>4 DEF WireOK, BufferFirst
<1>7. mailbox[To(w)] \in Seq(Msgs)
  BY <1>0 DEF FlowInv, FlowTypeOK, MailTypeOK
<1>8. \A k \in 1 .. Len(mailbox[To(w)]) : mailbox[To(w)][k] \in Msgs
  BY <1>7, ElementOfSeq
<1>9. DOMAIN mailbox[To(w)] = 1 .. Len(mailbox[To(w)])
  BY <1>7, LenProperties
<1>10. QED
  BY <1>3, <1>5, <1>6, <1>8, <1>9 DEF None, BuffersOn

(* A block that ends because its input ended has taken all that the other  *)
(* end sent on it, and the other end is done, in every flow graph: the     *)
(* check travels behind the last buffer.  The premise ~Hurried is needed.  *)
THEOREM EndingTakesAll == Spec => EndTakesAll
<1>1. WiresInv /\ FlowInv /\ ThreadInv /\ ThreadInv' /\ [Next]_vars => WiresInv'
  BY WiresInvNext
<1>2. Spec => []WiresInv
  BY <1>1, WiresInvInit, FlowAlways, InitThreads, NextKeeps, PTL DEF Spec
<1>3. Spec => [][TakesAll]_vars
  BY <1>2, FlowAlways, CheckTakesAll, PTL DEF Spec
<1>4. [][TakesAll]_vars => EndTakesAll
  BY DEF TakesAll, EndTakesAll
<1>5. QED
  BY <1>3, <1>4
============================================================================
