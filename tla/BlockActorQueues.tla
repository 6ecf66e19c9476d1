-------------------------- MODULE BlockActorQueues --------------------------
(***************************************************************************)
(* The queues of the ports.  An input's bit in inputs_available covers its *)
(* queue, the byte counter agrees with the buffers, a block that ends by   *)
(* itself has drained the input that ended, an output whose reserve is at  *)
(* most what the pool keeps free is never wedged, and a pool neither loses *)
(* nor gains a buffer.  The last theorems use the token of                 *)
(* BlockActorWakeup: a bit that is set stands for input, a block that ends *)
(* has drained, front() shows the reserve of a block without messages, and *)
(* a failed lone input waits for more.                                     *)
(***************************************************************************)
EXTENDS BlockActorWakeup, FiniteSetTheorems

-----------------------------------------------------------------------------
(* One input port.                                                         *)

QueueOK(p) == IF p.ends = {} THEN p.length = 0
              ELSE p.length \in p.ends /\ \A e \in p.ends : e <= p.length

\* f: the input is in failed
Covered(p, f) ==
    p.avail \/ /\ p.msgs = 0
               /\ p.ends = {} \/ p.length < p.reserve \/ f

\* the ready bit may be lowered only for want of items, or by mark_input_fail
Exact(p, f) == p.ready \/ p.msgs > 0 \/ p.length < p.reserve \/ f

\* The reserve of an input is a number of items.
LEMMA Reserves == \A p \in InputPort : p.reserve \in Nat
<1>1. \A p \in InputPort : p.reserve \in InReserves
  BY DEF InputPort
<1> QED BY <1>1, Constants

\* update_input_avail leaves no input behind that the ready bit describes.
LEMMA UpdateCovers ==
    ASSUME NEW p \in InputPort, NEW f \in BOOLEAN
    PROVE  /\ Exact(p, f) => Covered(UpdateInputAvail(p), f)
           /\ QueueOK(p) => QueueOK(UpdateInputAvail(p))
<1>1. p.msgs \in Nat /\ p.length \in Nat /\ p.reserve \in Nat
  BY Reserves DEF InputPort
<1>2. /\ UpdateInputAvail(p).avail <=> (p.ends # {} /\ p.ready) \/ p.msgs > 0
      /\ UpdateInputAvail(p).ends = p.ends /\ UpdateInputAvail(p).msgs = p.msgs
      /\ UpdateInputAvail(p).length = p.length
      /\ UpdateInputAvail(p).reserve = p.reserve
  BY DEF UpdateInputAvail, InputPort
<1> QED BY <1>1, <1>2 DEF Exact, Covered, QueueOK

\* push, stitched to the last buffer or not.
LEMMA PushSound ==
    ASSUME NEW p \in InputPort, NEW n \in Nat, NEW b \in BOOLEAN
    PROVE  /\ Exact(Push(p, n, b), FALSE)
           /\ QueueOK(p) => QueueOK(Push(p, n, b))
<1>1. p.length \in Nat /\ p.reserve \in Nat /\ p.ends \subseteq Nat
  BY Reserves DEF InputPort
<1>2. /\ Push(p, n, b).ends = (IF b THEN p.ends \ {p.length} ELSE p.ends)
                              \cup {p.length + n}
      /\ Push(p, n, b).length = p.length + n
      /\ Push(p, n, b).ready <=> p.length + n >= p.reserve
      /\ Push(p, n, b).reserve = p.reserve
  BY DEF Push, InputPort
<1> QED BY <1>1, <1>2 DEF Exact, QueueOK

\* accumulate and front keep what the two bits say.
LEMMA FrontSound ==
    ASSUME NEW p \in InputPort, NEW f \in BOOLEAN, QueueOK(p)
    PROVE  /\ QueueOK(Accumulate(p)) /\ QueueOK(Front(p))
           /\ Covered(p, f) => Covered(Front(p), f)
           /\ Exact(p, f) => Exact(Accumulate(p), f)
<1>1. p.length \in Nat /\ p.ends \subseteq Nat /\ InMaximum \in Nat
  BY Constants DEF InputPort
<1> DEFINE n == IF p.length <= InMaximum THEN p.length ELSE InMaximum
<1>2. CASE IsAccumulated(p)
  BY <1>2 DEF Front, Accumulate
<1>3. CASE ~IsAccumulated(p)
  <2>1. p.ends # {}
    BY <1>3 DEF IsAccumulated
  <2>2. /\ Accumulate(p).ends = {e \in p.ends : e > n} \cup {n}
        /\ Accumulate(p).length = p.length
        /\ Accumulate(p).reserve = p.reserve /\ Accumulate(p).msgs = p.msgs
        /\ Accumulate(p).ready = p.ready /\ Accumulate(p).avail = p.avail
    BY <1>3 DEF Accumulate, InputPort
  <2>3. QueueOK(Accumulate(p))
    BY <1>1, <2>1, <2>2 DEF QueueOK
  <2>4. Covered(p, f) => Covered(Accumulate(p), f)
    BY <2>1, <2>2 DEF Covered
  <2>5. Exact(p, f) => Exact(Accumulate(p), f)
    BY <2>2 DEF Exact
  <2> QED BY <2>3, <2>4, <2>5 DEF Front
<1> QED BY <1>2, <1>3

\* consume, no more than the front holds; what is left may be unstitched.
LEMMA ConsumeSound ==
    ASSUME NEW p \in InputPort, NEW n \in Nat, NEW b \in BOOLEAN,
           NEW f \in BOOLEAN, QueueOK(p), n <= p.length
    PROVE  /\ QueueOK(Consume(p, n, b))
           /\ Exact(p, f) => Exact(Consume(p, n, b), f)
<1>1. p.length \in Nat /\ p.ends \subseteq Nat /\ p.reserve \in Nat
  BY Reserves DEF InputPort
<1>2. CASE n = 0
  BY <1>2 DEF Consume
<1>3. CASE n # 0
  <2> DEFINE rest == {e - n : e \in {x \in p.ends : x > n}}
             kept == IF b /\ \E e, x \in rest : e # x
                     THEN {e \in rest : \E x \in rest : x < e} ELSE rest
  <2>1. p.ends # {} /\ p.length \in p.ends /\ \A e \in p.ends : e <= p.length
    BY <1>1, <1>3 DEF QueueOK
  <2>2. \A e \in rest : e \in Nat /\ e <= p.length - n
    BY <1>1, <2>1
  <2>3. IF p.length = n THEN rest = {} ELSE p.length - n \in rest
    BY <1>1, <2>1
  <2>4. IF p.length = n THEN kept = {} ELSE p.length - n \in kept
    <3>1. CASE p.length = n
      BY <2>3, <3>1
    <3>2. CASE p.length # n /\ ~(b /\ \E e, x \in rest : e # x)
      BY <2>3, <3>2
    <3>3. CASE p.length # n /\ b /\ \E e, x \in rest : e # x
      <4>1. PICK x \in rest : x # p.length - n
        BY <3>3
      <4>2. x < p.length - n /\ p.length - n \in rest
        BY <1>1, <2>2, <2>3, <3>3, <4>1
      <4> HIDE DEF rest
      <4> QED BY <3>3, <4>2
    <3> QED BY <3>1, <3>2, <3>3
  <2>5. kept \subseteq rest
    OBVIOUS
  <2>6. /\ Consume(p, n, b).ends = kept
        /\ Consume(p, n, b).length = p.length - n
        /\ Consume(p, n, b).ready <=> p.length - n >= p.reserve
        /\ Consume(p, n, b).reserve = p.reserve
    BY <1>3 DEF Consume, InputPort
  <2> HIDE DEF rest, kept
  <2>7. QueueOK(Consume(p, n, b))
    BY <1>1, <2>2, <2>4, <2>5, <2>6 DEF QueueOK
  <2>8. Exact(Consume(p, n, b), f)
    BY <1>1, <2>6 DEF Exact
  <2> QED BY <2>7, <2>8
<1> QED BY <1>2, <1>3

-----------------------------------------------------------------------------
(* Every input, in every step.                                             *)

QueuesOK == /\ \A i \in Inputs : QueueOK(in[i]) /\ Covered(in[i], i \in failed)
            /\ \A i, j \in checking : i = j

\* Rewriting the bits and the configuration that the queue does not depend on.
LEMMA QueuesSame ==
    ASSUME QueuesOK, failed' = failed, checking' \in {checking, {}},
           \A i \in Inputs : /\ in'[i].ends = in[i].ends
                             /\ in'[i].length = in[i].length
                             /\ in'[i].msgs = in[i].msgs
                             /\ in'[i].avail = in[i].avail
                             /\ in'[i].reserve = in[i].reserve
    PROVE  QueuesOK'
<1>1. \A i \in Inputs : QueueOK(in'[i]) /\ Covered(in'[i], i \in failed')
  BY DEF QueuesOK, QueueOK, Covered
<1> QED BY <1>1 DEF QueuesOK

\* mark_done empties every input.
LEMMA QueuesMarkDone ==
    ASSUME Typed, QueuesOK, NEW outs, MarkDone(in, outs),
           checking' \in {checking, {}}
    PROVE  QueuesOK'
<1>1. CASE block_state = "DONE"
  BY <1>1, QueuesSame DEF MarkDone, aux
<1>2. CASE block_state # "DONE"
  <2>1. \A p \in InputPort : /\ FlushInput(p).ends = {}
                             /\ FlushInput(p).length = 0
                             /\ FlushInput(p).msgs = 0
    BY DEF FlushInput, InputPort
  <2>2. in' = [i \in Inputs |-> FlushInput(in[i])]
    BY <1>2 DEF MarkDone
  <2> QED BY <2>1, <2>2 DEF Typed, TypeOK, QueuesOK, QueueOK, Covered
<1> QED BY <1>1, <1>2

\* A handler that changes the input its message names.
LEMMA QueuesOnePort ==
    ASSUME Typed, QueuesOK, NEW i \in Inputs, NEW p,
           in' = [in EXCEPT ![i] = p], QueueOK(p), Covered(p, FALSE),
           failed' = failed \ {i}, checking' = checking
    PROVE  QueuesOK'
<1>1. \A j \in Inputs : in'[j] = IF j = i THEN p ELSE in[j]
  BY DEF Typed, TypeOK
<1>2. ASSUME NEW j \in Inputs
      PROVE  QueueOK(in'[j]) /\ Covered(in'[j], j \in failed')
  BY <1>1 DEF QueuesOK, Covered
<1> QED BY <1>2 DEF QueuesOK

\* task_main after work(): ins are the inputs as work() leaves them.
LEMMA QueuesPostWork ==
    ASSUME Typed, QueuesOK, NEW ins \in [Inputs -> InputPort], NEW outs,
           NEW eaten \in [Inputs -> Nat], NEW popped \in [Inputs -> Nat],
           NEW un \in [Inputs -> BOOLEAN], NEW made, NEW kicks,
           \A i \in Inputs : /\ QueueOK(ins[i])
                             /\ eaten[i] <= ins[i].length
                             /\ popped[i] <= ins[i].msgs
                             /\ ~ins[i].ready /\ ins[i].msgs = popped[i]
                                    => i \in failed',
           PostWork(ins, outs, eaten, popped, un, made, kicks)
    PROVE  QueuesOK'
<1>1. ASSUME NEW i \in Inputs
      PROVE  QueueOK(in'[i]) /\ Covered(in'[i], i \in failed')
  <2> DEFINE p == [ins[i] EXCEPT !.msgs = @ - popped[i]]
             q == Consume(p, eaten[i], un[i])
             f == i \in failed'
  <2>1. /\ p \in InputPort /\ p.ends = ins[i].ends /\ p.length = ins[i].length
        /\ p.msgs = ins[i].msgs - popped[i] /\ p.ready = ins[i].ready
    <3>1. ins[i] \in InputPort /\ ins[i].msgs - popped[i] \in Nat
      BY DEF InputPort
    <3> QED BY <3>1 DEF InputPort
  <2>2. QueueOK(p) /\ Exact(p, f)
    <3>1. ins[i].msgs \in Nat /\ popped[i] \in Nat
      BY DEF InputPort
    <3> QED BY <2>1, <3>1 DEF QueueOK, Exact
  <2>3. in'[i] = UpdateInputAvail(q) /\ f \in BOOLEAN
    BY DEF PostWork
  <2> HIDE DEF p, f
  <2>4. QueueOK(q) /\ Exact(q, f) /\ q \in InputPort
    BY <2>1, <2>2, <2>3, ConsumeSound, InputOps
  <2> HIDE DEF q
  <2>5. QueueOK(in'[i]) /\ Covered(in'[i], f)
    BY <2>3, <2>4, UpdateCovers
  <2> QED BY <2>5 DEF f
<1> QED BY <1>1 DEF PostWork, QueuesOK

\* commit_config writes only the configuration of a port; nobody else outside
\* the actor writes to a port at all.
LEMMA QueuesEnvironment == ASSUME Typed, QueuesOK, Environment PROVE QueuesOK'
<1>1. ASSUME in' = in, failed' = failed, checking' = checking PROVE QueuesOK'
  BY <1>1, QueuesSame
<1>2. ASSUME NEW ins, NEW outs, CommitConfig(ins, outs) PROVE QueuesOK'
  <2>1. \A r : \A p \in InputPort :
            /\ [p EXCEPT !.config = r].ends = p.ends
            /\ [p EXCEPT !.config = r].length = p.length
            /\ [p EXCEPT !.config = r].msgs = p.msgs
            /\ [p EXCEPT !.config = r].avail = p.avail
            /\ [p EXCEPT !.config = r].reserve = p.reserve
    BY DEF InputPort
  <2>2. /\ in' = [i \in Inputs |-> [in[i] EXCEPT !.config = ins[i]]]
        /\ failed' = failed /\ checking' = checking
    BY <1>2 DEF CommitConfig, handler, aux
  <2>3. \A i \in Inputs : in[i] \in InputPort
    BY DEF Typed, TypeOK
  <2>4. \A i \in Inputs : /\ in'[i].ends = in[i].ends
                          /\ in'[i].length = in[i].length
                          /\ in'[i].msgs = in[i].msgs
                          /\ in'[i].avail = in[i].avail
                          /\ in'[i].reserve = in[i].reserve
    <3>1. SUFFICES ASSUME NEW i \in Inputs
                   PROVE  LET p == in'[i] IN
                          /\ p.ends = in[i].ends /\ p.length = in[i].length
                          /\ p.msgs = in[i].msgs /\ p.avail = in[i].avail
                          /\ p.reserve = in[i].reserve
      OBVIOUS
    <3>2. in'[i] = [in[i] EXCEPT !.config = ins[i]]
      BY <2>2
    <3> QED BY <2>1, <2>3, <3>2
  <2> QED BY <2>2, <2>4, QueuesSame
<1>3. CASE ~ \E ins \in [Inputs -> InReserves], outs \in [Outputs -> OutReserves] :
                 CommitConfig(ins, outs)
  BY <1>1, <1>3 DEF Environment, UpstreamActive, UpstreamSends,
     UpstreamPostsMsg, UpstreamDone, DownstreamReturns, DownstreamDone,
     CallProperty, QueryStats, ReleaseCopy, StartStep, StartAgain, Stop,
     WaitPoll, Ask, handler, block, aux
<1> QED BY <1>2, <1>3

\* The handlers of input ports, allocation, start and stop keep QueuesOK.
LEMMA QueuesHandlers ==
    ASSUME Typed, QueuesOK
    PROVE  /\ HandleInputBuffer => QueuesOK'
           /\ HandleInputMsg => QueuesOK'
           /\ HandleInputCheck => QueuesOK'
           /\ HandleInputUpdate => QueuesOK'
           /\ HandleTopToken => QueuesOK'
           /\ HandleTopInert => QueuesOK'
           /\ HandleOutputCheck => QueuesOK'
<1> \A i \in Inputs : in[i] \in InputPort /\ QueueOK(in[i])
  BY DEF Typed, TypeOK, QueuesOK
<1>1. ASSUME Dropped PROVE QueuesOK'
  BY <1>1, QueuesSame DEF Dropped, handler, block, aux
<1>2. ASSUME HandleInputBuffer PROVE QueuesOK'
  <2>1. Msg.port \in Inputs /\ Msg.num \in Nat
    BY <1>2, Received DEF HandleInputBuffer, InputMsgs, Typed
  <2>2. CASE ~Dropped
    <3>1. PICK b \in BOOLEAN :
              in' = [in EXCEPT ![Msg.port] =
                        UpdateInputAvail(Push(in[Msg.port], Msg.num, b))]
      BY <1>2, <2>2 DEF HandleInputBuffer
    <3> DEFINE p == Push(in[Msg.port], Msg.num, b)
    <3>2. p \in InputPort /\ QueueOK(p) /\ Exact(p, FALSE)
      BY <2>1, PushSound, InputOps
    <3>3. failed' = failed \ {Msg.port} /\ checking' = checking
      BY <1>2, <2>2 DEF HandleInputBuffer, ThenMain
    <3> HIDE DEF p
    <3> QED BY <2>1, <3>1, <3>2, <3>3, UpdateCovers, QueuesOnePort DEF p
  <2> QED BY <1>1, <2>2
<1>3. ASSUME HandleInputMsg PROVE QueuesOK'
  <2>1. Msg.port \in Inputs
    BY <1>3, Received DEF HandleInputMsg, InputMsgs, Typed
  <2>2. CASE ~Dropped
    <3> DEFINE p == PushMsg(in[Msg.port])
    <3>1. p \in InputPort /\ QueueOK(p) /\ Exact(p, FALSE)
      <4>1. \A q \in InputPort : /\ PushMsg(q) \in InputPort
                                 /\ PushMsg(q).msgs > 0
                                 /\ PushMsg(q).ends = q.ends
                                 /\ PushMsg(q).length = q.length
        BY DEF InputPort, PushMsg
      <4> QED BY <2>1, <4>1 DEF QueueOK, Exact
    <3>2. /\ in' = [in EXCEPT ![Msg.port] = UpdateInputAvail(p)]
          /\ failed' = failed \ {Msg.port} /\ checking' = checking
      BY <1>3, <2>2 DEF HandleInputMsg, ThenMain
    <3> HIDE DEF p
    <3> QED BY <2>1, <3>1, <3>2, UpdateCovers, QueuesOnePort
  <2> QED BY <1>1, <2>2
<1>4. ASSUME HandleInputCheck PROVE QueuesOK'
  <2> DEFINE b == upstream[Msg.port] = "absent"
  <2>1. \A p \in InputPort : /\ [p EXCEPT !.done = b].ends = p.ends
                             /\ [p EXCEPT !.done = b].length = p.length
                             /\ [p EXCEPT !.done = b].msgs = p.msgs
                             /\ [p EXCEPT !.done = b].avail = p.avail
                             /\ [p EXCEPT !.done = b].reserve = p.reserve
    BY DEF InputPort
  <2>2. /\ in' = [in EXCEPT ![Msg.port] = [in[Msg.port] EXCEPT !.done = b]]
        /\ failed' = failed /\ checking' = {Msg.port}
    BY <1>4 DEF HandleInputCheck, aux
  <2>3. \A i \in Inputs : QueueOK(in'[i]) /\ Covered(in'[i], i \in failed')
    BY <2>1, <2>2 DEF Typed, TypeOK, QueuesOK, QueueOK, Covered
  <2> QED BY <2>2, <2>3 DEF QueuesOK
<1>5. ASSUME HandleInputUpdate PROVE QueuesOK'
  <2>1. Msg.port \in Inputs
    BY <1>5, Received DEF HandleInputUpdate, InputMsgs, Typed
  <2> DEFINE p == [in[Msg.port] EXCEPT !.reserve = in[Msg.port].config]
             q == [p EXCEPT !.ready = p.length >= p.reserve]
  <2>2. /\ p \in InputPort /\ p.ends = in[Msg.port].ends
        /\ p.length = in[Msg.port].length
    <3>1. \A x \in InputPort : /\ [x EXCEPT !.reserve = x.config] \in InputPort
                               /\ [x EXCEPT !.reserve = x.config].ends = x.ends
                               /\ [x EXCEPT !.reserve = x.config].length = x.length
      BY DEF InputPort
    <3> QED BY <2>1, <3>1
  <2>3. q \in InputPort /\ QueueOK(q) /\ Exact(q, FALSE)
    <3>1. p.length \in Nat /\ p.reserve \in Nat /\ QueueOK(p)
      BY <2>1, <2>2, Reserves DEF InputPort, QueueOK
    <3>2. (p.length >= p.reserve) \in BOOLEAN
      BY <3>1
    <3>3. /\ q.length = p.length /\ q.reserve = p.reserve /\ q.ends = p.ends
          /\ q.ready <=> p.length >= p.reserve
      BY <2>2 DEF InputPort
    <3>4. q \in InputPort
      BY <2>2, <3>2 DEF InputPort
    <3> HIDE DEF p, q
    <3> QED BY <3>1, <3>3, <3>4 DEF Exact, QueueOK
  <2>4. /\ in' = [in EXCEPT ![Msg.port] = UpdateInputAvail(q)]
        /\ failed' = failed \ {Msg.port} /\ checking' = checking
    BY <1>5 DEF HandleInputUpdate, handler
  <2> HIDE DEF p, q
  <2> QED BY <2>1, <2>3, <2>4, UpdateCovers, QueuesOnePort
<1>6. ASSUME HandleTopToken PROVE QueuesOK'
  <2>1. \A p \in InputPort :
            /\ [p EXCEPT !.done = FALSE].ends = p.ends
            /\ [p EXCEPT !.done = FALSE].length = p.length
            /\ [p EXCEPT !.done = FALSE].msgs = p.msgs
            /\ [p EXCEPT !.done = FALSE].avail = p.avail
            /\ [p EXCEPT !.done = FALSE].reserve = p.reserve
    BY DEF InputPort
  <2>2. /\ in' = [i \in Inputs |-> [in[i] EXCEPT !.done = FALSE]]
        /\ failed' = failed /\ checking' = checking
    BY <1>6 DEF HandleTopToken, handler, aux
  <2> QED BY <2>1, <2>2, QueuesSame
<1>7. ASSUME HandleTopInert PROVE QueuesOK'
  BY <1>7, QueuesMarkDone DEF HandleTopInert, handler
<1>8. ASSUME HandleOutputCheck PROVE QueuesOK'
  <2>1. CASE in' = in /\ failed' = failed
    BY <1>8, <2>1, QueuesSame DEF HandleOutputCheck, handler
  <2>2. CASE \E outs : MarkDone(in, outs)
    BY <1>8, <2>2, QueuesMarkDone DEF HandleOutputCheck, handler
  <2> QED BY <1>8, <2>1, <2>2 DEF HandleOutputCheck, aux
<1> QED BY <1>2, <1>3, <1>4, <1>5, <1>6, <1>7, <1>8

\* task_main, work() and the end of handle_input_check keep QueuesOK.
LEMMA QueuesWork ==
    ASSUME Typed, QueuesOK
    PROVE  /\ WorkStarts => QueuesOK'
           /\ WorkReturns => QueuesOK'
           /\ WorkMarksDone => QueuesOK'
           /\ \A i \in Inputs : WorkFailsInput(i) => QueuesOK'
           /\ \A i \in Inputs : CheckInputDone(i) => QueuesOK'
           /\ \A o \in Outputs, n \in 0 .. OutSize : WorkFailsOutput(o, n) => QueuesOK'
<1> /\ in \in [Inputs -> InputPort]
    /\ \A i \in Inputs : in[i] \in InputPort /\ QueueOK(in[i])
  BY DEF Typed, TypeOK, QueuesOK
<1>1. ASSUME WorkStarts PROVE QueuesOK'
  <2>1. /\ in' = [i \in Inputs |-> Front(in[i])]
        /\ failed' = failed /\ checking' = checking
    BY <1>1 DEF WorkStarts
  <2>2. ASSUME NEW i \in Inputs
        PROVE  QueueOK(in'[i]) /\ Covered(in'[i], i \in failed')
    <3> DEFINE f == i \in failed
    <3>1. f \in BOOLEAN /\ Covered(in[i], f)
      BY DEF QueuesOK
    <3> HIDE DEF f
    <3>2. QueueOK(Front(in[i])) /\ Covered(Front(in[i]), f)
      BY <3>1, FrontSound
    <3> QED BY <2>1, <3>2 DEF f
  <2> QED BY <2>1, <2>2 DEF QueuesOK
<1>2. ASSUME WorkReturns PROVE QueuesOK'
  <2>1. PICK eaten \in [Inputs -> 0 .. MaxFeed * MaxChunk],
             popped \in [Inputs -> 0 .. MaxFeed],
             made \in [Outputs -> 0 .. OutSize],
             unstitched \in [Inputs -> BOOLEAN] :
             /\ \A i \in Inputs : popped[i] <= in[i].msgs /\ eaten[i] <= in[i].length
             /\ PostWork(in, out, eaten, popped, unstitched, made, 0)
    BY <1>2 DEF WorkReturns
  <2>2. eaten \in [Inputs -> Nat] /\ popped \in [Inputs -> Nat]
    OBVIOUS
  <2>3. \A i \in Inputs : in[i].ready
    BY <1>2, AtWork DEF WorkReturns
  <2> QED BY <2>1, <2>2, <2>3, QueuesPostWork
<1>3. ASSUME WorkMarksDone PROVE QueuesOK'
  <2>1. ASSUME NEW p \in InputPort
        PROVE  /\ FlushInput(p).ends = {} /\ FlushInput(p).length = 0
               /\ FlushInput(p).msgs = 0 /\ FlushInput(p) \in InputPort
    <3>1. FlushInput(p) \in InputPort
      BY InputOps
    <3> QED BY <3>1 DEF FlushInput, InputPort
  <2>2. \A p \in InputPort : LET q == UpdateInputAvail(FlushInput(p))
                             IN  q.ends = {} /\ q.length = 0 /\ q.msgs = 0
    BY <2>1 DEF UpdateInputAvail, InputPort
  <2> QED BY <1>3, <2>2 DEF WorkMarksDone, QueuesOK, QueueOK, Covered
<1>4. ASSUME NEW i \in Inputs, WorkFailsInput(i) PROVE QueuesOK'
  <2>1. pc = "work" /\ \A j \in Inputs : in[j].ready
    BY <1>4, AtWork DEF WorkFailsInput
  <2>2. ASSUME NEW p \in InputPort, NEW kicks, QueueOK(p),
               p.msgs = in[i].msgs,
               ~p.ready /\ p.msgs = 0 => i \in failed',
               PostWork([in EXCEPT ![i] = p], out, None(Inputs), None(Inputs),
                        Never(Inputs), None(Outputs), kicks)
        PROVE  QueuesOK'
    <3> DEFINE ins == [in EXCEPT ![i] = p]
    <3>1. /\ ins \in [Inputs -> InputPort]
          /\ \A j \in Inputs : ins[j] = IF j = i THEN p ELSE in[j]
      OBVIOUS
    <3>2. /\ None(Inputs) \in [Inputs -> Nat]
          /\ Never(Inputs) \in [Inputs -> BOOLEAN]
          /\ \A j \in Inputs : None(Inputs)[j] = 0
      BY DEF None, Never
    <3>4. PostWork(ins, out, None(Inputs), None(Inputs), Never(Inputs),
                   None(Outputs), kicks)
      BY <2>2
    <3> HIDE DEF ins
    <3>3. \A j \in Inputs : /\ QueueOK(ins[j])
                            /\ None(Inputs)[j] <= ins[j].length
                            /\ None(Inputs)[j] <= ins[j].msgs
                            /\ ~ins[j].ready /\ ins[j].msgs = None(Inputs)[j]
                                   => j \in failed'
      BY <2>1, <2>2, <3>1, <3>2 DEF InputPort
    <3> QED BY <3>1, <3>2, <3>3, <3>4, QueuesPostWork
  <2>3. CASE Throw("input_maximal")
    BY <2>3, QueuesSame DEF Throw, block, aux
  <2>4. CASE ~IsAccumulated(in[i])
    <3>1. PostWork([in EXCEPT ![i] = Accumulate(in[i])], out, None(Inputs),
                   None(Inputs), Never(Inputs), None(Outputs),
                   IF IsWorkAllowed THEN 1 ELSE 0)
      BY <1>4, <2>4 DEF WorkFailsInput
    <3>2. /\ Accumulate(in[i]) \in InputPort /\ Accumulate(in[i]).ready
          /\ QueueOK(Accumulate(in[i]))
          /\ Accumulate(in[i]).msgs = in[i].msgs
      <4>1. \A p \in InputPort : Accumulate(p).msgs = p.msgs
        BY DEF Accumulate, InputPort
      <4> QED BY <2>1, <4>1, FrontSound, InputOps
    <3> QED BY <2>2, <3>1, <3>2
  <2>5. CASE IsAccumulated(in[i]) /\ ~Throw("input_maximal")
    <3>1. /\ PostWork([in EXCEPT ![i].ready = FALSE], out, None(Inputs),
                      None(Inputs), Never(Inputs), None(Outputs), 0)
          /\ in[i].msgs = 0 => i \in failed'
      BY <1>4, <2>5 DEF WorkFailsInput
    <3>2. \A p \in InputPort : /\ [p EXCEPT !.ready = FALSE] \in InputPort
                               /\ [p EXCEPT !.ready = FALSE].msgs = p.msgs
                               /\ [p EXCEPT !.ready = FALSE].ends = p.ends
                               /\ [p EXCEPT !.ready = FALSE].length = p.length
      BY DEF InputPort
    <3>3. QueueOK([in[i] EXCEPT !.ready = FALSE])
      BY <3>2 DEF QueueOK
    <3> QED BY <2>2, <3>1, <3>2, <3>3
  <2> QED BY <2>3, <2>4, <2>5
<1>5. ASSUME NEW i \in Inputs, CheckInputDone(i) PROVE QueuesOK'
  <2>1. CASE in' = in /\ failed' = failed
    BY <1>5, <2>1, QueuesSame DEF CheckInputDone
  <2>2. CASE MarkDone(in, out)
    BY <1>5, <2>2, QueuesMarkDone DEF CheckInputDone
  <2> QED BY <1>5, <2>1, <2>2 DEF CheckInputDone, aux
<1>6. ASSUME NEW o \in Outputs, NEW n \in 0 .. OutSize, WorkFailsOutput(o, n)
      PROVE  QueuesOK'
  <2>1. CASE \E what : Throw(what)
    BY <2>1, QueuesSame DEF Throw, block, aux
  <2>2. CASE ~ \E what : Throw(what)
    <3>1. PostWork(in, [out EXCEPT ![o].ready = FALSE], None(Inputs),
                   None(Inputs), Never(Inputs),
                   [None(Outputs) EXCEPT ![o] = n], 0)
      BY <1>6, <2>2 DEF WorkFailsOutput
    <3>2. /\ None(Inputs) \in [Inputs -> Nat]
          /\ Never(Inputs) \in [Inputs -> BOOLEAN]
          /\ \A j \in Inputs : /\ None(Inputs)[j] = 0 /\ in[j].ready
                               /\ in[j].length \in Nat /\ in[j].msgs \in Nat
      BY <1>6, AtWork DEF None, Never, WorkFailsOutput, InputPort
    <3>3. \A j \in Inputs : /\ None(Inputs)[j] <= in[j].length
                            /\ None(Inputs)[j] <= in[j].msgs
      BY <3>2
    <3> HIDE DEF None, Never
    <3> QED BY <3>1, <3>2, <3>3, QueuesPostWork
  <2> QED BY <2>1, <2>2
<1> QED BY <1>1, <1>2, <1>3, <1>4, <1>5, <1>6

\* QueuesOK is inductive over the typed states.
LEMMA QueuesNext == Typed /\ QueuesOK /\ [Next]_vars => QueuesOK'
<1> SUFFICES ASSUME Typed, QueuesOK, [Next]_vars PROVE QueuesOK'
  OBVIOUS
<1>1. ASSUME in' = in, failed' = failed, checking' = checking PROVE QueuesOK'
  BY <1>1, QueuesSame
<1>2. CASE UNCHANGED vars
  BY <1>1, <1>2 DEF vars, handler, block, aux
<1>3. ASSUME NEW t, HandleTopSetup(t) \/ HandleCall(t) PROVE QueuesOK'
  BY <1>1, <1>3 DEF HandleTopSetup, HandleCall, handler, block, aux
<1>4. CASE HandleTopAlloc \/ HandleTopActive \/ HandleOutputUpdate
  BY <1>1, <1>4 DEF HandleTopAlloc, HandleTopActive, HandleOutputUpdate,
                    handler, aux
<1>5. CASE HandleOutputBuffer \/ HandleSelfKick
  BY <1>1, <1>5 DEF HandleOutputBuffer, HandleSelfKick, Dropped, ThenMain,
                    handler, block, aux
<1>6. CASE WorkRefused
  BY <1>1, <1>6 DEF WorkRefused, block
<1> QED BY <1>2, <1>3, <1>4, <1>5, <1>6, QueuesEnvironment, QueuesHandlers,
          QueuesWork DEF Next, Actor

\* QueuesOK holds in every reachable state.
LEMMA QueuesAlways == Spec => []QueuesOK
<1>1. Init => QueuesOK
  <2> SUFFICES ASSUME Init PROVE QueuesOK
    OBVIOUS
  <2>1. PICK r \in [Inputs -> InReserves] :
            in = [i \in Inputs |-> NewInput(r[i])]
    BY DEF Init
  <2>2. \A i \in Inputs : in[i].ends = {} /\ in[i].length = 0 /\ in[i].msgs = 0
    BY <2>1 DEF NewInput
  <2> QED BY <2>2 DEF Init, QueuesOK, QueueOK, Covered
<1> QED BY <1>1, QueuesNext, TypedAlways, PTL DEF Spec

\* _enqueued_bytes is the length of the queued buffers, whatever was pushed,
\* stitched, accumulated, consumed, unstitched and flushed.
THEOREM LengthIsExact == Spec => []EnqueuedIsLength
<1>1. QueuesOK => EnqueuedIsLength
  BY DEF QueuesOK, QueueOK, EnqueuedIsLength
<1> QED BY <1>1, QueuesAlways, PTL

\* inputs_available never hides input: handle_input_check may trust it.
THEOREM AvailableIsComplete == Spec => []AvailableCoversQueue
<1>1. QueuesOK => AvailableCoversQueue
  BY DEF QueuesOK, Covered, AvailableCoversQueue, Drained
<1> QED BY <1>1, QueuesAlways, PTL

\* A block that ends by itself when an upstream ends leaves no work undone on
\* the input that ended: the only step from LIVE to DONE after task_main is
\* the one that found the input finished and not available.
THEOREM EndsOnlyDrained == Spec => DrainedBeforeDone
<1>1. Typed /\ QueuesOK /\ [Next]_vars =>
          \A i \in checking :
              (pc = "check" /\ block_state = "LIVE" /\ block_state' = "DONE")
                  => Drained(i)
  <2> SUFFICES ASSUME Typed, QueuesOK, [Next]_vars, NEW i \in checking,
                      pc = "check", block_state = "LIVE", block_state' = "DONE"
               PROVE  Drained(i)
    OBVIOUS
  <2>1. ~Environment /\ ~UNCHANGED vars
    BY DEF Environment, UpstreamActive, UpstreamSends, UpstreamPostsMsg,
       UpstreamDone, DownstreamReturns, DownstreamDone, CallProperty,
       QueryStats, ReleaseCopy, CommitConfig, StartStep, StartAgain, Stop,
       WaitPoll, Ask, block, vars
  <2>2. PICK j \in Inputs : CheckInputDone(j)
    BY <2>1 DEF Next, Actor, HandleTopSetup, HandleTopToken, HandleTopAlloc,
       HandleTopActive, HandleTopInert, HandleInputBuffer, HandleInputMsg,
       HandleInputCheck, HandleInputUpdate, HandleOutputBuffer,
       HandleOutputCheck, HandleOutputUpdate, HandleCall, HandleSelfKick,
       Receive, WorkRefused, WorkStarts, WorkReturns, WorkMarksDone,
       WorkFailsInput, WorkFailsOutput
  <2>3. i = j /\ i \in Inputs
    BY <2>2 DEF CheckInputDone, QueuesOK, Typed, TypeOK
  <2>4. ~in[i].avail
    BY <2>2, <2>3 DEF CheckInputDone
  <2> QED BY <2>3, <2>4 DEF QueuesOK, Covered, Drained
<1> QED BY <1>1, TypedAlways, QueuesAlways, PTL DEF Spec, DrainedBeforeDone

-----------------------------------------------------------------------------
(* The outputs.  A pool keeps its front buffer while no more than half of  *)
(* it is used, so at least half of the front buffer is always free.        *)

HalfFree(p) == p.offset <= OutSize \div 2
HalvesOK == \A o \in Outputs : HalfFree(out[o])

\* The operations of an output port.
LEMMA HalfOps ==
    ASSUME NEW p \in OutputPort
    PROVE  /\ HalfFree(NewQueue(p)) /\ HalfFree(FlushOutput(p))
           /\ HalfFree(p) => /\ HalfFree(UpdateOutput(p))
                             /\ HalfFree(PushOutput(p))
                             /\ \A n \in Nat : HalfFree(ConsumeOutput(p, n))
<1>1. OutSize \in Nat /\ 0 <= OutSize \div 2 /\ p.offset \in Nat
  BY Constants DEF OutputPort
<1>2. NewQueue(p).offset = 0 /\ FlushOutput(p).offset = 0
  BY DEF NewQueue, FlushOutput, OutputPort
<1>3. UpdateOutput(p).offset = p.offset /\ PushOutput(p).offset = p.offset
  BY DEF UpdateOutput, PushOutput, OutputPort
<1>4. ASSUME HalfFree(p), NEW n \in Nat PROVE HalfFree(ConsumeOutput(p, n))
  <2>1. CASE n = 0
    BY <1>4, <2>1 DEF ConsumeOutput
  <2>2. CASE n # 0 /\ PopsFront(p, n)
    <3> DEFINE q == [p EXCEPT !.count = @ - 1, !.offset = 0]
    <3>1. ConsumeOutput(p, n) = UpdateOutput(q) /\ q.offset = 0
      BY <2>2 DEF ConsumeOutput, OutputPort
    <3>2. UpdateOutput(q).offset = q.offset
      BY DEF UpdateOutput, OutputPort
    <3> QED BY <1>1, <3>1, <3>2 DEF HalfFree
  <2>3. CASE n # 0 /\ ~PopsFront(p, n)
    <3> DEFINE q == [p EXCEPT !.offset = @ + n]
    <3>1. ConsumeOutput(p, n) = UpdateOutput(q) /\ q.offset = p.offset + n
      BY <2>3 DEF ConsumeOutput, OutputPort
    <3>2. UpdateOutput(q).offset = q.offset
      BY DEF UpdateOutput, OutputPort
    <3> QED BY <1>1, <2>3, <3>1, <3>2 DEF HalfFree, PopsFront
  <2> QED BY <2>1, <2>2, <2>3
<1> QED BY <1>1, <1>2, <1>3, <1>4 DEF HalfFree

\* Rewriting what is not an offset.
LEMMA HalvesSame ==
    ASSUME HalvesOK, \A o \in Outputs : out'[o].offset = out[o].offset
    PROVE  HalvesOK'
  BY DEF HalvesOK, HalfFree

\* Nobody outside the actor moves the offset of an output buffer.
LEMMA HalvesEnvironment == ASSUME Typed, HalvesOK, Environment PROVE HalvesOK'
<1>1. ASSUME NEW ins, NEW outs, CommitConfig(ins, outs) PROVE HalvesOK'
  <2>1. \A r : \A p \in OutputPort : [p EXCEPT !.config = r].offset = p.offset
    BY DEF OutputPort
  <2>2. out' = [o \in Outputs |-> [out[o] EXCEPT !.config = outs[o]]]
    BY <1>1 DEF CommitConfig
  <2> QED BY <2>1, <2>2, HalvesSame DEF Typed, TypeOK
<1>2. CASE ~ \E ins \in [Inputs -> InReserves], outs \in [Outputs -> OutReserves] :
                 CommitConfig(ins, outs)
  <2>1. out' = out
    BY <1>2 DEF Environment, UpstreamActive, UpstreamSends,
       UpstreamPostsMsg, UpstreamDone, DownstreamReturns, DownstreamDone,
       CallProperty, QueryStats, ReleaseCopy, StartStep, StartAgain, Stop,
       WaitPoll, Ask, block
  <2> QED BY <2>1, HalvesSame
<1> QED BY <1>1, <1>2

\* mark_done leaves every output with an empty queue.
LEMMA HalvesMarkDone ==
    ASSUME Typed, NEW outs \in [Outputs -> OutputPort],
           \A o \in Outputs : HalfFree(outs[o]), MarkDone(in, outs)
    PROVE  HalvesOK'
  BY HalfOps DEF MarkDone, HalvesOK

\* task_main after work(): outs are the outputs as work() leaves them.
LEMMA HalvesPostWork ==
    ASSUME NEW ins, NEW outs \in [Outputs -> OutputPort],
           \A o \in Outputs : HalfFree(outs[o]), NEW eaten, NEW popped,
           NEW un, NEW made \in [Outputs -> Nat], NEW kicks,
           PostWork(ins, outs, eaten, popped, un, made, kicks)
    PROVE  HalvesOK'
  BY HalfOps DEF PostWork, HalvesOK

\* No handler leaves a front buffer of which more than half is used.
LEMMA HalvesActor == ASSUME Typed, HalvesOK, Actor PROVE HalvesOK'
<1> out \in [Outputs -> OutputPort] /\ \A o \in Outputs : HalfFree(out[o])
  BY DEF Typed, TypeOK, HalvesOK
<1>1. ASSUME out' = out PROVE HalvesOK'
  BY <1>1, HalvesSame
<1>2. ASSUME NEW t, HandleTopSetup(t) \/ HandleCall(t) PROVE HalvesOK'
  BY <1>1, <1>2 DEF HandleTopSetup, HandleCall, block
<1>3. CASE HandleTopActive \/ HandleSelfKick \/ WorkRefused \/ WorkStarts
  BY <1>1, <1>3 DEF HandleTopActive, HandleSelfKick, WorkRefused, WorkStarts,
                    block
<1>4. CASE \/ HandleInputBuffer \/ HandleInputMsg \/ HandleInputCheck
           \/ HandleInputUpdate
  BY <1>1, <1>4 DEF HandleInputBuffer, HandleInputMsg, HandleInputCheck,
                    HandleInputUpdate, Dropped, ThenMain, block
<1>5. CASE HandleTopToken
  <2>1. \A p \in OutputPort : [p EXCEPT !.done = FALSE].offset = p.offset
    BY DEF OutputPort
  <2>2. out' = [o \in Outputs |-> [out[o] EXCEPT !.done = FALSE]]
    BY <1>5 DEF HandleTopToken
  <2> QED BY <2>1, <2>2, HalvesSame
<1>6. CASE HandleTopAlloc
  BY <1>6, HalfOps DEF HandleTopAlloc, HalvesOK
<1>7. CASE HandleTopInert
  BY <1>7, HalvesMarkDone DEF HandleTopInert
<1>8. CASE HandleOutputBuffer
  <2>1. CASE Dropped
    BY <1>1, <2>1 DEF Dropped, block
  <2>2. CASE ~Dropped
    <3>1. Msg.port \in Outputs
      BY <1>8, Received DEF HandleOutputBuffer, OutputMsgs, Typed
    <3> DEFINE p == IF Msg.num = pool THEN PushOutput(out[Msg.port])
                    ELSE out[Msg.port]
    <3>2. p \in OutputPort /\ HalfFree(p)
      <4>1. \A q \in OutputPort : PushOutput(q) \in OutputPort
        BY DEF OutputPort, PushOutput
      <4> QED BY <3>1, <4>1, HalfOps
    <3>3. out' = [out EXCEPT ![Msg.port] =
                     IF pool = 0 THEN out[Msg.port] ELSE UpdateOutput(p)]
      BY <1>8, <2>2 DEF HandleOutputBuffer
    <3> HIDE DEF p
    <3>4. HalfFree(UpdateOutput(p))
      BY <3>2, HalfOps
    <3> QED BY <3>1, <3>3, <3>4 DEF HalvesOK
  <2> QED BY <2>1, <2>2
<1>9. CASE HandleOutputCheck
  <2> DEFINE checked == [out EXCEPT ![Msg.port].done = Msg.port \notin downstream]
  <2>1. /\ checked \in [Outputs -> OutputPort]
        /\ \A o \in Outputs : checked[o].offset = out[o].offset
    <3>1. \A p \in OutputPort, b \in BOOLEAN :
              /\ [p EXCEPT !.done = b] \in OutputPort
              /\ [p EXCEPT !.done = b].offset = p.offset
      BY DEF OutputPort
    <3>2. (Msg.port \notin downstream) \in BOOLEAN /\ Msg.port \in Outputs
      BY <1>9, Received DEF HandleOutputCheck, OutputMsgs, Typed
    <3> QED BY <3>1, <3>2
  <2>2. MarkDone(in, checked) \/ out' = checked
    BY <1>9 DEF HandleOutputCheck
  <2> HIDE DEF checked
  <2>3. \A o \in Outputs : HalfFree(checked[o])
    BY <2>1 DEF HalfFree
  <2> QED BY <2>1, <2>2, <2>3, HalvesMarkDone DEF HalvesOK
<1>10. CASE HandleOutputUpdate
  <2> DEFINE p == [out[Msg.port] EXCEPT !.reserve = out[Msg.port].config]
  <2>1. Msg.port \in Outputs
    BY <1>10, Received DEF HandleOutputUpdate, OutputMsgs, Typed
  <2>2. p \in OutputPort /\ HalfFree(p)
    <3>1. \A q \in OutputPort :
              /\ [q EXCEPT !.reserve = q.config] \in OutputPort
              /\ [q EXCEPT !.reserve = q.config].offset = q.offset
      BY DEF OutputPort
    <3> QED BY <2>1, <3>1 DEF HalfFree
  <2>3. out' = [out EXCEPT ![Msg.port] = IF pool = 0 THEN p ELSE UpdateOutput(p)]
    BY <1>10 DEF HandleOutputUpdate
  <2> HIDE DEF p
  <2>4. HalfFree(UpdateOutput(p))
    BY <2>2, HalfOps
  <2> QED BY <2>1, <2>2, <2>3, <2>4 DEF HalvesOK
<1>11. CASE WorkReturns
  <2>1. PICK eaten \in [Inputs -> 0 .. MaxFeed * MaxChunk],
             popped \in [Inputs -> 0 .. MaxFeed],
             made \in [Outputs -> 0 .. OutSize],
             unstitched \in [Inputs -> BOOLEAN] :
             PostWork(in, out, eaten, popped, unstitched, made, 0)
    BY <1>11 DEF WorkReturns
  <2>2. made \in [Outputs -> Nat]
    OBVIOUS
  <2> QED BY <2>1, <2>2, HalvesPostWork
<1>12. CASE WorkMarksDone
  BY <1>12, HalfOps DEF WorkMarksDone, HalvesOK
<1>13. ASSUME NEW i \in Inputs, WorkFailsInput(i) PROVE HalvesOK'
  <2>1. CASE Throw("input_maximal")
    BY <1>1, <2>1 DEF Throw, block
  <2>2. CASE ~Throw("input_maximal")
    <3>1. None(Outputs) \in [Outputs -> Nat]
      BY DEF None
    <3> QED BY <1>13, <2>2, <3>1, HalvesPostWork DEF WorkFailsInput
  <2> QED BY <2>1, <2>2
<1>14. ASSUME NEW i \in Inputs, CheckInputDone(i) PROVE HalvesOK'
  <2>1. CASE MarkDone(in, out)
    BY <2>1, HalvesMarkDone
  <2>2. CASE out' = out
    BY <1>1, <2>2
  <2> QED BY <1>14, <2>1, <2>2 DEF CheckInputDone
<1>15. ASSUME NEW o \in Outputs, NEW n \in 0 .. OutSize, WorkFailsOutput(o, n)
       PROVE  HalvesOK'
  <2>1. CASE \E what : Throw(what)
    BY <1>1, <2>1 DEF Throw, block
  <2>2. CASE ~ \E what : Throw(what)
    <3> DEFINE outs == [out EXCEPT ![o].ready = FALSE]
               made == [None(Outputs) EXCEPT ![o] = n]
    <3>1. PostWork(in, outs, None(Inputs), None(Inputs), Never(Inputs), made, 0)
      BY <1>15, <2>2 DEF WorkFailsOutput
    <3>2. made \in [Outputs -> Nat]
      BY Constants DEF None
    <3>3. /\ outs \in [Outputs -> OutputPort]
          /\ \A x \in Outputs : HalfFree(outs[x])
      <4>1. \A p \in OutputPort : /\ [p EXCEPT !.ready = FALSE] \in OutputPort
                                  /\ [p EXCEPT !.ready = FALSE].offset = p.offset
        BY DEF OutputPort
      <4> QED BY <4>1 DEF HalfFree
    <3> HIDE DEF outs, made
    <3> QED BY <3>1, <3>2, <3>3, HalvesPostWork
  <2> QED BY <2>1, <2>2
<1> QED BY <1>2, <1>3, <1>4, <1>5, <1>6, <1>7, <1>8, <1>9, <1>10, <1>11,
          <1>12, <1>13, <1>14, <1>15 DEF Actor

\* The pool never keeps a front buffer of which more than half is used.
LEMMA HalvesAlways == Spec => []HalvesOK
<1>1. Init => HalvesOK
  <2> SUFFICES ASSUME Init PROVE HalvesOK
    OBVIOUS
  <2>1. PICK r \in [Outputs -> OutReserves] :
            out = [o \in Outputs |-> NewOutput(r[o])]
    BY DEF Init
  <2>2. 0 <= OutSize \div 2
    BY Constants
  <2> QED BY <2>1, <2>2 DEF NewOutput, HalvesOK, HalfFree
<1>2. Typed /\ HalvesOK /\ [Next]_vars => HalvesOK'
  <2>1. HalvesOK /\ UNCHANGED vars => HalvesOK'
    BY HalvesSame DEF vars, block
  <2> QED BY <2>1, HalvesEnvironment, HalvesActor DEF Next
<1> QED BY <1>1, <1>2, TypedAlways, PTL DEF Spec

\* An output never waits for ever on a front buffer that is too short for its
\* reserve, when every reserve the user commits is at most the half that the
\* pool keeps free.
THEOREM OutputsMove ==
    ASSUME \A r \in OutReserves : r <= OutSize - OutSize \div 2
    PROVE  Spec => []OutputNotWedged
<1>1. Typed /\ HalvesOK => OutputNotWedged
  <2> SUFFICES ASSUME Typed, HalvesOK, NEW o \in Outputs
               PROVE  OutSize - out[o].offset >= out[o].reserve
    BY DEF OutputNotWedged
  <2>1. out[o].reserve \in OutReserves \cup {1} /\ out[o].offset \in 0 .. OutSize
    BY DEF Typed, TypeOK, OutputPort
  <2>2. OutSize \in Nat \ {0} /\ OutReserves \subseteq Nat
    BY Constants
  <2>3. out[o].reserve <= OutSize - OutSize \div 2
    BY <2>1, <2>2
  <2> QED BY <2>1, <2>2, <2>3 DEF HalvesOK, HalfFree
<1> QED BY <1>1, TypedAlways, HalvesAlways, PTL

-----------------------------------------------------------------------------
(* The buffers of a pool.  Each is queued at its output, held downstream,  *)
(* or in a message that brings it back; the messages are counted.          *)

IsReturn(m, o, g) == m.type = "OutputBuffer" /\ m.port = o /\ m.num = g
Places(s, o, g)   == {k \in DOMAIN s : IsReturn(s[k], o, g)}
Returns(s, o, g)  == Cardinality(Places(s, o, g))

\* no buffer comes from a pool that is not made yet
NoneNewer(s, g) == \A k \in DOMAIN s : s[k].type = "OutputBuffer" => s[k].num <= g

\* no buffer is among these messages
NoBuffer(s) == \A k \in DOMAIN s : s[k].type # "OutputBuffer"

\* t brings back the buffers that s does
SameReturns(s, t) == /\ \A o, g : Returns(t, o, g) = Returns(s, o, g)
                /\ \A g : NoneNewer(s, g) => NoneNewer(t, g)

\* The places of a mailbox are finitely many, so the count is a number.
LEMMA ReturnsFinite ==
    ASSUME NEW s \in Seq(Message), NEW o, NEW g
    PROVE  IsFiniteSet(Places(s, o, g)) /\ Returns(s, o, g) \in Nat
<1>1. Len(s) \in Nat /\ DOMAIN s = 1 .. Len(s) /\ 1 \in Int /\ Len(s) \in Int
  OBVIOUS
<1>2. IsFiniteSet(DOMAIN s)
  BY <1>1, FS_Interval
<1>3. Places(s, o, g) \in SUBSET DOMAIN s
  BY DEF Places
<1>4. IsFiniteSet(Places(s, o, g))
  BY <1>2, <1>3, FS_Subset
<1>5. QED
  BY <1>4, FS_CardinalityType DEF Returns

\* A message that is posted is counted if it brings a buffer back.
LEMMA ReturnsAppend ==
    ASSUME NEW s \in Seq(Message), NEW m \in Message, NEW o, NEW g
    PROVE  Returns(Append(s, m), o, g) =
               IF IsReturn(m, o, g) THEN Returns(s, o, g) + 1 ELSE Returns(s, o, g)
<1> DEFINE n == Len(s) + 1
<1>1. /\ n \notin DOMAIN s
      /\ DOMAIN Append(s, m) = DOMAIN s \cup {n}
      /\ Append(s, m)[n] = m
      /\ \A k \in DOMAIN s : Append(s, m)[k] = s[k]
  OBVIOUS
<1>2. n \notin Places(s, o, g)
  BY <1>1 DEF Places
<1> HIDE DEF n
<1>3. CASE IsReturn(m, o, g)
  <2>1. Places(Append(s, m), o, g) = Places(s, o, g) \cup {n}
    BY <1>1, <1>3, Zenon DEF Places
  <2>2. QED
    BY <1>2, <1>3, <2>1, ReturnsFinite, FS_AddElement DEF Returns
<1>4. CASE ~ IsReturn(m, o, g)
  <2>1. Places(Append(s, m), o, g) = Places(s, o, g)
    BY <1>1, <1>4, Zenon DEF Places
  <2>2. QED
    BY <1>4, <2>1 DEF Returns
<1>5. QED
  BY <1>3, <1>4

\* A message that is taken was counted if it brings a buffer back.
LEMMA ReturnsTail ==
    ASSUME NEW s \in Seq(Message), s # <<>>, NEW o, NEW g
    PROVE  Returns(s, o, g) = IF IsReturn(Head(s), o, g) THEN Returns(Tail(s), o, g) + 1
                              ELSE Returns(Tail(s), o, g)
<1> DEFINE t == Tail(s)
           S == Places(s, o, g) \ {1}
           T == Places(t, o, g)
           f == [k \in T |-> k + 1]
<1>1. /\ t \in Seq(Message)
      /\ Head(s) = s[1] /\ 1 \in DOMAIN s
      /\ DOMAIN t = 1 .. Len(s) - 1 /\ DOMAIN s = 1 .. Len(s) /\ Len(s) \in Nat
      /\ \A k \in DOMAIN t : t[k] = s[k + 1]
  OBVIOUS
<1> HIDE DEF t
<1>2. \A k \in T : k \in Nat /\ k + 1 \in S
  BY <1>1 DEF Places
<1>3. \A j \in S : j - 1 \in T /\ (j - 1) + 1 = j
  <2> SUFFICES ASSUME NEW j \in S PROVE j - 1 \in T /\ (j - 1) + 1 = j
    OBVIOUS
  <2>1. j \in DOMAIN s /\ j # 1 /\ IsReturn(s[j], o, g)
    BY DEF Places
  <2>2. j - 1 \in DOMAIN t /\ (j - 1) + 1 = j
    BY <1>1, <2>1
  <2>3. t[j - 1] = s[j]
    BY <1>1, <2>2
  <2>4. QED
    BY <2>1, <2>2, <2>3 DEF Places
<1> HIDE DEF S, T
<1>4. f \in Bijection(T, S)
  <2>1. f \in [T -> S]
    BY <1>2
  <2>2. \A a, b \in T : f[a] = f[b] => a = b
    BY <1>2
  <2>3. \A j \in S : \E k \in T : f[k] = j
    BY <1>3
  <2>4. QED
    BY <2>1, <2>2, <2>3 DEF Bijection, Injection, IsInjective, Surjection
<1>5. IsFiniteSet(T)
  BY <1>1, ReturnsFinite DEF T
<1>6. ExistsBijection(T, S)
  BY <1>4 DEF ExistsBijection
<1>7. Cardinality(S) = Cardinality(T) /\ IsFiniteSet(S)
  BY <1>5, <1>6, FS_Bijection
<1>8. CASE IsReturn(Head(s), o, g)
  <2>1. Places(s, o, g) = S \cup {1} /\ 1 \notin S
    BY <1>1, <1>8 DEF Places, S
  <2>2. QED
    BY <1>7, <1>8, <2>1, FS_AddElement DEF Returns, T, t
<1>9. CASE ~ IsReturn(Head(s), o, g)
  <2>1. Places(s, o, g) = S
    BY <1>1, <1>9 DEF Places, S
  <2>2. QED
    BY <1>7, <1>9, <2>1 DEF Returns, T, t
<1>10. QED
  BY <1>8, <1>9

\* Messages without a buffer change nothing at the end of a mailbox.
LEMMA ReturnsConcat ==
    ASSUME NEW s \in Seq(Message), NEW t \in Seq(Message), NoBuffer(t)
    PROVE  SameReturns(s, s \o t)
<1>1. /\ DOMAIN (s \o t) = 1 .. Len(s) + Len(t) /\ DOMAIN s = 1 .. Len(s)
      /\ Len(s) \in Nat /\ Len(t) \in Nat /\ DOMAIN t = 1 .. Len(t)
      /\ \A k \in DOMAIN s : (s \o t)[k] = s[k]
      /\ \A k \in DOMAIN (s \o t) \ DOMAIN s : (s \o t)[k] = t[k - Len(s)]
  OBVIOUS
<1>2. DOMAIN s \subseteq DOMAIN (s \o t)
  BY <1>1
<1>3. \A k \in DOMAIN (s \o t) \ DOMAIN s : k - Len(s) \in DOMAIN t
  BY <1>1
<1>4. \A k \in DOMAIN (s \o t) \ DOMAIN s : (s \o t)[k].type # "OutputBuffer"
  BY <1>1, <1>3 DEF NoBuffer
<1>5. \A o, g : Places(s \o t, o, g) = Places(s, o, g)
  BY <1>1, <1>2, <1>4, Zenon DEF Places, IsReturn
<1>6. \A g : NoneNewer(s, g) => NoneNewer(s \o t, g)
  BY <1>1, <1>4, Zenon DEF NoneNewer
<1>7. QED
  BY <1>5, <1>6 DEF SameReturns, Returns

\* Nor does a message without a buffer that is posted, or taken.
LEMMA ReturnsAlike ==
    ASSUME NEW s \in Seq(Message)
    PROVE  /\ SameReturns(s, s)
           /\ \A m \in Message : m.type # "OutputBuffer" => SameReturns(s, Append(s, m))
           /\ s # <<>> /\ Head(s).type # "OutputBuffer" => SameReturns(s, Tail(s))
<1>1. SameReturns(s, s)
  BY DEF SameReturns
<1>2. ASSUME NEW m \in Message, m.type # "OutputBuffer" PROVE SameReturns(s, Append(s, m))
  <2>1. \A o, g : Returns(Append(s, m), o, g) = Returns(s, o, g)
    BY <1>2, ReturnsAppend DEF IsReturn
  <2>2. \A k \in DOMAIN Append(s, m) :
            Append(s, m)[k] = m \/ (k \in DOMAIN s /\ Append(s, m)[k] = s[k])
    <3>1. /\ DOMAIN Append(s, m) = 1 .. Len(s) + 1 /\ DOMAIN s = 1 .. Len(s)
          /\ Len(s) \in Nat /\ Append(s, m)[Len(s) + 1] = m
          /\ \A k \in 1 .. Len(s) : Append(s, m)[k] = s[k]
      OBVIOUS
    <3>2. QED
      BY <3>1
  <2>3. QED
    BY <1>2, <2>1, <2>2, Zenon DEF SameReturns, NoneNewer
<1>3. ASSUME s # <<>>, Head(s).type # "OutputBuffer" PROVE SameReturns(s, Tail(s))
  <2>1. \A o, g : Returns(Tail(s), o, g) = Returns(s, o, g)
    BY <1>3, ReturnsTail DEF IsReturn
  <2>2. \A k \in DOMAIN Tail(s) : k + 1 \in DOMAIN s /\ Tail(s)[k] = s[k + 1]
    BY <1>3
  <2>3. QED
    BY <2>1, <2>2, Zenon DEF SameReturns, NoneNewer
<1>4. QED
  BY <1>1, <1>2, <1>3

\* The same one after the other.
LEMMA ReturnsTwice ==
    ASSUME NEW s, NEW t, NEW u, SameReturns(s, t), SameReturns(t, u)
    PROVE  SameReturns(s, u)
  BY DEF SameReturns

\* The buffers that handle_top_alloc posts for output o are neighbours there.
LEMMA PoolPlaces ==
    ASSUME NEW o \in Outputs, NEW k \in Nat
    PROVE  (k \in 1 .. NumOutputs * PoolSize /\ (k - 1) \div PoolSize = o)
               <=> k \in o * PoolSize + 1 .. o * PoolSize + PoolSize
<1> PICK p \in Nat : p = PoolSize /\ p > 0
  BY Constants
<1>1. /\ o \in Nat /\ NumOutputs \in Nat /\ o + 1 <= NumOutputs
      /\ o * p \in Nat /\ NumOutputs * p \in Nat /\ (o + 1) * p = o * p + p
  BY Constants, SMTT(30) DEF Outputs
<1>2. (o + 1) * p <= NumOutputs * p
  <2>1. \A a, b, c \in Nat : a <= b => a * c <= b * c
    BY SMTT(30)
  <2>2. QED
    BY <1>1, <2>1
<1>3. ASSUME k \in o * p + 1 .. o * p + p
      PROVE  k \in 1 .. NumOutputs * p /\ (k - 1) \div p = o
  <2>1. k \in 1 .. NumOutputs * p
    BY <1>1, <1>2, <1>3
  <2>2. (k - 1) \div p = o
    <3>1. PICK r \in 0 .. p - 1 : k - 1 = o * p + r
      <4>1. (k - 1) - o * p \in 0 .. p - 1 /\ k - 1 = o * p + ((k - 1) - o * p)
        BY <1>1, <1>3
      <4>2. QED
        BY <4>1
    <3>2. \A q \in Nat, r1 \in 0 .. p - 1 : (q * p + r1) \div p = q
      BY SMTT(30)
    <3>3. QED
      BY <1>1, <3>1, <3>2
  <2>3. QED
    BY <2>1, <2>2
<1>4. ASSUME k \in 1 .. NumOutputs * p, (k - 1) \div p = o
      PROVE  k \in o * p + 1 .. o * p + p
  <2>1. PICK x \in Nat : x = k - 1
    BY <1>1, <1>4
  <2>0. x = p * (x \div p) + (x % p) /\ (x % p) \in 0 .. p - 1
    <3>1. \A y \in Nat, q \in Nat \ {0} :
              y = q * (y \div q) + (y % q) /\ (y % q) \in 0 .. q - 1
      BY SMTT(30)
    <3>2. QED
      BY <3>1
  <2>2. o * p = p * o
    BY <1>1, SMTT(30)
  <2>3. QED
    BY <1>1, <1>4, <2>0, <2>1, <2>2
<1>5. QED
  BY <1>3, <1>4

\* So a new pool has all its buffers in the mailbox.
LEMMA ReturnsAlloc ==
    ASSUME NEW s \in Seq(Message), generation \in Nat, NoneNewer(s, generation),
           NEW o \in Outputs
    PROVE  Returns(s \o PoolMail, o, generation + 1) = PoolSize
<1> DEFINE g == generation + 1
           n == Len(s)
           a == n + o * PoolSize + 1
           b == n + o * PoolSize + PoolSize
           u == s \o PoolMail
<1>1. /\ PoolMail \in Seq(Message) /\ DOMAIN PoolMail = 1 .. NumOutputs * PoolSize
      /\ Len(PoolMail) = NumOutputs * PoolSize /\ NumOutputs * PoolSize \in Nat
  BY PoolMailType, IndexedMail
<1>2. /\ n \in Nat /\ DOMAIN s = 1 .. n
      /\ DOMAIN u = 1 .. n + NumOutputs * PoolSize
      /\ \A k \in 1 .. n : u[k] = s[k]
      /\ \A k \in (n + 1) .. (n + NumOutputs * PoolSize) : u[k] = PoolMail[k - n]
  <2> HIDE DEF n
  <2> QED BY <1>1 DEF n
<1>3. PoolSize \in Nat \ {0} /\ o \in Nat /\ o * PoolSize \in Nat
  BY Constants, SMTT(30) DEF Outputs
<1> HIDE DEF u, n
<1>4. ASSUME NEW k \in Places(u, o, g) PROVE k \in a .. b
  <2>1. k \in DOMAIN u /\ IsReturn(u[k], o, g)
    BY DEF Places
  <2>2. k \notin 1 .. n
    BY <1>2, <2>1 DEF NoneNewer, IsReturn
  <2>3. PICK j \in 1 .. NumOutputs * PoolSize : j = k - n /\ u[k] = PoolMail[j]
    BY <1>1, <1>2, <2>1, <2>2
  <2>4. (j - 1) \div PoolSize = o
    BY <2>1, <2>3 DEF PoolMail, PortMsg, IsReturn
  <2>5. j \in o * PoolSize + 1 .. o * PoolSize + PoolSize
    BY <1>1, <2>3, <2>4, PoolPlaces
  <2>6. QED
    BY <1>2, <1>3, <2>1, <2>3, <2>5
<1>5. ASSUME NEW k \in a .. b PROVE k \in Places(u, o, g)
  <2>1. PICK j \in Nat : j = k - n /\ j \in o * PoolSize + 1 .. o * PoolSize + PoolSize
    BY <1>2, <1>3
  <2>2. j \in 1 .. NumOutputs * PoolSize /\ (j - 1) \div PoolSize = o
    BY <2>1, PoolPlaces
  <2>3. k \in (n + 1) .. (n + NumOutputs * PoolSize) /\ k \in DOMAIN u
    BY <1>1, <1>2, <1>3, <2>1, <2>2
  <2>4. u[k] = PoolMail[j]
    BY <1>2, <2>1, <2>3
  <2>5. IsReturn(u[k], o, g)
    BY <2>2, <2>4 DEF PoolMail, PortMsg, IsReturn
  <2>6. QED
    BY <2>3, <2>5 DEF Places
<1>6. Places(u, o, g) = a .. b
  <2> HIDE DEF a, b, g
  <2> QED BY <1>4, <1>5
<1>7. Cardinality(a .. b) = PoolSize
  <2>1. a \in Int /\ b \in Int /\ ~ (a > b) /\ b - a + 1 = PoolSize
    BY <1>2, <1>3
  <2>2. QED
    BY <2>1, FS_Interval
<1>8. QED
  BY <1>6, <1>7 DEF Returns, u

PoolInv == /\ pool \in 0 .. generation
           /\ NoneNewer(mailbox, generation)
           /\ PoolConserved

AllCounted == pool # 0 => \A o \in Outputs :
                  out[o].count + away[o] + Returns(mailbox, o, pool) = PoolSize

\* What the property counts are the places of Returns.
LEMMA Conserved == PoolConserved <=> AllCounted
  BY DEF PoolConserved, AllCounted, Returning, Returns, Places, IsReturn

\* A step that moves no buffer.
LEMMA PoolSame ==
    ASSUME Typed, PoolInv, pool' = pool, generation' = generation, away' = away,
           \A o \in Outputs : out'[o].count = out[o].count,
           SameReturns(mailbox, mailbox')
    PROVE  PoolInv'
<1>1. NoneNewer(mailbox', generation)
  BY DEF PoolInv, SameReturns
<1>2. \A o \in Outputs : Returns(mailbox', o, pool) = Returns(mailbox, o, pool)
  BY DEF SameReturns
<1>3. AllCounted'
  BY <1>2, Conserved DEF PoolInv, AllCounted
<1>4. PoolConserved'
  BY <1>3, Conserved, PTL
<1>5. QED
  BY <1>1, <1>4 DEF PoolInv

\* A step that destroys the pool, or is that of a block without one.
LEMMA PoolGone ==
    ASSUME Typed, PoolInv, pool' = 0, generation' = generation,
           SameReturns(mailbox, mailbox')
    PROVE  PoolInv'
<1>1. NoneNewer(mailbox', generation) /\ generation \in Nat
  BY DEF PoolInv, SameReturns, Typed, TypeOK
<1>2. PoolConserved'
  BY DEF PoolConserved
<1>3. QED
  BY <1>1, <1>2 DEF PoolInv

\* mark_done destroys the pool with the buffers that are out.
LEMMA PoolMarkDone ==
    ASSUME Typed, PoolInv, NEW ins, NEW outs, MarkDone(ins, outs),
           \A o \in Outputs : outs[o].count = out[o].count,
           generation' = generation, SameReturns(mailbox, mailbox')
    PROVE  PoolInv'
<1>1. CASE block_state = "DONE"
  BY <1>1, PoolSame DEF MarkDone
<1>2. CASE block_state # "DONE"
  BY <1>2, PoolGone DEF MarkDone
<1>3. QED
  BY <1>1, <1>2

\* Taking a message that is not a buffer, and kicking.
LEMMA PoolMailTaken ==
    ASSUME TypeOK, NEW t, Receive(t), t # "OutputBuffer"
    PROVE  /\ SameReturns(mailbox, Tail(mailbox))
           /\ SameReturns(mailbox, Append(Tail(mailbox), SelfKick))
<1>1. /\ mailbox \in Seq(Message) /\ mailbox # <<>> /\ Head(mailbox).type # "OutputBuffer"
      /\ Tail(mailbox) \in Seq(Message)
  BY Received DEF Receive, Msg, TypeOK
<1>2. SameReturns(mailbox, Tail(mailbox))
  BY <1>1, ReturnsAlike
<1>3. SelfKick \in Message /\ SelfKick.type # "OutputBuffer"
  BY Messages DEF SelfKick, PortMsg
<1>4. SameReturns(Tail(mailbox), Append(Tail(mailbox), SelfKick))
  BY <1>1, <1>3, ReturnsAlike
<1>5. QED
  BY <1>2, <1>4, ReturnsTwice

\* Posting a message that is not a buffer.
LEMMA PoolMailPosted ==
    ASSUME TypeOK, NEW m \in Message, m.type # "OutputBuffer"
    PROVE  SameReturns(mailbox, Append(mailbox, m))
  BY ReturnsAlike DEF TypeOK

\* The operations of an output, as far as they count buffers.
LEMMA CountOps ==
    ASSUME NEW p \in OutputPort
    PROVE  /\ UpdateOutput(p).count = p.count
           /\ PushOutput(p).count = p.count + 1
           /\ NewQueue(p).count = 0
           /\ \A r : [p EXCEPT !.config = r].count = p.count
           /\ \A b : [p EXCEPT !.done = b].count = p.count
           /\ \A b : [p EXCEPT !.ready = b].count = p.count
           /\ [p EXCEPT !.reserve = p.config] \in OutputPort
           /\ [p EXCEPT !.reserve = p.config].count = p.count
           /\ \A n \in Nat : ConsumeOutput(p, n).count =
                                 IF PopsFront(p, n) THEN p.count - 1 ELSE p.count
<1>1. ASSUME NEW n \in Nat
      PROVE  ConsumeOutput(p, n).count = IF PopsFront(p, n) THEN p.count - 1 ELSE p.count
  <2>1. CASE PopsFront(p, n)
    <3> DEFINE q == [p EXCEPT !.count = @ - 1, !.offset = 0]
    <3>1. n # 0
      BY <2>1 DEF PopsFront
    <3>2. ConsumeOutput(p, n) = UpdateOutput(q) /\ q.count = p.count - 1
      BY <2>1, <3>1 DEF ConsumeOutput, OutputPort
    <3>3. UpdateOutput(q).count = q.count
      BY DEF UpdateOutput, OutputPort
    <3>4. QED
      BY <2>1, <3>2, <3>3
  <2>2. CASE ~ PopsFront(p, n)
    <3> DEFINE q == [p EXCEPT !.offset = @ + n]
    <3>1. n = 0 => ConsumeOutput(p, n).count = p.count
      BY DEF ConsumeOutput
    <3>2. n # 0 => ConsumeOutput(p, n) = UpdateOutput(q) /\ q.count = p.count
      BY <2>2 DEF ConsumeOutput, OutputPort
    <3>3. UpdateOutput(q).count = q.count
      BY DEF UpdateOutput, OutputPort
    <3>4. QED
      BY <2>2, <3>1, <3>2, <3>3
  <2>3. QED
    BY <2>1, <2>2
<1>2. /\ UpdateOutput(p).count = p.count
      /\ PushOutput(p).count = p.count + 1
      /\ NewQueue(p).count = 0
  BY DEF UpdateOutput, PushOutput, NewQueue, OutputPort
<1>3. /\ \A r : [p EXCEPT !.config = r].count = p.count
      /\ \A b : [p EXCEPT !.done = b].count = p.count
      /\ \A b : [p EXCEPT !.ready = b].count = p.count
      /\ [p EXCEPT !.reserve = p.config] \in OutputPort
      /\ [p EXCEPT !.reserve = p.config].count = p.count
  BY DEF OutputPort
<1>4. QED
  BY <1>1, <1>2, <1>3

\* The neighbours and the threads move one buffer, from a neighbour to the
\* mailbox.
LEMMA PoolEnvironment == ASSUME Typed, PoolInv, Environment PROVE PoolInv'
<1> USE DEF Typed
<1>1. mailbox \in Seq(Message) /\ SameReturns(mailbox, mailbox)
  BY ReturnsAlike DEF TypeOK
<1>2. ASSUME NEW m \in Message, m.type # "OutputBuffer", Post(m),
             UNCHANGED <<pool, generation, away, out>>
      PROVE  PoolInv'
  <2>1. SameReturns(mailbox, mailbox')
    BY <1>2, PoolMailPosted DEF Post
  <2>2. QED
    BY <1>2, <2>1, PoolSame
<1>3. ASSUME UNCHANGED <<mailbox, pool, generation, away, out>> PROVE PoolInv'
  BY <1>1, <1>3, PoolSame
<1>4. ASSUME NEW i \in Inputs, UpstreamActive(i) \/ UpstreamSends(i)
                               \/ UpstreamPostsMsg(i) \/ UpstreamDone(i)
      PROVE  PoolInv'
  <2>1. UNCHANGED <<pool, generation, away, out>>
    BY <1>4 DEF UpstreamActive, UpstreamSends, UpstreamPostsMsg, UpstreamDone,
                block, neighbours
  <2>2. CASE UpstreamActive(i)
    BY <1>3, <2>1, <2>2 DEF UpstreamActive
  <2>3. \A n \in Nat, t \in InputMsgs :
            PortMsg(t, i, n) \in Message /\ PortMsg(t, i, n).type # "OutputBuffer"
    BY Messages DEF InputMsgs, PortMsg
  <2>4. CASE ~ UpstreamActive(i)
    <3>1. \E n \in Nat, t \in InputMsgs : Post(PortMsg(t, i, n))
      <4>1. \A n \in 1 .. MaxChunk : n \in Nat
        OBVIOUS
      <4>2. "InputBuffer" \in InputMsgs /\ "InputMsg" \in InputMsgs /\ "InputCheck" \in InputMsgs
        BY DEF InputMsgs
      <4>3. CASE UpstreamSends(i)
        BY <4>1, <4>2, <4>3, Zenon DEF UpstreamSends
      <4>4. CASE UpstreamPostsMsg(i)
        BY <4>2, <4>4 DEF UpstreamPostsMsg
      <4>5. CASE UpstreamDone(i)
        BY <4>2, <4>5 DEF UpstreamDone
      <4>6. QED
        BY <1>4, <2>4, <4>3, <4>4, <4>5
    <3>2. QED
      BY <1>2, <2>1, <2>3, <3>1
  <2>5. QED
    BY <2>2, <2>4
<1>5. ASSUME NEW d \in Outputs, DownstreamReturns(d) PROVE PoolInv'
  <2> PICK m \in Message : m = PortMsg("OutputBuffer", d, pool)
    BY Messages DEF OutputMsgs, TypeOK
  <2>1. /\ mailbox' = Append(mailbox, m)
        /\ UNCHANGED <<pool, generation, out>>
        /\ away' = [away EXCEPT ![d] = @ - 1] /\ away[d] > 0 /\ away \in [Outputs -> Nat]
    BY <1>5 DEF DownstreamReturns, Post, block, TypeOK
  <2>2. \A o : IsReturn(m, o, pool) <=> o = d
    BY DEF IsReturn, PortMsg
  <2>3. NoneNewer(mailbox', generation')
    <3>1. \A k \in DOMAIN mailbox' :
              mailbox'[k] = m \/ (k \in DOMAIN mailbox /\ mailbox'[k] = mailbox[k])
      <4>1. /\ DOMAIN mailbox' = 1 .. Len(mailbox) + 1 /\ DOMAIN mailbox = 1 .. Len(mailbox)
            /\ Len(mailbox) \in Nat /\ mailbox'[Len(mailbox) + 1] = m
            /\ \A k \in 1 .. Len(mailbox) : mailbox'[k] = mailbox[k]
        BY <1>1, <2>1
      <4>2. QED
        BY <4>1
    <3>2. m.num <= generation
      BY DEF PoolInv, TypeOK, PortMsg
    <3>3. QED
      BY <2>1, <3>1, <3>2, Zenon DEF NoneNewer, PoolInv
  <2>4. ASSUME pool # 0, NEW o \in Outputs
        PROVE  out[o].count + away'[o] + Returns(mailbox', o, pool) = PoolSize
    <3>1. out[o].count + away[o] + Returns(mailbox, o, pool) = PoolSize
      BY <2>4, Conserved DEF PoolInv, AllCounted
    <3>2. Returns(mailbox, o, pool) \in Nat /\ out[o].count \in Nat /\ away[o] \in Nat
      BY <1>1, ReturnsFinite DEF TypeOK, OutputPort
    <3>3. Returns(mailbox', o, pool) = IF o = d THEN Returns(mailbox, o, pool) + 1
                                       ELSE Returns(mailbox, o, pool)
      BY <1>1, <2>1, <2>2, ReturnsAppend
    <3>4. QED
      BY <2>1, <3>1, <3>2, <3>3
  <2>5. AllCounted'
    BY <2>1, <2>4 DEF AllCounted
  <2>6. PoolConserved'
    BY <2>5, Conserved, PTL
  <2>7. QED
    BY <2>1, <2>3, <2>6 DEF PoolInv
<1>6. ASSUME NEW o \in Outputs, DownstreamDone(o) PROVE PoolInv'
  <2>1. PortMsg("OutputCheck", o, 0) \in Message
    BY Messages DEF OutputMsgs
  <2>2. QED
    BY <1>2, <1>6, <2>1 DEF DownstreamDone, PortMsg, block
<1>7. ASSUME NEW s \in Senders \cup {Nobody}, NEW t \in OtherMsgs, Post(PrioMsg(t, s)),
             UNCHANGED <<block, neighbours>>
      PROVE  PoolInv'
  <2>1. PrioMsg(t, s) \in Message /\ PrioMsg(t, s).type # "OutputBuffer"
    BY Messages DEF PrioMsg, OtherMsgs
  <2>2. QED
    BY <1>2, <1>7, <2>1 DEF block, neighbours
<1>8. ASSUME NEW s \in Senders, NEW t \in OtherMsgs, Ask(s, t) PROVE PoolInv'
  BY <1>7, <1>8 DEF Ask
<1>9. ASSUME NEW c \in Callers \cup Monitors, CallProperty(c) \/ QueryStats(c)
      PROVE  PoolInv'
  BY <1>8, <1>9 DEF CallProperty, QueryStats, Senders, OtherMsgs
<1>10. CASE StartStep \/ Stop
  <2>1. Top \in Senders
    BY DEF Senders
  <2>2. CASE StartStep
    <3>1. StartSeq[top_step + 1] \in OtherMsgs
      <4>1. top_step + 1 = 1 \/ top_step + 1 = 2 \/ top_step + 1 = 3 \/ top_step + 1 = 4
            \/ top_step + 1 = 5
        BY <2>2 DEF StartStep, TypeOK
      <4>2. QED
        BY <4>1 DEF StartSeq, OtherMsgs
    <3>2. QED
      BY <1>8, <2>1, <2>2, <3>1 DEF StartStep
  <2>3. CASE Stop
    BY <1>8, <2>1, <2>3 DEF Stop, OtherMsgs
  <2>4. QED
    BY <1>10, <2>2, <2>3
<1>11. CASE WaitPoll
  BY <1>7, <1>11 DEF WaitPoll, OtherMsgs
<1>12. ASSUME NEW s, ReleaseCopy(s) PROVE PoolInv'
  BY <1>3, <1>12 DEF ReleaseCopy, block, neighbours
<1>13. CASE StartAgain
  BY <1>3, <1>13 DEF StartAgain, block, neighbours
<1>14. ASSUME NEW ins, NEW outs, CommitConfig(ins, outs) PROVE PoolInv'
  <2> PICK s \in Seq(Message), t \in Seq(Message) :
          /\ s = [k \in 1 .. NumInputs |-> PortMsg("InputUpdate", k - 1, 0)]
          /\ t = [k \in 1 .. NumOutputs |-> PortMsg("OutputUpdate", k - 1, 0)]
          /\ DOMAIN s = 1 .. NumInputs /\ DOMAIN t = 1 .. NumOutputs
    BY UpdateMailType, IndexedMail, Constants
  <2>1. NoBuffer(s) /\ NoBuffer(t)
    BY DEF NoBuffer, PortMsg
  <2>2. /\ mailbox' = (mailbox \o s) \o t /\ UNCHANGED <<pool, generation, away>>
        /\ out' = [o \in Outputs |-> [out[o] EXCEPT !.config = outs[o]]]
    BY <1>14 DEF CommitConfig, neighbours
  <2>3. SameReturns(mailbox, mailbox \o s)
    BY <1>1, <2>1, ReturnsConcat
  <2>4. mailbox \o s \in Seq(Message)
    BY <1>1
  <2>5. SameReturns(mailbox \o s, (mailbox \o s) \o t)
    BY <2>1, <2>4, ReturnsConcat
  <2>6. SameReturns(mailbox, mailbox')
    BY <2>2, <2>3, <2>5, ReturnsTwice
  <2>7. \A o \in Outputs : out'[o].count = out[o].count
    BY <2>2, CountOps DEF TypeOK
  <2>8. QED
    BY <2>2, <2>6, <2>7, PoolSame
<1>15. QED
  BY <1>4, <1>5, <1>6, <1>9, <1>10, <1>11, <1>12, <1>13, <1>14 DEF Environment

\* task_main after work(): a buffer of which more than half is used goes
\* downstream.
LEMMA PoolPostWork ==
    ASSUME Typed, PoolInv, NEW ins, NEW outs \in [Outputs -> OutputPort],
           NEW eaten, NEW popped, NEW un, NEW made \in [Outputs -> Nat],
           NEW kicks \in Nat, PostWork(ins, outs, eaten, popped, un, made, kicks),
           \A o \in Outputs : outs[o].count = out[o].count /\ out[o].count > 0
    PROVE  PoolInv'
<1> PICK s \in Seq(Message) : s = [k \in 1 .. kicks |-> SelfKick] /\ DOMAIN s = 1 .. kicks
  BY Messages, IndexedMail
<1> PICK t \in Seq(Message) :
        t = IF TokenUnique /\ Workable' THEN <<SelfKick>> ELSE <<>>
  <2>1. SelfKick \in Message
    BY Messages
  <2>2. <<SelfKick>> \in Seq(Message) /\ <<>> \in Seq(Message)
    BY <2>1
  <2>3. QED
    BY <2>2
<1>1. mailbox \in Seq(Message) /\ away \in [Outputs -> Nat] /\ out \in [Outputs -> OutputPort]
  BY DEF Typed, TypeOK
<1>2. SelfKick.type # "OutputBuffer"
  BY DEF SelfKick, PortMsg
<1>3. NoBuffer(s)
  BY <1>2 DEF NoBuffer
<1>4. NoBuffer(t)
  <2>1. \A k \in DOMAIN t : t[k] = SelfKick
    BY DEF SelfKick
  <2>2. QED
    BY <1>2, <2>1 DEF NoBuffer
<1>5. /\ mailbox' = (mailbox \o s) \o t /\ pool' = pool /\ generation' = generation
      /\ out' = [o \in Outputs |-> ConsumeOutput(outs[o], made[o])]
      /\ away' = [o \in Outputs |-> IF PopsFront(outs[o], made[o]) THEN away[o] + 1
                                    ELSE away[o]]
  BY DEF PostWork
<1>6. SameReturns(mailbox, mailbox')
  <2>1. SameReturns(mailbox, mailbox \o s)
    BY <1>1, <1>3, ReturnsConcat
  <2>0. mailbox \o s \in Seq(Message)
    BY <1>1, ConcatProperties
  <2>2. SameReturns(mailbox \o s, (mailbox \o s) \o t)
    BY <1>4, <2>0, ReturnsConcat
  <2>3. QED
    BY <1>5, <2>1, <2>2, ReturnsTwice
<1>7. ASSUME NEW o \in Outputs PROVE out'[o].count + away'[o] = out[o].count + away[o]
  <2>1. out'[o].count = IF PopsFront(outs[o], made[o]) THEN out[o].count - 1 ELSE out[o].count
    <3>1. outs[o] \in OutputPort /\ made[o] \in Nat /\ outs[o].count = out[o].count
      OBVIOUS
    <3>2. out'[o] = ConsumeOutput(outs[o], made[o])
      BY <1>5
    <3>3. ConsumeOutput(outs[o], made[o]).count =
              IF PopsFront(outs[o], made[o]) THEN outs[o].count - 1 ELSE outs[o].count
      BY ONLY <3>1, CountOps
    <3>4. QED
      BY <3>1, <3>2, <3>3
  <2>2. away'[o] = IF PopsFront(outs[o], made[o]) THEN away[o] + 1 ELSE away[o]
    BY <1>5
  <2>3. out[o].count \in Nat /\ away[o] \in Nat
    BY <1>1 DEF OutputPort
  <2>4. CASE PopsFront(outs[o], made[o])
    <3>1. out'[o].count = out[o].count - 1
      BY <2>1, <2>4, Zenon
    <3>2. away'[o] = away[o] + 1
      BY <2>2, <2>4, Zenon
    <3>3. PICK a \in Nat, d \in Nat : a = out[o].count /\ d = away[o]
      BY <2>3
    <3>4. (a - 1) + (d + 1) = a + d
      <4>1. \A x, y \in Nat : (x - 1) + (y + 1) = x + y
        OBVIOUS
      <4>2. QED
        BY ONLY <3>3, <4>1
    <3>5. out'[o].count = a - 1 /\ away'[o] = d + 1
      BY <3>1, <3>2, <3>3
    <3>6. QED
      BY <3>3, <3>4, <3>5
  <2>5. CASE ~ PopsFront(outs[o], made[o])
    BY <2>1, <2>2, <2>3, <2>5
  <2>6. QED
    BY <2>4, <2>5
<1>8. \A o \in Outputs : Returns(mailbox', o, pool) = Returns(mailbox, o, pool)
  BY <1>6 DEF SameReturns
<1>9. AllCounted'
  BY <1>5, <1>7, <1>8, Conserved DEF PoolInv, AllCounted
<1>10. PoolConserved'
  BY <1>9, Conserved, PTL
<1>11. NoneNewer(mailbox', generation)
  BY <1>6 DEF SameReturns, PoolInv
<1>12. QED
  BY <1>5, <1>10, <1>11 DEF PoolInv

\* A buffer that comes back joins its queue, is posted again by a pool of a
\* block that is DONE, or belongs to a pool that is gone.
LEMMA PoolBuffer == ASSUME Typed, PoolInv, HandleOutputBuffer PROVE PoolInv'
<1>1. /\ mailbox \in Seq(Message) /\ mailbox # <<>> /\ Tail(mailbox) \in Seq(Message)
      /\ Msg \in Message /\ Msg.type = "OutputBuffer" /\ Msg.port \in Outputs
      /\ Msg.num \in Nat /\ Msg = Head(mailbox)
  BY Received DEF HandleOutputBuffer, Receive, Msg, OutputMsgs, Typed, TypeOK
<1>2. /\ away \in [Outputs -> Nat] /\ out \in [Outputs -> OutputPort]
      /\ pool \in Nat /\ generation \in Nat
  BY DEF Typed, TypeOK
<1>3. /\ Msg.num <= generation
      /\ NoneNewer(Tail(mailbox), generation)
  <2>1. /\ 1 \in DOMAIN mailbox /\ mailbox[1] = Msg
        /\ \A k \in DOMAIN Tail(mailbox) :
               k + 1 \in DOMAIN mailbox /\ Tail(mailbox)[k] = mailbox[k + 1]
    BY <1>1
  <2>2. NoneNewer(mailbox, generation)
    BY DEF PoolInv
  <2>3. QED
    BY <1>1, <2>1, <2>2, Zenon DEF NoneNewer
<1>4. ASSUME NEW o \in Outputs
      PROVE  /\ Returns(Tail(mailbox), o, pool) \in Nat
             /\ Returns(mailbox, o, pool) =
                    IF o = Msg.port /\ Msg.num = pool
                    THEN Returns(Tail(mailbox), o, pool) + 1
                    ELSE Returns(Tail(mailbox), o, pool)
             /\ pool # 0 => out[o].count + away[o] + Returns(mailbox, o, pool) = PoolSize
             /\ out[o].count \in Nat /\ away[o] \in Nat
  <2>1. Returns(Tail(mailbox), o, pool) \in Nat
    BY <1>1, ReturnsFinite
  <2>2. IsReturn(Msg, o, pool) <=> o = Msg.port /\ Msg.num = pool
    BY <1>1 DEF IsReturn
  <2>3. Returns(mailbox, o, pool) = IF IsReturn(Msg, o, pool)
                                    THEN Returns(Tail(mailbox), o, pool) + 1
                                    ELSE Returns(Tail(mailbox), o, pool)
    BY <1>1, ReturnsTail
  <2>4. pool # 0 => out[o].count + away[o] + Returns(mailbox, o, pool) = PoolSize
    BY Conserved DEF PoolInv, AllCounted
  <2>5. out[o].count \in Nat /\ away[o] \in Nat
    BY <1>2 DEF OutputPort
  <2>6. QED
    BY <2>1, <2>2, <2>3, <2>4, <2>5
<1>5. UNCHANGED <<pool, generation, away>>
  BY DEF HandleOutputBuffer, Dropped, ThenMain, block, neighbours
<1>6. SUFFICES ASSUME TRUE
               PROVE  /\ NoneNewer(mailbox', generation)
                      /\ \A o \in Outputs : pool # 0 =>
                             out'[o].count + away[o] + Returns(mailbox', o, pool) = PoolSize
  <2>1. ASSUME NoneNewer(mailbox', generation),
               \A o \in Outputs : pool # 0 =>
                   out'[o].count + away[o] + Returns(mailbox', o, pool) = PoolSize
        PROVE  PoolInv'
    <3>1. AllCounted'
      BY <1>5, <2>1 DEF AllCounted
    <3>2. PoolConserved'
      BY <3>1, Conserved, PTL
    <3>3. QED
      BY <1>5, <2>1, <3>2 DEF PoolInv
  <2>2. QED
    BY <2>1
<1>7. CASE mailbox' = Append(Tail(mailbox), Msg) /\ Msg.num = pool /\ out' = out
  <2>1. NoneNewer(mailbox', generation)
    <3>1. \A k \in DOMAIN mailbox' :
              mailbox'[k] = Msg
                  \/ (k \in DOMAIN Tail(mailbox) /\ mailbox'[k] = Tail(mailbox)[k])
      <4> PICK s \in Seq(Message) : s = Tail(mailbox)
        BY <1>1
      <4>1. /\ DOMAIN mailbox' = 1 .. Len(s) + 1 /\ DOMAIN s = 1 .. Len(s)
            /\ Len(s) \in Nat /\ mailbox'[Len(s) + 1] = Msg
            /\ \A k \in 1 .. Len(s) : mailbox'[k] = s[k]
        BY <1>7
      <4>2. QED
        BY <4>1
    <3>2. QED
      BY <1>3, <3>1, Zenon DEF NoneNewer
  <2>2. ASSUME NEW o \in Outputs
        PROVE  Returns(mailbox', o, pool) = Returns(mailbox, o, pool)
    <3>1. Returns(mailbox', o, pool) = IF IsReturn(Msg, o, pool)
                                       THEN Returns(Tail(mailbox), o, pool) + 1
                                       ELSE Returns(Tail(mailbox), o, pool)
      <4>1. Tail(mailbox) \in Seq(Message) /\ Msg \in Message
        BY <1>1
      <4>2. Returns(Append(Tail(mailbox), Msg), o, pool) =
                IF IsReturn(Msg, o, pool) THEN Returns(Tail(mailbox), o, pool) + 1
                ELSE Returns(Tail(mailbox), o, pool)
        BY ONLY <4>1, ReturnsAppend
      <4>3. QED
        BY <1>7, <4>2
    <3>2. IsReturn(Msg, o, pool) <=> o = Msg.port /\ Msg.num = pool
      BY <1>1 DEF IsReturn
    <3>3. QED
      BY <1>4, <3>1, <3>2
  <2>3. QED
    BY <1>4, <1>7, <2>1, <2>2
<1>8. CASE mailbox' = Tail(mailbox) /\ Msg.num # pool
           /\ \A o \in Outputs : out'[o].count = out[o].count
  BY <1>3, <1>4, <1>8
<1>9. CASE /\ mailbox' = Tail(mailbox) /\ Msg.num = pool
           /\ pool # 0 => \A o \in Outputs : out'[o].count =
                              IF o = Msg.port THEN out[o].count + 1 ELSE out[o].count
  BY <1>3, <1>4, <1>9
<1>10. CASE Dropped
  <2>1. out' = out /\ block_state = "DONE"
    BY <1>10 DEF Dropped, block
  <2>2. mailbox' = IF Msg.num = pool THEN Append(Tail(mailbox), Msg) ELSE Tail(mailbox)
    BY <2>1, Zenon DEF HandleOutputBuffer
  <2>3. CASE Msg.num = pool
    <3>1. mailbox' = Append(Tail(mailbox), Msg)
      BY <2>2, <2>3
    <3>2. QED
      BY <1>7, <2>1, <2>3, <3>1
  <2>4. CASE Msg.num # pool
    <3>1. mailbox' = Tail(mailbox)
      BY <2>2, <2>4
    <3>2. QED
      BY <1>8, <2>1, <2>4, <3>1
  <2>5. QED
    BY <2>3, <2>4
<1>11. CASE ~ Dropped
  <2> DEFINE p == out[Msg.port]
  <2>1. /\ mailbox' = Tail(mailbox)
        /\ out' = [out EXCEPT ![Msg.port] =
                      IF pool = 0 THEN @
                      ELSE UpdateOutput(IF Msg.num = pool THEN PushOutput(@) ELSE @)]
    BY <1>11 DEF HandleOutputBuffer, Take
  <2>2. PushOutput(p) \in OutputPort /\ p \in OutputPort
    <3>1. \A q \in OutputPort : PushOutput(q) \in OutputPort
      BY DEF OutputPort, PushOutput
    <3>2. QED
      BY <1>1, <1>2, <3>1
  <2>3. /\ UpdateOutput(PushOutput(p)).count = p.count + 1
        /\ UpdateOutput(p).count = p.count
    BY <2>2, CountOps
  <2>4. CASE Msg.num = pool
    <3>1. \A o \in Outputs : pool # 0 =>
              out'[o].count = IF o = Msg.port THEN out[o].count + 1 ELSE out[o].count
      BY <1>1, <1>2, <2>1, <2>3, <2>4
    <3>2. QED
      BY <1>9, <2>1, <2>4, <3>1
  <2>5. CASE Msg.num # pool
    <3>1. \A o \in Outputs : out'[o].count = out[o].count
      BY <1>1, <1>2, <2>1, <2>3, <2>5
    <3>2. QED
      BY <1>8, <2>1, <2>5, <3>1
  <2>6. QED
    BY <2>4, <2>5
<1>12. QED
  BY <1>10, <1>11

\* handle_top_alloc makes a pool, and all its buffers are on their way.
LEMMA PoolAlloc == ASSUME Typed, PoolInv, HandleTopAlloc PROVE PoolInv'
<1>1. /\ mailbox \in Seq(Message) /\ mailbox # <<>> /\ Tail(mailbox) \in Seq(Message)
      /\ generation \in Nat /\ Head(mailbox).type # "OutputBuffer"
  BY Received DEF HandleTopAlloc, Receive, Msg, Typed, TypeOK
<1>2. /\ mailbox' = Tail(mailbox) \o PoolMail
      /\ generation' = generation + 1 /\ pool' = generation + 1
      /\ out' = [o \in Outputs |-> NewQueue(out[o])] /\ away' = [o \in Outputs |-> 0]
  BY DEF HandleTopAlloc
<1>3. SameReturns(mailbox, Tail(mailbox))
  BY <1>1, ReturnsAlike
<1>4. NoneNewer(Tail(mailbox), generation)
  BY <1>3 DEF SameReturns, PoolInv
<1>5. \A o \in Outputs : Returns(mailbox', o, generation + 1) = PoolSize
  BY <1>1, <1>2, <1>4, ReturnsAlloc
<1>6. ASSUME NEW o \in Outputs
      PROVE  out'[o].count + away'[o] + Returns(mailbox', o, pool') = PoolSize
  <2>1. out'[o].count = 0 /\ away'[o] = 0
    BY <1>2, CountOps DEF Typed, TypeOK
  <2>2. PoolSize \in Nat
    BY Constants
  <2>3. QED
    BY <1>2, <1>5, <2>1, <2>2
<1>7. AllCounted'
  BY <1>6 DEF AllCounted
<1>8. PoolConserved'
  BY <1>7, Conserved, PTL
<1>9. NoneNewer(mailbox', generation + 1)
  <2> PICK s \in Seq(Message), t \in Seq(Message) : s = Tail(mailbox) /\ t = PoolMail
    BY <1>1, PoolMailType, IndexedMail
  <2>1. \A k \in DOMAIN t : t[k].num = generation + 1
    <3>1. DOMAIN PoolMail = 1 .. NumOutputs * PoolSize
      BY DEF PoolMail
    <3>2. QED
      BY <3>1 DEF PoolMail, PortMsg
  <2>2. \A k \in DOMAIN (s \o t) : \/ k \in DOMAIN s /\ (s \o t)[k] = s[k]
                                   \/ \E j \in DOMAIN t : (s \o t)[k] = t[j]
    <3>1. /\ DOMAIN (s \o t) = 1 .. Len(s) + Len(t) /\ DOMAIN s = 1 .. Len(s)
          /\ DOMAIN t = 1 .. Len(t) /\ Len(s) \in Nat /\ Len(t) \in Nat
          /\ \A k \in 1 .. Len(s) + Len(t) :
                 (s \o t)[k] = IF k <= Len(s) THEN s[k] ELSE t[k - Len(s)]
      OBVIOUS
    <3>2. \A k \in 1 .. Len(s) + Len(t) : k <= Len(s) \/ k - Len(s) \in 1 .. Len(t)
      BY <3>1
    <3>3. QED
      BY <3>1, <3>2
  <2>3. \A k \in DOMAIN t : t[k].num <= generation + 1
    BY <1>1, <2>1
  <2>4. \A k \in DOMAIN s : s[k].type = "OutputBuffer" => s[k].num <= generation + 1
    <3>1. ASSUME NEW k \in DOMAIN s, s[k].type = "OutputBuffer"
          PROVE  s[k].num <= generation + 1
      <4>1. s[k].num <= generation
        BY <1>4, <3>1 DEF NoneNewer
      <4>2. s[k].num \in Nat
        BY <3>1 DEF Message
      <4>3. QED
        BY <1>1, <4>1, <4>2
    <3>2. QED
      BY <3>1
  <2>5. ASSUME NEW k \in DOMAIN (s \o t), (s \o t)[k].type = "OutputBuffer"
        PROVE  (s \o t)[k].num <= generation + 1
    <3>1. CASE k \in DOMAIN s /\ (s \o t)[k] = s[k]
      BY <2>4, <2>5, <3>1
    <3>2. CASE \E j \in DOMAIN t : (s \o t)[k] = t[j]
      BY <2>3, <3>2
    <3>3. QED
      BY <2>2, <3>1, <3>2, Zenon
  <2>6. QED
    BY <1>2, <2>5, Zenon DEF NoneNewer
<1>10. QED
  BY <1>1, <1>2, <1>8, <1>9 DEF PoolInv

\* The handlers and task_main.
LEMMA PoolActor == ASSUME Typed, PoolInv, Actor PROVE PoolInv'
<1>1. /\ mailbox \in Seq(Message) /\ SameReturns(mailbox, mailbox) /\ TypeOK
      /\ away \in [Outputs -> Nat] /\ out \in [Outputs -> OutputPort]
  BY ReturnsAlike DEF Typed, TypeOK
<1>2. ASSUME NEW t, Receive(t), t # "OutputBuffer", Take \/ TakeAndKick
      PROVE  SameReturns(mailbox, mailbox')
  BY <1>1, <1>2, PoolMailTaken DEF Take, TakeAndKick
<1>3. ASSUME NEW t, Receive(t), t # "OutputBuffer", Take \/ TakeAndKick,
             UNCHANGED <<pool, generation, away>>,
             \A o \in Outputs : out'[o].count = out[o].count
      PROVE  PoolInv'
  BY <1>2, <1>3, PoolSame
<1>4. ASSUME NEW t \in {"TopThread", "TopConfig"}, HandleTopSetup(t) PROVE PoolInv'
  BY <1>3, <1>4 DEF HandleTopSetup, block, neighbours
<1>5. ASSUME NEW t \in {"Callable", "GetStats"}, HandleCall(t) PROVE PoolInv'
  BY <1>3, <1>5 DEF HandleCall, block, neighbours
<1>6. CASE HandleTopActive
  BY <1>3, <1>6 DEF HandleTopActive, neighbours
<1>7. CASE HandleSelfKick
  BY <1>3, <1>7 DEF HandleSelfKick, ThenMain, neighbours
<1>8. CASE HandleInputBuffer
  BY <1>3, <1>8, Zenon DEF HandleInputBuffer, Dropped, ThenMain, block, neighbours
<1>9. CASE HandleInputMsg
  BY <1>3, <1>9, Zenon DEF HandleInputMsg, Dropped, ThenMain, block, neighbours
<1>10. CASE HandleInputCheck
  BY <1>3, <1>10 DEF HandleInputCheck, neighbours
<1>11. CASE HandleInputUpdate
  BY <1>3, <1>11 DEF HandleInputUpdate, neighbours
<1>12. CASE HandleTopToken
  <2>1. \A o \in Outputs : out'[o].count = out[o].count
    BY <1>1, <1>12, CountOps DEF HandleTopToken
  <2>2. QED
    BY <1>3, <1>12, <2>1 DEF HandleTopToken
<1>13. CASE HandleTopInert
  <2>1. SameReturns(mailbox, mailbox')
    BY <1>2, <1>13 DEF HandleTopInert
  <2>2. MarkDone(in, out) /\ generation' = generation
    BY <1>13 DEF HandleTopInert
  <2>3. QED
    BY <2>1, <2>2, PoolMarkDone
<1>14. CASE HandleOutputCheck
  <2> PICK checked :
          checked = [out EXCEPT ![Msg.port].done = Msg.port \notin downstream]
    OBVIOUS
  <2>1. SameReturns(mailbox, mailbox') /\ generation' = generation
    BY <1>2, <1>14 DEF HandleOutputCheck
  <2>2. \A o \in Outputs : checked[o].count = out[o].count
    BY <1>1, CountOps
  <2>3. MarkDone(in, checked) \/ (out' = checked /\ UNCHANGED <<pool, away>>)
    BY <1>14 DEF HandleOutputCheck
  <2>4. CASE MarkDone(in, checked)
    BY <2>1, <2>2, <2>4, PoolMarkDone
  <2>5. CASE out' = checked /\ UNCHANGED <<pool, away>>
    BY <2>1, <2>2, <2>5, PoolSame
  <2>6. QED
    BY <2>3, <2>4, <2>5
<1>15. CASE HandleOutputUpdate
  <2> PICK p : p = [out[Msg.port] EXCEPT !.reserve = out[Msg.port].config]
    OBVIOUS
  <2>1. Msg.port \in Outputs
    BY <1>1, <1>15, Received DEF HandleOutputUpdate, OutputMsgs
  <2>2. p \in OutputPort /\ p.count = out[Msg.port].count
    BY <1>1, <2>1, CountOps
  <2>3. UpdateOutput(p).count = out[Msg.port].count
    BY <2>2, CountOps
  <2>4. out' = [out EXCEPT ![Msg.port] = IF pool = 0 THEN p ELSE UpdateOutput(p)]
    BY <1>15 DEF HandleOutputUpdate
  <2>5. \A o \in Outputs : out'[o].count = out[o].count
    BY <1>1, <2>1, <2>2, <2>3, <2>4
  <2>6. QED
    BY <1>3, <1>15, <2>5 DEF HandleOutputUpdate, neighbours
<1>16. CASE HandleTopAlloc
  BY <1>16, PoolAlloc
<1>17. CASE HandleOutputBuffer
  BY <1>17, PoolBuffer
<1>18. CASE WorkRefused \/ WorkStarts
  BY <1>1, <1>18, PoolSame DEF WorkRefused, WorkStarts, block, neighbours
<1>19. CASE WorkMarksDone
  BY <1>1, <1>19, PoolGone DEF WorkMarksDone
<1>20. ASSUME pc = "work" PROVE \A o \in Outputs : out[o].count > 0
  BY <1>20, AtWork
<1>21. CASE WorkReturns
  <2>1. PICK eaten \in [Inputs -> 0 .. MaxFeed * MaxChunk],
             popped \in [Inputs -> 0 .. MaxFeed],
             made \in [Outputs -> 0 .. OutSize],
             unstitched \in [Inputs -> BOOLEAN] :
             PostWork(in, out, eaten, popped, unstitched, made, 0)
    BY <1>21 DEF WorkReturns
  <2>2. made \in [Outputs -> Nat] /\ pc = "work"
    BY <1>21 DEF WorkReturns
  <2>3. QED
    BY <1>1, <1>20, <2>1, <2>2, PoolPostWork
<1>22. None(Outputs) \in [Outputs -> Nat]
  BY DEF None
<1>23. ASSUME NEW what, Throw(what) PROVE PoolInv'
  BY <1>1, <1>23, PoolSame DEF Throw, block, neighbours
<1>24. ASSUME NEW i \in Inputs, WorkFailsInput(i) PROVE PoolInv'
  <2>1. pc = "work"
    BY <1>24 DEF WorkFailsInput
  <2> PICK kicks \in Nat : kicks = IF IsWorkAllowed THEN 1 ELSE 0
    OBVIOUS
  <2>2. \/ PostWork([in EXCEPT ![i] = Accumulate(@)], out, None(Inputs), None(Inputs),
                    Never(Inputs), None(Outputs), kicks)
        \/ PostWork([in EXCEPT ![i].ready = FALSE], out, None(Inputs), None(Inputs),
                    Never(Inputs), None(Outputs), 0)
        \/ Throw("input_maximal")
    BY <1>24, Zenon DEF WorkFailsInput
  <2>3. ASSUME NEW ins, NEW n \in Nat, PostWork(ins, out, None(Inputs), None(Inputs),
                                                Never(Inputs), None(Outputs), n)
        PROVE  PoolInv'
    BY <1>1, <1>20, <1>22, <2>1, <2>3, PoolPostWork
  <2>4. QED
    <3>1. 0 \in Nat
      OBVIOUS
    <3>2. QED
      BY <1>23, <2>2, <2>3, <3>1, Zenon
<1>25. ASSUME NEW i \in Inputs, CheckInputDone(i) PROVE PoolInv'
  <2>1. /\ MarkDone(in, out) \/ UNCHANGED <<out, pool, away>>
        /\ generation' = generation /\ mailbox' = mailbox
    BY <1>25 DEF CheckInputDone
  <2>2. CASE MarkDone(in, out)
    BY <1>1, <2>1, <2>2, PoolMarkDone
  <2>3. CASE UNCHANGED <<out, pool, away>>
    BY <1>1, <2>1, <2>3, PoolSame
  <2>4. QED
    BY <2>1, <2>2, <2>3
<1>26. ASSUME NEW o \in Outputs, NEW n \in 0 .. OutSize, WorkFailsOutput(o, n)
       PROVE  PoolInv'
  <2> PICK outs, made : /\ outs = [out EXCEPT ![o].ready = FALSE]
                        /\ made = [None(Outputs) EXCEPT ![o] = n]
    OBVIOUS
  <2>1. pc = "work"
    BY <1>26 DEF WorkFailsOutput
  <2>2. \/ PostWork(in, outs, None(Inputs), None(Inputs), Never(Inputs), made, 0)
        \/ \E what : Throw(what)
    BY <1>26, Zenon DEF WorkFailsOutput
  <2>3. made \in [Outputs -> Nat]
    BY <1>22, Constants
  <2>4. outs \in [Outputs -> OutputPort] /\ \A x \in Outputs : outs[x].count = out[x].count
    <3>1. \A p \in OutputPort : [p EXCEPT !.ready = FALSE] \in OutputPort
      BY DEF OutputPort
    <3>2. QED
      BY <1>1, <3>1, CountOps
  <2>5. QED
    BY <1>20, <1>23, <2>1, <2>2, <2>3, <2>4, PoolPostWork
<1>27. QED
  BY <1>4, <1>5, <1>6, <1>7, <1>8, <1>9, <1>10, <1>11, <1>12, <1>13, <1>14, <1>15,
     <1>16, <1>17, <1>18, <1>19, <1>21, <1>24, <1>25, <1>26 DEF Actor

\* No pool loses a buffer, and none gains one.
THEOREM PoolKeepsBuffers == Spec => []PoolConserved
<1>1. Init => PoolInv
  BY DEF Init, PoolInv, NoneNewer, PoolConserved
<1>2. Typed /\ PoolInv /\ [Next]_vars => PoolInv'
  <2>1. ASSUME Typed, PoolInv, UNCHANGED vars PROVE PoolInv'
    <3>1. SameReturns(mailbox, mailbox') /\ UNCHANGED <<pool, generation, away, out>>
      BY <2>1, ReturnsAlike DEF vars, block, neighbours, Typed, TypeOK
    <3>2. QED
      BY <2>1, <3>1, PoolSame
  <2>2. QED
    BY <2>1, PoolEnvironment, PoolActor DEF Next
<1>3. PoolInv => PoolConserved
  BY DEF PoolInv
<1>4. QED
  BY <1>1, <1>2, <1>3, TypedAlways, PTL DEF Spec

-----------------------------------------------------------------------------
(* What a step may do to one input port.                                   *)

\* nothing that the properties below look at
Alike(p, q) == /\ q.ends = p.ends /\ q.length = p.length /\ q.reserve = p.reserve
               /\ q.msgs = p.msgs /\ q.ready = p.ready /\ q.avail = p.avail

\* f, g: the input is in failed before, after; w: work() has just returned
Sources(p, r, f, g, w) ==
    /\ r.msgs <= p.msgs \/ \E m \in Of(mailbox) : m.type = "InputMsg"
    /\ (p.ready => p.length >= p.reserve) => (r.ready => r.length >= r.reserve)
    /\ g => (~r.ready /\ r.msgs = 0) \/ (w /\ f)

InputStep(i) ==
    LET p == in[i]
        q == in'[i]
    IN  \/ Alike(p, q) /\ (i \in failed' => i \in failed)
        \/ \E r \in InputPort :
               /\ q = UpdateInputAvail(r)
               /\ Sources(p, r, i \in failed, i \in failed', pc = "work")
        \/ q = Front(p) /\ WorkStarts
        \/ q = FlushInput(p) /\ failed' = {} /\ block_state' = "DONE"

\* work() leaves x of the input p; n of its items and d messages go
WorkLeaves(p, x, n, d, f, g) ==
    /\ n <= x.length /\ d <= x.msgs
    /\ x.msgs = p.msgs /\ x.length = p.length /\ x.reserve = p.reserve
    /\ x.ready => p.ready
    /\ g => f \/ (~x.ready /\ x.msgs = 0 /\ n = 0)

\* Each operation of an input port, as the source of an update_input_avail.
LEMMA SourceOps ==
    ASSUME NEW p \in InputPort, NEW n \in Nat, NEW b \in BOOLEAN, NEW f, NEW w
    PROVE  /\ Sources(p, Push(p, n, b), f, FALSE, w)
           /\ Sources(p, FlushInput(p), f, FALSE, w)
           /\ PushMsg(p) \in InputPort
           /\ (\E m \in Of(mailbox) : m.type = "InputMsg")
                 => Sources(p, PushMsg(p), f, FALSE, w)
<1>1. p.msgs \in Nat /\ p.length \in Nat /\ p.reserve \in Nat
  BY Reserves DEF InputPort
<1>2. /\ Push(p, n, b).msgs = p.msgs /\ Push(p, n, b).length = p.length + n
      /\ Push(p, n, b).reserve = p.reserve
      /\ Push(p, n, b).ready <=> p.length + n >= p.reserve
  BY DEF Push, InputPort
<1>3. /\ FlushInput(p).msgs = 0 /\ FlushInput(p).length = 0
      /\ FlushInput(p).reserve = p.reserve
      /\ FlushInput(p).ready <=> 0 >= p.reserve
  BY DEF FlushInput, InputPort
<1>4. /\ PushMsg(p) \in InputPort /\ PushMsg(p).length = p.length
      /\ PushMsg(p).reserve = p.reserve /\ PushMsg(p).ready = p.ready
  BY DEF PushMsg, InputPort
<1> QED BY <1>1, <1>2, <1>3, <1>4 DEF Sources

\* What work() leaves of an input, after what it consumed.
LEMMA SourceWork ==
    ASSUME NEW p \in InputPort, NEW x \in InputPort, NEW n \in Nat,
           NEW d \in Nat, NEW b \in BOOLEAN, NEW f, NEW g,
           WorkLeaves(p, x, n, d, f, g)
    PROVE  LET r == Consume([x EXCEPT !.msgs = @ - d], n, b)
           IN  r \in InputPort /\ Sources(p, r, f, g, TRUE)
<1> USE DEF WorkLeaves
<1> DEFINE y == [x EXCEPT !.msgs = @ - d]
<1>1. /\ x.msgs \in Nat /\ x.msgs - d \in Nat
      /\ x.length \in Nat /\ x.reserve \in Nat
  BY Reserves DEF InputPort
<1>2. /\ y \in InputPort /\ y.msgs = x.msgs - d /\ y.length = x.length
      /\ y.reserve = x.reserve /\ y.ready = x.ready
  BY <1>1 DEF InputPort
<1> HIDE DEF y
<1>3. Consume(y, n, b) \in InputPort
  BY <1>2, InputOps
<1>4. CASE n = 0
  <2>1. Consume(y, n, b) = y
    BY <1>4 DEF Consume
  <2>2. y.msgs <= p.msgs
    BY <1>1, <1>2
  <2>3. (p.ready => p.length >= p.reserve) => (y.ready => y.length >= y.reserve)
    BY <1>2
  <2>4. g => f \/ (~y.ready /\ y.msgs = 0)
    BY <1>1, <1>2
  <2>5. Sources(p, y, f, g, TRUE)
    BY <2>2, <2>3, <2>4 DEF Sources
  <2> QED BY <1>3, <2>1, <2>5 DEF y
<1>5. CASE n # 0
  <2>1. /\ Consume(y, n, b).msgs = y.msgs
        /\ Consume(y, n, b).length = y.length - n
        /\ Consume(y, n, b).reserve = y.reserve
        /\ Consume(y, n, b).ready <=> y.length - n >= y.reserve
    BY <1>2, <1>5 DEF Consume, InputPort
  <2>2. Consume(y, n, b).msgs <= p.msgs
    BY <1>1, <1>2, <2>1
  <2>3. g => f
    BY <1>5
  <2>4. Sources(p, Consume(y, n, b), f, g, TRUE)
    BY <2>1, <2>2, <2>3 DEF Sources
  <2> QED BY <1>3, <2>4 DEF y
<1> QED BY <1>4, <1>5

\* mark_done flushes an input, or leaves it as it is.
LEMMA InputMarkDone ==
    ASSUME Typed, NEW outs, MarkDone(in, outs), NEW i \in Inputs
    PROVE  InputStep(i)
<1>1. CASE block_state = "DONE"
  <2>1. in' = in /\ failed' = failed
    BY <1>1 DEF MarkDone, aux
  <2> QED BY <2>1 DEF InputStep, Alike
<1>2. CASE block_state # "DONE"
  BY <1>2 DEF MarkDone, InputStep
<1> QED BY <1>1, <1>2

\* task_main after work(): ins are the inputs as work() leaves them.
LEMMA InputPostWork ==
    ASSUME Typed, pc = "work", NEW ins \in [Inputs -> InputPort], NEW outs,
           NEW eaten \in [Inputs -> Nat], NEW popped \in [Inputs -> Nat],
           NEW un \in [Inputs -> BOOLEAN], NEW made, NEW kicks,
           PostWork(ins, outs, eaten, popped, un, made, kicks),
           NEW i \in Inputs,
           WorkLeaves(in[i], ins[i], eaten[i], popped[i], i \in failed, i \in failed')
    PROVE  InputStep(i)
<1> DEFINE r == Consume([ins[i] EXCEPT !.msgs = @ - popped[i]], eaten[i], un[i])
<1>1. in'[i] = UpdateInputAvail(r)
  BY DEF PostWork
<1>2. in[i] \in InputPort /\ ins[i] \in InputPort
  BY DEF Typed, TypeOK
<1>3. r \in InputPort /\ Sources(in[i], r, i \in failed, i \in failed', TRUE)
  BY <1>2, SourceWork
<1> HIDE DEF r
<1> QED BY <1>1, <1>3 DEF InputStep, Sources
\* The handlers that only touch one input, and those that rewrite its bits.
LEMMA InputHandlers ==
    ASSUME Typed, NEW i \in Inputs
    PROVE  /\ HandleInputBuffer => InputStep(i)
           /\ HandleInputMsg => InputStep(i)
           /\ HandleInputCheck => InputStep(i)
           /\ HandleInputUpdate => InputStep(i)
           /\ HandleTopToken => InputStep(i)
<1> in \in [Inputs -> InputPort] /\ in[i] \in InputPort
  BY DEF Typed, TypeOK
<1>1. ASSUME in' = in, failed' \subseteq failed PROVE InputStep(i)
  BY <1>1 DEF InputStep, Alike
<1>2. ASSUME NEW j \in Inputs, NEW r \in InputPort,
             in' = [in EXCEPT ![j] = UpdateInputAvail(r)],
             failed' = failed \ {j},
             i = j => Sources(in[j], r, i \in failed, FALSE, pc = "work")
      PROVE  InputStep(i)
  <2>1. CASE i = j
    <3>1. in'[i] = UpdateInputAvail(r) /\ i \notin failed'
      BY <1>2, <2>1
    <3>2. Sources(in[i], r, i \in failed, i \in failed', pc = "work")
      BY <1>2, <2>1, <3>1 DEF Sources
    <3> QED BY <3>1, <3>2 DEF InputStep
  <2>2. CASE i # j
    BY <1>2, <2>2 DEF InputStep, Alike
  <2> QED BY <2>1, <2>2
<1>3. CASE HandleInputBuffer
  <2>1. Msg.port \in Inputs /\ Msg.num \in Nat
    BY <1>3, Received DEF HandleInputBuffer, InputMsgs, Typed
  <2>2. CASE Dropped
    BY <1>1, <2>2 DEF Dropped, block, aux
  <2>3. CASE ~Dropped
    <3>1. PICK b \in BOOLEAN :
              in' = [in EXCEPT ![Msg.port] =
                        UpdateInputAvail(Push(in[Msg.port], Msg.num, b))]
      BY <1>3, <2>3 DEF HandleInputBuffer
    <3> DEFINE r == Push(in[Msg.port], Msg.num, b)
    <3>2. in[Msg.port] \in InputPort /\ failed' = failed \ {Msg.port}
      BY <1>3, <2>1, <2>3 DEF HandleInputBuffer
    <3>3. r \in InputPort
      BY <2>1, <3>2, InputOps
    <3>4. Sources(in[Msg.port], r, i \in failed, FALSE, pc = "work")
      BY <2>1, <3>2, SourceOps
    <3> HIDE DEF r
    <3> QED BY <1>2, <2>1, <3>1, <3>2, <3>3, <3>4 DEF r
  <2> QED BY <2>2, <2>3
<1>4. CASE HandleInputMsg
  <2>1. Msg.port \in Inputs /\ \E m \in Of(mailbox) : m.type = "InputMsg"
    BY <1>4, Received, HeadOf DEF HandleInputMsg, InputMsgs, Typed
  <2>2. CASE Dropped
    BY <1>1, <2>2 DEF Dropped, block, aux
  <2>3. CASE ~Dropped
    <3> DEFINE r == PushMsg(in[Msg.port])
    <3>1. in' = [in EXCEPT ![Msg.port] = UpdateInputAvail(r)]
      BY <1>4, <2>3 DEF HandleInputMsg
    <3>2. in[Msg.port] \in InputPort /\ failed' = failed \ {Msg.port}
      BY <1>4, <2>1, <2>3 DEF HandleInputMsg
    <3>3. /\ r \in InputPort
          /\ Sources(in[Msg.port], r, i \in failed, FALSE, pc = "work")
      <4>1. 0 \in Nat /\ TRUE \in BOOLEAN
        OBVIOUS
      <4> QED BY <2>1, <3>2, <4>1, SourceOps
    <3> HIDE DEF r
    <3> QED BY <1>2, <2>1, <3>1, <3>2, <3>3
  <2> QED BY <2>2, <2>3
<1>5. CASE HandleInputCheck
  <2> DEFINE b == upstream[Msg.port] = "absent"
  <2>1. \A p \in InputPort : Alike(p, [p EXCEPT !.done = b])
    BY DEF InputPort, Alike
  <2>2. /\ in' = [in EXCEPT ![Msg.port] = [in[Msg.port] EXCEPT !.done = b]]
        /\ failed' = failed
    BY <1>5 DEF HandleInputCheck, aux
  <2> HIDE DEF b
  <2>3. \A p : Alike(p, p)
    BY DEF Alike
  <2>4. in'[i] = [in[i] EXCEPT !.done = b] \/ in'[i] = in[i]
    BY <2>2
  <2>5. Alike(in[i], in'[i])
    BY <2>1, <2>3, <2>4
  <2> QED BY <2>2, <2>5 DEF InputStep
<1>6. CASE HandleInputUpdate
  <2>1. Msg.port \in Inputs
    BY <1>6, Received DEF HandleInputUpdate, InputMsgs, Typed
  <2> DEFINE p == [in[Msg.port] EXCEPT !.reserve = in[Msg.port].config]
             r == [p EXCEPT !.ready = p.length >= p.reserve]
  <2>2. p \in InputPort /\ p.msgs = in[Msg.port].msgs
    <3>1. \A x \in InputPort : /\ [x EXCEPT !.reserve = x.config] \in InputPort
                               /\ [x EXCEPT !.reserve = x.config].msgs = x.msgs
      BY DEF InputPort
    <3> QED BY <2>1, <3>1
  <2>3. /\ in' = [in EXCEPT ![Msg.port] = UpdateInputAvail(r)]
        /\ failed' = failed \ {Msg.port}
    BY <1>6 DEF HandleInputUpdate
  <2>4. /\ r \in InputPort /\ r.msgs = p.msgs /\ r.length = p.length
        /\ r.reserve = p.reserve /\ (r.ready <=> p.length >= p.reserve)
    <3>1. (p.length >= p.reserve) \in BOOLEAN
      BY <2>2, Reserves DEF InputPort
    <3> HIDE DEF p
    <3> QED BY <2>2, <3>1 DEF InputPort
  <2> HIDE DEF p, r
  <2>5. in[Msg.port].msgs \in Nat
    BY <2>1 DEF InputPort
  <2>6. Sources(in[Msg.port], r, i \in failed, FALSE, pc = "work")
    BY <2>2, <2>4, <2>5 DEF Sources
  <2> QED BY <1>2, <2>1, <2>3, <2>4, <2>6
<1>7. CASE HandleTopToken
  <2>1. \A p \in InputPort : Alike(p, [p EXCEPT !.done = FALSE])
    BY DEF InputPort, Alike
  <2>2. /\ in' = [j \in Inputs |-> [in[j] EXCEPT !.done = FALSE]]
        /\ failed' = failed
    BY <1>7 DEF HandleTopToken, aux
  <2>3. Alike(in[i], in'[i])
    BY <2>1, <2>2
  <2> QED BY <2>2, <2>3 DEF InputStep
<1> QED BY <1>3, <1>4, <1>5, <1>6, <1>7
\* task_main, work() and the end of handle_input_check.
LEMMA InputWork ==
    ASSUME Typed, NEW i \in Inputs
    PROVE  /\ WorkReturns => InputStep(i)
           /\ WorkMarksDone => InputStep(i)
           /\ \A j \in Inputs : WorkFailsInput(j) => InputStep(i)
           /\ \A j \in Inputs : CheckInputDone(j) => InputStep(i)
           /\ \A o \in Outputs, n \in 0 .. OutSize :
                  WorkFailsOutput(o, n) => InputStep(i)
<1> /\ in \in [Inputs -> InputPort] /\ in[i] \in InputPort
    /\ in[i].msgs \in Nat /\ in[i].length \in Nat
  BY DEF Typed, TypeOK, InputPort
<1>1. ASSUME in' = in, failed' \subseteq failed PROVE InputStep(i)
  BY <1>1 DEF InputStep, Alike
<1>2. /\ None(Inputs) \in [Inputs -> Nat] /\ Never(Inputs) \in [Inputs -> BOOLEAN]
      /\ None(Inputs)[i] = 0
  BY DEF None, Never
<1>3. ASSUME NEW what, Throw(what) PROVE InputStep(i)
  BY <1>1, <1>3 DEF Throw, block, aux
<1>4. ASSUME pc = "work", NEW ins \in [Inputs -> InputPort], NEW outs, NEW made,
             NEW kicks,
             PostWork(ins, outs, None(Inputs), None(Inputs), Never(Inputs),
                      made, kicks),
             ins[i].msgs = in[i].msgs, ins[i].length = in[i].length,
             ins[i].reserve = in[i].reserve, ins[i].ready => in[i].ready,
             i \in failed' => i \in failed \/ (~ins[i].ready /\ ins[i].msgs = 0)
      PROVE  InputStep(i)
  <2>1. PICK z \in [Inputs -> Nat], un \in [Inputs -> BOOLEAN] :
            z = None(Inputs) /\ un = Never(Inputs)
    BY <1>2
  <2>2. z[i] = 0 /\ z[i] <= ins[i].length /\ z[i] <= ins[i].msgs
    BY <1>2, <1>4, <2>1
  <2>3. PostWork(ins, outs, z, z, un, made, kicks)
    BY <1>4, <2>1
  <2>4. WorkLeaves(in[i], ins[i], z[i], z[i], i \in failed, i \in failed')
    BY <1>4, <2>2 DEF WorkLeaves
  <2>5. pc = "work"
    BY <1>4
  <2> QED BY ONLY Typed, i \in Inputs, ins \in [Inputs -> InputPort],
               z \in [Inputs -> Nat], un \in [Inputs -> BOOLEAN],
               <2>3, <2>4, <2>5, InputPostWork
<1>5. CASE WorkReturns
  <2>1. PICK eaten \in [Inputs -> 0 .. MaxFeed * MaxChunk],
             popped \in [Inputs -> 0 .. MaxFeed],
             made \in [Outputs -> 0 .. OutSize],
             unstitched \in [Inputs -> BOOLEAN] :
             /\ \A j \in Inputs : popped[j] <= in[j].msgs /\ eaten[j] <= in[j].length
             /\ PostWork(in, out, eaten, popped, unstitched, made, 0)
    BY <1>5 DEF WorkReturns
  <2>2. eaten \in [Inputs -> Nat] /\ popped \in [Inputs -> Nat]
    OBVIOUS
  <2>3. pc = "work" /\ (i \in failed' => i \in failed)
    BY <1>5 DEF WorkReturns
  <2>4. WorkLeaves(in[i], in[i], eaten[i], popped[i], i \in failed, i \in failed')
    BY <2>1, <2>3 DEF WorkLeaves
  <2>5. PostWork(in, out, eaten, popped, unstitched, made, 0) /\ pc = "work"
    BY <2>1, <2>3
  <2>6. in \in [Inputs -> InputPort] /\ unstitched \in [Inputs -> BOOLEAN]
    OBVIOUS
  <2>7. InputStep(i)
    BY ONLY Typed, i \in Inputs, <2>2, <2>4, <2>5, <2>6, InputPostWork
  <2> QED BY <2>7
<1>6. CASE WorkMarksDone
  <2>1. in'[i] = UpdateInputAvail(FlushInput(in[i])) /\ failed' = {}
    BY <1>6 DEF WorkMarksDone
  <2>2. FlushInput(in[i]) \in InputPort
    BY InputOps, Constants
  <2>3. Sources(in[i], FlushInput(in[i]), i \in failed, FALSE, pc = "work")
    BY SourceOps, Constants
  <2>4. Sources(in[i], FlushInput(in[i]), i \in failed, i \in failed', pc = "work")
    BY <2>1, <2>3 DEF Sources
  <2> QED BY <2>1, <2>2, <2>4 DEF InputStep
<1>7. ASSUME NEW j \in Inputs, WorkFailsInput(j) PROVE InputStep(i)
  <2>1. pc = "work" /\ in[j] \in InputPort
    BY <1>7 DEF WorkFailsInput
  <2>2. CASE Throw("input_maximal")
    BY <1>3, <2>2
  <2>3. CASE ~IsAccumulated(in[j])
    <3> DEFINE a == Accumulate(in[j])
               ins == [in EXCEPT ![j] = a]
    <3>1. /\ PostWork(ins, out, None(Inputs), None(Inputs), Never(Inputs),
                      None(Outputs), IF IsWorkAllowed THEN 1 ELSE 0)
          /\ failed' = failed
      BY <1>7, <2>3 DEF WorkFailsInput
    <3>2. /\ a \in InputPort /\ a.ready = in[j].ready /\ a.msgs = in[j].msgs
          /\ a.length = in[j].length /\ a.reserve = in[j].reserve
      <4>1. \A p \in InputPort : /\ Accumulate(p).msgs = p.msgs
                                /\ Accumulate(p).length = p.length
                                /\ Accumulate(p).reserve = p.reserve
        BY DEF Accumulate, InputPort
      <4> QED BY <2>1, <4>1, InputOps, Constants
    <3> HIDE DEF a
    <3>3. ins \in [Inputs -> InputPort] /\ ins[i] = IF i = j THEN a ELSE in[i]
      BY <3>2
    <3> HIDE DEF ins
    <3> QED BY <1>4, <2>1, <3>1, <3>2, <3>3
  <2>4. CASE IsAccumulated(in[j]) /\ ~Throw("input_maximal")
    <3> DEFINE a == [in[j] EXCEPT !.ready = FALSE]
               ins == [in EXCEPT ![j] = a]
    <3>1. PostWork(ins, out, None(Inputs), None(Inputs), Never(Inputs),
                   None(Outputs), 0)
      BY <1>7, <2>4 DEF WorkFailsInput
    <3>2. failed' = IF in[j].msgs = 0 THEN failed \cup {j} ELSE failed
      BY <1>7, <2>4 DEF WorkFailsInput
    <3>3. /\ a \in InputPort /\ ~a.ready /\ a.msgs = in[j].msgs
          /\ a.length = in[j].length /\ a.reserve = in[j].reserve
      BY <2>1 DEF InputPort
    <3> HIDE DEF a
    <3>4. ins \in [Inputs -> InputPort] /\ ins[i] = IF i = j THEN a ELSE in[i]
      BY <3>3
    <3> HIDE DEF ins
    <3> QED BY <1>4, <2>1, <3>1, <3>2, <3>3, <3>4
  <2> QED BY <2>2, <2>3, <2>4
<1>8. ASSUME NEW j \in Inputs, CheckInputDone(j) PROVE InputStep(i)
  <2>1. CASE MarkDone(in, out)
    BY <2>1, InputMarkDone
  <2>2. CASE ~MarkDone(in, out)
    BY <1>1, <1>8, <2>2 DEF CheckInputDone, aux
  <2> QED BY <2>1, <2>2
<1>9. ASSUME NEW o \in Outputs, NEW n \in 0 .. OutSize, WorkFailsOutput(o, n)
      PROVE  InputStep(i)
  <2>1. CASE \E what : Throw(what)
    BY <1>3, <2>1
  <2>2. CASE ~ \E what : Throw(what)
    <3>1. /\ PostWork(in, [out EXCEPT ![o].ready = FALSE], None(Inputs),
                      None(Inputs), Never(Inputs),
                      [None(Outputs) EXCEPT ![o] = n], 0)
          /\ pc = "work" /\ failed' = failed
      BY <1>9, <2>2 DEF WorkFailsOutput
    <3> QED BY <1>4, <3>1
  <2> QED BY <2>1, <2>2
<1> QED BY <1>5, <1>6, <1>7, <1>8, <1>9

\* Every step, seen from one input port.
LEMMA InputSteps ==
    ASSUME Typed, [Next]_vars, NEW i \in Inputs
    PROVE  InputStep(i)
<1>1. ASSUME in' = in, failed' \subseteq failed PROVE InputStep(i)
  BY <1>1 DEF InputStep, Alike
<1>2. CASE Environment
  <2>1. ASSUME NEW ins, NEW outs, CommitConfig(ins, outs) PROVE InputStep(i)
    <3>1. \A r : \A p \in InputPort : Alike(p, [p EXCEPT !.config = r])
      BY DEF InputPort, Alike
    <3>2. in'[i] = [in[i] EXCEPT !.config = ins[i]] /\ failed' = failed
      BY <2>1 DEF CommitConfig, aux
    <3>3. in[i] \in InputPort
      BY DEF Typed, TypeOK
    <3>4. Alike(in[i], in'[i])
      BY <3>1, <3>2, <3>3
    <3> QED BY <3>2, <3>4 DEF InputStep
  <2>2. CASE ~ \E ins \in [Inputs -> InReserves],
                  outs \in [Outputs -> OutReserves] : CommitConfig(ins, outs)
    BY <1>1, <1>2, <2>2 DEF Environment, UpstreamActive, UpstreamSends,
       UpstreamPostsMsg, UpstreamDone, DownstreamReturns, DownstreamDone,
       CallProperty, QueryStats, ReleaseCopy, StartStep, StartAgain, Stop,
       WaitPoll, Ask, block, aux
  <2> QED BY <2>1, <2>2
<1>3. CASE UNCHANGED vars
  BY <1>1, <1>3 DEF vars, block, aux
<1>4. ASSUME NEW t, HandleTopSetup(t) \/ HandleCall(t) PROVE InputStep(i)
  BY <1>1, <1>4 DEF HandleTopSetup, HandleCall, block, aux
<1>5. CASE HandleTopAlloc \/ HandleTopActive \/ HandleOutputUpdate
  BY <1>1, <1>5 DEF HandleTopAlloc, HandleTopActive, HandleOutputUpdate, aux
<1>6. CASE HandleOutputBuffer \/ HandleSelfKick \/ WorkRefused
  BY <1>1, <1>6 DEF HandleOutputBuffer, HandleSelfKick, WorkRefused, Dropped,
                    ThenMain, block, aux
<1>7. CASE HandleTopInert
  BY <1>7, InputMarkDone DEF HandleTopInert
<1>8. CASE HandleOutputCheck
  <2>1. CASE \E outs : MarkDone(in, outs)
    BY <2>1, InputMarkDone
  <2>2. CASE ~ \E outs : MarkDone(in, outs)
    BY <1>1, <1>8, <2>2 DEF HandleOutputCheck, aux
  <2> QED BY <2>1, <2>2
<1>9. CASE WorkStarts
  BY <1>9 DEF WorkStarts, InputStep
<1> QED BY <1>2, <1>3, <1>4, <1>5, <1>6, <1>7, <1>8, <1>9, InputHandlers,
          InputWork DEF Next, Actor

-----------------------------------------------------------------------------
(* What the bits and the counters of the inputs promise.                   *)

Backed(p) == p.avail => p.ends # {} \/ p.msgs > 0

AllReal == block_state # "DONE" => \A i \in Inputs : Backed(in[i])

\* front() keeps a buffer if there was one.
LEMMA BackedOps ==
    \A p \in InputPort : /\ Backed(UpdateInputAvail(p))
                         /\ Backed(p) => Backed(Front(p))
                         /\ Front(p).avail = p.avail /\ Front(p).msgs = p.msgs
<1>1. \A p \in InputPort : Backed(UpdateInputAvail(p))
  BY DEF Backed, UpdateInputAvail, InputPort
<1>2. ASSUME NEW p \in InputPort, NEW q \in {p, Accumulate(p)}
      PROVE  /\ Backed(p) => Backed(q)
             /\ q.avail = p.avail /\ q.msgs = p.msgs
  BY DEF Backed, Accumulate, InputPort
<1>3. \A p \in InputPort : Front(p) \in {p, Accumulate(p)}
  BY DEF Front
<1> QED BY <1>1, <1>2, <1>3

\* An input of a block that is not DONE is available for a reason.
LEMMA AllRealAlways ==
    ASSUME MaxStarts = 0, ~NeighboursFirst
    PROVE  Spec => []AllReal
<1>1. Init => AllReal
  <2> SUFFICES ASSUME Init PROVE AllReal
    OBVIOUS
  <2>1. PICK r \in [Inputs -> InReserves] :
            in = [i \in Inputs |-> NewInput(r[i])]
    BY DEF Init
  <2>2. \A i \in Inputs : ~in[i].avail
    BY <2>1 DEF NewInput
  <2> QED BY <2>2 DEF AllReal, Backed
<1>2. Typed /\ WorkIsLive /\ FirstStart /\ AllReal /\ [Next]_vars => AllReal'
  <2> SUFFICES ASSUME Typed, WorkIsLive, FirstStart, AllReal, [Next]_vars,
                      block_state' # "DONE", NEW i \in Inputs
               PROVE  Backed(in'[i])
    BY DEF AllReal
  <2>1. ~HandleTopActive \/ block_state = "INIT"
    BY HeadOf DEF HandleTopActive, FirstStart, Late
  <2>2. block_state # "DONE"
    BY <2>1, StateStep
  <2>3. Backed(in[i]) /\ in[i] \in InputPort
    BY <2>2 DEF AllReal, Typed, TypeOK
  <2>4. CASE Alike(in[i], in'[i])
    BY <2>3, <2>4 DEF Alike, Backed
  <2>5. CASE \E r \in InputPort : in'[i] = UpdateInputAvail(r)
    BY <2>5, BackedOps
  <2>6. CASE in'[i] = Front(in[i])
    BY <2>3, <2>6, BackedOps
  <2> QED BY <2>4, <2>5, <2>6, InputSteps DEF InputStep
<1> QED BY <1>1, <1>2, TypedAlways, WorkIsLiveAlways, FirstStartAlways, PTL
        DEF Spec

\* An available input of a LIVE block has a buffer or a message: in the first
\* start() of a graph, if no neighbour is activated before this block.
THEOREM AvailableHasInput ==
    ASSUME MaxStarts = 0, ~NeighboursFirst
    PROVE  Spec => []AvailableIsReal
<1>1. AllReal => AvailableIsReal
  BY DEF AllReal, Backed, AvailableIsReal
<1> QED BY <1>1, AllRealAlways, PTL

\* After an InputCheck, a block with a finished, empty, sync input is DONE:
\* the bit that handle_input_check asks is down, because it is real.
THEOREM DrainedEnds ==
    ASSUME MaxStarts = 0, ~NeighboursFirst
    PROVE  Spec => EndsWhenDrained
<1>1. Typed /\ QueuesOK /\ AllReal /\ [Next]_vars =>
          \A i \in checking :
              (/\ pc = "check" /\ checking' = {}
               /\ in[i].done /\ in[i].config # 0
               /\ in[i].ends = {} /\ in[i].msgs = 0) => block_state' = "DONE"
  <2> SUFFICES ASSUME Typed, QueuesOK, AllReal, [Next]_vars, NEW i \in checking,
                      pc = "check", checking' = {}, in[i].done,
                      in[i].config # 0, in[i].ends = {}, in[i].msgs = 0
               PROVE  block_state' = "DONE"
    OBVIOUS
  <2>1. ~Environment /\ ~UNCHANGED vars
    BY DEF Environment, UpstreamActive, UpstreamSends, UpstreamPostsMsg,
       UpstreamDone, DownstreamReturns, DownstreamDone, CallProperty,
       QueryStats, ReleaseCopy, CommitConfig, StartStep, StartAgain, Stop,
       WaitPoll, Ask, handler, vars
  <2>2. PICK j \in Inputs : CheckInputDone(j)
    BY <2>1 DEF Next, Actor, HandleTopSetup, HandleTopToken, HandleTopAlloc,
       HandleTopActive, HandleTopInert, HandleInputBuffer, HandleInputMsg,
       HandleInputCheck, HandleInputUpdate, HandleOutputBuffer,
       HandleOutputCheck, HandleOutputUpdate, HandleCall, HandleSelfKick,
       Receive, WorkRefused, WorkStarts, WorkReturns, WorkMarksDone,
       WorkFailsInput, WorkFailsOutput
  <2>3. i = j /\ i \in Inputs
    BY <2>2 DEF CheckInputDone, QueuesOK, Typed, TypeOK
  <2>4. CASE block_state = "DONE"
    BY <2>2, <2>4 DEF CheckInputDone, MarkDone
  <2>5. CASE block_state # "DONE"
    <3>1. ~in[i].avail
      BY <2>3, <2>5 DEF AllReal, Backed
    <3>2. MarkDone(in, out)
      BY <2>2, <2>3, <3>1 DEF CheckInputDone
    <3> QED BY <2>5, <3>2 DEF MarkDone
  <2> QED BY <2>4, <2>5
<1> QED BY <1>1, TypedAlways, QueuesAlways, AllRealAlways, PTL
        DEF Spec, EndsWhenDrained
\* A ready input of a block without messages has its reserve queued.
Stocked(p) == p.msgs = 0 /\ (p.ready => p.length >= p.reserve)
AllStocked == /\ \A m \in Of(mailbox) : m.type # "InputMsg"
              /\ \A i \in Inputs : Stocked(in[i])
              /\ thrown # "front_below_reserve"

\* What an input port keeps, and what front() makes of it.
LEMMA StockedOps ==
    ASSUME NEW p \in InputPort
    PROVE  /\ Stocked(p) => Stocked(UpdateInputAvail(p)) /\ Stocked(Front(p))
           /\ Stocked(FlushInput(p))
           /\ Stocked(p) /\ QueueOK(p) /\ p.ready => HoldsReserve(Front(p))
<1>1. /\ p.msgs \in Nat /\ p.length \in Nat /\ p.ends \subseteq Nat
      /\ p.reserve \in Nat /\ p.reserve <= InMaximum /\ InMaximum \in Nat
  <2>1. p.reserve \in InReserves
    BY DEF InputPort
  <2>2. InReserves \subseteq 0 .. InMaximum /\ InMaximum \in Nat
    BY BlockActorAssumption
  <2>3. p.reserve \in 0 .. InMaximum
    BY <2>1, <2>2
  <2>4. p.msgs \in Nat /\ p.length \in Nat /\ p.ends \subseteq Nat
    BY DEF InputPort
  <2> QED BY <2>2, <2>3, <2>4
<1>2. Stocked(p) => Stocked(UpdateInputAvail(p))
  <2>1. /\ UpdateInputAvail(p).msgs = p.msgs /\ UpdateInputAvail(p).length = p.length
        /\ UpdateInputAvail(p).reserve = p.reserve
        /\ UpdateInputAvail(p).ready <=> p.msgs > 0 \/ p.length >= p.reserve
    BY DEF UpdateInputAvail, InputPort
  <2> QED BY <2>1 DEF Stocked
<1>3. Stocked(FlushInput(p))
  <2>1. /\ FlushInput(p).msgs = 0 /\ FlushInput(p).length = 0
        /\ FlushInput(p).reserve = p.reserve
        /\ FlushInput(p).ready <=> 0 >= p.reserve
    BY DEF FlushInput, InputPort
  <2> QED BY <2>1 DEF Stocked
<1>4. ASSUME NEW q \in {p, Accumulate(p)}
      PROVE  Stocked(p) => Stocked(q)
  BY <1>4 DEF Stocked, Accumulate, InputPort
<1>5. Front(p) \in {p, Accumulate(p)}
  BY DEF Front
<1>6. ASSUME p.length >= p.reserve, QueueOK(p) PROVE HoldsReserve(Front(p))
  <2>1. CASE \A e \in p.ends : e >= p.reserve
    <3>1. Front(p) = p
      BY <1>1, <2>1 DEF Front
    <3> QED BY <2>1, <3>1 DEF HoldsReserve
  <2>2. CASE \E e \in p.ends : e < p.reserve
    <3>1. Front(p) = Accumulate(p)
      BY <2>2 DEF Front
    <3>2. ~IsAccumulated(p)
      <4>1. PICK e \in p.ends : e < p.reserve
        BY <2>2
      <4>2. p.length \in p.ends
        BY <1>6, <4>1 DEF QueueOK
      <4>3. e # p.length /\ ~(e >= InMaximum)
        BY <1>1, <1>6, <4>1
      <4> QED BY <4>1, <4>2, <4>3 DEF IsAccumulated, IsFrontMaximal
    <3> DEFINE n == IF p.length <= InMaximum THEN p.length ELSE InMaximum
    <3>3. Accumulate(p).ends = {e \in p.ends : e > n} \cup {n}
      BY <3>2 DEF Accumulate, InputPort
    <3>4. Accumulate(p).reserve = p.reserve
      BY <3>2 DEF Accumulate, InputPort
    <3>5. n \in Nat /\ n >= p.reserve
      BY <1>1, <1>6
    <3> HIDE DEF n
    <3>6. \A e \in Accumulate(p).ends : e >= p.reserve
      BY <1>1, <3>3, <3>5
    <3> QED BY <3>1, <3>4, <3>6 DEF HoldsReserve
  <2> QED BY <1>1, <2>1, <2>2
<1> QED BY <1>2, <1>3, <1>4, <1>5, <1>6 DEF Stocked

\* front() is only called on inputs that hold their reserve.
LEMMA AllStockedNext ==
    ASSUME MsgPorts = {}, Typed, QueuesOK, AllStocked, [Next]_vars
    PROVE  AllStocked'
<1> \A i \in Inputs : in[i] \in InputPort /\ Stocked(in[i])
  BY DEF Typed, TypeOK, AllStocked
<1>1. \A m \in Of(mailbox') : m.type # "InputMsg"
  <2> SUFFICES ASSUME NEW m \in Of(mailbox'), Posted(m), m.type = "InputMsg"
               PROVE  FALSE
    BY StepPosts DEF AllStocked
  <2>1. StartStep => StartSeq[top_step + 1] # "InputMsg"
    BY DEF StartStep, StartSeq, Typed, TypeOK
  <2> QED BY <2>1 DEF Posted
<1>2. ASSUME NEW i \in Inputs PROVE Stocked(in'[i])
  <2>1. CASE Alike(in[i], in'[i])
    BY <2>1 DEF Alike, Stocked
  <2>2. ASSUME NEW r \in InputPort, in'[i] = UpdateInputAvail(r),
               Sources(in[i], r, i \in failed, i \in failed', pc = "work")
        PROVE  Stocked(in'[i])
    <3>1. r.msgs \in Nat /\ in[i].msgs = 0
      BY DEF Stocked, InputPort
    <3>2. r.msgs = 0 /\ (r.ready => r.length >= r.reserve)
      BY <2>2, <3>1 DEF Sources, AllStocked, Stocked
    <3>3. Stocked(r)
      BY <3>2 DEF Stocked
    <3> QED BY <2>2, <3>3, StockedOps
  <2>3. CASE in'[i] = Front(in[i]) \/ in'[i] = FlushInput(in[i])
    BY <2>3, StockedOps
  <2> QED BY <2>1, <2>2, <2>3, InputSteps DEF InputStep
<1>3. thrown' # "front_below_reserve"
  <2>1. ASSUME thrown' = thrown PROVE thrown' # "front_below_reserve"
    BY <2>1 DEF AllStocked
  <2>2. CASE Environment \/ UNCHANGED vars
    BY <2>1, <2>2 DEF Environment, UpstreamActive, UpstreamSends,
       UpstreamPostsMsg, UpstreamDone, DownstreamReturns, DownstreamDone,
       CallProperty, QueryStats, ReleaseCopy, CommitConfig, StartStep,
       StartAgain, Stop, WaitPoll, Ask, handler, vars
  <2>3. CASE WorkStarts
    <3>1. /\ \A i \in Inputs : in[i].ready /\ in'[i] = Front(in[i])
          /\ (\A i \in Inputs : HoldsReserve(in'[i])) => thrown' = thrown
      BY <2>3 DEF WorkStarts, IsWorkAllowed, Workable
    <3>2. \A i \in Inputs : QueueOK(in[i])
      BY DEF QueuesOK
    <3>3. \A i \in Inputs : HoldsReserve(in'[i])
      BY <3>1, <3>2, StockedOps
    <3> QED BY <2>1, <3>1, <3>3
  <2>4. ASSUME NEW ins, NEW outs, NEW eaten, NEW popped, NEW un, NEW made,
               NEW kicks, PostWork(ins, outs, eaten, popped, un, made, kicks)
        PROVE  thrown' = thrown
    BY <2>4 DEF PostWork
  <2>5. ASSUME NEW what \in {"input_maximal", "output_partial", "output_empty"},
               Throw(what)
        PROVE  thrown' # "front_below_reserve"
    BY <2>5 DEF Throw
  <2>6. ASSUME NEW i \in Inputs, WorkFailsInput(i)
        PROVE  thrown' # "front_below_reserve"
    BY <2>1, <2>4, <2>5, <2>6 DEF WorkFailsInput
  <2>7. ASSUME NEW o \in Outputs, NEW n \in 0 .. OutSize, WorkFailsOutput(o, n)
        PROVE  thrown' # "front_below_reserve"
    BY <2>1, <2>4, <2>5, <2>7 DEF WorkFailsOutput
  <2>8. CASE WorkReturns
    BY <2>1, <2>4, <2>8 DEF WorkReturns
  <2>9. ASSUME NEW t, HandleTopSetup(t) \/ HandleCall(t)
        PROVE  thrown' = thrown
    BY <2>9 DEF HandleTopSetup, HandleCall, handler
  <2>10. CASE \/ HandleTopToken \/ HandleTopAlloc \/ HandleTopActive
              \/ HandleTopInert \/ HandleInputBuffer \/ HandleInputMsg
              \/ HandleInputCheck \/ HandleInputUpdate
    BY <2>1, <2>10 DEF HandleTopToken, HandleTopAlloc, HandleTopActive,
       HandleTopInert, HandleInputBuffer, HandleInputMsg, HandleInputCheck,
       HandleInputUpdate, Dropped, ThenMain, handler
  <2>11. CASE \/ HandleOutputBuffer \/ HandleOutputCheck \/ HandleOutputUpdate
              \/ HandleSelfKick \/ WorkRefused \/ WorkMarksDone
              \/ \E i \in Inputs : CheckInputDone(i)
    BY <2>1, <2>11 DEF HandleOutputBuffer, HandleOutputCheck,
       HandleOutputUpdate, HandleSelfKick, WorkRefused, WorkMarksDone,
       CheckInputDone, Dropped, ThenMain, handler
  <2> QED BY <2>1, <2>2, <2>3, <2>6, <2>7, <2>8, <2>9, <2>10, <2>11
          DEF Next, Actor
<1> QED BY <1>1, <1>2, <1>3 DEF AllStocked

\* The assertion of InputBufferQueues::front does not fail in a block that is
\* sent no messages: a message makes an input ready whatever is queued there.
THEOREM FrontIsEnough ==
    ASSUME MsgPorts = {}
    PROVE  Spec => []FrontHoldsReserve
<1>1. Init => AllStocked
  <2> SUFFICES ASSUME Init PROVE AllStocked
    OBVIOUS
  <2>1. PICK r \in [Inputs -> InReserves] :
            in = [i \in Inputs |-> NewInput(r[i])]
    BY DEF Init
  <2>2. \A i \in Inputs : Stocked(in[i])
    BY <2>1 DEF NewInput, Stocked
  <2> QED BY <2>2 DEF Init, AllStocked, Of
<1>2. Typed /\ QueuesOK /\ AllStocked /\ [Next]_vars => AllStocked'
  BY AllStockedNext
<1>3. AllStocked => FrontHoldsReserve
  BY DEF AllStocked, FrontHoldsReserve
<1> QED BY <1>1, <1>2, <1>3, TypedAlways, QueuesAlways, PTL DEF Spec

\* A failed input is not available until something new arrives.
Rested == /\ \A i \in failed : ~in[i].avail
          /\ pc = "work" => failed = {}

\* With a single input, work() runs only when that input is available.
LEMMA RestedNext ==
    ASSUME NumInputs = 1, Typed, Rested, [Next]_vars
    PROVE  Rested'
<1> failed \subseteq Inputs /\ failed' \subseteq Inputs
  <2>1. Typed'
    BY TypedNext
  <2> QED BY <2>1 DEF Typed, TypeOK
<1>1. ASSUME NEW i \in failed' PROVE ~in'[i].avail
  <2>1. i \in Inputs /\ in[i] \in InputPort
    BY DEF Typed, TypeOK
  <2>2. CASE Alike(in[i], in'[i]) /\ (i \in failed' => i \in failed)
    BY <2>2 DEF Alike, Rested
  <2>3. ASSUME NEW r \in InputPort, in'[i] = UpdateInputAvail(r),
               Sources(in[i], r, i \in failed, i \in failed', pc = "work")
        PROVE  ~in'[i].avail
    <3>1. ~r.ready /\ r.msgs = 0
      BY <2>3 DEF Sources, Rested
    <3>2. UpdateInputAvail(r).avail <=> (r.ends # {} /\ r.ready) \/ r.msgs > 0
      BY DEF UpdateInputAvail, InputPort
    <3> QED BY <2>3, <3>1, <3>2
  <2>4. CASE in'[i] = Front(in[i]) /\ WorkStarts
    <3>1. in'[i].avail = in[i].avail
      BY <2>1, <2>4, BackedOps
    <3>2. i \in failed
      BY <2>4 DEF WorkStarts
    <3> QED BY <3>1, <3>2 DEF Rested
  <2> QED BY <2>1, <2>2, <2>3, <2>4, InputSteps DEF InputStep
<1>2. ASSUME pc' = "work" PROVE failed' = {}
  <2>1. CASE WorkStarts
    <3>1. failed' = failed /\ \E i \in Inputs : in[i].avail
      BY <2>1 DEF WorkStarts, IsWorkAllowed, Workable
    <3>2. \A i, j \in Inputs : i = j
      BY DEF Inputs
    <3> QED BY <3>1, <3>2 DEF Rested
  <2>2. CASE ~WorkStarts
    BY <1>2, <2>2, StepInWork DEF Rested
  <2> QED BY <2>1, <2>2
<1> QED BY <1>1, <1>2 DEF Rested

\* work() is not called on an input it marked failed before something new
\* arrived there, in a block with one input: with more, another input that is
\* available is enough.
THEOREM FailedInputRests ==
    ASSUME NumInputs = 1
    PROVE  Spec => []FailWaitsForInput
<1>1. Init => Rested
  BY DEF Init, Rested
<1>2. Typed /\ Rested /\ [Next]_vars => Rested'
  BY RestedNext
<1>3. Rested => FailWaitsForInput
  BY DEF Rested, FailWaitsForInput
<1> QED BY <1>1, <1>2, <1>3, TypedAlways, PTL DEF Spec
=============================================================================
