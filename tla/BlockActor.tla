----------------------------- MODULE BlockActor -----------------------------
(***************************************************************************)
(* The scheduling of one GRAS block: the actor that owns the block's       *)
(* queues, its mailbox, and the threads that put messages in it.           *)
(*                                                                         *)
(* The actor handles one message at a time.  A handler updates the state   *)
(* of one port and, when it may have made the block workable, falls into   *)
(* task_main, which calls the user's work() if IsWorkAllowed.  There is no *)
(* other scheduler: a block that could work, and whose mailbox holds       *)
(* nothing that leads to task_main, sleeps until somebody writes to it.    *)
(*                                                                         *)
(* A handler that reaches task_main is several steps, told apart by pc:    *)
(* other threads append to the mailbox, and take or drop copies of         *)
(* prio_token, between them.  Everything else a handler does is one step.  *)
(*                                                                         *)
(* Lengths are in items.  Where a buffer lies in memory is abstracted to   *)
(* its effect on the queue: whether a pushed buffer is stitched to the one *)
(* before it, and whether the rest of the front is unstitched into the     *)
(* next, is a free choice.  Tags, buffer inlining, preload, and the        *)
(* allocation by a downstream block are not in this module.                *)
(***************************************************************************)
EXTENDS Integers, Sequences, FiniteSets

CONSTANTS
    NumInputs, NumOutputs,      \* connected ports
    InReserves, OutReserves,    \* reserve_items the user may commit
    InMaximum,                  \* _maximum_bytes of every input queue
    OutMaximum,                 \* maximum_items of every output, 0 = unset
    OutSize, PoolSize,          \* length and number of the pool buffers
    MsgPorts,                   \* inputs on which messages arrive
    Failures,                   \* what work() may mark: "input", "output"
    Callers, Monitors, Top,     \* threads that wait for an answer
    Nobody,                     \* sender of a message nobody waits for
    NeighboursFirst,            \* TopActive may reach the neighbours first
    MaxFeed, MaxChunk,          \* pushes of the upstream, and their length
    MaxCalls, MaxCommits,       \* calls on the block, commits of its config
    MaxStarts,                  \* restarts of the flow graph
    MaxMailbox                  \* environment stops at this mailbox length

Inputs  == 0 .. NumInputs - 1
Outputs == 0 .. NumOutputs - 1
Senders == Callers \cup Monitors \cup {Top}

ASSUME BlockActorAssumption ==
    /\ NumInputs \in Nat /\ NumOutputs \in Nat
    /\ InMaximum \in Nat \ {0} /\ OutMaximum \in Nat
    /\ OutSize \in Nat \ {0} /\ PoolSize \in Nat \ {0}
    \* update_config raises _maximum_bytes to the reserve
    /\ InReserves \subseteq 0 .. InMaximum /\ InReserves # {}
    /\ OutReserves \subseteq Nat /\ OutReserves # {}
    /\ MsgPorts \subseteq Inputs
    /\ Nobody \notin Senders
    /\ NeighboursFirst \in BOOLEAN
    /\ Callers \cap Monitors = {} /\ Top \notin Callers \cup Monitors
    /\ MaxFeed \in Nat /\ MaxChunk \in Nat /\ MaxCalls \in Nat
    /\ MaxCommits \in Nat /\ MaxStarts \in Nat
    /\ MaxMailbox \in Nat

VARIABLES
    \* the actor: messages queued, where the handler that runs stands, the
    \* input whose InputCheck it handles, the exception that ended the process
    mailbox, pc, checking, thrown,
    \* BlockData: life cycle; token_pool holds the token of the TopBlock; the
    \* input and output ports; the pools in place (0: none) and made so far
    block_state, holds_token, in, out, pool, generation,
    \* the neighbours: "absent", "holding" (the token of the input) or "live";
    \* outputs whose token is held downstream; number of buffers held there
    upstream, downstream, away,
    \* threads that wait for an answer; that own a copy of prio_token in a
    \* local message; messages of start() sent so far; what the environment
    \* may still do
    waiting, copies, top_step, budget,
    \* auxiliary, never read by the actor: why a workable block may have been
    \* left asleep; inputs marked failed, with nothing new since; outputs
    \* marked failed by the last work()
    missed, failed

handler    == <<pc, checking, thrown>>
block      == <<block_state, holds_token, in, out, pool, generation>>
neighbours == <<upstream, downstream, away>>
threads    == <<waiting, copies, top_step, budget>>
aux        == <<missed, failed>>
vars == <<mailbox, handler, block, neighbours, threads, aux>>

-----------------------------------------------------------------------------
(* Messages.  A message somebody waits for carries a copy of prio_token.   *)

\* (mutant) the blocks are activated before they exchange tokens
StartSeqActiveFirst ==
    <<"TopThread", "TopActive", "TopConfig", "TopAlloc", "TopToken">>

StartSeq == <<"TopThread", "TopToken", "TopConfig", "TopAlloc", "TopActive">>
InputMsgs  == {"InputBuffer", "InputMsg", "InputCheck", "InputUpdate"}
OutputMsgs == {"OutputBuffer", "OutputCheck", "OutputUpdate"}
OtherMsgs  == {"TopThread", "TopToken", "TopConfig", "TopAlloc", "TopActive",
               "TopInert", "Callable", "GetStats", "SelfKick"}
MsgTypes == InputMsgs \cup OutputMsgs \cup OtherMsgs
Message == {m \in [type : MsgTypes, port : Nat, num : Nat,
                   from : Senders \cup {Nobody}] :
               /\ m.type \in InputMsgs => m.port \in Inputs
               /\ m.type \in OutputMsgs => m.port \in Outputs}

PortMsg(t, p, n) == [type |-> t, port |-> p, num |-> n, from |-> Nobody]
PrioMsg(t, s)    == [type |-> t, port |-> 0, num |-> 0, from |-> s]
SelfKick         == PortMsg("SelfKick", 0, 0)

TokenUnique == /\ copies = {}
               /\ \A k \in DOMAIN mailbox : mailbox[k].from = Nobody

-----------------------------------------------------------------------------
(* An input port: the reserve in the configuration and in the queue; the   *)
(* queue, as the set of positions, counted in items from its front, at     *)
(* which one of its buffers ends; _enqueued_bytes; its bit in _bitset; the *)
(* number of messages; its bits in inputs_available and inputs_done.       *)

InputPort == [config : InReserves, reserve : InReserves,
              ends : SUBSET Nat, length : Nat, ready : BOOLEAN,
              msgs : Nat, avail : BOOLEAN, done : BOOLEAN]

IsFrontMaximal(p) == \A e \in p.ends : e >= InMaximum
IsAccumulated(p)  == (\A e, f \in p.ends : e = f) \/ IsFrontMaximal(p)

\* the first items, as many as fit an auxiliary buffer, become one buffer
Accumulate(p) ==
    LET n == IF p.length <= InMaximum THEN p.length ELSE InMaximum
    IN  IF IsAccumulated(p) THEN p
        ELSE [p EXCEPT !.ends = {e \in @ : e > n} \cup {n}]

\* (mutant) never accumulates
FrontAsQueued(p) == p

\* front(): what work() is given; it must hold the reserve
Front(p) == IF \E e \in p.ends : e < p.reserve THEN Accumulate(p) ELSE p
HoldsReserve(p) == \A e \in p.ends : e >= p.reserve

Push(p, n, stitched) ==
    [p EXCEPT !.ends = (IF stitched THEN @ \ {p.length} ELSE @)
                       \cup {p.length + n},
              !.length = @ + n,
              !.ready = p.length + n >= p.reserve]

PushMsg(p) == [p EXCEPT !.msgs = @ + 1]

\* (mutant) _enqueued_bytes is not reduced
ConsumeKeepsLength(p, n, unstitched) ==
    [p EXCEPT !.ends = {e - n : e \in {f \in @ : f > n}},
              !.ready = p.length - n >= p.reserve]

\* consume, and unstitch when the rest of the front lies in the next buffer
Consume(p, n, unstitched) ==
    LET rest == {e - n : e \in {f \in p.ends : f > n}}
    IN  IF n = 0 THEN p
        ELSE [p EXCEPT
                !.ends = IF unstitched /\ \E e, f \in rest : e # f
                         THEN {e \in rest : \E f \in rest : f < e} ELSE rest,
                !.length = @ - n,
                !.ready = p.length - n >= p.reserve]

\* (mutants) the two statements swapped; only the second; no check for an
\* empty queue; the bit is set and never cleared
UpdateHasMsgFirst(p) ==
    LET ready == p.msgs > 0 \/ p.length >= p.reserve
    IN  [p EXCEPT !.avail = (p.ends # {} /\ ready) \/ p.msgs > 0,
                  !.ready = ready]
UpdateHasMsgOnly(p) == [p EXCEPT !.ready = p.msgs > 0 \/ p.length >= p.reserve]
AvailIfReady(p) == [UpdateHasMsgOnly(p) EXCEPT !.avail = p.ready \/ p.msgs > 0]
AvailIsSticky(p) ==
    [UpdateHasMsgFirst(p) EXCEPT
        !.avail = p.avail \/ (p.ends # {} /\ p.ready) \/ p.msgs > 0]

UpdateInputAvail(p) ==
    [p EXCEPT !.avail = (p.ends # {} /\ p.ready) \/ p.msgs > 0,
              !.ready = p.msgs > 0 \/ p.length >= p.reserve]

\* (mutant) the messages stay
FlushBuffers(p) == [p EXCEPT !.ends = {}, !.length = 0, !.ready = 0 >= p.reserve]

FlushInput(p) == [p EXCEPT !.ends = {}, !.length = 0, !.msgs = 0,
                           !.ready = 0 >= p.reserve]

-----------------------------------------------------------------------------
(* An output port: the reserve in the configuration and in the queue; the  *)
(* buffers in its pool queue, and the offset of the front one (the others  *)
(* are unused); its bits in _bitset and outputs_done.                      *)

OutputPort == [config : OutReserves, reserve : OutReserves \cup {1},
               count : Nat, offset : 0 .. OutSize, ready : BOOLEAN,
               done : BOOLEAN]

PushOutput(p) == [p EXCEPT !.count = @ + 1]

UpdateOutput(p) ==
    [p EXCEPT !.ready = p.count > 0 /\ OutSize - p.offset >= p.reserve]

\* (mutants) a buffer is only sent when it is full; every used buffer is
\* taken from the queue, but only some are sent
PopsWhenFull(p, n) == n > 0 /\ p.offset + n = OutSize
ConsumeAlwaysPops(p, n) ==
    IF n = 0 THEN p ELSE UpdateOutput([p EXCEPT !.count = @ - 1, !.offset = 0])

\* consume after work() made n items: the pool keeps a buffer of which no
\* more than half is used
PopsFront(p, n) == n > 0 /\ p.offset + n > OutSize \div 2
ConsumeOutput(p, n) ==
    IF n = 0 THEN p
    ELSE UpdateOutput(IF PopsFront(p, n)
                      THEN [p EXCEPT !.count = @ - 1, !.offset = 0]
                      ELSE [p EXCEPT !.offset = @ + n])

\* (mutants) a new pool keeps the buffers of the old; a flush keeps the queue
NewQueueKeeps(p) == [p EXCEPT !.offset = 0, !.ready = FALSE]
FlushReady(p) == [p EXCEPT !.reserve = 1, !.ready = FALSE]

NewQueue(p) == [p EXCEPT !.count = 0, !.offset = 0, !.ready = FALSE]

\* resize(0), resize(n): the reserve is forgotten too
FlushOutput(p) == [NewQueue(p) EXCEPT !.reserve = 1]

-----------------------------------------------------------------------------
(* The work condition.                                                     *)

\* (mutant) the outputs are not asked
WorkableInputs == /\ block_state = "LIVE"
                  /\ NumInputs = 0 \/ \E i \in Inputs : in[i].avail
                  /\ \A i \in Inputs : in[i].ready

Workable == /\ block_state = "LIVE"
            /\ NumInputs = 0 \/ \E i \in Inputs : in[i].avail
            /\ \A i \in Inputs : in[i].ready
            /\ \A o \in Outputs : out[o].ready

IsWorkAllowed == TokenUnique /\ Workable

\* the handler reaches task_main, sends a SelfKick or ends the block
Recheck(m) == m.type \in {"SelfKick", "TopActive", "TopInert", "Callable",
                          "GetStats", "InputBuffer", "InputMsg",
                          "InputCheck", "OutputBuffer"}

\* auxiliary: why a refused attempt to work may not be repeated
Refusal == IF Workable /\ copies # {} THEN {"copy"} ELSE {}

-----------------------------------------------------------------------------
(* The environment: neighbours in the flow graph, and threads of the user. *)

Room == Len(mailbox) < MaxMailbox
Post(m) == mailbox' = Append(mailbox, m)
Spend(what) == /\ budget[what] > 0
               /\ budget' = [budget EXCEPT ![what] = @ - 1]

\* the others may be live: TopActive has reached this block, or, in a
\* broadcast that reaches some of them first, every block answered TopAlloc
OthersMayBeLive ==
    \/ top_step = 5 /\ (NeighboursFirst \/ Top \notin waiting)
    \/ top_step = 4 /\ NeighboursFirst /\ Top \notin waiting

UpstreamActive(i) ==
    /\ upstream[i] = "holding"
    /\ OthersMayBeLive
    /\ upstream' = [upstream EXCEPT ![i] = "live"]
    /\ UNCHANGED <<mailbox, handler, block, downstream, away, threads, aux>>

\* post_downstream of a buffer by the upstream block, or post_input_buffer
UpstreamSends(i) ==
    /\ upstream[i] = "live" /\ Room /\ Spend("feed")
    /\ \E n \in 1 .. MaxChunk : Post(PortMsg("InputBuffer", i, n))
    /\ UNCHANGED <<handler, block, neighbours, waiting, copies, top_step, aux>>

UpstreamPostsMsg(i) ==
    /\ i \in MsgPorts
    /\ upstream[i] = "live" /\ Room /\ Spend("feed")
    /\ Post(PortMsg("InputMsg", i, 0))
    /\ UNCHANGED <<handler, block, neighbours, waiting, copies, top_step, aux>>

\* the upstream block is done: it drops its tokens, then tells its neighbours
UpstreamDone(i) ==
    /\ upstream[i] = "live" /\ Room
    /\ upstream' = [upstream EXCEPT ![i] = "absent"]
    /\ Post(PortMsg("InputCheck", i, 0))
    /\ UNCHANGED <<handler, block, downstream, away, threads, aux>>

\* the last reference to a buffer is dropped: buffer_returner sends it back
DownstreamReturns(o) ==
    /\ away[o] > 0 /\ Room
    /\ away' = [away EXCEPT ![o] = @ - 1]
    /\ Post(PortMsg("OutputBuffer", o, pool))
    /\ UNCHANGED <<handler, block, upstream, downstream, threads, aux>>

DownstreamDone(o) ==
    /\ o \in downstream /\ OthersMayBeLive /\ Room
    /\ downstream' = downstream \ {o}
    /\ Post(PortMsg("OutputCheck", o, 0))
    /\ UNCHANGED <<handler, block, upstream, away, threads, aux>>

Ask(s, t) ==
    /\ s \notin waiting \cup copies
    /\ waiting' = waiting \cup {s}
    /\ copies' = copies \cup {s}
    /\ Post(PrioMsg(t, s))
    /\ UNCHANGED <<handler, block, neighbours, aux>>

\* Block::_handle_call: a property access or call from another thread
CallProperty(c) ==
    /\ Room /\ Spend("calls")
    /\ Ask(c, "Callable")
    /\ UNCHANGED top_step

\* the broadcast of GetStats by query_stats
QueryStats(c) ==
    /\ Room /\ Spend("calls")
    /\ Ask(c, "GetStats")
    /\ UNCHANGED top_step

\* the sender's local message is destroyed: when _handle_call returns, after
\* the answer; in a broadcast loop at the end of the iteration that sent it
ReleaseCopy(s) ==
    /\ s \in copies
    /\ s \in Callers => s \notin waiting
    /\ copies' = copies \ {s}
    /\ UNCHANGED <<mailbox, handler, block, neighbours, waiting, top_step,
                   budget, aux>>

\* the user changes the reserves of some ports, then calls commit_config
CommitConfig(ins, outs) ==
    /\ Room /\ Spend("commits")
    /\ in' = [i \in Inputs |-> [in[i] EXCEPT !.config = ins[i]]]
    /\ out' = [o \in Outputs |-> [out[o] EXCEPT !.config = outs[o]]]
    /\ mailbox' = mailbox
                  \o [k \in 1 .. NumInputs  |-> PortMsg("InputUpdate", k - 1, 0)]
                  \o [k \in 1 .. NumOutputs |-> PortMsg("OutputUpdate", k - 1, 0)]
    /\ UNCHANGED <<handler, block_state, holds_token, pool, generation,
                   neighbours, waiting, copies, top_step, aux>>

\* TopBlock::start: a broadcast, the answers, the next broadcast
StartStep ==
    /\ top_step < 5
    /\ top_step' = top_step + 1
    /\ Ask(Top, StartSeq[top_step + 1])
    /\ UNCHANGED budget

\* start() again: "ok to re-start, means update"
StartAgain ==
    /\ top_step = 5 /\ Top \notin waiting \cup copies
    /\ Spend("starts")
    /\ top_step' = 0
    /\ UNCHANGED <<mailbox, handler, block, neighbours, waiting, copies, aux>>

\* TopBlock::stop
Stop ==
    /\ top_step = 5 /\ block_state # "DONE"
    /\ Ask(Top, "TopInert")
    /\ UNCHANGED <<top_step, budget>>

\* (mutant) polls only while the finished input has something left
WaitPollAvailable ==
    /\ top_step = 5 /\ Top \notin waiting \cup copies
    /\ block_state # "DONE"
    /\ \E i \in Inputs : in[i].done /\ in[i].avail
    /\ \A k \in DOMAIN mailbox : mailbox[k].type # "TopInert"
    /\ Post(PrioMsg("TopInert", Nobody))
    /\ UNCHANGED <<handler, block, neighbours, threads, aux>>

\* TopBlock::wait: an input has been done for longer than the grace period
WaitPoll ==
    /\ top_step = 5 /\ Top \notin waiting \cup copies
    /\ block_state # "DONE"
    /\ \E i \in Inputs : in[i].done
    /\ \A k \in DOMAIN mailbox : mailbox[k].type # "TopInert"
    /\ Post(PrioMsg("TopInert", Nobody))
    /\ UNCHANGED <<handler, block, neighbours, threads, aux>>

Environment ==
    \/ \E i \in Inputs : \/ UpstreamActive(i) \/ UpstreamSends(i)
                         \/ UpstreamPostsMsg(i) \/ UpstreamDone(i)
    \/ \E o \in Outputs : DownstreamReturns(o) \/ DownstreamDone(o)
    \/ \E c \in Callers : CallProperty(c)
    \/ \E c \in Monitors : QueryStats(c)
    \/ \E s \in Senders : ReleaseCopy(s)
    \/ \E ins \in [Inputs -> InReserves], outs \in [Outputs -> OutReserves] :
           CommitConfig(ins, outs)
    \/ StartStep \/ StartAgain \/ Stop \/ WaitPoll

-----------------------------------------------------------------------------
(* The handlers.                                                           *)

Msg == Head(mailbox)
Receive(t) == pc = "idle" /\ mailbox # <<>> /\ Msg.type = t
Take == mailbox' = Tail(mailbox)
TakeAndKick == mailbox' = Append(Tail(mailbox), SelfKick)
\* (mutant) the handler does not answer
NoAnswer == UNCHANGED threads
Answer == /\ waiting' = waiting \ {Msg.from}
          /\ UNCHANGED <<copies, top_step, budget>>

\* BlockActor::mark_done of a block with these ports, and no items produced
MarkDone(ins, outs) ==
    IF block_state = "DONE"
    THEN /\ in' = ins /\ out' = outs
         /\ UNCHANGED <<block_state, holds_token, pool, away, aux>>
    ELSE /\ block_state' = "DONE"
         /\ holds_token' = FALSE
         /\ in' = [i \in Inputs |-> FlushInput(ins[i])]
         /\ out' = [o \in Outputs |-> FlushOutput(outs[o])]
         /\ pool' = 0                       \* its buffers die with it
         /\ away' = [o \in Outputs |-> 0]
         /\ missed' = {} /\ failed' = {}

\* handle_top_thread_group, handle_top_config
HandleTopSetup(t) ==
    /\ Receive(t) /\ Take /\ Answer
    /\ UNCHANGED <<handler, block, neighbours, aux>>

\* new tokens go to every neighbour; a live upstream stays live
HandleTopToken ==
    /\ Receive("TopToken") /\ Take /\ Answer
    /\ in' = [i \in Inputs |-> [in[i] EXCEPT !.done = FALSE]]
    /\ out' = [o \in Outputs |-> [out[o] EXCEPT !.done = FALSE]]
    /\ upstream' = [i \in Inputs |->
                       IF upstream[i] = "live" THEN "live" ELSE "holding"]
    /\ downstream' = Outputs
    /\ holds_token' = TRUE
    /\ UNCHANGED <<handler, block_state, pool, generation, away, aux>>

\* a new pool per output; its buffers come back through the mailbox
PoolMail == [k \in 1 .. NumOutputs * PoolSize |->
                PortMsg("OutputBuffer", (k - 1) \div PoolSize, generation + 1)]

HandleTopAlloc ==
    /\ Receive("TopAlloc") /\ Answer
    /\ mailbox' = Tail(mailbox) \o PoolMail
    /\ generation' = generation + 1
    /\ pool' = generation + 1
    /\ out' = [o \in Outputs |-> NewQueue(out[o])]
    /\ away' = [o \in Outputs |-> 0]
    /\ UNCHANGED <<handler, block_state, holds_token, in, upstream,
                   downstream, aux>>

HandleTopActive ==
    /\ Receive("TopActive") /\ TakeAndKick /\ Answer
    /\ block_state' = "LIVE"
    /\ UNCHANGED <<handler, holds_token, in, out, pool, generation,
                   neighbours, aux>>

HandleTopInert ==
    /\ Receive("TopInert") /\ Take /\ Answer
    /\ MarkDone(in, out)
    /\ UNCHANGED <<handler, generation, upstream, downstream>>

\* a handler that only touches one input or output, then enters task_main
ThenMain == /\ pc' = "main"
            /\ UNCHANGED <<checking, thrown, block_state, holds_token, pool,
                           generation, neighbours, threads, missed>>
Dropped == block_state = "DONE" /\ UNCHANGED <<handler, block, neighbours,
                                               threads, aux>>

HandleInputBuffer ==
    /\ Receive("InputBuffer") /\ Take
    /\ \/ Dropped
       \/ /\ block_state # "DONE"
          /\ \E stitched \in BOOLEAN :
                in' = [in EXCEPT ![Msg.port] =
                         UpdateInputAvail(Push(@, Msg.num, stitched))]
          /\ failed' = failed \ {Msg.port}
          /\ ThenMain /\ UNCHANGED out

HandleInputMsg ==
    /\ Receive("InputMsg") /\ Take
    /\ \/ Dropped
       \/ /\ block_state # "DONE"
          /\ in' = [in EXCEPT ![Msg.port] =
                       UpdateInputAvail(PushMsg(@))]
          /\ failed' = failed \ {Msg.port}
          /\ ThenMain /\ UNCHANGED out

\* the token is unique when no upstream block holds it; task_main comes next,
\* then CheckInputDone
HandleInputCheck ==
    /\ Receive("InputCheck") /\ Take
    /\ in' = [in EXCEPT ![Msg.port].done = (upstream[Msg.port] = "absent")]
    /\ pc' = "main" /\ checking' = {Msg.port}
    /\ UNCHANGED <<thrown, block_state, holds_token, out, pool, generation,
                   neighbours, threads, aux>>

\* auxiliary: nothing looks again after a commit that makes the block workable
CommitMissed ==
    missed' = IF Workable' /\ ~Workable THEN missed \cup {"commit"} ELSE missed

HandleInputUpdate ==
    /\ Receive("InputUpdate") /\ Take
    /\ in' = [in EXCEPT ![Msg.port] =
                 LET p == [@ EXCEPT !.reserve = in[Msg.port].config]
                 IN  UpdateInputAvail([p EXCEPT !.ready =
                                                  p.length >= p.reserve])]
    /\ failed' = failed \ {Msg.port}
    /\ UNCHANGED <<handler, block_state, holds_token, out, pool, generation,
                   neighbours, threads>>
    /\ CommitMissed

\* a buffer of the pool in place joins its queue, an older one is dropped; in
\* a block that is DONE the pool in place returns it to the mailbox at once
HandleOutputBuffer ==
    /\ Receive("OutputBuffer")
    /\ \/ /\ mailbox' = IF Msg.num = pool THEN Append(Tail(mailbox), Msg)
                        ELSE Tail(mailbox)
          /\ Dropped
       \/ /\ block_state # "DONE" /\ Take
          /\ out' = [out EXCEPT ![Msg.port] =
                        IF pool = 0 THEN @
                        ELSE UpdateOutput(IF Msg.num = pool
                                          THEN PushOutput(@) ELSE @)]
          /\ ThenMain /\ UNCHANGED <<in, failed>>

HandleOutputCheck ==
    /\ Receive("OutputCheck") /\ Take
    /\ LET checked == [out EXCEPT ![Msg.port].done = Msg.port \notin downstream]
       IN  IF \A o \in Outputs : checked[o].done
           THEN MarkDone(in, checked)
           ELSE /\ out' = checked
                /\ UNCHANGED <<block_state, holds_token, in, pool, away, aux>>
    /\ UNCHANGED <<handler, generation, upstream, downstream, threads>>

HandleOutputUpdate ==
    /\ Receive("OutputUpdate") /\ Take
    /\ out' = [out EXCEPT ![Msg.port] =
                  LET p == [@ EXCEPT !.reserve = out[Msg.port].config]
                  IN  IF pool = 0 THEN p ELSE UpdateOutput(p)]
    /\ UNCHANGED <<handler, block_state, holds_token, in, pool, generation,
                   neighbours, threads, failed>>
    /\ CommitMissed

\* handle_callable, handle_get_stats: answer, then kick
HandleCall(t) ==
    /\ Receive(t) /\ TakeAndKick /\ Answer
    /\ UNCHANGED <<handler, block, neighbours, aux>>

HandleSelfKick ==
    /\ Receive("SelfKick") /\ Take
    /\ ThenMain /\ UNCHANGED <<in, out, failed>>

-----------------------------------------------------------------------------
(* task_main.                                                              *)

AfterMain == IF checking = {} THEN "idle" ELSE "check"

WorkRefused ==
    /\ pc = "main" /\ ~IsWorkAllowed
    /\ pc' = AfterMain
    /\ missed' = Refusal
    /\ UNCHANGED <<mailbox, checking, thrown, block, neighbours, threads,
                   failed>>

\* the inputs are accumulated up to their reserve, then work() is called
WorkStarts ==
    /\ pc = "main" /\ IsWorkAllowed
    /\ in' = [i \in Inputs |-> Front(in[i])]
    /\ IF \A i \in Inputs : HoldsReserve(in'[i])
       THEN pc' = "work" /\ UNCHANGED thrown
       ELSE pc' = "crashed" /\ thrown' = "front_below_reserve"
    /\ missed' = {}
    /\ UNCHANGED <<mailbox, checking, block_state, holds_token, out, pool,
                   generation, neighbours, threads, failed>>

\* the rest of task_main, for the ports as work() leaves them: it consumed
\* items of the inputs, popped messages, and produced items on the outputs;
\* task_kicker was called kicks times from work(), and is called once more
PostWork(ins, outs, eaten, popped, unstitched, made, kicks) ==
    /\ in' = [i \in Inputs |->
                 LET p == [ins[i] EXCEPT !.msgs = @ - popped[i]]
                 IN  UpdateInputAvail(Consume(p, eaten[i], unstitched[i]))]
    /\ out' = [o \in Outputs |-> ConsumeOutput(outs[o], made[o])]
    /\ away' = [o \in Outputs |-> IF PopsFront(outs[o], made[o])
                                  THEN away[o] + 1 ELSE away[o]]
    /\ pc' = AfterMain
    /\ UNCHANGED <<checking, thrown, block_state, holds_token, pool,
                   generation, upstream, downstream, threads>>
    /\ mailbox' = mailbox \o [k \in 1 .. kicks |-> SelfKick]
                          \o (IF TokenUnique /\ Workable' THEN <<SelfKick>>
                              ELSE <<>>)
    /\ missed' = Refusal'

None(P)  == [p \in P |-> 0]
Never(P) == [p \in P |-> FALSE]

WorkReturns ==
    /\ pc = "work"
    /\ \E eaten \in [Inputs -> 0 .. MaxFeed * MaxChunk],
          popped \in [Inputs -> 0 .. MaxFeed],
          made \in [Outputs -> 0 .. OutSize],
          unstitched \in [Inputs -> BOOLEAN] :
          /\ \A i \in Inputs : /\ popped[i] <= in[i].msgs
                               /\ eaten[i] <= in[i].length
                               /\ \A e \in in[i].ends : eaten[i] <= e
          /\ \A o \in Outputs : made[o] <= OutSize - out[o].offset
          /\ PostWork(in, out, eaten, popped, unstitched, made, 0)
    /\ UNCHANGED failed

\* an exception that leaves a handler ends the process
Throw(what) == /\ pc' = "crashed" /\ thrown' = what
               /\ UNCHANGED <<mailbox, checking, block, neighbours, threads,
                              aux>>

\* work() only calls mark_input_fail(i): more is accumulated, or the input is
\* no longer ready, or it can hold no more
WorkFailsInput(i) ==
    /\ pc = "work" /\ "input" \in Failures
    /\ \/ /\ ~IsAccumulated(in[i])
          /\ PostWork([in EXCEPT ![i] = Accumulate(@)], out, None(Inputs),
                      None(Inputs), Never(Inputs), None(Outputs),
                      IF IsWorkAllowed THEN 1 ELSE 0)
          /\ UNCHANGED failed
       \/ /\ IsAccumulated(in[i]) /\ ~in[i].done
          /\ in[i].ends # {} /\ IsFrontMaximal(in[i])
          /\ Throw("input_maximal")
       \/ /\ IsAccumulated(in[i]) /\ ~in[i].done
          /\ in[i].ends = {} \/ ~IsFrontMaximal(in[i])
          /\ PostWork([in EXCEPT ![i].ready = FALSE], out, None(Inputs),
                      None(Inputs), Never(Inputs), None(Outputs), 0)
          /\ failed' = IF in[i].msgs = 0 THEN failed \cup {i} ELSE failed

\* work() produces n items on output o, then calls mark_output_fail(o)
WorkFailsOutput(o, n) ==
    /\ pc = "work" /\ "output" \in Failures
    /\ n <= OutSize - out[o].offset
    /\ \/ /\ n >= OutMaximum
          /\ Throw(IF n > 0 THEN "output_partial" ELSE "output_empty")
       \/ /\ n < OutMaximum
          /\ PostWork(in, [out EXCEPT ![o].ready = FALSE], None(Inputs),
                      None(Inputs), Never(Inputs),
                      [None(Outputs) EXCEPT ![o] = n], 0)
          /\ UNCHANGED failed

\* work() calls mark_done, or mark_input_fail on an input that is done
WorkMarksDone ==
    /\ pc = "work"
    /\ block_state' = "DONE" /\ holds_token' = FALSE
    /\ in' = [i \in Inputs |-> UpdateInputAvail(FlushInput(in[i]))]
    /\ out' = [o \in Outputs |-> FlushOutput(out[o])]
    /\ pool' = 0
    /\ away' = [o \in Outputs |-> 0]
    /\ missed' = {} /\ failed' = {}
    /\ pc' = AfterMain
    /\ UNCHANGED <<mailbox, checking, thrown, generation, upstream,
                   downstream, threads>>

\* the end of handle_input_check
CheckInputDone(i) ==
    /\ pc = "check" /\ i \in checking
    /\ IF \/ in[i].config # 0 /\ in[i].done /\ ~in[i].avail
          \/ in[i].config = 0 /\ \A j \in Inputs : in[j].done /\ ~in[j].avail
       THEN MarkDone(in, out)
       ELSE UNCHANGED <<block_state, holds_token, in, out, pool, away, aux>>
    /\ pc' = "idle" /\ checking' = {}
    /\ UNCHANGED <<mailbox, thrown, generation, upstream, downstream, threads>>

Actor ==
    \/ \E t \in {"TopThread", "TopConfig"} : HandleTopSetup(t)
    \/ HandleTopToken \/ HandleTopAlloc \/ HandleTopActive \/ HandleTopInert
    \/ HandleInputBuffer \/ HandleInputMsg \/ HandleInputCheck
    \/ HandleInputUpdate
    \/ HandleOutputBuffer \/ HandleOutputCheck \/ HandleOutputUpdate
    \/ \E t \in {"Callable", "GetStats"} : HandleCall(t)
    \/ HandleSelfKick
    \/ WorkRefused \/ WorkStarts \/ WorkReturns \/ WorkMarksDone
    \/ \E i \in Inputs : WorkFailsInput(i) \/ CheckInputDone(i)
    \/ \E o \in Outputs, n \in 0 .. OutSize : WorkFailsOutput(o, n)

-----------------------------------------------------------------------------
(* The specification starts after handle_topology: the ports are sized,    *)
(* and the configured reserves are in the queues.                          *)

NewInput(r)  == [config |-> r, reserve |-> r, ends |-> {}, length |-> 0,
                 ready |-> 0 >= r, msgs |-> 0, avail |-> FALSE, done |-> FALSE]
NewOutput(r) == [config |-> r, reserve |-> r, count |-> 0, offset |-> 0,
                 ready |-> FALSE, done |-> FALSE]

Init ==
    /\ mailbox = <<>> /\ pc = "idle" /\ checking = {} /\ thrown = "none"
    /\ block_state = "INIT" /\ holds_token = FALSE
    /\ \E r \in [Inputs -> InReserves] : in = [i \in Inputs |-> NewInput(r[i])]
    /\ \E r \in [Outputs -> OutReserves] :
           out = [o \in Outputs |-> NewOutput(r[o])]
    /\ pool = 0 /\ generation = 0
    /\ upstream = [i \in Inputs |-> "absent"]
    /\ downstream = {}
    /\ away = [o \in Outputs |-> 0]
    /\ waiting = {} /\ copies = {} /\ top_step = 0
    /\ budget = [feed |-> MaxFeed, calls |-> MaxCalls,
                 commits |-> MaxCommits, starts |-> MaxStarts]
    /\ missed = {} /\ failed = {}

Next == Environment \/ Actor

Spec == Init /\ [][Next]_vars

(* Theron runs an actor whose mailbox is not empty, and work() returns; the *)
(* threads of the user, and wait(), make progress; downstream blocks        *)
(* release the buffers they are given.                                      *)
Fairness ==
    /\ WF_vars(Actor) /\ WF_vars(StartStep) /\ WF_vars(WaitPoll)
    /\ \A s \in Senders : WF_vars(ReleaseCopy(s))
    /\ \A o \in Outputs : WF_vars(DownstreamReturns(o))

FairSpec == Spec /\ Fairness

-----------------------------------------------------------------------------
(* Properties.                                                             *)

\* The block, its mailbox and its neighbours are in a well-formed state.
TypeOK ==
    /\ mailbox \in Seq(Message)
    /\ pc \in {"idle", "main", "work", "check", "crashed"}
    /\ checking \subseteq Inputs
    /\ thrown \in {"none", "front_below_reserve", "input_maximal",
                   "output_partial", "output_empty"}
    /\ block_state \in {"INIT", "LIVE", "DONE"} /\ holds_token \in BOOLEAN
    /\ in \in [Inputs -> InputPort] /\ out \in [Outputs -> OutputPort]
    /\ pool \in Nat /\ generation \in Nat
    /\ upstream \in [Inputs -> {"absent", "holding", "live"}]
    /\ downstream \subseteq Outputs /\ away \in [Outputs -> Nat]
    /\ waiting \subseteq Senders /\ copies \subseteq Senders
    /\ top_step \in 0 .. 5
    /\ budget \in [{"feed", "calls", "commits", "starts"} -> Nat]
    /\ missed \subseteq {"copy", "commit"}
    /\ failed \subseteq Inputs

WillRecheck == \/ \E k \in DOMAIN mailbox : Recheck(mailbox[k])
               \/ top_step \in 1 .. 4

\* A block that could work and is not running is never left asleep: a message
\* that makes it look again is queued, or start() is still sending.  The two
\* exceptions are kept in missed: a kick refused only because the thread that
\* sent an answered message still owns its copy of prio_token, and a commit
\* of the configuration, after which nothing kicks.
NoLostWakeup ==
    (pc = "idle" /\ Workable) => (WillRecheck \/ missed # {})

\* The same without exceptions: "work could have been skipped by a high prio
\* msg, forcefully kick the task to recheck in a new call" would be enough.
NeverAsleep ==
    (pc = "idle" /\ Workable) => WillRecheck

\* nothing is left on this input for work() to do
Drained(i) == /\ in[i].msgs = 0
              /\ in[i].ends = {} \/ in[i].length < in[i].reserve \/ i \in failed

\* inputs_available never hides input from handle_input_check: an input that
\* is not available has no message, and no buffers, or less than its reserve,
\* or was marked failed by work() on what it has.
AvailableCoversQueue == \A i \in Inputs : in[i].avail \/ Drained(i)

\* Unless the block is restarted the bit is exact: an available input of a
\* LIVE block has a buffer or a message.
AvailableIsReal ==
    block_state = "LIVE" =>
        \A i \in Inputs : in[i].avail => (in[i].ends # {} \/ in[i].msgs > 0)

\* _enqueued_bytes is the length of the queued buffers, through stitching,
\* accumulation, consumption and flushes.
EnqueuedIsLength ==
    \A i \in Inputs :
        LET p == in[i]
        IN  IF p.ends = {} THEN p.length = 0
            ELSE p.length \in p.ends /\ \A e \in p.ends : e <= p.length

\* The assertion of InputBufferQueues::front, that the buffer given to work()
\* holds the reserve, does not fail.
FrontHoldsReserve == thrown # "front_below_reserve"

\* "mark fail: not ready until a new buffer appears": work() is not called on
\* an input it marked failed before something new arrived there.
FailWaitsForInput == pc = "work" => failed = {}

\* The front buffer of a pool always has room for the reserve: an output
\* cannot wait for ever on a front buffer that is too short and never moves.
OutputNotWedged ==
    \A o \in Outputs :
        out[o].count > 0 => OutSize - out[o].offset >= out[o].reserve

\* The pool of a block loses no buffer and gains none: each is queued, held
\* downstream, or in a message on its way back.
Returning(o) == {k \in DOMAIN mailbox :
                    /\ mailbox[k].type = "OutputBuffer"
                    /\ mailbox[k].port = o /\ mailbox[k].num = pool}
PoolConserved ==
    pool # 0 => \A o \in Outputs :
        out[o].count + away[o] + Cardinality(Returning(o)) = PoolSize

\* wait() "will not return until all blocks in the topology have been marked
\* done": it waits for the token, which a LIVE block holds.
LiveHoldsToken == block_state = "LIVE" => holds_token

\* A block that is DONE, outside of start(), has let go of everything: tokens,
\* queues, messages and pool.
DoneIsReleased ==
    (block_state = "DONE" /\ top_step = 5 /\ Top \notin waiting) =>
        /\ ~holds_token /\ pool = 0
        /\ \A i \in Inputs : in[i].ends = {} /\ in[i].msgs = 0
        /\ \A o \in Outputs : out[o].count = 0

\* A block that ends by itself when an upstream ends leaves no work undone on
\* the input that ended.
DrainedBeforeDone ==
    [][\A i \in checking :
          (pc = "check" /\ block_state = "LIVE" /\ block_state' = "DONE")
              => Drained(i)]_vars

\* "mark the block done if the sync input will never be ready again": after an
\* InputCheck, a block with a finished, empty, sync input is DONE.
EndsWhenDrained ==
    [][\A i \in checking :
          (/\ pc = "check" /\ checking' = {}
           /\ in[i].done /\ in[i].config # 0
           /\ in[i].ends = {} /\ in[i].msgs = 0) => block_state' = "DONE"]_vars

\* A workable block works, ends or stops being workable, unless it is one of
\* the exceptions of NoLostWakeup.
WorkHappens ==
    (Workable /\ missed = {}) ~>
        (pc \in {"work", "crashed"} \/ ~Workable \/ missed # {})

\* Every call on the block from another thread is answered.
CallsAnswered ==
    \A s \in Senders :
        (s \in waiting) ~> (s \notin waiting \/ pc = "crashed")

\* Once an input has ended, and start() is over, the block ends: by itself,
\* or by the TopInert that wait() sends.
EndsAfterInput ==
    (top_step = 5 /\ \E i \in Inputs : in[i].done)
        ~> (block_state = "DONE" \/ top_step # 5 \/ pc = "crashed")
=============================================================================
