----------------------------- MODULE Flowgraph -----------------------------
(***************************************************************************)
(* A flow graph and the thread of the user who starts, stops and waits for *)
(* it: which blocks run, how a block learns that it is of no more use, and *)
(* when wait() returns.                                                    *)
(*                                                                         *)
(* Who needs whom is counted in tokens, shared pointers.  Every port of a  *)
(* block has a token that it hands to its neighbours; every block holds,   *)
(* in token_pool, those of its neighbours and the one of the TopBlock.  A  *)
(* block that ends clears its pool and tells its neighbours to look at     *)
(* theirs: a token that is unique has no holder left.  wait() waits for    *)
(* the token of the TopBlock to become unique.                             *)
(*                                                                         *)
(* A handler of a block is one step up to task_main; work(), mark_done up  *)
(* to the release of the pool, and its messages to the neighbours are      *)
(* steps of their own.  A buffer is one item; pools, tags and messages are *)
(* left to other modules, and so are TopConfig, TopAlloc and OutputHint,   *)
(* whose handlers change nothing here.                                     *)
(***************************************************************************)
EXTENDS InterruptibleThread, Sequences, FiniteSets

CONSTANTS
    Blocks,
    Wires,          \* <<from, output port, to>>: an input of the last
    Sync,           \* the inputs with a reserve of one item; others have none
    Ending,         \* blocks whose work() may mark them done
    MaxMade,        \* bound: buffers of each source, from one start to the next
    MaxStarts       \* bound: calls of start()

From(w) == w[1]
Port(w) == <<w[1], w[2]>>
To(w)   == w[3]
Ins(b)   == {w \in Wires : To(w) = b}
Outs(b)  == {w \in Wires : From(w) = b}
Ports(b) == {Port(w) : w \in Outs(b)}
Consumers(p) == {w \in Wires : Port(w) = p}

ASSUME FlowgraphAssumption ==
    /\ \A w \in Wires : /\ w = <<From(w), w[2], To(w)>>
                        /\ From(w) \in Blocks /\ To(w) \in Blocks \ {From(w)}
    /\ IsFiniteSet(Wires) /\ Sync \subseteq Wires /\ Ending \subseteq Blocks
    /\ Threaded \subseteq {b \in Blocks : Ins(b) = {}}
    /\ MaxMade \in [Blocks -> Nat] /\ MaxStarts \in Nat

VARIABLES
    mailbox,        \* of each block
    pc,             \* what the handler that runs has left to do
    checking,       \* the input whose InputCheck it handles
    state,          \* block_state
    pool,           \* token_pool
    starts_seen,    \* how often each block made tokens for its ports
    queue,          \* buffers queued at each input
    inputs_done, outputs_done,
    made,           \* bound: buffers each block sent since TopActive
    yields,         \* threaded blocks whose work() has something to send
    owes,           \* blocks that have to answer a TopInert
    top,            \* the user's thread: its call, the broadcast it is in
    starts,         \* bound: calls of start() so far
    starting, early, \* auxiliary: blocks between TopToken and TopActive; those
                    \* that ended there, or were told that a consumer did, and in which start
    hurried         \* auxiliary: blocks that ended before a start activated them

block == <<state, pool, starts_seen, queue, inputs_done, outputs_done, made, yields>>
aux   == <<starting, early, hurried>>
special == <<thread, caller>>
vars == <<mailbox, pc, checking, block, owes, top, starts, aux, special>>

---------------------------------------------------------------------------
(* Tokens and messages.                                                    *)

TopTok       == <<"top", <<>>, 0>>
InTok(w)     == <<"input", w, starts_seen[To(w)]>>
OutTok(p)    == <<"output", p, starts_seen[p[1]]>>

Message(type, wire, tokens, reply) ==
    [type |-> type, wire |-> wire, tokens |-> tokens, reply |-> reply]
Plain(type)       == Message(type, <<>>, {}, FALSE)
OnWire(type, w)   == Message(type, w, {}, FALSE)
Broadcast(type, toks) == Message(type, <<>>, toks, TRUE)

\* shared_ptr::unique: the owner's is the only one left
Unique(tok) ==
    /\ \A b \in Blocks : tok \notin pool[b]
    /\ \A b \in Blocks : \A k \in DOMAIN mailbox[b] : tok \notin mailbox[b][k].tokens

\* the wires of one block, in some order
InOrder(ws) == CHOOSE f \in [1 .. Cardinality(ws) -> ws] :
                   \A i, j \in DOMAIN f : f[i] = f[j] => i = j

\* posts, one message for each wire of ws, to the block at the given end
PostEach(box, ws, End(_), Msg(_)) ==
    [b \in Blocks |->
        LET order == InOrder({w \in ws : End(w) = b})
        IN  box[b] \o [k \in DOMAIN order |-> Msg(order[k])]]

Sends(box, b)    == PostEach(box, Outs(b), To, LAMBDA w : OnWire("InputBuffer", w))
Append1(box, b, m) == [box EXCEPT ![b] = Append(@, m)]
SelfKicked(box, b) == Append1(box, b, Plain("SelfKick"))

---------------------------------------------------------------------------
(* The work condition.  A message of a broadcast carries the prio_token.   *)

PrioUnique(box, b) == \A k \in DOMAIN box[b] : ~box[b][k].reply

Allowed(b, box, q) ==
    /\ PrioUnique(box, b)
    /\ state[b] = "LIVE"
    /\ Ins(b) = {} \/ \E w \in Ins(b) : q[w] > 0
    /\ \A w \in Ins(b) \cap Sync : q[w] > 0

Kicked(b, box, q) == IF Allowed(b, box, q) THEN SelfKicked(box, b) ELSE box

\* task_main, then the rest of the handler
Task(b, box, q, rest) ==
    pc' = [pc EXCEPT ![b] = IF ~Allowed(b, box, q) THEN rest
                            ELSE IF b \in Threaded THEN "call" ELSE "work"]

---------------------------------------------------------------------------
(* The handlers.                                                           *)

Takes(b, type) ==
    /\ pc[b] = "idle" /\ mailbox[b] # <<>> /\ Head(mailbox[b]).type = type
Popped(b) == [mailbox EXCEPT ![b] = Tail(@)]
Got(b)    == Head(mailbox[b])
IsAt(call) == top.call = call
Ack(b)    == top' = [top EXCEPT !.unanswered = @ \ {b}]
Goes(b, where) == pc' = [pc EXCEPT ![b] = where]

\* the old thread is erased first
HandleTopThread(b) ==
    /\ Takes(b, "TopThread")
    /\ mailbox' = Popped(b)
    /\ IF b \in Threaded
       THEN /\ Goes(b, "create") /\ UNCHANGED top
            /\ IF thread[b].at = "none" THEN UNCHANGED special
               ELSE Update(b, thread[b], "clears")
       ELSE Ack(b) /\ UNCHANGED <<pc, special>>
    /\ UNCHANGED <<checking, block, owes, starts, aux>>

CreatesThread(b) ==
    /\ pc[b] = "create" /\ caller[b] = "out"
    /\ Update(b, NewThread, "out")
    /\ Goes(b, "idle") /\ Ack(b)
    /\ UNCHANGED <<mailbox, checking, block, owes, starts, aux>>

\* (mutant) stored by the first start only
StoresTopOnce(b) ==
    pool' = [pool EXCEPT ![b] = IF starts_seen[b] = 0 THEN @ \cup {TopTok} ELSE @]
StoresTop(b) == pool' = [pool EXCEPT ![b] = @ \cup {TopTok}]

\* new tokens for the ports, sent to the neighbours before the answer
HandleTopToken(b) ==
    /\ Takes(b, "TopToken")
    /\ starts_seen' = [starts_seen EXCEPT ![b] = @ + 1]
    /\ mailbox' =
         PostEach(PostEach(Popped(b), Ins(b), From,
                      LAMBDA w : Message("OutputToken", w, {<<"input", w, starts_seen'[b]>>}, FALSE)),
                  Outs(b), To,
                      LAMBDA w : Message("InputToken", w, {<<"output", Port(w), starts_seen'[b]>>}, FALSE))
    /\ inputs_done' = inputs_done \ Ins(b)
    /\ outputs_done' = outputs_done \ Ports(b)
    /\ StoresTop(b)
    /\ starting' = starting \cup {b}
    /\ Ack(b)
    /\ UNCHANGED <<pc, checking, state, queue, made, yields, owes, starts, early, hurried,
                   special>>

HandleTopActive(b) ==
    /\ Takes(b, "TopActive")
    /\ state' = [state EXCEPT ![b] = "LIVE"]
    /\ made' = [made EXCEPT ![b] = 0]
    /\ mailbox' = SelfKicked(Popped(b), b)
    /\ starting' = starting \ {b}
    /\ Ack(b)
    /\ UNCHANGED <<pc, checking, pool, starts_seen, queue, inputs_done, outputs_done,
                   yields, owes, starts, early, hurried, special>>

\* mark_done returns at once if the block is done
MarkDone(b) ==
    pc' = [pc EXCEPT ![b] = IF state[b] = "DONE" THEN "idle" ELSE "ends"]

HandleTopInert(b) ==
    /\ Takes(b, "TopInert")
    /\ mailbox' = Popped(b)
    /\ MarkDone(b)
    /\ IF Got(b).reply /\ state[b] # "DONE"
       THEN owes' = owes \cup {b} /\ UNCHANGED top
       ELSE UNCHANGED owes /\ IF Got(b).reply THEN Ack(b) ELSE UNCHANGED top
    /\ UNCHANGED <<checking, block, starts, aux, special>>

\* InputToken and OutputToken; a block that is done stores it too
HandleToken(b) ==
    /\ Takes(b, "InputToken") \/ Takes(b, "OutputToken")
    /\ pool' = [pool EXCEPT ![b] = @ \cup Got(b).tokens]
    /\ mailbox' = Popped(b)
    /\ UNCHANGED <<pc, checking, state, starts_seen, queue, inputs_done, outputs_done,
                   made, yields, owes, top, starts, aux, special>>

HandleInputBuffer(b) ==
    /\ Takes(b, "InputBuffer")
    /\ mailbox' = Popped(b)
    /\ IF state[b] = "DONE" THEN UNCHANGED <<queue, pc>>
       ELSE /\ queue' = [queue EXCEPT ![Got(b).wire] = @ + 1]
            /\ Task(b, mailbox', queue', "idle")
    /\ UNCHANGED <<checking, state, pool, starts_seen, inputs_done, outputs_done, made,
                   yields, owes, top, starts, aux, special>>

HandleSelfKick(b) ==
    /\ Takes(b, "SelfKick")
    /\ mailbox' = Popped(b)
    /\ Task(b, mailbox', queue, "idle")
    /\ UNCHANGED <<checking, block, owes, top, starts, aux, special>>

Marked(set, x, yes) == IF yes THEN set \cup {x} ELSE set \ {x}

HandleInputCheck(b) ==
    /\ Takes(b, "InputCheck")
    /\ mailbox' = Popped(b)
    /\ inputs_done' = Marked(inputs_done, Got(b).wire, Unique(InTok(Got(b).wire)))
    /\ checking' = [checking EXCEPT ![b] = Got(b).wire]
    /\ Task(b, mailbox', queue, "check")
    /\ UNCHANGED <<state, pool, starts_seen, queue, outputs_done, made, yields, owes,
                   top, starts, aux, special>>

Early(b) == IF b \in starting THEN early \cup {<<b, starts>>} ELSE early

\* (mutant) the bits are read before the one that changes is set
OutputsWereDone(b) == Ports(b) \subseteq outputs_done
AllOutputsDone(b)  == Ports(b) \subseteq outputs_done'

HandleOutputCheck(b) ==
    /\ Takes(b, "OutputCheck")
    /\ mailbox' = Popped(b)
    /\ outputs_done' = Marked(outputs_done, Port(Got(b).wire), Unique(OutTok(Port(Got(b).wire))))
    /\ IF AllOutputsDone(b) THEN MarkDone(b) ELSE UNCHANGED pc
    /\ early' = Early(b)
    /\ UNCHANGED <<checking, state, pool, starts_seen, queue, inputs_done, made, yields,
                   owes, top, starts, starting, hurried, special>>

---------------------------------------------------------------------------
(* The rest of a handler.                                                  *)

\* an InputCheck is not over with the work
After(b) == IF checking[b] # <<>> THEN "check" ELSE "idle"
MaySend(b) == Outs(b) # {} /\ (Ins(b) = {} => made[b] < MaxMade[b])

\* what task_main does after the work; mark_done in work() comes first
PostWork(b, box, q, done) ==
    /\ mailbox' = IF done THEN box ELSE Kicked(b, box, q)
    /\ Goes(b, IF done THEN "ends" ELSE After(b))

Work(b) ==
    /\ pc[b] = "work"
    /\ \E sends \in BOOLEAN, done \in BOOLEAN :
        /\ sends => MaySend(b)
        /\ done => b \in Ending
        /\ queue' = [w \in Wires |-> IF w \in Ins(b) /\ queue[w] > 0 THEN queue[w] - 1
                                     ELSE queue[w]]
        /\ made' = [made EXCEPT ![b] = IF sends /\ Ins(b) = {} THEN @ + 1 ELSE @]
        /\ PostWork(b, IF sends THEN Sends(mailbox, b) ELSE mailbox, queue', done)
    /\ UNCHANGED <<checking, state, pool, starts_seen, inputs_done, outputs_done, yields,
                   owes, top, starts, aux, special>>

\* the work of a threaded block: the handler waits in call()
Calls(b) ==
    /\ pc[b] = "call"
    /\ Update(b, thread[b], "calls")
    /\ Goes(b, "called")
    /\ UNCHANGED <<mailbox, checking, block, owes, top, starts, aux>>

ThreadWorks(b) ==
    /\ Works(b)
    /\ yields' \in {yields, yields \cup {b}}
    /\ b \in yields' => MaySend(b)
    /\ UNCHANGED <<mailbox, pc, checking, state, pool, starts_seen, queue, inputs_done,
                   outputs_done, made, owes, top, starts, aux>>

ThreadEnds(b) ==
    /\ b \in Ending /\ WorkMarksDone(b)
    /\ UNCHANGED <<mailbox, pc, checking, block, owes, top, starts, aux>>

ThreadThrows(b) ==
    /\ Throws(b)
    /\ UNCHANGED <<mailbox, pc, checking, block, owes, top, starts, aux>>

ThreadHandshake(b) ==
    /\ Handshake(b)
    /\ UNCHANGED <<mailbox, pc, checking, block, owes, top, starts, aux>>

CallReturns(b) ==
    /\ pc[b] = "called" /\ caller[b] = "out"
    /\ yields' = yields \ {b}
    /\ made' = [made EXCEPT ![b] = IF b \in yields THEN @ + 1 ELSE @]
    /\ PostWork(b, IF b \in yields THEN Sends(mailbox, b) ELSE mailbox, queue, FALSE)
    /\ UNCHANGED <<checking, state, pool, starts_seen, queue, inputs_done, outputs_done,
                   owes, top, starts, aux, special>>

\* (mutant) what is queued does not count
DrainedIsIgnored(b, w) == w \in Sync /\ w \in inputs_done

\* nothing will ever come of this input
InputEnded(b, w) ==
    \/ w \in Sync /\ w \in inputs_done /\ queue[w] = 0
    \/ /\ w \notin Sync
       /\ Ins(b) \subseteq inputs_done /\ \A v \in Ins(b) : queue[v] = 0

CheckInput(b) ==
    /\ pc[b] = "check"
    /\ checking' = [checking EXCEPT ![b] = <<>>]
    /\ IF InputEnded(b, checking[b]) THEN MarkDone(b) ELSE Goes(b, "idle")
    /\ UNCHANGED <<mailbox, block, owes, top, starts, aux, special>>

\* mark_done, the interruptible thread: erased if there is one
ErasesThread(b) ==
    /\ pc[b] = "ends" /\ b \in Threaded /\ caller[b] = "out" /\ thread[b].at # "none"
    /\ Update(b, thread[b], "clears")
    /\ UNCHANGED <<mailbox, pc, checking, block, owes, top, starts, aux>>

\* (mutant) the tokens of the neighbours are kept
ReleasesTop(b)   == pool' = [pool EXCEPT ![b] = @ \ {TopTok}]
ReleasesTokens(b) == pool' = [pool EXCEPT ![b] = {}]

Ends(b) ==
    /\ pc[b] = "ends"
    /\ b \in Threaded => thread[b].at = "none" /\ caller[b] = "out"
    /\ state' = [state EXCEPT ![b] = "DONE"]
    /\ ReleasesTokens(b)
    /\ queue' = [w \in Wires |-> IF w \in Ins(b) THEN 0 ELSE queue[w]]
    /\ checking' = [checking EXCEPT ![b] = <<>>]
    /\ early' = Early(b)
    /\ hurried' = IF IsAt("start") /\ (top.step < 3 \/ b \in starting)
                  THEN hurried \cup {<<b, starts>>} ELSE hurried
    /\ Goes(b, "tells")
    /\ UNCHANGED <<mailbox, starts_seen, inputs_done, outputs_done, made, yields, owes,
                   top, starts, starting, special>>

Tells(b) ==
    /\ pc[b] = "tells"
    /\ mailbox' = PostEach(PostEach(mailbox, Ins(b), From, LAMBDA w : OnWire("OutputCheck", w)),
                           Outs(b), To, LAMBDA w : OnWire("InputCheck", w))
    /\ IF b \in owes THEN Ack(b) ELSE UNCHANGED top
    /\ owes' = owes \ {b}
    /\ Goes(b, "idle")
    /\ UNCHANGED <<checking, block, starts, aux, special>>

---------------------------------------------------------------------------
(* The user's thread.                                                      *)

StartSeq == <<"TopThread", "TopToken", "TopActive">>
Broadcasts(call) == IF call = "start" THEN StartSeq ELSE <<"TopInert">>

Calling(call) == [call |-> call, step |-> 1, unsent |-> Blocks, unanswered |-> Blocks]
Returns(did)  == [call |-> did, step |-> 0, unsent |-> {}, unanswered |-> {}]

\* start(): also while the blocks run ("ok to re-start, means update")
Start ==
    /\ top.call \in {"new", "started", "stopped", "ended"}
    /\ starts < MaxStarts
    /\ starts' = starts + 1
    /\ top' = Calling("start")
    /\ UNCHANGED <<mailbox, pc, checking, block, owes, aux, special>>

\* (mutant) the special threads are left alone
InterruptsNone == UNCHANGED special
InterruptAll ==
    /\ thread' = [b \in Threaded |-> Interrupted(thread[b])]
    /\ UNCHANGED caller

Stop ==
    /\ IsAt("started")
    /\ InterruptAll
    /\ top' = Calling("stop")
    /\ UNCHANGED <<mailbox, pc, checking, block, owes, starts, aux>>

\* one iteration of the loop of bcast_prio_msg
SendTop(b) ==
    /\ b \in top.unsent
    /\ LET type == Broadcasts(top.call)[top.step]
       IN  mailbox' = Append1(mailbox, b,
                              Broadcast(type, IF type = "TopToken" THEN {TopTok} ELSE {}))
    /\ top' = [top EXCEPT !.unsent = @ \ {b}]
    /\ UNCHANGED <<pc, checking, block, owes, starts, aux, special>>

\* when all have new tokens, what happened in an earlier start is over
ThisStart(set) == IF IsAt("start") /\ top.step = 2 THEN {e \in set : e[2] = starts} ELSE set

\* all answered: the next broadcast, or the end of the call
Answered ==
    /\ top.call \in {"start", "stop"}
    /\ top.unsent = {} /\ top.unanswered = {}
    /\ top' = IF top.step < Len(Broadcasts(top.call))
              THEN [Calling(top.call) EXCEPT !.step = top.step + 1]
              ELSE Returns(IF top.call = "start" THEN "started" ELSE "stopped")
    /\ early' = ThisStart(early) /\ hurried' = ThisStart(hurried)
    /\ UNCHANGED <<mailbox, pc, checking, block, owes, starts, starting, special>>

Wait ==
    /\ top.call \in {"started", "stopped"}
    /\ top' = Returns("wait")
    /\ UNCHANGED <<mailbox, pc, checking, block, owes, starts, aux, special>>

\* the loop of wait(): after a while, a block with an ended input is ended
\* (bound: one such message at a time)
WaitPolls(b) ==
    /\ IsAt("wait")
    /\ ~Unique(TopTok)
    /\ Ins(b) \cap inputs_done # {}
    /\ \A k \in DOMAIN mailbox[b] : mailbox[b][k].type # "TopInert"
    /\ mailbox' = Append1(mailbox, b, Plain("TopInert"))
    /\ UNCHANGED <<pc, checking, block, owes, top, starts, aux, special>>

WaitReturns ==
    /\ IsAt("wait") /\ Unique(TopTok)
    /\ top' = Returns("ended")
    /\ UNCHANGED <<mailbox, pc, checking, block, owes, starts, aux, special>>

---------------------------------------------------------------------------
Init ==
    /\ ThreadInit
    /\ mailbox = [b \in Blocks |-> <<>>]
    /\ pc = [b \in Blocks |-> "idle"]
    /\ checking = [b \in Blocks |-> <<>>]
    /\ state = [b \in Blocks |-> "INIT"]
    /\ pool = [b \in Blocks |-> {}]
    /\ starts_seen = [b \in Blocks |-> 0]
    /\ queue = [w \in Wires |-> 0]
    /\ inputs_done = {} /\ outputs_done = {}
    /\ made = [b \in Blocks |-> 0]
    /\ yields = {} /\ owes = {}
    /\ top = Returns("new")
    /\ starts = 0
    /\ starting = {} /\ early = {} /\ hurried = {}

Handler(b) ==
    \/ HandleTopThread(b) \/ HandleTopToken(b) \/ HandleTopActive(b) \/ HandleTopInert(b)
    \/ HandleToken(b) \/ HandleInputBuffer(b) \/ HandleSelfKick(b)
    \/ HandleInputCheck(b) \/ HandleOutputCheck(b)
    \/ Work(b) \/ CheckInput(b) \/ Ends(b) \/ Tells(b)

ThreadedStep(b) ==
    \/ CreatesThread(b) \/ Calls(b) \/ CallReturns(b) \/ ErasesThread(b)
    \/ ThreadHandshake(b)

User == Start \/ Stop \/ Wait
BcastPrioMsg == Answered \/ \E b \in Blocks : SendTop(b)

Next ==
    \/ \E b \in Blocks : Handler(b) \/ WaitPolls(b)
    \/ \E b \in Threaded : ThreadedStep(b) \/ ThreadWorks(b) \/ ThreadThrows(b) \/ ThreadEnds(b)
    \/ User \/ BcastPrioMsg \/ WaitReturns

Spec == Init /\ [][Next]_vars

\* the threads of the framework take turns; so do the special threads and the
\* user's, inside a call; a work() in a special thread may block for ever,
\* unless it is interrupted
FairSpec ==
    /\ Spec
    /\ \A b \in Blocks : WF_vars(Handler(b)) /\ WF_vars(WaitPolls(b))
    /\ \A b \in Threaded :
           /\ WF_vars(ThreadedStep(b))
           /\ WF_vars(thread[b].interrupted /\ ThreadThrows(b))
    /\ WF_vars(BcastPrioMsg) /\ WF_vars(WaitReturns)

---------------------------------------------------------------------------
(* A block that runs and whose consumers have all dropped its tokens has   *)
(* the message that ends it: in its mailbox, or about to be posted by the  *)
(* consumer that ends (mark_done releases the pool first and tells the     *)
(* neighbours then).  Otherwise it would work for nobody until stop().     *)
(* Blocks that ended while start() was between its tokens and the          *)
(* activation are another matter: see WaitEndsAll.                         *)
EndIsHeard ==
    \A b \in Blocks :
        \/ IsAt("start") \/ state[b] # "LIVE" \/ pc[b] = "ends" \/ Ports(b) = {}
        \/ <<b, starts>> \in early
        \/ \E p \in Ports(b) : ~Unique(OutTok(p))
        \/ \E k \in DOMAIN mailbox[b] : mailbox[b][k].type = "OutputCheck"
        \/ \E w \in Outs(b) : pc[To(w)] = "tells"

(* The blocks that still run when wait() returns are the ones that ended   *)
(* during the start.  top_block.hpp promises that there are none: wait()   *)
(* "will not return until all blocks in the topology have been marked      *)
(* done"; but it waits for the token, and a block that ends between        *)
(* TopToken and TopActive has given that back when it is activated.        *)
WaitEndsAll == IsAt("ended") => \A b \in Blocks : state[b] = "DONE" \/ <<b, starts>> \in early

(* A block that ends because its input ended has taken all that the other  *)
(* end sent on it: the check travels behind the last buffer, and a buffer  *)
(* in the queue keeps the block from ending (input_handlers.cpp: "mark     *)
(* block done if the input is done").  Except when the other end had ended *)
(* while a start() was about to activate it: the new token that came with  *)
(* the start is already back, and the block that then runs is not heard.   *)
Hurried(b) == \E e \in hurried : e[1] = b
EndTakesAll ==
    [][\A w \in Wires :
          pc[To(w)] = "check" /\ checking[To(w)] = w /\ pc'[To(w)] = "ends"
          /\ ~Hurried(From(w))
          => /\ queue[w] = 0 /\ state[From(w)] # "LIVE"
             /\ \A k \in DOMAIN mailbox[To(w)] :
                    mailbox[To(w)][k].type = "InputBuffer" => mailbox[To(w)][k].wire # w]_vars

(* stop() returns, whatever a special thread is doing: "this will be       *)
(* interrupted and not block forever, when the executor is told to         *)
(* stop/interrupt" (interruptible_thread.hpp).                             *)
StopAnswered == IsAt("stop") ~> ~IsAt("stop")

(* Once every source without a special thread is done wait() returns: the  *)
(* end travels down the wires, and up to the sources nobody listens to any *)
(* more; where a block had something queued when its input ended, and so   *)
(* did not end, the loop of wait() ends it.  A work() that blocks for ever *)
(* in its thread keeps wait() waiting, until stop().                       *)
SourcesDone == \A b \in Blocks \ Threaded : Ins(b) = {} => state[b] = "DONE"
WaitReturnsAfter ==
    (\A b \in Threaded : []<>(thread[b].at # "works"))
        => ((IsAt("wait") /\ SourcesDone) ~> ~IsAt("wait"))
============================================================================
