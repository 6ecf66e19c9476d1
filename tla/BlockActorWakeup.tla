-------------------------- MODULE BlockActorWakeup --------------------------
(***************************************************************************)
(* Type correctness of BlockActor, for every number of ports, every size   *)
(* of buffers and pools, every set of threads and every bound; and:        *)
(*                                                                         *)
(* No wakeup is lost, a LIVE block holds the token of the top block, and a *)
(* block that is DONE has let go of everything.  The invariants say who    *)
(* may have messages with a copy of prio_token in the mailbox, what keeps  *)
(* a workable block awake, and what the queued messages of the top block   *)
(* say about how far start() has come.                                     *)
(***************************************************************************)
EXTENDS BlockActor, SequenceTheorems, TLAPS

-----------------------------------------------------------------------------
(* Types.                                                                  *)

\* What the assumption on the constants says of the reserves and sizes.
LEMMA Constants ==
    /\ NumInputs \in Nat /\ NumOutputs \in Nat
    /\ InReserves \subseteq Nat /\ OutReserves \subseteq Nat
    /\ InMaximum \in Nat \ {0}
    /\ OutSize \in Nat \ {0} /\ PoolSize \in Nat \ {0}
  BY BlockActorAssumption

-----------------------------------------------------------------------------
(* Ports: what the operations of one port preserve.                        *)

\* The operations of an input port return an input port.
LEMMA InputOps ==
    ASSUME NEW p \in InputPort, NEW n \in Nat, NEW b \in BOOLEAN
    PROVE  /\ Push(p, n, b) \in InputPort
           /\ n <= p.length => Consume(p, n, b) \in InputPort
           /\ UpdateInputAvail(p) \in InputPort
           /\ FlushInput(p) \in InputPort
           /\ Front(p) \in InputPort /\ Front(p).ready = p.ready
           /\ Accumulate(p) \in InputPort /\ Accumulate(p).ready = p.ready
<1> p.reserve \in Nat
  <2>1. p.reserve \in InReserves
    BY DEF InputPort
  <2> QED BY <2>1, Constants
<1>1. Push(p, n, b) \in InputPort
  <2>1. p.length + n \in Nat /\ (p.length + n >= p.reserve) \in BOOLEAN
    BY DEF InputPort
  <2>2. (IF b THEN p.ends \ {p.length} ELSE p.ends) \cup {p.length + n}
           \in SUBSET Nat
    BY <2>1 DEF InputPort
  <2> QED BY <2>1, <2>2 DEF Push, InputPort
<1>2. ASSUME n <= p.length PROVE Consume(p, n, b) \in InputPort
  <2> DEFINE rest == {e - n : e \in {f \in p.ends : f > n}}
  <2>1. rest \subseteq Nat
    BY DEF InputPort
  <2>2. p.length - n \in Nat /\ (p.length - n >= p.reserve) \in BOOLEAN
    BY <1>2 DEF InputPort
  <2> QED BY <2>1, <2>2 DEF Consume, InputPort
<1>3. UpdateInputAvail(p) \in InputPort
  BY DEF UpdateInputAvail, InputPort
<1>4. FlushInput(p) \in InputPort
  <2>1. (0 >= p.reserve) \in BOOLEAN
    OBVIOUS
  <2> QED BY <2>1 DEF FlushInput, InputPort
<1>5. Accumulate(p) \in InputPort /\ Accumulate(p).ready = p.ready
  BY BlockActorAssumption DEF Accumulate, InputPort
<1>6. Front(p) \in InputPort /\ Front(p).ready = p.ready
  BY <1>5 DEF Front
<1> QED BY <1>1, <1>2, <1>3, <1>4, <1>5, <1>6

\* A ready output has a buffer with room for the reserve.
Ready(p) == p.ready => p.count > 0 /\ OutSize - p.offset >= p.reserve
SoundOutput == {p \in OutputPort : Ready(p)}

\* The operations of an output port keep its bit in _bitset sound.
LEMMA OutputOps ==
    ASSUME NEW p \in OutputPort
    PROVE  /\ UpdateOutput(p) \in SoundOutput
           /\ NewQueue(p) \in SoundOutput
           /\ FlushOutput(p) \in SoundOutput
<1> p.reserve \in Nat /\ OutSize \in Nat /\ 0 \in 0 .. OutSize
  <2>1. OutReserves \cup {1} \subseteq Nat
    BY Constants
  <2>2. p.reserve \in Nat
    BY <2>1 DEF OutputPort
  <2>3. OutSize \in Nat /\ 0 \in 0 .. OutSize
    BY Constants
  <2> QED BY <2>2, <2>3
<1>1. UpdateOutput(p) \in SoundOutput
  <2>1. (p.count > 0 /\ OutSize - p.offset >= p.reserve) \in BOOLEAN
    BY DEF OutputPort
  <2>2. UpdateOutput(p) \in OutputPort
    BY <2>1 DEF UpdateOutput, OutputPort
  <2>3. Ready(UpdateOutput(p))
    BY DEF UpdateOutput, OutputPort, Ready
  <2> QED BY <2>2, <2>3 DEF SoundOutput
<1>2. NewQueue(p) \in SoundOutput
  <2>1. NewQueue(p) \in OutputPort
    BY DEF NewQueue, OutputPort
  <2>2. Ready(NewQueue(p))
    BY DEF NewQueue, OutputPort, Ready
  <2> QED BY <2>1, <2>2 DEF SoundOutput
<1>3. FlushOutput(p) \in SoundOutput
  <2>1. NewQueue(p) \in OutputPort /\ ~NewQueue(p).ready
    BY DEF NewQueue, OutputPort
  <2>2. FlushOutput(p) \in OutputPort /\ ~FlushOutput(p).ready
    BY <2>1 DEF FlushOutput, OutputPort
  <2> QED BY <2>2 DEF SoundOutput, Ready
<1> QED BY <1>1, <1>2, <1>3

\* Producing n items, no more than the front buffer has room for, leaves an
\* output port of the right type and its bit in _bitset sound.
LEMMA ConsumeOutputSound ==
    ASSUME NEW p \in SoundOutput, NEW n \in Nat, n <= OutSize - p.offset,
           n > 0 => p.count > 0
    PROVE  ConsumeOutput(p, n) \in SoundOutput
<1>1. CASE n = 0
  BY <1>1 DEF ConsumeOutput
<1>2. CASE n # 0
  <2>1. [p EXCEPT !.count = @ - 1, !.offset = 0] \in OutputPort
    <3>1. p.count - 1 \in Nat /\ 0 \in 0 .. OutSize
      BY <1>2, BlockActorAssumption DEF SoundOutput, OutputPort
    <3> QED BY <3>1 DEF SoundOutput, OutputPort
  <2>2. [p EXCEPT !.offset = @ + n] \in OutputPort
    BY <1>2, BlockActorAssumption DEF SoundOutput, OutputPort
  <2> QED BY <1>2, <2>1, <2>2, OutputOps DEF ConsumeOutput
<1> QED BY <1>1, <1>2
-----------------------------------------------------------------------------
(* Messages.                                                               *)

\* Every message that a handler, a neighbour or a thread posts is well formed.
LEMMA Messages ==
    /\ \A t \in InputMsgs, p \in Inputs, n \in Nat : PortMsg(t, p, n) \in Message
    /\ \A t \in OutputMsgs, p \in Outputs, n \in Nat :
           PortMsg(t, p, n) \in Message
    /\ \A t \in OtherMsgs, s \in Senders \cup {Nobody} :
           PrioMsg(t, s) \in Message
    /\ SelfKick \in Message
<1>1. ASSUME NEW t \in InputMsgs, NEW p \in Inputs, NEW n \in Nat
      PROVE  PortMsg(t, p, n) \in Message
  <2>1. p \in Nat /\ t \in MsgTypes /\ t \notin OutputMsgs
    BY Constants DEF Inputs, InputMsgs, OutputMsgs, MsgTypes
  <2> QED BY <2>1 DEF PortMsg, Message
<1>2. ASSUME NEW t \in OutputMsgs, NEW p \in Outputs, NEW n \in Nat
      PROVE  PortMsg(t, p, n) \in Message
  <2>1. p \in Nat /\ t \in MsgTypes /\ t \notin InputMsgs
    BY Constants DEF Outputs, InputMsgs, OutputMsgs, MsgTypes
  <2> QED BY <2>1 DEF PortMsg, Message
<1>3. ASSUME NEW t \in OtherMsgs
      PROVE  t \in MsgTypes /\ t \notin InputMsgs /\ t \notin OutputMsgs
  BY DEF InputMsgs, OutputMsgs, OtherMsgs, MsgTypes
<1>4. ASSUME NEW t \in OtherMsgs, NEW s \in Senders \cup {Nobody}
      PROVE  PrioMsg(t, s) \in Message
  BY <1>3 DEF PrioMsg, Message
<1>5. SelfKick \in Message
  <2>1. "SelfKick" \in OtherMsgs
    BY DEF OtherMsgs
  <2> QED BY <2>1, <1>3 DEF SelfKick, PortMsg, Message
<1> QED BY <1>1, <1>2, <1>4, <1>5

\* Appending, concatenating and taking messages keeps a mailbox a mailbox.
LEMMA MailOps ==
    ASSUME NEW mb \in Seq(Message), NEW s \in Seq(Message), NEW m \in Message
    PROVE  /\ Append(mb, m) \in Seq(Message)
           /\ mb \o s \in Seq(Message)
           /\ mb # <<>> => Tail(mb) \in Seq(Message) /\ Head(mb) \in Message
  OBVIOUS

\* A sequence given by a function of its positions.
LEMMA IndexedMail ==
    ASSUME NEW n \in Nat, NEW f \in [1 .. n -> Message]
    PROVE  f \in Seq(Message) /\ Len(f) = n /\ DOMAIN f = 1 .. n
  OBVIOUS

\* handle_top_alloc posts the buffers of the new pools to existing outputs.
LEMMA PoolMailType ==
    ASSUME generation \in Nat
    PROVE  PoolMail \in [1 .. NumOutputs * PoolSize -> Message]
           /\ NumOutputs * PoolSize \in Nat
<1>1. NumOutputs * PoolSize \in Nat
  BY Constants
<1>2. \A k \in 1 .. NumOutputs * PoolSize : (k - 1) \div PoolSize \in Outputs
  BY Constants, SMTT(30) DEF Outputs
<1>3. \A k \in 1 .. NumOutputs * PoolSize :
         PortMsg("OutputBuffer", (k - 1) \div PoolSize, generation + 1)
            \in Message
  BY <1>2, Messages DEF OutputMsgs
<1> QED BY <1>1, <1>3 DEF PoolMail

\* commit_config posts its updates to existing ports.
LEMMA UpdateMailType ==
    /\ [k \in 1 .. NumInputs |-> PortMsg("InputUpdate", k - 1, 0)]
           \in [1 .. NumInputs -> Message]
    /\ [k \in 1 .. NumOutputs |-> PortMsg("OutputUpdate", k - 1, 0)]
           \in [1 .. NumOutputs -> Message]
<1>1. /\ \A k \in 1 .. NumInputs : k - 1 \in Inputs
      /\ \A k \in 1 .. NumOutputs : k - 1 \in Outputs
  BY Constants DEF Inputs, Outputs
<1> QED BY <1>1, Messages DEF InputMsgs, OutputMsgs

-----------------------------------------------------------------------------
(* Type correctness.  It needs the meaning of _bitset: task_main takes a   *)
(* buffer from an output only because its bit says that there is one.      *)

AllReady == /\ \A i \in Inputs : in[i].ready
            /\ \A o \in Outputs : out[o].ready
Typed == /\ TypeOK
         /\ \A o \in Outputs : Ready(out[o])
         /\ pool = 0 => \A o \in Outputs : ~out[o].ready
         /\ pc = "work" => AllReady

Ports == in \in [Inputs -> InputPort] /\ out \in [Outputs -> SoundOutput]

\* The ports of a typed state, for lemmas that need only them.
LEMMA TypedPorts == ASSUME Typed PROVE Ports
  BY DEF Typed, TypeOK, Ports, SoundOutput

\* The initial states are typed.
LEMMA TypedInit == Init => Typed
<1> SUFFICES ASSUME Init PROVE Typed
  OBVIOUS
<1>1. in \in [Inputs -> InputPort]
  <2>1. PICK r \in [Inputs -> InReserves] :
            in = [i \in Inputs |-> NewInput(r[i])]
    BY DEF Init
  <2>2. \A x \in InReserves : NewInput(x) \in InputPort
    <3>1. \A x \in InReserves : (0 >= x) \in BOOLEAN
      BY Constants
    <3> QED BY <3>1 DEF NewInput, InputPort
  <2> QED BY <2>1, <2>2
<1>2. out \in [Outputs -> SoundOutput]
  <2>1. PICK r \in [Outputs -> OutReserves] :
            out = [o \in Outputs |-> NewOutput(r[o])]
    BY DEF Init
  <2>2. \A x \in OutReserves : NewOutput(x) \in SoundOutput
    <3>1. 0 \in 0 .. OutSize
      BY Constants
    <3> QED BY <3>1 DEF NewOutput, OutputPort, SoundOutput, Ready
  <2> QED BY <2>1, <2>2
<1>3. out \in [Outputs -> OutputPort] /\ \A o \in Outputs : Ready(out[o])
  BY <1>2 DEF SoundOutput
<1>4. budget \in [{"feed", "calls", "commits", "starts"} -> Nat]
  BY BlockActorAssumption DEF Init
<1>5. /\ mailbox \in Seq(Message) /\ checking \subseteq Inputs
      /\ pc = "idle" /\ thrown = "none" /\ block_state = "INIT"
      /\ pool = 0 /\ generation = 0
      /\ waiting = {} /\ copies = {} /\ top_step = 0
      /\ missed = {} /\ failed = {}
  BY DEF Init
<1>8. holds_token \in BOOLEAN
  BY Zenon DEF Init
<1>6. /\ upstream \in [Inputs -> {"absent", "holding", "live"}]
      /\ downstream \subseteq Outputs /\ away \in [Outputs -> Nat]
  BY DEF Init
<1>9. \A o \in Outputs : ~out[o].ready
  BY DEF Init, NewOutput
<1>7. TypeOK
  BY <1>1, <1>3, <1>4, <1>5, <1>6, <1>8 DEF TypeOK
<1> QED BY <1>3, <1>5, <1>7, <1>9 DEF Typed

\* What a step of the environment leaves alone, and what it may change.
LEMMA TypedEnvironment ==
    ASSUME Typed, Environment
    PROVE  Typed'
<1> USE DEF Typed
<1>1. ASSUME NEW i \in Inputs, UpstreamActive(i) PROVE Typed'
  BY <1>1 DEF UpstreamActive, TypeOK, AllReady, handler, block, threads, aux
<1>2. ASSUME NEW i \in Inputs, UpstreamSends(i) PROVE Typed'
  <2>1. mailbox' \in Seq(Message)
    <3>1. PICK n \in 1 .. MaxChunk :
              Post(PortMsg("InputBuffer", i, n))
      BY <1>2 DEF UpstreamSends
    <3> QED BY <3>1, Messages DEF Post, InputMsgs, TypeOK
  <2>2. budget' \in [{"feed", "calls", "commits", "starts"} -> Nat]
    BY <1>2 DEF UpstreamSends, Spend, TypeOK
  <2> QED BY <1>2, <2>1, <2>2
          DEF UpstreamSends, TypeOK, AllReady, handler, block, neighbours, aux
<1>3. ASSUME NEW i \in Inputs, UpstreamPostsMsg(i) PROVE Typed'
  <2>1. mailbox' \in Seq(Message)
    BY <1>3, Messages DEF UpstreamPostsMsg, Post, InputMsgs, TypeOK
  <2>2. budget' \in [{"feed", "calls", "commits", "starts"} -> Nat]
    BY <1>3 DEF UpstreamPostsMsg, Spend, TypeOK
  <2> QED BY <1>3, <2>1, <2>2
          DEF UpstreamPostsMsg, TypeOK, AllReady, handler, block, neighbours, aux
<1>4. ASSUME NEW i \in Inputs, UpstreamDone(i) PROVE Typed'
  <2>1. mailbox' \in Seq(Message)
    BY <1>4, Messages DEF UpstreamDone, Post, InputMsgs, TypeOK
  <2> QED BY <1>4, <2>1
          DEF UpstreamDone, TypeOK, AllReady, handler, block, threads, aux
<1>5. ASSUME NEW o \in Outputs, DownstreamReturns(o) PROVE Typed'
  <2>1. mailbox' \in Seq(Message)
    BY <1>5, Messages DEF DownstreamReturns, Post, OutputMsgs, TypeOK
  <2>2. away' \in [Outputs -> Nat]
    BY <1>5 DEF DownstreamReturns, TypeOK
  <2> QED BY <1>5, <2>1, <2>2
          DEF DownstreamReturns, TypeOK, AllReady, handler, block, threads, aux
<1>6. ASSUME NEW o \in Outputs, DownstreamDone(o) PROVE Typed'
  <2>1. mailbox' \in Seq(Message)
    BY <1>6, Messages DEF DownstreamDone, Post, OutputMsgs, TypeOK
  <2> QED BY <1>6, <2>1
          DEF DownstreamDone, TypeOK, AllReady, handler, block, threads, aux
<1>7. ASSUME NEW s \in Senders, NEW t \in OtherMsgs, Ask(s, t),
             budget' \in [{"feed", "calls", "commits", "starts"} -> Nat],
             top_step' \in 0 .. 5
      PROVE  Typed'
  <2>1. mailbox' \in Seq(Message)
    BY <1>7, Messages DEF Ask, Post, TypeOK
  <2> QED BY <1>7, <2>1
          DEF Ask, TypeOK, AllReady, handler, block, neighbours, aux
<1>8. ASSUME NEW c \in Callers, CallProperty(c) PROVE Typed'
  <2>1. budget' \in [{"feed", "calls", "commits", "starts"} -> Nat]
    BY <1>8 DEF CallProperty, Spend, TypeOK
  <2> QED BY <1>7, <1>8, <2>1 DEF CallProperty, Senders, OtherMsgs, TypeOK
<1>9. ASSUME NEW c \in Monitors, QueryStats(c) PROVE Typed'
  <2>1. budget' \in [{"feed", "calls", "commits", "starts"} -> Nat]
    BY <1>9 DEF QueryStats, Spend, TypeOK
  <2> QED BY <1>7, <1>9, <2>1 DEF QueryStats, Senders, OtherMsgs, TypeOK
<1>10. ASSUME NEW s \in Senders, ReleaseCopy(s) PROVE Typed'
  BY <1>10 DEF ReleaseCopy, TypeOK, AllReady, handler, block, neighbours, aux
<1>11. ASSUME NEW ins \in [Inputs -> InReserves],
              NEW outs \in [Outputs -> OutReserves], CommitConfig(ins, outs)
       PROVE  Typed'
  <2>1. mailbox' \in Seq(Message)
    <3> DEFINE f == [k \in 1 .. NumInputs |-> PortMsg("InputUpdate", k - 1, 0)]
               g == [k \in 1 .. NumOutputs |-> PortMsg("OutputUpdate", k - 1, 0)]
    <3>1. f \in Seq(Message) /\ g \in Seq(Message)
      BY UpdateMailType, IndexedMail, Constants
    <3>2. mailbox' = mailbox \o f \o g
      BY <1>11 DEF CommitConfig
    <3> HIDE DEF f, g
    <3> QED BY <3>1, <3>2, MailOps DEF TypeOK
  <2>2. budget' \in [{"feed", "calls", "commits", "starts"} -> Nat]
    BY <1>11 DEF CommitConfig, Spend, TypeOK
  <2>3. in' \in [Inputs -> InputPort]
        /\ \A i \in Inputs : in'[i].ready = in[i].ready
    <3>1. \A i \in Inputs : in[i] \in InputPort /\ ins[i] \in InReserves
      BY DEF TypeOK
    <3>2. \A p \in InputPort, r \in InReserves :
              /\ [p EXCEPT !.config = r] \in InputPort
              /\ [p EXCEPT !.config = r].ready = p.ready
      BY DEF InputPort
    <3>3. in' = [i \in Inputs |-> [in[i] EXCEPT !.config = ins[i]]]
      BY <1>11 DEF CommitConfig
    <3> QED BY <3>1, <3>2, <3>3
  <2>4. out' \in [Outputs -> OutputPort]
        /\ \A o \in Outputs : /\ out'[o].ready = out[o].ready
                              /\ out'[o].count = out[o].count
                              /\ out'[o].offset = out[o].offset
                              /\ out'[o].reserve = out[o].reserve
    <3>1. \A o \in Outputs : out[o] \in OutputPort /\ outs[o] \in OutReserves
      BY DEF TypeOK
    <3>2. \A p \in OutputPort, r \in OutReserves :
              /\ [p EXCEPT !.config = r] \in OutputPort
              /\ [p EXCEPT !.config = r].ready = p.ready
              /\ [p EXCEPT !.config = r].count = p.count
              /\ [p EXCEPT !.config = r].offset = p.offset
              /\ [p EXCEPT !.config = r].reserve = p.reserve
      BY DEF OutputPort
    <3>3. out' = [o \in Outputs |-> [out[o] EXCEPT !.config = outs[o]]]
      BY <1>11 DEF CommitConfig
    <3> QED BY <3>1, <3>2, <3>3
  <2>5. (\A o \in Outputs : Ready(out[o]))'
    BY <2>4 DEF Ready
  <2>6. TypeOK'
    BY <1>11, <2>1, <2>2, <2>3, <2>4
       DEF CommitConfig, TypeOK, handler, neighbours, aux
  <2>7. (pc = "work" => AllReady)'
        /\ (pool = 0 => \A o \in Outputs : ~out[o].ready)'
    BY <1>11, <2>3, <2>4 DEF CommitConfig, AllReady, handler
  <2> QED BY <2>5, <2>6, <2>7
<1>12. CASE StartStep
  <2>1. top_step + 1 \in 1 .. 5 /\ StartSeq[top_step + 1] \in OtherMsgs
    BY <1>12 DEF StartStep, StartSeq, OtherMsgs, TypeOK
  <2>2. /\ Top \in Senders /\ Ask(Top, StartSeq[top_step + 1])
        /\ top_step' \in 0 .. 5
        /\ budget' \in [{"feed", "calls", "commits", "starts"} -> Nat]
    BY <1>12, <2>1 DEF StartStep, Senders, TypeOK
  <2> QED BY <1>7, <2>1, <2>2
<1>13. CASE StartAgain
  <2>1. budget' \in [{"feed", "calls", "commits", "starts"} -> Nat]
    BY <1>13 DEF StartAgain, Spend, TypeOK
  <2> QED BY <1>13, <2>1
          DEF StartAgain, TypeOK, AllReady, handler, block, neighbours, aux
<1>14. CASE Stop
  BY <1>7, <1>14 DEF Stop, Senders, OtherMsgs, TypeOK
<1>15. CASE WaitPoll
  <2>1. mailbox' \in Seq(Message)
    BY <1>15, Messages DEF WaitPoll, Post, OtherMsgs, TypeOK
  <2> QED BY <1>15, <2>1 DEF WaitPoll, TypeOK, AllReady, handler, block,
                            neighbours, threads, aux
<1> QED BY <1>1, <1>2, <1>3, <1>4, <1>5, <1>6, <1>8, <1>9, <1>10, <1>11,
          <1>12, <1>13, <1>14, <1>15 DEF Environment

\* mark_done leaves the variables it changes typed.
LEMMA TypedMarkDone ==
    ASSUME Typed, NEW ins \in [Inputs -> InputPort],
           NEW outs \in [Outputs -> SoundOutput], MarkDone(ins, outs),
           pool = 0 => \A o \in Outputs : ~outs[o].ready
    PROVE  /\ (pool = 0 => \A o \in Outputs : ~out[o].ready)'
           /\ Ports' /\ block_state' \in {"INIT", "LIVE", "DONE"}
           /\ holds_token' \in BOOLEAN /\ pool' \in Nat
           /\ away' \in [Outputs -> Nat] /\ missed' \subseteq {"copy", "commit"}
           /\ failed' \subseteq Inputs
<1>1. CASE block_state = "DONE"
  BY <1>1 DEF Typed, TypeOK, MarkDone, Ports, aux
<1>2. CASE block_state # "DONE"
  <2>1. in' \in [Inputs -> InputPort]
    BY <1>2, InputOps DEF MarkDone
  <2>2. out' \in [Outputs -> SoundOutput]
    BY <1>2, OutputOps DEF MarkDone, SoundOutput
  <2>3. holds_token' \in BOOLEAN
    BY <1>2, Zenon DEF MarkDone
  <2>4. \A o \in Outputs : ~out'[o].ready
    <3>1. \A p \in OutputPort : ~FlushOutput(p).ready
      BY DEF FlushOutput, NewQueue, OutputPort
    <3> QED BY <1>2, <3>1 DEF MarkDone, SoundOutput
  <2> QED BY <1>2, <2>1, <2>2, <2>3, <2>4 DEF MarkDone, Ports
<1> QED BY <1>1, <1>2

\* A refused attempt to work is explained by a copy of prio_token or not at all.
LEMMA RefusalType == Refusal \subseteq {"copy", "commit"}
  BY DEF Refusal

\* The end of task_main keeps the types, when work() consumed no more than
\* there was, and produced no more than the room in the front buffer.
LEMMA TypedPostWork ==
    ASSUME Typed,
           NEW ins \in [Inputs -> InputPort],
           NEW outs \in [Outputs -> SoundOutput],
           NEW eaten \in [Inputs -> Nat], NEW popped \in [Inputs -> Nat],
           NEW unstitched \in [Inputs -> BOOLEAN],
           NEW made \in [Outputs -> Nat], NEW kicks \in Nat,
           \A i \in Inputs : eaten[i] <= ins[i].length /\ popped[i] <= ins[i].msgs,
           \A o \in Outputs : /\ made[o] <= OutSize - outs[o].offset
                              /\ made[o] > 0 => outs[o].count > 0,
           PostWork(ins, outs, eaten, popped, unstitched, made, kicks),
           pool # 0 \/ Outputs = {},
           failed' \subseteq Inputs
    PROVE  Typed'
<1>1. in' \in [Inputs -> InputPort]
  <2> DEFINE rest(i) == [ins[i] EXCEPT !.msgs = @ - popped[i]]
  <2>1. ASSUME NEW i \in Inputs
        PROVE  /\ rest(i) \in InputPort /\ rest(i).length = ins[i].length
    <3>1. ins[i] \in InputPort /\ ins[i].msgs - popped[i] \in Nat
      BY DEF InputPort
    <3> QED BY <3>1 DEF InputPort
  <2>2. ASSUME NEW i \in Inputs
        PROVE  UpdateInputAvail(Consume(rest(i), eaten[i], unstitched[i]))
                   \in InputPort
    BY <2>1, InputOps
  <2>3. in' = [i \in Inputs |-> UpdateInputAvail(
                                   Consume(rest(i), eaten[i], unstitched[i]))]
    BY DEF PostWork
  <2> HIDE DEF rest
  <2> QED BY <2>2, <2>3
<1>2. out' \in [Outputs -> SoundOutput]
  BY ConsumeOutputSound DEF PostWork
<1>3. away' \in [Outputs -> Nat]
  BY DEF PostWork, Typed, TypeOK
<1>4. mailbox' \in Seq(Message)
  <2> DEFINE f == [k \in 1 .. kicks |-> SelfKick]
             g == IF TokenUnique /\ Workable' THEN <<SelfKick>> ELSE <<>>
  <2>1. f \in Seq(Message) /\ g \in Seq(Message)
    BY Messages, IndexedMail
  <2>2. mailbox' = mailbox \o f \o g
    BY DEF PostWork
  <2> HIDE DEF f, g
  <2> QED BY <2>1, <2>2, MailOps DEF Typed, TypeOK
<1>5. out' \in [Outputs -> OutputPort] /\ (\A o \in Outputs : Ready(out[o]))'
  BY <1>2 DEF SoundOutput
<1>6. pc' \in {"idle", "check"} /\ missed' \subseteq {"copy", "commit"}
  BY DEF PostWork, AfterMain, Refusal
<1>7. TypeOK'
  BY <1>1, <1>3, <1>4, <1>5, <1>6 DEF PostWork, Typed, TypeOK, threads
<1>8. (pool = 0 => \A o \in Outputs : ~out[o].ready)'
  BY DEF PostWork
<1> QED BY <1>5, <1>6, <1>7, <1>8 DEF Typed

\* The message at the head of the mailbox, and the mailbox after it.
LEMMA Received ==
    ASSUME TypeOK, NEW t, Receive(t)
    PROVE  /\ Msg \in Message /\ Msg.type = t /\ Tail(mailbox) \in Seq(Message)
           /\ Append(Tail(mailbox), SelfKick) \in Seq(Message)
           /\ Append(Tail(mailbox), Msg) \in Seq(Message)
           /\ Msg.port \in Nat /\ Msg.num \in Nat
           /\ t \in InputMsgs => Msg.port \in Inputs
           /\ t \in OutputMsgs => Msg.port \in Outputs
<1>1. mailbox \in Seq(Message) /\ mailbox # <<>> /\ Msg.type = t
  BY DEF Receive, TypeOK
<1>2. Msg \in Message /\ Tail(mailbox) \in Seq(Message)
  BY <1>1, HeadTailProperties DEF Msg
<1>3. /\ Msg.port \in Nat /\ Msg.num \in Nat
      /\ t \in InputMsgs => Msg.port \in Inputs
      /\ t \in OutputMsgs => Msg.port \in Outputs
  BY <1>1, <1>2 DEF Message
<1>4. Append(Tail(mailbox), SelfKick) \in Seq(Message)
  BY <1>2, Messages, AppendProperties
<1>5. Append(Tail(mailbox), Msg) \in Seq(Message)
  BY <1>2, AppendProperties
<1> QED BY <1>1, <1>2, <1>3, <1>4, <1>5

\* The handlers of block_handlers.cpp and block_allocator.cpp keep the types.
LEMMA TypedTopHandlers ==
    ASSUME Typed
    PROVE  /\ \A t \in {"TopThread", "TopConfig"} : HandleTopSetup(t) => Typed'
           /\ HandleTopToken => Typed'
           /\ HandleTopAlloc => Typed'
           /\ HandleTopActive => Typed'
           /\ HandleTopInert => Typed'
           /\ \A t \in {"Callable", "GetStats"} : HandleCall(t) => Typed'
           /\ HandleSelfKick => Typed'
<1> USE DEF Typed
<1>1. ASSUME NEW t \in {"TopThread", "TopConfig"}, HandleTopSetup(t)
      PROVE  Typed'
  BY <1>1, Received DEF HandleTopSetup, Take, Answer, TypeOK, AllReady,
                        handler, block, neighbours, aux
<1>2. ASSUME HandleTopToken PROVE Typed'
  <2>1. mailbox' \in Seq(Message)
    BY <1>2, Received DEF HandleTopToken, Take
  <2>2. in' \in [Inputs -> InputPort] /\ \A i \in Inputs : in'[i].ready = in[i].ready
    <3>1. \A p \in InputPort : /\ [p EXCEPT !.done = FALSE] \in InputPort
                               /\ [p EXCEPT !.done = FALSE].ready = p.ready
      BY DEF InputPort
    <3>2. in' = [i \in Inputs |-> [in[i] EXCEPT !.done = FALSE]]
      BY <1>2 DEF HandleTopToken
    <3> QED BY <3>1, <3>2 DEF TypeOK
  <2>3. /\ out' \in [Outputs -> OutputPort]
        /\ \A o \in Outputs : out'[o].ready = out[o].ready /\ Ready(out'[o])
    <3>1. \A p \in OutputPort :
              /\ [p EXCEPT !.done = FALSE] \in OutputPort
              /\ [p EXCEPT !.done = FALSE].ready = p.ready
              /\ Ready(p) => Ready([p EXCEPT !.done = FALSE])
      BY DEF OutputPort, Ready
    <3>2. out' = [o \in Outputs |-> [out[o] EXCEPT !.done = FALSE]]
      BY <1>2 DEF HandleTopToken
    <3> QED BY <3>1, <3>2 DEF TypeOK
  <2>4. holds_token' \in BOOLEAN
    BY <1>2, Zenon DEF HandleTopToken
  <2>5. downstream' \subseteq Outputs
        /\ upstream' \in [Inputs -> {"absent", "holding", "live"}]
    BY <1>2 DEF HandleTopToken
  <2>6. TypeOK'
    BY <1>2, <2>1, <2>2, <2>3, <2>4, <2>5
       DEF HandleTopToken, Answer, TypeOK, handler, aux
  <2>7. (pc = "work" => AllReady)'
    BY <1>2, <2>2, <2>3 DEF HandleTopToken, AllReady, handler
  <2>8. (\A o \in Outputs : Ready(out[o]))'
        /\ (pool = 0 => \A o \in Outputs : ~out[o].ready)'
    BY <1>2, <2>3 DEF HandleTopToken
  <2> QED BY <2>6, <2>7, <2>8
<1>3. ASSUME HandleTopAlloc PROVE Typed'
  <2>1. mailbox' \in Seq(Message)
    <3>1. PoolMail \in Seq(Message)
      BY PoolMailType, IndexedMail DEF TypeOK
    <3> QED BY <1>3, <3>1, Received, MailOps DEF HandleTopAlloc
  <2>2. out' \in [Outputs -> SoundOutput]
    BY <1>3, OutputOps DEF HandleTopAlloc, TypeOK
  <2>3. out' \in [Outputs -> OutputPort] /\ (\A o \in Outputs : Ready(out[o]))'
    BY <2>2 DEF SoundOutput
  <2>4. pc' = "idle" /\ pool' # 0
    BY <1>3 DEF HandleTopAlloc, Receive, handler, TypeOK
  <2> QED BY <1>3, <2>1, <2>3, <2>4 DEF HandleTopAlloc, Answer, TypeOK, handler, aux
<1>4. ASSUME HandleTopActive PROVE Typed'
  BY <1>4, Received DEF HandleTopActive, TakeAndKick, Answer, TypeOK, AllReady,
                        handler, neighbours, aux
<1>5. ASSUME HandleTopInert PROVE Typed'
  <2>1. mailbox' \in Seq(Message) /\ pc' = "idle"
    BY <1>5, Received DEF HandleTopInert, Take, Receive, handler
  <2>2. MarkDone(in, out) /\ in \in [Inputs -> InputPort]
        /\ out \in [Outputs -> SoundOutput]
    BY <1>5, TypedPorts DEF HandleTopInert, Ports
  <2>3. /\ (pool = 0 => \A o \in Outputs : ~out[o].ready)'
        /\ Ports' /\ block_state' \in {"INIT", "LIVE", "DONE"}
        /\ holds_token' \in BOOLEAN /\ pool' \in Nat
        /\ away' \in [Outputs -> Nat] /\ missed' \subseteq {"copy", "commit"}
        /\ failed' \subseteq Inputs
    BY <2>2, TypedMarkDone
  <2>4. /\ in' \in [Inputs -> InputPort] /\ out' \in [Outputs -> OutputPort]
        /\ (\A o \in Outputs : Ready(out[o]))'
    BY <2>3 DEF Ports, SoundOutput
  <2> HIDE DEF Typed
  <2>5. TypeOK'
    BY <1>5, <2>1, <2>3, <2>4 DEF HandleTopInert, Answer, TypeOK, handler, Typed
  <2> QED BY <2>1, <2>3, <2>4, <2>5 DEF Typed
<1>6. ASSUME NEW t \in {"Callable", "GetStats"}, HandleCall(t) PROVE Typed'
  BY <1>6, Received DEF HandleCall, TakeAndKick, Answer, TypeOK, AllReady,
                        handler, block, neighbours, aux
<1>7. ASSUME HandleSelfKick PROVE Typed'
  BY <1>7, Received DEF HandleSelfKick, Take, ThenMain, TypeOK, neighbours,
                        threads
<1> QED BY <1>1, <1>2, <1>3, <1>4, <1>5, <1>6, <1>7

\* The handlers of one input or one output keep the types.
LEMMA TypedPortHandlers ==
    ASSUME Typed
    PROVE  /\ HandleInputBuffer => Typed'
           /\ HandleInputMsg => Typed'
           /\ HandleInputCheck => Typed'
           /\ HandleInputUpdate => Typed'
           /\ HandleOutputBuffer => Typed'
           /\ HandleOutputCheck => Typed'
           /\ HandleOutputUpdate => Typed'
<1> USE DEF Typed
<1>1. ASSUME HandleInputBuffer PROVE Typed'
  <2>1. /\ mailbox' \in Seq(Message) /\ Tail(mailbox) \in Seq(Message)
        /\ Msg.num \in Nat /\ pc = "idle"
    BY <1>1, Received DEF HandleInputBuffer, Take, Receive
  <2>2. CASE Dropped
    BY <1>1, <2>1, <2>2 DEF HandleInputBuffer, Dropped, Take, TypeOK, AllReady,
                            handler, block, neighbours, threads, aux
  <2>3. CASE block_state # "DONE" /\ ~Dropped
    <3>1. PICK b \in BOOLEAN :
              in' = [in EXCEPT ![Msg.port] =
                        UpdateInputAvail(Push(@, Msg.num, b))]
      BY <1>1, <2>3 DEF HandleInputBuffer
    <3>2. in' \in [Inputs -> InputPort]
      BY <2>1, <3>1, InputOps DEF TypeOK
    <3> QED BY <1>1, <2>1, <2>3, <3>2 DEF HandleInputBuffer, ThenMain, TypeOK,
                                        neighbours, threads
  <2> QED BY <1>1, <2>2, <2>3 DEF HandleInputBuffer
<1>2. ASSUME HandleInputMsg PROVE Typed'
  <2>1. mailbox' \in Seq(Message) /\ pc = "idle"
    BY <1>2, Received DEF HandleInputMsg, Take, Receive
  <2>2. CASE Dropped
    BY <1>2, <2>1, <2>2 DEF HandleInputMsg, Dropped, Take, TypeOK, AllReady,
                            handler, block, neighbours, threads, aux
  <2>3. CASE block_state # "DONE" /\ ~Dropped
    <3>1. in' = [in EXCEPT ![Msg.port] =
                    UpdateInputAvail(PushMsg(@))]
      BY <1>2, <2>3 DEF HandleInputMsg
    <3>2. \A p \in InputPort : PushMsg(p) \in InputPort
      BY DEF InputPort, PushMsg
    <3>4. \A p \in InputPort :
              UpdateInputAvail(PushMsg(p)) \in InputPort
      BY <3>2, InputOps
    <3>3. in' \in [Inputs -> InputPort]
      BY <3>1, <3>4 DEF TypeOK
    <3> QED BY <1>2, <2>1, <2>3, <3>3 DEF HandleInputMsg, ThenMain, TypeOK,
                                        neighbours, threads
  <2> QED BY <1>2, <2>2, <2>3 DEF HandleInputMsg
<1>3. ASSUME HandleInputCheck PROVE Typed'
  <2>1. mailbox' \in Seq(Message) /\ pc' = "main" /\ Msg.port \in Inputs
    BY <1>3, Received DEF HandleInputCheck, Take, InputMsgs
  <2>2. in' \in [Inputs -> InputPort]
    <3> DEFINE b == upstream[Msg.port] = "absent"
    <3>1. \A p \in InputPort : [p EXCEPT !.done = b] \in InputPort
      BY DEF InputPort
    <3>2. in' = [in EXCEPT ![Msg.port] = [in[Msg.port] EXCEPT !.done = b]]
      BY <1>3 DEF HandleInputCheck
    <3>3. [in[Msg.port] EXCEPT !.done = b] \in InputPort
      BY <2>1, <3>1 DEF TypeOK
    <3> HIDE DEF b
    <3> QED BY <3>2, <3>3 DEF TypeOK
  <2> QED BY <1>3, <2>1, <2>2 DEF HandleInputCheck, TypeOK, neighbours,
                                  threads, aux
<1>4. ASSUME HandleInputUpdate PROVE Typed'
  <2>1. /\ mailbox' \in Seq(Message) /\ pc = "idle" /\ Msg.port \in Inputs
        /\ missed' \subseteq {"copy", "commit"}
    BY <1>4, Received DEF HandleInputUpdate, Take, Receive, InputMsgs,
                          CommitMissed, TypeOK
  <2>2. in' \in [Inputs -> InputPort]
    <3> DEFINE p == [in[Msg.port] EXCEPT !.reserve = in[Msg.port].config]
    <3>1. p \in InputPort
      <4>1. \A q \in InputPort : [q EXCEPT !.reserve = q.config] \in InputPort
        BY DEF InputPort
      <4> QED BY <2>1, <4>1 DEF TypeOK
    <3>2. (p.length >= p.reserve) \in BOOLEAN
      <4>1. p.length \in Nat /\ p.reserve \in InReserves
        BY <3>1 DEF InputPort
      <4> QED BY <4>1, Constants
    <3>3. [p EXCEPT !.ready = p.length >= p.reserve] \in InputPort
      BY <3>1, <3>2 DEF InputPort
    <3>4. in' = [in EXCEPT ![Msg.port] = UpdateInputAvail(
                              [p EXCEPT !.ready = p.length >= p.reserve])]
      BY <1>4 DEF HandleInputUpdate
    <3> HIDE DEF p
    <3> QED BY <3>3, <3>4, InputOps DEF TypeOK
  <2> QED BY <1>4, <2>1, <2>2 DEF HandleInputUpdate, TypeOK, handler,
                                  neighbours, threads
<1>5. ASSUME HandleOutputBuffer PROVE Typed'
  <2>1. /\ Tail(mailbox) \in Seq(Message) /\ Msg.port \in Outputs
        /\ Append(Tail(mailbox), Msg) \in Seq(Message) /\ pc = "idle"
    BY <1>5, Received DEF HandleOutputBuffer, Receive, OutputMsgs
  <2>2. CASE Dropped
    <3>1. mailbox' \in Seq(Message)
      BY <1>5, <2>1 DEF HandleOutputBuffer, Take
    <3> QED BY <2>2, <3>1 DEF Dropped, TypeOK, AllReady, handler, block,
                              neighbours, threads, aux
  <2>3. CASE block_state # "DONE" /\ ~Dropped
    <3>1. out' \in [Outputs -> SoundOutput]
      <4>1. \A p \in OutputPort : PushOutput(p) \in OutputPort
        BY DEF OutputPort, PushOutput
      <4>2. \A p \in OutputPort :
                UpdateOutput(IF Msg.num = pool THEN PushOutput(p)
                             ELSE p) \in SoundOutput
        BY <4>1, OutputOps
      <4>3. out[Msg.port] \in SoundOutput /\ out[Msg.port] \in OutputPort
        BY <2>1, TypedPorts DEF Ports, SoundOutput
      <4>4. out'[Msg.port] \in SoundOutput
        <5>1. out'[Msg.port] =
                 IF pool = 0 THEN out[Msg.port]
                 ELSE UpdateOutput(IF Msg.num = pool
                                   THEN PushOutput(out[Msg.port])
                                   ELSE out[Msg.port])
          BY <1>5, <2>1, <2>3 DEF HandleOutputBuffer, TypeOK
        <5> QED BY <4>2, <4>3, <5>1
      <4>5. /\ DOMAIN out' = Outputs
            /\ out' = [out EXCEPT ![Msg.port] = out'[Msg.port]]
        BY <1>5, <2>1, <2>3 DEF HandleOutputBuffer, TypeOK
      <4> QED BY <2>1, <4>4, <4>5, TypedPorts DEF Ports
    <3>2. out' \in [Outputs -> OutputPort] /\ (\A o \in Outputs : Ready(out[o]))'
      BY <3>1 DEF SoundOutput
    <3>3. (pool = 0 => \A o \in Outputs : ~out[o].ready)'
      BY <1>5, <2>1, <2>3 DEF HandleOutputBuffer, ThenMain, TypeOK
    <3> QED BY <1>5, <2>1, <2>3, <3>2, <3>3
            DEF HandleOutputBuffer, ThenMain, Take, TypeOK, neighbours, threads
  <2> QED BY <1>5, <2>2, <2>3 DEF HandleOutputBuffer
<1>6. ASSUME HandleOutputCheck PROVE Typed'
  <2> DEFINE checked == [out EXCEPT ![Msg.port].done = Msg.port \notin downstream]
  <2>1. mailbox' \in Seq(Message) /\ pc' = "idle" /\ Msg.port \in Outputs
    BY <1>6, Received DEF HandleOutputCheck, Take, Receive, handler, OutputMsgs
  <2>2. checked \in [Outputs -> SoundOutput]
    <3>1. \A p \in SoundOutput, b \in BOOLEAN : [p EXCEPT !.done = b] \in SoundOutput
      BY DEF SoundOutput, OutputPort, Ready
    <3>2. (Msg.port \notin downstream) \in BOOLEAN
      OBVIOUS
    <3> QED BY <2>1, <3>1, <3>2, TypedPorts DEF Ports
  <2>9. pool = 0 => \A o \in Outputs : ~checked[o].ready
    <3>1. \A b : \A p \in OutputPort : [p EXCEPT !.done = b].ready = p.ready
      BY DEF OutputPort
    <3> QED BY <2>1, <3>1 DEF TypeOK
  <2>3. /\ (pool = 0 => \A o \in Outputs : ~out[o].ready)'
        /\ in' \in [Inputs -> InputPort] /\ out' \in [Outputs -> SoundOutput]
        /\ block_state' \in {"INIT", "LIVE", "DONE"}
        /\ holds_token' \in BOOLEAN /\ pool' \in Nat
        /\ away' \in [Outputs -> Nat] /\ missed' \subseteq {"copy", "commit"}
        /\ failed' \subseteq Inputs
    <3>1. CASE \A o \in Outputs : checked[o].done
      <4>1. MarkDone(in, checked)
        BY <1>6, <3>1 DEF HandleOutputCheck
      <4> HIDE DEF checked
      <4> QED BY <4>1, <2>2, <2>9, TypedMarkDone, TypedPorts DEF Ports
    <3>2. CASE ~ \A o \in Outputs : checked[o].done
      <4>1. out' = checked /\ UNCHANGED <<block_state, holds_token, in, pool,
                                          away, aux>>
        BY <1>6, <3>2 DEF HandleOutputCheck
      <4> HIDE DEF checked
      <4> QED BY <4>1, <2>2, <2>9 DEF TypeOK, aux
    <3> QED BY <3>1, <3>2
  <2>4. out' \in [Outputs -> OutputPort] /\ (\A o \in Outputs : Ready(out[o]))'
    BY <2>3 DEF SoundOutput
  <2> HIDE DEF checked
  <2> QED BY <1>6, <2>1, <2>3, <2>4 DEF HandleOutputCheck, TypeOK, handler,
                                        threads
<1>7. ASSUME HandleOutputUpdate PROVE Typed'
  <2>1. /\ mailbox' \in Seq(Message) /\ pc = "idle" /\ Msg.port \in Outputs
        /\ missed' \subseteq {"copy", "commit"}
    BY <1>7, Received DEF HandleOutputUpdate, Take, Receive, OutputMsgs,
                          CommitMissed, TypeOK
  <2> DEFINE p == [out[Msg.port] EXCEPT !.reserve = out[Msg.port].config]
  <2>2. p \in OutputPort /\ p.ready = out[Msg.port].ready
    <3>1. \A q \in OutputPort :
              /\ [q EXCEPT !.reserve = q.config] \in OutputPort
              /\ [q EXCEPT !.reserve = q.config].ready = q.ready
      BY DEF OutputPort
    <3> QED BY <2>1, <3>1 DEF TypeOK
  <2>3. out' = [out EXCEPT ![Msg.port] = IF pool = 0 THEN p ELSE UpdateOutput(p)]
        /\ pool' = pool
    BY <1>7 DEF HandleOutputUpdate
  <2> HIDE DEF p
  <2>4. pool # 0 => out' \in [Outputs -> SoundOutput]
    BY <2>1, <2>2, <2>3, OutputOps, TypedPorts DEF Ports
  <2>5. pool = 0 => /\ out' \in [Outputs -> OutputPort]
                    /\ \A o \in Outputs : ~out'[o].ready
    BY <2>1, <2>2, <2>3 DEF TypeOK
  <2>6. /\ out' \in [Outputs -> OutputPort] /\ (\A o \in Outputs : Ready(out[o]))'
        /\ (pool = 0 => \A o \in Outputs : ~out[o].ready)'
    BY <2>3, <2>4, <2>5 DEF SoundOutput, Ready
  <2> QED BY <1>7, <2>1, <2>6 DEF HandleOutputUpdate, TypeOK, handler,
                                  neighbours, threads
<1> QED BY <1>1, <1>2, <1>3, <1>4, <1>5, <1>6, <1>7

\* At work() every port is ready, so every output has a buffer.
LEMMA AtWork ==
    ASSUME Typed, pc = "work"
    PROVE  /\ \A i \in Inputs : in[i].ready
           /\ \A o \in Outputs : out[o].ready /\ out[o].count > 0
           /\ pool # 0 \/ Outputs = {}
  BY DEF Typed, AllReady, Ready

\* task_main, work() and the end of handle_input_check keep the types.
LEMMA TypedWork ==
    ASSUME Typed
    PROVE  /\ WorkRefused => Typed'
           /\ WorkStarts => Typed'
           /\ WorkReturns => Typed'
           /\ WorkMarksDone => Typed'
           /\ \A i \in Inputs : WorkFailsInput(i) => Typed'
           /\ \A i \in Inputs : CheckInputDone(i) => Typed'
           /\ \A o \in Outputs, n \in 0 .. OutSize : WorkFailsOutput(o, n) => Typed'
<1>1. ASSUME WorkRefused PROVE Typed'
  <2>1. pc' \in {"idle", "check"} /\ missed' \subseteq {"copy", "commit"}
    BY <1>1 DEF WorkRefused, AfterMain, Refusal
  <2> QED BY <1>1, <2>1 DEF WorkRefused, Typed, TypeOK, block, neighbours, threads
<1>2. ASSUME WorkStarts PROVE Typed'
  <2>1. /\ in' \in [Inputs -> InputPort]
        /\ \A i \in Inputs : in'[i].ready = in[i].ready
    BY <1>2, InputOps DEF WorkStarts, Typed, TypeOK
  <2>2. (pc = "work" => AllReady)'
    BY <1>2, <2>1 DEF WorkStarts, IsWorkAllowed, Workable, AllReady
  <2>3. pc' \in {"work", "crashed"} /\ missed' = {}
        /\ thrown' \in {"none", "front_below_reserve", "input_maximal",
                        "output_partial", "output_empty"}
    BY <1>2 DEF WorkStarts, Typed, TypeOK
  <2> QED BY <1>2, <2>1, <2>2, <2>3 DEF WorkStarts, Typed, TypeOK, neighbours,
                                        threads
<1>3. ASSUME WorkReturns PROVE Typed'
  <2>1. PICK eaten \in [Inputs -> 0 .. MaxFeed * MaxChunk],
             popped \in [Inputs -> 0 .. MaxFeed],
             made \in [Outputs -> 0 .. OutSize],
             unstitched \in [Inputs -> BOOLEAN] :
             /\ \A i \in Inputs : popped[i] <= in[i].msgs /\ eaten[i] <= in[i].length
             /\ \A o \in Outputs : made[o] <= OutSize - out[o].offset
             /\ PostWork(in, out, eaten, popped, unstitched, made, 0)
    BY <1>3 DEF WorkReturns
  <2>2. /\ eaten \in [Inputs -> Nat] /\ popped \in [Inputs -> Nat]
        /\ made \in [Outputs -> Nat]
    OBVIOUS
  <2>3. failed' \subseteq Inputs /\ pc = "work"
    BY <1>3 DEF WorkReturns, Typed, TypeOK
  <2> QED BY <2>1, <2>2, <2>3, AtWork, TypedPorts, TypedPostWork DEF Ports
<1>4. ASSUME WorkMarksDone PROVE Typed'
  <2>1. in' \in [Inputs -> InputPort]
    BY <1>4, InputOps DEF WorkMarksDone, Typed, TypeOK
  <2>2. /\ out' \in [Outputs -> SoundOutput]
        /\ \A o \in Outputs : ~out'[o].ready
    <3>1. \A p \in OutputPort : ~FlushOutput(p).ready
      BY DEF FlushOutput, NewQueue, OutputPort
    <3> QED BY <1>4, <3>1, OutputOps DEF WorkMarksDone, Typed, TypeOK
  <2>3. out' \in [Outputs -> OutputPort] /\ (\A o \in Outputs : Ready(out[o]))'
    BY <2>2 DEF SoundOutput
  <2>4. holds_token' \in BOOLEAN
    BY <1>4, Zenon DEF WorkMarksDone
  <2>5. pc' \in {"idle", "check"}
    BY <1>4 DEF WorkMarksDone, AfterMain
  <2>6. TypeOK'
    BY <1>4, <2>1, <2>3, <2>4, <2>5 DEF WorkMarksDone, Typed, TypeOK, threads
  <2> QED BY <2>2, <2>3, <2>5, <2>6 DEF Typed
<1>5. ASSUME NEW i \in Inputs, WorkFailsInput(i) PROVE Typed'
  <2> USE DEF None, Never
  <2>1. pc = "work" /\ in \in [Inputs -> InputPort]
        /\ out \in [Outputs -> SoundOutput]
    BY <1>5, TypedPorts DEF WorkFailsInput, Ports
  <2>2. ASSUME NEW p \in InputPort, NEW kicks \in Nat,
               PostWork([in EXCEPT ![i] = p], out, None(Inputs), None(Inputs),
                        Never(Inputs), None(Outputs), kicks),
               failed' \subseteq Inputs
        PROVE  Typed'
    <3> DEFINE ins == [in EXCEPT ![i] = p]
    <3>1. ins \in [Inputs -> InputPort]
      BY <2>1
    <3>2. /\ \A j \in Inputs : /\ None(Inputs)[j] <= ins[j].length
                               /\ None(Inputs)[j] <= ins[j].msgs
          /\ \A o \in Outputs : /\ None(Outputs)[o] <= OutSize - out[o].offset
                                /\ ~(None(Outputs)[o] > 0)
      BY <2>1, <3>1, Constants DEF InputPort, SoundOutput, OutputPort
    <3>3. /\ None(Inputs) \in [Inputs -> Nat] /\ None(Outputs) \in [Outputs -> Nat]
          /\ Never(Inputs) \in [Inputs -> BOOLEAN]
      OBVIOUS
    <3> HIDE DEF ins, None, Never
    <3> QED BY <2>1, <2>2, <3>1, <3>2, <3>3, AtWork, TypedPostWork DEF ins
  <2> HIDE DEF None, Never
  <2>3. CASE ~IsAccumulated(in[i])
    <3>1. PostWork([in EXCEPT ![i] = Accumulate(in[i])], out, None(Inputs),
                   None(Inputs), Never(Inputs), None(Outputs),
                   IF IsWorkAllowed THEN 1 ELSE 0)
          /\ failed' = failed
      BY <1>5, <2>3 DEF WorkFailsInput
    <3>2. Accumulate(in[i]) \in InputPort
      BY <2>1, InputOps
    <3> QED BY <2>2, <3>1, <3>2 DEF Typed, TypeOK
  <2>4. CASE Throw("input_maximal")
    BY <2>4 DEF Throw, Typed, TypeOK, block, neighbours, threads, aux
  <2>5. CASE IsAccumulated(in[i]) /\ ~Throw("input_maximal")
    <3>1. /\ PostWork([in EXCEPT ![i].ready = FALSE], out, None(Inputs),
                      None(Inputs), Never(Inputs), None(Outputs), 0)
          /\ failed' = IF in[i].msgs = 0 THEN failed \cup {i} ELSE failed
      BY <1>5, <2>5 DEF WorkFailsInput
    <3>2. [in[i] EXCEPT !.ready = FALSE] \in InputPort
      <4>1. \A p \in InputPort : [p EXCEPT !.ready = FALSE] \in InputPort
        BY DEF InputPort
      <4> QED BY <2>1, <4>1
    <3> QED BY <2>2, <3>1, <3>2 DEF Typed, TypeOK
  <2> QED BY <2>3, <2>4, <2>5
<1>6. ASSUME NEW i \in Inputs, CheckInputDone(i) PROVE Typed'
  <2>1. CASE MarkDone(in, out)
    <3>1. /\ (pool = 0 => \A o \in Outputs : ~out[o].ready)'
          /\ Ports' /\ block_state' \in {"INIT", "LIVE", "DONE"}
          /\ holds_token' \in BOOLEAN /\ pool' \in Nat
          /\ away' \in [Outputs -> Nat] /\ missed' \subseteq {"copy", "commit"}
          /\ failed' \subseteq Inputs
      BY <2>1, TypedPorts, TypedMarkDone DEF Ports, Typed
    <3>2. /\ in' \in [Inputs -> InputPort] /\ out' \in [Outputs -> OutputPort]
          /\ (\A o \in Outputs : Ready(out[o]))'
      BY <3>1 DEF Ports, SoundOutput
    <3>3. TypeOK' /\ pc' = "idle"
      BY <1>6, <3>1, <3>2 DEF CheckInputDone, Typed, TypeOK, threads
    <3> QED BY <3>1, <3>2, <3>3 DEF Typed
  <2>2. CASE UNCHANGED <<block_state, holds_token, in, out, pool, away, aux>>
    BY <1>6, <2>2 DEF CheckInputDone, Typed, TypeOK, threads, aux
  <2> QED BY <1>6, <2>1, <2>2 DEF CheckInputDone
<1>7. ASSUME NEW o \in Outputs, NEW n \in 0 .. OutSize, WorkFailsOutput(o, n)
      PROVE  Typed'
  <2>1. pc = "work" /\ n <= OutSize - out[o].offset /\ n \in Nat
        /\ in \in [Inputs -> InputPort] /\ out \in [Outputs -> SoundOutput]
    BY <1>7, TypedPorts, Constants DEF WorkFailsOutput, Ports
  <2>2. CASE \E what \in {"output_partial", "output_empty"} : Throw(what)
    BY <2>2 DEF Throw, Typed, TypeOK, block, neighbours, threads, aux
  <2>3. CASE n < OutMaximum
    <3> DEFINE outs == [out EXCEPT ![o].ready = FALSE]
               made == [None(Outputs) EXCEPT ![o] = n]
    <3>1. /\ outs \in [Outputs -> SoundOutput]
          /\ \A x \in Outputs : /\ outs[x].offset = out[x].offset
                                /\ outs[x].count = out[x].count
      <4>1. \A p \in SoundOutput : /\ [p EXCEPT !.ready = FALSE] \in SoundOutput
                                   /\ [p EXCEPT !.ready = FALSE].offset = p.offset
                                   /\ [p EXCEPT !.ready = FALSE].count = p.count
        BY DEF SoundOutput, OutputPort, Ready
      <4> QED BY <2>1, <4>1
    <3>2. /\ made \in [Outputs -> Nat]
          /\ \A x \in Outputs : /\ made[x] <= OutSize - outs[x].offset
                                /\ made[x] > 0 => outs[x].count > 0
      <4>1. \A x \in Outputs : out[x].offset \in 0 .. OutSize
        BY <2>1 DEF SoundOutput, OutputPort
      <4> QED BY <2>1, <3>1, <4>1, AtWork, Constants DEF None
    <3>3. /\ None(Inputs) \in [Inputs -> Nat]
          /\ Never(Inputs) \in [Inputs -> BOOLEAN]
          /\ \A j \in Inputs : /\ None(Inputs)[j] <= in[j].length
                               /\ None(Inputs)[j] <= in[j].msgs
      BY <2>1 DEF None, Never, InputPort
    <3>4. /\ PostWork(in, outs, None(Inputs), None(Inputs), Never(Inputs), made, 0)
          /\ failed' = failed
      BY <1>7, <2>1, <2>3, BlockActorAssumption DEF WorkFailsOutput
    <3>5. failed' \subseteq Inputs
      BY <3>4 DEF Typed, TypeOK
    <3>6. pool # 0 \/ Outputs = {}
      BY <2>1, AtWork
    <3> HIDE DEF outs, made
    <3> QED BY <2>1, <3>1, <3>2, <3>3, <3>4, <3>5, <3>6, TypedPostWork
  <2> QED BY <1>7, <2>1, <2>2, <2>3, BlockActorAssumption DEF WorkFailsOutput
<1> QED BY <1>1, <1>2, <1>3, <1>4, <1>5, <1>6, <1>7

\* Typed is inductive.
LEMMA TypedNext == Typed /\ [Next]_vars => Typed'
<1>1. ASSUME Typed, UNCHANGED vars PROVE Typed'
  BY <1>1 DEF Typed, TypeOK, AllReady, vars, handler, block, neighbours,
              threads, aux
<1>2. ASSUME Typed, Actor PROVE Typed'
  BY <1>2, TypedTopHandlers, TypedPortHandlers, TypedWork DEF Actor
<1> QED BY <1>1, <1>2, TypedEnvironment DEF Next

\* Every reachable state is typed, and sound in the bits of its outputs.
LEMMA TypedAlways == Spec => []Typed
  BY TypedInit, TypedNext, PTL DEF Spec

\* The state of the block, its mailbox and its neighbours is always well
\* formed: counts never become negative, buffers are never overrun.
THEOREM TypeCorrect == Spec => []TypeOK
<1>1. Typed => TypeOK
  BY DEF Typed
<1> QED BY <1>1, TypedAlways, PTL

-----------------------------------------------------------------------------
(* Messages that carry a copy of prio_token.  While one of them is queued  *)
(* work() is refused, so each must lead back to task_main: its handler     *)
(* kicks, or start() still has TopActive to send.                          *)

SetupMsgs == {"TopThread", "TopToken", "TopConfig", "TopAlloc"}
KickMsgs  == {"TopActive", "TopInert", "Callable", "GetStats"}

Mail(mb, w, ts) ==
    /\ \A k \in DOMAIN mb :
          /\ mb[k].from # Nobody => mb[k].type \in SetupMsgs \cup KickMsgs
          /\ mb[k].type \in SetupMsgs => mb[k].from = Top /\ ts \in 1 .. 4
          /\ mb[k].from = Top => Top \in w
    /\ \A j, k \in DOMAIN mb : mb[j].from = Top /\ mb[k].from = Top => j = k

Plain(m) == m.from = Nobody /\ m.type \notin SetupMsgs

\* The sender of a plain message is not a thread.
LEMMA NobodyIsNotTop == Nobody # Top /\ Nobody \notin Senders /\ Top \in Senders
  BY BlockActorAssumption DEF Senders

\* Posting a message that has no copy of prio_token.
LEMMA MailAppend ==
    ASSUME NEW mb \in Seq(Message), NEW m, NEW w, NEW ts,
           Mail(mb, w, ts), Plain(m)
    PROVE  Mail(Append(mb, m), w, ts)
<1>1. /\ DOMAIN Append(mb, m) = 1 .. Len(mb) + 1 /\ DOMAIN mb = 1 .. Len(mb)
      /\ \A k \in 1 .. Len(mb) : Append(mb, m)[k] = mb[k]
      /\ Append(mb, m)[Len(mb) + 1] = m /\ Len(mb) \in Nat
  OBVIOUS
<1>2. \A k \in 1 .. Len(mb) + 1 : k \in 1 .. Len(mb) \/ k = Len(mb) + 1
  BY <1>1
<1> QED BY <1>1, <1>2, NobodyIsNotTop DEF Mail, Plain

\* Posting several messages that have no copy of prio_token.
LEMMA MailConcat ==
    ASSUME NEW mb \in Seq(Message), NEW s \in Seq(Message), NEW w, NEW ts,
           Mail(mb, w, ts), \A k \in DOMAIN s : Plain(s[k])
    PROVE  Mail(mb \o s, w, ts)
<1>1. /\ DOMAIN (mb \o s) = 1 .. Len(mb) + Len(s) /\ DOMAIN mb = 1 .. Len(mb)
      /\ DOMAIN s = 1 .. Len(s) /\ Len(mb) \in Nat /\ Len(s) \in Nat
  OBVIOUS
<1>2. ASSUME NEW k \in DOMAIN (mb \o s)
      PROVE  \/ k \in DOMAIN mb /\ (mb \o s)[k] = mb[k]
             \/ Plain((mb \o s)[k])
  <2>1. CASE k <= Len(mb)
    BY <1>1, <2>1
  <2>2. CASE k > Len(mb)
    <3>1. k - Len(mb) \in DOMAIN s /\ (mb \o s)[k] = s[k - Len(mb)]
      BY <1>1, <2>2
    <3> QED BY <3>1
  <2> QED BY <1>1, <2>1, <2>2
<1> QED BY <1>2, NobodyIsNotTop DEF Mail, Plain

\* Taking the first message, answered or not.
LEMMA MailTail ==
    ASSUME NEW mb \in Seq(Message), mb # <<>>, NEW w, NEW ts, Mail(mb, w, ts)
    PROVE  /\ Mail(Tail(mb), w \ {Head(mb).from}, ts)
           /\ Mail(Tail(mb), w, ts)
<1>1. /\ DOMAIN mb = 1 .. Len(mb) /\ Len(mb) \in Nat \ {0}
      /\ DOMAIN Tail(mb) = 1 .. Len(mb) - 1
      /\ \A k \in 1 .. Len(mb) - 1 : Tail(mb)[k] = mb[k + 1]
      /\ Head(mb) = mb[1]
  OBVIOUS
<1>2. \A k \in DOMAIN Tail(mb) : k + 1 \in DOMAIN mb /\ Tail(mb)[k] = mb[k + 1]
  BY <1>1
<1>3. \A k \in DOMAIN Tail(mb) : Tail(mb)[k].from = Top => Head(mb).from # Top
  <2>1. \A k \in DOMAIN Tail(mb) : k + 1 # 1 /\ 1 \in DOMAIN mb
    BY <1>1
  <2> QED BY <1>1, <1>2, <2>1 DEF Mail
<1>4. \A j, k \in DOMAIN Tail(mb) : j + 1 = k + 1 => j = k
  BY <1>1
<1> QED BY <1>2, <1>3, <1>4 DEF Mail

\* While Top does not wait no message of start() is queued.
LEMMA MailWithoutTop ==
    ASSUME NEW mb, NEW w, NEW ts, NEW u, Mail(mb, w, ts), Top \notin w
    PROVE  /\ Mail(mb, w, u)
           /\ \A k \in DOMAIN mb : mb[k].from # Top
  BY DEF Mail

\* A thread posts a message with a copy of prio_token and waits for its answer.
LEMMA MailAsk ==
    ASSUME NEW mb \in Seq(Message), NEW w, NEW ts, NEW u, Mail(mb, w, ts),
           NEW s \in Senders, s \notin w, NEW t \in SetupMsgs \cup KickMsgs,
           t \in SetupMsgs => s = Top /\ u \in 1 .. 4,
           s = Top \/ u = ts
    PROVE  Mail(Append(mb, PrioMsg(t, s)), w \cup {s}, u)
<1> DEFINE m == PrioMsg(t, s)
<1>1. /\ DOMAIN Append(mb, m) = 1 .. Len(mb) + 1 /\ DOMAIN mb = 1 .. Len(mb)
      /\ \A k \in 1 .. Len(mb) : Append(mb, m)[k] = mb[k]
      /\ Append(mb, m)[Len(mb) + 1] = m /\ Len(mb) \in Nat
  OBVIOUS
<1>2. \A k \in 1 .. Len(mb) + 1 : k \in 1 .. Len(mb) \/ k = Len(mb) + 1
  BY <1>1
<1>3. m.type = t /\ m.from = s
  BY DEF PrioMsg
<1>4. s = Top => \A k \in DOMAIN mb : mb[k].from # Top
  BY MailWithoutTop
<1>5. Mail(mb, w, u)
  BY MailWithoutTop
<1> DEFINE a == Append(mb, m)
<1> HIDE DEF m
<1>6. ASSUME NEW k \in DOMAIN a
      PROVE  /\ a[k].from # Nobody => a[k].type \in SetupMsgs \cup KickMsgs
             /\ a[k].type \in SetupMsgs => a[k].from = Top /\ u \in 1 .. 4
             /\ a[k].from = Top => Top \in w \cup {s}
  <2>1. CASE k \in DOMAIN mb
    BY <1>1, <1>5, <2>1 DEF Mail
  <2>2. CASE k = Len(mb) + 1
    BY <1>1, <1>3, <2>2
  <2> QED BY <1>1, <1>2, <2>1, <2>2
<1>7. ASSUME NEW j \in DOMAIN a, NEW k \in DOMAIN a,
             a[j].from = Top, a[k].from = Top
      PROVE  j = k
  <2>1. CASE s = Top
    BY <1>1, <1>2, <1>4, <1>7, <2>1
  <2>2. CASE s # Top
    <3>1. j \in DOMAIN mb /\ k \in DOMAIN mb
      BY <1>1, <1>2, <1>3, <1>7, <2>2
    <3> QED BY <1>1, <1>5, <1>7, <3>1 DEF Mail
  <2> QED BY <2>1, <2>2
<1> HIDE DEF a
<1>8. Mail(a, w \cup {s}, u)
  BY <1>6, <1>7 DEF Mail
<1> QED BY <1>8 DEF a, m

MailOK == Mail(mailbox, waiting, top_step)

\* The messages of neighbours, commit_config and self kicks have no copy.
LEMMA PlainMessages ==
    /\ \A t, p, n : t \notin SetupMsgs => Plain(PortMsg(t, p, n))
    /\ Plain(SelfKick)
    /\ \A t : t \notin SetupMsgs => Plain(PrioMsg(t, Nobody))
  BY DEF Plain, PortMsg, SelfKick, PrioMsg, SetupMsgs

\* Neighbours and threads keep MailOK.
LEMMA MailEnvironment == ASSUME Typed, MailOK, Environment PROVE MailOK'
<1> USE DEF MailOK
<1> mailbox \in Seq(Message)
  BY DEF Typed, TypeOK
<1>1. ASSUME NEW m, Post(m), Plain(m), UNCHANGED <<waiting, top_step>>
      PROVE  MailOK'
  BY <1>1, MailAppend DEF Post
<1>2. ASSUME NEW s \in Senders, NEW t \in KickMsgs, Ask(s, t), UNCHANGED top_step
      PROVE  MailOK'
  BY <1>2, MailAsk DEF Ask, Post, KickMsgs, SetupMsgs
<1>3. ASSUME UNCHANGED <<mailbox, waiting, top_step>> PROVE MailOK'
  BY <1>3
<1>4. ASSUME NEW i \in Inputs,
             \/ UpstreamActive(i) \/ UpstreamSends(i)
             \/ UpstreamPostsMsg(i) \/ UpstreamDone(i)
      PROVE  MailOK'
  <2>1. CASE UpstreamActive(i)
    BY <1>3, <2>1 DEF UpstreamActive, threads
  <2>2. CASE UpstreamSends(i)
    BY <1>1, <2>2, PlainMessages DEF UpstreamSends, SetupMsgs
  <2>3. CASE UpstreamPostsMsg(i)
    BY <1>1, <2>3, PlainMessages DEF UpstreamPostsMsg, SetupMsgs
  <2>4. CASE UpstreamDone(i)
    BY <1>1, <2>4, PlainMessages DEF UpstreamDone, SetupMsgs, threads
  <2> QED BY <1>4, <2>1, <2>2, <2>3, <2>4
<1>5. ASSUME NEW o \in Outputs, DownstreamReturns(o) \/ DownstreamDone(o)
      PROVE  MailOK'
  <2>1. CASE DownstreamReturns(o)
    BY <1>1, <2>1, PlainMessages DEF DownstreamReturns, SetupMsgs, threads
  <2>2. CASE DownstreamDone(o)
    BY <1>1, <2>2, PlainMessages DEF DownstreamDone, SetupMsgs, threads
  <2> QED BY <1>5, <2>1, <2>2
<1>6. ASSUME NEW c \in Callers, CallProperty(c) PROVE MailOK'
  BY <1>2, <1>6 DEF CallProperty, Senders, KickMsgs
<1>7. ASSUME NEW c \in Monitors, QueryStats(c) PROVE MailOK'
  BY <1>2, <1>7 DEF QueryStats, Senders, KickMsgs
<1>8. ASSUME NEW s \in Senders, ReleaseCopy(s) PROVE MailOK'
  BY <1>3, <1>8 DEF ReleaseCopy
<1>9. ASSUME NEW ins, NEW outs, CommitConfig(ins, outs) PROVE MailOK'
  <2> DEFINE f == [k \in 1 .. NumInputs |-> PortMsg("InputUpdate", k - 1, 0)]
             g == [k \in 1 .. NumOutputs |-> PortMsg("OutputUpdate", k - 1, 0)]
  <2>1. f \in Seq(Message) /\ g \in Seq(Message)
    BY UpdateMailType, IndexedMail, Constants
  <2>2. /\ \A k \in DOMAIN f : Plain(f[k])
        /\ \A k \in DOMAIN g : Plain(g[k])
    BY PlainMessages DEF SetupMsgs
  <2>3. mailbox' = (mailbox \o f) \o g /\ UNCHANGED <<waiting, top_step>>
    BY <1>9 DEF CommitConfig
  <2> HIDE DEF f, g
  <2>4. Mail(mailbox \o f, waiting, top_step) /\ mailbox \o f \in Seq(Message)
    BY <2>1, <2>2, MailConcat
  <2> QED BY <2>1, <2>2, <2>3, <2>4, MailConcat
<1>10. CASE StartStep
  <2>1. /\ StartSeq[top_step + 1] \in SetupMsgs \cup KickMsgs
        /\ StartSeq[top_step + 1] \in SetupMsgs => top_step + 1 \in 1 .. 4
    BY <1>10 DEF StartStep, StartSeq, SetupMsgs, KickMsgs, Typed, TypeOK
  <2> QED BY <1>10, <2>1, MailAsk, NobodyIsNotTop DEF StartStep, Ask, Post
<1>11. CASE StartAgain
  BY <1>11, MailWithoutTop DEF StartAgain
<1>12. CASE Stop
  BY <1>2, <1>12, NobodyIsNotTop DEF Stop, KickMsgs
<1>13. CASE WaitPoll
  BY <1>1, <1>13, PlainMessages DEF WaitPoll, SetupMsgs, threads
<1> QED BY <1>4, <1>5, <1>6, <1>7, <1>8, <1>9, <1>10, <1>11, <1>12, <1>13
        DEF Environment

\* work() and what follows it append only plain messages.
LEMMA MailPostWork ==
    ASSUME Typed, MailOK, NEW ins, NEW outs, NEW eaten, NEW popped, NEW un,
           NEW made, NEW kicks \in Nat,
           PostWork(ins, outs, eaten, popped, un, made, kicks)
    PROVE  MailOK'
<1> DEFINE f == [k \in 1 .. kicks |-> SelfKick]
           g == IF TokenUnique /\ Workable' THEN <<SelfKick>> ELSE <<>>
<1>1. f \in Seq(Message) /\ g \in Seq(Message)
  BY Messages, IndexedMail
<1>2. (\A k \in DOMAIN f : Plain(f[k])) /\ (\A k \in DOMAIN g : Plain(g[k]))
  BY PlainMessages
<1>3. mailbox' = (mailbox \o f) \o g /\ UNCHANGED <<waiting, top_step>>
  BY DEF PostWork, threads
<1> HIDE DEF f, g
<1>4. mailbox \in Seq(Message) /\ Mail(mailbox, waiting, top_step)
  BY DEF Typed, TypeOK, MailOK
<1>5. Mail(mailbox \o f, waiting, top_step) /\ mailbox \o f \in Seq(Message)
  BY <1>1, <1>2, <1>4, MailConcat
<1> QED BY <1>1, <1>2, <1>3, <1>5, MailConcat DEF MailOK

\* The mailbox stays as MailOK says when its first message is handled.
LEMMA MailHandled ==
    ASSUME Typed, MailOK, NEW t, Receive(t), UNCHANGED top_step,
           waiting' = waiting \/ waiting' = waiting \ {Msg.from},
           \/ Take
           \/ TakeAndKick
           \/ mailbox' = Append(Tail(mailbox), Msg) /\ t = "OutputBuffer"
           \/ mailbox' = Tail(mailbox) \o PoolMail
    PROVE  MailOK'
<1>1. /\ mailbox \in Seq(Message) /\ mailbox # <<>> /\ Msg = mailbox[1]
      /\ 1 \in DOMAIN mailbox /\ Tail(mailbox) \in Seq(Message) /\ Msg.type = t
  BY DEF Typed, TypeOK, Receive, Msg
<1>2. Mail(Tail(mailbox), waiting', top_step')
  BY <1>1, MailTail DEF MailOK, Msg
<1>3. CASE Take
  BY <1>2, <1>3 DEF Take, MailOK
<1>4. CASE TakeAndKick
  BY <1>1, <1>2, <1>4, MailAppend, PlainMessages DEF TakeAndKick, MailOK
<1>5. CASE mailbox' = Append(Tail(mailbox), Msg) /\ t = "OutputBuffer"
  <2>1. Plain(Msg)
    BY <1>1, <1>5 DEF Plain, MailOK, Mail, SetupMsgs, KickMsgs
  <2> QED BY <1>1, <1>2, <1>5, <2>1, MailAppend DEF MailOK
<1>6. CASE mailbox' = Tail(mailbox) \o PoolMail
  <2>1. PoolMail \in Seq(Message) /\ DOMAIN PoolMail = 1 .. NumOutputs * PoolSize
    BY PoolMailType, IndexedMail DEF Typed, TypeOK
  <2>2. \A k \in DOMAIN PoolMail : Plain(PoolMail[k])
    BY PlainMessages DEF PoolMail, SetupMsgs
  <2> QED BY <1>1, <1>2, <1>6, <2>1, <2>2, MailConcat DEF MailOK
<1> QED BY <1>3, <1>4, <1>5, <1>6

\* The handlers and task_main keep MailOK.
LEMMA MailActor == ASSUME Typed, MailOK, Actor PROVE MailOK'
<1>1. ASSUME NEW t \in {"TopThread", "TopConfig"}, HandleTopSetup(t)
      PROVE  MailOK'
  BY <1>1, MailHandled DEF HandleTopSetup, Answer
<1>2. CASE HandleTopToken
  BY <1>2, MailHandled DEF HandleTopToken, Answer
<1>3. CASE HandleTopAlloc
  BY <1>3, MailHandled DEF HandleTopAlloc, Answer
<1>4. CASE HandleTopActive
  BY <1>4, MailHandled DEF HandleTopActive, Answer
<1>5. CASE HandleTopInert
  BY <1>5, MailHandled DEF HandleTopInert, Answer
<1>6. CASE HandleInputBuffer
  BY <1>6, MailHandled DEF HandleInputBuffer, Dropped, ThenMain, threads
<1>7. CASE HandleInputMsg
  BY <1>7, MailHandled DEF HandleInputMsg, Dropped, ThenMain, threads
<1>8. CASE HandleInputCheck
  BY <1>8, MailHandled DEF HandleInputCheck, threads
<1>9. CASE HandleInputUpdate
  BY <1>9, MailHandled DEF HandleInputUpdate, threads
<1>10. CASE HandleOutputBuffer
  <2>1. \/ Take
        \/ mailbox' = Append(Tail(mailbox), Msg)
    BY <1>10 DEF HandleOutputBuffer, Take
  <2> QED BY <1>10, <2>1, MailHandled
          DEF HandleOutputBuffer, Dropped, ThenMain, threads
<1>11. CASE HandleOutputCheck
  BY <1>11, MailHandled DEF HandleOutputCheck, threads
<1>12. CASE HandleOutputUpdate
  BY <1>12, MailHandled DEF HandleOutputUpdate, threads
<1>13. ASSUME NEW t \in {"Callable", "GetStats"}, HandleCall(t) PROVE MailOK'
  BY <1>13, MailHandled DEF HandleCall, Answer
<1>14. CASE HandleSelfKick
  BY <1>14, MailHandled DEF HandleSelfKick, ThenMain, threads
<1>15. ASSUME UNCHANGED <<mailbox, waiting, top_step>> PROVE MailOK'
  BY <1>15 DEF MailOK
<1>16. CASE WorkRefused \/ WorkStarts \/ WorkMarksDone
  BY <1>15, <1>16 DEF WorkRefused, WorkStarts, WorkMarksDone, threads
<1>17. CASE WorkReturns
  BY <1>17, MailPostWork DEF WorkReturns
<1>18. ASSUME NEW i \in Inputs, WorkFailsInput(i) PROVE MailOK'
  <2>1. CASE \E what \in {"input_maximal"} : Throw(what)
    BY <1>15, <2>1 DEF Throw, threads
  <2>2. CASE ~ Throw("input_maximal")
    <3>1. (IF IsWorkAllowed THEN 1 ELSE 0) \in Nat
      OBVIOUS
    <3> QED BY <1>18, <2>2, <3>1, MailPostWork DEF WorkFailsInput
  <2> QED BY <2>1, <2>2
<1>19. ASSUME NEW i \in Inputs, CheckInputDone(i) PROVE MailOK'
  BY <1>15, <1>19 DEF CheckInputDone, threads
<1>20. ASSUME NEW o \in Outputs, NEW n \in 0 .. OutSize, WorkFailsOutput(o, n)
       PROVE  MailOK'
  <2>1. CASE \E what \in {"output_partial", "output_empty"} : Throw(what)
    BY <1>15, <2>1 DEF Throw, threads
  <2> QED BY <1>20, <2>1, MailPostWork DEF WorkFailsOutput
<1> QED BY <1>1, <1>2, <1>3, <1>4, <1>5, <1>6, <1>7, <1>8, <1>9, <1>10, <1>11,
          <1>12, <1>13, <1>14, <1>16, <1>17, <1>18, <1>19, <1>20 DEF Actor

\* Who may have a message with a copy of prio_token in the mailbox.
LEMMA MailAlways == Spec => []MailOK
<1>1. Init => MailOK
  BY DEF Init, MailOK, Mail
<1>2. Typed /\ MailOK /\ [Next]_vars => MailOK'
  <2>1. MailOK /\ UNCHANGED vars => MailOK'
    BY DEF vars, threads, MailOK
  <2> QED BY <2>1, MailEnvironment, MailActor DEF Next
<1> QED BY <1>1, <1>2, TypedAlways, PTL DEF Spec
-----------------------------------------------------------------------------
(* A workable block that is not at work has missed a kick, or a message    *)
(* that makes it look again is queued.                                     *)

Kicked(mb) == \E k \in DOMAIN mb : Recheck(mb[k])
Awake == (pc \in {"idle", "check"} /\ Workable) => (WillRecheck \/ missed # {})

\* Appending keeps a kick; taking a message that is none keeps it too.
LEMMA Kicks ==
    ASSUME NEW mb \in Seq(Message), NEW s \in Seq(Message), NEW m \in Message
    PROVE  /\ Kicked(mb) => Kicked(Append(mb, m)) /\ Kicked(mb \o s)
           /\ Recheck(m) => Kicked(Append(mb, m))
           /\ mb # <<>> /\ Kicked(mb) /\ ~Recheck(Head(mb)) => Kicked(Tail(mb))
<1>1. /\ DOMAIN mb = 1 .. Len(mb) /\ Len(mb) \in Nat /\ Len(s) \in Nat
      /\ DOMAIN Append(mb, m) = 1 .. Len(mb) + 1
      /\ \A k \in 1 .. Len(mb) : Append(mb, m)[k] = mb[k]
      /\ Append(mb, m)[Len(mb) + 1] = m
      /\ DOMAIN (mb \o s) = 1 .. Len(mb) + Len(s)
      /\ \A k \in 1 .. Len(mb) : (mb \o s)[k] = mb[k]
  OBVIOUS
<1>2. Kicked(mb) => Kicked(Append(mb, m)) /\ Kicked(mb \o s)
  BY <1>1 DEF Kicked
<1>3. Recheck(m) => Kicked(Append(mb, m))
  <2>1. Len(mb) + 1 \in DOMAIN Append(mb, m)
    BY <1>1
  <2> QED BY <1>1, <2>1 DEF Kicked
<1>4. ASSUME mb # <<>>, Kicked(mb), ~Recheck(Head(mb)) PROVE Kicked(Tail(mb))
  <2>1. PICK k \in DOMAIN mb : Recheck(mb[k])
    BY <1>4 DEF Kicked
  <2>2. k # 1 /\ k - 1 \in DOMAIN Tail(mb) /\ Tail(mb)[k - 1] = mb[k]
    <3>1. /\ Len(mb) # 0 /\ Head(mb) = mb[1]
          /\ DOMAIN Tail(mb) = 1 .. Len(mb) - 1
          /\ \A j \in 1 .. Len(mb) - 1 : Tail(mb)[j] = mb[j + 1]
      BY <1>4
    <3>2. k # 1
      BY <1>4, <2>1, <3>1
    <3> QED BY <1>1, <2>1, <3>1, <3>2
  <2> QED BY <2>1, <2>2 DEF Kicked
<1> QED BY <1>2, <1>3, <1>4

\* A queued message with a copy of prio_token leads to task_main.
LEMMA CopyLeadsToMain ==
    ASSUME Typed, MailOK, ~TokenUnique
    PROVE  copies # {} \/ Kicked(mailbox) \/ top_step \in 1 .. 4
<1>1. SUFFICES ASSUME NEW k \in DOMAIN mailbox, mailbox[k].from # Nobody
               PROVE  Kicked(mailbox) \/ top_step \in 1 .. 4
  BY DEF TokenUnique
<1>2. mailbox[k].type \in SetupMsgs \cup KickMsgs
  BY <1>1 DEF MailOK, Mail
<1>3. CASE mailbox[k].type \in SetupMsgs
  BY <1>3 DEF MailOK, Mail
<1>4. CASE mailbox[k].type \in KickMsgs
  BY <1>4 DEF Kicked, KickMsgs, Recheck
<1> QED BY <1>2, <1>3, <1>4

\* The work condition reads only the state of the block, its inputs and its
\* outputs; the bits done and the configured reserves are not part of it.
LEMMA SameWorkable ==
    ASSUME block_state' = block_state,
           \A i \in Inputs : /\ in'[i].ready = in[i].ready
                             /\ in'[i].avail = in[i].avail,
           \A o \in Outputs : out'[o].ready = out[o].ready
    PROVE  Workable' <=> Workable
  BY DEF Workable

\* A committed configuration touches no other field of a port.
LEMMA ConfigKeepsInput ==
    ASSUME NEW p \in InputPort, NEW r
    PROVE  /\ [p EXCEPT !.config = r].ready = p.ready
           /\ [p EXCEPT !.config = r].avail = p.avail
  BY DEF InputPort

LEMMA ConfigKeepsOutput ==
    ASSUME NEW p \in OutputPort, NEW r
    PROVE  [p EXCEPT !.config = r].ready = p.ready
  BY DEF OutputPort

\* What task_main leaves behind when it ends, in a block that is workable.
LEMMA AwakePostWork ==
    ASSUME Typed, MailOK, NEW ins, NEW outs, NEW eaten, NEW popped, NEW un,
           NEW made, NEW kicks \in Nat,
           PostWork(ins, outs, eaten, popped, un, made, kicks)
    PROVE  Awake'
<1> SUFFICES ASSUME Workable' PROVE (WillRecheck \/ missed # {})'
  BY DEF Awake
<1> DEFINE f == [k \in 1 .. kicks |-> SelfKick]
           g == IF TokenUnique THEN <<SelfKick>> ELSE <<>>
<1>1. f \in Seq(Message) /\ g \in Seq(Message) /\ mailbox \in Seq(Message)
  BY Messages, IndexedMail DEF Typed, TypeOK
<1>2. mailbox' = (mailbox \o f) \o g
  BY DEF PostWork
<1>3. mailbox \o f \in Seq(Message)
  BY <1>1, MailOps
<1>4. copies' = copies /\ top_step' = top_step /\ missed' = Refusal'
  BY DEF PostWork, threads
<1>5. CASE TokenUnique
  <2>1. mailbox' = Append(mailbox \o f, SelfKick)
    BY <1>2, <1>3, <1>5
  <2>2. Recheck(SelfKick)
    BY DEF Recheck, SelfKick, PortMsg
  <2> HIDE DEF f
  <2> QED BY <1>3, <2>1, <2>2, Kicks, Messages DEF WillRecheck, Kicked
<1>6. CASE ~TokenUnique /\ copies # {}
  BY <1>4, <1>6 DEF Refusal
<1>7. CASE ~TokenUnique /\ copies = {}
  <2>1. Kicked(mailbox) \/ top_step \in 1 .. 4
    BY <1>7, CopyLeadsToMain
  <2>2. CASE Kicked(mailbox)
    <3> HIDE DEF f, g
    <3>1. Kicked(mailbox \o f)
      BY <1>1, <2>2, Kicks, Messages
    <3>2. Kicked((mailbox \o f) \o g)
      BY <1>1, <1>3, <3>1, Kicks, Messages
    <3> QED BY <1>2, <3>2 DEF WillRecheck, Kicked
  <2> QED BY <1>4, <2>1, <2>2 DEF WillRecheck
<1> QED BY <1>5, <1>6, <1>7

\* A step that only posts messages keeps the block awake.
LEMMA AwakePosts ==
    ASSUME Typed, Awake, pc' = pc, missed' = missed, Workable' <=> Workable,
           \/ mailbox' = mailbox
           \/ \E m \in Message : Post(m)
           \/ \E r, s \in Seq(Message) : mailbox' = mailbox \o r \o s,
           top_step \in 1 .. 4 => top_step' \in 1 .. 4 \/ Kicked(mailbox')
    PROVE  Awake'
<1>1. mailbox \in Seq(Message)
  BY DEF Typed, TypeOK
<1>2. Kicked(mailbox) => Kicked(mailbox')
  <2>1. ASSUME NEW r \in Seq(Message), NEW s \in Seq(Message),
               mailbox' = mailbox \o r \o s, Kicked(mailbox)
        PROVE  Kicked(mailbox')
    <3>1. mailbox \o r \in Seq(Message) /\ Kicked(mailbox \o r)
      BY <1>1, <2>1, Kicks, Messages, MailOps
    <3> QED BY <2>1, <3>1, Kicks, Messages
  <2>2. ASSUME NEW m \in Message, Post(m), Kicked(mailbox)
        PROVE  Kicked(mailbox')
    BY <1>1, <2>2, Kicks DEF Post
  <2> QED BY <2>1, <2>2
<1>3. WillRecheck => (WillRecheck)'
  BY <1>2 DEF WillRecheck, Kicked
<1> QED BY <1>3 DEF Awake

\* Neighbours and threads keep a workable block awake.
LEMMA AwakeEnvironment == ASSUME Typed, Awake, Environment PROVE Awake'
<1>1. ASSUME UNCHANGED <<pc, block, missed>>,
             \/ mailbox' = mailbox
             \/ \E m \in Message : Post(m),
             top_step' = top_step
      PROVE  Awake'
  <2>1. Workable' <=> Workable
    BY <1>1, SameWorkable DEF block
  <2> QED BY <1>1, <2>1, AwakePosts
<1>2. ASSUME NEW i \in Inputs,
             \/ UpstreamActive(i) \/ UpstreamSends(i)
             \/ UpstreamPostsMsg(i) \/ UpstreamDone(i)
      PROVE  Awake'
  <2>1. CASE UpstreamActive(i)
    BY <1>1, <2>1 DEF UpstreamActive, handler, aux, threads
  <2>2. CASE UpstreamSends(i)
    <3>1. \E m \in Message : Post(m)
      BY <2>2, Messages DEF UpstreamSends, InputMsgs
    <3> QED BY <1>1, <2>2, <3>1 DEF UpstreamSends, handler, aux
  <2>3. CASE UpstreamPostsMsg(i)
    <3>1. \E m \in Message : Post(m)
      BY <2>3, Messages DEF UpstreamPostsMsg, InputMsgs
    <3> QED BY <1>1, <2>3, <3>1 DEF UpstreamPostsMsg, handler, aux
  <2>4. CASE UpstreamDone(i)
    <3>1. \E m \in Message : Post(m)
      BY <2>4, Messages DEF UpstreamDone, InputMsgs
    <3> QED BY <1>1, <2>4, <3>1 DEF UpstreamDone, handler, aux, threads
  <2> QED BY <1>2, <2>1, <2>2, <2>3, <2>4
<1>3. ASSUME NEW o \in Outputs, DownstreamReturns(o) \/ DownstreamDone(o)
      PROVE  Awake'
  <2>1. \E m \in Message : Post(m)
    <3>1. pool \in Nat /\ 0 \in Nat
      BY DEF Typed, TypeOK
    <3> QED BY <1>3, <3>1, Messages DEF DownstreamReturns, DownstreamDone, OutputMsgs
  <2> QED BY <1>1, <1>3, <2>1
          DEF DownstreamReturns, DownstreamDone, handler, aux, threads
<1>4. ASSUME NEW s \in Senders, NEW t \in OtherMsgs, Ask(s, t)
      PROVE  /\ UNCHANGED <<pc, block, missed>>
             /\ \E m \in Message : Post(m)
  BY <1>4, Messages DEF Ask, handler, aux
<1>5. ASSUME NEW c \in Callers, CallProperty(c) PROVE Awake'
  BY <1>1, <1>4, <1>5 DEF CallProperty, Senders, OtherMsgs
<1>6. ASSUME NEW c \in Monitors, QueryStats(c) PROVE Awake'
  BY <1>1, <1>4, <1>6 DEF QueryStats, Senders, OtherMsgs
<1>7. ASSUME NEW s \in Senders, ReleaseCopy(s) PROVE Awake'
  BY <1>1, <1>7 DEF ReleaseCopy, handler, aux
<1>8. ASSUME NEW ins, NEW outs, CommitConfig(ins, outs) PROVE Awake'
  <2>1. Workable' <=> Workable
    <3>1. ASSUME NEW i \in Inputs
          PROVE  in'[i].ready = in[i].ready /\ in'[i].avail = in[i].avail
      <4>1. PICK p \in InputPort : p = in[i]
        BY DEF Typed, TypeOK
      <4>2. in'[i] = [in[i] EXCEPT !.config = ins[i]]
        BY <1>8 DEF CommitConfig
      <4>3. in'[i] = [p EXCEPT !.config = ins[i]]
        BY <4>1, <4>2
      <4> QED BY <4>1, <4>3, ConfigKeepsInput
    <3>2. ASSUME NEW o \in Outputs PROVE out'[o].ready = out[o].ready
      <4>1. PICK p \in OutputPort : p = out[o]
        BY DEF Typed, TypeOK
      <4>2. out'[o] = [out[o] EXCEPT !.config = outs[o]]
        BY <1>8 DEF CommitConfig
      <4>3. out'[o] = [p EXCEPT !.config = outs[o]]
        BY <4>1, <4>2
      <4> QED BY <4>1, <4>3, ConfigKeepsOutput
    <3> QED BY <1>8, <3>1, <3>2, SameWorkable DEF CommitConfig
  <2> DEFINE f == [k \in 1 .. NumInputs |-> PortMsg("InputUpdate", k - 1, 0)]
             g == [k \in 1 .. NumOutputs |-> PortMsg("OutputUpdate", k - 1, 0)]
  <2>2. f \in Seq(Message) /\ g \in Seq(Message)
    BY UpdateMailType, IndexedMail, Constants
  <2>3. mailbox' = mailbox \o f \o g
    BY <1>8 DEF CommitConfig
  <2> HIDE DEF f, g
  <2> QED BY <1>8, <2>1, <2>2, <2>3, AwakePosts DEF CommitConfig, handler, aux
<1>9. CASE StartStep
  <2> DEFINE t == StartSeq[top_step + 1]
             m == PrioMsg(t, Top)
  <2>1. /\ t \in OtherMsgs /\ (top_step = 4 => t = "TopActive")
        /\ top_step \in 0 .. 4 /\ top_step' = top_step + 1
    BY <1>9 DEF StartStep, StartSeq, OtherMsgs, Typed, TypeOK
  <2>2. Ask(Top, t)
    BY <1>9 DEF StartStep
  <2>3. m \in Message /\ Post(m) /\ m.type = t
    BY <2>1, <2>2, Messages DEF Ask, Senders, PrioMsg
  <2>4. UNCHANGED <<pc, block, missed>>
    BY <2>2 DEF Ask, handler, aux
  <2>5. Workable' <=> Workable
    BY <2>4, SameWorkable DEF block
  <2>6. top_step = 4 => Kicked(mailbox')
    BY <2>1, <2>3, Kicks DEF Post, Recheck, Typed, TypeOK
  <2> HIDE DEF t, m
  <2> QED BY <2>1, <2>3, <2>4, <2>5, <2>6, AwakePosts
<1>10. CASE StartAgain
  <2>1. Workable' <=> Workable
    BY <1>10, SameWorkable DEF StartAgain, block
  <2> QED BY <1>10, <2>1, AwakePosts DEF StartAgain, handler, aux
<1>11. CASE Stop
  BY <1>1, <1>4, <1>11 DEF Stop, Senders, OtherMsgs
<1>12. CASE WaitPoll
  <2>1. \E m \in Message : Post(m)
    BY <1>12, Messages DEF WaitPoll, OtherMsgs
  <2> QED BY <1>1, <1>12, <2>1 DEF WaitPoll, handler, aux, threads
<1> QED BY <1>2, <1>3, <1>5, <1>6, <1>7, <1>8, <1>9, <1>10, <1>11, <1>12
        DEF Environment

\* Handling a message that does not lead to task_main.
LEMMA AwakeTake ==
    ASSUME Typed, Awake, NEW t, Receive(t), Take, ~Recheck(Msg),
           UNCHANGED top_step,
           \/ (Workable' => Workable) /\ missed' = missed
           \/ Workable' => missed' # {}
    PROVE  Awake'
<1>1. /\ mailbox \in Seq(Message) /\ mailbox # <<>> /\ pc = "idle"
      /\ mailbox' = Tail(mailbox) /\ Msg = Head(mailbox)
  BY DEF Typed, TypeOK, Receive, Take, Msg
<1>2. Kicked(mailbox) => Kicked(Tail(mailbox))
  BY <1>1, Kicks, Messages
<1>3. WillRecheck => (WillRecheck)'
  BY <1>1, <1>2 DEF WillRecheck, Kicked
<1> QED BY <1>1, <1>3 DEF Awake

\* While start() still has to send TopActive the block stays awake.
LEMMA AwakeSetup ==
    ASSUME MailOK, NEW t \in SetupMsgs, Receive(t), UNCHANGED top_step
    PROVE  Awake'
<1>1. 1 \in DOMAIN mailbox /\ mailbox[1].type = t
  BY DEF Receive, Msg
<1> QED BY <1>1 DEF MailOK, Mail, Awake, WillRecheck

\* A handler that appends a SelfKick keeps the block awake.
LEMMA AwakeKick ==
    ASSUME Typed, NEW t, Receive(t), TakeAndKick
    PROVE  Awake'
<1>1. Recheck(SelfKick) /\ Tail(mailbox) \in Seq(Message)
  BY Received DEF Recheck, SelfKick, PortMsg, Typed
<1> QED BY <1>1, Kicks, Messages DEF TakeAndKick, Awake, WillRecheck, Kicked

\* Marking the block done ends its work, and leaves a DONE block as it was.
LEMMA MarkDoneNotWorkable ==
    ASSUME NEW ins, NEW outs, MarkDone(ins, outs) PROVE ~Workable'
  BY DEF MarkDone, Workable

\* The handlers and task_main keep a workable block awake.
LEMMA AwakeActor == ASSUME Typed, MailOK, Awake, Actor PROVE Awake'
<1>1. ASSUME NEW t \in {"TopThread", "TopConfig"}, HandleTopSetup(t)
      PROVE  Awake'
  BY <1>1, AwakeSetup DEF HandleTopSetup, Answer, SetupMsgs
<1>2. CASE HandleTopToken
  BY <1>2, AwakeSetup DEF HandleTopToken, Answer, SetupMsgs
<1>3. CASE HandleTopAlloc
  BY <1>3, AwakeSetup DEF HandleTopAlloc, Answer, SetupMsgs
<1>4. CASE HandleTopActive
  BY <1>4, AwakeKick DEF HandleTopActive
<1>5. ASSUME NEW t \in {"Callable", "GetStats"}, HandleCall(t) PROVE Awake'
  BY <1>5, AwakeKick DEF HandleCall
<1>6. CASE HandleTopInert
  BY <1>6, MarkDoneNotWorkable DEF HandleTopInert, Awake
<1>7. ASSUME \/ pc' \in {"main", "work", "crashed"}
             \/ block_state' = "DONE"
      PROVE  Awake'
  BY <1>7 DEF Awake, Workable
<1>8. CASE HandleInputBuffer \/ HandleInputMsg \/ HandleOutputBuffer
  BY <1>7, <1>8 DEF HandleInputBuffer, HandleInputMsg, HandleOutputBuffer,
                    Dropped, ThenMain, block
<1>9. CASE HandleInputCheck \/ HandleSelfKick
  BY <1>7, <1>9 DEF HandleInputCheck, HandleSelfKick, ThenMain
<1>10. CASE HandleInputUpdate
  <2>1. Receive("InputUpdate") /\ Take /\ UNCHANGED top_step /\ CommitMissed
    BY <1>10 DEF HandleInputUpdate, threads
  <2>2. ~Recheck(Msg)
    BY <2>1 DEF Receive, Recheck
  <2> QED BY <2>1, <2>2, AwakeTake DEF CommitMissed
<1>11. CASE HandleOutputUpdate
  <2>1. Receive("OutputUpdate") /\ Take /\ UNCHANGED top_step /\ CommitMissed
    BY <1>11 DEF HandleOutputUpdate, threads
  <2>2. ~Recheck(Msg)
    BY <2>1 DEF Receive, Recheck
  <2> QED BY <2>1, <2>2, AwakeTake DEF CommitMissed
<1>12. CASE HandleOutputCheck
  <2> DEFINE checked == [out EXCEPT ![Msg.port].done = Msg.port \notin downstream]
  <2>1. CASE MarkDone(in, checked)
    BY <2>1, MarkDoneNotWorkable DEF Awake
  <2>2. CASE out' = checked /\ UNCHANGED <<block_state, in, missed>>
    <3>1. \A o \in Outputs : out'[o].ready = out[o].ready
      <4>1. \A b : \A p \in OutputPort : [p EXCEPT !.done = b].ready = p.ready
        BY DEF OutputPort
      <4> QED BY <2>2, <4>1 DEF Typed, TypeOK
    <3>2. Workable' <=> Workable
      BY <2>2, <3>1, SameWorkable
    <3>3. Receive("OutputCheck") /\ Take /\ UNCHANGED top_step
      BY <1>12 DEF HandleOutputCheck, threads
    <3>4. ~Recheck(Msg)
      BY <3>3 DEF Receive, Recheck
    <3> QED BY <2>2, <3>2, <3>3, <3>4, AwakeTake
  <2> QED BY <1>12, <2>1, <2>2 DEF HandleOutputCheck, aux
<1>13. CASE WorkRefused
  <2>1. SUFFICES ASSUME Workable' PROVE (WillRecheck \/ missed # {})'
    BY DEF Awake
  <2>2. Workable /\ ~TokenUnique
    BY <1>13, <2>1, SameWorkable DEF WorkRefused, block, IsWorkAllowed
  <2>3. /\ copies # {} => missed' # {}
        /\ mailbox' = mailbox /\ top_step' = top_step
    BY <1>13, <2>2 DEF WorkRefused, Refusal, threads
  <2> QED BY <2>2, <2>3, CopyLeadsToMain DEF WillRecheck, Kicked
<1>14. CASE WorkStarts
  BY <1>7, <1>14 DEF WorkStarts
<1>15. CASE WorkMarksDone
  BY <1>7, <1>15 DEF WorkMarksDone
<1>16. CASE WorkReturns
  BY <1>16, AwakePostWork DEF WorkReturns
<1>17. ASSUME NEW i \in Inputs, WorkFailsInput(i) PROVE Awake'
  <2>1. CASE Throw("input_maximal")
    BY <1>7, <2>1 DEF Throw
  <2>2. CASE ~Throw("input_maximal")
    <3>1. (IF IsWorkAllowed THEN 1 ELSE 0) \in Nat
      OBVIOUS
    <3> QED BY <1>17, <2>2, <3>1, AwakePostWork DEF WorkFailsInput
  <2> QED BY <2>1, <2>2
<1>18. ASSUME NEW i \in Inputs, CheckInputDone(i) PROVE Awake'
  <2>1. CASE MarkDone(in, out)
    BY <2>1, MarkDoneNotWorkable DEF Awake
  <2>2. CASE UNCHANGED <<block_state, in, out, missed>>
    <3>1. Workable' <=> Workable
      BY <2>2, SameWorkable
    <3> QED BY <1>18, <2>2, <3>1
            DEF CheckInputDone, Awake, WillRecheck, threads
  <2> QED BY <1>18, <2>1, <2>2 DEF CheckInputDone, aux
<1>19. ASSUME NEW o \in Outputs, NEW n \in 0 .. OutSize, WorkFailsOutput(o, n)
       PROVE  Awake'
  <2>1. CASE \E what : Throw(what)
    BY <1>7, <2>1 DEF Throw
  <2> QED BY <1>19, <2>1, AwakePostWork DEF WorkFailsOutput
<1> QED BY <1>1, <1>2, <1>3, <1>4, <1>5, <1>6, <1>8, <1>9, <1>10, <1>11,
          <1>12, <1>13, <1>14, <1>15, <1>16, <1>17, <1>18, <1>19 DEF Actor

\* A workable block stays awake, between messages and before the end check of
\* handle_input_check.
LEMMA AwakeAlways == Spec => []Awake
<1>1. Init => Awake
  BY DEF Init, Awake, Workable
<1>2. Typed /\ MailOK /\ Awake /\ [Next]_vars => Awake'
  <2>1. Awake /\ UNCHANGED vars => Awake'
    BY SameWorkable DEF vars, handler, block, threads, aux, Awake, WillRecheck
  <2> QED BY <2>1, AwakeEnvironment, AwakeActor DEF Next
<1> QED BY <1>1, <1>2, TypedAlways, MailAlways, PTL DEF Spec

\* A workable block that is idle has a kick queued, or start() is still
\* sending, or the kick was refused for a copy of prio_token that a sender
\* still owns, or a commit of the configuration made it workable.
THEOREM WakeupIsNotLost == Spec => []NoLostWakeup
<1>1. Awake => NoLostWakeup
  BY DEF Awake, NoLostWakeup
<1> QED BY <1>1, AwakeAlways, PTL
-----------------------------------------------------------------------------
(* The life of the block.  What start(), stop() and wait() have queued     *)
(* says how far start() has come: a setup message is the last one sent.    *)

Of(mb) == {mb[k] : k \in DOMAIN mb}

StartMail == \A m \in Of(mailbox) :
    /\ m.from = Top => /\ top_step \in 1 .. 5
                       /\ \/ m.type = StartSeq[top_step]
                          \/ top_step = 5 /\ m.type = "TopInert"
    /\ m.type = "TopActive" => m.from = Top

WorkIsLive == pc = "work" => block_state = "LIVE"

\* what a step may add to the mailbox
Posted(m) ==
    \/ /\ m.from = Nobody /\ m.type \notin SetupMsgs \cup {"TopActive"}
       /\ m.type = "InputCheck" => \E i \in Inputs : upstream[i] = "live"
       /\ m.type = "OutputCheck" => OthersMayBeLive
       /\ m.type = "TopInert" => top_step = 5 /\ Top \notin waiting
       /\ m.type = "InputMsg" => MsgPorts # {}
    \/ m.from \notin {Top, Nobody} /\ m.type \in {"Callable", "GetStats"}
    \/ StartStep /\ m.from = Top /\ m.type = StartSeq[top_step + 1]
    \/ Stop /\ m.from = Top /\ m.type = "TopInert"

\* The messages of a mailbox, as a set.
LEMMA OfOps ==
    ASSUME NEW mb \in Seq(Message), NEW s \in Seq(Message), NEW m \in Message
    PROVE  /\ Of(Append(mb, m)) = Of(mb) \cup {m}
           /\ Of(mb \o s) = Of(mb) \cup Of(s)
           /\ mb # <<>> => Of(mb) = {Head(mb)} \cup Of(Tail(mb))
<1>1. DOMAIN mb = 1 .. Len(mb) /\ DOMAIN s = 1 .. Len(s)
      /\ Len(mb) \in Nat /\ Len(s) \in Nat
  OBVIOUS
<1>2. Of(Append(mb, m)) = Of(mb) \cup {m}
  <2>1. /\ DOMAIN Append(mb, m) = 1 .. Len(mb) + 1
        /\ \A k \in 1 .. Len(mb) : Append(mb, m)[k] = mb[k]
        /\ Append(mb, m)[Len(mb) + 1] = m
    OBVIOUS
  <2>2. \A k : k \in 1 .. Len(mb) + 1 <=> k \in 1 .. Len(mb) \/ k = Len(mb) + 1
    BY <1>1
  <2> QED BY <1>1, <2>1, <2>2 DEF Of
<1>3. Of(mb \o s) = Of(mb) \cup Of(s)
  <2>1. /\ DOMAIN (mb \o s) = 1 .. Len(mb) + Len(s)
        /\ \A k \in 1 .. Len(mb) : (mb \o s)[k] = mb[k]
        /\ \A k \in 1 .. Len(s) : (mb \o s)[Len(mb) + k] = s[k]
    OBVIOUS
  <2>2. \A k \in 1 .. Len(mb) + Len(s) :
            k \in 1 .. Len(mb) \/ \E j \in 1 .. Len(s) : k = Len(mb) + j
    <3>1. ASSUME NEW k \in 1 .. Len(mb) + Len(s), k \notin 1 .. Len(mb)
          PROVE  k - Len(mb) \in 1 .. Len(s) /\ k = Len(mb) + (k - Len(mb))
      BY <1>1, <3>1
    <3> QED BY <3>1
  <2>3. /\ \A k \in 1 .. Len(mb) : k \in 1 .. Len(mb) + Len(s)
        /\ \A k \in 1 .. Len(s) : Len(mb) + k \in 1 .. Len(mb) + Len(s)
    BY <1>1
  <2>4. Of(mb \o s) \subseteq Of(mb) \cup Of(s)
    <3>1. ASSUME NEW k \in 1 .. Len(mb) + Len(s)
          PROVE  (mb \o s)[k] \in Of(mb) \cup Of(s)
      <4>1. CASE k \in 1 .. Len(mb)
        BY <1>1, <2>1, <4>1 DEF Of
      <4>2. CASE k \notin 1 .. Len(mb)
        <5>1. PICK j \in 1 .. Len(s) : k = Len(mb) + j
          BY <2>2, <4>2
        <5>2. (mb \o s)[k] = s[j] /\ j \in DOMAIN s
          BY <1>1, <2>1, <5>1
        <5> QED BY <5>2 DEF Of
      <4> QED BY <4>1, <4>2
    <3> QED BY <2>1, <3>1 DEF Of
  <2>5. Of(mb) \cup Of(s) \subseteq Of(mb \o s)
    BY <1>1, <2>1, <2>3 DEF Of
  <2> QED BY <2>4, <2>5
<1>4. ASSUME mb # <<>> PROVE Of(mb) = {Head(mb)} \cup Of(Tail(mb))
  <2>1. /\ Len(mb) >= 1 /\ Head(mb) = mb[1]
        /\ DOMAIN Tail(mb) = 1 .. Len(mb) - 1
        /\ \A k \in 1 .. Len(mb) - 1 : Tail(mb)[k] = mb[k + 1]
    BY <1>4
  <2>2. \A k \in 1 .. Len(mb) :
            k = 1 \/ \E j \in 1 .. Len(mb) - 1 : k = j + 1
    <3>1. ASSUME NEW k \in 1 .. Len(mb), k # 1
          PROVE  k - 1 \in 1 .. Len(mb) - 1 /\ k = (k - 1) + 1
      BY <1>1, <3>1
    <3> QED BY <3>1
  <2>3. 1 \in 1 .. Len(mb) /\ \A k \in 1 .. Len(mb) - 1 : k + 1 \in 1 .. Len(mb)
    BY <1>1, <2>1
  <2>4. Of(mb) \subseteq {Head(mb)} \cup Of(Tail(mb))
    <3>1. ASSUME NEW k \in 1 .. Len(mb)
          PROVE  mb[k] \in {Head(mb)} \cup Of(Tail(mb))
      <4>1. CASE k = 1
        BY <2>1, <4>1
      <4>2. CASE k # 1
        <5>1. PICK j \in 1 .. Len(mb) - 1 : k = j + 1
          BY <2>2, <4>2
        <5>2. mb[k] = Tail(mb)[j] /\ j \in DOMAIN Tail(mb)
          BY <2>1, <5>1
        <5> QED BY <5>2 DEF Of
      <4> QED BY <4>1, <4>2
    <3> QED BY <1>1, <3>1 DEF Of
  <2>5. {Head(mb)} \cup Of(Tail(mb)) \subseteq Of(mb)
    BY <1>1, <2>1, <2>3 DEF Of
  <2> QED BY <2>4, <2>5
<1> QED BY <1>2, <1>3, <1>4

\* MailOK, of the set of messages.
LEMMA MailOf ==
    ASSUME MailOK
    PROVE  \A m \in Of(mailbox) :
               /\ m.from # Nobody => m.type \in SetupMsgs \cup KickMsgs
               /\ m.type \in SetupMsgs => m.from = Top /\ top_step \in 1 .. 4
               /\ m.from = Top => Top \in waiting
  BY DEF Of, MailOK, Mail

\* The message that a handler takes is one of the mailbox.
LEMMA HeadOf ==
    ASSUME Typed, NEW t, Receive(t)
    PROVE  /\ Msg \in Of(mailbox) /\ Msg.type = t /\ Msg \in Message
           /\ Tail(mailbox) \in Seq(Message)
           /\ Of(mailbox) = {Msg} \cup Of(Tail(mailbox))
<1>1. mailbox \in Seq(Message) /\ mailbox # <<>> /\ Msg.type = t
  BY DEF Typed, TypeOK, Receive
<1>2. Head(mailbox) \in Message /\ Tail(mailbox) \in Seq(Message)
  BY <1>1
<1>3. Of(mailbox) = {Head(mailbox)} \cup Of(Tail(mailbox))
  BY <1>1, <1>2, OfOps
<1> QED BY <1>1, <1>2, <1>3 DEF Msg
\* Neighbours and threads only append, and only what Posted says.
LEMMA EnvironmentPosts ==
    ASSUME Typed, Environment
    PROVE  /\ Of(mailbox) \subseteq Of(mailbox')
           /\ \A m \in Of(mailbox') : m \in Of(mailbox) \/ Posted(m)
           /\ StartStep => \E m \in Of(mailbox') :
                               m.type = StartSeq[top_step + 1]
<1> mailbox \in Seq(Message)
  BY DEF Typed, TypeOK
<1> DEFINE Goal == /\ Of(mailbox) \subseteq Of(mailbox')
                   /\ \A m \in Of(mailbox') : m \in Of(mailbox) \/ Posted(m)
                   /\ StartStep => \E m \in Of(mailbox') :
                                       m.type = StartSeq[top_step + 1]
<1>1. ASSUME NEW m \in Message, Post(m), Posted(m),
             StartStep => m.type = StartSeq[top_step + 1]
      PROVE  Goal
  <2>1. Of(mailbox') = Of(mailbox) \cup {m}
    BY <1>1, OfOps DEF Post
  <2> QED BY <1>1, <2>1
<1>2. ASSUME NEW t \in InputMsgs \cup OutputMsgs, NEW p, NEW n
      PROVE  /\ PortMsg(t, p, n).type = t /\ PortMsg(t, p, n).from = Nobody
             /\ t \notin SetupMsgs \cup {"TopActive", "TopInert"}
  BY DEF PortMsg, InputMsgs, OutputMsgs, SetupMsgs
<1>3. ASSUME UNCHANGED top_step, top_step \in 0 .. 5 PROVE ~StartStep
  BY <1>3 DEF StartStep
<1>4. top_step \in 0 .. 5
  BY DEF Typed, TypeOK
<1>5. ASSUME NEW i \in Inputs, UpstreamSends(i) PROVE Goal
  <2>1. PICK n \in 1 .. MaxChunk : Post(PortMsg("InputBuffer", i, n))
    BY <1>5 DEF UpstreamSends
  <2>2. PortMsg("InputBuffer", i, n) \in Message
    BY Messages DEF InputMsgs
  <2>3. Posted(PortMsg("InputBuffer", i, n)) /\ ~StartStep
    BY <1>2, <1>3, <1>4, <1>5 DEF Posted, InputMsgs, UpstreamSends
  <2> QED BY <1>1, <2>1, <2>2, <2>3
<1>6. ASSUME NEW i \in Inputs, UpstreamPostsMsg(i) PROVE Goal
  <2>1. PortMsg("InputMsg", i, 0) \in Message
    BY Messages DEF InputMsgs
  <2>2. Posted(PortMsg("InputMsg", i, 0)) /\ ~StartStep
    BY <1>2, <1>3, <1>4, <1>6 DEF Posted, InputMsgs, UpstreamPostsMsg
  <2> QED BY <1>1, <1>6, <2>1, <2>2 DEF UpstreamPostsMsg
<1>7. ASSUME NEW i \in Inputs, UpstreamDone(i) PROVE Goal
  <2>1. PortMsg("InputCheck", i, 0) \in Message
    BY Messages DEF InputMsgs
  <2>2. Posted(PortMsg("InputCheck", i, 0)) /\ ~StartStep
    BY <1>2, <1>3, <1>4, <1>7 DEF Posted, InputMsgs, UpstreamDone, threads
  <2> QED BY <1>1, <1>7, <2>1, <2>2 DEF UpstreamDone
<1>8. ASSUME NEW o \in Outputs, DownstreamReturns(o) PROVE Goal
  <2>1. PortMsg("OutputBuffer", o, pool) \in Message
    BY Messages DEF OutputMsgs, Typed, TypeOK
  <2>2. Posted(PortMsg("OutputBuffer", o, pool)) /\ ~StartStep
    <3>1. "OutputBuffer" \in OutputMsgs
      BY DEF OutputMsgs
    <3>2. Posted(PortMsg("OutputBuffer", o, pool))
      BY <1>2, <1>8, <3>1 DEF Posted, DownstreamReturns
    <3>3. UNCHANGED top_step
      BY <1>8 DEF DownstreamReturns, threads
    <3> QED BY <1>3, <1>4, <3>2, <3>3
  <2> QED BY <1>1, <1>8, <2>1, <2>2 DEF DownstreamReturns
<1>9. ASSUME NEW o \in Outputs, DownstreamDone(o) PROVE Goal
  <2>1. PortMsg("OutputCheck", o, 0) \in Message
    BY Messages DEF OutputMsgs
  <2>2. Posted(PortMsg("OutputCheck", o, 0)) /\ ~StartStep
    <3>1. "OutputCheck" \in OutputMsgs
      BY DEF OutputMsgs
    <3>2. Posted(PortMsg("OutputCheck", o, 0))
      BY <1>2, <1>9, <3>1 DEF Posted, DownstreamDone
    <3>3. UNCHANGED top_step
      BY <1>9 DEF DownstreamDone, threads
    <3> QED BY <1>3, <1>4, <3>2, <3>3
  <2> QED BY <1>1, <1>9, <2>1, <2>2 DEF DownstreamDone
<1>10. ASSUME NEW c \in Callers \cup Monitors, NEW t \in {"Callable", "GetStats"},
              Ask(c, t), UNCHANGED top_step
       PROVE  Goal
  <2>1. PrioMsg(t, c) \in Message
    BY Messages DEF OtherMsgs, Senders
  <2>2. c \notin {Top, Nobody}
    BY BlockActorAssumption DEF Senders
  <2>3. Posted(PrioMsg(t, c)) /\ ~StartStep
    BY <1>3, <1>4, <1>10, <2>2 DEF Posted, PrioMsg
  <2> QED BY <1>1, <1>10, <2>1, <2>3 DEF Ask
<1>11. ASSUME StartStep PROVE Goal
  <2>1. StartSeq[top_step + 1] \in OtherMsgs
    BY <1>4, <1>11 DEF StartStep, StartSeq, OtherMsgs
  <2> DEFINE t == StartSeq[top_step + 1]
  <2> HIDE DEF t
  <2>2. PrioMsg(t, Top) \in Message
    BY <2>1, Messages, NobodyIsNotTop DEF t
  <2>3. PrioMsg(t, Top).type = t /\ PrioMsg(t, Top).from = Top
    BY DEF PrioMsg
  <2>4. Posted(PrioMsg(t, Top)) /\ Post(PrioMsg(t, Top))
    BY <1>11, <2>3 DEF Posted, StartStep, Ask, t
  <2> QED BY <1>1, <2>2, <2>3, <2>4 DEF t
<1>12. ASSUME Stop PROVE Goal
  <2>1. PrioMsg("TopInert", Top) \in Message
    BY Messages, NobodyIsNotTop DEF OtherMsgs
  <2>2. /\ Posted(PrioMsg("TopInert", Top)) /\ Post(PrioMsg("TopInert", Top))
        /\ ~StartStep
    BY <1>3, <1>4, <1>12 DEF Posted, PrioMsg, Stop, Ask
  <2> QED BY <1>1, <2>1, <2>2
<1>13. ASSUME WaitPoll PROVE Goal
  <2>1. PrioMsg("TopInert", Nobody) \in Message
    BY Messages DEF OtherMsgs
  <2>2. /\ Posted(PrioMsg("TopInert", Nobody)) /\ Post(PrioMsg("TopInert", Nobody))
        /\ ~StartStep
    BY <1>3, <1>4, <1>13 DEF Posted, PrioMsg, WaitPoll, threads, SetupMsgs
  <2> QED BY <1>1, <2>1, <2>2
<1>14. ASSUME UNCHANGED mailbox, ~StartStep PROVE Goal
  BY <1>14
<1>15. ASSUME NEW i \in Inputs, UpstreamActive(i) PROVE Goal
  BY <1>3, <1>4, <1>14, <1>15 DEF UpstreamActive, threads
<1>16. ASSUME NEW s \in Senders, ReleaseCopy(s) PROVE Goal
  BY <1>3, <1>4, <1>14, <1>16 DEF ReleaseCopy
<1>17. ASSUME StartAgain PROVE Goal
  BY <1>4, <1>14, <1>17 DEF StartAgain, StartStep
<1>18. ASSUME NEW ins, NEW outs, CommitConfig(ins, outs) PROVE Goal
  <2> DEFINE f == [k \in 1 .. NumInputs |-> PortMsg("InputUpdate", k - 1, 0)]
             g == [k \in 1 .. NumOutputs |-> PortMsg("OutputUpdate", k - 1, 0)]
  <2>1. f \in Seq(Message) /\ g \in Seq(Message)
    BY UpdateMailType, IndexedMail, Constants
  <2>2. (\A m \in Of(f) : Posted(m)) /\ (\A m \in Of(g) : Posted(m))
    BY <1>2 DEF Of, Posted, InputMsgs, OutputMsgs
  <2>3. mailbox' = (mailbox \o f) \o g /\ UNCHANGED top_step
    BY <1>18 DEF CommitConfig
  <2> HIDE DEF f, g
  <2>4. mailbox \o f \in Seq(Message)
    BY <2>1
  <2>5. Of((mailbox \o f) \o g) = Of(mailbox \o f) \cup Of(g)
    BY <2>1, <2>4, OfOps, Messages
  <2>6. Of(mailbox \o f) = Of(mailbox) \cup Of(f)
    BY <2>1, OfOps, Messages
  <2> QED BY <1>3, <1>4, <2>2, <2>3, <2>5, <2>6
<1> HIDE DEF Goal
<1>19. Goal
  BY <1>5, <1>6, <1>7, <1>8, <1>9, <1>10, <1>11, <1>12, <1>13, <1>15, <1>16,
     <1>17, <1>18 DEF Environment, CallProperty, QueryStats
<1> QED BY <1>19 DEF Goal

\* A handler takes the first message and appends only what Posted says.
LEMMA ActorPosts ==
    ASSUME Typed, Actor
    PROVE  /\ \A m \in Of(mailbox') : m \in Of(mailbox) \/ Posted(m)
           /\ \A m \in Of(mailbox) : m \in Of(mailbox') \/ Receive(m.type)
<1> mailbox \in Seq(Message) /\ generation \in Nat
  BY DEF Typed, TypeOK
<1> DEFINE Goal == /\ \A m \in Of(mailbox') : m \in Of(mailbox) \/ Posted(m)
                   /\ \A m \in Of(mailbox) : m \in Of(mailbox') \/ Receive(m.type)
<1>1. Posted(SelfKick) /\ SelfKick \in Message
  BY Messages DEF Posted, SelfKick, PortMsg, SetupMsgs
<1>2. ASSUME NEW t, Receive(t),
             Take \/ TakeAndKick \/ mailbox' = Append(Tail(mailbox), Msg)
      PROVE  Goal
  <2>1. /\ Msg \in Of(mailbox) /\ Msg.type = t /\ Msg \in Message
        /\ Tail(mailbox) \in Seq(Message)
        /\ Of(mailbox) = {Msg} \cup Of(Tail(mailbox))
    BY <1>2, HeadOf
  <2>2. /\ Of(Append(Tail(mailbox), SelfKick)) = Of(Tail(mailbox)) \cup {SelfKick}
        /\ Of(Append(Tail(mailbox), Msg)) = Of(Tail(mailbox)) \cup {Msg}
    BY <1>1, <2>1, OfOps
  <2> QED BY <1>1, <1>2, <2>1, <2>2 DEF Take, TakeAndKick
<1>3. ASSUME HandleTopAlloc PROVE Goal
  <2>1. PoolMail \in Seq(Message) /\ DOMAIN PoolMail = 1 .. NumOutputs * PoolSize
    BY PoolMailType, IndexedMail
  <2>2. \A m \in Of(PoolMail) : Posted(m)
    BY DEF Of, PoolMail, Posted, PortMsg, SetupMsgs
  <2>3. /\ Receive("TopAlloc") /\ mailbox' = Tail(mailbox) \o PoolMail
    BY <1>3 DEF HandleTopAlloc
  <2>4. /\ Msg.type = "TopAlloc" /\ Tail(mailbox) \in Seq(Message)
        /\ Of(mailbox) = {Msg} \cup Of(Tail(mailbox))
    BY <2>3, HeadOf
  <2>5. Of(Tail(mailbox) \o PoolMail) = Of(Tail(mailbox)) \cup Of(PoolMail)
    BY <1>1, <2>1, <2>4, OfOps
  <2> HIDE DEF PoolMail
  <2> QED BY <2>2, <2>3, <2>4, <2>5
<1>4. ASSUME NEW ins, NEW outs, NEW eaten, NEW popped, NEW un, NEW made,
             NEW kicks \in Nat,
             PostWork(ins, outs, eaten, popped, un, made, kicks)
      PROVE  Goal
  <2> DEFINE f == [k \in 1 .. kicks |-> SelfKick]
             g == IF TokenUnique /\ Workable' THEN <<SelfKick>> ELSE <<>>
  <2>1. f \in Seq(Message) /\ g \in Seq(Message)
    BY Messages, IndexedMail
  <2>2. Of(f) \subseteq {SelfKick} /\ Of(g) \subseteq {SelfKick}
    BY DEF Of
  <2>3. mailbox' = (mailbox \o f) \o g
    BY <1>4 DEF PostWork
  <2> HIDE DEF f, g
  <2>4. mailbox \o f \in Seq(Message)
    BY <2>1
  <2>5. Of((mailbox \o f) \o g) = Of(mailbox \o f) \cup Of(g)
    BY <1>1, <2>1, <2>4, OfOps
  <2>6. Of(mailbox \o f) = Of(mailbox) \cup Of(f)
    BY <1>1, <2>1, OfOps
  <2> QED BY <1>1, <2>2, <2>3, <2>5, <2>6
<1>5. ASSUME UNCHANGED mailbox PROVE Goal
  BY <1>5
<1> SUFFICES Goal
  OBVIOUS
<1> HIDE DEF Goal
<1>6. CASE \/ \E t \in {"TopThread", "TopConfig"} : HandleTopSetup(t)
           \/ HandleTopToken \/ HandleTopActive \/ HandleTopInert
           \/ \E t \in {"Callable", "GetStats"} : HandleCall(t)
           \/ HandleSelfKick
  <2>1. ASSUME NEW t, HandleTopSetup(t) PROVE Goal
    BY <1>2, <2>1 DEF HandleTopSetup
  <2>2. ASSUME NEW t, HandleCall(t) PROVE Goal
    BY <1>2, <2>2 DEF HandleCall
  <2>3. CASE HandleTopToken \/ HandleTopActive \/ HandleTopInert \/ HandleSelfKick
    BY <1>2, <2>3 DEF HandleTopToken, HandleTopActive, HandleTopInert,
                      HandleSelfKick
  <2> QED BY <1>6, <2>1, <2>2, <2>3
<1>7. CASE \/ HandleInputBuffer \/ HandleInputMsg \/ HandleInputCheck
           \/ HandleInputUpdate \/ HandleOutputBuffer \/ HandleOutputCheck
           \/ HandleOutputUpdate
  <2>1. CASE HandleInputBuffer \/ HandleInputMsg
    BY <1>2, <2>1 DEF HandleInputBuffer, HandleInputMsg
  <2>2. CASE HandleInputCheck \/ HandleInputUpdate
    BY <1>2, <2>2 DEF HandleInputCheck, HandleInputUpdate
  <2>3. CASE HandleOutputCheck \/ HandleOutputUpdate
    BY <1>2, <2>3 DEF HandleOutputCheck, HandleOutputUpdate
  <2>4. CASE HandleOutputBuffer
    <3>1. \/ Take
          \/ mailbox' = Append(Tail(mailbox), Msg)
      BY <2>4 DEF HandleOutputBuffer, Take
    <3>2. Receive("OutputBuffer")
      BY <2>4 DEF HandleOutputBuffer
    <3> QED BY <1>2, <3>1, <3>2
  <2> QED BY <1>7, <2>1, <2>2, <2>3, <2>4
<1>8. CASE WorkRefused \/ WorkStarts \/ WorkMarksDone
  BY <1>5, <1>8 DEF WorkRefused, WorkStarts, WorkMarksDone
<1>9. CASE WorkReturns
  <2>1. PICK eaten \in [Inputs -> 0 .. MaxFeed * MaxChunk],
             popped \in [Inputs -> 0 .. MaxFeed],
             made \in [Outputs -> 0 .. OutSize],
             unstitched \in [Inputs -> BOOLEAN] :
             PostWork(in, out, eaten, popped, unstitched, made, 0)
    BY <1>9 DEF WorkReturns
  <2> QED BY <1>4, <2>1
<1>10. ASSUME NEW i \in Inputs, WorkFailsInput(i) PROVE Goal
  <2>1. CASE Throw("input_maximal")
    BY <1>5, <2>1 DEF Throw
  <2>2. CASE ~ Throw("input_maximal")
    <3>1. (IF IsWorkAllowed THEN 1 ELSE 0) \in Nat
      OBVIOUS
    <3> QED BY <1>4, <1>10, <2>2, <3>1 DEF WorkFailsInput
  <2> QED BY <2>1, <2>2
<1>11. ASSUME NEW i \in Inputs, CheckInputDone(i) PROVE Goal
  BY <1>5, <1>11 DEF CheckInputDone
<1>12. ASSUME NEW o \in Outputs, NEW n \in 0 .. OutSize, WorkFailsOutput(o, n)
       PROVE  Goal
  <2>1. CASE \E what \in {"output_partial", "output_empty"} : Throw(what)
    BY <1>5, <2>1 DEF Throw
  <2> QED BY <1>4, <1>12, <2>1 DEF WorkFailsOutput
<1> QED BY <1>3, <1>6, <1>7, <1>8, <1>9, <1>10, <1>11, <1>12 DEF Actor
\* What a step may do to the state of the block, the token and the pools.
LEMMA StateStep ==
    ASSUME Typed, WorkIsLive, [Next]_vars
    PROVE  \/ /\ block_state # "DONE" /\ block_state' = "DONE"
              /\ holds_token' = FALSE /\ pool' = 0
              /\ \/ pc = "work" \/ checking # {}
                 \/ \E m \in Of(mailbox) : m.type \in {"TopInert", "OutputCheck"}
           \/ HandleTopActive
           \/ /\ block_state' = block_state
              /\ holds_token' = holds_token \/ HandleTopToken
              /\ pool' = pool \/ HandleTopAlloc
<1> DEFINE Same == /\ block_state' = block_state /\ holds_token' = holds_token
                   /\ pool' = pool
           Ends == /\ block_state # "DONE" /\ block_state' = "DONE"
                   /\ holds_token' = FALSE /\ pool' = 0
<1>1. ASSUME NEW ins, NEW outs, MarkDone(ins, outs) PROVE Same \/ Ends
  BY <1>1 DEF MarkDone
<1>2. CASE Environment
  BY <1>2 DEF Environment, UpstreamActive, UpstreamSends, UpstreamPostsMsg,
     UpstreamDone, DownstreamReturns, DownstreamDone, CallProperty, QueryStats,
     ReleaseCopy, CommitConfig, StartStep, StartAgain, Stop, WaitPoll, Ask, block
<1>3. CASE UNCHANGED vars
  BY <1>3 DEF vars, block
<1>4. ASSUME NEW t, HandleTopSetup(t) \/ HandleCall(t) PROVE Same
  BY <1>4 DEF HandleTopSetup, HandleCall, block
<1>5. CASE \/ HandleInputBuffer \/ HandleInputMsg \/ HandleInputCheck
           \/ HandleInputUpdate
  BY <1>5 DEF HandleInputBuffer, HandleInputMsg, HandleInputCheck,
     HandleInputUpdate, Dropped, ThenMain, block
<1>6. CASE \/ HandleOutputBuffer \/ HandleOutputUpdate \/ HandleSelfKick
  BY <1>6 DEF HandleOutputBuffer, HandleOutputUpdate, HandleSelfKick, Dropped,
     ThenMain, block
<1>7. CASE HandleTopToken
  BY <1>7 DEF HandleTopToken
<1>8. CASE HandleTopAlloc
  BY <1>8 DEF HandleTopAlloc
<1>9. CASE HandleTopInert \/ HandleOutputCheck
  <2>1. \E m \in Of(mailbox) : m.type \in {"TopInert", "OutputCheck"}
    BY <1>9, HeadOf DEF HandleTopInert, HandleOutputCheck
  <2>2. Same \/ Ends
    BY <1>1, <1>9 DEF HandleTopInert, HandleOutputCheck
  <2> QED BY <2>1, <2>2
<1>10. ASSUME NEW i \in Inputs, CheckInputDone(i)
       PROVE  Same \/ (Ends /\ checking # {})
  BY <1>1, <1>10 DEF CheckInputDone
<1>11. ASSUME NEW ins, NEW outs, NEW eaten, NEW popped, NEW un, NEW made,
              NEW kicks, PostWork(ins, outs, eaten, popped, un, made, kicks)
       PROVE  Same
  BY <1>11 DEF PostWork
<1>12. ASSUME NEW what, Throw(what) PROVE Same
  BY <1>12 DEF Throw, block
<1>13. CASE WorkRefused \/ WorkStarts
  BY <1>13 DEF WorkRefused, WorkStarts, block
<1>14. CASE WorkReturns
  BY <1>11, <1>14 DEF WorkReturns
<1>15. CASE WorkMarksDone
  BY <1>15 DEF WorkMarksDone, WorkIsLive
<1>16. ASSUME NEW i \in Inputs, WorkFailsInput(i) PROVE Same
  BY <1>11, <1>12, <1>16 DEF WorkFailsInput
<1>17. ASSUME NEW o \in Outputs, NEW n \in 0 .. OutSize, WorkFailsOutput(o, n)
       PROVE  Same
  BY <1>11, <1>12, <1>17 DEF WorkFailsOutput
<1> QED BY <1>2, <1>3, <1>4, <1>5, <1>6, <1>7, <1>8, <1>9, <1>10, <1>13,
          <1>14, <1>15, <1>16, <1>17 DEF Next, Actor

\* What a step may do to start() and to the neighbours.
LEMMA StartSteps ==
    ASSUME Typed, [Next]_vars
    PROVE  /\ top_step' = top_step \/ StartStep \/ StartAgain
           /\ (Top \in waiting /\ Top \notin waiting') =>
                 \E m \in Of(mailbox) :
                    /\ m.from = Top
                    /\ m.type = "TopToken" => HandleTopToken
                    /\ m.type = "TopActive" => HandleTopActive
           /\ Top \in waiting' => Top \in waiting \/ StartStep \/ Stop
           /\ \A i \in Inputs : upstream'[i] = "live" =>
                 upstream[i] = "live" \/ OthersMayBeLive
           /\ \/ checking' \subseteq checking
              \/ \E m \in Of(mailbox) : m.type = "InputCheck"
           /\ budget'["starts"] <= budget["starts"]
           /\ StartAgain => budget["starts"] > 0
<1> DEFINE Calm == /\ top_step' = top_step /\ waiting' = waiting
                   /\ upstream' = upstream /\ checking' \subseteq checking
                   /\ budget' = budget
           Goal == /\ top_step' = top_step \/ StartStep \/ StartAgain
                   /\ (Top \in waiting /\ Top \notin waiting') =>
                         \E m \in Of(mailbox) :
                            /\ m.from = Top
                            /\ m.type = "TopToken" => HandleTopToken
                            /\ m.type = "TopActive" => HandleTopActive
                   /\ Top \in waiting' => Top \in waiting \/ StartStep \/ Stop
                   /\ \A i \in Inputs : upstream'[i] = "live" =>
                         upstream[i] = "live" \/ OthersMayBeLive
                   /\ \/ checking' \subseteq checking
                      \/ \E m \in Of(mailbox) : m.type = "InputCheck"
                   /\ budget'["starts"] <= budget["starts"]
                   /\ StartAgain => budget["starts"] > 0
<1> /\ budget \in [{"feed", "calls", "commits", "starts"} -> Nat]
    /\ upstream \in [Inputs -> {"absent", "holding", "live"}]
  BY DEF Typed, TypeOK
<1>1. StartAgain => budget["starts"] > 0
  BY DEF StartAgain, Spend
<1>2. ASSUME Calm PROVE Goal
  BY <1>1, <1>2
<1>3. ASSUME NEW w \in {"feed", "calls", "commits"}, Spend(w)
      PROVE  budget'["starts"] = budget["starts"]
  BY <1>3 DEF Spend
<1>4. ASSUME Environment PROVE Goal
  <2>1. ASSUME NEW i \in Inputs, UpstreamActive(i) PROVE Goal
    BY <1>1, <2>1 DEF UpstreamActive, handler, threads
  <2>2. ASSUME NEW i \in Inputs, UpstreamSends(i) \/ UpstreamPostsMsg(i)
        PROVE  Goal
    BY <1>1, <1>3, <2>2 DEF UpstreamSends, UpstreamPostsMsg, handler, neighbours
  <2>3. ASSUME NEW i \in Inputs, UpstreamDone(i) PROVE Goal
    BY <1>1, <2>3 DEF UpstreamDone, handler, threads
  <2>4. ASSUME NEW o \in Outputs, DownstreamReturns(o) \/ DownstreamDone(o)
        PROVE  Calm
    BY <2>4 DEF DownstreamReturns, DownstreamDone, handler, threads
  <2>5. ASSUME NEW c \in Callers \cup Monitors, NEW t, Spend("calls"), Ask(c, t),
               UNCHANGED top_step
        PROVE  Goal
    <3>1. c # Top
      BY BlockActorAssumption
    <3> QED BY <1>1, <1>3, <2>5, <3>1 DEF Ask, handler, neighbours
  <2>6. ASSUME NEW x \in Senders, ReleaseCopy(x) PROVE Calm
    BY <2>6 DEF ReleaseCopy, handler, neighbours
  <2>7. ASSUME NEW ins, NEW outs, CommitConfig(ins, outs) PROVE Goal
    BY <1>1, <1>3, <2>7 DEF CommitConfig, handler, neighbours
  <2>8. CASE StartStep \/ Stop
    BY <1>1, <2>8 DEF StartStep, Stop, Ask, handler, neighbours
  <2>9. CASE StartAgain
    <3>1. budget'["starts"] <= budget["starts"]
      BY <2>9 DEF StartAgain, Spend
    <3> QED BY <1>1, <2>9, <3>1 DEF StartAgain, handler, neighbours
  <2>10. CASE WaitPoll
    BY <1>2, <2>10 DEF WaitPoll, handler, neighbours, threads
  <2> QED BY <1>2, <1>4, <2>1, <2>2, <2>3, <2>4, <2>5, <2>6, <2>7, <2>8, <2>9,
            <2>10 DEF Environment, CallProperty, QueryStats
<1>5. ASSUME NEW t, Receive(t), Answer, checking' = checking,
             t = "TopToken" => HandleTopToken,
             t = "TopActive" => HandleTopActive,
             \A i \in Inputs : upstream'[i] = "live" => upstream[i] = "live"
      PROVE  Goal
  <2>1. Msg \in Of(mailbox) /\ Msg.type = t
    BY <1>5, HeadOf
  <2>2. /\ waiting' = waiting \ {Msg.from} /\ top_step' = top_step
        /\ budget' = budget
    BY <1>5 DEF Answer
  <2> QED BY <1>1, <1>5, <2>1, <2>2
<1>6. ASSUME NEW t \in {"TopThread", "TopConfig"}, HandleTopSetup(t) PROVE Goal
  BY <1>5, <1>6 DEF HandleTopSetup, handler, neighbours
<1>7. CASE HandleTopToken
  <2>1. \A i \in Inputs : upstream'[i] = "live" => upstream[i] = "live"
    BY <1>7 DEF HandleTopToken
  <2> QED BY <1>5, <1>7, <2>1 DEF HandleTopToken, handler
<1>8. CASE HandleTopAlloc
  BY <1>5, <1>8 DEF HandleTopAlloc, handler
<1>9. CASE HandleTopActive
  BY <1>5, <1>9 DEF HandleTopActive, handler, neighbours
<1>10. CASE HandleTopInert
  BY <1>5, <1>10 DEF HandleTopInert, handler
<1>11. ASSUME NEW t \in {"Callable", "GetStats"}, HandleCall(t) PROVE Goal
  BY <1>5, <1>11 DEF HandleCall, handler, neighbours
<1>12. CASE HandleInputCheck
  <2>1. \E m \in Of(mailbox) : m.type = "InputCheck"
    BY <1>12, HeadOf DEF HandleInputCheck
  <2> QED BY <1>1, <1>12, <2>1 DEF HandleInputCheck, neighbours, threads
<1>13. CASE \/ HandleInputBuffer \/ HandleInputMsg \/ HandleInputUpdate
  BY <1>2, <1>13 DEF HandleInputBuffer, HandleInputMsg, HandleInputUpdate,
     Dropped, ThenMain, handler, neighbours, threads
<1>14. CASE \/ HandleOutputBuffer \/ HandleOutputCheck \/ HandleOutputUpdate
            \/ HandleSelfKick
  BY <1>2, <1>14 DEF HandleOutputBuffer, HandleOutputCheck, HandleOutputUpdate,
     HandleSelfKick, Dropped, ThenMain, handler, neighbours, threads
<1>15. ASSUME NEW ins, NEW outs, NEW eaten, NEW popped, NEW un, NEW made,
              NEW kicks, PostWork(ins, outs, eaten, popped, un, made, kicks)
       PROVE  Calm
  BY <1>15 DEF PostWork, threads
<1>16. ASSUME NEW what, Throw(what) PROVE Calm
  BY <1>16 DEF Throw, neighbours, threads
<1>17. CASE WorkRefused \/ WorkStarts \/ WorkMarksDone
  BY <1>2, <1>17 DEF WorkRefused, WorkStarts, WorkMarksDone, neighbours, threads
<1>18. CASE WorkReturns
  BY <1>2, <1>15, <1>18 DEF WorkReturns
<1>19. ASSUME NEW i \in Inputs, WorkFailsInput(i) PROVE Goal
  BY <1>2, <1>15, <1>16, <1>19 DEF WorkFailsInput
<1>20. ASSUME NEW i \in Inputs, CheckInputDone(i) PROVE Goal
  BY <1>2, <1>20 DEF CheckInputDone, threads
<1>21. ASSUME NEW o \in Outputs, NEW n \in 0 .. OutSize, WorkFailsOutput(o, n)
       PROVE  Goal
  BY <1>2, <1>15, <1>16, <1>21 DEF WorkFailsOutput
<1>22. CASE UNCHANGED vars
  BY <1>2, <1>22 DEF vars, handler, neighbours, threads
<1> QED BY <1>4, <1>6, <1>7, <1>8, <1>9, <1>10, <1>11, <1>12, <1>13, <1>14,
          <1>17, <1>18, <1>19, <1>20, <1>21, <1>22 DEF Next, Actor
\* work() runs from task_main on, and meanwhile only other threads step.
LEMMA StepInWork ==
    ASSUME [Next]_vars, pc' = "work"
    PROVE  \/ WorkStarts
           \/ /\ pc = "work" /\ block_state' = block_state /\ failed' = failed
              /\ \/ UNCHANGED in
                 \/ \E ins \in [Inputs -> InReserves],
                       outs \in [Outputs -> OutReserves] : CommitConfig(ins, outs)
<1>1. CASE Environment
  BY <1>1 DEF Environment, UpstreamActive, UpstreamSends, UpstreamPostsMsg,
     UpstreamDone, DownstreamReturns, DownstreamDone, CallProperty, QueryStats,
     ReleaseCopy, CommitConfig, StartStep, StartAgain, Stop, WaitPoll, Ask,
     handler, block, aux
<1>2. CASE UNCHANGED vars
  BY <1>2 DEF vars, handler, block, aux
<1>3. CASE Actor
  <2>1. AfterMain # "work"
    BY DEF AfterMain
  <2>2. ASSUME NEW t, HandleTopSetup(t) \/ HandleCall(t) PROVE FALSE
    BY <2>2 DEF HandleTopSetup, HandleCall, Receive, handler
  <2>3. ~ (\/ HandleTopToken \/ HandleTopAlloc \/ HandleTopActive
           \/ HandleTopInert \/ HandleInputBuffer \/ HandleInputMsg
           \/ HandleInputCheck \/ HandleInputUpdate)
    BY DEF HandleTopToken, HandleTopAlloc, HandleTopActive, HandleTopInert,
       HandleInputBuffer, HandleInputMsg, HandleInputCheck, HandleInputUpdate,
       Receive, Dropped, ThenMain, handler
  <2>4. ~ (\/ HandleOutputBuffer \/ HandleOutputCheck \/ HandleOutputUpdate
           \/ HandleSelfKick)
    BY DEF HandleOutputBuffer, HandleOutputCheck, HandleOutputUpdate,
       HandleSelfKick, Receive, Dropped, ThenMain, handler
  <2>5. ASSUME NEW ins, NEW outs, NEW eaten, NEW popped, NEW un, NEW made,
               NEW kicks, PostWork(ins, outs, eaten, popped, un, made, kicks)
        PROVE  FALSE
    BY <2>1, <2>5 DEF PostWork
  <2>6. ASSUME NEW what, Throw(what) PROVE FALSE
    BY <2>6 DEF Throw
  <2>7. ~ (WorkRefused \/ WorkReturns \/ WorkMarksDone)
    BY <2>1, <2>5 DEF WorkRefused, WorkReturns, WorkMarksDone
  <2>8. ASSUME NEW i \in Inputs, WorkFailsInput(i) \/ CheckInputDone(i)
        PROVE  FALSE
    BY <2>5, <2>6, <2>8 DEF WorkFailsInput, CheckInputDone
  <2>9. ASSUME NEW o \in Outputs, NEW n \in 0 .. OutSize, WorkFailsOutput(o, n)
        PROVE  FALSE
    BY <2>5, <2>6, <2>9 DEF WorkFailsOutput
  <2> QED BY <1>3, <2>2, <2>3, <2>4, <2>7, <2>8, <2>9 DEF Actor
<1> QED BY <1>1, <1>2, <1>3 DEF Next

\* work() is only called on a LIVE block, and nobody else changes its state.
LEMMA WorkIsLiveAlways == Spec => []WorkIsLive
<1>1. Init => WorkIsLive
  BY DEF Init, WorkIsLive
<1>2. WorkIsLive /\ [Next]_vars => WorkIsLive'
  <2> SUFFICES ASSUME WorkIsLive, [Next]_vars, pc' = "work"
               PROVE  block_state' = "LIVE"
    BY DEF WorkIsLive
  <2>1. CASE WorkStarts
    BY <2>1 DEF WorkStarts, IsWorkAllowed, Workable
  <2>2. CASE ~WorkStarts
    BY <2>2, StepInWork DEF WorkIsLive
  <2> QED BY <2>1, <2>2
<1> QED BY <1>1, <1>2, PTL DEF Spec

\* What a step adds to the mailbox.
LEMMA StepPosts ==
    ASSUME Typed, [Next]_vars, NEW m \in Of(mailbox')
    PROVE  m \in Of(mailbox) \/ Posted(m)
<1>1. CASE UNCHANGED vars
  BY <1>1 DEF vars
<1> QED BY <1>1, EnvironmentPosts, ActorPosts DEF Next

\* The message of start() that is queued is the last one sent.
LEMMA StartMailNext == Typed /\ MailOK /\ StartMail /\ [Next]_vars => StartMail'
<1> SUFFICES ASSUME Typed, MailOK, StartMail, [Next]_vars, NEW m \in Of(mailbox')
             PROVE  /\ m.from = Top =>
                           /\ top_step' \in 1 .. 5
                           /\ \/ m.type = StartSeq[top_step']
                              \/ top_step' = 5 /\ m.type = "TopInert"
                    /\ m.type = "TopActive" => m.from = Top
  BY DEF StartMail
<1>1. top_step \in 0 .. 5
  BY DEF Typed, TypeOK
<1>2. top_step' = top_step \/ StartStep \/ StartAgain
  BY StartSteps
<1>3. CASE m \in Of(mailbox)
  <2>1. m.from = Top => Top \in waiting
    BY <1>3, MailOf
  <2>2. m.from = Top => top_step' = top_step
    BY <1>2, <2>1 DEF StartStep, StartAgain, Ask
  <2> QED BY <1>3, <2>2 DEF StartMail
<1>4. CASE Posted(m)
  <2>1. CASE StartStep
    <3>1. /\ top_step' = top_step + 1 /\ top_step' \in 1 .. 5
          /\ Top \notin waiting /\ top_step < 5
      BY <1>1, <2>1 DEF StartStep, Ask
    <3>2. m.from = Top => m.type = StartSeq[top_step + 1]
      BY <1>4, <2>1, <3>1, NobodyIsNotTop DEF Posted, Stop
    <3>3. m.type = "TopActive" => m.from = Top
      BY <1>4 DEF Posted
    <3> QED BY <3>1, <3>2, <3>3
  <2>2. CASE ~StartStep
    <3>1. m.from = Top => Stop /\ m.type = "TopInert"
      BY <1>4, <2>2, NobodyIsNotTop DEF Posted
    <3>2. Stop => top_step = 5 /\ top_step' = 5
      BY DEF Stop
    <3>3. m.type = "TopActive" => m.from = Top
      BY <1>4 DEF Posted
    <3> QED BY <3>1, <3>2, <3>3
  <2> QED BY <2>1, <2>2
<1> QED BY <1>3, <1>4, StepPosts

\* How far start() has come can be read from the mailbox, in every state.
LEMMA StartMailAlways == Spec => []StartMail
<1>1. Init => StartMail
  BY DEF Init, StartMail, Of
<1> QED BY <1>1, StartMailNext, TypedAlways, MailAlways, PTL DEF Spec
\* When TopActive is handled start() has sent all it sends, and there is no
\* second one.
LEMMA ActiveHandled ==
    ASSUME Typed, MailOK, StartMail, HandleTopActive
    PROVE  /\ top_step = 5 /\ top_step' = 5 /\ block_state' = "LIVE"
           /\ \A m \in Of(mailbox') : m.type # "TopActive"
<1>1. /\ Msg \in Of(mailbox) /\ Msg.type = "TopActive"
      /\ Tail(mailbox) \in Seq(Message) /\ Receive("TopActive")
      /\ Of(mailbox) = {Msg} \cup Of(Tail(mailbox))
  BY HeadOf DEF HandleTopActive
<1>2. Msg.from = Top
  BY <1>1 DEF StartMail
<1>3. top_step \in 1 .. 5 /\ StartSeq[top_step] = "TopActive"
  BY <1>1, <1>2 DEF StartMail
<1>4. top_step = 5
  BY <1>3 DEF StartSeq
<1>5. Mail(Tail(mailbox), waiting \ {Msg.from}, top_step)
  BY <1>1, MailTail DEF Receive, MailOK, Msg, Typed, TypeOK
<1>6. \A m \in Of(Tail(mailbox)) : m.from # Top
  BY <1>2, <1>5 DEF Mail, Of
<1>7. \A m \in Of(Tail(mailbox)) : m.type # "TopActive"
  BY <1>1, <1>6 DEF StartMail
<1>8. Of(mailbox') = Of(Tail(mailbox)) \cup {SelfKick}
  BY <1>1, OfOps, Messages DEF HandleTopActive, TakeAndKick
<1>9. SelfKick.type # "TopActive"
  BY DEF SelfKick, PortMsg
<1> QED BY <1>4, <1>7, <1>8, <1>9 DEF HandleTopActive, Answer

\* The setup messages come before TopActive is sent.
LEMMA SetupHandled ==
    ASSUME Typed, MailOK
    PROVE  HandleTopToken \/ HandleTopAlloc => top_step \in 1 .. 4
<1>1. ASSUME NEW t \in SetupMsgs, Receive(t) PROVE top_step \in 1 .. 4
  BY <1>1, HeadOf, MailOf
<1> QED BY <1>1 DEF HandleTopToken, HandleTopAlloc, SetupMsgs

-----------------------------------------------------------------------------
(* The token of the top block.  In the first start() of a graph whose      *)
(* blocks become LIVE after this one, nothing ends the block before it is  *)
(* activated, and it gets the token before that.                           *)

Early == /\ top_step < 5 \/ Top \in waiting
         /\ \A i \in Inputs : upstream[i] # "live"
         /\ \A m \in Of(mailbox) :
                m.type \notin {"InputCheck", "OutputCheck", "TopInert"}
         /\ checking = {}
         /\ top_step > 2 \/ (top_step = 2 /\ Top \notin waiting) => holds_token = TRUE
Late == top_step = 5 /\ \A m \in Of(mailbox) : m.type # "TopActive"

FirstStart == /\ budget["starts"] = 0
              /\ block_state = "INIT" => Early
              /\ block_state # "INIT" => Late
              /\ block_state = "LIVE" => holds_token = TRUE

\* Before the first TopActive is answered nothing is live around the block.
LEMMA EarlyNext ==
    ASSUME ~NeighboursFirst, Typed, MailOK, StartMail, WorkIsLive, FirstStart,
           [Next]_vars, block_state = "INIT"
    PROVE  block_state' # "DONE" /\ (block_state' = "INIT" => Early')
<1> top_step \in 0 .. 5 /\ top_step' \in 0 .. 5
  <2>1. Typed'
    BY TypedNext
  <2> QED BY <2>1 DEF Typed, TypeOK
<1> Early /\ budget["starts"] = 0
  BY DEF FirstStart
<1>1. ~OthersMayBeLive
  BY DEF Early, OthersMayBeLive
<1>2. ~StartAgain
  BY StartSteps
<1>3. ~Stop
  BY DEF Early, Stop, Ask
<1>4. top_step' = top_step \/ StartStep
  BY <1>2, StartSteps
<1>5. StartStep => /\ top_step' = top_step + 1 /\ top_step < 5
                   /\ Top \in waiting' /\ Top \notin waiting
                   /\ holds_token' = holds_token
  BY DEF StartStep, Ask, block
<1>6. (Top \in waiting /\ Top \notin waiting') =>
          \/ HandleTopActive
          \/ top_step < 5 /\ (top_step = 2 => HandleTopToken)
  <2> SUFFICES ASSUME Top \in waiting, Top \notin waiting'
               PROVE  \/ HandleTopActive
                      \/ top_step < 5 /\ (top_step = 2 => HandleTopToken)
    OBVIOUS
  <2>1. PICK m \in Of(mailbox) : /\ m.from = Top
                                 /\ m.type = "TopToken" => HandleTopToken
                                 /\ m.type = "TopActive" => HandleTopActive
    BY StartSteps
  <2>2. top_step \in 1 .. 5 /\ m.type = StartSeq[top_step]
    BY <2>1 DEF StartMail, Early
  <2>3. StartSeq[2] = "TopToken" /\ StartSeq[5] = "TopActive"
    BY DEF StartSeq
  <2> QED BY <2>1, <2>2, <2>3
<1>7. \/ HandleTopActive
      \/ /\ block_state' = block_state
         /\ holds_token' = holds_token \/ HandleTopToken
  BY StateStep DEF Early, WorkIsLive
<1>8. HandleTopActive => block_state' = "LIVE"
  BY DEF HandleTopActive
<1>9. HandleTopToken => holds_token' = TRUE
  BY DEF HandleTopToken
<1>10. ASSUME block_state' = "INIT" PROVE Early'
  <2>1. ~HandleTopActive
    BY <1>8, <1>10
  <2>2. top_step' < 5 \/ Top \in waiting'
    BY <1>4, <1>5, <1>6, <2>1 DEF Early
  <2>3. \A i \in Inputs : upstream'[i] # "live"
    BY <1>1, StartSteps DEF Early
  <2>4. \A m \in Of(mailbox') :
            m.type \notin {"InputCheck", "OutputCheck", "TopInert"}
    <3> SUFFICES ASSUME NEW m \in Of(mailbox'), Posted(m), m \notin Of(mailbox)
                 PROVE  m.type \notin {"InputCheck", "OutputCheck", "TopInert"}
      BY StepPosts DEF Early
    <3>1. StartStep => StartSeq[top_step + 1] \in SetupMsgs \cup {"TopActive"}
      BY <1>5 DEF StartSeq, SetupMsgs
    <3> QED BY <1>1, <1>3, <3>1 DEF Posted, Early, SetupMsgs
  <2>5. checking' = {}
    BY StartSteps DEF Early
  <2>6. top_step' > 2 \/ (top_step' = 2 /\ Top \notin waiting')
            => holds_token' = TRUE
    <3>1. CASE StartStep
      BY <1>5, <3>1 DEF Early
    <3>2. CASE ~StartStep
      BY <1>4, <1>6, <1>7, <1>9, <2>1, <3>2 DEF Early
    <3> QED BY <3>1, <3>2
  <2> QED BY <2>2, <2>3, <2>4, <2>5, <2>6 DEF Early
<1> QED BY <1>7, <1>8, <1>10

\* The first start() goes as FirstStart says.
LEMMA FirstStartNext ==
    ASSUME ~NeighboursFirst, Typed, MailOK, StartMail, WorkIsLive, FirstStart,
           [Next]_vars
    PROVE  FirstStart'
<1>1. budget'["starts"] = 0
  <2>1. Typed'
    BY TypedNext
  <2>2. budget'["starts"] \in Nat
    BY <2>1 DEF Typed, TypeOK
  <2> QED BY <2>2, StartSteps DEF FirstStart
<1>2. block_state \in {"INIT", "LIVE", "DONE"}
  BY DEF Typed, TypeOK
<1>3. CASE block_state = "INIT"
  <2>1. block_state' # "DONE" /\ (block_state' = "INIT" => Early')
    BY <1>3, EarlyNext
  <2>2. CASE HandleTopActive
    <3>1. top_step = 5 /\ block_state' = "LIVE" /\ Late'
      BY <2>2, ActiveHandled DEF Late
    <3>2. holds_token = TRUE /\ holds_token' = holds_token
      BY <1>3, <2>2, <3>1 DEF FirstStart, Early, HandleTopActive
    <3> QED BY <1>1, <3>1, <3>2 DEF FirstStart
  <2>3. CASE ~HandleTopActive
    <3>1. block_state' = "INIT"
      BY <1>3, <2>1, <2>3, StateStep
    <3> QED BY <1>1, <2>1, <3>1 DEF FirstStart
  <2> QED BY <2>2, <2>3
<1>4. CASE block_state # "INIT"
  <2>1. Late /\ (block_state = "LIVE" => holds_token = TRUE)
    BY <1>4 DEF FirstStart
  <2>2. ~StartStep /\ ~StartAgain
    <3>1. budget["starts"] = 0
      BY DEF FirstStart
    <3> QED BY <2>1, <3>1, StartSteps DEF Late, StartStep
  <2>3. Late'
    <3>1. top_step' = 5
      BY <2>1, <2>2, StartSteps DEF Late
    <3>2. \A m \in Of(mailbox') : m.type # "TopActive"
      BY <2>1, <2>2, StepPosts DEF Late, Posted
    <3> QED BY <3>1, <3>2 DEF Late
  <2>4. ~HandleTopActive
    BY <2>1, HeadOf DEF HandleTopActive, Late
  <2>5. ~HandleTopToken
    BY <2>1, SetupHandled DEF Late
  <2>6. block_state' # "INIT" /\ (block_state' = "LIVE" => holds_token' = TRUE)
    BY <1>4, <2>1, <2>4, <2>5, StateStep
  <2> QED BY <1>1, <2>3, <2>6 DEF FirstStart
<1> QED BY <1>2, <1>3, <1>4

\* FirstStart holds as long as the flow graph is not started again.
LEMMA FirstStartAlways ==
    ASSUME MaxStarts = 0, ~NeighboursFirst
    PROVE  Spec => []FirstStart
<1>1. Init => FirstStart
  BY DEF Init, FirstStart, Early, Of
<1>2. Typed /\ MailOK /\ StartMail /\ WorkIsLive /\ FirstStart /\ [Next]_vars
          => FirstStart'
  BY FirstStartNext
<1> QED BY <1>1, <1>2, TypedAlways, MailAlways, StartMailAlways,
          WorkIsLiveAlways, PTL DEF Spec

\* wait() waits for the token, and a LIVE block holds it: in the first start()
\* of a graph, if no neighbour is activated before this block.
THEOREM TokenWhileLive ==
    ASSUME MaxStarts = 0, ~NeighboursFirst
    PROVE  Spec => []LiveHoldsToken
<1>1. FirstStart => LiveHoldsToken
  BY DEF FirstStart, LiveHoldsToken
<1> QED BY <1>1, FirstStartAlways, PTL
\* TopActive is handled by nobody but its handler.
LEMMA OnlyTopActive ==
    ASSUME Actor, Receive("TopActive")
    PROVE  HandleTopActive
<1>1. pc = "idle" /\ Msg.type = "TopActive"
  BY DEF Receive
<1>2. ASSUME NEW t \in {"TopThread", "TopConfig"}, HandleTopSetup(t) PROVE FALSE
  BY <1>1, <1>2 DEF HandleTopSetup, Receive
<1>3. ASSUME NEW t \in {"Callable", "GetStats"}, HandleCall(t) PROVE FALSE
  BY <1>1, <1>3 DEF HandleCall, Receive
<1>4. ~ (\/ HandleTopToken \/ HandleTopAlloc \/ HandleTopInert
         \/ HandleInputBuffer \/ HandleInputMsg \/ HandleInputCheck
         \/ HandleInputUpdate \/ HandleOutputBuffer \/ HandleOutputCheck
         \/ HandleOutputUpdate \/ HandleSelfKick)
  BY <1>1 DEF HandleTopToken, HandleTopAlloc, HandleTopInert,
     HandleInputBuffer, HandleInputMsg, HandleInputCheck, HandleInputUpdate,
     HandleOutputBuffer, HandleOutputCheck, HandleOutputUpdate,
     HandleSelfKick, Receive
<1>5. ~ (WorkRefused \/ WorkStarts \/ WorkReturns \/ WorkMarksDone)
  BY <1>1 DEF WorkRefused, WorkStarts, WorkReturns, WorkMarksDone
<1>6. ASSUME NEW i, WorkFailsInput(i) \/ CheckInputDone(i) PROVE FALSE
  BY <1>1, <1>6 DEF WorkFailsInput, CheckInputDone
<1>7. ASSUME NEW o, NEW n, WorkFailsOutput(o, n) PROVE FALSE
  BY <1>1, <1>7 DEF WorkFailsOutput
<1> QED BY <1>2, <1>3, <1>4, <1>5, <1>6, <1>7 DEF Actor

-----------------------------------------------------------------------------
(* A block that is DONE.  Its queues stay empty; it gets a token and pools *)
(* again only from start(), which then has TopActive to send.              *)

Emptied == block_state = "DONE" =>
              /\ \A i \in Inputs : in[i].ends = {} /\ in[i].msgs = 0
              /\ \A o \in Outputs : out[o].count = 0

Released == (/\ block_state = "DONE" /\ top_step = 5
             /\ \A m \in Of(mailbox) : m.type # "TopActive")
                => holds_token = FALSE /\ pool = 0

\* mark_done flushes every queue, and does nothing to a block that is DONE.
LEMMA EmptiedMarkDone ==
    ASSUME Typed, Emptied, NEW outs \in [Outputs -> OutputPort],
           \A o \in Outputs : outs[o].count = out[o].count, MarkDone(in, outs)
    PROVE  Emptied'
<1>1. CASE block_state = "DONE"
  BY <1>1 DEF MarkDone, Emptied
<1>2. CASE block_state # "DONE"
  <2>1. \A p \in InputPort : FlushInput(p).ends = {} /\ FlushInput(p).msgs = 0
    BY DEF FlushInput, InputPort
  <2>2. \A p \in OutputPort : FlushOutput(p).count = 0
    BY DEF FlushOutput, NewQueue, OutputPort
  <2>3. /\ in' = [i \in Inputs |-> FlushInput(in[i])]
        /\ out' = [o \in Outputs |-> FlushOutput(outs[o])]
    BY <1>2 DEF MarkDone
  <2> QED BY <2>1, <2>2, <2>3 DEF Typed, TypeOK, Emptied
<1> QED BY <1>1, <1>2

\* Nothing enters a queue of a block that is DONE.
LEMMA EmptiedNext == Typed /\ WorkIsLive /\ Emptied /\ [Next]_vars => Emptied'
<1> SUFFICES ASSUME Typed, WorkIsLive, Emptied, [Next]_vars PROVE Emptied'
  OBVIOUS
<1> in \in [Inputs -> InputPort] /\ out \in [Outputs -> OutputPort]
  BY DEF Typed, TypeOK
<1>1. ASSUME block_state' = block_state,
             \A i \in Inputs : in'[i].ends = in[i].ends /\ in'[i].msgs = in[i].msgs,
             \A o \in Outputs : out'[o].count = out[o].count \/ out'[o].count = 0
      PROVE  Emptied'
  BY <1>1 DEF Emptied
<1>2. ASSUME UNCHANGED <<block_state, in, out>> PROVE Emptied'
  BY <1>2 DEF Emptied
<1>3. ASSUME block_state' = block_state, block_state # "DONE" PROVE Emptied'
  BY <1>3 DEF Emptied
<1>4. CASE Environment
  <2>1. ASSUME NEW ins, NEW outs, CommitConfig(ins, outs) PROVE Emptied'
    <3>1. \A r : \A p \in InputPort : /\ [p EXCEPT !.config = r].ends = p.ends
                                      /\ [p EXCEPT !.config = r].msgs = p.msgs
      BY DEF InputPort
    <3>2. \A r : \A p \in OutputPort : [p EXCEPT !.config = r].count = p.count
      BY DEF OutputPort
    <3>3. /\ in' = [i \in Inputs |-> [in[i] EXCEPT !.config = ins[i]]]
          /\ out' = [o \in Outputs |-> [out[o] EXCEPT !.config = outs[o]]]
          /\ block_state' = block_state
      BY <2>1 DEF CommitConfig
    <3>4. \A i \in Inputs : in'[i].ends = in[i].ends /\ in'[i].msgs = in[i].msgs
      BY <3>1, <3>3
    <3>5. \A o \in Outputs : out'[o].count = out[o].count
      BY <3>2, <3>3
    <3> QED BY <1>1, <3>3, <3>4, <3>5
  <2>2. CASE ~ \E ins \in [Inputs -> InReserves],
                  outs \in [Outputs -> OutReserves] : CommitConfig(ins, outs)
    BY <1>2, <1>4, <2>2 DEF Environment, UpstreamActive, UpstreamSends,
       UpstreamPostsMsg, UpstreamDone, DownstreamReturns, DownstreamDone,
       CallProperty, QueryStats, ReleaseCopy, StartStep, StartAgain, Stop,
       WaitPoll, Ask, block
  <2> QED BY <2>1, <2>2
<1>5. ASSUME NEW t, HandleTopSetup(t) \/ HandleCall(t) PROVE Emptied'
  BY <1>2, <1>5 DEF HandleTopSetup, HandleCall, block
<1>6. CASE HandleTopToken
  <2>1. \A p \in InputPort : /\ [p EXCEPT !.done = FALSE].ends = p.ends
                            /\ [p EXCEPT !.done = FALSE].msgs = p.msgs
    BY DEF InputPort
  <2>2. \A p \in OutputPort : [p EXCEPT !.done = FALSE].count = p.count
    BY DEF OutputPort
  <2>3. /\ in' = [i \in Inputs |-> [in[i] EXCEPT !.done = FALSE]]
        /\ out' = [o \in Outputs |-> [out[o] EXCEPT !.done = FALSE]]
        /\ block_state' = block_state
    BY <1>6 DEF HandleTopToken
  <2>4. \A i \in Inputs : in'[i].ends = in[i].ends /\ in'[i].msgs = in[i].msgs
    BY <2>1, <2>3
  <2>5. \A o \in Outputs : out'[o].count = out[o].count
    BY <2>2, <2>3
  <2> QED BY <1>1, <2>3, <2>4, <2>5
<1>7. CASE HandleTopAlloc
  <2>1. \A p \in OutputPort : NewQueue(p).count = 0
    BY DEF NewQueue, OutputPort
  <2>2. \A o \in Outputs : out'[o].count = 0
    BY <1>7, <2>1 DEF HandleTopAlloc
  <2>3. in' = in /\ block_state' = block_state
    BY <1>7 DEF HandleTopAlloc
  <2> QED BY <1>1, <2>2, <2>3
<1>8. CASE HandleTopActive
  BY <1>8 DEF HandleTopActive, Emptied
<1>9. CASE HandleTopInert
  BY <1>9, EmptiedMarkDone DEF HandleTopInert
<1>10. CASE HandleInputBuffer \/ HandleInputMsg \/ HandleSelfKick
  BY <1>2, <1>3, <1>10 DEF HandleInputBuffer, HandleInputMsg, HandleSelfKick,
     Dropped, ThenMain, block
<1>11. CASE HandleInputCheck
  <2>1. \A b : \A p \in InputPort : /\ [p EXCEPT !.done = b].ends = p.ends
                                    /\ [p EXCEPT !.done = b].msgs = p.msgs
    BY DEF InputPort
  <2>2. /\ in' = [in EXCEPT ![Msg.port] =
                     [in[Msg.port] EXCEPT !.done = upstream[Msg.port] = "absent"]]
        /\ out' = out /\ block_state' = block_state
    BY <1>11 DEF HandleInputCheck
  <2>3. \A i \in Inputs : in'[i].ends = in[i].ends /\ in'[i].msgs = in[i].msgs
    BY <2>1, <2>2
  <2> QED BY <1>1, <2>2, <2>3
<1>12. CASE HandleInputUpdate
  <2> DEFINE Upd(p) == UpdateInputAvail(
                          [[p EXCEPT !.reserve = p.config] EXCEPT !.ready =
                              [p EXCEPT !.reserve = p.config].length
                                 >= [p EXCEPT !.reserve = p.config].reserve])
  <2>1. \A p \in InputPort : Upd(p).ends = p.ends /\ Upd(p).msgs = p.msgs
    BY DEF InputPort, UpdateInputAvail
  <2>2. /\ in' = [in EXCEPT ![Msg.port] = Upd(in[Msg.port])]
        /\ out' = out /\ block_state' = block_state
    BY <1>12 DEF HandleInputUpdate
  <2> HIDE DEF Upd
  <2>3. \A i \in Inputs : in'[i].ends = in[i].ends /\ in'[i].msgs = in[i].msgs
    BY <2>1, <2>2
  <2> QED BY <1>1, <2>2, <2>3
<1>13. CASE HandleOutputBuffer
  BY <1>2, <1>3, <1>13 DEF HandleOutputBuffer, Dropped, ThenMain, block
<1>14. CASE HandleOutputCheck
  <2> DEFINE checked == [out EXCEPT ![Msg.port].done = Msg.port \notin downstream]
  <2>1. /\ checked \in [Outputs -> OutputPort]
        /\ \A o \in Outputs : checked[o].count = out[o].count
    <3>1. \A p \in OutputPort, b \in BOOLEAN :
              /\ [p EXCEPT !.done = b] \in OutputPort
              /\ [p EXCEPT !.done = b].count = p.count
      BY DEF OutputPort
    <3>2. (Msg.port \notin downstream) \in BOOLEAN
      OBVIOUS
    <3> QED BY <3>1, <3>2
  <2>2. \/ MarkDone(in, checked)
        \/ out' = checked /\ in' = in /\ block_state' = block_state
    BY <1>14 DEF HandleOutputCheck
  <2> HIDE DEF checked
  <2> QED BY <1>1, <2>1, <2>2, EmptiedMarkDone
<1>15. CASE HandleOutputUpdate
  <2> DEFINE Res(p) == [p EXCEPT !.reserve = p.config]
             Upd(p) == IF pool = 0 THEN Res(p) ELSE UpdateOutput(Res(p))
  <2>1. \A p \in OutputPort : Upd(p).count = p.count
    BY DEF OutputPort, UpdateOutput
  <2>2. /\ out' = [out EXCEPT ![Msg.port] = Upd(out[Msg.port])]
        /\ in' = in /\ block_state' = block_state
    BY <1>15 DEF HandleOutputUpdate
  <2> HIDE DEF Res, Upd
  <2>3. \A o \in Outputs : out'[o].count = out[o].count
    BY <2>1, <2>2
  <2> QED BY <1>1, <2>2, <2>3
<1>16. CASE WorkRefused
  BY <1>2, <1>16 DEF WorkRefused, block
<1>17. CASE WorkStarts
  BY <1>3, <1>17 DEF WorkStarts, IsWorkAllowed, Workable
<1>18. ASSUME pc = "work", block_state' = block_state PROVE Emptied'
  BY <1>3, <1>18 DEF WorkIsLive
<1>19. CASE WorkReturns
  BY <1>18, <1>19 DEF WorkReturns, PostWork
<1>20. ASSUME NEW i \in Inputs, WorkFailsInput(i) PROVE Emptied'
  BY <1>18, <1>20 DEF WorkFailsInput, PostWork, Throw, block
<1>21. ASSUME NEW o \in Outputs, NEW n \in 0 .. OutSize, WorkFailsOutput(o, n)
       PROVE  Emptied'
  BY <1>18, <1>21 DEF WorkFailsOutput, PostWork, Throw, block
<1>22. CASE WorkMarksDone
  <2>1. \A p \in InputPort : /\ UpdateInputAvail(FlushInput(p)).ends = {}
                            /\ UpdateInputAvail(FlushInput(p)).msgs = 0
    <3>1. \A p \in InputPort : /\ FlushInput(p) \in InputPort
                              /\ FlushInput(p).ends = {} /\ FlushInput(p).msgs = 0
      BY InputOps, Constants DEF FlushInput, InputPort
    <3>2. \A p \in InputPort : /\ UpdateInputAvail(p).ends = p.ends
                              /\ UpdateInputAvail(p).msgs = p.msgs
      BY DEF UpdateInputAvail, InputPort
    <3> QED BY <3>1, <3>2
  <2>2. \A p \in OutputPort : FlushOutput(p).count = 0
    BY DEF FlushOutput, NewQueue, OutputPort
  <2>3. /\ in' = [i \in Inputs |-> UpdateInputAvail(FlushInput(in[i]))]
        /\ out' = [o \in Outputs |-> FlushOutput(out[o])]
    BY <1>22 DEF WorkMarksDone
  <2> QED BY <2>1, <2>2, <2>3 DEF Emptied
<1>23. ASSUME NEW i \in Inputs, CheckInputDone(i) PROVE Emptied'
  BY <1>2, <1>23, EmptiedMarkDone DEF CheckInputDone
<1>24. CASE UNCHANGED vars
  BY <1>2, <1>24 DEF vars, block
<1> QED BY <1>4, <1>5, <1>6, <1>7, <1>8, <1>9, <1>10, <1>11, <1>12, <1>13,
          <1>14, <1>15, <1>16, <1>17, <1>19, <1>20, <1>21, <1>22, <1>23,
          <1>24 DEF Next, Actor

\* A block that is DONE has neither the token nor pools, but during start().
LEMMA ReleasedNext ==
    Typed /\ MailOK /\ StartMail /\ WorkIsLive /\ Released /\ [Next]_vars
        => Released'
<1> SUFFICES ASSUME Typed, MailOK, StartMail, WorkIsLive, Released, [Next]_vars,
                    block_state' = "DONE", top_step' = 5,
                    \A m \in Of(mailbox') : m.type # "TopActive"
             PROVE  holds_token' = FALSE /\ pool' = 0
  BY DEF Released
<1>1. ~HandleTopActive
  BY DEF HandleTopActive
<1>2. CASE block_state # "DONE"
  BY <1>1, <1>2, StateStep
<1>3. CASE block_state = "DONE"
  <2>1. top_step = 5
    <3>1. top_step \in 0 .. 5
      BY DEF Typed, TypeOK
    <3>2. ~StartStep
      <4> SUFFICES ASSUME StartStep PROVE FALSE
        OBVIOUS
      <4>1. PICK m \in Of(mailbox') : m.type = StartSeq[top_step + 1]
        BY EnvironmentPosts DEF Environment
      <4>2. top_step + 1 = 5 /\ StartSeq[5] = "TopActive"
        BY <3>1 DEF StartStep, StartSeq
      <4> QED BY <4>1, <4>2
    <3> QED BY <3>1, <3>2, StartSteps DEF StartAgain
  <2>2. \A m \in Of(mailbox) : m.type # "TopActive"
    <3> SUFFICES ASSUME NEW m \in Of(mailbox), m.type = "TopActive" PROVE FALSE
      OBVIOUS
    <3>1. m \notin Of(mailbox')
      OBVIOUS
    <3>2. Actor /\ Receive("TopActive")
      BY <3>1, EnvironmentPosts, ActorPosts DEF Next, vars
    <3> QED BY <1>1, <3>2, OnlyTopActive
  <2>3. ~HandleTopToken /\ ~HandleTopAlloc
    BY <2>1, SetupHandled
  <2> QED BY <1>1, <1>3, <2>1, <2>2, <2>3, StateStep DEF Released
<1> QED BY <1>2, <1>3

\* A block that is DONE, outside of start(), has let go of everything, however
\* often the flow graph was started.
THEOREM DoneLetsGo == Spec => []DoneIsReleased
<1>1. Init => Emptied /\ Released
  BY DEF Init, Emptied, Released
<1>2. Typed /\ MailOK /\ StartMail /\ Emptied /\ Released => DoneIsReleased
  <2> SUFFICES ASSUME Typed, MailOK, StartMail, Emptied, Released,
                      block_state = "DONE", top_step = 5, Top \notin waiting
               PROVE  /\ ~holds_token /\ pool = 0
                      /\ \A i \in Inputs : in[i].ends = {} /\ in[i].msgs = 0
                      /\ \A o \in Outputs : out[o].count = 0
    BY DEF DoneIsReleased
  <2>1. \A m \in Of(mailbox) : m.type # "TopActive"
    BY MailOf DEF StartMail
  <2>2. holds_token = FALSE /\ pool = 0
    BY <2>1 DEF Released
  <2> QED BY <2>2 DEF Emptied
<1> QED BY <1>1, <1>2, EmptiedNext, ReleasedNext, TypedAlways, MailAlways,
          StartMailAlways, WorkIsLiveAlways, PTL DEF Spec

=============================================================================
