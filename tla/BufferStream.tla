---------------------------- MODULE BufferStream ----------------------------
(***************************************************************************)
(* The bytes of one connection, from the output queue of the upstream      *)
(* block to the work() of the downstream block, as they lie in memory.     *)
(*                                                                         *)
(* An SBuffer is a handle: a reference to a buffer, an offset and length   *)
(* in its memory, and the pointer last, the end of the buffer before it.   *)
(* The queues move handles, and copy bytes only to accumulate.  A push     *)
(* joins handles whose memory turns out to be contiguous (stitching); a    *)
(* consume gives the rest of the front to the next handle when it looks as *)
(* if that handle's memory held it too (unstitching).                      *)
(*                                                                         *)
(* The output queue is a pool or a ring (kind): the two allocators of      *)
(* BufferQueue.  The upstream and the downstream block are two actors; a   *)
(* buffer no handle refers to is on its way back, and arrives at any time. *)
(* When a block is scheduled, what its bits say, and what happens on       *)
(* start, reconfiguration and end are in BlockActor.                       *)
(***************************************************************************)
EXTENDS BufferQueueCirc, SequencesExt, FiniteSetsExt

CONSTANTS
    Kinds,                  \* "pool", "ring": allocators to choose from
    PoolBuffs, PoolLen,     \* number and length of the buffers of a pool
    ItemSize,               \* of both ports
    Reserves, Maximum,      \* _reserve_bytes to choose from, _maximum_bytes
    MaxBytes,               \* bytes produced in all
    UserKinds,              \* allocators beside which the upstream block
    MaxUser, UserLen        \* posts buffers of its own, and these buffers

ASSUME StreamAssumption ==
    /\ Kinds \subseteq {"pool", "ring"} /\ Kinds # {}
    /\ PoolBuffs \in Nat \ {0} /\ PoolLen \in Nat \ {0}
    /\ ItemSize \in Nat \ {0}
    /\ Maximum \in Nat /\ Maximum >= ItemSize
    /\ Reserves \subseteq 0 .. Maximum /\ Reserves # {}
    /\ MaxBytes \in Nat /\ MaxUser \in Nat /\ UserLen \in Nat \ {0}
    /\ UserKinds \subseteq Kinds /\ UserLen % ItemSize = 0

VARIABLES
    kind, reserve,
    \* the pool: BufferQueuePool::_queue
    pool,
    \* bytes produced; buffers the user posted; the contents of memory
    produced, posted, cells,
    \* InputBufferMessages; the queue of the input; _enqueued_bytes
    sent, inq, enqueued,
    \* the assertion that failed in the downstream block
    thrown

config == <<kind, reserve>>
source == <<pool, produced, posted>>
input  == <<inq, enqueued, thrown>>
vars   == <<config, circ, source, cells, sent, input>>

-----------------------------------------------------------------------------
(* Buffers, pointers and handles.                                          *)

Ring    == <<"ring", 0>>
PoolIds == 0 .. PoolBuffs - 1
\* the three of update_config; no more than two are in the queue at once
Aux     == {<<"aux", j>> : j \in 0 .. 1}
Buffers == ({"ring"} \X Slots) \cup ({"pool"} \X PoolIds) \cup Aux
           \cup ({"user"} \X (1 .. MaxUser))

\* the memory a buffer is in, and its length
Area(b) == IF b[1] = "ring" THEN Ring ELSE b
Size(b) == CASE b[1] = "pool" -> PoolLen [] b[1] = "user" -> UserLen
             [] b[1] = "aux" -> Maximum  [] b[1] = "ring" -> BuffLen
Areas == {Ring} \cup {b \in Buffers : b[1] # "ring"}
Length(a) == IF a = Ring THEN CircLen ELSE Size(a)

\* last of a handle that was just allocated: NULL, or, as the constructor
\* leaves it, uninitialized
Null == <<<<"null", 0>>, 0>>
Wild == <<<<"wild", 0>>, 0>>

\* config.memory of a buffer does not change while a handle refers to it
Handle(b, m, o, l) ==
    [buf |-> b, memory |-> m, offset |-> o, length |-> 0, last |-> l]

\* get(delta)
At(s, d) == <<Area(s.buf), s.memory + s.offset + d>>

Place(p)   == IF p[1] = Ring THEN Cell(p[2]) ELSE p[2]
Byte(p)    == IF Place(p) \in DOMAIN cells[p[1]] THEN cells[p[1]][Place(p)]
                                                 ELSE 0
Content(s) == [k \in 1 .. s.length |-> Byte(At(s, k - 1))]
Contents(q) == FlattenSeq([k \in DOMAIN q |-> Content(q[k])])

\* memory after the bytes are written at the handle
Written(s, values) ==
    [cells EXCEPT ![Area(s.buf)] =
        [p \in DOMAIN @ |->
            IF \E k \in DOMAIN values : Place(At(s, k - 1)) = p
            THEN values[CHOOSE k \in DOMAIN values : Place(At(s, k - 1)) = p]
            ELSE @[p]]]

\* the bytes of the first k handles, and of all
Upto(q) == LET sum[k \in 0 .. Len(q)] ==
                   IF k = 0 THEN 0 ELSE sum[k - 1] + q[k].length
           IN  sum
Total(q) == Upto(q)[Len(q)]

Refers(q, b)  == \E k \in DOMAIN q : q[k].buf = b
Referenced(b) == Refers(pool, b) \/ Refers(sent, b) \/ Refers(inq, b)

-----------------------------------------------------------------------------
(* The upstream block: produce, consume of the output queue, post.         *)

Items(room) == {n \in 1 .. room : n % ItemSize = 0}
NewBytes(n) == [k \in 1 .. n |-> produced + k]

\* work() writes n bytes to the handle, which is posted
Produce(s, n) ==
    /\ produced + n <= MaxBytes
    /\ cells' = Written(s, NewBytes(n))
    /\ produced' = produced + n
    /\ sent' = Append(sent, [s EXCEPT !.length = n])
    /\ UNCHANGED <<config, input>>

\* work() runs only when the front buffer has room for an item
OutputReady ==
    IF kind = "ring" THEN ~acking /\ ~CircEmpty
    ELSE pool # <<>> /\ Head(pool).offset + ItemSize <= PoolLen

ProduceRing ==
    /\ kind = "ring" /\ OutputReady
    /\ LET s == Handle(<<"ring", Head(available)>>, write, 0,
                       IF last = NoPtr THEN Null ELSE <<Ring, last>>)
       IN  \E n \in Items(BuffLen) : CircPop(n) /\ Produce(s, n)
    /\ UNCHANGED <<pool, posted>>

\* BufferQueuePool::pop: a buffer is kept until more than half is used
PopPool(s) == IF s.offset > PoolLen \div 2
              THEN Tail(pool)
              ELSE [pool EXCEPT ![1] = [s EXCEPT !.last = At(s, 0)]]

ProducePool ==
    /\ kind = "pool" /\ OutputReady
    /\ LET s == Head(pool)
       IN  \E n \in Items(PoolLen - s.offset) :
              /\ Produce(s, n)
              /\ pool' = PopPool([s EXCEPT !.offset = @ + n])
    /\ UNCHANGED <<circ, posted>>

\* post_output_buffer, with a buffer the block allocated
PostUser ==
    /\ OutputReady /\ kind \in UserKinds /\ posted < MaxUser
    /\ posted' = posted + 1
    /\ \E l \in {Null, Wild} :
          Produce(Handle(<<"user", posted'>>, 0, 0, l), UserLen)
    /\ UNCHANGED <<circ, pool>>

\* the token callback of a buffer that lost its last reference, and push()
ReturnToPool(i) ==
    /\ kind = "pool" /\ ~Referenced(<<"pool", i>>)
    /\ pool' = Append(pool, Handle(<<"pool", i>>, 0, 0, Null))
    /\ UNCHANGED <<config, circ, produced, posted, cells, sent, input>>

ReturnToRing(i) ==
    /\ kind = "ring" /\ ~Referenced(<<"ring", i>>)
    /\ CircPush(i)
    /\ UNCHANGED <<config, source, cells, sent, input>>

AckRing ==
    /\ kind = "ring"
    /\ CircAck \/ CircAckEnds
    /\ UNCHANGED <<config, source, cells, sent, input>>

-----------------------------------------------------------------------------
(* The queue of the input.                                                 *)

\* (mutant) also joins to an auxiliary buffer
StitchToAux(q, j) ==
    LET b0 == q[j]  b1 == q[j + 1]
        joined == [b0 EXCEPT !.length = @ + b1.length]
    IN  IF b1.last = At(b0, b0.length)
        THEN [q EXCEPT ![j] = joined,
                       ![j + 1] = [b1 EXCEPT !.offset = @ + b1.length,
                                             !.length = 0,
                                             !.last = At(joined, joined.length)]]
        ELSE q

\* (mutant) the handle that gave its bytes away keeps its length
StitchKeepsLength(q, j) ==
    LET b0 == q[j]  b1 == q[j + 1]
        joined == [b0 EXCEPT !.length = @ + b1.length]
    IN  IF b1.last = At(b0, b0.length) /\ b0.last # Null
        THEN [q EXCEPT ![j] = joined] ELSE q

\* joins the handles at j and j + 1 if the second begins where the first ends
StitchAt(q, j) ==
    LET b0 == q[j]  b1 == q[j + 1]
        joined == [b0 EXCEPT !.length = @ + b1.length]
    IN  IF b1.last = At(b0, b0.length) /\ b0.last # Null
        THEN [q EXCEPT ![j] = joined,
                       ![j + 1] = [b1 EXCEPT !.offset = @ + b1.length,
                                             !.length = 0,
                                             !.last = At(joined, joined.length)]]
        ELSE q

\* push: the handles are stitched from the back to the front
Pushed(q, s) ==
    LET all == Append(q, s)
        n   == Len(all)
        round[k \in 0 .. n - 1] ==
            IF k = 0 THEN all ELSE StitchAt(round[k - 1], n - k)
        stitched == round[n - 1]
    IN  IF /\ n > 1 /\ stitched[n].length = 0
           /\ stitched[n].buf = stitched[n - 1].buf
        THEN SubSeq(stitched, 1, n - 1) ELSE stitched

Deliver ==
    /\ sent # <<>>
    /\ inq' = Pushed(inq, Head(sent))
    /\ enqueued' = enqueued + Head(sent).length
    /\ sent' = Tail(sent)
    /\ UNCHANGED <<config, circ, source, cells, thrown>>

IsAccumulated(q) == Len(q) <= 1 \/ q[1].length >= Maximum

\* (mutant) one byte less
FreeBelowMaximum == Maximum - 1

\* the whole items an auxiliary buffer has room for
Free == (Maximum \div ItemSize) * ItemSize

\* accumulate: as many bytes as fit, copied to an auxiliary buffer that goes
\* to the front; handles that are used up on the way, empty ones too, leave
Accumulated(q) ==
    LET upto  == Upto(q)
        n     == Min({Free, Total(q)})
        aux   == CHOOSE b \in Aux : ~Refers(q, b)
        accum == [Handle(aux, 0, 0, Null) EXCEPT !.length = n]
        kept  == {k \in DOMAIN q : upto[k] > Free \/ upto[k - 1] = Free}
        rest  == IF kept = {} THEN <<>> ELSE SubSeq(q, Min(kept), Len(q))
        taken == IF kept = {} THEN 0 ELSE n - upto[Min(kept) - 1]
    IN  [values |-> SubSeq(Contents(q), 1, n),
         accum  |-> accum,
         queue  |-> <<accum>> \o
             (IF taken = 0 THEN rest
              ELSE [rest EXCEPT ![1].offset = @ + taken,
                                ![1].length = @ - taken,
                                ![1].last = At(accum, n)])]

Unstitched(q) ==
    IF /\ Len(q) > 1 /\ q[1].length <= q[2].offset
       /\ At(q[1], q[1].length) = q[2].last
    THEN <<[q[2] EXCEPT !.offset = @ - q[1].length,
                        !.length = @ + q[1].length]>> \o SubSeq(q, 3, Len(q))
    ELSE q

\* (mutant) a front that is used up stays
ConsumedKeepsFront(q, n) ==
    Unstitched([q EXCEPT ![1].offset = @ + n, ![1].length = @ - n])

Consumed(q, n) ==
    LET rest == [q EXCEPT ![1].offset = @ + n, ![1].length = @ - n]
    IN  Unstitched(IF rest[1].length = 0 THEN Tail(rest) ELSE rest)

-----------------------------------------------------------------------------
(* The downstream block: front(), work(), consume().                       *)

\* bytes are copied into an auxiliary buffer, unless all are in one already;
\* the front buffer must then hold what is needed
Gather(needed) ==
    LET a == Accumulated(inq)
    IN  /\ IF IsAccumulated(inq)
           THEN UNCHANGED <<cells, inq>>
           ELSE cells' = Written(a.accum, a.values) /\ inq' = a.queue
        /\ thrown' = IF ~IsAccumulated(inq') THEN "accumulate"
                     ELSE IF Head(inq').length < needed THEN "front"
                     ELSE "none"

Ready == thrown = "none" /\ enqueued >= reserve /\ inq # <<>>

\* task_main: front() gathers when the front buffer is below the reserve;
\* work() may then consume nothing
WorkGathers ==
    /\ Ready /\ Head(inq).length < reserve
    /\ Gather(reserve)
    /\ UNCHANGED <<config, circ, source, sent, enqueued>>

\* mark_input_fail: work() wants more than the front buffer
WorkFails ==
    /\ Ready /\ Head(inq).length >= reserve /\ ~IsAccumulated(inq)
    /\ Gather(0)
    /\ UNCHANGED <<config, circ, source, sent, enqueued>>

\* work() consumes n bytes of the front buffer
WorkConsumes(n) ==
    /\ Ready /\ Head(inq).length >= reserve
    /\ n <= Head(inq).length
    /\ inq' = Consumed(inq, n)
    /\ enqueued' = enqueued - n
    /\ UNCHANGED <<config, circ, source, cells, sent, thrown>>

-----------------------------------------------------------------------------
Init ==
    /\ CircInit
    /\ kind \in Kinds /\ reserve \in Reserves
    \* the buffers make_pool made have come back
    /\ pool = IF kind = "pool"
              THEN [k \in 1 .. PoolBuffs |-> Handle(<<"pool", k - 1>>, 0, 0, Null)]
              ELSE <<>>
    /\ produced = 0 /\ posted = 0
    /\ cells = [a \in Areas |-> [p \in 0 .. Length(a) - 1 |-> 0]]
    /\ sent = <<>> /\ inq = <<>> /\ enqueued = 0 /\ thrown = "none"

Next ==
    \/ ProduceRing \/ ProducePool \/ PostUser
    \/ \E i \in PoolIds : ReturnToPool(i)
    \/ \E i \in Slots : ReturnToRing(i)
    \/ AckRing
    \/ Deliver \/ WorkGathers \/ WorkFails
    \/ \E n \in Items(MaxBytes) : WorkConsumes(n)

Spec == Init /\ [][Next]_vars

-----------------------------------------------------------------------------
(* Properties.                                                             *)

\* Every queue holds handles, and memory holds bytes that were produced.
IsHandle(s) ==
    /\ s.buf \in Buffers /\ s.memory \in Nat /\ s.offset \in Nat
    /\ s.length \in Nat
StreamTypeOK ==
    /\ CircTypeOK
    /\ kind \in Kinds /\ reserve \in Reserves
    /\ \A q \in {pool, sent, inq} : \A k \in DOMAIN q : IsHandle(q[k])
    /\ produced \in 0 .. MaxBytes /\ posted \in 0 .. MaxUser
    /\ \A a \in Areas : cells[a] \in [0 .. Length(a) - 1 -> 0 .. MaxBytes]
    /\ enqueued \in Nat /\ thrown \in {"none", "accumulate", "front"}

\* What the consumer would read, through the handles, from memory as it is
\* now, behaves as the channel: no byte is lost, doubled, reordered or
\* overwritten by stitching, accumulation, unstitching or a reused buffer.
Channel == INSTANCE ByteChannel
               WITH sent <- produced, bytes <- Contents(inq \o sent)
IsChannel == Channel!ChannelSpec

\* "If the remaining parts of b0 are entirely sitting in b1, pop()": what the
\* consumer would read next is the next byte of the stream.
InOrder == LET c == Contents(inq \o sent)
           IN  \A k \in 1 .. Len(c) - 1 : c[k + 1] = c[k] + 1

\* _enqueued_bytes is the number of bytes the handles of the queue hold.
EnqueuedIsTotal == enqueued = Total(inq)

\* Producer and consumer never wait for each other: when every buffer is
\* where it will stay, there is one to write to, or enough to read.  A ring
\* promises this only for a reserve of an item, and a pool only for one that
\* all its buffers but one hold (PoolRoom in BufferStreamProofs).
Resting == /\ sent = <<>> /\ ~acking
           /\ \A i \in PoolIds : kind = "pool" => Referenced(<<"pool", i>>)
           /\ \A i \in Away : kind = "ring" => Referenced(<<"ring", i>>)
NeverStuck ==
    (Resting /\ (kind = "ring" => reserve <= ItemSize)) =>
        OutputReady \/ enqueued >= reserve

\* The assertions of front() and accumulate() hold: the front buffer holds the
\* reserve, and what was not copied did not fit.
AssertsHold == thrown = "none"
=============================================================================
