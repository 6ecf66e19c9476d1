--------------------------- MODULE BufferQueueCirc ---------------------------
(***************************************************************************)
(* The circular buffer queue of an output port.                            *)
(*                                                                         *)
(* One ring of CircLen bytes is mapped twice, back to back, so that a      *)
(* buffer may begin anywhere in the first mapping and run into the second. *)
(* The NumBuffs buffers that are passed around own no memory: front()      *)
(* places the next one at the write pointer, pop() moves the pointer past  *)
(* what was written.  Buffers come back in any order, and are acknowledged *)
(* in the order of their index: what keeps them from sharing memory is a   *)
(* count of bytes, and this order.                                         *)
(*                                                                         *)
(* Pointers are offsets from the start of the first mapping.  The loop of  *)
(* push() is one step per buffer: while acking, no other operation of the  *)
(* queue may begin, and the blocks downstream go on.                       *)
(***************************************************************************)
EXTENDS Integers, Sequences

CONSTANTS
    NumBuffs,       \* num_buffs
    BuffLen,        \* config.length
    CircLen         \* get_actual_length() of the ring

\* the ring is num_buffs * length, rounded up to a page
ASSUME CircAssumption ==
    /\ NumBuffs \in Nat \ {0} /\ BuffLen \in Nat \ {0} /\ CircLen \in Nat
    /\ NumBuffs * BuffLen <= CircLen

VARIABLES
    \* _write_ptr, _last_ptr, _bytes_avail, _ack_index, _available_buffers,
    \* the indices at which _returned_buffers holds a buffer, _outgone_bytes
    write, last, bytes_avail, ack_index, available, returned, outgone,
    \* config.memory of each buffer; whether push() is in its loop
    memory, acking,
    \* auxiliary: the bytes from the start of each buffer that is not
    \* available to the write pointer
    behind

circ == <<write, last, bytes_avail, ack_index, available, returned, outgone,
          memory, acking, behind>>

Slots  == 0 .. NumBuffs - 1
NoPtr  == -1
Queued == {available[k] : k \in DOMAIN available}

\* held by somebody else: the blocks downstream, or a message
Away == Slots \ (Queued \cup returned)

\* (mutant) asks only for a buffer
NoBuffer == available = <<>>

CircEmpty == bytes_avail = 0 \/ available = <<>>

\* (mutants) the pointer never wraps; it wraps to the start
NoWrap(p) == p
WrapToStart(p) == IF p > CircLen THEN 0 ELSE p

\* a pointer to the very end of the first mapping is left there
Wrap(p) == IF p > CircLen THEN p - CircLen ELSE p

\* front(), n bytes written to the buffer it returns, pop()
CircPop(n) ==
    /\ ~acking /\ ~CircEmpty
    /\ LET i == Head(available)
       IN  /\ memory' = [memory EXCEPT ![i] = write]
           /\ outgone' = [outgone EXCEPT ![i] = n]
           /\ behind' = [j \in Slots |-> IF j = i THEN n
                                         ELSE IF j \in Queued THEN 0
                                         ELSE behind[j] + n]
    /\ available' = Tail(available)
    /\ last' = write + n
    /\ write' = Wrap(write + n)
    /\ bytes_avail' = bytes_avail - n
    /\ UNCHANGED <<ack_index, returned, acking>>

\* push(): a buffer with the token of this queue comes back
CircPush(i) ==
    /\ ~acking /\ i \in Away
    /\ returned' = returned \cup {i}
    /\ acking' = TRUE
    /\ UNCHANGED <<write, last, bytes_avail, ack_index, available, outgone,
                   memory, behind>>

\* (mutant) the index is not compared to the size
NextIndex(i) == i + 1
\* (mutant) whatever came back is acknowledged
AnyReturned == IF returned = {} THEN ack_index ELSE CHOOSE i \in returned : TRUE

Acked == ack_index
AfterIndex(i) == IF i + 1 = NumBuffs THEN 0 ELSE i + 1

\* one round of the loop of push()
CircAck ==
    /\ acking /\ Acked \in returned
    /\ bytes_avail' = bytes_avail + outgone[Acked]
    /\ available' = Append(available, Acked)
    /\ returned' = returned \ {Acked}
    /\ behind' = [behind EXCEPT ![Acked] = 0]
    /\ ack_index' = AfterIndex(ack_index)
    /\ UNCHANGED <<write, last, outgone, memory, acking>>

CircAckEnds ==
    /\ acking /\ Acked \notin returned
    /\ acking' = FALSE
    /\ UNCHANGED <<write, last, bytes_avail, ack_index, available, returned,
                   outgone, memory, behind>>

\* the constructor makes the buffers; each returns by its token callback
CircInit ==
    /\ write = 0 /\ last = NoPtr /\ bytes_avail = CircLen /\ ack_index = 0
    /\ available = <<>> /\ returned = {} /\ acking = FALSE
    /\ outgone = [i \in Slots |-> 0] /\ memory = [i \in Slots |-> 0]
    /\ behind = [i \in Slots |-> 0]

CircNext ==
    \/ \E n \in 0 .. BuffLen : CircPop(n)
    \/ \E i \in Slots : CircPush(i)
    \/ CircAck \/ CircAckEnds

CircSpec == CircInit /\ [][CircNext]_circ

-----------------------------------------------------------------------------
(* Properties.                                                             *)

\* The variables of the queue have their types.
CircTypeOK ==
    /\ write \in 0 .. CircLen /\ last \in Int /\ bytes_avail \in Int
    /\ ack_index \in Slots /\ available \in Seq(Slots)
    /\ returned \subseteq Slots /\ acking \in BOOLEAN
    /\ outgone \in [Slots -> 0 .. BuffLen]
    /\ memory \in [Slots -> 0 .. CircLen] /\ behind \in [Slots -> Nat]

\* the byte of the ring at an address in either mapping
Cell(p)   == IF p >= CircLen THEN p - CircLen ELSE p
Region(i) == {Cell(memory[i] + k) : k \in 0 .. outgone[i] - 1}
Writable  == {Cell(write + k) : k \in 0 .. BuffLen - 1}

\* Two buffers that are in use share no memory, however the pointer wrapped
\* and in whatever order the buffers came back (buffer_queue_circ.cpp pop).
NoOverlap ==
    \A i, j \in Away : i # j => Region(i) \cap Region(j) = {}

\* When the queue is not empty, work() may fill the front buffer to its full
\* length without touching a buffer in use: the guard is only that a buffer
\* and one byte are left, and the count cannot go below zero.
WriteIsSafe ==
    ~CircEmpty => /\ bytes_avail >= BuffLen
                  /\ \A i \in Away : Region(i) \cap Writable = {}
=============================================================================
