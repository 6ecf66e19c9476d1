------------------------- MODULE BufferStreamProofs -------------------------
(***************************************************************************)
(* What holds of every connection: for all numbers and lengths of buffers, *)
(* sizes of items, reserves and maxima, and any amount of bytes.           *)
(*                                                                         *)
(* 1. The circular buffer queue never gives out memory in use.  Its        *)
(* invariant orders the buffers by their distance from _ack_index: the     *)
(* first Out of them are out, the others are available, in this order.     *)
(* The buffers that are out lie one after another behind the write         *)
(* pointer, so that the oldest bounds all, and one more than a buffer's    *)
(* length is free while a buffer is available.                             *)
(*                                                                         *)
(* 2. The two blocks use the circular buffer queue as it expects to be     *)
(* used, so what is proved of the queue holds of the connection: whatever  *)
(* stitching, accumulation and unstitching do to the handles, a buffer     *)
(* comes back only when no handle refers to it.                            *)
(*                                                                         *)
(* 3. The loops.  push() walks the queue, and the length of a queue is a   *)
(* sum: recursive functions of the round (Loops).                          *)
(*                                                                         *)
(* 4. StreamInv: the queues hold handles, _enqueued_bytes is the sum of    *)
(* their lengths, and only the front is ever an auxiliary buffer, with a   *)
(* last of NULL so that nothing joins it, and no longer than what one can  *)
(* accumulate.  So there is always an auxiliary buffer to take, and what   *)
(* accumulate() leaves is one buffer, or a front of the maximum.           *)
(*                                                                         *)
(* 5. LineInv: the handles of the input, then those on their way, are a    *)
(* line.  For some place in the stream of the first byte of every buffer,  *)
(* each handle reads from memory the bytes of the stream at its place,     *)
(* from the start of its buffer on; it begins where the one before it      *)
(* ends; and the last ends with what was produced.  What lies before a     *)
(* handle in its buffer must be right too, because a consume may give      *)
(* bytes back to a handle that had given them away.  Handles of the ring   *)
(* keep their distance, those of the pool are in buffers that were filled  *)
(* one after another, so a pointer that says that two handles meet is      *)
(* right about it.  The line is the channel of ByteChannel.                *)
(*                                                                         *)
(* 6. Nobody waits for ever.  In a pool with no buffer left, the buffers   *)
(* in the line lie at least Kept bytes of the stream apart, so all but the *)
(* first are full.  In a ring, RingInv: its oldest buffer is in the line   *)
(* only with a byte of the ring, unless a buffer is available.             *)
(***************************************************************************)
EXTENDS BufferStream, Loops, FiniteSetTheorems

-----------------------------------------------------------------------------
(* The circular buffer queue.                                              *)

Dist(i) == IF i >= ack_index THEN i - ack_index ELSE i - ack_index + NumBuffs
Out     == NumBuffs - Len(available)
IsOut(i) == Dist(i) < Out

\* available buffers are in the order of their distance
QueueOrder == \A k \in 1 .. Len(available) : Dist(available[k]) = Out + k - 1

ReturnedOut == \A i \in returned : IsOut(i)

\* where a buffer that is out begins, and how far behind that may be
Placed ==
    \A i \in Slots : IsOut(i) =>
        /\ outgone[i] <= behind[i] /\ behind[i] <= (Out - Dist(i)) * BuffLen
        /\ \/ memory[i] = write - behind[i]
           \/ memory[i] = write - behind[i] + CircLen
           \/ memory[i] = write - behind[i] + 2 * CircLen

\* a buffer that is out ends before those that left later begin
Ordered ==
    \A i, j \in Slots : (IsOut(i) /\ IsOut(j) /\ Dist(i) < Dist(j)) =>
        behind[i] - outgone[i] >= behind[j]

\* there is no gap between one buffer and the next, or the write pointer
NoGap ==
    \A i \in Slots : IsOut(i) =>
        /\ Dist(i) = Out - 1 => behind[i] = outgone[i]
        /\ \A j \in Slots : (IsOut(j) /\ Dist(j) = Dist(i) + 1)
                               => behind[i] - outgone[i] = behind[j]

\* what is not available lies between the oldest buffer and the write pointer
Counted == bytes_avail = CircLen - (IF Out > 0 THEN behind[ack_index] ELSE 0)

CircInv == /\ CircTypeOK /\ Len(available) <= NumBuffs
           /\ QueueOrder /\ ReturnedOut /\ Placed /\ Ordered /\ NoGap /\ Counted

-----------------------------------------------------------------------------
(* Arithmetic.                                                             *)

\* The ring holds NumBuffs buffers, so it holds fewer.
LEMMA RingHolds ==
    ASSUME NEW x \in 0 .. NumBuffs
    PROVE  /\ x * BuffLen \in Nat /\ x * BuffLen <= CircLen
           /\ x < NumBuffs => x * BuffLen + BuffLen <= CircLen
<1>1. NumBuffs \in Nat /\ BuffLen \in Nat /\ CircLen \in Nat
      /\ NumBuffs * BuffLen <= CircLen
  BY CircAssumption
<1>2. x * BuffLen \in Nat /\ (NumBuffs - x) * BuffLen \in Nat
  BY <1>1
<1>3. x * BuffLen + (NumBuffs - x) * BuffLen = NumBuffs * BuffLen
  BY <1>1
<1>4. ASSUME x < NumBuffs
      PROVE  (NumBuffs - x) * BuffLen >= BuffLen
  <2>1. (NumBuffs - x - 1) * BuffLen \in Nat
    BY <1>1, <1>4
  <2>2. (NumBuffs - x) * BuffLen = (NumBuffs - x - 1) * BuffLen + BuffLen
    BY <1>1
  <2> QED
    BY <2>1, <2>2, <1>1
<1> QED
  BY <1>1, <1>2, <1>3, <1>4

\* Two addresses less than a ring apart, seen from positions p < q, are
\* different bytes of the ring.
LEMMA DifferentCells ==
    ASSUME CircLen \in Nat,
           NEW p \in Int, NEW q \in Int, p < q, q - p < CircLen,
           NEW a \in Int, NEW b \in Int,
           a = p \/ a = p + CircLen \/ a = p + 2 * CircLen,
           b = q \/ b = q + CircLen \/ b = q + 2 * CircLen
    PROVE  Cell(a) # Cell(b)
  BY DEF Cell

\* Buffers at the same distance are the same; distances are below NumBuffs.
LEMMA DistIsOneToOne ==
    ASSUME ack_index \in Slots
    PROVE  /\ \A i \in Slots : Dist(i) \in 0 .. NumBuffs - 1
           /\ \A i, j \in Slots : Dist(i) = Dist(j) => i = j
           /\ Dist(ack_index) = 0
  BY CircAssumption DEF Slots, Dist

\* A buffer that is not out is available: only buffers that are out are away.
LEMMA AwayIsOut ==
    ASSUME CircInv, NEW i \in Away
    PROVE  i \in Slots /\ IsOut(i)
<1>1. i \in Slots /\ i \notin Queued
  BY DEF Away
<1>2. SUFFICES ASSUME ~ IsOut(i) PROVE FALSE
  BY <1>1
<1> DEFINE k == Dist(i) - Out + 1
<1>3. Dist(i) \in 0 .. NumBuffs - 1 /\ Len(available) \in Nat
      /\ Len(available) <= NumBuffs /\ NumBuffs \in Nat
  BY <1>1, DistIsOneToOne, CircAssumption DEF CircInv, CircTypeOK
<1>4. k \in 1 .. Len(available)
  BY <1>2, <1>3 DEF IsOut, Out
<1>5. available[k] \in Slots /\ Dist(available[k]) = Dist(i)
  <2>1. available \in Seq(Slots)
    BY DEF CircInv, CircTypeOK
  <2>2. QueueOrder
    BY DEF CircInv
  <2>3. Out + k - 1 = Dist(i)
    BY <1>3 DEF Out
  <2> HIDE DEF k
  <2>4. available[k] \in Slots
    BY <1>4, <2>1
  <2>5. Dist(available[k]) = Out + k - 1
    BY <1>4, <2>2 DEF QueueOrder
  <2> QED
    BY <2>3, <2>4, <2>5
<1>6. available[k] = i
  BY <1>1, <1>5, DistIsOneToOne DEF CircInv, CircTypeOK
<1>7. i \in Queued
  BY <1>4, <1>6 DEF Queued
<1> QED
  BY <1>1, <1>7

-----------------------------------------------------------------------------
(* The invariant implies the properties.                                   *)

\* No buffer that is out begins more than a ring behind the write pointer,
\* nor, while a buffer is available, more than a ring less a buffer.
LEMMA BehindIsBounded ==
    ASSUME CircInv, NEW i \in Slots, IsOut(i)
    PROVE  /\ behind[i] \in Nat /\ behind[i] <= CircLen
           /\ available # <<>> => behind[i] + BuffLen <= CircLen
<1> DEFINE x == Out - Dist(i)
<1>1. /\ Dist(i) \in 0 .. NumBuffs - 1
      /\ Len(available) \in Nat /\ Len(available) <= NumBuffs
      /\ available # <<>> => Len(available) > 0
  BY DistIsOneToOne DEF CircInv, CircTypeOK
<1>2. x \in 0 .. NumBuffs /\ (available # <<>> => x < NumBuffs)
  <2>1. NumBuffs \in Nat /\ Dist(i) < NumBuffs - Len(available)
    BY CircAssumption DEF IsOut, Out
  <2> QED
    BY <1>1, <2>1 DEF Out
<1>3. behind[i] \in Nat /\ behind[i] <= x * BuffLen
  BY DEF CircInv, CircTypeOK, Placed
<1> HIDE DEF x
<1> QED
  BY <1>2, <1>3, RingHolds, CircAssumption

\* The invariant implies that buffers in use share no memory.
LEMMA InvImpliesNoOverlap == CircInv => NoOverlap
<1> SUFFICES ASSUME CircInv, NEW i \in Away, NEW j \in Away, i # j
             PROVE  Region(i) \cap Region(j) = {}
  BY DEF NoOverlap
<1>1. i \in Slots /\ IsOut(i) /\ j \in Slots /\ IsOut(j)
  BY AwayIsOut
<1>2. ASSUME NEW a \in Slots, NEW b \in Slots, IsOut(a), IsOut(b),
             Dist(a) < Dist(b)
      PROVE  Region(a) \cap Region(b) = {}
  <2> SUFFICES ASSUME NEW k \in 0 .. outgone[a] - 1,
                      NEW l \in 0 .. outgone[b] - 1
               PROVE  Cell(memory[a] + k) # Cell(memory[b] + l)
    BY DEF Region
  <2>1. /\ behind[a] \in Nat /\ behind[a] <= CircLen /\ behind[b] \in Nat
        /\ behind[a] - outgone[a] >= behind[b] /\ outgone[b] <= behind[b]
        /\ outgone[a] \in Nat /\ outgone[b] \in Nat /\ write \in Nat
        /\ memory[a] \in Nat /\ memory[b] \in Nat
        /\ CircLen \in Nat /\ BuffLen \in Nat
    <3>1. CircTypeOK /\ Placed /\ Ordered
      BY DEF CircInv
    <3>2. /\ behind[a] \in Nat /\ behind[a] <= CircLen /\ behind[b] \in Nat
          /\ behind[a] - outgone[a] >= behind[b] /\ outgone[b] <= behind[b]
      BY <1>2, <3>1, BehindIsBounded DEF Placed, Ordered
    <3> QED
      BY <3>1, <3>2, CircAssumption DEF CircTypeOK
  <2>2. /\ \/ memory[a] = write - behind[a]
           \/ memory[a] = write - behind[a] + CircLen
           \/ memory[a] = write - behind[a] + 2 * CircLen
        /\ \/ memory[b] = write - behind[b]
           \/ memory[b] = write - behind[b] + CircLen
           \/ memory[b] = write - behind[b] + 2 * CircLen
    BY <1>2 DEF CircInv, Placed
  <2> DEFINE p == write - behind[a] + k
             q == write - behind[b] + l
  <2>3. p \in Int /\ q \in Int /\ p < q /\ q - p < CircLen
    BY <2>1
  <2>4. /\ memory[a] + k = p \/ memory[a] + k = p + CircLen
           \/ memory[a] + k = p + 2 * CircLen
        /\ memory[b] + l = q \/ memory[b] + l = q + CircLen
           \/ memory[b] + l = q + 2 * CircLen
        /\ memory[a] + k \in Int /\ memory[b] + l \in Int
    BY <2>1, <2>2
  <2> HIDE DEF p, q
  <2> QED
    BY <2>1, <2>3, <2>4, DifferentCells
<1>3. Dist(i) < Dist(j) \/ Dist(j) < Dist(i)
  <2>1. ack_index \in Slots
    BY DEF CircInv, CircTypeOK
  <2>2. Dist(i) # Dist(j)
    BY <1>1, <2>1, DistIsOneToOne
  <2>3. Dist(i) \in 0 .. NumBuffs - 1 /\ Dist(j) \in 0 .. NumBuffs - 1
    BY <1>1, <2>1, DistIsOneToOne
  <2>4. ASSUME NEW x \in 0 .. NumBuffs - 1, NEW y \in 0 .. NumBuffs - 1, x # y
        PROVE  x < y \/ y < x
    BY <2>4, CircAssumption
  <2> QED
    BY <2>2, <2>3, <2>4
<1>4. CASE Dist(i) < Dist(j)
  BY <1>1, <1>2, <1>4
<1>5. CASE Dist(j) < Dist(i)
  BY <1>1, <1>2, <1>5
<1> QED
  BY <1>3, <1>4, <1>5

\* The invariant implies that the front buffer may be filled.
LEMMA InvImpliesWriteIsSafe == CircInv => WriteIsSafe
<1> SUFFICES ASSUME CircInv, ~CircEmpty
             PROVE  /\ bytes_avail >= BuffLen
                    /\ \A i \in Away : Region(i) \cap Writable = {}
  BY DEF WriteIsSafe
<1>1. available # <<>>
  BY DEF CircEmpty
<1>2. bytes_avail >= BuffLen
  <2>1. CASE Out > 0
    <3>1. ack_index \in Slots /\ IsOut(ack_index)
      BY <2>1, DistIsOneToOne DEF CircInv, CircTypeOK, IsOut
    <3> QED
      BY <1>1, <2>1, <3>1, BehindIsBounded, CircAssumption
         DEF CircInv, Counted
  <2>2. CASE ~(Out > 0)
    <3>1. 0 * BuffLen + BuffLen <= CircLen
      BY RingHolds, CircAssumption
    <3> QED
      BY <2>2, <3>1, CircAssumption DEF CircInv, Counted
  <2> QED
    BY <2>1, <2>2
<1>3. ASSUME NEW i \in Away
      PROVE  Region(i) \cap Writable = {}
  <2> SUFFICES ASSUME NEW k \in 0 .. outgone[i] - 1, NEW l \in 0 .. BuffLen - 1
               PROVE  Cell(memory[i] + k) # Cell(write + l)
    BY DEF Region, Writable
  <2>1. i \in Slots /\ IsOut(i)
    BY AwayIsOut
  <2>2. /\ behind[i] \in Nat /\ behind[i] + BuffLen <= CircLen
        /\ outgone[i] <= behind[i]
        /\ outgone[i] \in Nat /\ write \in Nat /\ memory[i] \in Nat
        /\ CircLen \in Nat /\ BuffLen \in Nat
    <3>1. behind[i] \in Nat /\ behind[i] + BuffLen <= CircLen
      BY <1>1, <2>1, BehindIsBounded
    <3>2. Placed /\ CircTypeOK
      BY DEF CircInv
    <3>3. outgone[i] <= behind[i]
      BY <2>1, <3>2 DEF Placed
    <3>4. outgone[i] \in Nat /\ write \in Nat /\ memory[i] \in Nat
      BY <2>1, <3>2, CircAssumption DEF CircTypeOK
    <3> QED
      BY <3>1, <3>3, <3>4, CircAssumption
  <2>3. \/ memory[i] = write - behind[i]
        \/ memory[i] = write - behind[i] + CircLen
        \/ memory[i] = write - behind[i] + 2 * CircLen
    BY <2>1 DEF CircInv, Placed
  <2> DEFINE p == write - behind[i] + k
  <2>4. p \in Int /\ write + l \in Int /\ p < write + l
        /\ write + l - p < CircLen
    BY <2>2
  <2>5. /\ memory[i] + k = p \/ memory[i] + k = p + CircLen
           \/ memory[i] + k = p + 2 * CircLen
        /\ memory[i] + k \in Int
    BY <2>2, <2>3
  <2> HIDE DEF p
  <2> QED
    BY <2>2, <2>4, <2>5, DifferentCells
<1> QED
  BY <1>2, <1>3

-----------------------------------------------------------------------------
(* The invariant is inductive.                                             *)

\* After the constructor all buffers are out, and hold nothing.
LEMMA CircInitInv == CircInit => CircInv
<1> SUFFICES ASSUME CircInit PROVE CircInv
  OBVIOUS
<1> USE CircAssumption DEF CircInit
<1>1. CircTypeOK /\ Len(available) = 0
  <2>1. ack_index \in Slots /\ available \in Seq(Slots) /\ Len(available) = 0
    BY DEF Slots
  <2>2. /\ write \in 0 .. CircLen /\ last \in Int /\ bytes_avail \in Int
        /\ returned \subseteq Slots
    BY DEF NoPtr
  <2>3. /\ outgone \in [Slots -> 0 .. BuffLen]
        /\ memory \in [Slots -> 0 .. CircLen] /\ behind \in [Slots -> Nat]
    OBVIOUS
  <2>4. acking \in BOOLEAN
    OBVIOUS
  <2> QED
    BY <2>1, <2>2, <2>3, <2>4 DEF CircTypeOK
<1>2. Out = NumBuffs /\ \A i \in Slots : Dist(i) = i
  BY <1>1 DEF Out, Dist, Slots
<1>3. Placed
  <2> SUFFICES ASSUME NEW i \in Slots
               PROVE  0 <= (NumBuffs - i) * BuffLen
    BY <1>2 DEF Placed
  <2>1. NumBuffs - i \in 0 .. NumBuffs
    BY DEF Slots
  <2> QED
    BY <2>1, RingHolds
<1>4. QueueOrder /\ ReturnedOut /\ Ordered /\ NoGap /\ Counted
  BY <1>1, <1>2 DEF QueueOrder, ReturnedOut, Ordered, NoGap, Counted, Slots
<1> QED
  BY <1>1, <1>3, <1>4 DEF CircInv

\* A pop puts the front buffer behind the others, right before the pointer.
LEMMA CircPopInv ==
    ASSUME CircInv, NEW n \in 0 .. BuffLen, CircPop(n)
    PROVE  CircInv'
<1> DEFINE f == Head(available)
<1>1. /\ NumBuffs \in Nat \ {0} /\ BuffLen \in Nat /\ CircLen \in Nat
      /\ n \in Nat /\ n <= BuffLen
  BY CircAssumption
<1>2. available # <<>> /\ available \in Seq(Slots) /\ ack_index \in Slots
  BY DEF CircPop, CircEmpty, CircInv, CircTypeOK
<1>3. /\ Len(available) \in Nat /\ Len(available) > 0
      /\ Len(available) <= NumBuffs
      /\ f = available[1] /\ f \in Slots /\ f \in Queued
      /\ available' \in Seq(Slots) /\ Len(available') = Len(available) - 1
      /\ \A k \in 1 .. Len(available') : available'[k] = available[k + 1]
  BY <1>2 DEF CircPop, Queued, CircInv
<1>4. Out' = Out + 1 /\ Out \in 0 .. NumBuffs - 1
  BY <1>1, <1>3 DEF Out
<1>5. /\ \A i \in Slots : Dist(i)' = Dist(i) /\ Dist(i) \in 0 .. NumBuffs - 1
      /\ Dist(f) = Out
      /\ \A i, j \in Slots : Dist(i) = Dist(j) => i = j
  <2>1. ack_index' = ack_index
    BY DEF CircPop
  <2>2. Dist(f) = Out
    BY <1>1, <1>3 DEF CircInv, QueueOrder, Out
  <2> QED
    BY <1>2, <2>1, <2>2, DistIsOneToOne DEF Dist
<1>6. \A i \in Slots : IsOut(i)' <=> (IsOut(i) \/ i = f)
  BY <1>3, <1>4, <1>5 DEF IsOut
<1>7. \A i \in Slots : IsOut(i) => i # f /\ i \notin Queued
  <2> SUFFICES ASSUME NEW i \in Slots, IsOut(i), i \in Queued PROVE FALSE
    BY <1>3
  <2>1. PICK k \in 1 .. Len(available) : i = available[k]
    BY <1>2 DEF Queued
  <2> QED
    BY <2>1, <1>3, <1>4 DEF CircInv, QueueOrder, IsOut
<1>8. /\ \A i \in Slots : behind[i] \in Nat /\ memory[i] \in 0 .. CircLen
                              /\ outgone[i] \in 0 .. BuffLen
      /\ memory \in [Slots -> 0 .. CircLen] /\ behind \in [Slots -> Nat]
      /\ outgone \in [Slots -> 0 .. BuffLen]
      /\ write \in 0 .. CircLen /\ bytes_avail \in Int
  BY DEF CircInv, CircTypeOK
<1>9. /\ memory'[f] = write /\ outgone'[f] = n /\ behind'[f] = n
      /\ \A i \in Slots : IsOut(i) => /\ memory'[i] = memory[i]
                                       /\ outgone'[i] = outgone[i]
                                       /\ behind'[i] = behind[i] + n
  BY <1>3, <1>7, <1>8 DEF CircPop
<1>10. \/ write' = write + n /\ write + n <= CircLen
       \/ write' = write + n - CircLen /\ write + n > CircLen
  <2>1. write' = Wrap(write + n)
    BY DEF CircPop
  <2> QED
    BY <1>1, <1>8, <2>1 DEF Wrap
<1>11. \A i \in Slots : IsOut(i) => behind[i] + n <= CircLen
  BY <1>1, <1>2, BehindIsBounded
<1>12. CircTypeOK'
  <2>1. write' \in 0 .. CircLen
    <3>1. 1 * BuffLen <= CircLen
      BY <1>1, RingHolds
    <3> QED
      BY <1>1, <1>8, <1>10, <3>1
  <2>2. behind' \in [Slots -> Nat]
    BY <1>1, <1>8 DEF CircPop
  <2>3. memory' \in [Slots -> 0 .. CircLen] /\ outgone' \in [Slots -> 0 .. BuffLen]
    BY <1>3, <1>8 DEF CircPop
  <2>4. /\ last' \in Int /\ bytes_avail' \in Int /\ ack_index' \in Slots
        /\ returned' \subseteq Slots /\ acking' \in BOOLEAN
    <3>1. returned \subseteq Slots /\ acking \in BOOLEAN
      BY DEF CircInv, CircTypeOK
    <3>2. /\ last' = write + n /\ bytes_avail' = bytes_avail - n
          /\ UNCHANGED <<ack_index, returned, acking>>
      BY DEF CircPop
    <3> QED
      BY <1>1, <1>2, <1>8, <3>1, <3>2
  <2> QED
    BY <1>3, <2>1, <2>2, <2>3, <2>4 DEF CircTypeOK
<1>13. QueueOrder'
  <2> SUFFICES ASSUME NEW k \in 1 .. Len(available')
               PROVE  Dist(available[k])' = Out' + k - 1
    BY DEF QueueOrder
  <2>1. k + 1 \in 1 .. Len(available) /\ available'[k] = available[k + 1]
        /\ available'[k] \in Slots
    BY <1>3
  <2>2. Dist(available[k + 1]) = Out + (k + 1) - 1
    BY <2>1 DEF CircInv, QueueOrder
  <2>3. Dist(available[k])' = Dist(available[k + 1])
    BY <2>1 DEF Dist, CircPop
  <2> QED
    BY <1>4, <2>2, <2>3
<1>14. ReturnedOut'
  BY <1>6 DEF CircPop, CircInv, ReturnedOut, CircTypeOK
<1>15. Placed'
  <2> SUFFICES ASSUME NEW i \in Slots, IsOut(i)'
               PROVE  /\ outgone'[i] <= behind'[i]
                      /\ behind'[i] <= (Out' - Dist(i)) * BuffLen
                      /\ \/ memory'[i] = write' - behind'[i]
                         \/ memory'[i] = write' - behind'[i] + CircLen
                         \/ memory'[i] = write' - behind'[i] + 2 * CircLen
    BY <1>5 DEF Placed
  <2>1. CASE i = f
    <3>1. (Out' - Dist(i)) * BuffLen = BuffLen
      BY <1>1, <1>4, <1>5, <2>1
    <3> QED
      BY <1>1, <1>8, <1>9, <1>10, <2>1, <3>1
  <2>2. CASE IsOut(i)
    <3> DEFINE x == Out - Dist(i)
    <3>1. x \in Nat /\ Out' - Dist(i) = x + 1
      BY <1>4, <1>5, <2>2 DEF IsOut
    <3>2. (x + 1) * BuffLen = x * BuffLen + BuffLen /\ x * BuffLen \in Nat
      BY <1>1, <3>1
    <3>3. /\ outgone[i] <= behind[i] /\ behind[i] <= x * BuffLen
          /\ \/ memory[i] = write - behind[i]
             \/ memory[i] = write - behind[i] + CircLen
             \/ memory[i] = write - behind[i] + 2 * CircLen
      BY <2>2 DEF CircInv, Placed
    <3> HIDE DEF x
    <3>4. /\ outgone'[i] <= behind'[i]
          /\ behind'[i] <= (Out' - Dist(i)) * BuffLen
      BY <1>1, <1>8, <1>9, <2>2, <3>1, <3>2, <3>3
    <3>5. memory[i] <= CircLen /\ behind[i] + n <= CircLen
      BY <1>8, <1>11, <2>2
    <3>6. \/ memory'[i] = write' - behind'[i]
          \/ memory'[i] = write' - behind'[i] + CircLen
          \/ memory'[i] = write' - behind'[i] + 2 * CircLen
      <4>1. CASE write' = write + n
        BY <1>1, <1>8, <1>9, <2>2, <3>3, <4>1
      <4>2. CASE write' = write + n - CircLen /\ write + n > CircLen
        BY <1>1, <1>8, <1>9, <2>2, <3>3, <3>5, <4>2
      <4> QED
        BY <1>10, <4>1, <4>2
    <3> QED
      BY <3>4, <3>6
  <2> QED
    BY <1>6, <2>1, <2>2
<1>16. Ordered'
  <2> SUFFICES ASSUME NEW i \in Slots, NEW j \in Slots, IsOut(i)', IsOut(j)',
                      Dist(i) < Dist(j)
               PROVE  behind'[i] - outgone'[i] >= behind'[j]
    BY <1>5 DEF Ordered
  <2>1. IsOut(i)
    BY <1>4, <1>5, <1>6 DEF IsOut
  <2>2. CASE j = f
    <3>1. outgone[i] <= behind[i]
      BY <2>1 DEF CircInv, Placed
    <3> QED
      BY <1>1, <1>8, <1>9, <2>1, <2>2, <3>1
  <2>3. CASE IsOut(j)
    <3>1. behind[i] - outgone[i] >= behind[j]
      BY <2>1, <2>3 DEF CircInv, Ordered
    <3> QED
      BY <1>1, <1>8, <1>9, <2>1, <2>3, <3>1
  <2> QED
    BY <1>6, <2>2, <2>3
<1>17. NoGap'
  <2> SUFFICES ASSUME NEW i \in Slots, IsOut(i)'
               PROVE  /\ Dist(i) = Out' - 1 => behind'[i] = outgone'[i]
                      /\ \A j \in Slots : (IsOut(j)' /\ Dist(j) = Dist(i) + 1)
                            => behind'[i] - outgone'[i] = behind'[j]
    BY <1>5 DEF NoGap
  <2>1. Dist(i) = Out' - 1 => behind'[i] = outgone'[i]
    BY <1>3, <1>4, <1>5, <1>9
  <2>2. ASSUME NEW j \in Slots, IsOut(j)', Dist(j) = Dist(i) + 1
        PROVE  behind'[i] - outgone'[i] = behind'[j]
    <3>1. IsOut(i)
      BY <1>4, <1>5, <1>6, <2>2 DEF IsOut
    <3>2. CASE j = f
      <4>1. behind[i] = outgone[i]
        BY <1>4, <1>5, <2>2, <3>1, <3>2 DEF CircInv, NoGap
      <4> QED
        BY <1>1, <1>8, <1>9, <3>1, <3>2, <4>1
    <3>3. CASE IsOut(j)
      <4>1. behind[i] - outgone[i] = behind[j]
        BY <2>2, <3>1, <3>3 DEF CircInv, NoGap
      <4> QED
        BY <1>1, <1>8, <1>9, <3>1, <3>3, <4>1
    <3> QED
      BY <1>6, <2>2, <3>2, <3>3
  <2> QED
    BY <2>1, <2>2
<1>18. Counted'
  <2>1. ack_index' = ack_index /\ bytes_avail' = bytes_avail - n
    BY DEF CircPop
  <2>2. bytes_avail = CircLen - (IF Out > 0 THEN behind[ack_index] ELSE 0)
    BY DEF CircInv, Counted
  <2>3. Dist(ack_index) = 0 /\ Out' > 0
    BY <1>2, <1>4, DistIsOneToOne
  <2>4. CASE Out > 0
    <3>1. behind'[ack_index] = behind[ack_index] + n
      BY <1>2, <1>9, <2>3, <2>4 DEF IsOut
    <3> QED
      BY <1>1, <1>2, <1>8, <2>1, <2>2, <2>3, <2>4, <3>1 DEF Counted
  <2>5. CASE Out = 0
    <3>1. ack_index = f
      BY <1>2, <1>3, <1>5, <2>3, <2>5
    <3> QED
      BY <1>1, <1>8, <1>9, <2>1, <2>2, <2>3, <2>5, <3>1 DEF Counted
  <2> QED
    BY <1>4, <2>4, <2>5
<1>19. Len(available') <= NumBuffs
  BY <1>1, <1>3
<1> QED
  BY <1>12, <1>13, <1>14, <1>15, <1>16, <1>17, <1>18, <1>19 DEF CircInv

\* A push marks a buffer that was out as returned.
LEMMA CircPushInv ==
    ASSUME CircInv, NEW i \in Slots, CircPush(i)
    PROVE  CircInv'
<1>1. /\ UNCHANGED <<write, last, bytes_avail, ack_index, available, outgone,
                     memory, behind>>
      /\ i \in Away /\ returned' = returned \cup {i}
  BY DEF CircPush
<1>2. acking' \in BOOLEAN
  BY DEF CircPush
<1>3. CircTypeOK' /\ Len(available') <= NumBuffs
  BY <1>1, <1>2 DEF CircInv, CircTypeOK
<1>4. Out' = Out /\ \A j : Dist(j)' = Dist(j) /\ IsOut(j)' = IsOut(j)
  BY <1>1 DEF Out, Dist, IsOut
<1>5. ReturnedOut'
  <2>1. IsOut(i)
    BY <1>1, AwayIsOut
  <2> QED
    BY <1>1, <1>4, <2>1 DEF CircInv, ReturnedOut
<1>6. QueueOrder'
  BY <1>1 DEF CircInv, QueueOrder, Dist, Out
<1>7. Placed'
  BY <1>1 DEF CircInv, Placed, IsOut, Dist, Out
<1>8. Ordered' /\ NoGap' /\ Counted'
  BY <1>1 DEF CircInv, Ordered, NoGap, Counted, IsOut, Dist, Out
<1> QED
  BY <1>3, <1>5, <1>6, <1>7, <1>8 DEF CircInv

\* An acknowledgement makes the oldest buffer that is out the last available,
\* and brings every other one nearer by one.
LEMMA CircAckInv ==
    ASSUME CircInv, CircAck
    PROVE  CircInv'
<1>0. PICK a \in Slots : a = ack_index
  BY DEF CircInv, CircTypeOK
<1>1. /\ NumBuffs \in Nat \ {0} /\ BuffLen \in Nat /\ CircLen \in Nat
      /\ a \in Slots /\ a \in returned /\ available \in Seq(Slots)
      /\ Len(available) \in Nat /\ Len(available) <= NumBuffs
  BY <1>0, CircAssumption DEF CircAck, Acked, CircInv, CircTypeOK
<1>2. /\ available' = Append(available, a) /\ returned' = returned \ {a}
      /\ bytes_avail' = bytes_avail + outgone[a]
      /\ behind' = [behind EXCEPT ![a] = 0]
      /\ ack_index' = IF a + 1 = NumBuffs THEN 0 ELSE a + 1
      /\ UNCHANGED <<write, last, outgone, memory, acking>>
  BY <1>0 DEF CircAck, Acked, AfterIndex
<1>3. \A i \in Slots : /\ behind[i] \in Nat /\ outgone[i] \in 0 .. BuffLen
                       /\ i # a => behind'[i] = behind[i]
  BY <1>2 DEF CircInv, CircTypeOK
<1>4. /\ available' \in Seq(Slots) /\ Len(available') = Len(available) + 1
      /\ \A k \in 1 .. Len(available) : available'[k] = available[k]
      /\ available'[Len(available) + 1] = a
  BY <1>1, <1>2
<1>5. IsOut(a) /\ Dist(a) = 0
  BY <1>0, <1>1, DistIsOneToOne DEF CircInv, ReturnedOut
<1>6. Out \in 1 .. NumBuffs /\ Out' = Out - 1
  BY <1>1, <1>4, <1>5 DEF Out, IsOut
<1>7. /\ \A i \in Slots : Dist(i) \in 0 .. NumBuffs - 1
      /\ \A i, j \in Slots : Dist(i) = Dist(j) => i = j
      /\ \A i \in Slots : i # a => Dist(i)' = Dist(i) - 1
      /\ Dist(a)' = NumBuffs - 1
  <2>1. \A i \in Slots : i # a => Dist(i)' = Dist(i) - 1
    BY <1>0, <1>1, <1>2 DEF Slots, Dist
  <2>2. Dist(a)' = NumBuffs - 1
    BY <1>0, <1>1, <1>2 DEF Slots, Dist
  <2> QED
    BY <1>0, <2>1, <2>2, DistIsOneToOne
<1>8. \A i \in Slots : IsOut(i)' <=> (IsOut(i) /\ i # a)
  <2> SUFFICES ASSUME NEW i \in Slots PROVE IsOut(i)' <=> (IsOut(i) /\ i # a)
    OBVIOUS
  <2> QED
    BY <1>1, <1>6, <1>7 DEF IsOut
<1>9. CircTypeOK' /\ Len(available') <= NumBuffs
  <2>1. ack_index' \in Slots
    BY <1>1, <1>2 DEF Slots
  <2>2. /\ write' \in 0 .. CircLen /\ last' \in Int /\ returned' \subseteq Slots
        /\ outgone' \in [Slots -> 0 .. BuffLen]
        /\ memory' \in [Slots -> 0 .. CircLen] /\ behind' \in [Slots -> Nat]
    BY <1>2 DEF CircInv, CircTypeOK
  <2>3. acking' \in BOOLEAN
    BY <1>2 DEF CircInv, CircTypeOK
  <2>4. bytes_avail' \in Int
    BY <1>1, <1>2, <1>3 DEF CircInv, CircTypeOK
  <2>5. Len(available') <= NumBuffs
    BY <1>1, <1>4, <1>6 DEF Out
  <2> QED
    BY <1>4, <2>1, <2>2, <2>3, <2>4, <2>5 DEF CircTypeOK
<1>10. QueueOrder'
  <2> SUFFICES ASSUME NEW k \in 1 .. Len(available')
               PROVE  Dist(available[k])' = Out' + k - 1
    BY DEF QueueOrder
  <2>1. CASE k = Len(available) + 1
    <3>1. available'[k] = a
      BY <1>4, <2>1
    <3>2. Dist(available[k])' = Dist(a)'
      BY <3>1, <1>2 DEF Dist
    <3> QED
      BY <1>1, <1>6, <1>7, <2>1, <3>2 DEF Out
  <2>2. CASE k \in 1 .. Len(available)
    <3>1. available'[k] = available[k] /\ available[k] \in Slots
      BY <1>1, <1>4, <2>2
    <3>2. Dist(available[k]) = Out + k - 1
      BY <2>2 DEF CircInv, QueueOrder
    <3>3. available[k] # a
      BY <1>5, <1>6, <2>2, <3>2
    <3>4. PICK v \in Slots : v = available[k] /\ v = available'[k]
      BY <3>1
    <3>5. Dist(available[k])' = Dist(v)'
      BY <3>4 DEF Dist
    <3> QED
      BY <1>6, <1>7, <2>2, <3>2, <3>3, <3>4, <3>5
  <2> QED
    BY <1>1, <1>4, <2>1, <2>2
<1>11. ReturnedOut'
  <2> SUFFICES ASSUME NEW i \in returned' PROVE IsOut(i)'
    BY DEF ReturnedOut
  <2>1. i \in returned /\ i # a /\ i \in Slots
    BY <1>2 DEF CircInv, CircTypeOK
  <2>2. IsOut(i)
    BY <2>1 DEF CircInv, ReturnedOut
  <2> QED
    BY <1>8, <2>1, <2>2
<1>12. Placed'
  <2> SUFFICES ASSUME NEW i \in Slots, IsOut(i)'
               PROVE  /\ outgone'[i] <= behind'[i]
                      /\ behind'[i] <= (Out' - Dist(i)') * BuffLen
                      /\ \/ memory'[i] = write' - behind'[i]
                         \/ memory'[i] = write' - behind'[i] + CircLen
                         \/ memory'[i] = write' - behind'[i] + 2 * CircLen
    BY DEF Placed
  <2>1. IsOut(i) /\ i # a
    BY <1>8
  <2>2. Out' - Dist(i)' = Out - Dist(i) /\ behind'[i] = behind[i]
    BY <1>3, <1>6, <1>7, <2>1
  <2>3. /\ outgone[i] <= behind[i]
        /\ behind[i] <= (Out - Dist(i)) * BuffLen
        /\ \/ memory[i] = write - behind[i]
           \/ memory[i] = write - behind[i] + CircLen
           \/ memory[i] = write - behind[i] + 2 * CircLen
    BY <2>1 DEF CircInv, Placed
  <2> QED
    BY <1>2, <2>2, <2>3
<1>13. Ordered'
  <2> SUFFICES ASSUME NEW i \in Slots, NEW j \in Slots, IsOut(i)', IsOut(j)',
                      Dist(i)' < Dist(j)'
               PROVE  behind'[i] - outgone'[i] >= behind'[j]
    BY DEF Ordered
  <2>1. IsOut(i) /\ i # a /\ IsOut(j) /\ j # a
    BY <1>8
  <2>2. Dist(i) < Dist(j)
    BY <1>7, <2>1
  <2>3. behind[i] - outgone[i] >= behind[j]
    BY <2>1, <2>2 DEF CircInv, Ordered
  <2> QED
    BY <1>2, <1>3, <2>1, <2>3
<1>14. NoGap'
  <2> SUFFICES ASSUME NEW i \in Slots, IsOut(i)'
               PROVE  /\ Dist(i)' = Out' - 1 => behind'[i] = outgone'[i]
                      /\ \A j \in Slots : (IsOut(j)' /\ Dist(j)' = Dist(i)' + 1)
                            => behind'[i] - outgone'[i] = behind'[j]
    BY DEF NoGap
  <2>1. IsOut(i) /\ i # a
    BY <1>8
  <2>2. Dist(i)' = Out' - 1 => behind'[i] = outgone'[i]
    <3>1. Dist(i)' = Out' - 1 => Dist(i) = Out - 1
      BY <1>6, <1>7, <2>1
    <3> QED
      BY <1>2, <1>3, <2>1, <3>1 DEF CircInv, NoGap
  <2>3. ASSUME NEW j \in Slots, IsOut(j)', Dist(j)' = Dist(i)' + 1
        PROVE  behind'[i] - outgone'[i] = behind'[j]
    <3>1. IsOut(j) /\ j # a
      BY <1>8, <2>3
    <3>2. Dist(j) = Dist(i) + 1
      BY <1>7, <2>1, <2>3, <3>1
    <3>3. behind[i] - outgone[i] = behind[j]
      BY <2>1, <3>1, <3>2 DEF CircInv, NoGap
    <3> QED
      BY <1>2, <1>3, <2>1, <3>1, <3>3
  <2> QED
    BY <2>2, <2>3
<1>15. Counted'
  <2>1. bytes_avail = CircLen - behind[a]
    BY <1>0, <1>6 DEF CircInv, Counted
  <2>2. CASE Out = 1
    <3>1. behind[a] = outgone[a]
      BY <1>1, <1>5, <2>2 DEF CircInv, NoGap
    <3> QED
      BY <1>1, <1>2, <1>3, <1>6, <2>1, <2>2, <3>1 DEF Counted
  <2>3. CASE Out > 1
    <3> DEFINE b == IF a + 1 = NumBuffs THEN 0 ELSE a + 1
    <3>1. b = ack_index' /\ b \in Slots /\ Dist(b) = 1
      BY <1>0, <1>1, <1>2, <1>6, <2>3 DEF Slots, Dist
    <3>2. b # a /\ IsOut(b)
      BY <1>5, <1>6, <2>3, <3>1 DEF IsOut
    <3>3. behind[a] - outgone[a] = behind[b] /\ behind'[b] = behind[b]
      BY <1>1, <1>3, <1>5, <3>1, <3>2 DEF CircInv, NoGap
    <3> HIDE DEF b
    <3>4. Out' > 0
      BY <1>6, <2>3
    <3>5. bytes_avail' = bytes_avail + outgone[a]
      BY <1>2, <1>3
    <3>6. behind'[ack_index'] = behind[b]
      BY <3>1, <3>3
    <3>7. behind[a] \in Nat /\ outgone[a] \in Nat /\ behind[b] \in Nat
          /\ CircLen \in Nat
      BY <1>1, <1>3, <3>1
    <3>8. bytes_avail' = CircLen - behind[b]
      BY <2>1, <3>3, <3>5, <3>7
    <3> QED
      BY <3>4, <3>6, <3>8 DEF Counted
  <2> QED
    BY <1>6, <2>2, <2>3
<1> QED
  BY <1>9, <1>10, <1>11, <1>12, <1>13, <1>14, <1>15 DEF CircInv

\* Whatever leaves the variables alone, and the end of the loop of push().
LEMMA CircRestInv ==
    ASSUME CircInv, CircAckEnds \/ UNCHANGED circ
    PROVE  CircInv'
<1>1. UNCHANGED <<write, last, bytes_avail, ack_index, available, returned,
                  outgone, memory, behind>>
  BY DEF CircAckEnds, circ
<1>2. acking' \in BOOLEAN
  BY DEF CircAckEnds, circ, CircInv, CircTypeOK
<1>3. CircTypeOK' /\ Len(available') <= NumBuffs
  BY <1>1, <1>2 DEF CircInv, CircTypeOK
<1>4. QueueOrder' /\ ReturnedOut'
  BY <1>1 DEF CircInv, QueueOrder, ReturnedOut, IsOut, Dist, Out
<1>5. Placed'
  BY <1>1 DEF CircInv, Placed, IsOut, Dist, Out
<1>6. Ordered' /\ NoGap' /\ Counted'
  BY <1>1 DEF CircInv, Ordered, NoGap, Counted, IsOut, Dist, Out
<1> QED
  BY <1>3, <1>4, <1>5, <1>6 DEF CircInv

\* The invariant holds in every state of the queue.
LEMMA CircInvHolds == CircSpec => []CircInv
<1>1. CircInit => CircInv
  BY CircInitInv
<1>2. CircInv /\ [CircNext]_circ => CircInv'
  <2> SUFFICES ASSUME CircInv, [CircNext]_circ PROVE CircInv'
    OBVIOUS
  <2>1. CASE \E n \in 0 .. BuffLen : CircPop(n)
    BY <2>1, CircPopInv
  <2>2. CASE \E i \in Slots : CircPush(i)
    BY <2>2, CircPushInv
  <2>3. CASE CircAck
    BY <2>3, CircAckInv
  <2>4. CASE CircAckEnds \/ UNCHANGED circ
    BY <2>4, CircRestInv
  <2> QED
    BY <2>1, <2>2, <2>3, <2>4 DEF CircNext
<1> QED
  BY <1>1, <1>2, PTL DEF CircSpec

-----------------------------------------------------------------------------
(* The theorems.                                                           *)

\* The pointers, counts and queues of the circular buffer queue stay in their
\* ranges: the write pointer never leaves the first mapping but by its end.
THEOREM RingTypeCorrect == CircSpec => []CircTypeOK
<1>1. CircInv => CircTypeOK
  BY DEF CircInv
<1> QED
  BY <1>1, CircInvHolds, PTL

\* Buffers of a ring that are in use share no memory, for every number and
\* length of the buffers and every order in which they come back.
THEOREM BuffersNeverOverlap == CircSpec => []NoOverlap
  BY InvImpliesNoOverlap, CircInvHolds, PTL

\* While the ring is not empty, work() may fill the front buffer to its full
\* length: the bytes are counted as free, and belong to no buffer in use.
THEOREM FrontIsFree == CircSpec => []WriteIsSafe
  BY InvImpliesWriteIsSafe, CircInvHolds, PTL

-----------------------------------------------------------------------------
(* The ring of a connection.                                               *)

\* Every step of a connection is a step of its ring, or leaves the ring alone.
LEMMA StepUsesRing == [Next]_vars => [CircNext]_circ
<1> SUFFICES ASSUME [Next]_vars PROVE [CircNext]_circ
  OBVIOUS
<1>1. CASE ProduceRing
  <2>1. Items(BuffLen) \subseteq 0 .. BuffLen
    BY CircAssumption DEF Items
  <2>2. PICK n \in Items(BuffLen) : CircPop(n)
    BY <1>1 DEF ProduceRing
  <2> QED
    BY <2>1, <2>2 DEF CircNext
<1>2. CASE ProducePool \/ PostUser \/ Deliver \/ WorkGathers \/ WorkFails
  BY <1>2 DEF ProducePool, PostUser, Deliver, WorkGathers, WorkFails
<1>3. CASE \E i \in PoolIds : ReturnToPool(i)
  BY <1>3 DEF ReturnToPool
<1>4. CASE \E i \in Slots : ReturnToRing(i)
  BY <1>4 DEF ReturnToRing, CircNext
<1>5. CASE AckRing
  BY <1>5 DEF AckRing, CircNext
<1>6. CASE \E n \in Items(MaxBytes) : WorkConsumes(n)
  BY <1>6 DEF WorkConsumes
<1>7. CASE UNCHANGED vars
  BY <1>7 DEF vars
<1> QED
  BY <1>1, <1>2, <1>3, <1>4, <1>5, <1>6, <1>7 DEF Next

\* A connection implements the specification of the circular buffer queue:
\* the ring is popped, pushed and acknowledged as output_buffer_queues.hpp and
\* the token callback do, and in no other way.
THEOREM StreamUsesRing == Spec => CircSpec
<1>1. Init => CircInit
  BY DEF Init
<1> QED
  BY <1>1, StepUsesRing, PTL DEF Spec, CircSpec

\* In a connection, two buffers of the ring that any handle refers to share
\* no memory, however the input queue joined and gave back their bytes.
THEOREM StreamBuffersNeverOverlap == Spec => []NoOverlap
  BY StreamUsesRing, BuffersNeverOverlap, PTL

\* In a connection, work() may fill the front buffer of the ring: the bytes
\* belong to no buffer that a handle refers to.
THEOREM StreamFrontIsFree == Spec => []WriteIsSafe
  BY StreamUsesRing, FrontIsFree, PTL

-----------------------------------------------------------------------------
(* Sums of lengths.                                                        *)

\* a queue of handles, of which only the lengths matter
IsQueue(q) == Len(q) \in Nat /\ \A k \in 1 .. Len(q) : q[k].length \in Nat

\* The bytes before a handle are those before its predecessor, and its own.
LEMMA UptoDef ==
    ASSUME NEW q, IsQueue(q)
    PROVE  /\ Upto(q) \in [0 .. Len(q) -> Nat] /\ Upto(q)[0] = 0
           /\ \A k \in 1 .. Len(q) : Upto(q)[k] = Upto(q)[k - 1] + q[k].length
<1> DEFINE n == Len(q)
           E(f) == [k \in 0 .. n |-> IF k = 0 THEN 0 ELSE f[k - 1] + q[k].length]
           F == [p \in (1 .. n) \X Nat |-> p[2] + q[p[1]].length]
<1>1. F \in [(1 .. n) \X Nat -> Nat] /\ n \in Nat
  BY DEF IsQueue
<1>2. PICK f : Loop(f, n, Nat, 0, F)
  <2> HIDE DEF F, n
  <2> QED
    BY <1>1, LoopExists
<1>3. \A k \in 1 .. n : f[k] = f[k - 1] + q[k].length
  <2>1. SUFFICES ASSUME NEW k \in 1 .. n PROVE f[k] = f[k - 1] + q[k].length
    OBVIOUS
  <2>2. f[k - 1] \in Nat
    BY <1>1, <1>2 DEF Loop
  <2>3. f[k] = F[<<k, f[k - 1]>>]
    <3> HIDE DEF F
    <3> QED
      BY <1>1, <1>2 DEF Loop
  <2>4. QED
    BY <2>2, <2>3
<1>4. f = E(f)
  BY <1>1, <1>2, <1>3 DEF Loop
<1>5. Upto(q) = CHOOSE g : g = E(g)
  BY DEF Upto
<1>6. Upto(q) = E(Upto(q))
  <2> HIDE DEF E
  <2> QED
  BY <1>4, <1>5
<1>7. \A k \in 0 .. n : Upto(q)[k] = IF k = 0 THEN 0 ELSE Upto(q)[k - 1] + q[k].length
  BY <1>6
<1>8. DOMAIN Upto(q) = 0 .. n
  BY <1>6
<1>9. \A k \in 0 .. n : Upto(q)[k] \in Nat
  <2> DEFINE T == {k \in Nat : k <= n => Upto(q)[k] \in Nat}
  <2>1. 0 \in T
    BY <1>1, <1>7
  <2>2. ASSUME NEW k \in Nat, k \in T PROVE k + 1 \in T
    <3>1. SUFFICES ASSUME k + 1 <= n PROVE Upto(q)[k + 1] \in Nat
      OBVIOUS
    <3>2. k + 1 \in 0 .. n /\ k + 1 # 0 /\ Upto(q)[k] \in Nat
      BY <1>1, <2>2, <3>1
    <3>3. Upto(q)[k + 1] = Upto(q)[k] + q[k + 1].length /\ k + 1 \in 1 .. n
      BY <1>1, <1>7, <3>2
    <3>4. QED
      BY <3>2, <3>3 DEF IsQueue
  <2>3. Nat \subseteq T
    <3> HIDE DEF T
    <3> QED
      BY <2>1, <2>2, SetInduction
  <2>4. QED
    BY <1>1, <2>3
<1>10. Upto(q) \in [0 .. n -> Nat]
  BY <1>6, <1>9
<1>11. QED
  BY <1>1, <1>7, <1>10

\* the m lengths of q behind a are those of r behind b
Same(q, a, r, b, m) ==
    /\ a \in Nat /\ b \in Nat /\ m \in Nat
    /\ IsQueue(q) /\ a + m <= Len(q)
    /\ IsQueue(r) /\ b + m <= Len(r)
    /\ \A i \in 1 .. m : r[b + i].length = q[a + i].length

\* queues that agree on m lengths grow by the same there
LEMMA UptoAgrees ==
    ASSUME NEW q, NEW r, NEW a, NEW b, NEW m, Same(q, a, r, b, m)
    PROVE  Upto(r)[b + m] - Upto(r)[b] = Upto(q)[a + m] - Upto(q)[a]
<1> DEFINE T == {i \in Nat : i <= m =>
                     Upto(r)[b + i] - Upto(r)[b] = Upto(q)[a + i] - Upto(q)[a]}
<1>1. Len(q) \in Nat /\ Len(r) \in Nat
  BY DEF Same, IsQueue
<1> a \in Nat /\ b \in Nat /\ m \in Nat
  BY DEF Same
<1>2. /\ \A k \in 0 .. Len(q) : Upto(q)[k] \in Nat
      /\ \A k \in 0 .. Len(r) : Upto(r)[k] \in Nat
      /\ \A k \in 1 .. Len(q) : Upto(q)[k] = Upto(q)[k - 1] + q[k].length
      /\ \A k \in 1 .. Len(r) : Upto(r)[k] = Upto(r)[k - 1] + r[k].length
  BY UptoDef DEF Same
<1>3. 0 \in T
  <2>1. b + 0 = b /\ a + 0 = a /\ a \in 0 .. Len(q) /\ b \in 0 .. Len(r)
    BY <1>1 DEF Same
  <2>2. Upto(r)[b] - Upto(r)[b] = 0 /\ Upto(q)[a] - Upto(q)[a] = 0
    BY <1>2, <2>1
  <2>3. QED
    BY <2>1, <2>2
<1>4. ASSUME NEW i \in Nat, i \in T PROVE i + 1 \in T
  <2>1. SUFFICES ASSUME i + 1 <= m
                 PROVE  Upto(r)[b + (i + 1)] - Upto(r)[b] = Upto(q)[a + (i + 1)] - Upto(q)[a]
    OBVIOUS
  <2>2. Upto(r)[b + i] - Upto(r)[b] = Upto(q)[a + i] - Upto(q)[a]
    BY <1>4, <2>1
  <2>3. /\ a + (i + 1) \in 1 .. Len(q) /\ b + (i + 1) \in 1 .. Len(r)
        /\ a + i \in 0 .. Len(q) /\ b + i \in 0 .. Len(r)
        /\ a \in 0 .. Len(q) /\ b \in 0 .. Len(r)
        /\ (a + (i + 1)) - 1 = a + i /\ (b + (i + 1)) - 1 = b + i
    <3>1. Len(q) \in Nat /\ Len(r) \in Nat /\ a + m <= Len(q) /\ b + m <= Len(r)
      BY <1>1 DEF Same
    <3>2. QED
      BY ONLY <2>1, <3>1, a \in Nat, b \in Nat, i \in Nat, m \in Nat
  <2>4. Upto(q)[a + (i + 1)] = Upto(q)[a + i] + q[a + (i + 1)].length
    BY <1>2, <2>3
  <2>5. Upto(r)[b + (i + 1)] = Upto(r)[b + i] + r[b + (i + 1)].length
    BY <1>2, <2>3
  <2>6. r[b + (i + 1)].length = q[a + (i + 1)].length
    <3>1. i + 1 \in 1 .. m
      BY <2>1
    <3>2. QED
      BY <3>1 DEF Same
  <2>7. q[a + (i + 1)].length \in Nat
    BY <2>3 DEF Same, IsQueue
  <2>8. /\ Upto(q)[a] \in Nat /\ Upto(r)[b] \in Nat
        /\ Upto(q)[a + i] \in Nat /\ Upto(r)[b + i] \in Nat
    BY <1>2, <2>3
  <2>9. QED
    BY ONLY <2>2, <2>4, <2>5, <2>6, <2>7, <2>8
<1>5. m \in T
  <2> HIDE DEF T
  <2> QED
    BY <1>3, <1>4, SetInduction
<1>6. QED
  BY <1>5

\* The sum does not decrease from one handle to the next.
LEMMA UptoGrows ==
    ASSUME NEW q, IsQueue(q), NEW i \in 0 .. Len(q), NEW j \in 0 .. Len(q), i <= j
    PROVE  Upto(q)[i] <= Upto(q)[j]
<1> DEFINE T == {d \in Nat : i + d <= Len(q) => Upto(q)[i] <= Upto(q)[i + d]}
<1>1. Len(q) \in Nat
  BY DEF IsQueue
<1>2. /\ \A k \in 0 .. Len(q) : Upto(q)[k] \in Nat
      /\ \A k \in 1 .. Len(q) : Upto(q)[k] = Upto(q)[k - 1] + q[k].length
  BY UptoDef
<1>3. 0 \in T
  BY <1>1, <1>2
<1>4. ASSUME NEW d \in Nat, d \in T PROVE d + 1 \in T
  <2>1. SUFFICES ASSUME i + (d + 1) <= Len(q) PROVE Upto(q)[i] <= Upto(q)[i + (d + 1)]
    OBVIOUS
  <2>2. /\ i + (d + 1) \in 1 .. Len(q) /\ i + d \in 0 .. Len(q) /\ (i + (d + 1)) - 1 = i + d
    BY <1>1, <2>1
  <2>3. Upto(q)[i + (d + 1)] = Upto(q)[i + d] + q[i + (d + 1)].length
    BY <1>2, <2>2
  <2>4. Upto(q)[i] <= Upto(q)[i + d]
    BY <1>1, <1>4, <2>2
  <2>5. q[i + (d + 1)].length \in Nat
    BY <2>2 DEF IsQueue
  <2>6. Upto(q)[i] \in Nat /\ Upto(q)[i + d] \in Nat
    BY <1>2, <2>2
  <2>7. QED
    BY ONLY <2>3, <2>4, <2>5, <2>6
<1>5. j - i \in T
  <2>1. j - i \in Nat
    BY <1>1
  <2> HIDE DEF T
  <2> QED
    BY <1>3, <1>4, <2>1, SetInduction
<1>6. QED
  BY <1>1, <1>5

\* A queue holds a number of bytes.
LEMMA TotalNat == ASSUME NEW q, IsQueue(q) PROVE Total(q) \in Nat
  BY UptoDef DEF Total, IsQueue

\* An empty queue holds none.
LEMMA TotalEmpty == Total(<<>>) = 0
<1>1. IsQueue(<<>>) /\ Len(<<>>) = 0
  BY DEF IsQueue
<1>2. QED
  BY <1>1, UptoDef DEF Total

\* A handle more adds its bytes.
LEMMA TotalAppend ==
    ASSUME NEW q, NEW r, IsQueue(q), IsQueue(r), Len(r) = Len(q) + 1,
           \A k \in 1 .. Len(q) : r[k].length = q[k].length
    PROVE  Total(r) = Total(q) + r[Len(r)].length
<1> DEFINE n == Len(q)
<1>1. n \in Nat /\ Len(r) = n + 1
  BY DEF IsQueue
<1>2. Upto(r)[0 + n] - Upto(r)[0] = Upto(q)[0 + n] - Upto(q)[0]
  <2>1. Same(q, 0, r, 0, n)
    BY <1>1 DEF Same
  <2>2. QED
    BY <1>1, <2>1, UptoAgrees
<1>3. Upto(r)[0] = 0 /\ Upto(q)[0] = 0 /\ Upto(r)[n] \in Nat /\ Upto(q)[n] \in Nat
  BY <1>1, UptoDef
<1>4. Upto(r)[n + 1] = Upto(r)[n] + r[n + 1].length
  BY <1>1, UptoDef
<1>5. Total(r) = Upto(r)[n + 1] /\ Total(q) = Upto(q)[n] /\ r[n + 1].length \in Nat
  BY <1>1 DEF Total, IsQueue
<1>6. QED
  BY <1>1, <1>2, <1>3, <1>4, <1>5

\* r is q, from the handle after m on, behind another front
LEMMA TotalFront ==
    ASSUME NEW q, NEW r, IsQueue(q), IsQueue(r), NEW m \in 0 .. Len(q),
           Len(r) = Len(q) - m + 1, \A k \in 1 .. Len(q) - m : r[1 + k].length = q[m + k].length
    PROVE  Total(r) = r[1].length + (Total(q) - Upto(q)[m])
<1> DEFINE n == Len(q) - m
<1>1. n \in Nat /\ Len(r) = 1 + n /\ Len(q) = m + n /\ m \in Nat /\ 1 \in Nat
  BY DEF IsQueue
<1>2. Upto(r)[1 + n] - Upto(r)[1] = Upto(q)[m + n] - Upto(q)[m]
  <2>1. Same(q, m, r, 1, n)
    <3>1. IsQueue(q) /\ IsQueue(r) /\ m + n <= Len(q) /\ 1 + n <= Len(r)
      BY <1>1
    <3>2. \A k \in 1 .. n : r[1 + k].length = q[m + k].length
      OBVIOUS
    <3> HIDE DEF n
    <3>3. QED
      BY <1>1, <3>1, <3>2 DEF Same
  <2> HIDE DEF n
  <2>2. QED
    BY <2>1, UptoAgrees
<1>3. Upto(r)[0] = 0 /\ Upto(r)[1] = Upto(r)[0] + r[1].length /\ r[1].length \in Nat
  BY <1>1, UptoDef DEF IsQueue
<1>4. Upto(q)[m] \in Nat /\ Upto(q)[m + n] \in Nat /\ Upto(r)[1 + n] \in Nat
  <2>1. m \in 0 .. Len(q) /\ m + n \in 0 .. Len(q) /\ 1 + n \in 0 .. Len(r)
    BY <1>1
  <2>2. QED
    BY <2>1, UptoDef
<1>5. Total(r) = Upto(r)[1 + n] /\ Total(q) = Upto(q)[m + n]
  BY <1>1 DEF Total
<1>6. QED
  BY ONLY <1>2, <1>3, <1>4, <1>5

\* what the handle at j + 1 gives the handle at j is not lost
LEMMA TotalMoved ==
    ASSUME NEW q, NEW r, IsQueue(q), IsQueue(r), Len(r) = Len(q),
           NEW j \in 1 .. Len(q) - 1,
           r[j].length + r[j + 1].length = q[j].length + q[j + 1].length,
           \A k \in 1 .. Len(q) : k # j /\ k # j + 1 => r[k].length = q[k].length
    PROVE  Total(r) = Total(q)
<1> DEFINE n == Len(q)
           m == n - (j + 1)
<1>1. n \in Nat /\ Len(r) = n /\ m \in Nat /\ n = (j + 1) + m /\ j \in Nat \ {0}
  BY DEF IsQueue
<1>2. Same(q, 0, r, 0, j - 1)
  BY <1>1 DEF Same
<1>3. Same(q, j + 1, r, j + 1, m)
  BY <1>1 DEF Same
<1>4. /\ Upto(r)[0 + (j - 1)] - Upto(r)[0] = Upto(q)[0 + (j - 1)] - Upto(q)[0]
      /\ Upto(r)[(j + 1) + m] - Upto(r)[j + 1] = Upto(q)[(j + 1) + m] - Upto(q)[j + 1]
  <2> HIDE DEF m
  <2> QED
    BY <1>2, <1>3, UptoAgrees
<1>5. ASSUME NEW s, IsQueue(s), Len(s) = n
      PROVE  /\ Upto(s)[0] = 0 /\ Upto(s)[j - 1] \in Nat /\ Upto(s)[j + 1] \in Nat
             /\ Upto(s)[n] \in Nat /\ s[j].length \in Nat /\ s[j + 1].length \in Nat
             /\ Upto(s)[j + 1] = (Upto(s)[j - 1] + s[j].length) + s[j + 1].length
             /\ Total(s) = Upto(s)[n]
  <2>1. /\ j - 1 \in 0 .. Len(s) /\ j + 1 \in 1 .. Len(s) /\ j \in 1 .. Len(s)
        /\ n \in 0 .. Len(s) /\ (j + 1) - 1 = j /\ 0 \in 0 .. Len(s) /\ j + 1 \in 0 .. Len(s)
    BY <1>1, <1>5
  <2>2. /\ Upto(s)[0] = 0 /\ Upto(s)[j - 1] \in Nat /\ Upto(s)[j + 1] \in Nat
        /\ Upto(s)[n] \in Nat /\ Upto(s)[j] = Upto(s)[j - 1] + s[j].length
        /\ Upto(s)[j + 1] = Upto(s)[j] + s[j + 1].length
    BY <1>5, <2>1, UptoDef
  <2>3. s[j].length \in Nat /\ s[j + 1].length \in Nat
    BY <1>5, <2>1 DEF IsQueue
  <2>4. QED
    BY <1>5, <2>2, <2>3 DEF Total
<1>6. 0 + (j - 1) = j - 1 /\ (j + 1) + m = n
  BY <1>1
<1> HIDE DEF m, n
<1>7. /\ Upto(r)[j - 1] - Upto(r)[0] = Upto(q)[j - 1] - Upto(q)[0]
      /\ Upto(r)[n] - Upto(r)[j + 1] = Upto(q)[n] - Upto(q)[j + 1]
  BY <1>4, <1>6
<1>8. IsQueue(q) /\ Len(q) = n /\ IsQueue(r) /\ Len(r) = n
  BY <1>1 DEF n
<1>9. /\ Upto(q)[0] = 0 /\ Upto(q)[j - 1] \in Nat /\ Upto(q)[j + 1] \in Nat
      /\ Upto(q)[n] \in Nat /\ q[j].length \in Nat /\ q[j + 1].length \in Nat
      /\ Upto(q)[j + 1] = (Upto(q)[j - 1] + q[j].length) + q[j + 1].length
      /\ Total(q) = Upto(q)[n]
  BY <1>5, <1>8
<1>10. /\ Upto(r)[0] = 0 /\ Upto(r)[j - 1] \in Nat /\ Upto(r)[j + 1] \in Nat
       /\ Upto(r)[n] \in Nat /\ r[j].length \in Nat /\ r[j + 1].length \in Nat
       /\ Upto(r)[j + 1] = (Upto(r)[j - 1] + r[j].length) + r[j + 1].length
       /\ Total(r) = Upto(r)[n]
  BY <1>5, <1>8
<1>11. r[j].length + r[j + 1].length = q[j].length + q[j + 1].length
  OBVIOUS
<1>12. Upto(q)[j + 1] = Upto(r)[j + 1]
  <2>1. Upto(q)[j - 1] = Upto(r)[j - 1]
    BY <1>7, <1>9, <1>10
  <2>2. Upto(r)[j + 1] = Upto(r)[j - 1] + (r[j].length + r[j + 1].length)
    BY <1>10
  <2>3. Upto(q)[j + 1] = Upto(q)[j - 1] + (q[j].length + q[j + 1].length)
    BY <1>9
  <2>4. QED
    BY <2>1, <2>2, <2>3, <1>11
<1>13. Upto(r)[n] = Upto(q)[n]
  <2>1. ASSUME NEW a \in Nat, NEW b \in Nat, NEW c \in Nat, a - c = b - c PROVE a = b
    BY <2>1
  <2>2. Upto(r)[n] - Upto(q)[j + 1] = Upto(q)[n] - Upto(q)[j + 1]
    BY <1>7, <1>12
  <2> HIDE <1>12
  <2>3. QED
    BY <1>9, <1>10, <2>1, <2>2
<1>14. QED
  BY <1>9, <1>10, <1>13

\* Without its first m handles a queue holds that much less.
LEMMA TotalRest ==
    ASSUME NEW q, NEW r, IsQueue(q), IsQueue(r), NEW m \in 0 .. Len(q),
           Len(r) = Len(q) - m, \A k \in 1 .. Len(q) - m : r[k].length = q[m + k].length
    PROVE  Total(r) = Total(q) - Upto(q)[m]
<1> DEFINE n == Len(q) - m
<1>1. n \in Nat /\ Len(r) = n /\ Len(q) = m + n /\ m \in Nat /\ Len(q) \in Nat
  BY DEF IsQueue
<1>2. Same(q, m, r, 0, n)
  BY <1>1 DEF Same
<1> HIDE DEF n
<1>3. Upto(r)[0 + n] - Upto(r)[0] = Upto(q)[m + n] - Upto(q)[m]
  BY <1>2, UptoAgrees
<1>4. Upto(r)[0] = 0 /\ Upto(r)[n] \in Nat
  BY <1>1, UptoDef
<1>5. Upto(q)[m] \in Nat /\ Upto(q)[m + n] \in Nat
  <2>1. m \in 0 .. Len(q) /\ m + n \in 0 .. Len(q)
    BY <1>1
  <2>2. QED
    BY <2>1, UptoDef
<1>6. 0 + n = n /\ Total(r) = Upto(r)[n] /\ Total(q) = Upto(q)[m + n]
  BY <1>1 DEF Total
<1>7. QED
  BY <1>3, <1>4, <1>5, <1>6

-----------------------------------------------------------------------------
(* Handles.                                                                *)

Pointers == (Areas \cup {<<"null", 0>>, <<"wild", 0>>}) \X Int
Handles  == [buf : Buffers, memory : Nat, offset : Nat, length : Nat, last : Pointers]

\* A sequence of handles is a queue, as the sums see it.
LEMMA HandlesAreQueue ==
    ASSUME NEW q \in Seq(Handles)
    PROVE  IsQueue(q) /\ Len(q) \in Nat /\ DOMAIN q = 1 .. Len(q)
           /\ \A k \in 1 .. Len(q) : q[k] \in Handles
<1>1. Len(q) \in Nat /\ DOMAIN q = 1 .. Len(q) /\ \A k \in 1 .. Len(q) : q[k] \in Handles
  OBVIOUS
<1>2. \A h \in Handles : h.length \in Nat
  BY DEF Handles
<1>3. QED
  BY <1>1, <1>2 DEF IsQueue

\* Every buffer lies in memory.
LEMMA AreaIsArea == ASSUME NEW b \in Buffers PROVE Area(b) \in Areas
  BY DEF Area, Areas

\* get() of a handle is a pointer into memory.
LEMMA AtIsPointer ==
    ASSUME NEW s \in Handles, NEW d \in Int
    PROVE  At(s, d) \in Pointers /\ At(s, d) # Null /\ At(s, d) # Wild
<1>1. s.buf \in Buffers /\ s.memory \in Nat /\ s.offset \in Nat
  BY DEF Handles
<1>2. Area(s.buf) \in Areas /\ s.memory + s.offset + d \in Int
  BY <1>1, AreaIsArea
<1>3. \A a \in Areas : a # <<"null", 0>> /\ a # <<"wild", 0>>
  BY DEF Areas, Buffers, Ring, Aux
<1>4. QED
  BY <1>2, <1>3 DEF At, Pointers, Null, Wild

\* What an allocator makes is a handle.
LEMMA HandleIsHandle ==
    ASSUME NEW b \in Buffers, NEW m \in Nat, NEW o \in Nat, NEW l \in Pointers, NEW n \in Nat
    PROVE  [Handle(b, m, o, l) EXCEPT !.length = n] \in Handles
  BY DEF Handle, Handles

\* The values of last that point nowhere.
LEMMA NullIsPointer == Null \in Pointers /\ Wild \in Pointers
  BY DEF Null, Wild, Pointers

\* only the front is an auxiliary buffer, which joins with nothing
Fronted(q) ==
    \A k \in 1 .. Len(q) : q[k].buf \in Aux =>
        k = 1 /\ q[k].last = Null /\ q[k].length <= Free

Queues == {q \in Seq(Handles) : Fronted(q)}

\* A join moves bytes from one handle to the other, and keeps the front.
LEMMA StitchKeeps ==
    ASSUME NEW q \in Queues, NEW j \in 1 .. Len(q) - 1
    PROVE  /\ StitchAt(q, j) \in Queues /\ Len(StitchAt(q, j)) = Len(q)
           /\ Total(StitchAt(q, j)) = Total(q)
<1> DEFINE r == StitchAt(q, j)
           b0 == q[j]
           b1 == q[j + 1]
           joined == [b0 EXCEPT !.length = @ + b1.length]
           given == [b1 EXCEPT !.offset = @ + b1.length, !.length = 0,
                               !.last = At(joined, joined.length)]
<1>1. /\ q \in Seq(Handles) /\ IsQueue(q) /\ Len(q) \in Nat /\ DOMAIN q = 1 .. Len(q)
      /\ \A k \in 1 .. Len(q) : q[k] \in Handles
  BY HandlesAreQueue DEF Queues
<1>2. CASE ~(b1.last = At(b0, b0.length) /\ b0.last # Null)
  <2>1. r = q
    BY <1>2 DEF StitchAt
  <2>2. QED
    BY <2>1
<1>3. CASE b1.last = At(b0, b0.length) /\ b0.last # Null
  <2>1. r = [q EXCEPT ![j] = joined, ![j + 1] = given]
    BY <1>3 DEF StitchAt
  <2>2. j \in 1 .. Len(q) /\ j + 1 \in 1 .. Len(q) /\ j # j + 1
    BY <1>1
  <2>3. b0 \in Handles /\ b1 \in Handles
    BY <1>1, <2>2
  <2>4. /\ joined \in Handles /\ joined.buf = b0.buf /\ joined.last = b0.last
        /\ joined.length = b0.length + b1.length
    <3>1. b0.length + b1.length \in Nat
      BY <2>3 DEF Handles
    <3> HIDE DEF b0, b1
    <3>2. QED
      BY <2>3, <3>1 DEF Handles
  <2>5. joined.length \in Int
    BY <2>4 DEF Handles
  <2>6. At(joined, joined.length) \in Pointers
    BY <2>4, <2>5, AtIsPointer
  <2>7. given \in Handles /\ given.buf = b1.buf /\ given.length = 0
    <3>1. PICK x \in Pointers : x = At(joined, joined.length)
      BY <2>6
    <3>2. given = [b1 EXCEPT !.offset = @ + b1.length, !.length = 0, !.last = x]
      BY <3>1
    <3> HIDE DEF joined, given, b1
    <3>3. b1.offset + b1.length \in Nat
      BY <2>3 DEF Handles
    <3>4. QED
      BY <2>3, <3>2, <3>3 DEF Handles
  <2> HIDE DEF joined, given, r
  <2>8. /\ r \in Seq(Handles) /\ Len(r) = Len(q) /\ r[j] = joined /\ r[j + 1] = given
        /\ \A k \in 1 .. Len(q) : k # j /\ k # j + 1 => r[k] = q[k]
    BY <1>1, <2>1, <2>2, <2>4, <2>7
  <2>9. IsQueue(r)
    BY <2>8, HandlesAreQueue
  <2>10. Total(r) = Total(q)
    <3>1. b0.length \in Nat /\ b1.length \in Nat
      BY <2>3 DEF Handles
    <3>2. r[j].length + r[j + 1].length = q[j].length + q[j + 1].length
      BY <2>4, <2>7, <2>8, <3>1
    <3>3. \A k \in 1 .. Len(q) : k # j /\ k # j + 1 => r[k].length = q[k].length
      BY <2>8
    <3>4. QED
      BY <1>1, <2>8, <2>9, <3>2, <3>3, TotalMoved
  <2>11. b0.buf \notin Aux
    BY <1>3, <2>2 DEF Queues, Fronted
  <2>12. b1.buf \notin Aux
    BY <1>1, <2>2 DEF Queues, Fronted
  <2>13. Fronted(r)
    <3>1. SUFFICES ASSUME NEW k \in 1 .. Len(r), r[k].buf \in Aux
                   PROVE  k = 1 /\ r[k].last = Null /\ r[k].length <= Free
      BY DEF Fronted
    <3>2. k # j /\ k # j + 1
      BY <2>4, <2>7, <2>8, <2>11, <2>12, <3>1
    <3>3. QED
      BY <2>8, <3>1, <3>2 DEF Queues, Fronted
  <2>14. QED
    BY <2>8, <2>10, <2>13 DEF r, Queues
<1>4. QED
  BY <1>2, <1>3

\* push() is a loop of StitchAt: what stitching keeps, the loop keeps, after
\* which the pushed handle may leave, if its buffer is that of the handle before
LEMMA PushBy ==
    ASSUME NEW q \in Seq(Handles), NEW s \in Handles, NEW S,
           Append(q, s) \in S,
           \A r \in S : \A j \in 1 .. Len(q) : StitchAt(r, j) \in S
    PROVE  LET n == Len(q) + 1 IN
           \E r \in S :
              Pushed(q, s) = IF n > 1 /\ r[n].length = 0 /\ r[n].buf = r[n - 1].buf
                             THEN SubSeq(r, 1, n - 1) ELSE r
<1> DEFINE all == Append(q, s)
           n == Len(all)
           F == [p \in (1 .. n - 1) \X S |-> StitchAt(p[2], n - p[1])]
           E(f) == [k \in 0 .. n - 1 |-> IF k = 0 THEN all ELSE StitchAt(f[k - 1], n - k)]
           round == CHOOSE f : f = E(f)
           stitched == round[n - 1]
           popped == SubSeq(stitched, 1, n - 1)
<1>1. Len(q) \in Nat /\ n = Len(q) + 1 /\ n - 1 \in Nat /\ n \in Nat
  OBVIOUS
<1>2. Pushed(q, s) = IF n > 1 /\ stitched[n].length = 0 /\ stitched[n].buf = stitched[n - 1].buf
                     THEN popped ELSE stitched
  BY DEF Pushed
<1>3. all \in S
  OBVIOUS
<1> HIDE DEF all, n
<1>4. ASSUME NEW k \in 1 .. n - 1, NEW r \in S PROVE StitchAt(r, n - k) \in S
  <2>1. n - k \in 1 .. Len(q)
    BY <1>1
  <2>2. QED
    BY <2>1
<1>5. F \in [(1 .. n - 1) \X S -> S]
  BY <1>4
<1>6. PICK f : Loop(f, n - 1, S, all, F)
  <2> HIDE DEF F
  <2>1. QED
    BY <1>1, <1>3, <1>5, LoopExists
<1>7. f = E(f)
  <2>1. ASSUME NEW k \in 1 .. n - 1 PROVE f[k] = StitchAt(f[k - 1], n - k)
    <3>1. f[k - 1] \in S
      BY <1>1, <1>6 DEF Loop
    <3>2. f[k] = F[<<k, f[k - 1]>>]
      <4> HIDE DEF F
      <4> QED
        BY <1>6 DEF Loop
    <3>3. QED
      BY <3>1, <3>2
  <2>2. f[0] = all /\ f \in [0 .. n - 1 -> S]
    <3> HIDE DEF F
    <3> QED
      BY <1>6 DEF Loop
  <2> HIDE DEF F
  <2>3. QED
    BY <1>1, <2>1, <2>2
<1>8. round = E(round)
  <2> HIDE DEF E
  <2> QED
    BY <1>7
<1>9. round[0] = all /\ \A k \in 1 .. n - 1 : round[k] = StitchAt(round[k - 1], n - k)
  <2> HIDE DEF round
  <2> QED
    BY <1>1, <1>8
<1>10. stitched \in S
  <2> DEFINE T == {k \in Nat : k <= n - 1 => round[k] \in S}
  <2> HIDE DEF round
  <2>1. 0 \in T
    BY <1>3, <1>9
  <2>2. ASSUME NEW k \in Nat, k \in T PROVE k + 1 \in T
    <3>1. SUFFICES ASSUME k + 1 <= n - 1 PROVE round[k + 1] \in S
      BY DEF T
    <3>2. k + 1 \in 1 .. n - 1 /\ (k + 1) - 1 = k /\ round[k] \in S
      BY <1>1, <2>2, <3>1
    <3>3. round[k + 1] = StitchAt(round[k], n - (k + 1))
      BY <1>9, <3>2
    <3>4. QED
      BY <1>4, <3>2, <3>3
  <2>3. n - 1 \in T
    <3> HIDE DEF T
    <3> QED
      BY <1>1, <2>1, <2>2, SetInduction
  <2>4. QED
    BY <1>1, <2>3
<1> HIDE DEF stitched, round
<1>11. QED
  BY <1>1, <1>2, <1>10

\* A push adds the bytes of the handle that is pushed.
LEMMA PushKeeps ==
    ASSUME NEW q \in Queues, NEW s \in Handles, s.buf \notin Aux
    PROVE  Pushed(q, s) \in Queues /\ Total(Pushed(q, s)) = Total(q) + s.length
<1> DEFINE all == Append(q, s)
           n == Len(all)
           S == {r \in Queues : Len(r) = n /\ Total(r) = Total(all)}
<1>1. /\ q \in Seq(Handles) /\ IsQueue(q) /\ Len(q) \in Nat /\ DOMAIN q = 1 .. Len(q)
      /\ \A k \in 1 .. Len(q) : q[k] \in Handles
  BY HandlesAreQueue DEF Queues
<1>2. /\ all \in Seq(Handles) /\ n = Len(q) + 1 /\ all[n] = s
      /\ \A k \in 1 .. Len(q) : all[k] = q[k]
  BY <1>1
<1>3. n - 1 \in Nat /\ n \in Nat
  BY <1>1, <1>2
<1> HIDE DEF all, n
<1>4. all \in Queues
  BY <1>1, <1>2, <1>3 DEF Queues, Fronted, n
<1>5. Total(all) = Total(q) + s.length
  <2>1. IsQueue(all) /\ n = Len(all)
    BY <1>2, HandlesAreQueue DEF n
  <2>2. QED
    BY <1>1, <1>2, <2>1, TotalAppend
<1>6. all \in S
  BY <1>4 DEF n
<1>7. ASSUME NEW r \in S, NEW j \in 1 .. Len(q) PROVE StitchAt(r, j) \in S
  <2>1. j \in 1 .. Len(r) - 1 /\ r \in Queues /\ Len(r) = n /\ Total(r) = Total(all)
    BY <1>1, <1>2
  <2>2. QED
    BY <2>1, StitchKeeps
<1>8. PICK r \in S :
         Pushed(q, s) = IF n > 1 /\ r[n].length = 0 /\ r[n].buf = r[n - 1].buf
                        THEN SubSeq(r, 1, n - 1) ELSE r
  <2> HIDE DEF S
  <2>1. QED
    BY <1>1, <1>2, <1>6, <1>7, PushBy DEF all
<1> DEFINE popped == SubSeq(r, 1, n - 1)
<1>9. r \in Queues /\ Len(r) = n /\ Total(r) = Total(all)
  OBVIOUS
<1>10. ASSUME n > 1, r[n].length = 0
       PROVE  popped \in Queues /\ Total(popped) = Total(all)
  <2>1. r \in Seq(Handles) /\ IsQueue(r) /\ Len(r) = n
    BY <1>9, HandlesAreQueue DEF Queues
  <2>2. /\ popped \in Seq(Handles) /\ Len(popped) = n - 1
        /\ \A k \in 1 .. n - 1 : popped[k] = r[k]
    BY <1>3, <2>1
  <2>3. IsQueue(popped)
    BY <2>2, HandlesAreQueue
  <2>4. Total(r) = Total(popped) + r[n].length
    <3> HIDE DEF popped
    <3>1. Len(r) = Len(popped) + 1
      BY <1>3, <2>1, <2>2
    <3>2. \A k \in 1 .. Len(popped) : r[k].length = popped[k].length
      BY <2>2
    <3>3. QED
      BY <2>1, <2>3, <3>1, <3>2, TotalAppend
  <2>5. Total(popped) \in Nat
    BY <2>3, TotalNat
  <2>6. Fronted(popped)
    <3> HIDE DEF popped
    <3> QED
      BY <1>3, <1>9, <2>2 DEF Queues, Fronted
  <2>7. QED
    BY <1>9, <1>10, <2>2, <2>4, <2>5, <2>6 DEF Queues
<1>11. QED
  BY <1>5, <1>8, <1>9, <1>10

\* Bytes that are given back to the next handle stay in the queue.
LEMMA UnstitchKeeps ==
    ASSUME NEW q \in Queues
    PROVE  Unstitched(q) \in Queues /\ Total(Unstitched(q)) = Total(q)
<1>1. /\ q \in Seq(Handles) /\ IsQueue(q) /\ Len(q) \in Nat /\ DOMAIN q = 1 .. Len(q)
      /\ \A k \in 1 .. Len(q) : q[k] \in Handles
  BY HandlesAreQueue DEF Queues
<1>2. CASE /\ Len(q) > 1 /\ q[1].length <= q[2].offset
           /\ At(q[1], q[1].length) = q[2].last
  <2> DEFINE first == [q[2] EXCEPT !.offset = @ - q[1].length,
                                   !.length = @ + q[1].length]
             more == SubSeq(q, 3, Len(q))
             r == <<first>> \o more
  <2>1. Unstitched(q) = r
    BY <1>2 DEF Unstitched
  <2>2. q[1] \in Handles /\ q[2] \in Handles
    BY <1>1, <1>2
  <2>3. first \in Handles /\ first.buf = q[2].buf /\ first.length = q[2].length + q[1].length
    <3>1. q[2].offset - q[1].length \in Nat /\ q[2].length + q[1].length \in Nat
      BY <1>2, <2>2 DEF Handles
    <3>2. QED
      BY <2>2, <3>1 DEF Handles
  <2> HIDE DEF first
  <2>4. more \in Seq(Handles) /\ Len(more) = Len(q) - 2
        /\ \A k \in 1 .. Len(q) - 2 : more[k] = q[k + 2]
    <3>1. Len(more) = Len(q) - 2 /\ \A k \in 1 .. Len(q) - 2 : more[k] = q[k + 2]
      BY <1>1, <1>2
    <3>2. \A k \in 1 .. Len(q) - 2 : q[k + 2] \in Handles
      BY <1>1, <1>2
    <3>3. more \in Seq(Handles)
      BY <1>1, <1>2, <3>1, <3>2
    <3>4. QED
      BY <3>1, <3>3
  <2> HIDE DEF more
  <2>5. r \in Seq(Handles) /\ Len(r) = Len(q) - 1 /\ r[1] = first
        /\ \A k \in 1 .. Len(q) - 2 : r[1 + k] = q[2 + k]
    <3>0. <<first>> \in Seq(Handles) /\ Len(<<first>>) = 1 /\ <<first>>[1] = first
      BY <2>3
    <3>1. r \in Seq(Handles) /\ Len(r) = Len(q) - 1 /\ r[1] = first
      <4>1. r \in Seq(Handles)
        BY <2>4, <3>0
      <4>2. Len(r) = 1 + Len(more)
        BY <2>4, <3>0
      <4>3. r[1] = first
        BY <2>3, <2>4
      <4>4. Len(more) = Len(q) - 2 /\ Len(q) \in Nat
        BY <1>1, <2>4
      <4> HIDE DEF r
      <4>5. QED
        BY ONLY <4>1, <4>2, <4>3, <4>4
    <3>2. ASSUME NEW k \in 1 .. Len(q) - 2 PROVE r[1 + k] = q[2 + k]
      <4>1. r[1 + k] = more[k] /\ more[k] = q[k + 2] /\ k + 2 = 2 + k
        BY <1>1, <1>2, <2>3, <2>4
      <4>2. QED
        BY <4>1
    <3>3. QED
      BY <3>1, <3>2
  <2> HIDE DEF r
  <2>6. IsQueue(r)
    BY <2>5, HandlesAreQueue
  <2>7. Total(r) = r[1].length + (Total(q) - Upto(q)[2])
    <3>1. 2 \in 0 .. Len(q) /\ Len(r) = Len(q) - 2 + 1
      BY <1>1, <1>2, <2>5
    <3>2. \A k \in 1 .. Len(q) - 2 : r[1 + k].length = q[2 + k].length
      BY <2>5
    <3>3. QED
      BY <1>1, <2>6, <3>1, <3>2, TotalFront
  <2>8. Upto(q)[2] = q[1].length + q[2].length
    <3>1. 1 \in 1 .. Len(q) /\ 2 \in 1 .. Len(q) /\ 2 - 1 = 1 /\ 1 - 1 = 0
      BY <1>1, <1>2
    <3>2. Upto(q)[0] = 0 /\ Upto(q)[1] = Upto(q)[0] + q[1].length /\ Upto(q)[2] = Upto(q)[1] + q[2].length
      BY <1>1, <3>1, UptoDef
    <3>3. q[1].length \in Nat /\ q[2].length \in Nat
      BY <2>2 DEF Handles
    <3>4. QED
      BY <3>2, <3>3
  <2>9. Total(q) \in Nat /\ q[1].length \in Nat /\ q[2].length \in Nat
    BY <1>1, <2>2, TotalNat DEF Handles
  <2>10. Total(r) = Total(q)
    BY <2>3, <2>5, <2>7, <2>8, <2>9
  <2>11. Fronted(r)
    <3>1. \A k \in 2 .. Len(q) : q[k].buf \notin Aux
      BY <1>1 DEF Queues, Fronted
    <3>2. SUFFICES ASSUME NEW k \in 1 .. Len(r) PROVE r[k].buf \notin Aux
      BY DEF Fronted
    <3>3. CASE k = 1
      BY <1>2, <2>3, <2>5, <3>1, <3>3
    <3>4. CASE k # 1
      <4>1. k - 1 \in 1 .. Len(q) - 2 /\ 1 + (k - 1) = k /\ 2 + (k - 1) \in 2 .. Len(q)
        BY <1>1, <2>5, <3>4
      <4>2. r[1 + (k - 1)] = q[2 + (k - 1)]
        BY <2>5, <4>1
      <4>3. QED
        BY <3>1, <4>1, <4>2
    <3>5. QED
      BY <3>3, <3>4
  <2>12. QED
    BY <2>1, <2>5, <2>10, <2>11 DEF Queues
<1>3. CASE ~(/\ Len(q) > 1 /\ q[1].length <= q[2].offset
             /\ At(q[1], q[1].length) = q[2].last)
  <2>1. Unstitched(q) = q
    BY <1>3 DEF Unstitched
  <2>2. QED
    BY <2>1
<1>4. QED
  BY <1>2, <1>3

\* A consume takes its bytes from the queue, and no others.
LEMMA ConsumeKeeps ==
    ASSUME NEW q \in Queues, Len(q) > 0, NEW n \in Nat, n <= q[1].length
    PROVE  Consumed(q, n) \in Queues /\ Total(Consumed(q, n)) = Total(q) - n
<1> DEFINE rest == [q EXCEPT ![1].offset = @ + n, ![1].length = @ - n]
           left == IF rest[1].length = 0 THEN Tail(rest) ELSE rest
<1>1. /\ q \in Seq(Handles) /\ IsQueue(q) /\ Len(q) \in Nat /\ DOMAIN q = 1 .. Len(q)
      /\ \A k \in 1 .. Len(q) : q[k] \in Handles
  BY HandlesAreQueue DEF Queues
<1>2. Consumed(q, n) = Unstitched(left)
  BY DEF Consumed
<1>3. 1 \in 1 .. Len(q) /\ q[1] \in Handles
  BY <1>1
<1> DEFINE first == [q[1] EXCEPT !.offset = @ + n, !.length = @ - n]
<1>4. first \in Handles /\ first.buf = q[1].buf /\ first.length = q[1].length - n
      /\ first.last = q[1].last
  <2>1. q[1].offset + n \in Nat /\ q[1].length - n \in Nat
    BY <1>3 DEF Handles
  <2>2. QED
    BY <1>3, <2>1 DEF Handles
<1>5. rest = [q EXCEPT ![1] = first]
  BY <1>1, <1>3
<1> HIDE DEF first, rest
<1>6. rest \in Seq(Handles) /\ Len(rest) = Len(q) /\ rest[1] = first
      /\ \A k \in 2 .. Len(q) : rest[k] = q[k]
  BY <1>1, <1>3, <1>4, <1>5
<1>7. IsQueue(rest)
  BY <1>6, HandlesAreQueue
<1>8. Total(q) \in Nat /\ q[1].length \in Nat
  BY <1>1, <1>3, TotalNat DEF Handles
<1>9. Total(rest) = Total(q) - n
  <2>1. 1 \in 0 .. Len(q) /\ Len(rest) = Len(q) - 1 + 1
    BY <1>1, <1>6
  <2>2. \A k \in 1 .. Len(q) - 1 : rest[1 + k].length = q[1 + k].length
    BY <1>1, <1>6
  <2>3. Total(rest) = rest[1].length + (Total(q) - Upto(q)[1])
    BY <1>1, <1>7, <2>1, <2>2, TotalFront
  <2>4. Upto(q)[1] = q[1].length
    <3>1. Upto(q)[0] = 0 /\ Upto(q)[1] = Upto(q)[1 - 1] + q[1].length /\ 1 - 1 = 0
      BY <1>1, <1>3, UptoDef
    <3>2. QED
      BY <1>8, <3>1
  <2>5. QED
    BY <1>4, <1>6, <1>8, <2>3, <2>4
<1>10. rest \in Queues
  <2>1. SUFFICES ASSUME NEW k \in 1 .. Len(rest), rest[k].buf \in Aux
                 PROVE  k = 1 /\ rest[k].last = Null /\ rest[k].length <= Free
    BY <1>6 DEF Queues, Fronted
  <2>2. k = 1
    BY <1>1, <1>6, <2>1 DEF Queues, Fronted
  <2>3. q[1].last = Null /\ q[1].length <= Free
    BY <1>3, <1>4, <1>6, <2>1, <2>2 DEF Queues, Fronted
  <2>4. Free \in Int
    BY StreamAssumption DEF Free
  <2>5. QED
    BY <1>4, <1>6, <1>8, <2>2, <2>3, <2>4
<1>11. left \in Queues /\ Total(left) = Total(q) - n
  <2>1. CASE rest[1].length = 0
    <3> DEFINE t == Tail(rest)
    <3>1. left = t
      BY <2>1
    <3>2. t \in Seq(Handles) /\ Len(t) = Len(rest) - 1
          /\ \A k \in 1 .. Len(rest) - 1 : t[k] = rest[k + 1]
      BY <1>1, <1>6
    <3> HIDE DEF t
    <3>3. IsQueue(t)
      BY <3>2, HandlesAreQueue
    <3>4. Fronted(t)
      BY <1>1, <1>6, <1>10, <3>2 DEF Queues, Fronted
    <3>5. Total(t) = Total(rest) - Upto(rest)[1]
      <4>1. 1 \in 0 .. Len(rest)
        BY <1>1, <1>6
      <4>2. \A k \in 1 .. Len(rest) - 1 : t[k].length = rest[1 + k].length
        BY <3>2
      <4>3. QED
        BY <1>7, <3>2, <3>3, <4>1, <4>2, TotalRest
    <3>6. Upto(rest)[1] = 0
      <4>1. Upto(rest)[0] = 0 /\ Upto(rest)[1] = Upto(rest)[1 - 1] + rest[1].length /\ 1 - 1 = 0
        BY <1>1, <1>6, <1>7, UptoDef
      <4>2. QED
        BY <2>1, <4>1
    <3>7. t \in Queues
      BY <3>2, <3>4 DEF Queues
    <3>8. Total(t) = Total(q) - n
      BY <1>8, <1>9, <3>5, <3>6
    <3>9. QED
      BY <3>1, <3>7, <3>8
  <2>2. CASE rest[1].length # 0
    BY <1>9, <1>10, <2>2
  <2>3. QED
    BY <2>1, <2>2
<1> HIDE DEF left
<1>12. QED
  BY <1>2, <1>11, UnstitchKeeps

\* A set of numbers has a least one.
LEMMA MinIsLeast ==
    ASSUME NEW S \in SUBSET Nat, S # {}
    PROVE  Min(S) \in S /\ \A y \in S : Min(S) <= y
<1> DEFINE R == OpToRel(<, Nat)
<1>1. IsWellFoundedOn(R, Nat)
  BY NatLessThanWellFounded
<1> HIDE DEF R
<1>2. PICK x \in S : \A y \in S : ~ (<<y, x>> \in R)
  BY <1>1, WFMin
<1>3. ASSUME NEW y \in S PROVE x <= y
  <2>1. x \in Nat /\ y \in Nat
    OBVIOUS
  <2>2. y < x => <<y, x>> \in R
    BY <2>1 DEF R, OpToRel
  <2>3. QED
    BY <1>2, <2>1, <2>2
<1>4. QED
  BY <1>3 DEF Min

\* The lesser of two numbers.
LEMMA MinOfTwo ==
    ASSUME NEW a \in Nat, NEW b \in Nat
    PROVE  Min({a, b}) = IF a <= b THEN a ELSE b
<1>1. Min({a, b}) \in {a, b} /\ Min({a, b}) <= a /\ Min({a, b}) <= b
  <2>1. {a, b} \in SUBSET Nat /\ {a, b} # {}
    OBVIOUS
  <2>2. QED
    BY <2>1, MinIsLeast
<1>2. QED
  BY <1>1

\* Of the auxiliary buffers one is free, for only the front is one.
LEMMA AuxIsFree ==
    ASSUME NEW q \in Queues
    PROVE  \E b \in Aux : ~Refers(q, b)
<1>1. q \in Seq(Handles) /\ DOMAIN q = 1 .. Len(q)
  BY HandlesAreQueue DEF Queues
<1>2. <<"aux", 0>> \in Aux /\ <<"aux", 1>> \in Aux /\ <<"aux", 0>> # <<"aux", 1>>
  BY DEF Aux
<1>3. SUFFICES ASSUME Refers(q, <<"aux", 0>>), Refers(q, <<"aux", 1>>) PROVE FALSE
  BY <1>2
<1>4. PICK j \in 1 .. Len(q) : q[j].buf = <<"aux", 0>>
  BY <1>1, <1>3 DEF Refers
<1>5. PICK k \in 1 .. Len(q) : q[k].buf = <<"aux", 1>>
  BY <1>1, <1>3 DEF Refers
<1>6. j = 1 /\ k = 1
  BY <1>2, <1>4, <1>5 DEF Queues, Fronted
<1>7. QED
  BY <1>2, <1>4, <1>5, <1>6

\* An auxiliary buffer has room for an item.
LEMMA FreeFits == Free \in Nat /\ Free > 0 /\ Free <= Maximum
<1>1. Maximum \in Nat /\ ItemSize \in Nat \ {0} /\ Maximum >= ItemSize
  BY StreamAssumption
<1>2. ASSUME NEW a \in Nat, NEW b \in Nat \ {0}, a >= b
      PROVE  (a \div b) \in Nat /\ (a \div b) >= 1 /\ (a \div b) * b <= a
  BY <1>2
<1>3. ASSUME NEW a \in Nat, NEW b \in Nat \ {0}, a >= 1 PROVE a * b \in Nat /\ a * b >= 1
  BY <1>3
<1>4. QED
  BY <1>1, <1>2, <1>3 DEF Free

\* A maximum of whole items is filled.
LEMMA FreeIsMaximum == ASSUME Maximum % ItemSize = 0 PROVE Free = Maximum
<1>1. Maximum \in Nat /\ ItemSize \in Nat \ {0}
  BY StreamAssumption
<1>2. ASSUME NEW a \in Nat, NEW b \in Nat \ {0}, a % b = 0 PROVE (a \div b) * b = a
  BY <1>2
<1>3. QED
  BY <1>1, <1>2 DEF Free

\* what accumulate() leaves: the accumulation, and in the queue behind it
\* what did not fit
\* What accumulate() leaves behind the bytes it copied: the handles from m on,
\* the first of them without what was taken of it.
Leaves(q, a, m) ==
    LET taken == a.accum.length - Upto(q)[m - 1]  h == a.queue[2] IN
    /\ m \in 1 .. Len(q) /\ Len(a.queue) = Len(q) - m + 2 /\ a.accum.length = Free
    /\ \A k \in 2 .. Len(q) - m + 1 : a.queue[k + 1] = q[m + k - 1]
    /\ taken \in 0 .. q[m].length /\ Upto(q)[m - 1] \in Nat
    /\ q[m].length > 0 => taken < q[m].length
    /\ h \in Handles /\ h.buf = q[m].buf /\ h.memory = q[m].memory
    /\ h.offset = q[m].offset + taken /\ h.length = q[m].length - taken
    /\ h.last = IF taken = 0 THEN q[m].last ELSE At(a.accum, a.accum.length)

\* accumulate() puts an auxiliary buffer in front of the handles it did not use
\* up, and loses no byte.
LEMMA AccumulateKeeps ==
    ASSUME NEW q \in Queues, Len(q) > 0
    PROVE  LET a == Accumulated(q) IN
           /\ a.accum.buf \in Aux /\ ~Refers(q, a.accum.buf)
           /\ a.accum.memory = 0 /\ a.accum.offset = 0 /\ a.accum.last = Null
           /\ \/ Len(a.queue) = 1 /\ a.accum.length = Total(q)
              \/ \E m \in 1 .. Len(q) : Leaves(q, a, m)
           /\ a.queue \in Queues /\ Total(a.queue) = Total(q)
           /\ a.accum \in Handles /\ Len(a.queue) > 0 /\ a.queue[1] = a.accum
           /\ a.accum.length = Min({Free, Total(q)})
           /\ a.values = SubSeq(Contents(q), 1, a.accum.length)
           /\ Total(q) < Free => Len(a.queue) = 1
<1> DEFINE n == Min({Free, Total(q)})
           aux == CHOOSE b \in Aux : ~Refers(q, b)
           accum == [Handle(aux, 0, 0, Null) EXCEPT !.length = n]
           kept == {k \in DOMAIN q : Upto(q)[k] > Free \/ Upto(q)[k - 1] = Free}
           m == Min(kept)
           rest == IF kept = {} THEN <<>> ELSE SubSeq(q, m, Len(q))
           taken == IF kept = {} THEN 0 ELSE n - Upto(q)[m - 1]
           more == IF taken = 0 THEN rest
                   ELSE [rest EXCEPT ![1].offset = @ + taken, ![1].length = @ - taken,
                                     ![1].last = At(accum, n)]
           r == <<accum>> \o more
<1>1. /\ q \in Seq(Handles) /\ IsQueue(q) /\ Len(q) \in Nat /\ DOMAIN q = 1 .. Len(q)
      /\ \A k \in 1 .. Len(q) : q[k] \in Handles
  BY HandlesAreQueue DEF Queues
<1>2. /\ Accumulated(q).accum = accum /\ Accumulated(q).queue = r
      /\ Accumulated(q).values = SubSeq(Contents(q), 1, n)
  <2>1. Accumulated(q) = [values |-> SubSeq(Contents(q), 1, n), accum |-> accum, queue |-> r]
    BY DEF Accumulated
  <2>2. ASSUME NEW a, NEW x, NEW y, NEW z, a = [values |-> x, accum |-> y, queue |-> z]
        PROVE  a.accum = y /\ a.queue = z /\ a.values = x
    BY <2>2
  <2>3. PICK a, x, y, z : /\ a = Accumulated(q) /\ x = SubSeq(Contents(q), 1, n)
                          /\ y = accum /\ z = r
    OBVIOUS
  <2>4. a = [values |-> x, accum |-> y, queue |-> z]
    BY <2>1, <2>3
  <2>5. a.accum = y /\ a.queue = z /\ a.values = x
    BY <2>2, <2>4
  <2>6. QED
    BY <2>3, <2>5
<1> HIDE DEF r, more, taken, rest, m, kept
<1>3. aux \in Aux /\ ~Refers(q, aux)
  BY AuxIsFree
<1>4. /\ Free \in Nat /\ Free > 0 /\ Total(q) \in Nat /\ n \in Nat
      /\ n <= Free /\ n <= Total(q) /\ (Total(q) <= Free => n = Total(q))
      /\ (Free <= Total(q) => n = Free)
  <2>1. Free \in Nat /\ Free > 0 /\ Total(q) \in Nat
    BY <1>1, FreeFits, TotalNat
  <2>2. n = IF Free <= Total(q) THEN Free ELSE Total(q)
    BY <2>1, MinOfTwo
  <2> HIDE DEF n
  <2>3. QED
    BY <2>1, <2>2
<1> HIDE DEF n, aux
<1>5. /\ accum \in Handles /\ accum.length = n /\ accum.buf \in Aux /\ accum.last = Null
      /\ accum.buf = aux /\ accum.memory = 0 /\ accum.offset = 0
  <2>1. aux \in Buffers
    BY <1>3 DEF Buffers
  <2>2. accum \in Handles
    BY <1>4, <2>1, HandleIsHandle, NullIsPointer
  <2>3. QED
    BY <1>3, <2>2 DEF Handle
<1> HIDE DEF accum
<1>6. CASE kept = {}
  <2>1. rest = <<>> /\ taken = 0 /\ more = <<>>
    BY <1>6 DEF more, rest, taken
  <2>2. r \in Seq(Handles) /\ Len(r) = 1 /\ r[1] = accum
    BY <1>5, <2>1 DEF r
  <2>3. n = Total(q)
    <3>1. Len(q) \in DOMAIN q
      BY <1>1
    <3>2. ~(Upto(q)[Len(q)] > Free)
      BY <1>6, <3>1 DEF kept
    <3>3. QED
      BY <1>4, <3>2 DEF Total
  <2>4. Total(r) = n
    <3>1. IsQueue(r) /\ IsQueue(<<>>) /\ Len(<<>>) = 0
      BY <2>2, HandlesAreQueue DEF IsQueue
    <3>2. Total(r) = Total(<<>>) + r[Len(r)].length
      <4>1. PICK e : e = <<>>
        OBVIOUS
      <4>2. IsQueue(e) /\ Len(e) = 0 /\ Len(r) = Len(e) + 1
            /\ \A k \in 1 .. Len(e) : r[k].length = e[k].length
        BY <2>2, <3>1, <4>1
      <4>3. Total(r) = Total(e) + r[Len(r)].length
        BY <3>1, <4>2, TotalAppend
      <4>4. QED
        BY <4>1, <4>3
    <3>3. QED
      BY <1>4, <1>5, <2>2, <3>2, TotalEmpty
  <2>5. r \in Queues
    <3>1. Fronted(r)
      BY <1>4, <1>5, <2>2 DEF Fronted
    <3>2. QED
      BY <2>2, <3>1 DEF Queues
  <2>6. QED
    BY <1>2, <1>3, <1>5, <2>2, <2>3, <2>4, <2>5 DEF n
<1>7. CASE kept # {}
  <2>1. kept \in SUBSET Nat
    BY <1>1 DEF kept
  <2>2. m \in kept /\ \A k \in kept : m <= k
    BY <1>7, <2>1, MinIsLeast DEF m
  <2>3. /\ m \in 1 .. Len(q) /\ m - 1 \in 0 .. Len(q) /\ m \in Nat
        /\ Upto(q)[m] > Free \/ Upto(q)[m - 1] = Free
    BY <1>1, <2>2 DEF kept
  <2> DEFINE u == Upto(q)[m - 1]
  <2>4. /\ u \in Nat /\ Upto(q)[m] \in Nat /\ Upto(q)[m] = u + q[m].length /\ q[m].length \in Nat
        /\ Upto(q)[0] = 0
    <3>1. /\ Upto(q) \in [0 .. Len(q) -> Nat] /\ Upto(q)[0] = 0
          /\ \A k \in 1 .. Len(q) : Upto(q)[k] = Upto(q)[k - 1] + q[k].length
      BY <1>1, UptoDef
    <3>2. q[m].length \in Nat
      BY <1>1, <2>3 DEF IsQueue
    <3>3. m \in 0 .. Len(q)
      BY <2>3
    <3>4. QED
      BY <2>3, <3>1, <3>2, <3>3
  <2>5. u <= Total(q) /\ Upto(q)[m] <= Total(q)
    <3>1. Len(q) \in 0 .. Len(q) /\ m - 1 <= Len(q) /\ m \in 0 .. Len(q) /\ m <= Len(q)
      BY <1>1, <2>3
    <3>2. QED
      BY <1>1, <2>3, <3>1, UptoGrows DEF Total
  <2>6. u <= Free
    <3>1. CASE m = 1
      BY <1>4, <2>4, <3>1
    <3>2. CASE m # 1
      <4>1. m - 1 \in DOMAIN q /\ m - 1 \notin kept
        BY <1>1, <2>2, <2>3, <3>2
      <4>2. QED
        BY <1>4, <2>4, <4>1 DEF kept
    <3>3. QED
      BY <3>1, <3>2
  <2>7. taken = n - u
    BY <1>7 DEF taken
  <2> HIDE DEF u
  <2>8. taken \in Nat /\ taken <= q[m].length
    <3>1. u \in Nat /\ u <= n
      BY <1>4, <2>4, <2>5, <2>6 DEF u
    <3>2. n <= Upto(q)[m]
      BY <1>4, <2>3, <2>4, <2>5, <2>6 DEF u
    <3>3. Upto(q)[m] = u + q[m].length /\ q[m].length \in Nat
      BY <2>4 DEF u
    <3>4. QED
      BY <1>4, <2>7, <3>1, <3>2, <3>3
  \* an auxiliary buffer was at the front, and fitted
  <2>9. ASSUME NEW k \in m .. Len(q) PROVE q[k].buf \notin Aux
    <3>1. k \in 1 .. Len(q)
      BY <1>1, <2>3
    <3>2. SUFFICES ASSUME q[k].buf \in Aux PROVE FALSE
      OBVIOUS
    <3>3. k = 1 /\ q[k].length <= Free
      BY <3>1, <3>2 DEF Queues, Fronted
    <3>4. m = 1 /\ u = 0
      BY <1>1, <2>3, <2>4, <3>3 DEF u
    <3>5. QED
      BY <1>4, <2>3, <2>4, <3>3, <3>4 DEF u
  <2>10. rest = SubSeq(q, m, Len(q))
    BY <1>7 DEF rest
  <2>11. /\ rest \in Seq(Handles) /\ Len(rest) = Len(q) - m + 1 /\ Len(rest) \in Nat \ {0}
         /\ \A k \in 1 .. Len(rest) : rest[k] = q[m + k - 1]
    <3>1. Len(rest) = Len(q) - m + 1 /\ \A k \in 1 .. Len(q) - m + 1 : rest[k] = q[m + k - 1]
      BY <1>1, <2>3, <2>10
    <3>2. rest \in Seq(Handles)
      BY <1>1, <2>3, <2>10
    <3>3. QED
      BY <1>1, <2>3, <3>1, <3>2
  <2> HIDE DEF rest
  <2>12. IsQueue(rest) /\ rest[1] \in Handles /\ rest[1] = q[m]
    BY <2>3, <2>11, HandlesAreQueue
  <2>13. /\ more \in Seq(Handles) /\ Len(more) = Len(rest)
         /\ more[1].length = rest[1].length - taken /\ more[1].buf = rest[1].buf
         /\ more[1].memory = rest[1].memory /\ more[1].offset = rest[1].offset + taken
         /\ more[1].last = IF taken = 0 THEN rest[1].last ELSE At(accum, n)
         /\ \A k \in 2 .. Len(rest) : more[k] = rest[k]
    <3>1. CASE taken = 0
      <4>1. more = rest
        BY <3>1 DEF more
      <4>2. QED
        BY <2>11, <2>12, <3>1, <4>1 DEF Handles
    <3>2. CASE taken # 0
      <4> DEFINE p == At(accum, n)
                 part == [rest[1] EXCEPT !.offset = @ + taken, !.length = @ - taken,
                                         !.last = p]
      <4>1. p \in Pointers
        BY <1>4, <1>5, AtIsPointer
      <4>2. rest[1].offset + taken \in Nat /\ rest[1].length - taken \in Nat
        BY <2>8, <2>12 DEF Handles
      <4> HIDE DEF p
      <4>3. part \in Handles /\ part.length = rest[1].length - taken /\ part.buf = rest[1].buf
            /\ part.memory = rest[1].memory /\ part.offset = rest[1].offset + taken
            /\ part.last = p
        BY <2>12, <4>1, <4>2 DEF Handles
      <4>4. more = [rest EXCEPT ![1] = part]
        BY <2>11, <3>2 DEF more, p
      <4> HIDE DEF part
      <4>5. QED
        BY <2>11, <3>2, <4>3, <4>4 DEF p
    <3>3. QED
      BY <3>1, <3>2
  <2> HIDE DEF more
  <2>14. IsQueue(more) /\ Len(more) \in Nat \ {0}
    BY <2>11, <2>13, HandlesAreQueue
  <2>15. Total(rest) = Total(q) - u
    <3>1. Len(rest) = Len(q) - (m - 1)
      BY <1>1, <2>3, <2>11
    <3>2. ASSUME NEW k \in 1 .. Len(q) - (m - 1) PROVE rest[k].length = q[(m - 1) + k].length
      <4>1. k \in 1 .. Len(rest) /\ m + k - 1 = (m - 1) + k
        BY <2>3, <3>1
      <4>2. QED
        BY <2>11, <4>1
    <3>3. QED
      BY <1>1, <2>3, <2>12, <3>1, <3>2, TotalRest DEF u
  <2>16. Total(more) = Total(rest) - taken
    <3>1. 1 \in 0 .. Len(rest) /\ Len(more) = Len(rest) - 1 + 1
      BY <2>11, <2>13
    <3>2. \A k \in 1 .. Len(rest) - 1 : more[1 + k].length = rest[1 + k].length
      BY <2>11, <2>13
    <3>3. Total(more) = more[1].length + (Total(rest) - Upto(rest)[1])
      BY <2>12, <2>14, <3>1, <3>2, TotalFront
    <3>4. Upto(rest)[1] = rest[1].length
      <4>1. Upto(rest)[0] = 0 /\ Upto(rest)[1] = Upto(rest)[1 - 1] + rest[1].length /\ 1 - 1 = 0
        <5>1. 1 \in 1 .. Len(rest) /\ 1 - 1 = 0
          BY <2>11
        <5>2. QED
          BY <2>12, <5>1, UptoDef
      <4>2. rest[1].length \in Nat
        BY <2>12 DEF Handles
      <4>3. QED
        BY <4>1, <4>2
    <3>5. rest[1].length \in Nat /\ Total(rest) \in Nat
      BY <2>12, TotalNat DEF Handles
    <3>6. QED
      BY <2>8, <2>13, <3>3, <3>4, <3>5
  <2>17. /\ r \in Seq(Handles) /\ Len(r) = 1 + Len(more) /\ r[1] = accum
         /\ \A k \in 1 .. Len(more) : r[1 + k] = more[k]
    BY <1>5, <2>13, <2>14 DEF r
  <2>18. IsQueue(r)
    BY <2>17, HandlesAreQueue
  <2>19. Total(r) = n + Total(more)
    <3>1. 0 \in 0 .. Len(more) /\ Len(r) = Len(more) - 0 + 1
      BY <2>14, <2>17
    <3>2. \A k \in 1 .. Len(more) - 0 : r[1 + k].length = more[0 + k].length
      BY <2>14, <2>17
    <3>3. Total(r) = r[1].length + (Total(more) - Upto(more)[0])
      BY <2>14, <2>18, <3>1, <3>2, TotalFront
    <3>4. Upto(more)[0] = 0 /\ Total(more) \in Nat
      BY <2>14, UptoDef, TotalNat
    <3>5. QED
      BY <1>4, <1>5, <2>17, <3>3, <3>4
  <2>20. Total(r) = Total(q)
    BY <1>4, <2>4, <2>7, <2>8, <2>15, <2>16, <2>19 DEF u
  <2>21. Fronted(r)
    <3>1. SUFFICES ASSUME NEW k \in 1 .. Len(r), k # 1 PROVE r[k].buf \notin Aux
      BY <1>4, <1>5, <2>17 DEF Fronted
    <3>2. k - 1 \in 1 .. Len(more) /\ 1 + (k - 1) = k
      BY <2>14, <2>17, <3>1
    <3>3. r[k] = more[k - 1]
      BY <2>17, <3>2
    <3>4. more[k - 1].buf = rest[k - 1].buf
      <4>1. CASE k - 1 = 1
        BY <2>13, <4>1
      <4>2. CASE k - 1 # 1
        <5>1. k - 1 \in 2 .. Len(rest)
          BY <2>13, <2>14, <3>2, <4>2
        <5>2. QED
          BY <2>13, <5>1
      <4>3. QED
        BY <4>1, <4>2
    <3>5. rest[k - 1] = q[m + (k - 1) - 1] /\ m + (k - 1) - 1 \in m .. Len(q)
      <4>1. Len(more) = Len(rest) /\ Len(rest) = Len(q) - m + 1
            /\ \A j \in 1 .. Len(rest) : rest[j] = q[m + j - 1]
        BY <2>11, <2>13
      <4>2. PICK j : j = k - 1
        OBVIOUS
      <4>3. j \in 1 .. Len(rest)
        BY <3>2, <4>1, <4>2
      <4>4. rest[j] = q[m + j - 1]
        BY <4>1, <4>3
      <4>5. m + j - 1 \in m .. Len(q)
        BY <1>1, <2>3, <4>1, <4>3
      <4>6. QED
        BY <4>2, <4>4, <4>5
    <3>6. QED
      BY <2>9, <3>3, <3>4, <3>5
  <2>22. ~(Total(q) < Free)
    BY <1>4, <2>3, <2>4, <2>5 DEF u
  <2>23. \E l \in 1 .. Len(q) : Leaves(q, Accumulated(q), l)
    <3>1. PICK a, h : a = Accumulated(q) /\ h = a.queue[2]
      OBVIOUS
    <3>2. a.accum = accum /\ a.accum.length = n /\ n = Free
      BY <1>2, <1>4, <1>5, <2>22, <3>1
    <3>3. Len(a.queue) = Len(q) - m + 2
      BY <1>1, <1>2, <2>3, <2>11, <2>13, <2>17, <3>1
    <3>4. h = more[1] /\ h \in Handles
      <4>1. 1 \in 1 .. Len(more) /\ 1 + 1 = 2
        BY <2>14
      <4>2. QED
        BY <1>2, <2>13, <2>17, <3>1, <4>1
    <3>5. \A k \in 2 .. Len(q) - m + 1 : a.queue[k + 1] = q[m + k - 1]
      <4>1. SUFFICES ASSUME NEW k \in 2 .. Len(q) - m + 1 PROVE a.queue[k + 1] = q[m + k - 1]
        OBVIOUS
      <4>2. k \in 2 .. Len(rest) /\ k \in 1 .. Len(rest) /\ k \in 1 .. Len(more) /\ 1 + k = k + 1
        BY <1>1, <2>3, <2>11, <2>13
      <4>3. QED
        BY <1>2, <2>11, <2>13, <2>17, <3>1, <4>2
    <3>6. a.accum.length - Upto(q)[m - 1] = taken
      BY <2>7, <3>2 DEF u
    <3>7. /\ taken \in 0 .. q[m].length /\ Upto(q)[m - 1] \in Nat
          /\ h.buf = q[m].buf /\ h.memory = q[m].memory
          /\ h.offset = q[m].offset + taken /\ h.length = q[m].length - taken
          /\ h.last = IF taken = 0 THEN q[m].last ELSE At(a.accum, a.accum.length)
      BY <2>4, <2>8, <2>12, <2>13, <3>2, <3>4 DEF u
    <3>8. q[m].length > 0 => taken < q[m].length
      <4>1. CASE Upto(q)[m] > Free
        BY <1>4, <2>4, <2>5, <2>6, <2>7, <2>8, <4>1 DEF u
      <4>2. CASE Upto(q)[m - 1] = Free
        BY <1>4, <2>4, <2>7, <2>8, <4>2 DEF u
      <4>3. QED
        BY <2>3, <4>1, <4>2
    <3>9. Leaves(q, a, m)
      BY <2>3, <3>1, <3>2, <3>3, <3>4, <3>5, <3>6, <3>7, <3>8 DEF Leaves
    <3>10. QED
      BY <2>3, <3>1, <3>9
  <2>24. QED
    BY <1>2, <1>3, <1>5, <2>14, <2>17, <2>20, <2>21, <2>22, <2>23 DEF n, Queues
<1>8. QED
  BY <1>6, <1>7

-----------------------------------------------------------------------------
(* Memory.                                                                 *)

CellsOK ==
    /\ cells = [a \in Areas |-> cells[a]]
    /\ \A a \in Areas : cells[a] \in [0 .. Length(a) - 1 -> 0 .. MaxBytes]

\* where the elements of c are those of t, whose lengths are those of q
LaidOut(c, q, t, n) ==
    \A k \in 1 .. n : \A x \in 1 .. q[k].length : c[Upto(q)[k - 1] + x] = t[k][x]

\* sequences laid end to end are as long as they are together
LEMMA FlattenIs ==
    ASSUME NEW q, IsQueue(q), NEW V, NEW t \in Seq(Seq(V)), Len(t) = Len(q),
           \A k \in 1 .. Len(q) : Len(t[k]) = q[k].length
    PROVE  /\ FlattenSeq(t) \in Seq(V) /\ Len(FlattenSeq(t)) = Total(q)
           /\ LaidOut(FlattenSeq(t), q, t, Len(q))
<1> DEFINE n == Len(t)
           E(f) == [i \in 1 .. n |-> IF i = 1 THEN t[i] ELSE f[i - 1] \o t[i]]
           flatten == CHOOSE f : f = E(f)
           F == [p \in (1 .. n - 1) \X Seq(V) |-> p[2] \o t[p[1] + 1]]
<1>1. n \in Nat /\ Len(q) = n /\ \A k \in 1 .. n : t[k] \in Seq(V)
  OBVIOUS
<1>2. FlattenSeq(t) = IF n = 0 THEN t ELSE flatten[n]
  BY DEF FlattenSeq
<1>3. CASE n = 0
  <2>1. t = <<>> /\ <<>> \in Seq(V) /\ Len(<<>>) = 0
    BY <1>1, <1>3
  <2>2. Total(q) = 0
    BY <1>1, <1>3, UptoDef DEF Total
  <2>3. LaidOut(FlattenSeq(t), q, t, Len(q))
    BY <1>1, <1>3 DEF LaidOut
  <2>4. QED
    BY <1>2, <1>3, <2>1, <2>2, <2>3
<1>4. CASE n # 0
  <2>1. n - 1 \in Nat /\ 1 \in 1 .. n /\ t[1] \in Seq(V)
    BY <1>1, <1>4
  <2>2. F \in [(1 .. n - 1) \X Seq(V) -> Seq(V)]
    <3>1. ASSUME NEW k \in 1 .. n - 1, NEW r \in Seq(V) PROVE r \o t[k + 1] \in Seq(V)
      <4>1. k + 1 \in 1 .. n
        BY <1>1
      <4>2. QED
        BY <1>1, <4>1
    <3> HIDE DEF n
    <3>2. QED
      BY <3>1
  <2>3. PICK f : Loop(f, n - 1, Seq(V), t[1], F)
    <3> HIDE DEF F, n
    <3> QED
      BY <2>1, <2>2, LoopExists
  <2> DEFINE g == [i \in 1 .. n |-> f[i - 1]]
  <2>4. g = E(g)
    <3>1. ASSUME NEW i \in 1 .. n, i # 1 PROVE g[i] = g[i - 1] \o t[i]
      <4>1. i - 1 \in 1 .. n - 1 /\ i - 1 \in 1 .. n /\ (i - 1) - 1 \in 0 .. n - 1 /\ (i - 1) + 1 = i
        BY <1>1, <3>1
      <4>2. f[(i - 1) - 1] \in Seq(V)
        BY <2>3, <4>1 DEF Loop
      <4>3. f[i - 1] = F[<<i - 1, f[(i - 1) - 1]>>]
        <5> HIDE DEF F
        <5> QED
          BY <2>3, <4>1 DEF Loop
      <4>4. f[i - 1] = f[(i - 1) - 1] \o t[i]
        BY <4>1, <4>2, <4>3
      <4>5. QED
        BY <4>1, <4>4
    <3>2. g[1] = t[1]
      <4>1. f[0] = t[1]
        BY <2>3 DEF Loop
      <4>2. QED
        BY <2>1, <4>1
    <3> HIDE DEF n
    <3>3. QED
      BY <3>1, <3>2
  <2>5. flatten = E(flatten)
    <3> HIDE DEF E
    <3> QED
      BY <2>4
  <2>6. flatten[1] = t[1] /\ \A i \in 2 .. n : flatten[i] = flatten[i - 1] \o t[i]
    <3>1. PICK h : h = flatten
      OBVIOUS
    <3>2. h = [i \in 1 .. n |-> IF i = 1 THEN t[i] ELSE h[i - 1] \o t[i]]
      BY <2>5, <3>1
    <3> HIDE DEF flatten, n
    <3>3. h[1] = t[1]
      BY <2>1, <3>2
    <3>4. ASSUME NEW i \in 2 .. n PROVE h[i] = h[i - 1] \o t[i]
      <4>1. i \in 1 .. n /\ i # 1
        BY <1>1
      <4>2. QED
        BY <3>2, <4>1
    <3>5. QED
      BY <3>1, <3>3, <3>4
  <2> HIDE DEF flatten, E, F
  <2> DEFINE T == {i \in Nat : i + 1 <= n => /\ flatten[i + 1] \in Seq(V)
                                            /\ Len(flatten[i + 1]) = Upto(q)[i + 1]
                                            /\ LaidOut(flatten[i + 1], q, t, i + 1)}
  <2>7. 0 \in T
    <3>1. Upto(q)[0] = 0 /\ Upto(q)[1] = Upto(q)[1 - 1] + q[1].length /\ 1 - 1 = 0
      BY <1>1, <2>1, UptoDef
    <3>2. Len(t[1]) = q[1].length /\ q[1].length \in Nat
      BY <1>1, <2>1 DEF IsQueue
    <3>3. LaidOut(flatten[1], q, t, 1)
      <4>1. SUFFICES ASSUME NEW x \in 1 .. q[1].length PROVE flatten[1][Upto(q)[1 - 1] + x] = t[1][x]
        BY DEF LaidOut
      <4>2. Upto(q)[1 - 1] + x = x
        BY <3>1, <3>2
      <4>3. QED
        BY <2>6, <4>2
    <3>4. QED
      BY <2>1, <2>6, <3>1, <3>2, <3>3
  <2>8. ASSUME NEW i \in Nat, i \in T PROVE i + 1 \in T
    <3>1. SUFFICES ASSUME (i + 1) + 1 <= n
                   PROVE  /\ flatten[(i + 1) + 1] \in Seq(V)
                          /\ Len(flatten[(i + 1) + 1]) = Upto(q)[(i + 1) + 1]
                          /\ LaidOut(flatten[(i + 1) + 1], q, t, (i + 1) + 1)
      OBVIOUS
    <3>2. /\ (i + 1) + 1 \in 2 .. n /\ (i + 1) + 1 \in 1 .. Len(q)
          /\ ((i + 1) + 1) - 1 = i + 1 /\ i + 1 <= n /\ i + 1 \in Nat
      BY <1>1, <3>1
    <3>3. /\ flatten[i + 1] \in Seq(V) /\ Len(flatten[i + 1]) = Upto(q)[i + 1]
          /\ LaidOut(flatten[i + 1], q, t, i + 1)
      BY <2>8, <3>2
    <3>4. flatten[(i + 1) + 1] = flatten[i + 1] \o t[(i + 1) + 1]
      BY <2>6, <3>2
    <3>5. t[(i + 1) + 1] \in Seq(V) /\ Len(t[(i + 1) + 1]) = q[(i + 1) + 1].length
      BY <1>1, <3>2
    <3>6. Upto(q)[(i + 1) + 1] = Upto(q)[i + 1] + q[(i + 1) + 1].length
      BY <3>2, UptoDef
    <3>7. ASSUME NEW x \in Seq(V), NEW y \in Seq(V), NEW z, z = x \o y
          PROVE  /\ z \in Seq(V) /\ Len(z) = Len(x) + Len(y)
                 /\ \A j \in 1 .. Len(x) : z[j] = x[j]
                 /\ \A j \in 1 .. Len(y) : z[Len(x) + j] = y[j]
      BY <3>7
    <3> HIDE DEF n
    <3>8. PICK c, d, e : /\ c \in Seq(V) /\ c = flatten[i + 1]
                         /\ d \in Seq(V) /\ d = t[(i + 1) + 1]
                         /\ e = flatten[(i + 1) + 1] /\ e = c \o d
      BY <3>3, <3>4, <3>5
    <3>9. /\ e \in Seq(V) /\ Len(e) = Len(c) + Len(d)
          /\ \A j \in 1 .. Len(c) : e[j] = c[j]
          /\ \A j \in 1 .. Len(d) : e[Len(c) + j] = d[j]
      <4>1. c \in Seq(V) /\ d \in Seq(V) /\ e = c \o d
        BY <3>8
      <4>2. QED
        BY <3>7, <4>1
    <3>10. LaidOut(e, q, t, (i + 1) + 1)
      <4>1. SUFFICES ASSUME NEW k \in 1 .. (i + 1) + 1, NEW x \in 1 .. q[k].length
                     PROVE  e[Upto(q)[k - 1] + x] = t[k][x]
        BY DEF LaidOut
      <4>2. CASE k = (i + 1) + 1
        BY <3>2, <3>3, <3>5, <3>8, <3>9, <4>1, <4>2
      <4>3. CASE k # (i + 1) + 1
        <5>1. k \in 1 .. i + 1 /\ k \in 1 .. Len(q) /\ k \in 0 .. Len(q) /\ k - 1 \in 0 .. Len(q)
              /\ i + 1 \in 0 .. Len(q) /\ k <= i + 1
          BY <1>1, <3>2, <4>3
        <5>2. /\ Upto(q)[k] = Upto(q)[k - 1] + q[k].length /\ Upto(q)[k - 1] \in Nat
              /\ q[k].length \in Nat /\ Upto(q)[i + 1] \in Nat /\ Upto(q)[k] <= Upto(q)[i + 1]
          BY <5>1, UptoDef, UptoGrows DEF IsQueue
        <5>3. Upto(q)[k - 1] + x \in 1 .. Upto(q)[i + 1]
          <6>1. x \in 1 .. q[k].length
            BY <4>1
          <6>2. PICK u, v, w, l : /\ u = Upto(q)[k] /\ v = Upto(q)[k - 1] /\ w = Upto(q)[i + 1]
                                  /\ l = q[k].length
            OBVIOUS
          <6>3. /\ v \in Nat /\ l \in Nat /\ w \in Nat /\ u = v + l /\ u <= w /\ x \in 1 .. l
            BY <5>2, <6>1, <6>2
          <6>4. v + x \in 1 .. w
            BY ONLY <6>3
          <6>5. QED
            BY <6>2, <6>4
        <5>4. e[Upto(q)[k - 1] + x] = c[Upto(q)[k - 1] + x]
          BY <3>3, <3>8, <3>9, <5>3
        <5>5. QED
          BY <3>3, <3>8, <5>1, <5>4 DEF LaidOut
      <4>4. QED
        BY <4>2, <4>3
    <3>11. Len(e) = Upto(q)[(i + 1) + 1]
      BY <3>3, <3>5, <3>6, <3>8, <3>9
    <3>12. QED
      BY <3>8, <3>9, <3>10, <3>11
  <2>9. n - 1 \in T
    <3> HIDE DEF T
    <3> QED
      BY <2>1, <2>7, <2>8, SetInduction
  <2>10. flatten[n] \in Seq(V) /\ Len(flatten[n]) = Upto(q)[n] /\ LaidOut(flatten[n], q, t, n)
    <3>1. (n - 1) + 1 = n /\ n <= n
      BY <1>1
    <3> HIDE DEF n
    <3>2. QED
      BY <2>9, <3>1
  <2>11. QED
    BY <1>1, <1>2, <1>4, <2>10 DEF Total
<1>5. QED
  BY <1>3, <1>4

\* A byte of a queue is the byte in memory under its handle.
LEMMA ContentsAre ==
    ASSUME CellsOK, NEW q \in Queues
    PROVE  /\ Contents(q) \in Seq(0 .. MaxBytes) /\ Len(Contents(q)) = Total(q)
           /\ \A k \in 1 .. Len(q) : \A x \in 1 .. q[k].length :
                 Contents(q)[Upto(q)[k - 1] + x] = Byte(At(q[k], x - 1))
<1> DEFINE V == 0 .. MaxBytes
           t == [k \in DOMAIN q |-> Content(q[k])]
<1>1. /\ q \in Seq(Handles) /\ IsQueue(q) /\ Len(q) \in Nat /\ DOMAIN q = 1 .. Len(q)
      /\ \A k \in 1 .. Len(q) : q[k] \in Handles
  BY HandlesAreQueue DEF Queues
<1>2. 0 \in V
  BY StreamAssumption
<1>3. ASSUME NEW s \in Handles, NEW d \in Int PROVE Byte(At(s, d)) \in V
  <2>1. s.buf \in Buffers
    BY <1>3 DEF Handles
  <2>2. PICK a \in Areas : a = Area(s.buf)
    BY <2>1, AreaIsArea
  <2>3. At(s, d)[1] = a
    BY <2>2 DEF At
  <2>4. PICK x : x = Place(At(s, d))
    OBVIOUS
  <2>5. Byte(At(s, d)) = IF x \in DOMAIN cells[a] THEN cells[a][x] ELSE 0
    BY <2>3, <2>4 DEF Byte
  <2>6. cells[a] \in [0 .. Length(a) - 1 -> V]
    BY <2>2 DEF CellsOK
  <2> HIDE DEF V
  <2>7. QED
    BY <1>2, <2>5, <2>6
<1>4. ASSUME NEW s \in Handles
      PROVE  Content(s) \in Seq(V) /\ Len(Content(s)) = s.length
  <2>1. s.length \in Nat
    BY <1>4 DEF Handles
  <2>2. \A k \in 1 .. s.length : Byte(At(s, k - 1)) \in V
    BY <1>3, <2>1
  <2> HIDE DEF V
  <2>3. QED
    BY <2>1, <2>2 DEF Content
<1> HIDE DEF V
<1>5. /\ t \in Seq(Seq(V)) /\ Len(t) = Len(q) /\ \A k \in 1 .. Len(q) : Len(t[k]) = q[k].length
  BY <1>1, <1>4
<1>6. /\ FlattenSeq(t) \in Seq(V) /\ Len(FlattenSeq(t)) = Total(q)
      /\ LaidOut(FlattenSeq(t), q, t, Len(q))
  <2> HIDE DEF t
  <2> QED
    BY <1>1, <1>5, FlattenIs
<1>7. Contents(q) = FlattenSeq(t)
  BY DEF Contents
<1>8. ASSUME NEW k \in 1 .. Len(q), NEW x \in 1 .. q[k].length
      PROVE  Contents(q)[Upto(q)[k - 1] + x] = Byte(At(q[k], x - 1))
  <2>1. Contents(q)[Upto(q)[k - 1] + x] = t[k][x]
    BY <1>6, <1>7 DEF LaidOut
  <2>2. t[k] = Content(q[k])
    BY <1>1
  <2>3. QED
    BY <2>1, <2>2 DEF Content
<1>9. QED
  BY <1>6, <1>7, <1>8 DEF V

\* Bytes that were produced overwrite bytes that were produced.
LEMMA WriteKeeps ==
    ASSUME CellsOK, NEW s \in Handles, NEW values,
           \A k \in DOMAIN values : values[k] \in 0 .. MaxBytes,
           cells' = Written(s, values)
    PROVE  CellsOK'
<1> DEFINE V == 0 .. MaxBytes
           a == Area(s.buf)
           new == [p \in DOMAIN cells[a] |->
                      IF \E k \in DOMAIN values : Place(At(s, k - 1)) = p
                      THEN values[CHOOSE k \in DOMAIN values : Place(At(s, k - 1)) = p]
                      ELSE cells[a][p]]
<1>1. a \in Areas
  BY AreaIsArea DEF Handles
<1>2. cells' = [cells EXCEPT ![a] = new]
  BY DEF Written
<1>3. cells[a] \in [0 .. Length(a) - 1 -> V]
  BY <1>1 DEF CellsOK
<1> HIDE DEF a
<1>4. new \in [0 .. Length(a) - 1 -> V]
  <2>1. ASSUME NEW p, \E k \in DOMAIN values : Place(At(s, k - 1)) = p
        PROVE  values[CHOOSE k \in DOMAIN values : Place(At(s, k - 1)) = p] \in V
    BY <2>1
  <2> HIDE DEF V
  <2>2. QED
    BY <1>3, <2>1
<1> HIDE DEF new, V
<1>5. QED
  BY <1>1, <1>2, <1>4 DEF CellsOK, V

-----------------------------------------------------------------------------
(* The invariant.                                                          *)

Ordinary == {h \in Handles : h.buf \notin Aux}

StreamInv ==
    /\ kind \in Kinds /\ reserve \in Reserves
    /\ pool \in Seq(Ordinary) /\ sent \in Seq(Ordinary) /\ inq \in Queues
    /\ produced \in 0 .. MaxBytes /\ posted \in 0 .. MaxUser
    /\ CellsOK
    /\ enqueued = Total(inq) /\ thrown \in {"none", "accumulate", "front"}

\* front() and mark_input_fail() keep the bytes of the queue.
LEMMA GatherKeeps ==
    ASSUME StreamInv, Len(inq) > 0, NEW needed, Gather(needed)
    PROVE  /\ inq' \in Queues /\ Total(inq') = Total(inq) /\ CellsOK'
           /\ thrown' \in {"none", "accumulate", "front"}
<1> DEFINE a == Accumulated(inq)
<1>1. thrown' \in {"none", "accumulate", "front"}
  BY DEF Gather
<1>2. inq \in Queues /\ CellsOK
  BY DEF StreamInv
<1>3. CASE IsAccumulated(inq)
  <2>1. cells' = cells /\ inq' = inq
    BY <1>3 DEF Gather
  <2>2. CellsOK'
    BY <1>2, <2>1 DEF CellsOK
  <2>3. QED
    BY <1>1, <1>2, <2>1, <2>2
<1>4. CASE ~IsAccumulated(inq)
  <2>1. cells' = Written(a.accum, a.values) /\ inq' = a.queue
    BY <1>4 DEF Gather
  <2>2. /\ a.queue \in Queues /\ Total(a.queue) = Total(inq) /\ a.accum \in Handles
        /\ a.accum.length = Min({Free, Total(inq)})
        /\ a.values = SubSeq(Contents(inq), 1, a.accum.length)
    BY <1>2, AccumulateKeeps
  <2> HIDE DEF a
  <2>3. Contents(inq) \in Seq(0 .. MaxBytes) /\ Len(Contents(inq)) = Total(inq)
    BY <1>2, ContentsAre
  <2>4. a.accum.length \in Nat /\ a.accum.length <= Total(inq)
    <3>1. Total(inq) \in Nat /\ Free \in Nat
      BY <1>2, HandlesAreQueue, TotalNat, FreeFits DEF Queues
    <3>2. QED
      BY <2>2, <3>1, MinOfTwo
  <2>5. \A k \in DOMAIN a.values : a.values[k] \in 0 .. MaxBytes
    <3>1. PICK c \in Seq(0 .. MaxBytes), n \in Nat : c = Contents(inq) /\ n = a.accum.length /\ n <= Len(c)
      BY <2>3, <2>4
    <3>2. a.values = SubSeq(c, 1, n)
      BY <2>2, <3>1
    <3>3. SubSeq(c, 1, n) = [k \in 1 .. n |-> c[k]]
      BY <3>1
    <3>4. ASSUME NEW k \in 1 .. n PROVE c[k] \in 0 .. MaxBytes
      <4>1. c \in Seq(0 .. MaxBytes) /\ Len(c) \in Nat /\ n <= Len(c)
        BY <3>1
      <4>2. k \in 1 .. Len(c)
        BY <4>1
      <4> DEFINE V == 0 .. MaxBytes
      <4>3. c \in Seq(V)
        BY <4>1
      <4> HIDE DEF V
      <4>4. c[k] \in V
        BY <4>2, <4>3
      <4>5. QED
        BY <4>4 DEF V
    <3>5. a.values = [k \in 1 .. n |-> c[k]]
      BY <3>2, <3>3
    <3>6. QED
      BY <3>4, <3>5
  <2>6. CellsOK'
    BY <1>2, <2>1, <2>2, <2>5, WriteKeeps
  <2>7. QED
    BY <1>1, <2>1, <2>2, <2>6
<1>5. QED
  BY <1>3, <1>4

\* What is produced is appended to what was sent.
LEMMA ProduceKeeps ==
    ASSUME StreamInv, NEW s \in Ordinary, NEW n \in Nat, Produce(s, n)
    PROVE  /\ CellsOK' /\ produced' \in 0 .. MaxBytes /\ sent' \in Seq(Ordinary)
           /\ inq' = inq /\ enqueued' = enqueued /\ thrown' = thrown
           /\ kind' = kind /\ reserve' = reserve
<1>1. produced' = produced + n /\ produced + n <= MaxBytes /\ cells' = Written(s, NewBytes(n))
      /\ sent' = Append(sent, [s EXCEPT !.length = n])
      /\ UNCHANGED <<kind, reserve, inq, enqueued, thrown>>
  BY DEF Produce, config, input
<1>2. produced \in Nat /\ MaxBytes \in Nat /\ CellsOK /\ sent \in Seq(Ordinary)
  BY StreamAssumption DEF StreamInv
<1>3. s \in Handles /\ [s EXCEPT !.length = n] \in Ordinary
  BY DEF Ordinary, Handles
<1>4. \A k \in DOMAIN NewBytes(n) : NewBytes(n)[k] \in 0 .. MaxBytes
  BY <1>1, <1>2 DEF NewBytes
<1>5. CellsOK'
  BY <1>1, <1>2, <1>3, <1>4, WriteKeeps
<1>6. QED
  BY <1>1, <1>2, <1>3, <1>5

\* A connection begins with empty queues.
LEMMA StreamInvInit == Init => StreamInv
<1>1. SUFFICES ASSUME Init PROVE StreamInv
  OBVIOUS
<1>2. kind \in Kinds /\ reserve \in Reserves /\ produced = 0 /\ posted = 0 /\ sent = <<>>
      /\ inq = <<>> /\ enqueued = 0 /\ thrown = "none"
  BY <1>1 DEF Init
<1>3. pool \in Seq(Ordinary)
  <2>1. PoolBuffs \in Nat
    BY StreamAssumption
  <2>2. ASSUME NEW k \in 1 .. PoolBuffs PROVE Handle(<<"pool", k - 1>>, 0, 0, Null) \in Ordinary
    <3>1. <<"pool", k - 1>> \in Buffers /\ <<"pool", k - 1>> \notin Aux
      BY <2>1 DEF Buffers, PoolIds, Aux
    <3>2. QED
      BY <3>1, NullIsPointer DEF Handle, Ordinary, Handles
  <2>3. pool = IF kind = "pool"
               THEN [k \in 1 .. PoolBuffs |-> Handle(<<"pool", k - 1>>, 0, 0, Null)] ELSE <<>>
    BY <1>1 DEF Init
  <2>4. QED
    BY <2>1, <2>2, <2>3
<1>4. CellsOK
  <2>1. cells = [a \in Areas |-> [p \in 0 .. Length(a) - 1 |-> 0]]
    BY <1>1 DEF Init
  <2>2. 0 \in 0 .. MaxBytes
    BY StreamAssumption
  <2>3. QED
    BY <2>1, <2>2 DEF CellsOK
<1>5. inq \in Queues /\ Total(inq) = 0
  BY <1>2, TotalEmpty DEF Queues, Fronted
<1>6. 0 \in 0 .. MaxBytes /\ 0 \in 0 .. MaxUser
  BY StreamAssumption
<1>7. QED
  BY <1>2, <1>3, <1>4, <1>5, <1>6 DEF StreamInv

\* Every step of a connection keeps its queues queues, and their sum.
LEMMA StreamInvNext == StreamInv /\ CircTypeOK /\ [Next]_vars => StreamInv'
<1> SUFFICES ASSUME StreamInv, CircTypeOK, [Next]_vars PROVE StreamInv'
  OBVIOUS
<1> USE DEF config, source, input
<1>0. CellsOK /\ (cells' = cells => CellsOK')
  BY DEF StreamInv, CellsOK
<1>1. CASE ProduceRing
  <2> DEFINE l == IF last = NoPtr THEN Null ELSE <<Ring, last>>
             s == Handle(<<"ring", Head(available)>>, write, 0, l)
  <2>1. PICK n \in Items(BuffLen) : CircPop(n) /\ Produce(s, n)
    BY <1>1 DEF ProduceRing
  <2>2. available # <<>> /\ pool' = pool /\ posted' = posted
    BY <1>1, <2>1 DEF ProduceRing, CircPop, CircEmpty
  <2>3. n \in Nat
    BY CircAssumption DEF Items
  <2>4. l \in Pointers
    BY NullIsPointer DEF CircTypeOK, Pointers, Areas
  <2> HIDE DEF l
  <2>5. <<"ring", Head(available)>> \in Buffers /\ <<"ring", Head(available)>> \notin Aux
    BY <2>2 DEF CircTypeOK, Buffers, Aux
  <2>6. write \in Nat
    BY CircAssumption DEF CircTypeOK
  <2>7. s \in Ordinary
    BY <2>4, <2>5, <2>6 DEF Handle, Handles, Ordinary
  <2> HIDE DEF s
  <2>8. QED
    BY <2>1, <2>2, <2>3, <2>7, ProduceKeeps DEF StreamInv
<1>2. CASE ProducePool
  <2> DEFINE s == Head(pool)
  <2>1. pool # <<>> /\ posted' = posted
    BY <1>2 DEF ProducePool, OutputReady
  <2>2. PICK n \in Items(PoolLen - s.offset) : /\ Produce(s, n)
                                              /\ pool' = PopPool([s EXCEPT !.offset = @ + n])
    BY <1>2 DEF ProducePool
  <2>3. s \in Ordinary /\ pool \in Seq(Ordinary) /\ s.offset \in Nat
    BY <2>1 DEF StreamInv, Ordinary, Handles
  <2>4. n \in Nat
    BY <2>3, StreamAssumption DEF Items
  <2> HIDE DEF s
  <2> DEFINE t == [s EXCEPT !.offset = @ + n]
             u == [t EXCEPT !.last = At(t, 0)]
  <2>5. t \in Ordinary
    BY <2>3, <2>4 DEF Ordinary, Handles
  <2>6. u \in Ordinary
    <3>1. PICK p \in Pointers : p = At(t, 0)
      BY <2>5, AtIsPointer DEF Ordinary
    <3> HIDE DEF t
    <3>2. QED
      BY <2>5, <3>1 DEF Ordinary, Handles
  <2>7. pool' = IF t.offset > PoolLen \div 2 THEN Tail(pool) ELSE [pool EXCEPT ![1] = u]
    BY <2>2 DEF PopPool
  <2> HIDE DEF t, u
  <2>8. pool' \in Seq(Ordinary)
    BY <2>1, <2>3, <2>6, <2>7
  <2>9. QED
    BY <2>1, <2>2, <2>3, <2>4, <2>8, ProduceKeeps DEF StreamInv
<1>3. CASE PostUser
  <2>1. PICK l \in {Null, Wild} : Produce(Handle(<<"user", posted'>>, 0, 0, l), UserLen)
    BY <1>3 DEF PostUser
  <2>2. posted' \in 1 .. MaxUser /\ pool' = pool
    BY <1>3, StreamAssumption DEF PostUser, StreamInv
  <2> DEFINE s == Handle(<<"user", posted'>>, 0, 0, l)
  <2>3. s \in Ordinary
    <3>1. PICK j \in 1 .. MaxUser : j = posted'
      BY <2>2
    <3>2. <<"user", j>> \in Buffers /\ <<"user", j>> \notin Aux /\ l \in Pointers
      BY NullIsPointer DEF Buffers, Aux
    <3>3. QED
      BY <3>1, <3>2 DEF Handle, Ordinary, Handles
  <2> HIDE DEF s
  <2>4. UserLen \in Nat /\ posted' \in 0 .. MaxUser
    BY <2>2, StreamAssumption
  <2>5. Produce(s, UserLen)
    BY <2>1 DEF s
  <2>6. QED
    BY <2>2, <2>3, <2>4, <2>5, ProduceKeeps DEF StreamInv
<1>4. ASSUME NEW i \in PoolIds, ReturnToPool(i) PROVE StreamInv'
  <2>1. Handle(<<"pool", i>>, 0, 0, Null) \in Ordinary
    <3>1. <<"pool", i>> \in Buffers /\ <<"pool", i>> \notin Aux
      BY DEF Buffers, Aux
    <3>2. QED
      BY <3>1, NullIsPointer DEF Handle, Ordinary, Handles
  <2>2. pool' \in Seq(Ordinary)
    BY <1>4, <2>1 DEF ReturnToPool, StreamInv
  <2>3. QED
    BY <1>0, <1>4, <2>2 DEF ReturnToPool, StreamInv
<1>5. ASSUME NEW i \in Slots, ReturnToRing(i) PROVE StreamInv'
  BY <1>0, <1>5 DEF ReturnToRing, StreamInv
<1>6. CASE AckRing
  BY <1>0, <1>6 DEF AckRing, StreamInv
<1>7. CASE Deliver
  <2>1. sent # <<>> /\ inq' = Pushed(inq, Head(sent)) /\ enqueued' = enqueued + Head(sent).length
        /\ sent' = Tail(sent)
    BY <1>7 DEF Deliver
  <2>2. PICK s : s = Head(sent)
    OBVIOUS
  <2>3. s \in Handles /\ s.buf \notin Aux /\ sent' \in Seq(Ordinary)
    BY <2>1, <2>2 DEF StreamInv, Ordinary
  <2>4. inq \in Queues
    BY DEF StreamInv
  <2>5. Pushed(inq, s) \in Queues /\ Total(Pushed(inq, s)) = Total(inq) + s.length
    BY <2>3, <2>4, PushKeeps
  <2>6. QED
    BY <1>0, <1>7, <2>1, <2>2, <2>3, <2>5 DEF Deliver, StreamInv
<1>8. CASE WorkGathers \/ WorkFails
  <2>1. PICK needed : Gather(needed)
    BY <1>8 DEF WorkGathers, WorkFails
  <2>2. Len(inq) > 0
    <3>1. inq \in Seq(Handles) /\ inq # <<>>
      BY <1>8 DEF WorkGathers, WorkFails, Ready, StreamInv, Queues
    <3>2. QED
      BY <3>1
  <2>3. UNCHANGED <<kind, reserve, pool, produced, posted, sent, enqueued>>
    BY <1>8 DEF WorkGathers, WorkFails
  <2>4. QED
    BY <2>1, <2>2, <2>3, GatherKeeps DEF StreamInv
<1>9. ASSUME NEW n \in Items(MaxBytes), WorkConsumes(n) PROVE StreamInv'
  <2>1. inq \in Queues /\ inq # <<>> /\ n <= Head(inq).length /\ inq' = Consumed(inq, n)
        /\ enqueued' = enqueued - n
    BY <1>9 DEF WorkConsumes, Ready, StreamInv
  <2>2. Len(inq) > 0 /\ Head(inq) = inq[1]
    <3>1. inq \in Seq(Handles)
      BY <2>1 DEF Queues
    <3>2. QED
      BY <2>1, <3>1
  <2>3. n \in Nat
    BY StreamAssumption DEF Items
  <2>4. inq' \in Queues /\ Total(inq') = Total(inq) - n
    BY <2>1, <2>2, <2>3, ConsumeKeeps
  <2>5. QED
    BY <1>0, <1>9, <2>1, <2>4 DEF WorkConsumes, StreamInv
<1>10. CASE UNCHANGED vars
  BY <1>0, <1>10 DEF vars, StreamInv
<1>11. QED
  BY <1>1, <1>2, <1>3, <1>4, <1>5, <1>6, <1>7, <1>8, <1>9, <1>10 DEF Next

-----------------------------------------------------------------------------
(* AssertsHold, for a maximum of whole items.                              *)

\* After accumulate() the front buffer has what is needed, or the maximum.
LEMMA GatherAsserts ==
    ASSUME Free = Maximum, StreamInv, Len(inq) > 0, NEW needed \in Nat,
           Gather(needed), needed <= Maximum,
           needed = 0 \/ (inq[1].length < needed /\ needed <= Total(inq))
    PROVE  thrown' = "none"
<1> DEFINE a == Accumulated(inq)
<1>1. inq \in Queues /\ IsQueue(inq) /\ Len(inq) \in Nat \ {0} /\ inq[1].length \in Nat
  BY HandlesAreQueue DEF StreamInv, Queues, IsQueue
<1>2. /\ a.queue \in Queues /\ Len(a.queue) > 0 /\ a.queue[1] = a.accum
      /\ a.accum.length = Min({Free, Total(inq)})
      /\ Total(inq) < Free => Len(a.queue) = 1
  BY <1>1, AccumulateKeeps
<1> HIDE DEF a
<1>3. Free = Maximum /\ Maximum \in Nat /\ Total(inq) \in Nat
  BY <1>1, TotalNat, StreamAssumption
<1>4. a.accum.length = IF Maximum <= Total(inq) THEN Maximum ELSE Total(inq)
  BY <1>2, <1>3, MinOfTwo
<1>5. ASSUME NEW q \in Queues, Len(q) > 0, IsAccumulated(q), inq' = q, q[1].length >= needed,
             q[1].length \in Nat
      PROVE  thrown' = "none"
  <2>1. Head(inq') = q[1]
    BY <1>5 DEF Queues
  <2>2. QED
    BY <1>5, <2>1 DEF Gather
<1>6. CASE IsAccumulated(inq)
  <2>1. inq' = inq
    BY <1>6 DEF Gather
  <2>2. ASSUME Len(inq) = 1 PROVE inq[1].length = Total(inq)
    <3>1. Upto(inq)[0] = 0 /\ Upto(inq)[1] = Upto(inq)[1 - 1] + inq[1].length /\ 1 - 1 = 0
      <4>1. 1 \in 1 .. Len(inq) /\ 1 - 1 = 0
        BY <2>2
      <4>2. QED
        BY <1>1, <4>1, UptoDef
    <3>2. QED
      BY <1>1, <2>2, <3>1 DEF Total
  <2>3. needed = 0
    <3>1. Len(inq) = 1 \/ inq[1].length >= Maximum
      <4>1. Len(inq) <= 1 \/ inq[1].length >= Maximum
        BY <1>6 DEF IsAccumulated
      <4>2. Len(inq) <= 1 => Len(inq) = 1
        <5>1. PICK n \in Nat \ {0} : n = Len(inq)
          BY <1>1
        <5>2. n <= 1 => n = 1
          OBVIOUS
        <5>3. QED
          BY <5>1, <5>2
      <4>3. QED
        BY <4>1, <4>2
    <3>2. QED
      BY <1>1, <1>3, <2>2, <3>1
  <2>4. QED
    BY <1>1, <1>5, <1>6, <2>1, <2>3
<1>7. CASE ~IsAccumulated(inq)
  <2>1. inq' = a.queue
    BY <1>7 DEF Gather, a
  <2>2. IsAccumulated(a.queue)
    <3>1. CASE Maximum <= Total(inq)
      <4>1. a.queue[1].length = Maximum
        BY <1>2, <1>4, <3>1
      <4>2. QED
        BY <1>3, <4>1 DEF IsAccumulated
    <3>2. CASE Total(inq) < Maximum
      <4>1. Len(a.queue) = 1
        BY <1>2, <1>3, <3>2
      <4>2. QED
        BY <4>1 DEF IsAccumulated
    <3>3. QED
      BY <1>3, <3>1, <3>2
  <2>3. a.queue[1].length >= needed /\ a.queue[1].length \in Nat
    BY <1>2, <1>3, <1>4
  <2>4. QED
    BY <1>2, <1>5, <2>1, <2>2, <2>3
<1>8. QED
  BY <1>6, <1>7

\* No step of a connection fails an assertion.
LEMMA AssertsNext ==
    ASSUME Free = Maximum, StreamInv, AssertsHold, [Next]_vars
    PROVE  AssertsHold'
<1> USE DEF input, config, source
<1>1. CASE WorkGathers
  <2>1. /\ inq # <<>> /\ Head(inq).length < reserve /\ Gather(reserve) /\ enqueued >= reserve
        /\ reserve \in Reserves /\ enqueued = Total(inq) /\ inq \in Seq(Handles)
    BY <1>1 DEF WorkGathers, Ready, StreamInv, Queues
  <2>2. Len(inq) > 0 /\ Head(inq) = inq[1]
    BY <2>1
  <2>3. reserve \in Nat /\ reserve <= Maximum
    BY <2>1, StreamAssumption
  <2>4. IsQueue(inq)
    BY <2>1, HandlesAreQueue
  <2>5. Total(inq) \in Nat
    BY <2>4, TotalNat
  <2>6. reserve <= Total(inq)
    BY <2>1, <2>3, <2>5
  <2>7. QED
    BY <2>1, <2>2, <2>3, <2>6, GatherAsserts DEF AssertsHold
<1>2. CASE WorkFails
  <2>1. inq # <<>> /\ Gather(0) /\ inq \in Seq(Handles)
    BY <1>2 DEF WorkFails, Ready, StreamInv, Queues
  <2>2. Len(inq) > 0 /\ 0 \in Nat /\ 0 <= Maximum
    BY <2>1, StreamAssumption
  <2>3. QED
    BY <2>1, <2>2, GatherAsserts DEF AssertsHold
<1>3. CASE ProduceRing \/ ProducePool \/ PostUser
  BY <1>3 DEF ProduceRing, ProducePool, PostUser, Produce, AssertsHold
<1>4. CASE \/ \E i \in PoolIds : ReturnToPool(i)
           \/ \E i \in Slots : ReturnToRing(i)
           \/ AckRing \/ Deliver \/ \E n \in Items(MaxBytes) : WorkConsumes(n)
           \/ UNCHANGED vars
  BY <1>4 DEF ReturnToPool, ReturnToRing, AckRing, Deliver, WorkConsumes, vars, AssertsHold
<1>5. QED
  BY <1>1, <1>2, <1>3, <1>4 DEF Next

\* The invariant gives the types.
LEMMA InvTypes == StreamInv /\ CircTypeOK => StreamTypeOK
<1> SUFFICES ASSUME StreamInv, CircTypeOK PROVE StreamTypeOK
  OBVIOUS
<1>1. ASSUME NEW q \in {pool, sent, inq}, NEW k \in DOMAIN q PROVE IsHandle(q[k])
  <2>1. q \in Seq(Handles)
    BY DEF StreamInv, Ordinary, Queues
  <2>2. q[k] \in Handles
    BY <2>1
  <2>3. QED
    BY <2>2 DEF Handles, IsHandle
<1>2. enqueued \in Nat
  BY TotalNat, HandlesAreQueue DEF StreamInv, Queues
<1>3. QED
  BY <1>1, <1>2 DEF StreamInv, CellsOK, StreamTypeOK

-----------------------------------------------------------------------------
(* The theorems.                                                           *)

\* The invariant holds at every step.
LEMMA StreamAlways == Spec => [](StreamInv /\ CircTypeOK)
<1>1. Spec => []CircTypeOK
  BY StreamUsesRing, RingTypeCorrect, PTL
<1>2. Spec => []StreamInv
  BY <1>1, StreamInvInit, StreamInvNext, PTL DEF Spec
<1>3. QED
  BY <1>1, <1>2, PTL

\* The queues of a connection hold handles to its buffers, also those that
\* accumulate() makes, for which an auxiliary buffer is always left, and memory
\* holds bytes of the stream.
THEOREM StreamTypeCorrect == Spec => []StreamTypeOK
<1>1. StreamInv /\ CircTypeOK => StreamTypeOK
  BY InvTypes
<1>2. QED
  BY <1>1, StreamAlways, PTL

\* _enqueued_bytes is what the handles of the queue hold: stitching moves
\* bytes from a handle to another, accumulate() copies what it takes away and
\* keeps the rest, unstitching gives back what it takes from the front.
THEOREM EnqueuedIsExact == Spec => []EnqueuedIsTotal
<1>1. StreamInv => EnqueuedIsTotal
  BY DEF StreamInv, EnqueuedIsTotal
<1>2. QED
  BY <1>1, StreamAlways, PTL

\* Where the maximum is of whole items, accumulate() leaves a queue that
\* is_accumulated() holds of, and the front buffer then has the reserve: the
\* assertions of input_buffer_queues.hpp never fail.
THEOREM AssertionsHold ==
    ASSUME Maximum % ItemSize = 0
    PROVE  Spec => []AssertsHold
<1>1. Init => AssertsHold
  BY DEF Init, AssertsHold
<1>2. StreamInv /\ AssertsHold /\ [Next]_vars => AssertsHold'
  BY FreeIsMaximum, AssertsNext
<1>3. QED
  BY <1>1, <1>2, StreamAlways, PTL DEF Spec

-----------------------------------------------------------------------------
(* Where the bytes of the stream are.                                      *)

Whole   == inq \o sent
Used(h) == h.offset + h.length

InRing(h) == h.buf[1] = "ring"
InPool(h) == h.buf[1] = "pool"
InUser(h) == h.buf[1] = "user"
Slot(h)   == h.buf[2]

\* the bytes of the stream that a handle has, and those that lie before them in
\* its buffer, whose memory begins with the byte after at[h.buf]
From(h, at) == at[h.buf] + h.offset
To(h, at)   == at[h.buf] + Used(h)

\* a handle's memory, from the start of its buffer to its last byte
Reads(h, at) ==
    \A x \in 0 .. Used(h) - 1 :
        Byte(<<Area(h.buf), h.memory + x>>) = at[h.buf] + x + 1

OfItems(n) == n % ItemSize = 0

\* what a buffer of the pool has when it leaves: more than half, in items
Kept == ((PoolLen \div 2) \div ItemSize + 1) * ItemSize

Pooled(b) == \E k \in 1 .. Len(pool) : pool[k].buf = b

\* a buffer that is still in the pool has more behind its handles, and the
\* buffers that left the pool were filled before it
PoolLies(h, at) ==
    /\ kind = "pool"
    /\ \A k \in 1 .. Len(pool) :
          /\ h.buf = pool[k].buf => Used(h) <= pool[k].offset
          /\ (h.buf # pool[k].buf /\ pool[k].offset > 0) =>
                /\ To(h, at) <= at[pool[k].buf]
                /\ at[h.buf] + Kept <= at[pool[k].buf]
    /\ ~Pooled(h.buf) => at[h.buf] + Kept <= produced

RingLies(h) ==
    /\ kind = "ring" /\ Slot(h) \in Away
    /\ h.memory = memory[Slot(h)] /\ Used(h) <= behind[Slot(h)]

Lies(h, at) ==
    /\ Reads(h, at)
    /\ h.buf \notin Aux => Used(h) >= 1
    /\ InRing(h) => RingLies(h)
    /\ ~InRing(h) => h.memory = 0
    /\ InPool(h) => PoolLies(h, at)
    /\ InUser(h) => kind # "pool" /\ h.buf[2] <= posted

\* how far behind the write pointer a handle begins and ends
Left(h) == behind[Slot(h)] - h.offset
Ends(h) == behind[Slot(h)] - Used(h)

Before(g, h, at) ==
    /\ (InRing(g) /\ InRing(h)) =>
          Ends(g) >= Left(h) /\ Dist(Slot(g)) < Dist(Slot(h))
    /\ (InPool(g) /\ InPool(h) /\ g.buf # h.buf) =>
          To(g, at) <= at[h.buf] /\ at[g.buf] + Kept <= at[h.buf]

\* last of a handle that is not the front says where it begins, if anything
Linked(h) ==
    \/ h.last \in {Null, Wild} \/ h.last[1] \in Aux
    \/ h.last = At(h, 0)
    \/ InRing(h) /\ h.last = At(h, CircLen)

Follows(g, h, at) == Linked(h) /\ From(h, at) = To(g, at)

Line(w, at) ==
    /\ \A k \in 1 .. Len(w) : Lies(w[k], at) /\ OfItems(From(w[k], at))
    /\ \A i, k \in 1 .. Len(w) : i < k => Before(w[i], w[k], at)
    /\ \A k \in 1 .. Len(w) - 1 : Follows(w[k], w[k + 1], at)
    /\ Len(w) > 0 => To(w[Len(w)], at) = produced

Bases == [Buffers -> Nat]

\* whole items
LEMMA ItemsDivide ==
    ASSUME NEW a \in Nat
    PROVE  OfItems(a) <=> \E k \in Nat : a = k * ItemSize
<1>1. ItemSize \in Nat \ {0}
  BY StreamAssumption
<1>2. ASSUME OfItems(a) PROVE \E k \in Nat : a = k * ItemSize
  <2>1. ASSUME NEW x \in Nat, NEW c \in Nat \ {0}, x % c = 0
        PROVE  (x \div c) \in Nat /\ x = (x \div c) * c
    BY <2>1
  <2>2. QED
    BY <1>1, <1>2, <2>1 DEF OfItems
<1>3. ASSUME NEW k \in Nat, a = k * ItemSize PROVE OfItems(a)
  <2>1. ASSUME NEW x \in Nat, NEW c \in Nat \ {0} PROVE (x * c) % c = 0
    BY <2>1
  <2>2. QED
    BY <1>1, <1>3, <2>1 DEF OfItems
<1>4. QED
  BY <1>2, <1>3

\* Whole items and whole items are whole items.
LEMMA ItemsAdd ==
    ASSUME NEW a \in Nat, NEW b \in Nat, OfItems(a), OfItems(b)
    PROVE  OfItems(a + b) /\ (a <= b => OfItems(b - a))
<1>1. PICK j \in Nat : a = j * ItemSize
  BY ItemsDivide
<1>2. PICK k \in Nat : b = k * ItemSize
  BY ItemsDivide
<1>3. ItemSize \in Nat \ {0}
  BY StreamAssumption
<1>4. a + b = (j + k) * ItemSize /\ j + k \in Nat /\ a + b \in Nat
  <2>1. ASSUME NEW c \in Nat PROVE j * c + k * c = (j + k) * c
    BY <2>1
  <2>2. QED
    BY <1>1, <1>2, <1>3, <2>1
<1>5. ASSUME a <= b PROVE k - j \in Nat /\ b - a = (k - j) * ItemSize /\ b - a \in Nat
  <2>1. ASSUME NEW c \in Nat \ {0}, j * c <= k * c PROVE j <= k
    <3>1. SUFFICES ASSUME j >= k + 1 PROVE FALSE
      OBVIOUS
    <3>2. j * c = k * c + (j - k) * c
      BY <3>1
    <3>3. ASSUME NEW x \in Nat, x >= 1 PROVE x * c >= c
      BY <3>3
    <3>4. j - k \in Nat /\ j - k >= 1
      BY <3>1
    <3>5. (j - k) * c >= c /\ (j - k) * c \in Int /\ k * c \in Int /\ j * c \in Int
      BY <3>3, <3>4
    <3>6. QED
      BY <2>1, <3>2, <3>5
  <2>2. j <= k
    BY <1>1, <1>2, <1>3, <1>5, <2>1
  <2>3. ASSUME NEW c \in Nat PROVE k * c - j * c = (k - j) * c
    BY <2>3
  <2>4. QED
    BY <1>1, <1>2, <1>3, <1>5, <2>2, <2>3
<1>6. QED
  BY <1>4, <1>5, ItemsDivide

\* What the parts of a handle are.
LEMMA HandleParts ==
    ASSUME NEW h \in Handles, NEW at \in Bases
    PROVE  /\ h.buf \in Buffers /\ h.memory \in Nat /\ h.offset \in Nat /\ h.length \in Nat
           /\ h.last \in Pointers /\ Used(h) \in Nat /\ at[h.buf] \in Nat
           /\ From(h, at) \in Nat /\ To(h, at) \in Nat /\ Area(h.buf) \in Areas
           /\ To(h, at) = From(h, at) + h.length
           /\ (InRing(h) => Slot(h) \in Slots /\ h.buf = <<"ring", Slot(h)>> /\ Area(h.buf) = Ring)
           /\ (~InRing(h) => Area(h.buf) = h.buf)
<1>1. h.buf \in Buffers /\ h.memory \in Nat /\ h.offset \in Nat /\ h.length \in Nat /\ h.last \in Pointers
  BY DEF Handles
<1>2. at[h.buf] \in Nat
  BY <1>1 DEF Bases
<1>3. Area(h.buf) \in Areas
  BY <1>1, AreaIsArea
<1>4. InRing(h) => Slot(h) \in Slots /\ h.buf = <<"ring", Slot(h)>> /\ Area(h.buf) = Ring
  BY <1>1 DEF InRing, Slot, Buffers, Aux, Area
<1>5. ~InRing(h) => Area(h.buf) = h.buf
  BY DEF InRing, Area
<1>6. QED
  BY <1>1, <1>2, <1>3, <1>4, <1>5 DEF Used, From, To

\* where a handle lies does not depend on how much of it was consumed
LEMMA LiesSame ==
    ASSUME NEW g \in Handles, NEW h \in Handles, NEW at \in Bases,
           g.buf = h.buf, g.memory = h.memory, Used(g) = Used(h)
    PROVE  Lies(g, at) => Lies(h, at)
  BY DEF Lies, Reads, PoolLies, RingLies, InRing, InPool, InUser, Slot, To

\* A handle in the ring ends less than a ring behind the pointer.
LEMMA RingBounds ==
    ASSUME CircInv, NEW h \in Handles, NEW at \in Bases, InRing(h), Lies(h, at)
    PROVE  /\ Slot(h) \in Slots /\ behind[Slot(h)] \in Nat /\ behind[Slot(h)] <= CircLen
           /\ write \in Nat /\ CircLen \in Nat /\ h.memory \in 0 .. CircLen
           /\ h.buf \notin Aux /\ Used(h) >= 1 /\ Used(h) <= behind[Slot(h)]
           /\ \/ h.memory = write - behind[Slot(h)]
              \/ h.memory = write - behind[Slot(h)] + CircLen
              \/ h.memory = write - behind[Slot(h)] + 2 * CircLen
<1>1. Slot(h) \in Away /\ h.memory = memory[Slot(h)] /\ Used(h) <= behind[Slot(h)]
  BY DEF Lies, RingLies
<1>2. Slot(h) \in Slots /\ IsOut(Slot(h))
  BY <1>1, AwayIsOut
<1>3. behind[Slot(h)] \in Nat /\ behind[Slot(h)] <= CircLen
  BY <1>2, BehindIsBounded
<1>4. CircTypeOK /\ Placed /\ CircLen \in Nat
  BY CircAssumption DEF CircInv
<1>5. h.buf \notin Aux
  BY DEF InRing, Aux
<1>6. QED
  BY <1>1, <1>2, <1>3, <1>4, <1>5 DEF CircTypeOK, Placed, Lies


-----------------------------------------------------------------------------
(* Stitching.                                                              *)

\* what a join gives the two handles
LEMMA StitchIs ==
    ASSUME NEW q \in Queues, NEW j \in 1 .. Len(q) - 1,
           q[j + 1].last = At(q[j], q[j].length), q[j].last # Null
    PROVE  LET r == StitchAt(q, j)  b0 == q[j]  b1 == q[j + 1]
           IN  /\ r \in Queues /\ r \in Seq(Handles) /\ Len(r) = Len(q)
               /\ b0.buf \notin Aux /\ b1.buf \notin Aux
               /\ r[j].buf = b0.buf /\ r[j].memory = b0.memory /\ r[j].offset = b0.offset
               /\ r[j].length = b0.length + b1.length /\ r[j].last = b0.last
               /\ r[j + 1].buf = b1.buf /\ r[j + 1].memory = b1.memory
               /\ r[j + 1].offset = b1.offset + b1.length /\ r[j + 1].length = 0
               /\ r[j + 1].last = <<Area(b0.buf), b0.memory + Used(b0) + b1.length>>
               /\ \A k \in 1 .. Len(q) : k # j /\ k # j + 1 => r[k] = q[k]
<1> DEFINE r == StitchAt(q, j)
           b0 == q[j]
           b1 == q[j + 1]
           joined == [b0 EXCEPT !.length = @ + b1.length]
           given == [b1 EXCEPT !.offset = @ + b1.length, !.length = 0,
                               !.last = At(joined, joined.length)]
<1>1. /\ q \in Seq(Handles) /\ Len(q) \in Nat /\ DOMAIN q = 1 .. Len(q)
      /\ \A k \in 1 .. Len(q) : q[k] \in Handles
  BY HandlesAreQueue DEF Queues
<1>2. r = [q EXCEPT ![j] = joined, ![j + 1] = given]
  BY DEF StitchAt
<1>3. j \in 1 .. Len(q) /\ j + 1 \in 1 .. Len(q) /\ j # j + 1
  BY <1>1
<1>4. b0 \in Handles /\ b1 \in Handles
  BY <1>1, <1>3
<1>5. /\ joined.buf = b0.buf /\ joined.memory = b0.memory /\ joined.offset = b0.offset
      /\ joined.length = b0.length + b1.length /\ joined.last = b0.last
  BY <1>4 DEF Handles
<1>6. At(joined, joined.length) = <<Area(b0.buf), b0.memory + Used(b0) + b1.length>>
  <2>1. b0.memory + b0.offset + (b0.length + b1.length) = b0.memory + Used(b0) + b1.length
    BY <1>4 DEF Handles, Used
  <2>2. QED
    BY <1>5, <2>1 DEF At
<1>7. /\ given.buf = b1.buf /\ given.memory = b1.memory
      /\ given.offset = b1.offset + b1.length /\ given.length = 0
      /\ given.last = <<Area(b0.buf), b0.memory + Used(b0) + b1.length>>
  <2>1. PICK x : x = At(joined, joined.length)
    OBVIOUS
  <2>2. given = [b1 EXCEPT !.offset = @ + b1.length, !.length = 0, !.last = x]
    BY <2>1
  <2> HIDE DEF joined, given
  <2>3. QED
    BY <1>4, <1>6, <2>1, <2>2 DEF Handles
<1> HIDE DEF joined, given
<1>8. /\ r[j] = joined /\ r[j + 1] = given
      /\ \A k \in 1 .. Len(q) : k # j /\ k # j + 1 => r[k] = q[k]
  BY <1>1, <1>2, <1>3
<1>9. r \in Queues /\ Len(r) = Len(q) /\ r \in Seq(Handles)
  BY StitchKeeps DEF Queues
<1>10. b0.buf \notin Aux /\ b1.buf \notin Aux
  BY <1>1, <1>3 DEF Queues, Fronted
<1> HIDE DEF r
<1>11. QED
  BY <1>5, <1>7, <1>8, <1>9, <1>10 DEF r

\* The memory of a handle that begins where the one before it ends, as last
\* tells, goes on where that one's memory ends.
LEMMA JoinFits ==
    ASSUME CircInv, NEW at \in Bases, NEW g \in Handles, NEW h \in Handles,
           Lies(g, at), Lies(h, at), Before(g, h, at), Follows(g, h, at),
           g.buf \notin Aux, h.last = At(g, g.length)
    PROVE  /\ h.last = At(h, 0) \/ (InRing(h) /\ h.last = At(h, CircLen))
           /\ InRing(g) => InRing(h) /\ Ends(g) = Left(h) /\ Area(h.buf) = Area(g.buf)
           /\ ~InRing(g) => g.buf = h.buf /\ g.memory = h.memory /\ Used(g) = h.offset
<1>1. /\ h.last # Null /\ h.last # Wild /\ h.last[1] = Area(g.buf)
      /\ h.last[2] = g.memory + Used(g)
  <2>1. g.memory + g.offset + g.length = g.memory + Used(g) /\ g.length \in Int
    BY DEF Handles, Used
  <2>2. QED
    BY <2>1, AtIsPointer DEF At
<1>2. Area(g.buf) \notin Aux
  BY HandleParts DEF Ring, Aux
<1>3. h.last = At(h, 0) \/ (InRing(h) /\ h.last = At(h, CircLen))
  BY <1>1, <1>2 DEF Follows, Linked
<1>4. CASE ~InRing(g)
  <2>1. Area(g.buf) = g.buf /\ Area(h.buf) = g.buf
    BY <1>1, <1>3, <1>4, HandleParts DEF At
  <2>2. ~InRing(h) /\ Area(h.buf) = h.buf
    BY <1>4, <2>1, HandleParts DEF InRing, Ring
  <2>3. g.buf = h.buf /\ h.last = At(h, 0)
    BY <1>3, <2>1, <2>2
  <2>4. g.memory = 0 /\ h.memory = 0
    BY <1>4, <2>2 DEF Lies
  <2>5. Used(g) = h.offset
    BY <1>1, <2>3, <2>4, HandleParts DEF At
  <2>6. QED
    BY <1>3, <1>4, <2>3, <2>4, <2>5
<1>5. CASE InRing(g)
  <2>1. Area(g.buf) = Ring /\ Area(h.buf) = Ring
    BY <1>1, <1>3, <1>5, HandleParts DEF At
  <2>2. InRing(h)
    <3>1. h.buf \in Buffers
      BY HandleParts
    <3>2. QED
      BY <2>1, <3>1 DEF Area, InRing, Ring
  <2> DEFINE C == CircLen
             m == g.memory
             n == h.memory
             b == behind[Slot(g)]
             c == behind[Slot(h)]
             u == Used(g)
             o == h.offset
  <2>3. /\ b \in Nat /\ b <= C /\ c \in Nat /\ c <= C /\ write \in Nat /\ C \in Nat
        /\ u \in Nat /\ u >= 1 /\ u <= b /\ o \in Nat /\ o <= c
        /\ m = write - b \/ m = write - b + C \/ m = write - b + 2 * C
        /\ n = write - c \/ n = write - c + C \/ n = write - c + 2 * C
    <3>1. Used(g) \in Nat /\ Used(h) \in Nat /\ h.offset \in Nat /\ h.length \in Nat
      BY HandleParts
    <3>2. h.offset <= Used(h)
      BY <3>1 DEF Used
    <3>3. /\ behind[Slot(h)] \in Nat /\ behind[Slot(h)] <= CircLen
          /\ Used(h) <= behind[Slot(h)]
          /\ \/ h.memory = write - behind[Slot(h)]
             \/ h.memory = write - behind[Slot(h)] + CircLen
             \/ h.memory = write - behind[Slot(h)] + 2 * CircLen
      BY <2>2, RingBounds
    <3>4. /\ behind[Slot(g)] \in Nat /\ behind[Slot(g)] <= CircLen
          /\ Used(g) <= behind[Slot(g)] /\ Used(g) >= 1 /\ write \in Nat /\ CircLen \in Nat
          /\ \/ g.memory = write - behind[Slot(g)]
             \/ g.memory = write - behind[Slot(g)] + CircLen
             \/ g.memory = write - behind[Slot(g)] + 2 * CircLen
      BY <1>5, RingBounds
    <3>5. QED
      BY <3>1, <3>2, <3>3, <3>4
  <2>4. b - u >= c - o
    BY <1>5, <2>2 DEF Before, Ends, Left
  <2>5. m + u = n + o \/ m + u = n + o + C
    <3>1. h.last[2] = n + o + 0 \/ h.last[2] = n + o + C
      BY <1>3 DEF At
    <3> HIDE DEF m, n, u, o, C
    <3>2. h.last[2] = m + u
      BY <1>1 DEF m, u
    <3>3. n \in Nat /\ o \in Nat
      BY HandleParts DEF n, o
    <3>4. QED
      BY <3>1, <3>2, <3>3
  <2> HIDE DEF m, n, b, c, u, o, C
  <2>6. b - u = c - o
    BY <2>3, <2>4, <2>5
  <2>7. QED
    BY <1>3, <1>5, <2>1, <2>2, <2>6 DEF b, c, u, o, Ends, Left
<1>6. QED
  BY <1>4, <1>5

\* the handle that took the bytes of the next
LEMMA JoinedLies ==
    ASSUME CircInv, NEW at \in Bases, NEW g \in Handles, NEW h \in Handles, NEW r \in Handles,
           Lies(g, at), Lies(h, at), Before(g, h, at), Follows(g, h, at),
           g.buf \notin Aux, h.last = At(g, g.length),
           r.buf = g.buf, r.memory = g.memory, r.offset = g.offset,
           r.length = g.length + h.length
    PROVE  Lies(r, at) /\ Used(r) = Used(g) + h.length /\ To(r, at) = To(h, at)
           /\ From(r, at) = From(g, at) /\ (InRing(g) => Ends(r) = Ends(h) /\ Left(r) = Left(g))
<1>1. /\ Used(r) = Used(g) + h.length /\ Used(g) \in Nat /\ h.length \in Nat /\ h.offset \in Nat
      /\ Used(h) = h.offset + h.length /\ at[g.buf] \in Nat /\ at[h.buf] \in Nat
      /\ g.memory \in Nat /\ h.memory \in Nat
  <2>1. g.offset \in Nat /\ g.length \in Nat /\ h.offset \in Nat /\ h.length \in Nat
    BY HandleParts
  <2>2. QED
    BY <2>1, HandleParts DEF Used
<1>2. at[g.buf] + Used(g) = at[h.buf] + h.offset
  BY DEF Follows, From, To
<1>3. To(r, at) = To(h, at) /\ From(r, at) = From(g, at)
  BY <1>1, <1>2 DEF To, From
<1>4. CASE ~InRing(g)
  <2>1. g.buf = h.buf /\ g.memory = h.memory /\ Used(g) = h.offset
    BY <1>4, JoinFits
  <2>2. Used(r) = Used(h)
    BY <1>1, <2>1
  <2>3. QED
    BY <1>1, <1>3, <1>4, <2>1, <2>2, LiesSame
<1>5. CASE InRing(g)
  <2>1. /\ h.last = At(h, 0) \/ h.last = At(h, CircLen)
        /\ InRing(h) /\ Ends(g) = Left(h) /\ Area(h.buf) = Ring /\ Area(g.buf) = Ring
    BY <1>5, JoinFits, HandleParts
  <2>2. /\ behind[Slot(g)] \in Nat /\ behind[Slot(g)] <= CircLen
        /\ behind[Slot(h)] \in Nat /\ Used(h) <= behind[Slot(h)]
        /\ g.memory <= CircLen /\ CircLen \in Nat
    BY <1>5, <2>1, RingBounds
  <2>3. Slot(r) = Slot(g) /\ InRing(r)
    BY <1>5 DEF Slot, InRing
  <2>4. behind[Slot(g)] - Used(g) = behind[Slot(h)] - h.offset
    BY <2>1 DEF Ends, Left
  <2>5. Ends(r) = Ends(h) /\ Left(r) = Left(g) /\ Used(r) <= behind[Slot(r)]
    BY <1>1, <2>2, <2>3, <2>4 DEF Ends, Left
  <2>6. RingLies(r) /\ Used(r) >= 1
    BY <1>1, <1>5, <2>3, <2>5 DEF Lies, RingLies
  <2>7. ASSUME NEW x \in 0 .. Used(r) - 1
        PROVE  Byte(<<Area(r.buf), r.memory + x>>) = at[r.buf] + x + 1
    <3>1. CASE x < Used(g)
      <4>1. x \in 0 .. Used(g) - 1
        BY <1>1, <3>1
      <4>2. QED
        BY <4>1 DEF Lies, Reads
    <3>2. CASE ~(x < Used(g))
      <4> DEFINE y == h.offset + (x - Used(g))
      <4>1. y \in 0 .. Used(h) - 1 /\ at[h.buf] + y + 1 = at[g.buf] + x + 1
        BY <1>1, <1>2, <3>2
      <4>2. Byte(<<Ring, h.memory + y>>) = at[g.buf] + x + 1
        BY <2>1, <4>1 DEF Lies, Reads
      <4>3. g.memory + Used(g) = h.memory + h.offset \/ g.memory + Used(g) = h.memory + h.offset + CircLen
        <5>1. h.last[2] = g.memory + g.offset + g.length
          BY DEF At
        <5>2. h.last[2] = h.memory + h.offset + 0 \/ h.last[2] = h.memory + h.offset + CircLen
          BY <2>1 DEF At
        <5>3. g.memory + g.offset + g.length = g.memory + Used(g) /\ h.memory + h.offset + 0 = h.memory + h.offset
          BY HandleParts DEF Used
        <5>4. QED
          BY <5>1, <5>2, <5>3
      <4>4. Cell(g.memory + x) = Cell(h.memory + y)
        <5>1. g.memory + x < 2 * CircLen
          <6>1. x < behind[Slot(g)]
            BY <1>1, <2>2, <2>3, <2>5
          <6>2. QED
            BY <1>1, <2>2, <6>1
        <5>2. g.memory + x = h.memory + y \/ g.memory + x = h.memory + y + CircLen
          BY <1>1, <2>2, <4>3
        <5>3. h.memory + y \in Nat
          BY <1>1, <4>1
        <5> HIDE DEF y
        <5>4. QED
          BY <1>1, <2>2, <5>1, <5>2, <5>3 DEF Cell
      <4>5. Byte(<<Ring, g.memory + x>>) = Byte(<<Ring, h.memory + y>>)
        <5> HIDE DEF y
        <5>1. QED
          BY <4>4 DEF Byte, Place
      <4>6. QED
        BY <2>1, <4>2, <4>5
    <3>3. QED
      BY <3>1, <3>2
  <2>8. Reads(r, at)
    BY <2>7 DEF Reads
  <2>9. ~InPool(r) /\ ~InUser(r)
    BY <2>3 DEF InRing, InPool, InUser
  <2>10. QED
    BY <1>1, <1>3, <2>3, <2>5, <2>6, <2>8, <2>9 DEF Lies
<1>6. QED
  BY <1>4, <1>5

\* the handle that gave them
LEMMA GivenLies ==
    ASSUME CircInv, NEW at \in Bases, NEW g \in Handles, NEW h \in Handles, NEW r \in Handles,
           Lies(g, at), Lies(h, at), Before(g, h, at), Follows(g, h, at),
           g.buf \notin Aux, h.last = At(g, g.length),
           r.buf = h.buf, r.memory = h.memory, r.offset = h.offset + h.length, r.length = 0,
           r.last = <<Area(g.buf), g.memory + Used(g) + h.length>>
    PROVE  Lies(r, at) /\ Linked(r) /\ Used(r) = Used(h) /\ To(r, at) = To(h, at)
           /\ From(r, at) = To(h, at)
<1>1. /\ Used(r) = Used(h) /\ h.memory \in Nat /\ h.offset \in Nat /\ h.length \in Nat
      /\ Used(g) \in Nat /\ g.memory \in Nat /\ at[h.buf] \in Nat
  BY HandleParts DEF Used
<1>2. Lies(r, at)
  BY <1>1, LiesSame
<1>3. To(r, at) = To(h, at) /\ From(r, at) = To(h, at)
  BY <1>1 DEF To, From, Used
<1>4. Linked(r)
  <2>1. h.last = At(h, 0) \/ (InRing(h) /\ h.last = At(h, CircLen))
    BY JoinFits
  <2>2. h.last = <<Area(g.buf), g.memory + Used(g)>>
    <3>1. g.memory + g.offset + g.length = g.memory + Used(g)
      BY HandleParts DEF Used
    <3>2. QED
      BY <3>1 DEF At
  <2>3. Area(r.buf) = Area(h.buf) /\ (InRing(r) <=> InRing(h))
    BY DEF InRing
  <2>4. ASSUME NEW d \in Int, h.last = At(h, d) PROVE r.last = At(r, d)
    <3>1. g.memory + Used(g) = h.memory + h.offset + d /\ Area(g.buf) = Area(h.buf)
      BY <2>2, <2>4 DEF At
    <3>2. g.memory + Used(g) + h.length = r.memory + r.offset + d
      BY <1>1, <2>4, <3>1
    <3>3. QED
      BY <2>3, <3>1, <3>2 DEF At
  <2>5. 0 \in Int /\ CircLen \in Int
    BY CircAssumption
  <2>6. QED
    BY <2>1, <2>3, <2>4, <2>5 DEF Linked
<1>5. QED
  BY <1>1, <1>2, <1>3, <1>4

\* pairs of handles, when one is replaced by another in the same buffer
LEMMA BeforeMoves ==
    ASSUME NEW at \in Bases, NEW g \in Handles, NEW h \in Handles, Before(g, h, at),
           NEW r \in Handles, NEW s \in Handles, r.buf = g.buf, s.buf = h.buf,
           InRing(g) => Ends(r) >= Ends(g), InRing(h) => Left(s) <= Left(h),
           InPool(g) => To(r, at) <= To(g, at),
           behind \in [Slots -> Nat]
    PROVE  Before(r, s, at)
<1>1. /\ (InRing(r) <=> InRing(g)) /\ (InRing(s) <=> InRing(h)) /\ Slot(r) = Slot(g)
      /\ Slot(s) = Slot(h) /\ (InPool(r) <=> InPool(g)) /\ (InPool(s) <=> InPool(h))
  BY DEF InRing, InPool, Slot
<1>2. /\ To(r, at) \in Nat /\ To(g, at) \in Nat /\ at[h.buf] \in Nat /\ at[g.buf] \in Nat
  BY HandleParts
<1>3. CASE InRing(r) /\ InRing(s)
  <2>1. /\ Ends(r) \in Int /\ Ends(g) \in Int /\ Left(s) \in Int /\ Left(h) \in Int
    <3>1. /\ Used(r) \in Nat /\ Used(g) \in Nat /\ s.offset \in Nat /\ h.offset \in Nat
          /\ Slot(g) \in Slots /\ Slot(h) \in Slots
      BY <1>1, <1>3, HandleParts
    <3>2. QED
      BY <1>1, <3>1 DEF Ends, Left
  <2>2. ~InPool(r)
    BY <1>3 DEF InRing, InPool
  <2>3. Ends(g) >= Left(h) /\ Dist(Slot(g)) < Dist(Slot(h))
    BY <1>1, <1>3 DEF Before
  <2>4. Ends(r) >= Ends(g) /\ Left(s) <= Left(h)
    BY <1>1, <1>3
  <2>5. Ends(r) >= Left(s)
    BY <2>1, <2>3, <2>4
  <2>6. QED
    BY <1>1, <2>2, <2>3, <2>5 DEF Before
<1>4. CASE InPool(r) /\ InPool(s) /\ r.buf # s.buf
  <2>1. ~InRing(r)
    BY <1>4 DEF InRing, InPool
  <2>2. QED
    BY <1>1, <1>2, <1>4, <2>1 DEF Before
<1>5. QED
  BY <1>3, <1>4 DEF Before

\* A join moves the place where a handle ends and the next begins.
LEMMA LineJoins ==
    ASSUME CircInv, OfItems(produced), NEW at \in Bases, NEW w \in Queues, Line(w, at),
           NEW j \in 1 .. Len(w) - 1
    PROVE  Line(StitchAt(w, j), at)
<1> DEFINE r == StitchAt(w, j)
           g == w[j]
           h == w[j + 1]
           n == Len(w)
<1>1. CASE ~(h.last = At(g, g.length) /\ g.last # Null)
  BY <1>1 DEF StitchAt
<1>2. CASE h.last = At(g, g.length) /\ g.last # Null
  <2>1. /\ r \in Queues /\ r \in Seq(Handles) /\ Len(r) = n
        /\ g.buf \notin Aux /\ h.buf \notin Aux
        /\ r[j].buf = g.buf /\ r[j].memory = g.memory /\ r[j].offset = g.offset
        /\ r[j].length = g.length + h.length /\ r[j].last = g.last
        /\ r[j + 1].buf = h.buf /\ r[j + 1].memory = h.memory
        /\ r[j + 1].offset = h.offset + h.length /\ r[j + 1].length = 0
        /\ r[j + 1].last = <<Area(g.buf), g.memory + Used(g) + h.length>>
        /\ \A k \in 1 .. n : k # j /\ k # j + 1 => r[k] = w[k]
    BY <1>2, StitchIs
  <2>2. w \in Seq(Handles) /\ n \in Nat /\ j \in 1 .. n /\ j + 1 \in 1 .. n /\ j \in 1 .. n - 1
        /\ \A k \in 1 .. n : w[k] \in Handles /\ r[k] \in Handles
    BY <2>1, HandlesAreQueue DEF Queues
  <2> HIDE DEF r, n
  <2> DEFINE a == r[j]
             b == r[j + 1]
  <2>3. g \in Handles /\ h \in Handles /\ a \in Handles /\ b \in Handles
    BY <2>2
  <2>4. Lies(g, at) /\ Lies(h, at) /\ Before(g, h, at) /\ Follows(g, h, at)
    BY <2>2 DEF Line, n
  <2>5. /\ Lies(a, at) /\ Used(a) = Used(g) + h.length /\ To(a, at) = To(h, at)
        /\ From(a, at) = From(g, at) /\ (InRing(g) => Ends(a) = Ends(h) /\ Left(a) = Left(g))
    BY <1>2, <2>1, <2>3, <2>4, JoinedLies
  <2>6. Lies(b, at) /\ Linked(b) /\ Used(b) = Used(h) /\ To(b, at) = To(h, at)
        /\ From(b, at) = To(h, at)
    BY <1>2, <2>1, <2>3, <2>4, GivenLies
  <2>7. /\ InRing(g) => InRing(h) /\ Ends(g) = Left(h)
        /\ ~InRing(g) => g.buf = h.buf /\ ~InRing(h)
    BY <1>2, <2>1, <2>3, <2>4, JoinFits DEF InRing
  <2>8. behind \in [Slots -> Nat]
    BY DEF CircInv, CircTypeOK
  <2>9. To(h, at) = produced \/ (j + 2 \in 1 .. n /\ To(h, at) = From(w[j + 2], at))
    <3>1. CASE j + 1 = n
      BY <2>2, <3>1 DEF Line, n
    <3>2. CASE j + 1 # n
      <4>1. j + 1 \in 1 .. n - 1 /\ j + 2 \in 1 .. n /\ (j + 1) + 1 = j + 2
        BY <2>2, <3>2
      <4>2. Follows(h, w[j + 2], at)
        BY <4>1 DEF Line, n
      <4>3. QED
        BY <4>1, <4>2 DEF Follows
    <3>3. QED
      BY <3>1, <3>2
  <2>10. ASSUME NEW k \in 1 .. n PROVE Lies(r[k], at) /\ OfItems(From(r[k], at))
    <3>1. CASE k = j
      BY <2>2, <2>5, <3>1 DEF Line, n
    <3>2. CASE k = j + 1
      BY <2>6, <2>9, <3>2 DEF Line, n
    <3>3. CASE k # j /\ k # j + 1
      BY <2>1, <3>3 DEF Line, n
    <3>4. QED
      BY <3>1, <3>2, <3>3
  <2>11. ASSUME NEW k \in 1 .. n - 1 PROVE Follows(r[k], r[k + 1], at)
    <3>1. CASE k = j
      BY <2>5, <2>6, <3>1 DEF Follows
    <3>2. CASE k = j + 1
      <4>1. j + 2 \in 1 .. n /\ k + 1 = j + 2 /\ j + 2 # j /\ j + 2 # j + 1 /\ (j + 1) + 1 = j + 2
        BY <2>2, <3>2
      <4>2. Follows(h, w[j + 2], at) /\ r[j + 2] = w[j + 2]
        BY <2>1, <3>2, <4>1 DEF Line, n
      <4>3. QED
        BY <2>6, <3>2, <4>1, <4>2 DEF Follows
    <3>3. CASE k + 1 = j
      <4>1. k \in 1 .. n /\ k # j /\ k # j + 1
        BY <2>2, <3>3
      <4>2. Follows(w[k], g, at) /\ r[k] = w[k]
        BY <2>1, <3>3, <4>1 DEF Line, n
      <4>3. Linked(a)
        <5>1. At(a, 0) = At(g, 0) /\ At(a, CircLen) = At(g, CircLen) /\ (InRing(a) <=> InRing(g))
          BY <2>1 DEF At, InRing
        <5>2. Linked(g)
          BY <4>2 DEF Follows
        <5>3. QED
          BY <2>1, <5>1, <5>2 DEF Linked
      <4>4. QED
        BY <2>5, <3>3, <4>2, <4>3 DEF Follows
    <3>4. CASE k # j /\ k # j + 1 /\ k + 1 # j
      <4>1. k \in 1 .. n /\ k + 1 \in 1 .. n /\ k + 1 # j + 1
        BY <2>2, <3>4
      <4>2. QED
        BY <2>1, <3>4, <4>1 DEF Line, n
    <3>5. QED
      BY <3>1, <3>2, <3>3, <3>4
  <2>12. ASSUME NEW i \in 1 .. n, NEW k \in 1 .. n, i < k PROVE Before(r[i], r[k], at)
    <3>0. /\ w[i] \in Handles /\ w[k] \in Handles /\ r[i] \in Handles /\ r[k] \in Handles
          /\ Before(w[i], w[k], at)
      BY <2>2, <2>12 DEF Line, n
    <3>1. InRing(h) => Left(b) <= Left(h)
      <4>1. ASSUME InRing(h) PROVE Left(b) <= Left(h)
        <5>1. Slot(b) = Slot(h) /\ Slot(h) \in Slots /\ h.offset \in Nat /\ h.length \in Nat
          BY <2>1, <2>3, <4>1, HandleParts DEF Slot
        <5>2. QED
          BY <2>1, <2>8, <5>1 DEF Left
      <4>2. QED
        BY <4>1
    <3>2. CASE i = j
      <4>1. CASE k = j + 1
        <5>1. CASE InRing(g)
          <6>1. InRing(h) /\ Slot(a) = Slot(g) /\ Slot(b) = Slot(h) /\ ~InPool(a)
            BY <2>1, <2>7, <5>1 DEF Slot, InRing, InPool
          <6>2. Dist(Slot(g)) < Dist(Slot(h))
            BY <2>4, <5>1, <6>1 DEF Before
          <6>3. Ends(a) = Left(b) /\ Ends(a) \in Int
            <7>1. /\ Used(h) = b.offset /\ Used(h) \in Nat /\ Slot(h) \in Slots
                  /\ behind[Slot(h)] \in Nat
              BY <2>1, <2>3, <2>8, <6>1, HandleParts DEF Used
            <7>2. QED
              BY <2>5, <5>1, <6>1, <7>1 DEF Ends, Left
          <6>4. QED
            BY <3>2, <4>1, <6>1, <6>2, <6>3 DEF Before
        <5>2. CASE ~InRing(g)
          BY <2>1, <2>7, <3>2, <4>1, <5>2 DEF Before, InRing
        <5>3. QED
          BY <5>1, <5>2
      <4>2. CASE k # j + 1
        <5>1. k > j + 1 /\ r[k] = w[k] /\ Before(h, w[k], at)
          BY <2>1, <2>2, <2>12, <3>2, <4>2 DEF Line, n
        <5>2. CASE InRing(g)
          <6>1. InRing(h) /\ Slot(a) = Slot(g) /\ ~InPool(a) /\ Ends(a) = Ends(h)
            BY <2>1, <2>5, <2>7, <5>2 DEF Slot, InRing, InPool
          <6>2. Before(g, w[k], at)
            BY <3>0, <3>2
          <6>3. QED
            BY <3>2, <5>1, <5>2, <6>1, <6>2 DEF Before
        <5>3. CASE ~InRing(g)
          <6>1. g.buf = h.buf /\ ~InRing(a) /\ (InPool(a) <=> InPool(h))
            BY <2>1, <2>7, <5>3 DEF InRing, InPool
          <6>2. QED
            BY <2>1, <2>5, <3>2, <5>1, <6>1 DEF Before
        <5>4. QED
          BY <5>2, <5>3
      <4>3. QED
        BY <4>1, <4>2
    <3>3. CASE i = j + 1
      <4>1. k # j /\ k # j + 1 /\ r[k] = w[k]
        BY <2>1, <2>2, <2>12, <3>3
      <4>2. InRing(h) => Ends(b) >= Ends(h)
        <5>1. ASSUME InRing(h) PROVE Ends(b) >= Ends(h)
          <6>1. Slot(b) = Slot(h) /\ Slot(h) \in Slots /\ Used(h) \in Nat
            BY <2>1, <2>3, <5>1, HandleParts DEF Slot
          <6>2. QED
            BY <2>6, <2>8, <6>1 DEF Ends
        <5>2. QED
          BY <5>1
      <4>3. To(b, at) <= To(h, at) /\ (InRing(w[k]) => Left(r[k]) <= Left(w[k]))
        <5>1. To(h, at) \in Nat
          BY <2>3, HandleParts
        <5>2. ASSUME InRing(w[k]) PROVE Left(w[k]) \in Int
          <6>1. Slot(w[k]) \in Slots /\ w[k].offset \in Nat
            BY <3>0, <5>2, HandleParts
          <6>2. QED
            BY <2>8, <6>1 DEF Left
        <5>3. QED
          BY <2>6, <4>1, <5>1, <5>2
      <4>4. QED
        BY <2>1, <2>8, <3>0, <3>3, <4>1, <4>2, <4>3, BeforeMoves
    <3>4. CASE i # j /\ i # j + 1
      <4>1. r[i] = w[i]
        BY <2>1, <3>4
      <4>2. /\ InRing(w[i]) => Ends(w[i]) >= Ends(w[i])
            /\ To(w[i], at) <= To(w[i], at)
        <5>1. To(w[i], at) \in Nat
          BY <3>0, HandleParts
        <5>2. ASSUME InRing(w[i]) PROVE Ends(w[i]) \in Int
          <6>1. Slot(w[i]) \in Slots /\ Used(w[i]) \in Nat
            BY <3>0, <5>2, HandleParts
          <6>2. QED
            BY <2>8, <6>1 DEF Ends
        <5>3. QED
          BY <5>1, <5>2
      <4>3. r[k].buf = w[k].buf /\ (InRing(w[k]) => Left(r[k]) <= Left(w[k]))
        <5>1. InRing(w[k]) => Left(w[k]) \in Int
          <6>1. ASSUME InRing(w[k]) PROVE Left(w[k]) \in Int
            <7>1. Slot(w[k]) \in Slots /\ w[k].offset \in Nat
              BY <3>0, <6>1, HandleParts
            <7>2. QED
              BY <2>8, <7>1 DEF Left
          <6>2. QED
            BY <6>1
        <5>2. CASE k = j
          BY <2>1, <2>5, <5>1, <5>2
        <5>3. CASE k = j + 1
          BY <2>1, <3>1, <5>3
        <5>4. CASE k # j /\ k # j + 1
          BY <2>1, <5>1, <5>4
        <5>5. QED
          BY <5>2, <5>3, <5>4
      <4>4. QED
        BY <2>8, <3>0, <4>1, <4>2, <4>3, BeforeMoves
    <3>5. QED
      BY <3>2, <3>3, <3>4
  <2>13. To(r[n], at) = produced
    <3>1. To(w[n], at) = produced
      BY <2>2 DEF Line, n
    <3>2. CASE n = j + 1
      BY <2>6, <3>1, <3>2
    <3>3. CASE n # j + 1
      <4>1. n \in 1 .. n /\ n # j
        BY <2>2, <3>3
      <4>2. QED
        BY <2>1, <3>1, <3>3, <4>1
    <3>4. QED
      BY <3>2, <3>3
  <2>14. Len(r) = n
    BY <2>1
  <2>15. Line(r, at)
    BY <2>10, <2>11, <2>12, <2>13, <2>14 DEF Line
  <2>16. QED
    BY <2>15 DEF r
<1>3. QED
  BY <1>1, <1>2

-----------------------------------------------------------------------------
(* Handles leave the line, and its front moves.                            *)

\* A handle without bytes may leave from behind another.
LEMMA LineDrops ==
    ASSUME NEW at \in Bases, NEW w \in Seq(Handles), Line(w, at),
           NEW i \in 2 .. Len(w), w[i].length = 0,
           NEW v \in Seq(Handles), Len(v) = Len(w) - 1,
           \A k \in 1 .. Len(v) : v[k] = IF k < i THEN w[k] ELSE w[k + 1]
    PROVE  Line(v, at)
<1> DEFINE n == Len(w)
<1>1. n \in Nat /\ i \in Nat /\ i >= 2 /\ i <= n /\ Len(v) = n - 1
  OBVIOUS
<1>2. \A k \in 1 .. n : w[k] \in Handles
  OBVIOUS
<1>3. From(w[i], at) = To(w[i - 1], at) /\ To(w[i], at) = From(w[i], at)
  <2>1. i - 1 \in 1 .. n - 1 /\ (i - 1) + 1 = i
    BY <1>1
  <2>2. Follows(w[i - 1], w[i], at)
    BY <2>1 DEF Line, n
  <2>3. To(w[i], at) = From(w[i], at) + w[i].length /\ From(w[i], at) \in Nat
    <3>1. w[i] \in Handles
      BY <1>1, <1>2
    <3>2. QED
      BY <3>1, HandleParts
  <2>4. QED
    BY <1>1, <2>2, <2>3 DEF Follows
<1> HIDE DEF n
<1>4. ASSUME NEW k \in 1 .. Len(v)
      PROVE  \E x \in 1 .. n : v[k] = w[x] /\ x = IF k < i THEN k ELSE k + 1
  BY <1>1
<1>5. ASSUME NEW k \in 1 .. Len(v) PROVE Lies(v[k], at) /\ OfItems(From(v[k], at))
  BY <1>4 DEF Line, n
<1>6. ASSUME NEW j \in 1 .. Len(v), NEW k \in 1 .. Len(v), j < k PROVE Before(v[j], v[k], at)
  <2>1. PICK x \in 1 .. n : v[j] = w[x] /\ x = IF j < i THEN j ELSE j + 1
    BY <1>4
  <2>2. PICK y \in 1 .. n : v[k] = w[y] /\ y = IF k < i THEN k ELSE k + 1
    BY <1>4
  <2>3. x < y
    BY <1>1, <1>6, <2>1, <2>2
  <2>4. QED
    BY <2>1, <2>2, <2>3 DEF Line, n
<1>7. ASSUME NEW k \in 1 .. Len(v) - 1 PROVE Follows(v[k], v[k + 1], at)
  <2>1. k \in 1 .. n - 1 /\ k + 1 \in 1 .. n - 1 /\ k \in 1 .. Len(v) /\ k + 1 \in 1 .. Len(v)
    BY <1>1
  <2>2. CASE k + 1 < i
    <3>1. v[k] = w[k] /\ v[k + 1] = w[k + 1]
      BY <1>1, <2>1, <2>2
    <3>2. QED
      BY <2>1, <3>1 DEF Line, n
  <2>3. CASE k + 1 = i
    <3>1. v[k] = w[i - 1] /\ v[k + 1] = w[i + 1] /\ i \in 1 .. n - 1
      BY <1>1, <2>1, <2>3
    <3>2. Follows(w[i], w[i + 1], at)
      BY <3>1 DEF Line, n
    <3>3. QED
      BY <1>3, <3>1, <3>2 DEF Follows
  <2>4. CASE k + 1 > i
    <3>1. v[k] = w[k + 1] /\ v[k + 1] = w[(k + 1) + 1] /\ k + 1 \in 1 .. n - 1
      BY <1>1, <2>1, <2>4
    <3>2. QED
      BY <3>1 DEF Line, n
  <2>5. QED
    BY <1>1, <2>2, <2>3, <2>4
<1>8. To(v[Len(v)], at) = produced
  <2>1. To(w[n], at) = produced
    BY <1>1 DEF Line, n
  <2>2. CASE i = n
    BY <1>1, <1>3, <2>1, <2>2
  <2>3. CASE i # n
    <3>1. v[n - 1] = w[(n - 1) + 1] /\ (n - 1) + 1 = n
      BY <1>1, <2>3
    <3>2. QED
      BY <1>1, <2>1, <3>1
  <2>4. QED
    BY <2>2, <2>3
<1>9. QED
  BY <1>5, <1>6, <1>7, <1>8 DEF Line

\* The front may give bytes away, or take back what its buffer held before.
LEMMA LineFront ==
    ASSUME NEW at \in Bases, behind \in [Slots -> Nat],
           NEW w \in Seq(Handles), Line(w, at),
           NEW v \in Seq(Handles), NEW m \in Nat, Len(v) > 0, Len(v) + m = Len(w),
           \A k \in 2 .. Len(v) : v[k] = w[m + k],
           v[1].buf = w[m + 1].buf, v[1].memory = w[m + 1].memory,
           Used(v[1]) = Used(w[m + 1]), OfItems(From(v[1], at))
    PROVE  Line(v, at)
<1> DEFINE n == Len(v)
<1>1. n \in Nat \ {0} /\ Len(w) = n + m
  OBVIOUS
<1>2. \A k \in 1 .. n : m + k \in 1 .. Len(w) /\ w[m + k] \in Handles /\ v[k] \in Handles
  BY <1>1
<1> HIDE DEF n
<1>3. 1 \in 1 .. n /\ w[m + 1] \in Handles /\ v[1] \in Handles
  BY <1>1, <1>2
<1>4. To(v[1], at) = To(w[m + 1], at) /\ Ends(v[1]) = Ends(w[m + 1])
  BY DEF To, Ends, Slot
<1>5. ASSUME NEW k \in 1 .. n PROVE Lies(v[k], at) /\ OfItems(From(v[k], at))
  <2>1. Lies(w[m + k], at) /\ OfItems(From(w[m + k], at))
    BY <1>2 DEF Line
  <2>2. CASE k = 1
    BY <1>3, <2>1, <2>2, LiesSame
  <2>3. CASE k # 1
    BY <1>1, <2>1, <2>3 DEF n
  <2>4. QED
    BY <2>2, <2>3
<1>6. ASSUME NEW j \in 1 .. n, NEW k \in 1 .. n, j < k PROVE Before(v[j], v[k], at)
  <2>1. Before(w[m + j], w[m + k], at) /\ v[k] = w[m + k]
    BY <1>1, <1>2, <1>6 DEF Line, n
  <2>2. CASE j = 1
    <3>1. InRing(w[m + 1]) => Ends(v[1]) >= Ends(w[m + 1])
      <4>1. ASSUME InRing(w[m + 1]) PROVE Ends(w[m + 1]) \in Int
        <5>1. Slot(w[m + 1]) \in Slots /\ Used(w[m + 1]) \in Nat
          BY <1>3, <4>1, HandleParts
        <5>2. QED
          BY <5>1 DEF Ends
      <4>2. QED
        BY <1>4, <4>1
    <3>2. InRing(w[m + k]) => Left(v[k]) <= Left(w[m + k])
      <4>1. ASSUME InRing(w[m + k]) PROVE Left(w[m + k]) \in Int
        <5>1. Slot(w[m + k]) \in Slots /\ w[m + k].offset \in Nat
          BY <1>2, <4>1, HandleParts
        <5>2. QED
          BY <5>1 DEF Left
      <4>2. QED
        BY <2>1, <4>1
    <3>3. To(v[1], at) <= To(w[m + 1], at)
      BY <1>3, <1>4, HandleParts
    <3>4. QED
      BY <1>2, <1>3, <2>1, <2>2, <3>1, <3>2, <3>3, BeforeMoves
  <2>3. CASE j # 1
    BY <1>1, <2>1, <2>3 DEF n
  <2>4. QED
    BY <2>2, <2>3
<1>7. ASSUME NEW k \in 1 .. n - 1 PROVE Follows(v[k], v[k + 1], at)
  <2>1. m + k \in 1 .. Len(w) - 1 /\ (m + k) + 1 = m + (k + 1) /\ k + 1 \in 2 .. n
    BY <1>1
  <2>2. Follows(w[m + k], w[m + (k + 1)], at) /\ v[k + 1] = w[m + (k + 1)]
    BY <2>1 DEF Line, n
  <2>3. To(v[k], at) = To(w[m + k], at)
    BY <1>1, <1>4 DEF n
  <2>4. QED
    BY <2>2, <2>3 DEF Follows
<1>8. To(v[n], at) = produced
  <2>1. To(w[m + n], at) = produced
    BY <1>1 DEF Line
  <2>2. QED
    BY <1>1, <1>4, <2>1 DEF n
<1>9. QED
  BY <1>5, <1>6, <1>7, <1>8 DEF Line, n

\* Nothing but the memory of other buffers changed.
LEMMA LineStays ==
    ASSUME NEW at \in Bases, NEW at2 \in Bases, NEW w \in Seq(Handles), Line(w, at),
           UNCHANGED <<kind, circ, pool, posted, produced>>,
           \A k \in 1 .. Len(w) : at2[w[k].buf] = at[w[k].buf]
                                  /\ cells'[Area(w[k].buf)] = cells[Area(w[k].buf)],
           \A k \in 1 .. Len(pool) : at2[pool[k].buf] = at[pool[k].buf]
    PROVE  Line(w, at2)'
<1> DEFINE n == Len(w)
<1>1. /\ kind' = kind /\ pool' = pool /\ posted' = posted /\ produced' = produced
      /\ memory' = memory /\ behind' = behind /\ ack_index' = ack_index
      /\ available' = available /\ returned' = returned
  BY DEF circ
<1>2. Away' = Away /\ \A i : Dist(i)' = Dist(i)
  BY <1>1 DEF Away, Queued, Dist
<1>3. ASSUME NEW h \in Handles, at2[h.buf] = at[h.buf],
             cells'[Area(h.buf)] = cells[Area(h.buf)], Lies(h, at)
      PROVE  Lies(h, at2)' /\ From(h, at2)' = From(h, at) /\ To(h, at2)' = To(h, at)
  <2>1. From(h, at2)' = From(h, at) /\ To(h, at2)' = To(h, at)
    BY <1>3 DEF From, To, Used
  <2>2. Reads(h, at2)'
    <3>1. SUFFICES ASSUME NEW x \in 0 .. Used(h) - 1
                   PROVE  Byte(<<Area(h.buf), h.memory + x>>)' = at2[h.buf] + x + 1
      BY DEF Reads, Used
    <3>2. Byte(<<Area(h.buf), h.memory + x>>)' = Byte(<<Area(h.buf), h.memory + x>>)
      BY <1>3 DEF Byte, Place
    <3>3. QED
      BY <1>3, <3>1, <3>2 DEF Lies, Reads
  <2>3. RingLies(h) => RingLies(h)'
    BY <1>1, <1>2 DEF RingLies, Slot, Used
  <2>4. InPool(h) => PoolLies(h, at2)'
    <3>1. ASSUME InPool(h) PROVE PoolLies(h, at2)'
      <4>1. PoolLies(h, at)
        BY <1>3, <3>1 DEF Lies
      <4>2. \A k \in 1 .. Len(pool) : at2[pool[k].buf] = at[pool[k].buf]
        OBVIOUS
      <4>3. Pooled(h.buf)' <=> Pooled(h.buf)
        BY <1>1 DEF Pooled
      <4>4. QED
        BY <1>1, <1>3, <4>1, <4>2, <4>3 DEF PoolLies, To, Used
    <3>2. QED
      BY <3>1
  <2>5. QED
    BY <1>1, <1>3, <2>1, <2>2, <2>3, <2>4 DEF Lies, InRing, InPool, InUser, Used
<1>4. ASSUME NEW g \in Handles, NEW h \in Handles, at2[g.buf] = at[g.buf], at2[h.buf] = at[h.buf]
      PROVE  /\ Before(g, h, at) => Before(g, h, at2)'
             /\ Follows(g, h, at) => Follows(g, h, at2)'
  <2>1. Ends(g)' = Ends(g) /\ Left(h)' = Left(h)
    BY <1>1 DEF Ends, Left, Used, Slot
  <2>2. From(h, at2)' = From(h, at) /\ To(g, at2)' = To(g, at)
    BY <1>4 DEF From, To, Used
  <2>3. Linked(h) => Linked(h)'
    BY DEF Linked, At, InRing
  <2>4. Dist(Slot(g))' = Dist(Slot(g)) /\ Dist(Slot(h))' = Dist(Slot(h))
    BY <1>2 DEF Slot
  <2>5. Before(g, h, at) => Before(g, h, at2)'
    BY <1>4, <2>1, <2>2, <2>4 DEF Before, InRing, InPool
  <2>6. QED
    BY <2>2, <2>3, <2>5 DEF Follows
<1>5. \A k \in 1 .. n : w[k] \in Handles
  OBVIOUS
<1>6. ASSUME NEW k \in 1 .. n
      PROVE  Lies(w[k], at2)' /\ OfItems(From(w[k], at2))' /\ To(w[k], at2)' = To(w[k], at)
  BY <1>3, <1>5 DEF Line, OfItems
<1>7. \A i, k \in 1 .. n : i < k => Before(w[i], w[k], at2)'
  BY <1>4, <1>5 DEF Line
<1>8. ASSUME NEW k \in 1 .. n - 1 PROVE Follows(w[k], w[k + 1], at2)'
  <2>1. k \in 1 .. n /\ k + 1 \in 1 .. n
    OBVIOUS
  <2>2. QED
    BY <1>4, <1>5, <2>1 DEF Line
<1>9. n > 0 => To(w[n], at2)' = produced'
  <2>1. n > 0 => n \in 1 .. n
    OBVIOUS
  <2>2. QED
    BY <1>1, <1>6, <2>1 DEF Line
<1> HIDE DEF n
<1>10. QED
  BY <1>6, <1>7, <1>8, <1>9 DEF Line, n

\* An accumulation is put at the front.
LEMMA LineFronted ==
    ASSUME NEW at \in Bases, NEW u \in Seq(Handles), Line(u, at)', NEW a \in Handles,
           a.buf \in Aux, a.memory = 0, Reads(a, at)', OfItems(From(a, at)),
           Len(u) > 0 => Linked(u[1]) /\ From(u[1], at) = To(a, at),
           Len(u) = 0 => To(a, at) = produced',
           NEW v \in Seq(Handles), Len(v) = Len(u) + 1, v[1] = a,
           \A k \in 1 .. Len(u) : v[k + 1] = u[k]
    PROVE  Line(v, at)'
<1> DEFINE n == Len(u)
<1>1. n \in Nat /\ Len(v) = n + 1 /\ v[1] = a
  OBVIOUS
<1> HIDE DEF n
<1>2. ASSUME NEW k \in 2 .. n + 1 PROVE k - 1 \in 1 .. n /\ v[k] = u[k - 1] /\ (k - 1) + 1 = k
  BY <1>1 DEF n
<1>3. ~InRing(a) /\ ~InPool(a) /\ ~InUser(a)
  BY DEF InRing, InPool, InUser, Aux
<1>4. Lies(a, at)'
  BY <1>3 DEF Lies, InRing, InPool, InUser
<1>5. ASSUME NEW k \in 1 .. n + 1 PROVE Lies(v[k], at)' /\ OfItems(From(v[k], at))'
  <2>1. CASE k = 1
    BY <1>1, <1>4, <2>1 DEF OfItems, From
  <2>2. CASE k # 1
    <3>1. k \in 2 .. n + 1
      BY <1>1, <2>2
    <3>2. QED
      BY <1>2, <3>1 DEF Line, n
  <2>3. QED
    BY <2>1, <2>2
<1>6. ASSUME NEW i \in 1 .. n + 1, NEW k \in 1 .. n + 1, i < k PROVE Before(v[i], v[k], at)'
  <2>1. CASE i = 1
    BY <1>1, <1>3, <2>1 DEF Before, InRing, InPool
  <2>2. CASE i # 1
    <3>1. i \in 2 .. n + 1 /\ k \in 2 .. n + 1 /\ i - 1 < k - 1
      BY <1>1, <1>6, <2>2
    <3>2. QED
      BY <1>2, <3>1 DEF Line, n
  <2>3. QED
    BY <2>1, <2>2
<1>7. ASSUME NEW k \in 1 .. n PROVE Follows(v[k], v[k + 1], at)'
  <2>1. CASE k = 1
    <3>1. v[k] = a /\ v[k + 1] = u[1] /\ Len(u) > 0
      BY <1>1, <2>1 DEF n
    <3>2. QED
      BY <3>1 DEF Follows, Linked, From, To, Used, InRing, At
  <2>2. CASE k # 1
    <3>1. k \in 2 .. n + 1 /\ k + 1 \in 2 .. n + 1 /\ k - 1 \in 1 .. n - 1 /\ (k + 1) - 1 = (k - 1) + 1
      BY <1>1, <2>2
    <3>2. v[k] = u[k - 1] /\ v[k + 1] = u[(k - 1) + 1]
      BY <1>2, <3>1
    <3>3. QED
      BY <3>1, <3>2 DEF Line, n
  <2>3. QED
    BY <2>1, <2>2
<1>8. To(v[n + 1], at)' = produced'
  <2>1. CASE n = 0
    BY <1>1, <2>1 DEF To, Used, n
  <2>2. CASE n # 0
    <3>1. n + 1 \in 2 .. n + 1 /\ (n + 1) - 1 = n /\ n > 0
      BY <1>1, <2>2
    <3>2. QED
      BY <1>2, <3>1 DEF Line, n
  <2>3. QED
    BY <2>1, <2>2
<1>9. Len(v) = n + 1 /\ (n + 1) - 1 = n
  BY <1>1
<1>10. QED
  BY <1>5, <1>6, <1>7, <1>8, <1>9 DEF Line

-----------------------------------------------------------------------------
(* Two queues end to end.                                                  *)

\* The handles of the first queue, then those of the second.
LEMMA ConcatIs ==
    ASSUME NEW a \in Seq(Handles), NEW b \in Seq(Handles)
    PROVE  /\ a \o b \in Seq(Handles) /\ Len(a \o b) = Len(a) + Len(b)
           /\ Len(a) \in Nat /\ Len(b) \in Nat
           /\ \A k \in 1 .. Len(a) : (a \o b)[k] = a[k]
           /\ \A k \in 1 .. Len(b) : (a \o b)[Len(a) + k] = b[k]
  OBVIOUS

\* The same, with a name for the result.
LEMMA Concat ==
    ASSUME NEW a \in Seq(Handles), NEW b \in Seq(Handles)
    PROVE  \E p \in Seq(Handles) :
              /\ p = a \o b /\ Len(p) = Len(a) + Len(b)
              /\ Len(a) \in Nat /\ Len(b) \in Nat /\ Len(p) \in Nat
              /\ \A k \in 1 .. Len(a) : p[k] = a[k]
              /\ \A k \in 1 .. Len(b) : p[Len(a) + k] = b[k]
<1>1. PICK p : p = a \o b
  OBVIOUS
<1>2. /\ p \in Seq(Handles) /\ Len(p) = Len(a) + Len(b)
      /\ Len(a) \in Nat /\ Len(b) \in Nat /\ Len(p) \in Nat
      /\ \A k \in 1 .. Len(a) : p[k] = a[k]
      /\ \A k \in 1 .. Len(b) : p[Len(a) + k] = b[k]
  BY <1>1, ConcatIs
<1>3. QED
  BY <1>1, <1>2

\* Queues of the same handles are the same.
LEMMA SameSeq ==
    ASSUME NEW a \in Seq(Handles), NEW b \in Seq(Handles), Len(a) = Len(b),
           \A k \in 1 .. Len(a) : a[k] = b[k]
    PROVE  a = b
  OBVIOUS

\* The end of a queue.
LEMMA SuffixIs ==
    ASSUME NEW q \in Seq(Handles), NEW m \in Nat \ {0}, m <= Len(q) + 1
    PROVE  \E r \in Seq(Handles) :
              /\ r = SubSeq(q, m, Len(q)) /\ Len(r) = Len(q) - m + 1 /\ Len(r) \in Nat
              /\ \A k \in 1 .. Len(r) : r[k] = q[m + k - 1]
<1>1. ASSUME NEW H, NEW x \in Seq(H), NEW l \in Nat \ {0}, l <= Len(x) + 1
      PROVE  /\ SubSeq(x, l, Len(x)) \in Seq(H)
             /\ Len(SubSeq(x, l, Len(x))) = Len(x) - l + 1
             /\ \A k \in 1 .. Len(x) - l + 1 : SubSeq(x, l, Len(x))[k] = x[l + k - 1]
  BY ONLY <1>1
<1>2. PICK r : r = SubSeq(q, m, Len(q))
  OBVIOUS
<1>3. /\ r \in Seq(Handles) /\ Len(r) = Len(q) - m + 1
      /\ \A k \in 1 .. Len(q) - m + 1 : r[k] = q[m + k - 1]
  BY <1>1, <1>2
<1>4. Len(r) \in Nat
  BY <1>3
<1>5. QED
  BY <1>2, <1>3, <1>4

\* in a queue that goes on, a join is the same
LEMMA StitchTail ==
    ASSUME NEW r \in Queues, NEW t \in Seq(Handles), NEW j \in 1 .. Len(r) - 1
    PROVE  StitchAt(r, j) \o t = StitchAt(r \o t, j)
<1> DEFINE p == r \o t
<1>1. /\ r \in Seq(Handles) /\ Len(r) \in Nat /\ p \in Seq(Handles)
      /\ Len(p) = Len(r) + Len(t) /\ Len(t) \in Nat
      /\ \A k \in 1 .. Len(r) : p[k] = r[k]
      /\ \A k \in 1 .. Len(t) : p[Len(r) + k] = t[k]
  BY ConcatIs DEF Queues
<1> HIDE DEF p
<1>2. p[j] = r[j] /\ p[j + 1] = r[j + 1] /\ j \in 1 .. Len(r) /\ j + 1 \in 1 .. Len(r)
      /\ j \in 1 .. Len(p) /\ j + 1 \in 1 .. Len(p)
  BY <1>1
<1>3. CASE ~(r[j + 1].last = At(r[j], r[j].length) /\ r[j].last # Null)
  BY <1>2, <1>3 DEF StitchAt, p
<1>4. CASE r[j + 1].last = At(r[j], r[j].length) /\ r[j].last # Null
  <2> DEFINE joined == [r[j] EXCEPT !.length = @ + r[j + 1].length]
             given == [r[j + 1] EXCEPT !.offset = @ + r[j + 1].length, !.length = 0,
                                       !.last = At(joined, joined.length)]
  <2>1. PICK x, y : x = joined /\ y = given
    OBVIOUS
  <2>2. StitchAt(r, j) = [r EXCEPT ![j] = x, ![j + 1] = y]
    BY <1>4, <2>1 DEF StitchAt
  <2>3. StitchAt(p, j) = [p EXCEPT ![j] = x, ![j + 1] = y]
    BY <1>2, <1>4, <2>1 DEF StitchAt
  <2> HIDE DEF joined, given
  <2>4. StitchAt(r, j) \in Seq(Handles) /\ Len(StitchAt(r, j)) = Len(r)
    BY StitchKeeps DEF Queues
  <2>5. x \in Handles /\ y \in Handles
    <3>1. StitchAt(r, j)[j] = x /\ StitchAt(r, j)[j + 1] = y
      BY <1>1, <1>2, <2>2
    <3>2. QED
      BY <1>2, <2>4, <3>1
  <2> DEFINE u == StitchAt(r, j)
             a == u \o t
             b == StitchAt(p, j)
  <2>6. /\ a \in Seq(Handles) /\ Len(a) = Len(p)
        /\ \A k \in 1 .. Len(r) : a[k] = u[k]
        /\ \A k \in 1 .. Len(t) : a[Len(r) + k] = t[k]
    <3>1. u \in Seq(Handles) /\ Len(u) = Len(r)
      BY <2>4
    <3> HIDE DEF u
    <3>2. /\ a \in Seq(Handles) /\ Len(a) = Len(u) + Len(t)
          /\ \A k \in 1 .. Len(u) : a[k] = u[k]
          /\ \A k \in 1 .. Len(t) : a[Len(u) + k] = t[k]
      BY <3>1, ConcatIs
    <3> HIDE DEF a
    <3>3. QED
      BY <1>1, <3>1, <3>2
  <2>7. b \in Seq(Handles) /\ Len(b) = Len(p)
        /\ \A k \in 1 .. Len(p) : b[k] = IF k = j + 1 THEN y ELSE IF k = j THEN x ELSE p[k]
    BY <1>1, <1>2, <2>3, <2>5
  <2>8. \A k \in 1 .. Len(r) :
           u[k] = IF k = j + 1 THEN y ELSE IF k = j THEN x ELSE r[k]
    BY <1>1, <1>2, <2>2
  <2> HIDE DEF a, b, u
  <2>9. ASSUME NEW k \in 1 .. Len(p) PROVE a[k] = b[k]
    <3>1. CASE k \in 1 .. Len(r)
      BY <1>1, <2>6, <2>7, <2>8, <3>1
    <3>2. CASE k \notin 1 .. Len(r)
      <4>1. k - Len(r) \in 1 .. Len(t) /\ Len(r) + (k - Len(r)) = k /\ k # j /\ k # j + 1
        BY <1>1, <1>2, <3>2
      <4>2. a[k] = t[k - Len(r)] /\ p[k] = t[k - Len(r)]
        BY <1>1, <2>6, <4>1
      <4>3. QED
        BY <2>7, <4>1, <4>2
    <3>3. QED
      BY <3>1, <3>2
  <2>10. a = b
    BY <2>6, <2>7, <2>9, SameSeq
  <2>11. QED
    BY <2>10 DEF a, b, p, u
<1>5. QED
  BY <1>3, <1>4

\* The line is the queue of the input, then what was sent.
LEMMA WholeIs ==
    ASSUME StreamInv
    PROVE  /\ Whole \in Queues /\ Whole \in Seq(Handles) /\ inq \in Seq(Handles)
           /\ sent \in Seq(Handles) /\ Len(inq) \in Nat /\ Len(sent) \in Nat
           /\ Len(Whole) = Len(inq) + Len(sent)
           /\ \A k \in 1 .. Len(inq) : Whole[k] = inq[k]
           /\ \A k \in 1 .. Len(sent) : Whole[Len(inq) + k] = sent[k] /\ sent[k].buf \notin Aux
<1>1. inq \in Seq(Handles) /\ Fronted(inq) /\ sent \in Seq(Ordinary)
  BY DEF StreamInv, Queues
<1>2. sent \in Seq(Handles) /\ \A k \in 1 .. Len(sent) : sent[k].buf \notin Aux
  <2>1. \A k \in 1 .. Len(sent) : sent[k] \in Ordinary
    BY <1>1
  <2>2. \A k \in 1 .. Len(sent) : sent[k] \in Handles /\ sent[k].buf \notin Aux
    BY <2>1 DEF Ordinary
  <2>3. QED
    BY <1>1, <2>2
<1>3. /\ Whole \in Seq(Handles) /\ Len(Whole) = Len(inq) + Len(sent)
      /\ Len(inq) \in Nat /\ Len(sent) \in Nat
      /\ \A k \in 1 .. Len(inq) : Whole[k] = inq[k]
      /\ \A k \in 1 .. Len(sent) : Whole[Len(inq) + k] = sent[k]
  BY <1>1, <1>2, ConcatIs DEF Whole
<1>4. Fronted(Whole)
  <2>1. SUFFICES ASSUME NEW k \in 1 .. Len(Whole), Whole[k].buf \in Aux
                 PROVE  k = 1 /\ Whole[k].last = Null /\ Whole[k].length <= Free
    BY DEF Fronted
  <2>2. CASE k \in 1 .. Len(inq)
    BY <1>1, <1>3, <2>1, <2>2 DEF Fronted
  <2>3. CASE k \notin 1 .. Len(inq)
    <3>1. k - Len(inq) \in 1 .. Len(sent) /\ Len(inq) + (k - Len(inq)) = k
      BY <1>3, <2>3
    <3>2. QED
      BY <1>2, <1>3, <2>1, <3>1
  <2>4. QED
    BY <2>2, <2>3
<1>5. QED
  BY <1>1, <1>2, <1>3, <1>4 DEF Queues

-----------------------------------------------------------------------------
(* What the queues lose.                                                   *)

HasBytes(w, m) == \E k \in 1 .. Len(w) : k > m /\ InRing(w[k]) /\ w[k].length > 0

\* v has lost the first m handles of w, has no buffer of the ring that was not
\* behind them, and if one behind them had bytes, one of v does
Sheds(w, v, m) ==
    /\ \A j \in 1 .. Len(v) : InRing(v[j]) => \E k \in 1 .. Len(w) : k > m /\ w[k].buf = v[j].buf
    /\ HasBytes(w, m) => HasBytes(v, 0)

\* A line that stays the same sheds nothing.
LEMMA ShedsNone == ASSUME NEW w PROVE Sheds(w, w, 0)
  BY DEF Sheds

\* What sheds nothing more can follow.
LEMMA ShedsOn ==
    ASSUME NEW w, NEW v, NEW u, NEW m \in Nat, Sheds(w, v, m), Sheds(v, u, 0),
           Len(v) \in Nat
    PROVE  Sheds(w, u, m)
<1>1. ASSUME NEW j \in 1 .. Len(u), InRing(u[j])
      PROVE  \E k \in 1 .. Len(w) : k > m /\ w[k].buf = u[j].buf
  <2>1. PICK k \in 1 .. Len(v) : v[k].buf = u[j].buf
    BY <1>1 DEF Sheds
  <2>2. InRing(v[k])
    BY <1>1, <2>1 DEF InRing
  <2>3. QED
    BY <2>1, <2>2 DEF Sheds
<1>2. QED
  BY <1>1 DEF Sheds

\* a join takes bytes from a buffer of the ring only for another
LEMMA JoinSheds ==
    ASSUME CircInv, OfItems(produced), NEW at \in Bases, NEW w \in Queues, Line(w, at),
           NEW j \in 1 .. Len(w) - 1
    PROVE  Sheds(w, StitchAt(w, j), 0)
<1> DEFINE g == w[j]
           h == w[j + 1]
<1>1. CASE ~(h.last = At(g, g.length) /\ g.last # Null)
  BY <1>1, ShedsNone DEF StitchAt
<1>2. CASE h.last = At(g, g.length) /\ g.last # Null
  <2>1. PICK r, n : r = StitchAt(w, j) /\ n = Len(w)
    OBVIOUS
  <2>2. /\ Len(r) = n /\ r[j].buf = g.buf /\ r[j].length = g.length + h.length
        /\ r[j + 1].buf = h.buf
        /\ \A k \in 1 .. n : k # j /\ k # j + 1 => r[k] = w[k]
    BY <1>2, <2>1, StitchIs
  <2>3. /\ n \in Nat /\ j \in 1 .. n /\ j + 1 \in 1 .. n /\ j \in 1 .. n - 1
        /\ g \in Handles /\ h \in Handles
    BY <2>1, HandlesAreQueue DEF Queues
  <2>4. Lies(g, at) /\ Lies(h, at) /\ Before(g, h, at) /\ Follows(g, h, at)
    BY <2>1, <2>3 DEF Line
  <2>5. /\ InRing(g) => InRing(h) /\ Ends(g) = Left(h)
        /\ ~InRing(g) => g.buf = h.buf /\ ~InRing(h)
    <3>1. g.buf \notin Aux /\ h.buf \notin Aux
      BY <1>2, StitchIs
    <3>2. QED
      BY <1>2, <2>3, <2>4, <3>1, JoinFits DEF InRing
  <2>6. \A k \in 1 .. n : r[k].buf = w[k].buf
    BY <2>2, <2>3
  <2>7. ASSUME HasBytes(w, 0) PROVE HasBytes(r, 0)
    <3>1. PICK k \in 1 .. n : InRing(w[k]) /\ w[k].length > 0
      BY <2>1, <2>7 DEF HasBytes
    <3>2. g.length \in Nat /\ h.length \in Nat
      BY <2>3, HandleParts
    <3>3. CASE k = j \/ k = j + 1
      <4>1. InRing(g) /\ r[j].length > 0 /\ j > 0
        BY <2>2, <2>3, <2>5, <3>1, <3>2, <3>3
      <4>2. InRing(r[j])
        BY <2>2, <4>1 DEF InRing
      <4>3. QED
        BY <2>2, <2>3, <4>1, <4>2 DEF HasBytes
    <3>4. CASE ~(k = j \/ k = j + 1)
      BY <2>2, <2>3, <3>1, <3>4 DEF HasBytes
    <3>5. QED
      BY <3>3, <3>4
  <2>8. QED
    BY <2>1, <2>2, <2>6, <2>7 DEF Sheds, InRing
<1>3. QED
  BY <1>1, <1>2

\* a push only moves bytes between the handles it joins
LEMMA PushLines ==
    ASSUME CircInv, OfItems(produced), NEW at \in Bases,
           NEW q \in Queues, NEW s \in Handles, s.buf \notin Aux,
           NEW t \in Seq(Ordinary), Line(Append(q, s) \o t, at)
    PROVE  /\ Pushed(q, s) \o t \in Seq(Handles) /\ Line(Pushed(q, s) \o t, at)
           /\ Sheds(Append(q, s) \o t, Pushed(q, s) \o t, 0)
<1> DEFINE n == Len(q) + 1
           had == Append(q, s) \o t
           S == {r \in Queues : Len(r) = n /\ Line(r \o t, at) /\ Sheds(had, r \o t, 0)}
<1>1. /\ q \in Seq(Handles) /\ Fronted(q) /\ Len(q) \in Nat
      /\ \A k \in 1 .. Len(q) : q[k] \in Handles
  BY HandlesAreQueue DEF Queues
<1>2. t \in Seq(Handles) /\ Len(t) \in Nat /\ \A k \in 1 .. Len(t) : t[k].buf \notin Aux
  <2>1. \A k \in 1 .. Len(t) : t[k] \in Handles /\ t[k].buf \notin Aux
    BY DEF Ordinary
  <2>2. QED
    BY <2>1
<1>3. n \in Nat /\ n - 1 = Len(q)
  BY <1>1
<1>4. Append(q, s) \in S
  <2> DEFINE all == Append(q, s)
  <2>1. all \in Seq(Handles) /\ Len(all) = n /\ all[n] = s
        /\ \A k \in 1 .. Len(q) : all[k] = q[k]
    BY <1>1
  <2> HIDE DEF all
  <2>2. Fronted(all)
    BY <1>1, <2>1 DEF Fronted
  <2>3. Sheds(had, all \o t, 0)
    BY ShedsNone DEF all
  <2>4. QED
    BY <2>1, <2>2, <2>3 DEF Queues, all
<1> HIDE DEF had
<1>5. ASSUME NEW r \in Queues
      PROVE  \E p \in Queues : /\ p = r \o t /\ p \in Seq(Handles) /\ Len(p) = Len(r) + Len(t)
                               /\ \A k \in 1 .. Len(r) : p[k] = r[k]
                               /\ \A k \in 1 .. Len(t) : p[Len(r) + k] = t[k]
  <2> DEFINE p == r \o t
  <2>1. /\ p \in Seq(Handles) /\ Len(p) = Len(r) + Len(t) /\ Len(r) \in Nat
        /\ \A k \in 1 .. Len(r) : p[k] = r[k]
        /\ \A k \in 1 .. Len(t) : p[Len(r) + k] = t[k]
    BY <1>2, ConcatIs DEF Queues
  <2> HIDE DEF p
  <2>2. Fronted(p)
    <3>1. SUFFICES ASSUME NEW k \in 1 .. Len(p), p[k].buf \in Aux
                   PROVE  k = 1 /\ p[k].last = Null /\ p[k].length <= Free
      BY DEF Fronted
    <3>2. CASE k \in 1 .. Len(r)
      BY <2>1, <3>1, <3>2 DEF Queues, Fronted
    <3>3. CASE k \notin 1 .. Len(r)
      <4>1. k - Len(r) \in 1 .. Len(t) /\ Len(r) + (k - Len(r)) = k
        BY <1>2, <2>1, <3>3
      <4>2. QED
        BY <1>2, <2>1, <3>1, <4>1
    <3>4. QED
      BY <3>2, <3>3
  <2>3. QED
    BY <2>1, <2>2 DEF Queues, p
<1>6. ASSUME NEW r \in S, NEW j \in 1 .. Len(q) PROVE StitchAt(r, j) \in S
  <2>1. r \in Queues /\ Len(r) = n /\ Line(r \o t, at) /\ Sheds(had, r \o t, 0)
    OBVIOUS
  <2>2. j \in 1 .. Len(r) - 1
    BY <1>3, <2>1
  <2>3. StitchAt(r, j) \in Queues /\ Len(StitchAt(r, j)) = n
    BY <2>1, <2>2, StitchKeeps
  <2>4. PICK p \in Queues : p = r \o t /\ Len(p) = Len(r) + Len(t)
    BY <1>5, <2>1
  <2>5. p \in Queues /\ Len(p) = Len(r) + Len(t) /\ Line(p, at)
    BY <2>1, <2>4
  <2>6. j \in 1 .. Len(p) - 1
    BY <1>2, <1>3, <2>1, <2>5
  <2>7. Line(StitchAt(p, j), at)
    BY <2>5, <2>6, LineJoins
  <2>8. StitchAt(r, j) \o t = StitchAt(p, j)
    BY <1>2, <2>1, <2>2, <2>4, StitchTail
  <2>9. Sheds(had, StitchAt(p, j), 0)
    <3>1. Sheds(p, StitchAt(p, j), 0)
      BY <2>5, <2>6, JoinSheds
    <3>2. Len(p) \in Nat /\ Sheds(had, p, 0) /\ 0 \in Nat
      BY <2>1, <2>4, <2>5 DEF Queues
    <3>3. QED
      BY <3>1, <3>2, ShedsOn
  <2>10. QED
    BY <2>3, <2>7, <2>8, <2>9
<1>7. PICK r \in S :
         Pushed(q, s) = IF n > 1 /\ r[n].length = 0 /\ r[n].buf = r[n - 1].buf
                        THEN SubSeq(r, 1, n - 1) ELSE r
  <2> HIDE DEF S
  <2>1. QED
    BY <1>1, <1>4, <1>6, PushBy
<1>8. /\ r \in Queues /\ Len(r) = n /\ Line(r \o t, at) /\ r \in Seq(Handles)
      /\ Sheds(had, r \o t, 0)
  BY DEF Queues
<1> HIDE DEF S
<1>9. CASE ~(n > 1 /\ r[n].length = 0 /\ r[n].buf = r[n - 1].buf)
  BY <1>5, <1>7, <1>8, <1>9 DEF had
<1>10. CASE n > 1 /\ r[n].length = 0 /\ r[n].buf = r[n - 1].buf
  <2> DEFINE popped == SubSeq(r, 1, n - 1)
             v == popped \o t
  <2>1. Pushed(q, s) = popped
    BY <1>7, <1>10
  <2>2. popped \in Seq(Handles) /\ Len(popped) = n - 1 /\ \A k \in 1 .. n - 1 : popped[k] = r[k]
    BY <1>3, <1>8
  <2> HIDE DEF popped
  <2>3. /\ v \in Seq(Handles) /\ Len(v) = (n - 1) + Len(t)
        /\ \A k \in 1 .. n - 1 : v[k] = r[k]
        /\ \A k \in 1 .. Len(t) : v[(n - 1) + k] = t[k]
    <3>1. /\ v \in Seq(Handles) /\ Len(v) = Len(popped) + Len(t)
          /\ \A k \in 1 .. Len(popped) : v[k] = popped[k]
          /\ \A k \in 1 .. Len(t) : v[Len(popped) + k] = t[k]
      BY <1>2, <2>2, ConcatIs
    <3> HIDE DEF v
    <3>2. QED
      BY <2>2, <3>1
  <2>4. PICK w : /\ w = r \o t /\ w \in Seq(Handles) /\ Len(w) = n + Len(t) /\ Line(w, at)
                 /\ \A k \in 1 .. n : w[k] = r[k]
                 /\ \A k \in 1 .. Len(t) : w[n + k] = t[k]
    <3>1. PICK w \in Queues : /\ w = r \o t /\ w \in Seq(Handles) /\ Len(w) = Len(r) + Len(t)
                              /\ \A k \in 1 .. Len(r) : w[k] = r[k]
                              /\ \A k \in 1 .. Len(t) : w[Len(r) + k] = t[k]
      BY <1>5, <1>8
    <3>2. QED
      BY <1>8, <3>1
  <2> HIDE DEF v
  <2>5. n \in 2 .. Len(w) /\ w[n].length = 0 /\ Len(v) = Len(w) - 1
    BY <1>2, <1>3, <1>10, <2>3, <2>4
  <2>6. ASSUME NEW k \in 1 .. Len(v) PROVE v[k] = IF k < n THEN w[k] ELSE w[k + 1]
    <3> HIDE DEF n
    <3>1. CASE k < n
      BY <1>3, <2>3, <2>4, <3>1
    <3>2. CASE ~(k < n)
      <4>1. k - (n - 1) \in 1 .. Len(t) /\ (n - 1) + (k - (n - 1)) = k
            /\ n + (k - (n - 1)) = k + 1
        BY <1>2, <1>3, <2>3, <3>2
      <4>2. v[k] = t[k - (n - 1)] /\ w[k + 1] = t[k - (n - 1)]
        BY <2>3, <2>4, <4>1
      <4>3. QED
        BY <3>2, <4>2
    <3>3. QED
      BY <3>1, <3>2
  <2> HIDE DEF n
  <2>7. v \in Seq(Handles) /\ w \in Seq(Handles) /\ Line(w, at)
    BY <2>3, <2>4
  <2>8. Line(v, at)
    BY <2>5, <2>6, <2>7, LineDrops
  <2>9. Sheds(w, v, 0)
    <3>1. Len(w) \in Nat /\ Len(v) \in Nat /\ n \in Nat /\ n >= 2 /\ n <= Len(w)
      BY <2>5, <2>7
    <3>2. ASSUME NEW j \in 1 .. Len(v) PROVE \E k \in 1 .. Len(w) : k > 0 /\ w[k] = v[j]
      <4>1. j \in 1 .. Len(w) /\ j + 1 \in 1 .. Len(w) /\ j > 0 /\ j + 1 > 0
        BY ONLY <2>5, <3>1, j \in 1 .. Len(v)
      <4>2. QED
        BY <2>6, <4>1
    <3>3. ASSUME NEW k \in 1 .. Len(w), k # n PROVE \E j \in 1 .. Len(v) : j > 0 /\ v[j] = w[k]
      <4>1. CASE k < n
        <5>1. k \in 1 .. Len(v) /\ k > 0
          BY <2>5, <3>1, <4>1
        <5>2. QED
          BY <2>6, <4>1, <5>1
      <4>2. CASE ~(k < n)
        <5>1. k - 1 \in 1 .. Len(v) /\ ~(k - 1 < n) /\ (k - 1) + 1 = k /\ k - 1 > 0
          BY <2>5, <3>1, <3>3, <4>2
        <5>2. QED
          BY <2>6, <5>1
      <4>3. QED
        BY <4>1, <4>2
    <3>4. HasBytes(w, 0) => HasBytes(v, 0)
      <4>1. SUFFICES ASSUME NEW k \in 1 .. Len(w), InRing(w[k]), w[k].length > 0
                     PROVE  HasBytes(v, 0)
        BY DEF HasBytes
      <4>2. k # n
        BY <2>5, <4>1
      <4>3. QED
        BY <3>3, <4>1, <4>2 DEF HasBytes
    <3>5. QED
      BY <3>2, <3>4 DEF Sheds
  <2>10. Sheds(had, v, 0)
    <3>1. Sheds(had, w, 0) /\ Len(w) \in Nat /\ 0 \in Nat
      BY <1>8, <2>4, <2>7
    <3>2. QED
      BY <2>9, <3>1, ShedsOn
  <2>11. QED
    BY <2>1, <2>7, <2>8, <2>10 DEF v, had
<1>11. QED
  BY <1>9, <1>10

\* the queue of the input takes the next buffer that was sent
LEMMA DeliverLines ==
    ASSUME StreamInv, CircInv, OfItems(produced), NEW at \in Bases, Line(Whole, at), Deliver
    PROVE  \E v \in Seq(Handles) : v = Whole' /\ Line(v, at) /\ Sheds(Whole, v, 0)
<1>1. /\ sent # <<>> /\ inq' = Pushed(inq, Head(sent)) /\ sent' = Tail(sent)
      /\ sent \in Seq(Ordinary) /\ inq \in Queues /\ inq \in Seq(Handles)
  BY DEF Deliver, StreamInv, Queues
<1>2. PICK s, t : s = Head(sent) /\ t = Tail(sent)
  OBVIOUS
<1>3. s \in Ordinary /\ s \in Handles /\ s.buf \notin Aux /\ t \in Seq(Ordinary)
  BY <1>1, <1>2 DEF Ordinary
<1>4. Whole = Append(inq, s) \o t
  <2>1. sent = <<s>> \o t
    BY <1>1, <1>2
  <2>2. t \in Seq(Handles) /\ <<s>> \in Seq(Handles)
    <3>1. \A k \in 1 .. Len(t) : t[k] \in Handles
      BY <1>3 DEF Ordinary
    <3>2. QED
      BY <1>3, <3>1
  <2>3. inq \o (<<s>> \o t) = (inq \o <<s>>) \o t
    BY <1>1, <2>2
  <2>4. inq \o <<s>> = Append(inq, s)
    BY <1>1, <1>3
  <2>5. QED
    BY <2>1, <2>3, <2>4 DEF Whole
<1>5. /\ Pushed(inq, s) \o t \in Seq(Handles) /\ Line(Pushed(inq, s) \o t, at)
      /\ Sheds(Append(inq, s) \o t, Pushed(inq, s) \o t, 0)
  BY <1>1, <1>3, <1>4, PushLines
<1>6. Whole' = Pushed(inq, s) \o t
  BY <1>1, <1>2 DEF Whole
<1>7. QED
  BY <1>4, <1>5, <1>6

\* A front that gives its bytes back leaves a line.
LEMMA UnstitchLines ==
    ASSUME NEW at \in Bases, behind \in [Slots -> Nat],
           NEW q \in Queues, NEW t \in Seq(Handles), Line(q \o t, at)
    PROVE  Unstitched(q) \o t \in Seq(Handles) /\ Line(Unstitched(q) \o t, at)
<1>1. /\ q \in Seq(Handles) /\ Len(q) \in Nat /\ t \in Seq(Handles) /\ Len(t) \in Nat
      /\ \A k \in 1 .. Len(q) : q[k] \in Handles
  BY HandlesAreQueue DEF Queues
<1>2. PICK w \in Seq(Handles) : /\ w = q \o t /\ Len(w) = Len(q) + Len(t)
                                /\ \A k \in 1 .. Len(q) : w[k] = q[k]
                                /\ \A k \in 1 .. Len(t) : w[Len(q) + k] = t[k]
  BY <1>1, Concat
<1>3. CASE ~(/\ Len(q) > 1 /\ q[1].length <= q[2].offset
             /\ At(q[1], q[1].length) = q[2].last)
  BY <1>2, <1>3 DEF Unstitched
<1>4. CASE /\ Len(q) > 1 /\ q[1].length <= q[2].offset
           /\ At(q[1], q[1].length) = q[2].last
  <2> DEFINE first == [q[2] EXCEPT !.offset = @ - q[1].length, !.length = @ + q[1].length]
  <2>1. Unstitched(q) = <<first>> \o SubSeq(q, 3, Len(q))
    BY <1>4 DEF Unstitched
  <2>2. q[1] \in Handles /\ q[2] \in Handles
    BY <1>1, <1>4
  <2>3. /\ q[1].length \in Nat /\ q[2].offset \in Nat /\ q[2].length \in Nat
    BY <2>2 DEF Handles
  <2>4. /\ first \in Handles /\ first.buf = q[2].buf /\ first.memory = q[2].memory
        /\ first.offset = q[2].offset - q[1].length
        /\ first.length = q[2].length + q[1].length
    <3>1. q[2].offset - q[1].length \in Nat /\ q[2].length + q[1].length \in Nat
      BY <1>4, <2>3
    <3>2. QED
      BY <2>2, <3>1 DEF Handles
  <2> HIDE DEF first
  <2>5. PICK more \in Seq(Handles) :
           /\ more = SubSeq(q, 3, Len(q)) /\ Len(more) = Len(q) - 2 /\ Len(more) \in Nat
           /\ \A k \in 1 .. Len(q) - 2 : more[k] = q[k + 2]
    <3>1. 3 \in Nat \ {0} /\ 3 <= Len(q) + 1 /\ Len(q) - 3 + 1 = Len(q) - 2
      BY <1>1, <1>4
    <3>2. PICK x \in Seq(Handles) :
             /\ x = SubSeq(q, 3, Len(q)) /\ Len(x) = Len(q) - 3 + 1 /\ Len(x) \in Nat
             /\ \A k \in 1 .. Len(x) : x[k] = q[3 + k - 1]
      BY <1>1, <3>1, SuffixIs
    <3>3. \A k \in 1 .. Len(q) - 2 : 3 + k - 1 = k + 2
      OBVIOUS
    <3>4. QED
      BY <3>1, <3>2, <3>3
  <2> DEFINE r == <<first>> \o more
  <2>6. /\ r \in Seq(Handles) /\ Len(r) = 1 + Len(more) /\ r[1] = first
        /\ \A k \in 1 .. Len(more) : r[1 + k] = more[k]
    BY <2>4, <2>5
  <2> HIDE DEF r
  <2>7. PICK v \in Seq(Handles) : /\ v = r \o t /\ Len(v) = Len(r) + Len(t)
                                  /\ \A k \in 1 .. Len(r) : v[k] = r[k]
                                  /\ \A k \in 1 .. Len(t) : v[Len(r) + k] = t[k]
    BY <1>1, <2>6, Concat
  <2>8. Len(r) = Len(q) - 1 /\ Len(q) > 1
    BY <1>1, <1>4, <2>5, <2>6
  <2>9. Len(v) > 0 /\ Len(v) + 1 = Len(w) /\ v[1] = first /\ w[1] = q[1] /\ w[1 + 1] = q[2]
    <3>1. 1 \in 1 .. Len(r) /\ 1 \in 1 .. Len(q) /\ 1 + 1 \in 1 .. Len(q) /\ 1 + 1 = 2
      BY <1>1, <2>8
    <3>2. v[1] = first /\ w[1] = q[1] /\ w[1 + 1] = q[2]
      BY <1>2, <2>6, <2>7, <3>1
    <3>3. Len(v) = Len(r) + Len(t) /\ Len(w) = Len(q) + Len(t)
      BY <1>2, <2>7
    <3>4. QED
      BY <1>1, <2>8, <3>2, <3>3
  <2>10. ASSUME NEW k \in 2 .. Len(v) PROVE v[k] = w[1 + k]
    <3>1. CASE k <= Len(r)
      <4>1. k - 1 \in 1 .. Len(more) /\ 1 + (k - 1) = k /\ (k - 1) + 2 = 1 + k
            /\ 1 + k \in 1 .. Len(q) /\ k - 1 \in 1 .. Len(q) - 2
        BY <1>1, <2>5, <2>8, <3>1
      <4>2. v[k] = r[k] /\ r[k] = more[k - 1] /\ more[k - 1] = q[1 + k] /\ w[1 + k] = q[1 + k]
        <5>1. k \in 1 .. Len(r)
          BY <1>1, <2>8, <3>1
        <5>2. r[1 + (k - 1)] = more[k - 1] /\ more[k - 1] = q[(k - 1) + 2]
          BY <2>5, <2>6, <4>1
        <5>3. QED
          BY <1>2, <2>7, <4>1, <5>1, <5>2
      <4>3. QED
        BY <4>2
    <3>2. CASE ~(k <= Len(r))
      <4>1. k - Len(r) \in 1 .. Len(t) /\ Len(r) + (k - Len(r)) = k
            /\ Len(q) + (k - Len(r)) = 1 + k
        BY <1>1, <2>7, <2>8, <3>2
      <4>2. QED
        BY <1>2, <2>7, <4>1
    <3>3. QED
      BY <3>1, <3>2
  <2>11. Used(first) = Used(q[2])
    BY <2>3, <2>4 DEF Used
  <2>12. Line(w, at) /\ 1 \in 1 .. Len(w) /\ 1 \in 1 .. Len(w) - 1
    BY <1>1, <1>2, <2>8
  <2>13. From(first, at) = From(q[1], at)
    <3>1. Follows(q[1], q[2], at)
      BY <2>9, <2>12 DEF Line
    <3>2. /\ To(q[1], at) = From(q[1], at) + q[1].length /\ From(q[1], at) \in Nat
          /\ at[q[2].buf] \in Nat
      BY <2>2, HandleParts
    <3>3. at[q[2].buf] + q[2].offset = From(q[1], at) + q[1].length
      BY <3>1, <3>2 DEF Follows, From
    <3>4. From(first, at) = at[q[2].buf] + (q[2].offset - q[1].length)
      BY <2>4 DEF From
    <3>5. QED
      BY <2>3, <3>2, <3>3, <3>4
  <2>14. OfItems(From(v[1], at))
    BY <2>9, <2>12, <2>13 DEF Line
  <2>15. v[1].buf = w[1 + 1].buf /\ v[1].memory = w[1 + 1].memory /\ Used(v[1]) = Used(w[1 + 1])
    BY <2>4, <2>9, <2>11
  <2>16. Line(v, at)
    BY <1>1, <1>2, <2>7, <2>9, <2>10, <2>12, <2>14, <2>15, LineFront
  <2>17. Unstitched(q) = r
    BY <2>1, <2>5 DEF r
  <2>18. QED
    BY <2>7, <2>16, <2>17
<1>5. QED
  BY <1>3, <1>4

\* work() consumes whole items, and what the front gave is given back
LEMMA ConsumeLines ==
    ASSUME NEW at \in Bases, behind \in [Slots -> Nat],
           NEW q \in Queues, NEW t \in Seq(Handles), Line(q \o t, at), Len(q) > 0,
           NEW n \in Nat, OfItems(n), n <= q[1].length
    PROVE  Consumed(q, n) \o t \in Seq(Handles) /\ Line(Consumed(q, n) \o t, at)
<1> DEFINE rest == [q EXCEPT ![1].offset = @ + n, ![1].length = @ - n]
           left == IF rest[1].length = 0 THEN Tail(rest) ELSE rest
           first == [q[1] EXCEPT !.offset = @ + n, !.length = @ - n]
<1>1. /\ q \in Seq(Handles) /\ Len(q) \in Nat /\ t \in Seq(Handles) /\ Len(t) \in Nat
      /\ \A k \in 1 .. Len(q) : q[k] \in Handles
  BY HandlesAreQueue DEF Queues
<1>2. Consumed(q, n) = Unstitched(left)
  BY DEF Consumed
<1>3. 1 \in 1 .. Len(q) /\ q[1] \in Handles
  BY <1>1
<1>4. /\ first \in Handles /\ first.buf = q[1].buf /\ first.memory = q[1].memory
      /\ first.length = q[1].length - n /\ first.offset = q[1].offset + n
      /\ first.last = q[1].last
      /\ q[1].length \in Nat /\ q[1].offset \in Nat
  <2>1. q[1].offset + n \in Nat /\ q[1].length - n \in Nat /\ q[1].length \in Nat /\ q[1].offset \in Nat
    BY <1>3 DEF Handles
  <2>2. QED
    BY <1>3, <2>1 DEF Handles
<1>5. rest = [q EXCEPT ![1] = first]
  BY <1>1, <1>3
<1> HIDE DEF first, rest
<1>6. rest \in Seq(Handles) /\ Len(rest) = Len(q) /\ rest[1] = first
      /\ \A k \in 2 .. Len(q) : rest[k] = q[k]
  BY <1>1, <1>3, <1>4, <1>5
<1>7. PICK w \in Seq(Handles) : /\ w = q \o t /\ Len(w) = Len(q) + Len(t)
                                /\ \A k \in 1 .. Len(q) : w[k] = q[k]
                                /\ \A k \in 1 .. Len(t) : w[Len(q) + k] = t[k]
  BY <1>1, Concat
<1>8. Line(w, at) /\ w[1] = q[1]
  BY <1>3, <1>7
<1>9. Used(first) = Used(q[1]) /\ OfItems(From(first, at))
  <2>1. Used(first) = Used(q[1])
    BY <1>4 DEF Used
  <2>2. From(first, at) = From(q[1], at) + n /\ From(q[1], at) \in Nat
    <3>1. From(q[1], at) \in Nat /\ at[q[1].buf] \in Nat
      BY <1>3, HandleParts
    <3>2. at[q[1].buf] + (q[1].offset + n) = (at[q[1].buf] + q[1].offset) + n
      BY <1>4, <3>1
    <3>3. QED
      BY <1>4, <3>1, <3>2 DEF From
  <2>3. OfItems(From(q[1], at))
    <3>1. 1 \in 1 .. Len(w)
      BY <1>1, <1>3, <1>7
    <3>2. QED
      BY <1>8, <3>1 DEF Line
  <2>4. QED
    BY <2>1, <2>2, <2>3, ItemsAdd
<1>10. Fronted(rest)
  <2>1. SUFFICES ASSUME NEW k \in 1 .. Len(rest), rest[k].buf \in Aux
                 PROVE  k = 1 /\ rest[k].last = Null /\ rest[k].length <= Free
    BY DEF Fronted
  <2>2. k = 1
    BY <1>1, <1>4, <1>6, <2>1 DEF Queues, Fronted
  <2>3. q[1].last = Null /\ q[1].length <= Free
    BY <1>3, <1>4, <1>6, <2>1, <2>2 DEF Queues, Fronted
  <2>4. Free \in Int
    BY FreeFits
  <2>5. QED
    BY <1>4, <1>6, <2>2, <2>3, <2>4
<1>11. PICK u \in Seq(Handles) : /\ u = rest \o t /\ Len(u) = Len(q) + Len(t)
                                 /\ \A k \in 1 .. Len(q) : u[k] = rest[k]
                                 /\ \A k \in 1 .. Len(t) : u[Len(q) + k] = t[k]
  <2>1. PICK u \in Seq(Handles) : /\ u = rest \o t /\ Len(u) = Len(rest) + Len(t)
                                  /\ \A k \in 1 .. Len(rest) : u[k] = rest[k]
                                  /\ \A k \in 1 .. Len(t) : u[Len(rest) + k] = t[k]
    BY <1>1, <1>6, Concat
  <2>2. QED
    BY <1>6, <2>1
<1>12. Line(u, at)
  <2>1. Len(u) > 0 /\ Len(u) + 0 = Len(w) /\ 0 \in Nat /\ u[1] = first /\ w[0 + 1] = q[1]
    BY <1>1, <1>3, <1>6, <1>7, <1>11
  <2>2. ASSUME NEW k \in 2 .. Len(u) PROVE u[k] = w[0 + k]
    <3>1. CASE k <= Len(q)
      <4>1. k \in 1 .. Len(q) /\ k \in 2 .. Len(q) /\ 0 + k = k
        BY <1>1, <3>1
      <4>2. QED
        BY <1>6, <1>7, <1>11, <4>1
    <3>2. CASE ~(k <= Len(q))
      <4>1. k - Len(q) \in 1 .. Len(t) /\ Len(q) + (k - Len(q)) = k /\ 0 + k = k
        BY <1>1, <1>11, <3>2
      <4>2. QED
        BY <1>7, <1>11, <4>1
    <3>3. QED
      BY <3>1, <3>2
  <2>3. /\ u[1].buf = w[0 + 1].buf /\ u[1].memory = w[0 + 1].memory
        /\ Used(u[1]) = Used(w[0 + 1]) /\ OfItems(From(u[1], at))
    BY <1>4, <1>9, <2>1
  <2>4. QED
    BY <1>8, <2>1, <2>2, <2>3, LineFront
<1>13. left \in Queues /\ left \o t \in Seq(Handles) /\ Line(left \o t, at)
  <2>1. CASE rest[1].length # 0
    BY <1>6, <1>10, <1>11, <1>12, <2>1 DEF Queues
  <2>2. CASE rest[1].length = 0
    <3> DEFINE s == Tail(rest)
    <3>1. left = s
      BY <2>2
    <3>2. s \in Seq(Handles) /\ Len(s) = Len(q) - 1
          /\ \A k \in 1 .. Len(q) - 1 : s[k] = rest[k + 1]
      BY <1>1, <1>6
    <3> HIDE DEF s
    <3>3. Fronted(s)
      BY <1>1, <1>6, <1>10, <3>2 DEF Fronted
    <3>4. PICK v \in Seq(Handles) :
             /\ v = s \o t /\ Len(v) = Len(s) + Len(t)
             /\ Len(s) \in Nat /\ Len(t) \in Nat /\ Len(v) \in Nat
             /\ \A k \in 1 .. Len(s) : v[k] = s[k]
             /\ \A k \in 1 .. Len(t) : v[Len(s) + k] = t[k]
      <4>1. s \in Seq(Handles) /\ t \in Seq(Handles)
        BY <3>2
      <4>2. QED
        BY ONLY <4>1, Concat
    <3>5. Len(v) + 1 = Len(u) /\ 1 \in Nat /\ Len(v) \in Nat
      BY <1>1, <1>11, <3>2, <3>4
    <3>6. ASSUME NEW k \in 1 .. Len(v) PROVE v[k] = u[1 + k]
      <4>1. CASE k <= Len(s)
        <5>1. k \in 1 .. Len(s) /\ 1 + k \in 1 .. Len(q) /\ k + 1 = 1 + k /\ k \in 1 .. Len(q) - 1
          BY <1>1, <3>2, <4>1
        <5>2. QED
          BY <1>11, <3>2, <3>4, <5>1
      <4>2. CASE ~(k <= Len(s))
        <5>1. k - Len(s) \in 1 .. Len(t) /\ Len(s) + (k - Len(s)) = k /\ Len(q) + (k - Len(s)) = 1 + k
          BY <1>1, <3>2, <3>4, <4>2
        <5>2. QED
          BY <1>11, <3>4, <5>1
      <4>3. QED
        BY <4>1, <4>2
    <3>7. Line(v, at)
      <4>1. CASE Len(v) = 0
        BY <4>1 DEF Line
      <4>2. CASE Len(v) # 0
        <5>1. v[1] = u[1 + 1] /\ 1 + 1 \in 1 .. Len(u) /\ \A k \in 2 .. Len(v) : v[k] = u[1 + k]
          BY <3>5, <3>6, <4>2
        <5>2. OfItems(From(v[1], at))
          BY <1>12, <5>1 DEF Line
        <5>3. Len(v) > 0
          BY <3>5, <4>2
        <5>4. QED
          BY <1>12, <3>5, <5>1, <5>2, <5>3, LineFront
      <4>3. QED
        BY <4>1, <4>2
    <3>8. QED
      BY <3>1, <3>2, <3>3, <3>4, <3>7 DEF Queues
  <2>3. QED
    BY <2>1, <2>2
<1> HIDE DEF left
<1>14. QED
  BY <1>2, <1>13, UnstitchLines

-----------------------------------------------------------------------------
(* What is read.                                                           *)

\* handles that hold the bytes of the stream one after another
Chain(q, at) ==
    /\ \A k \in 1 .. Len(q) : Reads(q[k], at)
    /\ \A k \in 1 .. Len(q) - 1 : From(q[k + 1], at) = To(q[k], at)

\* The front part of a line is a chain.
LEMMA LineIsChain ==
    ASSUME NEW at \in Bases, NEW w \in Seq(Handles), Line(w, at),
           NEW q \in Seq(Handles), Len(q) <= Len(w), \A k \in 1 .. Len(q) : q[k] = w[k]
    PROVE  Chain(q, at)
<1>1. ASSUME NEW k \in 1 .. Len(q) PROVE Reads(q[k], at)
  <2>1. k \in 1 .. Len(w)
    OBVIOUS
  <2>2. QED
    BY <2>1 DEF Line, Lies
<1>2. ASSUME NEW k \in 1 .. Len(q) - 1 PROVE From(q[k + 1], at) = To(q[k], at)
  <2>1. k \in 1 .. Len(w) - 1 /\ k \in 1 .. Len(q) /\ k + 1 \in 1 .. Len(q)
    OBVIOUS
  <2>2. QED
    BY <2>1 DEF Line, Follows
<1>3. QED
  BY <1>1, <1>2 DEF Chain

\* a handle begins as far behind the first as the handles before it are long
LEMMA ChainUpto ==
    ASSUME NEW at \in Bases, NEW q \in Seq(Handles), Chain(q, at), NEW k \in 1 .. Len(q)
    PROVE  /\ From(q[k], at) = From(q[1], at) + Upto(q)[k - 1]
           /\ To(q[k], at) = From(q[1], at) + Upto(q)[k]
<1> DEFINE T == {i \in Nat : i + 1 <= Len(q) => From(q[i + 1], at) = From(q[1], at) + Upto(q)[i]}
<1>1. /\ IsQueue(q) /\ Len(q) \in Nat /\ \A i \in 1 .. Len(q) : q[i] \in Handles
  BY HandlesAreQueue
<1>2. ASSUME NEW i \in 1 .. Len(q)
      PROVE  /\ To(q[i], at) = From(q[i], at) + q[i].length /\ From(q[i], at) \in Nat
             /\ Upto(q)[i] = Upto(q)[i - 1] + q[i].length
             /\ Upto(q)[i - 1] \in Nat /\ q[i].length \in Nat
  <2>1. i - 1 \in 0 .. Len(q)
    BY <1>1
  <2>2. QED
    BY <1>1, <2>1, HandleParts, UptoDef
<1>3. 0 \in T
  <2>1. Upto(q)[0] = 0 /\ 1 \in 1 .. Len(q)
    BY <1>1, UptoDef
  <2>2. From(q[1], at) \in Nat
    BY <1>2, <2>1
  <2>3. QED
    BY <2>1, <2>2
<1>4. ASSUME NEW i \in Nat, i \in T PROVE i + 1 \in T
  <2>1. SUFFICES ASSUME (i + 1) + 1 <= Len(q)
                 PROVE  From(q[(i + 1) + 1], at) = From(q[1], at) + Upto(q)[i + 1]
    OBVIOUS
  <2>2. i + 1 \in 1 .. Len(q) /\ i + 1 \in 1 .. Len(q) - 1 /\ (i + 1) - 1 = i /\ 1 \in 1 .. Len(q)
    BY <1>1, <2>1
  <2>3. From(q[i + 1], at) = From(q[1], at) + Upto(q)[i]
    BY <1>4, <2>2
  <2>4. From(q[(i + 1) + 1], at) = To(q[i + 1], at)
    BY <2>2 DEF Chain
  <2>5. To(q[i + 1], at) = From(q[i + 1], at) + q[i + 1].length
        /\ Upto(q)[i + 1] = Upto(q)[i] + q[i + 1].length /\ From(q[1], at) \in Nat
        /\ Upto(q)[i] \in Nat /\ q[i + 1].length \in Nat
    BY <1>2, <2>2
  <2>6. QED
    BY <2>3, <2>4, <2>5
<1> HIDE DEF T
<1>5. k - 1 \in T
  <2>1. k - 1 \in Nat
    BY <1>1
  <2>2. QED
    BY <1>3, <1>4, <2>1, SetInduction
<1>6. (k - 1) + 1 = k /\ k <= Len(q) /\ 1 \in 1 .. Len(q)
  BY <1>1
<1>7. From(q[k], at) = From(q[1], at) + Upto(q)[k - 1]
  BY <1>5, <1>6 DEF T
<1>8. /\ To(q[k], at) = From(q[k], at) + q[k].length /\ Upto(q)[k] = Upto(q)[k - 1] + q[k].length
      /\ From(q[1], at) \in Nat /\ Upto(q)[k - 1] \in Nat /\ q[k].length \in Nat
  BY <1>2, <1>6
<1>9. QED
  BY <1>7, <1>8

\* what is read through the handles are the bytes of the stream in their order
LEMMA ChainContents ==
    ASSUME CellsOK, NEW at \in Bases, NEW q \in Queues, Chain(q, at),
           NEW y \in 1 .. Total(q)
    PROVE  Contents(q)[y] = From(q[1], at) + y
<1> DEFINE T == {i \in Nat : i <= Len(q) =>
                    \A z \in 1 .. Upto(q)[i] : Contents(q)[z] = From(q[1], at) + z}
<1>1. /\ q \in Seq(Handles) /\ IsQueue(q) /\ Len(q) \in Nat
      /\ \A k \in 1 .. Len(q) : q[k] \in Handles
  BY HandlesAreQueue DEF Queues
<1>2. Upto(q) \in [0 .. Len(q) -> Nat] /\ Upto(q)[0] = 0
  BY <1>1, UptoDef
<1>3. 0 \in T
  BY <1>2
<1>4. ASSUME NEW i \in Nat, i \in T PROVE i + 1 \in T
  <2>1. SUFFICES ASSUME i + 1 <= Len(q), NEW z \in 1 .. Upto(q)[i + 1]
                 PROVE  Contents(q)[z] = From(q[1], at) + z
    OBVIOUS
  <2>2. i + 1 \in 1 .. Len(q) /\ (i + 1) - 1 = i /\ i <= Len(q) /\ i \in 0 .. Len(q) /\ 1 \in 1 .. Len(q)
    BY <1>1, <2>1
  <2>3. Upto(q)[i + 1] = Upto(q)[i] + q[i + 1].length /\ Upto(q)[i] \in Nat /\ q[i + 1].length \in Nat
    BY <1>1, <1>2, <2>2, UptoDef DEF IsQueue
  <2>4. CASE z <= Upto(q)[i]
    BY <1>4, <2>2, <2>3, <2>4
  <2>5. CASE ~(z <= Upto(q)[i])
    <3> DEFINE x == z - Upto(q)[i]
    <3>1. x \in 1 .. q[i + 1].length /\ Upto(q)[i] + x = z
      BY <2>3, <2>5
    <3> HIDE DEF x
    <3>2. Contents(q)[z] = Byte(At(q[i + 1], x - 1))
      BY <2>2, <3>1, ContentsAre
    <3>3. PICK h \in Handles : h = q[i + 1]
      BY <1>1, <2>2
    <3>4. /\ h.memory \in Nat /\ h.offset \in Nat /\ at[h.buf] \in Nat /\ h.length \in Nat
      BY <3>3, HandleParts
    <3>5. h.offset + (x - 1) \in 0 .. Used(h) - 1
          /\ h.memory + h.offset + (x - 1) = h.memory + (h.offset + (x - 1))
      BY <3>1, <3>3, <3>4 DEF Used
    <3>6. Reads(h, at)
      BY <2>2, <3>3 DEF Chain
    <3>7. Byte(At(h, x - 1)) = at[h.buf] + (h.offset + (x - 1)) + 1
      BY <3>5, <3>6 DEF Reads, At
    <3>8. From(h, at) = From(q[1], at) + Upto(q)[i]
      BY <1>1, <2>2, <3>3, ChainUpto
    <3>9. From(q[1], at) \in Nat
      BY <1>1, <2>2, HandleParts
    <3>10. at[h.buf] + (h.offset + (x - 1)) + 1 = (at[h.buf] + h.offset) + x
      BY <3>1, <3>3, <3>4
    <3>11. Contents(q)[z] = (From(q[1], at) + Upto(q)[i]) + x
      BY <3>2, <3>3, <3>7, <3>8, <3>10 DEF From
    <3>12. QED
      BY <2>3, <3>1, <3>9, <3>11
  <2>6. QED
    BY <2>3, <2>4, <2>5
<1> HIDE DEF T
<1>5. Len(q) \in T
  BY <1>1, <1>3, <1>4, SetInduction
<1>6. QED
  BY <1>1, <1>5 DEF T, Total

-----------------------------------------------------------------------------
(* Memory that is written.                                                 *)

\* bytes that are written are read back, and the others stay
LEMMA WrittenIs ==
    ASSUME CellsOK, NEW s \in Handles, NEW n \in Nat, NEW values, DOMAIN values = 1 .. n,
           cells' = Written(s, values), NEW a, a = Area(s.buf)
    PROVE  /\ \A b \in Areas \ {a} : cells'[b] = cells[b]
           /\ \A x : (\A k \in 1 .. n : Place(At(s, k - 1)) # Place(<<a, x>>))
                        => Byte(<<a, x>>)' = Byte(<<a, x>>)
           /\ \A k \in 1 .. n :
                 (/\ Place(At(s, k - 1)) \in 0 .. Length(a) - 1
                  /\ \A j \in 1 .. n : Place(At(s, j - 1)) = Place(At(s, k - 1)) => j = k)
                     => Byte(At(s, k - 1))' = values[k]
<1> DEFINE new == [p \in DOMAIN cells[a] |->
                      IF \E k \in 1 .. n : Place(At(s, k - 1)) = p
                      THEN values[CHOOSE k \in 1 .. n : Place(At(s, k - 1)) = p]
                      ELSE cells[a][p]]
<1>1. a \in Areas
  BY AreaIsArea DEF Handles
<1>2. cells' = [cells EXCEPT ![a] = new]
  BY DEF Written
<1>3. cells = [b \in Areas |-> cells[b]] /\ DOMAIN cells[a] = 0 .. Length(a) - 1
  BY <1>1 DEF CellsOK
<1>4. \A k \in 1 .. n : At(s, k - 1)[1] = a
  BY DEF At
<1>5. cells'[a] = new /\ \A b \in Areas \ {a} : cells'[b] = cells[b]
  <2> HIDE DEF new
  <2> QED
    BY <1>1, <1>2, <1>3
<1>6. ASSUME NEW x, \A k \in 1 .. n : Place(At(s, k - 1)) # Place(<<a, x>>)
      PROVE  Byte(<<a, x>>)' = Byte(<<a, x>>)
  <2>1. PICK y : y = Place(<<a, x>>)
    OBVIOUS
  <2>2. Byte(<<a, x>>) = IF y \in DOMAIN cells[a] THEN cells[a][y] ELSE 0
    BY <2>1 DEF Byte
  <2>3. Byte(<<a, x>>)' = IF y \in DOMAIN new THEN new[y] ELSE 0
    BY <1>5, <2>1 DEF Byte, Place, Cell
  <2>4. ~ \E k \in 1 .. n : Place(At(s, k - 1)) = y
    BY <1>6, <2>1
  <2>5. QED
    BY <2>2, <2>3, <2>4
<1>7. ASSUME NEW k \in 1 .. n, Place(At(s, k - 1)) \in 0 .. Length(a) - 1,
             \A j \in 1 .. n : Place(At(s, j - 1)) = Place(At(s, k - 1)) => j = k
      PROVE  Byte(At(s, k - 1))' = values[k]
  <2>1. PICK y : y = Place(At(s, k - 1))
    OBVIOUS
  <2>2. Byte(At(s, k - 1))' = IF y \in DOMAIN new THEN new[y] ELSE 0
    BY <1>4, <1>5, <2>1 DEF Byte, Place, Cell, At
  <2>3. (CHOOSE j \in 1 .. n : Place(At(s, j - 1)) = y) = k
    BY <1>7, <2>1
  <2>4. y \in DOMAIN new /\ new[y] = values[k]
    BY <1>3, <1>7, <2>1, <2>3
  <2>5. QED
    BY <2>2, <2>4
<1>8. QED
  BY <1>5, <1>6, <1>7

\* a handle reads what it read, if no byte of it was written
LEMMA ReadsStay ==
    ASSUME NEW h \in Handles, NEW at, NEW at2, at2[h.buf] = at[h.buf], Reads(h, at),
           \A x \in 0 .. Used(h) - 1 :
               Byte(<<Area(h.buf), h.memory + x>>)' = Byte(<<Area(h.buf), h.memory + x>>)
    PROVE  Reads(h, at2)'
  BY DEF Reads, Used, Byte, Place, Cell

\* ... and none was, if the memory of its buffer was left alone
LEMMA ReadsElsewhere ==
    ASSUME NEW h \in Handles, NEW at, NEW at2, at2[h.buf] = at[h.buf], Reads(h, at),
           cells'[Area(h.buf)] = cells[Area(h.buf)]
    PROVE  Reads(h, at2)'
<1>1. ASSUME NEW x \in 0 .. Used(h) - 1
      PROVE  Byte(<<Area(h.buf), h.memory + x>>)' = Byte(<<Area(h.buf), h.memory + x>>)
  BY DEF Byte, Place, Cell
<1>2. QED
  BY <1>1, ReadsStay

-----------------------------------------------------------------------------
(* The pool, and the invariant.                                            *)

\* only the first buffer of the pool has bytes, which are the last produced
PoolOK(at) ==
    /\ kind # "pool" => pool = <<>>
    /\ \A j, k \in 1 .. Len(pool) : j # k => pool[j].buf # pool[k].buf
    /\ \A k \in 1 .. Len(pool) :
          /\ InPool(pool[k]) /\ pool[k].memory = 0 /\ pool[k].length = 0
          /\ pool[k].offset <= PoolLen \div 2 /\ OfItems(pool[k].offset)
          /\ k > 1 => pool[k].offset = 0
          /\ pool[k].offset = 0 => pool[k].last = Null
          /\ pool[k].offset > 0 => /\ pool[k].last = At(pool[k], 0)
                                   /\ Reads(pool[k], at) /\ To(pool[k], at) = produced

\* a pointer to the end of the first mapping is also one to its start
LastOK == last = NoPtr \/ last = write \/ last = write + CircLen

LineAt(w, at) == w = Whole /\ Line(w, at) /\ PoolOK(at)

LineInv ==
    /\ OfItems(produced) /\ LastOK
    /\ \E at \in Bases : \E w \in Seq(Handles) : LineAt(w, at)

\* handles whose bytes end before those of the last do not go beyond produced
LEMMA LineEnds ==
    ASSUME NEW at \in Bases, NEW w \in Seq(Handles), Line(w, at), produced \in Nat,
           NEW k \in 1 .. Len(w)
    PROVE  To(w[k], at) <= produced
<1>1. Chain(w, at)
  BY LineIsChain
<1>2. IsQueue(w) /\ Len(w) \in Nat /\ 1 \in 1 .. Len(w) /\ w[1] \in Handles /\ Len(w) \in 1 .. Len(w)
      /\ k \in 0 .. Len(w) /\ Len(w) \in 0 .. Len(w) /\ k <= Len(w)
  BY HandlesAreQueue
<1>3. Upto(w)[k] <= Upto(w)[Len(w)] /\ Upto(w)[k] \in Nat /\ Upto(w)[Len(w)] \in Nat
  BY <1>2, UptoDef, UptoGrows
<1>4. To(w[k], at) = From(w[1], at) + Upto(w)[k]
      /\ To(w[Len(w)], at) = From(w[1], at) + Upto(w)[Len(w)]
  BY <1>1, <1>2, ChainUpto
<1>5. To(w[Len(w)], at) = produced /\ From(w[1], at) \in Nat
  BY <1>2, HandleParts DEF Line
<1>6. QED
  BY <1>3, <1>4, <1>5

\* The line stays as long as its handles lie where they did.
LEMMA LineKept ==
    ASSUME NEW at \in Bases, NEW at2 \in Bases, NEW w \in Seq(Handles), Line(w, at),
           produced' = produced,
           \A k \in 1 .. Len(w) : at2[w[k].buf] = at[w[k].buf] /\ Lies(w[k], at2)',
           \A j, k \in 1 .. Len(w) : j < k => Before(w[j], w[k], at2)'
    PROVE  Line(w, at2)'
<1>1. ASSUME NEW k \in 1 .. Len(w)
      PROVE  From(w[k], at2)' = From(w[k], at) /\ To(w[k], at2)' = To(w[k], at)
  BY DEF From, To, Used
<1>2. ASSUME NEW k \in 1 .. Len(w) PROVE OfItems(From(w[k], at2))'
  BY <1>1 DEF Line, OfItems
<1>3. ASSUME NEW k \in 1 .. Len(w) - 1 PROVE Follows(w[k], w[k + 1], at2)'
  <2>1. k \in 1 .. Len(w) /\ k + 1 \in 1 .. Len(w)
    OBVIOUS
  <2>2. Linked(w[k + 1])' <=> Linked(w[k + 1])
    BY DEF Linked, InRing, At
  <2>3. QED
    BY <1>1, <2>1, <2>2 DEF Line, Follows
<1>4. Len(w) > 0 => To(w[Len(w)], at2)' = produced'
  <2>1. Len(w) > 0 => Len(w) \in 1 .. Len(w)
    OBVIOUS
  <2>2. QED
    BY <1>1, <2>1 DEF Line
<1>5. QED
  BY <1>2, <1>3, <1>4 DEF Line

\* What is produced goes to the end of the line.
LEMMA LineGrows ==
    ASSUME NEW at \in Bases, NEW at2 \in Bases, NEW w \in Seq(Handles), Line(w, at),
           NEW h \in Handles, NEW v \in Seq(Handles), Len(v) = Len(w) + 1,
           \A k \in 1 .. Len(w) : v[k] = w[k], v[Len(w) + 1] = h,
           \A k \in 1 .. Len(w) : /\ at2[w[k].buf] = at[w[k].buf] /\ Lies(w[k], at2)'
                                  /\ Before(w[k], h, at2)',
           \A j, k \in 1 .. Len(w) : j < k => Before(w[j], w[k], at2)',
           Lies(h, at2)', Linked(h), From(h, at2) = produced, OfItems(produced),
           To(h, at2) = produced'
    PROVE  Line(v, at2)'
<1> DEFINE n == Len(w)
<1>0. n \in Nat /\ Len(v) = n + 1 /\ v[n + 1] = h
  OBVIOUS
<1>1. ASSUME NEW k \in 1 .. n
      PROVE  From(w[k], at2)' = From(w[k], at) /\ To(w[k], at2)' = To(w[k], at)
  BY DEF From, To, Used
<1>2. From(h, at2)' = produced /\ To(h, at2)' = produced'
  BY DEF From, To, Used
<1>3. ASSUME NEW k \in 1 .. n PROVE OfItems(From(w[k], at2))'
  BY <1>1 DEF Line, OfItems
<1>4. ASSUME NEW k \in 1 .. n - 1 PROVE Follows(w[k], w[k + 1], at2)'
  <2>1. k \in 1 .. n /\ k + 1 \in 1 .. n
    OBVIOUS
  <2>2. Linked(w[k + 1])' <=> Linked(w[k + 1])
    BY DEF Linked, InRing, At
  <2>3. QED
    BY <1>1, <2>1, <2>2 DEF Line, Follows
<1>5. n > 0 => Follows(w[n], h, at2)'
  <2>1. SUFFICES ASSUME n > 0 PROVE Follows(w[n], h, at2)'
    OBVIOUS
  <2>2. n \in 1 .. n /\ To(w[n], at) = produced
    BY <2>1 DEF Line
  <2>3. Linked(h)'
    BY DEF Linked, InRing, At
  <2>4. QED
    BY <1>1, <1>2, <2>2, <2>3 DEF Follows
<1>6. OfItems(From(h, at2))'
  BY <1>2 DEF OfItems
<1>7. \A k \in 1 .. n : v[k] = w[k]
  OBVIOUS
<1> HIDE DEF n
<1>8. ASSUME NEW k \in 1 .. n + 1 PROVE Lies(v[k], at2)' /\ OfItems(From(v[k], at2))'
  <2>1. CASE k = n + 1
    BY <1>0, <1>6, <2>1
  <2>2. CASE k # n + 1
    <3>1. k \in 1 .. n
      BY <1>0, <2>2
    <3>2. QED
      BY <1>3, <1>7, <3>1 DEF n
  <2>3. QED
    BY <2>1, <2>2
<1>9. ASSUME NEW j \in 1 .. n + 1, NEW k \in 1 .. n + 1, j < k PROVE Before(v[j], v[k], at2)'
  <2>1. j \in 1 .. n
    BY <1>0, <1>9
  <2>2. CASE k = n + 1
    BY <1>0, <1>7, <2>1, <2>2 DEF n
  <2>3. CASE k # n + 1
    <3>1. k \in 1 .. n
      BY <1>0, <2>3
    <3>2. QED
      BY <1>7, <1>9, <2>1, <3>1 DEF n
  <2>4. QED
    BY <2>2, <2>3
<1>10. ASSUME NEW k \in 1 .. n PROVE Follows(v[k], v[k + 1], at2)'
  <2>1. CASE k = n
    <3>1. v[k] = w[n] /\ v[k + 1] = h /\ n > 0
      BY <1>0, <1>7, <2>1
    <3>2. QED
      BY <1>5, <3>1
  <2>2. CASE k # n
    <3>1. k \in 1 .. n - 1 /\ k + 1 \in 1 .. n /\ k \in 1 .. n
      BY <1>0, <2>2
    <3>2. QED
      BY <1>4, <1>7, <3>1
  <2>3. QED
    BY <2>1, <2>2
<1>11. To(v[n + 1], at2)' = produced'
  BY <1>0, <1>2
<1>12. Len(v) - 1 = n
  BY <1>0
<1>13. QED
  BY <1>0, <1>8, <1>9, <1>10, <1>11, <1>12 DEF Line

-----------------------------------------------------------------------------
(* The upstream block produces.                                            *)

\* what a pop changes for the buffers that are away
LEMMA PopMoves ==
    ASSUME CircInv, NEW n \in 1 .. BuffLen, CircPop(n), NEW i, i = Head(available)
    PROVE  /\ i \in Slots /\ i \notin Away /\ i \in Away' /\ available # <<>>
           /\ memory'[i] = write /\ behind'[i] = n /\ write \in 0 .. CircLen
           /\ \A k \in Slots : Dist(k)' = Dist(k) /\ Dist(k) \in Int
           /\ \A k \in Away : /\ k \in Slots /\ k # i /\ k \in Away'
                              /\ behind[k] \in Nat /\ behind[k] + BuffLen <= CircLen
                              /\ behind'[k] = behind[k] + n /\ memory'[k] = memory[k]
                              /\ Dist(k) < Dist(i)
<1>1. /\ CircTypeOK /\ QueueOrder /\ ReturnedOut /\ Len(available) <= NumBuffs
      /\ available # <<>> /\ available \in Seq(Slots)
  BY DEF CircInv, CircPop, CircEmpty, CircTypeOK
<1>2. /\ i \in Slots /\ i = available[1] /\ i \in Queued /\ Len(available) \in Nat \ {0}
      /\ available' = Tail(available) /\ Len(available') = Len(available) - 1
      /\ \A k \in 1 .. Len(available) - 1 : available'[k] = available[k + 1]
      /\ available' \in Seq(Slots)
  BY <1>1 DEF Queued, CircPop
<1>3. i \notin Away
  BY <1>2 DEF Away
<1>4. /\ returned' = returned /\ ack_index' = ack_index
      /\ memory' = [memory EXCEPT ![i] = write]
      /\ behind' = [j \in Slots |-> IF j = i THEN n
                                    ELSE IF j \in Queued THEN 0 ELSE behind[j] + n]
  BY DEF CircPop
<1>5. /\ memory \in [Slots -> 0 .. CircLen] /\ write \in 0 .. CircLen /\ ack_index \in Slots
      /\ NumBuffs \in Nat \ {0}
  BY <1>1, CircAssumption DEF CircTypeOK
<1>6. memory'[i] = write /\ behind'[i] = n
  BY <1>2, <1>4, <1>5
<1>7. \A k \in Slots : Dist(k)' = Dist(k) /\ Dist(k) \in Int
  <2>1. \A k \in Slots : Dist(k) \in 0 .. NumBuffs - 1
    BY <1>5, DistIsOneToOne
  <2>2. QED
    BY <1>4, <2>1 DEF Dist
<1>8. \A k \in 1 .. Len(available) : Dist(available[k]) = Out + k - 1
  BY <1>1 DEF QueueOrder
<1>9. Dist(i) = Out /\ Out \in Int
  <2>1. 1 \in 1 .. Len(available) /\ Out \in Int /\ Out + 1 - 1 = Out
    BY <1>2, <1>5 DEF Out
  <2>2. QED
    BY <1>2, <1>8, <2>1
<1>10. i \notin Queued'
  <2>1. SUFFICES ASSUME NEW k \in 1 .. Len(available) - 1, available[k + 1] = i PROVE FALSE
    BY <1>2 DEF Queued
  <2>2. k + 1 \in 1 .. Len(available) /\ Out + (k + 1) - 1 # Out
    BY <1>2, <1>9
  <2>3. QED
    BY <1>8, <1>9, <2>1, <2>2
<1>11. i \notin returned
  BY <1>1, <1>9 DEF ReturnedOut, IsOut
<1>12. Queued' \subseteq Queued
  <2>1. SUFFICES ASSUME NEW k \in 1 .. Len(available) - 1 PROVE available[k + 1] \in Queued
    BY <1>2 DEF Queued
  <2>2. k + 1 \in DOMAIN available
    BY <1>2
  <2>3. QED
    BY <2>2 DEF Queued
<1>13. i \in Away'
  BY <1>2, <1>4, <1>10, <1>11 DEF Away, Slots
<1>14. ASSUME NEW k \in Away
       PROVE  /\ k \in Slots /\ k # i /\ k \in Away'
              /\ behind[k] \in Nat /\ behind[k] + BuffLen <= CircLen
              /\ behind'[k] = behind[k] + n /\ memory'[k] = memory[k]
              /\ Dist(k) < Dist(i)
  <2>1. k \in Slots /\ IsOut(k) /\ k # i /\ k \notin Queued /\ k \notin returned
    BY <1>3, AwayIsOut DEF Away
  <2>2. behind[k] \in Nat /\ behind[k] + BuffLen <= CircLen
    BY <1>1, <2>1, BehindIsBounded
  <2>3. k \in Away'
    BY <1>4, <1>12, <2>1 DEF Away, Slots
  <2>4. behind'[k] = behind[k] + n /\ memory'[k] = memory[k]
    BY <1>4, <1>5, <2>1
  <2>5. QED
    BY <1>9, <2>1, <2>2, <2>3, <2>4 DEF IsOut
<1>15. QED
  BY <1>1, <1>2, <1>3, <1>5, <1>6, <1>7, <1>13, <1>14

\* What is produced is the last handle of the line.
LEMMA ProduceWhole ==
    ASSUME StreamInv, NEW s \in Ordinary, NEW n \in Nat, Produce(s, n)
    PROVE  \E h \in Handles : \E v \in Seq(Handles) :
              /\ h.buf = s.buf /\ h.memory = s.memory /\ h.offset = s.offset
              /\ h.last = s.last /\ h.length = n
              /\ v = Whole' /\ Len(v) = Len(Whole) + 1 /\ v[Len(Whole) + 1] = h
              /\ \A k \in 1 .. Len(Whole) : v[k] = Whole[k]
<1>1. PICK h : h = [s EXCEPT !.length = n]
  OBVIOUS
<1>2. h \in Handles /\ h.buf = s.buf /\ h.memory = s.memory /\ h.offset = s.offset
      /\ h.last = s.last /\ h.length = n
  BY <1>1 DEF Ordinary, Handles
<1>3. /\ Whole \in Seq(Handles) /\ inq \in Seq(Handles) /\ sent \in Seq(Handles)
  BY WholeIs
<1>4. Whole' = inq \o Append(sent, h)
  BY <1>1 DEF Produce, Whole, input
<1>5. PICK w \in Seq(Handles) : w = Whole
  BY <1>3
<1>6. Whole' = Append(w, h)
  <2>1. inq \o Append(sent, h) = Append(inq \o sent, h)
    BY <1>2, <1>3
  <2>2. QED
    BY <1>4, <1>5, <2>1 DEF Whole
<1>7. PICK v : v = Append(w, h)
  OBVIOUS
<1>8. v \in Seq(Handles) /\ Len(v) = Len(w) + 1 /\ v[Len(w) + 1] = h
      /\ \A k \in 1 .. Len(w) : v[k] = w[k]
  BY <1>2, <1>5, <1>7
<1>9. QED
  BY <1>2, <1>5, <1>6, <1>7, <1>8

\* What the write pointer passes belongs to no handle: the handles keep what
\* they read, and the new one reads what was produced.
LEMMA RingReads ==
    ASSUME StreamInv, CircInv, NEW at \in Bases, NEW at2 \in Bases,
           NEW n \in 1 .. BuffLen, CircPop(n), NEW s \in Ordinary, Produce(s, n),
           s.buf = <<"ring", Head(available)>>, s.memory = write, s.offset = 0,
           at2[s.buf] = produced
    PROVE  /\ \A g \in Handles : (Lies(g, at) /\ at2[g.buf] = at[g.buf]) => Reads(g, at2)'
           /\ \A h \in Handles : (h.buf = s.buf /\ h.memory = write /\ Used(h) = n)
                                    => Reads(h, at2)'
<1>0. PICK values : values = NewBytes(n)
  OBVIOUS
<1>1. CellsOK /\ s \in Handles /\ produced \in Nat /\ n \in Nat /\ BuffLen \in Nat /\ CircLen \in Nat
      /\ n <= BuffLen /\ BuffLen <= CircLen
  <2>1. 1 * BuffLen <= CircLen
    <3>1. 1 \in 0 .. NumBuffs
      BY CircAssumption
    <3>2. QED
      BY <3>1, RingHolds
  <2>2. QED
    BY <2>1, CircAssumption DEF StreamInv, Ordinary
<1>2. /\ write \in 0 .. CircLen /\ available # <<>>
      /\ \A k \in Away : behind[k] \in Nat /\ behind[k] + BuffLen <= CircLen
  BY PopMoves
<1>3. cells' = Written(s, values) /\ DOMAIN values = 1 .. n
      /\ \A k \in 1 .. n : values[k] = produced + k
  BY <1>0 DEF Produce, NewBytes
<1>3a. PICK a : a = Ring
  OBVIOUS
<1>4. Area(s.buf) = a /\ Length(a) = CircLen /\ a = Ring
  BY <1>3a DEF Area, Length
<1>5. \A l \in 1 .. n : At(s, l - 1) = <<a, write + (l - 1)>> /\ Place(At(s, l - 1)) = Cell(write + (l - 1))
  <2>1. \A l \in 1 .. n : write + 0 + (l - 1) = write + (l - 1)
    BY <1>1, <1>2
  <2>2. QED
    BY <1>4, <2>1 DEF At, Place
<1>6. /\ \A b \in Areas \ {a} : cells'[b] = cells[b]
      /\ \A x : (\A k \in 1 .. n : Place(At(s, k - 1)) # Place(<<a, x>>))
                   => Byte(<<a, x>>)' = Byte(<<a, x>>)
      /\ \A k \in 1 .. n :
            (/\ Place(At(s, k - 1)) \in 0 .. Length(a) - 1
             /\ \A j \in 1 .. n : Place(At(s, j - 1)) = Place(At(s, k - 1)) => j = k)
                => Byte(At(s, k - 1))' = values[k]
  <2>1. /\ CellsOK /\ s \in Handles /\ n \in Nat /\ DOMAIN values = 1 .. n
        /\ cells' = Written(s, values) /\ a = Area(s.buf)
    BY <1>1, <1>3, <1>4
  <2>2. QED
    BY ONLY <2>1, WrittenIs
<1>7. ASSUME NEW g \in Handles, Lies(g, at), at2[g.buf] = at[g.buf] PROVE Reads(g, at2)'
  <2>1. Reads(g, at)
    BY <1>7 DEF Lies
  <2>2. CASE ~InRing(g)
    <3>1. Area(g.buf) \in Areas /\ Area(g.buf) # a
      BY <1>4, <1>7, <2>2, HandleParts DEF InRing, Ring
    <3>2. QED
      BY <1>6, <1>7, <2>1, <3>1, ReadsElsewhere
  <2>3. CASE InRing(g)
    <3>1. /\ Area(g.buf) = a /\ Used(g) \in Nat /\ g.memory \in Nat /\ Slot(g) \in Away
      BY <1>4, <1>7, <2>3, HandleParts DEF Lies, RingLies
    <3>2. /\ behind[Slot(g)] \in Nat /\ behind[Slot(g)] + BuffLen <= CircLen
          /\ Used(g) <= behind[Slot(g)]
          /\ \/ g.memory = write - behind[Slot(g)]
             \/ g.memory = write - behind[Slot(g)] + CircLen
             \/ g.memory = write - behind[Slot(g)] + 2 * CircLen
      BY <1>2, <1>7, <2>3, <3>1, RingBounds
    <3>3. ASSUME NEW x \in 0 .. Used(g) - 1, NEW l \in 1 .. n
          PROVE  Cell(write + (l - 1)) # Cell(g.memory + x)
      <4> DEFINE p == write - behind[Slot(g)] + x
                 q == write + (l - 1)
      <4>1. p \in Int /\ q \in Int /\ p < q /\ q - p < CircLen
        <5>1. PICK b, u : b = behind[Slot(g)] /\ u = Used(g)
          OBVIOUS
        <5>2. b \in Nat /\ u \in Nat /\ b + BuffLen <= CircLen /\ u <= b /\ x \in 0 .. u - 1
          BY <3>1, <3>2, <5>1
        <5>3. write - b + x \in Int /\ q \in Int /\ write - b + x < q /\ q - (write - b + x) < CircLen
          BY <1>1, <1>2, <5>2
        <5>4. QED
          BY <5>1, <5>3
      <4>2. /\ g.memory + x \in Int
            /\ \/ g.memory + x = p
               \/ g.memory + x = p + CircLen
               \/ g.memory + x = p + 2 * CircLen
        <5>1. PICK b, c, m : b = behind[Slot(g)] /\ c = CircLen /\ m = g.memory
          OBVIOUS
        <5>2. b \in Nat /\ c \in Nat /\ m \in Nat /\ x \in Int /\ write \in Int
              /\ (m = write - b \/ m = write - b + c \/ m = write - b + 2 * c)
          BY <1>1, <1>2, <3>1, <3>2, <5>1
        <5>3. m + x \in Int /\ \/ m + x = write - b + x
                               \/ m + x = write - b + x + c
                               \/ m + x = write - b + x + 2 * c
          BY <5>2
        <5>4. QED
          BY <5>1, <5>3
      <4> HIDE DEF p
      <4>3. QED
        BY <1>1, <4>1, <4>2, DifferentCells
    <3>4. ASSUME NEW x \in 0 .. Used(g) - 1
          PROVE  Byte(<<Area(g.buf), g.memory + x>>)' = Byte(<<Area(g.buf), g.memory + x>>)
      <4>1. Place(<<a, g.memory + x>>) = Cell(g.memory + x)
        BY <1>4 DEF Place
      <4>2. \A l \in 1 .. n : Place(At(s, l - 1)) # Place(<<a, g.memory + x>>)
        BY <1>5, <3>3, <4>1
      <4>3. QED
        BY <1>6, <3>1, <4>2
    <3>5. QED
      BY <1>7, <2>1, <3>4, ReadsStay
  <2>4. QED
    BY <2>2, <2>3
<1>8. ASSUME NEW h \in Handles, h.buf = s.buf, h.memory = write, Used(h) = n
      PROVE  Reads(h, at2)'
  <2>1. SUFFICES ASSUME NEW x \in 0 .. n - 1
                 PROVE  Byte(<<Area(h.buf), h.memory + x>>)' = at2[h.buf] + x + 1
    BY <1>8 DEF Reads, Used
  <2>2. x + 1 \in 1 .. n /\ (x + 1) - 1 = x
    BY <1>1
  <2>3. Cell(write + x) \in 0 .. Length(a) - 1
    BY <1>1, <1>2, <1>4 DEF Cell
  <2>4. ASSUME NEW j \in 1 .. n, Cell(write + (j - 1)) = Cell(write + x) PROVE j = x + 1
    BY <1>1, <1>2, <2>4 DEF Cell
  <2>5. Byte(At(s, (x + 1) - 1))' = values[x + 1]
    BY <1>5, <1>6, <2>2, <2>3, <2>4
  <2>6. At(s, (x + 1) - 1) = <<Area(h.buf), h.memory + x>>
    BY <1>4, <1>5, <1>8, <2>2
  <2>7. Byte(At(s, (x + 1) - 1))' = Byte(<<Area(h.buf), h.memory + x>>)'
    BY <2>6 DEF Byte, Place, Cell, At
  <2>8. values[x + 1] = produced + (x + 1) /\ produced + (x + 1) = produced + x + 1
    BY <1>1, <1>3, <2>2
  <2>9. QED
    BY <1>8, <2>5, <2>7, <2>8
<1>9. QED
  BY <1>7, <1>8

\* A buffer of the ring joins the line at its end.
LEMMA ProduceRingLines ==
    ASSUME StreamInv, CircInv, OfItems(produced), LastOK,
           NEW at \in Bases, NEW w \in Seq(Handles), LineAt(w, at), ProduceRing
    PROVE  \E at2 \in Bases : \E v \in Seq(Handles) : LineAt(v, at2)'
<1>1. PICK i, l : i = Head(available) /\ l = IF last = NoPtr THEN Null ELSE <<Ring, last>>
  OBVIOUS
<1>2. PICK s : s = Handle(<<"ring", i>>, write, 0, l)
  OBVIOUS
<1>3. kind = "ring" /\ pool' = pool /\ posted' = posted
  BY DEF ProduceRing
<1>4. PICK n \in Items(BuffLen) : CircPop(n) /\ Produce(s, n)
  BY <1>1, <1>2 DEF ProduceRing
<1>5. n \in 1 .. BuffLen /\ OfItems(n) /\ n \in Nat /\ n >= 1
  BY CircAssumption DEF Items, OfItems
<1>6. w = Whole /\ Line(w, at) /\ PoolOK(at)
  BY DEF LineAt
<1>7. /\ i \in Slots /\ i \notin Away /\ i \in Away' /\ available # <<>>
      /\ memory'[i] = write /\ behind'[i] = n /\ write \in 0 .. CircLen
      /\ \A k \in Slots : Dist(k)' = Dist(k) /\ Dist(k) \in Int
      /\ \A k \in Away : /\ k \in Slots /\ k # i /\ k \in Away'
                         /\ behind[k] \in Nat /\ behind[k] + BuffLen <= CircLen
                         /\ behind'[k] = behind[k] + n /\ memory'[k] = memory[k]
                         /\ Dist(k) < Dist(i)
  BY <1>1, <1>4, <1>5, PopMoves
<1>8. PICK b : b = <<"ring", i>>
  OBVIOUS
<1>9. b \in Buffers /\ b \notin Aux /\ b[1] = "ring" /\ b[2] = i /\ write \in Nat /\ last \in Int
  BY <1>7, <1>8, CircAssumption DEF Buffers, Aux, CircInv, CircTypeOK
<1>10. l \in Pointers
  BY <1>1, <1>9, NullIsPointer DEF Pointers, Areas
<1>11. s \in Ordinary /\ s.buf = b /\ s.memory = write /\ s.offset = 0 /\ s.last = l
  BY <1>2, <1>8, <1>9, <1>10 DEF Handle, Handles, Ordinary
<1>12. PICK h \in Handles, v \in Seq(Handles) :
          /\ h.buf = b /\ h.memory = write /\ h.offset = 0 /\ h.last = l /\ h.length = n
          /\ v = Whole' /\ Len(v) = Len(w) + 1 /\ v[Len(w) + 1] = h
          /\ \A k \in 1 .. Len(w) : v[k] = w[k]
  BY <1>4, <1>5, <1>6, <1>11, ProduceWhole
<1>13. /\ produced \in Nat /\ produced' = produced + n /\ produced' \in Nat /\ kind' = kind
  BY <1>4, <1>5 DEF StreamInv, Produce, config
<1>14. PICK at2 : at2 = [at EXCEPT ![b] = produced]
  OBVIOUS
<1>15. at2 \in Bases /\ at2[b] = produced /\ \A c \in Buffers \ {b} : at2[c] = at[c]
  BY <1>9, <1>13, <1>14 DEF Bases
<1>16. /\ \A g \in Handles : (Lies(g, at) /\ at2[g.buf] = at[g.buf]) => Reads(g, at2)'
       /\ \A g \in Handles : (g.buf = b /\ g.memory = write /\ Used(g) = n) => Reads(g, at2)'
  BY <1>1, <1>4, <1>5, <1>8, <1>11, <1>15, RingReads
<1>17. Used(h) = n /\ InRing(h) /\ Slot(h) = i /\ ~InPool(h) /\ ~InUser(h)
  BY <1>5, <1>9, <1>12 DEF Used, InRing, InPool, InUser, Slot
<1>18. ASSUME NEW g \in Handles, Lies(g, at)
       PROVE  /\ at2[g.buf] = at[g.buf] /\ Lies(g, at2)' /\ ~InPool(g)
              /\ InRing(g) => /\ Slot(g) \in Away
                              /\ Ends(g)' = Ends(g) + n /\ Left(g)' = Left(g) + n
                              /\ Ends(g) \in Int /\ Left(g) \in Int /\ Ends(g) >= 0
  <2>1. g.buf # b /\ (InRing(g) => RingLies(g)) /\ ~InPool(g)
    BY <1>3, <1>7, <1>9, <1>18 DEF Lies, RingLies, InRing, InPool, Slot, PoolLies
  <2>2. at2[g.buf] = at[g.buf]
    BY <1>15, <2>1, HandleParts
  <2>3. Reads(g, at2)'
    BY <1>16, <1>18, <2>2
  <2>4. Used(g) \in Nat /\ g.offset \in Nat /\ Used(g)' = Used(g) /\ Slot(g)' = Slot(g)
    BY HandleParts DEF Used, Slot
  <2>5. InRing(g) => /\ RingLies(g)' /\ Slot(g) \in Away
                     /\ Ends(g)' = Ends(g) + n /\ Left(g)' = Left(g) + n
                     /\ Ends(g) \in Int /\ Left(g) \in Int /\ Ends(g) >= 0
    <3>1. SUFFICES ASSUME InRing(g)
                   PROVE  /\ RingLies(g)' /\ Slot(g) \in Away
                          /\ Ends(g)' = Ends(g) + n /\ Left(g)' = Left(g) + n
                          /\ Ends(g) \in Int /\ Left(g) \in Int /\ Ends(g) >= 0
      OBVIOUS
    <3>2. Slot(g) \in Away /\ g.memory = memory[Slot(g)] /\ Used(g) <= behind[Slot(g)]
      BY <2>1, <3>1 DEF RingLies
    <3>3. PICK j \in Away : j = Slot(g)
      BY <3>2
    <3>4. /\ j \in Away' /\ behind[j] \in Nat /\ behind'[j] = behind[j] + n /\ memory'[j] = memory[j]
      BY <1>7
    <3>5. RingLies(g)'
      BY <1>3, <1>5, <1>13, <2>4, <3>2, <3>3, <3>4 DEF RingLies
    <3>6. Ends(g)' = Ends(g) + n /\ Left(g)' = Left(g) + n /\ Ends(g) \in Int /\ Left(g) \in Int
          /\ Ends(g) >= 0
      BY <1>5, <2>4, <3>2, <3>3, <3>4 DEF Ends, Left
    <3>7. QED
      BY <3>2, <3>5, <3>6
  <2>6. Lies(g, at2)'
    BY <1>3, <1>13, <1>18, <2>1, <2>3, <2>5 DEF Lies, InRing, InPool, InUser, Used
  <2>7. QED
    BY <2>1, <2>2, <2>5, <2>6
<1>19. \A k \in 1 .. Len(w) : w[k] \in Handles /\ Lies(w[k], at)
  BY <1>6 DEF Line
<1>20. ASSUME NEW k \in 1 .. Len(w)
       PROVE  at2[w[k].buf] = at[w[k].buf] /\ Lies(w[k], at2)' /\ Before(w[k], h, at2)'
  <2>1. PICK g \in Handles : g = w[k]
    BY <1>19
  <2>2. /\ at2[g.buf] = at[g.buf] /\ Lies(g, at2)' /\ ~InPool(g)
        /\ InRing(g) => /\ Slot(g) \in Away
                        /\ Ends(g)' = Ends(g) + n /\ Ends(g) \in Int /\ Ends(g) >= 0
    BY <1>18, <1>19, <2>1
  <2>3. Left(h)' = n
    BY <1>5, <1>7, <1>12, <1>17 DEF Left, Slot
  <2>4. InRing(g) => Dist(Slot(g))' < Dist(Slot(h))'
    <3>1. SUFFICES ASSUME InRing(g) PROVE Dist(Slot(g))' < Dist(Slot(h))'
      OBVIOUS
    <3>2. PICK j \in Away : j = Slot(g)
      BY <2>2, <3>1
    <3>3. Dist(j) < Dist(i) /\ Dist(j)' = Dist(j) /\ Dist(i)' = Dist(i)
      BY <1>7
    <3>4. Dist(Slot(g))' = Dist(j)' /\ Dist(Slot(h))' = Dist(i)'
      BY <1>17, <3>2 DEF Slot, Dist
    <3>5. QED
      BY <3>3, <3>4
  <2>5. Before(g, h, at2)'
    BY <1>5, <2>2, <2>3, <2>4 DEF Before, InRing, InPool
  <2>6. QED
    BY <2>1, <2>2, <2>5
<1>21. ASSUME NEW j \in 1 .. Len(w), NEW k \in 1 .. Len(w), j < k
       PROVE  Before(w[j], w[k], at2)'
  <2>1. PICK f \in Handles, g \in Handles : f = w[j] /\ g = w[k]
    BY <1>19
  <2>2. Before(f, g, at) /\ Lies(f, at) /\ Lies(g, at)
    BY <1>6, <1>21, <2>1 DEF Line
  <2>3. /\ ~InPool(f)
        /\ InRing(f) => /\ Slot(f) \in Away /\ Ends(f)' = Ends(f) + n /\ Ends(f) \in Int
        /\ InRing(g) => /\ Slot(g) \in Away /\ Left(g)' = Left(g) + n /\ Left(g) \in Int
    BY <1>18, <2>2
  <2>4. \A c \in Away : Dist(c)' = Dist(c)
    BY <1>7
  <2>5. (InRing(f) => Dist(Slot(f))' = Dist(Slot(f))) /\ (InRing(g) => Dist(Slot(g))' = Dist(Slot(g)))
    BY <2>3, <2>4 DEF Slot
  <2>6. Before(f, g, at2)'
    BY <1>5, <2>2, <2>3, <2>5 DEF Before, InRing, InPool
  <2>7. QED
    BY <2>1, <2>6
<1>22. Lies(h, at2)'
  <2>1. Reads(h, at2)'
    BY <1>12, <1>16, <1>17
  <2>2. RingLies(h)'
    <3>1. Slot(h)' = i /\ Used(h)' = n
      BY <1>17 DEF Slot, Used
    <3>2. QED
      BY <1>3, <1>5, <1>7, <1>12, <1>13, <3>1 DEF RingLies
  <2>3. QED
    BY <1>5, <1>17, <2>1, <2>2 DEF Lies, InRing, InPool, InUser, Used
<1>23. Linked(h)
  <2>1. At(h, 0) = <<Ring, write>> /\ At(h, CircLen) = <<Ring, write + CircLen>>
    <3>1. Area(h.buf) = Ring
      BY <1>9, <1>12 DEF Area
    <3>2. write + 0 + 0 = write /\ write + 0 + CircLen = write + CircLen
      BY <1>9, CircAssumption
    <3>3. QED
      BY <1>12, <3>1, <3>2 DEF At
  <2>2. QED
    BY <1>1, <1>12, <1>17, <2>1 DEF LastOK, Linked
<1>24. From(h, at2) = produced /\ To(h, at2) = produced'
  BY <1>5, <1>12, <1>13, <1>15, <1>17 DEF From, To
<1>25. Line(v, at2)'
  BY <1>6, <1>12, <1>15, <1>20, <1>21, <1>22, <1>23, <1>24, LineGrows
<1>26. PoolOK(at2)'
  <2>1. pool = <<>> /\ kind' = "ring" /\ pool' = <<>>
    BY <1>3, <1>6, <1>13 DEF PoolOK
  <2>2. QED
    BY <2>1 DEF PoolOK
<1>27. LineAt(v, at2)'
  BY <1>12, <1>25, <1>26 DEF LineAt
<1>28. QED
  BY <1>15, <1>27

\* Bytes written to a buffer that has its own memory, behind those it has.
LEMMA PlainReads ==
    ASSUME CellsOK, NEW at \in Bases, NEW at2 \in Bases, NEW s \in Handles, NEW n \in Nat,
           ~InRing(s), s.memory = 0, s.offset + n <= Length(s.buf),
           NEW values, DOMAIN values = 1 .. n, cells' = Written(s, values),
           \A k \in 1 .. n : values[k] = at2[s.buf] + s.offset + k
    PROVE  /\ \A g \in Handles :
                 (/\ Reads(g, at) /\ at2[g.buf] = at[g.buf]
                  /\ g.buf = s.buf => g.memory = 0 /\ Used(g) <= s.offset)
                     => Reads(g, at2)'
           /\ \A h \in Handles :
                 (/\ h.buf = s.buf /\ h.memory = 0 /\ Used(h) = s.offset + n
                  /\ at2[s.buf] = at[s.buf] \/ s.offset = 0
                  /\ \A x \in 0 .. s.offset - 1 : Byte(<<s.buf, x>>) = at[s.buf] + x + 1)
                     => Reads(h, at2)'
<1>1. PICK a, o : a = s.buf /\ o = s.offset
  OBVIOUS
<1>2. /\ a \in Buffers /\ Area(a) = a /\ a # Ring /\ a[1] # "ring" /\ o \in Nat /\ at2[a] \in Nat
      /\ o + n <= Length(a)
  BY <1>1, HandleParts DEF InRing, Ring, Handles
<1>3. Length(a) \in Int
  BY <1>2, StreamAssumption DEF Length, Size, Buffers, Aux
<1>4. /\ \A x : Place(<<a, x>>) = x
      /\ \A k \in 1 .. n : At(s, k - 1) = <<a, o + (k - 1)>> /\ Place(At(s, k - 1)) = o + (k - 1)
  <2>1. \A x : Place(<<a, x>>) = x
    BY <1>2 DEF Place
  <2>2. \A k \in 1 .. n : At(s, k - 1) = <<a, o + (k - 1)>>
    <3>1. \A k \in 1 .. n : 0 + o + (k - 1) = o + (k - 1)
      BY <1>2
    <3>2. QED
      BY <1>1, <1>2, <3>1 DEF At
  <2>3. QED
    BY <2>1, <2>2
<1>5. /\ \A b \in Areas \ {a} : cells'[b] = cells[b]
      /\ \A x : (\A k \in 1 .. n : Place(At(s, k - 1)) # Place(<<a, x>>))
                   => Byte(<<a, x>>)' = Byte(<<a, x>>)
      /\ \A k \in 1 .. n :
            (/\ Place(At(s, k - 1)) \in 0 .. Length(a) - 1
             /\ \A j \in 1 .. n : Place(At(s, j - 1)) = Place(At(s, k - 1)) => j = k)
                => Byte(At(s, k - 1))' = values[k]
  <2>1. a = Area(s.buf)
    BY <1>1, <1>2
  <2>2. CellsOK /\ s \in Handles /\ n \in Nat /\ DOMAIN values = 1 .. n /\ cells' = Written(s, values)
    OBVIOUS
  <2>3. QED
    BY ONLY <2>1, <2>2, WrittenIs
<1>6. \A x \in Int : x < o => Byte(<<a, x>>)' = Byte(<<a, x>>)
  <2>1. SUFFICES ASSUME NEW x \in Int, x < o PROVE Byte(<<a, x>>)' = Byte(<<a, x>>)
    OBVIOUS
  <2>2. \A k \in 1 .. n : Place(At(s, k - 1)) # Place(<<a, x>>)
    BY <1>2, <1>4, <2>1
  <2>3. QED
    BY <1>5, <2>2
<1>7. \A k \in 1 .. n : Byte(<<a, o + (k - 1)>>)' = at2[a] + o + k
  <2>1. SUFFICES ASSUME NEW k \in 1 .. n PROVE Byte(<<a, o + (k - 1)>>)' = at2[a] + o + k
    OBVIOUS
  <2>2. o + (k - 1) \in 0 .. Length(a) - 1
    BY <1>2, <1>3
  <2>3. \A j \in 1 .. n : o + (j - 1) = o + (k - 1) => j = k
    BY <1>2
  <2>4. Place(At(s, k - 1)) \in 0 .. Length(a) - 1
        /\ \A j \in 1 .. n : Place(At(s, j - 1)) = Place(At(s, k - 1)) => j = k
    BY <1>4, <2>2, <2>3
  <2>5. Byte(At(s, k - 1))' = values[k]
    BY <1>5, <2>4
  <2>6. Byte(At(s, k - 1))' = Byte(<<a, o + (k - 1)>>)'
    BY <1>4 DEF Byte, Place, Cell, At
  <2>7. QED
    BY <1>1, <2>5, <2>6
<1>8. ASSUME NEW g \in Handles, Reads(g, at), at2[g.buf] = at[g.buf],
             g.buf = a => g.memory = 0 /\ Used(g) <= o
      PROVE  Reads(g, at2)'
  <2>1. Area(g.buf) \in Areas /\ (~InRing(g) => Area(g.buf) = g.buf) /\ Used(g) \in Nat
    BY HandleParts
  <2>2. CASE g.buf # a
    <3>1. Area(g.buf) # a
      BY <1>2, <2>1, <2>2 DEF Area, Ring
    <3>2. QED
      BY <1>5, <1>8, <2>1, <3>1, ReadsElsewhere
  <2>3. CASE g.buf = a
    <3>1. ASSUME NEW x \in 0 .. Used(g) - 1
          PROVE  Byte(<<Area(g.buf), g.memory + x>>)' = Byte(<<Area(g.buf), g.memory + x>>)
      <4>1. PICK y : y = g.memory + x
        OBVIOUS
      <4>2. y \in Int /\ y < o /\ Area(g.buf) = a
        BY <1>2, <1>8, <2>1, <2>3, <4>1
      <4>3. Byte(<<a, y>>)' = Byte(<<a, y>>)
        BY <1>6, <4>2
      <4>4. QED
        BY <4>1, <4>2, <4>3 DEF Byte, Place, Cell
    <3>2. QED
      BY <1>8, <3>1, ReadsStay
  <2>4. QED
    BY <2>2, <2>3
<1>9. ASSUME NEW h \in Handles, h.buf = a, h.memory = 0, Used(h) = o + n,
             at2[a] = at[a] \/ o = 0,
             \A x \in 0 .. o - 1 : Byte(<<a, x>>) = at[a] + x + 1
      PROVE  Reads(h, at2)'
  <2>1. SUFFICES ASSUME NEW x \in 0 .. (o + n) - 1
                 PROVE  Byte(<<a, x>>)' = at2[a] + x + 1
    <3>1. ASSUME NEW x \in 0 .. Used(h) - 1 PROVE Byte(<<Area(h.buf), h.memory + x>>)' = at2[h.buf] + x + 1
      <4>1. x \in 0 .. (o + n) - 1 /\ h.memory + x = x /\ Area(h.buf) = a
        BY <1>2, <1>9
      <4>2. Byte(<<a, x>>)' = at2[a] + x + 1
        BY <2>1, <4>1
      <4>3. QED
        BY <1>9, <4>1, <4>2 DEF Byte, Place, Cell
    <3>2. QED
      BY <3>1 DEF Reads, Used
  <2>2. CASE x < o
    <3>1. x \in 0 .. o - 1 /\ x \in Int /\ o # 0
      BY <1>2, <2>2
    <3>2. Byte(<<a, x>>)' = Byte(<<a, x>>) /\ Byte(<<a, x>>) = at[a] + x + 1
      BY <1>6, <1>9, <2>2, <3>1
    <3>3. QED
      BY <1>9, <3>1, <3>2
  <2>3. CASE ~(x < o)
    <3>1. PICK k \in 1 .. n : k = x - o + 1
      BY <1>2, <2>3
    <3>2. o + (k - 1) = x /\ at2[a] + o + k = at2[a] + x + 1
      BY <1>2, <3>1
    <3>3. QED
      BY <1>7, <3>2
  <2>4. QED
    BY <2>2, <2>3
<1>10. QED
  BY <1>1, <1>8, <1>9

\* what leaves the pool has more than half its buffer, in whole items
LEMMA KeptIsLeast ==
    ASSUME NEW a \in Nat, OfItems(a), a > PoolLen \div 2
    PROVE  Kept \in Nat /\ Kept <= a
<1>1. PoolLen \in Nat /\ ItemSize \in Nat \ {0}
  BY StreamAssumption
<1>2. PICK k \in Nat : a = k * ItemSize
  BY ItemsDivide
<1>3. PICK p \in Nat : p = PoolLen \div 2
  BY <1>1
<1>4. ASSUME NEW c \in Nat \ {0}
      PROVE  /\ (p \div c) \in Nat /\ ((p \div c) + 1) * c \in Nat
             /\ (p \div c) * c <= p /\ (p \div c) * c \in Nat
  BY <1>4
<1>5. ASSUME NEW c \in Nat \ {0}, NEW x \in Nat, k * c > p, x * c <= p, x * c \in Nat
      PROVE  (x + 1) * c <= k * c
  <2>1. k >= x + 1
    <3>1. SUFFICES ASSUME k <= x PROVE FALSE
      OBVIOUS
    <3>2. (x - k) \in Nat /\ (x - k) * c \in Nat /\ x * c = k * c + (x - k) * c /\ k * c \in Nat
      BY <3>1
    <3>3. QED
      BY <1>5, <3>2
  <2>2. (k - (x + 1)) \in Nat /\ (k - (x + 1)) * c \in Nat
        /\ k * c = (x + 1) * c + (k - (x + 1)) * c /\ (x + 1) * c \in Nat
    BY <2>1
  <2>3. QED
    BY <2>2
<1>6. QED
  BY <1>1, <1>2, <1>3, <1>4, <1>5 DEF Kept

\* the buffers a block posts beside a pool have a place in no line
NoMix == MaxUser = 0 \/ "pool" \notin UserKinds

\* So does a buffer the block posts.
LEMMA PostUserLines ==
    ASSUME NoMix, StreamInv, OfItems(produced),
           NEW at \in Bases, NEW w \in Seq(Handles), LineAt(w, at), PostUser
    PROVE  \E at2 \in Bases : \E v \in Seq(Handles) : LineAt(v, at2)'
<1>1. PICK l \in {Null, Wild} : Produce(Handle(<<"user", posted'>>, 0, 0, l), UserLen)
  BY DEF PostUser
<1>2. PICK b, n : b = <<"user", posted'>> /\ n = UserLen
  OBVIOUS
<1>3. PICK s : s = Handle(b, 0, 0, l)
  OBVIOUS
<1>4. Produce(s, n)
  BY <1>1, <1>2, <1>3
<1>5. w = Whole /\ Line(w, at) /\ PoolOK(at)
  BY DEF LineAt
<1>6. /\ posted' = posted + 1 /\ posted \in Nat /\ posted' \in 1 .. MaxUser /\ kind # "pool"
      /\ pool = <<>> /\ pool' = <<>> /\ circ' = circ
  <2>1. posted \in 0 .. MaxUser /\ posted' = posted + 1 /\ posted < MaxUser /\ MaxUser \in Nat
        /\ kind \in UserKinds /\ pool' = pool /\ circ' = circ
    BY StreamAssumption DEF PostUser, StreamInv
  <2>2. kind # "pool"
    BY <2>1 DEF NoMix
  <2>3. QED
    BY <1>5, <2>1, <2>2 DEF PoolOK
<1>7. n \in Nat /\ n >= 1 /\ OfItems(n)
  BY <1>2, StreamAssumption DEF OfItems
<1>8. b \in Buffers /\ b \notin Aux /\ b[1] = "user" /\ b[2] = posted' /\ l \in Pointers
      /\ Length(b) = n
  BY <1>2, <1>6, NullIsPointer DEF Buffers, Aux, Length, Ring, Size
<1>9. s \in Ordinary /\ s.buf = b /\ s.memory = 0 /\ s.offset = 0 /\ s.last = l /\ s.length = 0
  BY <1>3, <1>8 DEF Handle, Handles, Ordinary
<1>10. PICK h \in Handles, v \in Seq(Handles) :
          /\ h.buf = b /\ h.memory = 0 /\ h.offset = 0 /\ h.last = l /\ h.length = n
          /\ v = Whole' /\ Len(v) = Len(w) + 1 /\ v[Len(w) + 1] = h
          /\ \A k \in 1 .. Len(w) : v[k] = w[k]
  BY <1>4, <1>5, <1>7, <1>9, ProduceWhole
<1>11. /\ produced \in Nat /\ produced' = produced + n /\ kind' = kind
       /\ cells' = Written(s, NewBytes(n)) /\ CellsOK
  BY <1>4 DEF StreamInv, Produce, config
<1>12. PICK at2 : at2 = [at EXCEPT ![b] = produced]
  OBVIOUS
<1>13. at2 \in Bases /\ at2[b] = produced /\ \A c \in Buffers \ {b} : at2[c] = at[c]
  BY <1>8, <1>11, <1>12 DEF Bases
<1>14. PICK values : values = NewBytes(n)
  OBVIOUS
<1>15. /\ \A g \in Handles :
             (/\ Reads(g, at) /\ at2[g.buf] = at[g.buf]
              /\ g.buf = s.buf => g.memory = 0 /\ Used(g) <= s.offset)
                 => Reads(g, at2)'
       /\ \A g \in Handles :
             (/\ g.buf = s.buf /\ g.memory = 0 /\ Used(g) = s.offset + n
              /\ at2[s.buf] = at[s.buf] \/ s.offset = 0
              /\ \A x \in 0 .. s.offset - 1 : Byte(<<s.buf, x>>) = at[s.buf] + x + 1)
                 => Reads(g, at2)'
  <2>1. /\ s \in Handles /\ ~InRing(s) /\ s.memory = 0 /\ s.offset + n <= Length(s.buf)
        /\ DOMAIN values = 1 .. n /\ cells' = Written(s, values) /\ CellsOK /\ n \in Nat
        /\ at \in Bases /\ at2 \in Bases
    BY <1>7, <1>8, <1>9, <1>11, <1>13, <1>14 DEF InRing, Ordinary, NewBytes
  <2>2. \A k \in 1 .. n : values[k] = at2[s.buf] + s.offset + k
    BY <1>9, <1>11, <1>13, <1>14 DEF NewBytes
  <2>3. QED
    BY ONLY <2>1, <2>2, PlainReads
<1>16. ASSUME NEW g \in Handles, Lies(g, at)
       PROVE  at2[g.buf] = at[g.buf] /\ Lies(g, at2)' /\ ~InPool(g) /\ g.buf # b
  <2>1. g.buf # b /\ ~InPool(g) /\ Reads(g, at)
    BY <1>6, <1>8, <1>16 DEF Lies, InUser, InPool, PoolLies
  <2>2. at2[g.buf] = at[g.buf]
    BY <1>13, <2>1, HandleParts
  <2>3. Reads(g, at2)'
    BY <1>9, <1>15, <2>1, <2>2
  <2>4. InRing(g) => RingLies(g)'
    BY <1>6, <1>11, <1>16 DEF Lies, RingLies, circ, Away, Queued, Slot, Used
  <2>5. Lies(g, at2)'
    <3>1. InUser(g) => g.buf[2] \in Int
      <4>1. g.buf \in Buffers
        BY HandleParts
      <4>2. QED
        BY <4>1, StreamAssumption DEF InUser, Buffers, Aux
    <3>2. InUser(g) => kind' # "pool" /\ g.buf[2] <= posted'
      BY <1>6, <1>11, <1>16, <3>1 DEF Lies
    <3>3. QED
      BY <1>16, <2>1, <2>3, <2>4, <3>2 DEF Lies, InRing, InPool, InUser, Used
  <2>6. QED
    BY <2>1, <2>2, <2>5
<1>17. \A k \in 1 .. Len(w) : w[k] \in Handles /\ Lies(w[k], at)
  BY <1>5 DEF Line
<1>18. ~InRing(h) /\ ~InPool(h) /\ InUser(h) /\ Used(h) = n
  BY <1>7, <1>8, <1>10 DEF InRing, InPool, InUser, Used
<1>19. ASSUME NEW k \in 1 .. Len(w)
       PROVE  at2[w[k].buf] = at[w[k].buf] /\ Lies(w[k], at2)' /\ Before(w[k], h, at2)'
  BY <1>16, <1>17, <1>18 DEF Before, InRing, InPool
<1>20. ASSUME NEW j \in 1 .. Len(w), NEW k \in 1 .. Len(w), j < k
       PROVE  Before(w[j], w[k], at2)'
  <2>1. PICK f \in Handles, g \in Handles : f = w[j] /\ g = w[k]
    BY <1>17
  <2>2. Before(f, g, at) /\ ~InPool(f)
    BY <1>5, <1>16, <1>17, <1>20, <2>1 DEF Line
  <2>3. Ends(f)' = Ends(f) /\ Left(g)' = Left(g)
    BY <1>6 DEF circ, Ends, Left, Used, Slot
  <2>4. \A i : Dist(i)' = Dist(i)
    BY <1>6 DEF circ, Dist
  <2>5. Before(f, g, at2)'
    BY <2>2, <2>3, <2>4 DEF Before, InRing, InPool, Slot
  <2>6. QED
    BY <2>1, <2>5
<1>21. Lies(h, at2)'
  <2>1. Reads(h, at2)'
    <3>1. Used(h) = s.offset + n /\ \A x \in 0 .. s.offset - 1 : FALSE
      BY <1>7, <1>9, <1>18
    <3>2. QED
      BY <1>9, <1>10, <1>15, <3>1
  <2>2. h.buf[2] <= posted'
    BY <1>6, <1>8, <1>10
  <2>3. QED
    BY <1>6, <1>7, <1>10, <1>11, <1>18, <2>1, <2>2 DEF Lies, InRing, InPool, InUser, Used
<1>22. Linked(h)
  BY <1>10 DEF Linked
<1>23. From(h, at2) = produced /\ To(h, at2) = produced'
  BY <1>7, <1>10, <1>11, <1>13, <1>18 DEF From, To
<1>24. Line(v, at2)'
  BY <1>5, <1>10, <1>13, <1>19, <1>20, <1>21, <1>22, <1>23, LineGrows
<1>25. PoolOK(at2)'
  BY <1>6 DEF PoolOK
<1>26. QED
  BY <1>10, <1>13, <1>24, <1>25 DEF LineAt

\* what a pop leaves of the pool: the first buffer, if it has half its length
\* left, and the others, which are empty
LEMMA PopPoolIs ==
    ASSUME StreamInv, NEW at, PoolOK(at), pool # <<>>, NEW n \in Nat \ {0},
           NEW s, s = pool[1], pool' = PopPool([s EXCEPT !.offset = @ + n])
    PROVE  LET o == s.offset IN
           /\ o + n > PoolLen \div 2 =>
                 /\ Len(pool') = Len(pool) - 1
                 /\ \A k \in 1 .. Len(pool') : pool'[k] = pool[k + 1]
           /\ ~(o + n > PoolLen \div 2) =>
                 /\ Len(pool') = Len(pool)
                 /\ \A k \in 2 .. Len(pool') : pool'[k] = pool[k]
                 /\ pool'[1] \in Handles /\ pool'[1].buf = s.buf /\ pool'[1].memory = 0
                 /\ pool'[1].length = 0 /\ pool'[1].offset = o + n
                 /\ pool'[1].last = At(pool'[1], 0)
           /\ Len(pool) \in Nat \ {0}
<1>1. pool \in Seq(Ordinary) /\ Len(pool) \in Nat \ {0} /\ s \in Ordinary /\ 1 \in 1 .. Len(pool)
  BY DEF StreamInv
<1>2. PICK o : o = s.offset
  OBVIOUS
<1>3. s \in Handles /\ o \in Nat /\ s.memory = 0 /\ s.length = 0
  BY <1>1, <1>2 DEF Ordinary, Handles, PoolOK
<1>4. PICK t : t = [s EXCEPT !.offset = @ + n]
  OBVIOUS
<1>5. /\ t \in Handles /\ t.offset = o + n /\ t.buf = s.buf /\ t.memory = 0 /\ t.length = 0
  BY <1>2, <1>3, <1>4 DEF Handles
<1>6. PICK p \in Pointers : p = At(t, 0)
  BY <1>5, AtIsPointer
<1>7. PICK u : u = [t EXCEPT !.last = p]
  OBVIOUS
<1>8. /\ u \in Handles /\ u.offset = o + n /\ u.buf = s.buf /\ u.memory = 0 /\ u.length = 0
      /\ u.last = p /\ At(u, 0) = p
  <2>1. /\ u \in Handles /\ u.offset = o + n /\ u.buf = s.buf /\ u.memory = 0 /\ u.length = 0
        /\ u.last = p
    BY <1>5, <1>7 DEF Handles
  <2>2. QED
    BY <1>5, <1>6, <2>1 DEF At
<1>9. pool' = IF t.offset > PoolLen \div 2 THEN Tail(pool) ELSE [pool EXCEPT ![1] = u]
  BY <1>4, <1>6, <1>7 DEF PopPool
<1>10. PICK q \in Seq(Ordinary) : q = pool
  BY <1>1
<1>11. /\ Len(Tail(q)) = Len(q) - 1 /\ \A k \in 1 .. Len(q) - 1 : Tail(q)[k] = q[k + 1]
       /\ Len([q EXCEPT ![1] = u]) = Len(q) /\ [q EXCEPT ![1] = u][1] = u
       /\ \A k \in 2 .. Len(q) : [q EXCEPT ![1] = u][k] = q[k]
  BY <1>1, <1>10
<1>12. o + n > PoolLen \div 2 =>
          /\ Len(pool') = Len(pool) - 1 /\ \A k \in 1 .. Len(pool') : pool'[k] = pool[k + 1]
  BY <1>5, <1>9, <1>10, <1>11
<1>13. ~(o + n > PoolLen \div 2) =>
          /\ Len(pool') = Len(pool) /\ \A k \in 2 .. Len(pool') : pool'[k] = pool[k]
          /\ pool'[1] = u
  BY <1>5, <1>9, <1>10, <1>11
<1>14. QED
  BY <1>1, <1>2, <1>8, <1>12, <1>13

\* where a handle lies when bytes were produced to the first buffer of the pool
LEMMA PoolLeaves ==
    ASSUME StreamInv, NEW at, PoolOK(at), pool # <<>>, NEW n \in Nat \ {0},
           NEW s, s = pool[1], pool' = PopPool([s EXCEPT !.offset = @ + n]),
           kind = "pool", kind' = kind, NEW at2 \in Bases, NEW g \in Handles,
           OfItems(s.offset + n), at2[s.buf] + s.offset + n = produced',
           g.buf = s.buf => Used(g) <= s.offset + n,
           g.buf # s.buf => To(g, at2) <= at2[s.buf] /\ at2[g.buf] + Kept <= at2[s.buf],
           \A k \in 2 .. Len(pool) : g.buf = pool[k].buf => Used(g) <= 0
    PROVE  PoolLies(g, at2)'
<1>1. PICK o, P : o = s.offset /\ P = s.buf
  OBVIOUS
<1>2. /\ o + n > PoolLen \div 2 =>
             /\ Len(pool') = Len(pool) - 1
             /\ \A k \in 1 .. Len(pool') : pool'[k] = pool[k + 1]
      /\ ~(o + n > PoolLen \div 2) =>
             /\ Len(pool') = Len(pool)
             /\ \A k \in 2 .. Len(pool') : pool'[k] = pool[k]
             /\ pool'[1].buf = P /\ pool'[1].offset = o + n
      /\ Len(pool) \in Nat \ {0}
  BY <1>1, PopPoolIs
<1>3. 1 \in 1 .. Len(pool) /\ s \in Handles
  BY <1>2 DEF StreamInv, Ordinary
<1>4. o \in Nat /\ P \in Buffers /\ at2[P] \in Nat
  BY <1>1, <1>3 DEF Handles, Bases
<1>5. /\ g.buf \in Buffers /\ Used(g) \in Nat /\ at2[g.buf] \in Nat /\ To(g, at2) \in Nat
  BY HandleParts
<1>6. \A k \in 2 .. Len(pool) : pool[k].offset = 0 /\ pool[k].buf # P
  BY <1>1, <1>2, <1>3 DEF PoolOK
<1>7. To(g, at2)' = To(g, at2) /\ Used(g)' = Used(g) /\ Kept' = Kept
  BY DEF To, Used, Kept
<1>8. ASSUME NEW k \in 2 .. Len(pool), NEW q, q = pool[k]
      PROVE  (g.buf = q.buf => Used(g) <= q.offset) /\ ~(q.offset > 0)
  BY <1>6, <1>8
<1>9. CASE o + n > PoolLen \div 2
  <2>1. \A k \in 1 .. Len(pool') : k + 1 \in 2 .. Len(pool) /\ pool'[k] = pool[k + 1]
    BY <1>2, <1>9
  <2>2. \A k \in 1 .. Len(pool') :
            (g.buf = pool'[k].buf => Used(g) <= pool'[k].offset) /\ ~(pool'[k].offset > 0)
    BY <1>8, <2>1
  <2>3. at2[g.buf] + Kept <= produced'
    <3>1. Kept \in Nat /\ Kept <= o + n
      BY <1>1, <1>4, <1>9, KeptIsLeast
    <3>2. at2[P] + o + n = produced'
      BY <1>1
    <3>3. CASE g.buf = P
      BY <1>4, <3>1, <3>2, <3>3
    <3>4. CASE g.buf # P
      <4>1. at2[g.buf] + Kept <= at2[P]
        BY <1>1, <3>4
      <4>2. QED
        BY <1>4, <1>5, <3>1, <3>2, <4>1
    <3>5. QED
      BY <3>3, <3>4
  <2>4. QED
    BY <1>7, <2>2, <2>3 DEF PoolLies
<1>10. CASE ~(o + n > PoolLen \div 2)
  <2>1. Len(pool') = Len(pool) /\ \A k \in 2 .. Len(pool) : pool'[k] = pool[k]
    BY <1>2, <1>10
  <2>2. pool'[1].buf = P /\ pool'[1].offset = o + n
    BY <1>2, <1>10
  <2>3. \A k \in 2 .. Len(pool') :
            (g.buf = pool'[k].buf => Used(g) <= pool'[k].offset) /\ ~(pool'[k].offset > 0)
    BY <1>8, <2>1
  <2>4. /\ g.buf = P => Used(g) <= o + n
        /\ g.buf # P => To(g, at2) <= at2[P] /\ at2[g.buf] + Kept <= at2[P]
    BY <1>1
  <2>5. Kept \in Int
    <3>1. PoolLen \in Nat /\ ItemSize \in Nat \ {0}
      BY StreamAssumption
    <3>2. \A a \in Nat, c \in Nat \ {0} : ((a \div 2) \div c + 1) * c \in Int
      OBVIOUS
    <3>3. QED
      BY <3>1, <3>2 DEF Kept
  <2>6. ~Pooled(g.buf)' => at2[g.buf] + Kept <= produced'
    <3>1. 1 \in 1 .. Len(pool')
      BY <1>3, <2>1
    <3>2. SUFFICES ASSUME g.buf # P PROVE at2[g.buf] + Kept <= produced'
      BY <2>2, <3>1 DEF Pooled
    <3>3. at2[g.buf] + Kept <= at2[P] /\ at2[P] + o + n = produced'
      BY <1>1, <2>4, <3>2
    <3>4. QED
      BY <1>4, <1>5, <2>5, <3>3
  <2>7. \A k \in 1 .. Len(pool') : k = 1 \/ k \in 2 .. Len(pool')
    BY <1>2, <2>1
  <2>8. \A k \in 1 .. Len(pool') :
           /\ g.buf = pool'[k].buf => Used(g) <= pool'[k].offset
           /\ (g.buf # pool'[k].buf /\ pool'[k].offset > 0) =>
                 To(g, at2) <= at2[pool'[k].buf] /\ at2[g.buf] + Kept <= at2[pool'[k].buf]
    BY <2>2, <2>3, <2>4, <2>7
  <2>9. QED
    BY <1>7, <2>6, <2>8 DEF PoolLies
<1>11. QED
  BY <1>9, <1>10

\* So does a part of the first buffer of the pool.
LEMMA ProducePoolLines ==
    ASSUME StreamInv, OfItems(produced),
           NEW at \in Bases, NEW w \in Seq(Handles), LineAt(w, at), ProducePool
    PROVE  \E at2 \in Bases : \E v \in Seq(Handles) : LineAt(v, at2)'
<1>1. PICK s : s = Head(pool)
  OBVIOUS
<1>2. PICK n \in Items(PoolLen - s.offset) :
          Produce(s, n) /\ pool' = PopPool([s EXCEPT !.offset = @ + n])
  BY <1>1 DEF ProducePool
<1>3. PICK o, P : o = s.offset /\ P = s.buf
  OBVIOUS
<1>4. w = Whole /\ Line(w, at) /\ PoolOK(at)
  BY DEF LineAt
<1>5. kind = "pool" /\ pool # <<>> /\ circ' = circ /\ posted' = posted
  BY DEF ProducePool, OutputReady
<1>6. /\ pool \in Seq(Ordinary) /\ Len(pool) \in Nat \ {0} /\ 1 \in 1 .. Len(pool)
      /\ s = pool[1] /\ s \in Ordinary /\ s \in Handles
  BY <1>1, <1>5 DEF StreamInv, Ordinary
<1>7. /\ InPool(s) /\ s.memory = 0 /\ s.length = 0 /\ o <= PoolLen \div 2 /\ OfItems(o) /\ o \in Nat
      /\ o = 0 => s.last = Null
      /\ o > 0 => s.last = At(s, 0) /\ Reads(s, at) /\ To(s, at) = produced
  BY <1>3, <1>4, <1>6 DEF PoolOK, Handles
<1>8. PoolLen \in Nat /\ n \in Nat /\ n >= 1 /\ OfItems(n) /\ o + n <= PoolLen
  BY <1>3, <1>7, StreamAssumption DEF Items, OfItems
<1>9. P \in Buffers /\ P \notin Aux /\ P[1] = "pool" /\ Area(P) = P /\ Length(P) = PoolLen
  BY <1>3, <1>6, <1>7 DEF Ordinary, Handles, InPool, Area, Length, Size, Ring
<1>10. PICK h \in Handles, v \in Seq(Handles) :
          /\ h.buf = P /\ h.memory = 0 /\ h.offset = o /\ h.last = s.last /\ h.length = n
          /\ v = Whole' /\ Len(v) = Len(w) + 1 /\ v[Len(w) + 1] = h
          /\ \A k \in 1 .. Len(w) : v[k] = w[k]
  BY <1>2, <1>3, <1>4, <1>6, <1>7, <1>8, ProduceWhole
<1>11. /\ produced \in Nat /\ produced' = produced + n /\ kind' = kind
       /\ cells' = Written(s, NewBytes(n)) /\ CellsOK
  BY <1>2 DEF StreamInv, Produce, config
<1>12. PICK at2 : at2 = IF o = 0 THEN [at EXCEPT ![P] = produced] ELSE at
  OBVIOUS
<1>13. /\ at2 \in Bases /\ at2[P] + o = produced /\ at2[P] \in Nat /\ at \in Bases
       /\ \A c \in Buffers : c # P => at2[c] = at[c]
       /\ o # 0 => at2[P] = at[P]
  <2>1. CASE o = 0
    BY <1>9, <1>11, <1>12, <2>1 DEF Bases
  <2>2. CASE o # 0
    <3>1. To(s, at) = produced /\ at2 = at
      BY <1>7, <1>12, <2>2
    <3>2. at[P] \in Nat /\ Used(s) = o + 0 /\ at[s.buf] = at[P]
      BY <1>3, <1>7, <1>9 DEF Used, Bases
    <3>3. at[P] + o = produced
      BY <1>7, <3>1, <3>2 DEF To
    <3>4. QED
      BY <2>2, <3>1, <3>2, <3>3
  <2>3. QED
    BY <2>1, <2>2
<1>14. PICK values : values = NewBytes(n)
  OBVIOUS
<1>15. /\ \A g \in Handles :
             (/\ Reads(g, at) /\ at2[g.buf] = at[g.buf]
              /\ g.buf = s.buf => g.memory = 0 /\ Used(g) <= s.offset)
                 => Reads(g, at2)'
       /\ \A g \in Handles :
             (/\ g.buf = s.buf /\ g.memory = 0 /\ Used(g) = s.offset + n
              /\ at2[s.buf] = at[s.buf] \/ s.offset = 0
              /\ \A x \in 0 .. s.offset - 1 : Byte(<<s.buf, x>>) = at[s.buf] + x + 1)
                 => Reads(g, at2)'
  <2>1. /\ s \in Handles /\ ~InRing(s) /\ s.memory = 0 /\ s.offset + n <= Length(s.buf)
        /\ DOMAIN values = 1 .. n /\ cells' = Written(s, values) /\ CellsOK /\ n \in Nat
        /\ at \in Bases /\ at2 \in Bases
    BY <1>3, <1>6, <1>7, <1>8, <1>9, <1>11, <1>13, <1>14 DEF InRing, InPool, NewBytes
  <2>2. \A k \in 1 .. n : values[k] = at2[s.buf] + s.offset + k
    BY <1>3, <1>11, <1>13, <1>14 DEF NewBytes
  <2>3. QED
    BY ONLY <2>1, <2>2, PlainReads
<1>16. \A x \in 0 .. o - 1 : Byte(<<P, x>>) = at[P] + x + 1
  <2>1. SUFFICES ASSUME NEW x \in 0 .. o - 1 PROVE Byte(<<P, x>>) = at[P] + x + 1
    OBVIOUS
  <2>2. Reads(s, at) /\ Used(s) = o /\ x \in 0 .. Used(s) - 1 /\ 0 + x = x
    BY <1>3, <1>7, <2>1 DEF Used
  <2>3. QED
    BY <1>3, <1>7, <1>9, <2>2 DEF Reads
<1>17. /\ \A k \in 2 .. Len(pool) : pool[k].offset = 0 /\ pool[k].buf # P
  BY <1>3, <1>4, <1>6 DEF PoolOK
<1>18. Kept \in Int
  <2>1. PoolLen \in Nat /\ ItemSize \in Nat \ {0}
    BY StreamAssumption
  <2>2. \A a \in Nat, c \in Nat \ {0} : ((a \div 2) \div c + 1) * c \in Int
    OBVIOUS
  <2>3. QED
    BY <2>1, <2>2 DEF Kept
<1>19. ASSUME NEW k \in 1 .. Len(w), NEW g \in Handles, g = w[k]
       PROVE  /\ Lies(g, at) /\ ~InRing(g) /\ ~InUser(g)
              /\ g.buf = P => Used(g) <= o /\ Used(g) >= 1
              /\ at2[g.buf] = at[g.buf]
              /\ (InPool(g) /\ g.buf # P) => To(g, at) <= at2[P] /\ at[g.buf] + Kept <= at2[P]
              /\ InPool(g) => \A j \in 2 .. Len(pool) : g.buf = pool[j].buf => Used(g) <= 0
  <2>1. Lies(g, at) /\ Used(g) \in Nat /\ g.buf \in Buffers
    BY <1>4, <1>19, HandleParts DEF Line
  <2>2. ~InRing(g) /\ ~InUser(g)
    BY <1>5, <2>1 DEF Lies, RingLies
  <2>3. g.buf = P => Used(g) <= o /\ Used(g) >= 1 /\ InPool(g)
    BY <1>3, <1>6, <1>9, <2>1 DEF Lies, PoolLies, InPool
  <2>4. at2[g.buf] = at[g.buf]
    <3>1. g.buf = P => o # 0
      BY <2>1, <2>3, <1>7
    <3>2. QED
      BY <1>13, <2>1, <3>1
  <2>5. InPool(g) => \A j \in 2 .. Len(pool) : g.buf = pool[j].buf => Used(g) <= 0
    <3>1. SUFFICES ASSUME InPool(g), NEW j \in 2 .. Len(pool), g.buf = pool[j].buf
                   PROVE  Used(g) <= 0
      OBVIOUS
    <3>2. j \in 1 .. Len(pool)
      OBVIOUS
    <3>3. QED
      BY <1>17, <2>1, <3>1, <3>2 DEF Lies, PoolLies
  <2>6. (InPool(g) /\ g.buf # P) => To(g, at) <= at2[P] /\ at[g.buf] + Kept <= at2[P]
    <3>1. SUFFICES ASSUME InPool(g), g.buf # P
                   PROVE  To(g, at) <= at2[P] /\ at[g.buf] + Kept <= at2[P]
      OBVIOUS
    <3>2. PoolLies(g, at) /\ Used(g) >= 1
      BY <2>1, <3>1, <1>9 DEF Lies, InPool, Aux
    <3>3. CASE o # 0
      <4>1. at2[P] = at[P] /\ o > 0
        BY <1>7, <1>13, <3>3
      <4>2. QED
        BY <1>3, <1>6, <3>1, <3>2, <4>1 DEF PoolLies
    <3>4. CASE o = 0
      <4>1. at2[P] = produced
        BY <1>13, <3>4
      <4>2. To(g, at) <= produced
        BY <1>4, <1>11, <1>19, LineEnds
      <4>3. ~Pooled(g.buf)
        <5>1. SUFFICES ASSUME NEW j \in 1 .. Len(pool), pool[j].buf = g.buf PROVE FALSE
          BY DEF Pooled
        <5>2. j \in 2 .. Len(pool)
          BY <1>3, <1>6, <3>1, <5>1
        <5>3. Used(g) <= 0
          BY <2>5, <3>1, <5>1, <5>2
        <5>4. QED
          BY <3>2, <2>1, <5>3
      <4>4. QED
        BY <3>2, <4>1, <4>2, <4>3 DEF PoolLies
    <3>5. QED
      BY <3>3, <3>4
  <2>7. QED
    BY <2>1, <2>2, <2>3, <2>4, <2>5, <2>6

<1>20. at2[P] + o + n = produced' /\ OfItems(o + n) /\ o + n \in Nat
  <2>1. OfItems(o + n) /\ o + n \in Nat
    BY <1>7, <1>8, ItemsAdd
  <2>2. PICK x \in Nat : x = at2[P]
    BY <1>13
  <2>3. x + o + n = (x + o) + n
    BY <1>7, <1>8
  <2>4. QED
    BY <1>11, <1>13, <2>1, <2>2, <2>3
<1>21. ASSUME NEW g \in Handles, g.buf = P => Used(g) <= o + n,
              g.buf # P => To(g, at2) <= at2[P] /\ at2[g.buf] + Kept <= at2[P],
              \A k \in 2 .. Len(pool) : g.buf = pool[k].buf => Used(g) <= 0
       PROVE  PoolLies(g, at2)'
  <2>1. /\ n \in Nat \ {0} /\ OfItems(s.offset + n) /\ at2[s.buf] + s.offset + n = produced'
        /\ g.buf = s.buf => Used(g) <= s.offset + n
        /\ g.buf # s.buf => To(g, at2) <= at2[s.buf] /\ at2[g.buf] + Kept <= at2[s.buf]
        /\ \A k \in 2 .. Len(pool) : g.buf = pool[k].buf => Used(g) <= 0
    BY <1>3, <1>8, <1>20, <1>21
  <2>2. /\ s = pool[1] /\ pool' = PopPool([s EXCEPT !.offset = @ + n]) /\ kind = "pool"
        /\ kind' = kind /\ at2 \in Bases /\ g \in Handles /\ pool # <<>> /\ PoolOK(at) /\ StreamInv
    BY <1>2, <1>4, <1>5, <1>6, <1>11, <1>13
  <2>3. QED
    BY ONLY <2>1, <2>2, PoolLeaves
<1>22. ~InRing(h) /\ InPool(h) /\ ~InUser(h) /\ Used(h) = o + n
  BY <1>9, <1>10 DEF InRing, InPool, InUser, Used
<1>23. ASSUME NEW k \in 1 .. Len(w)
       PROVE  at2[w[k].buf] = at[w[k].buf] /\ Lies(w[k], at2)' /\ Before(w[k], h, at2)'
  <2>1. PICK g \in Handles : g = w[k]
    OBVIOUS
  <2>2. /\ Lies(g, at) /\ ~InRing(g) /\ ~InUser(g)
        /\ g.buf = P => Used(g) <= o /\ Used(g) >= 1
        /\ at2[g.buf] = at[g.buf]
        /\ (InPool(g) /\ g.buf # P) => To(g, at) <= at2[P] /\ at[g.buf] + Kept <= at2[P]
        /\ InPool(g) => \A j \in 2 .. Len(pool) : g.buf = pool[j].buf => Used(g) <= 0
    BY <1>19, <2>1
  <2>3. To(g, at2) = To(g, at) /\ Used(g) \in Nat
    BY <2>2, HandleParts DEF To
  <2>4. InPool(g) => PoolLies(g, at2)'
    <3>1. SUFFICES ASSUME InPool(g) PROVE PoolLies(g, at2)'
      OBVIOUS
    <3>2. g.buf = P => Used(g) <= o + n
      BY <1>7, <1>8, <2>2, <2>3
    <3>3. g.buf # P => To(g, at2) <= at2[P] /\ at2[g.buf] + Kept <= at2[P]
      BY <2>2, <2>3, <3>1
    <3>4. QED
      BY <1>21, <2>2, <3>1, <3>2, <3>3
  <2>5. Reads(g, at2)'
    <3>1. Reads(g, at) /\ g.memory = 0
      BY <2>2 DEF Lies
    <3>2. QED
      BY <1>3, <1>15, <2>2, <3>1
  <2>6. Lies(g, at2)'
    BY <2>2, <2>4, <2>5 DEF Lies, InRing, InPool, InUser, Used
  <2>7. Before(g, h, at2)'
    BY <1>10, <1>22, <2>2, <2>3 DEF Before, InRing, InPool, To, Used, Kept
  <2>8. QED
    BY <2>1, <2>2, <2>6, <2>7
<1>24. ASSUME NEW j \in 1 .. Len(w), NEW k \in 1 .. Len(w), j < k
       PROVE  Before(w[j], w[k], at2)'
  <2>1. PICK f \in Handles, g \in Handles : f = w[j] /\ g = w[k]
    OBVIOUS
  <2>2. Before(f, g, at) /\ at2[f.buf] = at[f.buf] /\ at2[g.buf] = at[g.buf] /\ ~InRing(f)
    BY <1>4, <1>19, <1>24, <2>1 DEF Line
  <2>3. Before(f, g, at2)'
    BY <2>2 DEF Before, InRing, InPool, To, Used, Kept
  <2>4. QED
    BY <2>1, <2>3
<1>25. Lies(h, at2)'
  <2>1. Reads(h, at2)'
    <3>1. at2[P] = at[P] \/ o = 0
      BY <1>13
    <3>2. QED
      BY <1>3, <1>10, <1>15, <1>16, <1>22, <3>1
  <2>2. PoolLies(h, at2)'
    <3>1. \A k \in 2 .. Len(pool) : h.buf # pool[k].buf
      BY <1>10, <1>17
    <3>2. QED
      BY <1>10, <1>20, <1>21, <1>22, <3>1
  <2>3. Used(h) >= 1
    BY <1>7, <1>8, <1>22
  <2>4. QED
    BY <1>10, <1>22, <2>1, <2>2, <2>3 DEF Lies, InRing, InPool, InUser, Used
<1>26. Linked(h)
  <2>1. At(h, 0) = At(s, 0)
    BY <1>3, <1>7, <1>10 DEF At
  <2>2. h.last = Null \/ h.last = At(h, 0)
    BY <1>7, <1>10, <2>1
  <2>3. QED
    BY <2>2 DEF Linked
<1>27. From(h, at2) = produced /\ To(h, at2) = produced'
  BY <1>7, <1>8, <1>10, <1>11, <1>13, <1>22 DEF From, To
<1>28. Line(v, at2)'
  <2>1. \A k \in 1 .. Len(w) : /\ at2[w[k].buf] = at[w[k].buf] /\ Lies(w[k], at2)'
                               /\ Before(w[k], h, at2)'
    BY <1>23
  <2>2. \A j, k \in 1 .. Len(w) : j < k => Before(w[j], w[k], at2)'
    BY <1>24
  <2>3. /\ at \in Bases /\ at2 \in Bases /\ Line(w, at) /\ h \in Handles /\ v \in Seq(Handles)
        /\ Len(v) = Len(w) + 1 /\ v[Len(w) + 1] = h /\ \A k \in 1 .. Len(w) : v[k] = w[k]
        /\ OfItems(produced) /\ w \in Seq(Handles)
    BY <1>4, <1>10, <1>13
  <2>4. QED
    BY ONLY <1>25, <1>26, <1>27, <2>1, <2>2, <2>3, LineGrows
<1>29. PoolOK(at2)'
  <2>1. /\ o + n > PoolLen \div 2 =>
               /\ Len(pool') = Len(pool) - 1
               /\ \A k \in 1 .. Len(pool') : pool'[k] = pool[k + 1]
        /\ ~(o + n > PoolLen \div 2) =>
               /\ Len(pool') = Len(pool)
               /\ \A k \in 2 .. Len(pool') : pool'[k] = pool[k]
               /\ pool'[1] \in Handles /\ pool'[1].buf = P /\ pool'[1].memory = 0
               /\ pool'[1].length = 0 /\ pool'[1].offset = o + n
               /\ pool'[1].last = At(pool'[1], 0)
        /\ Len(pool) \in Nat \ {0}
    <3>1. n \in Nat \ {0}
      BY <1>8
    <3>2. QED
      BY <1>2, <1>3, <1>4, <1>5, <1>6, <3>1, PopPoolIs
  <2>2. PICK p : p = pool'
    OBVIOUS
  <2> DEFINE First(x) == x.offset = o + n /\ x.buf = P /\ x.memory = 0 /\ x.length = 0
                         /\ x.last = At(x, 0) /\ x \in Handles
             Rest(x) == x.offset = 0 /\ x.last = Null /\ InPool(x) /\ x.memory = 0 /\ x.length = 0
  <2>3. \A k \in 2 .. Len(pool) : Rest(pool[k])
    BY <1>4, <1>17 DEF PoolOK
  <2>4. \A j, k \in 1 .. Len(pool) : j # k => pool[j].buf # pool[k].buf
    BY <1>4 DEF PoolOK
  <2>5. /\ \A k \in 1 .. Len(p) : (k = 1 /\ o + n <= PoolLen \div 2 /\ First(p[k])) \/ Rest(p[k])
        /\ \A k \in 1 .. Len(p) : k > 1 => Rest(p[k])
        /\ \A j, k \in 1 .. Len(p) : j # k => p[j].buf # p[k].buf
    <3>1. CASE o + n > PoolLen \div 2
      <4>1. Len(p) = Len(pool) - 1 /\ \A k \in 1 .. Len(p) : p[k] = pool[k + 1]
        BY <2>1, <2>2, <3>1
      <4>2. \A k \in 1 .. Len(p) : k + 1 \in 2 .. Len(pool) /\ k + 1 \in 1 .. Len(pool)
        BY <2>1, <4>1
      <4>3. \A k \in 1 .. Len(p) : Rest(p[k])
        BY <2>3, <4>1, <4>2
      <4>4. \A j, k \in 1 .. Len(p) : j # k => p[j].buf # p[k].buf
        <5>1. SUFFICES ASSUME NEW j \in 1 .. Len(p), NEW k \in 1 .. Len(p), j # k
                       PROVE  pool[j + 1].buf # pool[k + 1].buf
          BY <4>1
        <5>2. j + 1 # k + 1 /\ j + 1 \in 1 .. Len(pool) /\ k + 1 \in 1 .. Len(pool)
          BY <4>2, <5>1
        <5>3. QED
          BY <2>4, <5>2
      <4>5. QED
        BY <4>3, <4>4
    <3>2. CASE ~(o + n > PoolLen \div 2)
      <4>1. /\ Len(p) = Len(pool) /\ \A k \in 2 .. Len(p) : p[k] = pool[k]
            /\ First(p[1])
        <5>1. At(pool'[1], 0) = At(p[1], 0)
          BY <2>2
        <5>2. QED
          BY <2>1, <2>2, <3>2, <5>1
      <4>2. \A k \in 2 .. Len(p) : Rest(p[k])
        BY <2>3, <4>1
      <4>3. o + n <= PoolLen \div 2 /\ \A k \in 1 .. Len(p) : k = 1 \/ k \in 2 .. Len(p)
        <5>1. (PoolLen \div 2) \in Int
          BY <1>8
        <5>2. QED
          BY <1>20, <2>1, <3>2, <4>1, <5>1
      <4>4. \A k \in 1 .. Len(p) : p[k].buf = pool[k].buf
        BY <1>3, <1>6, <4>1, <4>3
      <4> HIDE DEF First, Rest
      <4>5. \A k \in 1 .. Len(p) : (k = 1 /\ o + n <= PoolLen \div 2 /\ First(p[k])) \/ Rest(p[k])
        BY <4>1, <4>2, <4>3
      <4>6. \A k \in 1 .. Len(p) : k > 1 => Rest(p[k])
        BY <4>2, <4>3
      <4>7. \A j, k \in 1 .. Len(p) : j # k => p[j].buf # p[k].buf
        BY <2>4, <4>1, <4>4
      <4>8. QED
        BY <4>5, <4>6, <4>7
    <3>3. QED
      BY <3>1, <3>2
  <2>6. ASSUME NEW x, First(x) PROVE Reads(x, at2)' /\ To(x, at2)' = produced' /\ InPool(x)
    <3>1. Used(x) = o + n /\ x \in Handles /\ x.buf = P /\ x.memory = 0
      BY <1>20, <2>6 DEF Used
    <3>2. Reads(x, at2)'
      <4>1. at2[P] = at[P] \/ o = 0
        BY <1>13
      <4>2. QED
        BY <1>3, <1>15, <1>16, <3>1, <4>1
    <3>3. at2[P] + (o + n) = produced'
      BY <1>7, <1>8, <1>13, <1>20
    <3>4. To(x, at2)' = produced' /\ InPool(x)
      BY <1>9, <3>1, <3>3 DEF To, Used, InPool
    <3>5. QED
      BY <3>2, <3>4
  <2>7. (PoolLen \div 2) \in Nat /\ o + n > 0 /\ o + n # 0 /\ OfItems(0)
    <3>1. \A c \in Nat \ {0} : 0 % c = 0
      OBVIOUS
    <3>2. QED
      BY <1>7, <1>8, <3>1, StreamAssumption DEF OfItems
  <2> HIDE DEF First, Rest
  <2>8. ASSUME NEW k \in 1 .. Len(p), NEW x, x = p[k]
        PROVE  /\ InPool(x) /\ x.memory = 0 /\ x.length = 0
               /\ x.offset <= PoolLen \div 2 /\ OfItems(x.offset)
               /\ k > 1 => x.offset = 0
               /\ x.offset = 0 => x.last = Null
               /\ x.offset > 0 => x.last = At(x, 0) /\ Reads(x, at2)' /\ To(x, at2)' = produced'
    <3>1. CASE k = 1 /\ o + n <= PoolLen \div 2 /\ First(x)
      BY <1>20, <2>6, <2>7, <3>1 DEF First
    <3>2. CASE Rest(x)
      BY <2>7, <3>2 DEF Rest
    <3>3. QED
      BY <2>5, <2>8, <3>1, <3>2
  <2>9. ASSUME NEW k \in 1 .. Len(p)
        PROVE  /\ InPool(p[k]) /\ p[k].memory = 0 /\ p[k].length = 0
               /\ p[k].offset <= PoolLen \div 2 /\ OfItems(p[k].offset)
               /\ k > 1 => p[k].offset = 0
               /\ p[k].offset = 0 => p[k].last = Null
               /\ p[k].offset > 0 => /\ p[k].last = At(p[k], 0) /\ Reads(p[k], at2)'
                                     /\ To(p[k], at2)' = produced'
    <3>1. PICK x : x = p[k]
      OBVIOUS
    <3>2. QED
      BY <2>8, <3>1
  <2>10. kind' = "pool"
    BY <1>5, <1>11
  <2>11. QED
    BY <2>2, <2>5, <2>9, <2>10 DEF PoolOK, InPool, OfItems, At, To, Reads, Used, Byte, Place, Cell
<1>30. LineAt(v, at2)'
  BY <1>10, <1>28, <1>29 DEF LineAt
<1>31. QED
  BY <1>10, <1>13, <1>30

-----------------------------------------------------------------------------
(* Steps that produce nothing.                                             *)

\* The pool stays as it is when nothing writes to its buffers.
LEMMA PoolStays ==
    ASSUME StreamInv, NEW at \in Bases, NEW at2 \in Bases, PoolOK(at),
           UNCHANGED <<kind, pool, produced>>,
           \A k \in 1 .. Len(pool) : at2[pool[k].buf] = at[pool[k].buf]
                                     /\ cells'[Area(pool[k].buf)] = cells[Area(pool[k].buf)]
    PROVE  PoolOK(at2)'
<1>1. ASSUME NEW k \in 1 .. Len(pool), Reads(pool[k], at), To(pool[k], at) = produced
      PROVE  Reads(pool[k], at2)' /\ To(pool[k], at2)' = produced'
  <2>1. pool[k] \in Handles
    BY DEF StreamInv, Ordinary
  <2>2. PICK h \in Handles : h = pool[k] /\ h = pool'[k]
    BY <2>1
  <2>3. at2[h.buf] = at[h.buf] /\ cells'[Area(h.buf)] = cells[Area(h.buf)] /\ Reads(h, at)
    BY <1>1, <2>2
  <2>4. Reads(h, at2)'
    BY <2>3, ReadsElsewhere
  <2>5. Reads(pool[k], at2)'
    BY <2>2, <2>4 DEF Reads, Used, Byte, Place, Cell
  <2>6. QED
    BY <1>1, <2>5 DEF To, Used
<1>2. QED
  BY <1>1 DEF PoolOK, InPool, OfItems, At

\* Nothing changes but how the handles of the line cover it.
LEMMA RestLines ==
    ASSUME StreamInv, NEW at \in Bases, NEW w \in Seq(Handles), LineAt(w, at),
           UNCHANGED <<kind, circ, pool, posted, produced, cells>>,
           NEW v \in Seq(Handles), v = Whole', Line(v, at)
    PROVE  LineAt(v, at)'
<1>1. Line(v, at)'
  BY LineStays
<1>2. PoolOK(at)'
  BY PoolStays DEF LineAt
<1>3. QED
  BY <1>1, <1>2 DEF LineAt

\* Nothing changes but the ring, whose buffers stay as long as a handle refers
\* to them.
LEMMA RingMoves ==
    ASSUME StreamInv, NEW at \in Bases, NEW w \in Seq(Handles), LineAt(w, at),
           UNCHANGED <<kind, pool, posted, produced, cells, inq, sent>>,
           NEW d \in Int,
           \A k \in 1 .. Len(w) : InRing(w[k]) =>
               /\ Slot(w[k]) \in Away' /\ memory'[Slot(w[k])] = memory[Slot(w[k])]
               /\ behind'[Slot(w[k])] = behind[Slot(w[k])]
               /\ Dist(Slot(w[k])) \in Int /\ Dist(Slot(w[k]))' = Dist(Slot(w[k])) - d
    PROVE  LineAt(w, at)'
<1>1. w = Whole /\ Line(w, at) /\ PoolOK(at)
  BY DEF LineAt
<1>2. ASSUME NEW k \in 1 .. Len(w) PROVE Lies(w[k], at)'
  <2>1. PICK g \in Handles : g = w[k]
    OBVIOUS
  <2>2. Lies(g, at)
    BY <1>1, <2>1 DEF Line
  <2>3. Reads(g, at)'
    BY <2>2, ReadsElsewhere DEF Lies
  <2>4. InRing(g) => RingLies(g)'
    BY <2>1, <2>2 DEF Lies, RingLies, InRing, Slot, Used
  <2>5. PoolLies(g, at) => PoolLies(g, at)'
    BY DEF PoolLies, To, Used, Kept, Pooled
  <2>6. Lies(g, at)'
    BY <2>2, <2>3, <2>4, <2>5 DEF Lies, InRing, InPool, InUser, Used
  <2>7. QED
    BY <2>1, <2>6
<1>3. ASSUME NEW j \in 1 .. Len(w), NEW k \in 1 .. Len(w), j < k PROVE Before(w[j], w[k], at)'
  <2>1. PICK f \in Handles, g \in Handles : f = w[j] /\ g = w[k]
    OBVIOUS
  <2>2. Before(f, g, at)
    BY <1>1, <1>3, <2>1 DEF Line
  <2>3. (InRing(f) /\ InRing(g)) => Ends(f)' >= Left(g)' /\ Dist(Slot(f))' < Dist(Slot(g))'
    <3>1. SUFFICES ASSUME InRing(f), InRing(g)
                   PROVE  Ends(f)' >= Left(g)' /\ Dist(Slot(f))' < Dist(Slot(g))'
      OBVIOUS
    <3>2. /\ behind'[Slot(f)] = behind[Slot(f)] /\ behind'[Slot(g)] = behind[Slot(g)]
          /\ Dist(Slot(f)) \in Int /\ Dist(Slot(g)) \in Int
          /\ Dist(Slot(f))' = Dist(Slot(f)) - d /\ Dist(Slot(g))' = Dist(Slot(g)) - d
      <4>1. PICK a, b : a = Slot(f) /\ b = Slot(g)
        OBVIOUS
      <4>2. /\ Dist(Slot(f))' = Dist(a)' /\ Dist(Slot(g))' = Dist(b)'
        BY <4>1 DEF Dist, Slot
      <4>3. /\ Dist(Slot(w[j]))' = Dist(a)' /\ Dist(Slot(w[k]))' = Dist(b)'
        BY <2>1, <4>1 DEF Dist, Slot
      <4>4. Slot(w[j]) = a /\ Slot(w[k]) = b /\ InRing(w[j]) /\ InRing(w[k])
        BY <2>1, <3>1, <4>1
      <4>5. QED
        BY <4>1, <4>2, <4>3, <4>4
    <3>3. Ends(f)' = Ends(f) /\ Left(g)' = Left(g)
      BY <3>2 DEF Ends, Left, Slot, Used
    <3>4. Ends(f) >= Left(g) /\ Dist(Slot(f)) < Dist(Slot(g))
      BY <2>2, <3>1 DEF Before
    <3>5. QED
      BY <3>2, <3>3, <3>4
  <2>4. Before(f, g, at)'
    BY <2>2, <2>3 DEF Before, InRing, InPool, To, Used, Kept
  <2>5. QED
    BY <2>1, <2>4
<1>4. Line(w, at)'
  BY <1>1, <1>2, <1>3, LineKept
<1>5. PoolOK(at)'
  BY <1>1, PoolStays
<1>6. w = Whole'
  BY <1>1 DEF Whole
<1>7. QED
  BY <1>4, <1>5, <1>6 DEF LineAt

\* no handle of the line is in a buffer that nothing refers to
LEMMA LineRefers ==
    ASSUME StreamInv, NEW b, ~Refers(sent, b), ~Refers(inq, b), NEW k \in 1 .. Len(Whole)
    PROVE  Whole[k].buf # b
<1>1. /\ Len(inq) \in Nat /\ Len(sent) \in Nat /\ Len(Whole) = Len(inq) + Len(sent)
      /\ \A j \in 1 .. Len(inq) : Whole[j] = inq[j]
      /\ \A j \in 1 .. Len(sent) : Whole[Len(inq) + j] = sent[j]
      /\ inq \in Seq(Handles) /\ sent \in Seq(Handles)
  BY WholeIs
<1>2. CASE k <= Len(inq)
  BY <1>1, <1>2 DEF Refers
<1>3. CASE k > Len(inq)
  <2>1. PICK j \in 1 .. Len(sent) : k = Len(inq) + j
    <3>1. k - Len(inq) \in 1 .. Len(sent) /\ k = Len(inq) + (k - Len(inq))
      BY <1>1, <1>3
    <3>2. QED
      BY <3>1
  <2>2. QED
    BY <1>1, <2>1 DEF Refers
<1>4. QED
  BY <1>1, <1>2, <1>3

\* A buffer that comes back to the ring is not in the line.
LEMMA ReturnToRingLines ==
    ASSUME StreamInv, CircInv, NEW at \in Bases, NEW w \in Seq(Handles), LineAt(w, at),
           NEW i \in Slots, ReturnToRing(i)
    PROVE  LineAt(w, at)'
<1>1. /\ ~Refers(sent, <<"ring", i>>) /\ ~Refers(inq, <<"ring", i>>)
      /\ returned' = returned \cup {i}
      /\ UNCHANGED <<write, last, bytes_avail, ack_index, available, outgone, memory, behind>>
      /\ UNCHANGED <<kind, pool, posted, produced, cells, inq, sent>>
  BY DEF ReturnToRing, CircPush, Referenced, config, source, input
<1>2. w = Whole /\ Line(w, at)
  BY DEF LineAt
<1>3. CircTypeOK
  BY DEF CircInv
<1>4. ASSUME NEW k \in 1 .. Len(w), InRing(w[k])
      PROVE  /\ Slot(w[k]) \in Away' /\ memory'[Slot(w[k])] = memory[Slot(w[k])]
             /\ behind'[Slot(w[k])] = behind[Slot(w[k])]
             /\ Dist(Slot(w[k])) \in Int /\ Dist(Slot(w[k]))' = Dist(Slot(w[k])) - 0
  <2>1. PICK g, j : g \in Handles /\ g = w[k] /\ j = Slot(w[k])
    OBVIOUS
  <2>2. Lies(g, at) /\ g.buf = <<"ring", j>> /\ j \in Slots
    BY <1>2, <1>4, <2>1, HandleParts DEF Line
  <2>3. j \in Away
    BY <1>4, <2>1, <2>2 DEF Lies, RingLies
  <2>4. j # i
    BY <1>1, <1>2, <2>1, <2>2, LineRefers
  <2>5. j \in Away'
    BY <1>1, <2>3, <2>4 DEF Away, Queued
  <2>6. Dist(j) \in Int /\ Dist(j)' = Dist(j)
    BY <1>1, <1>3, <2>2, DistIsOneToOne DEF CircTypeOK, Dist
  <2>7. Dist(Slot(w[k]))' = Dist(j)'
    BY <2>1 DEF Slot, Dist
  <2>8. QED
    BY <1>1, <2>1, <2>5, <2>6, <2>7
<1>5. 0 \in Int
  OBVIOUS
<1>6. QED
  BY <1>1, <1>4, <1>5, RingMoves

\* To acknowledge a buffer moves the others nearer, and no handle.
LEMMA AckRingLines ==
    ASSUME StreamInv, CircInv, NEW at \in Bases, NEW w \in Seq(Handles), LineAt(w, at), AckRing
    PROVE  LineAt(w, at)'
<1>1. UNCHANGED <<kind, pool, posted, produced, cells, inq, sent>>
  BY DEF AckRing, config, source, input
<1>2. w = Whole /\ Line(w, at)
  BY DEF LineAt
<1>3. CircTypeOK
  BY DEF CircInv
<1>4. ASSUME NEW k \in 1 .. Len(w), InRing(w[k])
      PROVE  Slot(w[k]) \in Away /\ Slot(w[k]) \in Slots
  BY <1>2, <1>4, HandleParts DEF Line, Lies, RingLies
<1>5. CASE CircAckEnds
  <2>1. UNCHANGED <<ack_index, available, returned, memory, behind>>
    BY <1>5 DEF CircAckEnds
  <2>2. ASSUME NEW k \in 1 .. Len(w), InRing(w[k])
        PROVE  /\ Slot(w[k]) \in Away' /\ memory'[Slot(w[k])] = memory[Slot(w[k])]
               /\ behind'[Slot(w[k])] = behind[Slot(w[k])]
               /\ Dist(Slot(w[k])) \in Int /\ Dist(Slot(w[k]))' = Dist(Slot(w[k])) - 0
    <3>1. Slot(w[k]) \in Away /\ Slot(w[k]) \in Slots
      BY <1>4, <2>2
    <3>2. PICK j : j = Slot(w[k])
      OBVIOUS
    <3>3. Dist(j) \in Int /\ Dist(j)' = Dist(j)
      BY <1>3, <2>1, <3>1, <3>2, DistIsOneToOne DEF CircTypeOK, Dist
    <3>4. Dist(Slot(w[k]))' = Dist(j)'
      BY <3>2 DEF Slot, Dist
    <3>5. Away' = Away
      BY <2>1 DEF Away, Queued
    <3>6. QED
      BY <2>1, <3>1, <3>2, <3>3, <3>4, <3>5
  <2>3. 0 \in Int
    OBVIOUS
  <2>4. QED
    BY <1>1, <2>2, <2>3, RingMoves
<1>6. CASE CircAck
  <2>1. PICK a \in Slots : a = ack_index
    BY <1>3 DEF CircTypeOK
  <2>2. /\ a \in returned /\ available' = Append(available, a) /\ returned' = returned \ {a}
        /\ behind' = [behind EXCEPT ![a] = 0] /\ memory' = memory
        /\ ack_index' = IF a + 1 = NumBuffs THEN 0 ELSE a + 1
    BY <1>6, <2>1 DEF CircAck, Acked, AfterIndex
  <2>3. available \in Seq(Slots) /\ behind \in [Slots -> Nat] /\ NumBuffs \in Nat \ {0}
    BY <1>3, CircAssumption DEF CircTypeOK
  <2>4. Queued' \subseteq Queued \cup {a}
    <3>1. PICK q \in Seq(Slots) : q = available /\ available' = Append(q, a)
      BY <2>2, <2>3
    <3>2. \A k \in DOMAIN Append(q, a) : k \in DOMAIN q \/ Append(q, a)[k] = a
      BY <2>1
    <3>3. \A k \in DOMAIN q : Append(q, a)[k] = q[k]
      BY <2>1
    <3>4. QED
      BY <3>1, <3>2, <3>3 DEF Queued
  <2>5. ASSUME NEW k \in 1 .. Len(w), InRing(w[k])
        PROVE  /\ Slot(w[k]) \in Away' /\ memory'[Slot(w[k])] = memory[Slot(w[k])]
               /\ behind'[Slot(w[k])] = behind[Slot(w[k])]
               /\ Dist(Slot(w[k])) \in Int /\ Dist(Slot(w[k]))' = Dist(Slot(w[k])) - 1
    <3>1. PICK j : j = Slot(w[k])
      OBVIOUS
    <3>2. j \in Away /\ j \in Slots
      BY <1>4, <2>5, <3>1
    <3>3. j # a /\ j \in Away'
      BY <2>2, <2>4, <3>2 DEF Away, Slots
    <3>4. Dist(j) \in Int /\ Dist(j)' = Dist(j) - 1
      BY <2>1, <2>2, <2>3, <3>2, <3>3 DEF Slots, Dist
    <3>5. Dist(Slot(w[k]))' = Dist(j)'
      BY <3>1 DEF Slot, Dist
    <3>6. behind'[j] = behind[j]
      BY <2>2, <2>3, <3>2, <3>3
    <3>7. QED
      BY <2>2, <3>1, <3>3, <3>4, <3>5, <3>6
  <2>6. 1 \in Int
    OBVIOUS
  <2>7. QED
    BY <1>1, <2>5, <2>6, RingMoves
<1>7. QED
  BY <1>5, <1>6 DEF AckRing

\* A buffer that comes back to the pool is not in the line.
LEMMA ReturnToPoolLines ==
    ASSUME StreamInv, NEW at \in Bases, NEW w \in Seq(Handles), LineAt(w, at),
           NEW i \in PoolIds, ReturnToPool(i)
    PROVE  LineAt(w, at)'
<1>1. PICK b, h : b = <<"pool", i>> /\ h = Handle(b, 0, 0, Null)
  OBVIOUS
<1>2. /\ kind = "pool" /\ pool' = Append(pool, h)
      /\ ~Refers(pool, b) /\ ~Refers(sent, b) /\ ~Refers(inq, b)
      /\ UNCHANGED <<kind, circ, posted, produced, cells, inq, sent>>
  BY <1>1 DEF ReturnToPool, Referenced, config, input
<1>3. w = Whole /\ Line(w, at) /\ PoolOK(at)
  BY DEF LineAt
<1>4. h.buf = b /\ h.memory = 0 /\ h.offset = 0 /\ h.length = 0 /\ h.last = Null /\ InPool(h)
  BY <1>1 DEF Handle, InPool
<1>5. PICK q \in Seq(Ordinary) : q = pool
  BY DEF StreamInv
<1>6. h \in Ordinary
  <2>1. b \in Buffers /\ b \notin Aux
    BY <1>1 DEF Buffers, Aux
  <2>2. QED
    BY <1>1, <2>1, NullIsPointer DEF Handle, Handles, Ordinary
<1>7. PICK p : p = pool'
  OBVIOUS
<1>8. /\ Len(q) \in Nat /\ Len(p) = Len(q) + 1 /\ p[Len(q) + 1] = h
      /\ \A k \in 1 .. Len(q) : p[k] = q[k] /\ q[k].buf # b
      /\ DOMAIN q = 1 .. Len(q)
  <2>1. p = Append(q, h)
    BY <1>2, <1>5, <1>7
  <2>2. \A k \in 1 .. Len(q) : q[k].buf # b
    BY <1>2, <1>5 DEF Refers
  <2>3. QED
    BY <1>6, <2>1, <2>2
<1>9. ASSUME NEW k \in 1 .. Len(w) PROVE Lies(w[k], at)'
  <2>1. PICK g \in Handles : g = w[k]
    OBVIOUS
  <2>2. Lies(g, at) /\ g.buf # b
    BY <1>2, <1>3, <2>1, LineRefers DEF Line
  <2>3. Reads(g, at)'
    BY <1>2, <2>2, ReadsElsewhere DEF Lies
  <2>4. InRing(g) => RingLies(g)'
    BY <1>2, <2>2 DEF Lies, RingLies, Slot, Used, circ, Away, Queued
  <2>5. PoolLies(g, at) => PoolLies(g, at)'
    <3>1. SUFFICES ASSUME PoolLies(g, at) PROVE PoolLies(g, at)'
      OBVIOUS
    <3>2. ASSUME NEW k2 \in 1 .. Len(p)
          PROVE  /\ g.buf = p[k2].buf => Used(g) <= p[k2].offset
                 /\ (g.buf # p[k2].buf /\ p[k2].offset > 0) =>
                       /\ To(g, at) <= at[p[k2].buf]
                       /\ at[g.buf] + Kept <= at[p[k2].buf]
      <4>1. CASE k2 = Len(q) + 1
        BY <1>4, <1>8, <2>2, <4>1
      <4>2. CASE k2 # Len(q) + 1
        <5>1. k2 \in 1 .. Len(q) /\ p[k2] = pool[k2]
          BY <1>5, <1>8, <4>2
        <5>2. QED
          BY <1>5, <3>1, <5>1 DEF PoolLies
      <4>3. QED
        BY <4>1, <4>2
    <3>3. Pooled(g.buf) => Pooled(g.buf)'
      <4>1. SUFFICES ASSUME NEW k2 \in 1 .. Len(q), q[k2].buf = g.buf
                     PROVE  \E k3 \in 1 .. Len(p) : p[k3].buf = g.buf
        BY <1>5, <1>7 DEF Pooled
      <4>2. k2 \in 1 .. Len(p) /\ p[k2].buf = g.buf
        BY <1>8, <4>1
      <4>3. QED
        BY <4>2
    <3>4. QED
      BY <1>2, <1>7, <3>1, <3>2, <3>3 DEF PoolLies, To, Used, Kept
  <2>6. Lies(g, at)'
    BY <1>2, <2>2, <2>3, <2>4, <2>5 DEF Lies, InRing, InPool, InUser, Used
  <2>7. QED
    BY <2>1, <2>6
<1>10. ASSUME NEW j \in 1 .. Len(w), NEW k \in 1 .. Len(w), j < k PROVE Before(w[j], w[k], at)'
  <2>1. PICK f \in Handles, g \in Handles : f = w[j] /\ g = w[k]
    OBVIOUS
  <2>2. Before(f, g, at)
    BY <1>3, <1>10, <2>1 DEF Line
  <2>3. /\ Ends(f)' = Ends(f) /\ Left(g)' = Left(g)
        /\ Dist(Slot(f))' = Dist(Slot(f)) /\ Dist(Slot(g))' = Dist(Slot(g))
    BY <1>2 DEF circ, Ends, Left, Used, Slot, Dist
  <2>4. Before(f, g, at)'
    BY <2>2, <2>3 DEF Before, InRing, InPool, To, Used, Kept
  <2>5. QED
    BY <2>1, <2>4
<1>11. Line(w, at)'
  BY <1>2, <1>3, <1>9, <1>10, LineKept
<1>12. PoolOK(at)'
  <2>1. ASSUME NEW j \in 1 .. Len(p), NEW k \in 1 .. Len(p), j # k PROVE p[j].buf # p[k].buf
    <3>1. (j \in 1 .. Len(q) \/ j = Len(q) + 1) /\ (k \in 1 .. Len(q) \/ k = Len(q) + 1)
      BY <1>8
    <3>2. \A x, y \in 1 .. Len(q) : x # y => q[x].buf # q[y].buf
      BY <1>3, <1>5 DEF PoolOK
    <3>3. QED
      BY <1>4, <1>8, <2>1, <3>1, <3>2
  <2> DEFINE OK(x) == /\ InPool(x) /\ x.memory = 0 /\ x.length = 0
                      /\ x.offset <= PoolLen \div 2 /\ OfItems(x.offset)
                      /\ x.offset = 0 => x.last = Null
                      /\ x.offset > 0 => /\ x.last = At(x, 0)
                                         /\ Reads(x, at) /\ To(x, at) = produced
  <2>2. OK(h)
    <3>1. PoolLen \in Nat /\ ItemSize \in Nat \ {0}
      BY StreamAssumption
    <3>2. \A c \in Nat \ {0} : 0 % c = 0
      OBVIOUS
    <3>3. OfItems(h.offset)
      BY <1>4, <3>1, <3>2 DEF OfItems
    <3>4. h.offset <= PoolLen \div 2
      BY <1>4, <3>1
    <3>5. QED
      BY <1>4, <3>3, <3>4
  <2>3. ASSUME NEW k \in 1 .. Len(p) PROVE OK(p[k]) /\ (k > 1 => p[k].offset = 0)
    <3>1. CASE k \in 1 .. Len(q)
      <4>1. p[k] = pool[k] /\ k \in 1 .. Len(pool)
        BY <1>5, <1>8, <3>1
      <4>2. QED
        BY <1>3, <4>1 DEF PoolOK
    <3>2. CASE k = Len(q) + 1
      <4>1. p[k] = h
        BY <1>8, <3>2
      <4> HIDE DEF OK
      <4>2. QED
        BY <1>4, <2>2, <4>1
    <3>3. QED
      BY <1>8, <3>1, <3>2
  <2>4. ASSUME NEW x, OK(x)
        PROVE  x.offset > 0 => Reads(x, at)' /\ To(x, at)' = produced'
    BY <1>2, <2>4 DEF Reads, Used, Byte, Place, Cell, To
  <2>5. ASSUME NEW k \in 1 .. Len(p)
        PROVE  /\ InPool(p[k]) /\ p[k].memory = 0 /\ p[k].length = 0
               /\ p[k].offset <= PoolLen \div 2 /\ OfItems(p[k].offset)
               /\ k > 1 => p[k].offset = 0
               /\ p[k].offset = 0 => p[k].last = Null
               /\ p[k].offset > 0 => /\ p[k].last = At(p[k], 0) /\ Reads(p[k], at)'
                                     /\ To(p[k], at)' = produced'
    <3>1. PICK x : x = p[k]
      OBVIOUS
    <3>2. OK(x) /\ (k > 1 => x.offset = 0)
      BY <2>3, <3>1
    <3>3. x.offset > 0 => Reads(x, at)' /\ To(x, at)' = produced'
      BY <2>4, <3>2
    <3>4. QED
      BY <3>1, <3>2, <3>3
  <2> HIDE DEF OK
  <2>6. ASSUME NEW k \in 1 .. Len(p)
        PROVE  /\ InPool(p[k])' /\ OfItems(p[k].offset)' /\ At(p[k], 0)' = At(p[k], 0)
    BY <2>5 DEF InPool, OfItems, At
  <2>7. p = pool' /\ kind' = "pool"
    BY <1>2, <1>7
  <2>8. QED
    BY <2>1, <2>5, <2>6, <2>7 DEF PoolOK
<1>13. w = Whole'
  BY <1>2, <1>3 DEF Whole
<1>14. QED
  BY <1>11, <1>12, <1>13 DEF LineAt

\* A buffer that arrives keeps its place in the line.
LEMMA DeliverStays ==
    ASSUME StreamInv, CircInv, OfItems(produced),
           NEW at \in Bases, NEW w \in Seq(Handles), LineAt(w, at), Deliver
    PROVE  \E v \in Seq(Handles) : LineAt(v, at)'
<1>1. Line(Whole, at)
  BY DEF LineAt
<1>2. PICK v \in Seq(Handles) : v = Whole' /\ Line(v, at)
  BY <1>1, DeliverLines
<1>3. UNCHANGED <<kind, circ, pool, posted, produced, cells>>
  BY DEF Deliver, config, source
<1>4. LineAt(v, at)'
  BY <1>2, <1>3, RestLines
<1>5. QED
  BY <1>4

\* A consume shortens the line at its front.
LEMMA ConsumeStays ==
    ASSUME StreamInv, CircInv, NEW at \in Bases, NEW w \in Seq(Handles), LineAt(w, at),
           NEW n \in Items(MaxBytes), WorkConsumes(n)
    PROVE  \E v \in Seq(Handles) : LineAt(v, at)'
<1>1. Line(inq \o sent, at)
  BY DEF LineAt, Whole
<1>2. /\ inq \in Queues /\ sent \in Seq(Handles) /\ Len(inq) > 0 /\ n \in Nat /\ OfItems(n)
      /\ n <= inq[1].length /\ behind \in [Slots -> Nat]
      /\ inq' = Consumed(inq, n) /\ sent' = sent
      /\ UNCHANGED <<kind, circ, pool, posted, produced, cells>>
  <2>1. /\ inq \in Queues /\ inq # <<>> /\ n <= Head(inq).length
        /\ inq' = Consumed(inq, n) /\ sent' = sent
        /\ UNCHANGED <<kind, circ, pool, posted, produced, cells>>
    BY DEF StreamInv, WorkConsumes, Ready, config, source
  <2>2. inq \in Seq(Handles)
    BY <2>1 DEF Queues
  <2>3. n \in Nat /\ OfItems(n)
    BY StreamAssumption DEF Items, OfItems
  <2>4. sent \in Seq(Handles)
    BY WholeIs
  <2>5. QED
    BY <2>1, <2>2, <2>3, <2>4 DEF CircInv, CircTypeOK
<1>3. PICK q, t : q = inq /\ t = sent
  OBVIOUS
<1>4. Consumed(q, n) \o t \in Seq(Handles) /\ Line(Consumed(q, n) \o t, at)
  BY <1>1, <1>2, <1>3, ConsumeLines
<1>5. PICK v \in Seq(Handles) : v = Whole' /\ Line(v, at)
  BY <1>2, <1>3, <1>4 DEF Whole
<1>6. LineAt(v, at)'
  BY <1>2, <1>5, RestLines
<1>7. QED
  BY <1>6

\* a queue without its front
LEMMA TailOf ==
    ASSUME NEW r \in Seq(Handles), NEW t \in Seq(Handles), Len(r) > 0
    PROVE  \E u \in Seq(Handles) : \E v \in Seq(Handles) :
              /\ v = r \o t /\ Len(v) = Len(u) + 1 /\ v[1] = r[1]
              /\ \A k \in 1 .. Len(u) : v[k + 1] = u[k]
              /\ Len(u) = (Len(r) - 1) + Len(t) /\ Len(u) \in Nat
              /\ \A k \in 1 .. Len(r) - 1 : u[k] = r[k + 1]
              /\ \A k \in 1 .. Len(t) : u[(Len(r) - 1) + k] = t[k]
<1>1. PICK v \in Seq(Handles) :
         /\ v = r \o t /\ Len(v) = Len(r) + Len(t)
         /\ Len(r) \in Nat /\ Len(t) \in Nat /\ Len(v) \in Nat
         /\ \A k \in 1 .. Len(r) : v[k] = r[k]
         /\ \A k \in 1 .. Len(t) : v[Len(r) + k] = t[k]
  BY Concat
<1>2. PICK u \in Seq(Handles) : /\ Len(u) = Len(v) - 2 + 1 /\ Len(u) \in Nat
                                /\ \A k \in 1 .. Len(u) : u[k] = v[2 + k - 1]
  <2>1. 2 \in Nat \ {0} /\ 2 <= Len(v) + 1
    BY <1>1
  <2>2. QED
    BY <2>1, SuffixIs
<1>3. ASSUME NEW k \in 1 .. Len(u) PROVE v[k + 1] = u[k]
  <2>1. 2 + k - 1 = k + 1
    OBVIOUS
  <2>2. QED
    BY <1>2, <2>1
<1>4. Len(u) = (Len(r) - 1) + Len(t) /\ Len(v) = Len(u) + 1
  BY <1>1, <1>2
<1>5. ASSUME NEW k \in 1 .. Len(r) - 1 PROVE u[k] = r[k + 1]
  <2>1. k \in 1 .. Len(u) /\ k + 1 \in 1 .. Len(r)
    BY <1>1, <1>4
  <2>2. QED
    BY <1>1, <1>3, <2>1
<1>6. ASSUME NEW k \in 1 .. Len(t) PROVE u[(Len(r) - 1) + k] = t[k]
  <2>1. PICK i : i = (Len(r) - 1) + k
    OBVIOUS
  <2>2. i \in 1 .. Len(u) /\ i + 1 = Len(r) + k
    BY <1>1, <1>4, <2>1
  <2>3. QED
    BY <1>1, <1>3, <2>1, <2>2
<1>7. v[1] = r[1]
  BY <1>1
<1>8. QED
  BY <1>1, <1>2, <1>3, <1>4, <1>5, <1>6, <1>7

Shifted(u, e, w, l, n) == \A k \in 1 .. n : u[e + k] = w[l + k]

\* u is what is left of w behind the accumulation, which ends in its handle m
CutAt(w, q, a, m, u, z) ==
    /\ Len(q) <= Len(w) /\ Shifted(q, 0, w, 0, Len(q))
    /\ m \in 1 .. Len(q) /\ Leaves(q, a, m) /\ a.accum \in Handles /\ a.accum.buf \in Aux
    /\ u[1] = a.queue[2]
    /\ z \in Nat /\ Len(u) = z + 1 /\ z + m = Len(w) /\ Shifted(u, 1, w, m, z)

\* what accumulate() leaves goes on where the accumulation ends
LEMMA GatherCut ==
    ASSUME NEW at \in Bases, behind \in [Slots -> Nat],
           NEW w \in Seq(Handles), Line(w, at), NEW q \in Seq(Handles), NEW u \in Seq(Handles),
           NEW a, NEW m, NEW z, CutAt(w, q, a, m, u, z)
    PROVE  /\ Line(u, at) /\ Linked(u[1])
           /\ \E x \in Nat : x = a.accum.length /\ From(u[1], at) = From(q[1], at) + x
<1> /\ m \in 1 .. Len(q) /\ z \in Nat /\ Len(q) <= Len(w) /\ Leaves(q, a, m)
    /\ a.accum \in Handles /\ a.accum.buf \in Aux /\ u[1] = a.queue[2]
    /\ Len(u) = z + 1 /\ z + m = Len(w)
  BY DEF CutAt
<1>0. /\ \A k \in 1 .. Len(q) : q[k] = w[k]
      /\ \A k \in 2 .. Len(u) : u[k] = w[(m - 1) + k]
  <2>1. ASSUME NEW k \in 1 .. Len(q) PROVE q[k] = w[k]
    <3>1. 0 + k = k
      OBVIOUS
    <3>2. QED
      BY <3>1 DEF Shifted, CutAt
  <2>2. ASSUME NEW k \in 2 .. Len(u) PROVE u[k] = w[(m - 1) + k]
    <3>1. k \in 2 .. z + 1 /\ m \in Nat
      OBVIOUS
    <3>2. k - 1 \in 1 .. z /\ 1 + (k - 1) = k /\ m + (k - 1) = (m - 1) + k
      BY ONLY <3>1, z \in Nat
    <3>3. QED
      BY <3>2 DEF Shifted, CutAt
  <2>3. QED
    BY <2>1, <2>2
<1>1. PICK n, h, c, d, base :
         /\ n \in Nat /\ n = a.accum.length /\ h = a.queue[2] /\ c = Upto(q)[m - 1] /\ d = n - c
         /\ base = From(q[1], at)
  BY DEF Handles
<1>2. /\ m \in Nat /\ m >= 1 /\ m <= Len(q) /\ n = Free
      /\ d \in 0 .. q[m].length /\ c \in Nat
      /\ h \in Handles /\ h.buf = q[m].buf /\ h.memory = q[m].memory
      /\ h.offset = q[m].offset + d /\ h.length = q[m].length - d
      /\ h.last = IF d = 0 THEN q[m].last ELSE At(a.accum, n)
  BY <1>1 DEF Leaves
<1>3. /\ w[m] = q[m] /\ m \in 1 .. Len(w) /\ q[m] \in Handles /\ u[1] = h
      /\ 1 \in 1 .. Len(w) /\ w[1] = q[1] /\ Len(w) \in Nat
  <2>1. Len(w) \in Nat /\ Len(q) \in Nat /\ q[m] \in Handles
    OBVIOUS
  <2>2. m \in 1 .. Len(w) /\ 1 \in 1 .. Len(q) /\ 1 \in 1 .. Len(w)
    BY <1>2, <2>1
  <2>3. w[m] = q[m] /\ w[1] = q[1]
    BY <1>0, <2>2
  <2>4. QED
    BY <1>1, <2>1, <2>2, <2>3
<1>4. Chain(q, at) /\ base \in Nat /\ d \in Nat
  <2>1. 1 \in 1 .. Len(q)
    BY <1>2
  <2>2. q[1] \in Handles
    BY <2>1, HandlesAreQueue
  <2>3. From(q[1], at) \in Nat
    BY <2>2, HandleParts
  <2>4. d \in Nat
    BY <1>2, <1>3 DEF Handles
  <2>5. QED
    BY <1>0, <1>1, <2>3, <2>4, LineIsChain
<1>5. From(h, at) = base + n
  <2>1. From(q[m], at) = base + c
    BY <1>1, <1>4, ChainUpto
  <2>2. From(h, at) = From(q[m], at) + d
    <3>1. PICK g \in Handles : g = q[m]
      BY <1>3
    <3>2. at[g.buf] \in Nat /\ g.offset \in Nat
      BY HandleParts
    <3>3. at[g.buf] + (g.offset + d) = (at[g.buf] + g.offset) + d
      BY <1>4, <3>2
    <3>4. QED
      BY <1>2, <3>1, <3>3 DEF From
  <2>3. From(h, at) = (base + c) + d
    BY <2>1, <2>2
  <2>4. c \in Nat /\ base \in Nat /\ d = n - c
    BY <1>1, <1>2, <1>4
  <2>5. (base + c) + d = base + n
    <3>1. n \in Nat
      BY <1>1
    <3>2. QED
      BY ONLY <3>1, <2>4
  <2>6. QED
    BY <2>3, <2>5
<1>6. Linked(h)
  <2>1. CASE d # 0
    <3>1. Area(a.accum.buf) = a.accum.buf
      BY DEF Area, Aux
    <3>2. h.last[1] = a.accum.buf
      BY <1>2, <2>1, <3>1 DEF At
    <3>3. QED
      BY <3>2 DEF Linked
  <2>2. CASE d = 0
    <3>1. m # 1
      <4>1. SUFFICES ASSUME m = 1 PROVE FALSE
        OBVIOUS
      <4>2. Upto(q)[0] = 0
        BY HandlesAreQueue, UptoDef
      <4>3. c = 0
        BY <1>1, <4>1, <4>2
      <4>4. QED
        BY <1>1, <1>2, <2>2, <4>3, FreeFits
    <3>2. m - 1 \in 1 .. Len(w) - 1 /\ (m - 1) + 1 = m
      BY <1>2, <1>3, <3>1
    <3>3. Linked(w[m])
      BY <3>2 DEF Line, Follows
    <3>4. PICK g \in Handles : g = w[m]
      BY <1>3
    <3>5. h.last = g.last /\ h.buf = g.buf /\ h.memory = g.memory /\ h.offset = g.offset
      <4>1. g.offset \in Nat
        BY HandleParts
      <4>2. h.offset = g.offset
        BY <1>2, <1>3, <2>2, <3>4, <4>1
      <4>3. QED
        BY <1>2, <1>3, <2>2, <3>4, <4>2
    <3>6. QED
      BY <3>3, <3>4, <3>5 DEF Linked, InRing, At
  <2>3. QED
    BY <2>1, <2>2
<1>7. OfItems(From(h, at))
  <2>1. OfItems(n)
    <3>1. (Maximum \div ItemSize) \in Nat /\ Free = (Maximum \div ItemSize) * ItemSize
      <4>1. Maximum \in Nat /\ ItemSize \in Nat \ {0}
        BY StreamAssumption
      <4>2. ASSUME NEW x \in Nat, NEW y \in Nat \ {0} PROVE (x \div y) \in Nat
        BY ONLY <4>2
      <4>3. QED
        BY <4>1, <4>2 DEF Free
    <3>2. QED
      BY <1>1, <1>2, <3>1, ItemsDivide
  <2>2. OfItems(base) /\ base \in Nat
    <3>1. OfItems(From(w[1], at))
      BY <1>3 DEF Line
    <3>2. QED
      BY <1>1, <1>3, <1>4, <3>1
  <2>3. QED
    BY <1>1, <1>5, <2>1, <2>2, ItemsAdd
<1>8. Used(h) = Used(w[m])
  <2>1. PICK x \in Nat, y \in Nat : x = q[m].offset /\ y = q[m].length
    BY <1>3 DEF Handles
  <2>2. d \in Nat
    BY <1>4
  <2>3. (x + d) + (y - d) = x + y
    BY ONLY <2>2, x \in Nat, y \in Nat
  <2>4. QED
    BY <1>2, <1>3, <2>1, <2>3 DEF Used
<1>9. Line(u, at)
  <2>1. (m - 1) + 1 = m /\ m - 1 \in Nat
    BY <1>2
  <2>2. /\ u[1].buf = w[(m - 1) + 1].buf /\ u[1].memory = w[(m - 1) + 1].memory
        /\ Used(u[1]) = Used(w[(m - 1) + 1]) /\ OfItems(From(u[1], at))
    BY <1>2, <1>3, <1>7, <1>8, <2>1
  <2>3. Len(u) > 0 /\ Len(u) + (m - 1) = Len(w)
    <3>1. m \in Nat
      BY <1>2
    <3>2. (z + 1) + (m - 1) = z + m /\ z + 1 > 0
      BY ONLY <3>1, z \in Nat
    <3>3. QED
      BY <3>2
  <2>4. QED
    BY <1>0, <2>1, <2>2, <2>3, LineFront
<1>10. QED
  BY <1>1, <1>3, <1>5, <1>6, <1>9

\* a line without its first handles
LEMMA LineRest ==
    ASSUME NEW at \in Bases, behind \in [Slots -> Nat],
           NEW w \in Seq(Handles), Line(w, at), NEW m \in 1 .. Len(w),
           NEW u \in Seq(Handles), Len(u) + m = Len(w),
           \A k \in 1 .. Len(u) : u[k] = w[m + k]
    PROVE  /\ Line(u, at)
           /\ Len(u) > 0 => Linked(u[1]) /\ From(u[1], at) = To(w[m], at)
           /\ Len(u) = 0 => To(w[m], at) = produced
<1>1. Len(w) \in Nat /\ Len(u) \in Nat /\ m \in Nat
  OBVIOUS
<1>2. CASE Len(u) = 0
  <2>1. Len(w) = m /\ Len(w) > 0
    BY <1>1, <1>2
  <2>2. To(w[m], at) = produced
    BY <2>1 DEF Line
  <2>3. Line(u, at)
    BY <1>2 DEF Line
  <2>4. QED
    BY <1>2, <2>2, <2>3
<1>3. CASE Len(u) > 0
  <2>1. 1 \in 1 .. Len(u) /\ m + 1 \in 1 .. Len(w) /\ m \in 1 .. Len(w) - 1
    BY <1>1, <1>3
  <2>2. u[1] = w[m + 1]
    BY <2>1
  <2>3. Linked(w[m + 1]) /\ From(w[m + 1], at) = To(w[m], at) /\ OfItems(From(w[m + 1], at))
    BY <2>1 DEF Line, Follows
  <2>4. \A k \in 2 .. Len(u) : u[k] = w[m + k]
    BY <1>1
  <2>5. /\ u[1].buf = w[m + 1].buf /\ u[1].memory = w[m + 1].memory
        /\ Used(u[1]) = Used(w[m + 1]) /\ OfItems(From(u[1], at))
    BY <2>2, <2>3
  <2>6. Line(u, at)
    BY <1>1, <1>3, <2>4, <2>5, LineFront
  <2>7. QED
    BY <1>3, <2>2, <2>3, <2>6
<1>4. QED
  BY <1>1, <1>2, <1>3

\* u is what is left of w, of which q is the first l handles, behind the
\* accumulation
RestAt(w, q, l, n, a, e, u) ==
    /\ l \in Nat \ {0} /\ Len(q) = l /\ n \in Nat /\ Len(w) = l + n /\ Shifted(q, 0, w, 0, l)
    /\ a.accum \in Handles /\ a.accum.buf \in Aux
    /\ \/ Len(a.queue) = 1 /\ a.accum.length = Total(q)
       \/ \E m \in 1 .. Len(q) : Leaves(q, a, m)
    /\ e \in Nat /\ Len(a.queue) = e + 1 /\ Len(u) = e + n
    /\ Shifted(u, 0, a.queue, 1, e) /\ Shifted(u, e, w, l, n)

\* what is left behind the accumulation goes on at x
RestsAt(u, w, at, x) ==
    /\ Line(u, at)
    /\ Len(u) > 0 => Linked(u[1]) /\ From(u[1], at) = x
    /\ Len(u) = 0 => x = produced
    /\ \A k \in 1 .. Len(u) : \E j \in 1 .. Len(w) : u[k].buf = w[j].buf

\* What accumulate() did not copy is still a line.
LEMMA GatherRest ==
    ASSUME NEW at \in Bases, behind \in [Slots -> Nat],
           NEW w \in Seq(Handles), Line(w, at),
           NEW q \in Seq(Handles), NEW l, NEW n, NEW a, NEW e, NEW u \in Seq(Handles),
           RestAt(w, q, l, n, a, e, u),
           NEW x, x = From(q[1], at) + a.accum.length
    PROVE  RestsAt(u, w, at, x)
<1> /\ l \in Nat \ {0} /\ Len(q) = l /\ n \in Nat /\ Len(w) = l + n /\ Shifted(q, 0, w, 0, l)
    /\ a.accum \in Handles /\ a.accum.buf \in Aux
    /\ \/ Len(a.queue) = 1 /\ a.accum.length = Total(q)
       \/ \E m \in 1 .. Len(q) : Leaves(q, a, m)
    /\ e \in Nat /\ Len(a.queue) = e + 1 /\ Len(u) = e + n
    /\ Shifted(u, 0, a.queue, 1, e) /\ Shifted(u, e, w, l, n)
  BY DEF RestAt
<1>1. l \in 1 .. Len(q) /\ l \in 1 .. Len(w) /\ Len(q) <= Len(w) /\ l \in Nat /\ l >= 1
  OBVIOUS
<1>2. \A k \in 1 .. l : q[k] = w[k]
  <2>1. ASSUME NEW k \in 1 .. l PROVE q[k] = w[k]
    <3>1. 0 + k = k
      OBVIOUS
    <3>2. QED
      BY <3>1 DEF Shifted
  <2>2. QED
    BY <2>1
<1>3. CASE Len(a.queue) = 1 /\ a.accum.length = Total(q)
  <2>1. e = 0
    <3>1. e + 1 = 1
      BY <1>3
    <3>2. QED
      BY ONLY <3>1, e \in Nat
  <2>2. Len(u) = n /\ Len(u) + l = Len(w)
    BY <2>1
  <2>3. \A k \in 1 .. Len(u) : u[k] = w[l + k]
    <3>1. ASSUME NEW k \in 1 .. n PROVE u[k] = w[l + k]
      <4>1. e + k = k
        BY ONLY <2>1, k \in 1 .. n
      <4>2. u[e + k] = w[l + k]
        BY DEF Shifted
      <4>3. QED
        BY <4>1, <4>2
    <3>2. QED
      BY <2>2, <3>1
  <2>4. To(w[l], at) = From(q[1], at) + a.accum.length
    <3>1. Chain(q, at)
      BY <1>1, <1>2, LineIsChain
    <3>2. To(q[l], at) = From(q[1], at) + Upto(q)[l]
      BY <1>1, <3>1, ChainUpto
    <3>3. QED
      BY <1>1, <1>2, <1>3, <3>2 DEF Total
  <2>5. /\ Line(u, at)
        /\ Len(u) > 0 => Linked(u[1]) /\ From(u[1], at) = To(w[l], at)
        /\ Len(u) = 0 => To(w[l], at) = produced
    BY <1>1, <2>2, <2>3, LineRest
  <2>6. \A k \in 1 .. Len(u) : l + k \in 1 .. Len(w)
    BY <1>1, <2>2
  <2>7. QED
    BY <2>3, <2>4, <2>5, <2>6 DEF RestsAt
<1>4. ASSUME NEW m \in 1 .. Len(q), Leaves(q, a, m)
      PROVE  /\ Line(u, at) /\ Len(u) > 0
             /\ Linked(u[1]) /\ From(u[1], at) = From(q[1], at) + a.accum.length
             /\ \A k \in 1 .. Len(u) : \E j \in 1 .. Len(w) : u[k].buf = w[j].buf
  <2>0. PICK v : v = a.queue /\ Len(v) = e + 1
    OBVIOUS
  <2>1. m \in Nat /\ m >= 1 /\ m <= l /\ e + 1 = l - m + 2
    <3>1. Len(v) = Len(q) - m + 2
      BY ONLY <1>4, <2>0 DEF Leaves
    <3>2. QED
      BY <2>0, <3>1
  <2>2. /\ e = l - m + 1 /\ e + n + (m - 1) = l + n /\ e + n > 0 /\ 1 \in 1 .. e /\ 1 + 1 = 2
        /\ e + n \in Nat
    BY ONLY <2>1, e \in Nat, n \in Nat, l \in Nat \ {0}
  <2>9. /\ \A k \in 2 .. l - m + 1 : a.queue[k + 1] = q[m + k - 1]
        /\ a.queue[2].buf = q[m].buf
    <3>1. \A k \in 2 .. Len(q) - m + 1 : a.queue[k + 1] = q[m + k - 1]
      BY ONLY <1>4 DEF Leaves
    <3>2. a.queue[2].buf = q[m].buf
      BY ONLY <1>4 DEF Leaves
    <3>3. QED
      BY <3>1, <3>2
  <2>3. u[1] = a.queue[2]
    <3>1. 0 + 1 = 1
      OBVIOUS
    <3>2. QED
      BY <2>2, <3>1 DEF Shifted
  <2>4. ASSUME NEW k \in 2 .. e + n PROVE u[k] = w[(m - 1) + k] /\ (m - 1) + k \in 1 .. l + n
    <3>1. (m - 1) + k \in 1 .. l + n /\ m + k - 1 = (m - 1) + k
      BY ONLY <2>1, <2>2, k \in 2 .. e + n, n \in Nat, l \in Nat
    <3>2. CASE k <= l - m + 1
      <4>1. k \in 2 .. l - m + 1 /\ k \in 1 .. e /\ m + k - 1 \in 1 .. l /\ 0 + k = k /\ 1 + k = k + 1
        BY ONLY <2>1, <2>2, <3>2, k \in 2 .. e + n, n \in Nat, l \in Nat
      <4>2. u[k] = a.queue[k + 1]
        BY <4>1 DEF Shifted
      <4>3. a.queue[k + 1] = q[m + k - 1]
        BY <2>9, <4>1
      <4>4. q[m + k - 1] = w[m + k - 1]
        BY <1>2, <4>1
      <4>5. QED
        BY <3>1, <4>2, <4>3, <4>4
    <3>3. CASE k > l - m + 1
      <4>1. PICK i : i = k - (l - m + 1)
        OBVIOUS
      <4>2. /\ i \in 1 .. n /\ e + i = k /\ l + i = (m - 1) + k
        BY ONLY <2>1, <2>2, <3>3, <4>1, k \in 2 .. e + n, n \in Nat, l \in Nat
      <4>3. u[e + i] = w[l + i]
        BY <4>2 DEF Shifted
      <4>4. QED
        BY <3>1, <4>2, <4>3
    <3>4. QED
      BY <1>1, <2>1, <3>2, <3>3
  <2>5. PICK z \in Nat : z = e + n - 1 /\ Len(u) = z + 1 /\ z + m = Len(w) /\ Shifted(u, 1, w, m, z)
    <3>1. PICK z : z = e + n - 1
      OBVIOUS
    <3>2. z \in Nat /\ z + 1 = e + n /\ z + m = l + n
      BY ONLY <2>1, <2>2, <3>1, e \in Nat, n \in Nat, l \in Nat
    <3>3. ASSUME NEW k \in 1 .. z PROVE u[1 + k] = w[m + k]
      <4>1. 1 + k \in 2 .. e + n /\ (m - 1) + (1 + k) = m + k
        BY ONLY <2>1, <2>2, <3>2, k \in 1 .. z
      <4>2. QED
        BY <2>4, <4>1
    <3>4. QED
      BY <3>1, <3>2, <3>3 DEF Shifted
  <2>6. Line(u, at) /\ Linked(u[1]) /\ From(u[1], at) = From(q[1], at) + a.accum.length
    <3>1. CutAt(w, q, a, m, u, z)
      BY <1>1, <1>4, <2>2, <2>3, <2>5 DEF CutAt
    <3>2. Line(u, at) /\ Linked(u[1])
      BY ONLY behind \in [Slots -> Nat], Line(w, at), <3>1, GatherCut
    <3>3. From(u[1], at) = From(q[1], at) + a.accum.length
      BY ONLY behind \in [Slots -> Nat], Line(w, at), <3>1, GatherCut
    <3>4. QED
      BY <3>2, <3>3
  <2>7. ASSUME NEW k \in 1 .. e + n PROVE \E j \in 1 .. l + n : u[k].buf = w[j].buf
    <3>1. CASE k = 1
      <4>1. m \in 1 .. l + n /\ m \in 1 .. l
        BY ONLY <2>1, n \in Nat, l \in Nat
      <4>2. q[m] = w[m]
        BY <1>2, <4>1
      <4>3. QED
        BY <2>9, <2>3, <3>1, <4>1, <4>2
    <3>2. CASE k # 1
      <4>1. k \in 2 .. e + n
        BY ONLY <2>2, <3>2, k \in 1 .. e + n
      <4>2. QED
        BY <2>4, <4>1
    <3>3. QED
      BY <3>1, <3>2
  <2>8. QED
    BY <2>2, <2>6, <2>7
<1>5. QED
  BY <1>3, <1>4 DEF RestsAt

\* what accumulate() copies to its buffer: the next bytes of the stream
LEMMA AccumReads ==
    ASSUME CellsOK, NEW at \in Bases, NEW q \in Queues, Len(q) > 0, Chain(q, at),
           NEW a, a = Accumulated(q), cells' = Written(a.accum, a.values)
    PROVE  \E b \in Aux, n \in Nat, at2 \in Bases :
              /\ b = a.accum.buf /\ n = a.accum.length
              /\ at2[b] = From(q[1], at) /\ \A c \in Buffers \ {b} : at2[c] = at[c]
              /\ \A c \in Areas \ {b} : cells'[c] = cells[c]
              /\ Reads(a.accum, at2)'
<1>1. /\ a.accum \in Handles /\ a.accum.buf \in Aux /\ a.accum.memory = 0 /\ a.accum.offset = 0
      /\ a.accum.length = Min({Free, Total(q)})
      /\ a.values = SubSeq(Contents(q), 1, a.accum.length)
  BY AccumulateKeeps
<1>2. /\ q \in Seq(Handles) /\ q[1] \in Handles /\ Total(q) \in Nat
  <2>1. q \in Seq(Handles) /\ 1 \in 1 .. Len(q)
    BY DEF Queues
  <2>2. QED
    BY <2>1, HandlesAreQueue, TotalNat
<1>3. PICK s \in Handles, b \in Aux, n \in Nat : s = a.accum /\ b = s.buf /\ n = s.length
  BY <1>1 DEF Handles
<1>4. n <= Total(q) /\ n <= Maximum
  <2>1. Free \in Nat /\ Free <= Maximum /\ Maximum \in Nat
    BY FreeFits, StreamAssumption
  <2>2. n = IF Free <= Total(q) THEN Free ELSE Total(q)
    BY <1>1, <1>2, <1>3, <2>1, MinOfTwo
  <2>3. QED
    BY <1>2, <2>1, <2>2
<1>5. b \in Buffers /\ b[1] = "aux" /\ b # Ring /\ Length(b) = Maximum /\ Area(b) = b /\ ~InRing(s)
  BY <1>3 DEF Buffers, Aux, Ring, Length, Size, Area, InRing
<1>6. PICK base \in Nat : base = From(q[1], at)
  BY <1>2, HandleParts
<1>7. PICK at2 : at2 = [at EXCEPT ![b] = base]
  OBVIOUS
<1>8. at2 \in Bases /\ at2[b] = base /\ \A c \in Buffers \ {b} : at2[c] = at[c]
  BY <1>5, <1>7 DEF Bases
<1>9. PICK values : values = a.values
  OBVIOUS
<1>10. DOMAIN values = 1 .. n /\ \A k \in 1 .. n : values[k] = base + k
  <2>1. PICK c \in Seq(0 .. MaxBytes) : c = Contents(q) /\ Len(c) = Total(q)
    BY ContentsAre
  <2>2. values = SubSeq(c, 1, n)
    BY <1>1, <1>3, <1>9, <2>1
  <2>3. SubSeq(c, 1, n) = [k \in 1 .. n |-> c[k]]
    BY <1>4, <2>1
  <2>4. ASSUME NEW k \in 1 .. n PROVE c[k] = base + k
    <3>1. k \in 1 .. Total(q)
      BY <1>2, <1>4
    <3>2. QED
      BY <1>6, <2>1, <3>1, ChainContents
  <2>5. values = [k \in 1 .. n |-> c[k]]
    BY <2>2, <2>3
  <2>6. QED
    BY <2>4, <2>5
<1>11. Reads(s, at2)'
  <2>1. /\ s \in Handles /\ ~InRing(s) /\ s.memory = 0 /\ s.offset + n <= Length(s.buf)
        /\ DOMAIN values = 1 .. n /\ cells' = Written(s, values) /\ CellsOK /\ n \in Nat
        /\ at \in Bases /\ at2 \in Bases
    <3>1. s.offset + n = n /\ Maximum \in Nat
      BY <1>1, <1>3, StreamAssumption
    <3>2. s.offset + n <= Length(s.buf)
      BY <1>3, <1>4, <1>5, <3>1
    <3>3. QED
      BY <1>1, <1>3, <1>5, <1>8, <1>9, <1>10, <3>2
  <2>2. \A k \in 1 .. n : values[k] = at2[s.buf] + s.offset + k
    <3>1. base + 0 = base
      OBVIOUS
    <3>2. at2[s.buf] + s.offset = base
      BY <1>1, <1>3, <1>8, <3>1
    <3>3. QED
      BY <1>10, <3>2
  <2>3. \A h \in Handles :
             (/\ h.buf = s.buf /\ h.memory = 0 /\ Used(h) = s.offset + n
              /\ at2[s.buf] = at[s.buf] \/ s.offset = 0
              /\ \A x \in 0 .. s.offset - 1 : Byte(<<s.buf, x>>) = at[s.buf] + x + 1)
                 => Reads(h, at2)'
    BY ONLY <2>1, <2>2, PlainReads
  <2>4. /\ s.memory = 0 /\ s.offset = 0 /\ Used(s) = s.offset + n
        /\ \A x \in 0 .. s.offset - 1 : FALSE
    BY <1>1, <1>3 DEF Used
  <2>5. QED
    BY <2>3, <2>4
<1>12. \A c \in Areas \ {b} : cells'[c] = cells[c]
  BY <1>3, <1>5, <1>9, <1>10, WrittenIs
<1>13. Reads(a.accum, at2)'
  BY <1>3, <1>11 DEF Reads
<1>14. QED
  BY <1>3, <1>6, <1>8, <1>12, <1>13

\* What it copied is read from the auxiliary buffer, before the rest.
LEMMA GatherLines ==
    ASSUME StreamInv, CircInv, NEW at \in Bases, NEW w \in Seq(Handles), LineAt(w, at),
           Len(inq) > 0, NEW needed, Gather(needed), UNCHANGED <<config, circ, source, sent>>
    PROVE  \E at2 \in Bases : \E v \in Seq(Handles) : LineAt(v, at2)'
<1>1. /\ inq \in Queues /\ CellsOK /\ behind \in [Slots -> Nat]
      /\ UNCHANGED <<kind, circ, pool, posted, produced, sent>>
  BY DEF StreamInv, CircInv, CircTypeOK, config, source
<1>2. w = Whole /\ Line(w, at) /\ PoolOK(at)
  BY DEF LineAt
<1>3. CASE IsAccumulated(inq)
  <2>1. UNCHANGED <<cells, inq>>
    BY <1>3 DEF Gather
  <2>2. w = Whole'
    BY <1>1, <1>2, <2>1 DEF Whole
  <2>3. LineAt(w, at)'
    BY <1>1, <1>2, <2>1, <2>2, RestLines
  <2>4. QED
    BY <2>3
<1>4. CASE ~IsAccumulated(inq)
  <2>1. PICK a, q : a = Accumulated(inq) /\ q = inq
    OBVIOUS
  <2>2. /\ q \in Queues /\ Len(q) > 0 /\ a = Accumulated(q) /\ inq' = a.queue
        /\ cells' = Written(a.accum, a.values)
    BY <1>1, <1>4, <2>1 DEF Gather
  <2>3. /\ a.accum \in Handles /\ a.accum.buf \in Aux /\ a.accum.memory = 0 /\ a.accum.offset = 0
        /\ ~Refers(q, a.accum.buf) /\ a.queue \in Queues /\ Len(a.queue) > 0
        /\ a.queue[1] = a.accum
        /\ \/ Len(a.queue) = 1 /\ a.accum.length = Total(q)
           \/ \E m \in 1 .. Len(q) : Leaves(q, a, m)
    BY <2>2, AccumulateKeeps
  <2>4. PICK l, n : l = Len(inq) /\ n = Len(sent)
    OBVIOUS
  <2>5. /\ q \in Seq(Handles) /\ l \in Nat \ {0} /\ Len(q) = l /\ n \in Nat /\ Len(w) = l + n
        /\ \A k \in 1 .. l : w[k] = q[k]
        /\ \A k \in 1 .. n : w[l + k] = sent[k] /\ sent[k].buf \notin Aux
        /\ sent \in Seq(Handles)
    BY <1>2, <2>1, <2>2, <2>4, WholeIs
  <2>6. Chain(q, at)
    BY <1>2, <2>5, LineIsChain
  <2>7. PICK b \in Aux, len \in Nat, at2 \in Bases :
              /\ b = a.accum.buf /\ len = a.accum.length
              /\ at2[b] = From(q[1], at) /\ \A c \in Buffers \ {b} : at2[c] = at[c]
              /\ \A c \in Areas \ {b} : cells'[c] = cells[c]
              /\ Reads(a.accum, at2)'
    BY <1>1, <2>2, <2>6, AccumReads
  <2>8. PICK r \in Seq(Handles) : r = a.queue
    BY <2>3 DEF Queues
  <2>9. PICK e \in Nat : Len(r) = e + 1 /\ e = Len(r) - 1
    <3>1. Len(r) \in Nat /\ Len(r) > 0
      BY <2>3, <2>8
    <3>2. Len(r) - 1 \in Nat /\ Len(r) = (Len(r) - 1) + 1
      BY ONLY <3>1
    <3>3. QED
      BY <3>2
  <2>10. PICK u \in Seq(Handles), v \in Seq(Handles) :
              /\ v = r \o sent /\ Len(v) = Len(u) + 1 /\ v[1] = r[1]
              /\ \A k \in 1 .. Len(u) : v[k + 1] = u[k]
              /\ Len(u) = (Len(r) - 1) + Len(sent) /\ Len(u) \in Nat
              /\ \A k \in 1 .. Len(r) - 1 : u[k] = r[k + 1]
              /\ \A k \in 1 .. Len(sent) : u[(Len(r) - 1) + k] = sent[k]
    <3>1. Len(r) > 0
      BY <2>3, <2>8
    <3>2. QED
      BY ONLY <2>5, <3>1, r \in Seq(Handles), TailOf
  <2>11. /\ Len(u) = e + n /\ \A k \in 1 .. e : u[k] = r[k + 1]
         /\ \A k \in 1 .. n : u[e + k] = sent[k]
    BY ONLY <2>4, <2>9, <2>10
  <2>12. Shifted(q, 0, w, 0, l) /\ Shifted(u, 0, a.queue, 1, e) /\ Shifted(u, e, w, l, n)
    <3>1. ASSUME NEW k \in 1 .. l PROVE q[0 + k] = w[0 + k]
      <4>1. 0 + k = k
        BY <2>5
      <4>2. QED
        BY <2>5, <4>1
    <3>2. ASSUME NEW k \in 1 .. e PROVE u[0 + k] = a.queue[1 + k]
      <4>1. 0 + k = k /\ 1 + k = k + 1
        OBVIOUS
      <4>2. QED
        BY <2>8, <2>11, <4>1
    <3>3. ASSUME NEW k \in 1 .. n PROVE u[e + k] = w[l + k]
      BY <2>5, <2>11
    <3>4. QED
      BY <3>1, <3>2, <3>3 DEF Shifted
  <2>13. PICK x : x = From(q[1], at) + a.accum.length
    OBVIOUS
  <2>14. RestsAt(u, w, at, x)
    <3>1. RestAt(w, q, l, n, a, e, u)
      BY <2>3, <2>5, <2>8, <2>9, <2>11, <2>12 DEF RestAt
    <3>2. behind \in [Slots -> Nat] /\ Line(w, at)
      BY <1>1, <1>2
    <3>3. QED
      BY ONLY <2>13, <3>1, <3>2, <2>5, GatherRest
  <2>15. /\ b \in Buffers /\ b[1] = "aux" /\ b # Ring /\ Area(b) = b
    BY DEF Buffers, Aux, Ring, Area
  <2>16. ASSUME NEW h \in Handles, h.buf # b
         PROVE  at2[h.buf] = at[h.buf] /\ cells'[Area(h.buf)] = cells[Area(h.buf)]
    <3>1. h.buf \in Buffers /\ Area(h.buf) \in Areas /\ Area(h.buf) # b
      BY <2>15, <2>16, HandleParts
    <3>2. QED
      BY <2>7, <2>16, <3>1
  <2>17. \A k \in 1 .. Len(w) : w[k].buf # b
    <3>1. \A k \in 1 .. l : w[k].buf # b
      <4>1. DOMAIN q = 1 .. l
        BY <2>5
      <4>2. QED
        BY <2>3, <2>5, <2>7, <4>1 DEF Refers
    <3>2. \A k \in 1 .. n : w[l + k].buf # b
      BY <2>5, <2>7
    <3>3. ASSUME NEW k \in 1 .. Len(w), ~(k \in 1 .. l) PROVE k - l \in 1 .. n /\ l + (k - l) = k
      BY <2>5, <3>3
    <3>4. ASSUME NEW k \in 1 .. Len(w), ~(k \in 1 .. l) PROVE w[k].buf # b
      BY <3>2, <3>3, <3>4
    <3>5. QED
      BY <3>1, <3>4
  <2>18. Line(u, at2)'
    <3>1. ASSUME NEW k \in 1 .. Len(u)
          PROVE  at2[u[k].buf] = at[u[k].buf] /\ cells'[Area(u[k].buf)] = cells[Area(u[k].buf)]
      <4>1. u[k].buf # b
        BY <2>14, <2>17 DEF RestsAt
      <4>2. u[k] \in Handles
        OBVIOUS
      <4>3. QED
        BY <2>16, <4>1, <4>2
    <3>2. ASSUME NEW k \in 1 .. Len(pool) PROVE at2[pool[k].buf] = at[pool[k].buf]
      <4>1. pool[k] \in Handles /\ pool[k].buf # b
        BY <1>1, <2>7 DEF StreamInv, Ordinary
      <4>2. QED
        BY <2>16, <4>1
    <3>3. Line(u, at)
      BY <2>14 DEF RestsAt
    <3>4. QED
      BY <1>1, <3>1, <3>2, <3>3, LineStays
  <2>19. PICK s \in Handles : s = a.accum
    BY <2>3
  <2>20. /\ s.buf \in Aux /\ s.memory = 0 /\ Reads(s, at2)'
         /\ From(s, at2) = From(q[1], at) /\ To(s, at2) = x
    <3>1. at2[b] \in Nat /\ at2[b] + 0 = at2[b] /\ at2[b] + (0 + len) = at2[b] + len
      BY <2>15 DEF Bases
    <3>2. Reads(s, at2)'
      BY <2>7, <2>19 DEF Reads
    <3>3. QED
      BY <2>3, <2>7, <2>13, <2>19, <3>1, <3>2 DEF From, To, Used
  <2>21. OfItems(From(s, at2))
    <3>1. 1 \in 1 .. l /\ 1 \in 1 .. l + n
      BY ONLY <2>5
    <3>2. w[1] = q[1] /\ 1 \in 1 .. Len(w)
      BY <2>5, <3>1
    <3>3. OfItems(From(w[1], at))
      BY <1>2, <3>2 DEF Line
    <3>4. QED
      BY <2>20, <3>2, <3>3
  <2>22. /\ Len(u) > 0 => Linked(u[1]) /\ From(u[1], at2) = To(s, at2)
         /\ Len(u) = 0 => To(s, at2) = produced'
    <3>1. ASSUME Len(u) > 0 PROVE From(u[1], at2) = From(u[1], at)
      <4>1. 1 \in 1 .. Len(u)
        BY <3>1
      <4>2. u[1] \in Handles /\ u[1].buf # b
        BY <2>14, <2>17, <4>1 DEF RestsAt
      <4>3. QED
        BY <2>16, <4>2 DEF From
    <3>2. QED
      BY <1>1, <2>14, <2>20, <3>1 DEF RestsAt
  <2>23. Line(v, at2)'
    <3>1. v[1] = s /\ Len(v) = Len(u) + 1 /\ \A k \in 1 .. Len(u) : v[k + 1] = u[k]
      BY <2>3, <2>8, <2>10, <2>19
    <3>2. QED
      BY <2>18, <2>20, <2>21, <2>22, <3>1, LineFronted
  <2>24. PoolOK(at2)'
    <3>1. ASSUME NEW k \in 1 .. Len(pool)
          PROVE  at2[pool[k].buf] = at[pool[k].buf]
                 /\ cells'[Area(pool[k].buf)] = cells[Area(pool[k].buf)]
      <4>1. pool[k] \in Handles /\ pool[k].buf # b
        BY <1>1, <2>7 DEF StreamInv, Ordinary
      <4>2. QED
        BY <2>16, <4>1
    <3>2. QED
      BY <1>1, <1>2, <3>1, PoolStays
  <2>25. v = Whole'
    BY <1>1, <2>2, <2>8, <2>10 DEF Whole
  <2>26. QED
    BY <2>23, <2>24, <2>25 DEF LineAt
<1>5. QED
  BY <1>3, <1>4

-----------------------------------------------------------------------------
(* The invariant of the connection.                                        *)

\* A connection begins with an empty line.
LEMMA LineInit == Init => LineInv
<1>1. SUFFICES ASSUME Init PROVE LineInv
  OBVIOUS
<1>2. PICK at : at = [b \in Buffers |-> 0]
  OBVIOUS
<1>3. at \in Bases
  BY <1>2 DEF Bases
<1>4. PICK w : w = Whole
  OBVIOUS
<1>5. w = <<>> /\ w \in Seq(Handles) /\ Len(w) = 0
  BY <1>1, <1>4 DEF Init, Whole
<1>6. Line(w, at)
  BY <1>5 DEF Line
<1>7. PoolOK(at)
  <2>1. CASE kind # "pool"
    <3>1. pool = <<>>
      BY <1>1, <2>1 DEF Init
    <3>2. QED
      BY <2>1, <3>1 DEF PoolOK
  <2>2. CASE kind = "pool"
    <3>1. pool = [k \in 1 .. PoolBuffs |-> Handle(<<"pool", k - 1>>, 0, 0, Null)]
          /\ PoolBuffs \in Nat /\ PoolLen \in Nat /\ ItemSize \in Nat \ {0}
      BY <1>1, <2>2, StreamAssumption DEF Init
    <3>2. Len(pool) = PoolBuffs
      BY <3>1
    <3>3. ASSUME NEW k \in 1 .. Len(pool)
          PROVE  /\ pool[k].buf = <<"pool", k - 1>> /\ InPool(pool[k]) /\ pool[k].memory = 0
                 /\ pool[k].length = 0 /\ pool[k].offset = 0 /\ pool[k].last = Null
      BY <3>1, <3>2 DEF Handle, InPool
    <3>4. 0 <= PoolLen \div 2 /\ OfItems(0)
      BY <3>1 DEF OfItems
    <3>5. \A j, k \in 1 .. Len(pool) : j # k => pool[j].buf # pool[k].buf
      BY <3>3
    <3>6. QED
      BY <2>2, <3>3, <3>4, <3>5 DEF PoolOK
  <2>3. QED
    BY <2>1, <2>2
<1>8. OfItems(produced) /\ LastOK
  <2>1. produced = 0 /\ last = NoPtr
    BY <1>1 DEF Init, CircInit
  <2>2. ItemSize \in Nat \ {0}
    BY StreamAssumption
  <2>3. QED
    BY <2>1, <2>2 DEF OfItems, LastOK
<1>9. LineAt(w, at)
  BY <1>4, <1>6, <1>7 DEF LineAt
<1>10. QED
  BY <1>3, <1>5, <1>8, <1>9 DEF LineInv

\* whole items are produced
LEMMA ItemsProduced ==
    ASSUME StreamInv, OfItems(produced), [Next]_vars
    PROVE  OfItems(produced')
<1>1. produced \in Nat
  BY DEF StreamInv
<1>2. ASSUME NEW s, NEW n \in Nat, OfItems(n), Produce(s, n) PROVE OfItems(produced')
  BY <1>1, <1>2, ItemsAdd DEF Produce
<1>3. ASSUME NEW r, NEW n \in Items(r) PROVE n \in Int /\ n >= 1 /\ OfItems(n)
  BY DEF Items, OfItems
<1>4. CASE ProduceRing
  BY <1>2, <1>3, <1>4 DEF ProduceRing
<1>5. CASE ProducePool
  BY <1>2, <1>3, <1>5 DEF ProducePool
<1>6. CASE PostUser
  BY <1>2, <1>6, StreamAssumption DEF PostUser, OfItems
<1>7. CASE produced' = produced
  BY <1>7
<1>8. QED
  BY <1>4, <1>5, <1>6, <1>7 DEF Next, vars, source, ReturnToPool, ReturnToRing, AckRing,
     Deliver, WorkGathers, WorkFails, WorkConsumes

\* the pointer to the end of the last buffer
LEMMA LastNext ==
    ASSUME CircInv, LastOK, [Next]_vars
    PROVE  LastOK'
<1>1. write \in Nat /\ CircLen \in Nat
  BY CircAssumption DEF CircInv, CircTypeOK
<1>2. ASSUME NEW n \in Nat, CircPop(n) PROVE LastOK'
  BY <1>1, <1>2 DEF CircPop, Wrap, LastOK
<1>3. CASE ProduceRing
  <2>1. PICK n \in Items(BuffLen) : CircPop(n)
    BY <1>3 DEF ProduceRing
  <2>2. n \in Nat
    BY DEF Items
  <2>3. QED
    BY <1>2, <2>1, <2>2
<1>4. CASE last' = last /\ write' = write
  BY <1>4 DEF LastOK
<1>5. QED
  BY <1>3, <1>4 DEF Next, vars, circ, source, ProducePool, PostUser, ReturnToPool, ReturnToRing,
     AckRing, CircPush, CircAck, CircAckEnds, Deliver, WorkGathers, WorkFails, WorkConsumes

\* Every step keeps the line.
LEMMA LineNext ==
    ASSUME NoMix, StreamInv, CircInv, LineInv, [Next]_vars
    PROVE  LineInv'
<1>1. OfItems(produced') /\ LastOK'
  BY ItemsProduced, LastNext DEF LineInv
<1>2. PICK at \in Bases, w \in Seq(Handles) : LineAt(w, at)
  BY DEF LineInv
<1>3. OfItems(produced) /\ LastOK
  BY DEF LineInv
<1>4. \E at2 \in Bases : \E v \in Seq(Handles) : LineAt(v, at2)'
  <2>1. CASE ProduceRing
    BY <1>2, <1>3, <2>1, ProduceRingLines
  <2>2. CASE ProducePool
    BY <1>2, <1>3, <2>2, ProducePoolLines
  <2>3. CASE PostUser
    BY <1>2, <1>3, <2>3, PostUserLines
  <2>4. ASSUME NEW i \in PoolIds, ReturnToPool(i) PROVE LineAt(w, at)'
    BY <1>2, <2>4, ReturnToPoolLines
  <2>5. ASSUME NEW i \in Slots, ReturnToRing(i) PROVE LineAt(w, at)'
    BY <1>2, <2>5, ReturnToRingLines
  <2>6. CASE AckRing
    BY <1>2, <2>6, AckRingLines
  <2>7. CASE Deliver
    BY <1>2, <1>3, <2>7, DeliverStays
  <2>8. CASE WorkGathers
    <3>1. /\ Len(inq) > 0 /\ Gather(reserve)
          /\ UNCHANGED <<config, circ, source, sent>>
      BY <2>8, WholeIs DEF WorkGathers, Ready
    <3>2. QED
      BY <1>2, <3>1, GatherLines
  <2>9. CASE WorkFails
    <3>1. /\ Len(inq) > 0 /\ Gather(0)
          /\ UNCHANGED <<config, circ, source, sent>>
      BY <2>9, WholeIs DEF WorkFails, Ready
    <3>2. QED
      BY <1>2, <3>1, GatherLines
  <2>10. ASSUME NEW n \in Items(MaxBytes), WorkConsumes(n)
         PROVE  \E v \in Seq(Handles) : LineAt(v, at)'
    BY <1>2, <2>10, ConsumeStays
  <2>11. CASE UNCHANGED vars
    <3>1. UNCHANGED <<kind, circ, pool, posted, produced, cells, inq, sent>>
      BY <2>11 DEF vars, config, source, input
    <3>2. w = Whole' /\ Line(w, at)
      BY <1>2, <3>1 DEF LineAt, Whole
    <3>3. LineAt(w, at)'
      BY <1>2, <3>1, <3>2, RestLines
    <3>4. QED
      BY <3>3
  <2>12. QED
    BY <2>1, <2>2, <2>3, <2>4, <2>5, <2>6, <2>7, <2>8, <2>9, <2>10, <2>11 DEF Next
<1>5. QED
  BY <1>1, <1>4 DEF LineInv

\* what holds at every step of a connection
LEMMA LineAlways ==
    ASSUME NoMix
    PROVE  Spec => [](StreamInv /\ CircInv /\ LineInv)
<1>1. Spec => []CircInv
  BY StreamUsesRing, CircInvHolds, PTL
<1>2. Spec => [](StreamInv /\ CircTypeOK)
  BY StreamAlways
<1>3. StreamInv /\ CircInv /\ LineInv /\ [Next]_vars => LineInv'
  BY LineNext
<1>4. Init => LineInv
  BY LineInit
<1>5. QED
  BY <1>1, <1>2, <1>3, <1>4, PTL DEF Spec

-----------------------------------------------------------------------------
(* The connection implements the channel.                                  *)

\* Two queues hold what each of them holds.
LEMMA TotalConcat ==
    ASSUME NEW a \in Seq(Handles), NEW b \in Seq(Handles)
    PROVE  Total(a \o b) = Total(a) + Total(b) /\ Total(a) \in Nat /\ Total(b) \in Nat
<1>1. PICK p \in Seq(Handles) :
         /\ p = a \o b /\ Len(p) = Len(a) + Len(b)
         /\ Len(a) \in Nat /\ Len(b) \in Nat /\ Len(p) \in Nat
         /\ \A k \in 1 .. Len(a) : p[k] = a[k]
         /\ \A k \in 1 .. Len(b) : p[Len(a) + k] = b[k]
  BY Concat
<1>2. IsQueue(a) /\ IsQueue(b) /\ IsQueue(p)
  BY HandlesAreQueue
<1>3. PICK m \in Nat, n \in Nat : m = Len(a) /\ n = Len(b)
  BY <1>1
<1>4. Upto(p)[m] = Total(a)
  <2>1. Same(a, 0, p, 0, m)
    <3>1. 0 + m <= Len(a) /\ 0 + m <= Len(p)
      BY <1>1, <1>3
    <3>2. ASSUME NEW k \in 1 .. m PROVE p[0 + k].length = a[0 + k].length
      <4>1. 0 + k = k
        OBVIOUS
      <4>2. QED
        BY <1>1, <1>3, <4>1
    <3>3. QED
      BY <1>2, <3>1, <3>2 DEF Same
  <2>2. Upto(p)[0 + m] - Upto(p)[0] = Upto(a)[0 + m] - Upto(a)[0]
    BY <2>1, UptoAgrees
  <2>3. Upto(p)[0] = 0 /\ Upto(a)[0] = 0 /\ 0 + m = m /\ m \in 0 .. Len(p) /\ m \in 0 .. Len(a)
    BY <1>1, <1>2, <1>3, UptoDef
  <2>4. Upto(p)[m] \in Nat /\ Upto(a)[m] \in Nat
    BY <1>2, <2>3, UptoDef
  <2>5. Upto(p)[m] - 0 = Upto(a)[m] - 0
    BY <2>2, <2>3
  <2>6. Upto(p)[m] = Upto(a)[m]
    BY ONLY <2>4, <2>5
  <2>7. QED
    BY <1>3, <2>6 DEF Total
<1>5. Total(b) = Total(p) - Upto(p)[m]
  <2>1. m \in 0 .. Len(p) /\ Len(b) = Len(p) - m
    BY <1>1, <1>3
  <2>2. \A k \in 1 .. Len(p) - m : b[k].length = p[m + k].length
    BY <1>1, <1>3, <2>1
  <2>3. QED
    BY <1>2, <2>1, <2>2, TotalRest
<1>6. Total(a) \in Nat /\ Total(b) \in Nat /\ Total(p) \in Nat
  BY <1>2, TotalNat
<1>7. QED
  BY <1>1, <1>4, <1>5, <1>6

\* the bytes that were produced and not yet consumed
Unread == enqueued + Total(sent)

\* a consumer would read the last bytes that were produced, in order
BytesOK ==
    /\ produced \in Nat /\ Unread \in Nat /\ Unread <= produced
    /\ Contents(Whole) = [k \in 1 .. Unread |-> (produced - Unread) + k]

\* What is read through the handles of a line are the last bytes produced.
LEMMA LineReads == StreamInv /\ LineInv => BytesOK
<1>1. SUFFICES ASSUME StreamInv, LineInv PROVE BytesOK
  OBVIOUS
<1>2. PICK at \in Bases, w \in Seq(Handles) : w = Whole /\ Line(w, at)
  BY <1>1 DEF LineInv, LineAt
<1>3. /\ w \in Queues /\ inq \in Seq(Handles) /\ sent \in Seq(Handles) /\ Len(w) \in Nat
      /\ produced \in Nat /\ CellsOK /\ enqueued = Total(inq)
  BY <1>1, <1>2, WholeIs DEF StreamInv
<1>4. Total(w) = Unread /\ Unread \in Nat
  BY <1>2, <1>3, TotalConcat DEF Unread, Whole
<1>5. Contents(w) \in Seq(0 .. MaxBytes) /\ Len(Contents(w)) = Unread
  BY <1>3, <1>4, ContentsAre
<1>6. Unread <= produced /\ \A k \in 1 .. Unread : Contents(w)[k] = (produced - Unread) + k
  <2>1. CASE Len(w) = 0
    <3>1. w = <<>>
      BY <2>1
    <3>2. Unread = 0
      BY <1>4, <3>1, TotalEmpty
    <3>3. QED
      BY <1>3, <3>2
  <2>2. CASE Len(w) > 0
    <3>1. Chain(w, at)
      BY <1>2, <1>3, LineIsChain
    <3>2. Len(w) \in 1 .. Len(w) /\ 1 \in 1 .. Len(w)
      BY <1>3, <2>2
    <3>3. PICK base \in Nat : base = From(w[1], at)
      <4>1. w[1] \in Handles
        BY <3>2
      <4>2. QED
        BY <4>1, HandleParts
    <3>4. To(w[Len(w)], at) = base + Unread
      BY <1>4, <3>1, <3>2, <3>3, ChainUpto DEF Total
    <3>5. To(w[Len(w)], at) = produced
      BY <1>2, <2>2 DEF Line
    <3>6. Unread <= produced /\ base = produced - Unread
      BY <1>3, <1>4, <3>4, <3>5
    <3>7. ASSUME NEW k \in 1 .. Unread PROVE Contents(w)[k] = base + k
      BY <1>3, <1>4, <3>1, <3>3, ChainContents
    <3>8. QED
      BY <3>6, <3>7
  <2>3. QED
    BY <1>3, <2>1, <2>2
<1>7. Contents(w) = [k \in 1 .. Unread |-> (produced - Unread) + k]
  <2>1. PICK c : c = Contents(w)
    OBVIOUS
  <2>2. c \in Seq(0 .. MaxBytes) /\ Len(c) = Unread
    BY <1>5, <2>1
  <2>3. c = [k \in 1 .. Unread |-> c[k]]
    BY <2>2
  <2>4. \A k \in 1 .. Unread : c[k] = (produced - Unread) + k
    BY <1>6, <2>1
  <2>5. QED
    BY <2>1, <2>3, <2>4
<1>8. QED
  BY <1>2, <1>3, <1>4, <1>6, <1>7 DEF BytesOK

\* what a step does to the number of bytes
LEMMA UnreadMoves ==
    ASSUME StreamInv, StreamInv', [Next]_vars
    PROVE  \/ \E n \in 1 .. MaxBytes :
                 produced' = produced + n /\ produced + n <= MaxBytes /\ Unread' = Unread + n
           \/ \E n \in 1 .. MaxBytes :
                 produced' = produced /\ n <= Unread /\ Unread' = Unread - n
           \/ produced' = produced /\ Unread' = Unread
<1>1. /\ produced \in Nat /\ MaxBytes \in Nat /\ enqueued \in Nat /\ sent \in Seq(Handles)
      /\ inq \in Seq(Handles) /\ Total(sent) \in Nat /\ enqueued = Total(inq)
  <2>1. sent \in Seq(Handles) /\ inq \in Seq(Handles)
    BY WholeIs
  <2>2. Total(sent) \in Nat /\ Total(inq) \in Nat
    BY <2>1, TotalConcat
  <2>3. QED
    BY <2>1, <2>2, StreamAssumption DEF StreamInv
<1>2. ASSUME NEW s, NEW n \in Nat, n >= 1, [s EXCEPT !.length = n].length = n, Produce(s, n)
      PROVE  \E m \in 1 .. MaxBytes :
                 produced' = produced + m /\ produced + m <= MaxBytes /\ Unread' = Unread + m
  <2>1. /\ produced' = produced + n /\ produced + n <= MaxBytes /\ enqueued' = enqueued
        /\ sent' = Append(sent, [s EXCEPT !.length = n])
    BY <1>2 DEF Produce, input
  <2>2. PICK h : h = [s EXCEPT !.length = n] /\ h.length = n
    BY <1>2
  <2>3. PICK q, r : q = sent /\ r = sent'
    OBVIOUS
  <2>4. /\ q \in Seq(Handles) /\ r = Append(q, h) /\ Len(r) = Len(q) + 1 /\ r[Len(r)] = h
        /\ \A k \in 1 .. Len(q) : r[k] = q[k]
    BY <1>1, <2>1, <2>2, <2>3
  <2>5. IsQueue(q) /\ IsQueue(r)
    <3>1. Len(q) \in Nat /\ \A k \in 1 .. Len(q) : q[k].length \in Nat
      BY <2>4, HandlesAreQueue DEF IsQueue
    <3>2. ASSUME NEW k \in 1 .. Len(r) PROVE r[k].length \in Nat
      BY <2>2, <2>4, <3>1
    <3>3. QED
      BY <2>4, <3>1, <3>2 DEF IsQueue
  <2>6. Total(r) = Total(q) + n
    <3>1. PICK z : z = r[Len(r)].length
      OBVIOUS
    <3>2. z = n
      BY <2>2, <2>4, <3>1
    <3>3. Len(r) = Len(q) + 1 /\ \A k \in 1 .. Len(q) : r[k].length = q[k].length
      BY <2>4
    <3>4. Total(r) = Total(q) + r[Len(r)].length
      BY <2>5, <3>3, TotalAppend
    <3>5. QED
      BY <3>1, <3>2, <3>4
  <2>7. enqueued + (Total(sent) + n) = (enqueued + Total(sent)) + n /\ n \in 1 .. MaxBytes
    BY <1>1, <1>2, <2>1
  <2>8. Unread' = Unread + n
    <3>1. Unread' = enqueued' + Total(r)
      BY <2>3 DEF Unread, Total, Upto
    <3>2. QED
      BY <2>1, <2>3, <2>6, <2>7, <3>1 DEF Unread
  <2>9. QED
    BY <2>1, <2>7, <2>8
<1>3. ASSUME NEW r, NEW n \in Items(r) PROVE n \in Nat /\ n >= 1
  BY DEF Items
<1>4. ASSUME NEW b, NEW m, NEW o, NEW l, NEW n PROVE [Handle(b, m, o, l) EXCEPT !.length = n].length = n
  BY DEF Handle
<1>5. CASE ProduceRing
  <2>1. PICK s : s = Handle(<<"ring", Head(available)>>, write, 0,
                            IF last = NoPtr THEN Null ELSE <<Ring, last>>)
    OBVIOUS
  <2>2. PICK n \in Items(BuffLen) : Produce(s, n)
    BY <1>5, <2>1 DEF ProduceRing
  <2>3. [s EXCEPT !.length = n].length = n /\ n \in Nat /\ n >= 1
    BY <1>3, <1>4, <2>1
  <2>4. QED
    BY <1>2, <2>2, <2>3
<1>6. CASE ProducePool
  <2>1. PICK s : s = Head(pool)
    OBVIOUS
  <2>2. PICK n \in Items(PoolLen - s.offset) : Produce(s, n)
    BY <1>6, <2>1 DEF ProducePool
  <2>3. pool # <<>> /\ pool \in Seq(Ordinary)
    BY <1>6 DEF ProducePool, OutputReady, StreamInv
  <2>4. s \in Handles
    BY <2>1, <2>3 DEF Ordinary
  <2>5. [s EXCEPT !.length = n].length = n /\ n \in Nat /\ n >= 1
    BY <1>3, <2>4 DEF Handles
  <2>6. QED
    BY <1>2, <2>2, <2>5
<1>7. CASE PostUser
  <2>1. PICK l : Produce(Handle(<<"user", posted'>>, 0, 0, l), UserLen)
    BY <1>7 DEF PostUser
  <2>2. PICK s : s = Handle(<<"user", posted'>>, 0, 0, l)
    OBVIOUS
  <2>3. [s EXCEPT !.length = UserLen].length = UserLen /\ UserLen \in Nat /\ UserLen >= 1
    BY <1>4, <2>2, StreamAssumption
  <2>4. QED
    BY <1>2, <2>1, <2>2, <2>3
<1>8. CASE Deliver
  <2>1. /\ sent # <<>> /\ enqueued' = enqueued + Head(sent).length /\ sent' = Tail(sent)
        /\ produced' = produced
    BY <1>8 DEF Deliver, source
  <2>2. PICK q, r : q = sent /\ r = sent'
    OBVIOUS
  <2>3. /\ q \in Seq(Handles) /\ r = Tail(q) /\ Len(q) \in Nat /\ Len(q) >= 1
    BY <1>1, <2>1, <2>2
  <2>4. r \in Seq(Handles) /\ Len(r) = Len(q) - 1 /\ \A k \in 1 .. Len(q) - 1 : r[k] = q[1 + k]
    BY <2>3
  <2>5. IsQueue(q) /\ IsQueue(r) /\ 1 \in 0 .. Len(q)
    <3>1. q \in Seq(Handles) /\ r \in Seq(Handles)
      BY <2>3, <2>4
    <3>2. IsQueue(q) /\ IsQueue(r)
      BY ONLY <3>1, HandlesAreQueue
    <3>3. QED
      BY <2>3, <3>2
  <2>6. Total(r) = Total(q) - Upto(q)[1]
    BY <2>4, <2>5, TotalRest
  <2>7. Upto(q)[1] = q[1].length /\ q[1].length \in Nat
    <3>1. 1 \in 1 .. Len(q) /\ 1 - 1 = 0 /\ q[1] \in Handles
      BY <2>3
    <3>2. q[1].length \in Nat
      BY <3>1 DEF Handles
    <3>3. Upto(q)[1] = Upto(q)[1 - 1] + q[1].length /\ Upto(q)[0] = 0
      BY <2>5, <3>1, UptoDef
    <3>4. 0 + q[1].length = q[1].length
      BY <3>2
    <3>5. QED
      BY <3>1, <3>2, <3>3, <3>4
  <2>8. PICK l \in Nat, t \in Nat, e \in Nat : l = q[1].length /\ t = Total(q) /\ e = enqueued
    BY <1>1, <2>2, <2>7
  <2>9. enqueued' = e + l /\ Total(r) = t - l
    BY <2>1, <2>2, <2>3, <2>6, <2>7, <2>8
  <2>10. (e + l) + (t - l) = e + t
    OBVIOUS
  <2>11. Unread' = enqueued' + Total(r)
    BY <2>2 DEF Unread, Total, Upto
  <2>12. Unread = e + t
    BY <2>2, <2>8 DEF Unread
  <2>13. QED
    BY <2>1, <2>9, <2>10, <2>11, <2>12
<1>9. ASSUME NEW n \in Items(MaxBytes), WorkConsumes(n)
      PROVE  \E m \in 1 .. MaxBytes :
                 produced' = produced /\ m <= Unread /\ Unread' = Unread - m
  <2>1. n \in 1 .. MaxBytes /\ produced' = produced /\ enqueued' = enqueued - n /\ sent' = sent
    BY <1>9 DEF Items, WorkConsumes, source
  <2>2. enqueued' \in Nat
    <3>1. (inq \in Seq(Handles))'
      BY DEF StreamInv, Queues
    <3>2. (enqueued = Total(inq))'
      BY DEF StreamInv
    <3>3. PICK q \in Seq(Handles) : q = inq'
      BY <3>1
    <3>4. Total(q) \in Nat
      BY HandlesAreQueue, TotalNat
    <3>5. enqueued' = Total(q)
      BY <3>2, <3>3 DEF Total, Upto
    <3>6. QED
      BY <3>4, <3>5
  <2>3. Unread' = enqueued' + Total(sent)
    BY <2>1 DEF Unread, Total, Upto
  <2>4. PICK t \in Nat, e \in Nat : t = Total(sent) /\ e = enqueued
    BY <1>1
  <2>5. e - n \in Nat /\ Unread = e + t /\ Unread' = (e - n) + t
    BY <2>1, <2>2, <2>3, <2>4 DEF Unread
  <2>6. n <= e + t /\ (e - n) + t = (e + t) - n
    BY ONLY <2>5, <2>1, t \in Nat, e \in Nat, <1>1
  <2>7. QED
    BY <2>1, <2>5, <2>6
<1>10. CASE produced' = produced /\ enqueued' = enqueued /\ sent' = sent
  BY <1>10 DEF Unread, Total, Upto
<1>11. QED
  BY <1>5, <1>6, <1>7, <1>8, <1>9, <1>10 DEF Next, vars, source, input, ReturnToPool, ReturnToRing,
     AckRing, WorkGathers, WorkFails

\* the last u of p bytes
Bytes(p, u) == [k \in 1 .. u |-> (p - u) + k]

\* The bytes of the stream after more were produced, or some consumed.
LEMMA BytesMove ==
    ASSUME NEW p \in Nat, NEW u \in Nat, NEW n \in Nat
    PROVE  /\ Len(Bytes(p, u)) = u
           /\ Bytes(p + n, u + n) = Bytes(p, u) \o [k \in 1 .. n |-> p + k]
           /\ n <= u => Bytes(p, u - n) = SubSeq(Bytes(p, u), n + 1, Len(Bytes(p, u)))
<1>1. PICK b : b = Bytes(p, u)
  OBVIOUS
<1>2. b = [k \in 1 .. u |-> (p - u) + k] /\ b \in Seq(Int) /\ Len(b) = u
  BY <1>1 DEF Bytes
<1>3. Bytes(p + n, u + n) = b \o [k \in 1 .. n |-> p + k]
  <2>1. PICK c : c = [k \in 1 .. n |-> p + k]
    OBVIOUS
  <2>2. c \in Seq(Int) /\ Len(c) = n
    BY <2>1
  <2>3. b \o c = [k \in 1 .. u + n |-> IF k <= u THEN b[k] ELSE c[k - u]]
    BY <1>2, <2>2
  <2>4. ASSUME NEW k \in 1 .. u + n
        PROVE  (IF k <= u THEN b[k] ELSE c[k - u]) = ((p + n) - (u + n)) + k
    <3>1. CASE k <= u
      BY <1>2, <3>1
    <3>2. CASE k > u
      <4>1. k - u \in 1 .. n
        BY <3>2
      <4>2. c[k - u] = p + (k - u)
        BY <2>1, <4>1
      <4>3. p + (k - u) = ((p + n) - (u + n)) + k
        OBVIOUS
      <4>4. QED
        BY <3>2, <4>2, <4>3
    <3>3. QED
      BY <3>1, <3>2
  <2>5. b \o c = [k \in 1 .. u + n |-> ((p + n) - (u + n)) + k]
    BY <2>3, <2>4
  <2>6. QED
    BY <2>1, <2>5 DEF Bytes
<1>4. ASSUME n <= u PROVE Bytes(p, u - n) = SubSeq(b, n + 1, u)
  <2>1. SubSeq(b, n + 1, u) = [k \in 1 .. u - n |-> b[n + k]]
    <3>1. SubSeq(b, n + 1, u) = [k \in 1 .. (u - (n + 1)) + 1 |-> b[(k + (n + 1)) - 1]]
      BY <1>2
    <3>2. (u - (n + 1)) + 1 = u - n
      OBVIOUS
    <3>3. \A k \in 1 .. u - n : (k + (n + 1)) - 1 = n + k
      OBVIOUS
    <3>4. QED
      BY <3>1, <3>2, <3>3
  <2>2. ASSUME NEW k \in 1 .. u - n PROVE b[n + k] = (p - (u - n)) + k
    <3>1. n + k \in 1 .. u /\ (p - u) + (n + k) = (p - (u - n)) + k
      BY <1>4
    <3>2. QED
      BY <1>2, <3>1
  <2>3. QED
    BY <2>1, <2>2 DEF Bytes
<1>5. QED
  BY <1>1, <1>2, <1>3, <1>4

\* A step of the connection is a step of the channel, or none.
LEMMA ChannelStep ==
    ASSUME StreamInv, StreamInv', BytesOK, BytesOK', [Next]_vars
    PROVE  [Channel!ChannelNext]_<<produced, Contents(inq \o sent)>>
<1>1. PICK p, u, q, v : p = produced /\ u = Unread /\ q = produced' /\ v = Unread'
  OBVIOUS
<1>2. PICK b, c : b = Contents(inq \o sent) /\ c = Contents(inq \o sent)'
  OBVIOUS
<1>3. /\ p \in Nat /\ u \in Nat /\ q \in Nat /\ v \in Nat
      /\ b = Bytes(p, u) /\ c = Bytes(q, v)
  BY <1>1, <1>2 DEF BytesOK, Bytes, Whole
<1>4. ASSUME NEW n \in 1 .. MaxBytes, q = p + n, p + n <= MaxBytes, v = u + n
      PROVE  Channel!Send(n)
  <2>1. c = b \o [k \in 1 .. n |-> p + k]
    <3>1. n \in Nat /\ p \in Nat /\ u \in Nat
      BY <1>3
    <3>2. Bytes(p + n, u + n) = Bytes(p, u) \o [k \in 1 .. n |-> p + k]
      BY ONLY <3>1, BytesMove
    <3>3. c = Bytes(p + n, u + n) /\ b = Bytes(p, u)
      BY <1>3, <1>4
    <3>4. QED
      BY <3>2, <3>3
  <2>2. QED
    BY <1>1, <1>2, <1>4, <2>1 DEF Channel!Send
<1>5. ASSUME NEW n \in 1 .. MaxBytes, q = p, n <= u, v = u - n
      PROVE  Channel!Receive(n)
  <2>1. Len(b) = u /\ c = SubSeq(b, n + 1, Len(b))
    <3>1. n \in Nat /\ p \in Nat /\ u \in Nat /\ n <= u
      BY <1>3, <1>5
    <3>2. /\ Len(Bytes(p, u)) = u
          /\ Bytes(p, u - n) = SubSeq(Bytes(p, u), n + 1, Len(Bytes(p, u)))
      BY ONLY <3>1, BytesMove
    <3>3. c = Bytes(p, u - n) /\ b = Bytes(p, u)
      BY <1>3, <1>5
    <3>4. QED
      BY <3>2, <3>3
  <2>2. QED
    BY <1>1, <1>2, <1>5, <2>1 DEF Channel!Receive
<1>6. CASE q = p /\ v = u
  BY <1>1, <1>2, <1>3, <1>6
<1>7. QED
  BY <1>1, <1>4, <1>5, <1>6, UnreadMoves DEF Channel!ChannelNext

\* What a consumer would read through the handles, from memory as it is at
\* every moment, is what the producer wrote and was not consumed: pushing,
\* stitching, accumulating and giving back bytes, and buffers that return to a
\* pool or a ring, lose, double, reorder and overwrite no byte.  The block
\* may post buffers of its own, but not beside those of a pool.
THEOREM StreamIsChannel ==
    ASSUME NoMix
    PROVE  Spec => IsChannel
<1>1. Spec => [](StreamInv /\ CircInv /\ LineInv)
  BY LineAlways
<1>2. StreamInv /\ LineInv => BytesOK
  BY LineReads
<1>3. Init => Channel!ChannelInit
  <2>1. SUFFICES ASSUME Init PROVE Channel!ChannelInit
    OBVIOUS
  <2>2. produced = 0 /\ inq \o sent = <<>>
    BY <2>1 DEF Init
  <2>3. Contents(<<>>) = <<>>
    BY DEF Contents, FlattenSeq
  <2>4. QED
    BY <2>2, <2>3 DEF Channel!ChannelInit
<1>4. StreamInv /\ BytesOK /\ StreamInv' /\ BytesOK' /\ [Next]_vars
         => [Channel!ChannelNext]_<<produced, Contents(inq \o sent)>>
  BY ChannelStep
<1>5. QED
  BY <1>1, <1>2, <1>3, <1>4, PTL DEF Spec, IsChannel, Channel!ChannelSpec

\* Whatever joins and gives back the input queue made, the byte a consumer
\* would read next is the one after the byte it read.
THEOREM BytesInOrder ==
    ASSUME NoMix
    PROVE  Spec => []InOrder
<1>1. BytesOK => InOrder
  <2>1. SUFFICES ASSUME BytesOK PROVE InOrder
    OBVIOUS
  <2>2. PICK c, p, u : c = Contents(inq \o sent) /\ u = Unread /\ p = produced - u
    OBVIOUS
  <2>3. c = [k \in 1 .. u |-> p + k] /\ Len(c) = u /\ p \in Int /\ u \in Nat
    BY <2>1, <2>2 DEF BytesOK, Whole
  <2>4. ASSUME NEW k \in 1 .. u - 1 PROVE c[k + 1] = c[k] + 1
    BY <2>3
  <2>5. QED
    BY <2>2, <2>3, <2>4 DEF InOrder
<1>2. StreamInv /\ LineInv => BytesOK
  BY LineReads
<1>3. QED
  BY <1>1, <1>2, LineAlways, PTL

-----------------------------------------------------------------------------
(* A pool with no buffer left.                                             *)

\* numbers of a set that are K apart, and below p, reach n * K below p
LEMMA Spread ==
    ASSUME NEW K \in Nat, NEW p \in Nat, NEW U, NEW f \in [U -> Nat],
           \A i \in U : f[i] + K <= p,
           \A i, j \in U : i # j => f[i] + K <= f[j] \/ f[j] + K <= f[i],
           NEW A, A \subseteq U, IsFiniteSet(A), NEW n \in Nat, Cardinality(A) = n + 1
    PROVE  \E i \in A : f[i] + (n + 1) * K <= p
<1> DEFINE Far(B, m) == \E i \in B : f[i] + (m + 1) * K <= p
           T == {m \in Nat : \A B \in SUBSET U :
                    IsFiniteSet(B) /\ Cardinality(B) = m + 1 => Far(B, m)}
<1>1. 0 \in T
  <2>1. SUFFICES ASSUME NEW B \in SUBSET U, IsFiniteSet(B), Cardinality(B) = 1 PROVE Far(B, 0)
    OBVIOUS
  <2>2. PICK i : i \in B
    BY <2>1, FS_EmptySet
  <2>3. f[i] + K <= p /\ (0 + 1) * K = K
    BY <2>2
  <2>4. QED
    BY <2>2, <2>3
<1>2. ASSUME NEW m \in Nat, m \in T PROVE m + 1 \in T
  <2>1. SUFFICES ASSUME NEW B \in SUBSET U, IsFiniteSet(B), Cardinality(B) = (m + 1) + 1
                 PROVE  Far(B, m + 1)
    BY <1>2
  <2> DEFINE F == {f[i] : i \in B}
  <2>2. F \in SUBSET Nat /\ F # {}
    <3>1. B # {}
      BY <2>1, FS_EmptySet
    <3>2. QED
      BY <3>1
  <2>3. PICK i \in B : f[i] = Min(F)
    BY <2>2, MinIsLeast
  <2>4. \A j \in B : f[i] <= f[j]
    BY <2>2, <2>3, MinIsLeast
  <2>5. IsFiniteSet(B \ {i}) /\ Cardinality(B \ {i}) = m + 1 /\ B \ {i} \in SUBSET U
    BY <2>1, <2>3, FS_RemoveElement
  <2>6. PICK j \in B \ {i} : f[j] + (m + 1) * K <= p
    BY <1>2, <2>5
  <2>7. f[i] + K <= f[j] \/ f[j] + K <= f[i]
    BY <2>3, <2>6
  <2>8. PICK x \in Nat, y \in Nat, z \in Nat : x = f[i] /\ y = f[j] /\ z = (m + 1) * K
    OBVIOUS
  <2>9. x <= y /\ (x + K <= y \/ y + K <= x) /\ y + z <= p
    BY <2>3, <2>4, <2>6, <2>7, <2>8
  <2>10. x + (z + K) <= p
    BY ONLY <2>9, K \in Nat, p \in Nat, x \in Nat, y \in Nat, z \in Nat
  <2>11. ((m + 1) + 1) * K = z + K
    BY <2>8
  <2>12. QED
    BY <2>3, <2>8, <2>10, <2>11
<1>3. n \in T
  <2> HIDE DEF T
  <2> QED
    BY <1>1, <1>2, SetInduction
<1>4. QED
  BY <1>3

\* What a buffer of the pool has when it leaves is a number of bytes.
LEMMA KeptNat == Kept \in Nat
<1>1. PoolLen \in Nat /\ ItemSize \in Nat \ {0}
  BY StreamAssumption
<1>2. ASSUME NEW p \in Nat, NEW c \in Nat \ {0} PROVE (((p \div 2) \div c) + 1) * c \in Nat
  <2>1. PICK x \in Nat : x = p \div 2
    OBVIOUS
  <2>2. PICK y \in Nat : y = x \div c
    OBVIOUS
  <2>3. (y + 1) * c \in Nat
    OBVIOUS
  <2>4. QED
    BY <2>1, <2>2, <2>3
<1>3. QED
  BY <1>1, <1>2 DEF Kept

\* When every buffer of the pool is in the line, each but one is filled as far
\* as a buffer is before it leaves, and no byte of it was consumed.
LEMMA PoolFills ==
    ASSUME StreamInv, NEW at \in Bases, NEW w \in Seq(Handles), Line(w, at), pool = <<>>,
           \A i \in PoolIds : \E k \in 1 .. Len(w) : w[k].buf = <<"pool", i>>
    PROVE  Total(w) \in Nat /\ (PoolBuffs - 1) * Kept <= Total(w)
<1> DEFINE f == [i \in PoolIds |-> at[<<"pool", i>>]]
<1>1. /\ PoolBuffs \in Nat \ {0} /\ Kept \in Nat /\ produced \in Nat
      /\ \A i \in PoolIds : <<"pool", i>> \in Buffers
  BY StreamAssumption, KeptNat DEF StreamInv, Buffers
<1>2. /\ f \in [PoolIds -> Nat] /\ \A i \in PoolIds : f[i] = at[<<"pool", i>>]
  BY <1>1 DEF Bases
<1>3. /\ IsQueue(w) /\ Len(w) \in Nat /\ \A k \in 1 .. Len(w) : w[k] \in Handles
      /\ Total(w) \in Nat
  BY HandlesAreQueue, TotalNat
<1>4. Chain(w, at)
  BY LineIsChain
<1> HIDE DEF f
<1>5. ASSUME NEW i \in PoolIds, NEW k \in 1 .. Len(w), w[k].buf = <<"pool", i>>
      PROVE  InPool(w[k]) /\ f[i] = at[w[k].buf] /\ f[i] + Kept <= produced
  <2>1. InPool(w[k])
    BY <1>5 DEF InPool
  <2>2. PoolLies(w[k], at) /\ ~Pooled(w[k].buf)
    BY <2>1 DEF Line, Lies, Pooled
  <2>3. QED
    BY <1>2, <1>5, <2>1, <2>2 DEF PoolLies
<1>6. ASSUME NEW i \in PoolIds, NEW j \in PoolIds, i # j,
             NEW k \in 1 .. Len(w), w[k].buf = <<"pool", i>>,
             NEW l \in 1 .. Len(w), w[l].buf = <<"pool", j>>, k < l
      PROVE  To(w[k], at) <= f[j] /\ f[i] + Kept <= f[j]
  <2>1. InPool(w[k]) /\ InPool(w[l]) /\ f[i] = at[w[k].buf] /\ f[j] = at[w[l].buf]
    BY <1>5, <1>6
  <2>2. Before(w[k], w[l], at) /\ w[k].buf # w[l].buf
    BY <1>6 DEF Line
  <2>3. QED
    BY <2>1, <2>2 DEF Before
<1>7. \A i \in PoolIds : f[i] + Kept <= produced
  BY <1>5
<1>8. ASSUME NEW i \in PoolIds, NEW j \in PoolIds, i # j
      PROVE  f[i] + Kept <= f[j] \/ f[j] + Kept <= f[i]
  <2>1. PICK k \in 1 .. Len(w) : w[k].buf = <<"pool", i>>
    OBVIOUS
  <2>2. PICK l \in 1 .. Len(w) : w[l].buf = <<"pool", j>>
    OBVIOUS
  <2>3. k # l /\ k \in Nat /\ l \in Nat
    BY <1>8, <2>1, <2>2
  <2>4. k < l \/ l < k
    BY <2>3
  <2>5. QED
    BY <1>6, <1>8, <2>1, <2>2, <2>4
<1>9. PICK base \in Nat : base = From(w[1], at)
  <2>1. 0 \in PoolIds
    BY <1>1 DEF PoolIds
  <2>2. 1 \in 1 .. Len(w)
    BY <1>3, <2>1
  <2>3. QED
    BY <1>3, <2>2, HandleParts
<1>10. base + Total(w) = produced /\ \A k \in 1 .. Len(w) : base <= To(w[k], at)
  <2>1. 0 \in PoolIds
    BY <1>1 DEF PoolIds
  <2>2. Len(w) \in 1 .. Len(w) /\ Len(w) > 0
    BY <1>3, <2>1
  <2>3. To(w[Len(w)], at) = base + Total(w)
    BY <1>4, <1>9, <2>2, ChainUpto DEF Total
  <2>4. \A k \in 1 .. Len(w) : Upto(w)[k] \in Nat
    BY <1>3, UptoDef
  <2>5. ASSUME NEW k \in 1 .. Len(w) PROVE base <= To(w[k], at)
    BY <1>4, <1>9, <2>4, ChainUpto
  <2>6. QED
    BY <2>2, <2>3, <2>5 DEF Line
<1>11. CASE PoolBuffs = 1
  BY <1>1, <1>3, <1>11
<1>12. CASE PoolBuffs # 1
  <2> DEFINE F == {f[i] : i \in PoolIds}
  <2>1. F \in SUBSET Nat /\ F # {}
    BY <1>1, <1>2 DEF PoolIds
  <2>2. PICK i \in PoolIds : \A j \in PoolIds : f[i] <= f[j]
    <3>1. PICK m : m = Min(F)
      OBVIOUS
    <3>2. m \in F /\ \A y \in F : m <= y
      BY <2>1, <3>1, MinIsLeast
    <3>3. PICK i \in PoolIds : f[i] = m
      BY <3>2
    <3>4. \A j \in PoolIds : f[j] \in F
      OBVIOUS
    <3>5. QED
      BY <3>2, <3>3, <3>4
  <2>3. PICK n \in Nat : n = PoolBuffs - 2 /\ n + 1 = PoolBuffs - 1
    BY <1>1, <1>12
  <2>4. IsFiniteSet(PoolIds \ {i}) /\ Cardinality(PoolIds \ {i}) = n + 1
    <3>1. IsFiniteSet(PoolIds) /\ Cardinality(PoolIds) = PoolBuffs
      BY <1>1, FS_Interval DEF PoolIds
    <3>2. QED
      BY <2>3, <3>1, FS_RemoveElement
  <2>5. PICK j \in PoolIds \ {i} : f[j] + (n + 1) * Kept <= produced
    <3>1. PoolIds \ {i} \subseteq PoolIds
      OBVIOUS
    <3>2. QED
      BY <1>1, <1>2, <1>7, <1>8, <2>4, <3>1, Spread
  <2>6. base <= f[j]
    <3>1. PICK k \in 1 .. Len(w) : w[k].buf = <<"pool", i>>
      OBVIOUS
    <3>2. PICK l \in 1 .. Len(w) : w[l].buf = <<"pool", j>>
      OBVIOUS
    <3>3. k # l /\ k \in Nat /\ l \in Nat
      BY <2>5, <3>1, <3>2
    <3>4. CASE k < l
      <4>1. To(w[k], at) <= f[j]
        BY <1>6, <2>5, <3>1, <3>2, <3>4
      <4>2. base <= To(w[k], at) /\ To(w[k], at) \in Nat
        BY <1>3, <1>10, HandleParts
      <4>3. QED
        BY <1>2, <4>1, <4>2
    <3>5. CASE l < k
      <4>1. To(w[l], at) <= f[i] /\ f[i] <= f[j]
        BY <1>6, <2>2, <2>5, <3>1, <3>2, <3>5
      <4>2. base <= To(w[l], at) /\ To(w[l], at) \in Nat
        BY <1>3, <1>10, HandleParts
      <4>3. QED
        BY <1>2, <4>1, <4>2
    <3>6. QED
      BY <3>3, <3>4, <3>5
  <2>7. PICK x \in Nat, y \in Nat, t \in Nat : x = f[j] /\ y = (n + 1) * Kept /\ t = Total(w)
    <3>1. (n + 1) * Kept \in Nat
      BY <1>1
    <3>2. QED
      BY <1>2, <1>3, <3>1
  <2>8. base <= x /\ x + y <= produced /\ base + t = produced
    BY <1>10, <2>5, <2>6, <2>7
  <2>9. y <= t
    BY <2>8
  <2>10. QED
    BY <1>3, <2>3, <2>7, <2>9
<1>13. QED
  BY <1>11, <1>12

\* A buffer has room for an item, and all buffers but one hold the reserve.
\* block_allocator.cpp makes eight buffers, each as long as the reserve unless
\* the maximum of the output cuts them: to no less than two sevenths, then.
\* For a byte more they may wait for each other: with 2 buffers of 5 bytes, of
\* which 3 are kept, a reserve of 4, and a maximum of 5.
PoolRoom ==
    "pool" \in Kinds => /\ ItemSize <= PoolLen
                        /\ \A r \in Reserves : r <= (PoolBuffs - 1) * Kept

\* A pool with a buffer has room in its first; a pool with none has so much in
\* the line that the consumer has its reserve.
LEMMA PoolNotStuck ==
    ASSUME PoolRoom, StreamInv, LineInv, kind = "pool", Resting
    PROVE  OutputReady \/ enqueued >= reserve
<1>1. PICK at \in Bases, w \in Seq(Handles) : w = Whole /\ Line(w, at) /\ PoolOK(at)
  BY DEF LineInv, LineAt
<1>2. /\ "pool" \in Kinds /\ reserve \in Reserves /\ reserve \in Nat /\ enqueued = Total(inq)
      /\ ItemSize \in Nat \ {0} /\ PoolLen \in Nat /\ ItemSize <= PoolLen
      /\ reserve <= (PoolBuffs - 1) * Kept
  BY StreamAssumption DEF StreamInv, PoolRoom
<1>3. (PoolBuffs - 1) * Kept \in Nat
  <2>1. PICK n \in Nat : n = PoolBuffs - 1
    BY StreamAssumption
  <2>2. n * Kept \in Nat
    BY KeptNat
  <2>3. QED
    BY <2>1, <2>2
<1>4. CASE pool = <<>>
  <2>1. sent = <<>> /\ \A i \in PoolIds : Referenced(<<"pool", i>>)
    BY DEF Resting
  <2>2. inq \in Seq(Handles) /\ Len(inq) \in Nat /\ DOMAIN inq = 1 .. Len(inq)
    BY WholeIs
  <2>3. w = inq
    <3>1. w = inq \o <<>>
      BY <1>1, <2>1 DEF Whole
    <3>2. QED
      BY <2>2, <3>1
  <2>4. ASSUME NEW i \in PoolIds PROVE \E k \in 1 .. Len(w) : w[k].buf = <<"pool", i>>
    <3>1. \A v : v = <<>> => ~Refers(v, <<"pool", i>>)
      <4>1. ASSUME NEW v, v = <<>> PROVE DOMAIN v = {}
        BY <4>1
      <4>2. QED
        BY <4>1 DEF Refers
    <3>2. Refers(inq, <<"pool", i>>)
      BY <1>4, <2>1, <3>1 DEF Referenced
    <3>3. QED
      BY <2>2, <2>3, <3>2 DEF Refers
  <2>5. Total(w) \in Nat /\ (PoolBuffs - 1) * Kept <= Total(w)
    BY <1>1, <1>4, <2>4, PoolFills
  <2>6. QED
    BY <1>2, <1>3, <2>3, <2>5
<1>5. CASE pool # <<>>
  <2>1. pool \in Seq(Ordinary) /\ Len(pool) \in Nat /\ 1 \in 1 .. Len(pool)
    BY <1>5 DEF StreamInv
  <2>2. PICK x : x = pool[1].offset
    OBVIOUS
  <2>3. x \in Nat /\ OfItems(x) /\ x <= PoolLen \div 2
    <3>1. pool[1] \in Handles
      BY <2>1 DEF Ordinary
    <3>2. QED
      BY <1>1, <2>1, <2>2, <3>1, HandleParts DEF PoolOK
  <2>4. PICK k \in Nat : x = k * ItemSize
    BY <2>3, ItemsDivide
  <2>5. ASSUME NEW c \in Nat \ {0}, c <= PoolLen, x = k * c PROVE x + c <= PoolLen
    <3>1. CASE k = 0
      BY <1>2, <2>5, <3>1
    <3>2. CASE k # 0
      <4>1. k * c >= c
        <5>1. (k - 1) \in Nat /\ k * c = (k - 1) * c + c
          BY <3>2
        <5>2. (k - 1) * c \in Nat
          BY <5>1
        <5>3. QED
          BY <5>1, <5>2
      <4>2. x + x <= PoolLen
        BY <1>2, <2>3
      <4>3. QED
        BY <1>2, <2>3, <2>5, <4>1, <4>2
    <3>3. QED
      BY <3>1, <3>2
  <2>6. x + ItemSize <= PoolLen
    BY <1>2, <2>4, <2>5
  <2>7. Head(pool).offset = x
    BY <2>1, <2>2
  <2>8. QED
    BY <1>5, <2>6, <2>7 DEF OutputReady
<1>6. QED
  BY <1>4, <1>5

-----------------------------------------------------------------------------
(* A ring with no buffer left.                                             *)

Held(w, i) == \E k \in 1 .. Len(w) : w[k].buf = <<"ring", i>>

\* there is a byte to consume, or a buffer, or the next one comes back
Lives(w) == HasBytes(w, 0) \/ available # <<>> \/ ~Held(w, ack_index)

\* The buffers of a ring lie in the line in the order they were taken.
LEMMA LineInOrder ==
    ASSUME NEW at \in Bases, NEW w \in Seq(Handles), Line(w, at),
           NEW i \in Slots, NEW k \in 1 .. Len(w), w[k].buf = <<"ring", i>>,
           NEW j \in Slots, NEW l \in 1 .. Len(w), w[l].buf = <<"ring", j>>, l < k
    PROVE  Dist(j) < Dist(i)
<1>1. Before(w[l], w[k], at)
  BY DEF Line
<1>2. InRing(w[l]) /\ InRing(w[k]) /\ Slot(w[l]) = j /\ Slot(w[k]) = i
  BY DEF InRing, Slot
<1>3. QED
  BY <1>1, <1>2 DEF Before

\* A line that sheds handles lives on: when no byte of the ring is left in it,
\* neither is the oldest buffer, which lay before all that had bytes.
LEMMA RingSheds ==
    ASSUME ack_index \in Slots, NEW at \in Bases, NEW w \in Seq(Handles), Line(w, at),
           Lives(w), NEW v, NEW m \in Nat, Sheds(w, v, m)
    PROVE  Lives(v)
<1>1. Len(w) \in Nat /\ \A i \in Slots : Dist(i) \in Nat
  BY DistIsOneToOne
<1>2. ASSUME NEW i, Held(v, i) PROVE \E k \in 1 .. Len(w) : k > m /\ w[k].buf = <<"ring", i>>
  <2>1. PICK j \in 1 .. Len(v) : v[j].buf = <<"ring", i>>
    BY <1>2 DEF Held
  <2>2. InRing(v[j])
    BY <2>1 DEF InRing
  <2>3. QED
    BY <2>1, <2>2 DEF Sheds
<1>3. CASE available # <<>>
  BY <1>3 DEF Lives
<1>4. CASE ~Held(w, ack_index)
  <2>1. ~Held(v, ack_index)
    BY <1>2, <1>4 DEF Held
  <2>2. QED
    BY <2>1 DEF Lives
<1>5. CASE HasBytes(w, 0)
  <2>1. PICK k \in 1 .. Len(w) : InRing(w[k]) /\ w[k].length > 0
    BY <1>5 DEF HasBytes
  <2>2. CASE k > m
    BY <2>1, <2>2 DEF Sheds, HasBytes, Lives
  <2>3. CASE ~(k > m)
    <3>1. SUFFICES ASSUME Held(v, ack_index) PROVE FALSE
      BY DEF Lives
    <3>2. PICK l \in 1 .. Len(w) : l > m /\ w[l].buf = <<"ring", ack_index>>
      BY <1>2, <3>1
    <3>3. w[k] \in Handles
      OBVIOUS
    <3>4. PICK i \in Slots : w[k].buf = <<"ring", i>>
      <4>1. [b \in Buffers |-> 0] \in Bases
        BY DEF Bases
      <4>2. QED
        BY <2>1, <3>3, <4>1, HandleParts
    <3>5. k < l
      BY <1>1, <2>3, <3>2
    <3>6. Dist(i) < Dist(ack_index)
      BY <3>2, <3>4, <3>5, LineInOrder
    <3>7. Dist(ack_index) = 0 /\ Dist(i) \in Nat
      BY <1>1, <3>4, DistIsOneToOne
    <3>8. QED
      BY <3>6, <3>7
  <2>4. QED
    BY <2>2, <2>3
<1>6. QED
  BY <1>3, <1>4, <1>5 DEF Lives

\* what a queue sheds, a line that begins with the queue does
LEMMA ShedsConcat ==
    ASSUME NEW q \in Seq(Handles), NEW r \in Seq(Handles), NEW t \in Seq(Handles),
           NEW m \in Nat, m <= Len(q), Sheds(q, r, m)
    PROVE  Sheds(q \o t, r \o t, m)
<1>1. PICK w \in Seq(Handles) :
         /\ w = q \o t /\ Len(w) = Len(q) + Len(t)
         /\ Len(q) \in Nat /\ Len(t) \in Nat /\ Len(w) \in Nat
         /\ \A k \in 1 .. Len(q) : w[k] = q[k]
         /\ \A k \in 1 .. Len(t) : w[Len(q) + k] = t[k]
  BY Concat
<1>2. PICK v \in Seq(Handles) :
         /\ v = r \o t /\ Len(v) = Len(r) + Len(t)
         /\ Len(r) \in Nat /\ Len(t) \in Nat /\ Len(v) \in Nat
         /\ \A k \in 1 .. Len(r) : v[k] = r[k]
         /\ \A k \in 1 .. Len(t) : v[Len(r) + k] = t[k]
  BY Concat
<1>3. ASSUME NEW k \in 1 .. Len(t)
      PROVE  /\ Len(q) + k \in 1 .. Len(w) /\ Len(q) + k > m /\ w[Len(q) + k] = t[k]
             /\ Len(r) + k \in 1 .. Len(v) /\ Len(r) + k > 0 /\ v[Len(r) + k] = t[k]
  BY <1>1, <1>2
<1>4. ASSUME NEW k \in 1 .. Len(w)
      PROVE  (k \in 1 .. Len(q) /\ w[k] = q[k]) \/ \E j \in 1 .. Len(t) : w[k] = t[j]
  <2>1. CASE k <= Len(q)
    BY <1>1, <2>1
  <2>2. CASE ~(k <= Len(q))
    <3>1. k - Len(q) \in 1 .. Len(t) /\ Len(q) + (k - Len(q)) = k
      BY <1>1, <2>2
    <3>2. QED
      BY <1>1, <3>1
  <2>3. QED
    BY <2>1, <2>2
<1>5. ASSUME NEW k \in 1 .. Len(v)
      PROVE  (k \in 1 .. Len(r) /\ v[k] = r[k]) \/ \E j \in 1 .. Len(t) : v[k] = t[j]
  <2>1. CASE k <= Len(r)
    BY <1>2, <2>1
  <2>2. CASE ~(k <= Len(r))
    <3>1. k - Len(r) \in 1 .. Len(t) /\ Len(r) + (k - Len(r)) = k
      BY <1>2, <2>2
    <3>2. QED
      BY <1>2, <3>1
  <2>3. QED
    BY <2>1, <2>2
<1>6. /\ \A k \in 1 .. Len(q) : k \in 1 .. Len(w) /\ w[k] = q[k]
      /\ \A k \in 1 .. Len(r) : k \in 1 .. Len(v) /\ v[k] = r[k]
  BY <1>1, <1>2
<1>7. ASSUME NEW j \in 1 .. Len(v), InRing(v[j])
      PROVE  \E k \in 1 .. Len(w) : k > m /\ w[k].buf = v[j].buf
  <2>1. CASE j \in 1 .. Len(r) /\ v[j] = r[j]
    <3>1. PICK k \in 1 .. Len(q) : k > m /\ q[k].buf = r[j].buf
      BY <1>7, <2>1 DEF Sheds
    <3>2. QED
      BY <1>6, <2>1, <3>1
  <2>2. CASE \E i \in 1 .. Len(t) : v[j] = t[i]
    BY <1>3, <2>2
  <2>3. QED
    BY <1>5, <2>1, <2>2
<1>8. ASSUME HasBytes(w, m) PROVE HasBytes(v, 0)
  <2>1. PICK k \in 1 .. Len(w) : k > m /\ InRing(w[k]) /\ w[k].length > 0
    BY <1>8 DEF HasBytes
  <2>2. CASE k \in 1 .. Len(q) /\ w[k] = q[k]
    <3>1. HasBytes(r, 0)
      BY <2>1, <2>2 DEF Sheds, HasBytes
    <3>2. PICK j \in 1 .. Len(r) : j > 0 /\ InRing(r[j]) /\ r[j].length > 0
      BY <3>1 DEF HasBytes
    <3>3. QED
      BY <1>6, <3>2 DEF HasBytes
  <2>3. CASE \E i \in 1 .. Len(t) : w[k] = t[i]
    BY <1>3, <2>1, <2>3 DEF HasBytes
  <2>4. QED
    BY <1>4, <2>2, <2>3
<1>9. Sheds(w, v, m)
  BY <1>7, <1>8 DEF Sheds
<1>10. QED
  BY <1>1, <1>2, <1>9

\* r is what is left of q behind its first m handles, each with bytes if it had
Behind(q, r, m) ==
    /\ m \in Nat /\ Len(r) + m = Len(q)
    /\ \A k \in 1 .. Len(r) : /\ r[k].buf = q[k + m].buf
                              /\ q[k + m].length > 0 => r[k].length > 0

\* What is left behind the first handles was shed of them.
LEMMA BehindSheds ==
    ASSUME NEW q \in Seq(Handles), NEW r \in Seq(Handles), NEW m, Behind(q, r, m)
    PROVE  m \in Nat /\ m <= Len(q) /\ Sheds(q, r, m)
<1>1. m \in Nat /\ Len(r) + m = Len(q) /\ Len(r) \in Nat /\ Len(q) \in Nat /\ m <= Len(q)
  BY DEF Behind
<1>2. ASSUME NEW j \in 1 .. Len(r)
      PROVE  j + m \in 1 .. Len(q) /\ j + m > m /\ q[j + m].buf = r[j].buf
  BY <1>1 DEF Behind
<1>3. ASSUME NEW k \in 1 .. Len(q), k > m
      PROVE  \E j \in 1 .. Len(r) : j > 0 /\ r[j].buf = q[k].buf
                                     /\ (q[k].length > 0 => r[j].length > 0)
  <2>1. k - m \in 1 .. Len(r) /\ (k - m) + m = k /\ k - m > 0
    BY <1>1, <1>3
  <2>2. QED
    BY <2>1 DEF Behind
<1>4. HasBytes(q, m) => HasBytes(r, 0)
  BY <1>3 DEF HasBytes, InRing
<1>5. QED
  BY <1>1, <1>2, <1>4 DEF Sheds

\* A front that gives its bytes back leaves the others with theirs.
LEMMA UnstitchBehind ==
    ASSUME NEW q \in Seq(Handles)
    PROVE  \E r \in Seq(Handles) : \E m \in 0 .. 1 : r = Unstitched(q) /\ Behind(q, r, m)
<1>1. Len(q) \in Nat /\ \A k \in 1 .. Len(q) : q[k] \in Handles
  BY HandlesAreQueue
<1>2. CASE ~(/\ Len(q) > 1 /\ q[1].length <= q[2].offset
             /\ At(q[1], q[1].length) = q[2].last)
  <2>1. Unstitched(q) = q
    BY <1>2 DEF Unstitched
  <2>2. Behind(q, q, 0)
    <3>1. Len(q) + 0 = Len(q) /\ \A k \in 1 .. Len(q) : k + 0 = k
      BY <1>1
    <3>2. QED
      BY <3>1 DEF Behind
  <2>3. QED
    BY <2>1, <2>2
<1>3. CASE /\ Len(q) > 1 /\ q[1].length <= q[2].offset
           /\ At(q[1], q[1].length) = q[2].last
  <2> DEFINE first == [q[2] EXCEPT !.offset = @ - q[1].length, !.length = @ + q[1].length]
  <2>1. Unstitched(q) = <<first>> \o SubSeq(q, 3, Len(q))
    BY <1>3 DEF Unstitched
  <2>2. q[1] \in Handles /\ q[2] \in Handles
    BY <1>1, <1>3
  <2>3. q[1].length \in Nat /\ q[2].offset \in Nat /\ q[2].length \in Nat
    BY <2>2 DEF Handles
  <2>4. /\ first \in Handles /\ first.buf = q[2].buf
        /\ first.length = q[2].length + q[1].length
    <3>1. q[2].offset - q[1].length \in Nat /\ q[2].length + q[1].length \in Nat
      BY <1>3, <2>3
    <3>2. QED
      BY <2>2, <3>1 DEF Handles
  <2> HIDE DEF first
  <2>5. PICK more \in Seq(Handles) :
           /\ more = SubSeq(q, 3, Len(q)) /\ Len(more) = Len(q) - 3 + 1 /\ Len(more) \in Nat
           /\ \A k \in 1 .. Len(more) : more[k] = q[3 + k - 1]
    <3>1. 3 \in Nat \ {0} /\ 3 <= Len(q) + 1
      BY <1>1, <1>3
    <3>2. QED
      BY <1>1, <3>1, SuffixIs
  <2> DEFINE r == <<first>> \o more
  <2>6. /\ r \in Seq(Handles) /\ Len(r) = 1 + Len(more) /\ r[1] = first
        /\ \A k \in 1 .. Len(more) : r[1 + k] = more[k]
    BY <2>4, <2>5
  <2> HIDE DEF r
  <2>7. Len(r) + 1 = Len(q)
    BY <1>1, <2>5, <2>6
  <2>8. ASSUME NEW k \in 1 .. Len(r)
        PROVE  r[k].buf = q[k + 1].buf /\ (q[k + 1].length > 0 => r[k].length > 0)
    <3>1. CASE k = 1
      BY <2>3, <2>4, <2>6, <3>1
    <3>2. CASE k # 1
      <4>1. PICK j : j = k - 1
        OBVIOUS
      <4>2. j \in 1 .. Len(more) /\ 1 + j = k /\ 3 + j - 1 = k + 1
        BY <2>5, <2>6, <3>2, <4>1
      <4>3. r[1 + j] = more[j] /\ more[j] = q[3 + j - 1]
        BY <2>5, <2>6, <4>2
      <4>4. QED
        BY <4>2, <4>3
    <3>3. QED
      BY <3>1, <3>2
  <2>9. Behind(q, r, 1)
    BY <2>7, <2>8 DEF Behind
  <2>10. r = Unstitched(q)
    BY <2>1, <2>5 DEF r
  <2>11. QED
    BY <2>6, <2>9, <2>10
<1>4. QED
  BY <1>2, <1>3

\* A consume sheds the front, the handle its bytes go to keeps them.
LEMMA ConsumeSheds ==
    ASSUME NEW q \in Seq(Handles), Len(q) > 0, NEW n \in Nat, n <= q[1].length
    PROVE  \E r \in Seq(Handles) : \E m \in Nat :
              r = Consumed(q, n) /\ m <= Len(q) /\ Sheds(q, r, m)
<1> DEFINE rest == [q EXCEPT ![1].offset = @ + n, ![1].length = @ - n]
           left == IF rest[1].length = 0 THEN Tail(rest) ELSE rest
           first == [q[1] EXCEPT !.offset = @ + n, !.length = @ - n]
<1>1. /\ Len(q) \in Nat /\ 1 \in 1 .. Len(q) /\ q[1] \in Handles
      /\ \A k \in 1 .. Len(q) : q[k] \in Handles
  BY HandlesAreQueue
<1>2. Consumed(q, n) = Unstitched(left)
  BY DEF Consumed
<1>3. first \in Handles /\ first.buf = q[1].buf /\ first.length \in Nat
  <2>1. q[1].offset + n \in Nat /\ q[1].length - n \in Nat
    BY <1>1 DEF Handles
  <2>2. QED
    BY <1>1, <2>1 DEF Handles
<1>4. rest = [q EXCEPT ![1] = first]
  BY <1>1
<1> HIDE DEF first, rest
<1>5. rest \in Seq(Handles) /\ Len(rest) = Len(q) /\ rest[1] = first
      /\ \A k \in 2 .. Len(q) : rest[k] = q[k]
  BY <1>1, <1>3, <1>4
<1>6. PICK u \in Seq(Handles), l \in 0 .. 1 : u = left /\ Behind(q, u, l)
  <2>1. CASE rest[1].length # 0
    <3>1. left = rest /\ Len(rest) + 0 = Len(q) /\ rest[1].length > 0
      BY <1>1, <1>3, <1>5, <2>1
    <3>2. ASSUME NEW k \in 1 .. Len(rest)
          PROVE  rest[k].buf = q[k + 0].buf /\ (q[k + 0].length > 0 => rest[k].length > 0)
      <4>1. k + 0 = k /\ (k = 1 \/ k \in 2 .. Len(q))
        BY <1>1, <1>5
      <4>2. QED
        BY <1>3, <1>5, <3>1, <4>1
    <3>3. Behind(q, rest, 0)
      BY <3>1, <3>2 DEF Behind
    <3>4. QED
      BY <1>5, <3>1, <3>3
  <2>2. CASE rest[1].length = 0
    <3>1. PICK s : s = Tail(rest)
      OBVIOUS
    <3>2. s \in Seq(Handles) /\ Len(s) = Len(q) - 1
          /\ \A k \in 1 .. Len(q) - 1 : s[k] = rest[k + 1]
      BY <1>1, <1>5, <3>1
    <3>3. Len(s) + 1 = Len(q) /\ \A k \in 1 .. Len(s) : s[k] = q[k + 1]
      BY <1>1, <1>5, <3>2
    <3>4. Behind(q, s, 1)
      BY <3>3 DEF Behind
    <3>5. left = s
      BY <2>2, <3>1
    <3> HIDE DEF left
    <3>6. QED
      BY <3>2, <3>4, <3>5
  <2>3. QED
    BY <2>1, <2>2
<1> HIDE DEF left
<1>7. PICK r \in Seq(Handles), m \in 0 .. 1 : r = Unstitched(u) /\ Behind(u, r, m)
  BY UnstitchBehind
<1>8. Behind(q, r, m + l)
  <2>1. Len(r) + m = Len(u) /\ Len(u) + l = Len(q) /\ Len(r) \in Nat
    BY <1>6, <1>7 DEF Behind
  <2>2. ASSUME NEW k \in 1 .. Len(r)
        PROVE  r[k].buf = q[k + (m + l)].buf /\ (q[k + (m + l)].length > 0 => r[k].length > 0)
    <3>1. k + m \in 1 .. Len(u) /\ (k + m) + l = k + (m + l)
      BY <2>1
    <3>2. /\ r[k].buf = u[k + m].buf /\ (u[k + m].length > 0 => r[k].length > 0)
      BY <1>7 DEF Behind
    <3>3. /\ u[k + m].buf = q[(k + m) + l].buf
          /\ (q[(k + m) + l].length > 0 => u[k + m].length > 0)
      BY <1>6, <3>1 DEF Behind
    <3>4. QED
      BY <3>1, <3>2, <3>3
  <2>3. m + l \in Nat /\ Len(r) + (m + l) = Len(q)
    BY <2>1
  <2>4. QED
    BY <2>2, <2>3 DEF Behind
<1>9. m + l \in Nat /\ m + l <= Len(q) /\ Sheds(q, r, m + l)
  BY <1>8, BehindSheds
<1>10. QED
  BY <1>2, <1>6, <1>7, <1>9

\* accumulate() sheds what it copied; a handle it did not use up keeps a byte.
LEMMA AccumulateSheds ==
    ASSUME NEW q \in Queues, Len(q) > 0
    PROVE  \E r \in Seq(Handles) : \E m \in Nat :
              r = Accumulated(q).queue /\ m <= Len(q) /\ Sheds(q, r, m)
<1>1. PICK a : a = Accumulated(q)
  OBVIOUS
<1>2. /\ a.accum.buf \in Aux /\ a.queue \in Queues /\ Len(a.queue) > 0 /\ a.queue[1] = a.accum
      /\ \/ Len(a.queue) = 1
         \/ \E m \in 1 .. Len(q) : Leaves(q, a, m)
  BY <1>1, AccumulateKeeps
<1>3. PICK r \in Seq(Handles) : r = a.queue
  BY <1>2 DEF Queues
<1>4. Len(q) \in Nat /\ Len(r) \in Nat
  BY DEF Queues
<1>5. ~InRing(r[1])
  BY <1>2, <1>3 DEF Aux, InRing
<1>6. CASE Len(r) = 1
  <2>1. Sheds(q, r, Len(q))
    BY <1>4, <1>5, <1>6 DEF Sheds, HasBytes
  <2>2. QED
    BY <1>1, <1>3, <1>4, <2>1
<1>7. ASSUME NEW m \in 1 .. Len(q), Leaves(q, a, m)
      PROVE  \E l \in Nat : l <= Len(q) /\ Sheds(q, r, l)
  <2>1. PICK l \in Nat : l = m - 1 /\ l + 1 = m /\ l <= Len(q)
    BY <1>4
  <2>2. Len(r) = Len(q) - l + 1
    <3>1. Len(r) = Len(q) - m + 2
      BY <1>3, <1>7 DEF Leaves
    <3>2. QED
      BY <1>4, <2>1, <3>1
  <2>3. r[2].buf = q[m].buf /\ (q[m].length > 0 => r[2].length > 0)
    <3>1. PICK t, x : t = a.accum.length - Upto(q)[m - 1] /\ x = q[m].length
      OBVIOUS
    <3>2. /\ t \in 0 .. x /\ (x > 0 => t < x)
          /\ r[2].buf = q[m].buf /\ r[2].length = x - t
      BY <1>3, <1>7, <3>1 DEF Leaves
    <3>3. x \in Nat
      <4>1. q[m] \in Handles
        BY DEF Queues
      <4>2. QED
        BY <3>1, <4>1 DEF Handles
    <3>4. t \in Int /\ (x > 0 => x - t > 0)
      BY <3>2, <3>3
    <3>5. QED
      BY <3>1, <3>2, <3>4
  <2>4. ASSUME NEW k \in m + 1 .. Len(q), NEW j, j = k - l + 1 PROVE r[j] = q[k]
    <3>1. PICK i : i = k - m + 1
      OBVIOUS
    <3>2. i \in 2 .. Len(q) - m + 1 /\ i + 1 = j /\ m + i - 1 = k
      BY <1>4, <2>1, <2>4, <3>1
    <3>3. \A y \in 2 .. Len(q) - m + 1 : r[y + 1] = q[m + y - 1]
      BY <1>3, <1>7 DEF Leaves
    <3>4. QED
      BY <3>2, <3>3
  <2>5. ASSUME NEW k \in 1 .. Len(q), k > l, NEW j, j = k - l + 1
        PROVE  /\ j \in 1 .. Len(r) /\ j > 0 /\ r[j].buf = q[k].buf
               /\ q[k].length > 0 => r[j].length > 0
    <3>1. j \in 1 .. Len(r) /\ j > 0
      BY <1>4, <2>1, <2>2, <2>5
    <3>2. CASE k = m
      <4>1. j = 2
        BY <2>1, <2>5, <3>2
      <4>2. QED
        BY <2>3, <3>1, <3>2, <4>1
    <3>3. CASE k # m
      <4>1. k \in m + 1 .. Len(q)
        BY <1>4, <2>1, <2>5, <3>3
      <4>2. QED
        BY <2>4, <2>5, <3>1, <4>1
    <3>4. QED
      BY <3>2, <3>3
  <2>6. ASSUME NEW j \in 1 .. Len(r), InRing(r[j])
        PROVE  \E k \in 1 .. Len(q) : k > l /\ q[k].buf = r[j].buf
    <3>1. j # 1
      BY <1>5, <2>6
    <3>2. PICK k : k = j + l - 1
      OBVIOUS
    <3>3. k \in 1 .. Len(q) /\ k > l /\ j = k - l + 1
      BY <1>4, <2>1, <2>2, <3>1, <3>2
    <3>4. QED
      BY <2>5, <3>3
  <2>7. HasBytes(q, l) => HasBytes(r, 0)
    <3>1. SUFFICES ASSUME NEW k \in 1 .. Len(q), k > l, InRing(q[k]), q[k].length > 0
                   PROVE  HasBytes(r, 0)
      BY DEF HasBytes
    <3>2. PICK j : j = k - l + 1
      OBVIOUS
    <3>3. /\ j \in 1 .. Len(r) /\ j > 0 /\ r[j].buf = q[k].buf /\ r[j].length > 0
      BY <2>5, <3>1, <3>2
    <3>4. InRing(r[j])
      BY <3>1, <3>3 DEF InRing
    <3>5. QED
      BY <3>3, <3>4 DEF HasBytes
  <2>8. Sheds(q, r, l)
    BY <2>6, <2>7 DEF Sheds
  <2>9. QED
    BY <2>1, <2>8
<1>8. QED
  BY <1>1, <1>2, <1>3, <1>6, <1>7

-----------------------------------------------------------------------------
(* The invariant of the ring.                                              *)

\* push() acknowledges all there is to acknowledge
AckEnds == ~acking => ack_index \notin returned

RingInv == kind = "ring" => AckEnds /\ Lives(Whole)

\* A connection begins with no buffer in the line.
LEMMA RingInvInit == Init => RingInv
<1>1. SUFFICES ASSUME Init PROVE RingInv
  OBVIOUS
<1>2. inq = <<>> /\ sent = <<>> /\ returned = {}
  BY <1>1 DEF Init, CircInit
<1>3. Len(Whole) = 0
  BY <1>2 DEF Whole
<1>4. \A i : ~Held(Whole, i)
  BY <1>3 DEF Held
<1>5. QED
  BY <1>2, <1>4 DEF RingInv, AckEnds, Lives

\* a step that leaves the ring alone
LEMMA QueuesShed ==
    ASSUME CircInv, NEW at \in Bases, NEW w \in Seq(Handles), w = Whole, Line(w, at), RingInv,
           UNCHANGED <<kind, circ>>,
           NEW v, v = Whole', NEW m \in Nat, Sheds(w, v, m)
    PROVE  RingInv'
<1>1. SUFFICES ASSUME kind = "ring" PROVE (AckEnds /\ Lives(v))'
  BY DEF RingInv, Lives
<1>2. AckEnds /\ Lives(w)
  BY <1>1 DEF RingInv
<1>3. ack_index \in Slots
  BY DEF CircInv, CircTypeOK
<1>4. Lives(v)
  BY <1>2, <1>3, RingSheds
<1>5. QED
  BY <1>2, <1>4 DEF circ, AckEnds, Lives, Dist, IsOut, Out

\* A buffer that is taken from the ring has bytes.
LEMMA RingPops ==
    ASSUME StreamInv, CircInv, NEW at \in Bases, NEW w \in Seq(Handles), LineAt(w, at),
           RingInv, ProduceRing
    PROVE  RingInv'
<1>1. PICK i, l : i = Head(available) /\ l = IF last = NoPtr THEN Null ELSE <<Ring, last>>
  OBVIOUS
<1>2. PICK s : s = Handle(<<"ring", i>>, write, 0, l)
  OBVIOUS
<1>3. PICK n \in Items(BuffLen) : CircPop(n) /\ Produce(s, n)
  BY <1>1, <1>2 DEF ProduceRing
<1>4. n \in 1 .. BuffLen /\ n \in Nat /\ n >= 1
  BY CircAssumption DEF Items
<1>5. w = Whole /\ AckEnds
  BY DEF LineAt, RingInv, ProduceRing
<1>6. i \in Slots /\ write \in 0 .. CircLen
  BY <1>1, <1>3, <1>4, PopMoves
<1>7. PICK b : b = <<"ring", i>>
  OBVIOUS
<1>8. b \in Buffers /\ b \notin Aux /\ b[1] = "ring" /\ write \in Nat /\ last \in Int
  BY <1>6, <1>7, CircAssumption DEF Buffers, Aux, CircInv, CircTypeOK
<1>9. l \in Pointers
  BY <1>1, <1>8, NullIsPointer DEF Pointers, Areas
<1>10. s \in Ordinary /\ s.buf = b
  BY <1>2, <1>7, <1>8, <1>9 DEF Handle, Handles, Ordinary
<1>11. PICK h \in Handles, v \in Seq(Handles) :
          /\ h.buf = b /\ h.length = n
          /\ v = Whole' /\ Len(v) = Len(w) + 1 /\ v[Len(w) + 1] = h
          /\ \A k \in 1 .. Len(w) : v[k] = w[k]
  BY <1>3, <1>4, <1>5, <1>10, ProduceWhole
<1>12. Len(w) \in Nat /\ Len(w) + 1 \in 1 .. Len(v) /\ Len(w) + 1 > 0
  BY <1>11
<1>13. HasBytes(v, 0)
  <2>1. InRing(v[Len(w) + 1]) /\ v[Len(w) + 1].length > 0
    BY <1>4, <1>8, <1>11 DEF InRing
  <2>2. QED
    BY <1>12, <2>1 DEF HasBytes
<1>14. Lives(v)'
  BY <1>13 DEF Lives, HasBytes, InRing
<1>15. AckEnds'
  BY <1>3, <1>5 DEF CircPop, AckEnds
<1>16. v = Whole'
  BY <1>11
<1>17. QED
  BY <1>14, <1>15, <1>16 DEF RingInv, Lives

\* A buffer that comes back is acknowledged before push() ends.
LEMMA RingReturns ==
    ASSUME RingInv, NEW i \in Slots, ReturnToRing(i)
    PROVE  RingInv'
<1>1. /\ acking' = TRUE /\ kind = "ring"
      /\ UNCHANGED <<ack_index, available, inq, sent>>
  BY DEF ReturnToRing, CircPush, input
<1>2. PICK w : w = Whole
  OBVIOUS
<1>3. w = Whole' /\ Lives(w)
  BY <1>1, <1>2 DEF Whole, RingInv
<1>4. Lives(w)'
  BY <1>1, <1>3 DEF Lives, Held, HasBytes, InRing
<1>5. AckEnds'
  BY <1>1 DEF AckEnds
<1>6. QED
  BY <1>3, <1>4, <1>5 DEF RingInv, Lives

\* A buffer that is acknowledged is available.
LEMMA RingAcks ==
    ASSUME RingInv, AckRing
    PROVE  RingInv'
<1>1. kind = "ring" /\ inq' = inq /\ sent' = sent
  BY DEF AckRing, input
<1>2. PICK w : w = Whole
  OBVIOUS
<1>3. w = Whole' /\ Lives(w)
  BY <1>1, <1>2 DEF Whole, RingInv
<1>4. CASE CircAckEnds
  <2>1. UNCHANGED <<ack_index, available, returned>> /\ ack_index \notin returned
    BY <1>4 DEF CircAckEnds, Acked
  <2>2. Lives(w)' /\ AckEnds'
    BY <1>3, <2>1 DEF AckEnds, Lives, Held, HasBytes, InRing
  <2>3. QED
    BY <1>3, <2>2 DEF RingInv, Lives
<1>5. CASE CircAck
  <2>1. available' # <<>> /\ acking'
    <3>1. available' = Append(available, Acked) /\ acking' = acking /\ acking
      BY <1>5 DEF CircAck
    <3>2. \A q, x : Append(q, x) # <<>>
      OBVIOUS
    <3>3. QED
      BY <3>1, <3>2
  <2>2. Lives(w)' /\ AckEnds'
    BY <2>1 DEF AckEnds, Lives
  <2>3. QED
    BY <1>3, <2>2 DEF RingInv, Lives
<1>6. QED
  BY <1>4, <1>5 DEF AckRing

\* a step of the downstream block: its queue sheds some of its handles
LEMMA QueueSheds ==
    ASSUME StreamInv, CircInv, NEW at \in Bases, NEW w \in Seq(Handles), LineAt(w, at), RingInv,
           UNCHANGED <<kind, circ, sent>>, NEW r \in Seq(Handles), r = inq',
           NEW m \in Nat, m <= Len(inq), Sheds(inq, r, m)
    PROVE  RingInv'
<1>1. w = Whole /\ Line(w, at)
  BY DEF LineAt
<1>2. PICK q \in Seq(Handles), t \in Seq(Handles) : q = inq /\ t = sent
  BY WholeIs
<1>3. Sheds(q \o t, r \o t, m)
  BY <1>2, ShedsConcat
<1>4. PICK v : v = r \o t
  OBVIOUS
<1>5. w = q \o t /\ v = Whole'
  BY <1>1, <1>2, <1>4 DEF Whole
<1>6. Sheds(w, v, m)
  BY <1>3, <1>4, <1>5
<1>7. QED
  BY <1>1, <1>5, <1>6, QueuesShed

\* accumulate() leaves bytes in the ring, or lets its oldest buffer go.
LEMMA RingGathers ==
    ASSUME StreamInv, CircInv, NEW at \in Bases, NEW w \in Seq(Handles), LineAt(w, at), RingInv,
           Len(inq) > 0, NEW needed, Gather(needed), UNCHANGED <<kind, circ, sent>>
    PROVE  RingInv'
<1>1. inq \in Queues /\ inq \in Seq(Handles) /\ Len(inq) \in Nat
  BY WholeIs DEF StreamInv
<1>2. PICK q : q = inq
  OBVIOUS
<1>3. CASE IsAccumulated(inq)
  <2>1. q = inq' /\ q \in Seq(Handles) /\ 0 \in Nat /\ 0 <= Len(inq)
    BY <1>1, <1>2, <1>3 DEF Gather
  <2>2. Sheds(inq, q, 0)
    BY <1>2, ShedsNone
  <2>3. QED
    BY <2>1, <2>2, QueueSheds
<1>4. CASE ~IsAccumulated(inq)
  <2>1. inq' = Accumulated(q).queue /\ q \in Queues /\ Len(q) > 0
    BY <1>1, <1>2, <1>4 DEF Gather
  <2>2. PICK r, m : r \in Seq(Handles) /\ m \in Nat
             /\ r = Accumulated(q).queue /\ m <= Len(q) /\ Sheds(q, r, m)
    BY <2>1, AccumulateSheds
  <2>3. r = inq' /\ m <= Len(inq) /\ Sheds(inq, r, m)
    BY <1>2, <2>1, <2>2
  <2>4. QED
    BY <2>2, <2>3, QueueSheds
<1>5. QED
  BY <1>3, <1>4

\* So does consume().
LEMMA RingConsumes ==
    ASSUME StreamInv, CircInv, NEW at \in Bases, NEW w \in Seq(Handles), LineAt(w, at), RingInv,
           NEW n \in Items(MaxBytes), WorkConsumes(n)
    PROVE  RingInv'
<1>1. /\ inq \in Seq(Handles) /\ Len(inq) \in Nat /\ inq # <<>> /\ n <= Head(inq).length
      /\ inq' = Consumed(inq, n) /\ UNCHANGED <<kind, circ, sent>>
  BY WholeIs DEF WorkConsumes, Ready, config
<1>2. n \in Nat
  BY DEF Items
<1>3. PICK q : q = inq
  OBVIOUS
<1>4. q \in Seq(Handles) /\ Len(q) > 0 /\ n <= q[1].length /\ inq' = Consumed(q, n)
  BY <1>1, <1>3
<1>5. PICK r, m : r \in Seq(Handles) /\ m \in Nat
           /\ r = Consumed(q, n) /\ m <= Len(q) /\ Sheds(q, r, m)
  BY <1>2, <1>4, ConsumeSheds
<1>6. r = inq' /\ m <= Len(inq) /\ Sheds(inq, r, m)
  BY <1>3, <1>4, <1>5
<1>7. QED
  BY <1>1, <1>5, <1>6, QueueSheds

\* a buffer of the block's own is not of the ring
LEMMA RingPosts ==
    ASSUME StreamInv, CircInv, NEW at \in Bases, NEW w \in Seq(Handles), LineAt(w, at), RingInv,
           PostUser
    PROVE  RingInv'
<1>1. PICK l \in {Null, Wild} : Produce(Handle(<<"user", posted'>>, 0, 0, l), UserLen)
  BY DEF PostUser
<1>2. PICK s, b : s = Handle(b, 0, 0, l) /\ b = <<"user", posted'>>
  OBVIOUS
<1>3. Produce(s, UserLen) /\ UserLen \in Nat
  BY <1>1, <1>2, StreamAssumption
<1>4. posted' \in 1 .. MaxUser /\ UNCHANGED <<kind, circ>>
  BY <1>1, StreamAssumption DEF PostUser, StreamInv, Produce, config
<1>5. b \in Buffers /\ b \notin Aux /\ b[1] = "user" /\ l \in Pointers
  BY <1>2, <1>4, NullIsPointer DEF Buffers, Aux
<1>6. s \in Ordinary /\ s.buf = b
  BY <1>2, <1>5 DEF Handle, Handles, Ordinary
<1>7. w = Whole /\ Line(w, at)
  BY DEF LineAt
<1>8. PICK h \in Handles, v \in Seq(Handles) :
          /\ h.buf = b /\ v = Whole' /\ Len(v) = Len(w) + 1 /\ v[Len(w) + 1] = h
          /\ \A k \in 1 .. Len(w) : v[k] = w[k]
  BY <1>3, <1>6, <1>7, ProduceWhole
<1>9. Len(w) \in Nat /\ Len(v) \in Nat /\ ~InRing(v[Len(w) + 1])
  BY <1>5, <1>8 DEF InRing
<1>10. ASSUME NEW k \in 1 .. Len(v), InRing(v[k]) PROVE k \in 1 .. Len(w)
  <2>1. k # Len(w) + 1
    BY <1>9, <1>10
  <2>2. QED
    BY <1>8, <1>9, <2>1
<1>11. \A k \in 1 .. Len(w) : k \in 1 .. Len(v) /\ k > 0
  BY <1>8, <1>9
<1>12. Sheds(w, v, 0)
  BY <1>8, <1>10, <1>11 DEF Sheds, HasBytes
<1>13. v = Whole' /\ 0 \in Nat
  BY <1>8
<1>14. QED
  BY <1>4, <1>7, <1>12, <1>13, QueuesShed

\* Every step keeps the invariant of the ring.
LEMMA RingInvNext ==
    ASSUME StreamInv, CircInv, LineInv, RingInv, [Next]_vars
    PROVE  RingInv'
<1>1. PICK at \in Bases, w \in Seq(Handles) : LineAt(w, at)
  BY DEF LineInv
<1>2. w = Whole /\ Line(w, at)
  BY <1>1 DEF LineAt
<1>3. CASE ProduceRing
  BY <1>1, <1>3, RingPops
<1>4. CASE ProducePool
  BY <1>4 DEF ProducePool, Produce, config, RingInv
<1>5. CASE PostUser
  BY <1>1, <1>5, RingPosts
<1>6. ASSUME NEW i \in PoolIds, ReturnToPool(i) PROVE RingInv'
  BY <1>6 DEF ReturnToPool, config, RingInv
<1>7. ASSUME NEW i \in Slots, ReturnToRing(i) PROVE RingInv'
  BY <1>7, RingReturns
<1>8. CASE AckRing
  BY <1>8, RingAcks
<1>9. CASE Deliver
  <2>1. UNCHANGED <<kind, circ>> /\ OfItems(produced) /\ Line(Whole, at)
    BY <1>2, <1>9 DEF Deliver, config, LineInv
  <2>2. PICK v : v = Whole' /\ Sheds(Whole, v, 0)
    BY <1>9, <2>1, DeliverLines
  <2>3. Sheds(w, v, 0) /\ 0 \in Nat
    BY <1>2, <2>2
  <2>4. QED
    BY <1>2, <2>1, <2>2, <2>3, QueuesShed
<1>10. CASE WorkGathers
  <2>1. Len(inq) > 0 /\ Gather(reserve) /\ UNCHANGED <<kind, circ, sent>>
    BY <1>10, WholeIs DEF WorkGathers, Ready, config
  <2>2. QED
    BY <1>1, <2>1, RingGathers
<1>11. CASE WorkFails
  <2>1. Len(inq) > 0 /\ Gather(0) /\ UNCHANGED <<kind, circ, sent>>
    BY <1>11, WholeIs DEF WorkFails, Ready, config
  <2>2. QED
    BY <1>1, <2>1, RingGathers
<1>12. ASSUME NEW n \in Items(MaxBytes), WorkConsumes(n) PROVE RingInv'
  BY <1>1, <1>12, RingConsumes
<1>13. CASE UNCHANGED vars
  <2>1. UNCHANGED <<kind, circ>> /\ w = Whole'
    BY <1>2, <1>13 DEF vars, config, input, Whole
  <2>2. Sheds(w, w, 0) /\ 0 \in Nat
    BY ShedsNone
  <2>3. QED
    BY <1>2, <2>1, <2>2, QueuesShed
<1>14. QED
  BY <1>3, <1>4, <1>5, <1>6, <1>7, <1>8, <1>9, <1>10, <1>11, <1>12, <1>13 DEF Next

\* What lies in the line is whole items.
LEMMA WholeItems ==
    ASSUME StreamInv, LineInv, NEW w \in Seq(Handles), w = Whole, NEW k \in 1 .. Len(w),
           w[k].length > 0
    PROVE  Total(w) \in Nat /\ ItemSize <= Total(w)
<1>1. PICK at \in Bases : Line(w, at)
  BY DEF LineInv, LineAt
<1>2. /\ IsQueue(w) /\ Len(w) \in Nat /\ 1 \in 1 .. Len(w) /\ Len(w) \in 1 .. Len(w) /\ Len(w) > 0
      /\ w[1] \in Handles /\ w[k] \in Handles
  BY HandlesAreQueue
<1>3. PICK a \in Nat, t \in Nat : a = From(w[1], at) /\ t = Total(w)
  BY <1>2, HandleParts, TotalNat
<1>4. produced = a + t /\ produced \in Nat
  <2>1. To(w[Len(w)], at) = From(w[1], at) + Upto(w)[Len(w)]
    BY <1>1, <1>2, LineIsChain, ChainUpto
  <2>2. To(w[Len(w)], at) = produced
    BY <1>1, <1>2 DEF Line
  <2>3. QED
    BY <1>3, <2>1, <2>2 DEF Total, StreamInv
<1>5. OfItems(a) /\ OfItems(produced)
  BY <1>1, <1>2, <1>3 DEF Line, LineInv
<1>6. OfItems(t)
  <2>1. a <= produced /\ produced - a = t
    BY <1>4
  <2>2. OfItems(produced - a)
    BY <1>4, <1>5, <2>1, ItemsAdd
  <2>3. QED
    BY <2>1, <2>2
<1>7. t > 0
  <2>1. k - 1 \in 0 .. Len(w) /\ k \in 0 .. Len(w) /\ Len(w) \in 0 .. Len(w) /\ k <= Len(w)
    BY <1>2
  <2>2. PICK x \in Nat, y \in Nat, z \in Nat :
           x = Upto(w)[k - 1] /\ y = Upto(w)[k] /\ z = w[k].length
    BY <1>2, <2>1, UptoDef DEF IsQueue
  <2>3. y = x + z /\ z > 0
    BY <1>2, <2>2, UptoDef
  <2>4. y <= t
    BY <1>2, <1>3, <2>1, <2>2, UptoGrows DEF Total
  <2>5. QED
    BY ONLY <2>3, <2>4, x \in Nat, y \in Nat, z \in Nat, t \in Nat
<1>8. PICK j \in Nat : t = j * ItemSize
  BY <1>6, ItemsDivide
<1>9. ASSUME NEW c \in Nat \ {0}, t = j * c PROVE c <= t
  <2>1. j # 0
    BY <1>7, <1>9
  <2>2. (j - 1) \in Nat /\ j * c = (j - 1) * c + c
    BY <2>1
  <2>3. (j - 1) * c \in Nat
    BY <2>2
  <2>4. QED
    BY <1>9, <2>2, <2>3
<1>10. QED
  BY <1>3, <1>8, <1>9, StreamAssumption

\* When all buffers of the ring are in the line, so is a byte, and then an item.
LEMMA RingNotStuck ==
    ASSUME StreamInv, CircInv, LineInv, RingInv, kind = "ring", Resting, reserve <= ItemSize
    PROVE  OutputReady \/ enqueued >= reserve
<1>1. PICK at \in Bases, w \in Seq(Handles) : LineAt(w, at)
  BY DEF LineInv
<1>2. w = Whole /\ Line(w, at) /\ pool = <<>> /\ AckEnds /\ Lives(w)
  BY <1>1 DEF LineAt, PoolOK, RingInv
<1>3. ~acking /\ ack_index \in Slots /\ ack_index \notin returned /\ CircTypeOK
  BY <1>2 DEF Resting, AckEnds, CircInv, CircTypeOK
<1>4. NumBuffs \in Nat \ {0} /\ BuffLen \in Nat \ {0} /\ CircLen \in Nat
  BY CircAssumption
<1>5. CASE available # <<>>
  <2>1. bytes_avail = CircLen - (IF Out > 0 THEN behind[ack_index] ELSE 0)
    BY DEF CircInv, Counted
  <2>2. bytes_avail # 0
    <3>1. CASE Out > 0
      <4>1. IsOut(ack_index)
        BY <1>3, <3>1, DistIsOneToOne DEF IsOut
      <4>2. behind[ack_index] \in Nat /\ behind[ack_index] + BuffLen <= CircLen
        BY <1>3, <1>5, <4>1, BehindIsBounded
      <4>3. QED
        BY <1>4, <2>1, <3>1, <4>2
    <3>2. CASE ~(Out > 0)
      <4>1. 0 \in 0 .. NumBuffs /\ 0 < NumBuffs
        BY <1>4
      <4>2. 0 * BuffLen \in Nat /\ 0 * BuffLen + BuffLen <= CircLen
        BY <4>1, RingHolds
      <4>3. QED
        BY <1>4, <2>1, <3>2, <4>2
    <3>3. QED
      BY <3>1, <3>2
  <2>3. QED
    BY <1>3, <1>5, <2>2 DEF OutputReady, CircEmpty
<1>6. CASE available = <<>>
  <2>1. ack_index \notin Queued
    <3>1. \A v : v = <<>> => DOMAIN v = {}
      OBVIOUS
    <3>2. QED
      BY <1>6, <3>1 DEF Queued
  <2>2. ack_index \in Away
    BY <1>3, <2>1 DEF Away
  <2>3. sent = <<>> /\ Referenced(<<"ring", ack_index>>)
    BY <2>2 DEF Resting
  <2>4. Refers(inq, <<"ring", ack_index>>)
    <3>1. ASSUME NEW v, v = <<>> PROVE ~Refers(v, <<"ring", ack_index>>)
      <4>1. DOMAIN v = {}
        BY <3>1
      <4>2. QED
        BY <4>1 DEF Refers
    <3>2. QED
      BY <1>2, <2>3, <3>1 DEF Referenced
  <2>5. inq \in Seq(Handles) /\ Len(inq) \in Nat /\ DOMAIN inq = 1 .. Len(inq)
    BY WholeIs
  <2>6. w = inq
    <3>1. w = inq \o <<>>
      BY <1>2, <2>3 DEF Whole
    <3>2. QED
      BY <2>5, <3>1
  <2>7. Held(w, ack_index)
    BY <2>4, <2>5, <2>6 DEF Refers, Held
  <2>8. HasBytes(w, 0)
    BY <1>2, <1>6, <2>7 DEF Lives
  <2>9. PICK k \in 1 .. Len(w) : w[k].length > 0
    BY <2>8 DEF HasBytes
  <2>10. Total(w) \in Nat /\ ItemSize <= Total(w)
    BY <1>2, <2>9, WholeItems
  <2>11. enqueued = Total(w) /\ reserve \in Nat /\ ItemSize \in Nat
    BY <2>6, StreamAssumption DEF StreamInv
  <2>12. QED
    BY <2>10, <2>11
<1>7. QED
  BY <1>5, <1>6

\* All invariants hold at every step.
LEMMA RingAlways ==
    ASSUME NoMix
    PROVE  Spec => [](StreamInv /\ CircInv /\ LineInv /\ RingInv)
<1>1. Spec => [](StreamInv /\ CircInv /\ LineInv)
  BY LineAlways
<1>2. StreamInv /\ CircInv /\ LineInv /\ RingInv /\ [Next]_vars => RingInv'
  BY RingInvNext
<1>3. Init => RingInv
  BY RingInvInit
<1>4. QED
  BY <1>1, <1>2, <1>3, PTL DEF Spec

\* When all buffers are where they will stay and no message is on its way, the
\* upstream block has a buffer to write an item to, or the downstream block has
\* its reserve: neither waits for the other.  For a ring, whose buffers come
\* back in order, this is so for a reserve of an item; for a pool as long as
\* all buffers but one, filled by more than half, hold the reserve.
THEOREM StreamNeverStuck ==
    ASSUME NoMix, PoolRoom
    PROVE  Spec => []NeverStuck
<1>1. StreamInv /\ CircInv /\ LineInv /\ RingInv => NeverStuck
  <2>1. SUFFICES ASSUME StreamInv, CircInv, LineInv, RingInv, Resting,
                        kind = "ring" => reserve <= ItemSize
                 PROVE  OutputReady \/ enqueued >= reserve
    BY DEF NeverStuck
  <2>2. kind \in {"pool", "ring"}
    BY <2>1, StreamAssumption DEF StreamInv
  <2>3. QED
    BY <2>1, <2>2, PoolNotStuck, RingNotStuck
<1>2. Spec => [](StreamInv /\ CircInv /\ LineInv /\ RingInv)
  BY RingAlways
<1>3. QED
  BY <1>1, <1>2, PTL

=============================================================================
