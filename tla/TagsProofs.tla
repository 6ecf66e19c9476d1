----------------------------- MODULE TagsProofs -----------------------------
(***************************************************************************)
(* What holds of the tags of every pipe that is stopped only when nothing  *)
(* is on its way: for any number of blocks, any delays, any split into     *)
(* works and any order that the sort gives to tags of equal offsets.       *)
(*                                                                         *)
(* The invariant, TagsInv, has two parts.  OnWay looks at the streams      *)
(* only: the items of the queue and the mailbox of a block, one after      *)
(* another.  An item is in one place; what a block has produced, the next  *)
(* has consumed or it comes to it; a tag has the position of its item.     *)
(* Consuming takes items from the front of a stream (ConsumeKeeps), and    *)
(* sending puts items that are in no stream behind another (GetsKeeps);    *)
(* a work() is one after the other.                                        *)
(*                                                                         *)
(* Boxed looks into the mailbox: the tag of an item comes before it, or is *)
(* there; the item of a tag in the mailbox comes behind the tag.  It makes *)
(* the trim right: a tag that is still in the mailbox is for an item that  *)
(* is not queued, so it cannot be due, and the tag of an item that is      *)
(* consumed has come, and is due.                                          *)
(*                                                                         *)
(* The stream of a mailbox is a recursive function of the messages         *)
(* (Loops): the lemmas about it are by induction on their number.          *)
(***************************************************************************)
EXTENDS Tags, Loops, SequenceTheorems

-----------------------------------------------------------------------------
(* What is on its way to a block.                                          *)

\* a mailbox, of which only the items matter
Boxes(S, box) == Len(box) \in Nat /\ \A k \in 1 .. Len(box) : box[k].items \in Seq(S)

\* the streams after each message
UptoIs(S, q, box, u) ==
    /\ u \in [0 .. Len(box) -> Seq(S)] /\ u[0] = q
    /\ \A k \in 1 .. Len(box) : u[k] = u[k - 1] \o box[k].items

LEMMA UptoDef ==
    ASSUME NEW S, NEW q \in Seq(S), NEW box, Boxes(S, box)
    PROVE  UptoIs(S, q, box, Upto(q, box))
<1> DEFINE n == Len(box)
           E(f) == [k \in 0 .. n |-> IF k = 0 THEN q ELSE f[k - 1] \o box[k].items]
           F == [p \in (1 .. n) \X Seq(S) |-> p[2] \o box[p[1]].items]
<1>1. F \in [(1 .. n) \X Seq(S) -> Seq(S)] /\ n \in Nat
  <2>1. ASSUME NEW k \in 1 .. n, NEW s \in Seq(S) PROVE s \o box[k].items \in Seq(S)
    BY ConcatProperties DEF Boxes
  <2>2. QED
    BY <2>1 DEF Boxes
<1>2. PICK f : Loop(f, n, Seq(S), q, F)
  <2> HIDE DEF F, n
  <2> QED
    BY <1>1, LoopExists
<1>3. f \in [0 .. n -> Seq(S)] /\ f[0] = q
  BY <1>2 DEF Loop
<1>4. \A k \in 1 .. n : f[k] = f[k - 1] \o box[k].items
  <2>1. SUFFICES ASSUME NEW k \in 1 .. n PROVE f[k] = f[k - 1] \o box[k].items
    OBVIOUS
  <2>2. f[k - 1] \in Seq(S)
    BY <1>1, <1>3
  <2>3. f[k] = F[<<k, f[k - 1]>>]
    <3> HIDE DEF F
    <3> QED
      BY <1>1, <1>2 DEF Loop
  <2>4. QED
    BY <2>2, <2>3
<1>5. f = E(f)
  BY <1>1, <1>3, <1>4
<1>6. Upto(q, box) = CHOOSE g : g = E(g)
  BY DEF Upto
<1>7. Upto(q, box) = E(Upto(q, box))
  <2> HIDE DEF E
  <2> QED
    BY <1>5, <1>6
<1>8. /\ DOMAIN Upto(q, box) = 0 .. n
      /\ \A k \in 0 .. n : Upto(q, box)[k] = IF k = 0 THEN q
                                             ELSE Upto(q, box)[k - 1] \o box[k].items
  BY <1>7
<1>9. \A k \in 0 .. n : Upto(q, box)[k] \in Seq(S)
  <2> DEFINE T == {k \in Nat : k <= n => Upto(q, box)[k] \in Seq(S)}
  <2>1. 0 \in T
    BY <1>1, <1>8
  <2>2. ASSUME NEW k \in Nat, k \in T PROVE k + 1 \in T
    <3>1. SUFFICES ASSUME k + 1 <= n PROVE Upto(q, box)[k + 1] \in Seq(S)
      OBVIOUS
    <3>2. k + 1 \in 0 .. n /\ k + 1 # 0 /\ Upto(q, box)[k] \in Seq(S) /\ k + 1 \in 1 .. n
      BY <1>1, <2>2, <3>1
    <3>3. Upto(q, box)[k + 1] = Upto(q, box)[k] \o box[k + 1].items
      BY <1>8, <3>2
    <3>4. box[k + 1].items \in Seq(S)
      BY <3>2 DEF Boxes
    <3>5. QED
      BY <3>2, <3>3, <3>4, ConcatProperties
  <2>3. Nat \subseteq T
    <3> HIDE DEF T
    <3> QED
      BY <2>1, <2>2, SetInduction
  <2>4. QED
    BY <1>1, <2>3
<1>10. Upto(q, box) \in [0 .. n -> Seq(S)]
  <2>1. PICK u : u = Upto(q, box) /\ u = E(u)
    BY <1>7
  <2>2. \A k \in 0 .. n : u[k] \in Seq(S)
    BY <1>9, <2>1
  <2>3. u \in [0 .. n -> Seq(S)]
    BY <2>1, <2>2
  <2>4. QED
    BY <2>1, <2>3
<1>11. \A k \in 1 .. n : Upto(q, box)[k] = Upto(q, box)[k - 1] \o box[k].items
  BY <1>1, <1>8
<1>12. Upto(q, box)[0] = q
  BY <1>1, <1>8
<1>13. QED
  BY <1>10, <1>11, <1>12 DEF UptoIs

\* the m messages of box behind a are those of cox behind b
Same(box, a, cox, b, m) ==
    /\ a \in Nat /\ b \in Nat /\ m \in Nat /\ a + m <= Len(box) /\ b + m <= Len(cox)
    /\ \A i \in 1 .. m : box[a + i].items = cox[b + i].items

\* the stream before a is p and the stream before b
Longer(S, p, q, box, a, r, cox, b) ==
    /\ p \in Seq(S) /\ q \in Seq(S) /\ r \in Seq(S) /\ Boxes(S, box) /\ Boxes(S, cox)
    /\ Upto(q, box)[a] = p \o Upto(r, cox)[b]

\* What is p longer before them is p longer behind them.
LEMMA UptoAgrees ==
    ASSUME NEW S, NEW p, NEW q, NEW r, NEW box, NEW cox, NEW a, NEW b, NEW m,
           Longer(S, p, q, box, a, r, cox, b), Same(box, a, cox, b, m)
    PROVE  Longer(S, p, q, box, a + m, r, cox, b + m)
<1> DEFINE T == {i \in Nat : i <= m => Upto(q, box)[a + i] = p \o Upto(r, cox)[b + i]}
<1>1. a \in Nat /\ b \in Nat /\ m \in Nat /\ a + m <= Len(box) /\ b + m <= Len(cox)
      /\ Len(box) \in Nat /\ Len(cox) \in Nat
  BY DEF Same, Longer, Boxes
<1>0. UptoIs(S, q, box, Upto(q, box)) /\ UptoIs(S, r, cox, Upto(r, cox))
  BY UptoDef DEF Longer
<1>2. 0 \in T
  <2>1. a + 0 = a /\ b + 0 = b
    BY <1>1
  <2>2. QED
    BY <2>1 DEF Longer
<1>3. ASSUME NEW i \in Nat, i \in T PROVE i + 1 \in T
  <2>1. SUFFICES ASSUME i + 1 <= m
                 PROVE  Upto(q, box)[a + (i + 1)] = p \o Upto(r, cox)[b + (i + 1)]
    OBVIOUS
  <2>2. PICK j : j = a + i
    OBVIOUS
  <2>3. PICK l : l = b + i
    OBVIOUS
  <2>4. /\ a + (i + 1) = j + 1 /\ b + (i + 1) = l + 1
        /\ j + 1 \in 1 .. Len(box) /\ l + 1 \in 1 .. Len(cox)
        /\ j \in 0 .. Len(box) /\ l \in 0 .. Len(cox)
        /\ (j + 1) - 1 = j /\ (l + 1) - 1 = l
    BY <1>1, <2>1, <2>2, <2>3
  <2>5. Upto(q, box)[j] = p \o Upto(r, cox)[l]
    BY <1>1, <1>3, <2>1, <2>2, <2>3
  <2>6. box[j + 1].items = cox[l + 1].items
    <3>1. i + 1 \in 1 .. m
      BY <1>1, <2>1
    <3>2. box[a + (i + 1)].items = cox[b + (i + 1)].items
      BY <3>1 DEF Same
    <3>3. QED
      BY <2>4, <3>2
  <2>7. Upto(q, box)[j + 1] = Upto(q, box)[j] \o box[j + 1].items
    BY <1>0, <2>4 DEF UptoIs
  <2>8. Upto(r, cox)[l + 1] = Upto(r, cox)[l] \o cox[l + 1].items
        /\ Upto(r, cox)[l] \in Seq(S)
    BY <1>0, <2>4 DEF UptoIs
  <2>9. cox[l + 1].items \in Seq(S)
    BY <2>4 DEF Longer, Boxes
  <2>10. PICK s \in Seq(S) : s = Upto(r, cox)[l]
    BY <2>8
  <2>11. PICK t \in Seq(S) : t = cox[l + 1].items
    BY <2>9
  <2>12. (p \o s) \o t = p \o (s \o t)
    <3>1. p \in Seq(S) /\ s \in Seq(S) /\ t \in Seq(S)
      BY <2>10, <2>11 DEF Longer
    <3>2. QED
      BY ONLY <3>1, ConcatAssociative
  <2>13. QED
    BY <2>4, <2>5, <2>6, <2>7, <2>8, <2>10, <2>11, <2>12
<1>4. Nat \subseteq T
  <2> HIDE DEF T
  <2> QED
    BY <1>2, <1>3, SetInduction
<1>5. Upto(q, box)[a + m] = p \o Upto(r, cox)[b + m]
  BY <1>1, <1>4
<1>6. QED
  BY <1>5 DEF Longer

\* Nothing is on its way but what is queued, when the mailbox is empty.
LEMMA StreamEmpty == ASSUME NEW S, NEW q \in Seq(S) PROVE Stream(q, <<>>) = q
<1>1. Boxes(S, <<>>)
  BY DEF Boxes
<1>2. UptoIs(S, q, <<>>, Upto(q, <<>>))
  BY <1>1, UptoDef
<1>3. QED
  BY <1>2 DEF UptoIs, Stream

LEMMA StreamType ==
    ASSUME NEW S, NEW q \in Seq(S), NEW box, Boxes(S, box)
    PROVE  Stream(q, box) \in Seq(S)
<1>1. Len(box) \in 0 .. Len(box)
  BY DEF Boxes
<1>2. UptoIs(S, q, box, Upto(q, box))
  BY UptoDef
<1>3. QED
  BY <1>1, <1>2 DEF UptoIs, Stream

\* What is queued comes first.
LEMMA StreamPrefix ==
    ASSUME NEW S, NEW p \in Seq(S), NEW q \in Seq(S), NEW box, Boxes(S, box)
    PROVE  Stream(p \o q, box) = p \o Stream(q, box)
<1>1. p \o q \in Seq(S)
  BY ConcatProperties
<1>2. Upto(p \o q, box)[0] = p \o Upto(q, box)[0]
  <2>1. UptoIs(S, p \o q, box, Upto(p \o q, box)) /\ UptoIs(S, q, box, Upto(q, box))
    BY <1>1, UptoDef
  <2>2. QED
    BY <2>1 DEF UptoIs
<1>3. Same(box, 0, box, 0, Len(box)) /\ 0 + Len(box) = Len(box)
  BY DEF Same, Boxes
<1>4. Upto(p \o q, box)[0 + Len(box)] = p \o Upto(q, box)[0 + Len(box)]
  <2>1. Longer(S, p, p \o q, box, 0, q, box, 0)
    BY <1>1, <1>2 DEF Longer
  <2>2. Longer(S, p, p \o q, box, 0 + Len(box), q, box, 0 + Len(box))
    BY <1>3, <2>1, UptoAgrees
  <2>3. QED
    BY <2>2 DEF Longer
<1>5. QED
  BY <1>3, <1>4 DEF Stream

\* cox is box and one more message
OneMore(box, cox) ==
    Len(cox) = Len(box) + 1 /\ \A k \in 1 .. Len(box) : cox[k].items = box[k].items

\* What was posted comes last.
LEMMA StreamPost ==
    ASSUME NEW S, NEW q \in Seq(S), NEW box, Boxes(S, box), NEW cox, Boxes(S, cox),
           OneMore(box, cox)
    PROVE  Stream(q, cox) = Stream(q, box) \o cox[Len(cox)].items
<1>1. PICK n \in Nat : n = Len(box)
  BY DEF Boxes
<1>2. n + 1 \in 1 .. Len(cox) /\ Len(cox) = n + 1 /\ (n + 1) - 1 = n
  BY <1>1 DEF OneMore
<1>3. <<>> \in Seq(S)
  BY EmptySeq
<1>0. UptoIs(S, q, box, Upto(q, box)) /\ UptoIs(S, q, cox, Upto(q, cox))
  BY UptoDef
<1>4. Upto(q, cox)[0] = <<>> \o Upto(q, box)[0]
  BY <1>0, ConcatEmptySeq DEF UptoIs
<1>5. Same(cox, 0, box, 0, n) /\ 0 + n = n
  BY <1>1, <1>2 DEF Same, OneMore
<1>6. Upto(q, cox)[0 + n] = <<>> \o Upto(q, box)[0 + n]
  <2>1. Longer(S, <<>>, q, cox, 0, q, box, 0)
    BY <1>3, <1>4 DEF Longer
  <2>2. Longer(S, <<>>, q, cox, 0 + n, q, box, 0 + n)
    BY <1>5, <2>1, UptoAgrees
  <2>3. QED
    BY <2>2 DEF Longer
<1>7. Upto(q, box)[n] \in Seq(S)
  BY <1>0, <1>1 DEF UptoIs
<1>8. Upto(q, cox)[n] = Upto(q, box)[n]
  BY <1>5, <1>6, <1>7, ConcatEmptySeq
<1>9. Upto(q, cox)[n + 1] = Upto(q, cox)[n] \o cox[n + 1].items
  BY <1>0, <1>2 DEF UptoIs
<1>10. QED
  BY <1>1, <1>2, <1>8, <1>9 DEF Stream

\* Messages without items change nothing.
LEMMA StreamPostTags ==
    ASSUME NEW S, NEW q \in Seq(S), NEW box, Boxes(S, box), NEW cox, Boxes(S, cox),
           Len(cox) >= Len(box), \A k \in 1 .. Len(box) : cox[k].items = box[k].items,
           \A k \in Len(box) + 1 .. Len(cox) : cox[k].items = <<>>
    PROVE  Stream(q, cox) = Stream(q, box)
<1>1. PICK n \in Nat : n = Len(box)
  BY DEF Boxes
<1>2. PICK m \in Nat : m = Len(cox)
  BY DEF Boxes
<1> DEFINE T == {i \in Nat : n + i <= m => Upto(q, cox)[n + i] = Upto(q, box)[n]}
<1>3. <<>> \in Seq(S)
  BY EmptySeq
<1>0. UptoIs(S, q, box, Upto(q, box)) /\ UptoIs(S, q, cox, Upto(q, cox))
  BY UptoDef
<1>4. Upto(q, cox)[0] = <<>> \o Upto(q, box)[0]
  BY <1>0, ConcatEmptySeq DEF UptoIs
<1>5. Same(cox, 0, box, 0, n) /\ 0 + n = n
  BY <1>1, <1>2 DEF Same
<1>6. Upto(q, cox)[0 + n] = <<>> \o Upto(q, box)[0 + n]
  <2>1. Longer(S, <<>>, q, cox, 0, q, box, 0)
    BY <1>3, <1>4 DEF Longer
  <2>2. Longer(S, <<>>, q, cox, 0 + n, q, box, 0 + n)
    BY <1>5, <2>1, UptoAgrees
  <2>3. QED
    BY <2>2 DEF Longer
<1>7. Upto(q, box)[n] \in Seq(S)
  BY <1>0, <1>1 DEF UptoIs
<1>8. 0 \in T
  BY <1>5, <1>6, <1>7, ConcatEmptySeq
<1>9. ASSUME NEW i \in Nat, i \in T PROVE i + 1 \in T
  <2>1. SUFFICES ASSUME n + (i + 1) <= m PROVE Upto(q, cox)[n + (i + 1)] = Upto(q, box)[n]
    OBVIOUS
  <2>2. PICK j : j = n + (i + 1)
    OBVIOUS
  <2>3. j \in 1 .. Len(cox) /\ j \in Len(box) + 1 .. Len(cox) /\ j - 1 = n + i /\ n + i <= m
    BY <1>1, <1>2, <2>1, <2>2
  <2>4. Upto(q, cox)[j] = Upto(q, cox)[j - 1] \o cox[j].items
    BY <1>0, <2>3 DEF UptoIs
  <2>5. cox[j].items = <<>>
    BY <2>3
  <2>6. Upto(q, cox)[j - 1] = Upto(q, box)[n]
    BY <1>9, <2>3
  <2>7. QED
    BY <1>7, <2>2, <2>4, <2>5, <2>6, ConcatEmptySeq
<1>10. Nat \subseteq T
  <2> HIDE DEF T
  <2> QED
    BY <1>8, <1>9, SetInduction
<1>11. m - n \in Nat /\ n + (m - n) = m /\ m <= m
  BY <1>1, <1>2
<1>12. m - n \in T
  BY <1>10, <1>11
<1>13. Upto(q, cox)[m] = Upto(q, box)[n]
  BY <1>11, <1>12
<1>14. QED
  BY <1>1, <1>2, <1>13 DEF Stream

\* What is at the head of the mailbox is next to what is queued.
LEMMA StreamHead ==
    ASSUME NEW S, NEW q \in Seq(S), NEW box, Boxes(S, box), NEW cox, Boxes(S, cox),
           Len(box) = Len(cox) + 1, \A k \in 1 .. Len(cox) : cox[k].items = box[k + 1].items
    PROVE  Stream(q, box) = Stream(q \o box[1].items, cox)
<1>1. PICK n \in Nat : n = Len(cox)
  BY DEF Boxes
<1>2. 1 \in 1 .. Len(box) /\ 1 - 1 = 0 /\ Len(box) = 1 + n /\ 0 + n = n
  BY <1>1
<1>3. PICK r \in Seq(S) : r = q \o box[1].items
  BY <1>2, ConcatProperties DEF Boxes
<1>0. UptoIs(S, q, box, Upto(q, box)) /\ UptoIs(S, r, cox, Upto(r, cox))
  BY <1>3, UptoDef
<1>4. Upto(q, box)[1] = r
  <2>1. Upto(q, box)[0] = q
    BY <1>0 DEF UptoIs
  <2>2. Upto(q, box)[1] = Upto(q, box)[1 - 1] \o box[1].items
    BY <1>0, <1>2, Zenon DEF UptoIs
  <2>3. QED
    BY <1>2, <1>3, <2>1, <2>2
<1>5. Upto(q, box)[1] = <<>> \o Upto(r, cox)[0]
  BY <1>0, <1>4, ConcatEmptySeq DEF UptoIs
<1>6. Same(box, 1, cox, 0, n)
  <2>1. \A i \in 1 .. n : 1 + i = i + 1 /\ 0 + i = i
    BY <1>1
  <2>2. QED
    BY <1>1, <1>2, <2>1 DEF Same
<1>7. <<>> \in Seq(S)
  BY EmptySeq
<1>8. Upto(q, box)[1 + n] = <<>> \o Upto(r, cox)[0 + n]
  <2>1. Longer(S, <<>>, q, box, 1, r, cox, 0)
    BY <1>3, <1>5, <1>7 DEF Longer
  <2>2. Longer(S, <<>>, q, box, 1 + n, r, cox, 0 + n)
    BY <1>6, <2>1, UptoAgrees
  <2>3. QED
    BY <2>2 DEF Longer
<1>9. Upto(r, cox)[n] \in Seq(S)
  BY <1>0, <1>1 DEF UptoIs
<1>10. QED
  BY <1>1, <1>2, <1>3, <1>8, <1>9, ConcatEmptySeq DEF Stream
\* Every item of the mailbox is behind what is queued.
LEMMA StreamHas ==
    ASSUME NEW S, NEW q \in Seq(S), NEW box, Boxes(S, box),
           NEW j \in 1 .. Len(box), NEW k \in 1 .. Len(box[j].items)
    PROVE  \E l \in Len(q) + 1 .. Len(Stream(q, box)) : Stream(q, box)[l] = box[j].items[k]
<1>1. PICK u : u = Upto(q, box)
  OBVIOUS
<1>2. UptoIs(S, q, box, u)
  BY <1>1, UptoDef
<1>3. PICK n \in Nat : n = Len(box)
  BY DEF Boxes
<1>4. PICK x : x = box[j].items[k]
  OBVIOUS
<1> DEFINE Has(i) == \E l \in Len(q) + 1 .. Len(u[i]) : u[i][l] = x
           T == {i \in Nat : i <= n => Len(u[i]) >= Len(q) /\ (i >= j => Has(i))}
<1>5. 0 \in T
  BY <1>2 DEF UptoIs
<1>6. ASSUME NEW i \in Nat, i \in T PROVE i + 1 \in T
  <2>1. SUFFICES ASSUME i + 1 <= n
                 PROVE  Len(u[i + 1]) >= Len(q) /\ (i + 1 >= j => Has(i + 1))
    OBVIOUS
  <2>2. i + 1 \in 1 .. Len(box) /\ (i + 1) - 1 = i /\ i \in 0 .. Len(box) /\ i <= n
    BY <1>3, <2>1
  <2>3. PICK s \in Seq(S) : s = u[i]
    BY <1>2, <2>2 DEF UptoIs
  <2>4. PICK t \in Seq(S) : t = box[i + 1].items
    BY <2>2 DEF Boxes
  <2>5. u[i + 1] = s \o t
    BY <1>2, <2>2, <2>3, <2>4 DEF UptoIs
  <2>6. Len(s) >= Len(q)
    BY <1>6, <2>2, <2>3
  <2>11. /\ Len(s) \in Nat /\ Len(t) \in Nat /\ Len(q) \in Nat
         /\ Len(s \o t) = Len(s) + Len(t)
         /\ \A l \in 1 .. Len(s) + Len(t) :
                (s \o t)[l] = IF l <= Len(s) THEN s[l] ELSE t[l - Len(s)]
    <3>1. s \in Seq(S) /\ t \in Seq(S) /\ q \in Seq(S)
      BY <2>3, <2>4
    <3>2. Len(s) \in Nat /\ Len(t) \in Nat /\ Len(q) \in Nat
      BY ONLY <3>1, LenProperties
    <3>3. /\ Len(s \o t) = Len(s) + Len(t)
          /\ \A l \in 1 .. Len(s) + Len(t) :
                 (s \o t)[l] = IF l <= Len(s) THEN s[l] ELSE t[l - Len(s)]
      BY ONLY <3>1, ConcatProperties
    <3>4. QED
      BY <3>2, <3>3
  <2>7. Len(s \o t) >= Len(q)
    BY <2>6, <2>11
  <2>8. ASSUME i + 1 >= j PROVE \E l \in Len(q) + 1 .. Len(s \o t) : (s \o t)[l] = x
    <3>1. CASE i + 1 = j
      <4>1. k \in 1 .. Len(t) /\ t[k] = x
        BY <1>4, <2>4, <3>1
      <4>2. /\ Len(s) + k \in 1 .. Len(s) + Len(t) /\ ~ (Len(s) + k <= Len(s))
            /\ (Len(s) + k) - Len(s) = k /\ Len(s) + k \in Len(q) + 1 .. Len(s \o t)
        BY <2>6, <2>11, <4>1
      <4>4. (s \o t)[Len(s) + k] = x
        BY <2>11, <4>1, <4>2
      <4>3. QED
        BY <4>2, <4>4
    <3>2. CASE i + 1 # j
      <4>1. i >= j
        BY <2>8, <3>2
      <4>2. Has(i)
        BY <1>6, <2>2, <4>1
      <4>3. PICK l \in Len(q) + 1 .. Len(s) : s[l] = x
        BY <2>3, <4>2
      <4>4. (s \o t)[l] = x /\ l \in Len(q) + 1 .. Len(s \o t)
        BY <2>6, <2>11, <4>3
      <4>5. QED
        BY <4>4
    <3>3. QED
      BY <3>1, <3>2
  <2>9. QED
    BY <2>5, <2>7, <2>8
<1>7. Nat \subseteq T
  <2> HIDE DEF T
  <2> QED
    BY <1>5, <1>6, SetInduction
<1>8. n >= j /\ n <= n
  BY <1>3
<1>9. Has(n)
  BY <1>7, <1>8
<1>10. QED
  BY <1>1, <1>3, <1>4, <1>9 DEF Stream

-----------------------------------------------------------------------------
(* Items and tags that are on their way.                                   *)

TagRec == [offset : Nat, item : Nat]

\* what comes to each block, its tags, what it has consumed and produced
Flow(C, T, used, prod) ==
    /\ C \in [Blocks -> Seq(Nat)] /\ T \in [Blocks -> SUBSET TagRec]
    /\ used \in [Blocks -> Nat] /\ prod \in [Blocks -> Nat]

\* an item is in one place only
Once(C) ==
    \A b, c \in Blocks : \A k \in 1 .. Len(C[b]) : \A l \in 1 .. Len(C[c]) :
        C[b][k] = C[c][l] /\ C[b][k] # Filler => b = c /\ k = l

Known(C, m) == \A b \in Blocks : \A k \in 1 .. Len(C[b]) : C[b][k] <= m

\* what a block has produced, the next has consumed, or it comes to it
Counted(C, used, prod) ==
    \A b \in Blocks : b + 1 \in Blocks => prod[b] = used[b + 1] + Len(C[b + 1])

MarkedAt(q, ts, n) ==
    \A t \in ts : /\ t.item # Filler
                  /\ \E k \in 1 .. Len(q) : q[k] = t.item /\ t.offset = n + k - 1
Marked(C, T, used) == \A b \in Blocks : MarkedAt(C[b], T[b], used[b])

OnWay(C, T, used, prod) ==
    Flow(C, T, used, prod) /\ Once(C) /\ Counted(C, used, prod) /\ Marked(C, T, used)

\* block b consumes n items; its tags that are due go
Consumes(C, T, used, D, U, vsed, b, n) ==
    /\ b \in Blocks /\ n \in Nat /\ n <= Len(C[b])
    /\ Len(D[b]) = Len(C[b]) - n /\ \A k \in 1 .. Len(D[b]) : D[b][k] = C[b][n + k]
    /\ \A t \in U[b] : t \in T[b] /\ t.offset >= used[b] + n
    /\ vsed[b] = used[b] + n
    /\ \A c \in Blocks \ {b} : D[c] = C[c] /\ U[c] \subseteq T[c] /\ vsed[c] = used[c]

LEMMA ConsumeKeeps ==
    ASSUME NEW C, NEW T, NEW used, NEW prod, OnWay(C, T, used, prod),
           NEW D, NEW U, NEW vsed, Flow(D, U, vsed, prod),
           NEW b, NEW n, Consumes(C, T, used, D, U, vsed, b, n)
    PROVE  /\ OnWay(D, U, vsed, prod)
           /\ \A j \in 1 .. n : C[b][j] # Filler =>
                  \A c \in Blocks : \A k \in 1 .. Len(D[c]) : D[c][k] # C[b][j]
<1>1. /\ \A c \in Blocks : Len(C[c]) \in Nat /\ Len(D[c]) \in Nat
      /\ used[b] \in Nat /\ b \in Blocks /\ n \in Nat /\ n <= Len(C[b])
  BY DEF OnWay, Flow, Consumes
\* where an item was before
<1>2. ASSUME NEW c \in Blocks, NEW k \in 1 .. Len(D[c])
      PROVE  \E l \in 1 .. Len(C[c]) : D[c][k] = C[c][l] /\ (c = b => l = n + k) /\ (c # b => l = k)
  <2>1. CASE c = b
    <3>1. n + k \in 1 .. Len(C[b]) /\ D[b][k] = C[b][n + k]
      BY <1>1, <2>1 DEF Consumes
    <3>2. QED
      BY <2>1, <3>1
  <2>2. CASE c # b
    <3>1. D[c] = C[c]
      BY <2>2 DEF Consumes
    <3>2. QED
      BY <2>2, <3>1
  <2>3. QED
    BY <2>1, <2>2
<1>3. Once(D)
  <2>1. SUFFICES ASSUME NEW c \in Blocks, NEW d \in Blocks,
                        NEW k \in 1 .. Len(D[c]), NEW l \in 1 .. Len(D[d]),
                        D[c][k] = D[d][l], D[c][k] # Filler
                 PROVE  c = d /\ k = l
    BY DEF Once
  <2>2. PICK i \in 1 .. Len(C[c]) : D[c][k] = C[c][i] /\ (c = b => i = n + k) /\ (c # b => i = k)
    BY <1>2
  <2>3. PICK j \in 1 .. Len(C[d]) : D[d][l] = C[d][j] /\ (d = b => j = n + l) /\ (d # b => j = l)
    BY <1>2
  <2>4. c = d /\ i = j
    <3>1. C[c][i] = C[d][j] /\ C[c][i] # Filler
      BY <2>1, <2>2, <2>3
    <3>2. Once(C)
      BY DEF OnWay
    <3>3. QED
      BY <3>1, <3>2 DEF Once
  <2>5. QED
    BY <1>1, <2>2, <2>3, <2>4
<1>4. Counted(D, vsed, prod)
  <2>1. SUFFICES ASSUME NEW c \in Blocks, c + 1 \in Blocks
                 PROVE  prod[c] = vsed[c + 1] + Len(D[c + 1])
    BY DEF Counted
  <2>2. prod[c] = used[c + 1] + Len(C[c + 1])
    BY <2>1 DEF OnWay, Counted
  <2>3. CASE c + 1 = b
    BY <1>1, <2>2, <2>3 DEF Consumes
  <2>4. CASE c + 1 # b
    BY <2>1, <2>2, <2>4 DEF Consumes
  <2>5. QED
    BY <2>3, <2>4
<1>5. Marked(D, U, vsed)
  <2>1. SUFFICES ASSUME NEW c \in Blocks PROVE MarkedAt(D[c], U[c], vsed[c])
    BY DEF Marked
  <2>2. MarkedAt(C[c], T[c], used[c])
    BY DEF OnWay, Marked
  <2>3. CASE c # b
    <3>1. D[c] = C[c] /\ U[c] \subseteq T[c] /\ vsed[c] = used[c]
      BY <2>3 DEF Consumes
    <3>2. QED
      BY <2>2, <3>1 DEF MarkedAt
  <2>4. CASE c = b
    <3>1. SUFFICES ASSUME NEW t \in U[b]
                   PROVE  /\ t.item # Filler
                          /\ \E k \in 1 .. Len(D[b]) : D[b][k] = t.item /\ t.offset = vsed[b] + k - 1
      BY <2>4 DEF MarkedAt
    <3>2. t \in T[b] /\ t.offset >= used[b] + n
      BY DEF Consumes
    <3>3. PICK k \in 1 .. Len(C[b]) : C[b][k] = t.item /\ t.offset = used[b] + k - 1
      BY <2>2, <2>4, <3>2 DEF MarkedAt
    <3>4. /\ k - n \in 1 .. Len(D[b]) /\ n + (k - n) = k
          /\ t.offset = vsed[b] + (k - n) - 1
      BY <1>1, <3>2, <3>3 DEF Consumes
    <3>5. D[b][k - n] = C[b][n + (k - n)]
      BY <3>4 DEF Consumes
    <3>6. t.item # Filler
      BY <2>2, <2>4, <3>2 DEF MarkedAt
    <3>7. QED
      BY <3>3, <3>4, <3>5, <3>6
  <2>5. QED
    BY <2>3, <2>4
<1>6. ASSUME NEW j \in 1 .. n, C[b][j] # Filler, NEW c \in Blocks, NEW k \in 1 .. Len(D[c])
      PROVE  D[c][k] # C[b][j]
  <2>1. SUFFICES ASSUME D[c][k] = C[b][j] PROVE FALSE
    OBVIOUS
  <2>2. PICK i \in 1 .. Len(C[c]) : D[c][k] = C[c][i] /\ (c = b => i = n + k) /\ (c # b => i = k)
    BY <1>2
  <2>3. j \in 1 .. Len(C[b])
    BY <1>1
  <2>4. c = b /\ i = j
    <3>1. C[c][i] = C[b][j] /\ C[c][i] # Filler
      BY <1>6, <2>1, <2>2
    <3>2. Once(C)
      BY DEF OnWay
    <3>3. QED
      BY <1>1, <2>3, <3>1, <3>2 DEF Once
  <2>5. QED
    BY <1>1, <2>2, <2>4
<1>7. QED
  BY <1>3, <1>4, <1>5, <1>6 DEF OnWay

\* items that come to block d, with tags for some of them
Gets(C, T, used, prod, D, U, qrod, d, items) ==
    /\ d \in Blocks /\ items \in Seq(Nat)
    /\ D[d] = C[d] \o items
    /\ \A t \in U[d] : \/ t \in T[d]
                       \/ /\ t.item # Filler
                          /\ \E k \in 1 .. Len(items) :
                                 items[k] = t.item /\ t.offset = used[d] + Len(C[d]) + k - 1
    /\ \A c \in Blocks \ {d} : D[c] = C[c] /\ U[c] \subseteq T[c]
    /\ \A c \in Blocks : qrod[c] = IF c + 1 = d THEN prod[c] + Len(items)
                                   ELSE IF c + 1 \in Blocks THEN prod[c] ELSE qrod[c]

\* items that are nowhere yet, each once
Fresh(C, items) ==
    /\ \A j \in 1 .. Len(items) : items[j] # Filler =>
           \A c \in Blocks : \A k \in 1 .. Len(C[c]) : C[c][k] # items[j]
    /\ \A j, k \in 1 .. Len(items) : items[j] = items[k] /\ items[j] # Filler => j = k

LEMMA GetsKeeps ==
    ASSUME NEW C, NEW T, NEW used, NEW prod, OnWay(C, T, used, prod),
           NEW D, NEW U, NEW qrod, Flow(D, U, used, qrod),
           NEW d, NEW items, Gets(C, T, used, prod, D, U, qrod, d, items), Fresh(C, items)
    PROVE  OnWay(D, U, used, qrod)
<1>1. /\ \A c \in Blocks : Len(C[c]) \in Nat /\ Len(D[c]) \in Nat
      /\ used[d] \in Nat /\ d \in Blocks /\ Len(items) \in Nat
  BY DEF OnWay, Flow, Gets
<1>2. /\ Len(D[d]) = Len(C[d]) + Len(items)
      /\ \A k \in 1 .. Len(C[d]) : D[d][k] = C[d][k]
      /\ \A k \in 1 .. Len(items) : D[d][Len(C[d]) + k] = items[k]
      /\ \A k \in 1 .. Len(D[d]) : k \in 1 .. Len(C[d]) \/ k - Len(C[d]) \in 1 .. Len(items)
  <2>1. PICK s \in Seq(Nat) : s = C[d]
    BY DEF OnWay, Flow, Gets
  <2>2. PICK t \in Seq(Nat) : t = items
    BY DEF Gets
  <2>3. D[d] = s \o t
    BY <2>1, <2>2 DEF Gets
  <2>4. QED
    BY <2>1, <2>2, <2>3
\* an item is where it was, or it has just come
<1>3. ASSUME NEW c \in Blocks, NEW k \in 1 .. Len(D[c])
      PROVE  \/ k \in 1 .. Len(C[c]) /\ D[c][k] = C[c][k]
             \/ c = d /\ k - Len(C[d]) \in 1 .. Len(items) /\ D[c][k] = items[k - Len(C[d])]
  <2>1. CASE c # d
    BY <2>1 DEF Gets
  <2>2. CASE c = d
    <3>1. CASE k \in 1 .. Len(C[d])
      BY <1>2, <2>2, <3>1
    <3>2. CASE k - Len(C[d]) \in 1 .. Len(items)
      <4>1. Len(C[d]) + (k - Len(C[d])) = k
        BY <1>1
      <4>2. D[d][Len(C[d]) + (k - Len(C[d]))] = items[k - Len(C[d])]
        BY <1>2, <3>2
      <4>3. QED
        BY <2>2, <3>2, <4>1, <4>2
    <3>3. QED
      BY <1>2, <2>2, <3>1, <3>2
  <2>3. QED
    BY <2>1, <2>2
<1>4. Once(D)
  <2>1. SUFFICES ASSUME NEW c \in Blocks, NEW e \in Blocks,
                        NEW k \in 1 .. Len(D[c]), NEW l \in 1 .. Len(D[e]),
                        D[c][k] = D[e][l], D[c][k] # Filler
                 PROVE  c = e /\ k = l
    BY DEF Once
  <2> DEFINE Old(b, i) == i \in 1 .. Len(C[b]) /\ D[b][i] = C[b][i]
             New(b, i) == b = d /\ i - Len(C[d]) \in 1 .. Len(items)
                          /\ D[b][i] = items[i - Len(C[d])]
  <2>2. (Old(c, k) \/ New(c, k)) /\ (Old(e, l) \/ New(e, l))
    BY <1>3
  <2>3. CASE Old(c, k) /\ Old(e, l)
    <3>1. /\ k \in 1 .. Len(C[c]) /\ l \in 1 .. Len(C[e])
          /\ C[c][k] = C[e][l] /\ C[c][k] # Filler
      BY <2>1, <2>3
    <3>2. Once(C)
      BY DEF OnWay
    <3>3. QED
      BY <3>1, <3>2 DEF Once
  <2>4. CASE Old(c, k) /\ New(e, l)
    BY <2>1, <2>4 DEF Fresh
  <2>5. CASE New(c, k) /\ Old(e, l)
    BY <2>1, <2>5 DEF Fresh
  <2>6. CASE New(c, k) /\ New(e, l)
    <3>1. k - Len(C[d]) = l - Len(C[d])
      BY <2>1, <2>6 DEF Fresh
    <3>2. QED
      BY <1>1, <2>6, <3>1
  <2>7. QED
    BY <2>2, <2>3, <2>4, <2>5, <2>6
<1>5. Counted(D, used, qrod)
  <2>1. SUFFICES ASSUME NEW c \in Blocks, c + 1 \in Blocks
                 PROVE  qrod[c] = used[c + 1] + Len(D[c + 1])
    BY DEF Counted
  <2>2. prod[c] = used[c + 1] + Len(C[c + 1]) /\ prod[c] \in Nat /\ used[c + 1] \in Nat
    BY <2>1 DEF OnWay, Counted, Flow
  <2>3. CASE c + 1 = d
    <3>1. qrod[c] = prod[c] + Len(items)
      BY <2>3 DEF Gets
    <3>2. QED
      BY <1>1, <1>2, <2>2, <2>3, <3>1
  <2>4. CASE c + 1 # d
    BY <2>1, <2>2, <2>4 DEF Gets
  <2>5. QED
    BY <2>3, <2>4
<1>6. Marked(D, U, used)
  <2>1. SUFFICES ASSUME NEW c \in Blocks, NEW t \in U[c]
                 PROVE  /\ t.item # Filler
                        /\ \E k \in 1 .. Len(D[c]) : D[c][k] = t.item /\ t.offset = used[c] + k - 1
    BY DEF Marked, MarkedAt
  <2>2. CASE t \in T[c]
    <3>1. /\ t.item # Filler
          /\ \E k \in 1 .. Len(C[c]) : C[c][k] = t.item /\ t.offset = used[c] + k - 1
      BY <2>2 DEF OnWay, Marked, MarkedAt
    <3>2. PICK k \in 1 .. Len(C[c]) : C[c][k] = t.item /\ t.offset = used[c] + k - 1
      BY <3>1
    <3>3. k \in 1 .. Len(D[c]) /\ D[c][k] = C[c][k]
      <4>1. CASE c = d
        BY <1>1, <1>2, <4>1
      <4>2. CASE c # d
        BY <4>2 DEF Gets
      <4>3. QED
        BY <4>1, <4>2
    <3>4. QED
      BY <3>1, <3>2, <3>3
  <2>3. CASE t \notin T[c]
    <3>1. c = d
      BY <2>3 DEF Gets
    <3>2. /\ t.item # Filler
          /\ \E k \in 1 .. Len(items) : items[k] = t.item /\ t.offset = used[d] + Len(C[d]) + k - 1
      BY <2>3, <3>1 DEF Gets
    <3>3. PICK k \in 1 .. Len(items) : items[k] = t.item /\ t.offset = used[d] + Len(C[d]) + k - 1
      BY <3>2
    <3>4. /\ Len(C[d]) + k \in 1 .. Len(D[d])
          /\ t.offset = used[d] + (Len(C[d]) + k) - 1
      BY <1>1, <1>2, <3>3
    <3>5. D[d][Len(C[d]) + k] = t.item
      BY <1>2, <3>3
    <3>6. QED
      BY <3>1, <3>2, <3>4, <3>5
  <2>4. QED
    BY <2>2, <2>3
<1>7. QED
  BY <1>4, <1>5, <1>6 DEF OnWay

-----------------------------------------------------------------------------
(* Sorting and trimming.                                                   *)

\* What the sort returns has the same tags, in the order of their offsets.
LEMMA SortIs ==
    ASSUME NEW b, input_tags[b] \in Seq(TagRec),
           ~ input_tags_changed[b] => InOrder(input_tags[b]),
           NEW tags \in SortTags(b)
    PROVE  /\ tags \in Seq(TagRec) /\ InOrder(tags)
           /\ \A k \in 1 .. Len(tags) : \E j \in 1 .. Len(input_tags[b]) :
                  tags[k] = input_tags[b][j]
           /\ \A j \in 1 .. Len(input_tags[b]) : \E k \in 1 .. Len(tags) :
                  tags[k] = input_tags[b][j]
<1>1. PICK ts \in Seq(TagRec) : ts = input_tags[b]
  OBVIOUS
<1>2. CASE ~ input_tags_changed[b]
  BY <1>2 DEF SortTags
<1>3. CASE input_tags_changed[b]
  <2>1. tags \in Sorted(ts)
    BY <1>1, <1>3 DEF SortTags
  <2>2. InOrder(tags)
    BY <2>1 DEF Sorted
  <2>3. PICK p \in Bijection(DOMAIN ts, DOMAIN ts) : tags = [k \in DOMAIN ts |-> ts[p[k]]]
    BY <2>1 DEF Sorted
  <2>4. /\ DOMAIN ts = 1 .. Len(ts) /\ Len(ts) \in Nat
        /\ p \in [1 .. Len(ts) -> 1 .. Len(ts)]
        /\ \A j \in 1 .. Len(ts) : \E k \in 1 .. Len(ts) : p[k] = j
    <3>1. DOMAIN ts = 1 .. Len(ts) /\ Len(ts) \in Nat
      BY <1>1, LenProperties
    <3>2. PICK N : N = 1 .. Len(ts)
      OBVIOUS
    <3>3. p \in Bijection(N, N)
      BY <2>3, <3>1, <3>2
    <3>4. p \in [N -> N] /\ \A j \in N : \E k \in N : p[k] = j
      BY <3>3 DEF Bijection, Injection, Surjection
    <3>5. QED
      BY <3>1, <3>2, <3>4
  <2>5. tags = [k \in 1 .. Len(ts) |-> ts[p[k]]] /\ \A k \in 1 .. Len(ts) : ts[p[k]] \in TagRec
    <3>1. tags = [k \in 1 .. Len(ts) |-> ts[p[k]]]
      BY <2>3, <2>4
    <3>2. ASSUME NEW k \in 1 .. Len(ts) PROVE ts[p[k]] \in TagRec
      <4>1. p[k] \in 1 .. Len(ts)
        BY <2>4
      <4>2. QED
        BY <1>1, <4>1, ElementOfSeq
    <3>3. QED
      BY <3>1, <3>2
  <2>6. tags \in Seq(TagRec) /\ Len(tags) = Len(ts)
    <3>1. PICK g : g = [k \in 1 .. Len(ts) |-> ts[p[k]]]
      OBVIOUS
    <3>2. g \in [1 .. Len(ts) -> TagRec]
      BY <2>5, <3>1
    <3>3. g \in Seq(TagRec) /\ Len(g) = Len(ts)
      BY <2>4, <3>2
    <3>4. QED
      BY <2>5, <3>1, <3>3
  <2>7. ASSUME NEW k \in 1 .. Len(tags) PROVE tags[k] = ts[p[k]] /\ p[k] \in 1 .. Len(ts)
    BY <2>4, <2>5, <2>6
  <2>8. ASSUME NEW j \in 1 .. Len(ts) PROVE \E k \in 1 .. Len(tags) : tags[k] = ts[j]
    <3>1. PICK k \in 1 .. Len(ts) : p[k] = j
      BY <2>4
    <3>2. k \in 1 .. Len(tags) /\ tags[k] = ts[p[k]]
      BY <2>6, <2>7
    <3>3. QED
      BY <3>1, <3>2
  <2>9. QED
    BY <1>1, <2>2, <2>6, <2>7, <2>8
<1>4. QED
  BY <1>2, <1>3

\* Of tags in their order, the trim takes all that are due, and no other.
LEMMA TrimIs ==
    ASSUME NEW ts \in Seq(TagRec), InOrder(ts), NEW b, NEW n, items_consumed[b] + n \in Nat
    PROVE  \E m \in 0 .. Len(ts) :
               /\ Trimmed(ts, b, n) = SubSeq(ts, 1, m)
               /\ \A k \in 1 .. m : ts[k].offset < items_consumed[b] + n
               /\ \A k \in m + 1 .. Len(ts) : ts[k].offset >= items_consumed[b] + n
<1>1. PICK x \in Nat : x = items_consumed[b] + n
  OBVIOUS
<1>2. DOMAIN ts = 1 .. Len(ts) /\ Len(ts) \in Nat /\ \A k \in 1 .. Len(ts) : ts[k].offset \in Nat
  <2>1. \A k \in 1 .. Len(ts) : ts[k] \in TagRec
    BY ElementOfSeq
  <2>2. \A k \in 1 .. Len(ts) : ts[k].offset \in Nat
    BY <2>1 DEF TagRec
  <2>3. DOMAIN ts = 1 .. Len(ts) /\ Len(ts) \in Nat
    BY LenProperties
  <2>4. QED
    BY <2>2, <2>3
<1> DEFINE keeps == {k \in DOMAIN ts : ~Due(ts[k], b, n)}
           first == CHOOSE k \in keeps : \A j \in keeps : k <= j
           last  == IF keeps = {} THEN Len(ts) ELSE first - 1
<1>3. Trimmed(ts, b, n) = SubSeq(ts, 1, last)
  BY DEF Trimmed
<1>4. \A k \in 1 .. Len(ts) : k \in keeps <=> ts[k].offset >= x
  BY <1>1, <1>2 DEF Due
<1>5. keeps \subseteq 1 .. Len(ts)
  BY <1>2
<1>6. keeps # {} => first \in keeps /\ \A j \in keeps : first <= j
  <2>1. SUFFICES ASSUME keeps # {} PROVE first \in keeps /\ \A j \in keeps : first <= j
    OBVIOUS
  <2>2. \E k \in keeps : \A j \in keeps : k <= j
    <3> HIDE DEF keeps
    <3>1. SUFFICES ASSUME \A k \in keeps : \E j \in keeps : j < k PROVE FALSE
      BY <1>5
    <3> DEFINE T == {i \in Nat : \A k \in keeps : k > i}
    <3>2. 0 \in T
      BY <1>5
    <3>3. ASSUME NEW i \in Nat, i \in T PROVE i + 1 \in T
      <4>1. SUFFICES ASSUME NEW k \in keeps, ~ (k > i + 1) PROVE FALSE
        OBVIOUS
      <4>2. k = i + 1
        BY <1>5, <3>3, <4>1
      <4>3. PICK j \in keeps : j < k
        BY <3>1
      <4>4. j > i /\ j \in Nat
        BY <1>5, <3>3
      <4>5. QED
        BY <4>2, <4>3, <4>4
    <3>4. Nat \subseteq T
      <4> HIDE DEF T
      <4> QED
        BY <3>2, <3>3, SetInduction
    <3>5. PICK k \in keeps : TRUE
      BY <2>1
    <3>6. k \in T /\ k \in Nat
      BY <1>5, <3>4
    <3>7. QED
      BY <3>6
  <2>3. QED
    <3> HIDE DEF keeps
    <3> QED
      BY <2>2
<1> HIDE DEF keeps, first
<1>7. last \in 0 .. Len(ts)
  <2>1. CASE keeps = {}
    BY <1>2, <2>1
  <2>2. CASE keeps # {}
    <3>1. first \in 1 .. Len(ts)
      BY <1>5, <1>6, <2>2
    <3>2. QED
      BY <1>2, <2>2, <3>1
  <2>3. QED
    BY <2>1, <2>2
<1>8. ASSUME NEW k \in 1 .. last PROVE ts[k].offset < x
  <2>1. k \in 1 .. Len(ts) /\ k \notin keeps
    <3>1. CASE keeps = {}
      BY <1>2, <1>7, <3>1
    <3>2. CASE keeps # {}
      <4>0. first \in 1 .. Len(ts)
        BY <1>5, <1>6, <3>2
      <4>5. k \in 1 .. first - 1
        BY <3>2
      <4>1. first \in 1 .. Len(ts) /\ k < first /\ k \in Nat
        BY <1>2, <4>0, <4>5
      <4>2. ~ (first <= k)
        BY <4>1
      <4>3. k \notin keeps
        BY <1>6, <3>2, <4>2
      <4>4. QED
        BY <1>2, <4>1, <4>3
    <3>3. QED
      BY <3>1, <3>2
  <2>2. QED
    BY <1>1, <1>2, <1>4, <2>1
<1>9. ASSUME NEW k \in last + 1 .. Len(ts) PROVE ts[k].offset >= x
  <2>1. keeps # {} /\ first \in 1 .. Len(ts) /\ first <= k /\ k \in 1 .. Len(ts)
    <3>1. CASE keeps = {}
      BY <1>2, <3>1
    <3>2. CASE keeps # {}
      <4>1. first \in 1 .. Len(ts) /\ k \in first - 1 + 1 .. Len(ts)
        BY <1>5, <1>6, <3>2
      <4>2. QED
        BY <1>2, <3>2, <4>1
    <3>3. QED
      BY <3>1, <3>2
  <2>2. ts[first].offset >= x
    BY <1>4, <1>6, <2>1
  <2>3. ts[first].offset <= ts[k].offset
    BY <1>2, <2>1 DEF InOrder
  <2>4. QED
    BY <1>1, <1>2, <2>1, <2>2, <2>3
<1>10. QED
  <2> HIDE DEF last
  <2> QED
    BY <1>1, <1>3, <1>7, <1>8, <1>9

-----------------------------------------------------------------------------
(* The mailbox of a block: a tag is before its item, the item after it.    *)

Message(m) == [type : {"tag", "buffer"}, tag : TagRec, items : Seq(0 .. m)]

TagsOf(ts, box) ==
    {ts[k] : k \in 1 .. Len(ts)}
        \cup {box[k].tag : k \in {j \in 1 .. Len(box) : box[j].type = "tag"}}

HasTag(ts, x) == \E j \in 1 .. Len(ts) : ts[j].item = x

\* the tag of an item that is queued is there
AheadOfQueue(q, ts, G) == \A k \in 1 .. Len(q) : q[k] \in G => HasTag(ts, q[k])

\* the tag of an item in the mailbox is there, or is before it
AheadInBox(box, ts, G) ==
    \A j \in 1 .. Len(box) : box[j].type = "buffer" =>
        \A k \in 1 .. Len(box[j].items) : box[j].items[k] \in G =>
            \/ HasTag(ts, box[j].items[k])
            \/ \E i \in 1 .. j - 1 : box[i].type = "tag" /\ box[i].tag.item = box[j].items[k]

\* the item of a tag in the mailbox is behind it
Behind(box) ==
    \A j \in 1 .. Len(box) : box[j].type = "tag" =>
        /\ box[j].items = <<>>
        /\ \E i \in j + 1 .. Len(box) : \E k \in 1 .. Len(box[i].items) :
               box[i].items[k] = box[j].tag.item

Boxed(q, box, ts, G) == AheadOfQueue(q, ts, G) /\ AheadInBox(box, ts, G) /\ Behind(box)

\* cox is box without its first message
Taken(box, cox) ==
    /\ Len(cox) \in Nat /\ Len(box) = Len(cox) + 1
    /\ \A k \in 1 .. Len(cox) : cox[k] = box[k + 1]

LEMMA BehindTaken == ASSUME NEW box, NEW cox, Taken(box, cox), Behind(box) PROVE Behind(cox)
<1>1. SUFFICES ASSUME NEW j \in 1 .. Len(cox), cox[j].type = "tag"
               PROVE  /\ cox[j].items = <<>>
                      /\ \E i \in j + 1 .. Len(cox) : \E k \in 1 .. Len(cox[i].items) :
                             cox[i].items[k] = cox[j].tag.item
  BY DEF Behind
<1>2. j + 1 \in 1 .. Len(box) /\ cox[j] = box[j + 1]
  BY DEF Taken
<1>3. /\ box[j + 1].items = <<>>
      /\ \E i \in j + 1 + 1 .. Len(box) : \E k \in 1 .. Len(box[i].items) :
             box[i].items[k] = box[j + 1].tag.item
  BY <1>1, <1>2 DEF Behind
<1>4. PICK i \in j + 1 + 1 .. Len(box) : \E k \in 1 .. Len(box[i].items) :
             box[i].items[k] = box[j + 1].tag.item
  BY <1>3
<1>5. i - 1 \in j + 1 .. Len(cox) /\ i - 1 \in 1 .. Len(cox) /\ (i - 1) + 1 = i
  BY <1>2 DEF Taken
<1>6. cox[i - 1] = box[i]
  BY <1>5 DEF Taken
<1>7. QED
  BY <1>2, <1>3, <1>4, <1>5, <1>6

\* A tag that is taken out of the mailbox joins the others.
LEMMA TakeTag ==
    ASSUME NEW q, NEW box, NEW cox, NEW ts, NEW us, NEW G,
           Boxed(q, box, ts, G), Taken(box, cox), box[1].type = "tag",
           Len(ts) \in Nat, Len(us) = Len(ts) + 1, us[Len(ts) + 1] = box[1].tag,
           \A k \in 1 .. Len(ts) : us[k] = ts[k]
    PROVE  Boxed(q, cox, us, G) /\ TagsOf(us, cox) \subseteq TagsOf(ts, box)
<1>1. ASSUME NEW x, HasTag(ts, x) PROVE HasTag(us, x)
  <2>1. PICK j \in 1 .. Len(ts) : ts[j].item = x
    BY <1>1 DEF HasTag
  <2>2. j \in 1 .. Len(us) /\ us[j] = ts[j]
    OBVIOUS
  <2>3. QED
    BY <2>1, <2>2 DEF HasTag
<1>2. AheadOfQueue(q, us, G)
  BY <1>1 DEF Boxed, AheadOfQueue
<1>3. AheadInBox(cox, us, G)
  <2>1. SUFFICES ASSUME NEW j \in 1 .. Len(cox), cox[j].type = "buffer",
                        NEW k \in 1 .. Len(cox[j].items), cox[j].items[k] \in G,
                        ~ HasTag(us, cox[j].items[k])
                 PROVE  \E i \in 1 .. j - 1 :
                            cox[i].type = "tag" /\ cox[i].tag.item = cox[j].items[k]
    BY DEF AheadInBox
  <2>2. j + 1 \in 1 .. Len(box) /\ cox[j] = box[j + 1] /\ (j + 1) - 1 = j
    BY DEF Taken
  <2>3. PICK x : x = cox[j].items[k]
    OBVIOUS
  <2>4. AheadInBox(box, ts, G)
    BY DEF Boxed
  <2>5. \E i \in 1 .. (j + 1) - 1 : box[i].type = "tag" /\ box[i].tag.item = x
    BY <1>1, <2>1, <2>2, <2>3, <2>4 DEF AheadInBox
  <2>6. PICK i \in 1 .. j : box[i].type = "tag" /\ box[i].tag.item = x
    BY <2>2, <2>5
  <2>7. i # 1
    <3>1. SUFFICES ASSUME i = 1 PROVE FALSE
      OBVIOUS
    <3>2. Len(ts) + 1 \in 1 .. Len(us) /\ us[Len(ts) + 1].item = x
      BY <2>6, <3>1
    <3>3. QED
      BY <2>1, <2>3, <3>2 DEF HasTag
  <2>8. i - 1 \in 1 .. j - 1 /\ i - 1 \in 1 .. Len(cox) /\ (i - 1) + 1 = i
    BY <2>7 DEF Taken
  <2>9. cox[i - 1] = box[i]
    BY <2>8 DEF Taken
  <2>10. QED
    BY <2>3, <2>6, <2>8, <2>9
<1>4. Behind(cox)
  BY BehindTaken DEF Boxed
<1>5. ASSUME NEW t \in TagsOf(us, cox) PROVE t \in TagsOf(ts, box)
  <2>1. CASE \E k \in 1 .. Len(us) : t = us[k]
    <3>1. PICK k \in 1 .. Len(us) : t = us[k]
      BY <2>1
    <3>2. CASE k \in 1 .. Len(ts)
      BY <3>1, <3>2 DEF TagsOf
    <3>3. CASE k = Len(ts) + 1
      <4>1. 1 \in 1 .. Len(box)
        BY DEF Taken
      <4>2. QED
        BY <3>1, <3>3, <4>1 DEF TagsOf
    <3>4. QED
      BY <3>2, <3>3
  <2>2. CASE \E k \in 1 .. Len(cox) : cox[k].type = "tag" /\ t = cox[k].tag
    <3>1. PICK k \in 1 .. Len(cox) : cox[k].type = "tag" /\ t = cox[k].tag
      BY <2>2
    <3>2. k + 1 \in 1 .. Len(box) /\ cox[k] = box[k + 1]
      BY DEF Taken
    <3>3. QED
      BY <3>1, <3>2 DEF TagsOf
  <2>3. QED
    BY <1>5, <2>1, <2>2 DEF TagsOf
<1>6. QED
  BY <1>2, <1>3, <1>4, <1>5 DEF Boxed

\* A buffer that is taken out of the mailbox joins the others.
LEMMA TakeBuffer ==
    ASSUME NEW q \in Seq(Nat), NEW box, NEW cox, NEW ts, NEW G, NEW items \in Seq(Nat),
           Boxed(q, box, ts, G), Taken(box, cox), box[1].type = "buffer", items = box[1].items
    PROVE  Boxed(q \o items, cox, ts, G) /\ TagsOf(ts, cox) \subseteq TagsOf(ts, box)
<1>1. \A k \in 1 .. Len(items) : items[k] \in G => HasTag(ts, items[k])
  <2>1. SUFFICES ASSUME NEW k \in 1 .. Len(items), items[k] \in G PROVE HasTag(ts, items[k])
    OBVIOUS
  <2>2. 1 \in 1 .. Len(box) /\ 1 .. 1 - 1 = {}
    BY DEF Taken
  <2>3. AheadInBox(box, ts, G)
    BY DEF Boxed
  <2>4. QED
    BY <2>1, <2>2, <2>3 DEF AheadInBox
<1>2. AheadOfQueue(q \o items, ts, G)
  <2>1. SUFFICES ASSUME NEW k \in 1 .. Len(q \o items), (q \o items)[k] \in G
                 PROVE  HasTag(ts, (q \o items)[k])
    BY DEF AheadOfQueue
  <2>2. CASE k \in 1 .. Len(q)
    <3>1. (q \o items)[k] = q[k]
      BY <2>2
    <3>2. QED
      BY <2>1, <2>2, <3>1 DEF Boxed, AheadOfQueue
  <2>3. CASE k \notin 1 .. Len(q)
    <3>1. k - Len(q) \in 1 .. Len(items) /\ (q \o items)[k] = items[k - Len(q)]
      BY <2>3
    <3>2. QED
      BY <1>1, <2>1, <3>1
  <2>4. QED
    BY <2>2, <2>3
<1>3. AheadInBox(cox, ts, G)
  <2>1. SUFFICES ASSUME NEW j \in 1 .. Len(cox), cox[j].type = "buffer",
                        NEW k \in 1 .. Len(cox[j].items), cox[j].items[k] \in G,
                        ~ HasTag(ts, cox[j].items[k])
                 PROVE  \E i \in 1 .. j - 1 :
                            cox[i].type = "tag" /\ cox[i].tag.item = cox[j].items[k]
    BY DEF AheadInBox
  <2>2. j + 1 \in 1 .. Len(box) /\ cox[j] = box[j + 1] /\ (j + 1) - 1 = j
    BY DEF Taken
  <2>3. PICK x : x = cox[j].items[k]
    OBVIOUS
  <2>4. AheadInBox(box, ts, G)
    BY DEF Boxed
  <2>5. \E i \in 1 .. (j + 1) - 1 : box[i].type = "tag" /\ box[i].tag.item = x
    BY <2>1, <2>2, <2>3, <2>4 DEF AheadInBox
  <2>6. PICK i \in 1 .. j : box[i].type = "tag" /\ box[i].tag.item = x
    BY <2>2, <2>5
  <2>7. i # 1
    BY <2>6
  <2>8. i - 1 \in 1 .. j - 1 /\ i - 1 \in 1 .. Len(cox) /\ (i - 1) + 1 = i
    BY <2>7 DEF Taken
  <2>9. cox[i - 1] = box[i]
    BY <2>8 DEF Taken
  <2>10. QED
    BY <2>3, <2>6, <2>8, <2>9
<1>4. Behind(cox)
  BY BehindTaken DEF Boxed
<1>5. ASSUME NEW t \in TagsOf(ts, cox) PROVE t \in TagsOf(ts, box)
  <2>1. CASE \E k \in 1 .. Len(ts) : t = ts[k]
    BY <2>1 DEF TagsOf
  <2>2. CASE \E k \in 1 .. Len(cox) : cox[k].type = "tag" /\ t = cox[k].tag
    <3>1. PICK k \in 1 .. Len(cox) : cox[k].type = "tag" /\ t = cox[k].tag
      BY <2>2
    <3>2. k + 1 \in 1 .. Len(box) /\ cox[k] = box[k + 1]
      BY DEF Taken
    <3>3. QED
      BY <3>1, <3>2 DEF TagsOf
  <2>3. QED
    BY <1>5, <2>1, <2>2 DEF TagsOf
<1>6. QED
  BY <1>2, <1>3, <1>4, <1>5 DEF Boxed

\* dox is box with the tags us and a buffer behind them
Posted(box, dox, us, items) ==
    /\ Len(box) \in Nat /\ Len(us) \in Nat /\ Len(dox) = Len(box) + Len(us) + 1
    /\ \A k \in 1 .. Len(box) : dox[k] = box[k]
    /\ \A k \in 1 .. Len(us) : dox[Len(box) + k] = InputTag(us[k])
    /\ dox[Len(box) + Len(us) + 1] = InputBuffer(items)

LEMMA PostBox ==
    ASSUME NEW q, NEW box, NEW dox, NEW ts, NEW us, NEW G, NEW items,
           Boxed(q, box, ts, G), Posted(box, dox, us, items),
           \A k \in 1 .. Len(items) : items[k] \in G => HasTag(us, items[k]),
           \A j \in 1 .. Len(us) : \E k \in 1 .. Len(items) : items[k] = us[j].item
    PROVE  /\ Boxed(q, dox, ts, G)
           /\ \A t \in TagsOf(ts, dox) :
                  t \in TagsOf(ts, box) \/ \E j \in 1 .. Len(us) : t = us[j]
<1> DEFINE n == Len(box)
           m == Len(us)
<1>1. /\ n \in Nat /\ m \in Nat /\ Len(dox) = n + m + 1
      /\ \A k \in 1 .. n : dox[k] = box[k]
      /\ \A k \in 1 .. m : dox[n + k] = InputTag(us[k])
      /\ dox[n + m + 1] = InputBuffer(items)
  BY DEF Posted
<1>2. /\ \A k \in 1 .. m : /\ dox[n + k].type = "tag" /\ dox[n + k].tag = us[k]
                           /\ dox[n + k].items = <<>>
      /\ dox[n + m + 1].type = "buffer" /\ dox[n + m + 1].items = items
  <2> HIDE DEF n, m
  <2>1. ASSUME NEW k \in 1 .. m
        PROVE  /\ dox[n + k].type = "tag" /\ dox[n + k].tag = us[k]
               /\ dox[n + k].items = <<>>
    <3>1. dox[n + k] = InputTag(us[k])
      BY <1>1
    <3>2. QED
      BY <3>1 DEF InputTag
  <2>2. QED
    BY <1>1, <2>1 DEF InputBuffer
<1> HIDE DEF n, m
<1>3. \A k \in 1 .. Len(dox) :
          \/ k \in 1 .. n
          \/ k - n \in 1 .. m /\ n + (k - n) = k
          \/ k = n + m + 1
  BY <1>1
<1>4. AheadInBox(dox, ts, G)
  <2>1. SUFFICES ASSUME NEW j \in 1 .. Len(dox), dox[j].type = "buffer",
                        NEW k \in 1 .. Len(dox[j].items), dox[j].items[k] \in G,
                        ~ HasTag(ts, dox[j].items[k])
                 PROVE  \E i \in 1 .. j - 1 :
                            dox[i].type = "tag" /\ dox[i].tag.item = dox[j].items[k]
    BY DEF AheadInBox
  <2>2. CASE j \in 1 .. n
    <3>1. dox[j] = box[j]
      BY <1>1, <2>2
    <3>2. AheadInBox(box, ts, G) /\ j \in 1 .. Len(box)
      BY <2>2 DEF Boxed, n
    <3>3. \E i \in 1 .. j - 1 : box[i].type = "tag" /\ box[i].tag.item = dox[j].items[k]
      BY <2>1, <3>1, <3>2 DEF AheadInBox
    <3>4. \A i \in 1 .. j - 1 : dox[i] = box[i]
      BY <1>1, <2>2
    <3>5. QED
      BY <3>3, <3>4
  <2>3. CASE j - n \in 1 .. m /\ n + (j - n) = j
    <3>1. dox[n + (j - n)].type = "tag"
      BY <1>2, <2>3
    <3>2. QED
      BY <2>1, <2>3, <3>1
  <2>4. CASE j = n + m + 1
    <3>1. k \in 1 .. Len(items) /\ dox[j].items[k] = items[k]
      BY <1>2, <2>4
    <3>2. PICK i \in 1 .. Len(us) : us[i].item = items[k]
      BY <2>1, <3>1 DEF HasTag
    <3>3. i \in 1 .. m
      BY DEF m
    <3>4. n + i \in 1 .. j - 1 /\ dox[n + i].type = "tag" /\ dox[n + i].tag.item = items[k]
      BY <1>1, <1>2, <2>4, <3>2, <3>3
    <3>5. QED
      BY <3>1, <3>4
  <2>5. QED
    BY <1>3, <2>2, <2>3, <2>4
<1>5. Behind(dox)
  <2>1. SUFFICES ASSUME NEW j \in 1 .. Len(dox), dox[j].type = "tag"
                 PROVE  /\ dox[j].items = <<>>
                        /\ \E i \in j + 1 .. Len(dox) : \E k \in 1 .. Len(dox[i].items) :
                               dox[i].items[k] = dox[j].tag.item
    BY DEF Behind
  <2>2. CASE j \in 1 .. n
    <3>1. dox[j] = box[j] /\ j \in 1 .. Len(box)
      BY <1>1, <2>2 DEF n
    <3>2. /\ box[j].items = <<>>
          /\ \E i \in j + 1 .. n : \E k \in 1 .. Len(box[i].items) :
                 box[i].items[k] = box[j].tag.item
      BY <2>1, <3>1 DEF Boxed, Behind, n
    <3>3. \A i \in j + 1 .. n : dox[i] = box[i] /\ i \in j + 1 .. Len(dox)
      BY <1>1, <2>2
    <3>4. QED
      BY <3>1, <3>2, <3>3
  <2>3. CASE j - n \in 1 .. m /\ n + (j - n) = j
    <3>1. dox[j].items = <<>> /\ dox[j].tag = us[j - n]
      BY <1>2, <2>3
    <3>2. j - n \in 1 .. Len(us)
      BY <2>3 DEF m
    <3>3. \E k \in 1 .. Len(items) : items[k] = us[j - n].item
      BY <3>2
    <3>4. n + m + 1 \in j + 1 .. Len(dox)
      BY <1>1, <2>3
    <3>5. QED
      BY <1>2, <3>1, <3>3, <3>4
  <2>4. CASE j = n + m + 1
    BY <1>2, <2>1, <2>4
  <2>5. QED
    BY <1>3, <2>2, <2>3, <2>4
<1>6. ASSUME NEW t \in TagsOf(ts, dox)
      PROVE  t \in TagsOf(ts, box) \/ \E j \in 1 .. Len(us) : t = us[j]
  <2>1. CASE \E k \in 1 .. Len(ts) : t = ts[k]
    BY <2>1 DEF TagsOf
  <2>2. CASE \E k \in 1 .. Len(dox) : dox[k].type = "tag" /\ t = dox[k].tag
    <3>1. PICK k \in 1 .. Len(dox) : dox[k].type = "tag" /\ t = dox[k].tag
      BY <2>2
    <3>2. CASE k \in 1 .. n
      <4>1. k \in 1 .. Len(box) /\ dox[k] = box[k]
        BY <1>1, <3>2 DEF n
      <4>2. QED
        BY <3>1, <4>1 DEF TagsOf
    <3>3. CASE k - n \in 1 .. m /\ n + (k - n) = k
      <4>1. dox[k].tag = us[k - n] /\ k - n \in 1 .. Len(us)
        BY <1>2, <3>3 DEF m
      <4>2. QED
        BY <3>1, <4>1
    <3>4. CASE k = n + m + 1
      BY <1>2, <3>1, <3>4
    <3>5. QED
      BY <1>3, <3>2, <3>3, <3>4
  <2>3. QED
    BY <1>6, <2>1, <2>2 DEF TagsOf
<1>7. AheadOfQueue(q, ts, G)
  BY DEF Boxed
<1>8. QED
  BY <1>4, <1>5, <1>6, <1>7 DEF Boxed

\* New tags for items that are in no mailbox and no queue change nothing.
LEMMA MoreTagged ==
    ASSUME NEW q, NEW box, NEW ts, NEW G, NEW H, NEW m \in Nat, Boxed(q, box, ts, G),
           \A x \in H : x \in G \/ x > m,
           \A k \in 1 .. Len(q) : q[k] \in Nat /\ q[k] <= m,
           \A j \in 1 .. Len(box) : \A k \in 1 .. Len(box[j].items) :
               box[j].items[k] \in Nat /\ box[j].items[k] <= m
    PROVE  Boxed(q, box, ts, H)
<1>1. AheadOfQueue(q, ts, H)
  <2>1. SUFFICES ASSUME NEW k \in 1 .. Len(q), q[k] \in H PROVE HasTag(ts, q[k])
    BY DEF AheadOfQueue
  <2>2. q[k] \in G
    BY <2>1
  <2>3. QED
    BY <2>2 DEF Boxed, AheadOfQueue
<1>2. AheadInBox(box, ts, H)
  <2>1. SUFFICES ASSUME NEW j \in 1 .. Len(box), box[j].type = "buffer",
                        NEW k \in 1 .. Len(box[j].items), box[j].items[k] \in H
                 PROVE  \/ HasTag(ts, box[j].items[k])
                        \/ \E i \in 1 .. j - 1 :
                               box[i].type = "tag" /\ box[i].tag.item = box[j].items[k]
    BY DEF AheadInBox
  <2>2. box[j].items[k] \in G
    BY <2>1
  <2>3. AheadInBox(box, ts, G)
    BY DEF Boxed
  <2>4. QED
    BY <2>1, <2>2, <2>3 DEF AheadInBox
<1>3. QED
  BY <1>1, <1>2 DEF Boxed

\* What is consumed takes its tags with it, and those of no other item.
LEMMA ConsumeBox ==
    ASSUME NEW q, NEW r, NEW box, NEW ts, NEW us, NEW G, Boxed(q, box, ts, G),
           NEW n \in Nat, Len(r) \in Nat, Len(q) = n + Len(r),
           \A k \in 1 .. Len(r) : r[k] = q[n + k],
           \A k \in n + 1 .. Len(q) : HasTag(ts, q[k]) /\ q[k] \in G => HasTag(us, q[k]),
           \A j \in 1 .. Len(box) : \A k \in 1 .. Len(box[j].items) :
               HasTag(ts, box[j].items[k]) /\ box[j].items[k] \in G
                   => HasTag(us, box[j].items[k])
    PROVE  Boxed(r, box, us, G)
<1>1. AheadOfQueue(r, us, G)
  <2>1. SUFFICES ASSUME NEW k \in 1 .. Len(r), r[k] \in G PROVE HasTag(us, r[k])
    BY DEF AheadOfQueue
  <2>2. n + k \in n + 1 .. Len(q) /\ n + k \in 1 .. Len(q) /\ r[k] = q[n + k]
    OBVIOUS
  <2>3. HasTag(ts, q[n + k])
    BY <2>1, <2>2 DEF Boxed, AheadOfQueue
  <2>4. QED
    BY <2>1, <2>2, <2>3
<1>2. AheadInBox(box, us, G)
  <2>1. SUFFICES ASSUME NEW j \in 1 .. Len(box), box[j].type = "buffer",
                        NEW k \in 1 .. Len(box[j].items), box[j].items[k] \in G
                 PROVE  \/ HasTag(us, box[j].items[k])
                        \/ \E i \in 1 .. j - 1 :
                               box[i].type = "tag" /\ box[i].tag.item = box[j].items[k]
    BY DEF AheadInBox
  <2>2. AheadInBox(box, ts, G)
    BY DEF Boxed
  <2>3. \/ HasTag(ts, box[j].items[k])
        \/ \E i \in 1 .. j - 1 : box[i].type = "tag" /\ box[i].tag.item = box[j].items[k]
    BY <2>1, <2>2 DEF AheadInBox
  <2>4. QED
    BY <2>1, <2>3
<1>3. QED
  BY <1>1, <1>2 DEF Boxed

-----------------------------------------------------------------------------
(* What a task posts.                                                      *)

LEMMA StreamPosted ==
    ASSUME NEW S, NEW q \in Seq(S), NEW box, Boxes(S, box), NEW dox, NEW us,
           NEW items \in Seq(S), Posted(box, dox, us, items)
    PROVE  Boxes(S, dox) /\ Stream(q, dox) = Stream(q, box) \o items
<1>1. PICK n \in Nat : n = Len(box)
  BY DEF Boxes
<1>2. PICK m \in Nat : m = Len(us)
  BY DEF Posted
<1>3. /\ Len(dox) = n + m + 1
      /\ \A k \in 1 .. n : dox[k].items = box[k].items
      /\ \A k \in 1 .. m : dox[n + k].items = <<>>
      /\ dox[n + m + 1].items = items
  <2>1. \A k \in 1 .. m : dox[n + k].items = <<>>
    <3>1. SUFFICES ASSUME NEW k \in 1 .. m PROVE dox[n + k].items = <<>>
      OBVIOUS
    <3>2. dox[n + k] = InputTag(us[k])
      BY <1>1, <1>2 DEF Posted
    <3>3. QED
      BY <3>2 DEF InputTag
  <2>2. dox[n + m + 1] = InputBuffer(items)
    BY <1>1, <1>2 DEF Posted
  <2>3. dox[n + m + 1].items = items
    BY <2>2 DEF InputBuffer
  <2>4. QED
    BY <1>1, <1>2, <2>1, <2>3 DEF Posted
<1>4. \A k \in n + 1 .. n + m : dox[k].items = <<>>
  <2>1. SUFFICES ASSUME NEW k \in n + 1 .. n + m PROVE dox[k].items = <<>>
    OBVIOUS
  <2>2. k - n \in 1 .. m /\ n + (k - n) = k
    BY <1>1, <1>2
  <2>3. QED
    BY <1>3, <2>2
<1>5. <<>> \in Seq(S)
  BY EmptySeq
<1>6. \A k \in 1 .. n : box[k].items \in Seq(S)
  BY <1>1 DEF Boxes
<1>7. \A k \in 1 .. Len(dox) : dox[k].items \in Seq(S)
  <2>1. SUFFICES ASSUME NEW k \in 1 .. Len(dox) PROVE dox[k].items \in Seq(S)
    OBVIOUS
  <2>2. k \in 1 .. n \/ k \in n + 1 .. n + m \/ k = n + m + 1
    <3>1. PICK l : l = Len(dox)
      OBVIOUS
    <3>2. l = n + m + 1 /\ k \in 1 .. l
      BY <1>3, <3>1
    <3>3. QED
      BY ONLY <1>1, <1>2, <3>2, n \in Nat, m \in Nat
  <2>3. QED
    BY <1>3, <1>4, <1>5, <1>6, <2>2
<1>8. Boxes(S, dox)
  BY <1>1, <1>2, <1>3, <1>7 DEF Boxes
<1>9. PICK mid : mid = [k \in 1 .. n + m |-> dox[k]]
  OBVIOUS
<1>10. Len(mid) = n + m /\ \A k \in 1 .. n + m : mid[k].items = dox[k].items
  BY <1>9
<1>11. Boxes(S, mid)
  BY <1>1, <1>2, <1>3, <1>7, <1>10 DEF Boxes
<1>12. Stream(q, mid) = Stream(q, box)
  <2>1. /\ Len(mid) >= Len(box)
        /\ \A k \in 1 .. Len(box) : mid[k].items = box[k].items
        /\ \A k \in Len(box) + 1 .. Len(mid) : mid[k].items = <<>>
    <3>1. \A k \in 1 .. n : k \in 1 .. n + m
      BY <1>1, <1>2
    <3>2. \A k \in n + 1 .. n + m : k \in 1 .. n + m
      BY <1>1, <1>2
    <3>3. n + m >= n
      BY <1>1, <1>2
    <3>4. \A k \in 1 .. n : mid[k].items = box[k].items
      BY <1>3, <1>10, <3>1
    <3>5. \A k \in n + 1 .. n + m : mid[k].items = <<>>
      BY <1>4, <1>10, <3>2
    <3>6. Len(mid) = n + m
      BY <1>10
    <3>7. QED
      BY ONLY <1>1, <3>3, <3>4, <3>5, <3>6
  <2>2. Boxes(S, box) /\ q \in Seq(S)
    OBVIOUS
  <2>3. QED
    BY ONLY <1>11, <2>1, <2>2, StreamPostTags
<1>13. Stream(q, dox) = Stream(q, mid) \o dox[Len(dox)].items
  <2>1. OneMore(mid, dox)
    BY <1>3, <1>10 DEF OneMore
  <2>2. QED
    BY <1>8, <1>11, <2>1, StreamPost
<1>14. QED
  BY <1>3, <1>8, <1>12, <1>13

LEMMA PostedIs ==
    ASSUME NEW m \in Nat, NEW box \in Seq(Message(m)), NEW us \in Seq(TagRec),
           NEW items \in Seq(0 .. m), items # <<>>
    PROVE  /\ Posted(box, box \o Posts(us, items), us, items)
           /\ box \o Posts(us, items) \in Seq(Message(m))
<1>1. PICK n \in Nat : n = Len(us)
  OBVIOUS
<1>2. \A k \in 1 .. n : InputTag(us[k]) \in Message(m)
  <2>1. SUFFICES ASSUME NEW k \in 1 .. n PROVE InputTag(us[k]) \in Message(m)
    OBVIOUS
  <2>2. us[k] \in TagRec
    BY <1>1, ElementOfSeq
  <2>3. <<>> \in Seq(0 .. m)
    BY EmptySeq
  <2>4. QED
    BY <2>2, <2>3 DEF InputTag, Message
<1>3. InputBuffer(items) \in Message(m)
  <2>1. Tag(0, Filler) \in TagRec
    BY DEF Tag, TagRec, Filler
  <2>2. QED
    BY <2>1 DEF InputBuffer, Message
<1>4. PICK M : M = Message(m)
  OBVIOUS
<1>5. PICK s : s = TagMsgs(us)
  OBVIOUS
<1>6. s \in Seq(M) /\ Len(s) = n /\ \A k \in 1 .. n : s[k] = InputTag(us[k])
  <2>1. DOMAIN us = 1 .. n
    BY <1>1, LenProperties
  <2>2. s = [k \in 1 .. n |-> InputTag(us[k])]
    BY <1>5, <2>1 DEF TagMsgs
  <2>3. s \in [1 .. n -> M]
    BY <1>2, <1>4, <2>2
  <2>4. QED
    BY <2>2, <2>3
<1>7. PICK e : e = InputBuffer(items)
  OBVIOUS
<1>8. Posts(us, items) = s \o <<e>> /\ e \in M
  BY <1>3, <1>4, <1>5, <1>7 DEF Posts, BufferMsg
<1>21. PICK z : z = <<e>>
  OBVIOUS
<1>22. z \in Seq(M) /\ Len(z) = 1 /\ z[1] = e
  BY <1>8, <1>21
<1>23. /\ s \o z \in Seq(M) /\ Len(s \o z) = n + 1
       /\ \A k \in 1 .. n + 1 : (s \o z)[k] = IF k <= n THEN s[k] ELSE z[k - n]
  <2>1. s \in Seq(M) /\ z \in Seq(M)
    BY <1>6, <1>22
  <2>2. /\ s \o z \in Seq(M) /\ Len(s \o z) = Len(s) + Len(z)
        /\ \A k \in 1 .. Len(s) + Len(z) :
               (s \o z)[k] = IF k <= Len(s) THEN s[k] ELSE z[k - Len(s)]
    BY ONLY <2>1, ConcatProperties
  <2>3. Len(s) = n /\ Len(z) = 1
    BY <1>6, <1>22
  <2>4. QED
    BY ONLY <2>2, <2>3
<1>9. /\ s \o <<e>> \in Seq(M) /\ Len(s \o <<e>>) = n + 1
      /\ \A k \in 1 .. n : (s \o <<e>>)[k] = s[k]
  BY <1>1, <1>21, <1>23
<1>10. (s \o <<e>>)[n + 1] = e
  <2>1. n + 1 \in 1 .. n + 1 /\ ~ (n + 1 <= n) /\ (n + 1) - n = 1
    BY <1>1
  <2>2. QED
    BY <1>21, <1>22, <1>23, <2>1
<1>11. PICK r \in Seq(M) : r = s \o <<e>>
  BY <1>9
<1>12. box \in Seq(M) /\ Len(box) \in Nat
  BY <1>4
<1>13. /\ box \o r \in Seq(M) /\ Len(box \o r) = Len(box) + (n + 1)
       /\ \A k \in 1 .. Len(box) + Len(r) :
              (box \o r)[k] = IF k <= Len(box) THEN box[k] ELSE r[k - Len(box)]
  <2>1. box \in Seq(M) /\ r \in Seq(M)
    BY <1>11, <1>12
  <2>2. /\ box \o r \in Seq(M) /\ Len(box \o r) = Len(box) + Len(r)
        /\ \A k \in 1 .. Len(box) + Len(r) :
               (box \o r)[k] = IF k <= Len(box) THEN box[k] ELSE r[k - Len(box)]
    BY ONLY <2>1, ConcatProperties
  <2>3. Len(r) = n + 1
    BY <1>9, <1>11
  <2>4. QED
    BY ONLY <2>2, <2>3
<1>14. Len(r) = n + 1
  BY <1>9, <1>11
<1>15. \A k \in 1 .. Len(box) : (box \o r)[k] = box[k]
  BY <1>12, <1>13, <1>14
<1>16. ASSUME NEW k \in 1 .. n PROVE (box \o r)[Len(box) + k] = InputTag(us[k])
  <2>1. Len(box) + k \in 1 .. Len(box) + Len(r) /\ ~ (Len(box) + k <= Len(box))
        /\ (Len(box) + k) - Len(box) = k
    BY <1>12, <1>14
  <2>2. (box \o r)[Len(box) + k] = r[k]
    BY <1>13, <2>1
  <2>3. QED
    BY <1>6, <1>9, <1>11, <2>2
<1>17. (box \o r)[Len(box) + n + 1] = InputBuffer(items)
  <2>1. /\ Len(box) + n + 1 \in 1 .. Len(box) + Len(r) /\ ~ (Len(box) + n + 1 <= Len(box))
        /\ (Len(box) + n + 1) - Len(box) = n + 1
    BY <1>12, <1>14
  <2>2. (box \o r)[Len(box) + n + 1] = r[n + 1]
    BY <1>13, <2>1
  <2>3. QED
    BY <1>7, <1>10, <1>11, <2>2
<1>18. Len(box \o r) = Len(box) + n + 1
  BY <1>12, <1>13
<1>19. Posted(box, box \o r, us, items)
  BY <1>1, <1>12, <1>15, <1>16, <1>17, <1>18 DEF Posted
<1>20. QED
  BY <1>4, <1>8, <1>11, <1>13, <1>19

-----------------------------------------------------------------------------
(* The invariant.                                                          *)

Types ==
    /\ made \in Nat /\ tagged \subseteq 1 .. made
    /\ mailbox \in [Blocks -> Seq(Message(made))] /\ queue \in [Blocks -> Seq(0 .. made)]
    /\ input_tags \in [Blocks -> Seq(TagRec)] /\ input_tags_changed \in [Blocks -> BOOLEAN]
    /\ live \in [Blocks -> BOOLEAN]
    /\ items_consumed \in [Blocks -> Nat] /\ total_items_consumed = items_consumed
    /\ total_items_produced \in [Blocks -> Nat]
    /\ delayed \subseteq Blocks \ {Source}

\* nothing comes to the source
SourceEmpty == mailbox[Source] = <<>> /\ queue[Source] = <<>>

\* a block that has ended has let the blocks before it end, and missed nothing
EndedInOrder ==
    \A b \in Blocks : ~ live[b] =>
        mailbox[b] = <<>> /\ queue[b] = <<>> /\ \A a \in 1 .. b - 1 : ~ live[a]

SortedTags == \A b \in Blocks : ~ input_tags_changed[b] => InOrder(input_tags[b])

AllBoxed == \A b \in Blocks : Boxed(queue[b], mailbox[b], input_tags[b], tagged)

Streams == [b \in Blocks |-> Coming(b)]
TagSets == [b \in Blocks |-> TagsOf(input_tags[b], mailbox[b])]

AllOnWay == OnWay(Streams, TagSets, items_consumed, total_items_produced)

TagsInv ==
    Types /\ SourceEmpty /\ EndedInOrder /\ SortedTags /\ AllBoxed /\ AllOnWay

LEMMA BlocksAre == Length \in Nat /\ Source \in Blocks /\ Blocks \subseteq Nat /\ Source = 1
  BY TagsAssumption DEF Blocks, Source

\* The streams and the tags of well formed mailboxes and queues.
LEMMA BoxOf ==
    ASSUME NEW m \in Nat, NEW box \in Seq(Message(m)), NEW q \in Seq(0 .. m)
    PROVE  /\ Boxes(0 .. m, box) /\ Stream(q, box) \in Seq(0 .. m)
           /\ Stream(q, box) \in Seq(Nat)
           /\ \A k \in 1 .. Len(Stream(q, box)) : Stream(q, box)[k] <= m
           /\ \A j \in 1 .. Len(box) : box[j] \in Message(m)
<1>1. \A j \in 1 .. Len(box) : box[j] \in Message(m)
  BY ElementOfSeq
<1>2. \A j \in 1 .. Len(box) : box[j].items \in Seq(0 .. m)
  BY <1>1 DEF Message
<1>3. Boxes(0 .. m, box)
  BY <1>2, LenProperties DEF Boxes
<1>4. PICK s : s = Stream(q, box)
  OBVIOUS
<1>5. s \in Seq(0 .. m)
  BY <1>3, <1>4, StreamType
<1>6. s \in Seq(Nat) /\ \A k \in 1 .. Len(s) : s[k] <= m
  <2>1. 0 .. m \subseteq Nat
    OBVIOUS
  <2>2. s \in Seq(Nat)
    BY <1>5, <2>1, SeqMonotonic
  <2>3. \A k \in 1 .. Len(s) : s[k] \in 0 .. m
    BY <1>5, ElementOfSeq
  <2>4. QED
    BY <2>2, <2>3
<1>7. QED
  BY <1>1, <1>3, <1>4, <1>5, <1>6

LEMMA TagsOfType ==
    ASSUME NEW m \in Nat, NEW box \in Seq(Message(m)), NEW ts \in Seq(TagRec)
    PROVE  TagsOf(ts, box) \subseteq TagRec
<1>1. \A j \in 1 .. Len(box) : box[j] \in Message(m)
  BY ElementOfSeq
<1>2. \A j \in 1 .. Len(box) : box[j].tag \in TagRec
  BY <1>1 DEF Message
<1>3. \A j \in 1 .. Len(ts) : ts[j] \in TagRec
  BY ElementOfSeq
<1>4. QED
  BY <1>2, <1>3 DEF TagsOf

LEMMA FlowOfTypes ==
    ASSUME Types
    PROVE  /\ Flow(Streams, TagSets, items_consumed, total_items_produced)
           /\ Known(Streams, made)
<1>1. \A b \in Blocks : /\ made \in Nat /\ mailbox[b] \in Seq(Message(made))
                        /\ queue[b] \in Seq(0 .. made) /\ input_tags[b] \in Seq(TagRec)
  BY DEF Types
<1>2. \A b \in Blocks : /\ Coming(b) \in Seq(Nat)
                        /\ \A k \in 1 .. Len(Coming(b)) : Coming(b)[k] <= made
  BY <1>1, BoxOf DEF Coming
<1>3. \A b \in Blocks : TagsOf(input_tags[b], mailbox[b]) \in SUBSET TagRec
  BY <1>1, TagsOfType
<1>4. Streams \in [Blocks -> Seq(Nat)] /\ Known(Streams, made)
  BY <1>2 DEF Streams, Known
<1>5. TagSets \in [Blocks -> SUBSET TagRec]
  BY <1>3 DEF TagSets
<1>6. QED
  BY <1>4, <1>5 DEF Flow, Types

LEMMA FlowOfTypesPrime ==
    ASSUME Types'
    PROVE  /\ Flow(Streams', TagSets', items_consumed', total_items_produced')
           /\ Known(Streams', made')
<1>1. \A b \in Blocks : /\ made' \in Nat /\ mailbox'[b] \in Seq(Message(made'))
                        /\ queue'[b] \in Seq(0 .. made') /\ input_tags'[b] \in Seq(TagRec)
  BY DEF Types
<1>2. \A b \in Blocks : /\ Coming(b)' \in Seq(Nat)
                        /\ \A k \in 1 .. Len(Coming(b)') : Coming(b)'[k] <= made'
  BY <1>1, BoxOf DEF Coming
<1>3. \A b \in Blocks : TagsOf(input_tags'[b], mailbox'[b]) \in SUBSET TagRec
  BY <1>1, TagsOfType
<1>4. Streams' \in [Blocks -> Seq(Nat)] /\ Known(Streams', made')
  BY <1>2 DEF Streams, Known
<1>5. TagSets' \in [Blocks -> SUBSET TagRec]
  BY <1>3 DEF TagSets
<1>6. QED
  BY <1>4, <1>5 DEF Flow, Types

\* What does not touch a block leaves its stream and its tags alone.
LEMMA SameBlock ==
    ASSUME NEW b \in Blocks, mailbox'[b] = mailbox[b]
    PROVE  /\ queue'[b] = queue[b] => Streams'[b] = Streams[b]
           /\ input_tags'[b] = input_tags[b] => TagSets'[b] = TagSets[b]
  BY DEF Streams, TagSets, Coming

\* the stream of b begins with these first items of its queue
Begins(b, n, first, rest) ==
    /\ first \in Seq(0 .. made) /\ rest \in Seq(0 .. made)
    /\ Len(first) = n /\ Len(rest) = Len(queue[b]) - n
    /\ \A k \in 1 .. n : first[k] = queue[b][k] /\ Streams[b][k] = queue[b][k]
    /\ \A k \in 1 .. Len(rest) : rest[k] = queue[b][n + k]
    /\ Len(Streams[b]) = n + Len(Stream(rest, mailbox[b]))
    /\ \A k \in 1 .. Len(Stream(rest, mailbox[b])) :
           Stream(rest, mailbox[b])[k] = Streams[b][n + k]

\* What is queued is the beginning of the stream.
LEMMA StreamBegins ==
    ASSUME Types, NEW b \in Blocks, NEW n \in Nat, n <= Len(queue[b])
    PROVE  Begins(b, n, SubSeq(queue[b], 1, n), SubSeq(queue[b], n + 1, Len(queue[b])))
<1>1. PICK q \in Seq(0 .. made) : q = queue[b]
  BY DEF Types
<1>2. PICK box \in Seq(Message(made)) : box = mailbox[b]
  BY DEF Types
<1>3. PICK S : S = 0 .. made
  OBVIOUS
<1>4. q \in Seq(S) /\ Boxes(S, box) /\ Len(q) \in Nat /\ made \in Nat
  <2>1. made \in Nat
    BY DEF Types
  <2>2. q \in Seq(0 .. made) /\ box \in Seq(Message(made))
    BY <1>1, <1>2
  <2>3. Boxes(0 .. made, box)
    BY ONLY <2>1, <2>2, BoxOf
  <2>4. QED
    BY <1>3, <2>1, <2>2, <2>3, LenProperties
<1>5. PICK first : first = SubSeq(q, 1, n)
  OBVIOUS
<1>6. PICK rest : rest = SubSeq(q, n + 1, Len(q))
  OBVIOUS
<1>7. /\ first \in Seq(S) /\ rest \in Seq(S) /\ Len(first) = n /\ Len(rest) = Len(q) - n
      /\ \A k \in 1 .. n : first[k] = q[k]
      /\ \A k \in 1 .. Len(rest) : rest[k] = q[n + k]
  BY <1>1, <1>4, <1>5, <1>6, SMTT(30)
<1>8. first \o rest = q
  <2>1. /\ first \o rest \in Seq(S) /\ Len(first \o rest) = n + Len(rest)
        /\ \A k \in 1 .. n + Len(rest) :
               (first \o rest)[k] = IF k <= n THEN first[k] ELSE rest[k - n]
    <3>1. first \in Seq(S) /\ rest \in Seq(S)
      BY <1>7
    <3>2. /\ first \o rest \in Seq(S) /\ Len(first \o rest) = Len(first) + Len(rest)
          /\ \A k \in 1 .. Len(first) + Len(rest) :
                 (first \o rest)[k] = IF k <= Len(first) THEN first[k] ELSE rest[k - Len(first)]
      BY ONLY <3>1, ConcatProperties
    <3>3. Len(first) = n
      BY <1>7
    <3>4. QED
      BY ONLY <3>2, <3>3
  <2>2. Len(first \o rest) = Len(q)
    BY <1>1, <1>4, <1>7, <2>1
  <2>3. ASSUME NEW k \in 1 .. Len(first \o rest) PROVE (first \o rest)[k] = q[k]
    <3>1. k \in 1 .. n + Len(rest) /\ Len(rest) \in Nat
      BY <1>7, <2>1
    <3>2. CASE k <= n
      <4>1. k \in 1 .. n
        BY <3>1, <3>2
      <4>2. QED
        BY <1>7, <2>1, <3>1, <3>2, <4>1
    <3>3. CASE ~ (k <= n)
      <4>1. k - n \in 1 .. Len(rest) /\ n + (k - n) = k
        BY <3>1, <3>3
      <4>2. (first \o rest)[k] = rest[k - n]
        BY <2>1, <3>1, <3>3
      <4>3. QED
        BY <1>7, <4>1, <4>2
    <3>4. QED
      BY <3>2, <3>3
  <2>4. QED
    BY <1>4, <2>1, <2>2, <2>3, SeqEqual
<1>9. PICK t : t = Stream(rest, box)
  OBVIOUS
<1>10. t \in Seq(S) /\ Stream(q, box) = first \o t
  <2>1. first \in Seq(S) /\ rest \in Seq(S)
    BY <1>7
  <2>2. Stream(first \o rest, box) = first \o Stream(rest, box) /\ Stream(rest, box) \in Seq(S)
    <3>1. Boxes(S, box)
      BY <1>4
    <3>2. Stream(first \o rest, box) = first \o Stream(rest, box)
      BY ONLY <2>1, <3>1, StreamPrefix
    <3>3. Stream(rest, box) \in Seq(S)
      BY ONLY <2>1, <3>1, StreamType
    <3>4. QED
      BY <3>2, <3>3
  <2>3. QED
    BY <1>8, <1>9, <2>2
<1>11. /\ Len(first \o t) = n + Len(t) /\ Len(t) \in Nat
       /\ \A k \in 1 .. n + Len(t) : (first \o t)[k] = IF k <= n THEN first[k] ELSE t[k - n]
  <2>1. first \in Seq(S) /\ t \in Seq(S)
    BY <1>7, <1>10
  <2>2. /\ Len(first \o t) = Len(first) + Len(t)
        /\ \A k \in 1 .. Len(first) + Len(t) :
               (first \o t)[k] = IF k <= Len(first) THEN first[k] ELSE t[k - Len(first)]
    BY ONLY <2>1, ConcatProperties
  <2>3. Len(first) = n /\ Len(t) \in Nat
    BY <1>7, <2>1, LenProperties
  <2>4. QED
    BY ONLY <2>2, <2>3
<1>12. \A k \in 1 .. n : (first \o t)[k] = q[k]
  BY <1>7, <1>11
<1>13. ASSUME NEW k \in 1 .. Len(t) PROVE t[k] = (first \o t)[n + k]
  <2>1. n + k \in 1 .. n + Len(t) /\ ~ (n + k <= n) /\ (n + k) - n = k
    BY <1>11
  <2>2. QED
    BY <1>11, <2>1
<1>14. Streams[b] = first \o t
  BY <1>1, <1>2, <1>10 DEF Streams, Coming
<1>15. /\ first \in Seq(0 .. made) /\ rest \in Seq(0 .. made)
       /\ Len(first) = n /\ Len(rest) = Len(q) - n
       /\ \A k \in 1 .. n : first[k] = q[k] /\ Streams[b][k] = q[k]
       /\ \A k \in 1 .. Len(rest) : rest[k] = q[n + k]
       /\ Len(Streams[b]) = n + Len(t)
       /\ \A k \in 1 .. Len(t) : t[k] = Streams[b][n + k]
  <2>1. Len(Streams[b]) = n + Len(t)
    BY <1>11, <1>14
  <2>2. \A k \in 1 .. n : Streams[b][k] = q[k]
    BY <1>12, <1>14
  <2>3. \A k \in 1 .. Len(t) : t[k] = Streams[b][n + k]
    BY <1>13, <1>14
  <2>4. QED
    BY <1>3, <1>7, <2>1, <2>2, <2>3
<1>16. QED
  BY ONLY <1>1, <1>2, <1>5, <1>6, <1>9, <1>15 DEF Begins

\* Fewer tags, and what the last block produces, make no difference.
LEMMA FewerTags ==
    ASSUME NEW C, NEW T, NEW used, NEW prod, OnWay(C, T, used, prod),
           NEW U, NEW qrod, Flow(C, U, used, qrod), \A b \in Blocks : U[b] \subseteq T[b],
           \A b \in Blocks : b + 1 \in Blocks => qrod[b] = prod[b]
    PROVE  OnWay(C, U, used, qrod)
<1>1. Once(C)
  BY DEF OnWay
<1>2. Counted(C, used, qrod)
  BY DEF OnWay, Counted
<1>3. Marked(C, U, used)
  BY DEF OnWay, Marked, MarkedAt
<1>4. QED
  BY <1>1, <1>2, <1>3 DEF OnWay

LEMMA InvInit == Init => TagsInv
<1>1. SUFFICES ASSUME Init PROVE TagsInv
  OBVIOUS
<1>2. /\ mailbox = [b \in Blocks |-> <<>>] /\ queue = [b \in Blocks |-> <<>>]
      /\ input_tags = [b \in Blocks |-> <<>>] /\ made = 0 /\ tagged = {}
  BY <1>1 DEF Init
<1>3. \A S : <<>> \in Seq(S)
  BY EmptySeq
<1>4. Types
  BY <1>1, <1>2, <1>3 DEF Types, Init
<1>5. SourceEmpty
  BY <1>2, BlocksAre DEF SourceEmpty
<1>6. EndedInOrder
  BY <1>1 DEF EndedInOrder, Init
<1>7. SortedTags
  BY <1>2 DEF SortedTags, InOrder
<1>8. AllBoxed
  BY <1>2 DEF AllBoxed, Boxed, AheadOfQueue, AheadInBox, Behind
<1>9. AllOnWay
  <2>1. \A b \in Blocks : Streams[b] = <<>> /\ TagSets[b] = {}
    <3>1. SUFFICES ASSUME NEW b \in Blocks PROVE Streams[b] = <<>> /\ TagSets[b] = {}
      OBVIOUS
    <3>2. Stream(<<>>, <<>>) = <<>>
      BY <1>3, StreamEmpty
    <3>3. TagsOf(<<>>, <<>>) = {}
      BY DEF TagsOf
    <3>4. QED
      BY <1>2, <3>2, <3>3 DEF Streams, TagSets, Coming
  <2>2. Flow(Streams, TagSets, items_consumed, total_items_produced)
    BY <1>4, FlowOfTypes
  <2>3. Once(Streams) /\ Marked(Streams, TagSets, items_consumed)
    BY <2>1 DEF Once, Marked, MarkedAt
  <2>4. Counted(Streams, items_consumed, total_items_produced)
    BY <1>1, <2>1 DEF Counted, Init
  <2>5. QED
    BY <2>2, <2>3, <2>4 DEF AllOnWay, OnWay
<1>10. QED
  BY <1>4, <1>5, <1>6, <1>7, <1>8, <1>9 DEF TagsInv

-----------------------------------------------------------------------------
(* Every step keeps it.                                                    *)

\* Streams that are equal block by block.
LEMMA SameStreams ==
    ASSUME NEW C, NEW D, NEW T, NEW U, NEW used, NEW vsed, NEW prod, NEW qrod,
           Flow(C, T, used, prod), Flow(D, U, vsed, qrod), \A b \in Blocks : D[b] = C[b]
    PROVE  D = C
<1>1. C \in [Blocks -> Seq(Nat)] /\ D \in [Blocks -> Seq(Nat)]
  BY DEF Flow
<1>2. QED
  BY <1>1

\* What is taken out of the mailbox of a live block.
LEMMA Takes ==
    ASSUME TagsInv, NEW b \in Blocks, mailbox[b] # <<>>, mailbox' = Popped(b)
    PROVE  /\ Taken(mailbox[b], mailbox'[b]) /\ Got(b) = mailbox[b][1]
           /\ Got(b) \in Message(made) /\ 1 \in 1 .. Len(mailbox[b])
           /\ mailbox' \in [Blocks -> Seq(Message(made))]
           /\ \A c \in Blocks \ {b} : mailbox'[c] = mailbox[c]
           /\ live[b] /\ b # Source
<1>1. mailbox \in [Blocks -> Seq(Message(made))]
  BY DEF TagsInv, Types
<1>2. PICK M : M = Message(made)
  OBVIOUS
<1>3. PICK box \in Seq(M) : box = mailbox[b]
  BY <1>1, <1>2
<1>4. box # <<>> /\ mailbox' = [mailbox EXCEPT ![b] = Tail(box)] /\ Got(b) = Head(box)
  BY <1>3 DEF Popped, Got
<1>5. Tail(box) \in Seq(M) /\ Len(box) = Len(Tail(box)) + 1 /\ Len(Tail(box)) \in Nat
      /\ \A k \in 1 .. Len(Tail(box)) : Tail(box)[k] = box[k + 1]
  BY <1>3, <1>4
<1>6. Head(box) = box[1] /\ 1 \in 1 .. Len(box)
  BY <1>3, <1>4, <1>5
<1>7. mailbox'[b] = Tail(box) /\ \A c \in Blocks \ {b} : mailbox'[c] = mailbox[c]
  BY <1>1, <1>4
<1>8. mailbox' \in [Blocks -> Seq(M)]
  BY <1>1, <1>2, <1>4, <1>5
<1>9. live[b] /\ b # Source
  BY DEF TagsInv, EndedInOrder, SourceEmpty
<1>10. box[1] \in M
  BY <1>3, <1>6, ElementOfSeq
<1>11. Taken(box, mailbox'[b])
  BY <1>5, <1>7 DEF Taken
<1>12. QED
  BY <1>2, <1>3, <1>4, <1>6, <1>7, <1>8, <1>9, <1>10, <1>11

LEMMA HandleTagKeeps ==
    ASSUME TagsInv, NEW b \in Blocks, HandleInputTag(b)
    PROVE  TagsInv'
<1>1. /\ mailbox[b] # <<>> /\ mailbox' = Popped(b) /\ Got(b).type = "tag"
      /\ UNCHANGED <<live, queue, items_consumed, total_items_consumed,
                     total_items_produced, delayed, made, tagged, restarts>>
  BY DEF HandleInputTag
<1>2. /\ Taken(mailbox[b], mailbox'[b]) /\ Got(b) = mailbox[b][1]
      /\ Got(b) \in Message(made) /\ 1 \in 1 .. Len(mailbox[b])
      /\ mailbox' \in [Blocks -> Seq(Message(made))]
      /\ \A c \in Blocks \ {b} : mailbox'[c] = mailbox[c]
      /\ live[b] /\ b # Source
  BY <1>1, Takes
<1>3. /\ input_tags' = [input_tags EXCEPT ![b] = Append(input_tags[b], Got(b).tag)]
      /\ input_tags_changed' = [input_tags_changed EXCEPT ![b] = TRUE]
  BY <1>2 DEF HandleInputTag
<1>4. PICK ts \in Seq(TagRec) : ts = input_tags[b]
  BY DEF TagsInv, Types
<1>5. PICK t \in TagRec : t = Got(b).tag
  BY <1>2 DEF Message
<1>6. /\ input_tags'[b] = Append(ts, t) /\ input_tags' \in [Blocks -> Seq(TagRec)]
      /\ \A c \in Blocks \ {b} : input_tags'[c] = input_tags[c]
  BY <1>3, <1>4, <1>5 DEF TagsInv, Types
<1>7. /\ input_tags_changed'[b] /\ input_tags_changed' \in [Blocks -> BOOLEAN]
      /\ \A c \in Blocks \ {b} : input_tags_changed'[c] = input_tags_changed[c]
  BY <1>3 DEF TagsInv, Types
<1>8. Types'
  BY <1>1, <1>2, <1>6, <1>7 DEF TagsInv, Types
<1>9. SourceEmpty'
  BY <1>1, <1>2, BlocksAre DEF TagsInv, SourceEmpty
<1>10. EndedInOrder'
  BY <1>1, <1>2 DEF TagsInv, EndedInOrder
<1>11. SortedTags'
  BY <1>6, <1>7 DEF TagsInv, SortedTags
<1>12. Boxed(queue[b], mailbox[b], ts, tagged)
  BY <1>4 DEF TagsInv, AllBoxed
<1>13. /\ Boxed(queue[b], mailbox'[b], Append(ts, t), tagged)
       /\ TagsOf(Append(ts, t), mailbox'[b]) \subseteq TagsOf(ts, mailbox[b])
  <2>1. /\ Len(ts) \in Nat /\ Len(Append(ts, t)) = Len(ts) + 1
        /\ Append(ts, t)[Len(ts) + 1] = mailbox[b][1].tag
        /\ \A k \in 1 .. Len(ts) : Append(ts, t)[k] = ts[k]
    BY <1>2, <1>4, <1>5
  <2>2. mailbox[b][1].type = "tag"
    BY <1>1, <1>2
  <2>3. QED
    BY <1>2, <1>12, <2>1, <2>2, TakeTag
<1>14. AllBoxed'
  <2>1. SUFFICES ASSUME NEW c \in Blocks
                 PROVE  Boxed(queue[c], mailbox'[c], input_tags'[c], tagged)
    BY <1>1 DEF AllBoxed
  <2>2. CASE c = b
    BY <1>6, <1>13, <2>2
  <2>3. CASE c # b
    BY <1>2, <1>6, <2>3 DEF TagsInv, AllBoxed
  <2>4. QED
    BY <2>2, <2>3
<1>15. Streams'[b] = Streams[b]
  <2>1. PICK box \in Seq(Message(made)) : box = mailbox[b]
    BY DEF TagsInv, Types
  <2>2. PICK cox \in Seq(Message(made)) : cox = mailbox'[b]
    BY <1>2
  <2>3. PICK q \in Seq(0 .. made) : q = queue[b]
    BY DEF TagsInv, Types
  <2>4. made \in Nat
    BY DEF TagsInv, Types
  <2>5. Boxes(0 .. made, box) /\ Boxes(0 .. made, cox)
    BY ONLY <2>1, <2>2, <2>3, <2>4, BoxOf
  <2>6. Len(box) = Len(cox) + 1 /\ \A k \in 1 .. Len(cox) : cox[k].items = box[k + 1].items
    BY <1>2, <2>1, <2>2 DEF Taken
  <2>7. Stream(q, box) = Stream(q \o box[1].items, cox)
    BY ONLY <2>3, <2>5, <2>6, StreamHead
  <2>8. box[1].items = <<>>
    BY <1>1, <1>2, <1>12, <2>1 DEF Boxed, Behind
  <2>9. q \o <<>> = q
    BY <2>3, ConcatEmptySeq
  <2>10. QED
    BY <1>1, <2>1, <2>2, <2>3, <2>7, <2>8, <2>9 DEF Streams, Coming
<1>16. \A c \in Blocks : Streams'[c] = Streams[c]
  BY <1>1, <1>2, <1>15, SameBlock
<1>17. \A c \in Blocks : TagSets'[c] \subseteq TagSets[c]
  <2>1. TagSets'[b] \subseteq TagSets[b]
    BY <1>4, <1>6, <1>13 DEF TagSets
  <2>2. QED
    BY <1>2, <1>6, <2>1, SameBlock
<1>18. AllOnWay'
  <2>1. /\ Flow(Streams', TagSets', items_consumed', total_items_produced')
        /\ Flow(Streams, TagSets, items_consumed, total_items_produced)
    BY <1>8, FlowOfTypes, FlowOfTypesPrime DEF TagsInv
  <2>2. Streams' = Streams
    BY ONLY <1>16, <2>1, SameStreams
  <2>3. OnWay(Streams, TagSets, items_consumed, total_items_produced)
    BY DEF TagsInv, AllOnWay
  <2>4. Flow(Streams, TagSets', items_consumed, total_items_produced)
    BY <1>1, <2>1, <2>2
  <2>5. OnWay(Streams, TagSets', items_consumed, total_items_produced)
    BY ONLY <1>17, <2>3, <2>4, FewerTags
  <2>6. QED
    BY <1>1, <2>2, <2>5 DEF AllOnWay
<1>19. QED
  BY <1>8, <1>9, <1>10, <1>11, <1>14, <1>18 DEF TagsInv

LEMMA HandleBufferKeeps ==
    ASSUME TagsInv, NEW b \in Blocks, HandleInputBuffer(b)
    PROVE  TagsInv'
<1>1. /\ mailbox[b] # <<>> /\ mailbox' = Popped(b) /\ Got(b).type = "buffer"
      /\ UNCHANGED <<live, input_tags, input_tags_changed, items_consumed,
                     total_items_consumed, total_items_produced, delayed, made, tagged,
                     restarts>>
  BY DEF HandleInputBuffer
<1>2. /\ Taken(mailbox[b], mailbox'[b]) /\ Got(b) = mailbox[b][1]
      /\ Got(b) \in Message(made) /\ 1 \in 1 .. Len(mailbox[b])
      /\ mailbox' \in [Blocks -> Seq(Message(made))]
      /\ \A c \in Blocks \ {b} : mailbox'[c] = mailbox[c]
      /\ live[b] /\ b # Source
  BY <1>1, Takes
<1>3. queue' = [queue EXCEPT ![b] = queue[b] \o Got(b).items]
  BY <1>2 DEF HandleInputBuffer
<1>4. PICK q \in Seq(0 .. made) : q = queue[b]
  BY DEF TagsInv, Types
<1>5. PICK items \in Seq(0 .. made) : items = Got(b).items
  BY <1>2 DEF Message
<1>6. made \in Nat /\ 0 .. made \subseteq Nat
  BY DEF TagsInv, Types
<1>7. q \o items \in Seq(0 .. made)
  BY <1>4, <1>5, ConcatProperties
<1>8. /\ queue'[b] = q \o items /\ queue' \in [Blocks -> Seq(0 .. made)]
      /\ \A c \in Blocks \ {b} : queue'[c] = queue[c]
  BY <1>3, <1>4, <1>5, <1>7 DEF TagsInv, Types
<1>9. Types'
  BY <1>1, <1>2, <1>8 DEF TagsInv, Types
<1>10. SourceEmpty'
  BY <1>2, <1>8, BlocksAre DEF TagsInv, SourceEmpty
<1>11. EndedInOrder'
  BY <1>1, <1>2, <1>8 DEF TagsInv, EndedInOrder
<1>12. SortedTags'
  BY <1>1 DEF TagsInv, SortedTags
<1>13. /\ Boxed(q \o items, mailbox'[b], input_tags[b], tagged)
       /\ TagsOf(input_tags[b], mailbox'[b]) \subseteq TagsOf(input_tags[b], mailbox[b])
  <2>1. Boxed(q, mailbox[b], input_tags[b], tagged)
    BY <1>4 DEF TagsInv, AllBoxed
  <2>2. q \in Seq(Nat) /\ items \in Seq(Nat)
    BY <1>4, <1>5, <1>6, SeqMonotonic
  <2>3. mailbox[b][1].type = "buffer" /\ items = mailbox[b][1].items
    BY <1>1, <1>2, <1>5
  <2>4. QED
    <3>1. Taken(mailbox[b], mailbox'[b])
      BY <1>2
    <3>2. QED
      BY ONLY <2>1, <2>2, <2>3, <3>1, TakeBuffer
<1>14. AllBoxed'
  <2>1. SUFFICES ASSUME NEW c \in Blocks
                 PROVE  Boxed(queue'[c], mailbox'[c], input_tags[c], tagged)
    BY <1>1 DEF AllBoxed
  <2>2. CASE c = b
    BY <1>8, <1>13, <2>2
  <2>3. CASE c # b
    BY <1>2, <1>8, <2>3 DEF TagsInv, AllBoxed
  <2>4. QED
    BY <2>2, <2>3
<1>15. Streams'[b] = Streams[b]
  <2>1. PICK box \in Seq(Message(made)) : box = mailbox[b]
    BY DEF TagsInv, Types
  <2>2. PICK cox \in Seq(Message(made)) : cox = mailbox'[b]
    BY <1>2
  <2>3. q \in Seq(0 .. made)
    BY <1>4
  <2>5. Boxes(0 .. made, box) /\ Boxes(0 .. made, cox)
    BY ONLY <2>1, <2>2, <2>3, <1>6, BoxOf
  <2>6. Len(box) = Len(cox) + 1 /\ \A k \in 1 .. Len(cox) : cox[k].items = box[k + 1].items
    BY <1>2, <2>1, <2>2 DEF Taken
  <2>7. Stream(q, box) = Stream(q \o box[1].items, cox)
    BY ONLY <2>3, <2>5, <2>6, StreamHead, SMTT(30)
  <2>8. box[1].items = items
    BY <1>2, <1>5, <2>1
  <2>10. QED
    BY <1>4, <1>8, <2>1, <2>2, <2>7, <2>8 DEF Streams, Coming
<1>16. \A c \in Blocks : Streams'[c] = Streams[c]
  BY <1>2, <1>8, <1>15, SameBlock
<1>17. \A c \in Blocks : TagSets'[c] \subseteq TagSets[c]
  <2>1. TagSets'[b] \subseteq TagSets[b]
    BY <1>1, <1>13 DEF TagSets
  <2>2. QED
    BY <1>1, <1>2, <2>1, SameBlock
<1>18. AllOnWay'
  <2>1. /\ Flow(Streams', TagSets', items_consumed', total_items_produced')
        /\ Flow(Streams, TagSets, items_consumed, total_items_produced)
    BY <1>9, FlowOfTypes, FlowOfTypesPrime DEF TagsInv
  <2>2. Streams' = Streams
    BY ONLY <1>16, <2>1, SameStreams
  <2>3. OnWay(Streams, TagSets, items_consumed, total_items_produced)
    BY DEF TagsInv, AllOnWay
  <2>4. Flow(Streams, TagSets', items_consumed, total_items_produced)
    BY <1>1, <2>1, <2>2
  <2>5. OnWay(Streams, TagSets', items_consumed, total_items_produced)
    BY ONLY <1>17, <2>3, <2>4, FewerTags
  <2>6. QED
    BY <1>1, <2>2, <2>5 DEF AllOnWay
<1>19. QED
  BY <1>9, <1>10, <1>11, <1>12, <1>14, <1>18 DEF TagsInv

\* A block that ends has nothing on its way.
LEMMA MarkDoneKeeps ==
    ASSUME Drained, TagsInv, NEW b \in Blocks, MarkDone(b)
    PROVE  TagsInv'
<1>1. /\ live' = [live EXCEPT ![b] = FALSE] /\ queue' = [queue EXCEPT ![b] = <<>>]
      /\ input_tags' = [input_tags EXCEPT ![b] = <<>>]
      /\ mailbox[b] = <<>> /\ queue[b] = <<>> /\ \A a \in 1 .. b - 1 : ~ live[a]
      /\ UNCHANGED <<mailbox, input_tags_changed, items_consumed, total_items_consumed,
                     total_items_produced, delayed, made, tagged, restarts>>
  BY DEF MarkDone
<1>2. \A S : <<>> \in Seq(S)
  BY EmptySeq
<1>3. queue' = queue
  BY <1>1 DEF TagsInv, Types
<1>4. /\ live' \in [Blocks -> BOOLEAN] /\ input_tags' \in [Blocks -> Seq(TagRec)]
      /\ ~ live'[b] /\ input_tags'[b] = <<>>
      /\ \A c \in Blocks \ {b} : live'[c] = live[c] /\ input_tags'[c] = input_tags[c]
  BY <1>1, <1>2 DEF TagsInv, Types
<1>5. Types'
  BY <1>1, <1>3, <1>4 DEF TagsInv, Types
<1>6. SourceEmpty'
  BY <1>1, <1>3 DEF TagsInv, SourceEmpty
<1>7. EndedInOrder'
  <2>1. SUFFICES ASSUME NEW c \in Blocks, ~ live'[c]
                 PROVE  /\ mailbox[c] = <<>> /\ queue[c] = <<>>
                        /\ \A a \in 1 .. c - 1 : ~ live'[a]
    BY <1>1, <1>3 DEF EndedInOrder
  <2>2. \A a \in 1 .. c - 1 : a \in Blocks
    BY TagsAssumption DEF Blocks
  <2>3. mailbox[c] = <<>> /\ queue[c] = <<>> /\ \A a \in 1 .. c - 1 : ~ live[a]
    <3>1. CASE c = b
      BY <1>1, <3>1
    <3>2. CASE c # b
      BY <1>4, <2>1, <3>2 DEF TagsInv, EndedInOrder
    <3>3. QED
      BY <3>1, <3>2
  <2>4. QED
    BY <1>4, <2>2, <2>3
<1>8. SortedTags'
  BY <1>1, <1>4 DEF TagsInv, SortedTags, InOrder
<1>9. AllBoxed'
  <2>1. SUFFICES ASSUME NEW c \in Blocks
                 PROVE  Boxed(queue[c], mailbox[c], input_tags'[c], tagged)
    BY <1>1, <1>3 DEF AllBoxed
  <2>2. CASE c = b
    <3>1. Len(<<>>) = 0
      OBVIOUS
    <3>2. QED
      BY <1>1, <1>4, <2>2 DEF Boxed, AheadOfQueue, AheadInBox, Behind
  <2>3. CASE c # b
    BY <1>4, <2>3 DEF TagsInv, AllBoxed
  <2>4. QED
    BY <2>2, <2>3
<1>10. \A c \in Blocks : Streams'[c] = Streams[c]
  BY <1>1, <1>3, SameBlock
<1>11. \A c \in Blocks : TagSets'[c] \subseteq TagSets[c]
  <2>1. TagSets'[b] \subseteq TagSets[b]
    <3>1. TagsOf(<<>>, mailbox[b]) \subseteq TagsOf(input_tags[b], mailbox[b])
      BY DEF TagsOf
    <3>2. QED
      BY <1>1, <1>4, <3>1 DEF TagSets
  <2>2. QED
    BY <1>1, <1>4, <2>1, SameBlock
<1>12. AllOnWay'
  <2>1. /\ Flow(Streams', TagSets', items_consumed', total_items_produced')
        /\ Flow(Streams, TagSets, items_consumed, total_items_produced)
    BY <1>5, FlowOfTypes, FlowOfTypesPrime DEF TagsInv
  <2>2. Streams' = Streams
    BY ONLY <1>10, <2>1, SameStreams
  <2>3. OnWay(Streams, TagSets, items_consumed, total_items_produced)
    BY DEF TagsInv, AllOnWay
  <2>4. Flow(Streams, TagSets', items_consumed, total_items_produced)
    BY <1>1, <2>1, <2>2
  <2>5. OnWay(Streams, TagSets', items_consumed, total_items_produced)
    BY ONLY <1>11, <2>3, <2>4, FewerTags
  <2>6. QED
    BY <1>1, <2>2, <2>5 DEF AllOnWay
<1>13. QED
  BY <1>5, <1>6, <1>7, <1>8, <1>9, <1>12 DEF TagsInv

LEMMA RestartKeeps == ASSUME TagsInv, Restart PROVE TagsInv'
<1>1. /\ live' = [b \in Blocks |-> TRUE]
      /\ UNCHANGED <<mailbox, queue, input_tags, input_tags_changed, items_consumed,
                     total_items_consumed, total_items_produced, delayed, made, tagged>>
  BY DEF Restart
<1>2. Types' /\ SourceEmpty' /\ SortedTags' /\ AllBoxed'
  BY <1>1 DEF TagsInv, Types, SourceEmpty, SortedTags, AllBoxed
<1>3. EndedInOrder'
  BY <1>1 DEF EndedInOrder
<1>4. Streams' = Streams /\ TagSets' = TagSets
  BY <1>1 DEF Streams, TagSets, Coming
<1>5. AllOnWay'
  BY <1>1, <1>4 DEF TagsInv, AllOnWay
<1>6. QED
  BY <1>2, <1>3, <1>5 DEF TagsInv

-----------------------------------------------------------------------------
(* Work: what is consumed, and what is sent on.                            *)

LEMMA MessageGrows ==
    ASSUME NEW m \in Nat, NEW l \in Nat, m <= l, NEW box \in Seq(Message(m))
    PROVE  box \in Seq(Message(l))
<1>1. 0 .. m \subseteq 0 .. l
  OBVIOUS
<1>2. \A s \in Seq(0 .. m) : s \in Seq(0 .. l)
  BY <1>1, SeqMonotonic
<1>3. Message(m) \subseteq Message(l)
  BY <1>2 DEF Message
<1>4. QED
  BY <1>3, SeqMonotonic

\* block b sends items with the tags us
Sending(b, us, items) ==
    /\ b \in Blocks /\ items # <<>> /\ made \in Nat /\ made' \in Nat /\ made <= made'
    /\ mailbox \in [Blocks -> Seq(Message(made))]
    /\ us \in Seq(TagRec) /\ items \in Seq(0 .. made')
    /\ mailbox' = PostDownstream(mailbox, b, Posts(us, items))

\* the tags are for those of the items that have tags, at their positions
TagsFit(b, us, items) ==
    /\ \A j \in 1 .. Len(us) :
           /\ us[j].item # Filler
           /\ \E k \in 1 .. Len(items) :
                  items[k] = us[j].item /\ us[j].offset = total_items_produced[b] + k - 1
    /\ \A k \in 1 .. Len(items) : items[k] \in tagged' => HasTag(us, items[k])

LEMMA SendTypes ==
    ASSUME NEW b, NEW us, NEW items, Sending(b, us, items)
    PROVE  /\ mailbox' \in [Blocks -> Seq(Message(made'))]
           /\ \A c \in Blocks : c # b + 1 => mailbox'[c] = mailbox[c]
           /\ b + 1 \in Blocks => Posted(mailbox[b + 1], mailbox'[b + 1], us, items)
<1>1. \A c \in Blocks : mailbox[c] \in Seq(Message(made'))
  <2>1. ASSUME NEW c \in Blocks PROVE mailbox[c] \in Seq(Message(made'))
    <3>1. made \in Nat /\ made' \in Nat /\ made <= made' /\ mailbox[c] \in Seq(Message(made))
      BY DEF Sending
    <3>2. QED
      BY ONLY <3>1, MessageGrows
  <2>2. QED
    BY <2>1
<1>2. PICK M : M = Seq(Message(made'))
  OBVIOUS
<1>3. mailbox \in [Blocks -> M]
  <2>1. mailbox = [c \in Blocks |-> mailbox[c]]
    BY DEF Sending
  <2>2. QED
    BY <1>1, <1>2, <2>1
<1>4. CASE b = Length
  <2>1. mailbox' = mailbox /\ b + 1 \notin Blocks
    BY <1>4, TagsAssumption DEF Sending, PostDownstream, Blocks
  <2>2. QED
    BY <1>2, <1>3, <2>1
<1>5. CASE b # Length
  <2>1. b + 1 \in Blocks
    BY <1>5, TagsAssumption DEF Sending, Blocks
  <2>2. PICK box \in Seq(Message(made')) : box = mailbox[b + 1]
    BY <1>1, <2>1
  <2>3. made' \in Nat /\ us \in Seq(TagRec) /\ items \in Seq(0 .. made') /\ items # <<>>
    BY DEF Sending
  <2>4. /\ Posted(box, box \o Posts(us, items), us, items)
        /\ box \o Posts(us, items) \in Seq(Message(made'))
    BY <2>2, <2>3, PostedIs
  <2>5. mailbox' = [mailbox EXCEPT ![b + 1] = box \o Posts(us, items)]
    BY <1>5, <2>2 DEF Sending, PostDownstream
  <2>6. mailbox'[b + 1] = box \o Posts(us, items)
        /\ \A c \in Blocks : c # b + 1 => mailbox'[c] = mailbox[c]
    BY <1>3, <2>1, <2>5
  <2>7. mailbox' \in [Blocks -> M]
    BY <1>2, <1>3, <2>4, <2>5
  <2>8. QED
    BY <1>2, <2>2, <2>4, <2>6, <2>7
<1>6. QED
  BY <1>4, <1>5

\* D and U are the streams and the tags before the mailbox gets what is sent.
Sends(b, us, items, D, U) ==
    /\ Sending(b, us, items) /\ TagsFit(b, us, items) /\ Types'
    /\ OnWay(D, U, items_consumed', total_items_produced) /\ Fresh(D, items)
    /\ \A c \in Blocks : /\ D[c] = Stream(queue'[c], mailbox[c])
                         /\ U[c] = TagsOf(input_tags'[c], mailbox[c])
                         /\ Boxed(queue'[c], mailbox[c], input_tags'[c], tagged')
    /\ total_items_produced' =
           [total_items_produced EXCEPT ![b] = total_items_produced[b] + Len(items)]

LEMMA SendKeeps ==
    ASSUME NEW b, NEW us, NEW items, NEW D, NEW U, Sends(b, us, items, D, U)
    PROVE  AllBoxed' /\ AllOnWay'
<1> SUFFICES ASSUME Sending(b, us, items), TagsFit(b, us, items), Types',
                    OnWay(D, U, items_consumed', total_items_produced), Fresh(D, items),
                    \A c \in Blocks : /\ D[c] = Stream(queue'[c], mailbox[c])
                                      /\ U[c] = TagsOf(input_tags'[c], mailbox[c])
                                      /\ Boxed(queue'[c], mailbox[c], input_tags'[c], tagged'),
                    total_items_produced' =
                        [total_items_produced EXCEPT ![b] = total_items_produced[b] + Len(items)]
             PROVE  AllBoxed' /\ AllOnWay'
  BY DEF Sends
<1>1. /\ \A c \in Blocks : c # b + 1 => mailbox'[c] = mailbox[c]
      /\ b + 1 \in Blocks => Posted(mailbox[b + 1], mailbox'[b + 1], us, items)
  BY SendTypes
<1>2. \A c \in Blocks : c # b + 1 => Streams'[c] = D[c] /\ TagSets'[c] = U[c]
  BY <1>1 DEF Streams, TagSets, Coming
<1>3. /\ Flow(Streams', TagSets', items_consumed', total_items_produced')
      /\ Flow(D, U, items_consumed', total_items_produced)
  BY FlowOfTypesPrime DEF OnWay
<1>4. /\ b \in Blocks /\ b \in Nat /\ Len(items) \in Nat
      /\ \A c \in Blocks : c \in Nat
      /\ \A c \in Blocks : total_items_produced[c] \in Nat
      /\ \A c \in Blocks : total_items_produced'[c] =
             IF c = b THEN total_items_produced[b] + Len(items) ELSE total_items_produced[c]
  BY <1>3, BlocksAre, SMTT(30) DEF Flow, Sending
<1>5. CASE b + 1 \notin Blocks
  <2>1. \A c \in Blocks : Streams'[c] = D[c] /\ TagSets'[c] = U[c]
    BY <1>2, <1>5
  <2>2. Streams' = D
    BY ONLY <1>3, <2>1, SameStreams
  <2>3. \A c \in Blocks : TagSets'[c] \subseteq U[c]
    BY <2>1
  <2>4. \A c \in Blocks : c + 1 \in Blocks => total_items_produced'[c] = total_items_produced[c]
    BY <1>4, <1>5
  <2>5. OnWay(D, U, items_consumed', total_items_produced)
    OBVIOUS
  <2>6. Flow(D, TagSets', items_consumed', total_items_produced')
    BY <1>3, <2>2
  <2>7. OnWay(D, TagSets', items_consumed', total_items_produced')
    BY ONLY <2>3, <2>4, <2>5, <2>6, FewerTags
  <2>8. AllOnWay'
    BY <2>2, <2>7 DEF AllOnWay
  <2>9. AllBoxed'
    BY <1>1, <1>5 DEF AllBoxed
  <2>10. QED
    BY <2>8, <2>9
<1>6. CASE b + 1 \in Blocks
  <2>1. PICK d \in Blocks : d = b + 1
    BY <1>6
  <2>2. Posted(mailbox[d], mailbox'[d], us, items)
    BY <1>1, <2>1
  <2>3. PICK box \in Seq(Message(made')) : box = mailbox[d]
    <3>1. made \in Nat /\ made' \in Nat /\ made <= made' /\ mailbox[d] \in Seq(Message(made))
      BY DEF Sending
    <3>2. mailbox[d] \in Seq(Message(made'))
      BY ONLY <3>1, MessageGrows
    <3>3. QED
      BY <3>2
  <2>4. PICK q \in Seq(0 .. made') : q = queue'[d]
    BY DEF Types
  <2>5. made' \in Nat /\ items \in Seq(0 .. made')
    BY DEF Sending
  <2>6. Boxes(0 .. made', box)
    BY ONLY <2>3, <2>4, <2>5, BoxOf
  <2>7. Stream(q, mailbox'[d]) = Stream(q, box) \o items
    BY <2>2, <2>3, <2>4, <2>5, <2>6, StreamPosted
  <2>8. Streams'[d] = D[d] \o items
    BY <2>3, <2>4, <2>7 DEF Streams, Coming
  <2>9. /\ Boxed(queue'[d], mailbox'[d], input_tags'[d], tagged')
        /\ \A t \in TagsOf(input_tags'[d], mailbox'[d]) :
               t \in U[d] \/ \E j \in 1 .. Len(us) : t = us[j]
    <3>1. \A k \in 1 .. Len(items) : items[k] \in tagged' => HasTag(us, items[k])
      BY DEF TagsFit
    <3>2. \A j \in 1 .. Len(us) : \E k \in 1 .. Len(items) : items[k] = us[j].item
      BY DEF TagsFit
    <3>3. Boxed(queue'[d], mailbox[d], input_tags'[d], tagged')
      OBVIOUS
    <3>4. PICK cox : cox = mailbox[d]
      OBVIOUS
    <3>5. PICK dox : dox = mailbox'[d]
      OBVIOUS
    <3>6. PICK ts : ts = input_tags'[d]
      OBVIOUS
    <3>7. PICK p : p = queue'[d]
      OBVIOUS
    <3>8. PICK G : G = tagged'
      OBVIOUS
    <3>9. Boxed(p, cox, ts, G)
      BY <3>3, <3>4, <3>6, <3>7, <3>8
    <3>10. Posted(cox, dox, us, items)
      BY <2>2, <3>4, <3>5
    <3>11. \A k \in 1 .. Len(items) : items[k] \in G => HasTag(us, items[k])
      BY <3>1, <3>8
    <3>12. /\ Boxed(p, dox, ts, G)
           /\ \A t \in TagsOf(ts, dox) :
                  t \in TagsOf(ts, cox) \/ \E j \in 1 .. Len(us) : t = us[j]
      BY ONLY <3>2, <3>9, <3>10, <3>11, PostBox
    <3>13. U[d] = TagsOf(ts, cox)
      BY <3>4, <3>6
    <3>14. QED
      BY <3>5, <3>6, <3>7, <3>8, <3>12, <3>13
  <2>10. AllBoxed'
    <3>1. SUFFICES ASSUME NEW c \in Blocks
                   PROVE  Boxed(queue'[c], mailbox'[c], input_tags'[c], tagged')
      BY DEF AllBoxed
    <3>2. CASE c = d
      BY <2>9, <3>2
    <3>3. CASE c # d
      BY <1>1, <2>1, <3>3
    <3>4. QED
      BY <3>2, <3>3
  <2>11. \A t \in TagSets'[d] :
             \/ t \in U[d]
             \/ /\ t.item # Filler
                /\ \E k \in 1 .. Len(items) :
                       items[k] = t.item /\ t.offset = items_consumed'[d] + Len(D[d]) + k - 1
    <3>1. total_items_produced[b] = items_consumed'[d] + Len(D[d])
      BY <1>4, <2>1 DEF OnWay, Counted
    <3>2. TagSets'[d] = TagsOf(input_tags'[d], mailbox'[d])
      BY DEF TagSets
    <3>3. SUFFICES ASSUME NEW t \in TagSets'[d], t \notin U[d]
                   PROVE  /\ t.item # Filler
                          /\ \E k \in 1 .. Len(items) : items[k] = t.item
                                 /\ t.offset = items_consumed'[d] + Len(D[d]) + k - 1
      OBVIOUS
    <3>4. PICK j \in 1 .. Len(us) : t = us[j]
      BY <2>9, <3>2, <3>3
    <3>5. t.item # Filler
      BY <3>4 DEF TagsFit
    <3>6. PICK k \in 1 .. Len(items) :
              items[k] = t.item /\ t.offset = total_items_produced[b] + k - 1
      BY <3>4 DEF TagsFit
    <3>7. QED
      BY <3>1, <3>5, <3>6
  <2>12. \A c \in Blocks \ {d} : Streams'[c] = D[c] /\ TagSets'[c] \subseteq U[c]
    BY <1>2, <2>1
  <2>13. \A c \in Blocks : total_items_produced'[c] =
             IF c + 1 = d THEN total_items_produced[c] + Len(items)
             ELSE IF c + 1 \in Blocks THEN total_items_produced[c] ELSE total_items_produced'[c]
    <3>1. \A c \in Blocks : c + 1 = d <=> c = b
      BY <1>4, <2>1
    <3>2. QED
      BY <1>4, <3>1
  <2>14. items \in Seq(Nat)
    <3>1. 0 .. made' \subseteq Nat
      BY <2>5
    <3>2. QED
      BY <2>5, <3>1, SeqMonotonic
  <2>15. Gets(D, U, items_consumed', total_items_produced, Streams', TagSets',
              total_items_produced', d, items)
    BY <2>1, <2>8, <2>11, <2>12, <2>13, <2>14 DEF Gets
  <2>16. OnWay(D, U, items_consumed', total_items_produced) /\ Fresh(D, items)
    OBVIOUS
  <2>17. OnWay(Streams', TagSets', items_consumed', total_items_produced')
    <3>1. Flow(Streams', TagSets', items_consumed', total_items_produced')
      BY <1>3
    <3>2. QED
      BY ONLY <2>15, <2>16, <3>1, GetsKeeps
  <2>18. QED
    BY <2>10, <2>17 DEF AllOnWay
<1>7. QED
  BY <1>5, <1>6

\* A block that has ended is sent nothing.
LEMMA EndedStays ==
    ASSUME TagsInv, NEW b \in Blocks, live[b], live' = live,
           \A c \in Blocks : c # b + 1 => mailbox'[c] = mailbox[c],
           \A c \in Blocks : c # b => queue'[c] = queue[c]
    PROVE  EndedInOrder' /\ (b # Source \/ queue' = queue => SourceEmpty')
<1>1. SUFFICES ASSUME NEW c \in Blocks, ~ live[c]
               PROVE  /\ mailbox'[c] = <<>> /\ queue'[c] = <<>> /\ \A a \in 1 .. c - 1 : ~ live[a]
  <2>1. b + 1 # Source
    BY BlocksAre DEF Blocks
  <2>2. b # Source \/ queue' = queue => SourceEmpty'
    BY <2>1, BlocksAre DEF TagsInv, SourceEmpty
  <2>3. QED
    BY <2>2 DEF EndedInOrder
<1>2. mailbox[c] = <<>> /\ queue[c] = <<>> /\ \A a \in 1 .. c - 1 : ~ live[a]
  BY <1>1 DEF TagsInv, EndedInOrder
<1>3. c # b + 1
  <2>1. SUFFICES ASSUME c = b + 1 PROVE FALSE
    OBVIOUS
  <2>2. b \in 1 .. c - 1
    BY <2>1, BlocksAre DEF Blocks
  <2>3. QED
    BY <1>2, <2>2
<1>4. QED
  BY <1>1, <1>2, <1>3

LEMMA SourceWorkKeeps ==
    ASSUME TagsInv, SourceWork
    PROVE  TagsInv'
<1>1. PICK n \in 1 .. MaxWork : \E m \in 0 .. n : \E marks \in Injection(1 .. m, 1 .. n) :
          LET items == [k \in 1 .. n |-> made + k]
              at(k) == Tag(total_items_produced[Source] + k - 1, items[k])
          IN  /\ mailbox' = PostDownstream(mailbox, Source,
                                Posts([j \in 1 .. m |-> at(marks[j])], items))
              /\ tagged' = tagged \cup {items[marks[j]] : j \in 1 .. m}
              /\ made' = made + n
              /\ total_items_produced' = [total_items_produced EXCEPT ![Source] = @ + n]
  BY DEF SourceWork
<1>2. PICK m \in 0 .. n : \E marks \in Injection(1 .. m, 1 .. n) :
          LET items == [k \in 1 .. n |-> made + k]
              at(k) == Tag(total_items_produced[Source] + k - 1, items[k])
          IN  /\ mailbox' = PostDownstream(mailbox, Source,
                                Posts([j \in 1 .. m |-> at(marks[j])], items))
              /\ tagged' = tagged \cup {items[marks[j]] : j \in 1 .. m}
              /\ made' = made + n
              /\ total_items_produced' = [total_items_produced EXCEPT ![Source] = @ + n]
  BY <1>1
<1>3. PICK marks \in Injection(1 .. m, 1 .. n) :
          LET items == [k \in 1 .. n |-> made + k]
              at(k) == Tag(total_items_produced[Source] + k - 1, items[k])
          IN  /\ mailbox' = PostDownstream(mailbox, Source,
                                Posts([j \in 1 .. m |-> at(marks[j])], items))
              /\ tagged' = tagged \cup {items[marks[j]] : j \in 1 .. m}
              /\ made' = made + n
              /\ total_items_produced' = [total_items_produced EXCEPT ![Source] = @ + n]
  BY <1>2
<1> DEFINE its == [k \in 1 .. n |-> made + k]
           ums == [j \in 1 .. m |-> Tag(total_items_produced[Source] + marks[j] - 1, its[marks[j]])]
<1>4. /\ mailbox' = PostDownstream(mailbox, Source, Posts(ums, its))
      /\ tagged' = tagged \cup {its[marks[j]] : j \in 1 .. m}
      /\ made' = made + n
      /\ total_items_produced' = [total_items_produced EXCEPT ![Source] = @ + n]
  BY <1>3
<1>5. PICK items : items = its
  OBVIOUS
<1>5a. PICK us : us = ums
  OBVIOUS
<1>5b. us = [j \in 1 .. m |-> Tag(total_items_produced[Source] + marks[j] - 1, items[marks[j]])]
  BY <1>5, <1>5a
<1>5c. items = [k \in 1 .. n |-> made + k]
  BY <1>5
<1>5d. /\ mailbox' = PostDownstream(mailbox, Source, Posts(us, items))
       /\ tagged' = tagged \cup {items[marks[j]] : j \in 1 .. m}
       /\ made' = made + n
       /\ total_items_produced' = [total_items_produced EXCEPT ![Source] = @ + n]
  <2> HIDE DEF its, ums
  <2>1. QED
    BY <1>4, <1>5, <1>5a
<1> HIDE DEF its, ums
<1>6. /\ live[Source]
      /\ UNCHANGED <<live, queue, input_tags, input_tags_changed, items_consumed,
                     total_items_consumed, delayed, restarts>>
  BY DEF SourceWork
<1>7. /\ made \in Nat /\ n \in Nat /\ n > 0 /\ made' \in Nat /\ made < made' /\ made' = made + n
      /\ m \in Nat /\ tagged \subseteq 1 .. made /\ Source \in Blocks
      /\ total_items_produced[Source] \in Nat /\ total_items_produced \in [Blocks -> Nat]
  BY <1>5d, BlocksAre, TagsAssumption DEF TagsInv, Types
<1>8. \A j \in 1 .. m : marks[j] \in 1 .. n
  BY <1>3 DEF Injection, IsInjective
<1>9. /\ items \in Seq(0 .. made') /\ Len(items) = n /\ items # <<>>
      /\ \A k \in 1 .. n : items[k] = made + k
  <2>1. \A k \in 1 .. n : items[k] = made + k /\ made + k \in 0 .. made'
    BY <1>5c, <1>7
  <2>2. items \in [1 .. n -> 0 .. made']
    BY <1>5c, <2>1
  <2>3. items \in Seq(0 .. made') /\ Len(items) = n
    BY <1>7, <2>2
  <2>4. QED
    BY <1>7, <2>1, <2>3
<1>10. /\ us \in Seq(TagRec) /\ Len(us) = m
       /\ \A j \in 1 .. m : us[j].offset = total_items_produced[Source] + marks[j] - 1
                            /\ us[j].item = items[marks[j]]
  <2>1. ASSUME NEW j \in 1 .. m
        PROVE  /\ us[j] = Tag(total_items_produced[Source] + marks[j] - 1, items[marks[j]])
               /\ us[j] \in TagRec
               /\ us[j].offset = total_items_produced[Source] + marks[j] - 1
               /\ us[j].item = items[marks[j]]
    <3>1. us[j] = Tag(total_items_produced[Source] + marks[j] - 1, items[marks[j]])
      BY <1>5b
    <3>2. /\ total_items_produced[Source] + marks[j] - 1 \in Nat /\ items[marks[j]] \in Nat
      BY <1>7, <1>8, <1>9
    <3>3. QED
      BY <3>1, <3>2 DEF Tag, TagRec
  <2>2. us \in [1 .. m -> TagRec]
    BY <1>5b, <2>1
  <2>3. us \in Seq(TagRec) /\ Len(us) = m
    BY <1>7, <2>2
  <2>4. QED
    BY <2>1, <2>3
<1>11. Sending(Source, us, items)
  <2>1. mailbox \in [Blocks -> Seq(Message(made))]
    BY DEF TagsInv, Types
  <2>2. mailbox' = PostDownstream(mailbox, Source, Posts(us, items))
    BY <1>5d
  <2>3. QED
    BY <1>7, <1>9, <1>10, <2>1, <2>2 DEF Sending
<1>12. /\ mailbox' \in [Blocks -> Seq(Message(made'))]
       /\ \A c \in Blocks : c # Source + 1 => mailbox'[c] = mailbox[c]
  BY <1>11, SendTypes
<1>13. total_items_produced' = [total_items_produced EXCEPT
                                    ![Source] = total_items_produced[Source] + Len(items)]
  BY <1>5d, <1>9
<1>14. tagged' \subseteq 1 .. made'
  <2>1. \A j \in 1 .. m : items[marks[j]] \in 1 .. made'
    BY <1>7, <1>8, <1>9
  <2>2. 1 .. made \subseteq 1 .. made'
    BY <1>7
  <2>3. tagged \subseteq 1 .. made' /\ {items[marks[j]] : j \in 1 .. m} \subseteq 1 .. made'
    BY <1>7, <2>1, <2>2
  <2>4. QED
    BY <1>5d, <2>3
<1>15. Types'
  <2>1. \A c \in Blocks : queue[c] \in Seq(0 .. made')
    <3>1. 0 .. made \subseteq 0 .. made'
      BY <1>7
    <3>2. QED
      BY <3>1, SeqMonotonic DEF TagsInv, Types
  <2>2. queue' \in [Blocks -> Seq(0 .. made')]
    BY <1>6, <2>1 DEF TagsInv, Types
  <2>3. total_items_produced' \in [Blocks -> Nat]
    BY <1>7, <1>9, <1>13
  <2>4. QED
    BY <1>6, <1>7, <1>12, <1>14, <2>2, <2>3 DEF TagsInv, Types
<1>16. SourceEmpty' /\ EndedInOrder'
  BY <1>6, <1>7, <1>12, EndedStays
<1>17. SortedTags'
  BY <1>6 DEF TagsInv, SortedTags
<1>18. Fresh(Streams, items)
  <2>1. Known(Streams, made) /\ Flow(Streams, TagSets, items_consumed, total_items_produced)
    BY FlowOfTypes DEF TagsInv
  <2>2. \A c \in Blocks : \A k \in 1 .. Len(Streams[c]) :
            Streams[c][k] <= made /\ Streams[c][k] \in Nat
    BY <2>1, ElementOfSeq DEF Known, Flow
  <2>3. QED
    BY <1>7, <1>9, <2>2, SMTT(30) DEF Fresh
<1>19. \A c \in Blocks : Boxed(queue[c], mailbox[c], input_tags[c], tagged')
  <2>1. SUFFICES ASSUME NEW c \in Blocks
                 PROVE  Boxed(queue[c], mailbox[c], input_tags[c], tagged')
    OBVIOUS
  <2>2. PICK q \in Seq(0 .. made) : q = queue[c]
    BY DEF TagsInv, Types
  <2>3. PICK box \in Seq(Message(made)) : box = mailbox[c]
    BY DEF TagsInv, Types
  <2>4. PICK ts : ts = input_tags[c]
    OBVIOUS
  <2>5. PICK G : G = tagged
    OBVIOUS
  <2>6. PICK H : H = tagged'
    OBVIOUS
  <2>7. \A k \in 1 .. Len(q) : q[k] \in Nat /\ q[k] <= made
    <3>1. \A k \in 1 .. Len(q) : q[k] \in 0 .. made
      BY <2>2, ElementOfSeq
    <3>2. QED
      BY <1>7, <3>1
  <2>8. \A j \in 1 .. Len(box) : \A k \in 1 .. Len(box[j].items) :
            box[j].items[k] \in Nat /\ box[j].items[k] <= made
    <3>1. SUFFICES ASSUME NEW j \in 1 .. Len(box), NEW k \in 1 .. Len(box[j].items)
                   PROVE  box[j].items[k] \in Nat /\ box[j].items[k] <= made
      OBVIOUS
    <3>2. made \in Nat
      BY <1>7
    <3>3. Boxes(0 .. made, box)
      BY ONLY <2>2, <2>3, <3>2, BoxOf
    <3>4. box[j].items \in Seq(0 .. made)
      BY <3>3 DEF Boxes
    <3>5. box[j].items[k] \in 0 .. made
      BY <3>4, ElementOfSeq
    <3>6. QED
      BY <3>2, <3>5
  <2>9. \A x \in H : x \in G \/ x > made
    <3>1. \A j \in 1 .. m : items[marks[j]] > made
      BY <1>7, <1>8, <1>9
    <3>2. QED
      BY <1>5d, <2>5, <2>6, <3>1
  <2>10. Boxed(q, box, ts, G)
    BY <2>2, <2>3, <2>4, <2>5 DEF TagsInv, AllBoxed
  <2>11. Boxed(q, box, ts, H)
    <3>1. made \in Nat
      BY <1>7
    <3>2. PICK l \in Nat : l = made
      BY <3>1
    <3>3. QED
      BY ONLY <2>7, <2>8, <2>9, <2>10, <3>1, MoreTagged
  <2>12. QED
    BY <2>2, <2>3, <2>4, <2>6, <2>11
<1>20. TagsFit(Source, us, items)
  <2>1. ASSUME NEW j \in 1 .. Len(us)
        PROVE  /\ us[j].item # Filler
               /\ \E k \in 1 .. Len(items) : items[k] = us[j].item
                      /\ us[j].offset = total_items_produced[Source] + k - 1
    <3>1. marks[j] \in 1 .. n /\ us[j].item = items[marks[j]]
          /\ us[j].offset = total_items_produced[Source] + marks[j] - 1
      BY <1>8, <1>10
    <3>2. us[j].item # Filler
      BY <1>7, <1>9, <3>1 DEF Filler
    <3>3. QED
      BY <1>9, <3>1, <3>2
  <2>2. ASSUME NEW k \in 1 .. Len(items), items[k] \in tagged'
        PROVE  HasTag(us, items[k])
    <3>1. items[k] \notin tagged
      BY <1>7, <1>9
    <3>2. PICK j \in 1 .. m : items[k] = items[marks[j]]
      BY <1>5d, <2>2, <3>1
    <3>3. QED
      BY <1>10, <3>2 DEF HasTag
  <2>3. QED
    BY <2>1, <2>2 DEF TagsFit
<1>21. AllBoxed' /\ AllOnWay'
  <2>1. PICK D : D = Streams
    OBVIOUS
  <2>2. PICK U : U = TagSets
    OBVIOUS
  <2>3. OnWay(D, U, items_consumed', total_items_produced) /\ Fresh(D, items)
    BY <1>6, <1>18, <2>1, <2>2 DEF TagsInv, AllOnWay
  <2>4. \A c \in Blocks : /\ D[c] = Stream(queue'[c], mailbox[c])
                          /\ U[c] = TagsOf(input_tags'[c], mailbox[c])
                          /\ Boxed(queue'[c], mailbox[c], input_tags'[c], tagged')
    BY <1>6, <1>19, <2>1, <2>2 DEF Streams, TagSets, Coming
  <2>5. QED
    <3>1. Sends(Source, us, items, D, U)
      BY <1>11, <1>13, <1>15, <1>20, <2>3, <2>4 DEF Sends
    <3>2. QED
      BY <3>1, SendKeeps
<1>22. QED
  BY <1>15, <1>16, <1>17, <1>21 DEF TagsInv

LEMMA DelayWorkKeeps ==
    ASSUME TagsInv, NEW b \in Blocks, DelayWork(b)
    PROVE  TagsInv'
<1>1. /\ live[b] /\ b # Source /\ delayed' = delayed \cup {b}
      /\ UNCHANGED <<live, queue, input_tags, input_tags_changed, items_consumed,
                     total_items_consumed, made, tagged, restarts>>
  BY DEF DelayWork
<1>2. PICK items : items = [k \in 1 .. Delay[b] |-> Filler]
  OBVIOUS
<1>3. /\ mailbox' = PostDownstream(mailbox, b, Posts(<<>>, items))
      /\ total_items_produced' =
             [total_items_produced EXCEPT ![b] = total_items_produced[b] + Delay[b]]
  BY <1>2 DEF DelayWork
<1>4. /\ made \in Nat /\ total_items_produced[b] \in Nat /\ Delay[b] \in Nat
      /\ total_items_produced \in [Blocks -> Nat]
      /\ mailbox \in [Blocks -> Seq(Message(made))]
  BY TagsAssumption DEF TagsInv, Types
<1>5. /\ items \in Seq(0 .. made) /\ Len(items) = Delay[b]
      /\ \A k \in 1 .. Len(items) : items[k] = Filler
  <2>1. PICK n \in Nat : n = Delay[b]
    BY <1>4
  <2>2. items = [k \in 1 .. n |-> 0]
    BY <1>2, <2>1 DEF Filler
  <2>3. items \in Seq(0 .. made) /\ Len(items) = n
    BY <1>4, <2>2
  <2>4. QED
    BY <2>1, <2>2, <2>3 DEF Filler
<1>6. SortedTags'
  BY <1>1 DEF TagsInv, SortedTags
<1>7. total_items_produced' \in [Blocks -> Nat] /\ delayed' \subseteq Blocks \ {Source}
  BY <1>1, <1>3, <1>4 DEF TagsInv, Types
<1>8. CASE Delay[b] = 0
  <2>1. items = <<>>
    BY <1>2, <1>8
  <2>2. Posts(<<>>, <<>>) = <<>>
    BY DEF Posts, TagMsgs, BufferMsg
  <2>3. \A c \in Blocks : mailbox[c] \o <<>> = mailbox[c]
    BY <1>4, ConcatEmptySeq
  <2>4. mailbox' = mailbox
    <3>1. CASE b = Length
      BY <1>3, <3>1 DEF PostDownstream
    <3>2. CASE b # Length
      <4>1. b + 1 \in Blocks
        BY <3>2, TagsAssumption DEF Blocks
      <4>2. mailbox' = [mailbox EXCEPT ![b + 1] = mailbox[b + 1] \o <<>>]
        BY <1>3, <2>1, <2>2, <3>2 DEF PostDownstream
      <4>3. mailbox' = [mailbox EXCEPT ![b + 1] = mailbox[b + 1]]
        BY <2>3, <4>1, <4>2
      <4>4. QED
        BY <1>4, <4>3
    <3>3. QED
      BY <3>1, <3>2
  <2>5. total_items_produced' = total_items_produced
    BY <1>3, <1>4, <1>8
  <2>6. Types' /\ SourceEmpty' /\ EndedInOrder'
    BY <1>1, <1>7, <2>4, <2>5 DEF TagsInv, Types, SourceEmpty, EndedInOrder
  <2>7. AllBoxed'
    BY <1>1, <2>4 DEF TagsInv, AllBoxed
  <2>8. Streams' = Streams /\ TagSets' = TagSets
    BY <1>1, <2>4 DEF Streams, TagSets, Coming
  <2>9. AllOnWay'
    BY <1>1, <2>5, <2>8 DEF TagsInv, AllOnWay
  <2>10. QED
    BY <1>6, <2>6, <2>7, <2>9 DEF TagsInv
<1>9. CASE Delay[b] # 0
  <2>1. items # <<>> /\ made' \in Nat /\ made <= made' /\ items \in Seq(0 .. made')
    BY <1>1, <1>4, <1>5, <1>9
  <2>2. <<>> \in Seq(TagRec) /\ Len(<<>>) = 0
    BY EmptySeq
  <2>3. PICK us \in Seq(TagRec) : us = <<>>
    BY <2>2
  <2>4. Sending(b, us, items)
    BY <1>3, <1>4, <2>1, <2>3 DEF Sending
  <2>5. /\ mailbox' \in [Blocks -> Seq(Message(made'))]
        /\ \A c \in Blocks : c # b + 1 => mailbox'[c] = mailbox[c]
    BY <2>4, SendTypes
  <2>6. Types'
    BY <1>1, <1>7, <2>5 DEF TagsInv, Types
  <2>7. SourceEmpty' /\ EndedInOrder'
    BY <1>1, <2>5, EndedStays
  <2>8. TagsFit(b, us, items)
    <3>1. Filler \notin tagged'
      BY <1>1, <1>4 DEF TagsInv, Types, Filler
    <3>2. QED
      BY <1>5, <2>2, <2>3, <3>1 DEF TagsFit
  <2>9. Fresh(Streams, items)
    BY <1>5 DEF Fresh
  <2>10. PICK D : D = Streams
    OBVIOUS
  <2>11. PICK U : U = TagSets
    OBVIOUS
  <2>15. OnWay(D, U, items_consumed', total_items_produced) /\ Fresh(D, items)
    BY <1>1, <2>9, <2>10, <2>11 DEF TagsInv, AllOnWay
  <2>16. \A c \in Blocks : /\ D[c] = Stream(queue'[c], mailbox[c])
                           /\ U[c] = TagsOf(input_tags'[c], mailbox[c])
                           /\ Boxed(queue'[c], mailbox[c], input_tags'[c], tagged')
    BY <1>1, <2>10, <2>11 DEF TagsInv, AllBoxed, Streams, TagSets, Coming
  <2>12. total_items_produced' =
             [total_items_produced EXCEPT ![b] = total_items_produced[b] + Len(items)]
    BY <1>3, <1>5
  <2>13. AllBoxed' /\ AllOnWay'
    <3>1. Sends(b, us, items, D, U)
      BY <2>4, <2>6, <2>8, <2>12, <2>15, <2>16 DEF Sends
    <3>2. QED
      BY <3>1, SendKeeps
  <2>14. QED
    BY <1>6, <2>6, <2>7, <2>13 DEF TagsInv
<1>10. QED
  BY <1>8, <1>9

\* The tag of an item is at its place, for tags that are due and for those that are not.
LEMMA TagPlace ==
    ASSUME TagsInv, NEW b \in Blocks, NEW t \in TagSets[b], NEW l \in 1 .. Len(Streams[b]),
           Streams[b][l] = t.item
    PROVE  t.offset = items_consumed[b] + l - 1
<1>1. MarkedAt(Streams[b], TagSets[b], items_consumed[b]) /\ Once(Streams)
  BY DEF TagsInv, AllOnWay, OnWay, Marked
<1>2. PICK k \in 1 .. Len(Streams[b]) :
          Streams[b][k] = t.item /\ t.offset = items_consumed[b] + k - 1
  BY <1>1 DEF MarkedAt
<1>3. t.item # Filler
  BY <1>1 DEF MarkedAt
<1>4. k = l
  BY <1>1, <1>2, <1>3 DEF Once
<1>5. QED
  BY <1>2, <1>4

\* An item of the mailbox is in the stream, behind what is queued.
LEMMA BoxInStream ==
    ASSUME TagsInv, NEW b \in Blocks, NEW j \in 1 .. Len(mailbox[b]),
           NEW k \in 1 .. Len(mailbox[b][j].items)
    PROVE  \E l \in Len(queue[b]) + 1 .. Len(Streams[b]) :
               Streams[b][l] = mailbox[b][j].items[k]
<1>1. PICK q \in Seq(0 .. made) : q = queue[b]
  BY DEF TagsInv, Types
<1>2. PICK box \in Seq(Message(made)) : box = mailbox[b]
  BY DEF TagsInv, Types
<1>3. made \in Nat
  BY DEF TagsInv, Types
<1>4. Boxes(0 .. made, box)
  BY ONLY <1>1, <1>2, <1>3, BoxOf
<1>5. j \in 1 .. Len(box) /\ k \in 1 .. Len(box[j].items)
  BY <1>2
<1>6. \E l \in Len(q) + 1 .. Len(Stream(q, box)) : Stream(q, box)[l] = box[j].items[k]
  BY ONLY <1>1, <1>4, <1>5, StreamHas
<1>7. QED
  BY <1>1, <1>2, <1>6 DEF Streams, Coming

\* tags are those of block b in their order, of which the first m are due for n items
Splits(b, n, tags, m, due, rest) ==
    /\ tags \in Seq(TagRec) /\ InOrder(tags) /\ m \in 0 .. Len(tags)
    /\ due = SubSeq(tags, 1, m) /\ rest = SubSeq(tags, m + 1, Len(tags))
    /\ \A k \in 1 .. Len(tags) : \E j \in 1 .. Len(input_tags[b]) : tags[k] = input_tags[b][j]
    /\ \A j \in 1 .. Len(input_tags[b]) : \E k \in 1 .. Len(tags) : tags[k] = input_tags[b][j]
    /\ \A k \in 1 .. m : tags[k].offset < items_consumed[b] + n
    /\ \A k \in m + 1 .. Len(tags) : tags[k].offset >= items_consumed[b] + n

LEMMA SplitIs ==
    ASSUME NEW b, NEW n, NEW tags, NEW m, NEW due, NEW rest, Splits(b, n, tags, m, due, rest)
    PROVE  /\ due \in Seq(TagRec) /\ Len(due) = m /\ \A k \in 1 .. m : due[k] = tags[k]
           /\ rest \in Seq(TagRec) /\ Len(rest) = Len(tags) - m /\ InOrder(rest)
           /\ \A k \in 1 .. Len(rest) : rest[k] = tags[m + k]
<1>1. tags \in Seq(TagRec) /\ m \in 0 .. Len(tags) /\ Len(tags) \in Nat
  BY DEF Splits
<1>2. PICK S : S = TagRec
  OBVIOUS
<1>3. due \in Seq(S) /\ Len(due) = m /\ \A k \in 1 .. m : due[k] = tags[k]
  BY <1>1, <1>2 DEF Splits
<1>4. /\ rest \in Seq(S) /\ Len(rest) = Len(tags) - m
      /\ \A k \in 1 .. Len(rest) : rest[k] = tags[m + k]
  BY <1>1, <1>2 DEF Splits
<1>5. InOrder(rest)
  <2>1. SUFFICES ASSUME NEW j \in 1 .. Len(rest), NEW k \in 1 .. Len(rest), j < k
                 PROVE  rest[j].offset <= rest[k].offset
    BY <1>4 DEF InOrder
  <2>2. m + j \in DOMAIN tags /\ m + k \in DOMAIN tags /\ m + j < m + k
    BY <1>1, <1>4, <2>1
  <2>3. tags[m + j].offset <= tags[m + k].offset
    BY <2>2 DEF Splits, InOrder
  <2>4. QED
    BY <1>4, <2>3
<1>6. QED
  BY <1>2, <1>3, <1>4, <1>5

\* An item that is not consumed keeps its tag; the tag of one that is consumed is due.
LEMMA TagsSplit ==
    ASSUME TagsInv, NEW b \in Blocks, NEW n \in Nat,
           NEW tags, NEW m, NEW due, NEW rest, Splits(b, n, tags, m, due, rest),
           NEW l \in 1 .. Len(Streams[b]), HasTag(input_tags[b], Streams[b][l])
    PROVE  IF l <= n THEN HasTag(due, Streams[b][l]) ELSE HasTag(rest, Streams[b][l])
<1>1. PICK j \in 1 .. Len(input_tags[b]) : input_tags[b][j].item = Streams[b][l]
  BY DEF HasTag
<1>2. PICK i \in 1 .. Len(tags) : tags[i] = input_tags[b][j]
  BY DEF Splits
<1>3. input_tags[b][j] \in TagSets[b]
  BY DEF TagSets, TagsOf
<1>4. tags[i].offset = items_consumed[b] + l - 1 /\ tags[i].item = Streams[b][l]
  BY <1>1, <1>2, <1>3, TagPlace
<1>5. items_consumed[b] \in Nat /\ l \in Nat
  BY DEF TagsInv, Types
<1>6. Len(tags) \in Nat /\ m \in 0 .. Len(tags)
  BY DEF Splits
<1>7. /\ Len(due) = m /\ \A k \in 1 .. m : due[k] = tags[k]
      /\ Len(rest) = Len(tags) - m /\ \A k \in 1 .. Len(rest) : rest[k] = tags[m + k]
  BY SplitIs
<1>8. CASE l <= n
  <2>1. ~ (i \in m + 1 .. Len(tags))
    BY <1>4, <1>5, <1>8 DEF Splits
  <2>2. i \in 1 .. m
    BY <1>6, <2>1
  <2>3. QED
    BY <1>4, <1>7, <1>8, <2>2 DEF HasTag
<1>9. CASE ~ (l <= n)
  <2>1. ~ (i \in 1 .. m)
    BY <1>4, <1>5, <1>9 DEF Splits
  <2>2. i - m \in 1 .. Len(rest) /\ m + (i - m) = i
    BY <1>6, <1>7, <2>1
  <2>3. rest[i - m].item = Streams[b][l]
    BY <1>4, <1>7, <2>2
  <2>4. QED
    BY <1>9, <2>2, <2>3 DEF HasTag
<1>10. QED
  BY <1>8, <1>9

\* What is due is for the items that are consumed; it is sent on at their positions.
LEMMA DueIs ==
    ASSUME TagsInv, NEW b \in Blocks, NEW n \in Nat,
           NEW tags, NEW m, NEW due, NEW rest, Splits(b, n, tags, m, due, rest)
    PROVE  /\ PropagateTags(due, b) \in Seq(TagRec) /\ Len(PropagateTags(due, b)) = m
           /\ \A j \in 1 .. m :
                  /\ PropagateTags(due, b)[j].item = due[j].item /\ due[j].item # Filler
                  /\ \E k \in 1 .. n : /\ k <= Len(Streams[b]) /\ Streams[b][k] = due[j].item
                                       /\ PropagateTags(due, b)[j].offset =
                                              total_items_produced[b] + k - 1
<1>1. due \in Seq(TagRec) /\ Len(due) = m /\ \A k \in 1 .. m : due[k] = tags[k]
  BY SplitIs
<1>2. /\ items_consumed[b] \in Nat /\ total_items_produced[b] \in Nat
      /\ total_items_consumed[b] = items_consumed[b]
  BY DEF TagsInv, Types
<1>3. m \in Nat /\ DOMAIN due = 1 .. m
  BY <1>1
<1>4. ASSUME NEW j \in 1 .. m
      PROVE  /\ Moved(due[j], b) \in TagRec /\ Moved(due[j], b).item = due[j].item
             /\ due[j].item # Filler
             /\ \E k \in 1 .. n : /\ k <= Len(Streams[b]) /\ Streams[b][k] = due[j].item
                                  /\ Moved(due[j], b).offset = total_items_produced[b] + k - 1
  <2>1. due[j] \in TagRec
    BY <1>1, <1>3, ElementOfSeq
  <2>2. due[j] \in TagSets[b]
    <3>1. j \in 1 .. Len(tags)
      BY <1>3 DEF Splits
    <3>2. PICK i \in 1 .. Len(input_tags[b]) : tags[j] = input_tags[b][i]
      BY <3>1 DEF Splits
    <3>3. QED
      BY <1>1, <3>2 DEF TagSets, TagsOf
  <2>3. MarkedAt(Streams[b], TagSets[b], items_consumed[b])
    BY DEF TagsInv, AllOnWay, OnWay, Marked
  <2>4. PICK k \in 1 .. Len(Streams[b]) :
            Streams[b][k] = due[j].item /\ due[j].offset = items_consumed[b] + k - 1
    BY <2>2, <2>3 DEF MarkedAt
  <2>5. due[j].item # Filler
    BY <2>2, <2>3 DEF MarkedAt
  <2>6. due[j].offset < items_consumed[b] + n
    BY <1>1 DEF Splits
  <2>7. k \in Nat /\ k \in 1 .. n /\ k <= Len(Streams[b])
    <3>1. Len(Streams[b]) \in Nat
      BY FlowOfTypes, LenProperties DEF TagsInv, Flow
    <3>2. QED
      BY <1>2, <2>4, <2>6, <3>1
  <2>8. /\ Moved(due[j], b) = [due[j] EXCEPT !.offset =
               due[j].offset + total_items_produced[b] - total_items_consumed[b]]
        /\ due[j].offset + total_items_produced[b] - total_items_consumed[b]
               = total_items_produced[b] + k - 1
        /\ total_items_produced[b] + k - 1 \in Nat
    BY <1>2, <2>4, <2>7 DEF Moved
  <2>9. /\ Moved(due[j], b) \in TagRec /\ Moved(due[j], b).item = due[j].item
        /\ Moved(due[j], b).offset = total_items_produced[b] + k - 1
    BY <2>1, <2>8 DEF TagRec
  <2>10. QED
    BY <2>4, <2>5, <2>7, <2>9
<1>5. PropagateTags(due, b) = [k \in 1 .. m |-> Moved(due[k], b)]
  BY <1>3 DEF PropagateTags
<1>6. PropagateTags(due, b) \in [1 .. m -> TagRec]
  BY <1>4, <1>5
<1>7. PropagateTags(due, b) \in Seq(TagRec) /\ Len(PropagateTags(due, b)) = m
  BY <1>3, <1>6
<1>8. \A j \in 1 .. m : PropagateTags(due, b)[j] = Moved(due[j], b)
  BY <1>5
<1>9. QED
  BY <1>4, <1>7, <1>8

\* block b takes first from its queue and leaves left, and the tags due and rest
Working(b, n, tags, m, due, rest, first, left) ==
    /\ live[b] /\ b # Source /\ n \in Nat /\ n > 0 /\ n <= Len(queue[b])
    /\ Splits(b, n, tags, m, due, rest)
    /\ first = SubSeq(queue[b], 1, n) /\ left = SubSeq(queue[b], n + 1, Len(queue[b]))
    /\ input_tags' = [input_tags EXCEPT ![b] = rest]
    /\ input_tags_changed' = [input_tags_changed EXCEPT ![b] = FALSE]
    /\ mailbox' = PostDownstream(mailbox, b, Posts(PropagateTags(due, b), first))
    /\ queue' = [queue EXCEPT ![b] = left]
    /\ items_consumed' = [items_consumed EXCEPT ![b] = items_consumed[b] + n]
    /\ total_items_consumed' = [total_items_consumed EXCEPT ![b] = total_items_consumed[b] + n]
    /\ total_items_produced' = [total_items_produced EXCEPT ![b] = total_items_produced[b] + n]
    /\ UNCHANGED <<live, delayed, made, tagged, restarts>>

LEMMA WorkIs ==
    ASSUME TagsInv, NEW b \in Blocks, Work(b)
    PROVE  \E n, tags, m, due, rest, first, left :
               Working(b, n, tags, m, due, rest, first, left)
<1>1. /\ live[b] /\ b \in delayed
      /\ input_tags_changed' = [input_tags_changed EXCEPT ![b] = FALSE]
      /\ UNCHANGED <<live, delayed, made, tagged, restarts>>
  BY DEF Work
<1>2. PICK n \in 1 .. MaxWork, tags \in SortTags(b) :
          /\ n <= Len(queue[b])
          /\ input_tags' = [input_tags EXCEPT
                 ![b] = SubSeq(tags, Len(Trimmed(tags, b, n)) + 1, Len(tags))]
          /\ mailbox' = PostDownstream(mailbox, b,
                 Posts(PropagateTags(Trimmed(tags, b, n), b), SubSeq(queue[b], 1, n)))
          /\ queue' = [queue EXCEPT ![b] = SubSeq(queue[b], n + 1, Len(queue[b]))]
          /\ items_consumed' = [items_consumed EXCEPT ![b] = items_consumed[b] + n]
          /\ total_items_consumed' =
                 [total_items_consumed EXCEPT ![b] = total_items_consumed[b] + n]
          /\ total_items_produced' =
                 [total_items_produced EXCEPT ![b] = total_items_produced[b] + n]
  BY DEF Work
<1>3. /\ input_tags[b] \in Seq(TagRec) /\ items_consumed[b] \in Nat
      /\ ~ input_tags_changed[b] => InOrder(input_tags[b])
      /\ b # Source
  BY <1>1 DEF TagsInv, Types, SortedTags
<1>4. n \in Nat /\ n > 0 /\ items_consumed[b] + n \in Nat
  BY <1>3, TagsAssumption
<1>5. /\ tags \in Seq(TagRec) /\ InOrder(tags)
      /\ \A k \in 1 .. Len(tags) : \E j \in 1 .. Len(input_tags[b]) : tags[k] = input_tags[b][j]
      /\ \A j \in 1 .. Len(input_tags[b]) : \E k \in 1 .. Len(tags) : tags[k] = input_tags[b][j]
  BY <1>3, SortIs
<1>6. PICK m \in 0 .. Len(tags) :
          /\ Trimmed(tags, b, n) = SubSeq(tags, 1, m)
          /\ \A k \in 1 .. m : tags[k].offset < items_consumed[b] + n
          /\ \A k \in m + 1 .. Len(tags) : tags[k].offset >= items_consumed[b] + n
  BY <1>4, <1>5, TrimIs
<1>7. PICK due : due = SubSeq(tags, 1, m)
  OBVIOUS
<1>8. PICK rest : rest = SubSeq(tags, m + 1, Len(tags))
  OBVIOUS
<1>9. PICK first : first = SubSeq(queue[b], 1, n)
  OBVIOUS
<1>10. PICK left : left = SubSeq(queue[b], n + 1, Len(queue[b]))
  OBVIOUS
<1>11. Splits(b, n, tags, m, due, rest)
  BY <1>5, <1>6, <1>7, <1>8 DEF Splits
<1>12. Len(due) = m /\ Trimmed(tags, b, n) = due
  BY <1>6, <1>7, <1>11, SplitIs
<1>13. Working(b, n, tags, m, due, rest, first, left)
  BY <1>1, <1>2, <1>3, <1>4, <1>8, <1>9, <1>10, <1>11, <1>12 DEF Working
<1>14. QED
  BY <1>13

LEMMA WorkKeeps ==
    ASSUME TagsInv, NEW b \in Blocks, Work(b)
    PROVE  TagsInv'
<1>1. PICK n, tags, m, due, rest, first, left : Working(b, n, tags, m, due, rest, first, left)
  BY WorkIs
<1>2. /\ live[b] /\ b # Source /\ n \in Nat /\ n > 0 /\ n <= Len(queue[b])
      /\ Splits(b, n, tags, m, due, rest)
      /\ first = SubSeq(queue[b], 1, n) /\ left = SubSeq(queue[b], n + 1, Len(queue[b]))
      /\ UNCHANGED <<live, delayed, made, tagged, restarts>>
  BY <1>1 DEF Working
<1>3. /\ made \in Nat /\ mailbox \in [Blocks -> Seq(Message(made))]
      /\ queue \in [Blocks -> Seq(0 .. made)] /\ input_tags \in [Blocks -> Seq(TagRec)]
      /\ input_tags_changed \in [Blocks -> BOOLEAN] /\ items_consumed \in [Blocks -> Nat]
      /\ total_items_consumed = items_consumed /\ total_items_produced \in [Blocks -> Nat]
  BY DEF TagsInv, Types
<1>4. PICK s : s = Stream(left, mailbox[b])
  OBVIOUS
<1>5. /\ first \in Seq(0 .. made) /\ left \in Seq(0 .. made)
      /\ Len(first) = n /\ Len(left) = Len(queue[b]) - n
      /\ \A k \in 1 .. n : first[k] = queue[b][k] /\ Streams[b][k] = queue[b][k]
      /\ \A k \in 1 .. Len(left) : left[k] = queue[b][n + k]
      /\ Len(Streams[b]) = n + Len(s)
      /\ \A k \in 1 .. Len(s) : s[k] = Streams[b][n + k]
  <2>1. Types /\ b \in Blocks /\ n \in Nat /\ n <= Len(queue[b])
    BY <1>2 DEF TagsInv
  <2>2. Begins(b, n, SubSeq(queue[b], 1, n), SubSeq(queue[b], n + 1, Len(queue[b])))
    BY ONLY <2>1, StreamBegins
  <2>3. Begins(b, n, first, left)
    BY <1>2, <2>2
  <2>4. QED
    BY <1>4, <2>3 DEF Begins
<1>6. /\ Len(queue[b]) \in Nat /\ Len(queue[b]) <= Len(Streams[b]) /\ Len(Streams[b]) \in Nat
      /\ \A k \in 1 .. Len(queue[b]) : Streams[b][k] = queue[b][k]
  <2>1. PICK l \in Nat : l = Len(queue[b])
    BY <1>3, LenProperties
  <2>2. PICK r : r = SubSeq(queue[b], l + 1, Len(queue[b]))
    OBVIOUS
  <2>3. PICK u : u = Stream(r, mailbox[b])
    OBVIOUS
  <2>4. l <= Len(queue[b]) /\ Types
    BY <2>1 DEF TagsInv
  <2>5. /\ r \in Seq(0 .. made) /\ Len(Streams[b]) = l + Len(u)
        /\ \A k \in 1 .. l : Streams[b][k] = queue[b][k]
    <3>1. l \in Nat /\ b \in Blocks
      BY <2>1
    <3>2. Begins(b, l, SubSeq(queue[b], 1, l), SubSeq(queue[b], l + 1, Len(queue[b])))
      BY ONLY <2>4, <3>1, StreamBegins
    <3>3. QED
      BY <2>2, <2>3, <3>2 DEF Begins
  <2>6. Len(u) \in Nat
    <3>1. PICK box \in Seq(Message(made)) : box = mailbox[b]
      BY <1>3
    <3>2. made \in Nat /\ r \in Seq(0 .. made)
      BY <1>3, <2>5
    <3>3. Stream(r, box) \in Seq(Nat)
      BY ONLY <3>1, <3>2, BoxOf
    <3>4. QED
      BY <2>3, <3>1, <3>3, LenProperties
  <2>7. QED
    BY <2>1, <2>5, <2>6
<1>7. PICK us : us = PropagateTags(due, b)
  OBVIOUS
<1>8. /\ us \in Seq(TagRec) /\ Len(us) = m
      /\ \A j \in 1 .. m :
             /\ us[j].item = due[j].item /\ due[j].item # Filler
             /\ \E k \in 1 .. n : /\ k <= Len(Streams[b]) /\ Streams[b][k] = due[j].item
                                  /\ us[j].offset = total_items_produced[b] + k - 1
  <2>1. n \in Nat /\ Splits(b, n, tags, m, due, rest)
    BY <1>2
  <2>2. /\ PropagateTags(due, b) \in Seq(TagRec) /\ Len(PropagateTags(due, b)) = m
        /\ \A j \in 1 .. m :
               /\ PropagateTags(due, b)[j].item = due[j].item /\ due[j].item # Filler
               /\ \E k \in 1 .. n : /\ k <= Len(Streams[b]) /\ Streams[b][k] = due[j].item
                                    /\ PropagateTags(due, b)[j].offset =
                                           total_items_produced[b] + k - 1
    BY <2>1, DueIs
  <2>3. QED
    BY <1>7, <2>2
<1>9. /\ due \in Seq(TagRec) /\ Len(due) = m
      /\ rest \in Seq(TagRec) /\ InOrder(rest)
  BY <1>2, SplitIs
<1>10. Sending(b, us, first)
  <2>1. first # <<>>
    <3>1. Len(first) > 0
      BY <1>2, <1>5
    <3>2. QED
      BY <3>1
  <2>2. mailbox' = PostDownstream(mailbox, b, Posts(us, first))
    BY <1>1, <1>7 DEF Working
  <2>3. made' = made
    BY <1>2
  <2>4. first \in Seq(0 .. made')
    BY <1>5, <2>3
  <2>5. made \in Nat /\ made' \in Nat /\ made <= made'
        /\ mailbox \in [Blocks -> Seq(Message(made))]
    BY <1>3, <2>3
  <2>6. us \in Seq(TagRec)
    BY <1>8
  <2>7. QED
    BY <2>1, <2>2, <2>4, <2>5, <2>6 DEF Sending
<1>11. /\ mailbox' \in [Blocks -> Seq(Message(made'))]
       /\ \A c \in Blocks : c # b + 1 => mailbox'[c] = mailbox[c]
  BY <1>10, SendTypes
<1>12. /\ queue' \in [Blocks -> Seq(0 .. made)] /\ queue'[b] = left
       /\ \A c \in Blocks \ {b} : queue'[c] = queue[c]
  BY <1>1, <1>3, <1>5 DEF Working
<1>13. /\ input_tags' \in [Blocks -> Seq(TagRec)] /\ input_tags'[b] = rest
       /\ \A c \in Blocks \ {b} : input_tags'[c] = input_tags[c]
  BY <1>1, <1>3, <1>9 DEF Working
<1>14. /\ input_tags_changed' \in [Blocks -> BOOLEAN]
       /\ \A c \in Blocks \ {b} : input_tags_changed'[c] = input_tags_changed[c]
  BY <1>1, <1>3 DEF Working
<1>15. /\ items_consumed' \in [Blocks -> Nat] /\ items_consumed'[b] = items_consumed[b] + n
       /\ \A c \in Blocks \ {b} : items_consumed'[c] = items_consumed[c]
       /\ total_items_consumed' = items_consumed'
       /\ total_items_produced' =
              [total_items_produced EXCEPT ![b] = total_items_produced[b] + Len(first)]
       /\ total_items_produced' \in [Blocks -> Nat]
  <2>1. /\ n \in Nat /\ Len(first) = n
    BY <1>2, <1>5
  <2>2. /\ items_consumed' = [items_consumed EXCEPT ![b] = items_consumed[b] + n]
        /\ total_items_consumed' =
               [total_items_consumed EXCEPT ![b] = total_items_consumed[b] + n]
        /\ total_items_produced' =
               [total_items_produced EXCEPT ![b] = total_items_produced[b] + n]
    BY <1>1 DEF Working
  <2>3. QED
    BY <1>3, <2>1, <2>2
<1>16. Types'
  BY <1>2, <1>11, <1>12, <1>13, <1>14, <1>15 DEF TagsInv, Types
<1>17. SourceEmpty' /\ EndedInOrder'
  BY <1>2, <1>11, <1>12, EndedStays
<1>18. SortedTags'
  BY <1>9, <1>13, <1>14 DEF TagsInv, SortedTags
<1>19. PICK D : D = [c \in Blocks |-> Stream(queue'[c], mailbox[c])]
  OBVIOUS
<1>20. PICK U : U = [c \in Blocks |-> TagsOf(input_tags'[c], mailbox[c])]
  OBVIOUS
<1>21. /\ D[b] = s /\ U[b] = TagsOf(rest, mailbox[b])
       /\ \A c \in Blocks \ {b} : D[c] = Streams[c] /\ U[c] = TagSets[c]
  BY <1>4, <1>12, <1>13, <1>19, <1>20 DEF Streams, TagSets, Coming
<1>22. Flow(D, U, items_consumed', total_items_produced)
  <2>1. \A c \in Blocks : D[c] \in Seq(Nat) /\ U[c] \in SUBSET TagRec
    <3>1. SUFFICES ASSUME NEW c \in Blocks PROVE D[c] \in Seq(Nat) /\ U[c] \in SUBSET TagRec
      OBVIOUS
    <3>2. PICK q \in Seq(0 .. made) : q = queue'[c]
      BY <1>12
    <3>3. PICK box \in Seq(Message(made)) : box = mailbox[c]
      BY <1>3
    <3>4. PICK ts \in Seq(TagRec) : ts = input_tags'[c]
      BY <1>13
    <3>5. made \in Nat
      BY <1>3
    <3>6. Stream(q, box) \in Seq(Nat)
      BY ONLY <3>2, <3>3, <3>5, BoxOf
    <3>7. TagsOf(ts, box) \subseteq TagRec
      BY ONLY <3>3, <3>4, <3>5, TagsOfType
    <3>8. QED
      BY <1>19, <1>20, <3>2, <3>3, <3>4, <3>6, <3>7
  <2>2. D \in [Blocks -> Seq(Nat)] /\ U \in [Blocks -> SUBSET TagRec]
    BY <1>19, <1>20, <2>1
  <2>3. QED
    BY <1>3, <1>15, <2>2 DEF Flow
<1>23. ASSUME NEW j \in 1 .. Len(mailbox[b]), mailbox[b][j].type = "tag"
       PROVE  /\ mailbox[b][j].tag \in TagSets[b]
              /\ mailbox[b][j].tag.offset >= items_consumed[b] + n
  <2>1. mailbox[b][j].tag \in TagSets[b]
    BY <1>23 DEF TagSets, TagsOf
  <2>2. Behind(mailbox[b])
    BY DEF TagsInv, AllBoxed, Boxed
  <2>3. PICK i \in j + 1 .. Len(mailbox[b]) : \E k \in 1 .. Len(mailbox[b][i].items) :
            mailbox[b][i].items[k] = mailbox[b][j].tag.item
    BY <1>23, <2>2 DEF Behind
  <2>4. PICK k \in 1 .. Len(mailbox[b][i].items) :
            mailbox[b][i].items[k] = mailbox[b][j].tag.item
    BY <2>3
  <2>5. i \in 1 .. Len(mailbox[b])
    BY <2>3
  <2>6. PICK l \in Len(queue[b]) + 1 .. Len(Streams[b]) :
            Streams[b][l] = mailbox[b][i].items[k]
    BY <2>4, <2>5, BoxInStream
  <2>7. l \in 1 .. Len(Streams[b]) /\ l > n
    BY <1>2, <1>6, <2>6
  <2>8. mailbox[b][j].tag.offset = items_consumed[b] + l - 1
    BY <2>1, <2>4, <2>6, <2>7, TagPlace
  <2>9. items_consumed[b] \in Nat /\ l \in Nat
    BY <1>3, <2>7
  <2>10. QED
    BY <1>2, <2>1, <2>7, <2>8, <2>9
<1>24. ASSUME NEW k \in 1 .. Len(rest)
       PROVE  rest[k] \in TagSets[b] /\ rest[k].offset >= items_consumed[b] + n
  <2>1. m \in 0 .. Len(tags) /\ Len(tags) \in Nat /\ Len(rest) = Len(tags) - m
        /\ rest[k] = tags[m + k]
    BY <1>2, SplitIs, SMTT(30) DEF Splits
  <2>2. m + k \in m + 1 .. Len(tags) /\ m + k \in 1 .. Len(tags)
    BY <2>1
  <2>3. tags[m + k].offset >= items_consumed[b] + n
    BY <1>2, <2>2 DEF Splits
  <2>4. PICK j \in 1 .. Len(input_tags[b]) : tags[m + k] = input_tags[b][j]
    BY <1>2, <2>2 DEF Splits
  <2>5. QED
    BY <2>1, <2>3, <2>4 DEF TagSets, TagsOf
<1>25. Consumes(Streams, TagSets, items_consumed, D, U, items_consumed', b, n)
  <2>1. n <= Len(Streams[b]) /\ Len(D[b]) = Len(Streams[b]) - n
        /\ \A k \in 1 .. Len(D[b]) : D[b][k] = Streams[b][n + k]
    <3>1. Len(s) \in Nat
      BY <1>21, <1>22, LenProperties DEF Flow
    <3>2. QED
      BY <1>2, <1>5, <1>21, <3>1
  <2>2. \A t \in U[b] : t \in TagSets[b] /\ t.offset >= items_consumed[b] + n
    BY <1>21, <1>23, <1>24 DEF TagsOf
  <2>3. \A c \in Blocks \ {b} : U[c] \subseteq TagSets[c]
    BY <1>21
  <2>4. QED
    BY <1>2, <1>15, <1>21, <2>1, <2>2, <2>3 DEF Consumes
<1>26. OnWay(Streams, TagSets, items_consumed, total_items_produced)
  BY DEF TagsInv, AllOnWay
<1>27. /\ OnWay(D, U, items_consumed', total_items_produced)
       /\ \A j \in 1 .. n : Streams[b][j] # Filler =>
              \A c \in Blocks : \A k \in 1 .. Len(D[c]) : D[c][k] # Streams[b][j]
  <2>1. PICK C : C = Streams
    OBVIOUS
  <2>2. PICK T : T = TagSets
    OBVIOUS
  <2>3. PICK vsed : vsed = items_consumed'
    OBVIOUS
  <2>4. PICK used : used = items_consumed
    OBVIOUS
  <2>5. PICK prod : prod = total_items_produced
    OBVIOUS
  <2>6. OnWay(C, T, used, prod) /\ Flow(D, U, vsed, prod) /\ Consumes(C, T, used, D, U, vsed, b, n)
    BY <1>22, <1>25, <1>26, <2>1, <2>2, <2>3, <2>4, <2>5
  <2>7. /\ OnWay(D, U, vsed, prod)
        /\ \A j \in 1 .. n : C[b][j] # Filler =>
               \A c \in Blocks : \A k \in 1 .. Len(D[c]) : D[c][k] # C[b][j]
    BY ONLY <2>6, ConsumeKeeps
  <2>8. QED
    BY <2>1, <2>3, <2>5, <2>7
<1>28. Fresh(D, first)
  <2>1. \A j \in 1 .. Len(first) : first[j] = Streams[b][j] /\ j \in 1 .. Len(Streams[b])
    BY <1>2, <1>5, <1>6
  <2>2. Once(Streams)
    BY <1>26 DEF OnWay
  <2>3. \A j, k \in 1 .. Len(first) : first[j] = first[k] /\ first[j] # Filler => j = k
    BY <2>1, <2>2 DEF Once
  <2>4. QED
    <3>1. Len(first) = n
      BY <1>5
    <3>2. SUFFICES ASSUME NEW j \in 1 .. Len(first), first[j] # Filler,
                          NEW c \in Blocks, NEW k \in 1 .. Len(D[c])
                   PROVE  D[c][k] # first[j]
      BY <2>3 DEF Fresh
    <3>3. j \in 1 .. n /\ Streams[b][j] = first[j]
      BY <2>1, <3>1
    <3>4. Streams[b][j] # Filler
      BY <3>2, <3>3
    <3>5. QED
      BY <1>27, <3>3, <3>4
<1>29. TagsFit(b, us, first)
  <2>1. ASSUME NEW j \in 1 .. Len(us)
        PROVE  /\ us[j].item # Filler
               /\ \E k \in 1 .. Len(first) : first[k] = us[j].item
                      /\ us[j].offset = total_items_produced[b] + k - 1
    <3>1. j \in 1 .. m
      BY <1>8
    <3>2. PICK k \in 1 .. n : Streams[b][k] = due[j].item
                              /\ us[j].offset = total_items_produced[b] + k - 1
      BY <1>8, <3>1
    <3>3. first[k] = us[j].item
      BY <1>5, <1>8, <3>1, <3>2
    <3>4. QED
      BY <1>5, <1>8, <3>1, <3>2, <3>3
  <2>2. ASSUME NEW k \in 1 .. Len(first), first[k] \in tagged'
        PROVE  HasTag(us, first[k])
    <3>1. k \in 1 .. n /\ k \in 1 .. Len(queue[b]) /\ k \in 1 .. Len(Streams[b]) /\ k <= n
          /\ first[k] = queue[b][k] /\ first[k] = Streams[b][k]
      BY <1>2, <1>5, <1>6
    <3>2. HasTag(input_tags[b], Streams[b][k])
      BY <1>2, <2>2, <3>1 DEF TagsInv, AllBoxed, Boxed, AheadOfQueue
    <3>3. HasTag(due, Streams[b][k])
      BY <1>2, <3>1, <3>2, TagsSplit
    <3>4. QED
      BY <1>8, <1>9, <3>1, <3>3 DEF HasTag
  <2>3. QED
    BY <2>1, <2>2 DEF TagsFit
<1>30. ASSUME NEW l \in n + 1 .. Len(Streams[b]), HasTag(input_tags[b], Streams[b][l])
       PROVE  HasTag(rest, Streams[b][l])
  <2>1. l \in 1 .. Len(Streams[b]) /\ ~ (l <= n)
    BY <1>2, <1>6
  <2>2. QED
    BY <1>2, <1>30, <2>1, TagsSplit
<1>31. \A c \in Blocks : Boxed(queue'[c], mailbox[c], input_tags'[c], tagged')
  <2>1. PICK q : q = queue[b]
    OBVIOUS
  <2>2. PICK box : box = mailbox[b]
    OBVIOUS
  <2>3. PICK ts : ts = input_tags[b]
    OBVIOUS
  <2>4. PICK G : G = tagged
    OBVIOUS
  <2>5. Boxed(q, box, ts, G)
    BY <2>1, <2>2, <2>3, <2>4 DEF TagsInv, AllBoxed
  <2>6. \A k \in n + 1 .. Len(q) : HasTag(ts, q[k]) /\ q[k] \in G => HasTag(rest, q[k])
    <3>1. SUFFICES ASSUME NEW k \in n + 1 .. Len(q), HasTag(ts, q[k]) PROVE HasTag(rest, q[k])
      OBVIOUS
    <3>2. k \in n + 1 .. Len(Streams[b]) /\ q[k] = Streams[b][k]
      BY <1>2, <1>6, <2>1
    <3>3. QED
      BY <1>30, <2>3, <3>1, <3>2
  <2>7. \A j \in 1 .. Len(box) : \A k \in 1 .. Len(box[j].items) :
            HasTag(ts, box[j].items[k]) /\ box[j].items[k] \in G
                => HasTag(rest, box[j].items[k])
    <3>1. SUFFICES ASSUME NEW j \in 1 .. Len(box), NEW k \in 1 .. Len(box[j].items),
                          HasTag(ts, box[j].items[k])
                   PROVE  HasTag(rest, box[j].items[k])
      OBVIOUS
    <3>2. PICK l \in Len(queue[b]) + 1 .. Len(Streams[b]) : Streams[b][l] = box[j].items[k]
      BY <2>2, BoxInStream
    <3>3. l \in n + 1 .. Len(Streams[b])
      BY <1>2, <1>6, <3>2
    <3>4. QED
      BY <1>30, <2>3, <3>1, <3>2, <3>3
  <2>8. /\ n \in Nat /\ Len(left) \in Nat /\ Len(q) = n + Len(left)
        /\ \A k \in 1 .. Len(left) : left[k] = q[n + k]
    BY <1>2, <1>5, <1>6, <2>1
  <2>9. Boxed(left, box, rest, G)
    BY ONLY <2>5, <2>6, <2>7, <2>8, ConsumeBox
  <2>10. SUFFICES ASSUME NEW c \in Blocks
                  PROVE  Boxed(queue'[c], mailbox[c], input_tags'[c], tagged)
    BY <1>2
  <2>11. CASE c = b
    BY <1>12, <1>13, <2>2, <2>4, <2>9, <2>11
  <2>12. CASE c # b
    BY <1>12, <1>13, <2>12 DEF TagsInv, AllBoxed
  <2>13. QED
    BY <2>11, <2>12
<1>32. AllBoxed' /\ AllOnWay'
  <2>1. \A c \in Blocks : /\ D[c] = Stream(queue'[c], mailbox[c])
                          /\ U[c] = TagsOf(input_tags'[c], mailbox[c])
                          /\ Boxed(queue'[c], mailbox[c], input_tags'[c], tagged')
    BY <1>19, <1>20, <1>31
  <2>2. Sends(b, us, first, D, U)
    BY <1>10, <1>15, <1>16, <1>27, <1>28, <1>29, <2>1 DEF Sends
  <2>3. QED
    BY <2>2, SendKeeps
<1>33. QED
  BY <1>16, <1>17, <1>18, <1>32 DEF TagsInv

LEMMA InvNext == ASSUME Drained, TagsInv, [Next]_vars PROVE TagsInv'
<1>1. CASE SourceWork
  BY <1>1, SourceWorkKeeps
<1>2. CASE Restart
  BY <1>2, RestartKeeps
<1>3. ASSUME NEW b \in Blocks, HandleInputTag(b) PROVE TagsInv'
  BY <1>3, HandleTagKeeps
<1>4. ASSUME NEW b \in Blocks, HandleInputBuffer(b) PROVE TagsInv'
  BY <1>4, HandleBufferKeeps
<1>5. ASSUME NEW b \in Blocks, DelayWork(b) PROVE TagsInv'
  BY <1>5, DelayWorkKeeps
<1>6. ASSUME NEW b \in Blocks, Work(b) PROVE TagsInv'
  BY <1>6, WorkKeeps
<1>7. ASSUME NEW b \in Blocks, MarkDone(b) PROVE TagsInv'
  BY <1>7, MarkDoneKeeps
<1>8. CASE UNCHANGED vars
  <2>1. UNCHANGED vars
    BY <1>8
  <2>2. Types' /\ SourceEmpty' /\ EndedInOrder' /\ SortedTags' /\ AllBoxed'
    BY <2>1 DEF TagsInv, vars, Types, SourceEmpty, EndedInOrder, SortedTags, AllBoxed
  <2>3. Streams' = Streams /\ TagSets' = TagSets
    BY <2>1 DEF Streams, TagSets, Coming, vars
  <2>4. AllOnWay'
    BY <2>1, <2>3 DEF TagsInv, AllOnWay, vars
  <2>5. QED
    BY <2>2, <2>4 DEF TagsInv
<1>9. QED
  BY <1>1, <1>2, <1>3, <1>4, <1>5, <1>6, <1>7, <1>8 DEF Next

LEMMA TagsAlways == ASSUME Drained PROVE Spec => []TagsInv
<1>1. Init => TagsInv
  BY InvInit
<1>2. TagsInv /\ [Next]_vars => TagsInv'
  BY InvNext
<1>3. QED
  BY <1>1, <1>2, PTL DEF Spec

\* The tags of a block, as the properties name them.
LEMMA TagsAre ==
    ASSUME TagsInv, NEW b \in Blocks
    PROVE  /\ TagsAt(b) = TagSets[b]
           /\ Coming(b) = Streams[b] /\ DOMAIN Coming(b) = 1 .. Len(Streams[b])
           /\ DOMAIN queue[b] = 1 .. Len(queue[b])
           /\ DOMAIN input_tags[b] = 1 .. Len(input_tags[b])
<1>1. /\ queue[b] \in Seq(0 .. made) /\ input_tags[b] \in Seq(TagRec)
      /\ mailbox[b] \in Seq(Message(made))
  BY DEF TagsInv, Types
<1>2. /\ DOMAIN queue[b] = 1 .. Len(queue[b]) /\ DOMAIN input_tags[b] = 1 .. Len(input_tags[b])
      /\ DOMAIN mailbox[b] = 1 .. Len(mailbox[b])
  BY <1>1, LenProperties
<1>3. Coming(b) = Streams[b]
  BY DEF Streams
<1>4. Streams[b] \in Seq(Nat)
  BY FlowOfTypes DEF TagsInv, Flow
<1>5. DOMAIN Streams[b] = 1 .. Len(Streams[b])
  BY <1>4, LenProperties
<1>6. TagsAt(b) = TagSets[b]
  BY <1>2 DEF TagsAt, TagSets, TagsOf
<1>7. QED
  BY <1>2, <1>3, <1>5, <1>6

-----------------------------------------------------------------------------
(* The results.                                                            *)

\* TagMarksItem, for a pipe that is stopped only when nothing is on its way: the offset
\* of a tag is the position of its item at every block that the item has yet to pass,
\* through any split into works, any order of equal tags and any delay.
THEOREM TagsMarkItems == ASSUME Drained PROVE Spec => []TagMarksItem
<1>1. TagsInv => TagMarksItem
  <2>1. SUFFICES ASSUME TagsInv, NEW b \in Blocks, NEW k \in DOMAIN Coming(b),
                        NEW t \in TagsAt(b), t.item = Coming(b)[k]
                 PROVE  t.offset = items_consumed[b] + k - 1
    BY DEF TagMarksItem
  <2>2. t \in TagSets[b] /\ k \in 1 .. Len(Streams[b]) /\ Streams[b][k] = t.item
    BY <2>1, TagsAre
  <2>3. QED
    BY <2>1, <2>2, TagPlace
<1>2. Spec => []TagsInv
  BY TagsAlways
<1>3. QED
  BY <1>1, <1>2, PTL

\* TagComesFirst: no decorated item is in the queue of a block before its tag.
THEOREM TagsComeFirst == ASSUME Drained PROVE Spec => []TagComesFirst
<1>1. TagsInv => TagComesFirst
  <2>1. SUFFICES ASSUME TagsInv, NEW b \in Blocks, NEW k \in DOMAIN queue[b],
                        queue[b][k] \in tagged
                 PROVE  \E j \in DOMAIN input_tags[b] : input_tags[b][j].item = queue[b][k]
    BY DEF TagComesFirst
  <2>2. AheadOfQueue(queue[b], input_tags[b], tagged)
    BY <2>1 DEF TagsInv, AllBoxed, Boxed
  <2>3. HasTag(input_tags[b], queue[b][k])
    BY <2>1, <2>2, TagsAre DEF AheadOfQueue
  <2>4. QED
    BY <2>1, <2>3, TagsAre DEF HasTag
<1>2. Spec => []TagsInv
  BY TagsAlways
<1>3. QED
  BY <1>1, <1>2, PTL

\* TagGoesWithItem: a tag is held by no block that its item has left behind.
THEOREM TagsGoWithItems == ASSUME Drained PROVE Spec => []TagGoesWithItem
<1>1. TagsInv => TagGoesWithItem
  <2>1. SUFFICES ASSUME TagsInv, NEW b \in Blocks, NEW t \in TagsAt(b)
                 PROVE  \E k \in DOMAIN Coming(b) : Coming(b)[k] = t.item
    BY DEF TagGoesWithItem
  <2>2. MarkedAt(Streams[b], TagSets[b], items_consumed[b])
    BY <2>1 DEF TagsInv, AllOnWay, OnWay, Marked
  <2>3. QED
    BY <2>1, <2>2, TagsAre DEF MarkedAt
<1>2. Spec => []TagsInv
  BY TagsAlways
<1>3. QED
  BY <1>1, <1>2, PTL
=============================================================================
