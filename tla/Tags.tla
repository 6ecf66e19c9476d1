-------------------------------- MODULE Tags --------------------------------
(***************************************************************************)
(* Stream tags along a pipe of blocks: a tag decorates an item, by its     *)
(* absolute position in the stream, and each block passes the tags of the  *)
(* items it consumed on to its output.                                     *)
(*                                                                         *)
(* A tag is a message of its own, and so is the buffer with its item; two  *)
(* counters of a block tell which tags are due and where they go: the      *)
(* statistics, which consume() advances in the middle of work(), and the   *)
(* totals that get_consumed and get_produced return, advanced after it.    *)
(*                                                                         *)
(* Items have names, so that a tag can be held against the item it is for; *)
(* the blocks copy them, one for one, but for what a delay puts in front.  *)
(* A handler and the task it leads to are one step; offsets do not wrap:   *)
(* a tag is never behind what its block has produced.                      *)
(***************************************************************************)
EXTENDS Naturals, Sequences, Functions

CONSTANTS
    Length,         \* blocks in the pipe; the first is the source
    Delay,          \* items each block puts in front of its input
    Drained,        \* the pipe is stopped only when nothing is on its way
    MaxItems,       \* bound: items of the source
    MaxWork,        \* bound: items of one work()
    MaxRestarts     \* bound: restarts

Blocks == 1 .. Length
Source == 1
Filler == 0         \* an item of a delay

ASSUME TagsAssumption ==
    /\ Length \in Nat \ {0} /\ Delay \in [Blocks -> Nat] /\ Delay[Source] = 0
    /\ Drained \in BOOLEAN
    /\ MaxItems \in Nat /\ MaxWork \in Nat \ {0} /\ MaxRestarts \in Nat

VARIABLES
    mailbox,                        \* InputTag and InputBuffer of each block
    live,                           \* block_state
    queue,                          \* input_queues: the items of each
    input_tags, input_tags_changed,
    items_consumed,                 \* of the statistics
    total_items_consumed, total_items_produced,
    delayed,                        \* blocks that have produced their delay
    made,                           \* items the source has made
    tagged,                         \* items with a tag
    restarts                        \* bound: restarts so far

vars == <<mailbox, live, queue, input_tags, input_tags_changed, items_consumed,
          total_items_consumed, total_items_produced, delayed, made, tagged, restarts>>

Tag(offset, item)  == [offset |-> offset, item |-> item]
InputTag(t)        == [type |-> "tag", tag |-> t, items |-> <<>>]
InputBuffer(items) == [type |-> "buffer", tag |-> Tag(0, Filler), items |-> items]

\* the messages of one task, in their order
TagMsgs(ts)     == [k \in DOMAIN ts |-> InputTag(ts[k])]
BufferMsg(items) == IF items = <<>> THEN <<>> ELSE <<InputBuffer(items)>>
PostDownstream(box, b, msgs) ==
    IF b = Length THEN box ELSE [box EXCEPT ![b + 1] = @ \o msgs]

\* (mutant) the buffer is posted with the work, the tags after it
BufferFirst(ts, items) == BufferMsg(items) \o TagMsgs(ts)
Posts(ts, items)       == TagMsgs(ts) \o BufferMsg(items)

InOrder(ts) == \A j, k \in DOMAIN ts : j < k => ts[j].offset <= ts[k].offset

\* (mutant) in the order in which they came
AsTheyCame(ts) == {ts}

\* what a sort that need not be stable may make of them
Sorted(ts) ==
    {sorted \in {[k \in DOMAIN ts |-> ts[p[k]]] : p \in Bijection(DOMAIN ts, DOMAIN ts)} :
        InOrder(sorted)}
SortTags(b) == IF input_tags_changed[b] THEN Sorted(input_tags[b]) ELSE {input_tags[b]}

Due(t, b, n) == t.offset < items_consumed[b] + n

\* the tags before the first that is not due
Trimmed(ts, b, n) ==
    LET keeps == {k \in DOMAIN ts : ~Due(ts[k], b, n)}
        last  == IF keeps = {} THEN Len(ts) ELSE (CHOOSE k \in keeps : \A j \in keeps : k <= j) - 1
    IN  SubSeq(ts, 1, last)

\* (mutant) offsets of the input are taken for offsets of the output
KeepsOffset(t, b) == t
Moved(t, b) ==
    [t EXCEPT !.offset = @ + total_items_produced[b] - total_items_consumed[b]]
PropagateTags(ts, b) == [k \in DOMAIN ts |-> Moved(ts[k], b)]

---------------------------------------------------------------------------
Got(b)    == Head(mailbox[b])
Popped(b) == [mailbox EXCEPT ![b] = Tail(@)]

HandleInputTag(b) ==
    /\ mailbox[b] # <<>> /\ Got(b).type = "tag"
    /\ mailbox' = Popped(b)
    /\ IF live[b]
       THEN /\ input_tags' = [input_tags EXCEPT ![b] = Append(@, Got(b).tag)]
            /\ input_tags_changed' = [input_tags_changed EXCEPT ![b] = TRUE]
       ELSE UNCHANGED <<input_tags, input_tags_changed>>
    /\ UNCHANGED <<live, queue, items_consumed, total_items_consumed,
                   total_items_produced, delayed, made, tagged, restarts>>

HandleInputBuffer(b) ==
    /\ mailbox[b] # <<>> /\ Got(b).type = "buffer"
    /\ mailbox' = Popped(b)
    /\ queue' = IF live[b] THEN [queue EXCEPT ![b] = @ \o Got(b).items] ELSE queue
    /\ UNCHANGED <<live, input_tags, input_tags_changed, items_consumed,
                   total_items_consumed, total_items_produced, delayed, made, tagged,
                   restarts>>

\* the source decorates some of the items it makes, in any order
SourceWork ==
    /\ live[Source]
    /\ \E n \in 1 .. MaxWork : \E m \in 0 .. n : \E marks \in Injection(1 .. m, 1 .. n) :
        LET items == [k \in 1 .. n |-> made + k]
            at(k) == Tag(total_items_produced[Source] + k - 1, items[k])
        IN  /\ made + n <= MaxItems
            /\ mailbox' = PostDownstream(mailbox, Source,
                              Posts([j \in 1 .. m |-> at(marks[j])], items))
            /\ tagged' = tagged \cup {items[marks[j]] : j \in 1 .. m}
            /\ made' = made + n
            /\ total_items_produced' = [total_items_produced EXCEPT ![Source] = @ + n]
    /\ UNCHANGED <<live, queue, input_tags, input_tags_changed, items_consumed,
                   total_items_consumed, delayed, restarts>>

\* the first work() of a delay consumes nothing
DelayWork(b) ==
    /\ live[b] /\ b # Source /\ b \notin delayed
    /\ queue[b] # <<>>
    /\ delayed' = delayed \cup {b}
    /\ mailbox' = PostDownstream(mailbox, b,
                                 Posts(<<>>, [k \in 1 .. Delay[b] |-> Filler]))
    /\ total_items_produced' = [total_items_produced EXCEPT ![b] = @ + Delay[b]]
    /\ UNCHANGED <<live, queue, input_tags, input_tags_changed, items_consumed,
                   total_items_consumed, made, tagged, restarts>>

\* task_main around a work() that copies n items
Work(b) ==
    /\ live[b] /\ b \in delayed
    /\ \E n \in 1 .. MaxWork, tags \in SortTags(b) :
        LET due == Trimmed(tags, b, n)
        IN  /\ n <= Len(queue[b])
            /\ input_tags' = [input_tags EXCEPT ![b] = SubSeq(tags, Len(due) + 1, Len(tags))]
            /\ mailbox' = PostDownstream(mailbox, b,
                              Posts(PropagateTags(due, b), SubSeq(queue[b], 1, n)))
            /\ queue' = [queue EXCEPT ![b] = SubSeq(@, n + 1, Len(@))]
            /\ items_consumed' = [items_consumed EXCEPT ![b] = @ + n]
            /\ total_items_consumed' = [total_items_consumed EXCEPT ![b] = @ + n]
            /\ total_items_produced' = [total_items_produced EXCEPT ![b] = @ + n]
    /\ input_tags_changed' = [input_tags_changed EXCEPT ![b] = FALSE]
    /\ UNCHANGED <<live, delayed, made, tagged, restarts>>

\* mark_done releases what is queued, and leaves the counters
MarkDone(b) ==
    /\ live[b]
    /\ Drained => /\ mailbox[b] = <<>> /\ queue[b] = <<>>
                  /\ \A a \in 1 .. b - 1 : ~live[a]
    /\ live' = [live EXCEPT ![b] = FALSE]
    /\ queue' = [queue EXCEPT ![b] = <<>>]
    /\ input_tags' = [input_tags EXCEPT ![b] = <<>>]
    /\ UNCHANGED <<mailbox, input_tags_changed, items_consumed, total_items_consumed,
                   total_items_produced, delayed, made, tagged, restarts>>

\* start(), once all blocks have handled what was sent to them before
Restart ==
    /\ restarts < MaxRestarts
    /\ \A b \in Blocks : ~live[b] /\ mailbox[b] = <<>>
    /\ live' = [b \in Blocks |-> TRUE]
    /\ restarts' = restarts + 1
    /\ UNCHANGED <<mailbox, queue, input_tags, input_tags_changed, items_consumed,
                   total_items_consumed, total_items_produced, delayed, made, tagged>>

Init ==
    /\ mailbox = [b \in Blocks |-> <<>>]
    /\ live = [b \in Blocks |-> TRUE]
    /\ queue = [b \in Blocks |-> <<>>]
    /\ input_tags = [b \in Blocks |-> <<>>]
    /\ input_tags_changed = [b \in Blocks |-> FALSE]
    /\ items_consumed = [b \in Blocks |-> 0]
    /\ total_items_consumed = [b \in Blocks |-> 0]
    /\ total_items_produced = [b \in Blocks |-> 0]
    /\ delayed = {} /\ made = 0 /\ tagged = {} /\ restarts = 0

Next ==
    \/ SourceWork \/ Restart
    \/ \E b \in Blocks :
           \/ HandleInputTag(b) \/ HandleInputBuffer(b)
           \/ DelayWork(b) \/ Work(b) \/ MarkDone(b)

Spec == Init /\ [][Next]_vars

---------------------------------------------------------------------------
\* what is on its way to block b: items with their positions, tags
Upto(q, box) ==
    LET upto[k \in 0 .. Len(box)] == IF k = 0 THEN q ELSE upto[k - 1] \o box[k].items
    IN  upto
Stream(q, box) == Upto(q, box)[Len(box)]
Coming(b) == Stream(queue[b], mailbox[b])
TagsAt(b) ==
    {input_tags[b][k] : k \in DOMAIN input_tags[b]}
        \cup {mailbox[b][k].tag : k \in {j \in DOMAIN mailbox[b] : mailbox[b][j].type = "tag"}}

(* A tag has the position of its item, at every block: "the offset         *)
(* associates the object with the absolute position of an item" (tags.hpp) *)
(* wherever the item is still to be consumed, through any split of the     *)
(* stream into works, and through blocks that produced more than they      *)
(* consumed.                                                               *)
TagMarksItem ==
    \A b \in Blocks : \A k \in DOMAIN Coming(b) : \A t \in TagsAt(b) :
        t.item = Coming(b)[k] /\ t.item # Filler => t.offset = items_consumed[b] + k - 1

(* The tag of an item is there before the item: work() never sees a        *)
(* decorated item without its decoration (task_main propagates tags while  *)
(* it trims the inputs, and posts the buffers after that).                 *)
TagComesFirst ==
    \A b \in Blocks : \A k \in DOMAIN queue[b] :
        queue[b][k] \in tagged
            => \E j \in DOMAIN input_tags[b] : input_tags[b][j].item = queue[b][k]

(* Nothing is left of an item that was consumed: its tag went on with it,  *)
(* and does not decorate, or get propagated with, a later one (the sort    *)
(* and the trim of task_main, which stops at the first tag that is not due).*)
TagGoesWithItem ==
    \A b \in Blocks : \A t \in TagsAt(b) :
        \E k \in DOMAIN Coming(b) : Coming(b)[k] = t.item
=============================================================================
