# A TLA+ verification of GRAS

GRAS (the GNU Radio Advanced Scheduler) runs a signal-processing flow graph.
Every block of the graph is a Theron actor with a mailbox.  Blocks exchange
sample buffers, messages and tokens; there is no central scheduler.  A block
works when a message makes it look at its ports and finds input and room for
output, so the correctness of the system is the correctness of a few dozen
message handlers and of the bits and queues they keep.

This directory models those handlers, the memory that the buffers share, the
flow graph that the blocks form, and the registries, elements and calls of the
library around it, in TLA+.  TLC checks small instances, and TLAPS proves the
central invariants for every instance.

    tlc -config filter.cfg MCBlockActor      one block (filter, source, sink, accumulate)
    tlc -config stream.cfg BufferStream      the bytes of a connection
    tlc -config tags.cfg MCTags              the tags of a pipe of blocks
    tlc -config flowgraph.cfg MCFlowgraph    a flow graph, started and waited for
    tlc -config library.cfg MCLibrary        factory, elements, calls
    tlapm BlockActorWakeup.tla               one module of proofs

## 1. Inventory

| Part | Source (under src/) | State it keeps | Operations | What makes it correct |
|---|---|---|---|---|
| Block actor | lib/*_handlers.cpp, task_*.cpp, gras_impl/block_actor.hpp, block_data.hpp | life cycle, tokens, done and available bits, port queues, messages | 23 handlers, task_main, mark_done, input_fail, output_fail | a workable block works; it ends exactly when it should; it lets go of everything when it ends |
| Input buffer queues | gras_impl/input_buffer_queues.hpp, simple_buffer_queue.hpp | per port: buffers, byte count, reserve, maximum, ready bit, auxiliary buffers | push (with stitching), front, accumulate, consume (with unstitching), fail, flush | the byte count is the length of the queue; the data comes out once and in order; a ready port delivers its reserve |
| Output buffer queues, pool | gras_impl/output_buffer_queues.hpp, buffer_queue_pool.cpp | per port: pool queue, reserve, ready bit, inline buffer | push, front, consume, pop, fail, flush, set_buffer_queue | no buffer is lost or used twice; a ready port has room for its reserve; the port does not get stuck |
| Circular queue | buffer_queue_circ.cpp, circular_buffer.cpp | write pointer, bytes available, acknowledgement index, returned buffers | front, pop, push | two buffers in use never overlap; buffers return in the order they left |
| Reference-counted buffers | sbuffer.cpp, sbuffer.hpp | count, token, deleter | copy, release | the last release returns the buffer to its pool, or frees it once |
| Allocation | block_allocator.cpp | hints, tokens of downstream blocks | recommend_length, handle_top_alloc, input_alloc, output_alloc | the length satisfies every reserve when no cap forbids it |
| Calls and messages | block_calls.cpp, block_message.cpp, block.cpp | a copy of prio_token per message | _handle_call, post_input_*, commit_config | every call is answered; a call does not stop the block |
| Top block | top_block.cpp, element_impl.hpp | token, thread group | start, stop, wait, commit | wait returns exactly when all blocks are done |
| Hierarchy, elements | hier_block.cpp, element.cpp, element_uid.cpp, weak_container.cpp | tree, set of unique ids, flows, reference counts | construct, adopt, locate, get_uid, set_uid, connect, disconnect | ids are unique among living elements; parents and children agree; a flow keeps its blocks |
| Interruptible thread | gras_impl/interruptible_thread.hpp | two wait flags, the callable, a thread | call, run, destruction | call returns; destruction joins the thread |
| Time tags, stream tags | time_tag.cpp, tags.cpp, task_main.cpp:1-42 | seconds and ticks; tags per port | arithmetic; trim, propagate | normal form; tags travel with their item |
| Registries | callable.cpp, factory.cpp, jit_factory.cpp, module_loader.cpp | name to function, two mutexes | register, make, call, unregister, jit_factory | a function that runs stays registered; no lock is left behind; a call is answered once |
| Queries | top_block_query.cpp | none | stats, calls, topology | broadcasts are answered |

Parts interact in four ways: messages in actor mailboxes (all handlers); shared
tokens, reference-counted pointers whose use count is asked (prio_token,
input_tokens, output_tokens, the token of the top block, the containers of blocks); buffers whose last
release posts a message to the block that owns the pool; and the threads of the
user, which post messages, wait for answers, and in TopBlock::wait read the
state of a block without synchronisation.

What makes this code hard:

* *Nothing polls.*  task_main runs only when a handler calls it.  Each handler
  that can make the block workable must reach it, and each refusal must be
  followed by a message that makes it look again.
* *prio_token.*  A message that is answered carries a copy of the block's
  prio_token, and work() is refused while a copy exists, so that calls overtake
  work.  The copy in the sender's local message lives longer than the message.
* *Hand-kept bits.*  inputs_available, the ready bits, inputs_done and
  outputs_done summarise the queues and tokens and are updated by hand.
* *Ending.*  mark_done is reached from handlers and from work() in the middle
  of task_main, tokens are dropped and neighbours told to ask again, and each
  neighbour decides for itself.
* *Buffers cross blocks.*  Stitching joins contiguous buffers, consume splits
  them again, accumulate copies; the pool keeps half-used buffers.
* *Restart.*  start() on a running graph makes new tokens and new pools while
  messages of the old ones are under way.
* *Counters that are compared and never synchronised.*  The position of a tag
  is measured by one counter of a block and moved by two others.
* *Two threads in one actor.*  A block with interruptible_work runs work() in a
  thread of its own, on queues that have no lock.
* *User code under locks.*  make() runs the registered function with its mutex
  held, and a method may call the block of another, whose method calls back.

The full list of hazards, each at its line and with the properties about it, is
in PROJECT.json.

## 2. BlockActor: one block and its surroundings

`BlockActor.tla` models one block with any number of inputs and outputs, its
mailbox, its neighbours in the flow graph, the top block, and the threads that
call it.

State and code:

| Variable | Code |
|---|---|
| `mailbox` | the actor's mailbox; a message is its type, port, a number, and the thread that waits for its answer (`from`) and so the copy of prio_token it carries |
| `pc`, `checking` | where the handler that runs stands: idle, before `is_work_allowed` in task_main, in work(), after task_main in handle_input_check |
| `thrown` | the exception that left a handler, which ends the process |
| `block_state`, `holds_token` | BlockData::block_state; the top block's token in token_pool |
| `in[i]` | configuration and reserve; the buffers of `_queues[i]` as the positions at which they end; `_enqueued_bytes`; the bit in `_bitset`; the number of messages; the bits in inputs_available and inputs_done |
| `out[o]` | configuration and reserve; the number of buffers in the pool queue and the offset of the front one; the bits in `_bitset` and outputs_done |
| `pool`, `generation`, `away` | which pool is in place (0: none), how many were made, and the buffers of this pool held downstream |
| `upstream`, `downstream` | who holds the token of an input or output |
| `waiting`, `copies`, `top_step` | threads waiting for an answer; threads that own a copy of prio_token in a local message; the step of TopBlock::start |
| `missed`, `failed` | auxiliary: recorded for the properties, never read by the actor |

Each handler is one action (`HandleInputBuffer`, `HandleTopToken`, ...), with
its early returns as disjuncts.  A handler that reaches task_main is several
steps, because other threads append to the mailbox and take or drop copies of
prio_token between them: the handler up to task_main, `WorkRefused` or
`WorkStarts`, one of the four ends of work() (`WorkReturns`, `WorkFailsInput`,
`WorkFailsOutput`, `WorkMarksDone`) together with the post-work half of
task_main (`PostWork`), and for InputCheck the final test (`CheckInputDone`).
work() is the user's: it consumes and produces any amount its buffers allow.

The environment has an action per thing that others do: a neighbour sends,
ends, or drops the last reference to a buffer (buffer_returner); a thread calls
a property, queries statistics, commits a configuration; start() sends its five
broadcasts, each after the answers to the last; stop() and the polling of
wait() send TopInert.  `ReleaseCopy` is the end of the life of the sender's
local message, which the code leaves to scope: after the answer for a call, at
the end of the loop iteration for a broadcast.

Abstractions.  Lengths count items, so the bytes of an item and its fractions
are not seen.  Memory is not modelled: whether a pushed buffer is stitched to
its predecessor, and whether the rest of a front is unstitched, is free; the
next section decides both from memory.  Buffers come from pools, the default
allocator.  Tags are the business of section 6; inlining, preload, and
allocation by a downstream block are left out.  wait() polls a block that is not DONE (in the code every
block; the message has no effect on a DONE one) and has at most one poll under
way.  The initial state is the one after handle_topology.

## 3. BufferQueueCirc, BufferStream, ByteChannel: the bytes of a connection

`BufferQueueCirc.tla` is the circular queue: the write pointer, the bytes
available, the acknowledgement index, which buffers are available and which
came back, and how many bytes each held.  `CircPop` is front(), work() writing
`n` bytes, and pop(); `CircPush` is push(), whose loop is one `CircAck` per
buffer.  Pointers are offsets from the start of the first mapping; `Cell` is the
double mapping.  `behind` is an auxiliary variable, read by proofs only.

`BufferStream.tla` extends it to one connection: an output queue (the pool of
buffer_queue_pool.cpp or the ring, chosen by `kind`), the messages under way,
and the queue of the input, with the contents of all memory.  A handle is an
SBuffer: a buffer, its memory, offset, length, and the pointer `last` by which
stitching recognises contiguous memory.

| Action | Code |
|---|---|
| `ProducePool`, `ProduceRing` | work() fills part of the front output buffer, OutputBufferQueues::consume, pop() of the allocator, post_downstream |
| `PostUser` | work() calls post_output_buffer with a buffer it allocated |
| `ReturnToPool`, `ReturnToRing`, `AckRing` | the last handle of a buffer is gone; its token callback reaches push() of the allocator, at any time and in any order |
| `Deliver` | InputBufferQueues::push, with stitching |
| `WorkGathers` | front() accumulates because the front is below the reserve |
| `WorkFails` | mark_input_fail accumulates |
| `WorkConsumes` | consume, with unstitching |

`ByteChannel.tla` is what a connection promises: bytes come out once, in order,
unchanged.  Every produced byte has its own value, and the refinement
`IsChannel` maps the channel's contents to what the consumer would read through
its handles *from memory as it is now*.  A byte that is overwritten because its
buffer came back too early, moved by a wrong stitch, or found by a wrong
unstitch, is a step the channel does not have.

Abstractions.  A pointer is the memory it points into and an offset; two
allocations are never adjacent.  The constructor of SBuffer that allocates
leaves `last` uninitialised, so a buffer of the user's has either no `last` or
one that equals no other pointer.  Of the three auxiliary buffers no more than
two are queued at once.  Preload, inlining of an input buffer into an output,
get_output_buffer, changes of configuration and the end of a block are left out.

## 4. InterruptibleThread, Flowgraph: who runs, and when it is over

`InterruptibleThread.tla` is the special thread of a block with
interruptible_work, and the actor that hands it work: where each of the two
stands (`thread[b].at`, `caller[b]`), the flags wait_msg and wait_ack, whether
the callable is set, and a pending interruption.  The mutex is held while the
thread works, so it is not a variable: `Free` reads it off `at`.  One condition
variable serves both directions, and a notification wakes whoever waits.

`Flowgraph.tla` has any number of blocks joined by wires, and the thread of the
user.  Tokens are shared pointers; here a token is a name, and `Unique` looks
for it in the pools of all blocks and in the messages under way, as the
reference count does.

| Action | Code |
|---|---|
| `HandleTopThread`, `CreatesThread` | handle_top_thread_group: the old special thread goes, a new one comes |
| `HandleTopToken`, `HandleTopActive`, `HandleTopInert` | the handlers of block_handlers.cpp; the answer comes last |
| `HandleToken` | handle_input_token, handle_output_token |
| `HandleInputBuffer`, `HandleSelfKick` | up to task_main |
| `HandleInputCheck`, `CheckInput` | handle_input_check, before and after the task_main in it |
| `HandleOutputCheck` | handle_output_check |
| `Work`; `Calls`, `ThreadWorks`, `ThreadThrows`, `ThreadEnds`, `CallReturns` | work() in the actor's thread; in the special one, where it may also block |
| `ErasesThread`, `Ends`, `Tells` | mark_done: the thread, the release of the pool, the messages to the neighbours |
| `Start`, `Stop`, `Wait`, `SendTop`, `Answered`, `WaitPolls`, `WaitReturns` | TopBlock, bcast_prio_msg |

Abstractions.  A buffer is one item, and a reserve is 0 or 1.  Pools are
endless and buffers never come back; sections 2 and 3 have both.  The copy of
prio_token in the sender's local message, which section 2 is about, is left
out: it cannot be told apart here from a block that works late.  TopConfig,
TopAlloc and OutputHint are left out because their handlers change nothing that
this model has.  wait() polls a block that has an ended input whenever it
likes, the 100 ms being any time, with one poll under way at a time.

## 5. Tags: the position of a tag

`Tags.tla` is a pipe: a source that decorates some of its items, in any order,
blocks that copy what they consume, one of which puts an item of its own in
front, and a sink.  A tag is a message, and so is a buffer; `Work` sorts the
tags if any came (`SortTags`), trims those that are due by items_consumed
(`Trimmed`), moves them by total_items_produced and total_items_consumed
(`Moved`), and posts tags before buffers.  Items have names, so that the offset
of a tag can be held against the item it was made for.  `MarkDone` and
`Restart` are the end of a block and a new start(), which drop what is queued
and keep the counters.

Abstractions.  A handler and the task it leads to are one step, and a block
consumes as much as it produces but for its delay.  A user's own
propagate_tags is not modelled; nor are tags posted by a block in the middle.

## 6. Library: factory, elements, calls

Three components that user threads call outside a running flow graph, and
`Library.tla`, which composes them.  `Users.tla` declares threads and elements
for all three; `Arguments.tla` says when a list of arguments fits a function.

* `Factory.tla`: the registry, its mutex, the mutex of the engine monitor, and
  for each thread the stack of calls it is in.  A registered function is user
  code and may call make() or jit_factory() again, with the mutex held
  (`FunctionCalls`).  `FactoryInit` is the module loader: modules of a later
  search replace those of an earlier one, in any order within one.
* `ElementTree.tla`: the set of identifiers and its mutex, the pointer of each
  element, parents and children, the flows of hierarchical blocks, and which
  implementations exist.  set_uid is three steps, as its locks are; get_uid
  two.  Reference counts are modelled by what they keep: `Survivors` is the
  largest set of implementations in which each has a handle from outside or
  from within, so a cycle of adoptions keeps itself, as it does in the code.
  `GetRef` is what connect() does with an element in a container: the flow
  locks the container, and the object with it.
* `Callable.tla`: the registry of methods of each block, the mailboxes with
  calls, and where each caller stands.  A method may throw, call another block,
  or register and unregister methods while it runs (`CallRuns`, `CallNests`,
  `NestEnds`).  The result is converted by the caller after the method has run.

`Library.tla` lets a factory function create an element (`MakesElement`), the
constructor of which registers its methods (`Constructed`), and a thread be in
one call at a time.

Abstractions.  An argument is its type; a path, a name and an identifier are
members of small sets; one method name per block.  include/gras/detail's
callable.hpp and factory.hpp are the expansion of one template for 0 to 10
arguments, which the model writes once, for a sequence.  The compiler, the
engine and the dynamic loader succeed or fail.  A thread uses only objects that
no other destroys meanwhile, and does not destroy one that is being called:
the code has no protection there and asks for it in no words, and C++ has none.

## 7. Runs

| Run | Instance | Shows |
|---|---|---|
| `filter` | 1 input, 1 output, one caller, one monitor, mark_input_fail, two pushes | the main run of one block: wakeup, tokens, end; under fairness, workable blocks work, calls are answered, ended inputs end the block |
| `source` | no input, pool of two 4-item buffers, reserves 1 and 2, mark_output_fail, one commit, one restart | outputs move on, the pool is conserved over its replacement |
| `sink` | 2 inputs, messages on one, reserves 0 and 1, a monitor | the available bits are real, sync and async inputs end the block drained |
| `accumulate` | 1 input, buffers of up to 2 items, reserves 1 to 3, maximum 3, one commit, one restart | byte count, reserve at work(), availability |
| `stream` | 2 pool buffers of 3 bytes, or 2 ring buffers of 2 bytes beside a buffer of the user's; reserve 1 or 3, maximum 4, 7 bytes | the connection refines the channel; memory in use is disjoint; nothing waits for ever |
| `flowgraph` | a source with a special thread and two consumers of its output, one sync and one async; two starts, stop, wait | work() runs only inside call(); every block that nobody listens to has the message that ends it; what runs after wait() ended during the start; an ended input was drained |
| `flowgraph_live` | two sources and a sink, one source blocking in its special thread | stop() is answered; wait() returns |
| `tags` | source, a block with a delay of one item, sink; 4 items, works of up to 2, one restart when nothing is on its way | a tag has the position of its item, is there before it, and leaves with it |
| `library` | 2 threads, a hierarchical block, a block in a container and one that is not; 3 functions, 3 modules, 4 methods | locks, entries, identifiers, flows, the tree, and calls |
| `copy_holds_work` | a filter and a caller | *violation*: the kick can be refused because of the sender's copy |
| `stale_unstitch` | a pool, reserve 2, maximum 3, a buffer of the user's | *violation*: unstitching reads stale bytes |
| `tags_restart` | the pipe of `tags`, stopped while items are on their way | *violation*: new tags no longer have the position of their items |

Bounds.  `MaxFeed` pushes of up to `MaxChunk` items, `MaxCalls`, `MaxCommits`
and `MaxStarts` bound the environment; `MaxMailbox` stops the environment, not
the actor, at a mailbox length.  Two pushes suffice for one buffer to be queued
while another is worked on; three of up to two items suffice for a queue of
three buffers with a front below the reserve, a partial accumulation up to the
maximum, and a stitched buffer that is unstitched.  A pool of two buffers has
one in use, one away.  One commit and one restart are taken at every point of
every behaviour.  Deadlock is not checked: a flow graph that is done stops, and
so does a library whose user has nothing left to ask.

In `stream`, seven bytes fill the ring of four almost twice and the pool of six
more than once, so that the pointer wraps, every buffer is used again, and a
buffer is returned out of turn; a maximum of four under a reserve of three makes
accumulation stop inside a buffer, and its auxiliary buffer be unstitched.  A
pool is not mixed with buffers of the user's there, because of `stale_unstitch`.
Its reserve of three is one byte more than `PoolRoom` (section 8) covers for a
pool; it holds here, because a buffer of three bytes leaves the pool with the
first handle of two or more, so that no second one can be stitched to what an
accumulation left of it.

In `flowgraph`, `MaxMade` is the number of buffers a source sends between two
starts: one, which each consumer has queued, on its way, or consumed when
something ends.  Two starts make two generations of tokens.  Other shapes were
checked with the same properties, one or two starts, up to 9.4 million states,
and hold: a pipe, a join, a fan without a special thread, a triangle.

In `tags`, four items in works of up to two give every split in which a tag is
due in the first, the second or no work.  `Drained` says whether a block may be
ended with items under way.

In `library`, a thread makes up to `MaxUser` calls in all if they go to one
component, and `MaxMixed` if to several; `MaxCalls`, `MaxSteps` and `MaxX` bound
the calls of one kind, those made by registered code included.  Three suffice
for a call within a call that another thread's registration meets, for an
identifier that is being exchanged while another is taken and a third freed,
and for a method that calls a block that calls back.  The two threads are
symmetric: nothing names one of them, and the run has no liveness property.

Fairness (`filter`): the actor takes a step whenever it can (Theron runs an
actor with a non-empty mailbox, and work() returns), start() and the polling of
wait() proceed, a sender's local message is destroyed when its scope ends, and
downstream blocks release the buffers they get.  Nothing is assumed about the
upstream, or about callers.

Fairness (`flowgraph_live`): each block's handler goes on, and so do both sides
of the handshake with its special thread (Theron's threads and the operating
system's), the loop of bcast_prio_msg, and the two halves of the loop of wait().
A work() in a special thread is under no fairness: it may block for ever, unless
it is interrupted, when it throws (boost's interruption points, on which
stop() relies).  `WaitReturnsAfter` therefore has a premise, that the special
thread is again and again not in work(); `StopAnswered` has none.

### What the violations say

* *copy_holds_work.*  is_work_allowed asks `prio_token.unique()`.  A handler
  that answers kicks itself, because "work could have been skipped by a high
  prio msg", but the sender's own copy of the token can outlive that kick.  The
  kick is refused, and a workable block sleeps until something else arrives.
  `NoLostWakeup` is the property that does hold, with this case and the next
  recorded in `missed`.
* A commit of a smaller reserve (`missed = {"commit"}`) is the second
  exception: neither update handler calls task_main.
* *stale_unstitch.*  The producer fills a part of a pool buffer P, posts a
  buffer U of its own, and fills the rest of P.  The reserve makes the consumer
  accumulate P's first part, U, and some of the rest.  What is left of P has an
  offset and a `last` at the end of the accumulation, so after a consume the
  code takes the rest of the accumulation for the bytes before P's offset, and
  reads P's first part again where U's bytes should be.
* *tags_restart.*  Items that are queued or under way when a block ends are
  dropped without being counted as consumed, and a new start() keeps the
  counters: the upstream's count is ahead of the block's by what was dropped,
  and every new tag is taken for a later item.

Two things the model of a connection shows that no document contradicts.  A
produce takes a whole buffer out of a ring however little it wrote, and a
handle that was stitched empty keeps its buffer until it reaches the front, so
with a ring a reserve of more than an item may never be reached; `NeverStuck`
promises nothing there (for a pool it holds as long as all its buffers but one
hold the reserve: section 8, and the list below).  And a handle that was
stitched empty can be the front of the queue: with a reserve of 0 work() is then
called with no items although bytes are queued.

### Seen, and not kept as runs

With other values of the constants:

* an input with a message and fewer items than its reserve is made ready by
  update_has_msg, and front() asserts that the queue holds the reserve
  (`FrontHoldsReserve` fails with `MsgPorts = {1}`, `InReserves = {2}`);
* with two inputs mark_input_fail is undone by the update_has_msg at the end of
  the same task_main (`FailWaitsForInput` fails with `NumInputs = 2`);
* an output reserve larger than half a buffer is never met again after a small
  produce (`OutputNotWedged` fails with `OutReserves = {3}`, `OutSize = 4`), and
  so the block that calls mark_output_fail gets the rest of the same buffer,
  where block.hpp promises "a full size output buffer";
* a neighbour that is activated first and ends at once lets TopActive revive a
  DONE block that holds no token (`LiveHoldsToken` fails with
  `NeighboursFirst = TRUE`);
* inputs_available survives mark_done, so a restarted block may not end when its
  input does (`EndsWhenDrained` fails with `MaxStarts = 1`);
* accumulate() fills whole items only, and is_front_maximal compares with the
  maximum in bytes: with items of two bytes and a maximum of five its assertion
  fails (`AssertsHold` with `ItemSize = 2`, `Maximum = 5`); the default maximum
  of 65536 bytes is no multiple of, for example, 12;
* producer and consumer of a pool wait for each other when the buffers are too
  short for the reserve (`NeverStuck` fails with `PoolBuffs = 2`, `PoolLen = 5`,
  `Reserves = {4}`, `Maximum = 5`, `MaxBytes = 13`).  Of such a buffer 3 bytes
  are used before it leaves the pool.  An accumulation that stops inside a
  buffer lets the next handle of that buffer be stitched empty; it keeps the
  buffer when its bytes are gone, and 3 bytes in the other one are less than the
  reserve.  recommend_length (block_allocator.cpp:23) takes a length of at least
  every reserve, and then cuts it to the maximum of the output, or to 32 MiB.
  With the eight buffers of line 12 this is harmless until the cut leaves less
  than two sevenths of the reserve of a downstream block.

Written into the properties as their exception:

* wait() may return with blocks running: a block that ends between TopToken and
  TopActive has given its token back when TopActive makes it live again.
  top_block.hpp:47 says that wait() "will not return until all blocks in the
  topology have been marked done"; `WaitEndsAll` holds but for the blocks in
  `early`.
* a registered function that calls the factory deadlocks with itself, because
  make() holds a mutex that is not recursive; `DeadlockNeedsReentry` says that
  this is the only way to get stuck.
* a block that ends between TopToken and TopActive has released the new tokens
  of its consumers too.  TopActive makes it run, but its consumer sees an ended
  input, and may end with what it then sends still queued.  With the wires
  `Pipe` and `MaxStarts = 2`, `EndTakesAll` fails without its premise
  `~Hurried(From(w))`.
* work() that marks its block done in its special thread stops both for ever:
  mark_done destroys the thread it runs in.
* a cycle of adoptions, which nothing prevents, keeps its elements for ever, and
  locate_element from it does not return (`LocateLoops`).
* adopt_element takes any name that is free, also "", "." and "..", and
  locate_element gives these another meaning: such a child has a parent and is
  found by no path.  `TreeIsClosed` is about other names.
* an exception of a method whose what() is empty arrives as a value: only the
  text is looked at.  Text is not modelled.

## 8. Proofs

Eight modules hold theorems.  Each of them holds for every value of the
constants that satisfies the named assumptions of the module it extends, bounds
included.

*One block* (`BlockActorAssumption`: update_config raises the maximum to the
reserve; a pool has at least one buffer of at least one item; the sender Nobody
is not a thread).

* `BlockActorWakeup`, its first part: `Spec => []TypeOK`.  TypeOK alone is not
  inductive: consuming from an output needs a queued buffer.  The invariant
  `Typed` adds that a set bit in an output's `_bitset` has a buffer with room
  behind it, and that in work() every input and output is still ready.
* `BlockActorWakeup`: `Spec => []NoLostWakeup`.  `MailOK` says who may have a
  message with a copy of prio_token in the mailbox: setup messages only from the
  top block, only while start() has TopActive still to send.  So a queued copy
  always leads to task_main, and a refusal for the sake of a queued copy loses
  nothing; a refusal for another copy is recorded in `missed`.  `Awake` extends
  the property to the end of handle_input_check.  `TokenWhileLive` and
  `DoneLetsGo` are about the token and the end of a block.  `StartMail` says
  that the setup message in the mailbox is the last one start() sent, so
  TopActive is handled after TopToken.  `FirstStart` says that nothing ends the
  block before TopActive: that needs `MaxStarts = 0` and `~NeighboursFirst`,
  because a restart, or a neighbour that is activated first, really violates
  `LiveHoldsToken` (section 7).  `DoneIsReleased` holds without an assumption:
  no handler puts back what mark_done emptied (`Emptied`, `Released`), a restart
  included.
* `BlockActorQueues`: `EnqueuedIsLength`, `AvailableCoversQueue`,
  `DrainedBeforeDone` (an action property), and `OutputNotWedged` under the
  assumption that every reserve fits the half of a buffer that the pool keeps
  free.  `QueuesOK` adds to the two state properties what the ready bit says
  (`Exact`), because update_input_avail reads the bit before it recomputes it.
  `InputStep` lists what a step may do as one input sees it, and the rest is
  argued input by input: `AvailableIsReal` and, from it, `EndsWhenDrained` in
  the first start of a graph (the assumptions of `TokenWhileLive`; section 7 has
  the restart that violates it), `FrontHoldsReserve` in a block that is sent no
  messages, and `FailWaitsForInput` in a block with one input.
  `PoolConserved` counts the messages that bring buffers back (`Returns`): a
  step posts or takes at most one, but for handle_top_alloc, which posts a whole
  pool.  Its invariant `PoolInv` adds that no message has a buffer of a pool that
  is not made yet, so those that a former pool left in the mailbox are never
  counted for a new one.

*A connection and its ring* (`CircAssumption`: the ring can hold its buffers;
`StreamAssumption`: a maximum holds an item).

* `BufferStreamProofs`, the ring: `CircSpec => []NoOverlap` and `[]WriteIsSafe`,
  for every number and length of buffers.  The code keeps no list of what is in use;
  the invariant `CircInv` recovers it.  It orders the buffers by their distance
  from _ack_index: those that are out come first, then the available ones in the
  order of the queue (`QueueOrder`).  The buffers that are out lie one after
  another (`Ordered`) without a gap (`NoGap`) up to the write pointer, each
  where its distance behind the pointer says, modulo the ring (`Placed`).  So
  the oldest one bounds all, the byte count is the ring less that bound
  (`Counted`), and if a buffer is available, the bound leaves room for it.  That
  is why checking for one byte suffices.
* `BufferStreamProofs`, the connection: `Spec => CircSpec`, a refinement:
  whatever stitching, accumulation and unstitching do, the ring is only used as
  its own specification says, so both properties hold of a connection.
* `BufferStreamProofs`, the input queue: `StreamTypeOK`, `EnqueuedIsTotal` and
  `AssertsHold`, from `StreamInv`.  The queues hold handles into buffers, what
  they hold in sum is `_enqueued_bytes`, and only the front is ever an auxiliary
  buffer.  So an auxiliary buffer is free whenever accumulate() wants one, and
  nothing is ever stitched to it.  accumulate() walks the queue: `Total` and the
  walk are recursive functions of the round (`Loops`), so that what a push, a
  stitch or a copy adds to a sum is a lemma by induction.  `AssertsHold` needs
  that a maximum is a number of whole items: else accumulate() fills less than
  the maximum, and is_accumulated() stays false of a front that is full.
* `BufferStreamProofs`, what the bytes are: `StreamIsChannel`, the refinement of
  `ByteChannel`, and `BytesInOrder`.  Both say which bytes memory holds behind
  each handle, through joins that reach into the next buffer.  `LineInv` says
  that the handles of the queue, then those on their way, are a line: there is a
  place in the stream for the first byte of every buffer, by which each handle
  begins where the one before it ends and the last ends with what was produced,
  and memory holds the bytes of those places.  It has to say so from the start
  of a handle's buffer, not only from its offset: unstitching moves an offset
  back over bytes that were joined to the handle before, so bytes that nobody
  would read now can be read later.  Where two handles meet is decided by
  comparing pointers; that the pointers are right about the stream follows for
  the ring from `CircInv` (the distance of two handles in memory is that in the
  stream, and less than the ring), and for a pool from the order in which its
  buffers are filled.  A step then changes the line in one of four ways: it
  appends a handle, joins two, takes bytes off the front, or copies the front
  into an auxiliary buffer at the same place.  Both theorems assume `NoMix`, no
  buffer of the user's beside a pool: `stale_unstitch` is what happens with one.
* `BufferStreamProofs`, `StreamNeverStuck`.  A pool with no buffer left has all
  of them in the line.  They lie at least `Kept` bytes of the stream apart,
  which is what is used of a buffer before it leaves the pool, and every one but
  the first has lost nothing (`PoolFills`, with the counting in `Spread`), so the
  consumer has its reserve if all buffers but one hold it: that is the assumption
  `PoolRoom`, beside `NoMix`.  It cannot be weaker by a byte: section 7 has an
  instance that is stuck with one byte more.  For the ring, `RingInv` says that
  the oldest buffer is referred to only if a byte of the ring is in the line or a buffer is
  available.  It is the oldest that counts, because buffers that come back out
  of turn wait for it.  It lies before all others in the line, and what a handle
  gives away goes to the one before it: who takes the last byte of the ring has
  passed the oldest buffer.

*A flow graph* (`FlowgraphAssumption`: only blocks without inputs have a special
thread).

* `FlowgraphProofs`, `WorkInCall`.  The two flags say where the actor
  stands: a message that was not taken, or an answer that was not read, means
  that the actor is inside call() (`ThreadInv`); so a notification that comes
  too often, or a thread that ends and is made anew, cannot start a work().  It
  needs that the handler waits at "called" exactly while the actor is in call(),
  and that a thread which does not exist has both flags up.
* `FlowgraphProofs`, the end of a graph.  `FlowInv` says who has to answer a
  broadcast: the message that is queued, the TopInert whose mark_done is under
  way, or the thread that is being made, and only one of them.  So while start()
  waits for answers, the tokens it sent are out or have been handled, and nothing
  of an earlier broadcast is left.  `TopInv` gives `WaitEndsAll`: a block without
  the token of the TopBlock is DONE or in `early`.  `HeardInv` gives
  `EndIsHeard`: an output whose token is unique is marked, or an OutputCheck for
  it is queued, or a neighbour is about to send one.  `WiresInv` gives the action
  property `EndTakesAll`: while the upstream of a wire runs, the token of the
  wire is out, so that no end can be noticed, and no check for it is queued;
  once it has ended, no buffer of it is behind a check in the mailbox.  The three
  are argued by kinds of steps (`StepKinds`): one that starts, ends or tells of a
  block, one that moves a token, one of the user's thread, or one that does none
  of this.  The proof found the exception `hurried`, which no instance with a
  fan has: see section 7.

*The library* (`UsersAssumption`, `FactoryAssumption`, `TreeAssumption`,
`CallableAssumption`: kinds and finiteness of the constants).

* `FactoryProofs`: `EntryInUse` and `DeadlockNeedsReentry`, of the factory alone
  and of the whole library, which refines it (`LibraryUsesFactory`).  For the
  first, the invariant says that the frame that runs a function belongs to the
  thread in the mutex, that there is one such frame at most, and that its entry
  is the registered one.  For the second, `LocksInv` says which call holds each
  of the two mutexes, and how calls nest: only a registration is made while the
  monitor of the execution engine is held, so a thread that holds the monitor
  waits for the mutex, and a thread that holds the mutex, unless its function
  calls back, waits for nobody.
* `LibraryProofs`, elements: `UidsUnique`, `UidReadIsLive` and `FlowKeepsBlock`,
  of the elements alone and of the library, which refines them
  (`LibraryUsesTree`).  An identifier in the set has one owner, an element or a
  thread in the middle of set_uid, and set_uid exchanges the two.  A flow keeps
  its blocks because the survivors of a release are closed: the union of sets
  that hold themselves holds itself, so nothing that a survivor refers to is
  lost.
* `LibraryProofs`, the tree: `TreeIsClosed`, of the elements alone and of the
  library.  `BranchesOK` says that parents and children agree, also while the
  caller of adopt_element holds the only reference, and that an element which is
  not made yet has no parent.  The walk of locate_element is a recursive
  function of the node (`Along`), and so is the way to the root (`Ancestors`):
  one step up from a child is where the walk from its parent begins
  (`SameRoot`).  The assumption `NamesArePlain` is that no child is called "",
  "." or "..": adopt_element takes these names, and locate_element then does not
  find the child (section 7).
* `LibraryProofs`, calls: `CallIsPending` and `CallRunsOnce` of the library.
  Mailboxes hold a caller once, and only at the block it waits for; a caller
  whose method runs is in no mailbox (`PlacesOK`); a block outside a method
  calls nobody (`ServesOK`).  The count over all mailboxes in `CallIsPending` is
  one because a queue without repetition is no longer than the set of callers is
  large.

*Tags* (`TagsAssumption`).

* `TagsProofs`: `TagMarksItem`, `TagComesFirst` and `TagGoesWithItem`, for pipes
  of any length that are restarted only when nothing is on its way (`Drained`;
  section 7 has the restart that violates the first).  `TagsInv` has two parts.
  `OnWay` is about streams: what is queued at a block followed by what is in its
  mailbox.  An item is in one place at most, what a block has produced and the
  next has not consumed is in the stream between them, and a tag has the
  position of its item.  A work() is a consumption at the front (`ConsumeKeeps`)
  and then a production at the end of the next stream (`GetsKeeps`).  `Boxed` is
  about the order in a mailbox: a tag is in front of the buffer with its item,
  so the tag of a queued item has been received, and a tag that has not been
  received is not due.  The sort of the tags is not stable: the proof holds for
  every order of equal offsets (`SortTags` is the set of sorted permutations).

*Shared lemmas.*

* `Loops`: a loop of the code is a recursive function, whose value at k is that
  of the variable after round k; `LoopExists` says that it is the one that the
  equation describes, and `SetInduction` is induction on the rounds, over a set.

Only model-checked: `WorkHappens`, `CallsAnswered`, `EndsAfterInput`,
`StopAnswered` and `WaitReturnsAfter`.  They are liveness under fairness, which is
out of reach of the prover.  Every invariant and every action property that a
passing run checks is also stated by a theorem.

## 9. Not modelled

* Preload, inlining an input buffer into an output, get_output_buffer and
  pop_output_buffer, and the lengths of allocation (recommend_length, output
  hints, allocation by a downstream block).
* The migration of an actor to another thread pool in commit_config: Theron
  owns the actor, and the code that is here only moves references.
* The timed wait (its loop condition is read in PROJECT.json's hazards),
  destruction of a top block, a topology that changes while blocks run, and
  commit of a hierarchical block, which Apology flattens.
* Time tags are arithmetic on a pair of numbers, without a state.
* Clang, LLVM and the loader behind jit_factory and load_module; serialisation,
  JSON, the Python bindings, the query user interface, benchmarks and build
  files, which have no state machine of their own.

Theron and Apology are external libraries; a mailbox is a FIFO that loses
nothing, as Theron's is.

## 10. What is left

In order of importance:

1. Preload and the special buffer hooks in `BufferStream`; then liveness of a
   connection under the fairness of both blocks.
2. `Flowgraph` with the sender's copy of prio_token, to see a block left asleep
   in a graph, and with pools, to see a graph wait for its own buffers.
3. Allocation, as an operator checked against its specification over small
   lengths.
