# Verification of atomic_queue_rs

TLA+ models of the queues of this crate and of the programs in `examples`, the
TLC runs that check them on small instances, and TLAPS proofs for every number of
threads and every capacity. Paths are relative to the crate (`src/...` is its
source directory, `examples/...` its examples).

## 1. The system

The crate offers four bounded queues, each a ring buffer shared by producer and
consumer threads through atomic operations. All four have the same two counters
and the same four operations.

| component | source | state | operations |
|---|---|---|---|
| counters | `src/common.rs` `AtomicQueueCommon` | `head`, `tail` (both `AtomicUsize`) | `was_size`, `was_empty`, `was_full` |
| `AtomicQueue`, `AtomicQueueB` | `src/atomic_queue.rs` | counters, `elements`: one word per slot, `0` means vacant | `try_push`, `try_pop`, `push`, `pop`, `new`, `drop` (B) |
| `AtomicQueue2`, `AtomicQueueB2` | `src/atomic_queue2.rs` | counters, `states` (EMPTY/FULL), `elements` (raw memory) | the same, with `TOTAL_ORDER` and `SPSC` as parameters, and `drop` |
| index geometry | `src/arch.rs`, `src/utils.rs` | none | `round_up_to_power_of_2`, `get_index_shuffle_bits`, `remap_index`, two index strategies |
| examples | `examples/basic_usage.rs`, `examples/benchmark.rs` | loop counters, local sums | a sum over one queue; a ping-pong over two |
| `OptimistAtomicQueueOps` | `src/common.rs` | none | retry loops around `try_push`/`try_pop`; nothing implements the trait |
| `AtomicValue` | `src/atomic_queue.rs` | one word | `load`, `store` with a `transmute_copy` between `T` and `usize` |
| spin hint, `Element`, throughput benches | | none | |

**How the parts interact.** A push claims an index by advancing `head` (a
`fetch_add` in `push`, a checked `compare_exchange` in `try_push`), a pop claims
one by advancing `tail`; index `i` belongs to slot `i mod capacity` (after
remapping). The two calls that claimed the same index meet in the slot: in
`AtomicQueue` through the word itself, in `AtomicQueue2` through the slot's
state. Threads share nothing else.

**What is hard.** Every claim uses counters read one or two steps earlier, with
relaxed loads. Claiming an index and touching its slot are separate steps, so
threads a lap apart (indices `i` and `i + capacity`) can be at the same slot at
once, and a thread may be suspended between them. Consumers advance `tail` before
they read, which makes room for producers too early. `head - tail` is an unsigned
subtraction of two moving numbers. Waiting loops wait for another thread that may
itself be waiting. Two raw blocks are allocated and freed by hand.

**What correctness means, per component.**
 - `AtomicQueue`: no index has two owners; the pop of index `i` returns what the
   push of index `i` stored; an element pushed stays until popped; `try_push` is
   refused only by a full queue and `try_pop` only by an empty one; a pop
   whose index was pushed returns.
 - `AtomicQueue2`: the same order and progress, plus: copies of an element never
   overlap a write of it, counters and slots stay matched, and `drop` destroys
   each element that was not popped exactly once.
 - geometry: the capacity is the least sufficient power of two, and consecutive
   indices fill all slots before they reuse one.
 - construction and destruction: nothing allocated is left, nothing dead is
   touched, whichever allocation fails.
 - the programs: they deliver every element and they end.

## 2. The modules

| module | what it is |
|---|---|
| `AtomicQueue` | the four operations of the word-element queue, one action per atomic operation |
| `AtomicQueueProperties` | its type invariant, safety, refusal and liveness properties |
| `AtomicQueueInvariant`, `AtomicQueueProofs` | its inductive invariants; the theorems |
| `RelaxedCounters`, `RelaxedCountersProofs` | `try_push` and `try_pop` with loads of the counters that may be stale; its theorems |
| `QueueObservers`, `QueueObserversProofs` | `was_size`, `was_empty` and `was_full`, asked by threads of `RelaxedCounters` between their calls; its theorems |
| `BasicUsage`, `BasicUsageProofs` | `examples/basic_usage.rs`, composed with `AtomicQueue`; its theorems |
| `AtomicQueue2` | the four operations and `drop` of the element-and-state queue, for both values of `TOTAL_ORDER` and of `SPSC` |
| `AtomicQueue2Properties` | its properties, with the refinement mapping to `BoundedFifo` |
| `BoundedFifo` | the abstract bounded first-in first-out queue, of the claims of `AtomicQueue`, of the elements of an SPSC `AtomicQueue2` and of the claims of a `TOTAL_ORDER` one |
| `AtomicQueue2Races` | `AtomicQueue2` without SPSC: what it delivers until two copies race, and in which order until a slot is crowded; the inductive invariants of both |
| `AtomicQueue2Invariant`, `AtomicQueue2Proofs` | the inductive invariant of an SPSC queue; types, no race, order; slots, counters and claims of a `TOTAL_ORDER` queue of any number of threads |
| `AtomicQueue2Refinement` | an SPSC queue implements `BoundedFifo`, and its drop; what a queue without SPSC delivers; the claims of a `TOTAL_ORDER` queue implement `BoundedFifo` |
| `PingPong` | the ping-pong of `examples/benchmark.rs`, two instances of `AtomicQueue2` |
| `PingPongInvariant`, `PingPongProofs` | its inductive invariant; its theorems |
| `Geometry` | `arch.rs`, the index strategies, the capacity and shuffle bits of all constructors, and the slot of an index, on machine words that wrap |
| `Digits` | what remapping an index is for: a swap of its two lowest digits |
| `QueueLifecycle` | `new` and `drop` of `AtomicQueueB`, `AtomicQueue2` and `AtomicQueueB2`, with failures; the arithmetic of `new` and of the slots is a parameter |
| `QueueLifecycleInvariant`, `QueueLifecycleProofs` | its inductive invariant; its theorems |
| `MCQueueLifecycle` | `QueueLifecycle` with the arithmetic of `Geometry` and the properties of that arithmetic |
| `MCAtomicQueue`, `MCQueueObservers`, `MCAtomicQueue2` | instances for TLC: symmetry, the suspended threads, and the bounds of the liveness properties |

### How state and actions correspond to the code

A step is one atomic memory operation and the local computation up to the next
one. `pc[t]` says before which operation thread `t` stands, `index[t]` and
`element[t]` are the locals `head` or `tail` and `element` or `current` of its
call.

| `AtomicQueue` action | code (`atomic_queue.rs`) |
|---|---|
| `CallTryPush`, `TryPushCheck`, `TryPushClaim` | `try_push`: load of `head`, load of `tail` and the test, `compare_exchange` |
| `Push` | `push`: `fetch_add` |
| `Store` | the store that ends both |
| `CallTryPop`, `TryPopCheck`, `TryPopClaim` | `try_pop`: load of `tail`, load of `head` and the test, `compare_exchange` |
| `Pop` | `pop`: `fetch_add` |
| `Take`, `Clear` | the load that finds a nonzero word; the store of zero and the return |

The four loads of counters take the value loaded as a parameter (`CallTryPushAt`,
`TryPushCheckAt`, `CallTryPopAt`, `TryPopCheckAt`). `AtomicQueue` gives them the
counter; `RelaxedCounters` gives them any value the counter has had since the
thread last read or wrote it (`view`), which is what a `Relaxed` load may return,
and lets a successful `compare_exchange` act on the last value.

`AtomicQueue2` has the same calls, followed by `AwaitEmpty`, `Write` (and
`Publish` with SPSC) for `do_push_any`, and `AwaitFull`, `Read` (and `Release`
with SPSC) for `do_pop_any`. Without SPSC the `compare_exchange` of `AwaitEmpty`
changes the state before `Write` copies the element, as in the code. Copies are
plain memory accesses: one that overlaps a write of the same slot may yield
`Torn`. `Drop` destroys what the full slots hold. It needs exclusive access, so
it is enabled only when no call is in progress.

`AtomicQueueB` and `AtomicQueueB2` implement the same methods with the same text
as `AtomicQueue` and `AtomicQueue2`; the definitions that gather the steps of a
method (`PushCall`, `PushStep`, `PopCall`, `PopStep`) are mapped to their lines.

`QueueLifecycle` follows one queue from `new` to the end of `drop`. Its constants
`NewCapacity`, `NewBits` and `SlotIndex` are the arithmetic of the constructors and
of `get_slot`; the run gives them the operators of `Geometry`, and the proofs take
any that fill the ring (`RingsFill`). `blocks` says
which blocks of memory are live, `cells` which atomics are initialised. Each
allocation succeeds, fails (the process aborts, after the clean-up of
`AtomicQueueB2` when it is the second) or has a layout that overflows (a panic).
Between `new` and `drop`, `Use` fills or empties a slot, for drop sees nothing
else of the calls. `DropSlot` is one round of drop's loop; a destructor may
panic in it, and then the boxes of `AtomicQueue2` are still freed and the raw
blocks of the other queues are not.

`BasicUsage` adds to `AtomicQueue` what each thread of the program does between
its calls: producers push `N .. 1`, consumers loop on `try_pop` until `None` or
`0`, main joins the producers and pushes one `0` for each consumer. The elements
are `u32`. `word` is the size of `usize` on the target, chosen at the start: on 4
bytes a store succeeds (`FinishPush`), on 8 the `transmute_copy` of
`src/atomic_queue.rs:47` panics after the claim (`StorePanics`), main's
`join().unwrap()` panics in turn (`JoinPanics`, `examples/basic_usage.rs:65`) and the
process ends with all its threads (`Running`). `PingPong` composes two queues in the
same way.

`QueueObservers` lets threads of `RelaxedCounters` (`Observers`) ask between their
calls: `LoadHead` is the first load, the same for all three questions, and `LoadTail`
the second, with the comparison or the subtraction. Both are relaxed, so each returns
any value from the asker's view to the counter's last one, and the tail may be older
than the head. The `head` that the code holds between the loads is
`view[o].head`. `QueueStep` is any step of the queue in between. Where overflow is
checked, `was_size` and `was_full` panic when the tail loaded is above the head.

History variables (`unsent`, `claimed`, `delivered`, `lapped`; `sent`,
`received`, `dropped`; `raced`, `crowded`; `poppers`,
`pushers`, `told`; `destroyed`, `held`) record what happened for
the properties; no guard of the code's steps reads them, except that a call of a
free client takes its argument from `unsent`, which makes elements unique.
`lapped` becomes TRUE when a push stores into, or a pop loads a nonzero word from,
a slot for which some smaller index has not been popped to the end. That is the
event after which nothing is promised by the code; the properties named
`...UntilLapped` hold up to it, for every mix of calls. In `AtomicQueue2` without
SPSC two events play that part: `raced` becomes TRUE when two copies of one slot, one
of them a write, are due at once, and `crowded` when two pushes or two pops have
claimed one slot and neither has left it.

Definitions that begin with "A weakening", "A slip" or the like (`KeepSlot`,
`TryPushClaimBlind`, ...) stand before the definition they distort and are used
nowhere: putting one in the place of the original must break a property.

## 3. The runs

| run | instance | what it shows |
|---|---|---|
| `aq_all_calls` | 2 producers, of which one may stop for ever anywhere, 2 consumers, 4 elements (one the vacant word), capacity 2, all calls, fair to the others | exclusive claims; order and retention until a slot is shared; order as long as the traffic fits the capacity; what refusals mean; a pop is blocked only by the producer of its own index; the inductive invariant |
| `aq_try_only` | 2 producers, 2 consumers, 4 elements, capacity 2, `try_push`/`try_pop`, overflow checks on | counters that others move between a call's loads and its claim never overfill or overdraw the queue; the claims implement `BoundedFifo` |
| `aq_relaxed` | 3 threads: one pushes, one pops, one does both and asks in between; 3 elements, capacity 2, stale loads | never overfull; overdrawn only once two consumers have claimed, by at most the consumers that wait for it; order until a slot is shared; what `was_full`, `was_empty` and `was_size` promise to the only thread that pushes or pops |
| `basic_usage` | 2 producers, main, 2 consumers, N = 2, capacity 4, `usize` of 4 and of 8 bytes, fair | the final sum is conserved, terminators come last, consumers end, or the process by a panic, unless one holds a terminator's index |
| `aq2_spsc` | 1 producer, 1 consumer, 4 elements, capacity 2, all calls, fair, overflow checks on | SPSC: no data race on an element, refinement of `BoundedFifo`, no leak and no double drop, progress of both sides; the inductive invariant |
| `aq2_mpmc` | 2 + 2 threads, 3 elements, capacity 2, all calls, `TOTAL_ORDER`, fair | slots and counters stay matched; two pushes or two pops at one slot are laps apart; nothing is lost or delivered twice until two copies race; each pop copies its own index's element until then or until a slot is crowded; balanced calls all return |
| `ping_pong` | 5 rounds on two queues of capacity 2, without SPSC and `TOTAL_ORDER`, fair | one element in flight, no push waits, both threads complete; the inductive invariant |
| `lifecycle` | all kinds of queue, 8-bit words, 14 sizes, 4 line widths, capacities up to 8 followed to the end | rounding, remapping, a lap fills every slot also across the wrap; `new` and `drop` leave nothing, touch nothing dead, destroy nothing twice; the inductive invariant |
| `aq_element_lost` (violation) | 1 producer, 1 consumer, `try_push`/`try_pop` | `tail` is advanced before the slot is read: an accepted element is overwritten |
| `basic_usage_hangs` (violation) | 1 producer, main, 2 consumers, N = 2, capacity 4, `usize` of 4 bytes, fair | a consumer that claims a terminator's index never returns, and the program does not end |
| `aq2_unwritten_read` (violation) | 1 producer, 1 consumer, `push`/`pop`, no SPSC | a slot is marked full before it is written: a pop returns uninitialised memory |
| `aq2_try_wedges` (violation) | 2 + 2 threads, `try_push`/`try_pop`, the default parameters | two `try_pop`s claim one slot and skip another: an element is never fetched and a call never returns |

**Bounds.** Elements (in the programs: `N` and `Rounds`) bound the pushes, and a
pop beyond the last element waits, so the state spaces are finite without any
other bound. Capacity 2 with three or four elements is the least size at which the
ring wraps, both slots exist, and two indices share a slot while a third does not;
capacity 1 makes every pair of indices share a slot and hides the difference. Two
producers are enough for a lost `compare_exchange` and for one to stop while the
other goes on; two consumers for two of them to hold indices a lap apart, or to
overdraw the queue. `aq_relaxed` gets these from three threads, one of them both a
producer and a consumer: as the thread that asks it can be the only pusher or the only
popper, or one of two, and it meets every other thread's claims. In `basic_usage`
capacity 4 is below the six pushes of the program, so slots are reused, and in
`ping_pong` five rounds go round the ring of two slots more than twice. In
`lifecycle` every 8-bit word occurs as an index, so rounding, remapping and laps are
checked of all of them and of every size. Only queues of capacity up to 8
(`LifeBound`) are followed beyond that; 4 is the least capacity that is shuffled with
two elements a line, and the shuffle with four, which starts at 16, is left to the
checks of `new`.
`SYMMETRY` is used only in runs without liveness properties. Deadlock is not
checked: threads may stop calling, a pop may wait for a push that nobody makes,
and a queue's life ends.

**Fairness.** `FairnessOf(T)` is weak fairness of the steps inside a call of the
threads in `T`: the operating system runs each of them, and each step of a call is
enabled until it is taken (a load that finds the wrong value changes nothing and is
no step). Threads outside `T` (`Suspended` in `aq_all_calls`) may stop between
any two steps. That stands for a thread that is descheduled, and equally for one
whose store panics after its claim. Starting a call is never fair in the queue
modules: nothing makes a client call. In the programs the calls follow from the
threads' loops, so each thread as a whole is weakly fair, up to the end of the
process. No strong fairness is assumed; a failed `compare_exchange` of a counter ends
the call in this code, and two threads that wait for one slot of `AtomicQueue2`
compete only finitely often since the counters bound the claims.

## 4. The proofs

### `AtomicQueue`

`AtomicQueueProofs` holds for any sets of producers and consumers (which may
overlap), any elements, any power-of-two capacity, any mix of calls and both
kinds of build. Its assumptions are `QueueAssumption` and
`PowerOfTwoAssumption` of `AtomicQueue`.

`SoleClaim` alone is not inductive, nor is order. The inductive invariant is
`IInv`: types, `SoleClaim`, `ClaimsRecorded` (a push in progress stores the
element it claimed its index for; a pop in progress holds an index below
`tail`), and, until `lapped`, `SlotsFaithful`. The heart of `SlotsFaithful` is
that a stored index has no unfinished smaller index on its slot. From it:
 - a store (`StoreStep`) destroys no element, since an undelivered stored element
   on the slot would be at a smaller index, which makes the store a lap, or at
   a greater one, whose own store would have been a lap;
 - a load (`TakeStep`) finds the element of its own index, since the only element
   in the slot is that of the only index in use there (`SoleUser`);
 - a clearing store (`ClearStep`) vacates a slot that holds just that element.

All other steps touch no slot. Nothing in the argument depends on what the loads
of the counters return, nor on which words are pushed, so the invariant is proved
for `LooseNext`, whose loads return any number and whose pushes take any word
(`LooseStep`); `AtomicQueue` (`NextIsLoose`), `RelaxedCounters` (`RelaxedIsLoose`)
and `BasicUsage` (`ProgramIsLoose`) are instances of it and inherit the invariant.

The refinement takes the queue of `BoundedFifo` to the elements claimed from `tail`
up to `head`, and its output to those below `tail`, so that the call takes effect at
its `compare_exchange`. A step that moves `head` finds room and one that moves
`tail` finds an element (`ClaimEffect`, from `CountersFaithful`); `SpanGrows` and
`SpanShrinks` say what the two stretches become. The elements themselves follow the
claims until a slot is shared (`FirstInFirstOut`), which a slow thread can bring
about even here; that is why the mapping is to the claims.

| theorem | what it states |
|---|---|
| `TypeCorrect`, `Invariance` | the types and the inductive invariant |
| `ExclusiveClaims` | no index has two owners |
| `FirstInFirstOut`, `NothingLost` | order and retention until a slot is shared |
| `FirstTurnInOrder` | order as long as both counters are at most the capacity, from `LapNeedsFullTurn`: sharing a slot takes an index of at least the capacity |
| `CountersBounded` | `tail <= head <= tail + Capacity` under `try_push` and `try_pop` alone, from `CountersFaithful`: what each local index says of the counters between its load and its claim |
| `ClaimsRefineFifo` | under `try_push` and `try_pop` alone the claims implement `BoundedFifo` |
| `RefusedOnlyWhenFull`, `RefusedOnlyWhenEmpty` | what a refusal means for any threads and any calls, from `LocalsBehind` |
| `SoleRefusedOnlyWhenFull`, `SoleRefusedOnlyWhenEmpty` | the sharper meaning with a single producer or a single consumer, from `LocalsFresh` |

### Stale loads, observers, and the example program

`RelaxedCountersProofs` adds `ViewsBehind` (no view is ahead of its counter). A push
that has passed the test still has room when it claims, because `tail` only grows
and the `compare_exchange` compares with the last `head` (`RoomLeft`). A sole popper
has an exact view of `tail` and a view of `head` no older (`SoleView`). For an
overdrawn queue, `TailAccounted` says that every claimed index is returned or in
the hands of a consumer, and one that no push has claimed is not returned until a
slot is shared; counting those consumers bounds the overdraft.

| theorem | what it states |
|---|---|
| `RelaxedInvariance`, `RelaxedFirstInFirstOut` | `IInv` and order, whatever the loads return |
| `RelaxedNeverOverfull`, `RelaxedSolePopper`, `RelaxedOverdraft` | what remains of `CountersBounded` under relaxed loads |

`QueueObserversProofs` lets any of these threads ask, and every load be stale. The
asking changes nothing but a view, which moves up and stays behind the counters
(`AskingSees`), so what holds of the queue still does (`ObserversHarmless`). To a
thread that only asks, the answers promise nothing (section 5). To one that alone
pushes they do, because a counter that one thread moves is never old to that thread:
its view of `head` is exact, and its view of `tail` within the capacity of it
(`ExactHead`). A `was_full` that says false has therefore seen less than `Capacity`
between the two, and as `tail` only grows and `head` stands still until that thread
claims, so it remains (`RoomKept`). The only thread that pops has an exact `tail`
(`SoleView`, `ExactTail`) and a view of `head` no older; `was_empty` says false when
that view is ahead, and it stays ahead until the thread claims (`ElementKept`). The
only steps that refuse a call are its second load and its `compare_exchange`
(`RefusalOfPush`, `RefusalOfPop`), and these invariants exclude both, except that a
`try_push` may load a `tail` that pops have run past `head`.

| theorem | what it states |
|---|---|
| `ObserversHarmless` | the properties of `RelaxedCounters`, with threads that ask |
| `NotFullIsKept` | to the only thread that has pushed, `was_full` false promises a push that is not refused, unless the queue is overdrawn |
| `NotEmptyIsKept` | to the only thread that has popped, `was_empty` false promises a pop that is not refused |
| `SizeIsOnSafeSide` | `was_size` never reports too much to the only popper, nor too little to the only pusher |

`BasicUsageProofs` is about any number of producers and consumers and any `N`; the
sets of threads are finite (`UsageAssumption`), and on either kind of target: a panic
leaves the queue and the loops as they are (`PanicsLeave`). The program's queue keeps
`IInv`. The
sum that the program checks at its end is spread over the consumers' `local_sum`s,
the indices claimed and not returned, and what the producers still have to push
(`Conserved`): a claim moves an element from the third part to the second
(`ClaimAdds`), a return from the second to the first (`ReceiptMoves`), and it is
`IInv` that makes the returned element the claimed one. The sums are folds of the
library, in an order that `CHOOSE` fixes. Its induction theorems cannot be applied
here, so the facts about sums (that they exist, that any member may be taken out,
that one value changed changes the sum by as much) are proved by taking a least
set that fails: finite sets have no infinite descent (`LeastSubset`).

| theorem | what it states |
|---|---|
| `ProgramInvariance` | `IInv` in the program |
| `TerminatorsComeLast` | every terminator's index is behind every element's |
| `SumConserved` | no element is lost or counted twice on the way, until a slot is shared |

### `AtomicQueue2`

For SPSC queues the assumptions are `Queue2Assumption` and `SingleAssumption` (one
producer, one consumer), with any capacity, power of two or not. The inductive
invariant `SpscInv` speaks of two counts: `Returned`, the pops that have returned,
and `Visible`, the pushes that have published. The full slots are exactly those of
the indices between the two, at most `Capacity` in a row; the producer's and the
consumer's labels say how far each is from moving its count. `SlotsApart` (fewer
than `Capacity` consecutive indices use different slots) turns that into the absence
of races. The refinement maps the queue of `BoundedFifo` to the sent elements
between the two counts: every step puts one (`PutMaps`), gets one (`GetMaps`) or
leaves the mapped state alone (`QuietMaps`). For the drop, elements are distinct, so
what the full slots hold is what was sent and not received. The invariant also says
whom the ring makes wait: a slot of the next index to publish is full only when
`Capacity` indices are between the counts, and that of the next to return is empty
only when none is (`WaitingProducer`, `WaitingConsumer`).

For `TOTAL_ORDER` queues without SPSC, `EverySlotBalanced` counts, slot by slot, the
indices claimed and the threads that wait, for any finite number of threads. A
claim adds one lap on the slot of the index it compared (`OneMoreLap`) and one
waiter on the same slot, and the end of a wait turns a waiter into a state. Where the
two counts are equal, an empty slot has as many waiting pushes as pops and a full one
has a waiting pop more, so some thread that waits there finds what it waits for
(`StuckSlot`).

`OwnersLapsApart` needs less: a claim takes the index at which its counter stands,
which is above every index owned so far (`OwnerAdded`), and no other step makes an
owner (`OwnersKept`); two different indices on one slot are `Capacity` apart
(`SlotsApart`). The claims of `try_push` and `try_pop` then implement `BoundedFifo`, as
those of `AtomicQueue` do: `CountersFaithful` says what a call's index tells of the
counters when the `compare_exchange` succeeds, and `ClaimedElements` that a producer
which has not claimed holds an element (`StepClaims`).

All that is about indices. Of the elements `TOTAL_ORDER` promises less: without SPSC a
pop may find its slot marked full and not yet written (`aq2_unwritten_read`). What is
left is stated up to that event, which `AtomicQueue2Races` records as `raced`. Until
then (`RaceInv`) an element sent is in one place only: with the push that has claimed
and not copied it, in a slot that is full and written or is being read, or received
(`EachSomewhere`, `NowhereTwice`). A step that sets a slot's state keeps the places
(`AwaitRaces`) because the thread that set the state last has copied, else the
step would be the race; and a thread copies alone (`CopiesAlone`), so a copy moves an
element from one place to the next (`CopyEnds`). This holds for both values of
`TOTAL_ORDER`: two pushes at one slot may overtake each other, and nothing is lost.

Order is lost by that overtaking, and `crowded` records where it could start. With
`TOTAL_ORDER`, until a slot is raced or crowded (`TurnInv`), the threads at a slot hold
the last index claimed for it (`LastLap`), pushes and pops pass a slot in turn, lap by
lap (`Turns`), and a slot whose push has copied holds that index's element
(`OwnElements`). A slot has at most one open index (`OpenOnce`), so a push that finds it
empty knows that the pop of the lap before has passed (`EmptyTurn`), and a pop that
finds it full that its own push has (`FullTurn`). No other word in the slot tells one
lap from the next; that is why a pair of threads a lap apart, which the type permits,
is all it takes to lose the order. `RaceInv` and `TurnInv` were checked with TLC on the
instance of `aq2_mpmc` before they were proved; the run keeps the two properties that
follow from them.

| theorem | what it states |
|---|---|
| `SpscInvariance`, `SpscTypeCorrect` | the inductive invariant and the types |
| `SpscNoRace`, `SpscInOrder` | no copy overlaps a write; first in, first out |
| `SpscImplementsFifo` | `Spec` implements `BoundedFifo` |
| `SpscWaitsOnlyAtLimits` | a push waits only while that queue is full, a pop only while it is empty |
| `SpscEachOnce` | drop and pops together take every element once |
| `OwnersLapsApart` | under `TOTAL_ORDER`, two pushes or two pops at one slot are laps apart |
| `EverySlotBalanced` | pushes and pops are matched slot by slot under `TOTAL_ORDER` |
| `BalancedQueueNeverStuck` | where they are as many, one of the threads that wait can go on |
| `TotalOrderClaimsRefineFifo` | under `TOTAL_ORDER` the claims of `try_push` and `try_pop` implement `BoundedFifo` |
| `RaceInvariance`, `NothingLostUntilRaced` | without SPSC, until two copies race: one place for each element; nothing lost, invented, delivered or dropped twice |
| `TurnInvariance`, `OwnElementUntilCrowded` | under `TOTAL_ORDER`, until two copies race or two calls crowd a slot: slots pass in turn; each pop copies its own index's element |

### `PingPong`

`PingPongProofs` holds for any number of rounds, any capacity, and both values of
`SPSC` and `TOTAL_ORDER`. It is about the counters, the slots' states and the turn the
threads take: that no index is skipped and no slot overrun here does not come from the
queues, whose default parameters promise little, but from the way the two threads use
them. Of what the copies yield it says nothing; without SPSC a pop may copy before the
push has written (`aq2_unwritten_read`), here as elsewhere.
`OneInFlight` and `PushNeverWaits` say nothing of how far the
threads are and are not inductive. The invariant `PingPongInv` first ties the
counters to the rounds of the loops (`CountsFollowRounds`: a thread's label says
whether its call has claimed its index), then states the turn the effects of the
calls take (`LockStep`): the pops of the second queue, its pushes, the pops of the
first and its pushes are each as many as the next or one less, around the circle.
So at most one slot of the two rings is full, that of the last push, and the slot
of the next push, at most one index further, is empty whatever the capacity. Under
SPSC the slot stays full while its element is copied (`TakenWhileFull`), else it is
empty from the `compare_exchange` on. That no thread waits for ever needs that a thread
which waits in its pop waits for one that is still going (`NoDeadlock`): if both
waited, ping would have pushed once more than pong has popped
(`PingStuckCounts`, `PongStuckCounts`), which is an element in the first queue, and its
slot would be full.

| theorem | what it states |
|---|---|
| `PingPongInvariance`, `ThreadsInLockStep` | the inductive invariant, and its turn |
| `AtMostOneInFlight` | the two queues never hold two elements |
| `NoPushWaits` | no push finds its slot taken |
| `NeverDeadlocked` | the threads never wait for each other, nor for one that has ended |

### `QueueLifecycle`

`QueueLifecycleProofs` holds for all kinds of queue, any sizes, and any arithmetic
for which a lap of indices fills the ring (`RingsFill`), which is all that drop needs
of it. The invariant `LifeInv` says which cells and blocks `new` has made
(`BeforeDrop`), that in round `cursor` of drop's loop the slots of the rounds before,
and no others, have been dropped (`InDrop`), and that nothing is left (`AfterDrop`).
A mapping onto a finite ring is one to one (`RingInjection`), so the loop, which
goes through indices and not slots, meets each slot once (`VisitsAll`).

`RingsFill` is checked of the arithmetic of `Geometry` by TLC (`LapFillsEverySlot`).
The provers know nothing of bit operations, but what `remap_index` is for can be
proved without them: it swaps the two lowest digits of the index (`RemapSwapsDigits`,
checked for every word), and a swap of digits maps a ring onto itself when the
capacity is a multiple of the square of the base (`SwappedRingFills`), since it is its
own inverse (`SwapTwice`) and does not leave the ring (`SwapInRing`). That is why
`get_index_shuffle_bits` compares the array with a square of lines.

| theorem | what it states |
|---|---|
| `LifeInvariance` | the inductive invariant |
| `DropVisitsLiveCells` | drop's loop stays in the array and touches each cell once |
| `DropDestroysOnce` | every element that is left is destroyed once, and no other |
| `AllBlocksFreed` | no block outlives a drop, nor a `new` that gives up |
| `SwappedRingFills` | swapping digits fills the ring |

### Only model-checked

 - Liveness (`EveryServedUntilLapped`, `EveryPairServed`, `BalancedCallsReturn`,
   `ConsumersEndUntilLapped`, `BothComplete`): the prover has no rule for fairness.
   The safety that three of them rest on, that of the threads which wait some can go
   on, is proved (`SpscWaitsOnlyAtLimits`, `BalancedQueueNeverStuck`, `NeverDeadlocked`).
 - `RoundUpIsLeast`, `RemapSwapsDigits` and `LapFillsEverySlot`: they are about the
   bit operations of `Geometry`, which no prover here knows. They are functions
   of their arguments, and TLC checks them of every 8-bit word.

### Proved and in no run of their own

Each run keeps the strongest properties of its question. `CountersBounded` and
`SpscInOrder` follow from the refinements that `aq_try_only` and `aq2_spsc` check. The
invariants `RaceInv`, `TurnInv`, `WaitsOnlyAtLimits`, `BalancedNeverStuck` and
`NoDeadlock` were checked with TLC on the instances of `aq2_mpmc`, `aq2_spsc` and
`ping_pong`, and the refinement of `TotalOrderClaimsRefineFifo` on 2 + 2 threads with
`try_push` and `try_pop` (without `TOTAL_ORDER` TLC finds it violated), before they
were proved.

## 5. Where code and documentation disagree

Each violation run of section 3 is a finding, listed with its quoted line in
`PROJECT.json`. Noted while modelling, without a run of their own:
 - `push` never waits for room in the word-element queues, although
   `src/common.rs:118` says it does: it overwrites what the slot holds. (It is the
   same slot sharing as in `aq_element_lost`, reached with fewer steps.)
 - While a consumer waits in `pop` on an empty `AtomicQueue`, `tail` is ahead of
   `head`, the difference wraps, and every `try_push` is refused. A producer that
   retries, as `optimist_push` does, and that consumer wait for each other for ever.
   `RefusedPushMeansFull` names the case (`head < tail`).
 - Under relaxed loads, `try_pop` tests for an empty queue by `tail == head`. A new
   tail and an old head are unequal, so with two or more consumers `tail` can pass
   `head`; from then on every `try_pop` with fresh loads claims and waits, and
   every `try_push` with fresh loads is refused, until `push`es bring `head` back.
 - `try_push` and `try_pop` also return false and `None` when another thread wins
   the `compare_exchange`, although `src/common.rs:108` and `113` name a full and
   an empty queue as the only reasons. In `examples/basic_usage.rs:36` a consumer
   ends on the first `None`, so it may end with nothing received; elements and
   terminators are then left in the queue and the final sum is short.
 - The ping-pong of `examples/benchmark.rs` and `benches/latency.rs` pushes
   `i` from 0, and 0 is the vacant word of `AtomicQueue` and `AtomicQueueB`: their
   first round never ends. `PingPong` is about the element-and-state queues, which
   have no such word.
 - In `examples/benchmark.rs` each consumer of the throughput benchmark waits for
   `MESSAGES_PER_PRODUCER` messages (line 93) while all producers together send that
   many (line 120): with two or more pairs it cannot complete.
 - A queue built for 3 elements accepts a fourth, because the size is rounded up;
   the tests `test_atomic_queue_full` and `test_atomic_queue2_full` expect a
   refusal.
 - The three questions load both counters `Relaxed`, so a thread that only asks may
   combine a new `head` with an old `tail`: with two elements pushed and popped it may
   read 2 and 0, and on a queue of capacity 2 `was_full` is true, `was_size` 2 and
   `was_empty` false, of a queue that is empty. `was_empty` can also be true although
   the queue held elements at every moment of the call (a push and the pops of all it
   had held fall between the two loads). `src/common.rs:70`, `79` and `88` warn of
   inaccurate results; line `132` says "Checks if the queue was empty during this
   call". What the answers are still good for is `NotFullMeansRoom`,
   `NotEmptyMeansElement` and `SizeOnSafeSide`.
 - `examples/basic_usage.rs` makes an `AtomicQueueB::<u32>`. On a 64-bit target
   `src/atomic_queue.rs:47` copies a `usize` out of the `u32`, which panics, so the
   first push of every producer panics after its claim and main at its `join().unwrap()`
   (line 65); `tests/equivalence_test.rs:170` and `219` are disabled for the same reason.
   That the program may wait for ever (`basic_usage_hangs`) holds where `usize` has 4
   bytes.
 - `try_pop` waits for a producer that is suspended between its claim and its
   store; README.md calls the queues lock-free.
 - A layout that overflows for the elements of `AtomicQueueB2`, and an element
   destructor that panics in its `drop`, leave the raw blocks allocated.
   `NoBlockLeft` leaves these two cases out.

## 6. What is not modelled

 - *Weak memory of the slots.* Only the counters' loads are relaxed. The slots
   are read with Acquire and written with Release in `AtomicQueue`. In
   `AtomicQueue2` the relaxed store that frees an SPSC slot
   (`src/atomic_queue2.rs:117`) may come before the copy it follows; what then
   happens is a race on plain memory with no outcomes to choose from. Without SPSC
   nothing orders an element's copy after the `compare_exchange` for the other
   threads (there is no release after a push's copy), so `NothingLostUntilRaced` and
   `OwnElementUntilCrowded` are about a machine that keeps memory accesses in order.
 - *Counters at 2^64* in the queue modules; `lifecycle` covers the slot mapping
   across the wrap.
 - *Stale loads in the other modules.* Only `RelaxedCounters` and `QueueObservers` have
   relaxed loads of the counters. `AtomicQueue`, `BasicUsage`, `AtomicQueue2` and
   `PingPong` load the last value, as a machine with one order of all memory accesses
   does, and so what they show of refusals, refinement and progress is about such a
   machine; `ClaimsImplementFifo` in particular is false with stale loads and two
   consumers (`OverdraftHeldUntilLapped`). The inductive invariant `IInv` does not
   depend on what the loads return.
 - *`transmute_copy`*, but for the store of `BasicUsage` that panics. To the other threads
   of `AtomicQueue` a store that panics is a thread that stops, which `aq_all_calls` has.
 - *The throughput benchmarks*, timing and printing, the spin hint, `Element`'s
   list of types, and the helpers of `utils` that nothing calls.
 - The examples do not compile as they stand (imports, a `Default` bound); they are
   modelled as written.

## 7. What is left

 1. With `push` and `pop` too, an abstract queue of tickets that `AtomicQueue`
    implements, in which a claim may run ahead of the other side's.
 2. A relaxed release of the SPSC slot, with the reordering as an explicit step.
 3. Counters that wrap at the machine word in `AtomicQueue`.
