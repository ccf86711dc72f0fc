----------------------- MODULE AtomicQueue2Properties ------------------------
(***************************************************************************)
(* What AtomicQueue2 promises its callers.  The properties of the first    *)
(* part are those of a queue built with SPSC, which one producer and one   *)
(* consumer share; the second part is about several threads.               *)
(***************************************************************************)
EXTENDS AtomicQueue2, FiniteSets, SequencesExt

Labels == {"idle", "push_check", "push_claim", "offer", "write", "publish",
           "pop_check", "pop_claim", "wait", "read", "release", "panicked", "gone"}

Contents == Elements \cup {Uninit, Torn}

\* The ranges of the variables: the claimed indices are counted by sent, and no
\* more pops have returned than have claimed an index.
TypeOK ==
  /\ head = Len(sent)
  /\ tail \in Nat
  /\ states \in [0 .. (Capacity - 1) -> {"EMPTY", "FULL"}]
  /\ elements \in [0 .. (Capacity - 1) -> Contents]
  /\ pc \in [Threads -> Labels]
  /\ index \in [Threads -> Nat]
  /\ element \in [Threads -> Contents]
  /\ unsent \subseteq Elements
  /\ sent \in Seq(Elements)
  /\ received \in Seq(Contents)
  /\ Len(received) <= tail
  /\ dropped \subseteq Contents

(***************************************************************************)
(* One producer and one consumer                                           *)
(***************************************************************************)

\* No copy of an element into or out of a slot overlaps a write to that slot,
\* although the copies are plain memory accesses guarded by the states alone.
NoRace ==
  \A t, u \in Threads :
    t # u /\ pc[t] = "write" /\ pc[u] \in {"write", "read"}
      => Slot(index[t]) # Slot(index[u])

\* First in, first out: the consumer has received exactly the first elements
\* the producer sent, each whole, whatever mix of the four calls they make.
InOrder == IsPrefix(received, sent)

\* Once the queue has been dropped, every element sent has been received or
\* destroyed, and none both: no leak and no double drop.
EachOnce ==
  (\E t \in Threads : pc[t] = "gone") =>
    /\ ToSet(received) \cup dropped = ToSet(sent)
    /\ ToSet(received) \cap dropped = {}

\* The number of elements whose push has made them visible to a pop
Published ==
  Len(sent) - Cardinality({p \in Producers : pc[p] \in {"offer", "write", "publish"}})

\* The queue is a bounded first-in first-out queue: an element enters it when
\* its slot becomes full and leaves it when the slot becomes empty again.
Fifo == INSTANCE BoundedFifo
          WITH Values <- Elements, Bound <- Capacity, output <- received,
               queue <- SubSeq(sent, Len(received) + 1, Published)

ImplementsFifo == Fifo!Spec

\* A push waits only while the queue holds Capacity elements, and a pop only while
\* it holds none; so the two threads never wait for each other, also when each
\* has claimed its index long before.
WaitsOnlyAtLimits ==
  /\ \A p \in Producers :
       pc[p] = "offer" /\ states[Slot(index[p])] # "EMPTY"
         => Published - Len(received) = Capacity
  /\ \A c \in Consumers :
       pc[c] = "wait" /\ states[Slot(index[c])] # "FULL"
         => Published - Len(received) = 0

\* A pop whose index has been pushed returns, and a push whose slot a pop of
\* the lap before has claimed returns: the two wait for each other's state
\* changes only as long as they must.  Indices from Horizon on are not looked at.
PairsServed(Horizon) ==
  \A i \in 0 .. (Horizon - 1) :
    /\ (i < head /\ i < tail) ~> (i < Len(received))
    /\ (i < head /\ i < tail + Capacity) ~> (i < Published)

(***************************************************************************)
(* Several threads                                                         *)
(***************************************************************************)

\* The indices below n that fall on slot s
LapsOn(s, n) == {i \in 0 .. (n - 1) : Slot(i) = s}

\* The threads that wait for slot s
WaitingOn(s, label) == {t \in Threads : pc[t] = label /\ Slot(index[t]) = s}

\* Pushes and pops are matched slot by slot: the surplus of pushes on a slot is
\* its element and the pushes that wait for it, less the pops that wait.  So no
\* claim of try_push or try_pop goes to one slot while the counter moves past
\* another.
SlotsBalanced ==
  \A s \in DOMAIN states :
    Cardinality(LapsOn(s, head)) - Cardinality(LapsOn(s, tail)) =
      (IF states[s] = "FULL" THEN 1 ELSE 0)
        + Cardinality(WaitingOn(s, "offer")) - Cardinality(WaitingOn(s, "wait"))

\* The threads that wait for slot s, and whether one of them finds the state it
\* waits for
Stopped(s) == WaitingOn(s, "offer") \cup WaitingOn(s, "wait")
Served(s) == WaitingOn(s, IF states[s] = "EMPTY" THEN "offer" ELSE "wait") # {}

\* Where as many pops as pushes have claimed a slot, one of the threads that wait
\* for it can go on: the calls of a balanced queue are never all stuck.
BalancedNeverStuck ==
  \A s \in DOMAIN states :
    /\ Cardinality(LapsOn(s, head)) = Cardinality(LapsOn(s, tail))
    /\ Stopped(s) # {}
    => Served(s)

\* With TOTAL_ORDER no two pushes own one index and no two pops do: two of them
\* meet at a slot only a whole number of laps apart.  So what the slot's state
\* has to arbitrate is one lap and the next, and never two claims of one lap.
ClaimsApart ==
  \A t, u \in Threads :
    /\ t # u /\ Slot(index[t]) = Slot(index[u])
    /\ \/ {pc[t], pc[u]} \subseteq {"offer", "write", "publish"}
       \/ {pc[t], pc[u]} \subseteq {"wait", "read", "release"}
    => index[t] + Capacity <= index[u] \/ index[u] + Capacity <= index[t]

\* When as many pops as pushes have claimed an index, no call waits for ever.
BalancedCallsReturn ==
  (head = tail) ~>
    (head # tail \/ \A t \in Threads : pc[t] \notin {"offer", "wait"})

\* "The acquire operation synchronizes with the release operation in push"
\* (atomic_queue2.rs:253): a pop returns only what a push has wholly written.
OnlyWritten == ToSet(received) \subseteq Elements
=============================================================================
