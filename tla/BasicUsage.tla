----------------------------- MODULE BasicUsage ------------------------------
(***************************************************************************)
(* The program src/examples/basic_usage.rs around one AtomicQueueB: the    *)
(* producers push N .. 1, each consumer pops until try_pop returns None or *)
(* a 0, main joins the producers, pushes one 0 for each consumer and then  *)
(* joins the consumers.  The calls are those of AtomicQueue, step by step. *)
(* The elements are u32, which a slot stores only where usize is no wider: *)
(* on a 64-bit target the store of the first push panics, and main with    *)
(* it, which ends the process.                                             *)
(***************************************************************************)
EXTENDS AtomicQueueProperties, FiniteSetsExt

CONSTANTS
  N,          \* each producer pushes the elements from N down to 1
  Main,       \* the main thread, which pushes the terminators
  WordSizes   \* usize, in bytes, of the targets considered

ASSUME UsageAssumption ==
  /\ N \in Nat \ {0} /\ Elements = 0 .. N /\ Zero = 0
  /\ Main \in Producers \ Consumers /\ Producers # {Main}
  /\ WordSizes \subseteq {4, 8}
  /\ {"push", "try_pop"} \subseteq Calls
  /\ IsFiniteSet(Producers) /\ IsFiniteSet(Consumers)

VARIABLES
  left,      \* the next element of each producer; how many 0s main has to push
  at,        \* "looping" until the consumer's while loop ends, then "done"
  sums,      \* each consumer's local_sum
  word,      \* the size of usize in bytes
  panicked   \* main and the producers whose threads have panicked

program == <<left, at, sums, word, panicked>>
allVars == <<vars, program>>

Workers == Producers \ {Main}

ProgramInit ==
  /\ Init
  /\ left = [p \in Producers |-> IF p = Main THEN Cardinality(Consumers) ELSE N]
  /\ at = [c \in Consumers |-> "looping"]
  /\ sums = [c \in Consumers |-> 0]
  /\ word \in WordSizes
  /\ panicked = {}

\* p pushes v, and has one push less to make.
PushNext(p, v) ==
  /\ left[p] > 0
  /\ PushOf(p, v)
  /\ left' = [left EXCEPT ![p] = @ - 1]
  /\ UNCHANGED <<unsent, at, sums, word, panicked>>

\* A producer's loop
Produce(p) == p \in Workers /\ PushNext(p, left[p])

\* Every producer has ended its loop and its last call.
ProducersJoined == \A p \in Workers : left[p] = 0 /\ pc[p] = "idle"

\* A slip: main does not wait for the producers.
TerminateAtOnce == PushNext(Main, Zero)

\* Main pushes a 0, after the joins.
Terminate == ProducersJoined /\ PushNext(Main, Zero)

\* transmute_copy of a u32 to a usize panics where the usize is larger.
StoreFits == word <= 4

FinishPush(p) == StoreFits /\ Store(p) /\ UNCHANGED program

\* The store panics, and its thread goes no further: it stays before the store, and
\* the index it has claimed is never filled.
StorePanics(p) ==
  /\ ~StoreFits
  /\ pc[p] = "store" /\ p \notin panicked
  /\ panicked' = panicked \cup {p}
  /\ UNCHANGED <<vars, left, at, sums, word>>

\* Main unwraps the result of joining a producer that has panicked.  The order in
\* which it joins them is left open.
JoinPanics ==
  /\ panicked # {}
  /\ panicked' = panicked \cup {Main}
  /\ UNCHANGED <<vars, left, at, sums, word>>

\* The head of the consumers' loop
Poll(c) == at[c] = "looping" /\ CallTryPop(c) /\ UNCHANGED program

\* try_pop goes on.
Proceed(c) ==
  /\ TryPopCheck(c) \/ TryPopClaim(c) \/ Take(c)
  /\ pc'[c] # "idle"
  /\ UNCHANGED program

\* try_pop returns None, which ends the loop.
ReceiveNone(c) ==
  /\ TryPopCheck(c) \/ TryPopClaim(c)
  /\ pc'[c] = "idle"
  /\ at' = [at EXCEPT ![c] = "done"]
  /\ UNCHANGED <<left, sums, word, panicked>>

\* try_pop returns an element: 0 ends the loop, another is added up.
ReceiveSome(c) ==
  /\ Clear(c)
  /\ at' = [at EXCEPT ![c] = IF element[c] = Zero THEN "done" ELSE @]
  /\ sums' = [sums EXCEPT ![c] = @ + element[c]]
  /\ UNCHANGED <<left, word, panicked>>

\* A panic of main ends the process, and with it all other threads.
Running == Main \notin panicked

\* What each thread does next.  Main's own stores never panic: it gets to push only
\* after those of the producers have succeeded.
ProducerThread(p) == Running /\ (Produce(p) \/ FinishPush(p) \/ StorePanics(p))
MainThread == Running /\ (Terminate \/ FinishPush(Main) \/ JoinPanics)
ConsumerThread(c) ==
  Running /\ (Poll(c) \/ Proceed(c) \/ ReceiveNone(c) \/ ReceiveSome(c))

ProgramNext ==
  \/ \E p \in Workers : ProducerThread(p)
  \/ MainThread
  \/ \E c \in Consumers : ConsumerThread(c)

ProgramSpec == ProgramInit /\ [][ProgramNext]_allVars

\* The scheduler runs every thread that can take a step.
FairProgramSpec ==
  /\ ProgramSpec
  /\ \A p \in Workers : WF_allVars(ProducerThread(p))
  /\ WF_allVars(MainThread)
  /\ \A c \in Consumers : WF_allVars(ConsumerThread(c))

(***************************************************************************)
(* Properties                                                              *)
(***************************************************************************)

UpTo(n) == (n * (n + 1)) \div 2

Total(f, S) == MapThenSumSet(LAMBDA x : f[x], S)

\* The sum the program checks at its end, expected_sum, is never lost on the
\* way: until a slot is shared it is spread over the consumers' sums, the
\* indices that no pop has returned for, and the elements still to be pushed.
SumConservedUntilLapped ==
  ~lapped =>
    Total(sums, Consumers) + Total(claimed, DOMAIN claimed \ DOMAIN delivered)
      + Total([p \in Workers |-> UpTo(left[p])], Workers)
    = Cardinality(Workers) * UpTo(N)

\* The terminators claim their indices after all the elements, so no consumer
\* that takes indices in order meets one while elements remain behind it.
TerminatorsLast ==
  \A i, j \in DOMAIN claimed : claimed[i] = Zero /\ claimed[j] # Zero => j < i

\* A consumer's loop ends, or the process with it after a producer's panic, unless
\* the consumer has claimed the index of a terminator, whose 0 looks to it like a
\* slot that is not stored yet; or a slot has been shared.
ConsumerEnds(c) ==
  <>(\/ at[c] = "done" \/ ~Running \/ lapped
     \/ pc[c] = "wait" /\ index[c] \in DOMAIN claimed /\ claimed[index[c]] = Zero)

ConsumersEndUntilLapped == \A c \in Consumers : ConsumerEnds(c)

\* "Wait for all consumers to finish" (basic_usage.rs:73) comes to an end, on a target
\* where the elements fit.
AllJoined == <>(\A c \in Consumers : at[c] = "done")
=============================================================================
