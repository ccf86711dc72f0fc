-------------------------- MODULE AtomicQueue2Races --------------------------
(***************************************************************************)
(* AtomicQueue2 without SPSC, and what it delivers for how long.  Two      *)
(* history variables record the events after which nothing is promised:    *)
(*  - raced: two copies of one slot, of which one writes, have been due at *)
(*    once.  The compare_exchange of a slot's state comes before the copy, *)
(*    so a thread that finds its state may copy while another still does.  *)
(*  - crowded: two pushes, or two pops, have been at one slot at once.     *)
(*    Either may win the slot's state, and so the later overtake.          *)
(***************************************************************************)
EXTENDS AtomicQueue2Properties

VARIABLES raced, crowded

racingVars == <<vars, raced, crowded>>

\* Two pushes or two pops have claimed a slot and not left it.
Crowd ==
  \E t, u \in Threads :
    /\ t # u /\ Slot(index[t]) = Slot(index[u])
    /\ {pc[t], pc[u]} \subseteq {"offer", "write"} \/ {pc[t], pc[u]} \subseteq {"wait", "read"}

RacingInit == Init /\ raced = FALSE /\ crowded = FALSE

RacingNext ==
  Next /\ raced' = (raced \/ ~NoRace') /\ crowded' = (crowded \/ Crowd')

RacingSpec == RacingInit /\ [][RacingNext]_racingVars

RacingFairSpec == RacingSpec /\ Fairness

(***************************************************************************)
(* What is delivered                                                       *)
(***************************************************************************)

\* As long as no two copies of a slot have raced, nothing is lost, invented or
\* delivered twice: each element received was sent, the pops have received
\* different elements, and drop destroys exactly those that are left.
EachOnceUntilRaced ==
  ~raced =>
    /\ ToSet(received) \subseteq ToSet(sent)
    /\ \A i, j \in DOMAIN received : received[i] = received[j] => i = j
    /\ EachOnce

\* With TOTAL_ORDER, as long as no two copies have raced and no two pushes or
\* pops have crowded a slot, every pop copies the element whose push claimed the
\* same index: first in, first out by index, although nothing but the slot's
\* state says which lap's element it holds.
InTurnUntilCrowded ==
  TotalOrder /\ ~raced /\ ~crowded =>
    \A c \in Threads : pc[c] = "read" =>
      index[c] < head /\ elements[Slot(index[c])] = sent[index[c] + 1]

(***************************************************************************)
(* The inductive invariants                                                *)
(***************************************************************************)

\* The pushes that hold a claimed index and have not copied their element yet
Due(p) == pc[p] \in {"offer", "write"}

\* The calls of try_push that have not claimed an index
Asking(p) == pc[p] \in {"push_check", "push_claim"}

CopyAt(t, s) == pc[t] \in {"write", "read"} /\ Slot(index[t]) = s

\* Slot s holds an element that no pop has copied out.
Live(s) ==
  \/ states[s] = "FULL" /\ \A p \in Threads : ~(pc[p] = "write" /\ Slot(index[p]) = s)
  \/ \E c \in Threads : pc[c] = "read" /\ Slot(index[c]) = s

\* One thread copies at a slot, under the state that it has set.
CopiesAlone ==
  \A t \in Threads : pc[t] \in {"write", "read"} =>
    /\ states[Slot(index[t])] = IF pc[t] = "write" THEN "FULL" ELSE "EMPTY"
    /\ \A u \in Threads : CopyAt(u, Slot(index[t])) => t = u

\* An element sent is in exactly one place: with its push, in a slot, or received.
Received == ToSet(received)
Sent == ToSet(sent)

EachSomewhere ==
  /\ \A v \in Sent :
       \/ v \in Received
       \/ \E p \in Threads : Due(p) /\ element[p] = v
       \/ \E s \in DOMAIN states : Live(s) /\ elements[s] = v
  /\ Received \subseteq Sent
  /\ \A p \in Threads : Due(p) => element[p] \in Sent \ Received
  /\ \A s \in DOMAIN states : Live(s) => elements[s] \in Sent \ Received

NowhereTwice ==
  /\ \A i, j \in DOMAIN received : received[i] = received[j] => i = j
  /\ \A p, q \in Threads : Due(p) /\ Due(q) /\ element[p] = element[q] => p = q
  /\ \A r, s \in DOMAIN states :
       Live(r) /\ Live(s) /\ elements[r] = elements[s] => r = s
  /\ \A p \in Threads, s \in DOMAIN states :
       Due(p) /\ Live(s) => element[p] # elements[s]

\* An element that is still to be sent is with one caller, or with none.
NotSentYet ==
  /\ unsent \subseteq Elements /\ unsent \cap Sent = {}
  /\ \A p \in Threads : Asking(p) => element[p] \in Elements \ (Sent \cup unsent)
  /\ \A p, q \in Threads : Asking(p) /\ Asking(q) /\ element[p] = element[q] => p = q

RaceInv ==
  /\ sent \in Seq(Elements) /\ received \in Seq(Contents)
  /\ states \in [0 .. (Capacity - 1) -> {"EMPTY", "FULL"}]
  /\ elements \in [0 .. (Capacity - 1) -> Contents]
  /\ pc \in [Threads -> Labels \ {"publish", "release"}]
  /\ index \in [Threads -> Nat] /\ head \in Nat /\ tail \in Nat
  /\ element \in [Threads -> Contents]
  /\ NotSentYet
  /\ (\E t \in Threads : pc[t] = "gone") => \A t \in Threads : pc[t] = "gone"
  /\ ~raced => CopiesAlone /\ EachSomewhere /\ NowhereTwice /\ EachOnce

\* Index i's push has found its slot empty; index i's pop has found it full.
PushPassed(i) == i < head /\ \A p \in Threads : pc[p] = "offer" => index[p] # i
PopPassed(i) == i < tail /\ \A c \in Threads : pc[c] = "wait" => index[c] # i

\* Index i's push has passed and its pop has not.
Open(i) == PushPassed(i) /\ ~PopPassed(i)

\* The threads at a slot hold the last index claimed for it.
LastLap ==
  \A t \in Threads :
    /\ pc[t] \in {"offer", "write"} =>
         head <= index[t] + Capacity /\ element[t] = sent[index[t] + 1]
    /\ pc[t] \in {"wait", "read"} => tail <= index[t] + Capacity

\* On each slot pushes and pops pass in turn, and a full slot is open.
Turns ==
  /\ \A i \in 0 .. (tail - 1) : PopPassed(i) => PushPassed(i)
  /\ \A i \in 0 .. (head - 1) : PushPassed(i + Capacity) => PopPassed(i)
  /\ \A s \in DOMAIN states :
       states[s] = "FULL" <=> \E i \in 0 .. (head - 1) : Slot(i) = s /\ Open(i)

\* An open slot whose push has copied, and the slot of a pop that is about to
\* copy, hold the element of that index.
OwnElements ==
  /\ \A i \in 0 .. (head - 1) :
       Open(i) /\ (\A p \in Threads : pc[p] = "write" => index[p] # i)
         => elements[Slot(i)] = sent[i + 1]
  /\ \A c \in Threads : pc[c] = "read" =>
       index[c] < head /\ elements[Slot(index[c])] = sent[index[c] + 1]

TurnInv ==
  /\ head = Len(sent)
  /\ ~raced /\ ~crowded => LastLap /\ Turns /\ OwnElements
=============================================================================
