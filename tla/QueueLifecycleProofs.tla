------------------------ MODULE QueueLifecycleProofs ------------------------
(***************************************************************************)
(* Proofs about the life of a queue, for every capacity and every way to   *)
(* map indices to slots that fills the ring, and that the remapping of an  *)
(* index does fill it.                                                     *)
(***************************************************************************)
EXTENDS QueueLifecycleInvariant, Digits, FiniteSetTheorems, TLAPS

(***************************************************************************)
(* The slots that drop visits                                              *)
(***************************************************************************)

\* A mapping onto a ring is one to one.
LEMMA RingInjection ==
  ASSUME NEW n \in Nat, NEW f \in [0 .. (n - 1) -> 0 .. (n - 1)],
         \A s \in 0 .. (n - 1) : \E i \in 0 .. (n - 1) : f[i] = s
  PROVE  \A i, j \in 0 .. (n - 1) : f[i] = f[j] => i = j
<1>. DEFINE R == 0 .. (n - 1)
<1>1. IsFiniteSet(R)
  BY FS_Interval
<1>2. f \in Surjection(R, R)
  BY DEF Surjection
<1>3. f \in Injection(R, R)
  BY <1>1, <1>2, FS_Surjection
<1>. QED
  BY <1>3 DEF Injection, IsInjective

\* The loop's rounds visit all the slots, each once.
LEMMA VisitsAll ==
  ASSUME capacity \in Nat, FillsRing(kind, capacity, bits)
  PROVE  /\ \A i \in Slots : SlotVisited(i) \in Slots
         /\ \A i, j \in Slots : SlotVisited(i) = SlotVisited(j) => i = j
         /\ \A s \in Slots : \E i \in Slots : SlotVisited(i) = s
<1>. DEFINE f == [i \in Slots |-> SlotVisited(i)]
<1>1. \A i \in Slots : SlotVisited(i) \in Slots
  BY DEF FillsRing, SlotVisited, Slot, Slots
<1>2. \A s \in Slots : \E i \in Slots : SlotVisited(i) = s
  <2>1. CASE TwoBlocks
    BY <2>1 DEF FillsRing, SlotVisited, Slot, Slots
  <2>2. CASE ~TwoBlocks
    BY <2>2 DEF SlotVisited
  <2>. QED
    BY <2>1, <2>2
<1>3. \A i, j \in Slots : f[i] = f[j] => i = j
  <2>1. f \in [Slots -> Slots]
    BY <1>1
  <2>2. \A s \in Slots : \E i \in Slots : f[i] = s
    BY <1>2
  <2>. QED
    BY <2>1, <2>2, RingInjection DEF Slots
<1>. QED
  BY <1>1, <1>2, <1>3

(***************************************************************************)
(* new                                                                     *)
(***************************************************************************)

LEMMA InitLife == ASSUME RingsFill, Init PROVE LifeInv
<1>. USE DEF Init
<1>1. PICK lines \in LineElements : bits = NewBits(kind, capacity, lines)
  OBVIOUS
<1>2. capacity \in Nat \ {0} /\ bits \in 0 .. 8 /\ FillsRing(kind, capacity, bits)
  BY <1>1 DEF RingsFill
<1>3. /\ cells \in [Slots -> {"raw", "live", "dropped"}] /\ destroyed \in [Slots -> Nat]
      /\ \A s \in Slots : destroyed[s] = 0
  BY DEF All
<1>4. TypeOK
  BY <1>2, <1>3 DEF TypeOK
<1>5. BeforeDrop /\ InDrop /\ AfterDrop
  BY DEF BeforeDrop, InDrop, AfterDrop
<1>. QED
  BY <1>2, <1>3, <1>4, <1>5 DEF LifeInv

\* A step that leaves the queue's parameters alone
LEMMA SameQueue ==
  ASSUME UNCHANGED parameters
  PROVE  /\ Slots' = Slots /\ TwoBlocks' = TwoBlocks /\ Boxed' = Boxed
         /\ kind' = kind /\ size' = size /\ capacity' = capacity /\ bits' = bits
         /\ FillsRing(kind, capacity, bits)' = FillsRing(kind, capacity, bits)
BY DEF parameters, Slots, TwoBlocks, Boxed, FillsRing

LEMMA AllTypes ==
  ASSUME NEW v
  PROVE  /\ \A S : v \in S => All(v) \in [Slots -> S]
         /\ \A s \in Slots : All(v)[s] = v
BY DEF All

\* A new that goes on or gives up
LEMMA StepAllocateFirst == LifeInv /\ AllocateFirst => LifeInv'
<1>. SUFFICES ASSUME LifeInv, AllocateFirst PROVE LifeInv'
  OBVIOUS
<1>. USE DEF LifeInv
<1>1. /\ UNCHANGED <<parameters, full, cursor, destroyed, held>>
      /\ phase = "new" /\ phase' \in {"second", "ready", "panicked", "aborted"}
      /\ phase' = "second" => TwoBlocks
      /\ kind # "AtomicQueue"
  BY DEF AllocateFirst
<1>2. CASE /\ phase' = IF TwoBlocks THEN "second" ELSE "ready"
           /\ blocks' =
                [blocks EXCEPT ![IF TwoBlocks THEN "states" ELSE "elements"] = "live"]
           /\ cells' = All("live")
  <2>1. TypeOK'
    BY <1>1, <1>2, SameQueue, AllTypes DEF TypeOK
  <2>2. BeforeDrop'
    BY <1>1, <1>2, SameQueue DEF BeforeDrop, All, TypeOK
  <2>. QED
    BY <1>1, <1>2, <2>1, <2>2, SameQueue DEF InDrop, AfterDrop
<1>3. CASE phase' \in {"panicked", "aborted"} /\ UNCHANGED <<blocks, cells>>
  <2>1. TypeOK'
    BY <1>1, <1>3, SameQueue DEF TypeOK
  <2>2. BeforeDrop'
    BY <1>1, <1>3, SameQueue DEF BeforeDrop, All, TypeOK
  <2>. QED
    BY <1>1, <1>3, <2>1, <2>2, SameQueue DEF InDrop, AfterDrop
<1>. QED
  BY <1>2, <1>3 DEF AllocateFirst

LEMMA StepAllocateSecond == LifeInv /\ AllocateSecond => LifeInv'
<1>. SUFFICES ASSUME LifeInv, AllocateSecond PROVE LifeInv'
  OBVIOUS
<1>. USE DEF LifeInv, AllocateSecond
<1>1. TypeOK'
  BY SameQueue DEF TypeOK
<1>2. BeforeDrop'
  BY SameQueue DEF BeforeDrop, All, TypeOK
<1>. QED
  BY <1>1, <1>2, SameQueue DEF InDrop, AfterDrop

\* The second block fails, with or without the clean-up.
LEMMA StepSecondFails == LifeInv /\ (FailSecond \/ OverflowSecond) => LifeInv'
<1>. SUFFICES ASSUME LifeInv, FailSecond \/ OverflowSecond PROVE LifeInv'
  OBVIOUS
<1>. USE DEF LifeInv
<1>1. /\ UNCHANGED <<parameters, full, cursor, destroyed, held>>
      /\ phase = "second" /\ phase' \in {"aborted", "panicked"}
      /\ \/ UNCHANGED <<blocks, cells>> /\ (phase' = "aborted" => Boxed)
         \/ Turn("freed") /\ cells' = All("dropped")
  BY DEF FailSecond, OverflowSecond
<1>2. TypeOK'
  <2>1. cells' \in [Slots -> {"raw", "live", "dropped"}]
    BY <1>1, AllTypes DEF TypeOK
  <2>2. blocks' \in [{"states", "elements"} -> {"none", "live", "freed"}]
    BY <1>1 DEF TypeOK, Turn
  <2>. QED
    BY <1>1, <2>1, <2>2, SameQueue DEF TypeOK
<1>3. BeforeDrop'
  BY <1>1, SameQueue DEF BeforeDrop, All, TypeOK, Turn
<1>. QED
  BY <1>1, <1>2, <1>3, SameQueue DEF InDrop, AfterDrop

(***************************************************************************)
(* Use, and drop                                                           *)
(***************************************************************************)

LEMMA StepUse == ASSUME LifeInv, NEW i \in Slots, Use(i) PROVE LifeInv'
<1>. USE DEF LifeInv, Use
<1>1. Slot(i) \in Slots
  BY DEF FillsRing, Slot, Slots
<1>2. TypeOK'
  BY <1>1, SameQueue DEF TypeOK
<1>3. BeforeDrop'
  BY SameQueue DEF BeforeDrop, All
<1>. QED
  BY <1>2, <1>3, SameQueue DEF InDrop, AfterDrop

LEMMA StepBeginDrop == LifeInv /\ BeginDrop => LifeInv'
<1>. SUFFICES ASSUME LifeInv, BeginDrop PROVE LifeInv'
  OBVIOUS
<1>. USE DEF LifeInv, BeginDrop
<1>1. TypeOK'
  BY SameQueue DEF TypeOK
<1>2. cursor = 0 /\ destroyed = All(0) /\ cells = All("live")
  BY DEF BeforeDrop
<1>3. \A s \in Slots : destroyed'[s] = 0 /\ cells'[s] = "live" /\ ~Done(s)'
  BY <1>2, AllTypes DEF Done
<1>4. InDrop'
  BY <1>3, SameQueue DEF InDrop
<1>5. BeforeDrop'
  BY SameQueue DEF BeforeDrop
<1>. QED
  BY <1>1, <1>3, <1>4, <1>5, SameQueue DEF AfterDrop

\* A round of the loop visits a slot that none has visited before.
LEMMA NotDone ==
  ASSUME LifeInv, cursor < capacity
  PROVE  /\ Visited = SlotVisited(cursor) /\ Visited \in Slots
         /\ ~Done(Visited)
<1>1. cursor \in Slots /\ \A i \in 0 .. (cursor - 1) : i \in Slots /\ i # cursor
  BY DEF LifeInv, TypeOK, Slots
<1>2. Visited = SlotVisited(cursor)
  BY DEF Visited, SlotVisited
<1>. QED
  BY <1>1, <1>2, VisitsAll DEF LifeInv, TypeOK, Done

LEMMA StepDropSlot == LifeInv /\ DropSlot => LifeInv'
<1>. SUFFICES ASSUME LifeInv, DropSlot PROVE LifeInv'
  OBVIOUS
<1>. USE DEF LifeInv, DropSlot
<1>1. /\ Visited = SlotVisited(cursor) /\ Visited \in Slots /\ ~Done(Visited)
      /\ cursor \in Nat /\ cursor < capacity
  BY NotDone DEF TypeOK
<1>2. TypeOK'
  <2>1. cursor' \in 0 .. capacity
    BY DEF TypeOK
  <2>2. destroyed' \in [Slots -> Nat] /\ cells' \in [Slots -> {"raw", "live", "dropped"}]
    BY <1>1 DEF TypeOK
  <2>. QED
    BY <2>1, <2>2, SameQueue DEF TypeOK
<1>3. \A s \in Slots : Done(s)' <=> Done(s) \/ s = Visited
  <2>1. \A i : SlotVisited(i)' = SlotVisited(i)
    BY DEF SlotVisited, Slot, TwoBlocks, parameters
  <2>2. 0 .. (cursor' - 1) = (0 .. (cursor - 1)) \cup {cursor}
    BY <1>1
  <2>. QED
    BY <1>1, <2>1, <2>2 DEF Done
<1>4. \A s \in Slots :
        /\ destroyed'[s] = IF s \in held /\ Done(s)' THEN 1 ELSE 0
        /\ cells'[s] = IF ~Boxed /\ Done(s)' THEN "dropped" ELSE "live"
  BY <1>1, <1>3 DEF InDrop, TypeOK
<1>5. InDrop'
  BY <1>4, SameQueue DEF InDrop
<1>6. BeforeDrop'
  BY SameQueue DEF BeforeDrop
<1>. QED
  BY <1>2, <1>4, <1>5, <1>6, SameQueue DEF AfterDrop

LEMMA StepDestructorPanics == LifeInv /\ DestructorPanics => LifeInv'
<1>. SUFFICES ASSUME LifeInv, DestructorPanics PROVE LifeInv'
  OBVIOUS
<1>. USE DEF LifeInv, DestructorPanics
<1>1. Visited \in Slots /\ ~Done(Visited) /\ Visited \in held
  BY NotDone DEF InDrop
<1>2. TypeOK'
  <2>1. destroyed' \in [Slots -> Nat]
    BY <1>1 DEF TypeOK
  <2>2. cells' \in [Slots -> {"raw", "live", "dropped"}]
    <3>1. cells' \in {cells, All("dropped")}
      OBVIOUS
    <3>. QED
      BY <3>1, AllTypes DEF TypeOK
  <2>3. blocks' \in [{"states", "elements"} -> {"none", "live", "freed"}]
    BY DEF TypeOK, Turn
  <2>. QED
    BY <2>1, <2>2, <2>3, SameQueue DEF TypeOK
<1>3. \A s \in Slots : destroyed'[s] <= (IF s \in held THEN 1 ELSE 0)
  BY <1>1 DEF InDrop, TypeOK
<1>4. BeforeDrop'
  BY SameQueue DEF BeforeDrop
<1>. QED
  BY <1>2, <1>3, <1>4, SameQueue DEF InDrop, AfterDrop

LEMMA StepEndDrop == LifeInv /\ EndDrop => LifeInv'
<1>. SUFFICES ASSUME LifeInv, EndDrop PROVE LifeInv'
  OBVIOUS
<1>. USE DEF LifeInv, EndDrop
<1>1. TypeOK'
  BY SameQueue, AllTypes DEF TypeOK, Turn
<1>2. \A s \in Slots : Done(s)
  BY VisitsAll DEF Done, TypeOK, Slots
<1>3. AfterDrop'
  BY <1>2, SameQueue DEF AfterDrop, InDrop, TypeOK, Turn
<1>4. BeforeDrop'
  BY SameQueue DEF BeforeDrop
<1>. QED
  BY <1>1, <1>3, <1>4, SameQueue DEF InDrop

LEMMA StepLife == LifeInv /\ [Next]_vars => LifeInv'
<1>. SUFFICES ASSUME LifeInv, [Next]_vars PROVE LifeInv'
  OBVIOUS
<1>1. CASE UNCHANGED vars
  BY <1>1
     DEF vars, LifeInv, TypeOK, FillsRing, BeforeDrop, InDrop, AfterDrop, Slots, All, Done,
         SlotVisited, Slot, TwoBlocks, Boxed
<1>. QED
  BY <1>1, StepAllocateFirst, StepAllocateSecond, StepSecondFails, StepUse, StepBeginDrop,
     StepDropSlot, StepDestructorPanics, StepEndDrop DEF Next

(***************************************************************************)
(* What follows                                                            *)
(***************************************************************************)

\* The invariant of a queue's life, for every kind of queue, every capacity, and
\* every way to map indices to slots that fills the ring.
THEOREM LifeInvariance == ASSUME RingsFill PROVE Spec => []LifeInv
BY InitLife, StepLife, PTL DEF Spec

\* A drop destroys each element that is left once, and no other.
THEOREM DropDestroysOnce == ASSUME RingsFill PROVE Spec => []DestroyedOnce
<1>1. LifeInv => DestroyedOnce
  BY DEF LifeInv, AfterDrop, DestroyedOnce
<1>. QED
  BY <1>1, LifeInvariance, PTL

\* The loop of drop loads and drops only atomics that are initialised and alive.
THEOREM DropVisitsLiveCells == ASSUME RingsFill PROVE Spec => []VisitsLiveCells
<1>1. LifeInv => VisitsLiveCells
  BY NotDone DEF LifeInv, InDrop, VisitsLiveCells
<1>. QED
  BY <1>1, LifeInvariance, PTL

\* No block outlives a drop that ends, nor a new of a raw queue that aborts.
THEOREM AllBlocksFreed == ASSUME RingsFill PROVE Spec => []NoBlockLeft
<1>1. LifeInv => NoBlockLeft
  BY DEF LifeInv, BeforeDrop, AfterDrop, NoBlockLeft
<1>. QED
  BY <1>1, LifeInvariance, PTL
(***************************************************************************)
(* The remapping of an index                                               *)
(***************************************************************************)

\* A number has one quotient and one remainder.
LEMMA OneQuotient ==
  ASSUME NEW d \in Nat \ {0}, NEW q \in Int, NEW p \in Int,
         NEW r \in 0 .. (d - 1), NEW s \in 0 .. (d - 1), d * q + r = d * p + s
  PROVE  q = p /\ r = s
<1>1. ASSUME NEW x \in Int, NEW y \in Int, x < y PROVE d * x + d <= d * y
  <2>1. PICK k \in Nat : y = x + 1 + k
    BY <1>1, y = x + 1 + (y - x - 1) /\ y - x - 1 \in Nat
  <2>2. d * y = d * x + d + d * k
    BY <2>1
  <2>3. d * k >= 0
    OBVIOUS
  <2>. QED
    BY <2>2, <2>3
<1>2. ~ (q < p)
  BY <1>1
<1>3. ~ (p < q)
  BY <1>1
<1>. QED
  BY <1>2, <1>3

\* What \div and % give
LEMMA Division ==
  ASSUME NEW n \in Int, NEW d \in Nat \ {0}
  PROVE  /\ n \div d \in Int /\ n % d \in 0 .. (d - 1)
         /\ n = d * (n \div d) + (n % d)
         /\ n \in Nat => n \div d \in Nat
<1>1. n \div d \in Int /\ n % d \in 0 .. (d - 1)
  OBVIOUS
<1>2. n = d * (n \div d) + (n % d)
  OBVIOUS
<1>3. ASSUME n \in Nat, n \div d <= -1 PROVE FALSE
  <2>1. d * (n \div d) = d * ((n \div d) + 1) - d /\ d * ((n \div d) + 1) <= 0
    BY <1>1, <1>3
  <2>. QED
    BY <1>1, <1>2, <1>3, <2>1
<1>. QED
  BY <1>1, <1>2, <1>3

LEMMA DivMod ==
  ASSUME NEW d \in Nat \ {0}, NEW q \in Int, NEW r \in 0 .. (d - 1)
  PROVE  (d * q + r) \div d = q /\ (d * q + r) % d = r
<1>1. PICK n \in Int : n = d * q + r
  OBVIOUS
<1>2. PICK p \in Int, s \in 0 .. (d - 1) : p = n \div d /\ s = n % d /\ n = d * p + s
  BY Division
<1>3. q = p /\ r = s
  BY <1>1, <1>2, OneQuotient
<1>. QED
  BY <1>1, <1>2, <1>3

\* i in its digits, and with two of them swapped
LEMMA InDigits ==
  ASSUME NEW d \in Nat \ {0}, NEW i \in Nat
  PROVE  \E a \in Nat :
           /\ i = d * (d * a + High(i, d)) + Low(i, d)
           /\ DigitsSwapped(i, d) = d * (d * a + Low(i, d)) + High(i, d)
           /\ Low(i, d) \in 0 .. (d - 1) /\ High(i, d) \in 0 .. (d - 1)
<1>1. PICK q \in Nat : q = i \div d /\ i = d * q + (i % d)
  BY Division, i \in Int
<1>2. PICK a \in Nat : a = q \div d /\ q = d * a + (q % d)
  BY Division, q \in Int
<1>3. i % d \in 0 .. (d - 1) /\ q % d \in 0 .. (d - 1)
  OBVIOUS
<1>4. PICK l \in 0 .. (d - 1) : l = Low(i, d)
  BY <1>3 DEF Low
<1>5. PICK h \in 0 .. (d - 1) : h = High(i, d)
  BY <1>1, <1>3 DEF High
<1>6. i = d * (d * a + h) + l
  BY <1>1, <1>2, <1>4, <1>5 DEF Low, High
<1>7. d * (d * a + h) = d * (d * a) + h * d /\ d * (d * a + l) = d * (d * a) + l * d
  OBVIOUS
<1>8. DigitsSwapped(i, d) = i - l - h * d + h + l * d
  BY <1>4, <1>5 DEF DigitsSwapped
<1>9. /\ d * (d * a) \in Int /\ h * d \in Int /\ l * d \in Int
      /\ d * (d * a + h) \in Int /\ d * (d * a + l) \in Int
  OBVIOUS
<1>10. DigitsSwapped(i, d) = d * (d * a + l) + h
  BY <1>6, <1>7, <1>8, <1>9
<1>. QED
  BY <1>4, <1>5, <1>6, <1>10

\* The swap is its own inverse,
LEMMA SwapTwice ==
  ASSUME NEW d \in Nat \ {0}, NEW i \in Nat
  PROVE  DigitsSwapped(i, d) \in Nat /\ DigitsSwapped(DigitsSwapped(i, d), d) = i
<1>. DEFINE l == Low(i, d)
            h == High(i, d)
            s == DigitsSwapped(i, d)
<1>1. PICK a \in Nat :
        /\ i = d * (d * a + h) + l
        /\ s = d * (d * a + l) + h
        /\ l \in 0 .. (d - 1) /\ h \in 0 .. (d - 1)
  BY InDigits
<1>. HIDE DEF l, h, s
<1>2. d * a + l \in Nat /\ d * a + h \in Nat
  BY <1>1
<1>3. d * (d * a + l) \in Nat
  BY <1>2
<1>4. s \in Nat
  BY <1>1, <1>3
<1>5. s % d = h /\ s \div d = d * a + l
  BY <1>1, <1>2, DivMod
<1>6. (d * a + l) % d = l
  BY <1>1, DivMod
<1>7. Low(s, d) = h /\ High(s, d) = l
  BY <1>5, <1>6 DEF Low, High
<1>8. DigitsSwapped(s, d) = s - h - l * d + l + h * d
  BY <1>7 DEF DigitsSwapped
<1>9. d * (d * a + h) = d * (d * a) + h * d /\ d * (d * a + l) = d * (d * a) + l * d
  BY <1>1
<1>10. /\ d * (d * a) \in Int /\ h * d \in Int /\ l * d \in Int
       /\ d * (d * a + h) \in Int /\ d * (d * a + l) \in Int
  BY <1>1
<1>11. DigitsSwapped(s, d) = i
  BY <1>1, <1>8, <1>9, <1>10
<1>. QED
  BY <1>4, <1>11 DEF s

\* and stays below a multiple of the square of the base.
LEMMA SwapInRing ==
  ASSUME NEW d \in Nat \ {0}, NEW m \in Nat, NEW i \in 0 .. (m * (d * d) - 1)
  PROVE  DigitsSwapped(i, d) \in 0 .. (m * (d * d) - 1)
<1>. DEFINE l == Low(i, d)
            h == High(i, d)
            s == DigitsSwapped(i, d)
<1>0. i \in Nat /\ i < m * (d * d)
  OBVIOUS
<1>1. PICK a \in Nat :
        /\ i = d * (d * a + h) + l
        /\ s = d * (d * a + l) + h
        /\ l \in 0 .. (d - 1) /\ h \in 0 .. (d - 1)
  BY <1>0, InDigits
<1>2. s \in Nat
  BY <1>0, SwapTwice
<1>. HIDE DEF l, h, s
<1>. DEFINE D == d * d
<1>3. D \in Nat
  OBVIOUS
<1>4. d * (d * a + h) = a * D + d * h /\ d * (d * a + l) = a * D + d * l
  BY <1>1
<1>5. d * h >= 0 /\ d * l <= D - d
  <2>1. D - d = d * (d - 1)
    OBVIOUS
  <2>2. d * (d - 1) = d * l + d * (d - 1 - l) /\ d * (d - 1 - l) >= 0
    BY <1>1
  <2>. QED
    BY <1>1, <2>1, <2>2
<1>6. a < m
  <2>. SUFFICES ASSUME a >= m PROVE FALSE
    BY <1>1
  <2>1. a * D = m * D + (a - m) * D /\ (a - m) * D >= 0
    BY <1>3
  <2>. HIDE DEF D
  <2>2. a * D \in Int /\ m * D \in Int /\ (a - m) * D \in Int /\ d * h \in Int
    BY <1>1, <1>3
  <2>. QED
    BY <1>0, <1>1, <1>4, <1>5, <2>1, <2>2 DEF D
<1>7. a * D + D <= m * D
  <2>1. m * D = a * D + D + (m - a - 1) * D /\ (m - a - 1) * D >= 0
    BY <1>3, <1>6
  <2>. QED
    BY <2>1, <1>3
<1>. HIDE DEF D
<1>8. a * D \in Int /\ m * D \in Int /\ d * l \in Int
  BY <1>1, <1>3
<1>9. s < m * D
  BY <1>1, <1>3, <1>4, <1>5, <1>7, <1>8
<1>. QED
  BY <1>2, <1>9 DEF D, s

\* A queue whose slots are found by swapping the two lowest digits of an index, as
\* remap_index does, fills its ring when the capacity is a multiple of the square of
\* the base, which is what get_index_shuffle_bits makes sure of; the base 1 is that of
\* a queue without remapping.
THEOREM SwappedRingFills ==
  ASSUME NEW d \in Nat \ {0}, NEW m \in Nat, NEW k, NEW b,
         \A i \in 0 .. (m * (d * d) - 1) :
           SlotIndex(k, m * (d * d), b, i) = DigitsSwapped(i, d)
  PROVE  FillsRing(k, m * (d * d), b)
<1>. DEFINE R == 0 .. (m * (d * d) - 1)
<1>1. ASSUME NEW i \in R PROVE DigitsSwapped(i, d) \in R
  BY SwapInRing
<1>2. ASSUME NEW i \in R PROVE DigitsSwapped(DigitsSwapped(i, d), d) = i
  <2>1. i \in Nat
    OBVIOUS
  <2>. QED
    BY <2>1, SwapTwice
<1>3. FillsRing(k, m * (d * d), b) <=> {SlotIndex(k, m * (d * d), b, i) : i \in R} = R
  BY DEF FillsRing
<1>. HIDE DEF R
<1>4. \A i \in R : SlotIndex(k, m * (d * d), b, i) = DigitsSwapped(i, d)
  BY DEF R
<1>5. {SlotIndex(k, m * (d * d), b, i) : i \in R} = R
  BY <1>1, <1>2, <1>4
<1>. QED
  BY <1>3, <1>5
=============================================================================
