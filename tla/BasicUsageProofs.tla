-------------------------- MODULE BasicUsageProofs --------------------------
(***************************************************************************)
(* Proofs about the program of BasicUsage, for any number of producers and *)
(* consumers, any number of elements and every capacity.                   *)
(***************************************************************************)
EXTENDS BasicUsage, AtomicQueueProofs, FiniteSetTheorems

(***************************************************************************)
(* Sums                                                                    *)
(***************************************************************************)

\* The order in which MapThenSumSet takes the members of a set
Choice(s) == CHOOSE x \in s : TRUE

\* g sums f over the subsets of S in that order.
Sums(g, f, S) ==
  g = [s \in SUBSET S |-> IF s = {} THEN 0 ELSE f[Choice(s)] + g[s \ {Choice(s)}]]

\* Total, as the library defines it
LEMMA TotalIsChosen ==
  ASSUME NEW f, NEW S PROVE Total(f, S) = (CHOOSE g : Sums(g, f, S))[S]
BY DEF Total, MapThenSumSet, MapThenFoldSet, Sums, Choice

\* A nonempty collection of subsets of a finite set has one with no other of them
\* below it: what stands in for induction on the set.
LEMMA LeastSubset ==
  ASSUME NEW S, IsFiniteSet(S), NEW B, B \subseteq SUBSET S, B # {}
  PROVE  \E T \in B : \A U \in B : U \subseteq T => U = T
<1>1. IsWellFoundedOn(StrictSubsetOrdering(S), SUBSET S)
  BY FS_StrictSubsetOrderingWellFounded, FS_FiniteSubsetsOfFinite
<1>2. PICK T \in B : \A U \in B : ~ (<<U, T>> \in StrictSubsetOrdering(S))
  BY <1>1, WFMin
<1>. QED
  BY <1>2 DEF StrictSubsetOrdering

\* Sums over two sets agree on the sets below both, and every finite set has sums.
LEMMA SumsAgree ==
  ASSUME NEW f, NEW S, NEW T, NEW g, NEW h, Sums(g, f, S), Sums(h, f, T),
         NEW A, IsFiniteSet(A), A \subseteq S, A \subseteq T
  PROVE  g[A] = h[A]
<1>. DEFINE Bad == {s \in SUBSET A : g[s] # h[s]}
<1>. SUFFICES ASSUME Bad # {} PROVE FALSE
  OBVIOUS
<1>1. PICK s \in Bad : \A u \in Bad : u \subseteq s => u = s
  <2>1. Bad \subseteq SUBSET A
    OBVIOUS
  <2>. HIDE DEF Bad
  <2>. QED
    BY <2>1, LeastSubset
<1>2. g[s] = IF s = {} THEN 0 ELSE f[Choice(s)] + g[s \ {Choice(s)}]
  BY DEF Sums
<1>3. h[s] = IF s = {} THEN 0 ELSE f[Choice(s)] + h[s \ {Choice(s)}]
  BY DEF Sums
<1>4. s # {} => Choice(s) \in s
  BY DEF Choice
<1>. QED
  BY <1>1, <1>2, <1>3, <1>4

LEMMA SumsExist ==
  ASSUME NEW f, NEW S, IsFiniteSet(S)
  PROVE  \E g : Sums(g, f, S)
<1>. DEFINE Bad == {s \in SUBSET S : ~ \E g : Sums(g, f, s)}
<1>. SUFFICES ASSUME Bad # {} PROVE FALSE
  OBVIOUS
<1>1. PICK T \in Bad : \A u \in Bad : u \subseteq T => u = T
  <2>1. Bad \subseteq SUBSET S
    OBVIOUS
  <2>. HIDE DEF Bad
  <2>. QED
    BY <2>1, LeastSubset
<1>. DEFINE G(s) == CHOOSE g : Sums(g, f, s)
<1>2. ASSUME NEW s \in SUBSET T, s # T PROVE Sums(G(s), f, s)
  BY <1>1, <1>2
<1>. DEFINE
       g == [s \in SUBSET T |-> IF s = {} THEN 0
               ELSE f[Choice(s)] + G(s \ {Choice(s)})[s \ {Choice(s)}]]
<1>3. ASSUME NEW s \in SUBSET T, s # T PROVE g[s] = G(s)[s]
  <2>. HIDE DEF G
  <2>1. Sums(G(s), f, s)
    BY <1>2, <1>3
  <2>2. G(s)[s] = IF s = {} THEN 0 ELSE f[Choice(s)] + G(s)[s \ {Choice(s)}]
    BY <2>1 DEF Sums
  <2>. DEFINE u == s \ {Choice(s)}
  <2>3. u \subseteq s /\ IsFiniteSet(u) /\ u \in SUBSET T
    BY FS_Subset
  <2>4. u # T
    BY <1>3
  <2>5. Sums(G(u), f, u)
    BY <1>2, <2>3, <2>4
  <2>6. G(u)[u] = G(s)[u]
    BY <2>1, <2>3, <2>5, SumsAgree
  <2>. QED
    BY <2>2, <2>6
<1>4. Sums(g, f, T)
  <2>. HIDE DEF G
  <2>1. ASSUME NEW s \in SUBSET T, s # {}
        PROVE  G(s \ {Choice(s)})[s \ {Choice(s)}] = g[s \ {Choice(s)}]
    <3>1. Choice(s) \in s
      BY <2>1 DEF Choice
    <3>2. s \ {Choice(s)} \in SUBSET T /\ s \ {Choice(s)} # T
      BY <3>1
    <3>. HIDE DEF g
    <3>. QED
      BY <1>3, <3>2
  <2>2. \A s \in SUBSET T : g[s] = IF s = {} THEN 0 ELSE f[Choice(s)] + g[s \ {Choice(s)}]
    BY <2>1
  <2>3. g = [s \in SUBSET T |-> g[s]]
    OBVIOUS
  <2>. HIDE DEF g
  <2>. QED
    BY <2>2, <2>3 DEF Sums
<1>. QED
  BY <1>1, <1>4

\* The recursion of a sum
LEMMA TotalStep ==
  ASSUME NEW f, NEW S, IsFiniteSet(S)
  PROVE  /\ Total(f, {}) = 0
         /\ S # {} => /\ Choice(S) \in S
                      /\ Total(f, S) = f[Choice(S)] + Total(f, S \ {Choice(S)})
<1>. DEFINE G(s) == CHOOSE g : Sums(g, f, s)
<1>1. ASSUME NEW s, IsFiniteSet(s) PROVE Sums(G(s), f, s) /\ Total(f, s) = G(s)[s]
  BY <1>1, SumsExist, TotalIsChosen
<1>. HIDE DEF G
<1>2. Total(f, {}) = 0
  BY <1>1, FS_EmptySet DEF Sums
<1>3. ASSUME S # {} PROVE /\ Choice(S) \in S
                      /\ Total(f, S) = f[Choice(S)] + Total(f, S \ {Choice(S)})
  <2>1. Choice(S) \in S
    BY <1>3 DEF Choice
  <2>. DEFINE u == S \ {Choice(S)}
  <2>2. IsFiniteSet(u) /\ u \subseteq S
    BY FS_Subset
  <2>3. G(S)[u] = G(u)[u]
    BY <1>1, <2>2, SumsAgree
  <2>4. G(S)[S] = f[Choice(S)] + G(S)[u]
    BY <1>1, <1>3 DEF Sums
  <2>. QED
    BY <1>1, <2>1, <2>2, <2>3, <2>4
<1>. QED
  BY <1>2, <1>3

\* A sum of integers is one.
LEMMA TotalType ==
  ASSUME NEW f, NEW S, IsFiniteSet(S), \A x \in S : f[x] \in Int
  PROVE  Total(f, S) \in Int
<1>. DEFINE Bad == {s \in SUBSET S : Total(f, s) \notin Int}
<1>. SUFFICES ASSUME Bad # {} PROVE FALSE
  OBVIOUS
<1>1. PICK s \in Bad : \A u \in Bad : u \subseteq s => u = s
  <2>1. Bad \subseteq SUBSET S
    OBVIOUS
  <2>. HIDE DEF Bad
  <2>. QED
    BY <2>1, LeastSubset
<1>2. IsFiniteSet(s)
  BY FS_Subset
<1>3. CASE s = {}
  <2>1. Total(f, {}) = 0
    BY FS_EmptySet, TotalStep
  <2>. QED
    BY <1>1, <1>3, <2>1
<1>4. CASE s # {}
  <2>1. /\ Choice(s) \in s
        /\ Total(f, s) = f[Choice(s)] + Total(f, s \ {Choice(s)})
    BY <1>2, <1>4, TotalStep
  <2>2. Total(f, s \ {Choice(s)}) \in Int
    BY <1>1, <2>1
  <2>. QED
    BY <2>1, <2>2
<1>. QED
  BY <1>3, <1>4

\* Any member may be taken out of a sum.
LEMMA TotalRemove ==
  ASSUME NEW f, NEW S, IsFiniteSet(S), \A x \in S : f[x] \in Int, NEW a \in S
  PROVE  Total(f, S) = f[a] + Total(f, S \ {a})
<1>. DEFINE Bad == {s \in SUBSET S : \E x \in s : Total(f, s) # f[x] + Total(f, s \ {x})}
<1>. SUFFICES ASSUME Bad # {} PROVE FALSE
  OBVIOUS
<1>1. PICK s \in Bad : \A u \in Bad : u \subseteq s => u = s
  <2>1. Bad \subseteq SUBSET S
    OBVIOUS
  <2>. HIDE DEF Bad
  <2>. QED
    BY <2>1, LeastSubset
<1>2. PICK x \in s : Total(f, s) # f[x] + Total(f, s \ {x})
  BY <1>1
<1>3. \A u \in SUBSET s : IsFiniteSet(u) /\ Total(f, u) \in Int
  BY FS_Subset, TotalType
<1>4. /\ Choice(s) \in s
      /\ Total(f, s) = f[Choice(s)] + Total(f, s \ {Choice(s)})
  BY <1>2, <1>3, TotalStep
<1>5. PICK y \in s : Total(f, s) = f[y] + Total(f, s \ {y})
  BY <1>4
<1>6. x # y
  BY <1>2, <1>5
<1>7. \A u \in SUBSET s : u # s => \A z \in u : Total(f, u) = f[z] + Total(f, u \ {z})
  BY <1>1
<1>8. Total(f, s \ {y}) = f[x] + Total(f, (s \ {y}) \ {x})
  <2>1. s \ {y} \in SUBSET s /\ s \ {y} # s /\ x \in s \ {y}
    BY <1>6
  <2>. QED
    BY <1>7, <2>1
<1>9. Total(f, s \ {x}) = f[y] + Total(f, (s \ {x}) \ {y})
  <2>1. s \ {x} \in SUBSET s /\ s \ {x} # s /\ y \in s \ {x}
    BY <1>6
  <2>. QED
    BY <1>7, <2>1
<1>10. (s \ {y}) \ {x} = (s \ {x}) \ {y}
  OBVIOUS
<1>11. f[x] \in Int /\ f[y] \in Int /\ Total(f, (s \ {x}) \ {y}) \in Int
  BY <1>3
<1>. QED
  BY <1>2, <1>5, <1>8, <1>9, <1>10, <1>11

\* Only the members' values matter.
LEMMA TotalSame ==
  ASSUME NEW f, NEW g, NEW S, IsFiniteSet(S), \A x \in S : f[x] = g[x]
  PROVE  Total(f, S) = Total(g, S)
<1>. DEFINE Bad == {s \in SUBSET S : Total(f, s) # Total(g, s)}
<1>. SUFFICES ASSUME Bad # {} PROVE FALSE
  OBVIOUS
<1>1. PICK s \in Bad : \A u \in Bad : u \subseteq s => u = s
  <2>1. Bad \subseteq SUBSET S
    OBVIOUS
  <2>. HIDE DEF Bad
  <2>. QED
    BY <2>1, LeastSubset
<1>2. IsFiniteSet(s)
  BY FS_Subset
<1>3. CASE s = {}
  <2>1. Total(f, {}) = 0 /\ Total(g, {}) = 0
    BY FS_EmptySet, TotalStep
  <2>. QED
    BY <1>1, <1>3, <2>1
<1>4. CASE s # {}
  <2>1. /\ Choice(s) \in s
        /\ Total(f, s) = f[Choice(s)] + Total(f, s \ {Choice(s)})
        /\ Total(g, s) = g[Choice(s)] + Total(g, s \ {Choice(s)})
    BY <1>2, <1>4, TotalStep
  <2>2. Total(f, s \ {Choice(s)}) = Total(g, s \ {Choice(s)})
    BY <1>1, <2>1
  <2>. QED
    BY <1>1, <2>1, <2>2
<1>. QED
  BY <1>3, <1>4

\* One value of a sum changes.
LEMMA TotalChange ==
  ASSUME NEW f, NEW g, NEW S, IsFiniteSet(S), NEW a \in S,
         \A x \in S : f[x] \in Int /\ g[x] \in Int /\ (x # a => g[x] = f[x])
  PROVE  Total(g, S) = Total(f, S) + g[a] - f[a]
<1>1. IsFiniteSet(S \ {a})
  BY FS_Subset
<1>2. Total(g, S) = g[a] + Total(g, S \ {a})
  BY TotalRemove
<1>3. Total(f, S) = f[a] + Total(f, S \ {a})
  BY TotalRemove
<1>4. Total(g, S \ {a}) = Total(f, S \ {a})
  BY <1>1, TotalSame
<1>5. Total(f, S \ {a}) \in Int /\ f[a] \in Int /\ g[a] \in Int
  BY <1>1, TotalType
<1>. QED
  BY <1>2, <1>3, <1>4, <1>5

\* A sum of equal values is a multiple.
LEMMA TotalConstant ==
  ASSUME NEW f, NEW S, IsFiniteSet(S), NEW k \in Int, \A x \in S : f[x] = k
  PROVE  Total(f, S) = Cardinality(S) * k
<1>. DEFINE Bad == {s \in SUBSET S : Total(f, s) # Cardinality(s) * k}
<1>. SUFFICES ASSUME Bad # {} PROVE FALSE
  OBVIOUS
<1>1. PICK s \in Bad : \A u \in Bad : u \subseteq s => u = s
  <2>1. Bad \subseteq SUBSET S
    OBVIOUS
  <2>. HIDE DEF Bad
  <2>. QED
    BY <2>1, LeastSubset
<1>2. IsFiniteSet(s)
  BY FS_Subset
<1>3. CASE s = {}
  <2>1. Total(f, {}) = 0 /\ Cardinality({}) = 0
    BY FS_EmptySet, TotalStep
  <2>. QED
    BY <1>1, <1>3, <2>1
<1>4. CASE s # {}
  <2>1. /\ Choice(s) \in s
        /\ Total(f, s) = f[Choice(s)] + Total(f, s \ {Choice(s)})
    BY <1>2, <1>4, TotalStep
  <2>. DEFINE u == s \ {Choice(s)}
  <2>2. Total(f, u) = Cardinality(u) * k
    BY <1>1, <2>1
  <2>3. Cardinality(u) = Cardinality(s) - 1 /\ Cardinality(s) \in Nat
    BY <1>2, <2>1, FS_RemoveElement, FS_CardinalityType
  <2>4. Total(f, s) = k + (Cardinality(s) - 1) * k
    BY <2>1, <2>2, <2>3
  <2>. QED
    BY <1>1, <2>3, <2>4
<1>. QED
  BY <1>3, <1>4

(***************************************************************************)
(* The queue inside the program                                            *)
(***************************************************************************)

\* Each producer's next element is one of the queue's, or it has none left.
LeftOK ==
  /\ left \in [Producers -> Int]
  /\ \A p \in Workers : left[p] \in 0 .. N

LEMMA StepLeftOK == LeftOK /\ [ProgramNext]_allVars => LeftOK'
<1>. SUFFICES ASSUME LeftOK, [ProgramNext]_allVars PROVE LeftOK'
  OBVIOUS
<1>. USE DEF LeftOK, Workers
<1>0. N \in Nat /\ Main \in Producers
  BY UsageAssumption
<1>1. ASSUME NEW p \in Producers, NEW v, PushNext(p, v) PROVE LeftOK'
  <2>1. left' = [left EXCEPT ![p] = left[p] - 1] /\ left[p] > 0
    BY <1>1 DEF PushNext
  <2>. QED
    BY <1>0, <2>1
<1>2. ASSUME UNCHANGED left PROVE LeftOK'
  BY <1>2
<1>. QED
  BY <1>0, <1>1, <1>2
     DEF ProgramNext, ProducerThread, MainThread, ConsumerThread, Produce,
         Terminate, FinishPush, StorePanics, JoinPanics, Poll, Proceed, ReceiveNone,
         ReceiveSome, program, allVars

\* A panic leaves the queue and the loops as they are.
LEMMA PanicsLeave ==
  ASSUME NEW p, StorePanics(p) \/ JoinPanics
  PROVE  UNCHANGED <<vars, left, at, sums, word>>
BY DEF StorePanics, JoinPanics

\* The program's steps are those of the queue, but for the choice of what to push.
LEMMA ProgramIsLoose ==
  TypeOK /\ LeftOK /\ [ProgramNext]_allVars => [LooseNext]_vars
<1>. SUFFICES ASSUME TypeOK, LeftOK, [ProgramNext]_allVars PROVE [LooseNext]_vars
  OBVIOUS
<1>0. head \in Nat /\ tail \in Nat /\ unsent \subseteq Elements
  BY DEF TypeOK
<1>1. ASSUME NEW p \in Producers, NEW v \in Elements, PushNext(p, v) PROVE LooseNext
  BY <1>0, <1>1 DEF PushNext, LooseNext
<1>2. ASSUME NEW p \in Workers, Produce(p) PROVE LooseNext
  <2>1. p \in Producers /\ left[p] \in Elements /\ PushNext(p, left[p])
    BY <1>2, UsageAssumption DEF Workers, LeftOK, Produce
  <2>. QED
    BY <1>1, <2>1
<1>3. ASSUME Terminate PROVE LooseNext
  <2>1. Main \in Producers /\ Zero \in Elements /\ PushNext(Main, Zero)
    BY <1>3, UsageAssumption DEF Terminate
  <2>. QED
    BY <1>1, <2>1
<1>4. ASSUME NEW p \in Producers, FinishPush(p) PROVE LooseNext
  BY <1>4 DEF FinishPush, LooseNext
<1>5. ASSUME NEW c \in Consumers, ConsumerThread(c) PROVE LooseNext
  BY <1>0, <1>5
     DEF ConsumerThread, Poll, Proceed, ReceiveNone, ReceiveSome, CallTryPop,
         TryPopCheck, LooseNext
<1>6. Main \in Producers /\ Workers \subseteq Producers
  BY UsageAssumption DEF Workers
<1>. QED
  BY <1>2, <1>3, <1>4, <1>5, <1>6, PanicsLeave
     DEF ProgramNext, ProducerThread, MainThread, allVars

\* The inductive invariant of AtomicQueue holds of the program's queue too, which
\* is given the vacant word to pop.
THEOREM ProgramInvariance == ProgramSpec => [](IInv /\ LeftOK)
<1>1. ProgramInit => IInv
  BY InitTypeOK, InitClaimInv DEF ProgramInit, IInv, ClaimInv
<1>2. ProgramInit => LeftOK
  <2>. SUFFICES ASSUME ProgramInit PROVE LeftOK
    OBVIOUS
  <2>. QED
    BY UsageAssumption, FS_CardinalityType DEF ProgramInit, LeftOK, Workers
<1>3. IInv /\ LeftOK /\ [ProgramNext]_allVars => IInv' /\ LeftOK'
  BY ProgramIsLoose, StepLeftOK, LooseStep DEF IInv
<1>. QED
  BY <1>1, <1>2, <1>3, PTL DEF ProgramSpec

(***************************************************************************)
(* The terminators                                                         *)
(***************************************************************************)

\* Once a terminator has been pushed the producers have no element left.
TerminatorsAfterElements ==
  /\ TerminatorsLast
  /\ (\E i \in DOMAIN claimed : claimed[i] = Zero) => \A p \in Workers : left[p] = 0

LEMMA StepTerminators ==
  TypeOK /\ LeftOK /\ TerminatorsAfterElements /\ [ProgramNext]_allVars
    => TerminatorsAfterElements'
<1>. SUFFICES ASSUME TypeOK, LeftOK, TerminatorsAfterElements, [ProgramNext]_allVars
              PROVE  TerminatorsAfterElements'
  OBVIOUS
<1>. USE DEF TerminatorsAfterElements, TerminatorsLast
<1>0. head \in Nat /\ DOMAIN claimed = 0 .. (head - 1) /\ N \in Nat /\ Zero = 0
  BY UsageAssumption DEF TypeOK
<1>1. ASSUME NEW p, NEW v, PushNext(p, v)
      PROVE  /\ DOMAIN claimed' = DOMAIN claimed \cup {head} /\ claimed'[head] = v
             /\ \A i \in DOMAIN claimed : claimed'[i] = claimed[i] /\ i < head
             /\ left' = [left EXCEPT ![p] = left[p] - 1]
  BY <1>0, <1>1 DEF PushNext, PushOf, ClaimHead, Extend
<1>2. ASSUME NEW p \in Workers, Produce(p) PROVE TerminatorsAfterElements'
  <2>1. left[p] # 0 /\ PushNext(p, left[p])
    BY <1>2 DEF Produce, PushNext
  <2>2. \A i \in DOMAIN claimed : claimed[i] # Zero
    BY <1>2, <2>1
  <2>3. \A i \in DOMAIN claimed' : claimed'[i] # Zero
    BY <1>0, <1>1, <2>1, <2>2
  <2>. QED
    BY <2>3
<1>3. ASSUME Terminate PROVE TerminatorsAfterElements'
  <2>1. PushNext(Main, Zero) /\ \A p \in Workers : left[p] = 0
    BY <1>3 DEF Terminate, ProducersJoined
  <2>2. \A p \in Workers : left'[p] = 0
    BY <1>1, <2>1 DEF LeftOK, Workers
  <2>. QED
    BY <1>0, <1>1, <2>1, <2>2
<1>4. ASSUME UNCHANGED <<claimed, left>> PROVE TerminatorsAfterElements'
  BY <1>4
<1>5. ASSUME NEW c \in Consumers, ConsumerThread(c) PROVE UNCHANGED <<claimed, left>>
  BY <1>5
     DEF ConsumerThread, Poll, Proceed, ReceiveNone, ReceiveSome, CallTryPop,
         CallTryPopAt, TryPopCheck, TryPopCheckAt, TryPopClaim, ClaimTail, RefusePop,
         Take, Clear, program
<1>6. ASSUME NEW p, StorePanics(p) \/ JoinPanics PROVE TerminatorsAfterElements'
  BY <1>4, <1>6, PanicsLeave DEF vars
<1>. QED
  BY <1>2, <1>3, <1>4, <1>5, <1>6
     DEF ProgramNext, ProducerThread, MainThread, FinishPush, Store, program, allVars,
         vars

\* Every terminator is behind every element: the joins of the producers keep main
\* from ending a consumer while an element is still to be claimed.
THEOREM TerminatorsComeLast == ProgramSpec => []TerminatorsLast
<1>1. ProgramInit => TerminatorsAfterElements
  BY DEF ProgramInit, Init, EmptyMap, TerminatorsAfterElements, TerminatorsLast
<1>2. TerminatorsAfterElements => TerminatorsLast
  BY DEF TerminatorsAfterElements
<1>3. IInv => TypeOK
  BY DEF IInv
<1>. QED
  BY <1>1, <1>2, <1>3, ProgramInvariance, StepTerminators, PTL DEF ProgramSpec

(***************************************************************************)
(* The sum                                                                 *)
(***************************************************************************)

LEMMA UpToStep == \A n \in Nat \ {0} : UpTo(n) \in Int /\ UpTo(n) = UpTo(n - 1) + n
<1>. SUFFICES ASSUME NEW n \in Nat \ {0} PROVE UpTo(n) \in Int /\ UpTo(n) = UpTo(n - 1) + n
  OBVIOUS
<1>1. n * (n + 1) = (n - 1) * n + 2 * n
  OBVIOUS
<1>2. \A a \in Int : (a + 2 * n) \div 2 = (a \div 2) + n
  OBVIOUS
<1>3. (n - 1) * n \in Int /\ (n - 1) + 1 = n
  OBVIOUS
<1>. QED
  BY <1>1, <1>2, <1>3 DEF UpTo

Outstanding == DOMAIN claimed \ DOMAIN delivered
StillToPush == [p \in Workers |-> UpTo(left[p])]

Conserved ==
  Total(sums, Consumers) + Total(claimed, Outstanding) + Total(StillToPush, Workers)
    = Cardinality(Workers) * UpTo(N)

SumInv == sums \in [Consumers -> Int] /\ (~lapped => Conserved)

LEMMA UpToType == \A n \in Int : UpTo(n) \in Int
BY DEF UpTo

LEMMA Finite ==
  ASSUME TypeOK
  PROVE  /\ IsFiniteSet(Workers) /\ IsFiniteSet(Consumers) /\ IsFiniteSet(Outstanding)
         /\ \A i \in DOMAIN claimed : claimed[i] \in Int
<1>1. IsFiniteSet(Workers) /\ IsFiniteSet(Consumers)
  BY UsageAssumption, FS_Subset DEF Workers
<1>2. IsFiniteSet(DOMAIN claimed) /\ Outstanding \in SUBSET DOMAIN claimed
  <2>1. DOMAIN claimed = 0 .. (head - 1) /\ head - 1 \in Int
    BY DEF TypeOK
  <2>. QED
    BY <2>1, FS_Interval DEF Outstanding
<1>3. \A i \in DOMAIN claimed : claimed[i] \in Int
  BY UsageAssumption DEF TypeOK
<1>. QED
  BY <1>1, <1>2, <1>3, FS_Subset

LEMMA InitSum == ProgramInit => SumInv
<1>. SUFFICES ASSUME ProgramInit PROVE SumInv
  OBVIOUS
<1>1. TypeOK
  BY InitTypeOK DEF ProgramInit
<1>2. sums \in [Consumers -> Int] /\ Total(sums, Consumers) = Cardinality(Consumers) * 0
  BY <1>1, Finite, TotalConstant DEF ProgramInit
<1>3. Total(claimed, Outstanding) = 0
  <2>1. Outstanding = {}
    BY DEF ProgramInit, Init, EmptyMap, Outstanding
  <2>. QED
    BY <2>1, FS_EmptySet, TotalStep
<1>4. Total(StillToPush, Workers) = Cardinality(Workers) * UpTo(N)
  <2>1. \A p \in Workers : StillToPush[p] = UpTo(N)
    BY DEF ProgramInit, StillToPush, Workers
  <2>. QED
    BY <1>1, <2>1, Finite, TotalConstant, UpToType, UsageAssumption
<1>5. Cardinality(Consumers) \in Nat /\ Cardinality(Workers) * UpTo(N) \in Int
  BY <1>1, Finite, FS_CardinalityType, UpToType, UsageAssumption
<1>. QED
  BY <1>2, <1>3, <1>4, <1>5 DEF SumInv, Conserved

\* A claim for v adds v to what is outstanding.
LEMMA ClaimAdds ==
  ASSUME IInv, ~lapped, NEW p, NEW v \in 0 .. N, PushNext(p, v)
  PROVE  /\ UNCHANGED <<sums, lapped>>
         /\ left' = [left EXCEPT ![p] = left[p] - 1]
         /\ Total(claimed', Outstanding') = Total(claimed, Outstanding) + v
<1>1. /\ UNCHANGED <<sums, lapped, delivered>> /\ claimed' = Extend(claimed, head, v)
      /\ left' = [left EXCEPT ![p] = left[p] - 1]
  BY DEF PushNext, PushOf, ClaimHead
<1>2. TypeOK /\ DOMAIN claimed = 0 .. (head - 1) /\ head \in Nat
  BY DEF IInv, TypeOK
<1>3. head \notin DOMAIN delivered
  BY <1>2 DEF IInv, SlotsFaithful, Stored
<1>4. /\ Outstanding' = Outstanding \cup {head} /\ head \notin Outstanding
      /\ claimed'[head] = v
      /\ \A i \in Outstanding : claimed'[i] = claimed[i]
  BY <1>1, <1>2, <1>3 DEF Outstanding, Extend
<1>5. /\ IsFiniteSet(Outstanding) /\ IsFiniteSet(Outstanding')
      /\ \A i \in Outstanding : claimed[i] \in Int
  <2>1. IsFiniteSet(Outstanding) /\ \A i \in DOMAIN claimed : claimed[i] \in Int
    BY <1>2, Finite
  <2>2. IsFiniteSet(Outstanding \cup {head})
    BY <2>1, FS_AddElement
  <2>. QED
    BY <1>4, <2>1, <2>2 DEF Outstanding
<1>6. \A i \in Outstanding' : claimed'[i] \in Int
  BY <1>4, <1>5
<1>7. Total(claimed', Outstanding') = claimed'[head] + Total(claimed', Outstanding' \ {head})
  BY <1>4, <1>5, <1>6, TotalRemove
<1>8. Outstanding' \ {head} = Outstanding
  BY <1>4
<1>9. Total(claimed', Outstanding) = Total(claimed, Outstanding)
  BY <1>4, <1>5, TotalSame
<1>10. Total(claimed, Outstanding) \in Int
  BY <1>5, TotalType
<1>11. Total(claimed', Outstanding') = v + Total(claimed, Outstanding)
  BY <1>4, <1>7, <1>8, <1>9
<1>12. v \in Int
  BY UsageAssumption
<1>. QED
  BY <1>1, <1>10, <1>11, <1>12

\* An element received leaves what is outstanding for its consumer's sum.
LEMMA ReceiptMoves ==
  ASSUME IInv, ~lapped, sums \in [Consumers -> Int], NEW c \in Consumers, ReceiveSome(c)
  PROVE  /\ UNCHANGED <<left, lapped>> /\ sums' \in [Consumers -> Int]
         /\ \E v \in Int :
              /\ Total(claimed', Outstanding') = Total(claimed, Outstanding) - v
              /\ Total(sums', Consumers) = Total(sums, Consumers) + v
<1>. DEFINE i == index[c]
<1>1. /\ UNCHANGED <<left, lapped, claimed>> /\ pc[c] = "clear" /\ c \in Threads
      /\ delivered' = Extend(delivered, i, element[c])
      /\ sums' = [sums EXCEPT ![c] = sums[c] + element[c]]
  BY DEF ReceiveSome, Clear, Threads
<1>2. TypeOK
  BY DEF IInv
<1>3. i \in DOMAIN claimed /\ i \notin DOMAIN delivered /\ element[c] = claimed[i]
  BY <1>1 DEF IInv, SoleClaim, PopClaims, SlotsFaithful, Stored
<1>4. claimed[i] \in Int /\ IsFiniteSet(Outstanding) /\ IsFiniteSet(Consumers)
      /\ \A j \in Outstanding : claimed[j] \in Int
  BY <1>2, <1>3, Finite DEF Outstanding
<1>5. i \in Outstanding /\ Outstanding' = Outstanding \ {i}
  BY <1>1, <1>3 DEF Outstanding, Extend
<1>6. Total(claimed, Outstanding) = claimed[i] + Total(claimed, Outstanding')
  BY <1>4, <1>5, TotalRemove
<1>7. Total(claimed, Outstanding') \in Int
  <2>1. IsFiniteSet(Outstanding')
    BY <1>4, <1>5, FS_RemoveElement
  <2>. QED
    BY <1>4, <1>5, <2>1, TotalType
<1>8. sums' \in [Consumers -> Int] /\ sums'[c] = sums[c] + claimed[i]
  BY <1>1, <1>3, <1>4
<1>9. Total(sums', Consumers) = Total(sums, Consumers) + sums'[c] - sums[c]
  <2>1. \A d \in Consumers :
          sums[d] \in Int /\ sums'[d] \in Int /\ (d # c => sums'[d] = sums[d])
    BY <1>1, <1>8
  <2>. QED
    BY <1>4, <2>1, TotalChange
<1>10. Total(sums, Consumers) \in Int
  BY <1>4, TotalType
<1>11. Total(claimed', Outstanding') = Total(claimed, Outstanding) - claimed[i]
  BY <1>1, <1>4, <1>6, <1>7
<1>12. Total(sums', Consumers) = Total(sums, Consumers) + claimed[i]
  BY <1>4, <1>8, <1>9, <1>10
<1>. QED
  BY <1>1, <1>4, <1>8, <1>11, <1>12

LEMMA StepSum == IInv /\ LeftOK /\ SumInv /\ [ProgramNext]_allVars => SumInv'
<1>. SUFFICES ASSUME IInv, LeftOK, SumInv, [ProgramNext]_allVars PROVE SumInv'
  OBVIOUS
<1>. USE DEF SumInv
<1>0. TypeOK /\ N \in Nat /\ Zero = 0 /\ IsFiniteSet(Workers)
  BY UsageAssumption, Finite DEF IInv
<1>1. /\ ~lapped => Total(sums, Consumers) \in Int
      /\ Total(claimed, Outstanding) \in Int
      /\ \A p \in Workers : StillToPush[p] \in Int
      /\ Total(StillToPush, Workers) \in Int
  <2>1. \A p \in Workers : StillToPush[p] \in Int
    BY <1>0, UpToType DEF StillToPush, LeftOK
  <2>. QED
    BY <1>0, <2>1, Finite, TotalType DEF Outstanding
<1>2. ASSUME NEW p \in Workers, Produce(p) PROVE SumInv'
  <2>1. left[p] \in 1 .. N /\ PushNext(p, left[p])
    BY <1>2 DEF Produce, PushNext, LeftOK
  <2>2. lapped' = lapped /\ sums' = sums
    BY <2>1 DEF PushNext, PushOf, ClaimHead
  <2>3. CASE lapped
    BY <2>2, <2>3
  <2>4. CASE ~lapped
    <3>1. /\ left' = [left EXCEPT ![p] = left[p] - 1]
          /\ Total(claimed', Outstanding') = Total(claimed, Outstanding) + left[p]
      BY <2>1, <2>4, ClaimAdds
    <3>2. StillToPush'[p] = UpTo(left[p] - 1) /\ StillToPush[p] = UpTo(left[p])
      BY <3>1 DEF StillToPush, LeftOK, Workers
    <3>3. StillToPush[p] = StillToPush'[p] + left[p] /\ StillToPush'[p] \in Int
      BY <1>0, <2>1, <3>2, UpToStep, UpToType
    <3>4. \A q \in Workers : q # p => StillToPush'[q] = StillToPush[q]
      BY <3>1 DEF StillToPush, LeftOK, Workers
    <3>5. Total(StillToPush', Workers)
            = Total(StillToPush, Workers) + StillToPush'[p] - StillToPush[p]
      BY <1>0, <1>1, <3>3, <3>4, TotalChange
    <3>. QED
      BY <1>1, <2>1, <2>2, <2>4, <3>1, <3>3, <3>5 DEF Conserved
  <2>. QED
    BY <2>3, <2>4
<1>3. ASSUME Terminate PROVE SumInv'
  <2>1. PushNext(Main, Zero) /\ Zero \in 0 .. N
    BY <1>0, <1>3 DEF Terminate
  <2>2. lapped' = lapped /\ sums' = sums
    BY <2>1 DEF PushNext, PushOf, ClaimHead
  <2>3. CASE lapped
    BY <2>2, <2>3
  <2>4. CASE ~lapped
    <3>1. /\ left' = [left EXCEPT ![Main] = left[Main] - 1]
          /\ Total(claimed', Outstanding') = Total(claimed, Outstanding)
      BY <1>0, <1>1, <2>1, <2>4, ClaimAdds
    <3>2. StillToPush' = StillToPush
      BY <3>1 DEF StillToPush, Workers, LeftOK
    <3>. QED
      BY <2>2, <2>4, <3>1, <3>2 DEF Conserved
  <2>. QED
    BY <2>3, <2>4
<1>4. ASSUME NEW c \in Consumers, ReceiveSome(c) PROVE SumInv'
  <2>1. CASE lapped
    <3>1. lapped' /\ sums' = [sums EXCEPT ![c] = sums[c] + element[c]]
          /\ c \in Threads
      BY <1>4, <2>1 DEF ReceiveSome, Clear, Threads
    <3>2. element[c] \in Int
      BY <1>0, <3>1, UsageAssumption DEF TypeOK
    <3>. QED
      BY <3>1, <3>2
  <2>2. CASE ~lapped
    <3>1. /\ UNCHANGED <<left, lapped>> /\ sums' \in [Consumers -> Int]
      BY <1>4, <2>2, ReceiptMoves
    <3>2. PICK v \in Int :
            /\ Total(claimed', Outstanding') = Total(claimed, Outstanding) - v
            /\ Total(sums', Consumers) = Total(sums, Consumers) + v
      BY <1>4, <2>2, ReceiptMoves
    <3>3. StillToPush' = StillToPush
      BY <3>1 DEF StillToPush
    <3>. QED
      BY <1>1, <2>2, <3>1, <3>2, <3>3 DEF Conserved
  <2>. QED
    BY <2>1, <2>2
<1>5. ASSUME UNCHANGED <<sums, claimed, delivered, left>>, lapped => lapped' PROVE SumInv'
  BY <1>5 DEF Conserved, Outstanding, StillToPush
<1>6. ASSUME NEW p \in Producers, FinishPush(p) PROVE SumInv'
  BY <1>0, <1>5, <1>6 DEF FinishPush, Store, program, TypeOK
<1>7. ASSUME NEW c \in Consumers, Poll(c) \/ Proceed(c) \/ ReceiveNone(c) PROVE SumInv'
  BY <1>5, <1>7
     DEF Poll, Proceed, ReceiveNone, CallTryPop, CallTryPopAt, TryPopCheck,
         TryPopCheckAt, TryPopClaim, ClaimTail, RefusePop, Take, program
<1>8. ASSUME UNCHANGED allVars PROVE SumInv'
  BY <1>5, <1>8 DEF allVars, vars, program
<1>9. ASSUME NEW p, StorePanics(p) \/ JoinPanics PROVE SumInv'
  BY <1>5, <1>9, PanicsLeave DEF vars
<1>. QED
  BY <1>2, <1>3, <1>4, <1>6, <1>7, <1>8, <1>9, UsageAssumption
     DEF ProgramNext, ProducerThread, MainThread, ConsumerThread, Workers

\* Until a slot is shared, what the program adds up in the end is neither lost nor
\* counted twice on the way, for any number of threads and elements.
THEOREM SumConserved == ProgramSpec => []SumConservedUntilLapped
<1>1. SumInv => SumConservedUntilLapped
  BY DEF SumInv, Conserved, Outstanding, StillToPush, SumConservedUntilLapped
<1>. QED
  BY <1>1, InitSum, StepSum, ProgramInvariance, PTL DEF ProgramSpec
=============================================================================
