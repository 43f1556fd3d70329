--------------------------- MODULE RefundsProofs ---------------------------
(***************************************************************************)
(* Proofs about Refunds for every number of refunds, requests and bounds.  *)
(***************************************************************************)
EXTENDS Refunds, Folds, FiniteSetTheorems, WellFoundedInduction, NaturalsInduction, TLAPS

\* The oldest row of a list is on it.
LEMMA OldestIn ==
  ASSUME NEW S \in SUBSET Rows, S # {}
  PROVE  Oldest(S) \in S
<1>1. S \subseteq Nat
  BY RefundsAssumption DEF Rows
<1>2. PICK m \in S : \A k \in S : ~ (<<k, m>> \in OpToRel(<, Nat))
  BY <1>1, WFMin, NatLessThanWellFounded, Zenon
<1>3. \A k \in S : ~ (k < m)
  BY <1>1, <1>2, Zenon DEF OpToRel
<1>4. \A k \in S : m <= k
  BY <1>1, <1>3, SMT
<1> QED
  BY <1>4 DEF Oldest

-----------------------------------------------------------------------------
(* Sums *)

\* The fold takes the elements of a set in an order of its own.
Pick(s) == CHOOSE x \in s : TRUE
Part(f, g, s) == IF s = {} THEN 0 ELSE f[Pick(s)] + g[s \ {Pick(s)}]
Adds(f, g, S) == g = [s \in SUBSET S |-> Part(f, g, s)]

\* The sum of the library is the value of such a recursive function.
LEMMA SumUnfolds ==
  ASSUME NEW f, NEW S
  PROVE  SumFunctionOnSet(f, S) = (CHOOSE g : Adds(f, g, S))[S]
  BY DEF SumFunctionOnSet, FoldFunctionOnSet, MapThenFoldSet, Adds, Part, Pick

\* A finite set without one of its elements is smaller.
LEMMA Removed ==
  ASSUME NEW S, IsFiniteSet(S), NEW x \in S
  PROVE  IsFiniteSet(S \ {x}) /\ Cardinality(S \ {x}) < Cardinality(S)
<1>1. /\ IsFiniteSet(S \ {x}) /\ Cardinality(S \ {x}) = Cardinality(S) - 1
  BY FS_RemoveElement
<1>2. Cardinality(S) \in Nat
  BY FS_CardinalityType
<1> QED
  BY <1>1, <1>2

\* Taking the next element leaves a smaller set.
LEMMA Taken ==
  ASSUME NEW S, IsFiniteSet(S), S # {}
  PROVE  /\ Pick(S) \in S /\ IsFiniteSet(S \ {Pick(S)})
         /\ Cardinality(S \ {Pick(S)}) < Cardinality(S)
<1>1. Pick(S) \in S
  BY DEF Pick
<1> QED
  BY <1>1, Removed

\* Among sets there is one with no smaller one.
LEMMA Smallest ==
  ASSUME NEW S, IsFiniteSet(S), NEW B \in SUBSET SUBSET S, B # {}
  PROVE  \E s \in B : \A t \in B : ~(Cardinality(t) < Cardinality(s))
<1>1. \A s \in B : IsFiniteSet(s) /\ Cardinality(s) \in Nat
  BY FS_Subset, FS_CardinalityType
<1> DEFINE N == {Cardinality(s) : s \in B}
<1>2. N \subseteq Nat /\ N # {}
  BY <1>1
<1> HIDE DEF N
<1>3. PICK n \in N : \A m \in N : ~(<<m, n>> \in OpToRel(<, Nat))
  BY <1>2, NatLessThanWellFounded, WFMin, Zenon
<1>4. \A m \in N : ~(m < n)
  BY <1>2, <1>3, Zenon DEF OpToRel
<1>5. PICK s \in B : n = Cardinality(s)
  BY <1>3 DEF N
<1>6. \A t \in B : Cardinality(t) \in N
  BY DEF N
<1> QED
  BY <1>4, <1>5, <1>6

\* A sum is its next element and the sum of the others.  A smallest set for which it
\* is not would follow from its subsets.
LEMMA SumTakes ==
  ASSUME NEW f, NEW S, IsFiniteSet(S)
  PROVE  SumFunctionOnSet(f, S) = IF S = {} THEN 0 ELSE f[Pick(S)] + SumFunctionOnSet(f, S \ {Pick(S)})
<1> DEFINE Sum(s) == IF s = {} THEN 0 ELSE f[Pick(s)] + SumFunctionOnSet(f, s \ {Pick(s)})
           B == {s \in SUBSET S : SumFunctionOnSet(f, s) # Sum(s)}
<1> SUFFICES ASSUME B # {} PROVE FALSE
  OBVIOUS
<1>1. PICK s \in B : \A t \in B : ~(Cardinality(t) < Cardinality(s))
  BY Smallest
<1>2. IsFiniteSet(s) /\ s \in SUBSET S /\ SumFunctionOnSet(f, s) # Sum(s)
  BY FS_Subset
<1>3. ASSUME NEW t \in SUBSET s, t # s PROVE SumFunctionOnSet(f, t) = Sum(t)
  <2>1. Cardinality(t) < Cardinality(s)
    BY <1>2, <1>3, FS_Subset, FS_CardinalityType
  <2> QED
    BY <1>1, <1>2, <2>1
<1> HIDE DEF B
<1> DEFINE g == [t \in SUBSET s |-> IF t = s THEN Sum(s) ELSE SumFunctionOnSet(f, t)]
<1>4. Adds(f, g, s)
  <2> SUFFICES ASSUME NEW t \in SUBSET s PROVE g[t] = Part(f, g, t)
    BY DEF Adds
  <2>1. CASE t = {}
    BY <1>3, <2>1 DEF Part
  <2>2. CASE t # {}
    <3>1. g[t] = f[Pick(t)] + SumFunctionOnSet(f, t \ {Pick(t)})
      BY <1>3, <2>2
    <3>2. t \ {Pick(t)} \in SUBSET s /\ t \ {Pick(t)} # s
      BY <2>2 DEF Pick
    <3> QED
      BY <2>2, <3>1, <3>2 DEF Part
  <2> QED
    BY <2>1, <2>2
<1> DEFINE h == CHOOSE k : Adds(f, k, s)
<1>5. Adds(f, h, s) /\ SumFunctionOnSet(f, s) = h[s]
  BY <1>4, SumUnfolds
<1> HIDE DEF g, h
<1>6. \A t \in SUBSET s : h[t] = Part(f, h, t)
  BY <1>5 DEF Adds
<1>7. \A t \in SUBSET s : t # s => h[t] = SumFunctionOnSet(f, t)
  <2> DEFINE C == {t \in SUBSET s : t # s /\ h[t] # SumFunctionOnSet(f, t)}
  <2> SUFFICES ASSUME C # {} PROVE FALSE
    OBVIOUS
  <2>1. PICK t \in C : \A u \in C : ~(Cardinality(u) < Cardinality(t))
    BY <1>2, Smallest
  <2>2. IsFiniteSet(t)
    BY <1>2, FS_Subset
  <2>3. h[t] = Part(f, h, t) /\ SumFunctionOnSet(f, t) = Sum(t)
    BY <1>3, <1>6
  <2>4. CASE t = {}
    BY <2>1, <2>3, <2>4 DEF Part
  <2>5. CASE t # {}
    <3>1. t \ {Pick(t)} \in SUBSET s /\ t \ {Pick(t)} # s /\ t \ {Pick(t)} \notin C
      BY <2>1, <2>2, <2>5, Taken
    <3>2. h[t \ {Pick(t)}] = SumFunctionOnSet(f, t \ {Pick(t)})
      BY <3>1
    <3> QED
      BY <2>1, <2>3, <2>5, <3>2 DEF Part
  <2> QED
    BY <2>4, <2>5
<1>8. h[s] = Sum(s)
  <2>1. CASE s = {}
    BY <1>6, <2>1 DEF Part
  <2>2. CASE s # {}
    <3>1. s \ {Pick(s)} \in SUBSET s /\ s \ {Pick(s)} # s
      BY <1>2, <2>2, Taken
    <3> QED
      BY <1>6, <1>7, <2>2, <3>1 DEF Part
  <2> QED
    BY <2>1, <2>2
<1> QED
  BY <1>2, <1>5, <1>8

\* Numbers add up to a number.
LEMMA SumType ==
  ASSUME NEW f, NEW S, IsFiniteSet(S), \A x \in S : f[x] \in Nat
  PROVE  SumFunctionOnSet(f, S) \in Nat
<1> DEFINE B == {s \in SUBSET S : SumFunctionOnSet(f, s) \notin Nat}
<1> SUFFICES ASSUME B # {} PROVE FALSE
  OBVIOUS
<1>1. PICK s \in B : \A t \in B : ~(Cardinality(t) < Cardinality(s))
  BY Smallest
<1>2. IsFiniteSet(s) /\ s \in SUBSET S /\ SumFunctionOnSet(f, s) \notin Nat
  BY FS_Subset
<1>3. s # {}
  <2>1. SumFunctionOnSet(f, {}) = 0
    BY FS_EmptySet, SumTakes
  <2> QED
    BY <1>2, <2>1
<1>4. SumFunctionOnSet(f, s) = f[Pick(s)] + SumFunctionOnSet(f, s \ {Pick(s)})
  BY <1>2, <1>3, SumTakes
<1>5. Pick(s) \in S /\ s \ {Pick(s)} \in SUBSET S /\ s \ {Pick(s)} \notin B
  BY <1>1, <1>2, <1>3, Taken
<1>6. f[Pick(s)] \in Nat /\ SumFunctionOnSet(f, s \ {Pick(s)}) \in Nat
  BY <1>5
<1> QED
  BY <1>2, <1>4, <1>6

\* It does not matter which element is taken first.
LEMMA SumRemoves ==
  ASSUME NEW f, NEW S, IsFiniteSet(S), \A x \in S : f[x] \in Nat, NEW x \in S
  PROVE  SumFunctionOnSet(f, S) = f[x] + SumFunctionOnSet(f, S \ {x})
<1> DEFINE B == {s \in SUBSET S : \E y \in s : SumFunctionOnSet(f, s) # f[y] + SumFunctionOnSet(f, s \ {y})}
<1> SUFFICES ASSUME B # {} PROVE FALSE
  OBVIOUS
<1>1. PICK s \in B : \A t \in B : ~(Cardinality(t) < Cardinality(s))
  BY Smallest
<1>2. PICK y \in s : SumFunctionOnSet(f, s) # f[y] + SumFunctionOnSet(f, s \ {y})
  OBVIOUS
<1> DEFINE p == Pick(s)
<1>3. /\ IsFiniteSet(s) /\ s \in SUBSET S /\ s # {} /\ p \in s
      /\ IsFiniteSet(s \ {p}) /\ Cardinality(s \ {p}) < Cardinality(s)
  BY <1>2, FS_Subset, Taken
<1>4. SumFunctionOnSet(f, s) = f[p] + SumFunctionOnSet(f, s \ {p})
  BY <1>3, SumTakes
<1>5. y # p
  BY <1>2, <1>4
<1>6. IsFiniteSet(s \ {y}) /\ Cardinality(s \ {y}) < Cardinality(s)
  BY <1>2, <1>3, Removed
<1>7. \A t \in SUBSET S : Cardinality(t) < Cardinality(s) => t \notin B
  BY <1>1
<1>8. s \ {p} \notin B /\ s \ {y} \notin B
  BY <1>2, <1>3, <1>6, <1>7
<1>9. SumFunctionOnSet(f, s \ {p}) = f[y] + SumFunctionOnSet(f, (s \ {p}) \ {y})
  <2>1. s \ {p} \in SUBSET S /\ y \in s \ {p}
    BY <1>2, <1>3, <1>5
  <2> QED
    BY <1>8, <2>1
<1>10. SumFunctionOnSet(f, s \ {y}) = f[p] + SumFunctionOnSet(f, (s \ {y}) \ {p})
  <2>1. s \ {y} \in SUBSET S /\ p \in s \ {y}
    BY <1>2, <1>3, <1>5
  <2> QED
    BY <1>8, <2>1
<1>11. (s \ {p}) \ {y} = (s \ {y}) \ {p}
  OBVIOUS
<1>12. /\ f[p] \in Nat /\ f[y] \in Nat /\ SumFunctionOnSet(f, (s \ {y}) \ {p}) \in Nat
  <2>1. IsFiniteSet((s \ {y}) \ {p}) /\ \A z \in (s \ {y}) \ {p} : f[z] \in Nat
    BY <1>3, <1>6, FS_RemoveElement
  <2> QED
    BY <1>2, <1>3, <2>1, SumType
<1> HIDE DEF p
<1> QED
  BY <1>2, <1>4, <1>9, <1>10, <1>11, <1>12

\* A sum depends on the values it adds.
LEMMA SumSame ==
  ASSUME NEW f, NEW g, NEW S, IsFiniteSet(S), \A x \in S : f[x] = g[x]
  PROVE  SumFunctionOnSet(f, S) = SumFunctionOnSet(g, S)
<1> DEFINE B == {s \in SUBSET S : SumFunctionOnSet(f, s) # SumFunctionOnSet(g, s)}
<1> SUFFICES ASSUME B # {} PROVE FALSE
  OBVIOUS
<1>1. PICK s \in B : \A t \in B : ~(Cardinality(t) < Cardinality(s))
  BY Smallest
<1>2. IsFiniteSet(s) /\ s \in SUBSET S /\ SumFunctionOnSet(f, s) # SumFunctionOnSet(g, s)
  BY FS_Subset
<1>3. s # {}
  BY <1>2, SumTakes
<1>4. Pick(s) \in S /\ s \ {Pick(s)} \in SUBSET S /\ s \ {Pick(s)} \notin B
  BY <1>1, <1>2, <1>3, Taken
<1>5. SumFunctionOnSet(f, s \ {Pick(s)}) = SumFunctionOnSet(g, s \ {Pick(s)}) /\ f[Pick(s)] = g[Pick(s)]
  BY <1>4
<1> QED
  BY <1>2, <1>3, <1>5, SumTakes

\* More elements add up to more.
LEMMA SumGrows ==
  ASSUME NEW f, NEW S, IsFiniteSet(S), \A x \in S : f[x] \in Nat, NEW T \in SUBSET S
  PROVE  SumFunctionOnSet(f, T) <= SumFunctionOnSet(f, S)
<1> DEFINE B == {s \in SUBSET S : T \subseteq s /\ ~(SumFunctionOnSet(f, T) <= SumFunctionOnSet(f, s))}
<1> SUFFICES ASSUME B # {} PROVE FALSE
  OBVIOUS
<1>0. B \in SUBSET SUBSET S
  OBVIOUS
<1>1. PICK s \in B : \A t \in B : ~(Cardinality(t) < Cardinality(s))
  <2> HIDE DEF B
  <2> QED
    BY <1>0, Smallest
<1>2. /\ IsFiniteSet(s) /\ s \in SUBSET S /\ T \subseteq s
      /\ ~(SumFunctionOnSet(f, T) <= SumFunctionOnSet(f, s)) /\ \A x \in s : f[x] \in Nat
  BY FS_Subset
<1>3. SumFunctionOnSet(f, T) \in Nat /\ SumFunctionOnSet(f, s) \in Nat
  <2>1. IsFiniteSet(T) /\ \A x \in T : f[x] \in Nat
    BY FS_Subset
  <2> QED
    BY <1>2, <2>1, SumType
<1>4. PICK x \in s : x \notin T
  BY <1>2, <1>3
<1>5. IsFiniteSet(s \ {x}) /\ Cardinality(s \ {x}) < Cardinality(s)
  BY <1>2, Removed
<1>6. SumFunctionOnSet(f, s) = f[x] + SumFunctionOnSet(f, s \ {x})
  BY <1>2, SumRemoves
<1>7. SumFunctionOnSet(f, s \ {x}) \in Nat /\ f[x] \in Nat
  BY <1>2, <1>5, SumType
<1>8. s \ {x} \in SUBSET S /\ T \subseteq s \ {x} /\ s \ {x} \notin B
  BY <1>1, <1>2, <1>4, <1>5
<1>9. SumFunctionOnSet(f, T) <= SumFunctionOnSet(f, s \ {x})
  BY <1>8
<1> QED
  BY <1>2, <1>3, <1>6, <1>7, <1>9

\* Two sets that share nothing add up.
LEMMA SumSplits ==
  ASSUME NEW f, NEW S, IsFiniteSet(S), \A x \in S : f[x] \in Nat,
         NEW T \in SUBSET S
  PROVE  SumFunctionOnSet(f, S) = SumFunctionOnSet(f, T) + SumFunctionOnSet(f, S \ T)
<1> DEFINE B == {s \in SUBSET T : SumFunctionOnSet(f, (S \ T) \cup s) # SumFunctionOnSet(f, s) + SumFunctionOnSet(f, S \ T)}
<1>0. IsFiniteSet(T) /\ IsFiniteSet(S \ T) /\ (S \ T) \cup T = S
  BY FS_Subset
<1>a. \A s \in SUBSET S : SumFunctionOnSet(f, s) \in Nat
  <2> SUFFICES ASSUME NEW s \in SUBSET S PROVE SumFunctionOnSet(f, s) \in Nat
    OBVIOUS
  <2>1. IsFiniteSet(s) /\ \A x \in s : f[x] \in Nat
    BY FS_Subset
  <2> QED
    BY <2>1, SumType
<1> SUFFICES ASSUME B # {} PROVE FALSE
  <2>1. T \notin B
    OBVIOUS
  <2>2. SumFunctionOnSet(f, (S \ T) \cup T) = SumFunctionOnSet(f, T) + SumFunctionOnSet(f, S \ T)
    BY <2>1
  <2> QED
    BY <1>0, <2>2
<1>1. PICK s \in B : \A t \in B : ~(Cardinality(t) < Cardinality(s))
  BY <1>0, Smallest
<1>2. IsFiniteSet(s) /\ s \in SUBSET T /\ s \in SUBSET S
      /\ SumFunctionOnSet(f, (S \ T) \cup s) # SumFunctionOnSet(f, s) + SumFunctionOnSet(f, S \ T)
  BY <1>0, FS_Subset
<1>3. CASE s = {}
  <2>1. SumFunctionOnSet(f, s) = 0 /\ (S \ T) \cup s = S \ T
    BY <1>2, <1>3, SumTakes
  <2> QED
    BY <1>2, <1>a, <2>1
<1>4. CASE s # {}
  <2>1. PICK x \in s : TRUE
    BY <1>4
  <2>2. IsFiniteSet(s \ {x}) /\ Cardinality(s \ {x}) < Cardinality(s)
    BY <1>2, Removed
  <2>3. s \ {x} \in SUBSET T /\ s \ {x} \notin B /\ s \ {x} \in SUBSET S
    BY <1>1, <1>2, <2>2
  <2>4. SumFunctionOnSet(f, (S \ T) \cup (s \ {x})) = SumFunctionOnSet(f, s \ {x}) + SumFunctionOnSet(f, S \ T)
    BY <2>3
  <2>5. SumFunctionOnSet(f, s) = f[x] + SumFunctionOnSet(f, s \ {x}) /\ f[x] \in Nat
    <3>1. \A y \in s : f[y] \in Nat
      BY <1>2
    <3> QED
      BY <1>2, <3>1, SumRemoves
  <2> DEFINE U == (S \ T) \cup s
  <2>6. IsFiniteSet(U) /\ x \in U /\ U \ {x} = (S \ T) \cup (s \ {x}) /\ U \in SUBSET S
    BY <1>2, FS_Subset
  <2>7. SumFunctionOnSet(f, U) = f[x] + SumFunctionOnSet(f, U \ {x})
    <3>1. \A y \in U : f[y] \in Nat
      BY <2>6
    <3> HIDE DEF U
    <3> QED
      BY <2>6, <3>1, SumRemoves
  <2>8. SumFunctionOnSet(f, s \ {x}) \in Nat /\ SumFunctionOnSet(f, S \ T) \in Nat
    BY <1>a, <2>3
  <2>9. SumFunctionOnSet(f, U) # SumFunctionOnSet(f, s) + SumFunctionOnSet(f, S \ T)
    BY <1>2
  <2> HIDE DEF U
  <2>10. SumFunctionOnSet(f, U) = f[x] + (SumFunctionOnSet(f, s \ {x}) + SumFunctionOnSet(f, S \ T))
    BY <2>4, <2>6, <2>7, Zenon
  <2>11. ASSUME NEW a \in Nat, NEW b \in Nat, NEW c \in Nat
         PROVE  a + (b + c) = (a + b) + c
    OBVIOUS
  <2>12. f[x] + (SumFunctionOnSet(f, s \ {x}) + SumFunctionOnSet(f, S \ T)) = (f[x] + SumFunctionOnSet(f, s \ {x})) + SumFunctionOnSet(f, S \ T)
    BY <2>5, <2>8, <2>11
  <2> QED
    BY <2>5, <2>9, <2>10, <2>12, Zenon
<1> QED
  BY <1>3, <1>4

-----------------------------------------------------------------------------
(* Types *)

\* The initial state is well typed.
LEMMA TypeInit == Init => TypeOK
<1> SUFFICES ASSUME Init PROVE TypeOK
  OBVIOUS
<1> USE DEF Init
<1>1. status \in [Rows -> Statuses] /\ amount \in [Rows -> 0 .. Amount] /\ execution \in [Rows -> {"AUTO", "MANUAL"}]
  BY RefundsAssumption DEF Statuses
<1>2. unknown \in [Rows -> BOOLEAN] /\ fresh \in [Rows -> BOOLEAN] /\ young \in [Rows -> BOOLEAN]
  OBVIOUS
<1>3. pg \in [Rows -> {"new", "open", "paid", "refused"}] /\ hand \in [Rows -> BOOLEAN]
  OBVIOUS
<1>4. pc \in [Slots -> Steps] /\ row \in [Slots -> Rows \cup {0}] /\ answer \in [Slots -> Answers]
  BY DEF Steps, Answers
<1>5. todo \in [Slots -> SUBSET Rows] /\ full \in [Slots -> BOOLEAN]
  OBVIOUS
<1> QED
  BY <1>1, <1>2, <1>3, <1>4, <1>5 DEF TypeOK

\* TypeOK, in two parts: the memory of the slots, and all the rest.  A slot that
\* has rows to resend knows one.
SlotsTyped ==
  /\ pc \in [Slots -> Steps] /\ row \in [Slots -> Rows \cup {0}]
  /\ answer \in [Slots -> Answers] /\ todo \in [Slots -> SUBSET Rows]
  /\ full \in [Slots -> BOOLEAN]
  /\ \A s \in Slots : pc[s] = "idle" => row[s] = 0 /\ answer[s] = "none" /\ todo[s] = {}
  /\ \A s \in Slots : pc[s] = "settling" => todo[s] # {}

RowsTyped ==
  /\ method \in Methods /\ charge \in {"SUCCEEDED", "REFUNDED"}
  /\ status \in [Rows -> Statuses] /\ amount \in [Rows -> 0 .. Amount]
  /\ execution \in [Rows -> {"AUTO", "MANUAL"}]
  /\ unknown \in [Rows -> BOOLEAN] /\ fresh \in [Rows -> BOOLEAN] /\ young \in [Rows -> BOOLEAN]
  /\ pg \in [Rows -> {"new", "open", "paid", "refused"}] /\ hand \in [Rows -> BOOLEAN]
  /\ blind \in BOOLEAN /\ lost \in Nat /\ crashes \in Nat

\* Taking up a row, being answered, ending and stopping keep the types of a slot.
LEMMA SlotTypes ==
  ASSUME SlotsTyped, NEW s \in Slots,
         \/ Abort(s)
         \/ Done(s) /\ pc[s] # "idle"
         \/ \E r \in Rows : Send(s, r) /\ (todo' = todo \/ todo' = [todo EXCEPT ![s] = @ \ {r}])
         \/ \E a \in Answers : Answered(s, a)
  PROVE  SlotsTyped'
<1> USE DEF SlotsTyped, Steps, Answers
<1>1. CASE Abort(s)
  BY <1>1, SMTT(30) DEF Abort
<1>2. CASE Done(s) /\ pc[s] # "idle"
  BY <1>2, SMTT(30) DEF Done
<1>3. ASSUME NEW r \in Rows, Send(s, r), todo' = todo \/ todo' = [todo EXCEPT ![s] = @ \ {r}]
      PROVE  SlotsTyped'
  BY <1>3, SMTT(30) DEF Send
<1>4. ASSUME NEW a \in Answers, Answered(s, a)
      PROVE  SlotsTyped'
  BY <1>4, SMTT(30) DEF Answered
<1> QED
  BY <1>1, <1>2, <1>3, <1>4

\* Every step keeps the types of the slots.
LEMMA SlotsStep == SlotsTyped /\ [Next]_vars => SlotsTyped'
<1> SUFFICES ASSUME SlotsTyped, [Next]_vars PROVE SlotsTyped'
  OBVIOUS
<1> USE DEF slot
<1>1. ASSUME NEW s \in Slots, CheckCharge(s)
      PROVE  SlotsTyped'
  BY <1>1, SMTT(30) DEF SlotsTyped, Steps, CheckCharge
<1>2. ASSUME NEW s \in Slots, ResumeOldest(s)
      PROVE  SlotsTyped'
  <2>1. Oldest(Ambiguous) \in Rows
    BY <1>2, OldestIn DEF ResumeOldest, Ambiguous
  <2>2. Send(s, Oldest(Ambiguous)) /\ todo' = todo
    BY <1>2 DEF ResumeOldest
  <2> QED
    BY <2>1, <2>2, SlotTypes
<1>3. ASSUME NEW s \in Slots, NEW a \in Amounts, NEW e \in {"AUTO", "MANUAL"}, Insert(s, a, e)
      PROVE  SlotsTyped'
  <2>1. \/ Abort(s)
        \/ \E r \in Rows : Send(s, r) /\ todo' = todo
    BY <1>3 DEF Insert
  <2> QED
    BY <2>1, SlotTypes
<1>4. ASSUME NEW s \in Slots, Refuse(s)
      PROVE  SlotsTyped'
  BY <1>4, SlotTypes DEF Refuse
<1>5. ASSUME NEW s \in Slots, SettleFirst(s)
      PROVE  SlotsTyped'
  BY <1>5, SMTT(30) DEF SlotsTyped, Steps, SettleFirst, Ambiguous
<1>6. ASSUME NEW s \in Slots, ResumeListed(s)
      PROVE  SlotsTyped'
  <2> DEFINE r == Oldest(todo[s])
  <2>1. todo[s] \subseteq Rows /\ todo[s] # {}
    BY <1>6, SMT DEF ResumeListed, SlotsTyped
  <2>2. r \in Rows
    BY <2>1, OldestIn
  <2>3. \/ Abort(s)
        \/ Send(s, r) /\ todo' = [todo EXCEPT ![s] = @ \ {r}]
    BY <1>6 DEF ResumeListed
  <2> QED
    BY <2>2, <2>3, SlotTypes
<1>7. ASSUME NEW r \in Rows, Resend(r)
      PROVE  SlotsTyped'
  <2>1. Cron \in Slots
    BY DEF Slots
  <2>2. Send(Cron, r) /\ todo' = todo
    BY <1>7 DEF Resend
  <2> QED
    BY <2>1, <2>2, SlotTypes
<1>8. ASSUME NEW s \in Slots, Arrive(s)
      PROVE  SlotsTyped'
  <2>1. CASE pc' = [pc EXCEPT ![s] = "waiting"] /\ UNCHANGED <<row, answer, todo, full>>
    BY <1>8, <2>1, SMTT(30) DEF SlotsTyped, Steps, Arrive
  <2>2. CASE \E a \in Answers : Answered(s, a)
    BY <2>2, SlotTypes
  <2> QED
    BY <1>8, <2>1, <2>2 DEF Arrive, Answers
<1>9. ASSUME NEW r \in Rows, Decide(r)
      PROVE  SlotsTyped'
  BY <1>9, SMT DEF SlotsTyped, Decide
<1>10. ASSUME NEW s \in Slots, Reply(s)
      PROVE  SlotsTyped'
  <2>1. \E a \in Answers : Answered(s, a)
    BY <1>10 DEF Reply, Answers
  <2> QED
    BY <2>1, SlotTypes
<1>11. ASSUME NEW s \in Slots, Lose(s)
      PROVE  SlotsTyped'
  <2>1. \E a \in Answers : Answered(s, a)
    BY <1>11 DEF Lose, Answers
  <2> QED
    BY <2>1, SlotTypes
<1>12. ASSUME NEW s \in Slots, NoAccount(s)
      PROVE  SlotsTyped'
  <2>1. \E a \in Answers : Answered(s, a)
    BY <1>12 DEF NoAccount, Answers
  <2> QED
    BY <2>1, SlotTypes
<1>13. ASSUME NEW s \in Slots, MakeManual(s)
      PROVE  SlotsTyped'
  BY <1>13, SlotTypes DEF MakeManual
<1>14. ASSUME NEW s \in Slots, WriteCode(s)
      PROVE  SlotsTyped'
  BY <1>14, SMTT(30) DEF SlotsTyped, Steps, WriteCode
<1>15. ASSUME NEW s \in Slots, Fail(s)
      PROVE  SlotsTyped'
  <2>1. Abort(s) \/ (Done(s) /\ pc[s] # "idle")
    BY <1>15 DEF Fail
  <2> QED
    BY <2>1, SlotTypes
<1>16. ASSUME NEW s \in Slots, Succeed(s)
      PROVE  SlotsTyped'
  <2>1. CASE Abort(s)
    BY <2>1, SlotTypes
  <2>2. CASE TakeSuccess(s, row[s]) /\ pc[s] = "answered"
    BY <2>2, SMTT(30) DEF SlotsTyped, Steps, TakeSuccess, CoversCharge
  <2> QED
    BY <1>16, <2>1, <2>2 DEF Succeed
<1>17. ASSUME NEW s \in Slots, Commit(s)
      PROVE  SlotsTyped'
  <2>1. Abort(s) \/ (Done(s) /\ pc[s] # "idle")
    BY <1>17 DEF Commit
  <2> QED
    BY <2>1, SlotTypes
<1>18. ASSUME NEW r \in Rows, Transfer(r)
      PROVE  SlotsTyped'
  BY <1>18, SMT DEF SlotsTyped, Transfer
<1>19. ASSUME NEW s \in Slots, NEW r \in Rows, ConfirmManual(s, r)
      PROVE  SlotsTyped'
  BY <1>19, SMTT(30) DEF SlotsTyped, Steps, ConfirmManual, TakeSuccess, CoversCharge
<1>20. ASSUME NEW r \in Rows, GoesStale(r)
      PROVE  SlotsTyped'
  BY <1>20, SMT DEF SlotsTyped, GoesStale
<1>21. ASSUME NEW r \in Rows, Ages(r)
      PROVE  SlotsTyped'
  BY <1>21, SMT DEF SlotsTyped, Ages
<1>22. ASSUME NEW s \in Slots, Crash(s)
      PROVE  SlotsTyped'
  BY <1>22, SlotTypes DEF Crash
<1>23. CASE UNCHANGED vars
  BY <1>23, SMT DEF vars, SlotsTyped
<1> QED
  BY <1>1, <1>2, <1>3, <1>4, <1>5, <1>6, <1>7, <1>8, <1>9, <1>10, <1>11, <1>12, <1>13, <1>14, <1>15, <1>16, <1>17, <1>18, <1>19, <1>20, <1>21, <1>22, <1>23 DEF Next, Continue, Slots

\* A column keeps its type when a value of the type is put in.
LEMMA Put ==
  ASSUME NEW S, NEW f \in [Rows -> S], NEW r, NEW v \in S
  PROVE  [f EXCEPT ![r] = v] \in [Rows -> S]
  OBVIOUS

\* Every step keeps the types of the rest.
LEMMA RowsStep == SlotsTyped /\ RowsTyped /\ [Next]_vars => RowsTyped'
<1> SUFFICES ASSUME SlotsTyped, RowsTyped, [Next]_vars PROVE RowsTyped'
  OBVIOUS
<1> USE DEF refund, outside, bounds, RowsTyped
<1>1. ASSUME NEW s \in Slots, CheckCharge(s)
      PROVE  RowsTyped'
  BY <1>1, SMTT(30) DEF CheckCharge
<1>2. ASSUME NEW s \in Slots, ResumeOldest(s)
      PROVE  RowsTyped'
  <2>1. status' \in [Rows -> Statuses]
    BY <1>2, Put, Zenon DEF ResumeOldest, Revive, Statuses
  <2>2. fresh' \in [Rows -> BOOLEAN]
    BY <1>2, Put, Zenon DEF ResumeOldest, Revive
  <2>3. UNCHANGED <<method, charge, amount, execution, unknown, young, pg, hand, blind, lost, crashes>>
    BY <1>2 DEF ResumeOldest, Revive
  <2> QED
    BY <2>1, <2>2, <2>3
<1>3. ASSUME NEW s \in Slots, NEW a \in Amounts, NEW e \in {"AUTO", "MANUAL"}, Insert(s, a, e)
      PROVE  RowsTyped'
  <2> DEFINE r == Cardinality(Rows \ WithStatus({"none"})) + 1
  <2>1. /\ status' = [status EXCEPT ![r] = "PENDING"]
        /\ amount' = [amount EXCEPT ![r] = a]
        /\ execution' = [execution EXCEPT ![r] = e]
    BY <1>3 DEF Insert
  <2> HIDE DEF r
  <2>2. a \in 0 .. Amount
    BY RefundsAssumption DEF Amounts
  <2>3. status' \in [Rows -> Statuses] /\ amount' \in [Rows -> 0 .. Amount] /\ execution' \in [Rows -> {"AUTO", "MANUAL"}]
    BY <2>1, <2>2, Put, Zenon DEF Statuses
  <2>4. blind' \in BOOLEAN /\ UNCHANGED <<method, charge, unknown, fresh, young, outside, bounds>>
    BY <1>3 DEF Insert
  <2> QED
    BY <2>3, <2>4
<1>4. ASSUME NEW s \in Slots, Refuse(s)
      PROVE  RowsTyped'
  BY <1>4, SMTT(30) DEF Refuse
<1>5. ASSUME NEW s \in Slots, SettleFirst(s)
      PROVE  RowsTyped'
  BY <1>5, SMTT(30) DEF SettleFirst
<1>6. ASSUME NEW s \in Slots, ResumeListed(s)
      PROVE  RowsTyped'
  <2>1. status' \in [Rows -> Statuses]
    BY <1>6, Put, Zenon DEF ResumeListed, Revive, Statuses
  <2>2. fresh' \in [Rows -> BOOLEAN]
    BY <1>6, Put, Zenon DEF ResumeListed, Revive
  <2>3. UNCHANGED <<method, charge, amount, execution, unknown, young, pg, hand, blind, lost, crashes>>
    BY <1>6 DEF ResumeListed, Revive
  <2> QED
    BY <2>1, <2>2, <2>3
<1>7. ASSUME NEW r \in Rows, Resend(r)
      PROVE  RowsTyped'
  BY <1>7, SMTT(30) DEF Resend
<1>8. ASSUME NEW s \in Slots, Arrive(s)
      PROVE  RowsTyped'
  BY <1>8, SMTT(30) DEF Arrive
<1>9. ASSUME NEW r \in Rows, Decide(r)
      PROVE  RowsTyped'
  BY <1>9, SMTT(30) DEF Decide
<1>10. ASSUME NEW s \in Slots, Reply(s)
      PROVE  RowsTyped'
  BY <1>10, SMTT(30) DEF Reply
<1>11. ASSUME NEW s \in Slots, Lose(s)
      PROVE  RowsTyped'
  BY <1>11, SMTT(30) DEF Lose
<1>12. ASSUME NEW s \in Slots, NoAccount(s)
      PROVE  RowsTyped'
  BY <1>12, SMTT(30) DEF NoAccount
<1>13. ASSUME NEW s \in Slots, MakeManual(s)
      PROVE  RowsTyped'
  <2>1. execution' \in [Rows -> {"AUTO", "MANUAL"}]
    BY <1>13, Put, Zenon DEF MakeManual
  <2>2. fresh' \in [Rows -> BOOLEAN]
    BY <1>13, Put, Zenon DEF MakeManual
  <2>3. UNCHANGED <<method, charge, status, amount, unknown, young, pg, hand, blind, lost, crashes>>
    BY <1>13 DEF MakeManual
  <2> QED
    BY <2>1, <2>2, <2>3
<1>14. ASSUME NEW s \in Slots, WriteCode(s)
      PROVE  RowsTyped'
  <2>1. unknown' \in [Rows -> BOOLEAN]
    <3>1. Indefinite(answer[s]) \in BOOLEAN
      BY DEF Indefinite
    <3>2. unknown' = [unknown EXCEPT ![row[s]] = Indefinite(answer[s])]
      BY <1>14 DEF WriteCode
    <3> QED
      BY <3>1, <3>2, Put
  <2>2. fresh' \in [Rows -> BOOLEAN]
    BY <1>14, Put, Zenon DEF WriteCode
  <2>3. UNCHANGED <<method, charge, status, amount, execution, young, pg, hand, blind, lost, crashes>>
    BY <1>14 DEF WriteCode, Indefinite
  <2> QED
    BY <2>1, <2>2, <2>3
<1>15. ASSUME NEW s \in Slots, Fail(s)
      PROVE  RowsTyped'
  <2>1. status' \in [Rows -> Statuses]
    <3>1. status' = [status EXCEPT ![row[s]] = "FAILED"] \/ status' = status
      BY <1>15 DEF Fail
    <3> QED
      BY <3>1, Put, Zenon DEF Statuses
  <2>2. fresh' \in [Rows -> BOOLEAN]
    BY <1>15, Put, Zenon DEF Fail
  <2>3. UNCHANGED <<method, charge, amount, execution, unknown, young, pg, hand, blind, lost, crashes>>
    BY <1>15 DEF Fail
  <2> QED
    BY <2>1, <2>2, <2>3
<1>16. ASSUME NEW s \in Slots, Succeed(s)
      PROVE  RowsTyped'
  BY <1>16, SMTT(30) DEF Succeed
<1>17. ASSUME NEW s \in Slots, Commit(s)
      PROVE  RowsTyped'
  <2>1. status' \in [Rows -> Statuses]
    BY <1>17, Put, Zenon DEF Commit, Statuses
  <2>2. unknown' \in [Rows -> BOOLEAN]
    BY <1>17, Put, Zenon DEF Commit
  <2>3. fresh' \in [Rows -> BOOLEAN]
    BY <1>17, Put, Zenon DEF Commit
  <2>4. charge' \in {"SUCCEEDED", "REFUNDED"} /\ UNCHANGED <<method, amount, execution, young, pg, hand, blind, lost, crashes>>
    BY <1>17 DEF Commit
  <2> QED
    BY <2>1, <2>2, <2>3, <2>4
<1>18. ASSUME NEW r \in Rows, Transfer(r)
      PROVE  RowsTyped'
  BY <1>18, SMTT(30) DEF Transfer
<1>19. ASSUME NEW s \in Slots, NEW r \in Rows, ConfirmManual(s, r)
      PROVE  RowsTyped'
  BY <1>19, SMTT(30) DEF ConfirmManual
<1>20. ASSUME NEW r \in Rows, GoesStale(r)
      PROVE  RowsTyped'
  BY <1>20, SMTT(30) DEF GoesStale
<1>21. ASSUME NEW r \in Rows, Ages(r)
      PROVE  RowsTyped'
  BY <1>21, SMTT(30) DEF Ages
<1>22. ASSUME NEW s \in Slots, Crash(s)
      PROVE  RowsTyped'
  BY <1>22, SMTT(30) DEF Crash
<1>23. CASE UNCHANGED vars
  BY <1>23, SMT DEF vars
<1> QED
  BY <1>1, <1>2, <1>3, <1>4, <1>5, <1>6, <1>7, <1>8, <1>9, <1>10, <1>11, <1>12, <1>13, <1>14, <1>15, <1>16, <1>17, <1>18, <1>19, <1>20, <1>21, <1>22, <1>23 DEF Next, Continue, Slots

-----------------------------------------------------------------------------
(* What a slot and a row know of each other *)

\* A row that is not PENDING any more, or is about to be FAILED, has a reason.
Explained(r) == unknown[r] \/ pg[r] = "refused" \/ status[r] = "SUCCEEDED"

\* A slot works on rows that exist, has heard what the gateway decided, and has
\* written the reason before it fails the row.
SlotKnows(s) ==
  /\ pc[s] \in {"sending", "waiting", "answered", "coded", "committing"} =>
       row[s] \in Rows /\ status[row[s]] # "none"
  /\ \A r \in todo[s] : status[r] # "none"
  /\ pc[s] \in {"answered", "coded", "committing"} /\ answer[s] \in {"paid", "refused"} =>
       pg[row[s]] = answer[s]
  /\ pc[s] = "coded" => Explained(row[s])

\* The gateway has not heard of a row that does not exist, and a row fails for a reason.
RowKnown(r) ==
  /\ status[r] = "none" => pg[r] = "new"
  /\ status[r] = "FAILED" => Explained(r)

\* Rows are inserted in their order.
InOrder == \A r, q \in Rows : q < r /\ status[r] # "none" => status[q] # "none"

\* The inductive invariant.
Inv ==
  /\ SlotsTyped /\ RowsTyped
  /\ \A s \in Slots : SlotKnows(s)
  /\ \A r \in Rows : RowKnown(r)
  /\ InOrder

\* What no step takes back about a row.
Kept(r) ==
  /\ status[r] # "none" => status'[r] # "none"
  /\ pg[r] \in {"paid", "refused"} => pg'[r] = pg[r]
  /\ status[r] = "SUCCEEDED" => status'[r] = "SUCCEEDED"
  /\ Explained(r) => Explained(r)'

RowsKept == \A r \in Rows : Kept(r) /\ RowKnown(r)'

\* The initial state satisfies the invariant.
LEMMA InvInit == Init => Inv
<1> SUFFICES ASSUME Init PROVE Inv
  OBVIOUS
<1>1. TypeOK
  BY TypeInit
<1>2. SlotsTyped
  BY <1>1, SMT DEF TypeOK, SlotsTyped, Init
<1>3. RowsTyped
  BY <1>1 DEF TypeOK, RowsTyped
<1>4. \A s \in Slots : pc[s] = "idle" /\ todo[s] = {}
  BY DEF Init
<1>5. \A r \in Rows : status[r] = "none" /\ pg[r] = "new"
  BY DEF Init
<1>6. \A s \in Slots : SlotKnows(s)
  BY <1>4 DEF SlotKnows
<1>7. (\A r \in Rows : RowKnown(r)) /\ InOrder
  BY <1>5 DEF RowKnown, InOrder
<1> QED
  BY <1>2, <1>3, <1>6, <1>7 DEF Inv

\* What a slot knows stays true while others work.
LEMMA SlotKept ==
  ASSUME SlotsTyped, RowsKept, NEW q \in Slots, SlotKnows(q),
         row'[q] = row[q], answer'[q] = answer[q], todo'[q] \subseteq todo[q],
         pc'[q] = pc[q] \/ (pc[q] = "sending" /\ pc'[q] = "waiting")
  PROVE  SlotKnows(q)'
<1>1. todo[q] \subseteq Rows
  BY DEF SlotsTyped
<1>2. \A r \in Rows : Kept(r)
  BY DEF RowsKept
<1>3. pc'[q] \in {"sending", "waiting", "answered", "coded", "committing"} =>
        row'[q] \in Rows /\ status'[row'[q]] # "none"
  BY <1>2 DEF SlotKnows, Kept
<1>4. \A r \in todo'[q] : status'[r] # "none"
  BY <1>1, <1>2 DEF SlotKnows, Kept
<1>5. ASSUME pc'[q] \in {"answered", "coded", "committing"}, answer'[q] \in {"paid", "refused"}
      PROVE  pg'[row'[q]] = answer'[q]
  BY <1>2, <1>5 DEF SlotKnows, Kept
<1>6. (pc[q] = "coded" => Explained(row[q]))'
  <2>1. pc'[q] = "coded" => row[q] \in Rows /\ Explained(row[q])
    BY DEF SlotKnows
  <2> QED
    BY <1>2, <2>1 DEF Kept, Explained
<1> QED
  BY <1>3, <1>4, <1>5, <1>6 DEF SlotKnows

\* A step of one slot.
LEMMA OneSlot ==
  ASSUME SlotsTyped, RowsKept, \A q \in Slots : SlotKnows(q),
         NEW s \in Slots, SlotKnows(s)',
         \A q \in Slots \ {s} : /\ pc'[q] = pc[q] /\ row'[q] = row[q]
                                /\ answer'[q] = answer[q] /\ todo'[q] = todo[q]
  PROVE  \A q \in Slots : SlotKnows(q)'
<1> SUFFICES ASSUME NEW q \in Slots PROVE SlotKnows(q)'
  OBVIOUS
<1>1. CASE q = s
  BY <1>1
<1>2. CASE q # s
  BY <1>2, SlotKept
<1> QED
  BY <1>1, <1>2

\* A step of no slot.
LEMMA NoSlot ==
  ASSUME SlotsTyped, RowsKept, \A q \in Slots : SlotKnows(q), UNCHANGED slot
  PROVE  \A q \in Slots : SlotKnows(q)'
  BY SlotKept DEF slot

\* A slot stops, is done with its row, takes up a row that exists, or is answered.
LEMMA SlotMoves ==
  ASSUME SlotsTyped, RowsKept, \A q \in Slots : SlotKnows(q), NEW s \in Slots,
         \/ Abort(s) \/ Done(s)
         \/ \E r \in Rows : /\ status'[r] # "none" /\ Send(s, r)
                            /\ todo' = todo \/ todo' = [todo EXCEPT ![s] = @ \ {r}]
         \/ \E a \in Answers : /\ pc[s] \in {"sending", "waiting"} /\ Answered(s, a)
                               /\ a \in {"paid", "refused"} => pg'[row[s]] = a
  PROVE  \A q \in Slots : SlotKnows(q)'
<1>0. todo[s] \subseteq Rows /\ \A r \in todo[s] : status'[r] # "none"
  BY SMT DEF SlotsTyped, RowsKept, Kept, SlotKnows
<1>1. CASE Abort(s)
  <2>1. pc'[s] = "idle" /\ todo'[s] = {}
    BY <1>1 DEF Abort, SlotsTyped
  <2>2. SlotKnows(s)'
    BY <2>1 DEF SlotKnows
  <2> QED
    BY <1>1, <2>2, OneSlot, SMTT(30) DEF Abort, SlotsTyped
<1>2. CASE Done(s)
  <2>1. pc'[s] \in {"idle", "settling"} /\ todo'[s] = todo[s]
    BY <1>2, SMT DEF Done, SlotsTyped
  <2>2. SlotKnows(s)'
    BY <1>0, <2>1 DEF SlotKnows
  <2> QED
    BY <1>2, <2>2, OneSlot, SMTT(30) DEF Done, SlotsTyped
<1>3. ASSUME NEW r \in Rows, status'[r] # "none", Send(s, r),
             todo' = todo \/ todo' = [todo EXCEPT ![s] = @ \ {r}]
      PROVE  \A q \in Slots : SlotKnows(q)'
  <2>1. pc'[s] = "sending" /\ row'[s] = r /\ todo'[s] \subseteq todo[s]
    BY <1>3, SMT DEF Send, SlotsTyped
  <2>2. SlotKnows(s)'
    BY <1>0, <1>3, <2>1 DEF SlotKnows
  <2>3. \A q \in Slots \ {s} : /\ pc'[q] = pc[q] /\ row'[q] = row[q]
                               /\ answer'[q] = answer[q] /\ todo'[q] = todo[q]
    BY <1>3, SMTT(30) DEF Send, SlotsTyped
  <2> QED
    BY <2>2, <2>3, OneSlot
<1>4. ASSUME NEW a \in Answers, pc[s] \in {"sending", "waiting"}, Answered(s, a),
             a \in {"paid", "refused"} => pg'[row[s]] = a
      PROVE  \A q \in Slots : SlotKnows(q)'
  <2>1. pc'[s] = "answered" /\ row'[s] = row[s] /\ answer'[s] = a /\ todo'[s] = todo[s]
    BY <1>4, SMT DEF Answered, SlotsTyped
  <2>2. row[s] \in Rows /\ status'[row[s]] # "none"
    BY <1>4 DEF SlotKnows, RowsKept, Kept
  <2>3. SlotKnows(s)'
    BY <1>0, <1>4, <2>1, <2>2 DEF SlotKnows
  <2>4. \A q \in Slots \ {s} : /\ pc'[q] = pc[q] /\ row'[q] = row[q]
                               /\ answer'[q] = answer[q] /\ todo'[q] = todo[q]
    BY <1>4, SMTT(30) DEF Answered, SlotsTyped
  <2> QED
    BY <2>3, <2>4, OneSlot
<1> QED
  BY <1>1, <1>2, <1>3, <1>4

\* A step that leaves the rows alone.
LEMMA SameRows ==
  ASSUME \A r \in Rows : RowKnown(r), UNCHANGED <<status, unknown, pg>>
  PROVE  RowsKept
  BY DEF RowsKept, Kept, RowKnown, Explained

\* A change of one row.
LEMMA OneRow ==
  ASSUME RowsTyped, \A q \in Rows : RowKnown(q), NEW r \in Rows, Kept(r), RowKnown(r)',
         status' = [status EXCEPT ![r] = status'[r]],
         unknown' = [unknown EXCEPT ![r] = unknown'[r]],
         pg' = [pg EXCEPT ![r] = pg'[r]]
  PROVE  RowsKept
<1> SUFFICES ASSUME NEW q \in Rows PROVE Kept(q) /\ RowKnown(q)'
  BY DEF RowsKept
<1>1. CASE q = r
  BY <1>1
<1>2. CASE q # r
  <2>1. status'[q] = status[q] /\ unknown'[q] = unknown[q] /\ pg'[q] = pg[q]
    BY <1>2 DEF RowsTyped
  <2> QED
    BY <2>1 DEF Kept, RowKnown, Explained
<1> QED
  BY <1>1, <1>2

\* A row taken for an insert is the first that does not exist.
LEMMA NextRow ==
  ASSUME RowsTyped, InOrder, NEW r \in Rows, r = Cardinality(Rows \ WithStatus({"none"})) + 1
  PROVE  status[r] = "none" /\ \A q \in Rows : q < r => status[q] # "none"
<1> DEFINE O == Rows \ WithStatus({"none"})
<1>1. NumRows \in Nat /\ Rows = 1 .. NumRows
  BY RefundsAssumption DEF Rows
<1>2. \A q \in Rows : q \in O <=> status[q] # "none"
  BY DEF WithStatus
<1>3. \A a, b \in Int : IsFiniteSet(a .. b) /\ Cardinality(a .. b) = IF a > b THEN 0 ELSE b - a + 1
  BY FS_Interval
<1>4. IsFiniteSet(O) /\ Cardinality(O) \in Nat
  <2>1. IsFiniteSet(Rows) /\ O \subseteq Rows
    BY <1>1, <1>3
  <2> QED
    BY <2>1, FS_Subset, FS_CardinalityType
<1>5. \A q \in O, x \in Rows : x < q => x \in O
  BY <1>2 DEF InOrder
<1>6. r = Cardinality(O) + 1
  OBVIOUS
<1> HIDE DEF O
<1>7. r \notin O
  <2> SUFFICES ASSUME r \in O PROVE FALSE
    OBVIOUS
  <2>1. 1 .. r \subseteq O
    BY <1>1, <1>5
  <2>2. Cardinality(1 .. r) <= Cardinality(O)
    BY <1>4, <2>1, FS_Subset
  <2>3. Cardinality(1 .. r) = r
    BY <1>1, <1>3
  <2> QED
    BY <1>4, <1>6, <2>2, <2>3
<1>8. ASSUME NEW q \in Rows, q < r, q \notin O
      PROVE  FALSE
  <2>1. O \subseteq Rows
    BY DEF O
  <2>2. \A x \in O : x < q
    BY <1>1, <1>5, <1>8, <2>1
  <2>3. O \subseteq 1 .. (q - 1)
    BY <1>1, <2>1, <2>2
  <2>4. Cardinality(O) <= Cardinality(1 .. (q - 1))
    <3>1. q - 1 \in Int /\ IsFiniteSet(1 .. (q - 1))
      BY <1>1, <1>3
    <3> QED
      BY <2>3, <3>1, FS_Subset
  <2>5. Cardinality(1 .. (q - 1)) = q - 1
    BY <1>1, <1>3
  <2> QED
    BY <1>1, <1>4, <1>6, <1>8, <2>4, <2>5
<1> QED
  BY <1>2, <1>7, <1>8

\* Every step keeps what is known of the rows.
LEMMA KeptStep == Inv /\ [Next]_vars => RowsKept
<1> SUFFICES ASSUME Inv, [Next]_vars PROVE RowsKept
  OBVIOUS
<1>0. /\ SlotsTyped /\ RowsTyped /\ InOrder
      /\ \A s \in Slots : SlotKnows(s)
      /\ \A r \in Rows : RowKnown(r)
  BY DEF Inv
<1> USE DEF refund, outside
<1>a. ASSUME NEW r \in Rows, Revive(r), UNCHANGED pg, status[r] = "FAILED"
      PROVE  RowsKept
  <2>1. status'[r] = "PENDING" /\ status' = [status EXCEPT ![r] = "PENDING"] /\ UNCHANGED <<unknown, pg>>
    BY <1>0, <1>a DEF Revive, RowsTyped
  <2>2. Kept(r) /\ RowKnown(r)'
    BY <1>0, <1>a, <2>1 DEF Kept, RowKnown, Explained
  <2> QED
    BY <1>0, <2>1, <2>2, OneRow DEF RowsTyped
<1>1. ASSUME NEW s \in Slots, ResumeOldest(s)
      PROVE  RowsKept
  <2>1. Oldest(Ambiguous) \in Ambiguous
    BY <1>1, OldestIn DEF ResumeOldest, Ambiguous
  <2>2. Oldest(Ambiguous) \in Rows /\ status[Oldest(Ambiguous)] = "FAILED"
    BY <2>1 DEF Ambiguous, Unknown
  <2> QED
    BY <1>1, <1>a, <2>2 DEF ResumeOldest
<1>2. ASSUME NEW s \in Slots, NEW a \in Amounts, NEW e \in {"AUTO", "MANUAL"}, Insert(s, a, e)
      PROVE  RowsKept
  <2>1. PICK r \in Rows : /\ r = Cardinality(Rows \ WithStatus({"none"})) + 1
                          /\ status' = [status EXCEPT ![r] = "PENDING"]
    BY <1>2 DEF Insert
  <2>2. status[r] = "none" /\ UNCHANGED <<unknown, pg>>
    BY <1>0, <1>2, <2>1, NextRow DEF Insert
  <2>3. status'[r] = "PENDING"
    BY <1>0, <2>1 DEF RowsTyped
  <2>4. Kept(r) /\ RowKnown(r)'
    BY <1>0, <2>2, <2>3 DEF Kept, RowKnown, Explained
  <2> QED
    BY <1>0, <2>1, <2>2, <2>3, <2>4, OneRow DEF RowsTyped
<1>3. ASSUME NEW s \in Slots, ResumeListed(s)
      PROVE  RowsKept
  <2>1. Oldest(todo[s]) \in Rows
    <3>1. todo[s] \subseteq Rows /\ todo[s] # {}
      BY <1>0, <1>3, SMT DEF ResumeListed, SlotsTyped
    <3> QED
      BY <3>1, OldestIn
  <2>2. CASE Revivable(Oldest(todo[s])) /\ Revive(Oldest(todo[s]))
    BY <1>3, <1>a, <2>1, <2>2 DEF ResumeListed, Revivable
  <2>3. CASE UNCHANGED refund
    BY <1>0, <1>3, <2>3, SameRows DEF ResumeListed
  <2> QED
    BY <1>3, <2>2, <2>3 DEF ResumeListed
<1>4. ASSUME NEW s \in Slots, Arrive(s)
      PROVE  RowsKept
  <2>1. CASE UNCHANGED pg
    BY <1>0, <1>4, <2>1, SameRows DEF Arrive
  <2>2. PICK r \in Rows : r = row[s] /\ status[r] # "none"
    BY <1>0, <1>4 DEF Arrive, SlotKnows
  <2>3. CASE pg[r] = "new" /\ pg' = [pg EXCEPT ![r] = "open"]
    <3>1. pg'[r] = "open" /\ UNCHANGED <<status, unknown>>
      BY <1>0, <1>4, <2>3 DEF Arrive, RowsTyped
    <3>2. Kept(r) /\ RowKnown(r)'
      BY <1>0, <2>2, <2>3, <3>1 DEF Kept, RowKnown, Explained
    <3> QED
      BY <1>0, <2>3, <3>1, <3>2, OneRow DEF RowsTyped
  <2> QED
    BY <1>4, <2>1, <2>2, <2>3 DEF Arrive
<1>5. ASSUME NEW r \in Rows, Decide(r)
      PROVE  RowsKept
  <2>1. PICK d \in {"paid", "refused"} : pg' = [pg EXCEPT ![r] = d]
    BY <1>5 DEF Decide
  <2>2. pg'[r] = d /\ pg[r] = "open" /\ UNCHANGED <<status, unknown>>
    BY <1>0, <1>5, <2>1 DEF Decide, RowsTyped
  <2>3. Kept(r) /\ RowKnown(r)'
    BY <1>0, <2>2 DEF Kept, RowKnown, Explained
  <2> QED
    BY <1>0, <2>1, <2>2, <2>3, OneRow DEF RowsTyped
<1>6. ASSUME NEW s \in Slots, WriteCode(s)
      PROVE  RowsKept
  <2>1. PICK r \in Rows : /\ r = row[s] /\ status[r] # "none"
                          /\ answer[s] = "refused" => pg[r] = "refused"
    BY <1>0, <1>6 DEF WriteCode, SlotKnows
  <2>2. unknown'[r] = Indefinite(answer[s]) /\ unknown' = [unknown EXCEPT ![r] = Indefinite(answer[s])]
        /\ UNCHANGED <<status, pg>>
    BY <1>0, <1>6, <2>1 DEF WriteCode, RowsTyped
  <2>3. unknown'[r] \/ pg[r] = "refused"
    BY <1>6, <2>1, <2>2 DEF WriteCode, Indefinite
  <2>4. Kept(r) /\ RowKnown(r)'
    BY <1>0, <2>1, <2>2, <2>3 DEF Kept, RowKnown, Explained
  <2> QED
    BY <1>0, <2>1, <2>2, <2>4, OneRow DEF RowsTyped
<1>7. ASSUME NEW s \in Slots, Fail(s)
      PROVE  RowsKept
  <2>1. CASE UNCHANGED status
    BY <1>0, <1>7, <2>1, SameRows DEF Fail
  <2>2. PICK r \in Rows : r = row[s] /\ Explained(r)
    BY <1>0, <1>7 DEF Fail, SlotKnows
  <2>3. CASE status[r] = "PENDING" /\ status' = [status EXCEPT ![r] = "FAILED"]
    <3>1. status'[r] = "FAILED" /\ UNCHANGED <<unknown, pg>>
      BY <1>0, <1>7, <2>3 DEF Fail, RowsTyped
    <3>2. Kept(r) /\ RowKnown(r)'
      BY <1>0, <2>2, <2>3, <3>1 DEF Kept, RowKnown, Explained
    <3> QED
      BY <1>0, <2>3, <3>1, <3>2, OneRow DEF RowsTyped
  <2> QED
    BY <1>7, <2>1, <2>2, <2>3 DEF Fail
<1>8. ASSUME NEW s \in Slots, Commit(s)
      PROVE  RowsKept
  <2>1. CASE UNCHANGED <<status, unknown>>
    BY <1>0, <1>8, <2>1, SameRows DEF Commit
  <2>2. PICK r \in Rows : r = row[s] /\ status[r] # "none"
    BY <1>0, <1>8 DEF Commit, SlotKnows
  <2>3. CASE /\ status' = [status EXCEPT ![r] = "SUCCEEDED"]
             /\ unknown' = [unknown EXCEPT ![r] = @ /\ answer[s] # "paid"]
    <3>1. status'[r] = "SUCCEEDED" /\ UNCHANGED pg
      BY <1>0, <1>8, <2>3 DEF Commit, RowsTyped
    <3>2. Kept(r) /\ RowKnown(r)'
      BY <1>0, <2>2, <3>1 DEF Kept, RowKnown, Explained
    <3>3. unknown' = [unknown EXCEPT ![r] = unknown'[r]]
      BY <1>0, <2>3 DEF RowsTyped
    <3> QED
      BY <1>0, <2>3, <3>1, <3>2, <3>3, OneRow DEF RowsTyped
  <2> QED
    BY <1>8, <2>1, <2>2, <2>3 DEF Commit
<1>9. CASE UNCHANGED <<status, unknown, pg>>
  BY <1>0, <1>9, SameRows
<1>10. ASSUME NEW s \in Slots,
              \/ CheckCharge(s) \/ SettleFirst(s) \/ NoAccount(s) \/ Refuse(s) \/ Reply(s)
              \/ MakeManual(s) \/ Succeed(s) \/ Lose(s) \/ Crash(s)
              \/ \E r \in Rows : ConfirmManual(s, r)
       PROVE  UNCHANGED <<status, unknown, pg>>
  BY <1>10 DEF CheckCharge, SettleFirst, NoAccount, Refuse, Reply, MakeManual, Succeed, Lose,
               Crash, ConfirmManual
<1>11. ASSUME NEW r \in Rows, Resend(r) \/ Transfer(r) \/ GoesStale(r) \/ Ages(r)
       PROVE  UNCHANGED <<status, unknown, pg>>
  BY <1>11 DEF Resend, Transfer, GoesStale, Ages
<1>12. UNCHANGED vars => UNCHANGED <<status, unknown, pg>>
  BY DEF vars
<1> QED
  BY <1>1, <1>2, <1>3, <1>4, <1>5, <1>6, <1>7, <1>8, <1>9, <1>10, <1>11, <1>12 DEF Next, Continue, Slots

\* Every step keeps what the slots know.
LEMMA KnowStep == Inv /\ [Next]_vars /\ RowsKept => \A q \in Slots : SlotKnows(q)'
<1> SUFFICES ASSUME Inv, [Next]_vars, RowsKept PROVE \A q \in Slots : SlotKnows(q)'
  OBVIOUS
<1>0. SlotsTyped /\ RowsTyped /\ InOrder /\ \A s \in Slots : SlotKnows(s)
  BY DEF Inv
<1>1. ASSUME NEW s \in Slots, Abort(s) \/ Done(s)
      PROVE  \A q \in Slots : SlotKnows(q)'
  BY <1>0, <1>1, SlotMoves
<1>2. ASSUME NEW s \in Slots, NEW r \in Rows, status[r] # "none", Send(s, r),
             todo' = todo \/ todo' = [todo EXCEPT ![s] = @ \ {r}]
      PROVE  \A q \in Slots : SlotKnows(q)'
  <2>1. status'[r] # "none"
    BY <1>2 DEF RowsKept, Kept
  <2> QED
    BY <1>0, <1>2, <2>1, SlotMoves
<1>3. ASSUME NEW s \in Slots, CheckCharge(s)
      PROVE  \A q \in Slots : SlotKnows(q)'
  <2>1. pc'[s] = "checked" /\ todo'[s] = todo[s] /\ todo[s] = {}
    BY <1>0, <1>3 DEF CheckCharge, SlotsTyped
  <2>2. SlotKnows(s)'
    BY <2>1 DEF SlotKnows
  <2>3. \A q \in Slots \ {s} : /\ pc'[q] = pc[q] /\ row'[q] = row[q]
                               /\ answer'[q] = answer[q] /\ todo'[q] = todo[q]
    BY <1>0, <1>3, SMTT(30) DEF CheckCharge, SlotsTyped
  <2> QED
    BY <1>0, <2>2, <2>3, OneSlot
<1>4. ASSUME NEW s \in Slots, ResumeOldest(s)
      PROVE  \A q \in Slots : SlotKnows(q)'
  <2>1. Oldest(Ambiguous) \in Ambiguous
    BY <1>4, OldestIn DEF ResumeOldest, Ambiguous
  <2>2. Oldest(Ambiguous) \in Rows /\ status[Oldest(Ambiguous)] # "none"
    BY <2>1 DEF Ambiguous, Unknown
  <2> QED
    BY <1>2, <1>4, <2>2 DEF ResumeOldest
<1>5. ASSUME NEW s \in Slots, NEW a \in Amounts, NEW e \in {"AUTO", "MANUAL"}, Insert(s, a, e)
      PROVE  \A q \in Slots : SlotKnows(q)'
  <2>1. PICK r \in Rows : /\ status' = [status EXCEPT ![r] = "PENDING"]
                          /\ (Send(s, r) /\ todo' = todo) \/ Abort(s)
    BY <1>5 DEF Insert
  <2>2. status'[r] # "none"
    BY <1>0, <2>1 DEF RowsTyped
  <2> QED
    BY <1>0, <2>1, <2>2, SlotMoves
<1>6. ASSUME NEW s \in Slots, SettleFirst(s)
      PROVE  \A q \in Slots : SlotKnows(q)'
  <2>1. pc'[s] = "settling" /\ todo'[s] = Ambiguous
    BY <1>0, <1>6 DEF SettleFirst, SlotsTyped
  <2>2. \A r \in Ambiguous : status'[r] # "none"
    BY <1>6 DEF SettleFirst, Ambiguous, Unknown, refund
  <2>3. SlotKnows(s)'
    BY <2>1, <2>2 DEF SlotKnows
  <2>4. \A q \in Slots \ {s} : /\ pc'[q] = pc[q] /\ row'[q] = row[q]
                               /\ answer'[q] = answer[q] /\ todo'[q] = todo[q]
    BY <1>0, <1>6, SMTT(30) DEF SettleFirst, SlotsTyped
  <2> QED
    BY <1>0, <2>3, <2>4, OneSlot
<1>7. ASSUME NEW s \in Slots, ResumeListed(s)
      PROVE  \A q \in Slots : SlotKnows(q)'
  <2>1. todo[s] \subseteq Rows /\ todo[s] # {}
    BY <1>0, <1>7, SMT DEF ResumeListed, SlotsTyped
  <2>2. Oldest(todo[s]) \in Rows /\ status[Oldest(todo[s])] # "none"
    BY <1>0, <2>1, OldestIn DEF SlotKnows
  <2> QED
    BY <1>1, <1>2, <1>7, <2>2 DEF ResumeListed
<1>8. ASSUME NEW r \in Rows, Resend(r)
      PROVE  \A q \in Slots : SlotKnows(q)'
  <2>1. Cron \in Slots
    BY DEF Slots
  <2>2. status[r] # "none" /\ Send(Cron, r) /\ todo' = todo
    BY <1>8 DEF Resend, Stuck
  <2> QED
    BY <1>2, <2>1, <2>2
<1>9. ASSUME NEW s \in Slots, NEW a \in Answers, pc[s] \in {"sending", "waiting"}, Answered(s, a),
             a \in {"paid", "refused"} => pg[row[s]] = a
      PROVE  \A q \in Slots : SlotKnows(q)'
  <2>1. row[s] \in Rows
    BY <1>0, <1>9 DEF SlotKnows
  <2>2. a \in {"paid", "refused"} => pg'[row[s]] = a
    BY <1>9, <2>1 DEF RowsKept, Kept
  <2> QED
    BY <1>0, <1>9, <2>2, SlotMoves
<1>10. ASSUME NEW s \in Slots, Arrive(s)
       PROVE  \A q \in Slots : SlotKnows(q)'
  <2>1. CASE pc' = [pc EXCEPT ![s] = "waiting"] /\ UNCHANGED <<row, answer, todo, full>>
    <3>1. \A q \in Slots : /\ pc'[q] = pc[q] \/ (pc[q] = "sending" /\ pc'[q] = "waiting")
                           /\ row'[q] = row[q] /\ answer'[q] = answer[q] /\ todo'[q] = todo[q]
      BY <1>0, <1>10, <2>1, SMTT(30) DEF Arrive, SlotsTyped
    <3> QED
      BY <1>0, <3>1, SlotKept
  <2>2. \/ pc' = [pc EXCEPT ![s] = "waiting"] /\ UNCHANGED <<row, answer, todo, full>>
        \/ Answered(s, "processing")
        \/ pg[row[s]] \in {"paid", "refused"} /\ Answered(s, pg[row[s]])
    BY <1>10 DEF Arrive
  <2>3. pc[s] = "sending"
    BY <1>10 DEF Arrive
  <2> QED
    BY <1>9, <2>1, <2>2, <2>3 DEF Answers
<1>11. ASSUME NEW s \in Slots, Reply(s) \/ Lose(s) \/ NoAccount(s)
       PROVE  \A q \in Slots : SlotKnows(q)'
  <2>1. PICK a \in Answers : /\ pc[s] \in {"sending", "waiting"} /\ Answered(s, a)
                             /\ a \in {"paid", "refused"} => pg[row[s]] = a
    BY <1>11 DEF Reply, Lose, NoAccount, Answers
  <2> QED
    BY <1>9, <2>1
<1>12. ASSUME NEW s \in Slots, WriteCode(s)
       PROVE  \A q \in Slots : SlotKnows(q)'
  <2>1. PICK r \in Rows : /\ r = row[s] /\ status[r] # "none"
                          /\ answer[s] = "refused" => pg[r] = "refused"
    BY <1>0, <1>12 DEF WriteCode, SlotKnows
  <2>2. /\ pc'[s] = "coded" /\ row'[s] = r /\ todo'[s] = todo[s] /\ answer'[s] = answer[s]
        /\ answer[s] \in {"exception", "processing", "refused"}
    BY <1>0, <1>12, <2>1 DEF WriteCode, SlotsTyped
  <2>3. status'[r] # "none" /\ (pg[r] = "refused" => pg'[r] = "refused")
    BY <2>1 DEF RowsKept, Kept
  <2>4. unknown'[r] = Indefinite(answer[s])
    BY <1>0, <1>12, <2>1 DEF WriteCode, RowsTyped
  <2>5. unknown'[r] \/ pg'[r] = "refused"
    BY <2>1, <2>2, <2>3, <2>4 DEF Indefinite
  <2>6. \A q \in todo[s] : status'[q] # "none"
    BY <1>0, SMT DEF SlotsTyped, SlotKnows, RowsKept, Kept
  <2>7. SlotKnows(s)'
    BY <2>1, <2>2, <2>3, <2>5, <2>6 DEF SlotKnows, Explained
  <2>8. \A q \in Slots \ {s} : /\ pc'[q] = pc[q] /\ row'[q] = row[q]
                               /\ answer'[q] = answer[q] /\ todo'[q] = todo[q]
    BY <1>0, <1>12, SMTT(30) DEF WriteCode, SlotsTyped
  <2> QED
    BY <1>0, <2>7, <2>8, OneSlot
<1>13. ASSUME NEW s \in Slots, NEW r \in Rows, TakeSuccess(s, r), status[r] # "none",
              answer[s] \in {"paid", "refused"} => pg[r] = answer[s]
       PROVE  \A q \in Slots : SlotKnows(q)'
  <2>1. pc'[s] = "committing" /\ row'[s] = r /\ answer'[s] = answer[s] /\ todo'[s] = todo[s]
    BY <1>0, <1>13 DEF TakeSuccess, SlotsTyped
  <2>2. status'[r] # "none" /\ (answer[s] \in {"paid", "refused"} => pg'[r] = answer[s])
    BY <1>13 DEF RowsKept, Kept
  <2>3. \A q \in todo[s] : status'[q] # "none"
    BY <1>0, SMT DEF SlotsTyped, SlotKnows, RowsKept, Kept
  <2>4. SlotKnows(s)'
    BY <2>1, <2>2, <2>3 DEF SlotKnows
  <2>5. \A q \in Slots \ {s} : /\ pc'[q] = pc[q] /\ row'[q] = row[q]
                               /\ answer'[q] = answer[q] /\ todo'[q] = todo[q]
    BY <1>0, <1>13, SMTT(30) DEF TakeSuccess, SlotsTyped
  <2> QED
    BY <1>0, <2>4, <2>5, OneSlot
<1>14. ASSUME NEW s \in Slots, Succeed(s)
       PROVE  \A q \in Slots : SlotKnows(q)'
  <2>1. row[s] \in Rows /\ status[row[s]] # "none" /\ answer[s] = "paid" /\ pg[row[s]] = "paid"
    BY <1>0, <1>14 DEF Succeed, SlotKnows
  <2> QED
    BY <1>1, <1>13, <1>14, <2>1 DEF Succeed
<1>15. ASSUME NEW s \in Slots, NEW r \in Rows, ConfirmManual(s, r)
       PROVE  \A q \in Slots : SlotKnows(q)'
  <2>1. answer[s] = "none" /\ status[r] # "none" /\ TakeSuccess(s, r)
    BY <1>0, <1>15 DEF ConfirmManual, Confirmable, SlotsTyped
  <2> QED
    BY <1>13, <2>1
<1>16. ASSUME NEW s \in Slots, Refuse(s) \/ MakeManual(s) \/ Fail(s) \/ Commit(s) \/ Crash(s)
       PROVE  \A q \in Slots : SlotKnows(q)'
  <2>1. Abort(s) \/ Done(s)
    BY <1>16 DEF Refuse, MakeManual, Fail, Commit, Crash
  <2> QED
    BY <1>1, <2>1
<1>17. CASE UNCHANGED slot
  BY <1>0, <1>17, NoSlot
<1>18. ASSUME NEW r \in Rows, Decide(r) \/ Transfer(r) \/ GoesStale(r) \/ Ages(r)
       PROVE  UNCHANGED slot
  BY <1>18 DEF Decide, Transfer, GoesStale, Ages
<1>19. UNCHANGED vars => UNCHANGED slot
  BY DEF vars, slot
<1> QED
  BY <1>3, <1>4, <1>5, <1>6, <1>7, <1>8, <1>10, <1>11, <1>12, <1>14, <1>15, <1>16, <1>17, <1>18,
     <1>19 DEF Next, Continue, Slots

\* Rows that exist stay, and an insert takes the first that does not.
LEMMA OrderStep == Inv /\ [Next]_vars /\ RowsKept => InOrder'
<1> SUFFICES ASSUME Inv, [Next]_vars, RowsKept PROVE InOrder'
  OBVIOUS
<1>0. /\ SlotsTyped /\ RowsTyped /\ InOrder
      /\ \A s \in Slots : SlotKnows(s)
  BY DEF Inv
<1>1. \A r \in Rows : status[r] # "none" => status'[r] # "none"
  BY DEF RowsKept, Kept
<1>2. CASE \A r \in Rows : status'[r] # "none" => status[r] # "none"
  BY <1>0, <1>1, <1>2 DEF InOrder
<1>3. ASSUME NEW s \in Slots, NEW a \in Amounts, NEW e \in {"AUTO", "MANUAL"}, Insert(s, a, e)
      PROVE  InOrder'
  <2>1. PICK r \in Rows : /\ r = Cardinality(Rows \ WithStatus({"none"})) + 1
                          /\ status' = [status EXCEPT ![r] = "PENDING"]
    BY <1>3 DEF Insert
  <2>2. \A q \in Rows : q < r => status[q] # "none"
    BY <1>0, <2>1, NextRow
  <2>3. \A q \in Rows : q # r => status'[q] = status[q]
    BY <1>0, <2>1 DEF RowsTyped
  <2>4. status'[r] # "none"
    BY <1>0, <2>1 DEF RowsTyped
  <2> QED
    BY <1>0, <1>1, <2>2, <2>3, <2>4 DEF InOrder
<1>4. ASSUME NEW r, r \in Rows => status[r] # "none", NEW v, status' = [status EXCEPT ![r] = v]
      PROVE  InOrder'
  <2>1. \A q \in Rows : q # r => status'[q] = status[q]
    BY <1>0, <1>4 DEF RowsTyped
  <2> QED
    BY <1>2, <1>4, <2>1
<1>5. ASSUME NEW s \in Slots, ResumeOldest(s)
      PROVE  InOrder'
  <2>1. Oldest(Ambiguous) \in Ambiguous
    BY <1>5, OldestIn DEF ResumeOldest, Ambiguous
  <2>2. status[Oldest(Ambiguous)] # "none" /\ status' = [status EXCEPT ![Oldest(Ambiguous)] = "PENDING"]
    BY <1>5, <2>1 DEF ResumeOldest, Revive, Ambiguous, Unknown
  <2> QED
    BY <1>4, <2>2
<1>6. ASSUME NEW s \in Slots, ResumeListed(s)
      PROVE  InOrder'
  <2>1. \/ UNCHANGED status
        \/ /\ status[Oldest(todo[s])] = "FAILED"
           /\ status' = [status EXCEPT ![Oldest(todo[s])] = "PENDING"]
    BY <1>6 DEF ResumeListed, Revivable, Revive, refund
  <2> QED
    BY <1>2, <1>4, <2>1
<1>7. ASSUME NEW s \in Slots, Fail(s)
      PROVE  InOrder'
  <2>1. \/ UNCHANGED status
        \/ status[row[s]] = "PENDING" /\ status' = [status EXCEPT ![row[s]] = "FAILED"]
    BY <1>7 DEF Fail
  <2> QED
    BY <1>2, <1>4, <2>1
<1>8. ASSUME NEW s \in Slots, Commit(s)
      PROVE  InOrder'
  <2>1. \/ UNCHANGED status
        \/ status[row[s]] # "none" /\ status' = [status EXCEPT ![row[s]] = "SUCCEEDED"]
    BY <1>0, <1>8 DEF Commit, SlotKnows
  <2> QED
    BY <1>2, <1>4, <2>1
<1>9. UNCHANGED status => InOrder'
  BY <1>2
<1>10. ASSUME NEW s \in Slots,
              \/ CheckCharge(s) \/ SettleFirst(s) \/ NoAccount(s) \/ Refuse(s) \/ Arrive(s)
              \/ Reply(s) \/ MakeManual(s) \/ WriteCode(s) \/ Succeed(s) \/ Lose(s) \/ Crash(s)
              \/ \E r \in Rows : ConfirmManual(s, r)
       PROVE  UNCHANGED status
  BY <1>10 DEF CheckCharge, SettleFirst, NoAccount, Refuse, Arrive, Reply, MakeManual, WriteCode,
               Succeed, Lose, Crash, ConfirmManual, refund
<1>11. ASSUME NEW r \in Rows, Resend(r) \/ Decide(r) \/ Transfer(r) \/ GoesStale(r) \/ Ages(r)
       PROVE  UNCHANGED status
  BY <1>11 DEF Resend, Decide, Transfer, GoesStale, Ages, refund
<1>12. UNCHANGED vars => UNCHANGED status
  BY DEF vars, refund
<1> QED
  BY <1>3, <1>5, <1>6, <1>7, <1>8, <1>9, <1>10, <1>11, <1>12 DEF Next, Continue, Slots

\* One inductive step.
LEMMA InvStep == Inv /\ [Next]_vars => Inv' /\ RowsKept
<1> SUFFICES ASSUME Inv, [Next]_vars PROVE Inv' /\ RowsKept
  OBVIOUS
<1>1. SlotsTyped' /\ RowsTyped'
  BY SlotsStep, RowsStep DEF Inv
<1>2. RowsKept
  BY KeptStep
<1>3. \A r \in Rows : RowKnown(r)'
  BY <1>2 DEF RowsKept
<1>4. (\A q \in Slots : SlotKnows(q)') /\ InOrder'
  BY <1>2, KnowStep, OrderStep
<1> QED
  BY <1>1, <1>2, <1>3, <1>4 DEF Inv

-----------------------------------------------------------------------------
(* How much has been promised *)

Flying == {"sending", "waiting", "answered", "coded"}
InFlight(s, r) == pc[s] \in Flying /\ row[s] = r

\* A row left to the operator was never sent and is in no slot's hands.  Without an
\* idempotency key a row is sent by one slot at a time, and not failed meanwhile.
Paying(r) ==
  /\ execution[r] = "MANUAL" =>
       /\ status[r] \in {"PENDING", "SUCCEEDED"} /\ pg[r] = "new"
       /\ \A s \in Slots : ~ InFlight(s, r)
  /\ method = "BANK_TRANSFER" =>
       \A s \in Slots : InFlight(s, r) =>
         status[r] # "FAILED" /\ \A q \in Slots : InFlight(q, r) => q = s

\* A transfer without an account has not left, and a success is not committed over
\* a refusal.
SlotPays(s) ==
  /\ pc[s] = "answered" /\ answer[s] = "manual" => method = "BANK_TRANSFER" /\ pg[row[s]] = "new"
  /\ pc[s] = "committing" => status[row[s]] \in {"PENDING", "SUCCEEDED"}

\* Refunds whose money has left or may still leave: they fit into the charge.
Owed(r) == pg[r] # "refused" /\ (status[r] \in {"PENDING", "SUCCEEDED"} \/ Unknown(r))
Promised == {r \in Rows : Owed(r)}
Fits == blind \/ (Total(Promised) <= Amount /\ \A r \in Rows : hand[r] => execution[r] = "MANUAL")

PayInv ==
  /\ \A r \in Rows : Paying(r)
  /\ \A s \in Slots : SlotPays(s)
  /\ Fits

\* What one step may do with a slot.
Same(s) == pc'[s] = pc[s] /\ row'[s] = row[s] /\ answer'[s] = answer[s]
Starts(s) ==
  LET r == row'[s] IN
  /\ pc'[s] = "sending" /\ execution'[r] = "AUTO" /\ status'[r] = "PENDING"
  /\ method = "BANK_TRANSFER" => \A q \in Slots : pc'[q] \in Flying /\ row'[q] = r => q = s
GoesOn(s) ==
  /\ pc[s] \in Flying /\ row'[s] = row[s]
  /\ \/ pc'[s] \in {"waiting", "coded"}
     \/ pc'[s] = "answered" /\ answer'[s] # "manual"
     \/ pc'[s] = "answered" /\ method = "BANK_TRANSFER" /\ pg[row[s]] = "new" /\ UNCHANGED pg
SlotMove(s) ==
  \/ Same(s) \/ Starts(s) \/ GoesOn(s)
  \/ pc'[s] \in {"idle", "checked", "settling"}
  \/ pc'[s] = "committing" /\ status[row'[s]] = "PENDING" /\ UNCHANGED status

\* What one step may do with a row.
Unsent(r) == method = "BANK_TRANSFER" => \A s \in Slots : ~ InFlight(s, r)
SameRow(r) ==
  status'[r] = status[r] /\ execution'[r] = execution[r] /\ unknown'[r] = unknown[r] /\ pg'[r] = pg[r]
NewRow(r) ==
  /\ status[r] = "none" /\ status'[r] = "PENDING" /\ pg'[r] = pg[r]
  /\ execution'[r] = "MANUAL" => \A s \in Slots : ~ InFlight(s, r)'
RowMove(r) ==
  \/ SameRow(r)
  \/ /\ status[r] = "FAILED" /\ status'[r] = "PENDING"
     /\ execution'[r] = execution[r] /\ unknown'[r] = unknown[r] /\ pg'[r] = pg[r]
  \/ /\ pg[r] = "open" \/ (pg[r] = "new" /\ \E s \in Slots : pc[s] = "sending" /\ row[s] = r)
     /\ pg'[r] # "new" /\ status'[r] = status[r]
     /\ execution'[r] = execution[r] /\ unknown'[r] = unknown[r]
  \/ /\ status[r] \in {"PENDING", "SUCCEEDED"} /\ status'[r] = status[r]
     /\ pg[r] = "new" /\ pg'[r] = "new" /\ execution'[r] = "MANUAL" /\ unknown'[r] = unknown[r]
     /\ \A s \in Slots : ~ InFlight(s, r)'
  \/ /\ status'[r] = status[r] /\ pg'[r] = pg[r] /\ execution'[r] = execution[r]
     /\ \E s \in Slots : InFlight(s, r)
  \/ /\ status[r] = "PENDING" /\ status'[r] = "FAILED" /\ ~ Locked(r)
     /\ execution[r] = "AUTO" /\ Unsent(r)'
     /\ execution'[r] = execution[r] /\ unknown'[r] = unknown[r] /\ pg'[r] = pg[r]
  \/ /\ status[r] \in {"PENDING", "SUCCEEDED"} /\ status'[r] = "SUCCEEDED"
     /\ pg'[r] = pg[r] /\ execution'[r] = execution[r]

\* A slot that stops, ends or takes a success has no row in flight, and the others
\* are where they were.
LEMMA Lands ==
  ASSUME SlotsTyped, NEW s \in Slots,
         \/ Abort(s) \/ Done(s) \/ \E r \in Rows : TakeSuccess(s, r)
  PROVE  /\ pc'[s] \in {"idle", "settling", "committing"}
         /\ \A q \in Slots \ {s} : Same(q)
         /\ \A q \in Slots, r \in Rows : InFlight(q, r)' => q # s /\ InFlight(q, r)
<1>1. pc'[s] \in {"idle", "settling", "committing"}
  <2>1. CASE Abort(s) \/ Done(s)
    BY <2>1, SMTT(30) DEF SlotsTyped, Abort, Done
  <2>2. CASE \E r \in Rows : TakeSuccess(s, r)
    BY <2>2, SMTT(30) DEF SlotsTyped, TakeSuccess, CoversCharge
  <2> QED
    BY <2>1, <2>2
<1>2. \A q \in Slots \ {s} : Same(q)
  <2>1. CASE Abort(s)
    BY <2>1, SMTT(30) DEF SlotsTyped, Abort, Same
  <2>2. CASE Done(s)
    BY <2>2, SMTT(30) DEF SlotsTyped, Done, Same
  <2>3. CASE \E r \in Rows : TakeSuccess(s, r)
    BY <2>3, SMTT(30) DEF SlotsTyped, TakeSuccess, Same, CoversCharge
  <2> QED
    BY <2>1, <2>2, <2>3
<1> QED
  BY <1>1, <1>2 DEF Same, InFlight, Flying

\* A slot that takes up a row leaves the others where they were.
LEMMA TakesUp ==
  ASSUME SlotsTyped, NEW s \in Slots, NEW r \in Rows, Send(s, r)
  PROVE  /\ pc'[s] = "sending" /\ row'[s] = r
         /\ \A q \in Slots \ {s} : Same(q)
  BY SMTT(30) DEF SlotsTyped, Send, Same

\* A slot that is answered keeps its row.
LEMMA Hears ==
  ASSUME SlotsTyped, NEW s \in Slots, NEW a \in Answers, Answered(s, a)
  PROVE  /\ pc'[s] = "answered" /\ row'[s] = row[s] /\ answer'[s] = a
         /\ \A q \in Slots \ {s} : Same(q)
  BY SMTT(30) DEF SlotsTyped, Answered, Same

\* What every step does with the slots.
LEMMA SlotsMove == Inv /\ PayInv /\ [Next]_vars => \A q \in Slots : SlotMove(q)
<1> SUFFICES ASSUME Inv, PayInv, [Next]_vars PROVE \A q \in Slots : SlotMove(q)
  OBVIOUS
<1>0. /\ SlotsTyped /\ RowsTyped /\ InOrder
      /\ \A s \in Slots : SlotKnows(s)
      /\ \A r \in Rows : RowKnown(r) /\ Paying(r)
  BY DEF Inv, PayInv
<1>a. ASSUME NEW s \in Slots, SlotMove(s), \A q \in Slots \ {s} : Same(q)
      PROVE  \A q \in Slots : SlotMove(q)
  BY <1>a DEF SlotMove
<1>b. ASSUME NEW s \in Slots, Abort(s) \/ Done(s)
      PROVE  \A q \in Slots : SlotMove(q)
  <2>1. pc'[s] \in {"idle", "settling"} /\ \A q \in Slots \ {s} : Same(q)
    <3>1. pc'[s] \in {"idle", "settling"}
      BY <1>0, <1>b, SMTT(30) DEF SlotsTyped, Abort, Done
    <3> QED
      BY <1>0, <1>b, <3>1, Lands
  <2> QED
    BY <1>a, <2>1 DEF SlotMove
<1>c. ASSUME NEW s \in Slots, NEW r \in Rows, Send(s, r), execution'[r] = "AUTO", status'[r] = "PENDING",
             method = "BANK_TRANSFER" => \A q \in Slots : ~ InFlight(q, r)
      PROVE  \A q \in Slots : SlotMove(q)
  <2>1. pc'[s] = "sending" /\ row'[s] = r /\ \A q \in Slots \ {s} : Same(q)
    BY <1>0, <1>c, TakesUp
  <2>2. ASSUME method = "BANK_TRANSFER", NEW q \in Slots, pc'[q] \in Flying, row'[q] = r
        PROVE  q = s
    BY <1>c, <2>1, <2>2 DEF Same, InFlight
  <2>3. Starts(s)
    BY <1>c, <2>1, <2>2 DEF Starts
  <2> QED
    BY <1>a, <2>1, <2>3 DEF SlotMove
<1>d. ASSUME NEW s \in Slots, NEW a \in Answers, Answered(s, a), pc[s] \in {"sending", "waiting"},
             a = "manual" => method = "BANK_TRANSFER" /\ pg[row[s]] = "new" /\ UNCHANGED pg
      PROVE  \A q \in Slots : SlotMove(q)
  <2>1. /\ pc'[s] = "answered" /\ row'[s] = row[s] /\ answer'[s] = a
        /\ \A q \in Slots \ {s} : Same(q)
    BY <1>0, <1>d, Hears
  <2>2. GoesOn(s)
    BY <1>d, <2>1 DEF GoesOn, Flying
  <2> QED
    BY <1>a, <2>1, <2>2 DEF SlotMove
<1>e. ASSUME NEW s \in Slots, NEW r \in Rows, TakeSuccess(s, r), status[r] = "PENDING", UNCHANGED status
      PROVE  \A q \in Slots : SlotMove(q)
  <2>1. pc'[s] = "committing" /\ row'[s] = r
    BY <1>0, <1>e, SMT DEF SlotsTyped, TakeSuccess
  <2>2. \A q \in Slots \ {s} : Same(q)
    BY <1>0, <1>e, Lands
  <2> QED
    BY <1>a, <1>e, <2>1, <2>2 DEF SlotMove
<1>f. ASSUME UNCHANGED slot PROVE \A q \in Slots : SlotMove(q)
  BY <1>f DEF slot, SlotMove, Same
<1>g. ASSUME NEW r \in Rows, status[r] = "FAILED"
      PROVE  execution[r] = "AUTO" /\ (method = "BANK_TRANSFER" => \A q \in Slots : ~ InFlight(q, r))
  BY <1>0, <1>g DEF Paying, RowsTyped
<1>h. ASSUME NEW s \in Slots, pc[s] \in Flying PROVE row[s] \in Rows
  BY <1>0, <1>h DEF SlotKnows, Flying
<1>1. ASSUME NEW s \in Slots, CheckCharge(s) \/ SettleFirst(s)
      PROVE  \A q \in Slots : SlotMove(q)
  <2>1. pc'[s] \in {"checked", "settling"}
    BY <1>0, <1>1 DEF CheckCharge, SettleFirst, SlotsTyped
  <2>2. \A q \in Slots \ {s} : Same(q)
    BY <1>0, <1>1, SMTT(30) DEF CheckCharge, SettleFirst, SlotsTyped, Same
  <2> QED
    BY <1>a, <2>1, <2>2 DEF SlotMove
<1>2. ASSUME NEW s \in Slots, ResumeOldest(s)
      PROVE  \A q \in Slots : SlotMove(q)
  <2>1. PICK r \in Rows : r = Oldest(Ambiguous) /\ status[r] = "FAILED"
    BY <1>2, OldestIn DEF ResumeOldest, Ambiguous, Unknown
  <2>2. Send(s, r) /\ status'[r] = "PENDING" /\ execution'[r] = execution[r]
    BY <1>0, <1>2, <2>1 DEF ResumeOldest, Revive, RowsTyped
  <2> QED
    BY <1>c, <1>g, <2>1, <2>2
<1>3. ASSUME NEW s \in Slots, NEW a \in Amounts, NEW e \in {"AUTO", "MANUAL"}, Insert(s, a, e)
      PROVE  \A q \in Slots : SlotMove(q)
  <2>1. PICK r \in Rows : /\ r = Cardinality(Rows \ WithStatus({"none"})) + 1
                          /\ status' = [status EXCEPT ![r] = "PENDING"]
                          /\ execution' = [execution EXCEPT ![r] = e]
                          /\ IF e = "AUTO" THEN Send(s, r) /\ UNCHANGED todo ELSE Abort(s)
    BY <1>3 DEF Insert
  <2>2. status'[r] = "PENDING" /\ execution'[r] = e
    BY <1>0, <2>1 DEF RowsTyped
  <2>3. \A q \in Slots : ~ InFlight(q, r)
    <3>1. status[r] = "none"
      BY <1>0, <2>1, NextRow
    <3> QED
      BY <1>0, <3>1 DEF SlotKnows, InFlight, Flying
  <2> QED
    BY <1>b, <1>c, <2>1, <2>2, <2>3
<1>4. ASSUME NEW s \in Slots, ResumeListed(s)
      PROVE  \A q \in Slots : SlotMove(q)
  <2>1. Oldest(todo[s]) \in Rows
    <3>1. todo[s] \subseteq Rows /\ todo[s] # {}
      BY <1>0, <1>4, SMT DEF ResumeListed, SlotsTyped
    <3> QED
      BY <3>1, OldestIn
  <2>2. PICK r \in Rows : r = Oldest(todo[s])
    BY <2>1
  <2>3. CASE Revivable(r) /\ Revive(r) /\ Send(s, r)
    <3>1. status[r] = "FAILED" /\ status'[r] = "PENDING" /\ execution'[r] = execution[r]
      BY <1>0, <2>3 DEF Revivable, Revive, RowsTyped
    <3> QED
      BY <1>c, <1>g, <2>3, <3>1
  <2>4. (Revivable(r) /\ Revive(r) /\ Send(s, r)) \/ Abort(s)
    BY <1>4, <2>2 DEF ResumeListed
  <2> QED
    BY <1>b, <2>3, <2>4
<1>5. ASSUME NEW r \in Rows, Resend(r)
      PROVE  \A q \in Slots : SlotMove(q)
  <2>1. Cron \in Slots
    BY DEF Slots
  <2>2. Send(Cron, r) /\ execution'[r] = "AUTO" /\ status'[r] = "PENDING" /\ method = "TOSS"
    BY <1>5 DEF Resend, Stuck
  <2> QED
    BY <1>c, <2>1, <2>2
<1>6. ASSUME NEW s \in Slots, Arrive(s)
      PROVE  \A q \in Slots : SlotMove(q)
  <2>1. CASE pc' = [pc EXCEPT ![s] = "waiting"] /\ UNCHANGED <<row, answer, todo, full>>
    <3>1. pc'[s] = "waiting" /\ row'[s] = row[s] /\ pc[s] = "sending" /\ \A q \in Slots \ {s} : Same(q)
      BY <1>0, <1>6, <2>1, SMTT(30) DEF Arrive, SlotsTyped, Same
    <3> QED
      BY <1>a, <3>1 DEF SlotMove, GoesOn, Flying
  <2>2. \/ pc' = [pc EXCEPT ![s] = "waiting"] /\ UNCHANGED <<row, answer, todo, full>>
        \/ \E a \in Answers \ {"manual"} : Answered(s, a)
    BY <1>6 DEF Arrive, Answers
  <2>3. pc[s] = "sending"
    BY <1>6 DEF Arrive
  <2> QED
    BY <1>d, <2>1, <2>2, <2>3
<1>7. ASSUME NEW s \in Slots, Reply(s) \/ Lose(s) \/ NoAccount(s)
      PROVE  \A q \in Slots : SlotMove(q)
  <2>1. PICK a \in Answers : /\ pc[s] \in {"sending", "waiting"} /\ Answered(s, a)
                             /\ a = "manual" => method = "BANK_TRANSFER" /\ pg[row[s]] = "new" /\ UNCHANGED pg
    BY <1>7 DEF Reply, Lose, NoAccount, Answers, outside
  <2> QED
    BY <1>d, <2>1
<1>8. ASSUME NEW s \in Slots, WriteCode(s)
      PROVE  \A q \in Slots : SlotMove(q)
  <2>1. pc'[s] = "coded" /\ row'[s] = row[s] /\ pc[s] = "answered" /\ \A q \in Slots \ {s} : Same(q)
    BY <1>0, <1>8, SMTT(30) DEF WriteCode, SlotsTyped, Same
  <2> QED
    BY <1>a, <2>1 DEF SlotMove, GoesOn, Flying
<1>9. ASSUME NEW s \in Slots, Succeed(s)
      PROVE  \A q \in Slots : SlotMove(q)
  <2>1. row[s] \in Rows
    BY <1>0, <1>9 DEF Succeed, SlotKnows
  <2>2. Abort(s) \/ (status[row[s]] = "PENDING" /\ TakeSuccess(s, row[s]) /\ UNCHANGED status)
    BY <1>9 DEF Succeed, refund
  <2> QED
    BY <1>b, <1>e, <2>1, <2>2
<1>10. ASSUME NEW s \in Slots, NEW r \in Rows, ConfirmManual(s, r)
       PROVE  \A q \in Slots : SlotMove(q)
  <2>1. status[r] = "PENDING" /\ TakeSuccess(s, r) /\ UNCHANGED status
    BY <1>10 DEF ConfirmManual, Confirmable, refund
  <2> QED
    BY <1>e, <2>1
<1>11. ASSUME NEW s \in Slots, Refuse(s) \/ MakeManual(s) \/ Fail(s) \/ Commit(s) \/ Crash(s)
       PROVE  \A q \in Slots : SlotMove(q)
  <2>1. Abort(s) \/ Done(s)
    BY <1>11 DEF Refuse, MakeManual, Fail, Commit, Crash
  <2> QED
    BY <1>b, <2>1
<1>12. ASSUME NEW r \in Rows, Decide(r) \/ Transfer(r) \/ GoesStale(r) \/ Ages(r)
       PROVE  UNCHANGED slot
  BY <1>12 DEF Decide, Transfer, GoesStale, Ages
<1>13. UNCHANGED vars => UNCHANGED slot
  BY DEF vars, slot
<1> QED
  BY <1>f, <1>1, <1>2, <1>3, <1>4, <1>5, <1>6, <1>7, <1>8, <1>9, <1>10, <1>11, <1>12, <1>13
  DEF Next, Continue, Slots

\* What an insert does with the rows: it makes one of them.
LEMMA InsertMakes ==
  ASSUME Inv, NEW s \in Slots, NEW a \in Amounts, NEW e \in {"AUTO", "MANUAL"}, Insert(s, a, e)
  PROVE  \E r \in Rows :
           /\ NewRow(r) /\ amount'[r] = a
           /\ \A q \in Rows \ {r} : SameRow(q) /\ amount'[q] = amount[q]
<1>0. /\ SlotsTyped /\ RowsTyped /\ InOrder
      /\ \A q \in Slots : SlotKnows(q)
  BY DEF Inv
<1>1. PICK r \in Rows : /\ r = Cardinality(Rows \ WithStatus({"none"})) + 1
                        /\ status' = [status EXCEPT ![r] = "PENDING"]
                        /\ amount' = [amount EXCEPT ![r] = a]
                        /\ execution' = [execution EXCEPT ![r] = e]
                        /\ IF e = "AUTO" THEN Send(s, r) /\ UNCHANGED todo ELSE Abort(s)
  BY DEF Insert
<1>2. status[r] = "none" /\ UNCHANGED <<unknown, pg>>
  BY <1>0, <1>1, NextRow DEF Insert, outside
<1>3. status'[r] = "PENDING" /\ amount'[r] = a /\ execution'[r] = e
  BY <1>0, <1>1 DEF RowsTyped
<1>4. \A q \in Rows \ {r} : SameRow(q) /\ amount'[q] = amount[q]
  BY <1>0, <1>1, <1>2 DEF RowsTyped, SameRow
<1>5. ASSUME e = "MANUAL", NEW q \in Slots, InFlight(q, r)' PROVE FALSE
  <2>1. InFlight(q, r)
    BY <1>0, <1>1, <1>5, Lands
  <2> QED
    BY <1>0, <1>2, <2>1 DEF InFlight, Flying, SlotKnows
<1> QED
  BY <1>2, <1>3, <1>4, <1>5 DEF NewRow

\* What every other step does with the rows.
LEMMA RowsMove ==
  ASSUME Inv, PayInv, [Next]_vars
  PROVE  \/ UNCHANGED amount /\ \A r \in Rows : RowMove(r)
         \/ \E s \in Slots, a \in Amounts, e \in {"AUTO", "MANUAL"} : Insert(s, a, e)
<1>0. /\ SlotsTyped /\ RowsTyped /\ InOrder
      /\ \A s \in Slots : SlotKnows(s) /\ SlotPays(s)
      /\ \A r \in Rows : RowKnown(r) /\ Paying(r)
  BY DEF Inv, PayInv
<1> DEFINE Goal == UNCHANGED amount /\ \A r \in Rows : RowMove(r)
<1>a. ASSUME UNCHANGED <<status, execution, unknown, pg, amount>> PROVE Goal
  BY <1>a DEF RowMove, SameRow
<1>b. ASSUME NEW r \in Rows, RowMove(r), UNCHANGED amount, \A q \in Rows \ {r} : SameRow(q) PROVE Goal
  BY <1>b DEF RowMove
<1>c. ASSUME NEW r \in Rows, Revive(r), status[r] = "FAILED", UNCHANGED pg PROVE Goal
  <2>1. /\ status'[r] = "PENDING" /\ UNCHANGED <<amount, execution, unknown, pg>>
        /\ \A q \in Rows \ {r} : status'[q] = status[q]
    BY <1>0, <1>c DEF Revive, RowsTyped
  <2> QED
    BY <1>b, <1>c, <2>1 DEF RowMove, SameRow
<1>d. ASSUME NEW s \in Slots, pc[s] \in Flying
      PROVE  row[s] \in Rows /\ status[row[s]] # "none" /\ InFlight(s, row[s])
  BY <1>0, <1>d DEF SlotKnows, InFlight, Flying
<1> HIDE DEF Goal
<1>1. ASSUME NEW s \in Slots, ResumeOldest(s) PROVE Goal
  <2>1. PICK r \in Rows : r = Oldest(Ambiguous) /\ status[r] = "FAILED"
    BY <1>1, OldestIn DEF ResumeOldest, Ambiguous, Unknown
  <2> QED
    BY <1>1, <1>c, <2>1 DEF ResumeOldest, outside
<1>2. ASSUME NEW s \in Slots, ResumeListed(s) PROVE Goal
  <2>1. todo[s] \subseteq Rows /\ todo[s] # {}
    BY <1>0, <1>2, SMT DEF ResumeListed, SlotsTyped
  <2>2. PICK r \in Rows : r = Oldest(todo[s])
    BY <2>1, OldestIn
  <2>3. \/ Revive(r) /\ status[r] = "FAILED" /\ UNCHANGED pg
        \/ UNCHANGED <<status, execution, unknown, pg, amount>>
    BY <1>2, <2>2 DEF ResumeListed, Revivable, refund, outside
  <2> QED
    BY <1>a, <1>c, <2>3
<1>3. ASSUME NEW s \in Slots, Arrive(s) PROVE Goal
  <2>1. PICK r \in Rows : r = row[s] /\ pc[s] = "sending"
    BY <1>3, <1>d DEF Arrive, Flying
  <2>2. CASE UNCHANGED pg
    BY <1>3, <1>a, <2>2 DEF Arrive, refund
  <2>3. CASE pg[r] = "new" /\ pg' = [pg EXCEPT ![r] = "open"]
    <3>1. pg'[r] = "open" /\ UNCHANGED <<status, execution, unknown, amount>>
          /\ \A q \in Rows \ {r} : pg'[q] = pg[q]
      BY <1>0, <1>3, <2>3 DEF Arrive, RowsTyped, refund
    <3> QED
      BY <1>b, <2>1, <2>3, <3>1 DEF RowMove, SameRow
  <2> QED
    BY <1>3, <2>1, <2>2, <2>3 DEF Arrive
<1>4. ASSUME NEW r \in Rows, Decide(r) PROVE Goal
  <2>1. PICK d \in {"paid", "refused"} : pg' = [pg EXCEPT ![r] = d]
    BY <1>4 DEF Decide
  <2>2. pg'[r] = d /\ pg[r] = "open" /\ UNCHANGED <<status, execution, unknown, amount>>
        /\ \A q \in Rows \ {r} : pg'[q] = pg[q]
    BY <1>0, <1>4, <2>1 DEF Decide, RowsTyped, refund
  <2> QED
    BY <1>b, <2>2 DEF RowMove, SameRow
<1>5. ASSUME NEW s \in Slots, MakeManual(s) PROVE Goal
  <2>1. PICK r \in Rows : r = row[s] /\ InFlight(s, r) /\ status[r] # "none"
    BY <1>5, <1>d DEF MakeManual, Flying
  <2>2. method = "BANK_TRANSFER" /\ pg[r] = "new"
    BY <1>0, <1>5, <2>1 DEF MakeManual, SlotPays
  <2>3. status[r] \in {"PENDING", "SUCCEEDED"} /\ \A q \in Slots : InFlight(q, r) => q = s
    BY <1>0, <2>1, <2>2 DEF Paying, RowsTyped, Statuses
  <2>4. \A q \in Slots : ~ InFlight(q, r)'
    BY <1>0, <1>5, <2>3, Lands DEF MakeManual
  <2>5. execution'[r] = "MANUAL" /\ UNCHANGED <<status, unknown, amount, pg>>
        /\ \A q \in Rows \ {r} : execution'[q] = execution[q]
    BY <1>0, <1>5, <2>1 DEF MakeManual, RowsTyped, outside
  <2> QED
    BY <1>b, <2>2, <2>3, <2>4, <2>5 DEF RowMove, SameRow
<1>6. ASSUME NEW s \in Slots, WriteCode(s) PROVE Goal
  <2>1. PICK r \in Rows : r = row[s] /\ InFlight(s, r)
    BY <1>6, <1>d DEF WriteCode, Flying
  <2>2. UNCHANGED <<status, execution, amount, pg>> /\ \A q \in Rows \ {r} : unknown'[q] = unknown[q]
    BY <1>0, <1>6, <2>1 DEF WriteCode, RowsTyped, outside
  <2> QED
    BY <1>b, <2>1, <2>2 DEF RowMove, SameRow
<1>7. ASSUME NEW s \in Slots, Fail(s) PROVE Goal
  <2>1. PICK r \in Rows : r = row[s] /\ InFlight(s, r)
    BY <1>7, <1>d DEF Fail, Flying
  <2>2. CASE UNCHANGED status
    BY <1>7, <1>a, <2>2 DEF Fail, outside
  <2>3. CASE status[r] = "PENDING" /\ status' = [status EXCEPT ![r] = "FAILED"] /\ Done(s)
    <3>1. status'[r] = "FAILED" /\ UNCHANGED <<execution, unknown, amount, pg, method>>
          /\ \A q \in Rows \ {r} : status'[q] = status[q]
      BY <1>0, <1>7, <2>3 DEF Fail, RowsTyped, outside
    <3>2. execution[r] = "AUTO" /\ ~ Locked(r)
      BY <1>0, <1>7, <2>1 DEF Fail, Paying, RowsTyped
    <3>3. Unsent(r)'
      <4> SUFFICES ASSUME method' = "BANK_TRANSFER", NEW q \in Slots, InFlight(q, r)' PROVE FALSE
        BY DEF Unsent
      <4>1. q # s /\ InFlight(q, r)
        BY <1>0, <2>3, Lands
      <4> QED
        BY <1>0, <2>1, <3>1, <4>1 DEF Paying
    <3> QED
      BY <1>b, <2>3, <3>1, <3>2, <3>3 DEF RowMove, SameRow
  <2> QED
    BY <1>7, <2>1, <2>2, <2>3 DEF Fail
<1>8. ASSUME NEW s \in Slots, Commit(s) PROVE Goal
  <2>1. PICK r \in Rows : r = row[s]
    BY <1>0, <1>8 DEF Commit, SlotKnows
  <2>2. status[r] \in {"PENDING", "SUCCEEDED"}
    BY <1>0, <1>8, <2>1 DEF Commit, SlotPays
  <2>3. CASE UNCHANGED <<status, unknown>>
    BY <1>8, <1>a, <2>3 DEF Commit, outside
  <2>4. CASE /\ status' = [status EXCEPT ![r] = "SUCCEEDED"]
             /\ unknown' = [unknown EXCEPT ![r] = @ /\ answer[s] # "paid"]
    <3>1. status'[r] = "SUCCEEDED" /\ UNCHANGED <<execution, amount, pg>>
          /\ \A q \in Rows \ {r} : status'[q] = status[q] /\ unknown'[q] = unknown[q]
      BY <1>0, <1>8, <2>4 DEF Commit, RowsTyped, outside
    <3> QED
      BY <1>b, <2>2, <3>1 DEF RowMove, SameRow
  <2> QED
    BY <1>8, <2>1, <2>3, <2>4 DEF Commit
<1>9. ASSUME NEW s \in Slots,
              \/ CheckCharge(s) \/ SettleFirst(s) \/ NoAccount(s) \/ Refuse(s) \/ Reply(s)
              \/ Succeed(s) \/ Lose(s) \/ Crash(s)
              \/ \E r \in Rows : ConfirmManual(s, r)
      PROVE  UNCHANGED <<status, execution, unknown, pg, amount>>
  BY <1>9 DEF CheckCharge, SettleFirst, NoAccount, Refuse, Reply, Succeed, Lose, Crash, ConfirmManual,
              refund, outside
<1>10. ASSUME NEW r \in Rows, Resend(r) \/ Transfer(r) \/ GoesStale(r) \/ Ages(r)
       PROVE  UNCHANGED <<status, execution, unknown, pg, amount>>
  BY <1>10 DEF Resend, Transfer, GoesStale, Ages, refund, outside
<1>11. UNCHANGED vars => UNCHANGED <<status, execution, unknown, pg, amount>>
  BY DEF vars, refund, outside
<1>12. \/ Goal
       \/ \E s \in Slots, a \in Amounts, e \in {"AUTO", "MANUAL"} : Insert(s, a, e)
  BY <1>a, <1>1, <1>2, <1>3, <1>4, <1>5, <1>6, <1>7, <1>8, <1>9, <1>10, <1>11
  DEF Next, Continue, Slots
<1> QED
  BY <1>12 DEF Goal

\* The method of a charge does not change, and what is blind stays so.
LEMMA Fixed ==
  ASSUME [Next]_vars, RowsTyped
  PROVE  method' = method /\ (blind => blind')
<1>1. ASSUME NEW s \in Slots,
             \/ CheckCharge(s) \/ ResumeOldest(s) \/ SettleFirst(s) \/ NoAccount(s)
             \/ \E r \in Rows : ConfirmManual(s, r)
      PROVE  method' = method /\ (blind => blind')
  BY <1>1 DEF CheckCharge, ResumeOldest, SettleFirst, NoAccount, ConfirmManual
<1>2. ASSUME NEW s \in Slots, Continue(s) \/ Lose(s) \/ Crash(s)
      PROVE  method' = method /\ (blind => blind')
  BY <1>2 DEF Continue, Refuse, ResumeListed, Arrive, Reply, MakeManual, WriteCode, Fail, Succeed,
              Commit, Lose, Crash
<1>3. ASSUME NEW r \in Rows, Resend(r) \/ Decide(r) \/ GoesStale(r) \/ Ages(r)
      PROVE  method' = method /\ (blind => blind')
  BY <1>3 DEF Resend, Decide, GoesStale, Ages
<1>5. ASSUME NEW s \in Slots, NEW a \in Amounts, NEW e \in {"AUTO", "MANUAL"}, Insert(s, a, e)
      PROVE  method' = method /\ (blind => blind')
  BY <1>5, Zenon DEF Insert
<1>6. ASSUME NEW r \in Rows, Transfer(r)
      PROVE  method' = method /\ (blind => blind')
  BY <1>6, Zenon DEF Transfer
<1>7. UNCHANGED vars => method' = method /\ (blind => blind')
  BY DEF vars
<1> QED
  BY <1>1, <1>2, <1>3, <1>5, <1>6, <1>7 DEF Next, Slots

\* Unless it is done blindly, only the money of a row left to the operator is
\* transferred by hand.
LEMMA HandMoves ==
  ASSUME [Next]_vars, RowsTyped, ~ blind', NEW r \in Rows, hand'[r]
  PROVE  hand[r] \/ execution[r] = "MANUAL"
<1>1. ASSUME NEW s \in Slots,
             \/ CheckCharge(s) \/ ResumeOldest(s) \/ SettleFirst(s) \/ NoAccount(s)
             \/ \E a \in Amounts, e \in {"AUTO", "MANUAL"} : Insert(s, a, e)
             \/ \E q \in Rows : ConfirmManual(s, q)
      PROVE  hand' = hand
  BY <1>1 DEF CheckCharge, ResumeOldest, SettleFirst, NoAccount, Insert, ConfirmManual, outside
<1>2. ASSUME NEW s \in Slots, Continue(s) \/ Lose(s) \/ Crash(s)
      PROVE  hand' = hand
  BY <1>2 DEF Continue, Refuse, ResumeListed, Arrive, Reply, MakeManual, WriteCode, Fail, Succeed,
              Commit, Lose, Crash, outside
<1>3. ASSUME NEW q \in Rows, Resend(q) \/ Decide(q) \/ GoesStale(q) \/ Ages(q)
      PROVE  hand' = hand
  BY <1>3 DEF Resend, Decide, GoesStale, Ages, outside
<1>4. UNCHANGED vars => hand' = hand
  BY DEF vars, outside
<1>5. ASSUME NEW q \in Rows, Transfer(q)
      PROVE  hand[r] \/ execution[r] = "MANUAL"
  <2>1. execution[q] # "AUTO"
    BY <1>5, Zenon DEF Transfer
  <2>2. execution[q] = "MANUAL"
    BY <2>1 DEF RowsTyped
  <2>3. hand' = [hand EXCEPT ![q] = TRUE]
    BY <1>5 DEF Transfer
  <2>4. r # q => hand'[r] = hand[r]
    BY <2>3 DEF RowsTyped
  <2> QED
    BY <2>2, <2>4
<1> QED
  BY <1>1, <1>2, <1>3, <1>4, <1>5 DEF Next, Slots

\* Every row moves, or is made.
LEMMA EveryRow ==
  ASSUME Inv, PayInv, [Next]_vars
  PROVE  \A r \in Rows : RowMove(r) \/ NewRow(r)
<1>1. CASE \A r \in Rows : RowMove(r)
  BY <1>1
<1>2. ASSUME NEW s \in Slots, NEW a \in Amounts, NEW e \in {"AUTO", "MANUAL"}, Insert(s, a, e)
      PROVE  \A r \in Rows : RowMove(r) \/ NewRow(r)
  BY <1>2, InsertMakes DEF RowMove
<1> QED
  BY <1>1, <1>2, RowsMove

\* A row in flight after a step was in flight before it, or has just been taken up.
LEMMA FlightFrom ==
  ASSUME NEW s \in Slots, NEW r \in Rows, SlotMove(s), InFlight(s, r)'
  PROVE  InFlight(s, r) \/ (Starts(s) /\ row'[s] = r)
  BY DEF SlotMove, InFlight, Flying, Same, GoesOn

\* Every step keeps the rows of the operator apart from those that are sent.
LEMMA PayingStep == Inv /\ PayInv /\ [Next]_vars => \A r \in Rows : Paying(r)'
<1> SUFFICES ASSUME Inv, PayInv, [Next]_vars, NEW r \in Rows PROVE Paying(r)'
  OBVIOUS
<1>0. /\ RowsTyped /\ Paying(r) /\ RowKnown(r) /\ method' = method
      /\ \A s \in Slots : SlotKnows(s) /\ SlotMove(s)
      /\ RowMove(r) \/ NewRow(r)
  BY SlotsMove, EveryRow, Fixed DEF Inv, PayInv
<1>1. \A s \in Slots : InFlight(s, r)' => InFlight(s, r) \/ (Starts(s) /\ row'[s] = r)
  BY <1>0, FlightFrom
<1>2. ASSUME execution'[r] = "MANUAL"
      PROVE  /\ status'[r] \in {"PENDING", "SUCCEEDED"} /\ pg'[r] = "new"
             /\ \A s \in Slots : ~ InFlight(s, r)'
  <2>1. ASSUME execution[r] = "MANUAL", NEW s \in Slots, InFlight(s, r)' PROVE FALSE
    BY <1>0, <1>1, <1>2, <2>1 DEF Paying, Starts
  <2>2. CASE NewRow(r)
    BY <1>0, <1>2, <2>2 DEF NewRow, RowKnown
  <2>3. CASE RowMove(r) /\ execution[r] = "MANUAL"
    <3>1. status[r] \in {"PENDING", "SUCCEEDED"} /\ pg[r] = "new" /\ \A s \in Slots : ~ InFlight(s, r)
      BY <1>0, <2>3 DEF Paying
    <3>2. ~ \E s \in Slots : pc[s] = "sending" /\ row[s] = r
      BY <3>1 DEF InFlight, Flying
    <3> QED
      BY <2>1, <2>3, <3>1, <3>2 DEF RowMove, SameRow
  <2>4. CASE RowMove(r) /\ execution[r] # "MANUAL"
    BY <1>2, <2>4 DEF RowMove, SameRow
  <2> QED
    BY <1>0, <2>2, <2>3, <2>4
<1>3. ASSUME method = "BANK_TRANSFER", NEW s \in Slots, InFlight(s, r)'
      PROVE  status'[r] # "FAILED" /\ \A q \in Slots : InFlight(q, r)' => q = s
  <2>1. CASE Starts(s) /\ row'[s] = r
    BY <1>3, <2>1 DEF Starts, InFlight
  <2>2. CASE InFlight(s, r)
    <3>1. status[r] # "FAILED" /\ status[r] # "none"
      BY <1>0, <1>3, <2>2 DEF Paying, SlotKnows, InFlight, Flying
    <3>2. status'[r] # "FAILED"
      <4>1. ~ Unsent(r)'
        BY <1>0, <1>3 DEF Unsent
      <4> QED
        BY <1>0, <3>1, <4>1 DEF RowMove, SameRow, NewRow
    <3>3. ASSUME NEW q \in Slots, InFlight(q, r)' PROVE q = s
      <4>1. CASE InFlight(q, r)
        BY <1>0, <1>3, <2>2, <4>1 DEF Paying
      <4>2. CASE Starts(q) /\ row'[q] = r
        BY <1>3, <4>2 DEF Starts, InFlight
      <4> QED
        BY <1>1, <3>3, <4>1, <4>2
    <3> QED
      BY <3>2, <3>3
  <2> QED
    BY <1>1, <1>3, <2>1, <2>2
<1> QED
  BY <1>0, <1>2, <1>3 DEF Paying

\* Every step keeps what the slots know of the money.
LEMMA PaysStep == Inv /\ PayInv /\ [Next]_vars => \A s \in Slots : SlotPays(s)'
<1> SUFFICES ASSUME Inv, PayInv, [Next]_vars, NEW s \in Slots PROVE SlotPays(s)'
  OBVIOUS
<1>0. /\ RowsTyped /\ SlotKnows(s) /\ SlotPays(s) /\ SlotMove(s) /\ method' = method
      /\ \A r \in Rows : Paying(r) /\ (RowMove(r) \/ NewRow(r))
  BY SlotsMove, EveryRow, Fixed DEF Inv, PayInv
<1>1. ASSUME pc'[s] = "answered", answer'[s] = "manual"
      PROVE  method = "BANK_TRANSFER" /\ pg'[row'[s]] = "new"
  <2>1. CASE Same(s)
    <3>1. pc[s] = "answered" /\ method = "BANK_TRANSFER" /\ pg[row[s]] = "new" /\ row'[s] = row[s]
      BY <1>0, <1>1, <2>1 DEF Same, SlotPays
    <3>2. PICK r \in Rows : r = row[s] /\ InFlight(s, r) /\ status[r] # "none"
      BY <1>0, <3>1 DEF SlotKnows, InFlight, Flying
    <3>3. ~ \E q \in Slots : pc[q] = "sending" /\ row[q] = r
      BY <1>0, <3>1, <3>2 DEF Paying, InFlight, Flying
    <3> QED
      BY <1>0, <3>1, <3>2, <3>3 DEF RowMove, NewRow, SameRow
  <2>2. CASE GoesOn(s)
    BY <1>1, <2>2 DEF GoesOn
  <2> QED
    BY <1>0, <1>1, <2>1, <2>2 DEF SlotMove, Starts
<1>2. ASSUME pc'[s] = "committing"
      PROVE  status'[row'[s]] \in {"PENDING", "SUCCEEDED"}
  <2>1. CASE Same(s)
    <3>1. pc[s] = "committing" /\ row'[s] = row[s]
      BY <1>2, <2>1 DEF Same
    <3>2. PICK r \in Rows : r = row[s] /\ Locked(r) /\ status[r] \in {"PENDING", "SUCCEEDED"}
      BY <1>0, <3>1 DEF SlotKnows, SlotPays, Locked
    <3> QED
      BY <1>0, <3>1, <3>2 DEF RowMove, NewRow, SameRow
  <2>2. CASE status[row'[s]] = "PENDING" /\ UNCHANGED status
    BY <2>2
  <2> QED
    BY <1>0, <1>2, <2>1, <2>2 DEF SlotMove, Starts, GoesOn
<1> QED
  BY <1>0, <1>1, <1>2 DEF SlotPays

\* Amounts of refunds are added up.
LEMMA Totals ==
  ASSUME NEW f \in [Rows -> 0 .. Amount], NEW S \in SUBSET Rows
  PROVE  /\ IsFiniteSet(S) /\ \A r \in S : f[r] \in Nat
         /\ SumFunctionOnSet(f, S) \in Nat
<1>1. IsFiniteSet(Rows)
  BY RefundsAssumption, FS_Interval DEF Rows
<1>2. IsFiniteSet(S)
  BY <1>1, FS_Subset
<1>3. \A r \in S : f[r] \in Nat
  BY RefundsAssumption
<1> QED
  BY <1>2, <1>3, SumType

\* A set of refunds with one of another's amount adds up to no more than that amount
\* and the sum of a set that has the rest.
LEMMA OneMore ==
  ASSUME NEW f, NEW g, NEW N, NEW W, IsFiniteSet(N), IsFiniteSet(W), \A q \in W : f[q] \in Nat,
         NEW r, NEW a \in Nat, g[r] = a,
         N \ {r} \in SUBSET W, \A q \in N \ {r} : g[q] = f[q]
  PROVE  SumFunctionOnSet(g, N) <= SumFunctionOnSet(f, W) + a
<1>1. IsFiniteSet(N \ {r}) /\ \A q \in N \ {r} : g[q] \in Nat
  BY FS_RemoveElement
<1>2. SumFunctionOnSet(g, N \ {r}) = SumFunctionOnSet(f, N \ {r})
  BY <1>1, SumSame
<1>3. SumFunctionOnSet(f, N \ {r}) <= SumFunctionOnSet(f, W)
  BY SumGrows
<1>4. SumFunctionOnSet(g, N \ {r}) \in Nat /\ SumFunctionOnSet(f, W) \in Nat
  BY <1>1, SumType
<1>5. CASE r \in N
  <2>1. \A q \in N : g[q] \in Nat
    BY <1>1
  <2>2. SumFunctionOnSet(g, N) = g[r] + SumFunctionOnSet(g, N \ {r})
    BY <1>5, <2>1, SumRemoves
  <2> QED
    BY <1>2, <1>3, <1>4, <2>2
<1>6. CASE r \notin N
  <2>1. N \ {r} = N
    BY <1>6
  <2>2. SumFunctionOnSet(g, N) = SumFunctionOnSet(g, N \ {r})
    BY <2>1, Zenon
  <2> QED
    BY <1>2, <1>3, <1>4, <2>2
<1> QED
  BY <1>5, <1>6

\* Every step keeps what is promised within the charge: an insert takes no more
\* than is available, and nothing else promises anything new.
LEMMA FitsStep == Inv /\ PayInv /\ Inv' /\ [Next]_vars => Fits'
<1> SUFFICES ASSUME Inv, PayInv, Inv', [Next]_vars, ~ blind' PROVE Fits'
  BY DEF Fits
<1>0. /\ RowsTyped /\ RowsTyped' /\ InOrder /\ ~ blind
      /\ \A r \in Rows : RowKnown(r) /\ Paying(r)
      /\ Total(Promised) <= Amount /\ \A r \in Rows : hand[r] => execution[r] = "MANUAL"
  BY Fixed DEF Inv, PayInv, Fits
<1>1. Promised \in SUBSET Rows /\ Promised' \in SUBSET Rows
  BY DEF Promised
<1>4. Total(Promised)' = SumFunctionOnSet(amount', Promised') /\ Total(Promised)' \in Nat /\ IsFiniteSet(Promised')
  <2>1. amount' \in [Rows -> 0 .. Amount]
    BY <1>0 DEF RowsTyped
  <2>2. Total(Promised)' = SumFunctionOnSet(amount', Promised')
    BY DEF Total, SumFunctionOnSet, FoldFunctionOnSet, MapThenFoldSet
  <2> QED
    BY <1>1, <2>1, <2>2, Totals
<1>5. /\ IsFiniteSet(Promised) /\ \A r \in Promised : amount[r] \in Nat
      /\ Total(Promised) = SumFunctionOnSet(amount, Promised) /\ Total(Promised) \in Nat
  BY <1>0, <1>1, Totals DEF RowsTyped, Total, SumFunctionOnSet
<1>2. ASSUME UNCHANGED amount, \A r \in Rows : RowMove(r)
      PROVE  Total(Promised)' <= Amount
  <2>1. ASSUME NEW r \in Rows, Owed(r)' PROVE Owed(r)
    <3>1. RowMove(r) /\ RowKnown(r) /\ Paying(r) /\ status[r] \in Statuses /\ execution[r] \in {"AUTO", "MANUAL"}
      BY <1>0, <1>2 DEF RowsTyped
    <3>2. (status'[r] \in {"PENDING", "SUCCEEDED"} \/ (status'[r] = "FAILED" /\ unknown'[r] /\ execution'[r] = "AUTO"))
          /\ pg'[r] # "refused"
      BY <2>1 DEF Owed, Unknown
    <3>3. pg[r] # "refused"
      BY <3>1, <3>2 DEF RowMove, SameRow
    <3>4. status[r] = "FAILED" => unknown[r] /\ execution[r] = "AUTO"
      BY <3>1, <3>3 DEF RowKnown, Explained, Paying
    <3>5. status[r] # "none"
      BY <3>1, <3>2 DEF RowMove, SameRow
    <3> QED
      BY <3>1, <3>3, <3>4, <3>5 DEF Owed, Unknown, Statuses
  <2>2. Promised' \in SUBSET Promised
    BY <2>1 DEF Promised
  <2>3. SumFunctionOnSet(amount, Promised') <= SumFunctionOnSet(amount, Promised)
    BY <1>5, <2>2, SumGrows
  <2>4. SumFunctionOnSet(amount, Promised') = Total(Promised)'
    BY <1>2, <1>4
  <2>5. SumFunctionOnSet(amount, Promised') \in Nat
    BY <1>4, <2>4
  <2> QED
    BY <1>0, <1>5, <2>3, <2>4, <2>5, RefundsAssumption
<1>3. ASSUME NEW s \in Slots, NEW a \in Amounts, NEW e \in {"AUTO", "MANUAL"}, Insert(s, a, e)
      PROVE  Total(Promised)' <= Amount
  <2>1. PICK r \in Rows : /\ NewRow(r) /\ amount'[r] = a
                          /\ \A q \in Rows \ {r} : SameRow(q) /\ amount'[q] = amount[q]
    BY <1>3, InsertMakes
  <2> DEFINE W == WithStatus({"SUCCEEDED", "PENDING"})
             N == Promised'
  <2>2. \A q \in Rows : ~ Unknown(q)
    BY <1>3 DEF Insert, Ambiguous
  <2>3. N \in SUBSET Rows /\ W \in SUBSET Rows /\ r \notin W
    BY <1>1, <2>1 DEF WithStatus, NewRow
  <2>4. N \ {r} \in SUBSET W
    <3> SUFFICES ASSUME NEW q \in N, q # r PROVE q \in W
      OBVIOUS
    <3>1. q \in Rows /\ Owed(q)' /\ SameRow(q)
      BY <2>1 DEF Promised
    <3> QED
      BY <2>2, <3>1 DEF Owed, Unknown, SameRow, WithStatus
  <2> HIDE DEF N, W
  <2>5. /\ IsFiniteSet(W) /\ \A q \in W : amount[q] \in Nat
        /\ Total(W) = SumFunctionOnSet(amount, W) /\ Total(W) \in Nat
    BY <1>0, <2>3, Totals DEF RowsTyped, Total, SumFunctionOnSet
  <2>6. a \in Nat
    BY RefundsAssumption DEF Amounts
  <2>7. SumFunctionOnSet(amount', N) <= SumFunctionOnSet(amount, W) + a
    <3>1. IsFiniteSet(N) /\ \A q \in N \ {r} : amount'[q] = amount[q]
      BY <1>4, <2>1, <2>3 DEF N
    <3> QED
      BY <2>1, <2>4, <2>5, <2>6, <3>1, OneMore
  <2>8. a <= Amount - Total(W)
    BY <1>3 DEF Insert, Available, W
  <2>9. Total(Promised)' = SumFunctionOnSet(amount', N) /\ Total(Promised)' \in Nat
    BY <1>4 DEF N
  <2> QED
    BY <2>5, <2>6, <2>7, <2>8, <2>9, RefundsAssumption
<1>6. Total(Promised)' <= Amount
  BY <1>2, <1>3, RowsMove
<1>7. ASSUME NEW r \in Rows, hand'[r] PROVE execution'[r] = "MANUAL"
  <2>1. execution[r] = "MANUAL"
    BY <1>0, <1>7, HandMoves
  <2>2. status[r] \in {"PENDING", "SUCCEEDED"} /\ (RowMove(r) \/ NewRow(r))
    BY <1>0, <2>1, EveryRow DEF Paying
  <2> QED
    BY <2>1, <2>2 DEF RowMove, SameRow, NewRow
<1> QED
  BY <1>6, <1>7 DEF Fits

\* Nothing is promised at first.
LEMMA PayInit == Init => PayInv
<1> SUFFICES ASSUME Init PROVE PayInv
  OBVIOUS
<1>1. \A s \in Slots : pc[s] = "idle"
  BY DEF Init
<1>2. \A r \in Rows : status[r] = "none" /\ execution[r] = "AUTO" /\ ~ hand[r]
  BY DEF Init
<1>3. (\A r \in Rows : Paying(r)) /\ \A s \in Slots : SlotPays(s)
  BY <1>1, <1>2 DEF Paying, SlotPays, InFlight, Flying
<1>4. Promised = {}
  BY <1>2 DEF Promised, Owed, Unknown
<1>5. SumFunctionOnSet(amount, {}) = 0
  BY FS_EmptySet, SumTakes
<1>6. Total({}) = 0
  BY <1>5 DEF Total, SumFunctionOnSet
<1> QED
  BY <1>2, <1>3, <1>4, <1>6, RefundsAssumption DEF PayInv, Fits

-----------------------------------------------------------------------------
(* Theorems *)

\* Requests, resends, the operator, crashes and lost answers leave only states that
\* satisfy the inductive invariant.
THEOREM Invariance == Spec => []Inv
<1>1. Inv /\ [Next]_vars => Inv'
  BY InvStep
<1> QED
  BY InvInit, <1>1, PTL DEF Spec

\* The state of the service always has its types, and a free slot remembers nothing.
THEOREM TypeCorrect == Spec => []TypeOK
<1>1. Inv => TypeOK
  BY SMT DEF Inv, SlotsTyped, RowsTyped, TypeOK
<1> QED
  BY Invariance, <1>1, PTL

\* Money that has left is never written off (dispatch, resendAmbiguous,
\* resendStuckAutoPending): its refund is on its way, has succeeded, or is known to
\* be of unknown outcome.
THEOREM NeverWrittenOff == Spec => []MoneyIsTracked
<1>1. ASSUME Inv PROVE MoneyIsTracked
  <2> SUFFICES ASSUME NEW r \in Rows, pg[r] = "paid"
               PROVE  status[r] \in {"PENDING", "SUCCEEDED"} \/ unknown[r]
    BY DEF MoneyIsTracked
  <2>1. RowKnown(r) /\ status[r] \in Statuses
    BY <1>1 DEF Inv, RowsTyped
  <2> QED
    BY <2>1 DEF RowKnown, Explained, Statuses
<1> QED
  BY Invariance, <1>1, PTL

\* A refund that has succeeded is never sent, failed or inserted over again.
THEOREM SuccessStays == Spec => SuccessIsFinal
<1>1. Inv /\ [Next]_vars => [\A r \in Rows : status[r] = "SUCCEEDED" => status'[r] = "SUCCEEDED"]_vars
  BY InvStep DEF RowsKept, Kept
<1> QED
  BY Invariance, <1>1, PTL DEF Spec, SuccessIsFinal

\* What is promised stays within the charge: the rest of the invariant.
THEOREM PromisesFit == Spec => []PayInv
<1>1. Inv /\ PayInv /\ [Next]_vars => PayInv'
  BY InvStep, PayingStep, PaysStep, FitsStep DEF PayInv
<1>2. Inv /\ PayInv /\ [Next]_vars => Inv' /\ PayInv'
  BY <1>1, InvStep
<1> QED
  BY InvInit, PayInit, Invariance, <1>1, PTL DEF Spec

\* The customer never gets more than he paid (create, dispatch): what the gateway
\* has paid and what the operator has transferred are different refunds, and all of
\* them are promised.
THEOREM NeverTooMuch == Spec => []NoOverRefund
<1>1. ASSUME Inv, PayInv PROVE NoOverRefund
  <2> SUFFICES ASSUME ~ blind PROVE PaidOut <= Amount
    BY DEF NoOverRefund
  <2> DEFINE P == {r \in Rows : pg[r] = "paid"}
             H == {r \in Rows : hand[r]}
  <2>1. /\ RowsTyped /\ Total(Promised) <= Amount
        /\ \A r \in Rows : RowKnown(r) /\ Paying(r) /\ (hand[r] => execution[r] = "MANUAL")
    BY <1>1 DEF Inv, PayInv, Fits
  <2>2. ASSUME NEW r \in P PROVE r \in Promised /\ r \notin H
    <3>1. pg[r] = "paid" /\ RowKnown(r) /\ Paying(r) /\ (hand[r] => execution[r] = "MANUAL")
          /\ status[r] \in Statuses /\ execution[r] \in {"AUTO", "MANUAL"}
      BY <2>1 DEF RowsTyped
    <3> QED
      BY <3>1 DEF Promised, Owed, Unknown, RowKnown, Explained, Paying, Statuses
  <2>3. ASSUME NEW r \in H PROVE r \in Promised
    BY <2>1 DEF Promised, Owed, Paying
  <2>4. Promised \in SUBSET Rows /\ P \in SUBSET Promised /\ H \in SUBSET (Promised \ P)
    BY <2>2, <2>3 DEF Promised
  <2> HIDE DEF P, H
  <2>5. amount \in [Rows -> 0 .. Amount] /\ P \in SUBSET Rows /\ H \in SUBSET Rows /\ Promised \ P \in SUBSET Rows
    BY <2>1, <2>4 DEF RowsTyped
  <2>6. /\ IsFiniteSet(Promised) /\ IsFiniteSet(Promised \ P) /\ \A r \in Promised : amount[r] \in Nat
        /\ SumFunctionOnSet(amount, P) \in Nat /\ SumFunctionOnSet(amount, H) \in Nat
        /\ SumFunctionOnSet(amount, Promised) \in Nat /\ SumFunctionOnSet(amount, Promised \ P) \in Nat
    BY <2>4, <2>5, Totals
  <2>7. SumFunctionOnSet(amount, Promised) = SumFunctionOnSet(amount, P) + SumFunctionOnSet(amount, Promised \ P)
    BY <2>4, <2>6, SumSplits
  <2>8. SumFunctionOnSet(amount, H) <= SumFunctionOnSet(amount, Promised \ P)
    BY <2>4, <2>6, SumGrows
  <2>9. /\ PaidOut = SumFunctionOnSet(amount, P) + SumFunctionOnSet(amount, H)
        /\ Total(Promised) = SumFunctionOnSet(amount, Promised)
    BY DEF PaidOut, Total, SumFunctionOnSet, P, H
  <2> QED
    BY <2>1, <2>6, <2>7, <2>8, <2>9, RefundsAssumption
<1> QED
  BY Invariance, PromisesFit, <1>1, PTL
=============================================================================
