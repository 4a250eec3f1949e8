--------------------------------- MODULE Sums ---------------------------------
(***************************************************************************)
(* What the proofs about limits need of SumFunctionOnSet, for a finite set *)
(* and a function with integer values on it: the sum of a set with and     *)
(* without an element, of a subset, and of two functions that agree.       *)
(*                                                                         *)
(* The fold is a recursive function on the subsets.  That it exists and    *)
(* what it computes is shown by induction on finite sets, in the form of a *)
(* smallest counterexample: a theorem about sets, where an induction rule  *)
(* would be one about predicates.                                          *)
(***************************************************************************)
EXTENDS FiniteSetTheorems, Functions, TLAPS

\* A nonempty set of subsets of a finite set has a member with no other inside it.
LEMMA SmallestSubset ==
  ASSUME NEW S, IsFiniteSet(S), NEW T, T \subseteq SUBSET S, T # {}
  PROVE  \E s \in T : \A r \in T : r \subseteq s => r = s
<1>1. FiniteSubsetsOf(S) = SUBSET S
  BY FS_FiniteSubsetsOfFinite
<1>2. \E s \in T : \A r \in T : <<r, s>> \notin StrictSubsetOrdering(S)
  BY <1>1, FS_StrictSubsetOrderingWellFounded, WFMin, Zenon
<1>3. PICK s \in T : \A r \in T : <<r, s>> \notin StrictSubsetOrdering(S)
  BY <1>2
<1>4. ASSUME NEW r \in T, r \subseteq s, r # s
      PROVE  FALSE
  <2>1. <<r, s>> \in (SUBSET S) \X (SUBSET S)
    OBVIOUS
  <2> QED  BY <1>3, <1>4, <2>1 DEF StrictSubsetOrdering
<1> QED  BY <1>4

-----------------------------------------------------------------------------
(***************************************************************************)
(* The recursion.                                                          *)
(***************************************************************************)
Some(s) == CHOOSE x \in s : TRUE

\* g is the iteration by which MapThenFoldSet adds the values of f on a subset of S.
Iterates(g, f, S) ==
  g = [s \in SUBSET S |-> IF s = {} THEN 0 ELSE f[Some(s)] + g[s \ {Some(s)}]]

Iteration(f, S) == CHOOSE g : Iterates(g, f, S)

\* What the library's definition says.
LEMMA SumIsIteration ==
  ASSUME NEW f, NEW S
  PROVE  SumFunctionOnSet(f, S) = Iteration(f, S)[S]
  BY DEF SumFunctionOnSet, FoldFunctionOnSet, MapThenFoldSet, Iteration, Iterates, Some

\* Iterations of two sets agree on what both are about.
LEMMA IterationUnique ==
  ASSUME NEW f, NEW S, NEW U, IsFiniteSet(S), S \subseteq U,
         NEW g, Iterates(g, f, S), NEW h, Iterates(h, f, U)
  PROVE  \A s \in SUBSET S : g[s] = h[s]
<1> DEFINE Differ == {s \in SUBSET S : g[s] # h[s]}
<1>1. SUFFICES ASSUME Differ # {}
               PROVE  FALSE
  OBVIOUS
<1>2. PICK s \in Differ : \A r \in Differ : r \subseteq s => r = s
  <2>1. Differ \subseteq SUBSET S
    OBVIOUS
  <2> HIDE DEF Differ
  <2> QED  BY <1>1, <2>1, SmallestSubset
<1>3. s \in SUBSET S /\ s \in SUBSET U /\ g[s] # h[s]
  OBVIOUS
<1>4. /\ g[s] = IF s = {} THEN 0 ELSE f[Some(s)] + g[s \ {Some(s)}]
      /\ h[s] = IF s = {} THEN 0 ELSE f[Some(s)] + h[s \ {Some(s)}]
  BY <1>3, Zenon DEF Iterates
<1>5. s # {}
  BY <1>3, <1>4
<1>6. Some(s) \in s
  BY <1>5 DEF Some
<1>7. s \ {Some(s)} \notin Differ
  BY <1>2, <1>6
<1>8. g[s \ {Some(s)}] = h[s \ {Some(s)}]
  BY <1>3, <1>7
<1> QED  BY <1>3, <1>4, <1>8

\* Every finite set has its iteration.
LEMMA IterationExists ==
  ASSUME NEW f, NEW S, IsFiniteSet(S)
  PROVE  Iterates(Iteration(f, S), f, S)
<1> DEFINE Without == {T \in SUBSET S : ~ \E g : Iterates(g, f, T)}
<1>1. SUFFICES Without = {}
  BY DEF Iteration
<1>2. SUFFICES ASSUME Without # {}
               PROVE  FALSE
  OBVIOUS
<1>3. PICK T \in Without : \A r \in Without : r \subseteq T => r = T
  <2>1. Without \subseteq SUBSET S
    OBVIOUS
  <2> HIDE DEF Without
  <2> QED  BY <1>2, <2>1, SmallestSubset
<1>4. ASSUME NEW U, U \subseteq T, U # T
      PROVE  Iterates(Iteration(f, U), f, U) /\ IsFiniteSet(U)
  <2>1. U \in SUBSET S
    BY <1>3, <1>4
  <2>2. U \notin Without
    BY <1>3, <1>4
  <2>3. \E g : Iterates(g, f, U)
    BY <2>1, <2>2
  <2> QED  BY <2>1, <2>3, FS_Subset DEF Iteration
<1> DEFINE Below(s) == Iteration(f, s \ {Some(s)})[s \ {Some(s)}]
<1> DEFINE g == [s \in SUBSET T |-> IF s = {} THEN 0 ELSE f[Some(s)] + Below(s)]
<1>5. ASSUME NEW s \in SUBSET T, s # {}
      PROVE  g[s \ {Some(s)}] = Below(s)
  <2> DEFINE U == s \ {Some(s)}
  <2>1. Some(s) \in s
    BY <1>5 DEF Some
  <2>2. U \subseteq T /\ U # T
    BY <2>1
  <2>3. Iteration(f, U)[U] = IF U = {} THEN 0 ELSE f[Some(U)] + Iteration(f, U)[U \ {Some(U)}]
    <3>1. Iterates(Iteration(f, U), f, U)
      BY <1>4, <2>2
    <3> QED  BY <3>1, Zenon DEF Iterates
  <2>4. g[U] = IF U = {} THEN 0 ELSE f[Some(U)] + Below(U)
    BY <2>2
  <2>5. U # {} => Iteration(f, U)[U \ {Some(U)}] = Below(U)
    <3>1. SUFFICES ASSUME U # {}
                   PROVE  Iteration(f, U)[U \ {Some(U)}] = Below(U)
      OBVIOUS
    <3> DEFINE V == U \ {Some(U)}
    <3>2. V \subseteq U /\ V \subseteq T /\ V # T
      BY <2>2
    <3>3. Iterates(Iteration(f, U), f, U) /\ Iterates(Iteration(f, V), f, V) /\ IsFiniteSet(V)
      BY <1>4, <2>2, <3>2
    <3>4. Iteration(f, V)[V] = Iteration(f, U)[V]
      <4> HIDE DEF U, V
      <4> QED  BY <3>2, <3>3, IterationUnique
    <3> QED  BY <3>4
  <2> QED  BY <2>3, <2>4, <2>5
<1>6. Iterates(g, f, T)
  <2>1. g = [s \in SUBSET T |-> IF s = {} THEN 0 ELSE f[Some(s)] + g[s \ {Some(s)}]]
    <3>1. \A s \in SUBSET T : g[s] = IF s = {} THEN 0 ELSE f[Some(s)] + g[s \ {Some(s)}]
      BY <1>5
    <3> QED  BY <3>1
  <2> QED  BY <2>1 DEF Iterates
<1> QED  BY <1>3, <1>6

-----------------------------------------------------------------------------
(***************************************************************************)
(* Sums of integers.                                                       *)
(***************************************************************************)
LEMMA SumEmpty ==
  ASSUME NEW f
  PROVE  SumFunctionOnSet(f, {}) = 0
<1>1. Iterates(Iteration(f, {}), f, {})
  BY FS_EmptySet, IterationExists
<1>2. Iteration(f, {})[{}] = 0
  BY <1>1, Zenon DEF Iterates
<1> QED  BY <1>2, SumIsIteration

\* The element that goes first.
LEMMA SumFirst ==
  ASSUME NEW f, NEW S, IsFiniteSet(S), S # {}
  PROVE  /\ Some(S) \in S
         /\ SumFunctionOnSet(f, S) = f[Some(S)] + SumFunctionOnSet(f, S \ {Some(S)})
<1> DEFINE U == S \ {Some(S)}
<1>1. Some(S) \in S
  BY DEF Some
<1>2. U \subseteq S /\ IsFiniteSet(U)
  BY FS_Subset
<1>3. Iterates(Iteration(f, S), f, S) /\ Iterates(Iteration(f, U), f, U)
  BY <1>2, IterationExists
<1>4. Iteration(f, S)[S] = f[Some(S)] + Iteration(f, S)[U]
  <2>1. S \in SUBSET S
    OBVIOUS
  <2> QED  BY <1>3, <2>1, Zenon DEF Iterates
<1>5. Iteration(f, U)[U] = Iteration(f, S)[U]
  <2> HIDE DEF U
  <2> QED  BY <1>2, <1>3, IterationUnique
<1> QED  BY <1>1, <1>4, <1>5, SumIsIteration

LEMMA SumType ==
  ASSUME NEW f, NEW S, IsFiniteSet(S), \A x \in S : f[x] \in Int
  PROVE  SumFunctionOnSet(f, S) \in Int
<1> DEFINE Bad == {T \in SUBSET S : SumFunctionOnSet(f, T) \notin Int}
<1>1. SUFFICES ASSUME Bad # {}
               PROVE  FALSE
  OBVIOUS
<1>2. PICK T \in Bad : \A r \in Bad : r \subseteq T => r = T
  <2>1. Bad \subseteq SUBSET S
    OBVIOUS
  <2> HIDE DEF Bad
  <2> QED  BY <1>1, <2>1, SmallestSubset
<1>3. T \subseteq S /\ IsFiniteSet(T) /\ SumFunctionOnSet(f, T) \notin Int
  BY <1>2, FS_Subset
<1>4. T # {}
  BY <1>3, SumEmpty
<1>5. Some(T) \in T /\ SumFunctionOnSet(f, T) = f[Some(T)] + SumFunctionOnSet(f, T \ {Some(T)})
  BY <1>3, <1>4, SumFirst
<1>6. SumFunctionOnSet(f, T \ {Some(T)}) \in Int
  BY <1>2, <1>3, <1>5
<1>7. f[Some(T)] \in Int
  BY <1>3, <1>5
<1> QED  BY <1>3, <1>5, <1>6, <1>7

\* Any element may go first.
LEMMA SumRemove ==
  ASSUME NEW f, NEW S, IsFiniteSet(S), \A y \in S : f[y] \in Int, NEW x \in S
  PROVE  SumFunctionOnSet(f, S) = f[x] + SumFunctionOnSet(f, S \ {x})
<1> DEFINE Right(T) == \A z \in T : SumFunctionOnSet(f, T) = f[z] + SumFunctionOnSet(f, T \ {z})
           Bad == {T \in SUBSET S : ~Right(T)}
<1>1. SUFFICES ASSUME Bad # {}
               PROVE  FALSE
  OBVIOUS
<1>2. PICK T \in Bad : \A r \in Bad : r \subseteq T => r = T
  <2>1. Bad \subseteq SUBSET S
    OBVIOUS
  <2> HIDE DEF Bad
  <2> QED  BY <1>1, <2>1, SmallestSubset
<1>3. T \subseteq S /\ IsFiniteSet(T)
  BY <1>2, FS_Subset
<1>4. PICK z \in T : SumFunctionOnSet(f, T) # f[z] + SumFunctionOnSet(f, T \ {z})
  BY <1>2
<1> DEFINE y == Some(T)
           U == T \ {y}
<1>5. y \in T /\ SumFunctionOnSet(f, T) = f[y] + SumFunctionOnSet(f, U)
  BY <1>3, <1>4, SumFirst
<1>6. z # y
  BY <1>4, <1>5
<1>7. SumFunctionOnSet(f, U) = f[z] + SumFunctionOnSet(f, U \ {z})
  <2>1. U \subseteq T /\ U # T /\ z \in U
    BY <1>5, <1>6
  <2>2. Right(U)
    BY <1>2, <1>3, <2>1
  <2> QED  BY <2>1, <2>2
<1>8. SumFunctionOnSet(f, T \ {z}) = f[y] + SumFunctionOnSet(f, (T \ {z}) \ {y})
  <2>1. T \ {z} \subseteq T /\ T \ {z} # T /\ y \in T \ {z}
    BY <1>5, <1>6
  <2>2. Right(T \ {z})
    BY <1>2, <1>3, <2>1
  <2> QED  BY <2>1, <2>2
<1>9. U \ {z} = (T \ {z}) \ {y}
  OBVIOUS
<1>10. f[y] \in Int /\ f[z] \in Int /\ SumFunctionOnSet(f, U \ {z}) \in Int
  <2>1. U \ {z} \subseteq S /\ IsFiniteSet(U \ {z})
    BY <1>3, FS_Subset
  <2>2. \A v \in U \ {z} : f[v] \in Int
    BY <2>1
  <2>3. SumFunctionOnSet(f, U \ {z}) \in Int
    <3> HIDE DEF U
    <3> QED  BY <2>1, <2>2, SumType
  <2>4. f[y] \in Int /\ f[z] \in Int
    <3> HIDE DEF y
    <3> QED  BY <1>3, <1>4, <1>5
  <2> QED  BY <2>3, <2>4
<1>11. SumFunctionOnSet(f, U \ {z}) = SumFunctionOnSet(f, (T \ {z}) \ {y})
  BY <1>9
<1> HIDE DEF y, U, Right, Bad
<1> QED  BY <1>4, <1>5, <1>7, <1>8, <1>10, <1>11

LEMMA SumOfEqual ==
  ASSUME NEW f, NEW g, NEW S, IsFiniteSet(S), \A x \in S : f[x] = g[x]
  PROVE  SumFunctionOnSet(f, S) = SumFunctionOnSet(g, S)
<1> DEFINE Bad == {T \in SUBSET S : SumFunctionOnSet(f, T) # SumFunctionOnSet(g, T)}
<1>1. SUFFICES ASSUME Bad # {}
               PROVE  FALSE
  OBVIOUS
<1>2. PICK T \in Bad : \A r \in Bad : r \subseteq T => r = T
  <2>1. Bad \subseteq SUBSET S
    OBVIOUS
  <2> HIDE DEF Bad
  <2> QED  BY <1>1, <2>1, SmallestSubset
<1>3. T \subseteq S /\ IsFiniteSet(T) /\ SumFunctionOnSet(f, T) # SumFunctionOnSet(g, T)
  BY <1>2, FS_Subset
<1>4. T # {}
  BY <1>3, SumEmpty
<1>5. /\ Some(T) \in T
      /\ SumFunctionOnSet(f, T) = f[Some(T)] + SumFunctionOnSet(f, T \ {Some(T)})
      /\ SumFunctionOnSet(g, T) = g[Some(T)] + SumFunctionOnSet(g, T \ {Some(T)})
  BY <1>3, <1>4, SumFirst
<1>6. SumFunctionOnSet(f, T \ {Some(T)}) = SumFunctionOnSet(g, T \ {Some(T)})
  BY <1>2, <1>3, <1>5
<1> QED  BY <1>3, <1>5, <1>6

\* One value of the function changes.
LEMMA SumOfChange ==
  ASSUME NEW f, NEW g, NEW S, IsFiniteSet(S), NEW x \in S,
         \A y \in S : f[y] \in Int /\ g[y] \in Int,
         \A y \in S \ {x} : f[y] = g[y]
  PROVE  SumFunctionOnSet(g, S) = SumFunctionOnSet(f, S) + g[x] - f[x]
<1> DEFINE U == S \ {x}
<1>1. U \subseteq S /\ IsFiniteSet(U)
  BY FS_Subset
<1>2. /\ SumFunctionOnSet(f, S) = f[x] + SumFunctionOnSet(f, U)
      /\ SumFunctionOnSet(g, S) = g[x] + SumFunctionOnSet(g, U)
  BY SumRemove
<1>3. SumFunctionOnSet(f, U) = SumFunctionOnSet(g, U)
  BY <1>1, SumOfEqual
<1>4. SumFunctionOnSet(f, U) \in Int
  BY <1>1, SumType
<1> QED  BY <1>2, <1>3, <1>4

\* Naturals: the sum is one, and no subset has a larger sum.
LEMMA SumOfNaturals ==
  ASSUME NEW f, NEW S, IsFiniteSet(S), \A x \in S : f[x] \in Nat
  PROVE  /\ SumFunctionOnSet(f, S) \in Nat
         /\ \A T \in SUBSET S : SumFunctionOnSet(f, T) <= SumFunctionOnSet(f, S)
<1> DEFINE Right(U) == /\ SumFunctionOnSet(f, U) \in Nat
                       /\ \A T \in SUBSET U : SumFunctionOnSet(f, T) <= SumFunctionOnSet(f, U)
           Bad == {U \in SUBSET S : ~Right(U)}
<1>1. SUFFICES ASSUME Bad # {}
               PROVE  FALSE
  OBVIOUS
<1>2. PICK U \in Bad : \A r \in Bad : r \subseteq U => r = U
  <2>1. Bad \subseteq SUBSET S
    OBVIOUS
  <2> HIDE DEF Bad
  <2> QED  BY <1>1, <2>1, SmallestSubset
<1>3. U \subseteq S /\ IsFiniteSet(U) /\ ~Right(U)
  BY <1>2, FS_Subset
<1>4. ASSUME NEW x \in U
      PROVE  /\ SumFunctionOnSet(f, U) = f[x] + SumFunctionOnSet(f, U \ {x})
             /\ f[x] \in Nat
             /\ Right(U \ {x})
  <2>1. U \ {x} \subseteq U /\ U \ {x} # U
    OBVIOUS
  <2>2. Right(U \ {x})
    BY <1>2, <1>3, <2>1
  <2>3. \A y \in U : f[y] \in Int
    BY <1>3
  <2>4. SumFunctionOnSet(f, U) = f[x] + SumFunctionOnSet(f, U \ {x})
    BY <1>3, <2>3, SumRemove
  <2> QED  BY <1>3, <2>2, <2>4
<1>5. SumFunctionOnSet(f, U) \in Nat
  <2>1. CASE U = {}
    BY <2>1, SumEmpty
  <2>2. CASE U # {}
    <3>1. PICK x \in U : TRUE
      BY <2>2
    <3>2. /\ SumFunctionOnSet(f, U) = f[x] + SumFunctionOnSet(f, U \ {x})
          /\ f[x] \in Nat
          /\ SumFunctionOnSet(f, U \ {x}) \in Nat
      BY <1>4
    <3> QED  BY <3>2
  <2> QED  BY <2>1, <2>2
<1>6. ASSUME NEW T \in SUBSET U
      PROVE  SumFunctionOnSet(f, T) <= SumFunctionOnSet(f, U)
  <2>1. CASE T = U
    BY <1>5, <2>1
  <2>2. CASE T # U
    <3>1. PICK x \in U : x \notin T
      BY <2>2
    <3>2. T \in SUBSET (U \ {x})
      BY <3>1
    <3>3. /\ SumFunctionOnSet(f, T) <= SumFunctionOnSet(f, U \ {x})
          /\ SumFunctionOnSet(f, U \ {x}) \in Nat
          /\ SumFunctionOnSet(f, U) = f[x] + SumFunctionOnSet(f, U \ {x})
          /\ f[x] \in Nat
      BY <1>4, <3>2
    <3>4. SumFunctionOnSet(f, T) \in Int
      <4>1. T \subseteq S /\ IsFiniteSet(T)
        BY <1>3, FS_Subset
      <4>2. \A y \in T : f[y] \in Int
        BY <4>1
      <4> QED  BY <4>1, <4>2, SumType
    <3> QED  BY <3>3, <3>4
  <2> QED  BY <2>1, <2>2
<1>7. Right(U)
  BY <1>5, <1>6
<1> QED  BY <1>3, <1>7

LEMMA SumOfZeros ==
  ASSUME NEW f, NEW S, IsFiniteSet(S), \A x \in S : f[x] = 0
  PROVE  SumFunctionOnSet(f, S) = 0
<1> DEFINE Bad == {T \in SUBSET S : SumFunctionOnSet(f, T) # 0}
<1>1. SUFFICES ASSUME Bad # {}
               PROVE  FALSE
  OBVIOUS
<1>2. PICK T \in Bad : \A r \in Bad : r \subseteq T => r = T
  <2>1. Bad \subseteq SUBSET S
    OBVIOUS
  <2> HIDE DEF Bad
  <2> QED  BY <1>1, <2>1, SmallestSubset
<1>3. T \subseteq S /\ IsFiniteSet(T) /\ SumFunctionOnSet(f, T) # 0
  BY <1>2, FS_Subset
<1>4. T # {}
  BY <1>3, SumEmpty
<1>5. Some(T) \in T /\ SumFunctionOnSet(f, T) = f[Some(T)] + SumFunctionOnSet(f, T \ {Some(T)})
  BY <1>3, <1>4, SumFirst
<1>6. SumFunctionOnSet(f, T \ {Some(T)}) = 0
  BY <1>2, <1>3, <1>5
<1> QED  BY <1>3, <1>5, <1>6

=============================================================================
