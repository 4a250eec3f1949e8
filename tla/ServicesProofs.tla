---------------------------- MODULE ServicesProofs ----------------------------
(***************************************************************************)
(* Proofs about RateLimiter, for any keys, callers, limits and waits, and  *)
(* about MCServices, whose run shows the limiter, accounts, uploads and    *)
(* schedules side by side.                                                 *)
(*                                                                         *)
(* WindowLimit counts calls ever let through, a deque holds only some of   *)
(* them, and in another order than that of their instants.  Counted says   *)
(* how the two relate: within the window the deque is complete, whatever   *)
(* else pruning dropped, and Ordered how far out of order it is.           *)
(***************************************************************************)
EXTENDS MCServices, SchedulerProofs, AccountsProofs, ImageUploadsProofs, SequenceTheorems

\* A call that waits for the mutex has read the clock at most MaxWait ago.
CallsCurrent ==
  \A c \in Callers : call[c] \in WaitingCall =>
    call[c].now <= clock /\ clock <= call[c].now + MaxWait

\* A deque is short, and sorted but for calls that overtook one another.
Ordered(deque) ==
  /\ Len(deque) <= AttemptLimit
  /\ \A i \in 1..Len(deque) :
       /\ deque[i] <= clock
       /\ \A j \in 1..(i - 1) : deque[j] <= deque[i] + MaxWait

Positions(deque, T) == {i \in 1..Len(deque) : deque[i] \in T}
Recent(t) == t + Window > clock

\* What is in the deque was let through, as f counts it, and what was let through within
\* the window is in the deque.
Counted(deque, f) ==
  \A T \in SUBSET Instants :
    /\ Cardinality(Positions(deque, T)) <= SumFunctionOnSet(f, T)
    /\ (\A t \in T : Recent(t)) => SumFunctionOnSet(f, T) <= Cardinality(Positions(deque, T))

DequesOrdered == \A k \in Keys : Ordered(attempts[k])
AllCounted == \A k \in Keys : Counted(attempts[k], admitted[k])

LimiterInv == LimiterTypeOK /\ CallsCurrent /\ DequesOrdered /\ AllCounted /\ WindowLimit

-----------------------------------------------------------------------------
(***************************************************************************)
(* Deques.                                                                 *)
(***************************************************************************)
LEMMA LeastNatural ==
  ASSUME NEW T, T \subseteq Nat, T # {}
  PROVE  \E n \in T : \A m \in T : n <= m
<1>1. PICK n \in T : \A m \in T : <<m, n>> \notin OpToRel(<, Nat)
  BY NatLessThanWellFounded, WFMin, Zenon
<1>2. ASSUME NEW m \in T
      PROVE  n <= m
  <2>1. ~(m < n)
    <3>1. <<m, n>> \in Nat \X Nat
      OBVIOUS
    <3> QED  BY <1>1, <3>1 DEF OpToRel
  <2> QED  BY <2>1
<1> QED  BY <1>2

LEMMA InstantsFinite == Instants \subseteq Nat /\ IsFiniteSet(Instants)
  BY FS_Interval, LimiterAssumption DEF Instants

\* An instant has expired when a whole window lies between it and now.
LEMMA ExpiredMeans ==
  ASSUME NEW instant \in Int, NEW t \in Int
  PROVE  Expired(instant, t) <=> t + Window <= instant
  BY LimiterAssumption DEF Expired, Age

\* i is the first position of the deque that is kept.
FirstKept(deque, instant, i) ==
  /\ \A m \in 1..(i - 1) : Expired(instant, deque[m])
  /\ i <= Len(deque) => ~Expired(instant, deque[i])

LEMMA PrunedFacts ==
  ASSUME NEW deque \in Seq(Instants), NEW instant \in Int
  PROVE  /\ Pruned(deque, instant) \in Seq(Instants)
         /\ \E i \in 1..(Len(deque) + 1) :
              /\ FirstKept(deque, instant, i)
              /\ Len(Pruned(deque, instant)) = Len(deque) - i + 1
              /\ \A j \in 1..(Len(deque) - i + 1) : Pruned(deque, instant)[j] = deque[j + i - 1]
<1>1. Len(deque) \in Nat
  OBVIOUS
<1>2. \E i \in 1..(Len(deque) + 1) : FirstKept(deque, instant, i)
  <2> DEFINE T == {i \in 1..Len(deque) : ~Expired(instant, deque[i])}
  <2>1. CASE T = {}
    <3>1. FirstKept(deque, instant, Len(deque) + 1)
      BY <1>1, <2>1 DEF FirstKept
    <3> QED  BY <1>1, <3>1
  <2>2. CASE T # {}
    <3>1. PICK i \in T : \A m \in T : i <= m
      <4>1. T \subseteq Nat
        OBVIOUS
      <4> HIDE DEF T
      <4> QED  BY <2>2, <4>1, LeastNatural
    <3>2. FirstKept(deque, instant, i)
      BY <1>1, <3>1 DEF FirstKept
    <3> QED  BY <1>1, <3>2
  <2> QED  BY <2>1, <2>2
<1> DEFINE i == CHOOSE j \in 1..(Len(deque) + 1) : FirstKept(deque, instant, j)
<1>3. i \in 1..(Len(deque) + 1) /\ FirstKept(deque, instant, i)
  BY <1>2
<1>4. Pruned(deque, instant) = SubSeq(deque, i, Len(deque))
  BY DEF Pruned, FirstKept
<1> HIDE DEF i
<1>5. /\ SubSeq(deque, i, Len(deque)) \in Seq(Instants)
      /\ Len(SubSeq(deque, i, Len(deque))) = IF i <= Len(deque) THEN Len(deque) - i + 1 ELSE 0
      /\ \A j \in 1..(Len(deque) - i + 1) : SubSeq(deque, i, Len(deque))[j] = deque[i + j - 1]
  BY <1>1, <1>3, SubSeqProperties
<1> QED  BY <1>1, <1>3, <1>4, <1>5

LEMMA SegmentSize ==
  ASSUME NEW n \in Nat
  PROVE  IsFiniteSet(1..n) /\ Cardinality(1..n) = n
  BY FS_Interval

\* The positions of a set of instants, before and after the front is dropped.
LEMMA PositionsFinite ==
  ASSUME NEW deque \in Seq(Instants), NEW T
  PROVE  /\ IsFiniteSet(Positions(deque, T))
         /\ Cardinality(Positions(deque, T)) \in Nat
         /\ Cardinality(Positions(deque, T)) <= Len(deque)
<1>1. Len(deque) \in Nat /\ Positions(deque, T) \in SUBSET (1..Len(deque))
  BY DEF Positions
<1>2. IsFiniteSet(1..Len(deque)) /\ Cardinality(1..Len(deque)) = Len(deque)
  BY <1>1, SegmentSize
<1> QED  BY <1>1, <1>2, FS_Subset, FS_CardinalityType

LEMMA PruningCounts ==
  ASSUME NEW deque \in Seq(Instants), NEW instant \in Int, NEW T \in SUBSET Instants
  PROVE  /\ Cardinality(Positions(Pruned(deque, instant), T)) <= Cardinality(Positions(deque, T))
         /\ (\A t \in T : ~Expired(instant, t)) =>
              Cardinality(Positions(Pruned(deque, instant), T)) = Cardinality(Positions(deque, T))
<1> DEFINE p == Pruned(deque, instant)
           A == Positions(p, T)
           B == Positions(deque, T)
<1>1. PICK i \in 1..(Len(deque) + 1) :
        /\ FirstKept(deque, instant, i)
        /\ Len(p) = Len(deque) - i + 1
        /\ \A j \in 1..(Len(deque) - i + 1) : p[j] = deque[j + i - 1]
  BY PrunedFacts
<1>2. IsFiniteSet(A) /\ IsFiniteSet(B)
  BY PrunedFacts, PositionsFinite
<1> DEFINE f == [j \in A |-> j + i - 1]
<1>3. f \in Injection(A, B)
  <2>1. \A j \in A : f[j] \in B
    BY <1>1 DEF Positions
  <2>2. \A j, m \in A : f[j] = f[m] => j = m
    BY DEF Positions
  <2> QED  BY <2>1, <2>2 DEF Injection, IsInjective
<1>4. Cardinality(A) <= Cardinality(B)
  BY <1>2, <1>3, FS_Injection
<1>5. ASSUME \A t \in T : ~Expired(instant, t)
      PROVE  Cardinality(A) = Cardinality(B)
  <2>1. ASSUME NEW m \in B
        PROVE  \E j \in A : f[j] = m
    <3>1. m \in 1..Len(deque) /\ deque[m] \in T
      BY DEF Positions
    <3>2. m >= i
      BY <1>1, <1>5, <3>1 DEF FirstKept
    <3>3. m - i + 1 \in A
      BY <1>1, <3>1, <3>2 DEF Positions
    <3>4. f[m - i + 1] = m
      BY <1>1, <3>1, <3>3
    <3> QED  BY <3>3, <3>4
  <2>2. f \in Surjection(A, B)
    BY <1>3, <2>1 DEF Injection, Surjection
  <2> QED  BY <1>2, <1>3, <2>2, FS_Injection
<1> QED  BY <1>4, <1>5

LEMMA AppendingCounts ==
  ASSUME NEW deque \in Seq(Instants), NEW instant \in Instants, NEW T \in SUBSET Instants
  PROVE  Cardinality(Positions(Append(deque, instant), T)) =
           Cardinality(Positions(deque, T)) + (IF instant \in T THEN 1 ELSE 0)
<1>1. /\ Append(deque, instant) \in Seq(Instants) /\ Len(deque) \in Nat
      /\ Len(Append(deque, instant)) = Len(deque) + 1
      /\ \A i \in 1..Len(deque) : Append(deque, instant)[i] = deque[i]
      /\ Append(deque, instant)[Len(deque) + 1] = instant
  BY AppendProperties
<1>2. IsFiniteSet(Positions(deque, T)) /\ Cardinality(Positions(deque, T)) \in Nat
  BY PositionsFinite
<1>3. CASE instant \in T
  <2>1. Positions(Append(deque, instant), T) = Positions(deque, T) \cup {Len(deque) + 1}
    BY <1>1, <1>3 DEF Positions
  <2>2. Len(deque) + 1 \notin Positions(deque, T)
    BY <1>1 DEF Positions
  <2> QED  BY <1>2, <1>3, <2>1, <2>2, FS_AddElement
<1>4. CASE instant \notin T
  <2>1. Positions(Append(deque, instant), T) = Positions(deque, T)
    BY <1>1, <1>4 DEF Positions
  <2> QED  BY <1>2, <1>4, <2>1
<1> QED  BY <1>3, <1>4

\* Pruning leaves nothing of a deque that is all expired, and drops an expired front.
LEMMA PruningDrops ==
  ASSUME NEW deque \in Seq(Instants), NEW instant \in Int
  PROVE  /\ Pruned(deque, instant) # <<>> => ~Expired(instant, Head(Pruned(deque, instant)))
         /\ (\A i \in 1..Len(deque) : Expired(instant, deque[i])) => Pruned(deque, instant) = <<>>
         /\ deque # <<>> /\ Expired(instant, deque[1]) => Len(Pruned(deque, instant)) < Len(deque)
<1> DEFINE p == Pruned(deque, instant)
<1>1. PICK i \in 1..(Len(deque) + 1) :
        /\ FirstKept(deque, instant, i)
        /\ Len(p) = Len(deque) - i + 1
        /\ \A j \in 1..(Len(deque) - i + 1) : p[j] = deque[j + i - 1]
  BY PrunedFacts
<1>2. p \in Seq(Instants) /\ Len(deque) \in Nat
  <2>1. p \in Seq(Instants)
    BY PrunedFacts
  <2> QED  BY <2>1
<1> HIDE DEF p
<1>3. p # <<>> => ~Expired(instant, Head(p))
  <2> SUFFICES ASSUME p # <<>> PROVE ~Expired(instant, Head(p))  OBVIOUS
  <2>1. Len(p) >= 1 /\ Head(p) = p[1]
    BY <1>2, EmptySeq, HeadTailProperties
  <2> QED  BY <1>1, <1>2, <2>1 DEF FirstKept
<1>4. ASSUME \A m \in 1..Len(deque) : Expired(instant, deque[m])
      PROVE  p = <<>>
  <2>1. i = Len(deque) + 1
    BY <1>1, <1>2, <1>4 DEF FirstKept
  <2> QED  BY <1>1, <1>2, <2>1, EmptySeq
<1>5. ASSUME deque # <<>>, Expired(instant, deque[1])
      PROVE  Len(p) < Len(deque)
  <2>1. Len(deque) >= 1
    BY <1>5, EmptySeq
  <2>2. i # 1
    BY <1>1, <1>2, <1>5, <2>1 DEF FirstKept
  <2> QED  BY <1>1, <1>2, <2>2
<1> QED  BY <1>3, <1>4, <1>5 DEF p

-----------------------------------------------------------------------------
(***************************************************************************)
(* Check: what it reads, and its two outcomes.                             *)
(***************************************************************************)
AfterPruning(instant) == [x \in Keys |-> Pruned(attempts[x], instant)]

LEMMA AfterPruningType ==
  ASSUME LimiterTypeOK, NEW instant \in Instants
  PROVE  AfterPruning(instant) \in [Keys -> Seq(Instants)]
<1>1. instant \in Int
  <2>1. instant \in Nat
    BY InstantsFinite
  <2> QED  BY <2>1
<1> QED  BY <1>1, PrunedFacts DEF AfterPruning, LimiterTypeOK

\* A call is let through for a key with room, or refused for one of two reasons.
LEMMA CheckOutcome ==
  ASSUME LimiterTypeOK, NEW c \in Callers, Check(c)
  PROVE  \E k \in Keys, instant \in Instants :
           LET p == AfterPruning(instant)
               tracked == {x \in Keys : p[x] # <<>>}
           IN /\ call[c] \in WaitingCall /\ call[c] = [key |-> k, now |-> instant]
              /\ clock' = clock
              /\ \/ Admit(c, k, instant, p) /\ Len(p[k]) < AttemptLimit
                 \/ /\ Refuse(c, k, instant, Window, p)
                    /\ k \notin tracked /\ Cardinality(tracked) >= MaxTrackedKeys
                 \/ /\ Refuse(c, k, instant, Window - Age(instant, Head(p[k])), p)
                    /\ k \in tracked /\ Len(p[k]) >= AttemptLimit
<1> DEFINE k == call[c].key
           instant == call[c].now
           p == AfterPruning(instant)
           tracked == {x \in Keys : p[x] # <<>>}
<1>1. /\ k \in Keys /\ instant \in Instants /\ clock' = clock
      /\ call[c] \in WaitingCall /\ call[c] = [key |-> k, now |-> instant]
  BY DEF Check, WaitingCall
<1>2. p \in [Keys -> Seq(Instants)]
  BY <1>1, AfterPruningType
<1>3. Decide(c, k, instant, p)
  BY DEF Check, AfterPruning
<1> HIDE DEF k, instant, p
<1>4. CASE k \notin tracked /\ Cardinality(tracked) >= MaxTrackedKeys
  <2>1. Refuse(c, k, instant, Window, p)
    BY <1>3, <1>4 DEF Decide
  <2> QED  BY <1>1, <1>4, <2>1 DEF p
<1>5. CASE k \in tracked /\ Len(p[k]) >= AttemptLimit
  <2>1. Refuse(c, k, instant, Window - Age(instant, Head(p[k])), p)
    BY <1>3, <1>5 DEF Decide
  <2> QED  BY <1>1, <1>5, <2>1 DEF p
<1>6. CASE /\ ~(k \notin tracked /\ Cardinality(tracked) >= MaxTrackedKeys)
           /\ ~(k \in tracked /\ Len(p[k]) >= AttemptLimit)
  <2>1. Admit(c, k, instant, p)
    BY <1>3, <1>6 DEF Decide
  <2>2. Len(p[k]) < AttemptLimit
    <3>1. Len(p[k]) \in Nat /\ AttemptLimit \in Nat /\ AttemptLimit > 0
      BY <1>1, <1>2, LimiterAssumption
    <3>2. CASE k \notin tracked
      BY <1>1, <3>1, <3>2
    <3>3. CASE k \in tracked
      BY <1>6, <3>1, <3>3
    <3> QED  BY <3>2, <3>3
  <2> QED  BY <1>1, <2>1, <2>2 DEF p
<1> QED  BY <1>4, <1>5, <1>6

\* What is told to a refused call is a time of at most a window.
LEMMA RetryAfterType ==
  ASSUME LimiterTypeOK, NEW k \in Keys, NEW instant \in Instants, AfterPruning(instant)[k] # <<>>
  PROVE  Window - Age(instant, Head(AfterPruning(instant)[k])) \in 0..Window
<1> DEFINE d == Pruned(attempts[k], instant)
<1>1. instant \in Nat /\ Window \in Nat
  BY InstantsFinite, LimiterAssumption
<1>2. AfterPruning(instant)[k] = d /\ d \in Seq(Instants) /\ attempts[k] \in Seq(Instants)
  BY AfterPruningType DEF AfterPruning, LimiterTypeOK
<1>3. ~Expired(instant, Head(d))
  BY <1>1, <1>2, PruningDrops
<1> HIDE DEF d
<1>4. Head(d) \in Nat
  BY <1>2, InstantsFinite, HeadTailProperties
<1> QED  BY <1>1, <1>2, <1>3, <1>4 DEF Expired, Age

-----------------------------------------------------------------------------
(***************************************************************************)
(* Pruning keeps a deque in order and what is recent in it.                *)
(***************************************************************************)
LEMMA PrunedOrdered ==
  ASSUME NEW deque \in Seq(Instants), NEW instant \in Instants, Ordered(deque)
  PROVE  Ordered(Pruned(deque, instant))
<1> DEFINE p == Pruned(deque, instant)
<1>1. Len(deque) \in Nat /\ instant \in Int /\ AttemptLimit \in Nat
  <2>1. instant \in Nat /\ AttemptLimit \in Nat
    BY InstantsFinite, LimiterAssumption
  <2> QED  BY <2>1
<1>2. PICK i \in 1..(Len(deque) + 1) :
        /\ Len(p) = Len(deque) - i + 1
        /\ \A j \in 1..(Len(deque) - i + 1) : p[j] = deque[j + i - 1]
  BY <1>1, PrunedFacts
<1> HIDE DEF p
<1>3. Len(p) <= AttemptLimit
  BY <1>1, <1>2 DEF Ordered
<1>4. ASSUME NEW m \in 1..Len(p)
      PROVE  p[m] <= clock /\ \A j \in 1..(m - 1) : p[j] <= p[m] + MaxWait
  <2>1. m + i - 1 \in 1..Len(deque) /\ p[m] = deque[m + i - 1]
    BY <1>1, <1>2
  <2>2. ASSUME NEW j \in 1..(m - 1)
        PROVE  p[j] <= p[m] + MaxWait
    <3>1. j + i - 1 \in 1..(m + i - 1 - 1) /\ p[j] = deque[j + i - 1]
      BY <1>1, <1>2
    <3> QED  BY <2>1, <3>1 DEF Ordered
  <2> QED  BY <2>1, <2>2 DEF Ordered
<1> QED  BY <1>3, <1>4 DEF Ordered, p

LEMMA PrunedCounted ==
  ASSUME NEW deque \in Seq(Instants), NEW f \in [Instants -> Nat], NEW instant \in Instants,
         instant <= clock, clock \in Instants, Counted(deque, f)
  PROVE  Counted(Pruned(deque, instant), f)
<1> SUFFICES ASSUME NEW T \in SUBSET Instants
             PROVE  LET p == Pruned(deque, instant) IN
                    /\ Cardinality(Positions(p, T)) <= SumFunctionOnSet(f, T)
                    /\ (\A t \in T : Recent(t)) =>
                         SumFunctionOnSet(f, T) <= Cardinality(Positions(p, T))
  BY DEF Counted
<1> DEFINE p == Pruned(deque, instant)
<1>1. instant \in Int /\ p \in Seq(Instants) /\ clock \in Int /\ Instants \subseteq Int
  <2>1. instant \in Int /\ clock \in Int /\ Instants \subseteq Int
    BY InstantsFinite
  <2>2. p \in Seq(Instants)
    BY <2>1, PrunedFacts
  <2> QED  BY <2>1, <2>2
<1>2. /\ Cardinality(Positions(p, T)) <= Cardinality(Positions(deque, T))
      /\ (\A t \in T : ~Expired(instant, t)) =>
           Cardinality(Positions(p, T)) = Cardinality(Positions(deque, T))
  BY <1>1, PruningCounts
<1>3. /\ Cardinality(Positions(p, T)) \in Nat
      /\ Cardinality(Positions(deque, T)) \in Nat
      /\ SumFunctionOnSet(f, T) \in Nat
  <2>1. Cardinality(Positions(p, T)) \in Nat
    BY <1>1, PositionsFinite
  <2>2. Cardinality(Positions(deque, T)) \in Nat
    BY PositionsFinite
  <2>3. IsFiniteSet(T) /\ \A t \in T : f[t] \in Nat
    BY InstantsFinite, FS_Subset
  <2>4. SumFunctionOnSet(f, T) \in Nat
    BY <2>3, SumOfNaturals
  <2> QED  BY <2>1, <2>2, <2>4
<1>4. ASSUME NEW t \in T, Recent(t)
      PROVE  ~Expired(instant, t)
  <2>1. t \in Int
    BY <1>1
  <2> QED  BY <1>1, <1>4, <2>1, ExpiredMeans, LimiterAssumption DEF Recent
<1> HIDE DEF p
<1>5. /\ Cardinality(Positions(deque, T)) <= SumFunctionOnSet(f, T)
      /\ (\A t \in T : Recent(t)) => SumFunctionOnSet(f, T) <= Cardinality(Positions(deque, T))
  BY DEF Counted
<1>6. Cardinality(Positions(p, T)) <= SumFunctionOnSet(f, T)
  BY <1>2, <1>3, <1>5
<1>7. (\A t \in T : Recent(t)) => SumFunctionOnSet(f, T) <= Cardinality(Positions(p, T))
  BY <1>2, <1>4, <1>5
<1> QED  BY <1>6, <1>7 DEF p

\* One more at the back: the deque and the count grow by the same instant.
LEMMA AppendedOrdered ==
  ASSUME NEW deque \in Seq(Instants), NEW instant \in Instants, Ordered(deque),
         Len(deque) < AttemptLimit, clock \in Instants, instant <= clock, clock <= instant + MaxWait
  PROVE  Ordered(Append(deque, instant))
<1>1. /\ Len(deque) \in Nat /\ instant \in Nat /\ clock \in Nat
      /\ AttemptLimit \in Nat /\ MaxWait \in Nat
      /\ \A i \in 1..Len(deque) : deque[i] \in Nat
  <2>1. \A i \in 1..Len(deque) : deque[i] \in Instants
    OBVIOUS
  <2>2. Len(deque) \in Nat
    OBVIOUS
  <2> QED  BY <2>1, <2>2, InstantsFinite, LimiterAssumption
<1>2. /\ Len(Append(deque, instant)) = Len(deque) + 1
      /\ \A i \in 1..Len(deque) : Append(deque, instant)[i] = deque[i]
      /\ Append(deque, instant)[Len(deque) + 1] = instant
  BY AppendProperties
<1>3. ASSUME NEW i \in 1..(Len(deque) + 1)
      PROVE  /\ Append(deque, instant)[i] <= clock
             /\ \A j \in 1..(i - 1) :
                  Append(deque, instant)[j] <= Append(deque, instant)[i] + MaxWait
  <2>1. CASE i \in 1..Len(deque)
    BY <1>1, <1>2, <2>1 DEF Ordered
  <2>2. CASE i = Len(deque) + 1
    <3>1. ASSUME NEW j \in 1..Len(deque)
          PROVE  Append(deque, instant)[j] <= instant + MaxWait
      <4>1. deque[j] <= clock /\ deque[j] \in Nat
        BY <1>1 DEF Ordered
      <4> QED  BY <1>1, <1>2, <4>1
    <3> QED  BY <1>1, <1>2, <2>2, <3>1
  <2> QED  BY <1>1, <2>1, <2>2
<1> QED  BY <1>1, <1>2, <1>3 DEF Ordered

LEMMA AppendedCounted ==
  ASSUME NEW deque \in Seq(Instants), NEW f \in [Instants -> Nat], NEW instant \in Instants,
         Counted(deque, f)
  PROVE  Counted(Append(deque, instant), [f EXCEPT ![instant] = @ + 1])
<1> DEFINE g == [f EXCEPT ![instant] = @ + 1]
           d == Append(deque, instant)
<1>1. g \in [Instants -> Nat] /\ g[instant] = f[instant] + 1 /\ \A t \in Instants \ {instant} : g[t] = f[t]
  OBVIOUS
<1> HIDE DEF g
<1> SUFFICES ASSUME NEW T \in SUBSET Instants
             PROVE  /\ Cardinality(Positions(d, T)) <= SumFunctionOnSet(g, T)
                    /\ (\A t \in T : Recent(t)) =>
                         SumFunctionOnSet(g, T) <= Cardinality(Positions(d, T))
  BY DEF Counted, g
<1>2. IsFiniteSet(T)
  BY InstantsFinite, FS_Subset
<1>3. SumFunctionOnSet(g, T) = SumFunctionOnSet(f, T) + (IF instant \in T THEN 1 ELSE 0)
  <2>1. /\ \A t \in T : f[t] \in Int /\ g[t] \in Int
        /\ \A t \in T \ {instant} : f[t] = g[t]
        /\ f[instant] \in Int
    BY <1>1
  <2>2. SumFunctionOnSet(f, T) \in Int
    BY <1>2, <2>1, SumType
  <2>3. CASE instant \in T
    <3>1. SumFunctionOnSet(g, T) = SumFunctionOnSet(f, T) + g[instant] - f[instant]
      BY <1>2, <2>1, <2>3, SumOfChange
    <3> QED  BY <1>1, <2>1, <2>2, <2>3, <3>1
  <2>4. CASE instant \notin T
    <3>1. \A t \in T : f[t] = g[t]
      BY <2>1, <2>4
    <3>2. SumFunctionOnSet(f, T) = SumFunctionOnSet(g, T)
      BY <1>2, <3>1, SumOfEqual
    <3> QED  BY <2>2, <2>4, <3>2
  <2> QED  BY <2>3, <2>4
<1>4. Cardinality(Positions(d, T)) =
        Cardinality(Positions(deque, T)) + (IF instant \in T THEN 1 ELSE 0)
  BY AppendingCounts
<1>5. Cardinality(Positions(deque, T)) \in Nat /\ SumFunctionOnSet(f, T) \in Nat
  <2>1. Cardinality(Positions(deque, T)) \in Nat
    BY PositionsFinite
  <2>2. SumFunctionOnSet(f, T) \in Nat
    BY <1>2, InstantsFinite, SumOfNaturals
  <2> QED  BY <2>1, <2>2
<1>6. /\ Cardinality(Positions(deque, T)) <= SumFunctionOnSet(f, T)
      /\ (\A t \in T : Recent(t)) => SumFunctionOnSet(f, T) <= Cardinality(Positions(deque, T))
  BY DEF Counted
<1> HIDE DEF d
<1> QED  BY <1>3, <1>4, <1>5, <1>6

-----------------------------------------------------------------------------
(***************************************************************************)
(* The invariant is preserved.                                             *)
(***************************************************************************)
\* The state after a check that let a call through.
LetThrough(c, k, instant, p) ==
  /\ attempts' \in [Keys -> Seq(Instants)]
  /\ admitted' \in [Keys -> [Instants -> Nat]]
  /\ attempts'[k] = Append(p[k], instant)
  /\ admitted'[k] = [admitted[k] EXCEPT ![instant] = @ + 1]
  /\ \A x \in Keys \ {k} : attempts'[x] = p[x] /\ admitted'[x] = admitted[x]
  /\ call' = [call EXCEPT ![c] = NoCall]

LEMMA AdmitMeans ==
  ASSUME LimiterTypeOK, NEW c \in Callers, NEW k \in Keys, NEW instant \in Instants,
         NEW p \in [Keys -> Seq(Instants)], Admit(c, k, instant, p)
  PROVE  LetThrough(c, k, instant, p)
<1>1. Append(p[k], instant) \in Seq(Instants)
  BY AppendProperties
<1>2. attempts' = [p EXCEPT ![k] = Append(p[k], instant)]
  BY DEF Admit
<1>3. admitted' = [admitted EXCEPT ![k][instant] = @ + 1] /\ call' = [call EXCEPT ![c] = NoCall]
  BY DEF Admit
<1>4. [admitted[k] EXCEPT ![instant] = @ + 1] \in [Instants -> Nat]
  BY DEF LimiterTypeOK
<1>5. /\ admitted' = [admitted EXCEPT ![k] = [admitted[k] EXCEPT ![instant] = @ + 1]]
      /\ admitted \in [Keys -> [Instants -> Nat]]
  BY <1>3 DEF LimiterTypeOK
<1> QED  BY <1>1, <1>2, <1>3, <1>4, <1>5 DEF LetThrough

LEMMA LimiterTypeStep ==
  ASSUME LimiterTypeOK, [LimiterNext]_limiterVars
  PROVE  LimiterTypeOK'
<1>1. ASSUME NEW c \in Callers, NEW k \in Keys, TakeInstant(c, k)
      PROVE  LimiterTypeOK'
  <2>1. [key |-> k, now |-> clock] \in WaitingCall
    BY DEF WaitingCall, LimiterTypeOK
  <2> QED  BY <1>1, <2>1 DEF TakeInstant, LimiterTypeOK
<1>2. ASSUME NEW c \in Callers, Check(c)
      PROVE  LimiterTypeOK'
  <2>1. PICK k \in Keys, instant \in Instants :
          LET p == AfterPruning(instant)
              tracked == {x \in Keys : p[x] # <<>>}
          IN /\ clock' = clock
             /\ \/ Admit(c, k, instant, p)
                \/ Refuse(c, k, instant, Window, p)
                \/ /\ Refuse(c, k, instant, Window - Age(instant, Head(p[k])), p)
                   /\ k \in tracked
    BY <1>2, CheckOutcome
  <2> DEFINE p == AfterPruning(instant)
  <2>2. p \in [Keys -> Seq(Instants)]
    BY AfterPruningType
  <2>3. ASSUME NEW r \in 0..Window, Refuse(c, k, instant, r, p)
        PROVE  LimiterTypeOK'
    <3>1. [key |-> k, now |-> instant, retryAfter |-> r] \in Refusal
      BY DEF Refusal
    <3>2. attempts' = p /\ call' = [call EXCEPT ![c] = [key |-> k, now |-> instant, retryAfter |-> r]]
          /\ admitted' = admitted
      BY <2>3 DEF Refuse
    <3> QED  BY <2>1, <2>2, <3>1, <3>2 DEF LimiterTypeOK
  <2>4. CASE Admit(c, k, instant, p)
    <3>1. LetThrough(c, k, instant, p)
      BY <2>2, <2>4, AdmitMeans
    <3> QED  BY <2>1, <3>1 DEF LetThrough, LimiterTypeOK
  <2>5. CASE Refuse(c, k, instant, Window, p)
    <3>1. Window \in 0..Window
      BY LimiterAssumption
    <3> QED  BY <2>3, <2>5, <3>1
  <2>6. CASE Refuse(c, k, instant, Window - Age(instant, Head(p[k])), p) /\ p[k] # <<>>
    <3>1. Window - Age(instant, Head(p[k])) \in 0..Window
      BY <2>6, RetryAfterType
    <3> QED  BY <2>3, <2>6, <3>1
  <2> QED  BY <2>1, <2>4, <2>5, <2>6
<1>3. ASSUME NEW c \in Callers, AbandonCall(c)
      PROVE  LimiterTypeOK'
  BY <1>3 DEF AbandonCall, LimiterTypeOK
<1>4. CASE ClockTick
  BY <1>4, LimiterAssumption DEF ClockTick, LimiterTypeOK, Instants
<1>5. CASE UNCHANGED limiterVars
  BY <1>5 DEF limiterVars, LimiterTypeOK
<1> QED  BY <1>1, <1>2, <1>3, <1>4, <1>5 DEF LimiterNext

\* The kinds of a call differ in their fields.
LEMMA CallKinds ==
  /\ NoCall \notin WaitingCall /\ NoCall \notin Refusal
  /\ WaitingCall \cap Refusal = {}
<1>1. \A v \in WaitingCall : DOMAIN v = {"key", "now"}
  BY DEF WaitingCall
<1>2. \A v \in Refusal : DOMAIN v = {"key", "now", "retryAfter"}
  BY DEF Refusal
<1>3. {"key", "now"} # {"key", "now", "retryAfter"}
  OBVIOUS
<1>4. NoCall \notin WaitingCall /\ NoCall \notin Refusal
  BY LimiterAssumption DEF WaitingCall, Refusal, Instants
<1> QED  BY <1>1, <1>2, <1>3, <1>4

LEMMA CheckChangesCall ==
  ASSUME LimiterTypeOK, NEW c \in Callers, Check(c)
  PROVE  clock' = clock /\ \E v \in {NoCall} \cup Refusal : call' = [call EXCEPT ![c] = v]
<1>1. PICK k \in Keys, instant \in Instants :
        LET p == AfterPruning(instant)
        IN /\ clock' = clock
           /\ \/ Admit(c, k, instant, p)
              \/ Refuse(c, k, instant, Window, p)
              \/ Refuse(c, k, instant, Window - Age(instant, Head(p[k])), p) /\ p[k] # <<>>
  BY CheckOutcome
<1> DEFINE p == AfterPruning(instant)
<1>2. ASSUME NEW r \in 0..Window, Refuse(c, k, instant, r, p)
      PROVE  \E v \in Refusal : call' = [call EXCEPT ![c] = v]
  BY <1>2 DEF Refuse, Refusal
<1>3. CASE Admit(c, k, instant, p)
  BY <1>1, <1>3 DEF Admit
<1>4. CASE Refuse(c, k, instant, Window, p)
  <2>1. Window \in 0..Window
    BY LimiterAssumption
  <2> QED  BY <1>1, <1>2, <1>4, <2>1
<1>5. CASE Refuse(c, k, instant, Window - Age(instant, Head(p[k])), p) /\ p[k] # <<>>
  <2>1. Window - Age(instant, Head(p[k])) \in 0..Window
    BY <1>5, RetryAfterType
  <2> QED  BY <1>1, <1>2, <1>5, <2>1
<1> QED  BY <1>1, <1>3, <1>4, <1>5

LEMMA CallsCurrentStep ==
  ASSUME LimiterTypeOK, CallsCurrent, [LimiterNext]_limiterVars
  PROVE  CallsCurrent'
<1> SUFFICES ASSUME NEW d \in Callers, call'[d] \in WaitingCall
             PROVE  call'[d].now <= clock' /\ clock' <= call'[d].now + MaxWait
  BY DEF CallsCurrent, WaitingCall, Instants
<1>1. ASSUME call'[d] = call[d], clock' = clock
      PROVE  call'[d].now <= clock' /\ clock' <= call'[d].now + MaxWait
  BY <1>1 DEF CallsCurrent
<1>2. ASSUME NEW c \in Callers, NEW k \in Keys, TakeInstant(c, k)
      PROVE  call'[d].now <= clock' /\ clock' <= call'[d].now + MaxWait
  <2>1. CASE d = c
    <3>1. call'[d].now = clock /\ clock' = clock
      BY <1>2, <2>1 DEF TakeInstant, LimiterTypeOK
    <3>2. clock \in Nat /\ MaxWait \in Nat
      BY InstantsFinite, LimiterAssumption DEF LimiterTypeOK
    <3> QED  BY <3>1, <3>2
  <2>2. CASE d # c
    BY <1>1, <1>2, <2>2 DEF TakeInstant, LimiterTypeOK
  <2> QED  BY <2>1, <2>2
<1>3. ASSUME NEW c \in Callers, Check(c)
      PROVE  call'[d].now <= clock' /\ clock' <= call'[d].now + MaxWait
  <2>1. clock' = clock /\ \E v \in {NoCall} \cup Refusal : call' = [call EXCEPT ![c] = v]
    BY <1>3, CheckChangesCall
  <2>2. d # c
    BY <2>1, CallKinds DEF LimiterTypeOK
  <2> QED  BY <1>1, <2>1, <2>2 DEF LimiterTypeOK
<1>4. ASSUME NEW c \in Callers, AbandonCall(c)
      PROVE  call'[d].now <= clock' /\ clock' <= call'[d].now + MaxWait
  <2>1. d # c
    BY <1>4, CallKinds DEF AbandonCall, LimiterTypeOK
  <2> QED  BY <1>1, <1>4, <2>1 DEF AbandonCall, LimiterTypeOK
<1>5. CASE ClockTick
  <2>1. call'[d] = call[d] /\ clock' = clock + 1 /\ clock < call[d].now + MaxWait
    BY <1>5 DEF ClockTick
  <2>2. call[d].now <= clock /\ call[d].now \in Nat /\ clock \in Nat /\ MaxWait \in Nat
    BY <2>1, InstantsFinite, LimiterAssumption DEF CallsCurrent, WaitingCall, LimiterTypeOK
  <2> QED  BY <2>1, <2>2
<1>6. CASE UNCHANGED limiterVars
  BY <1>1, <1>6 DEF limiterVars
<1> QED  BY <1>2, <1>3, <1>4, <1>5, <1>6 DEF LimiterNext

\* What a check leaves in the deques.
LEMMA CheckStep ==
  ASSUME LimiterTypeOK, CallsCurrent, DequesOrdered, AllCounted, WindowLimit,
         NEW c \in Callers, Check(c)
  PROVE  DequesOrdered' /\ AllCounted' /\ WindowLimit'
<1> USE DEF DequesOrdered, AllCounted
<1>1. PICK k \in Keys, instant \in Instants :
        LET p == AfterPruning(instant)
        IN /\ call[c] \in WaitingCall /\ call[c] = [key |-> k, now |-> instant]
           /\ clock' = clock
           /\ \/ Admit(c, k, instant, p) /\ Len(p[k]) < AttemptLimit
              \/ \E r : Refuse(c, k, instant, r, p)
  BY CheckOutcome
<1> DEFINE p == AfterPruning(instant)
<1>2. p \in [Keys -> Seq(Instants)] /\ \A x \in Keys : p[x] = Pruned(attempts[x], instant)
  BY AfterPruningType DEF AfterPruning
<1>3. /\ instant <= clock /\ clock <= instant + MaxWait /\ clock' = clock
      /\ clock \in Instants /\ clock \in Nat /\ instant \in Nat
      /\ MaxWait \in Nat /\ Window \in Nat /\ AttemptLimit \in Nat
  BY <1>1, InstantsFinite, LimiterAssumption DEF CallsCurrent, LimiterTypeOK
<1>4. /\ admitted \in [Keys -> [Instants -> Nat]]
      /\ attempts \in [Keys -> Seq(Instants)]
  BY DEF LimiterTypeOK
<1>5. ASSUME NEW x \in Keys
      PROVE  Ordered(p[x]) /\ Counted(p[x], admitted[x])
  <2>1. Ordered(attempts[x]) /\ Counted(attempts[x], admitted[x])
    OBVIOUS
  <2>2. attempts[x] \in Seq(Instants) /\ admitted[x] \in [Instants -> Nat]
    BY <1>4
  <2>3. Ordered(Pruned(attempts[x], instant))
    BY <2>1, <2>2, PrunedOrdered
  <2>4. Counted(Pruned(attempts[x], instant), admitted[x])
    BY <1>3, <2>1, <2>2, PrunedCounted
  <2> QED  BY <1>2, <2>3, <2>4
<1> HIDE DEF p
<1>6. CASE Admit(c, k, instant, p) /\ Len(p[k]) < AttemptLimit
  <2>1. /\ attempts'[k] = Append(p[k], instant)
        /\ admitted'[k] = [admitted[k] EXCEPT ![instant] = @ + 1]
        /\ \A x \in Keys \ {k} : attempts'[x] = p[x] /\ admitted'[x] = admitted[x]
        /\ admitted' \in [Keys -> [Instants -> Nat]]
        /\ attempts' \in [Keys -> Seq(Instants)]
    <3>1. p \in [Keys -> Seq(Instants)] /\ Admit(c, k, instant, p)
      BY <1>2, <1>6
    <3>2. LetThrough(c, k, instant, p)
      BY <3>1, AdmitMeans
    <3> QED  BY <3>2 DEF LetThrough
  <2>2. Ordered(attempts'[k])
    <3>1. Ordered(p[k]) /\ p[k] \in Seq(Instants)
      BY <1>2, <1>5
    <3>2. Ordered(Append(p[k], instant))
      BY <1>3, <1>6, <3>1, AppendedOrdered
    <3> QED  BY <2>1, <3>2
  <2>3. Counted(attempts'[k], admitted'[k])
    <3>1. Counted(p[k], admitted[k]) /\ p[k] \in Seq(Instants) /\ admitted[k] \in [Instants -> Nat]
      BY <1>2, <1>4, <1>5
    <3>2. Counted(Append(p[k], instant), [admitted[k] EXCEPT ![instant] = @ + 1])
      BY <3>1, AppendedCounted
    <3> QED  BY <2>1, <3>2
  <2>4. DequesOrdered' /\ AllCounted'
    <3>1. ASSUME NEW x \in Keys
          PROVE  Ordered(attempts'[x]) /\ Counted(attempts'[x], admitted'[x])
      BY <1>5, <2>1, <2>2, <2>3
    <3> QED  BY <1>3, <3>1 DEF Ordered, Counted, Recent
  <2>5. ASSUME NEW x \in Keys, NEW t \in Instants
        PROVE  SumFunctionOnSet(admitted'[x], Instants \cap t..(t + (Window - MaxWait) - 1))
                 <= AttemptLimit
    <3> DEFINE T == Instants \cap t..(t + (Window - MaxWait) - 1)
    <3>1. SumFunctionOnSet(admitted[x], T) <= AttemptLimit
      BY DEF WindowLimit, AdmittedBetween
    <3>2. T \in SUBSET Instants /\ IsFiniteSet(T) /\ t \in Nat
      BY InstantsFinite, FS_Subset
    <3>3. CASE x # k
      BY <2>1, <3>1, <3>3
    <3>4. CASE x = k /\ instant \notin T
      <4>1. \A s \in T : admitted[k][s] = admitted'[k][s]
        <5> HIDE DEF T
        <5> QED  BY <1>4, <2>1, <3>2, <3>4
      <4> HIDE DEF T
      <4>2. SumFunctionOnSet(admitted[k], T) = SumFunctionOnSet(admitted'[k], T)
        BY <3>2, <4>1, SumOfEqual
      <4> QED  BY <3>1, <3>4, <4>2 DEF T
    <3>5. CASE x = k /\ instant \in T
      <4>1. ASSUME NEW s \in T
            PROVE  Recent(s)
        BY <1>3, <3>2, <3>5 DEF Recent
      <4> HIDE DEF T
      <4>2. SumFunctionOnSet(admitted'[k], T) <= Cardinality(Positions(attempts'[k], T))
        BY <2>3, <3>2, <4>1 DEF Counted
      <4>3. Cardinality(Positions(attempts'[k], T)) <= Len(attempts'[k])
        BY <2>1, PositionsFinite
      <4>4. Len(attempts'[k]) <= AttemptLimit /\ Len(attempts'[k]) \in Nat
        <5>1. attempts'[k] \in Seq(Instants)
          BY <2>1
        <5> QED  BY <2>2, <5>1 DEF Ordered
      <4>5. SumFunctionOnSet(admitted'[k], T) \in Nat
        <5>1. \A s \in T : admitted'[k][s] \in Nat
          BY <2>1, <3>2
        <5> QED  BY <3>2, <5>1, SumOfNaturals
      <4>6. Cardinality(Positions(attempts'[k], T)) \in Nat
        BY <2>1, PositionsFinite
      <4> QED  BY <1>3, <3>5, <4>2, <4>3, <4>4, <4>5, <4>6 DEF T
    <3> QED  BY <3>3, <3>4, <3>5
  <2> QED  BY <2>4, <2>5 DEF WindowLimit, AdmittedBetween
<1>7. ASSUME NEW r, Refuse(c, k, instant, r, p)
      PROVE  DequesOrdered' /\ AllCounted' /\ WindowLimit'
  <2>1. attempts' = p /\ admitted' = admitted
    BY <1>7 DEF Refuse
  <2>2. DequesOrdered' /\ AllCounted'
    BY <1>3, <1>5, <2>1 DEF Ordered, Counted, Recent
  <2> QED  BY <2>1, <2>2 DEF WindowLimit, AdmittedBetween
<1> QED  BY <1>1, <1>6, <1>7 DEF p

\* What the other steps leave in them.
LEMMA QuietStep ==
  ASSUME LimiterTypeOK, DequesOrdered, AllCounted, WindowLimit,
         UNCHANGED <<attempts, admitted>>, clock' \in Nat, clock <= clock'
  PROVE  DequesOrdered' /\ AllCounted' /\ WindowLimit'
<1>1. clock \in Nat /\ Window \in Nat
  BY InstantsFinite, LimiterAssumption DEF LimiterTypeOK
<1>2. ASSUME NEW k \in Keys
      PROVE  Ordered(attempts[k])'
  <2>1. Ordered(attempts[k]) /\ attempts[k] \in Seq(Instants)
    BY DEF DequesOrdered, LimiterTypeOK
  <2>2. ASSUME NEW i \in 1..Len(attempts[k])
        PROVE  attempts[k][i] \in Nat
    <3>1. attempts[k][i] \in Instants
      BY <2>1
    <3> QED  BY <3>1, InstantsFinite
  <2> QED  BY <1>1, <2>1, <2>2 DEF Ordered
<1>3. ASSUME NEW k \in Keys
      PROVE  Counted(attempts[k], admitted[k])'
  <2>1. ASSUME NEW t \in Instants, Recent(t)'
        PROVE  Recent(t)
    BY <1>1, <2>1, InstantsFinite DEF Recent
  <2> QED  BY <2>1 DEF AllCounted, Counted
<1> QED  BY <1>2, <1>3 DEF DequesOrdered, AllCounted, WindowLimit, AdmittedBetween

\* The inductive invariant holds throughout.
THEOREM LimiterInvCorrect == LimiterSpec => []LimiterInv
<1>1. LimiterInit => LimiterInv
  <2> SUFFICES ASSUME LimiterInit PROVE LimiterInv  OBVIOUS
  <2>1. LimiterTypeOK
    BY LimiterAssumption DEF LimiterInit, LimiterTypeOK, Instants
  <2>2. CallsCurrent
    BY CallKinds DEF LimiterInit, CallsCurrent
  <2>3. DequesOrdered
    BY LimiterAssumption DEF LimiterInit, DequesOrdered, Ordered
  <2>4. ASSUME NEW k \in Keys, NEW T \in SUBSET Instants
        PROVE  SumFunctionOnSet(admitted[k], T) = 0 /\ Cardinality(Positions(attempts[k], T)) = 0
    <3>1. Positions(attempts[k], T) = {}
      BY DEF LimiterInit, Positions
    <3>2. IsFiniteSet(T) /\ \A t \in T : admitted[k][t] = 0
      BY InstantsFinite, FS_Subset DEF LimiterInit
    <3> QED  BY <3>1, <3>2, SumOfZeros, FS_EmptySet
  <2>5. AllCounted
    BY <2>4 DEF AllCounted, Counted
  <2>6. WindowLimit
    BY <2>4, LimiterAssumption DEF WindowLimit, AdmittedBetween
  <2> QED  BY <2>1, <2>2, <2>3, <2>5, <2>6 DEF LimiterInv
<1>2. LimiterInv /\ [LimiterNext]_limiterVars => LimiterInv'
  <2> SUFFICES ASSUME LimiterInv, [LimiterNext]_limiterVars PROVE LimiterInv'  OBVIOUS
  <2> USE DEF LimiterInv
  <2>1. LimiterTypeOK' /\ CallsCurrent'
    BY LimiterTypeStep, CallsCurrentStep
  <2>2. clock \in Nat /\ clock' \in Nat
    BY <2>1, InstantsFinite DEF LimiterTypeOK
  <2>3. ASSUME UNCHANGED <<attempts, admitted>>, clock <= clock'
        PROVE  DequesOrdered' /\ AllCounted' /\ WindowLimit'
    BY <2>2, <2>3, QuietStep
  <2>4. ASSUME NEW c \in Callers, Check(c)
        PROVE  DequesOrdered' /\ AllCounted' /\ WindowLimit'
    BY <2>4, CheckStep
  <2>5. CASE ~\E c \in Callers : Check(c)
    <3>1. UNCHANGED <<attempts, admitted>> /\ (clock' = clock \/ clock' = clock + 1)
      <4>1. CASE LimiterNext
        BY <2>5, <4>1 DEF LimiterNext, TakeInstant, AbandonCall, ClockTick
      <4>2. CASE UNCHANGED limiterVars
        BY <4>2 DEF limiterVars
      <4> QED  BY <4>1, <4>2
    <3>2. clock <= clock'
      BY <2>2, <3>1
    <3> QED  BY <2>1, <2>3, <3>1, <3>2
  <2> QED  BY <2>1, <2>4, <2>5
<1> QED  BY <1>1, <1>2, PTL DEF LimiterSpec

\* No key gets more than AttemptLimit calls through in a window shorter by the longest
\* wait for the mutex.
THEOREM WindowIsLimited == LimiterSpec => []WindowLimit
<1>1. LimiterInv => WindowLimit
  BY DEF LimiterInv
<1> QED  BY <1>1, LimiterInvCorrect, PTL

\* Only a check writes a refusal.
LEMMA RefusalByCheck ==
  ASSUME LimiterInv, NEW c \in Callers, [LimiterNext]_limiterVars,
         call'[c] # call[c], call'[c] \in Refusal
  PROVE  Check(c)
<1>1. call \in [Callers -> {NoCall} \cup WaitingCall \cup Refusal] /\ clock \in Instants
  BY DEF LimiterInv, LimiterTypeOK
<1>2. ASSUME NEW d \in Callers, NEW k \in Keys, TakeInstant(d, k)
      PROVE  FALSE
  <2>1. [key |-> k, now |-> clock] \in WaitingCall
    BY <1>1 DEF WaitingCall
  <2> QED  BY <1>1, <1>2, <2>1, CallKinds DEF TakeInstant
<1>3. ASSUME NEW d \in Callers, AbandonCall(d)
      PROVE  FALSE
  BY <1>1, <1>3, CallKinds DEF AbandonCall
<1>4. ASSUME NEW d \in Callers, Check(d)
      PROVE  d = c
  BY <1>1, <1>4, CheckChangesCall DEF LimiterInv
<1>5. ~ClockTick /\ ~UNCHANGED limiterVars
  BY DEF ClockTick, limiterVars
<1> QED  BY <1>2, <1>3, <1>4, <1>5 DEF LimiterNext

LEMMA HonestStep ==
  ASSUME LimiterInv, NEW c \in Callers, [LimiterNext]_limiterVars
  PROVE  RefusalIsHonest(c)
<1> SUFFICES ASSUME call'[c] # call[c], call'[c] \in Refusal
             PROVE  RefusalIsHonest(c)
  BY DEF RefusalIsHonest
<1>1. Check(c) /\ LimiterTypeOK /\ CallsCurrent
  BY RefusalByCheck DEF LimiterInv
<1>2. PICK k \in Keys, instant \in Instants :
        LET p == AfterPruning(instant)
            tracked == {x \in Keys : p[x] # <<>>}
        IN /\ call[c] \in WaitingCall /\ call[c] = [key |-> k, now |-> instant]
           /\ clock' = clock
           /\ \/ Admit(c, k, instant, p) /\ Len(p[k]) < AttemptLimit
              \/ /\ Refuse(c, k, instant, Window, p)
                 /\ k \notin tracked /\ Cardinality(tracked) >= MaxTrackedKeys
              \/ /\ Refuse(c, k, instant, Window - Age(instant, Head(p[k])), p)
                 /\ k \in tracked /\ Len(p[k]) >= AttemptLimit
  BY <1>1, CheckOutcome
<1> DEFINE p == AfterPruning(instant)
           tracked == {x \in Keys : p[x] # <<>>}
<1>3. p \in [Keys -> Seq(Instants)] /\ \A x \in Keys : p[x] = Pruned(attempts[x], instant)
  BY <1>1, AfterPruningType DEF AfterPruning
<1>4. /\ instant <= clock /\ clock <= instant + MaxWait
      /\ clock \in Nat /\ instant \in Nat
      /\ MaxWait \in Nat /\ Window \in Nat /\ AttemptLimit \in Nat
  BY <1>1, <1>2, InstantsFinite, LimiterAssumption DEF CallsCurrent, LimiterTypeOK
<1>5. ASSUME NEW x \in Keys
      PROVE  /\ p[x] \in Seq(Instants)
             /\ Ordered(p[x]) /\ Counted(p[x], admitted[x])
             /\ \A i \in 1..Len(p[x]) : p[x][i] \in Nat
  <2>1. Ordered(attempts[x]) /\ Counted(attempts[x], admitted[x])
    BY DEF LimiterInv, DequesOrdered, AllCounted
  <2>2. attempts[x] \in Seq(Instants) /\ admitted[x] \in [Instants -> Nat] /\ clock \in Instants
    BY <1>1 DEF LimiterTypeOK
  <2>3. Ordered(Pruned(attempts[x], instant))
    BY <2>1, <2>2, PrunedOrdered
  <2>4. Counted(Pruned(attempts[x], instant), admitted[x])
    BY <1>4, <2>1, <2>2, PrunedCounted
  <2>5. p[x] \in Seq(Instants)
    BY <1>3
  <2> HIDE DEF p
  <2>6. \A i \in 1..Len(p[x]) : p[x][i] \in Instants
    BY <2>5
  <2> QED  BY <1>3, <2>3, <2>4, <2>5, <2>6, InstantsFinite
<1> HIDE DEF p
<1>6. CASE /\ Refuse(c, k, instant, Window, p)
           /\ k \notin tracked /\ Cardinality(tracked) >= MaxTrackedKeys
  <2> DEFINE later == instant + Window + MaxWait
  <2>1. /\ attempts' = p
        /\ call'[c] = [key |-> k, now |-> instant, retryAfter |-> Window]
    BY <1>1, <1>6 DEF Refuse, LimiterTypeOK
  <2>2. ASSUME NEW x \in Keys
        PROVE  Pruned(p[x], later) = <<>>
    <3>1. ASSUME NEW i \in 1..Len(p[x])
          PROVE  Expired(later, p[x][i])
      <4>1. p[x][i] <= clock /\ p[x][i] \in Nat
        BY <1>5 DEF Ordered
      <4> QED  BY <1>4, <4>1, ExpiredMeans
    <3>2. p[x] \in Seq(Instants) /\ later \in Int
      BY <1>4, <1>5
    <3> HIDE DEF later
    <3> QED  BY <3>1, <3>2, PruningDrops
  <2> QED  BY <1>6, <2>1, <2>2 DEF RefusalIsHonest
<1>7. CASE /\ Refuse(c, k, instant, Window - Age(instant, Head(p[k])), p)
           /\ k \in tracked /\ Len(p[k]) >= AttemptLimit
  <2> DEFINE told == Window - Age(instant, Head(p[k]))
             later == instant + told + MaxWait
             earliest == IF instant + 1 > Window + MaxWait THEN instant + 1 - Window - MaxWait ELSE 0
             T == Instants \cap earliest..(instant + MaxWait)
  <2>1. /\ attempts' = p /\ admitted' = admitted
        /\ call'[c] = [key |-> k, now |-> instant, retryAfter |-> told]
    BY <1>1, <1>7 DEF Refuse, LimiterTypeOK
  <2>2. /\ p[k] \in Seq(Instants) /\ p[k] # <<>> /\ Len(p[k]) \in Nat /\ Len(p[k]) >= 1
        /\ Head(p[k]) = p[k][1] /\ p[k][1] \in Nat
    <3>1. p[k] \in Seq(Instants) /\ p[k] # <<>>
      BY <1>5, <1>7
    <3>2. Len(p[k]) \in Nat /\ Len(p[k]) >= 1 /\ Head(p[k]) = p[k][1]
      BY <3>1, EmptySeq, HeadTailProperties
    <3> QED  BY <1>5, <3>1, <3>2
  <2>3. p[k][1] + Window > instant
    <3>1. attempts[k] \in Seq(Instants) /\ instant \in Int /\ p[k] = Pruned(attempts[k], instant)
      BY <1>1, <1>3, <1>4 DEF LimiterTypeOK
    <3>2. ~Expired(instant, Head(p[k]))
      BY <2>2, <3>1, PruningDrops
    <3> QED  BY <1>4, <2>2, <3>2, ExpiredMeans
  <2>4. Len(p[k]) <= SumFunctionOnSet(admitted[k], T)
    <3>1. ASSUME NEW i \in 1..Len(p[k])
          PROVE  p[k][i] \in T
      <4>1. p[k][i] \in Nat /\ p[k][i] \in Instants /\ p[k][i] <= clock
        BY <1>5, <2>2 DEF Ordered
      <4>2. p[k][1] <= p[k][i] + MaxWait
        <5>1. CASE i = 1
          BY <1>4, <4>1, <5>1
        <5>2. CASE i # 1
          BY <1>5, <2>2, <5>2 DEF Ordered
        <5> QED  BY <5>1, <5>2
      <4> QED  BY <1>4, <2>2, <2>3, <4>1, <4>2
    <3>2. T \in SUBSET Instants
      OBVIOUS
    <3> HIDE DEF T
    <3>3. Positions(p[k], T) = 1..Len(p[k])
      BY <3>1 DEF Positions
    <3>4. Cardinality(1..Len(p[k])) = Len(p[k])
      BY <2>2, SegmentSize
    <3> QED  BY <1>5, <3>2, <3>3, <3>4 DEF Counted
  <2>5. AdmittedBetween(k, earliest, instant + MaxWait) >= AttemptLimit
    <3>1. SumFunctionOnSet(admitted[k], T) \in Nat
      <4>1. T \subseteq Instants /\ IsFiniteSet(T)
        BY InstantsFinite, FS_Subset
      <4> HIDE DEF T
      <4>2. \A t \in T : admitted[k][t] \in Nat
        BY <1>1, <4>1 DEF LimiterTypeOK
      <4> QED  BY <4>1, <4>2, SumOfNaturals
    <3>2. SumFunctionOnSet(admitted[k], T) >= AttemptLimit
      <4> HIDE DEF T
      <4> QED  BY <1>4, <1>7, <2>2, <2>4, <3>1
    <3> QED  BY <3>2 DEF AdmittedBetween
  <2>6. later \in Int /\ Expired(later, p[k][1])
    <3>1. p[k][1] <= clock
      BY <1>5, <2>2 DEF Ordered
    <3>2. told = IF p[k][1] > instant THEN Window ELSE Window - (instant - p[k][1])
      BY <1>4, <2>2 DEF Age
    <3> HIDE DEF told
    <3> QED  BY <1>4, <2>2, <3>1, <3>2, ExpiredMeans
  <2>7. Len(Pruned(p[k], later)) < Len(p[k]) /\ Len(Pruned(p[k], later)) \in Nat
    <3> HIDE DEF later
    <3>1. Len(Pruned(p[k], later)) < Len(p[k])
      BY <2>2, <2>6, PruningDrops
    <3>2. Pruned(p[k], later) \in Seq(Instants)
      BY <2>2, <2>6, PrunedFacts
    <3> QED  BY <3>1, <3>2
  <2>8. Len(p[k]) <= AttemptLimit
    BY <1>5 DEF Ordered
  <2>9. Len(Pruned(p[k], later)) < AttemptLimit
    <3> HIDE DEF later
    <3> QED  BY <1>4, <2>2, <2>7, <2>8
  <2> HIDE DEF told
  <2> QED  BY <1>7, <2>1, <2>5, <2>9 DEF RefusalIsHonest
<1>8. ~Admit(c, k, instant, p)
  BY <1>1, CallKinds DEF Admit, LimiterTypeOK
<1> QED  BY <1>2, <1>6, <1>7, <1>8 DEF p

\* A refusal is justified by a full table or a full window, and its Retry-After is honest.
THEOREM RefusalsAreHonest == LimiterSpec => RefusalsHonest
<1>1. LimiterInv /\ [LimiterNext]_limiterVars => \A c \in Callers : RefusalIsHonest(c)
  BY HonestStep
<1> QED  BY <1>1, LimiterInvCorrect, PTL DEF LimiterSpec, RefusalsHonest

\* Every variable keeps its type.
THEOREM LimiterTypeCorrect == LimiterSpec => []LimiterTypeOK
<1>1. LimiterInv => LimiterTypeOK
  BY DEF LimiterInv
<1> QED  BY <1>1, LimiterInvCorrect, PTL

-----------------------------------------------------------------------------
(***************************************************************************)
(* Side by side.                                                           *)
(***************************************************************************)

\* Each part behaves as it does alone.
THEOREM PartsAlone == ServicesSpec => LimiterSpec /\ AccountsSpec /\ UploadsSpec /\ Spec
<1>1. ServicesInit => LimiterInit /\ AccountsInit /\ UploadsInit /\ Init
  BY DEF ServicesInit
<1>2. ASSUME [ServicesNext]_<<limiterVars, accountsVars, uploadsVars, vars, part>>
      PROVE  /\ [LimiterNext]_limiterVars /\ [AccountsNext]_accountsVars
             /\ [UploadsNext]_uploadsVars /\ [Next]_vars
  BY <1>2 DEF ServicesNext
<1> QED  BY <1>1, <1>2, PTL DEF ServicesSpec, LimiterSpec, AccountsSpec, UploadsSpec, Spec

\* Every variable of every part keeps its type.
THEOREM ServicesTypeCorrect == ServicesSpec => []ServicesTypeOK
<1>1. AccountsInv => AccountsTypeOK
  BY DEF AccountsInv
<1>2. LimiterTypeOK /\ AccountsTypeOK /\ UploadsTypeOK /\ SchedulerTypeOK => ServicesTypeOK
  BY DEF ServicesTypeOK
<1> QED
  BY <1>1, <1>2, PartsAlone, LimiterTypeCorrect, AccountsInvCorrect, UploadsTypeCorrect,
     SchedulerTypeCorrect, PTL

=============================================================================
