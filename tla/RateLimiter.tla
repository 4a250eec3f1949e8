------------------------------ MODULE RateLimiter ------------------------------
(***************************************************************************)
(* rate_limit.rs: a sliding window per key behind one mutex.  The API has  *)
(* one for logins (a single key) and one for uploads (a key per user).     *)
(* A call reads the clock before it waits for the mutex, so calls enter    *)
(* the window in another order than that of their instants.                *)
(***************************************************************************)
EXTENDS Naturals, Sequences, FiniteSets, Functions

CONSTANTS
  Callers,         \* requests that may be checked at the same time
  Keys,
  AttemptLimit,    \* limit
  Window,          \* window
  MaxTrackedKeys,  \* MAX_TRACKED_KEYS
  MaxWait,         \* the longest any call waits for the mutex, in clock ticks
  LastInstant,     \* bound of the clock
  NoCall

ASSUME LimiterAssumption ==
  /\ <<AttemptLimit, Window, MaxTrackedKeys>> \in (Nat \ {0}) \X (Nat \ {0}) \X (Nat \ {0})
  /\ <<MaxWait, LastInstant>> \in Nat \X Nat
  /\ NoCall \notin [key : Keys, now : 0..LastInstant]
  /\ NoCall \notin [key : Keys, now : 0..LastInstant, retryAfter : 0..Window]

VARIABLES
  clock,     \* the monotonic clock behind Instant::now
  call,      \* calls of check between their reading of the clock and the mutex, or their refusal
  attempts,  \* the deque of every key; the map has no entry for an empty one
  admitted   \* instants of the calls ever let through, for the properties

limiterVars == <<clock, call, attempts, admitted>>

Instants == 0..LastInstant
WaitingCall == [key : Keys, now : Instants]
Refusal == [key : Keys, now : Instants, retryAfter : 0..Window]

LimiterTypeOK ==
  /\ clock \in Instants
  /\ call \in [Callers -> {NoCall} \cup WaitingCall \cup Refusal]
  /\ attempts \in [Keys -> Seq(Instants)]
  /\ admitted \in [Keys -> [Instants -> Nat]]

\* <Definition>_<Slip> is the definition with one slip in it, there to check that a
\* property notices.

-----------------------------------------------------------------------------
\* duration_since saturates: an instant later than now is not old at all.
Age(now, t) == IF t > now THEN 0 ELSE now - t

\* The instant of the window's far end is counted as outside already.
Expired_Early(now, t) == Age(now, t) + 1 >= Window

Expired(now, t) == Age(now, t) >= Window

\* The deque without its expired front; what is expired behind an instant that is
\* not stays.
Pruned(deque, now) ==
  LET firstKept == CHOOSE i \in 1..(Len(deque) + 1) :
        /\ \A m \in 1..(i - 1) : Expired(now, deque[m])
        /\ i <= Len(deque) => ~Expired(now, deque[i])
  IN SubSeq(deque, firstKept, Len(deque))

-----------------------------------------------------------------------------
\* let now = Instant::now(), before the mutex.
TakeInstant(c, k) ==
  /\ call[c] \notin WaitingCall
  /\ call' = [call EXCEPT ![c] = [key |-> k, now |-> clock]]
  /\ UNCHANGED <<clock, attempts, admitted>>

Admit(c, k, now, pruned) ==
  /\ attempts' = [pruned EXCEPT ![k] = Append(@, now)]
  /\ admitted' = [admitted EXCEPT ![k][now] = @ + 1]
  /\ call' = [call EXCEPT ![c] = NoCall]

\* The wait is rounded up although it is whole.
Refuse_RoundedUp(c, k, now, retryAfter, pruned) ==
  /\ attempts' = pruned
  /\ call' = [call EXCEPT ![c] = [key |-> k, now |-> now, retryAfter |-> retryAfter + 1]]
  /\ UNCHANGED admitted

Refuse(c, k, now, retryAfter, pruned) ==
  /\ attempts' = pruned
  /\ call' = [call EXCEPT ![c] = [key |-> k, now |-> now, retryAfter |-> retryAfter]]
  /\ UNCHANGED admitted

\* A refused key is told the age of its first attempt, not what is left of it.
Decide_AgeTold(c, k, now, pruned) ==
  LET tracked == {x \in Keys : pruned[x] # <<>>} IN
  CASE k \notin tracked /\ Cardinality(tracked) >= MaxTrackedKeys ->
         Refuse(c, k, now, Window, pruned)
    [] k \in tracked /\ Len(pruned[k]) >= AttemptLimit ->
         Refuse(c, k, now, Age(now, Head(pruned[k])), pruned)
    [] OTHER -> Admit(c, k, now, pruned)

\* A full table refuses keys it does not know; a known key is refused while its
\* deque is full, and told when the front of it expires.
Decide(c, k, now, pruned) ==
  LET tracked == {x \in Keys : pruned[x] # <<>>} IN
  CASE k \notin tracked /\ Cardinality(tracked) >= MaxTrackedKeys ->
         Refuse(c, k, now, Window, pruned)
    [] k \in tracked /\ Len(pruned[k]) >= AttemptLimit ->
         Refuse(c, k, now, Window - Age(now, Head(pruned[k])), pruned)
    [] OTHER -> Admit(c, k, now, pruned)

\* What check does under the mutex.
Check(c) ==
  /\ call[c] \in WaitingCall
  /\ LET now == call[c].now
     IN Decide(c, call[c].key, now, [x \in Keys |-> Pruned(attempts[x], now)])
  /\ UNCHANGED clock

\* The connection of the request is gone while it waits for the mutex.
AbandonCall(c) ==
  /\ call[c] \in WaitingCall
  /\ call' = [call EXCEPT ![c] = NoCall]
  /\ UNCHANGED <<clock, attempts, admitted>>

\* No call has waited for longer than MaxWait: the mutex is held for a few map
\* operations and never across an await.
ClockTick ==
  /\ clock < LastInstant
  /\ \A c \in Callers : call[c] \in WaitingCall => clock < call[c].now + MaxWait
  /\ clock' = clock + 1
  /\ UNCHANGED <<call, attempts, admitted>>

-----------------------------------------------------------------------------
LimiterInit ==
  /\ clock = 0
  /\ call = [c \in Callers |-> NoCall]
  /\ attempts = [k \in Keys |-> <<>>]
  /\ admitted = [k \in Keys |-> [t \in Instants |-> 0]]

LimiterNext ==
  \/ \E c \in Callers : (\E k \in Keys : TakeInstant(c, k)) \/ Check(c) \/ AbandonCall(c)
  \/ ClockTick

LimiterSpec == LimiterInit /\ [][LimiterNext]_limiterVars

-----------------------------------------------------------------------------
\* Calls of key k let through at an instant of from..to.
AdmittedBetween(k, from, to) ==
  SumFunctionOnSet(admitted[k], Instants \cap from..to)

\* However calls overtake one another on their way to the mutex, no key gets more
\* than AttemptLimit of them through in a window that is shorter by the longest
\* wait: a call with a later instant may already have dropped what an earlier one
\* should still have counted.
WindowLimit ==
  \A k \in Keys, t \in Instants :
    AdmittedBetween(k, t, t + (Window - MaxWait) - 1) <= AttemptLimit

\* A refusal of the call of c with its reason and its Retry-After.
RefusalIsHonest(c) ==
  call'[c] # call[c] /\ call'[c] \in Refusal =>
    LET k == call'[c].key
        now == call'[c].now
        later == now + call'[c].retryAfter + MaxWait
        earliest == IF now + 1 > Window + MaxWait THEN now + 1 - Window - MaxWait ELSE 0
        tracked == {x \in Keys : attempts'[x] # <<>>}
    IN /\ \/ k \notin tracked /\ Cardinality(tracked) >= MaxTrackedKeys
          \/ AdmittedBetween(k, earliest, now + MaxWait) >= AttemptLimit
       /\ \/ k \notin tracked /\ \A x \in tracked : Pruned(attempts'[x], later) = <<>>
          \/ k \in tracked /\ Len(Pruned(attempts'[k], later)) < AttemptLimit

\* A refusal is justified: the table is full, or AttemptLimit calls of the key came
\* within the window, give or take the longest wait.  And its Retry-After is honest:
\* as long after it (plus that wait) there is room, unless others were faster.
RefusalsHonest == [][\A c \in Callers : RefusalIsHonest(c)]_limiterVars

=============================================================================
