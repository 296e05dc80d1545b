-------------------------- MODULE RateLimiterProofs --------------------------
(***************************************************************************)
(* Proofs about RateLimiter for any number of requests, clients, plans,    *)
(* minutes and restarts: the mutex excludes (TypeOK), no minute lets       *)
(* through more requests than the limit (PassedWithinLimit), nobody is     *)
(* refused below it (RefusalJustified), and the statements of the critical *)
(* section are the one atomic step of RateCounter (CountsAtomically).      *)
(*                                                                         *)
(* The bound is about the size of a set.  What is inductive is that the    *)
(* requests counted in one bucket hold different numbers; those let        *)
(* through under the limit L hold numbers in 1 .. L, so there are at most  *)
(* L of them.                                                              *)
(***************************************************************************)
EXTENDS RateLimiter, FiniteSetTheorems, TLAPS

-----------------------------------------------------------------------------
(* Type correctness.                                                       *)

LEMMA TypeInit == Init => TypeOK
<1> SUFFICES ASSUME Init PROVE TypeOK
  OBVIOUS
<1> QED
  BY BoundAssumption, NoRequestAssumption
  DEF Init, TypeOK, Minutes, PCs, Waiting, Critical, Buckets

LEMMA TypeStep == TypeOK /\ [Next]_vars => TypeOK'
<1> SUFFICES ASSUME TypeOK, [Next]_vars PROVE TypeOK'
  OBVIOUS
<1> USE BoundAssumption, NoRequestAssumption
        DEF TypeOK, Goto, clock, request, PCs, Waiting, Critical, Verdicts
<1>0. \A r \in Requests : Bucket(r) \in Buckets
  BY DEF Bucket, Buckets, Profile
<1>1. ASSUME NEW r \in Requests, Arrive(r) PROVE TypeOK'
  BY <1>1 DEF Arrive
<1>2. ASSUME NEW r \in Requests, ReadClock(r) PROVE TypeOK'
  BY <1>2 DEF ReadClock
<1>3. ASSUME NEW r \in Requests, Lock(r) PROVE TypeOK'
  BY <1>3 DEF Lock
<1>4. ASSUME NEW r \in Requests, ReadWindow(r) PROVE TypeOK'
  BY <1>0, <1>4 DEF ReadWindow
<1>5. ASSUME NEW r \in Requests, WriteWindow(r) PROVE TypeOK'
  BY <1>0, <1>5 DEF WriteWindow
<1>6. ASSUME NEW r \in Requests, Unlock(r) PROVE TypeOK'
  BY <1>6 DEF Unlock
<1>7. ASSUME NEW r \in Requests, Decide(r) PROVE TypeOK'
  BY <1>7 DEF Decide
<1>8. CASE Tick
  BY <1>8 DEF Tick, Minutes
<1>9. CASE Restart
  BY <1>9 DEF Restart
<1>10. CASE UNCHANGED vars
  BY <1>10 DEF vars
<1> QED
  BY <1>1, <1>2, <1>3, <1>4, <1>5, <1>6, <1>7, <1>8, <1>9, <1>10 DEF Next, Progress

(***************************************************************************)
(* The variables of the rate limiter keep their types, and the request     *)
(* that holds the mutex is the only one between Lock and Unlock.           *)
(***************************************************************************)
THEOREM MutualExclusion == Spec => []TypeOK
<1>1. Init => TypeOK
  BY TypeInit
<1>2. TypeOK /\ [Next]_vars => TypeOK'
  BY TypeStep
<1> QED
  BY <1>1, <1>2, PTL DEF Spec

-----------------------------------------------------------------------------
(* The limit.                                                              *)

\* A request that is being processed has a policy, and was stamped by the
\* process that runs; nothing is stamped by a process yet to come.
Stamped ==
  \A r \in Requests :
    /\ stamp[r].boot <= boot
    /\ pc[r] \in Waiting => profile[r].plan \in DOMAIN PolicyOf
    /\ pc[r] \in Waiting \ {"clock"} => stamp[r].boot = boot

\* A request has no number before it has written the counter.
Uncounted ==
  \A r \in Requests :
    pc[r] \in {"idle", "clock", "lock", "read", "write", "403", "500"} => count[r] = 0

\* The copy of the request in the critical section is up to date.
CopyCurrent == \A r \in Requests : pc[r] = "write" => window[r] = windows[Bucket(r)]

\* The counter of this process is at least every number it has given out.
CounterAhead ==
  \A r \in Requests : stamp[r].boot = boot => count[r] <= windows[Bucket(r)]

\* No number is given out twice in a bucket.
NumbersDiffer ==
  \A r, s \in Requests :
    /\ r # s
    /\ count[r] > 0
    /\ count[s] > 0
    /\ Bucket(r) = Bucket(s)
    /\ stamp[r].boot = stamp[s].boot
    => count[r] # count[s]

PassedUnderLimit ==
  \A r \in Requests : pc[r] = "next" =>
    profile[r].plan \in DOMAIN PolicyOf /\ count[r] <= Limit(r)

Inv ==
  /\ TypeOK
  /\ Stamped
  /\ Uncounted
  /\ CopyCurrent
  /\ CounterAhead
  /\ NumbersDiffer
  /\ PassedUnderLimit

LEMMA InvInit == Init => Inv
<1> SUFFICES ASSUME Init PROVE Inv
  OBVIOUS
<1>1. TypeOK
  BY TypeInit
<1>2. \A r \in Requests : Bucket(r) \in Buckets
  BY <1>1 DEF TypeOK, Bucket, Buckets, Profile
<1> QED
  BY <1>1, <1>2 DEF Init, Inv, Stamped, Uncounted, CopyCurrent, CounterAhead, NumbersDiffer,
     PassedUnderLimit, Waiting, Critical

LEMMA InvWriteWindow ==
  ASSUME Inv, TypeOK', NEW r \in Requests, WriteWindow(r)
  PROVE  Inv'
<1> USE DEF Inv, WriteWindow, Goto, clock
<1>1. \A s \in Requests : Bucket(s)' = Bucket(s) /\ Limit(s)' = Limit(s) /\ Bucket(s) \in Buckets
  BY DEF TypeOK, Bucket, Buckets, Limit, Profile
<1>2. /\ stamp[r].boot = boot
      /\ windows' = [windows EXCEPT ![Bucket(r)] = @ + 1]
      /\ count'[r] = windows[Bucket(r)] + 1
      /\ \A s \in Requests \ {r} : count'[s] = count[s]
  BY DEF TypeOK, Stamped, CopyCurrent, Waiting, Critical
<1>3. Stamped'
  BY DEF Stamped, TypeOK, Waiting, Critical
<1>4. Uncounted'
  BY DEF Uncounted, TypeOK
<1>5. CopyCurrent'
  BY <1>1 DEF CopyCurrent, TypeOK, Critical
<1>6. CounterAhead'
  BY <1>1, <1>2 DEF CounterAhead, TypeOK
<1>7. NumbersDiffer'
  <2>1. \A s \in Requests : Bucket(s) = Bucket(r) /\ stamp[s].boot = boot =>
          count[s] < windows[Bucket(r)] + 1
    BY <1>1 DEF CounterAhead, TypeOK
  <2> QED
    BY <1>1, <1>2, <2>1 DEF NumbersDiffer, TypeOK
<1>8. PassedUnderLimit'
  BY <1>1, <1>2 DEF PassedUnderLimit, TypeOK
<1> QED
  BY <1>3, <1>4, <1>5, <1>6, <1>7, <1>8

LEMMA InvStep == Inv /\ [Next]_vars => Inv'
<1> SUFFICES ASSUME Inv, [Next]_vars PROVE Inv'
  OBVIOUS
<1> USE PolicyAssumption DEF Inv, Goto, clock, request, Waiting, Critical
<1>0. TypeOK'
  BY TypeStep
<1>1. ASSUME NEW r \in Requests,
             Arrive(r) \/ Lock(r) \/ Unlock(r) \/ ReadWindow(r) \/ Decide(r)
      PROVE  Inv'
  <2>1. /\ UNCHANGED <<now, boot, windows, profile, stamp, count>>
        /\ \A s \in Requests : s # r => pc'[s] = pc[s] /\ window'[s] = window[s]
    BY <1>1 DEF Arrive, Lock, Unlock, ReadWindow, Decide, TypeOK
  <2>2. \A s \in Requests : Bucket(s)' = Bucket(s) /\ Limit(s)' = Limit(s)
    BY <2>1 DEF Bucket, Limit
  <2>3. Stamped' /\ Uncounted'
    BY <1>1, <2>1 DEF Arrive, Lock, Unlock, ReadWindow, Decide, Stamped, Uncounted, TypeOK
  <2>4. CopyCurrent'
    BY <1>1, <2>1, <2>2 DEF Arrive, Lock, Unlock, ReadWindow, Decide, CopyCurrent, TypeOK
  <2>5. CounterAhead' /\ NumbersDiffer'
    BY <2>1, <2>2 DEF CounterAhead, NumbersDiffer
  <2>6. PassedUnderLimit'
    BY <1>1, <2>1, <2>2
    DEF Arrive, Lock, Unlock, ReadWindow, Decide, PassedUnderLimit, Stamped, Limit, TypeOK
  <2> QED
    BY <1>0, <2>3, <2>4, <2>5, <2>6
<1>2. ASSUME NEW r \in Requests, ReadClock(r) PROVE Inv'
  <2>1. /\ count[r] = 0
        /\ \A s \in Requests : s # r => stamp'[s] = stamp[s] /\ pc'[s] = pc[s]
        /\ stamp'[r].boot = boot
    BY <1>2 DEF ReadClock, Uncounted, TypeOK
  <2>2. \A s \in Requests : /\ s # r => Bucket(s)' = Bucket(s)
                            /\ Limit(s)' = Limit(s)
                            /\ Bucket(s)' \in Buckets
    BY <1>0, <1>2, <2>1 DEF ReadClock, Bucket, Limit, TypeOK, Buckets, Profile
  <2>3. Stamped' /\ Uncounted'
    BY <1>2, <2>1 DEF ReadClock, Stamped, Uncounted, TypeOK
  <2>4. CopyCurrent' /\ PassedUnderLimit'
    BY <1>2, <2>1, <2>2 DEF ReadClock, CopyCurrent, PassedUnderLimit, TypeOK
  <2>5. CounterAhead'
    BY <1>2, <2>1, <2>2 DEF ReadClock, CounterAhead, TypeOK
  <2>6. NumbersDiffer'
    BY <1>2, <2>1, <2>2 DEF ReadClock, NumbersDiffer
  <2> QED
    BY <1>0, <2>3, <2>4, <2>5, <2>6
<1>3. ASSUME NEW r \in Requests, WriteWindow(r) PROVE Inv'
  BY <1>0, <1>3, InvWriteWindow
<1>4. CASE Tick
  BY <1>0, <1>4 DEF Tick, Stamped, Uncounted, CopyCurrent, CounterAhead, NumbersDiffer,
     PassedUnderLimit, Bucket, Limit
<1>5. CASE Restart
  <2>1. \A s \in Requests : Bucket(s)' = Bucket(s) /\ Limit(s)' = Limit(s)
    BY <1>5 DEF Restart, Bucket, Limit
  <2>2. Stamped' /\ Uncounted' /\ CounterAhead'
    BY <1>5 DEF Restart, Stamped, Uncounted, CounterAhead, TypeOK
  <2>3. CopyCurrent' /\ NumbersDiffer' /\ PassedUnderLimit'
    BY <1>5, <2>1 DEF Restart, CopyCurrent, NumbersDiffer, PassedUnderLimit, TypeOK
  <2> QED
    BY <1>0, <2>2, <2>3
<1>6. CASE UNCHANGED vars
  BY <1>0, <1>6 DEF vars, Stamped, Uncounted, CopyCurrent, CounterAhead, NumbersDiffer,
     PassedUnderLimit, Bucket, Limit
<1> QED
  BY <1>1, <1>2, <1>3, <1>4, <1>5, <1>6 DEF Next, Progress

\* Requests with different numbers in 1 .. L are at most L.
LEMMA DistinctNumbers ==
  ASSUME NEW S, NEW L \in Nat, NEW f \in [S -> 1 .. L],
         \A r, s \in S : r # s => f[r] # f[s]
  PROVE  Cardinality(S) <= L
<1>1. f \in Injection(S, 1 .. L)
  BY DEF Injection, IsInjective
<1>2. IsFiniteSet(1 .. L) /\ Cardinality(1 .. L) = L
  BY FS_Interval
<1> QED
  BY <1>1, <1>2, FS_Injection

LEMMA InvBound == Inv => PassedWithinLimit
<1> SUFFICES ASSUME Inv, NEW b \in Buckets, NEW k \in 0 .. LastBoot, NEW p \in DOMAIN PolicyOf
             PROVE  Cardinality({r \in PassedIn(b, k) : Limit(r) <= PolicyOf[p]}) <= PolicyOf[p]
  BY DEF PassedWithinLimit
<1> DEFINE S == {r \in PassedIn(b, k) : Limit(r) <= PolicyOf[p]}
           f == [r \in S |-> count[r]]
<1>1. PolicyOf[p] \in Nat
  BY PolicyAssumption
<1>2. \A r \in S : count[r] \in 1 .. PolicyOf[p]
  BY <1>1, PolicyAssumption DEF Inv, PassedIn, CountedIn, PassedUnderLimit, TypeOK, Limit
<1>3. \A r, s \in S : r # s => count[r] # count[s]
  BY DEF Inv, PassedIn, CountedIn, NumbersDiffer
<1>4. f \in [S -> 1 .. PolicyOf[p]]
  BY <1>2
<1>5. \A r, s \in S : r # s => f[r] # f[s]
  BY <1>3
<1> HIDE DEF S, f
<1>6. Cardinality(S) <= PolicyOf[p]
  BY <1>1, <1>4, <1>5, DistinctNumbers
<1> QED
  BY <1>6 DEF S

(***************************************************************************)
(* No interleaving of goroutines, no change of plan within the minute and  *)
(* no late arrival from the minute before lets a client exceed its limit   *)
(* in one minute of one process.                                           *)
(***************************************************************************)
THEOREM LimitHolds == Spec => []PassedWithinLimit
<1>1. Init => Inv
  BY InvInit
<1>2. Inv /\ [Next]_vars => Inv'
  BY InvStep
<1>3. Inv => PassedWithinLimit
  BY InvBound
<1> QED
  BY <1>1, <1>2, <1>3, PTL DEF Spec

-----------------------------------------------------------------------------
(* Refusals.                                                               *)

\* What one step can do to the counters: nothing, count one request in its
\* bucket, or forget all windows.
Kept ==
  /\ count' = count
  /\ windows' = windows
  /\ boot' = boot
  /\ \A s \in Requests : count[s] > 0 => stamp'[s] = stamp[s]
  /\ profile' = profile

LEMMA CountsChange ==
  ASSUME Inv, [Next]_vars
  PROVE  \/ Kept
         \/ \E r \in Requests : WriteWindow(r)
         \/ Restart
<1>1. ASSUME NEW r \in Requests, Arrive(r) \/ Lock(r) \/ Unlock(r) \/ ReadWindow(r) \/ Decide(r)
      PROVE  Kept
  BY <1>1 DEF Arrive, Lock, Unlock, ReadWindow, Decide, Kept, clock, request
<1>2. ASSUME NEW r \in Requests, ReadClock(r) PROVE Kept
  BY <1>2 DEF ReadClock, Kept, clock, Inv, TypeOK, Uncounted
<1>3. CASE Tick
  BY <1>3 DEF Tick, Kept, request
<1>4. CASE UNCHANGED vars
  BY <1>4 DEF vars, Kept
<1> QED
  BY <1>1, <1>2, <1>3, <1>4 DEF Next, Progress

\* s was counted as number n of bucket b by process k.
HasNumber(s, n, b, k) == count[s] = n /\ Bucket(s) = b /\ stamp[s].boot = k

\* Numbers are given out without gaps.
NumbersTaken ==
  /\ \A b \in Buckets : \A n \in 1 .. windows[b] :
       \E s \in Requests : HasNumber(s, n, b, boot)
  /\ \A r \in Requests : \A n \in 1 .. count[r] :
       \E s \in Requests : HasNumber(s, n, Bucket(r), stamp[r].boot)

FiniteCounted == \A b \in Buckets, k \in 0 .. LastBoot : IsFiniteSet(CountedIn(b, k))

RefusedOverLimit ==
  \A r \in Requests : pc[r] = "429" =>
    profile[r].plan \in DOMAIN PolicyOf /\ count[r] > Limit(r)

RefusalInv == Inv /\ NumbersTaken /\ FiniteCounted /\ RefusedOverLimit

LEMMA RefusalInit == Init => RefusalInv
<1> SUFFICES ASSUME Init PROVE RefusalInv
  OBVIOUS
<1>1. Inv
  BY InvInit
<1>2. NumbersTaken
  BY DEF Init, NumbersTaken
<1>3. FiniteCounted
  <2>1. \A b \in Buckets, k \in 0 .. LastBoot : CountedIn(b, k) = {}
    BY DEF Init, CountedIn
  <2> QED
    BY <2>1, FS_EmptySet DEF FiniteCounted
<1>4. RefusedOverLimit
  BY DEF Init, RefusedOverLimit
<1> QED
  BY <1>1, <1>2, <1>3, <1>4 DEF RefusalInv

\* A counted request keeps its number, its bucket and its process.
LEMMA CountedStays ==
  ASSUME Inv, Kept \/ Restart \/ \E r \in Requests : WriteWindow(r),
         NEW s \in Requests, count[s] > 0
  PROVE  count'[s] = count[s] /\ Bucket(s)' = Bucket(s) /\ stamp'[s] = stamp[s]
<1>1. CASE Kept
  BY <1>1 DEF Kept, Bucket
<1>2. CASE Restart
  BY <1>2 DEF Restart, request, Bucket
<1>3. ASSUME NEW r \in Requests, WriteWindow(r)
      PROVE  count'[s] = count[s] /\ Bucket(s)' = Bucket(s) /\ stamp'[s] = stamp[s]
  BY <1>3 DEF WriteWindow, Inv, TypeOK, Uncounted, Bucket
<1> QED
  BY <1>1, <1>2, <1>3

LEMMA NumbersStep ==
  ASSUME RefusalInv, [Next]_vars, Inv'
  PROVE  NumbersTaken'
<1>1. \A s \in Requests, n \in Nat \ {0} : \A b, k : HasNumber(s, n, b, k) => HasNumber(s, n, b, k)'
  BY CountsChange, CountedStays DEF RefusalInv, HasNumber
<1>2. \A r \in Requests : Bucket(r) \in Buckets
  BY DEF RefusalInv, Inv, TypeOK, Bucket, Buckets, Profile
<1>3. /\ \A b \in Buckets : windows[b] \in Nat
      /\ \A r \in Requests : count[r] \in Nat
  BY DEF RefusalInv, Inv, TypeOK
<1>4. \A r \in Requests : count[r] > 0 => \A n \in 1 .. count[r] :
        \E s \in Requests : HasNumber(s, n, Bucket(r), stamp[r].boot)'
  <2> SUFFICES ASSUME NEW r \in Requests, count[r] > 0, NEW n \in 1 .. count[r]
               PROVE  \E s \in Requests : HasNumber(s, n, Bucket(r), stamp[r].boot)'
    OBVIOUS
  <2>1. PICK s \in Requests : HasNumber(s, n, Bucket(r), stamp[r].boot)
    BY DEF RefusalInv, NumbersTaken
  <2>2. count[s] > 0
    BY <1>3, <2>1 DEF HasNumber
  <2>3. /\ count'[s] = count[s] /\ Bucket(s)' = Bucket(s) /\ stamp'[s] = stamp[s]
        /\ Bucket(r)' = Bucket(r) /\ stamp'[r] = stamp[r]
    BY <2>2, CountsChange, CountedStays DEF RefusalInv
  <2> QED
    BY <2>1, <2>3 DEF HasNumber
<1>5. CASE Kept
  BY <1>1, <1>3, <1>4, <1>5 DEF Kept, NumbersTaken, RefusalInv
<1>6. CASE Restart
  BY <1>3, <1>4, <1>6 DEF Restart, request, NumbersTaken
<1>7. ASSUME NEW r \in Requests, WriteWindow(r)
      PROVE  NumbersTaken'
  <2>1. /\ stamp[r].boot = boot
        /\ windows' = [windows EXCEPT ![Bucket(r)] = windows[Bucket(r)] + 1]
        /\ count' = [count EXCEPT ![r] = windows[Bucket(r)] + 1]
        /\ UNCHANGED <<boot, stamp, profile>>
    BY <1>7 DEF WriteWindow, RefusalInv, Inv, TypeOK, Stamped, CopyCurrent, Waiting, Critical, clock
  <2>2. /\ count'[r] = windows[Bucket(r)] + 1
        /\ Bucket(r)' = Bucket(r)
        /\ stamp'[r].boot = boot'
    BY <2>1 DEF RefusalInv, Inv, TypeOK, Bucket
  <2>3. ASSUME NEW b \in Buckets, NEW n \in 1 .. windows'[b]
        PROVE  \E s \in Requests : count'[s] = n /\ Bucket(s)' = b /\ stamp'[s].boot = boot'
    <3>1. CASE n \in 1 .. windows[b]
      <4>1. PICK s \in Requests : HasNumber(s, n, b, boot)
        BY <3>1 DEF RefusalInv, NumbersTaken
      <4>2. count[s] > 0
        BY <1>3, <3>1, <4>1 DEF HasNumber
      <4>3. count'[s] = count[s] /\ Bucket(s)' = Bucket(s) /\ stamp'[s] = stamp[s]
        BY <1>7, <4>2, CountedStays DEF RefusalInv
      <4> QED
        BY <2>1, <4>1, <4>3 DEF HasNumber
    <3>2. CASE n \notin 1 .. windows[b]
      <4>1. b = Bucket(r) /\ n = windows[Bucket(r)] + 1
        BY <1>2, <1>3, <2>1, <2>3, <3>2 DEF RefusalInv, Inv, TypeOK
      <4> QED
        BY <2>2, <4>1
    <3> QED
      BY <3>1, <3>2
  <2>4. ASSUME NEW q \in Requests, NEW n \in 1 .. count'[q]
        PROVE  \E s \in Requests : HasNumber(s, n, Bucket(q), stamp[q].boot)'
    <3>1. CASE q = r
      <4>1. count'[r] = windows'[Bucket(r)] /\ Bucket(r) \in Buckets
        BY <1>2, <2>1 DEF RefusalInv, Inv, TypeOK
      <4>2. PICK s \in Requests :
              count'[s] = n /\ Bucket(s)' = Bucket(r) /\ stamp'[s].boot = boot'
        BY <2>3, <2>4, <3>1, <4>1
      <4> QED
        BY <2>2, <3>1, <4>2 DEF HasNumber
    <3>2. CASE q # r
      <4>1. count'[q] = count[q] /\ count[q] > 0
        BY <1>3, <2>1, <2>4, <3>2 DEF RefusalInv, Inv, TypeOK
      <4> QED
        BY <1>4, <2>4, <4>1
    <3> QED
      BY <3>1, <3>2
  <2> QED
    BY <2>3, <2>4 DEF NumbersTaken, HasNumber
<1> QED
  BY <1>5, <1>6, <1>7, CountsChange DEF RefusalInv

LEMMA FiniteStep ==
  ASSUME RefusalInv, [Next]_vars, Inv'
  PROVE  FiniteCounted'
<1> SUFFICES ASSUME NEW b \in Buckets, NEW k \in 0 .. LastBoot
             PROVE  IsFiniteSet(CountedIn(b, k)')
  BY DEF FiniteCounted
<1>1. IsFiniteSet(CountedIn(b, k))
  BY DEF RefusalInv, FiniteCounted
<1>2. PICK r : \A s \in Requests \ {r} : count'[s] = count[s]
  <2>1. CASE Kept \/ Restart
    BY <2>1 DEF Kept, Restart, request
  <2>2. ASSUME NEW r \in Requests, WriteWindow(r)
        PROVE  \A s \in Requests \ {r} : count'[s] = count[s]
    BY <2>2 DEF WriteWindow, RefusalInv, Inv, TypeOK
  <2> QED
    BY <2>1, <2>2, CountsChange DEF RefusalInv
<1>3. CountedIn(b, k)' \subseteq CountedIn(b, k) \union {r}
  <2> SUFFICES ASSUME NEW s \in CountedIn(b, k)', s # r
               PROVE  s \in CountedIn(b, k)
    OBVIOUS
  <2>1. s \in Requests /\ count'[s] > 0 /\ Bucket(s)' = b /\ stamp'[s].boot = k
    BY DEF CountedIn
  <2>2. count[s] > 0
    BY <1>2, <2>1
  <2>3. Bucket(s)' = Bucket(s) /\ stamp'[s] = stamp[s]
    BY <2>1, <2>2, CountsChange, CountedStays DEF RefusalInv
  <2> QED
    BY <2>1, <2>2, <2>3 DEF CountedIn
<1> QED
  BY <1>1, <1>3, FS_AddElement, FS_Subset

LEMMA RefusedStep ==
  ASSUME RefusalInv, [Next]_vars, Inv'
  PROVE  RefusedOverLimit'
<1> USE DEF RefusalInv, Inv, RefusedOverLimit, Goto, TypeOK
<1>1. ASSUME NEW r \in Requests, Arrive(r) \/ Lock(r) \/ Unlock(r) \/ ReadWindow(r)
      PROVE  RefusedOverLimit'
  BY <1>1 DEF Arrive, Lock, Unlock, ReadWindow, request, Limit
<1>2. ASSUME NEW r \in Requests, Decide(r)
      PROVE  RefusedOverLimit'
  BY <1>2 DEF Decide, request, Limit, Stamped, Waiting
<1>3. ASSUME NEW r \in Requests, ReadClock(r)
      PROVE  RefusedOverLimit'
  BY <1>3 DEF ReadClock, Limit
<1>4. ASSUME NEW r \in Requests, WriteWindow(r)
      PROVE  RefusedOverLimit'
  BY <1>4 DEF WriteWindow, Limit
<1>5. CASE Tick
  BY <1>5 DEF Tick, request, Limit
<1>6. CASE Restart
  BY <1>6 DEF Restart, request, Limit
<1>7. CASE UNCHANGED vars
  BY <1>7 DEF vars, Limit
<1> QED
  BY <1>1, <1>2, <1>3, <1>4, <1>5, <1>6, <1>7 DEF Next, Progress

LEMMA RefusalStep == RefusalInv /\ [Next]_vars => RefusalInv'
<1> SUFFICES ASSUME RefusalInv, [Next]_vars PROVE RefusalInv'
  OBVIOUS
<1>1. Inv'
  BY InvStep DEF RefusalInv
<1> QED
  BY <1>1, NumbersStep, FiniteStep, RefusedStep DEF RefusalInv

\* The numbers 1 .. L need L requests.
LEMMA NumbersNeedRequests ==
  ASSUME NEW S, IsFiniteSet(S), NEW L \in Nat, NEW f \in [1 .. L -> S],
         \A m, n \in 1 .. L : m # n => f[m] # f[n]
  PROVE  Cardinality(S) >= L
<1>1. f \in Injection(1 .. L, S)
  BY DEF Injection, IsInjective
<1>2. IsFiniteSet(1 .. L) /\ Cardinality(1 .. L) = L
  BY FS_Interval
<1>3. Cardinality(S) \in Nat
  BY FS_CardinalityType
<1> QED
  BY <1>1, <1>2, <1>3, FS_Injection

LEMMA RefusalBound == RefusalInv => RefusalJustified
<1> SUFFICES ASSUME RefusalInv, NEW r \in Requests, pc[r] = "429"
             PROVE  Cardinality(CountedIn(Bucket(r), stamp[r].boot) \ {r}) >= Limit(r)
  BY DEF RefusalJustified
<1> DEFINE L == Limit(r)
           S == CountedIn(Bucket(r), stamp[r].boot) \ {r}
           f == [n \in 1 .. L |->
                  CHOOSE s \in Requests : HasNumber(s, n, Bucket(r), stamp[r].boot)]
<1>1. L \in Nat /\ count[r] \in Nat /\ count[r] > L
  BY PolicyAssumption DEF RefusalInv, RefusedOverLimit, Limit, Inv, TypeOK
<1>2. Bucket(r) \in Buckets /\ stamp[r].boot \in 0 .. LastBoot
  BY DEF RefusalInv, Inv, TypeOK, Bucket, Buckets, Profile
<1>3. IsFiniteSet(S)
  <2>1. IsFiniteSet(CountedIn(Bucket(r), stamp[r].boot))
    BY <1>2 DEF RefusalInv, FiniteCounted
  <2> QED
    BY <2>1, FS_RemoveElement
<1>4. ASSUME NEW n \in 1 .. L
      PROVE  f[n] \in Requests /\ HasNumber(f[n], n, Bucket(r), stamp[r].boot)
  <2>1. n \in 1 .. count[r]
    BY <1>1
  <2>2. \E s \in Requests : HasNumber(s, n, Bucket(r), stamp[r].boot)
    BY <2>1 DEF RefusalInv, NumbersTaken
  <2> QED
    BY <2>2
<1> HIDE DEF f
<1>5. \A n \in 1 .. L : f[n] \in S
  BY <1>1, <1>4 DEF HasNumber, CountedIn
<1>6. \A m, n \in 1 .. L : m # n => f[m] # f[n]
  BY <1>4 DEF HasNumber
<1>7. f \in [1 .. L -> S]
  BY <1>5 DEF f
<1> HIDE DEF S, L
<1>8. Cardinality(S) >= L
  BY <1>1, <1>3, <1>6, <1>7, NumbersNeedRequests
<1> QED
  BY <1>8 DEF S, L

(***************************************************************************)
(* Nobody is refused with 429 before other requests of the client have     *)
(* used up the allowance of its plan, in the minute it was stamped with    *)
(* and in the same process: numbers are given out without gaps.            *)
(***************************************************************************)
THEOREM RefusalsJustified == Spec => []RefusalJustified
<1>1. Init => RefusalInv
  BY RefusalInit
<1>2. RefusalInv /\ [Next]_vars => RefusalInv'
  BY RefusalStep
<1>3. RefusalInv => RefusalJustified
  BY RefusalBound
<1> QED
  BY <1>1, <1>2, <1>3, PTL DEF Spec

-----------------------------------------------------------------------------
(* The abstract counter.                                                   *)

CountOne ==
  \E r \in Requests : /\ profile[r].plan \in DOMAIN PolicyOf
                      /\ Rate!Count(r, Bucket(r), Limit(r))

LEMMA CounterInit == Init => Rate!Init
<1> QED
  BY DEF Init, Rate!Init, Passed

LEMMA CounterStep ==
  Inv /\ [Next]_vars => [CountOne \/ Rate!Restart]_<<windows, Passed>>
<1> SUFFICES ASSUME Inv, [Next]_vars
             PROVE  CountOne \/ Rate!Restart \/ UNCHANGED <<windows, Passed>>
  OBVIOUS
<1>1. CASE Kept
  <2>1. \A r \in Requests : Limit(r)' = Limit(r)
    BY <1>1 DEF Kept, Limit
  <2>2. Passed' = Passed
    BY <1>1, <2>1 DEF Kept, Passed
  <2> QED
    BY <1>1, <2>2 DEF Kept
<1>2. CASE Restart
  <2>1. Passed' = Passed
    BY <1>2 DEF Restart, request, Passed, Limit
  <2> QED
    BY <1>2, <2>1 DEF Restart, Rate!Restart
<1>3. ASSUME NEW r \in Requests, WriteWindow(r)
      PROVE  CountOne
  <2>1. /\ profile[r].plan \in DOMAIN PolicyOf
        /\ count[r] = 0
        /\ window[r] = windows[Bucket(r)]
    BY <1>3 DEF WriteWindow, Inv, Stamped, Uncounted, CopyCurrent, Waiting, Critical
  <2>2. Bucket(r) \in Buckets /\ Limit(r) \in Nat
    BY <2>1, PolicyAssumption DEF Inv, TypeOK, Bucket, Buckets, Profile, Limit
  <2>3. windows' = [windows EXCEPT ![Bucket(r)] = windows[Bucket(r)] + 1]
    BY <1>3, <2>1 DEF WriteWindow
  <2>4. windows[Bucket(r)] \in Nat
    BY <2>2 DEF Inv, TypeOK
  <2>5. /\ count'[r] = windows[Bucket(r)] + 1
        /\ \A s \in Requests \ {r} : count'[s] = count[s]
        /\ \A s \in Requests : Limit(s)' = Limit(s)
    BY <1>3, <2>1 DEF WriteWindow, Inv, TypeOK, Limit
  <2>6. Passed[r] = "none"
    BY <2>1 DEF Passed
  <2>7. Passed' = [Passed EXCEPT
                    ![r] = IF windows[Bucket(r)] < Limit(r) THEN "next" ELSE "refused"]
    <3>1. Passed'[r] = IF windows[Bucket(r)] < Limit(r) THEN "next" ELSE "refused"
      BY <2>2, <2>4, <2>5 DEF Passed
    <3>2. \A s \in Requests \ {r} : Passed'[s] = Passed[s]
      BY <2>5 DEF Passed
    <3> QED
      BY <3>1, <3>2 DEF Passed
  <2>8. Rate!Count(r, Bucket(r), Limit(r))
    BY <2>3, <2>6, <2>7 DEF Rate!Count
  <2> QED
    BY <2>1, <2>8 DEF CountOne
<1> QED
  BY <1>1, <1>2, <1>3, CountsChange

(***************************************************************************)
(* The steps around the map implement the abstract counter: to everybody   *)
(* else a request is counted and judged in one step, or not at all.        *)
(***************************************************************************)
THEOREM ImplementsCounter == Spec => CountsAtomically
<1>1. Init => Rate!Init
  BY CounterInit
<1>2. Init => Inv
  BY InvInit
<1>3. Inv /\ [Next]_vars => Inv'
  BY InvStep
<1>4. Inv /\ [Next]_vars =>
        [\/ \E r \in Requests : /\ profile[r].plan \in DOMAIN PolicyOf
                                /\ Rate!Count(r, Bucket(r), Limit(r))
         \/ Rate!Restart]_<<windows, Passed>>
  BY CounterStep DEF CountOne
<1> QED
  BY <1>1, <1>2, <1>3, <1>4, PTL DEF Spec, CountsAtomically
=============================================================================
