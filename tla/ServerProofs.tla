----------------------------- MODULE ServerProofs ----------------------------
(***************************************************************************)
(* Proofs about Server for any plan tables, any requests and any number of *)
(* connections: what the process serves by (ServesWholePolicies), and that *)
(* no connection is lost (PoolTypeOK, NoConnectionLost).                   *)
(***************************************************************************)
EXTENDS Server, FiniteSetTheorems, SequenceTheorems, TLAPS

-----------------------------------------------------------------------------
(* Start-up.                                                               *)

(***************************************************************************)
(* While the rows are read, the map is what the rows read so far say; that *)
(* is a statement about a set of rows, and does not depend on their order. *)
(***************************************************************************)
Codes(read) == {row.code : row \in read}

FeaturesOf(read, p) == UNION {Feature(row) : row \in {x \in read : x.code = p}}

Quota(d, p) == IF d.plans[p].quota = Null THEN 0 ELSE d.plans[p].quota

Folded(d, read) ==
  [p \in Codes(read) |->
    [AllowedFeatures |-> FeaturesOf(read, p),
     RequestsPerMinute |-> d.plans[p].rpm,
     MonthlyQuota |-> Quota(d, p)]]

PoliciesInv ==
  /\ tables \in Databases
  /\ phase = "loading" =>
       /\ queried \in Databases
       /\ rows \subseteq Joined(queried)
       /\ policies = Folded(queried, Joined(queried) \ rows)
  /\ phase \in {"down", "connecting"} => policies = NoPolicies
  /\ ServesWholePolicies

\* A row of the join is of one of the plans.
LEMMA JoinedRow ==
  ASSUME NEW d, NEW row \in Joined(d)
  PROVE  /\ row.code \in DOMAIN d.plans
         /\ row.feature \in FeatureKeys \union {Null}
         /\ row.rpm = d.plans[row.code].rpm
         /\ row.quota = d.plans[row.code].quota
<1>1. PICK p \in DOMAIN d.plans : row \in {Row(d, p, f) : f \in Matching(d, p)}
  BY DEF Joined
<1>2. PICK f \in Matching(d, p) : row = Row(d, p, f)
  BY <1>1
<1>3. f \in FeatureKeys \union {Null}
  BY DEF Matching
<1> QED
  BY <1>2, <1>3 DEF Row

\* Reading one more row of the join is what ReadRow does to the map.
LEMMA FoldedStep ==
  ASSUME NEW d \in Databases, NEW read \in SUBSET Joined(d), NEW row \in Joined(d),
         policies = Folded(d, read)
  PROVE  PoliciesWith(row) = Folded(d, read \union {row})
<1> DEFINE more == read \union {row}
           new(p) == IF p = row.code
             THEN [PolicySoFar(row) EXCEPT !.AllowedFeatures = @ \union Feature(row)]
             ELSE policies[p]
<1>1. Codes(more) = DOMAIN policies \union {row.code}
  BY DEF Codes, Folded
<1>2. ASSUME NEW p \in Codes(more), p # row.code
      PROVE  new(p) = Folded(d, more)[p]
  <2>1. {x \in more : x.code = p} = {x \in read : x.code = p}
    BY <1>2
  <2>2. FeaturesOf(more, p) = FeaturesOf(read, p)
    BY <2>1 DEF FeaturesOf
  <2>3. p \in Codes(read)
    BY <1>2 DEF Codes
  <2> QED
    BY <1>2, <2>2, <2>3 DEF Folded
<1>3. new(row.code) = Folded(d, more)[row.code]
  <2>1. row.code \in Codes(more)
    BY DEF Codes
  <2>2. Folded(d, more)[row.code] =
          [AllowedFeatures |-> FeaturesOf(more, row.code),
           RequestsPerMinute |-> d.plans[row.code].rpm,
           MonthlyQuota |-> Quota(d, row.code)]
    BY <2>1 DEF Folded
  <2>3. FeaturesOf(more, row.code) = FeaturesOf(read, row.code) \union Feature(row)
    <3>1. {x \in more : x.code = row.code} = {x \in read : x.code = row.code} \union {row}
      OBVIOUS
    <3> QED
      BY <3>1 DEF FeaturesOf
  <2>4. row.rpm = d.plans[row.code].rpm /\ row.quota = d.plans[row.code].quota
    BY JoinedRow
  <2>5. CASE row.code \in Codes(read)
    <3>1. PolicySoFar(row) =
            [AllowedFeatures |-> FeaturesOf(read, row.code),
             RequestsPerMinute |-> d.plans[row.code].rpm,
             MonthlyQuota |-> Quota(d, row.code)]
      BY <2>5 DEF Folded, PolicySoFar
    <3> QED
      BY <2>2, <2>3, <3>1
  <2>6. CASE row.code \notin Codes(read)
    <3>1. PolicySoFar(row) =
            [AllowedFeatures |-> {},
             RequestsPerMinute |-> d.plans[row.code].rpm,
             MonthlyQuota |-> Quota(d, row.code)]
      BY <2>4, <2>6 DEF Folded, PolicySoFar, NewPolicy, Quota
    <3>2. FeaturesOf(read, row.code) = {}
      BY <2>6 DEF FeaturesOf, Codes
    <3> QED
      BY <2>2, <2>3, <3>1, <3>2
  <2> QED
    BY <2>5, <2>6
<1>4. \A p \in Codes(more) : new(p) = Folded(d, more)[p]
  BY <1>2, <1>3
<1>5. Folded(d, more) = [p \in Codes(more) |-> Folded(d, more)[p]]
  BY DEF Folded
<1>6. PoliciesWith(row) = [p \in DOMAIN policies \union {row.code} |-> new(p)]
  BY DEF PoliciesWith
<1> QED
  BY <1>1, <1>4, <1>5, <1>6

\* The map after the last row is what the tables say.
LEMMA FoldedAll ==
  ASSUME NEW d \in Databases
  PROVE  Folded(d, Joined(d)) = PoliciesOf(d)
<1> DEFINE all == Joined(d)
<1>1. \A p \in DOMAIN d.plans : Matching(d, p) # {}
  BY DEF Matching
<1>2. ASSUME NEW p \in DOMAIN d.plans, NEW f \in Matching(d, p)
      PROVE  /\ Row(d, p, f) \in all
             /\ Row(d, p, f).code = p
             /\ Row(d, p, f).feature = f
  BY DEF Joined, Row
<1>3. Codes(all) = DOMAIN d.plans
  <2>1. Codes(all) \subseteq DOMAIN d.plans
    BY JoinedRow DEF Codes
  <2>2. ASSUME NEW p \in DOMAIN d.plans PROVE p \in Codes(all)
    <3>1. PICK f \in Matching(d, p) : TRUE
      BY <1>1
    <3> QED
      BY <1>2, <3>1 DEF Codes
  <2> QED
    BY <2>1, <2>2
<1>4. ASSUME NEW p \in DOMAIN d.plans
      PROVE  FeaturesOf(all, p) = {f \in FeatureKeys \ {Blank} : <<p, f>> \in d.features}
  <2>1. ASSUME NEW f \in FeaturesOf(all, p)
        PROVE  f \in FeatureKeys \ {Blank} /\ <<p, f>> \in d.features
    <3>1. PICK row \in all : row.code = p /\ f \in Feature(row)
      BY <2>1 DEF FeaturesOf
    <3>2. f = row.feature /\ f # Null /\ f # Blank
      BY <3>1 DEF Feature
    <3>3. PICK q \in DOMAIN d.plans : row \in {Row(d, q, g) : g \in Matching(d, q)}
      BY DEF Joined
    <3>4. PICK g \in Matching(d, q) : row = Row(d, q, g)
      BY <3>3
    <3>5. q = p /\ g = f
      BY <3>1, <3>2, <3>4 DEF Row
    <3> QED
      BY <3>2, <3>5 DEF Matching
  <2>2. ASSUME NEW f \in FeatureKeys \ {Blank}, <<p, f>> \in d.features
        PROVE  f \in FeaturesOf(all, p)
    <3>1. f \in Matching(d, p)
      BY <2>2 DEF Matching
    <3>2. f # Null
      BY NullAssumption
    <3>3. f \in Feature(Row(d, p, f))
      BY <1>2, <3>1, <3>2 DEF Feature
    <3> QED
      BY <1>2, <3>1, <3>3 DEF FeaturesOf
  <2> QED
    BY <2>1, <2>2
<1> QED
  BY <1>3, <1>4 DEF Folded, PoliciesOf, Quota

LEMMA PoliciesInit == ServerInit => PoliciesInv
<1> SUFFICES ASSUME ServerInit PROVE PoliciesInv
  OBVIOUS
<1> QED
  BY DEF ServerInit, BootInit, PoliciesInv, ServesWholePolicies

LEMMA BootStepKeeps ==
  ASSUME PoliciesInv, [BootNext]_bootVars
  PROVE  PoliciesInv'
<1> USE DEF PoliciesInv, ServesWholePolicies
<1>1. CASE Start
  BY <1>1 DEF Start
<1>2. CASE Query
  <2>1. Codes({}) = {}
    BY DEF Codes
  <2>2. policies' = Folded(queried', Joined(queried') \ rows')
    BY <1>2, <2>1 DEF Query, Folded, NoPolicies
  <2> QED
    BY <1>2, <2>2 DEF Query
<1>3. ASSUME NEW row \in rows, ReadRow(row)
      PROVE  PoliciesInv'
  <2> DEFINE read == Joined(queried) \ rows
  <2>1. /\ queried \in Databases
        /\ row \in Joined(queried)
        /\ read \subseteq Joined(queried)
        /\ policies = Folded(queried, read)
    BY <1>3 DEF ReadRow
  <2>2. policies' = Folded(queried, read \union {row})
    BY <1>3, <2>1, FoldedStep DEF ReadRow
  <2>3. read \union {row} = Joined(queried) \ rows'
    BY <1>3, <2>1 DEF ReadRow
  <2>4. UNCHANGED <<phase, tables, queried>>
    BY <1>3 DEF ReadRow
  <2>5. phase = "loading" /\ rows' \subseteq Joined(queried)
    BY <1>3, <2>1 DEF ReadRow
  <2> HIDE DEF read
  <2> QED
    BY <2>1, <2>2, <2>3, <2>4, <2>5
<1>4. CASE Loaded
  <2>1. policies = PoliciesOf(queried)
    BY <1>4, FoldedAll DEF Loaded
  <2>2. DOMAIN policies # {}
    BY <1>4, <2>1 DEF Loaded, NoPolicies, PoliciesOf
  <2> QED
    BY <1>4, <2>1, <2>2 DEF Loaded
<1>5. CASE NoPlans
  BY <1>5 DEF NoPlans, Fatal
<1>6. CASE StartFails
  BY <1>6 DEF StartFails, Fatal
<1>7. CASE EditTables
  BY <1>7 DEF EditTables
<1>8. CASE UNCHANGED bootVars
  BY <1>8 DEF bootVars
<1> QED
  BY <1>1, <1>2, <1>3, <1>4, <1>5, <1>6, <1>7, <1>8 DEF BootNext, BootStep

LEMMA PoliciesStep == PoliciesInv /\ [ServerNext]_serverVars => PoliciesInv'
<1> SUFFICES ASSUME PoliciesInv, [ServerNext]_serverVars PROVE PoliciesInv'
  OBVIOUS
<1>1. CASE Crash
  BY <1>1 DEF Crash, Fatal, PoliciesInv, ServesWholePolicies
<1>2. CASE Starting \/ Serving \/ Rollbacks \/ UNCHANGED serverVars
  <2>1. [BootNext]_bootVars
    BY <1>2 DEF Starting, Serving, Rollbacks, serverVars, BootNext
  <2> QED
    BY <2>1, BootStepKeeps
<1> QED
  BY <1>1, <1>2 DEF ServerNext

(***************************************************************************)
(* A process that serves has the policies of all plans, with all of their  *)
(* features, as the tables were when LoadPlanPolicies ran its query; for   *)
(* any tables, any edits of them and any order of the rows.                *)
(***************************************************************************)
THEOREM WholePolicies == ServerSpec => []ServesWholePolicies
<1>1. ServerInit => PoliciesInv
  BY PoliciesInit
<1>2. PoliciesInv /\ [ServerNext]_serverVars => PoliciesInv'
  BY PoliciesStep
<1>3. PoliciesInv => ServesWholePolicies
  BY DEF PoliciesInv
<1> QED
  BY <1>1, <1>2, <1>3, PTL DEF ServerSpec

-----------------------------------------------------------------------------
(* The pool.                                                               *)

LEMMA UsesTyped == \A r \in Requests : LastUse(r) \in Nat \ {0}
<1> SUFFICES ASSUME NEW r \in Requests PROVE LastUse(r) \in Nat \ {0}
  OBVIOUS
<1>1. Kind[r] \in {"metered", "unmetered", "register", "login", "rotate", "change"}
  BY KindAssumption DEF Kinds, Uses
<1> QED
  BY <1>1 DEF LastUse, Uses

\* The conjuncts of PoolTypeOK that are about the pool alone.
PoolParts(h, w, running) ==
  /\ h \subseteq running
  /\ Cardinality(h) <= MaxConns
  /\ w \in Seq(running \ h)
  /\ \A i, j \in DOMAIN w : w[i] = w[j] => i = j
  /\ w # <<>> => Cardinality(h) = MaxConns

AllRunning == {r \in Requests : Running(r)}

PoolInv == PoolTypeOK /\ NoConnectionLost

\* If only running requests have connections, all of them are with those.
LEMMA PoolInvParts ==
  PoolInv <=> /\ at \in [Requests -> Nat]
              /\ \A r \in Requests : at[r] <= LastUse(r) + 1
              /\ owner \in [Locks -> Requests \union {NoOne}]
              /\ PoolParts(holding, waiting, AllRunning)
<1>1. holding \subseteq AllRunning => {r \in holding : Running(r)} = holding
  BY DEF AllRunning
<1> QED
  BY <1>1 DEF PoolInv, PoolTypeOK, NoConnectionLost, PoolParts, AllRunning

LEMMA PoolInvPartsNext ==
  ASSUME at' \in [Requests -> Nat],
         \A r \in Requests : at'[r] <= LastUse(r) + 1,
         owner' \in [Locks -> Requests \union {NoOne}],
         PoolParts(holding', waiting', AllRunning')
  PROVE  PoolInv'
<1>1. {r \in holding' : Running(r)'} = holding'
  BY DEF PoolParts, AllRunning
<1> QED
  BY <1>1 DEF PoolInv, PoolTypeOK, NoConnectionLost, PoolParts, AllRunning, LastUse

\* A sequence is one over any set that all of its elements are in.
LEMMA SeqNarrowed ==
  ASSUME NEW S, NEW T, NEW s \in Seq(S), \A i \in 1 .. Len(s) : s[i] \in T
  PROVE  s \in Seq(T)
<1>1. Len(s) \in Nat
  OBVIOUS
<1>2. SubSeq(s, 1, Len(s)) \in Seq(T)
  BY <1>1, SubSeqProperties
<1>3. SubSeq(s, 1, Len(s)) = s
  BY SubSeqFull
<1> QED
  BY <1>2, <1>3

\* What is left of a sequence when its i-th element is removed.
LEMMA Removed ==
  ASSUME NEW S, NEW s \in Seq(S), NEW i \in 1 .. Len(s)
  PROVE  /\ RemoveAt(s, i) \in Seq(S)
         /\ Len(RemoveAt(s, i)) = Len(s) - 1
         /\ \A j \in 1 .. Len(s) - 1 :
              RemoveAt(s, i)[j] = IF j < i THEN s[j] ELSE s[j + 1]
<1> DEFINE n == Len(s)
           front == SubSeq(s, 1, i - 1)
           back == SubSeq(s, i + 1, n)
<1>1. n \in Nat /\ i \in Nat /\ 1 <= i /\ i <= n
  OBVIOUS
<1>2. /\ front \in Seq(S)
      /\ Len(front) = i - 1
      /\ \A j \in 1 .. i - 1 : front[j] = s[j]
  <2>1. \A j \in 1 .. i - 1 : s[j] \in S
    BY <1>1, ElementOfSeq
  <2> QED
    BY <1>1, <2>1, SubSeqProperties
<1>3. /\ back \in Seq(S)
      /\ Len(back) = n - i
      /\ \A j \in 1 .. n - i : back[j] = s[i + j]
  <2>1. \A j \in i + 1 .. n : s[j] \in S
    BY <1>1, ElementOfSeq
  <2>2. /\ back \in Seq(S)
        /\ Len(back) = IF i + 1 <= n THEN n - (i + 1) + 1 ELSE 0
        /\ \A j \in 1 .. n - (i + 1) + 1 : back[j] = s[(i + 1) + j - 1]
    BY <1>1, <2>1, SubSeqProperties
  <2> HIDE DEF back
  <2> QED
    BY <1>1, <2>2
<1>4. RemoveAt(s, i) = front \o back
  BY DEF RemoveAt
<1> HIDE DEF front, back
<1>5. /\ front \o back \in Seq(S)
      /\ Len(front \o back) = n - 1
      /\ \A j \in 1 .. n - 1 :
           (front \o back)[j] = IF j <= i - 1 THEN front[j] ELSE back[j - (i - 1)]
  <2>1. /\ front \o back \in Seq(S)
        /\ Len(front \o back) = Len(front) + Len(back)
        /\ \A j \in 1 .. Len(front) + Len(back) :
             (front \o back)[j] = IF j <= Len(front) THEN front[j] ELSE back[j - Len(front)]
    BY <1>2, <1>3, ConcatProperties
  <2>2. Len(front) + Len(back) = n - 1
    BY <1>1, <1>2, <1>3
  <2> QED
    BY <1>2, <2>1, <2>2
<1>6. ASSUME NEW j \in 1 .. n - 1
      PROVE  (front \o back)[j] = IF j < i THEN s[j] ELSE s[j + 1]
  <2>1. CASE j < i
    BY <1>1, <1>2, <1>5, <2>1
  <2>2. CASE ~(j < i)
    <3>1. j - (i - 1) \in 1 .. n - i /\ i + (j - (i - 1)) = j + 1
      BY <1>1, <2>2
    <3>2. back[j - (i - 1)] = s[i + (j - (i - 1))]
      BY <1>3, <3>1
    <3> QED
      BY <1>1, <1>5, <2>2, <3>1, <3>2
  <2> QED
    BY <2>1, <2>2
<1> QED
  BY <1>4, <1>5, <1>6

\* A queue from which one has left, at its head or anywhere.
LEMMA QueueLeft ==
  ASSUME NEW S, NEW s \in Seq(S), NEW i \in 1 .. Len(s),
         \A j, k \in 1 .. Len(s) : s[j] = s[k] => j = k
  PROVE  /\ RemoveAt(s, i) \in Seq(S \ {s[i]})
         /\ \A j, k \in DOMAIN RemoveAt(s, i) :
              RemoveAt(s, i)[j] = RemoveAt(s, i)[k] => j = k
<1> DEFINE n == Len(s)
           left == RemoveAt(s, i)
           old(j) == IF j < i THEN j ELSE j + 1
<1>1. n \in Nat /\ i \in Nat /\ 1 <= i /\ i <= n
  OBVIOUS
<1>2. /\ left \in Seq(S)
      /\ Len(left) = n - 1
      /\ \A j \in 1 .. n - 1 : left[j] = s[old(j)]
  BY Removed
<1>3. DOMAIN left = 1 .. n - 1
  BY <1>2, LenProperties
<1> HIDE DEF left
<1>4. \A j \in 1 .. n - 1 : old(j) \in 1 .. n /\ old(j) # i
  BY <1>1
<1>5. \A j, k \in 1 .. n - 1 : old(j) = old(k) => j = k
  BY <1>1
<1> HIDE DEF old
<1>6. \A j \in 1 .. n - 1 : left[j] \in S \ {s[i]}
  BY <1>1, <1>2, <1>4, ElementOfSeq
<1>7. left \in Seq(S \ {s[i]})
  BY <1>2, <1>6, SeqNarrowed
<1>8. \A j, k \in DOMAIN left : left[j] = left[k] => j = k
  <2>1. ASSUME NEW j \in 1 .. n - 1, NEW k \in 1 .. n - 1, left[j] = left[k]
        PROVE  j = k
    <3>1. s[old(j)] = s[old(k)]
      BY <1>2, <2>1
    <3>2. old(j) = old(k)
      BY <1>4, <3>1
    <3> QED
      BY <1>5, <3>2
  <2> QED
    BY <1>3, <2>1
<1> QED
  BY <1>7, <1>8 DEF left

LEMMA TailRemoves ==
  ASSUME NEW S, NEW s \in Seq(S), s # <<>>
  PROVE  Tail(s) = RemoveAt(s, 1) /\ Head(s) = s[1] /\ 1 \in 1 .. Len(s)
<1>1. Len(s) \in Nat /\ Len(s) # 0
  BY EmptySeq
<1>2. Tail(s) = SubSeq(s, 1 + 1, Len(s))
  BY <1>1, TailIsSubSeq
<1>3. SubSeq(s, 1, 1 - 1) = <<>>
  BY <1>1, SubSeqEmpty
<1>4. <<>> \o Tail(s) = Tail(s)
  BY <1>1, HeadTailProperties, ConcatEmptySeq
<1> QED
  BY <1>1, <1>2, <1>3, <1>4 DEF RemoveAt

\* A request that ends or moves on gives its connection to the first who waits.
LEMMA ReleaseKeeps ==
  ASSUME NEW running \in SUBSET Requests, NEW r \in holding, Release(r),
         PoolParts(holding, waiting, running)
  PROVE  PoolParts(holding', waiting', running \ {r})
<1>1. IsFiniteSet(holding) /\ Cardinality(holding) \in Nat /\ MaxConns \in Nat
  BY PoolAssumption, FS_Subset, FS_CardinalityType DEF PoolParts
<1>2. /\ IsFiniteSet(holding \ {r})
      /\ Cardinality(holding \ {r}) = Cardinality(holding) - 1
  BY <1>1, FS_RemoveElement
<1>3. CASE waiting = <<>>
  <2>1. holding' = holding \ {r} /\ waiting' = <<>>
    BY <1>3 DEF Release
  <2> QED
    BY <1>1, <1>2, <2>1 DEF PoolParts
<1>4. CASE waiting # <<>>
  <2> DEFINE first == waiting[1]
  <2>1. /\ 1 \in 1 .. Len(waiting)
        /\ waiting' = RemoveAt(waiting, 1)
        /\ holding' = (holding \ {r}) \union {first}
    BY <1>4, TailRemoves DEF Release, PoolParts
  <2>2. first \in running \ holding
    BY <2>1, ElementOfSeq DEF PoolParts
  <2>3. Cardinality(holding') = Cardinality(holding)
    <3>1. first \notin holding \ {r}
      BY <2>2
    <3>2. Cardinality((holding \ {r}) \union {first}) = Cardinality(holding \ {r}) + 1
      BY <1>2, <3>1, FS_AddElement
    <3> QED
      BY <1>1, <1>2, <2>1, <3>2
  <2>4. /\ waiting' \in Seq((running \ holding) \ {first})
        /\ \A i, j \in DOMAIN waiting' : waiting'[i] = waiting'[j] => i = j
    BY <2>1, QueueLeft, LenProperties DEF PoolParts
  <2>5. (running \ holding) \ {first} \subseteq (running \ {r}) \ holding'
    BY <2>1
  <2>6. waiting' \in Seq((running \ {r}) \ holding')
    BY <2>4, <2>5, SeqMonotonic
  <2>7. holding' \subseteq running \ {r}
    BY <2>1, <2>2 DEF PoolParts
  <2>8. Cardinality(holding) = MaxConns
    BY <1>4 DEF PoolParts
  <2> QED
    BY <1>1, <2>3, <2>4, <2>6, <2>7, <2>8 DEF PoolParts
<1> QED
  BY <1>3, <1>4

\* A request that gives up in the queue leaves the others in it as they were.
LEMMA LeaveQueueKeeps ==
  ASSUME NEW running \in SUBSET Requests, NEW i \in DOMAIN waiting,
         PoolParts(holding, waiting, running)
  PROVE  PoolParts(holding, RemoveAt(waiting, i), running \ {waiting[i]})
<1>1. i \in 1 .. Len(waiting)
  BY LenProperties DEF PoolParts
<1>2. waiting[i] \in running \ holding /\ waiting # <<>>
  BY <1>1, ElementOfSeq DEF PoolParts
<1>3. /\ RemoveAt(waiting, i) \in Seq((running \ holding) \ {waiting[i]})
      /\ \A j, k \in DOMAIN RemoveAt(waiting, i) :
           RemoveAt(waiting, i)[j] = RemoveAt(waiting, i)[k] => j = k
  BY <1>1, QueueLeft, LenProperties DEF PoolParts
<1>4. (running \ holding) \ {waiting[i]} = (running \ {waiting[i]}) \ holding
  OBVIOUS
<1> QED
  BY <1>2, <1>3, <1>4 DEF PoolParts

LEMMA MoreRunning ==
  ASSUME NEW h, NEW w, NEW A, NEW B, A \subseteq B, PoolParts(h, w, A)
  PROVE  PoolParts(h, w, B)
<1>1. w \in Seq(B \ h)
  BY SeqMonotonic, A \ h \subseteq B \ h DEF PoolParts
<1> QED
  BY <1>1 DEF PoolParts

\* A request moves on or ends, and the others run on.
LEMMA Moved ==
  ASSUME PoolInv, NEW r \in Requests, Running(r),
         NEW next \in at[r] + 1 .. LastUse(r) + 1,
         at' = [at EXCEPT ![r] = next]
  PROVE  /\ at' \in [Requests -> Nat]
         /\ \A s \in Requests : at'[s] <= LastUse(s) + 1
         /\ AllRunning \ {r} \subseteq AllRunning'
<1>1. LastUse(r) \in Nat /\ at[r] \in Nat
  BY UsesTyped, PoolInvParts
<1>2. next \in Nat /\ next <= LastUse(r) + 1
  BY <1>1
<1>3. at' \in [Requests -> Nat]
  BY <1>2, PoolInvParts
<1>4. \A s \in Requests : at'[s] <= LastUse(s) + 1
  BY <1>2, PoolInvParts
<1>5. \A s \in Requests \ {r} : at'[s] = at[s]
  BY PoolInvParts
<1>6. AllRunning \ {r} \subseteq AllRunning'
  BY <1>5 DEF AllRunning, Running, LastUse
<1> QED
  BY <1>3, <1>4, <1>6

LEMMA AcquireKeeps ==
  ASSUME PoolInv, NEW r \in Requests, Acquire(r)
  PROVE  PoolInv'
<1>1. PoolParts(holding, waiting, AllRunning) /\ r \in AllRunning \ holding
  BY PoolInvParts DEF Acquire, AllRunning
<1>2. /\ IsFiniteSet(holding)
      /\ Cardinality(holding) \in Nat
      /\ MaxConns \in Nat
      /\ Cardinality(holding) <= MaxConns
  BY <1>1, PoolAssumption, FS_Subset, FS_CardinalityType DEF AllRunning, PoolParts
<1>3. UNCHANGED <<at, owner>> /\ AllRunning' = AllRunning
  BY DEF Acquire, AllRunning, Running, LastUse
<1>4. CASE Cardinality(holding) < MaxConns /\ waiting = <<>>
  <2>1. holding' = holding \union {r} /\ waiting' = <<>>
    BY <1>4 DEF Acquire
  <2>2. Cardinality(holding') = Cardinality(holding) + 1
    BY <1>1, <1>2, <2>1, FS_AddElement
  <2>3. PoolParts(holding', waiting', AllRunning)
    BY <1>1, <1>2, <1>4, <2>1, <2>2 DEF PoolParts
  <2> QED
    BY <1>3, <2>3, PoolInvParts, PoolInvPartsNext
<1>5. CASE ~(Cardinality(holding) < MaxConns /\ waiting = <<>>)
  <2>1. holding' = holding /\ waiting' = Append(waiting, r)
    BY <1>5 DEF Acquire
  <2>2. Cardinality(holding) = MaxConns
    BY <1>1, <1>2, <1>5 DEF PoolParts
  <2>3. waiting \in Seq(AllRunning \ holding) /\ DOMAIN waiting = 1 .. Len(waiting)
    BY <1>1, LenProperties DEF PoolParts
  <2>4. /\ waiting' \in Seq(AllRunning \ holding)
        /\ Len(waiting') = Len(waiting) + 1
        /\ \A i \in 1 .. Len(waiting) : waiting'[i] = waiting[i]
        /\ waiting'[Len(waiting) + 1] = r
    BY <1>1, <2>1, <2>3, AppendProperties
  <2>5. DOMAIN waiting' = 1 .. Len(waiting) + 1 /\ Len(waiting) \in Nat
    BY <2>3, <2>4, LenProperties
  <2>6. \A i \in 1 .. Len(waiting) : waiting[i] # r
    BY <2>3 DEF Acquire, IsWaiting
  <2>7. \A i, j \in DOMAIN waiting' : waiting'[i] = waiting'[j] => i = j
    BY <1>1, <2>3, <2>4, <2>5, <2>6 DEF PoolParts
  <2>8. PoolParts(holding', waiting', AllRunning)
    BY <1>1, <1>2, <2>1, <2>2, <2>4, <2>7 DEF PoolParts
  <2> QED
    BY <1>3, <2>8, PoolInvParts, PoolInvPartsNext
<1> QED
  BY <1>4, <1>5

\* A query or a transaction is over.
LEMMA FinishKeeps ==
  ASSUME PoolInv, NEW r \in holding, FinishQuery(r) \/ Commit(r) \/ Rollback(r)
  PROVE  PoolInv'
<1>1. r \in Requests /\ Running(r)
  BY PoolInvParts DEF PoolParts, AllRunning
<1>2. Release(r) /\ \E n \in at[r] + 1 .. LastUse(r) + 1 : at' = [at EXCEPT ![r] = n]
  <2>1. at[r] \in Nat /\ LastUse(r) \in Nat /\ at[r] + 1 \in at[r] + 1 .. LastUse(r) + 1
    BY <1>1, UsesTyped, PoolInvParts DEF Running
  <2> QED
    BY <2>1 DEF FinishQuery, Following, Commit, Rollback
<1>3. /\ at' \in [Requests -> Nat]
      /\ \A s \in Requests : at'[s] <= LastUse(s) + 1
      /\ AllRunning \ {r} \subseteq AllRunning'
  BY <1>1, <1>2, Moved
<1>4. PoolParts(holding', waiting', AllRunning \ {r})
  BY <1>2, ReleaseKeeps, PoolInvParts DEF AllRunning
<1>5. PoolParts(holding', waiting', AllRunning')
  BY <1>3, <1>4, MoreRunning
<1>6. owner' \in [Locks -> Requests \union {NoOne}]
  <2>1. r \in Requests
    BY <1>1
  <2> QED
    BY <2>1, PoolInvParts DEF FinishQuery, Commit, Rollback
<1> QED
  BY <1>3, <1>5, <1>6, PoolInvPartsNext

LEMMA GiveUpKeeps ==
  ASSUME PoolInv, NEW r \in Requests, GiveUp(r)
  PROVE  PoolInv'
<1>1. Running(r) /\ at' = [at EXCEPT ![r] = LastUse(r) + 1] /\ UNCHANGED owner
  BY DEF GiveUp, MayGiveUp
<1>2. /\ at' \in [Requests -> Nat]
      /\ \A s \in Requests : at'[s] <= LastUse(s) + 1
      /\ AllRunning \ {r} \subseteq AllRunning'
  <2>1. LastUse(r) + 1 \in at[r] + 1 .. LastUse(r) + 1
    BY <1>1, UsesTyped, PoolInvParts DEF Running
  <2> QED
    BY <1>1, <2>1, Moved
<1>3. PoolParts(holding, waiting, AllRunning) /\ AllRunning \in SUBSET Requests
  BY PoolInvParts DEF AllRunning
<1>4. PoolParts(holding', waiting', AllRunning \ {r})
  <2>1. CASE r \in holding /\ Release(r)
    BY <1>3, <2>1, ReleaseKeeps
  <2>2. CASE \E i \in DOMAIN waiting :
               /\ waiting[i] = r
               /\ waiting' = RemoveAt(waiting, i)
               /\ UNCHANGED holding
    BY <1>3, <2>2, LeaveQueueKeeps
  <2>3. CASE r \notin holding /\ ~IsWaiting(r) /\ UNCHANGED <<holding, waiting>>
    <3>1. waiting \in Seq(AllRunning \ holding) /\ DOMAIN waiting = 1 .. Len(waiting)
      BY <1>3, LenProperties DEF PoolParts
    <3>2. \A i \in 1 .. Len(waiting) : waiting[i] \in (AllRunning \ {r}) \ holding
      BY <2>3, <3>1, ElementOfSeq DEF IsWaiting
    <3>3. waiting \in Seq((AllRunning \ {r}) \ holding)
      BY <3>1, <3>2, SeqNarrowed
    <3> QED
      BY <1>3, <2>3, <3>3 DEF PoolParts
  <2> QED
    BY <2>1, <2>2, <2>3 DEF GiveUp, LeavePool
<1>5. PoolParts(holding', waiting', AllRunning')
  BY <1>2, <1>4, MoreRunning
<1> QED
  BY <1>1, <1>2, <1>5, PoolInvParts, PoolInvPartsNext

LEMMA CrashKeeps ==
  ASSUME PoolInv, PoolCrash
  PROVE  PoolInv'
<1>1. at' = [r \in Requests |-> IF Running(r) THEN LastUse(r) + 1 ELSE at[r]]
  BY DEF PoolCrash
<1>2. at' \in [Requests -> Nat] /\ \A r \in Requests : at'[r] <= LastUse(r) + 1
  BY <1>1, UsesTyped, PoolInvParts DEF LastUse
<1>3. MaxConns \in Nat
  BY PoolAssumption
<1>4. PoolParts({}, <<>>, AllRunning')
  BY <1>3, FS_EmptySet DEF PoolParts
<1> QED
  BY <1>2, <1>4, PoolInvParts, PoolInvPartsNext DEF PoolCrash

\* Steps that leave the connections and the queue alone.
LEMMA OthersKeep ==
  ASSUME PoolInv, holding' = holding, waiting' = waiting,
         at' \in [Requests -> Nat],
         \A r \in Requests : at'[r] = at[r] \/ (at[r] = 0 /\ at'[r] = 1),
         owner' \in [Locks -> Requests \union {NoOne}]
  PROVE  PoolInv'
<1>1. \A r \in Requests : at'[r] <= LastUse(r) + 1
  BY UsesTyped, PoolInvParts
<1>2. AllRunning \subseteq AllRunning'
  BY UsesTyped DEF AllRunning, Running, LastUse
<1>3. PoolParts(holding', waiting', AllRunning')
  BY <1>2, MoreRunning, PoolInvParts
<1> QED
  BY <1>1, <1>3, PoolInvPartsNext

LEMMA PoolInvInit == ServerInit => PoolInv
<1> SUFFICES ASSUME ServerInit PROVE PoolInv
  OBVIOUS
<1>1. MaxConns \in Nat
  BY PoolAssumption
<1>2. PoolParts({}, <<>>, AllRunning)
  BY <1>1, FS_EmptySet DEF PoolParts
<1> QED
  BY <1>2, UsesTyped, PoolInvParts DEF ServerInit, PoolInit

LEMMA PoolInvStep == PoolInv /\ [ServerNext]_serverVars => PoolInv'
<1> SUFFICES ASSUME PoolInv, [ServerNext]_serverVars PROVE PoolInv'
  OBVIOUS
<1>1. /\ at \in [Requests -> Nat]
      /\ owner \in [Locks -> Requests \union {NoOne}]
  BY PoolInvParts
<1>2. ASSUME NEW r \in Requests, Arrive(r) PROVE PoolInv'
  <2>1. holding' = holding /\ waiting' = waiting /\ at' \in [Requests -> Nat]
    BY <1>1, <1>2 DEF Arrive
  <2>2. \A s \in Requests : at'[s] = at[s] \/ (at[s] = 0 /\ at'[s] = 1)
    BY <1>1, <1>2 DEF Arrive
  <2>3. owner' \in [Locks -> Requests \union {NoOne}]
    BY <1>1, <1>2 DEF Arrive
  <2> QED
    BY <2>1, <2>2, <2>3, OthersKeep
<1>3. ASSUME NEW r \in Requests, Acquire(r) PROVE PoolInv'
  BY <1>3, AcquireKeeps
<1>4. ASSUME NEW r \in Requests, FinishQuery(r) \/ Commit(r) \/ Rollback(r) PROVE PoolInv'
  BY <1>4, FinishKeeps DEF FinishQuery, Commit, Rollback
<1>5. ASSUME NEW r \in Requests, LockRows(r) PROVE PoolInv'
  <2>1. holding' = holding /\ waiting' = waiting /\ at' \in [Requests -> Nat]
    BY <1>1, <1>5 DEF LockRows
  <2>2. \A s \in Requests : at'[s] = at[s] \/ (at[s] = 0 /\ at'[s] = 1)
    BY <1>1, <1>5 DEF LockRows
  <2>3. owner' \in [Locks -> Requests \union {NoOne}]
    BY <1>1, <1>5 DEF LockRows
  <2> QED
    BY <2>1, <2>2, <2>3, OthersKeep
<1>6. ASSUME NEW r \in Requests, GiveUp(r) PROVE PoolInv'
  BY <1>6, GiveUpKeeps
<1>7. CASE Rollbacks
  <2>1. holding' = holding /\ waiting' = waiting /\ at' \in [Requests -> Nat]
    BY <1>1, <1>7 DEF Rollbacks, DatabaseStep, ServerRollsBack
  <2>2. \A s \in Requests : at'[s] = at[s] \/ (at[s] = 0 /\ at'[s] = 1)
    BY <1>1, <1>7 DEF Rollbacks, DatabaseStep, ServerRollsBack
  <2>3. owner' \in [Locks -> Requests \union {NoOne}]
    BY <1>1, <1>7 DEF Rollbacks, DatabaseStep, ServerRollsBack
  <2> QED
    BY <2>1, <2>2, <2>3, OthersKeep
<1>8. CASE Crash
  BY <1>8, CrashKeeps DEF Crash
<1>9. CASE Starting \/ UNCHANGED serverVars
  <2>1. holding' = holding /\ waiting' = waiting /\ at' \in [Requests -> Nat]
    BY <1>1, <1>9 DEF Starting, serverVars, poolVars
  <2>2. \A s \in Requests : at'[s] = at[s] \/ (at[s] = 0 /\ at'[s] = 1)
    BY <1>1, <1>9 DEF Starting, serverVars, poolVars
  <2>3. owner' \in [Locks -> Requests \union {NoOne}]
    BY <1>1, <1>9 DEF Starting, serverVars, poolVars
  <2> QED
    BY <2>1, <2>2, <2>3, OthersKeep
<1> QED
  BY <1>2, <1>3, <1>4, <1>5, <1>6, <1>7, <1>8, <1>9
  DEF ServerNext, Serving, PoolStep, Progress

(***************************************************************************)
(* For any number of connections and requests, whatever they do and        *)
(* however they end: only running requests have connections or queue, in   *)
(* which nobody stands twice, and there are at most MaxConns connections.  *)
(***************************************************************************)
THEOREM PoolTypes == ServerSpec => []PoolTypeOK
<1>1. ServerInit => PoolInv
  BY PoolInvInit
<1>2. PoolInv /\ [ServerNext]_serverVars => PoolInv'
  BY PoolInvStep
<1>3. PoolInv => PoolTypeOK
  BY DEF PoolInv
<1> QED
  BY <1>1, <1>2, <1>3, PTL DEF ServerSpec

(***************************************************************************)
(* Whoever queues for a connection does so because all MaxConns of them    *)
(* are in the hands of running requests: no query that returns, Commit,    *)
(* Rollback or cancelled context leaves one with a request that is over.   *)
(***************************************************************************)
THEOREM PoolComplete == ServerSpec => []NoConnectionLost
<1>1. ServerInit => PoolInv
  BY PoolInvInit
<1>2. PoolInv /\ [ServerNext]_serverVars => PoolInv'
  BY PoolInvStep
<1>3. PoolInv => NoConnectionLost
  BY DEF PoolInv
<1> QED
  BY <1>1, <1>2, <1>3, PTL DEF ServerSpec
=============================================================================
