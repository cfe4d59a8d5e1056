------------------------ MODULE DeliveryOutboxProofs ------------------------
(***************************************************************************)
(* Proofs about DeliveryOutbox, for any number of deliveries and workers   *)
(* and any limits.                                                         *)
(***************************************************************************)
EXTENDS DeliveryOutbox, FiniteSetTheorems, SequenceTheorems, TLAPS

Queued(q) == q \in Seq(Deliveries) /\ IsInjective(q)

AnyRow == [status: {"PENDING", "SENT", "SKIPPED", "FAILED"}, attempts: Nat, lease: Nat,
           expired: BOOLEAN, token: BOOLEAN]
AnyWorker == [phase: Phases, job: Deliveries \cup {NoDelivery}, attempts: Nat, token: BOOLEAN]

(* Types without the bounds, which follow from what is counted below.      *)
Shapes ==
  /\ row \in [Deliveries -> AnyRow]
  /\ Queued(queue)
  /\ worker \in [Workers -> AnyWorker]
  /\ \A w \in Workers : IF worker[w].phase = "idle" THEN worker[w] = Resting ELSE worker[w].job \in Deliveries
  /\ consent \in SUBSET Deliveries
  /\ changes \in 0..MaxConsents
  /\ copies \in [Deliveries -> Nat]
  /\ lost \in [Deliveries -> Nat]
  /\ outages \in 0..MaxOutages

(* Claims of a delivery are numbered, and each has one worker at most.     *)
PreSend == {"claimed", "allowed", "ready"}
Claiming == PreSend \cup {"sent", "failed"}

On(w, d) == worker[w].phase \in Claiming /\ worker[w].job = d
ClaimOf(w) == worker[w].attempts + 1
HolderOf(w, d) == On(w, d) /\ row[d].lease = ClaimOf(w)

ClaimsIn(d, phases) ==
  {n \in 1..row[d].attempts : \E w \in Workers : On(w, d) /\ worker[w].phase \in phases /\ ClaimOf(w) = n}

ClaimsAreNumbered(d) ==
  /\ \A w \in Workers : On(w, d) => ClaimOf(w) <= row[d].attempts
  /\ \A w, x \in Workers : On(w, d) /\ On(x, d) /\ ClaimOf(w) = ClaimOf(x) => w = x
  /\ \A w \in Workers : worker[w].phase = "found" /\ worker[w].job = d => worker[w].attempts <= row[d].attempts
  /\ row[d].lease # 0 => row[d].lease = row[d].attempts /\ row[d].status = "PENDING"

(* A claim beyond MaxAttempts is owed to a lease that ran out under its    *)
(* holder, or that its holder left.                                        *)
Unheld(d) == row[d].expired \/ \A w \in Workers : ~HolderOf(w, d)

ClaimsAreCounted(d) ==
  /\ row[d].status = "FAILED" => row[d].attempts >= MaxAttempts
  /\ row[d].attempts <= MaxAttempts + outages
  /\ row[d].status = "PENDING" /\ row[d].lease = 0 => row[d].attempts < MaxAttempts
  /\ row[d].lease # 0 /\ Unheld(d) => row[d].attempts < MaxAttempts + outages

(* Every claim sends once at most.  A message was lost, or its claim was   *)
(* outlived by its lease or died, but for one: that of the running claim,  *)
(* or the one that was recorded.                                           *)
Overdue(d) == {n \in ClaimsIn(d, PreSend) : row[d].lease # n \/ row[d].expired}
SentInTime(d) == ~row[d].expired /\ \E w \in Workers : HolderOf(w, d) /\ worker[w].phase = "sent"
OneMore(d) == IF row[d].status = "SENT" \/ SentInTime(d) THEN 1 ELSE 0

MessagesAreCounted(d) ==
  /\ copies[d] + Cardinality(ClaimsIn(d, PreSend)) <= row[d].attempts
  /\ lost[d] + Cardinality(ClaimsIn(d, {"sent"})) <= copies[d]
  /\ copies[d] + Cardinality(Overdue(d)) <= lost[d] + outages + OneMore(d)
  /\ row[d].status = "SENT" => copies[d] > 0
  /\ \A w \in Workers : On(w, d) /\ worker[w].phase = "sent" => copies[d] > 0

InOrder(d) == ClaimsAreNumbered(d) /\ ClaimsAreCounted(d) /\ MessagesAreCounted(d)

OutboxInv == Shapes /\ \A d \in Deliveries : InOrder(d)

-----------------------------------------------------------------------------
(* The queue.                                                              *)

LEMMA AppendKeepsQueue ==
  ASSUME NEW q, Queued(q), NEW d \in Deliveries, d \notin ToSet(q)
  PROVE  Queued(Append(q, d))
BY DEF Queued, IsInjective, ToSet

LEMMA RemovalKeepsQueue ==
  ASSUME NEW q, Queued(q), NEW i \in DOMAIN q
  PROVE  Queued(RemoveAt(q, i))
<1> DEFINE a == SubSeq(q, 1, i - 1)
           b == SubSeq(q, i + 1, Len(q))
<1>1. q \in Seq(Deliveries) /\ Len(q) \in Nat /\ DOMAIN q = 1..Len(q) /\ i \in 1..Len(q)
  BY DEF Queued
<1>2. /\ a \in Seq(Deliveries) /\ Len(a) = i - 1
      /\ \A j \in 1..(i - 1) : a[j] = q[j]
  <2>1. \A j \in 1..(i - 1) : q[j] \in Deliveries
    BY <1>1, ElementOfSeq
  <2>2. 1 \in Int /\ i - 1 \in Int
    BY <1>1
  <2> QED
    BY <1>1, <2>1, <2>2, SubSeqProperties
<1>3. /\ b \in Seq(Deliveries) /\ Len(b) = Len(q) - i
      /\ \A j \in 1..(Len(q) - i) : b[j] = q[i + j]
  <2>1. \A j \in (i + 1)..Len(q) : q[j] \in Deliveries
    BY <1>1, ElementOfSeq
  <2>2. i + 1 \in Int /\ Len(q) \in Int
    BY <1>1
  <2>3. /\ b \in Seq(Deliveries)
        /\ Len(b) = IF i + 1 <= Len(q) THEN Len(q) - (i + 1) + 1 ELSE 0
        /\ \A j \in 1..(Len(q) - (i + 1) + 1) : b[j] = q[(i + 1) + j - 1]
    BY <2>1, <2>2, SubSeqProperties
  <2> QED
    BY <1>1, <2>3
<1> HIDE DEF a, b
<1>4. /\ a \o b \in Seq(Deliveries) /\ Len(a \o b) = Len(q) - 1
      /\ \A j \in 1..(Len(q) - 1) : (a \o b)[j] = IF j < i THEN q[j] ELSE q[j + 1]
  <2>1. /\ a \o b \in Seq(Deliveries) /\ Len(a \o b) = Len(a) + Len(b)
        /\ \A j \in 1..(Len(a) + Len(b)) : (a \o b)[j] = IF j <= Len(a) THEN a[j] ELSE b[j - Len(a)]
    BY <1>2, <1>3, ConcatProperties
  <2>2. Len(a) + Len(b) = Len(q) - 1
    BY <1>1, <1>2, <1>3
  <2>3. ASSUME NEW j \in 1..(Len(q) - 1), j < i PROVE (a \o b)[j] = q[j]
    <3>1. j \in 1..(i - 1) /\ j \in 1..(Len(a) + Len(b)) /\ j <= Len(a)
      BY <1>1, <1>2, <2>2, <2>3
    <3> QED
      BY <1>2, <2>1, <3>1
  <2>4. ASSUME NEW j \in 1..(Len(q) - 1), ~(j < i) PROVE (a \o b)[j] = q[j + 1]
    <3>1. j \in 1..(Len(a) + Len(b)) /\ ~(j <= Len(a)) /\ j - Len(a) \in 1..(Len(q) - i)
      BY <1>1, <1>2, <2>2, <2>4
    <3>2. (a \o b)[j] = b[j - Len(a)] /\ b[j - Len(a)] = q[i + (j - Len(a))]
      BY <1>3, <2>1, <3>1
    <3>3. i + (j - Len(a)) = j + 1
      BY <1>1, <1>2
    <3> QED
      BY <3>2, <3>3
  <2> QED
    BY <2>1, <2>2, <2>3, <2>4
<1>5. DOMAIN (a \o b) = 1..(Len(q) - 1)
  BY <1>4, LenProperties
<1>6. \A j, k \in 1..(Len(q) - 1) : (a \o b)[j] = (a \o b)[k] => j = k
  <2> DEFINE at(j) == IF j < i THEN j ELSE j + 1
  <2>1. SUFFICES ASSUME NEW j \in 1..(Len(q) - 1), NEW k \in 1..(Len(q) - 1), (a \o b)[j] = (a \o b)[k]
                 PROVE  j = k
    OBVIOUS
  <2>2. (a \o b)[j] = q[at(j)] /\ (a \o b)[k] = q[at(k)]
    BY <1>4
  <2>3. at(j) \in DOMAIN q /\ at(k) \in DOMAIN q
    BY <1>1
  <2>4. at(j) = at(k)
    BY <2>1, <2>2, <2>3 DEF Queued, IsInjective
  <2> QED
    BY <1>1, <2>4
<1>7. RemoveAt(q, i) = a \o b
  BY DEF RemoveAt, a, b
<1> QED
  BY <1>4, <1>5, <1>6, <1>7 DEF Queued, IsInjective

LEMMA InitialQueue ==
  ASSUME NEW q \in SetToSeqs(Deliveries)
  PROVE  Queued(q)
<1>1. Cardinality(Deliveries) \in Nat
  BY OutboxAssumption, FS_CardinalityType
<1>2. q \in [1..Cardinality(Deliveries) -> Deliveries] /\ \A i, j \in 1..Cardinality(Deliveries) : i # j => q[i] # q[j]
  BY DEF SetToSeqs
<1> QED
  BY <1>1, <1>2 DEF Queued, IsInjective

-----------------------------------------------------------------------------
(* Counting.                                                               *)

LEMMA ClaimsAreFinite ==
  ASSUME Shapes, NEW d \in Deliveries, NEW phases
  PROVE  /\ IsFiniteSet(ClaimsIn(d, phases)) /\ Cardinality(ClaimsIn(d, phases)) \in Nat
         /\ IsFiniteSet(Overdue(d)) /\ Cardinality(Overdue(d)) \in Nat
<1>1. row[d].attempts \in Nat
  BY DEF Shapes, AnyRow
<1>2. IsFiniteSet(1..row[d].attempts)
  BY <1>1, FS_Interval
<1>3. ClaimsIn(d, phases) \subseteq 1..row[d].attempts /\ Overdue(d) \subseteq 1..row[d].attempts
  BY DEF ClaimsIn, Overdue
<1>4. IsFiniteSet(ClaimsIn(d, phases)) /\ IsFiniteSet(Overdue(d))
  BY <1>2, <1>3, FS_Subset
<1> QED
  BY <1>4, FS_CardinalityType

LEMMA CountSame ==
  ASSUME NEW S, NEW T, IsFiniteSet(S), T \subseteq S
  PROVE  Cardinality(T) \in Nat /\ Cardinality(S) \in Nat /\ Cardinality(T) <= Cardinality(S)
BY FS_Subset, FS_CardinalityType

LEMMA CountLess ==
  ASSUME NEW S, NEW T, IsFiniteSet(S), NEW n \in S, T \subseteq S \ {n}
  PROVE  Cardinality(T) + 1 <= Cardinality(S)
<1>1. IsFiniteSet(S \ {n}) /\ Cardinality(S \ {n}) = Cardinality(S) - 1
  BY FS_RemoveElement
<1>2. Cardinality(S) \in Nat /\ Cardinality(T) <= Cardinality(S \ {n}) /\ Cardinality(T) \in Nat
  BY <1>1, CountSame, FS_CardinalityType
<1> QED
  BY <1>1, <1>2

LEMMA CountMore ==
  ASSUME NEW S, NEW T, IsFiniteSet(S), NEW n, T \subseteq S \cup {n}
  PROVE  Cardinality(T) <= Cardinality(S) + 1
<1>1. IsFiniteSet(S \cup {n}) /\ Cardinality(S \cup {n}) <= Cardinality(S) + 1
  <2>1. /\ IsFiniteSet(S \cup {n}) /\ Cardinality(S) \in Nat
        /\ Cardinality(S \cup {n}) = IF n \in S THEN Cardinality(S) ELSE Cardinality(S) + 1
    BY FS_AddElement, FS_CardinalityType
  <2> QED
    BY <2>1
<1>2. Cardinality(T) <= Cardinality(S \cup {n}) /\ Cardinality(T) \in Nat /\ Cardinality(S \cup {n}) \in Nat
  BY <1>1, CountSame
<1>3. Cardinality(S) \in Nat
  BY FS_CardinalityType
<1> QED
  BY <1>1, <1>2, <1>3

(* What a delivery has is a matter of its row, its messages and the        *)
(* workers on it.                                                          *)
LEMMA Undisturbed ==
  ASSUME Shapes, Shapes', NEW d \in Deliveries, InOrder(d),
         row'[d].status = row[d].status, row'[d].attempts = row[d].attempts,
         row'[d].lease = row[d].lease, row'[d].expired = row[d].expired,
         copies'[d] = copies[d], lost'[d] = lost[d], outages' >= outages,
         \A w \in Workers : On(w, d) \/ On(w, d)' =>
            On(w, d) /\ worker'[w].phase = worker[w].phase /\ worker'[w].job = worker[w].job
            /\ worker'[w].attempts = worker[w].attempts,
         \A w \in Workers : worker'[w].phase = "found" /\ worker'[w].job = d => worker'[w].attempts <= row[d].attempts
  PROVE  InOrder(d)'
<1>1. \A w \in Workers : /\ On(w, d)' <=> On(w, d)
                         /\ On(w, d) => ClaimOf(w)' = ClaimOf(w) /\ worker'[w].phase = worker[w].phase
                         /\ HolderOf(w, d)' <=> HolderOf(w, d)
  BY DEF On, ClaimOf, HolderOf
<1>2. ASSUME NEW phases PROVE ClaimsIn(d, phases)' = ClaimsIn(d, phases)
  BY <1>1 DEF ClaimsIn
<1>3. Overdue(d)' = Overdue(d) /\ OneMore(d)' = OneMore(d) /\ OneMore(d) \in {0, 1}
  <2>1. ClaimsIn(d, PreSend)' = ClaimsIn(d, PreSend)
    BY <1>2
  <2>2. SentInTime(d)' <=> SentInTime(d)
    BY <1>1 DEF SentInTime, HolderOf
  <2> QED
    BY <2>1, <2>2 DEF Overdue, OneMore
<1>4. ClaimsAreNumbered(d)'
  BY <1>1 DEF InOrder, ClaimsAreNumbered
<1>5. ClaimsAreCounted(d)'
  <2>1. row[d].attempts \in Nat /\ MaxAttempts \in Nat /\ outages \in Nat /\ outages' \in Nat
    BY OutboxAssumption DEF Shapes, AnyRow
  <2>2. Unheld(d)' => Unheld(d)
    BY <1>1 DEF Unheld
  <2> QED
    BY <2>1, <2>2 DEF InOrder, ClaimsAreCounted
<1>6. MessagesAreCounted(d)'
  <2>1. /\ copies[d] \in Nat /\ lost[d] \in Nat /\ outages \in Nat /\ outages' \in Nat
        /\ Cardinality(Overdue(d)) \in Nat
    <3>1. Cardinality(Overdue(d)) \in Nat
      BY ClaimsAreFinite
    <3> QED
      BY <3>1, OutboxAssumption DEF Shapes
  <2>2. copies[d] + Cardinality(Overdue(d)) <= lost[d] + outages' + OneMore(d)
    BY <1>3, <2>1 DEF InOrder, MessagesAreCounted
  <2>3. ClaimsIn(d, PreSend)' = ClaimsIn(d, PreSend) /\ ClaimsIn(d, {"sent"})' = ClaimsIn(d, {"sent"})
    BY <1>2
  <2>4. \A w \in Workers : On(w, d)' /\ worker'[w].phase = "sent" => copies'[d] > 0
    BY <1>1 DEF InOrder, MessagesAreCounted
  <2> QED
    BY <1>3, <2>2, <2>3, <2>4 DEF InOrder, MessagesAreCounted
<1> QED
  BY <1>4, <1>5, <1>6 DEF InOrder

-----------------------------------------------------------------------------
(* A worker leaves its claim, or goes on with it.                          *)

Goes(w, d, n) ==
  /\ On(w, d) /\ n = ClaimOf(w)
  /\ \A x \in Workers \ {w} : worker'[x] = worker[x]
  /\ \/ worker'[w].phase = "idle"
     \/ On(w, d)' /\ worker'[w].attempts = worker[w].attempts
  /\ row'[d].attempts = row[d].attempts

LEMMA ClaimsOfOthers ==
  ASSUME Shapes, NEW d \in Deliveries, ClaimsAreNumbered(d), NEW w \in Workers, NEW n, Goes(w, d, n)
  PROVE  /\ n \in 1..row[d].attempts
         /\ \A x \in Workers \ {w} : /\ On(x, d)' <=> On(x, d)
                                     /\ ClaimOf(x)' = ClaimOf(x) /\ worker'[x].phase = worker[x].phase
                                     /\ On(x, d) => ClaimOf(x) # n
         /\ On(w, d)' => ClaimOf(w)' = n
<1>1. worker[w].attempts \in Nat /\ row[d].attempts \in Nat
  BY DEF Shapes, AnyWorker, AnyRow
<1>2. n \in 1..row[d].attempts
  BY <1>1 DEF Goes, ClaimsAreNumbered, ClaimOf
<1>3. ASSUME NEW x \in Workers \ {w}
      PROVE  /\ On(x, d)' <=> On(x, d)
             /\ ClaimOf(x)' = ClaimOf(x) /\ worker'[x].phase = worker[x].phase
             /\ On(x, d) => ClaimOf(x) # n
  <2>1. worker'[x] = worker[x]
    BY <1>3 DEF Goes
  <2>2. On(x, d) => ClaimOf(x) # n
    BY <1>3 DEF Goes, ClaimsAreNumbered
  <2> QED
    BY <2>1, <2>2 DEF On, ClaimOf
<1>4. On(w, d)' => ClaimOf(w)' = n
  BY DEF Goes, ClaimOf, On, Claiming, PreSend
<1> QED
  BY <1>2, <1>3, <1>4

LEMMA ClaimsAfter ==
  ASSUME Shapes, NEW d \in Deliveries, ClaimsAreNumbered(d), NEW w \in Workers, NEW n, Goes(w, d, n),
         NEW phases \in SUBSET Claiming
  PROVE  /\ ClaimsIn(d, phases)' =
              (ClaimsIn(d, phases) \ {n}) \cup (IF worker'[w].phase \in phases THEN {n} ELSE {})
         /\ n \in ClaimsIn(d, phases) <=> worker[w].phase \in phases
<1>0. /\ n \in 1..row[d].attempts
      /\ \A x \in Workers \ {w} : /\ On(x, d)' <=> On(x, d)
                                  /\ ClaimOf(x)' = ClaimOf(x) /\ worker'[x].phase = worker[x].phase
                                  /\ On(x, d) => ClaimOf(x) # n
      /\ On(w, d)' => ClaimOf(w)' = n
  BY ClaimsOfOthers
<1>1. On(w, d) /\ n = ClaimOf(w) /\ row'[d].attempts = row[d].attempts
  BY DEF Goes
<1>2. worker'[w].phase \in phases => On(w, d)'
  BY DEF Goes, Claiming, PreSend
<1>3. n \in ClaimsIn(d, phases) <=> worker[w].phase \in phases
  BY <1>0, <1>1 DEF ClaimsIn
<1>4. n \in ClaimsIn(d, phases)' <=> worker'[w].phase \in phases
  BY <1>0, <1>1, <1>2 DEF ClaimsIn
<1>5. ASSUME NEW m, m # n PROVE m \in ClaimsIn(d, phases)' <=> m \in ClaimsIn(d, phases)
  <2>1. ASSUME m \in ClaimsIn(d, phases)' PROVE m \in ClaimsIn(d, phases)
    <3>1. PICK x \in Workers : On(x, d)' /\ worker'[x].phase \in phases /\ ClaimOf(x)' = m
      BY <2>1 DEF ClaimsIn
    <3>2. x # w
      BY <1>0, <1>5, <3>1
    <3> QED
      BY <1>0, <1>1, <2>1, <3>1, <3>2 DEF ClaimsIn
  <2>2. ASSUME m \in ClaimsIn(d, phases) PROVE m \in ClaimsIn(d, phases)'
    <3>1. PICK x \in Workers : On(x, d) /\ worker[x].phase \in phases /\ ClaimOf(x) = m
      BY <2>2 DEF ClaimsIn
    <3>2. x # w
      BY <1>1, <1>5, <3>1
    <3> QED
      BY <1>0, <1>1, <2>2, <3>1, <3>2 DEF ClaimsIn
  <2> QED
    BY <2>1, <2>2
<1>6. ASSUME NEW m
      PROVE  m \in ClaimsIn(d, phases)' <=>
               m \in (ClaimsIn(d, phases) \ {n}) \cup (IF worker'[w].phase \in phases THEN {n} ELSE {})
  BY <1>3, <1>4, <1>5
<1> QED
  BY <1>3, <1>6

LEMMA NumbersKept ==
  ASSUME Shapes, NEW d \in Deliveries, ClaimsAreNumbered(d), NEW w \in Workers, NEW n, Goes(w, d, n),
         row'[d].lease # 0 => row'[d].lease = row[d].lease /\ row'[d].status = row[d].status
  PROVE  ClaimsAreNumbered(d)'
<1>0. /\ n \in 1..row[d].attempts
      /\ \A x \in Workers \ {w} : /\ On(x, d)' <=> On(x, d)
                                  /\ ClaimOf(x)' = ClaimOf(x) /\ worker'[x].phase = worker[x].phase
                                  /\ On(x, d) => ClaimOf(x) # n
      /\ On(w, d)' => ClaimOf(w)' = n
  BY ClaimsOfOthers
<1>1. row'[d].attempts = row[d].attempts /\ row[d].attempts \in Nat
  BY DEF Goes, Shapes, AnyRow
<1>2. ASSUME NEW x \in Workers, On(x, d)' PROVE ClaimOf(x)' <= row'[d].attempts
  BY <1>0, <1>1, <1>2 DEF ClaimsAreNumbered
<1>3. ASSUME NEW x \in Workers, NEW y \in Workers, On(x, d)', On(y, d)', ClaimOf(x)' = ClaimOf(y)' PROVE x = y
  BY <1>0, <1>3 DEF ClaimsAreNumbered
<1>4. ASSUME NEW x \in Workers, worker'[x].phase = "found", worker'[x].job = d
      PROVE  worker'[x].attempts <= row'[d].attempts
  <2>1. x # w
    BY <1>4 DEF Goes, On, Claiming, PreSend
  <2>2. worker'[x] = worker[x]
    BY <2>1 DEF Goes
  <2> QED
    BY <1>1, <1>4, <2>2 DEF ClaimsAreNumbered
<1>5. row'[d].lease # 0 => row'[d].lease = row'[d].attempts /\ row'[d].status = "PENDING"
  BY <1>1 DEF ClaimsAreNumbered
<1> QED
  BY <1>2, <1>3, <1>4, <1>5 DEF ClaimsAreNumbered

(* The row stays leased as it is.                                          *)
SameLease(d) ==
  /\ row'[d].status = row[d].status /\ row'[d].attempts = row[d].attempts
  /\ row'[d].lease = row[d].lease /\ row'[d].expired = row[d].expired

LEMMA CountsKept ==
  ASSUME Shapes, Shapes', NEW d \in Deliveries, InOrder(d), NEW w \in Workers, NEW n, Goes(w, d, n),
         SameLease(d), outages' >= outages,
         HolderOf(w, d) => On(w, d)' \/ outages' = outages + 1
  PROVE  ClaimsAreCounted(d)'
<1>0. /\ n \in 1..row[d].attempts
      /\ \A x \in Workers \ {w} : (On(x, d)' <=> On(x, d)) /\ ClaimOf(x)' = ClaimOf(x)
      /\ On(w, d)' => ClaimOf(w)' = n
  BY ClaimsOfOthers DEF InOrder
<1>1. row[d].attempts \in Nat /\ MaxAttempts \in Nat /\ outages \in Nat /\ outages' \in Nat
  BY OutboxAssumption DEF Shapes, AnyRow
<1>2. Unheld(d)' => Unheld(d) \/ outages' = outages + 1
  <2>1. SUFFICES ASSUME Unheld(d)', ~Unheld(d), outages' # outages + 1 PROVE FALSE
    OBVIOUS
  <2>2. PICK x \in Workers : HolderOf(x, d)
    BY <2>1 DEF Unheld
  <2>3. ~HolderOf(x, d)'
    BY <2>1 DEF Unheld, SameLease
  <2>4. CASE x = w
    BY <1>0, <2>1, <2>2, <2>3, <2>4 DEF HolderOf, SameLease, Goes
  <2>5. CASE x # w
    BY <1>0, <2>2, <2>3, <2>5 DEF HolderOf, SameLease
  <2> QED
    BY <2>4, <2>5
<1>3. row[d].lease # 0 /\ Unheld(d)' => row[d].attempts < MaxAttempts + outages'
  BY <1>1, <1>2 DEF InOrder, ClaimsAreCounted
<1> QED
  BY <1>1, <1>3 DEF InOrder, ClaimsAreCounted, SameLease

LEMMA OneMoreKept ==
  ASSUME Shapes, Shapes', NEW d \in Deliveries, InOrder(d), NEW w \in Workers, NEW n, Goes(w, d, n),
         SameLease(d)
  PROVE  /\ OneMore(d) \in {0, 1} /\ OneMore(d)' \in {0, 1}
         /\ ~(HolderOf(w, d) /\ worker[w].phase = "sent") => OneMore(d)' >= OneMore(d)
         /\ HolderOf(w, d) /\ ~row[d].expired /\ worker[w].phase # "sent" => OneMore(d) = 0
         /\ HolderOf(w, d) /\ ~row[d].expired /\ worker'[w].phase = "sent" => OneMore(d)' = 1
<1>0. /\ n \in 1..row[d].attempts /\ n = ClaimOf(w)
      /\ \A x \in Workers \ {w} : /\ On(x, d)' <=> On(x, d)
                                  /\ ClaimOf(x)' = ClaimOf(x) /\ worker'[x].phase = worker[x].phase
                                  /\ On(x, d) => ClaimOf(x) # n
      /\ On(w, d)' => ClaimOf(w)' = n
  BY ClaimsOfOthers DEF InOrder, Goes
<1>1. OneMore(d) \in {0, 1} /\ OneMore(d)' \in {0, 1}
  BY DEF OneMore
<1>2. ASSUME ~(HolderOf(w, d) /\ worker[w].phase = "sent"), SentInTime(d) PROVE SentInTime(d)'
  <2>1. PICK x \in Workers : HolderOf(x, d) /\ worker[x].phase = "sent"
    BY <1>2 DEF SentInTime
  <2>2. x # w
    BY <1>2, <2>1
  <2>3. HolderOf(x, d)' /\ worker'[x].phase = "sent"
    BY <1>0, <2>1, <2>2 DEF HolderOf, SameLease
  <2> QED
    BY <1>2, <2>3 DEF SentInTime, SameLease
<1>3. ASSUME HolderOf(w, d), ~row[d].expired, worker[w].phase # "sent" PROVE OneMore(d) = 0
  <2>1. row[d].lease = n /\ row[d].lease # 0 /\ row[d].status = "PENDING"
    BY <1>0, <1>3 DEF HolderOf, InOrder, ClaimsAreNumbered
  <2>2. ~SentInTime(d)
    BY <1>0, <1>3, <2>1 DEF SentInTime, HolderOf
  <2> QED
    BY <2>1, <2>2 DEF OneMore
<1>4. ASSUME HolderOf(w, d), ~row[d].expired, worker'[w].phase = "sent" PROVE OneMore(d)' = 1
  <2>1. On(w, d)' /\ ClaimOf(w)' = n /\ row[d].lease = n
    BY <1>0, <1>4 DEF Goes, HolderOf
  <2>2. HolderOf(w, d)'
    BY <2>1 DEF HolderOf, SameLease
  <2>3. SentInTime(d)'
    BY <1>4, <2>2 DEF SentInTime, SameLease
  <2> QED
    BY <2>3 DEF OneMore
<1>5. ~(HolderOf(w, d) /\ worker[w].phase = "sent") => OneMore(d)' >= OneMore(d)
  BY <1>2 DEF OneMore, SameLease
<1> QED
  BY <1>1, <1>3, <1>4, <1>5

(* What a step of a worker on its claim does to the messages.              *)
Moves(w, d) ==
  \/ /\ worker[w].phase \in PreSend /\ worker'[w].phase \in PreSend
     /\ copies'[d] = copies[d] /\ lost'[d] = lost[d]
  \/ /\ worker[w].phase \in PreSend /\ worker'[w].phase = "sent"
     /\ copies'[d] = copies[d] + 1 /\ lost'[d] = lost[d]
  \/ /\ worker[w].phase \in PreSend /\ worker'[w].phase = "failed"
     /\ copies'[d] = copies[d] + 1 /\ lost'[d] = lost[d] + 1
  \/ /\ worker[w].phase \in PreSend /\ worker'[w].phase = "failed"
     /\ copies'[d] = copies[d] /\ lost'[d] = lost[d]
  \/ /\ worker[w].phase = "sent" /\ worker'[w].phase = "failed"
     /\ copies'[d] = copies[d] /\ lost'[d] = lost[d] + 1
  \/ /\ worker'[w].phase = "idle" /\ copies'[d] = copies[d] /\ lost'[d] = lost[d]
     /\ HolderOf(w, d) => outages' = outages + 1

LEMMA MessagesKept ==
  ASSUME Shapes, Shapes', NEW d \in Deliveries, InOrder(d), NEW w \in Workers, NEW n, Goes(w, d, n),
         SameLease(d), outages' >= outages, Moves(w, d)
  PROVE  MessagesAreCounted(d)'
<1> DEFINE P == ClaimsIn(d, PreSend)
           Q == ClaimsIn(d, {"sent"})
           O == Overdue(d)
<1>a. PICK p, q, o, p1, q1, o1 :
        /\ p = P /\ q = Q /\ o = O
        /\ p1 = P' /\ q1 = Q' /\ o1 = O'
  OBVIOUS
<1>b. /\ IsFiniteSet(p) /\ IsFiniteSet(q) /\ IsFiniteSet(o)
      /\ Cardinality(p) \in Nat /\ Cardinality(q) \in Nat /\ Cardinality(o) \in Nat
  <2>1. \A phases : /\ IsFiniteSet(ClaimsIn(d, phases)) /\ Cardinality(ClaimsIn(d, phases)) \in Nat
                    /\ IsFiniteSet(O) /\ Cardinality(O) \in Nat
    BY ClaimsAreFinite
  <2> QED
    BY <1>a, <2>1
<1>c. /\ p1 = (p \ {n}) \cup (IF worker'[w].phase \in PreSend THEN {n} ELSE {})
      /\ n \in p <=> worker[w].phase \in PreSend
      /\ q1 = (q \ {n}) \cup (IF worker'[w].phase = "sent" THEN {n} ELSE {})
      /\ n \in q <=> worker[w].phase = "sent"
  <2>1. PreSend \in SUBSET Claiming /\ {"sent"} \in SUBSET Claiming /\ ClaimsAreNumbered(d)
    BY DEF Claiming, InOrder
  <2>2. /\ P' = (P \ {n}) \cup (IF worker'[w].phase \in PreSend THEN {n} ELSE {})
        /\ n \in P <=> worker[w].phase \in PreSend
    BY <2>1, ClaimsAfter
  <2>3. /\ Q' = (Q \ {n}) \cup (IF worker'[w].phase \in {"sent"} THEN {n} ELSE {})
        /\ n \in Q <=> worker[w].phase \in {"sent"}
    BY <2>1, ClaimsAfter
  <2> QED
    BY <1>a, <2>2, <2>3
<1>d. /\ o = {m \in p : row[d].lease # m \/ row[d].expired}
      /\ o1 = {m \in p1 : row[d].lease # m \/ row[d].expired}
  BY <1>a DEF Overdue, SameLease
<1>e. (HolderOf(w, d) /\ ~row[d].expired) <=> ~(row[d].lease # n \/ row[d].expired)
  BY DEF HolderOf, Goes
<1>f. /\ copies[d] \in Nat /\ lost[d] \in Nat /\ outages \in Nat /\ outages' \in Nat /\ row[d].attempts \in Nat
      /\ copies'[d] \in Nat /\ lost'[d] \in Nat
  BY OutboxAssumption DEF Shapes, AnyRow
<1>g. /\ copies[d] + Cardinality(p) <= row[d].attempts
      /\ lost[d] + Cardinality(q) <= copies[d]
      /\ copies[d] + Cardinality(o) <= lost[d] + outages + OneMore(d)
      /\ row[d].status = "SENT" => copies[d] > 0
      /\ \A x \in Workers : On(x, d) /\ worker[x].phase = "sent" => copies[d] > 0
  BY <1>a DEF InOrder, MessagesAreCounted
<1>h. PICK m, m1 : m = OneMore(d) /\ m1 = OneMore(d)'
  OBVIOUS
<1>i. /\ m \in {0, 1} /\ m1 \in {0, 1}
      /\ ~(HolderOf(w, d) /\ worker[w].phase = "sent") => m1 >= m
      /\ HolderOf(w, d) /\ ~row[d].expired /\ worker[w].phase # "sent" => m = 0
      /\ HolderOf(w, d) /\ ~row[d].expired /\ worker'[w].phase = "sent" => m1 = 1
  BY <1>h, OneMoreKept
<1> HIDE DEF P, Q, O
<1>1. /\ copies'[d] + Cardinality(p1) <= row[d].attempts
      /\ lost'[d] + Cardinality(q1) <= copies'[d]
      /\ copies'[d] + Cardinality(o1) <= lost'[d] + outages' + m1
  <2>1. ASSUME worker[w].phase \in PreSend, worker'[w].phase \notin PreSend
        PROVE  /\ Cardinality(p1) + 1 <= Cardinality(p) /\ Cardinality(p1) \in Nat
               /\ Cardinality(o1) <= Cardinality(o) /\ Cardinality(o1) \in Nat
               /\ ~(HolderOf(w, d) /\ ~row[d].expired) => Cardinality(o1) + 1 <= Cardinality(o)
    <3>1. n \in p /\ p1 \subseteq p \ {n}
      BY <1>c, <2>1
    <3>2. o1 \subseteq o \ {n} /\ o1 \subseteq o
      BY <1>d, <3>1
    <3>3. ~(HolderOf(w, d) /\ ~row[d].expired) => n \in o
      BY <1>d, <1>e, <3>1
    <3>4. p1 \subseteq p
      BY <3>1
    <3> QED
      BY <1>b, <3>1, <3>2, <3>3, <3>4, CountLess, CountSame
  <2>2. ASSUME worker[w].phase \in PreSend <=> worker'[w].phase \in PreSend
        PROVE  p1 = p /\ o1 = o
    BY <1>c, <1>d, <2>2
  <2>3. ASSUME worker'[w].phase # "sent"
        PROVE  /\ Cardinality(q1) <= Cardinality(q) /\ Cardinality(q1) \in Nat
               /\ worker[w].phase = "sent" => Cardinality(q1) + 1 <= Cardinality(q)
    <3>1. q1 \subseteq q \ {n} /\ q1 \subseteq q /\ (worker[w].phase = "sent" => n \in q)
      BY <1>c, <2>3
    <3> QED
      BY <1>b, <3>1, CountLess, CountSame
  <2>4. ASSUME worker'[w].phase = "sent"
        PROVE  Cardinality(q1) <= Cardinality(q) + 1 /\ Cardinality(q1) \in Nat
    <3>1. q1 \subseteq q \cup {n}
      BY <1>c, <2>4
    <3>2. IsFiniteSet(q \cup {n})
      BY <1>b, FS_AddElement
    <3> QED
      BY <1>b, <3>1, <3>2, CountMore, CountSame
  <2>5. CASE worker[w].phase \in PreSend /\ worker'[w].phase \in PreSend
             /\ copies'[d] = copies[d] /\ lost'[d] = lost[d]
    BY <1>b, <1>f, <1>g, <1>h, <1>i, <2>2, <2>3, <2>5 DEF PreSend
  <2>6. CASE worker[w].phase \in PreSend /\ worker'[w].phase = "sent"
             /\ copies'[d] = copies[d] + 1 /\ lost'[d] = lost[d]
    BY <1>b, <1>f, <1>g, <1>h, <1>i, <2>1, <2>4, <2>6 DEF PreSend
  <2>7. CASE worker[w].phase \in PreSend /\ worker'[w].phase = "failed"
             /\ \E k \in {0, 1} : copies'[d] = copies[d] + k /\ lost'[d] = lost[d] + k
    BY <1>b, <1>f, <1>g, <1>h, <1>i, <2>1, <2>3, <2>7 DEF PreSend
  <2>8. CASE worker[w].phase = "sent" /\ worker'[w].phase = "failed"
             /\ copies'[d] = copies[d] /\ lost'[d] = lost[d] + 1
    BY <1>b, <1>f, <1>g, <1>h, <1>i, <2>2, <2>3, <2>8 DEF PreSend
  <2>9. CASE worker'[w].phase = "idle" /\ copies'[d] = copies[d] /\ lost'[d] = lost[d]
             /\ (HolderOf(w, d) => outages' = outages + 1)
    <3>1. Cardinality(p1) <= Cardinality(p) /\ Cardinality(o1) <= Cardinality(o)
          /\ Cardinality(p1) \in Nat /\ Cardinality(o1) \in Nat
      <4>1. p1 \subseteq p /\ o1 \subseteq o
        BY <1>c, <1>d, <2>9 DEF PreSend
      <4> QED
        BY <1>b, <4>1, CountSame
    <3> QED
      BY <1>b, <1>f, <1>g, <1>h, <1>i, <2>3, <2>9, <3>1
  <2> QED
    BY <1>f, <2>5, <2>6, <2>7, <2>8, <2>9 DEF Moves
<1>2. copies'[d] >= copies[d] /\ (worker'[w].phase = "sent" => copies'[d] > 0)
  BY <1>f DEF Moves, PreSend
<1>3. row'[d].status = "SENT" => copies'[d] > 0
  BY <1>2, <1>f, <1>g DEF SameLease
<1>4. ASSUME NEW x \in Workers, On(x, d)', worker'[x].phase = "sent" PROVE copies'[d] > 0
  <2>1. CASE x = w
    BY <1>2, <1>4, <2>1
  <2>2. CASE x # w
    <3>1. On(x, d) /\ worker[x].phase = "sent"
      BY <1>4, <2>2 DEF Goes, On
    <3> QED
      BY <1>2, <1>f, <1>g, <3>1
  <2> QED
    BY <2>1, <2>2
<1> QED
  BY <1>1, <1>3, <1>4, <1>a, <1>h DEF MessagesAreCounted, SameLease, P, Q, O

(* The other deliveries do not notice.                                     *)
LEMMA OthersKept ==
  ASSUME Shapes, Shapes', NEW d \in Deliveries, NEW w \in Workers, NEW e \in Deliveries \ {d}, InOrder(e),
         SameLease(e), copies'[e] = copies[e], lost'[e] = lost[e], outages' >= outages,
         \A x \in Workers \ {w} : worker'[x] = worker[x],
         worker[w].job = d, worker'[w].phase = "idle" \/ worker'[w].job = d
  PROVE  InOrder(e)'
<1>1. ASSUME NEW x \in Workers, On(x, e) \/ On(x, e)'
      PROVE  /\ On(x, e) /\ worker'[x].phase = worker[x].phase /\ worker'[x].job = worker[x].job
             /\ worker'[x].attempts = worker[x].attempts
  <2>1. x # w
    BY <1>1 DEF On, Claiming, PreSend
  <2> QED
    BY <1>1, <2>1 DEF On
<1>2. ASSUME NEW x \in Workers, worker'[x].phase = "found", worker'[x].job = e
      PROVE  worker'[x].attempts <= row[e].attempts
  <2>1. x # w
    BY <1>2
  <2> QED
    BY <1>2, <2>1 DEF InOrder, ClaimsAreNumbered
<1> QED
  BY <1>1, <1>2, Undisturbed DEF SameLease

LEMMA ClaimStepKeepsInv ==
  ASSUME OutboxInv, Shapes', NEW d \in Deliveries, NEW w \in Workers, NEW n, Goes(w, d, n),
         Moves(w, d), outages' >= outages, \A e \in Deliveries : SameLease(e),
         \A e \in Deliveries \ {d} : copies'[e] = copies[e] /\ lost'[e] = lost[e]
  PROVE  OutboxInv'
<1>0. Shapes /\ InOrder(d)
  BY DEF OutboxInv
<1>1. ClaimsAreNumbered(d)'
  BY <1>0, NumbersKept DEF InOrder, SameLease
<1>2. HolderOf(w, d) => On(w, d)' \/ outages' = outages + 1
  BY DEF Moves, Goes, PreSend
<1>3. ClaimsAreCounted(d)'
  BY <1>0, <1>2, CountsKept
<1>4. MessagesAreCounted(d)'
  BY <1>0, MessagesKept
<1>5. worker[w].job = d /\ (worker'[w].phase = "idle" \/ worker'[w].job = d)
      /\ \A x \in Workers \ {w} : worker'[x] = worker[x]
  BY DEF Goes, On
<1>6. ASSUME NEW e \in Deliveries \ {d} PROVE InOrder(e)'
  BY <1>0, <1>5, OthersKept DEF OutboxInv
<1> QED
  BY <1>1, <1>3, <1>4, <1>6 DEF OutboxInv, InOrder

(* The holder of the lease settles the row.                                *)
LEMMA SettlingKeepsInv ==
  ASSUME OutboxInv, Shapes', NEW d \in Deliveries, NEW w \in Workers, NEW n, Goes(w, d, n),
         HolderOf(w, d), worker'[w].phase = "idle",
         row'[d].lease = 0,
         \/ worker[w].phase \in PreSend /\ row'[d].status = "SKIPPED"
         \/ worker[w].phase = "sent" /\ row'[d].status = "SENT"
         \/ worker[w].phase = "failed" /\ row'[d].status = "FAILED" /\ n >= MaxAttempts
         \/ worker[w].phase = "failed" /\ row'[d].status = "PENDING" /\ n < MaxAttempts,
         \A e \in Deliveries \ {d} : SameLease(e),
         UNCHANGED <<copies, lost, outages>>
  PROVE  OutboxInv'
<1>0. Shapes /\ InOrder(d) /\ row[d].attempts \in Nat /\ MaxAttempts \in Nat /\ outages \in Nat
      /\ copies[d] \in Nat /\ lost[d] \in Nat
  BY OutboxAssumption DEF OutboxInv, Shapes, AnyRow
<1>1. ClaimsAreNumbered(d)'
  BY <1>0, NumbersKept DEF InOrder
<1>2. /\ n = ClaimOf(w) /\ row[d].lease = n /\ n # 0 /\ row[d].attempts = n /\ row[d].status = "PENDING"
      /\ row'[d].attempts = n
  <2>1. n \in 1..row[d].attempts /\ n = ClaimOf(w) /\ row[d].lease = n /\ row'[d].attempts = row[d].attempts
    BY <1>0, ClaimsOfOthers DEF InOrder, Goes, HolderOf
  <2> QED
    BY <1>0, <2>1 DEF InOrder, ClaimsAreNumbered
<1>3. ClaimsAreCounted(d)'
  BY <1>0, <1>2 DEF InOrder, ClaimsAreCounted
<1>4. MessagesAreCounted(d)'
  <2>1. PreSend \in SUBSET Claiming /\ {"sent"} \in SUBSET Claiming /\ ClaimsAreNumbered(d)
    BY <1>0 DEF Claiming, InOrder
  <2>2. ClaimsIn(d, PreSend)' \subseteq ClaimsIn(d, PreSend) \ {n}
    BY <1>0, <2>1, ClaimsAfter DEF PreSend
  <2>3. ClaimsIn(d, {"sent"})' \subseteq ClaimsIn(d, {"sent"})
    BY <1>0, <2>1, ClaimsAfter
  <2>4. Overdue(d)' \subseteq Overdue(d)
    BY <1>2, <2>2 DEF Overdue
  <2>5. /\ Cardinality(ClaimsIn(d, PreSend)') <= Cardinality(ClaimsIn(d, PreSend))
        /\ Cardinality(ClaimsIn(d, PreSend)') \in Nat /\ Cardinality(ClaimsIn(d, PreSend)) \in Nat
    BY <1>0, <2>2, ClaimsAreFinite, CountSame
  <2>6. /\ Cardinality(ClaimsIn(d, {"sent"})') <= Cardinality(ClaimsIn(d, {"sent"}))
        /\ Cardinality(ClaimsIn(d, {"sent"})') \in Nat /\ Cardinality(ClaimsIn(d, {"sent"})) \in Nat
    BY <1>0, <2>3, ClaimsAreFinite, CountSame
  <2>7. IsFiniteSet(Overdue(d))
    BY <1>0, ClaimsAreFinite
  <2>8. /\ Cardinality(Overdue(d)') <= Cardinality(Overdue(d))
        /\ Cardinality(Overdue(d)') \in Nat /\ Cardinality(Overdue(d)) \in Nat
    BY <2>4, <2>7, CountSame
  <2>9. OneMore(d)' >= OneMore(d) /\ OneMore(d) \in {0, 1} /\ OneMore(d)' \in {0, 1}
    <3>1. CASE worker[w].phase = "sent"
      BY <3>1 DEF OneMore, PreSend
    <3>2. CASE worker[w].phase # "sent"
      <4>1. ~SentInTime(d)
        BY <1>0, <1>2, <3>2, ClaimsOfOthers DEF SentInTime, HolderOf, InOrder
      <4> QED
        BY <1>2, <4>1 DEF OneMore
    <3> QED
      BY <3>1, <3>2
  <2>10. row'[d].status = "SENT" => copies'[d] > 0
    BY <1>0 DEF InOrder, MessagesAreCounted, Goes, PreSend
  <2>11. ASSUME NEW x \in Workers, On(x, d)', worker'[x].phase = "sent" PROVE copies'[d] > 0
    <3>1. x # w
      BY <2>11
    <3> QED
      BY <1>0, <2>11, <3>1, ClaimsOfOthers DEF InOrder, MessagesAreCounted
  <2> HIDE DEF Overdue, ClaimsIn, OneMore
  <2> QED
    BY <1>0, <1>2, <2>5, <2>6, <2>8, <2>9, <2>10, <2>11 DEF InOrder, MessagesAreCounted
<1>5. worker[w].job = d /\ \A x \in Workers \ {w} : worker'[x] = worker[x]
  BY DEF Goes, On
<1>6. ASSUME NEW e \in Deliveries \ {d} PROVE InOrder(e)'
  BY <1>0, <1>5, OthersKept DEF OutboxInv
<1> QED
  BY <1>1, <1>3, <1>4, <1>6 DEF OutboxInv, InOrder

(* A row that is due is claimed anew: whoever held it is overdue.          *)
LEMMA ClaimingKeepsInv ==
  ASSUME OutboxInv, Shapes', NEW d \in Deliveries, NEW w \in Workers, NEW n,
         worker[w].phase = "found", worker[w].job = d, worker[w].attempts = row[d].attempts,
         n = row[d].attempts + 1, row[d].status = "PENDING", row[d].lease = 0 \/ row[d].expired,
         worker'[w].phase = "claimed", worker'[w].job = d, worker'[w].attempts = worker[w].attempts,
         \A x \in Workers \ {w} : worker'[x] = worker[x],
         row'[d].attempts = n, row'[d].lease = n, ~row'[d].expired, row'[d].status = "PENDING",
         \A e \in Deliveries \ {d} : SameLease(e),
         UNCHANGED <<copies, lost, outages>>
  PROVE  OutboxInv'
<1>0. Shapes /\ InOrder(d) /\ row[d].attempts \in Nat /\ MaxAttempts \in Nat /\ outages \in Nat
      /\ copies[d] \in Nat /\ lost[d] \in Nat /\ row[d].lease \in Nat
  BY OutboxAssumption DEF OutboxInv, Shapes, AnyRow
<1>1. /\ On(w, d)' /\ ~On(w, d) /\ ClaimOf(w)' = n
      /\ \A x \in Workers \ {w} : /\ On(x, d)' <=> On(x, d)
                                  /\ ClaimOf(x)' = ClaimOf(x) /\ worker'[x].phase = worker[x].phase
                                  /\ On(x, d) => ClaimOf(x) <= row[d].attempts
  BY <1>0 DEF On, ClaimOf, Claiming, PreSend, InOrder, ClaimsAreNumbered
<1>2. \A x \in Workers : ClaimOf(x) \in Nat
  BY <1>0 DEF ClaimOf, Shapes, AnyWorker
<1>3. ClaimsAreNumbered(d)'
  <2>1. ASSUME NEW x \in Workers, On(x, d)' PROVE ClaimOf(x)' <= row'[d].attempts
    BY <1>0, <1>1, <1>2, <2>1
  <2>2. ASSUME NEW x \in Workers, NEW y \in Workers, On(x, d)', On(y, d)', ClaimOf(x)' = ClaimOf(y)' PROVE x = y
    BY <1>0, <1>1, <1>2, <2>2 DEF InOrder, ClaimsAreNumbered
  <2>3. ASSUME NEW x \in Workers, worker'[x].phase = "found", worker'[x].job = d
        PROVE  worker'[x].attempts <= row'[d].attempts
    <3>1. x # w /\ worker'[x] = worker[x] /\ worker[x].attempts \in Nat
      BY <1>0, <2>3 DEF Shapes, AnyWorker
    <3> QED
      BY <1>0, <2>3, <3>1 DEF InOrder, ClaimsAreNumbered
  <2> QED
    BY <2>1, <2>2, <2>3 DEF ClaimsAreNumbered
<1>4. ClaimsAreCounted(d)'
  <2>1. row[d].lease # 0 => Unheld(d)
    BY DEF Unheld
  <2>2. row[d].attempts < MaxAttempts + outages
    BY <1>0, <2>1, OutboxAssumption DEF InOrder, ClaimsAreCounted
  <2>3. ~Unheld(d)'
    BY <1>1 DEF Unheld, HolderOf
  <2> QED
    BY <1>0, <2>2, <2>3 DEF ClaimsAreCounted
<1>5. MessagesAreCounted(d)'
  <2>1. ClaimsIn(d, PreSend)' \subseteq ClaimsIn(d, PreSend) \cup {n}
    BY <1>0, <1>1, <1>2 DEF ClaimsIn
  <2>2. ClaimsIn(d, {"sent"})' \subseteq ClaimsIn(d, {"sent"})
    BY <1>0, <1>1, <1>2 DEF ClaimsIn
  <2>3. Overdue(d)' \subseteq Overdue(d)
    <3>1. SUFFICES ASSUME NEW m \in ClaimsIn(d, PreSend)', m # n PROVE m \in Overdue(d)
      BY DEF Overdue
    <3>2. m \in ClaimsIn(d, PreSend) /\ m # 0
      BY <2>1, <3>1 DEF ClaimsIn
    <3> QED
      BY <3>2 DEF Overdue
  <2>4. /\ Cardinality(ClaimsIn(d, PreSend)') <= Cardinality(ClaimsIn(d, PreSend)) + 1
        /\ Cardinality(ClaimsIn(d, PreSend)) \in Nat
    BY <1>0, <2>1, ClaimsAreFinite, CountMore
  <2>5. /\ Cardinality(ClaimsIn(d, {"sent"})') <= Cardinality(ClaimsIn(d, {"sent"}))
        /\ Cardinality(ClaimsIn(d, {"sent"})') \in Nat /\ Cardinality(ClaimsIn(d, {"sent"})) \in Nat
    BY <1>0, <2>2, ClaimsAreFinite, CountSame
  <2>6. IsFiniteSet(Overdue(d))
    BY <1>0, ClaimsAreFinite
  <2>7. /\ Cardinality(Overdue(d)') <= Cardinality(Overdue(d))
        /\ Cardinality(Overdue(d)') \in Nat /\ Cardinality(Overdue(d)) \in Nat
    BY <2>3, <2>6, CountSame
  <2>12. Cardinality(ClaimsIn(d, PreSend)') \in Nat
    <3>1. IsFiniteSet(ClaimsIn(d, PreSend))
      BY <1>0, ClaimsAreFinite
    <3>2. IsFiniteSet(ClaimsIn(d, PreSend) \cup {n})
      BY <3>1, FS_AddElement
    <3> QED
      BY <2>1, <3>2, CountSame
  <2>8. OneMore(d) = 0 /\ OneMore(d)' \in {0, 1}
    <3>1. ~SentInTime(d)
      BY <1>0, <1>2 DEF SentInTime, HolderOf, ClaimOf, Shapes, AnyWorker
    <3> QED
      BY <3>1 DEF OneMore
  <2>9. ASSUME NEW x \in Workers, On(x, d)', worker'[x].phase = "sent" PROVE copies'[d] > 0
    <3>1. x # w
      BY <2>9
    <3> QED
      BY <1>0, <1>1, <2>9, <3>1 DEF InOrder, MessagesAreCounted
  <2> HIDE DEF Overdue, ClaimsIn, OneMore
  <2> QED
    BY <1>0, <2>4, <2>5, <2>7, <2>8, <2>9, <2>12 DEF InOrder, MessagesAreCounted
<1>6. ASSUME NEW e \in Deliveries \ {d} PROVE InOrder(e)'
  BY <1>0, OthersKept DEF OutboxInv
<1> QED
  BY <1>3, <1>4, <1>5, <1>6 DEF OutboxInv, InOrder

(* Nothing happens to the workers on any delivery.                         *)
LEMMA QuietKeepsInv ==
  ASSUME OutboxInv, Shapes', row' = row, copies' = copies, lost' = lost, outages' >= outages,
         NEW w, \A x \in Workers \ {w} : worker'[x] = worker[x],
         w \in Workers => worker[w].phase \notin Claiming /\ worker'[w].phase \notin Claiming,
         w \in Workers /\ worker'[w].phase = "found" => worker'[w].attempts <= row[worker'[w].job].attempts
  PROVE  OutboxInv'
<1>1. ASSUME NEW d \in Deliveries PROVE InOrder(d)'
  <2>1. ASSUME NEW x \in Workers, On(x, d) \/ On(x, d)' PROVE x # w
    BY <2>1 DEF On
  <2>2. ASSUME NEW x \in Workers, worker'[x].phase = "found", worker'[x].job = d
        PROVE  worker'[x].attempts <= row[d].attempts
    BY <2>2 DEF OutboxInv, InOrder, ClaimsAreNumbered
  <2>3. ASSUME NEW x \in Workers, On(x, d) \/ On(x, d)'
        PROVE  /\ On(x, d) /\ worker'[x].phase = worker[x].phase /\ worker'[x].job = worker[x].job
               /\ worker'[x].attempts = worker[x].attempts
    BY <2>1, <2>3 DEF On
  <2> QED
    BY <2>2, <2>3, Undisturbed DEF OutboxInv
<1> QED
  BY <1>1 DEF OutboxInv

(* The lease of a row runs out, under its holder or with nobody there.     *)
LEMMA RunningOutKeepsInv ==
  ASSUME OutboxInv, Shapes', NEW d \in Deliveries,
         row[d].lease # 0, ~row[d].expired,
         row'[d].status = row[d].status, row'[d].attempts = row[d].attempts, row'[d].lease = row[d].lease,
         row'[d].expired,
         \A e \in Deliveries \ {d} : SameLease(e),
         outages' = IF \E w \in Workers : HolderOf(w, d) THEN outages + 1 ELSE outages,
         UNCHANGED <<worker, copies, lost>>
  PROVE  OutboxInv'
<1>0. Shapes /\ InOrder(d) /\ row[d].attempts \in Nat /\ MaxAttempts \in Nat /\ outages \in Nat
      /\ copies[d] \in Nat /\ lost[d] \in Nat /\ outages' \in Nat /\ outages' >= outages
  BY OutboxAssumption DEF OutboxInv, Shapes, AnyRow
<1>1. \A w \in Workers : (On(w, d)' <=> On(w, d)) /\ ClaimOf(w)' = ClaimOf(w)
  BY DEF On, ClaimOf
<1>2. ClaimsAreNumbered(d)'
  BY <1>0, <1>1 DEF InOrder, ClaimsAreNumbered
<1>3. ClaimsAreCounted(d)'
  <2>1. (\A w \in Workers : ~HolderOf(w, d)) => Unheld(d)
    BY DEF Unheld
  <2>2. row[d].attempts < MaxAttempts + outages'
    BY <1>0, <2>1 DEF InOrder, ClaimsAreCounted
  <2> QED
    BY <1>0, <2>2 DEF InOrder, ClaimsAreCounted
<1>4. MessagesAreCounted(d)'
  <2>1. /\ ClaimsIn(d, PreSend)' = ClaimsIn(d, PreSend)
        /\ ClaimsIn(d, {"sent"})' = ClaimsIn(d, {"sent"})
    BY <1>1 DEF ClaimsIn
  <2>2. Overdue(d)' = ClaimsIn(d, PreSend)
    BY <2>1 DEF Overdue
  <2>3. /\ OneMore(d) \in {0, 1} /\ OneMore(d)' \in {0, 1} /\ row[d].status = "PENDING"
        /\ OneMore(d) = 1 <=> SentInTime(d)
    BY <1>0 DEF OneMore, InOrder, ClaimsAreNumbered
  <2>4. IsFiniteSet(Overdue(d)) /\ IsFiniteSet(ClaimsIn(d, PreSend))
        /\ Cardinality(Overdue(d)) \in Nat /\ Cardinality(ClaimsIn(d, PreSend)) \in Nat
    BY <1>0, ClaimsAreFinite
  <2>5. Cardinality(ClaimsIn(d, PreSend)) + OneMore(d) <= Cardinality(Overdue(d)) + (outages' - outages)
    <3>1. CASE \E w \in Workers : HolderOf(w, d)
      <4>1. PICK w \in Workers : HolderOf(w, d)
        BY <3>1
      <4>2. PICK n : n = ClaimOf(w) /\ n = row[d].lease
        BY <4>1 DEF HolderOf
      <4>3. ClaimsIn(d, PreSend) \subseteq Overdue(d) \cup {n}
        BY <4>2 DEF Overdue
      <4>4. CASE worker[w].phase = "sent"
        <5>1. n \notin ClaimsIn(d, PreSend)
          BY <1>0, <4>1, <4>2, <4>4 DEF ClaimsIn, HolderOf, InOrder, ClaimsAreNumbered, PreSend
        <5>2. ClaimsIn(d, PreSend) \subseteq Overdue(d)
          BY <4>3, <5>1
        <5>3. Cardinality(ClaimsIn(d, PreSend)) <= Cardinality(Overdue(d))
          BY <2>4, <5>2, CountSame
        <5> QED
          BY <1>0, <2>3, <2>4, <3>1, <5>3
      <4>5. CASE worker[w].phase # "sent"
        <5>1. ~SentInTime(d)
          BY <1>0, <4>1, <4>5 DEF SentInTime, HolderOf, InOrder, ClaimsAreNumbered
        <5>2. Cardinality(ClaimsIn(d, PreSend)) <= Cardinality(Overdue(d)) + 1
          BY <2>4, <4>3, CountMore
        <5> QED
          BY <1>0, <2>3, <2>4, <3>1, <5>1, <5>2
      <4> QED
        BY <4>4, <4>5
    <3>2. CASE ~ \E w \in Workers : HolderOf(w, d)
      <4>1. ~SentInTime(d)
        BY <3>2 DEF SentInTime
      <4>2. ClaimsIn(d, PreSend) \subseteq Overdue(d)
        BY <3>2 DEF Overdue, ClaimsIn, HolderOf
      <4>3. Cardinality(ClaimsIn(d, PreSend)) <= Cardinality(Overdue(d))
        BY <2>4, <4>2, CountSame
      <4> QED
        BY <1>0, <2>3, <2>4, <3>2, <4>1, <4>3
    <3> QED
      BY <3>1, <3>2
  <2>6. \A w \in Workers : On(w, d)' /\ worker'[w].phase = "sent" => copies'[d] > 0
    BY <1>0, <1>1 DEF InOrder, MessagesAreCounted
  <2> HIDE DEF Overdue, ClaimsIn, OneMore
  <2> QED
    BY <1>0, <2>1, <2>2, <2>3, <2>4, <2>5, <2>6 DEF InOrder, MessagesAreCounted
<1>5. ASSUME NEW e \in Deliveries \ {d} PROVE InOrder(e)'
  <2>1. ASSUME NEW x \in Workers, worker'[x].phase = "found", worker'[x].job = e
        PROVE  worker'[x].attempts <= row[e].attempts
    BY <2>1 DEF OutboxInv, InOrder, ClaimsAreNumbered
  <2>2. \A x \in Workers : On(x, e)' <=> On(x, e)
    BY DEF On
  <2> QED
    BY <1>0, <2>1, <2>2, Undisturbed DEF OutboxInv, SameLease
<1> QED
  BY <1>2, <1>3, <1>4, <1>5 DEF OutboxInv, InOrder

-----------------------------------------------------------------------------
(* Types.                                                                  *)

LEMMA RowsKeepShape ==
  ASSUME Shapes, NEW d \in Deliveries,
         NEW r \in AnyRow, row' = row \/ row' = [row EXCEPT ![d] = r]
  PROVE  row' \in [Deliveries -> AnyRow]
BY DEF Shapes

LEMMA WorkersKeepShape ==
  ASSUME Shapes, NEW w \in Workers, NEW phase \in Phases \ {"idle"}, worker[w].phase # "idle",
         Advance(w, phase) \/ Rest(w)
  PROVE  /\ worker' \in [Workers -> AnyWorker]
         /\ \A x \in Workers : IF worker'[x].phase = "idle" THEN worker'[x] = Resting ELSE worker'[x].job \in Deliveries
<1>1. worker \in [Workers -> AnyWorker] /\ worker[w].job \in Deliveries
  BY DEF Shapes
<1>2. CASE Rest(w)
  <2>1. worker' = [worker EXCEPT ![w] = Resting] /\ Resting \in AnyWorker
    BY <1>2 DEF Rest, Resting, AnyWorker, Phases
  <2>2. worker' \in [Workers -> AnyWorker] /\ worker'[w] = Resting /\ \A x \in Workers \ {w} : worker'[x] = worker[x]
    BY <1>1, <2>1
  <2>3. Resting.phase = "idle"
    BY DEF Resting
  <2>4. ASSUME NEW x \in Workers
        PROVE  IF worker'[x].phase = "idle" THEN worker'[x] = Resting ELSE worker'[x].job \in Deliveries
    <3>1. CASE x = w
      BY <2>2, <2>3, <3>1
    <3>2. CASE x # w
      BY <2>2, <3>2 DEF Shapes
    <3> QED
      BY <3>1, <3>2
  <2> QED
    BY <2>2, <2>4
<1>3. CASE Advance(w, phase)
  <2>1. worker' = [worker EXCEPT ![w].phase = phase]
    BY <1>3 DEF Advance
  <2>2. worker' \in [Workers -> AnyWorker]
    BY <1>1, <2>1 DEF AnyWorker
  <2>3. worker'[w].phase # "idle" /\ worker'[w].job \in Deliveries
    BY <1>1, <2>1 DEF AnyWorker, Phases
  <2>4. \A x \in Workers \ {w} : worker'[x] = worker[x]
    BY <1>1, <2>1
  <2> QED
    BY <2>2, <2>3, <2>4 DEF Shapes
<1> QED
  BY <1>2, <1>3

LEMMA SettleKeepsShape ==
  ASSUME Shapes, NEW w \in Workers, worker[w].phase # "idle",
         NEW status \in {"PENDING", "SENT", "SKIPPED", "FAILED"}, Settle(w, status)
  PROVE  row' \in [Deliveries -> AnyRow]
<1>1. PICK d \in Deliveries : d = worker[w].job
  BY DEF Shapes
<1>2. PICK r \in AnyRow : r = [row[d] EXCEPT !.status = status, !.lease = 0, !.expired = FALSE, !.token = FALSE]
  <2>1. row[d] \in AnyRow
    BY DEF Shapes
  <2> QED
    BY <2>1 DEF AnyRow
<1>3. row' = row \/ row' = [row EXCEPT ![d] = r]
  BY <1>1, <1>2 DEF Settle, Shapes
<1> QED
  BY <1>3, RowsKeepShape

LEMMA TimeKeepsShapes ==
  ASSUME Shapes, NEW d \in Deliveries, FallDue(d) \/ LeaseRunsOut(d) \/ ChangeConsent(d)
  PROVE  Shapes'
<1>0. /\ changes \in Nat /\ MaxConsents \in Nat /\ outages \in Nat /\ MaxOutages \in Nat
      /\ changes <= MaxConsents /\ outages <= MaxOutages
  BY OutboxAssumption DEF Shapes
<1>1. CASE FallDue(d)
  <2>1. Queued(queue')
    BY <1>1, AppendKeepsQueue DEF FallDue, Shapes
  <2> QED
    BY <1>1, <2>1 DEF FallDue, Shapes, chats
<1>2. CASE LeaseRunsOut(d)
  <2>1. row' \in [Deliveries -> AnyRow]
    BY <1>2 DEF LeaseRunsOut, Shapes, AnyRow
  <2>2. outages' \in 0..MaxOutages
    BY <1>0, <1>2 DEF LeaseRunsOut
  <2> QED
    BY <1>2, <2>1, <2>2 DEF LeaseRunsOut, Shapes, chats
<1>3. CASE ChangeConsent(d)
  <2>1. consent' \in SUBSET Deliveries /\ changes' \in 0..MaxConsents
    BY <1>0, <1>3 DEF ChangeConsent, Shapes
  <2> QED
    BY <1>3, <2>1 DEF ChangeConsent, Shapes, chats, rows
<1> QED
  BY <1>1, <1>2, <1>3

LEMMA WorkersKeepShapes ==
  ASSUME Shapes, NEW w \in Workers, Find(w) \/ Proceed(w) \/ Crash(w)
  PROVE  Shapes'
<1>0. /\ row \in [Deliveries -> AnyRow] /\ worker \in [Workers -> AnyWorker]
      /\ copies \in [Deliveries -> Nat] /\ lost \in [Deliveries -> Nat]
      /\ outages \in Nat /\ MaxOutages \in Nat /\ outages <= MaxOutages
  BY OutboxAssumption DEF Shapes
<1>h. worker[w].phase # "idle" => worker[w].job \in Deliveries
  BY DEF Shapes
<1> DEFINE Held == /\ worker' \in [Workers -> AnyWorker]
                   /\ \A x \in Workers : IF worker'[x].phase = "idle" THEN worker'[x] = Resting
                                         ELSE worker'[x].job \in Deliveries
<1>a. Claiming \subseteq Phases \ {"idle"}
  BY DEF Claiming, PreSend, Phases
<1>b. ASSUME NEW phase \in Claiming, worker[w].phase # "idle", Advance(w, phase) \/ Rest(w) PROVE Held
  BY <1>a, <1>b, WorkersKeepShape
<1>c. Claiming = {"claimed", "allowed", "ready", "sent", "failed"}
  BY DEF Claiming, PreSend
<1>d. ASSUME worker[w].phase # "idle", Reaches(w) PROVE copies' \in [Deliveries -> Nat]
  BY <1>0, <1>d, <1>h DEF Reaches
<1> HIDE DEF Held
<1>1. CASE Find(w)
  <2>1. PICK i \in DOMAIN queue :
          worker' = [worker EXCEPT ![w] = [phase |-> "found", job |-> queue[i],
                       attempts |-> row[queue[i]].attempts, token |-> row[queue[i]].token]]
    BY <1>1 DEF Find
  <2>2. PICK d \in Deliveries : d = queue[i]
    BY ElementOfSeq DEF Shapes, Queued
  <2>3. [phase |-> "found", job |-> d, attempts |-> row[d].attempts, token |-> row[d].token] \in AnyWorker
    BY <1>0 DEF AnyWorker, AnyRow, Phases
  <2>4. Held
    BY <1>0, <2>1, <2>2, <2>3 DEF Held, Shapes
  <2> QED
    BY <1>1, <2>4 DEF Find, Held, Shapes, rows, chats
<1>2. CASE Claim(w)
  <2>1. Held
    BY <1>2, <1>b, <1>c DEF Claim
  <2>2. row' \in [Deliveries -> AnyRow]
    BY <1>0, <1>2, <1>h DEF Claim, AnyRow
  <2> QED
    BY <1>2, <2>1, <2>2 DEF Claim, Held, Shapes, chats
<1>3. CASE CheckConsent(w)
  <2>1. Held
    BY <1>3, <1>b, <1>c DEF CheckConsent
  <2>2. row' \in [Deliveries -> AnyRow]
    BY <1>0, <1>3, SettleKeepsShape DEF CheckConsent
  <2> QED
    BY <1>3, <2>1, <2>2 DEF CheckConsent, Held, Shapes, chats
<1>4. CASE Upload(w)
  <2>1. Held
    BY <1>4, <1>b, <1>c DEF Upload
  <2>2. row' \in [Deliveries -> AnyRow]
    BY <1>0, <1>4, <1>h DEF Upload, AnyRow
  <2> QED
    BY <1>4, <2>1, <2>2 DEF Upload, Held, Shapes, chats
<1>5. CASE Send(w)
  <2>1. Held
    BY <1>5, <1>b, <1>c DEF Send
  <2> QED
    BY <1>5, <1>d, <2>1 DEF Send, Held, Shapes, chats, rows
<1>6. CASE MarkSent(w)
  <2>1. Held
    BY <1>6, <1>b, <1>c DEF MarkSent
  <2>2. row' \in [Deliveries -> AnyRow]
    BY <1>6, SettleKeepsShape DEF MarkSent
  <2> QED
    BY <1>6, <2>1, <2>2 DEF MarkSent, Held, Shapes, chats
<1>7. CASE Throw(w)
  <2>1. Held
    BY <1>7, <1>b, <1>c DEF Throw
  <2>2. copies' \in [Deliveries -> Nat] /\ lost' \in [Deliveries -> Nat]
    BY <1>0, <1>7, <1>d, <1>h DEF Throw, chats
  <2> QED
    BY <1>7, <2>1, <2>2 DEF Throw, Held, Shapes, rows
<1>8. CASE Reschedule(w)
  <2>1. Held
    BY <1>8, <1>b, <1>c DEF Reschedule
  <2>2. row' \in [Deliveries -> AnyRow]
    BY <1>0, <1>8, <1>h DEF Reschedule, AnyRow, rows
  <2>3. Queued(queue')
    BY <1>8, RemovalKeepsQueue DEF Reschedule, Shapes, rows
  <2> QED
    BY <1>8, <2>1, <2>2, <2>3 DEF Reschedule, Held, Shapes, chats
<1>9. CASE Crash(w)
  <2>1. Held
    BY <1>9, <1>b, <1>c DEF Crash
  <2>2. outages' \in 0..MaxOutages
    BY <1>0, <1>9 DEF Crash
  <2> QED
    BY <1>9, <2>1, <2>2 DEF Crash, Held, Shapes, chats, rows
<1> QED
  BY <1>1, <1>2, <1>3, <1>4, <1>5, <1>6, <1>7, <1>8, <1>9 DEF Proceed

-----------------------------------------------------------------------------
(* Every step keeps the invariant.                                         *)

LEMMA Advancing ==
  ASSUME Shapes, NEW d \in Deliveries, NEW w \in Workers, On(w, d), NEW phase \in Claiming,
         Advance(w, phase), row'[d].attempts = row[d].attempts
  PROVE  Goes(w, d, ClaimOf(w)) /\ worker'[w].phase = phase
<1>1. worker' = [worker EXCEPT ![w].phase = phase] /\ worker \in [Workers -> AnyWorker]
  BY DEF Advance, Shapes
<1>2. /\ worker'[w].phase = phase /\ worker'[w].job = worker[w].job /\ worker'[w].attempts = worker[w].attempts
      /\ \A x \in Workers \ {w} : worker'[x] = worker[x]
  BY <1>1 DEF AnyWorker
<1> QED
  BY <1>2 DEF Goes, On

LEMMA Leaving ==
  ASSUME Shapes, NEW d \in Deliveries, NEW w \in Workers, On(w, d), Rest(w),
         row'[d].attempts = row[d].attempts
  PROVE  Goes(w, d, ClaimOf(w)) /\ worker'[w].phase = "idle"
<1>1. worker' = [worker EXCEPT ![w] = Resting] /\ worker \in [Workers -> AnyWorker] /\ Resting.phase = "idle"
  BY DEF Rest, Resting, Shapes
<1> QED
  BY <1>1 DEF Goes

LEMMA OnItsJob ==
  ASSUME Shapes, NEW w \in Workers, worker[w].phase \in Claiming
  PROVE  worker[w].job \in Deliveries /\ On(w, worker[w].job)
BY DEF Shapes, On, Claiming, PreSend

(* The guard of the writes is that the lease is still this claim's.        *)
LEMMA HoldsIsHolding ==
  ASSUME OutboxInv, NEW d \in Deliveries, NEW w \in Workers, On(w, d)
  PROVE  Holds(d, worker[w].attempts) <=> HolderOf(w, d)
<1>1. worker[w].attempts \in Nat /\ ClaimsAreNumbered(d)
  BY DEF OutboxInv, Shapes, AnyWorker, InOrder
<1> QED
  BY <1>1 DEF Holds, HolderOf, ClaimOf, ClaimsAreNumbered

LEMMA Settling ==
  ASSUME OutboxInv, NEW d \in Deliveries, NEW w \in Workers, On(w, d), NEW status, Settle(w, status)
  PROVE  /\ ~HolderOf(w, d) => row' = row
         /\ HolderOf(w, d) => row'[d].status = status /\ row'[d].lease = 0
         /\ row'[d].attempts = row[d].attempts
         /\ \A e \in Deliveries \ {d} : SameLease(e)
<1>1. row' = IF HolderOf(w, d)
             THEN [row EXCEPT ![d].status = status, ![d].lease = 0, ![d].expired = FALSE, ![d].token = FALSE]
             ELSE row
  BY HoldsIsHolding DEF Settle, On
<1>2. row \in [Deliveries -> AnyRow]
  BY DEF OutboxInv, Shapes
<1> QED
  BY <1>1, <1>2 DEF AnyRow, SameLease

LEMMA SettleStepKeepsInv ==
  ASSUME OutboxInv, Shapes', NEW d \in Deliveries, NEW w \in Workers, On(w, d), NEW status, Settle(w, status),
         Rest(w), UNCHANGED <<copies, lost, outages>>,
         \/ worker[w].phase \in PreSend /\ status = "SKIPPED"
         \/ worker[w].phase = "sent" /\ status = "SENT"
  PROVE  OutboxInv'
<1>0. Shapes /\ outages' >= outages /\ copies' = copies /\ lost' = lost
  BY OutboxAssumption DEF OutboxInv, Shapes
<1>1. /\ ~HolderOf(w, d) => row' = row
      /\ HolderOf(w, d) => row'[d].status = status /\ row'[d].lease = 0
      /\ row'[d].attempts = row[d].attempts
      /\ \A e \in Deliveries \ {d} : SameLease(e)
  BY Settling
<1>2. Goes(w, d, ClaimOf(w)) /\ worker'[w].phase = "idle"
  BY <1>0, <1>1, Leaving
<1>3. CASE HolderOf(w, d)
  BY <1>1, <1>2, <1>3, SettlingKeepsInv
<1>4. CASE ~HolderOf(w, d)
  <2>1. Moves(w, d)
    BY <1>0, <1>2, <1>4 DEF Moves
  <2>2. \A e \in Deliveries : SameLease(e)
    BY <1>1, <1>4 DEF SameLease
  <2> QED
    BY <1>0, <1>2, <2>1, <2>2, ClaimStepKeepsInv
<1> QED
  BY <1>3, <1>4

LEMMA FindKeepsInv ==
  ASSUME OutboxInv, Shapes', NEW w \in Workers, Find(w)
  PROVE  OutboxInv'
<1>1. PICK i \in DOMAIN queue :
        worker' = [worker EXCEPT ![w] = [phase |-> "found", job |-> queue[i],
                     attempts |-> row[queue[i]].attempts, token |-> row[queue[i]].token]]
  BY DEF Find
<1>2. worker \in [Workers -> AnyWorker] /\ queue[i] \in Deliveries /\ row[queue[i]].attempts \in Nat
  <2>1. queue[i] \in Deliveries
    BY ElementOfSeq DEF OutboxInv, Shapes, Queued
  <2> QED
    BY <2>1 DEF OutboxInv, Shapes, AnyRow
<1>3. /\ worker'[w].phase = "found" /\ worker'[w].job = queue[i] /\ worker'[w].attempts = row[queue[i]].attempts
      /\ \A x \in Workers \ {w} : worker'[x] = worker[x]
  BY <1>1, <1>2
<1>4. worker[w].phase \notin Claiming /\ worker'[w].phase \notin Claiming
  BY <1>3 DEF Find, Claiming, PreSend
<1>5. row' = row /\ copies' = copies /\ lost' = lost /\ outages' >= outages
  BY OutboxAssumption DEF Find, rows, chats, OutboxInv, Shapes
<1> QED
  BY <1>2, <1>3, <1>4, <1>5, QuietKeepsInv

LEMMA ClaimKeepsInv ==
  ASSUME OutboxInv, Shapes', NEW w \in Workers, Claim(w)
  PROVE  OutboxInv'
<1>0. row \in [Deliveries -> AnyRow] /\ worker \in [Workers -> AnyWorker] /\ outages' = outages
      /\ copies' = copies /\ lost' = lost /\ outages \in Nat
  BY OutboxAssumption DEF OutboxInv, Shapes, Claim, chats
<1>1. PICK d \in Deliveries : d = worker[w].job
  BY DEF OutboxInv, Shapes, Claim
<1>2. CASE Claimable(d, worker[w].attempts)
  <2>1. /\ row' = [row EXCEPT ![d].attempts = @ + 1, ![d].lease = row[d].attempts + 1, ![d].expired = FALSE]
        /\ worker' = [worker EXCEPT ![w].phase = "claimed"]
    BY <1>1, <1>2 DEF Claim, Advance
  <2>2. /\ row'[d].attempts = row[d].attempts + 1 /\ row'[d].lease = row[d].attempts + 1
        /\ row'[d].expired = FALSE /\ row'[d].status = row[d].status
    BY <1>0, <2>1 DEF AnyRow
  <2>3. \A e \in Deliveries \ {d} : SameLease(e)
    BY <1>0, <2>1 DEF SameLease
  <2>4. /\ worker'[w].phase = "claimed" /\ worker'[w].job = d /\ worker'[w].attempts = worker[w].attempts
        /\ \A x \in Workers \ {w} : worker'[x] = worker[x]
    BY <1>0, <1>1, <2>1 DEF AnyWorker
  <2>5. row[d].status = "PENDING" /\ worker[w].attempts = row[d].attempts
        /\ (row[d].lease = 0 \/ row[d].expired) /\ worker[w].phase = "found"
    BY <1>2 DEF Claimable, Due, Claim
  <2>6. PICK n : n = row[d].attempts + 1
    OBVIOUS
  <2> QED
    BY <1>0, <1>1, <2>2, <2>3, <2>4, <2>5, <2>6, ClaimingKeepsInv
<1>3. CASE ~Claimable(d, worker[w].attempts)
  <2>1. row' = row /\ worker' = [worker EXCEPT ![w] = Resting] /\ worker[w].phase = "found"
    BY <1>1, <1>3 DEF Claim, Rest
  <2>2. worker'[w].phase = "idle" /\ \A x \in Workers \ {w} : worker'[x] = worker[x]
    BY <1>0, <2>1 DEF Resting
  <2>3. worker[w].phase \notin Claiming /\ worker'[w].phase \notin Claiming /\ worker'[w].phase # "found"
    BY <2>1, <2>2 DEF Claiming, PreSend
  <2> QED
    BY <1>0, <2>1, <2>2, <2>3, QuietKeepsInv
<1> QED
  BY <1>2, <1>3

LEMMA CheckConsentKeepsInv ==
  ASSUME OutboxInv, Shapes', NEW w \in Workers, CheckConsent(w)
  PROVE  OutboxInv'
<1>0. Shapes /\ outages' = outages /\ copies' = copies /\ lost' = lost /\ outages' >= outages
      /\ worker[w].phase = "claimed" /\ worker[w].phase \in Claiming
  BY OutboxAssumption DEF OutboxInv, Shapes, CheckConsent, chats, Claiming, PreSend
<1>1. PICK d \in Deliveries : d = worker[w].job /\ On(w, d)
  BY <1>0, OnItsJob
<1>2. CASE d \in consent
  <2>1. Advance(w, "allowed") /\ row' = row
    BY <1>1, <1>2 DEF CheckConsent
  <2>2. Goes(w, d, ClaimOf(w)) /\ worker'[w].phase = "allowed"
    BY <1>0, <1>1, <2>1, Advancing DEF Claiming, PreSend
  <2>3. Moves(w, d)
    BY <1>0, <2>2 DEF Moves, PreSend
  <2>4. \A e \in Deliveries : SameLease(e)
    BY <2>1 DEF SameLease
  <2> QED
    BY <1>0, <2>2, <2>3, <2>4, ClaimStepKeepsInv
<1>3. CASE d \notin consent
  BY <1>0, <1>1, <1>3, SettleStepKeepsInv DEF CheckConsent, PreSend
<1> QED
  BY <1>2, <1>3

LEMMA UploadKeepsInv ==
  ASSUME OutboxInv, Shapes', NEW w \in Workers, Upload(w)
  PROVE  OutboxInv'
<1>0. Shapes /\ outages' = outages /\ copies' = copies /\ lost' = lost /\ outages' >= outages
      /\ worker[w].phase = "allowed" /\ worker[w].phase \in Claiming /\ Advance(w, "ready")
  BY OutboxAssumption DEF OutboxInv, Shapes, Upload, chats, Claiming, PreSend
<1>1. PICK d \in Deliveries : d = worker[w].job /\ On(w, d)
  BY <1>0, OnItsJob
<1>2. row' = row \/ row' = [row EXCEPT ![d].token = TRUE]
  BY <1>1 DEF Upload
<1>3. \A e \in Deliveries : SameLease(e)
  <2>1. row \in [Deliveries -> AnyRow]
    BY <1>0 DEF Shapes
  <2> QED
    BY <1>2, <2>1 DEF SameLease, AnyRow
<1>4. Goes(w, d, ClaimOf(w)) /\ worker'[w].phase = "ready"
  <2>1. row'[d].attempts = row[d].attempts
    BY <1>3 DEF SameLease
  <2> QED
    BY <1>0, <1>1, <2>1, Advancing DEF Claiming, PreSend
<1>5. Moves(w, d)
  BY <1>0, <1>4 DEF Moves, PreSend
<1> QED
  BY <1>0, <1>3, <1>4, <1>5, ClaimStepKeepsInv

LEMMA SendKeepsInv ==
  ASSUME OutboxInv, Shapes', NEW w \in Workers, Send(w)
  PROVE  OutboxInv'
<1>0. Shapes /\ outages' >= outages /\ lost' = lost /\ row' = row
      /\ worker[w].phase = "ready" /\ worker[w].phase \in Claiming /\ Advance(w, "sent") /\ Reaches(w)
  BY OutboxAssumption DEF OutboxInv, Shapes, Send, rows, Claiming, PreSend
<1>1. PICK d \in Deliveries : d = worker[w].job /\ On(w, d)
  BY <1>0, OnItsJob
<1>2. copies'[d] = copies[d] + 1 /\ \A e \in Deliveries \ {d} : copies'[e] = copies[e]
  BY <1>0, <1>1 DEF Reaches, Shapes
<1>3. Goes(w, d, ClaimOf(w)) /\ worker'[w].phase = "sent"
  BY <1>0, <1>1, Advancing DEF Claiming, PreSend
<1>4. Moves(w, d)
  BY <1>0, <1>2, <1>3 DEF Moves, PreSend
<1>5. \A e \in Deliveries : SameLease(e)
  BY <1>0 DEF SameLease
<1> QED
  BY <1>0, <1>2, <1>3, <1>4, <1>5, ClaimStepKeepsInv

LEMMA MarkSentKeepsInv ==
  ASSUME OutboxInv, Shapes', NEW w \in Workers, MarkSent(w)
  PROVE  OutboxInv'
<1>0. Shapes /\ worker[w].phase = "sent" /\ worker[w].phase \in Claiming /\ UNCHANGED <<copies, lost, outages>>
  BY DEF OutboxInv, MarkSent, chats, Claiming
<1>1. PICK d \in Deliveries : d = worker[w].job /\ On(w, d)
  BY <1>0, OnItsJob
<1> QED
  BY <1>0, <1>1, SettleStepKeepsInv DEF MarkSent

LEMMA ThrowKeepsInv ==
  ASSUME OutboxInv, Shapes', NEW w \in Workers, Throw(w)
  PROVE  OutboxInv'
<1>0. Shapes /\ outages' >= outages /\ row' = row /\ Advance(w, "failed")
      /\ worker[w].phase \in {"claimed", "allowed", "ready", "sent"} /\ worker[w].phase \in Claiming
  BY OutboxAssumption DEF OutboxInv, Shapes, Throw, rows, Claiming, PreSend
<1>1. PICK d \in Deliveries : d = worker[w].job /\ On(w, d)
  BY <1>0, OnItsJob
<1>2. Goes(w, d, ClaimOf(w)) /\ worker'[w].phase = "failed"
  BY <1>0, <1>1, Advancing DEF Claiming, PreSend
<1>3. Moves(w, d) /\ \A e \in Deliveries \ {d} : copies'[e] = copies[e] /\ lost'[e] = lost[e]
  <2>1. CASE worker[w].phase # "sent" /\ UNCHANGED chats
    BY <1>0, <1>2, <2>1 DEF Moves, PreSend, chats
  <2>2. CASE worker[w].phase = "ready" /\ Reaches(w) /\ lost' = [lost EXCEPT ![worker[w].job] = @ + 1]
    <3>1. /\ copies'[d] = copies[d] + 1 /\ lost'[d] = lost[d] + 1
          /\ \A e \in Deliveries \ {d} : copies'[e] = copies[e] /\ lost'[e] = lost[e]
      BY <1>0, <1>1, <2>2 DEF Reaches, Shapes
    <3> QED
      BY <1>2, <2>2, <3>1 DEF Moves, PreSend
  <2>3. CASE worker[w].phase = "sent" /\ UNCHANGED copies /\ lost' = [lost EXCEPT ![worker[w].job] = @ + 1]
    <3>1. /\ copies' = copies /\ lost'[d] = lost[d] + 1
          /\ \A e \in Deliveries \ {d} : lost'[e] = lost[e]
      BY <1>0, <1>1, <2>3 DEF Shapes
    <3> QED
      BY <1>2, <2>3, <3>1 DEF Moves
  <2> QED
    BY <2>1, <2>2, <2>3 DEF Throw
<1>4. \A e \in Deliveries : SameLease(e)
  BY <1>0 DEF SameLease
<1> QED
  BY <1>0, <1>2, <1>3, <1>4, ClaimStepKeepsInv

LEMMA RescheduleKeepsInv ==
  ASSUME OutboxInv, Shapes', NEW w \in Workers, Reschedule(w)
  PROVE  OutboxInv'
<1>0. Shapes /\ outages' = outages /\ copies' = copies /\ lost' = lost /\ outages' >= outages /\ Rest(w)
      /\ worker[w].phase = "failed" /\ worker[w].phase \in Claiming /\ worker[w].attempts \in Nat
      /\ MaxAttempts \in Nat
  BY OutboxAssumption DEF OutboxInv, Shapes, Reschedule, chats, Claiming, AnyWorker
<1>1. PICK d \in Deliveries : d = worker[w].job /\ On(w, d)
  BY <1>0, OnItsJob
<1>2. Holds(d, worker[w].attempts) <=> HolderOf(w, d)
  BY <1>1, HoldsIsHolding
<1>3. CASE HolderOf(w, d)
  <2>1. row' = [row EXCEPT ![d].status = IF Exhausted(worker[w].attempts) THEN "FAILED" ELSE "PENDING",
                           ![d].lease = 0, ![d].expired = FALSE]
    BY <1>1, <1>2, <1>3 DEF Reschedule
  <2>2. row \in [Deliveries -> AnyRow]
    BY <1>0 DEF Shapes
  <2>3. /\ row'[d].status = IF Exhausted(worker[w].attempts) THEN "FAILED" ELSE "PENDING"
        /\ row'[d].lease = 0 /\ row'[d].attempts = row[d].attempts
    BY <2>1, <2>2 DEF AnyRow
  <2>4. \A e \in Deliveries \ {d} : SameLease(e)
    BY <2>1, <2>2 DEF SameLease
  <2>5. PICK n : n = ClaimOf(w) /\ Goes(w, d, n) /\ worker'[w].phase = "idle"
    BY <1>0, <1>1, <2>3, Leaving
  <2>6. \/ row'[d].status = "FAILED" /\ n >= MaxAttempts
        \/ row'[d].status = "PENDING" /\ n < MaxAttempts
    BY <1>0, <2>3, <2>5 DEF Exhausted, ClaimOf
  <2> QED
    BY <1>0, <1>3, <2>3, <2>4, <2>5, <2>6, SettlingKeepsInv
<1>4. CASE ~HolderOf(w, d)
  <2>1. row' = row
    BY <1>1, <1>2, <1>4 DEF Reschedule, rows
  <2>2. Goes(w, d, ClaimOf(w)) /\ worker'[w].phase = "idle"
    BY <1>0, <1>1, <2>1, Leaving
  <2>3. Moves(w, d) /\ \A e \in Deliveries : SameLease(e)
    BY <1>0, <1>4, <2>1, <2>2 DEF Moves, SameLease
  <2> QED
    BY <1>0, <2>2, <2>3, ClaimStepKeepsInv
<1> QED
  BY <1>3, <1>4

LEMMA CrashKeepsInv ==
  ASSUME OutboxInv, Shapes', NEW w \in Workers, Crash(w)
  PROVE  OutboxInv'
<1>0. Shapes /\ outages' = outages + 1 /\ copies' = copies /\ lost' = lost /\ outages' >= outages /\ row' = row
      /\ Rest(w)
  BY OutboxAssumption DEF OutboxInv, Shapes, Crash, rows, chats
<1>1. CASE worker[w].phase \in Claiming
  <2>1. PICK d \in Deliveries : d = worker[w].job /\ On(w, d)
    BY <1>0, <1>1, OnItsJob
  <2>2. Goes(w, d, ClaimOf(w)) /\ worker'[w].phase = "idle"
    BY <1>0, <2>1, Leaving
  <2>3. Moves(w, d) /\ \A e \in Deliveries : SameLease(e)
    BY <1>0, <2>2 DEF Moves, SameLease
  <2> QED
    BY <1>0, <2>2, <2>3, ClaimStepKeepsInv
<1>2. CASE worker[w].phase \notin Claiming
  <2>1. worker'[w].phase = "idle" /\ \A x \in Workers \ {w} : worker'[x] = worker[x]
    BY <1>0 DEF Rest, Resting, Shapes
  <2>2. worker'[w].phase \notin Claiming /\ worker'[w].phase # "found"
    BY <2>1 DEF Claiming, PreSend
  <2> QED
    BY <1>0, <1>2, <2>1, <2>2, QuietKeepsInv
<1> QED
  BY <1>1, <1>2

LEMMA LeasedIsHolding ==
  ASSUME Shapes, NEW w \in Workers, NEW d \in Deliveries
  PROVE  (worker[w].job = d /\ Leased(w)) <=> HolderOf(w, d)
<1>1. worker[w].phase \in Phases
  BY DEF Shapes, AnyWorker
<1>2. worker[w].phase \notin {"idle", "found"} <=> worker[w].phase \in Claiming
  BY <1>1 DEF Phases, Claiming, PreSend
<1> QED
  BY <1>2 DEF Leased, HolderOf, On, ClaimOf

LEMMA TimeKeepsInv ==
  ASSUME OutboxInv, Shapes', NEW d \in Deliveries, FallDue(d) \/ LeaseRunsOut(d) \/ ChangeConsent(d)
  PROVE  OutboxInv'
<1>0. Shapes /\ row \in [Deliveries -> AnyRow] /\ outages \in Nat
  BY OutboxAssumption DEF OutboxInv, Shapes
<1>1. CASE LeaseRunsOut(d)
  <2>1. /\ row' = [row EXCEPT ![d].expired = TRUE] /\ row[d].lease # 0 /\ ~row[d].expired
        /\ UNCHANGED <<worker, copies, lost>>
    BY <1>1 DEF LeaseRunsOut, chats
  <2>2. outages' = IF \E w \in Workers : HolderOf(w, d) THEN outages + 1 ELSE outages
    BY <1>0, <1>1, LeasedIsHolding DEF LeaseRunsOut
  <2>3. /\ row'[d].status = row[d].status /\ row'[d].attempts = row[d].attempts /\ row'[d].lease = row[d].lease
        /\ row'[d].expired
        /\ \A e \in Deliveries \ {d} : SameLease(e)
    BY <1>0, <2>1 DEF AnyRow, SameLease
  <2> QED
    BY <2>1, <2>2, <2>3, RunningOutKeepsInv
<1>2. CASE FallDue(d) \/ ChangeConsent(d)
  <2>1. row' = row /\ copies' = copies /\ lost' = lost /\ outages' >= outages /\ worker' = worker
    BY <1>0, <1>2 DEF FallDue, ChangeConsent, rows, chats
  <2>2. PICK w : w \notin Workers
    BY NoSetContainsEverything
  <2> QED
    BY <2>1, <2>2, QuietKeepsInv
<1> QED
  BY <1>1, <1>2

-----------------------------------------------------------------------------
(* The inductive invariant.                                                *)

LEMMA OutboxInvHolds == Spec => []OutboxInv
<1>1. Init => OutboxInv
  <2>1. SUFFICES ASSUME Init PROVE OutboxInv
    OBVIOUS
  <2>2. /\ row = [d \in Deliveries |-> [status |-> "PENDING", attempts |-> 0, lease |-> 0,
                                         expired |-> FALSE, token |-> FALSE]]
        /\ worker = [w \in Workers |-> Resting]
        /\ copies = [d \in Deliveries |-> 0] /\ lost = [d \in Deliveries |-> 0] /\ outages = 0 /\ changes = 0
        /\ consent \in SUBSET Deliveries
    BY <2>1 DEF Init
  <2>3. Queued(queue)
    BY <2>1, InitialQueue DEF Init
  <2>4. MaxOutages \in Nat /\ MaxConsents \in Nat /\ MaxAttempts \in Nat /\ MaxAttempts > 0
    BY OutboxAssumption
  <2>5. Shapes
    <3>1. row \in [Deliveries -> AnyRow]
      BY <2>2 DEF AnyRow
    <3>2. Resting \in AnyWorker /\ Resting.phase = "idle"
      BY DEF Resting, AnyWorker, Phases
    <3>3. worker \in [Workers -> AnyWorker] /\ \A w \in Workers : worker[w] = Resting
      BY <2>2, <3>2
    <3> QED
      BY <2>2, <2>3, <2>4, <3>1, <3>2, <3>3 DEF Shapes
  <2>6. ASSUME NEW d \in Deliveries PROVE InOrder(d)
    <3>1. /\ row[d].status = "PENDING" /\ row[d].attempts = 0 /\ row[d].lease = 0 /\ copies[d] = 0 /\ lost[d] = 0
      BY <2>2
    <3>2. \A w \in Workers : ~On(w, d) /\ worker[w].phase # "found"
      BY <2>2 DEF On, Claiming, PreSend, Resting
    <3>3. ClaimsAreNumbered(d)
      BY <3>1, <3>2 DEF ClaimsAreNumbered
    <3>4. ClaimsAreCounted(d)
      BY <2>2, <2>4, <3>1 DEF ClaimsAreCounted
    <3>5. ClaimsIn(d, PreSend) = {} /\ ClaimsIn(d, {"sent"}) = {} /\ Overdue(d) = {} /\ OneMore(d) \in {0, 1}
      BY <3>2 DEF ClaimsIn, Overdue, OneMore
    <3>6. MessagesAreCounted(d)
      <4>1. Cardinality(ClaimsIn(d, PreSend)) = 0 /\ Cardinality(ClaimsIn(d, {"sent"})) = 0 /\ Cardinality(Overdue(d)) = 0
        BY <3>5, FS_EmptySet
      <4>2. \A w \in Workers : worker[w].phase # "sent"
        BY <2>2 DEF Resting
      <4> HIDE DEF ClaimsIn, Overdue, OneMore
      <4> QED
        BY <2>2, <3>1, <3>5, <4>1, <4>2 DEF MessagesAreCounted
    <3> QED
      BY <3>3, <3>4, <3>6 DEF InOrder
  <2> QED
    BY <2>5, <2>6 DEF OutboxInv
<1>2. OutboxInv /\ [Next]_vars => OutboxInv'
  <2>1. SUFFICES ASSUME OutboxInv, [Next]_vars PROVE OutboxInv'
    OBVIOUS
  <2>2. CASE UNCHANGED vars
    <3>1. Shapes' /\ row' = row /\ copies' = copies /\ lost' = lost /\ outages' >= outages /\ worker' = worker
      BY <2>1, <2>2, OutboxAssumption DEF vars, OutboxInv, Shapes, Queued
    <3>2. PICK w : w \notin Workers
      BY NoSetContainsEverything
    <3> QED
      BY <2>1, <3>1, <3>2, QuietKeepsInv
  <2>3. ASSUME NEW w \in Workers, Find(w) \/ Proceed(w) \/ Crash(w) PROVE OutboxInv'
    <3>1. Shapes'
      BY <2>1, <2>3, WorkersKeepShapes DEF OutboxInv
    <3> QED
      BY <2>1, <2>3, <3>1, FindKeepsInv, ClaimKeepsInv, CheckConsentKeepsInv, UploadKeepsInv, SendKeepsInv,
         MarkSentKeepsInv, ThrowKeepsInv, RescheduleKeepsInv, CrashKeepsInv DEF Proceed
  <2>4. ASSUME NEW d \in Deliveries, FallDue(d) \/ LeaseRunsOut(d) \/ ChangeConsent(d) PROVE OutboxInv'
    <3>1. Shapes'
      BY <2>1, <2>4, TimeKeepsShapes DEF OutboxInv
    <3> QED
      BY <2>1, <2>4, <3>1, TimeKeepsInv
  <2> QED
    BY <2>1, <2>2, <2>3, <2>4 DEF Next
<1> QED
  BY <1>1, <1>2, PTL DEF Spec

(* The numbers have the bounds of TypeOK: every claim beyond MaxAttempts is*)
(* owed to an outage (claimReadyDelivery, rescheduleFailed).               *)
THEOREM OutboxTyping == Spec => []TypeOK
<1>1. OutboxInv => TypeOK
  <2>1. SUFFICES ASSUME OutboxInv PROVE TypeOK
    OBVIOUS
  <2>2. Shapes /\ MaxAttempts \in Nat /\ MaxOutages \in Nat /\ outages \in Nat /\ outages <= MaxOutages
    BY <2>1, OutboxAssumption DEF OutboxInv, Shapes
  <2>3. ASSUME NEW d \in Deliveries
        PROVE  row[d] \in Row /\ copies[d] \in Attempts /\ lost[d] \in Attempts
    <3>1. ClaimsAreNumbered(d) /\ ClaimsAreCounted(d) /\ MessagesAreCounted(d)
      BY <2>1, <2>3 DEF OutboxInv, InOrder
    <3>2. row[d] \in AnyRow /\ copies[d] \in Nat /\ lost[d] \in Nat
      BY <2>2, <2>3 DEF Shapes
    <3>3. row[d].attempts \in Nat /\ row[d].attempts <= MaxAttempts + MaxOutages
      BY <2>2, <3>1, <3>2 DEF ClaimsAreCounted, AnyRow
    <3>4. row[d].lease \in Nat /\ row[d].lease <= row[d].attempts
      BY <3>1, <3>2 DEF ClaimsAreNumbered, AnyRow
    <3>5. Cardinality(ClaimsIn(d, PreSend)) \in Nat /\ Cardinality(ClaimsIn(d, {"sent"})) \in Nat
      BY <2>2, ClaimsAreFinite
    <3>6. copies[d] <= row[d].attempts /\ lost[d] <= copies[d]
      BY <3>1, <3>2, <3>3, <3>5 DEF MessagesAreCounted
    <3>7. row[d].attempts \in Attempts /\ row[d].lease \in Attempts /\ copies[d] \in Attempts /\ lost[d] \in Attempts
      BY <2>2, <3>2, <3>3, <3>4, <3>6 DEF Attempts
    <3> QED
      BY <3>2, <3>7 DEF Row, AnyRow
  <2>4. ASSUME NEW w \in Workers PROVE worker[w] \in Worker
    <3>1. worker[w] \in AnyWorker
      BY <2>2, <2>4 DEF Shapes
    <3>2. CASE worker[w].phase = "idle"
      <4>1. worker[w] = Resting
        BY <2>2, <3>2 DEF Shapes
      <4> QED
        BY <2>2, <4>1 DEF Resting, Worker, Phases, Attempts
    <3>3. CASE worker[w].phase # "idle"
      <4>1. PICK d \in Deliveries : d = worker[w].job
        BY <2>2, <3>3 DEF Shapes
      <4>2. ClaimsAreNumbered(d) /\ row[d].attempts \in 0..(MaxAttempts + MaxOutages)
        BY <2>1, <2>3 DEF OutboxInv, InOrder, Row, Attempts
      <4>3. worker[w].phase = "found" \/ On(w, d)
        BY <3>1, <3>3, <4>1 DEF On, AnyWorker, Phases, Claiming, PreSend
      <4>4. worker[w].attempts \in Nat /\ worker[w].attempts <= row[d].attempts
        BY <3>1, <4>1, <4>2, <4>3 DEF ClaimsAreNumbered, ClaimOf, AnyWorker
      <4>5. worker[w].attempts \in Attempts
        BY <2>2, <4>2, <4>4 DEF Attempts
      <4> QED
        BY <3>1, <4>5 DEF Worker, AnyWorker
    <3> QED
      BY <3>2, <3>3
  <2> QED
    BY <2>2, <2>3, <2>4 DEF TypeOK, Shapes, Queued
<1> QED
  BY <1>1, OutboxInvHolds, PTL

(* SENT is recorded only for a document that reached MAX.                  *)
THEOREM SentMeansDelivered == Spec => []SentWasDelivered
<1>1. OutboxInv => SentWasDelivered
  BY DEF OutboxInv, InOrder, MessagesAreCounted, SentWasDelivered
<1> QED
  BY <1>1, OutboxInvHolds, PTL

(* A delivery is given up only after MaxAttempts claims, and a claim beyond*)
(* them is owed to an outage.                                              *)
THEOREM NoAttemptIsLost == Spec => []AttemptsAreSpent
<1>1. OutboxInv => AttemptsAreSpent
  BY DEF OutboxInv, InOrder, ClaimsAreCounted, AttemptsAreSpent
<1> QED
  BY <1>1, OutboxInvHolds, PTL

(* A document reaches a chat twice only after a lost answer or an outage,  *)
(* however many workers poll.                                              *)
THEOREM DuplicatesHaveAnExcuse == Spec => []DuplicatesAreExcused
<1>1. OutboxInv => DuplicatesAreExcused
  <2>1. SUFFICES ASSUME OutboxInv, NEW d \in Deliveries PROVE copies[d] <= 1 + lost[d] + outages
    BY DEF DuplicatesAreExcused
  <2>2. Shapes /\ copies[d] \in Nat /\ lost[d] \in Nat /\ outages \in Nat
    BY <2>1, OutboxAssumption DEF OutboxInv, Shapes
  <2>3. Cardinality(Overdue(d)) \in Nat
    BY <2>2, ClaimsAreFinite
  <2>4. copies[d] + Cardinality(Overdue(d)) <= lost[d] + outages + OneMore(d)
    BY <2>1 DEF OutboxInv, InOrder, MessagesAreCounted
  <2>5. OneMore(d) \in {0, 1}
    BY DEF OneMore
  <2> HIDE DEF OneMore, Overdue
  <2> QED
    BY <2>2, <2>3, <2>4, <2>5
<1> QED
  BY <1>1, OutboxInvHolds, PTL

(* As long as a lease runs, only the worker that took it can end it.       *)
THEOREM OnlyTheHolderSettles == Spec => LeaseIsRespected
<1> DEFINE Respected(w) ==
             Leased(w) /\ ~row[worker[w].job].expired /\ worker'[w] = worker[w]
               => row'[worker[w].job].lease = row[worker[w].job].lease
<1>1. OutboxInv /\ [Next]_vars => \A w \in Workers : Respected(w)
  <2>1. SUFFICES ASSUME OutboxInv, [Next]_vars, NEW w \in Workers, Leased(w),
                        ~row[worker[w].job].expired, worker'[w] = worker[w]
                 PROVE  row'[worker[w].job].lease = row[worker[w].job].lease
    OBVIOUS
  <2>2. PICK d \in Deliveries : d = worker[w].job
    BY <2>1 DEF OutboxInv, Shapes, Leased
  <2>3. Shapes /\ HolderOf(w, d) /\ row \in [Deliveries -> AnyRow]
    BY <2>1, <2>2, LeasedIsHolding DEF OutboxInv, Shapes
  <2>4. row[d].lease # 0 /\ ~row[d].expired
    BY <2>1, <2>2, <2>3 DEF HolderOf, ClaimOf, Shapes, AnyWorker
  <2>5. row' = row => row'[d].lease = row[d].lease
    OBVIOUS
  <2>6. ASSUME NEW x \in Workers, Rest(x) PROVE x # w
    <3>1. worker'[x].phase = "idle"
      BY <2>3, <2>6 DEF Rest, Resting, Shapes
    <3> QED
      BY <2>1, <3>1 DEF Leased
  <2>7. ASSUME NEW x \in Workers, worker[x].phase \in Claiming, x # w PROVE ~Holds(d, worker[x].attempts) \/ worker[x].job # d
    <3>1. SUFFICES ASSUME worker[x].job = d, Holds(d, worker[x].attempts) PROVE FALSE
      OBVIOUS
    <3>2. On(x, d) /\ On(w, d) /\ ClaimOf(x) = ClaimOf(w)
      BY <2>3, <2>7, <3>1 DEF On, HolderOf, Holds, ClaimOf
    <3> QED
      BY <2>1, <2>7, <3>2 DEF OutboxInv, InOrder, ClaimsAreNumbered
  <2>8. ASSUME NEW x \in Workers, NEW status, worker[x].phase \in Claiming, Settle(x, status), Rest(x)
        PROVE  row'[d].lease = row[d].lease
    <3>1. x # w /\ (~Holds(d, worker[x].attempts) \/ worker[x].job # d)
      BY <2>6, <2>7, <2>8
    <3>2. PICK e \in Deliveries : e = worker[x].job
      BY <2>3, <2>8, OnItsJob
    <3> QED
      BY <2>3, <2>8, <3>1, <3>2 DEF Settle
  <2>9. ASSUME NEW x \in Workers, Find(x) \/ Proceed(x) \/ Crash(x) PROVE row'[d].lease = row[d].lease
    <3>1. CASE Find(x) \/ Send(x) \/ Throw(x) \/ Crash(x)
      BY <2>5, <3>1 DEF Find, Send, Throw, Crash, rows
    <3>2. CASE Claim(x)
      <4>1. worker[x].job # d \/ ~Claimable(d, worker[x].attempts)
        BY <2>4 DEF Claimable, Due
      <4> QED
        BY <2>3, <3>2, <4>1 DEF Claim
    <3>3. CASE CheckConsent(x)
      BY <2>5, <2>8, <3>3 DEF CheckConsent, Claiming, PreSend
    <3>4. CASE Upload(x)
      BY <2>3, <3>4 DEF Upload, AnyRow
    <3>5. CASE MarkSent(x)
      BY <2>8, <3>5 DEF MarkSent, Claiming
    <3>6. CASE Reschedule(x)
      <4>1. x # w /\ (~Holds(d, worker[x].attempts) \/ worker[x].job # d)
        BY <2>6, <2>7, <3>6 DEF Reschedule, Claiming
      <4> QED
        BY <2>3, <3>6, <4>1 DEF Reschedule, rows
    <3> QED
      BY <2>9, <3>1, <3>2, <3>3, <3>4, <3>5, <3>6 DEF Proceed
  <2>10. ASSUME NEW e \in Deliveries, FallDue(e) \/ LeaseRunsOut(e) \/ ChangeConsent(e)
         PROVE  row'[d].lease = row[d].lease
    <3>1. row' = row \/ row' = [row EXCEPT ![e].expired = TRUE]
      BY <2>10 DEF FallDue, LeaseRunsOut, ChangeConsent, rows
    <3> QED
      BY <2>3, <3>1 DEF AnyRow
  <2>11. CASE UNCHANGED vars
    BY <2>11 DEF vars
  <2> QED
    BY <2>1, <2>2, <2>9, <2>10, <2>11 DEF Next
<1>2. OutboxInv /\ [Next]_vars => [\A w \in Workers : Respected(w)]_vars
  BY <1>1
<1> QED
  BY <1>2, OutboxInvHolds, PTL DEF Spec, LeaseIsRespected

=============================================================================
