------------------------ MODULE EventReceipts_proofs ------------------------
(***************************************************************************)
(* What is proved of the receipts, for every set of events and batches and *)
(* every value of the retention times and limits: the types, that a batch  *)
(* counts no event a second time, that an event is not counted again       *)
(* within the time of its receipt, that the receipts and the rows of a day *)
(* stay within their limits, and that the coverage of a day and its        *)
(* summaries agree.                                                        *)
(*                                                                         *)
(* The argument on batches is one on days: the receipt of a batch goes     *)
(* after Baseline + 1 days, when the first day that is taken has passed    *)
(* the day it was written on.                                              *)
(***************************************************************************)
EXTENDS EventReceipts, FiniteSetTheorems, WellFoundedInduction, TLAPS

-----------------------------------------------------------------------------
(* Days *)

LEMMA DayBounds ==
    ASSUME NEW t \in Int
    PROVE  DayOf(t) \in Int /\ Day * DayOf(t) <= t /\ t < Day * DayOf(t) + Day
  BY ReceiptAssumption, SMTT(30) DEF DayOf

LEMMA DayOrder ==
    ASSUME NEW p \in Int, NEW q \in Int, p < q
    PROVE  Day * p + Day <= Day * q
  BY ReceiptAssumption, SMTT(30)

\* Later times have later days.
LEMMA DayMonotone ==
    ASSUME NEW t \in Int, NEW u \in Int, t <= u
    PROVE  DayOf(t) <= DayOf(u)
  <1>1. SUFFICES ASSUME DayOf(u) < DayOf(t) PROVE FALSE
    BY DayBounds
  <1>2. Day * DayOf(u) + Day <= Day * DayOf(t)
    BY <1>1, DayBounds, DayOrder
  <1> DEFINE a == Day * DayOf(u)   b == Day * DayOf(t)
  <1>3. a \in Int /\ b \in Int /\ Day \in Nat
    BY DayBounds, ReceiptAssumption
  <1>4. a + Day <= b /\ b <= t /\ u < a + Day
    BY <1>2, DayBounds
  <1> HIDE DEF a, b
  <1>5. QED  BY <1>3, <1>4

\* An event that is taken is not of a day before the first one.
LEMMA TakenIsRecent ==
    ASSUME NEW t \in Int, NEW d \in Int, d * Day <= t
    PROVE  d <= DayOf(t)
  <1>1. SUFFICES ASSUME DayOf(t) < d PROVE FALSE
    BY DayBounds
  <1>2. Day * DayOf(t) + Day <= Day * d
    BY <1>1, DayBounds, DayOrder
  <1>3. Day * d = d * Day
    BY ReceiptAssumption
  <1> DEFINE a == Day * DayOf(t)   b == d * Day
  <1>4. a \in Int /\ b \in Int /\ Day \in Nat
    BY DayBounds, ReceiptAssumption
  <1>5. a + Day <= b /\ b <= t /\ t < a + Day
    BY <1>2, <1>3, DayBounds
  <1> HIDE DEF a, b
  <1>6. QED  BY <1>4, <1>5

\* When the receipt of a batch goes, its day is before the first day that is taken.
LEMMA ExpiryIsLate ==
    ASSUME NEW r \in Int, NEW t \in Int, r < t - (Baseline + 1) * Day
    PROVE  DayOf(r) < DayOf(t) - Baseline
  <1>1. SUFFICES ASSUME DayOf(t) < DayOf(r) + Baseline + 1 PROVE FALSE
    BY DayBounds, ReceiptAssumption
  <1>2. Day * DayOf(t) + Day <= Day * (DayOf(r) + Baseline + 1)
    BY <1>1, DayBounds, DayOrder, ReceiptAssumption
  <1>3. Day * (DayOf(r) + Baseline + 1) = Day * DayOf(r) + (Baseline + 1) * Day
    BY DayBounds, ReceiptAssumption, SMTT(30)
  <1> DEFINE a == Day * DayOf(t)   b == Day * DayOf(r)   c == (Baseline + 1) * Day
  <1>4. a \in Int /\ b \in Int /\ c \in Int /\ Day \in Nat
    BY DayBounds, ReceiptAssumption
  <1>5. a + Day <= b + c /\ b <= r /\ t < a + Day /\ r < t - c
    BY <1>2, <1>3, DayBounds
  <1> HIDE DEF a, b, c
  <1>6. QED  BY <1>4, <1>5

-----------------------------------------------------------------------------
(* Types *)

LEMMA EventSetsAreFinite ==
    ASSUME NEW S \in SUBSET Events
    PROVE  IsFiniteSet(S) /\ Cardinality(S) \in Nat
  BY FS_Subset, FS_CardinalityType, ReceiptAssumption

LEMMA TimesOfEvents == \A e \in Events : Ts[e] \in Nat /\ Ts[e] \in Int
  BY ReceiptAssumption

LEMMA TypeInit == Init => TypeOK
  BY ReceiptAssumption DEF Init, TypeOK, Times, Never

LEMMA TypeStep == TypeOK /\ [Next]_vars => TypeOK'
  <1>1. SUFFICES ASSUME TypeOK, [Next]_vars PROVE TypeOK'
    OBVIOUS
  <1>2. ASSUME NEW b \in Batches, Ingest(b) PROVE TypeOK'
    <2> DEFINE new == Accepted(b)
    <2>1. new \subseteq Events
      BY ReceiptAssumption DEF Accepted
    <2>2. clock' = clock /\ clock \in Nat /\ clock \in 0 .. clock
      BY <1>1, <1>2 DEF Ingest, TypeOK, Times
    <2>3. seen' \in [Events -> (0 .. clock') \cup {Never}]
      BY <1>1, <1>2, <2>2 DEF Ingest, TypeOK, ReceivedAt
    <2>4. receipt' \in [Batches -> (0 .. clock') \cup {Never}]
      BY <1>1, <1>2, <2>2 DEF Ingest, TypeOK
    <2>5. coverage' \in [Days -> Nat]
      <3>1. \A d \in Days : Cardinality(OnDay(new, d)) \in Nat
        BY <2>1, EventSetsAreFinite DEF OnDay
      <3>2. \A d \in Days : coverage[d] \in Nat
        BY <1>1 DEF TypeOK
      <3>3. coverage' = [d \in Days |-> coverage[d] + Cardinality(OnDay(new, d))]
        BY <1>2 DEF Ingest
      <3> HIDE DEF new
      <3>4. QED  BY <3>1, <3>2, <3>3
    <2>6. summaries' \in [Days -> [Contexts -> Nat]]
      <3>1. \A d \in Days, c \in Contexts : Cardinality(InContext(new, d, c)) \in Nat
        BY <2>1, EventSetsAreFinite DEF OnDay, InContext
      <3>2. \A d \in Days, c \in Contexts : summaries[d][c] \in Nat
        BY <1>1 DEF TypeOK
      <3>3. summaries' = [d \in Days |-> [c \in Contexts |->
                            IF c \in RowsOf(d) \cup Admitted(new, d)
                            THEN summaries[d][c] + Cardinality(InContext(new, d, c))
                            ELSE 0]]
        BY <1>2 DEF Ingest
      <3> HIDE DEF new
      <3>4. QED  BY <3>1, <3>2, <3>3
    <2>7. counted' \in [Batches -> [Events -> Nat]]
      BY <1>1, <1>2 DEF Ingest, TypeOK
    <2>8. last' \in [Events -> (0 .. clock') \cup {Never}]
      BY <1>1, <1>2, <2>2 DEF Ingest, TypeOK
    <2>9. ahead' \subseteq Events
      BY <1>1, <1>2, <2>1 DEF Ingest, TypeOK
    <2>10. QED
      BY <1>1, <2>2, <2>3, <2>4, <2>5, <2>6, <2>7, <2>8, <2>9 DEF TypeOK
  <1>3. CASE Maintenance
    BY <1>1, <1>3 DEF Maintenance, TypeOK, historyVars
  <1>4. CASE TimePasses
    <2>1. clock' \in Times /\ (0 .. clock) \cup {Never} \subseteq (0 .. clock') \cup {Never}
      BY <1>1, <1>4, ReceiptAssumption DEF TimePasses, TypeOK, Times
    <2>2. UNCHANGED <<seen, receipt, coverage, summaries, counted, last, ahead>>
      BY <1>4 DEF TimePasses, storedVars, historyVars
    <2>3. QED  BY <1>1, <2>1, <2>2 DEF TypeOK
  <1>5. CASE UNCHANGED vars
    BY <1>1, <1>5 DEF TypeOK, vars, storedVars, historyVars
  <1>6. QED  BY <1>1, <1>2, <1>3, <1>4, <1>5 DEF Next

\* Every variable keeps its type, and no receipt is of a later time than now.
THEOREM ReceiptTypesCorrect == Spec => []TypeOK
  <1>1. QED  BY TypeInit, TypeStep, PTL DEF Spec

-----------------------------------------------------------------------------
(* Batches *)

\* An event that a batch has counted is behind the receipt of the batch, on a day no later
\* than the receipt's, or too old to be taken.
CountedIsGuarded ==
    \A b \in Batches, e \in Events : counted[b][e] > 0 /\ e \notin ahead =>
        \/ receipt[b] # Never /\ DayOf(Ts[e]) <= DayOf(receipt[b])
        \/ DayOf(Ts[e]) < FirstDay

BatchInv == TypeOK /\ CountedIsGuarded /\ BatchCountsOnce

LEMMA BatchInit == Init => BatchInv
  <1>1. SUFFICES ASSUME Init PROVE CountedIsGuarded /\ BatchCountsOnce
    BY TypeInit DEF BatchInv
  <1>2. \A b \in Batches, e \in Events : counted[b][e] = 0
    BY <1>1 DEF Init
  <1>3. QED  BY <1>2 DEF CountedIsGuarded, BatchCountsOnce

LEMMA BatchStep == BatchInv /\ [Next]_vars => BatchInv'
  <1>1. SUFFICES ASSUME BatchInv, [Next]_vars, TypeOK, TypeOK',
                        NEW b \in Batches, NEW e \in Events
                 PROVE  /\ counted'[b][e] <= 1 \/ e \in ahead'
                        /\ counted'[b][e] > 0 /\ e \notin ahead' =>
                             \/ receipt'[b] # Never /\ DayOf(Ts[e]) <= DayOf(receipt'[b])
                             \/ DayOf(Ts[e]) < FirstDay'
    BY TypeStep DEF BatchInv, CountedIsGuarded, BatchCountsOnce, DayOf
  <1>2. /\ counted[b][e] \in Nat
        /\ counted[b][e] <= 1 \/ e \in ahead
        /\ counted[b][e] > 0 /\ e \notin ahead =>
             \/ receipt[b] # Never /\ DayOf(Ts[e]) <= DayOf(receipt[b])
             \/ DayOf(Ts[e]) < FirstDay
    BY <1>1 DEF BatchInv, CountedIsGuarded, BatchCountsOnce, TypeOK
  <1>3. /\ DayOf(Ts[e]) \in Int /\ DayOf(clock) \in Int /\ DayOf(clock') \in Int
        /\ FirstDay \in Int /\ FirstDay = DayOf(clock) - Baseline /\ FirstDay' = DayOf(clock') - Baseline
    BY <1>1, DayBounds, TimesOfEvents, ReceiptAssumption DEF TypeOK, Times, FirstDay, DayOf
  <1>4. ASSUME NEW x \in Batches, Ingest(x)
        PROVE  /\ counted'[b][e] <= 1 \/ e \in ahead'
               /\ counted'[b][e] > 0 /\ e \notin ahead' =>
                    \/ receipt'[b] # Never /\ DayOf(Ts[e]) <= DayOf(receipt'[b])
                    \/ DayOf(Ts[e]) < FirstDay'
    <2> DEFINE new == Accepted(x)
    <2>1. clock' = clock /\ FirstDay' = FirstDay /\ ahead \subseteq ahead'
      BY <1>3, <1>4 DEF Ingest
    <2>2. CASE b # x
      <3>1. counted'[b] = counted[b] /\ receipt'[b] = receipt[b]
        BY <1>1, <1>4, <2>2 DEF Ingest, TypeOK
      <3>2. QED  BY <1>2, <2>1, <3>1
    <2>3. CASE b = x /\ e \notin new
      <3>1. counted'[b][e] = counted[b][e]
        BY <1>1, <1>4, <2>3 DEF Ingest, TypeOK
      <3>2. receipt[b] = Never
        BY <1>4, <2>3 DEF Ingest, Replayed
      <3>3. QED  BY <1>2, <2>1, <3>1, <3>2
    <2>4. CASE b = x /\ e \in new
      <3>1. counted'[b][e] = counted[b][e] + 1 /\ receipt'[b] = clock
        BY <1>1, <1>4, <2>4 DEF Ingest, TypeOK
      <3>2. receipt[b] = Never
        BY <1>4, <2>4 DEF Ingest, Replayed
      <3>3. FirstDay * Day <= Ts[e]
        BY <2>4 DEF Accepted
      <3>4. FirstDay <= DayOf(Ts[e])
        BY <1>3, <3>3, TakenIsRecent, TimesOfEvents
      <3>5. counted[b][e] = 0 \/ e \in ahead
        BY <1>2, <1>3, <3>2, <3>4
      <3>6. e \notin ahead' => DayOf(Ts[e]) <= DayOf(clock)
        BY <1>3, <1>4, <2>4 DEF Ingest
      <3>7. clock # Never
        BY <1>1 DEF TypeOK, Times, Never
      <3>8. QED  BY <1>2, <2>1, <3>1, <3>5, <3>6, <3>7
    <2>5. QED  BY <2>2, <2>3, <2>4
  <1>5. CASE Maintenance
    <2>1. clock' = clock /\ FirstDay' = FirstDay /\ counted' = counted /\ ahead' = ahead
      BY <1>3, <1>5 DEF Maintenance, historyVars
    <2>2. CASE ~BatchExpired(receipt[b])
      <3>1. receipt'[b] = receipt[b]
        BY <1>5, <2>2 DEF Maintenance
      <3>2. QED  BY <1>2, <2>1, <3>1
    <2>3. CASE BatchExpired(receipt[b])
      <3>1. receipt[b] \in Int /\ clock \in Int /\ receipt[b] < clock - (Baseline + 1) * Day
        BY <1>1, <2>3 DEF BatchExpired, TypeOK, Times, Never
      <3>2. DayOf(receipt[b]) < FirstDay /\ DayOf(receipt[b]) \in Int
        BY <1>3, <3>1, ExpiryIsLate, DayBounds
      <3>3. QED  BY <1>2, <1>3, <2>1, <3>2
    <2>4. QED  BY <2>2, <2>3
  <1>6. CASE TimePasses
    <2>1. counted' = counted /\ ahead' = ahead /\ receipt' = receipt
      BY <1>6 DEF TimePasses, storedVars, historyVars
    <2>2. clock \in Int /\ clock' \in Int /\ clock <= clock'
      BY <1>1, <1>6 DEF TimePasses, TypeOK, Times
    <2>3. FirstDay <= FirstDay' /\ FirstDay' \in Int
      BY <1>3, <2>2, DayMonotone, ReceiptAssumption
    <2>4. QED  BY <1>2, <1>3, <2>1, <2>3
  <1>7. CASE UNCHANGED vars
    <2>1. counted' = counted /\ ahead' = ahead /\ receipt' = receipt /\ FirstDay' = FirstDay
      BY <1>3, <1>7 DEF vars, storedVars, historyVars
    <2>2. QED  BY <1>2, <2>1
  <1>8. QED  BY <1>1, <1>4, <1>5, <1>6, <1>7 DEF Next

\* A batch counts no event twice, whenever it is ingested again, but for those that were
\* counted before their day began.
THEOREM BatchesCountOnce == Spec => []BatchCountsOnce
  <1>1. BatchInv => BatchCountsOnce
    BY DEF BatchInv
  <1>2. QED  BY BatchInit, BatchStep, <1>1, PTL DEF Spec

-----------------------------------------------------------------------------
(* Events *)

\* The receipt of an event tells when it was counted last, and is given up only when the
\* time it is promised for is over.
LastIsKnown ==
    \A e \in Events :
        /\ seen[e] # Never => last[e] = seen[e]
        /\ seen[e] = Never => last[e] = Never \/ last[e] < clock - Dedup

EventInv == TypeOK /\ LastIsKnown

LEMMA EventInit == Init => EventInv
  BY TypeInit DEF Init, EventInv, LastIsKnown

LEMMA EventStep == EventInv /\ [Next]_vars => EventInv'
  <1>1. SUFFICES ASSUME EventInv, [Next]_vars, TypeOK, NEW e \in Events
                 PROVE  /\ seen'[e] # Never => last'[e] = seen'[e]
                        /\ seen'[e] = Never => last'[e] = Never \/ last'[e] < clock' - Dedup
    BY TypeStep DEF EventInv, LastIsKnown
  <1>2. /\ seen[e] # Never => last[e] = seen[e]
        /\ seen[e] = Never => last[e] = Never \/ last[e] < clock - Dedup
        /\ clock \in Int /\ Dedup \in Nat /\ last[e] \in Int /\ clock # Never
    BY <1>1, ReceiptAssumption DEF EventInv, LastIsKnown, TypeOK, Times, Never
  <1>3. ASSUME NEW b \in Batches, Ingest(b)
        PROVE  /\ seen'[e] # Never => last'[e] = seen'[e]
               /\ seen'[e] = Never => last'[e] = Never \/ last'[e] < clock' - Dedup
    <2> DEFINE new == Accepted(b)
    <2>1. /\ seen'[e] = IF e \in new THEN clock ELSE IF e \in Remaining THEN seen[e] ELSE Never
          /\ last'[e] = IF e \in new THEN clock ELSE last[e]
          /\ clock' = clock
      BY <1>3 DEF Ingest, ReceivedAt
    <2>2. e \notin Remaining => seen[e] = Never \/ Expired(seen[e])
      BY DEF Remaining, Received
    <2>3. Expired(seen[e]) => seen[e] # Never /\ seen[e] < clock - Dedup
      BY DEF Expired
    <2>4. e \in Remaining => seen[e] # Never
      BY DEF Remaining, Received
    <2> HIDE DEF new
    <2>5. QED  BY <1>2, <2>1, <2>2, <2>3, <2>4
  <1>4. CASE Maintenance
    BY <1>2, <1>4 DEF Maintenance, historyVars, Expired
  <1>5. CASE TimePasses
    BY <1>2, <1>5 DEF TimePasses, storedVars, historyVars
  <1>6. CASE UNCHANGED vars
    BY <1>2, <1>6 DEF vars, storedVars, historyVars
  <1>7. QED  BY <1>1, <1>3, <1>4, <1>5, <1>6 DEF Next

\* What an ingestion takes has no receipt that is still promised.
LEMMA CountingIsApart ==
    ASSUME EventInv, [Next]_vars
    PROVE  \A e \in Events : (\E b \in Batches : counted'[b][e] > counted[b][e])
             => last[e] = Never \/ last[e] < clock - Dedup
  <1>1. SUFFICES ASSUME NEW e \in Events, NEW b \in Batches, counted'[b][e] > counted[b][e]
                 PROVE  last[e] = Never \/ last[e] < clock - Dedup
    OBVIOUS
  <1>2. counted[b][e] \in Nat /\ TypeOK
    BY DEF EventInv, TypeOK
  <1>3. counted' # counted
    BY <1>1, <1>2
  <1>4. PICK x \in Batches : Ingest(x)
    BY <1>3 DEF Next, Maintenance, TimePasses, vars, historyVars
  <1>5. e \in Accepted(x)
    BY <1>1, <1>2, <1>4 DEF Ingest, TypeOK
  <1>6. seen[e] = Never \/ Expired(seen[e])
    BY <1>5 DEF Accepted, Remaining, Received
  <1>7. QED  BY <1>6 DEF EventInv, LastIsKnown, Expired

\* An event is not counted again within the time of its receipt, in whatever batches it
\* comes and although receipts are given up at their limit.
THEOREM EventsCountedApart == Spec => CountedApart
  <1>1. EventInv /\ [Next]_vars =>
          [\A e \in Events : (\E b \in Batches : counted'[b][e] > counted[b][e])
             => last[e] = Never \/ last[e] < clock - Dedup]_vars
    BY CountingIsApart
  <1>2. QED  BY EventInit, EventStep, <1>1, PTL DEF Spec, CountedApart

-----------------------------------------------------------------------------
(* Limits *)

LEMMA LimitStep == TypeOK /\ ReceiptsBounded /\ [Next]_vars => ReceiptsBounded'
  <1>1. SUFFICES ASSUME TypeOK, ReceiptsBounded, [Next]_vars
                 PROVE  Cardinality(Received') <= MaxReceipts
    BY DEF ReceiptsBounded
  <1>2. Cardinality(Received) <= MaxReceipts /\ MaxReceipts \in Nat
    BY <1>1, ReceiptAssumption DEF ReceiptsBounded
  <1>3. ASSUME NEW b \in Batches, Ingest(b) PROVE Cardinality(Received') <= MaxReceipts
    <2>1. Remaining \in SUBSET Events /\ Content[b] \in SUBSET Events
      BY ReceiptAssumption DEF Remaining, Received
    <2>2. Received' \subseteq Remaining \cup Content[b]
      BY <1>1, <1>3 DEF Ingest, Received, Accepted, TypeOK
    <2>3. /\ IsFiniteSet(Remaining) /\ IsFiniteSet(Content[b])
          /\ Cardinality(Remaining) \in Nat /\ Cardinality(Content[b]) \in Nat
      BY <2>1, EventSetsAreFinite
    <2>4. /\ IsFiniteSet(Remaining \cup Content[b])
          /\ Cardinality(Remaining \cup Content[b]) =
               Cardinality(Remaining) + Cardinality(Content[b]) - Cardinality(Remaining \cap Content[b])
          /\ Cardinality(Remaining \cap Content[b]) \in Nat
      BY <2>1, <2>3, FS_Union, EventSetsAreFinite
    <2>5. Cardinality(Received') <= Cardinality(Remaining \cup Content[b]) /\ Cardinality(Received') \in Nat
      BY <2>2, <2>4, FS_Subset, FS_CardinalityType
    <2>6. Cardinality(Remaining) + Cardinality(Content[b]) <= MaxReceipts
      BY <1>3 DEF Ingest, Room
    <2>7. QED  BY <1>2, <2>3, <2>4, <2>5, <2>6
  <1>4. ASSUME Received' \subseteq Received PROVE Cardinality(Received') <= MaxReceipts
    <2>1. IsFiniteSet(Received) /\ Cardinality(Received) \in Nat
      BY EventSetsAreFinite DEF Received
    <2>2. Cardinality(Received') <= Cardinality(Received) /\ Cardinality(Received') \in Nat
      BY <1>4, <2>1, FS_Subset, FS_CardinalityType
    <2>3. QED  BY <1>2, <2>1, <2>2
  <1>5. CASE Maintenance
    <2>1. Received' \subseteq Received
      BY <1>1, <1>5 DEF Maintenance, Received, TypeOK
    <2>2. QED  BY <1>4, <2>1
  <1>6. CASE TimePasses
    <2>1. Received' = Received
      BY <1>6 DEF TimePasses, storedVars, Received
    <2>2. QED  BY <1>4, <2>1
  <1>7. CASE UNCHANGED vars
    <2>1. Received' = Received
      BY <1>7 DEF vars, storedVars, Received
    <2>2. QED  BY <1>4, <2>1
  <1>8. QED  BY <1>1, <1>3, <1>5, <1>6, <1>7 DEF Next

\* The number of receipts of events never exceeds its limit.
THEOREM ReceiptsStayBounded == Spec => []ReceiptsBounded
  <1>1. Init => ReceiptsBounded
    <2>1. SUFFICES ASSUME Init PROVE ReceiptsBounded
      OBVIOUS
    <2>2. Received = {}
      BY <2>1 DEF Init, Received
    <2>3. QED  BY <2>2, FS_EmptySet, ReceiptAssumption DEF ReceiptsBounded
  <1>2. QED  BY TypeInit, TypeStep, LimitStep, <1>1, PTL DEF Spec

-----------------------------------------------------------------------------
(* Rows: the contexts an ingestion admits fit in the room there is.  The number *)
(* of contexts that came earlier is another one for each of them, and less than *)
(* the room.                                                                    *)

LEMMA LeastEvent ==
    ASSUME NEW S \in SUBSET Events, S # {}
    PROVE  \E m \in S : \A e \in S : m <= e
  <1>1. S \subseteq Nat
    BY ReceiptAssumption
  <1> DEFINE less == OpToRel(<, Nat)
  <1>2. IsWellFoundedOn(less, Nat)
    BY NatLessThanWellFounded
  <1>3. \A e, m \in Nat : e < m => <<e, m>> \in less
    BY DEF OpToRel
  <1> HIDE DEF less
  <1>4. PICK m \in S : \A e \in S : ~(<<e, m>> \in less)
    BY <1>1, <1>2, WFMin
  <1>5. ASSUME NEW e \in S PROVE m <= e
    <2>1. e \in Nat /\ m \in Nat
      BY <1>1
    <2>2. ~(e < m)
      BY <1>3, <1>4, <2>1
    <2>3. QED  BY <2>1, <2>2
  <1>6. QED  BY <1>5

LEMMA UpTo ==
    ASSUME NEW n \in Nat
    PROVE  IsFiniteSet(0 .. n - 1) /\ Cardinality(0 .. n - 1) = n
  <1>1. 0 \in Int /\ n - 1 \in Int
    OBVIOUS
  <1>2. IsFiniteSet(0 .. n - 1) /\ Cardinality(0 .. n - 1) = IF 0 > n - 1 THEN 0 ELSE (n - 1) - 0 + 1
    BY <1>1, FS_Interval
  <1>3. QED  BY <1>2

LEMMA FreshIsFinite ==
    ASSUME NEW S \in SUBSET Events, NEW d
    PROVE  IsFiniteSet(Fresh(S, d))
  <1> DEFINE f == [e \in S |-> Context[e]]
             T == {f[e] : e \in S}
  <1>1. f \in Surjection(S, T)
    BY DEF Surjection
  <1>2. IsFiniteSet(T)
    BY <1>1, EventSetsAreFinite, FS_Surjection
  <1>3. Fresh(S, d) \in SUBSET T
    BY DEF Fresh, InContext, OnDay
  <1>4. QED  BY <1>2, <1>3, FS_Subset

\* Of two contexts one comes earlier, and what comes before it comes before both.
LEMMA EarlierIsLess ==
    ASSUME NEW S \in SUBSET Events, NEW d, NEW c \in Fresh(S, d), NEW x \in Earlier(S, d, c)
    PROVE  Cardinality(Earlier(S, d, x)) < Cardinality(Earlier(S, d, c))
  <1>1. Events \subseteq Nat
    BY ReceiptAssumption
  <1>2. ASSUME NEW y \in Earlier(S, d, x) PROVE y \in Earlier(S, d, c)
    <2>1. PICK e \in InContext(S, d, x) : \A f \in InContext(S, d, c) : e < f
      BY DEF Earlier
    <2>2. PICK g \in InContext(S, d, y) : \A f \in InContext(S, d, x) : g < f
      BY DEF Earlier
    <2>3. g < e /\ e \in Nat /\ g \in Nat
      BY <1>1, <2>1, <2>2 DEF InContext, OnDay
    <2>4. ASSUME NEW f \in InContext(S, d, c) PROVE g < f
      <3>1. e < f /\ f \in Nat
        BY <1>1, <2>1 DEF InContext, OnDay
      <3>2. QED  BY <2>3, <3>1
    <2>5. QED  BY <2>4 DEF Earlier
  <1>3. x \notin Earlier(S, d, x)
    <2>1. \A e \in InContext(S, d, x) : ~(e < e)
      BY <1>1 DEF InContext, OnDay
    <2>2. QED  BY <2>1 DEF Earlier
  <1>4. Earlier(S, d, x) \in SUBSET Earlier(S, d, c) /\ Earlier(S, d, x) # Earlier(S, d, c)
    BY <1>2, <1>3
  <1>5. Earlier(S, d, c) \in SUBSET Fresh(S, d) /\ Earlier(S, d, x) \in SUBSET Fresh(S, d)
    BY DEF Earlier
  <1>6. IsFiniteSet(Earlier(S, d, c)) /\ IsFiniteSet(Earlier(S, d, x))
    BY <1>5, FreshIsFinite, FS_Subset
  <1>7. Cardinality(Earlier(S, d, x)) <= Cardinality(Earlier(S, d, c))
        /\ Cardinality(Earlier(S, d, x)) # Cardinality(Earlier(S, d, c))
    BY <1>4, <1>6, FS_Subset
  <1>8. Cardinality(Earlier(S, d, x)) \in Nat /\ Cardinality(Earlier(S, d, c)) \in Nat
    BY <1>6, FS_CardinalityType
  <1>9. QED  BY <1>7, <1>8

LEMMA EarlierIsTotal ==
    ASSUME NEW S \in SUBSET Events, NEW d,
           NEW c \in Fresh(S, d), NEW x \in Fresh(S, d), c # x
    PROVE  x \in Earlier(S, d, c) \/ c \in Earlier(S, d, x)
  <1>1. Events \subseteq Nat
    BY ReceiptAssumption
  <1>2. /\ InContext(S, d, c) \in SUBSET Events /\ InContext(S, d, c) # {}
        /\ InContext(S, d, x) \in SUBSET Events /\ InContext(S, d, x) # {}
    BY DEF Fresh, InContext, OnDay
  <1>3. PICK m \in InContext(S, d, c) : \A e \in InContext(S, d, c) : m <= e
    BY <1>2, LeastEvent
  <1>4. PICK n \in InContext(S, d, x) : \A e \in InContext(S, d, x) : n <= e
    BY <1>2, LeastEvent
  <1>5. m \in Nat /\ n \in Nat
    BY <1>1, <1>2
  <1>6. m # n
    BY DEF InContext
  <1>7. CASE m < n
    <2>1. ASSUME NEW f \in InContext(S, d, x) PROVE m < f
      <3>1. f \in Nat /\ n <= f
        BY <1>1, <1>2, <1>4
      <3>2. QED  BY <1>5, <1>7, <3>1
    <2>2. QED  BY <2>1 DEF Earlier
  <1>8. CASE n < m
    <2>1. ASSUME NEW f \in InContext(S, d, c) PROVE n < f
      <3>1. f \in Nat /\ m <= f
        BY <1>1, <1>2, <1>3
      <3>2. QED  BY <1>5, <1>8, <3>1
    <2>2. QED  BY <2>1 DEF Earlier
  <1>9. QED  BY <1>5, <1>6, <1>7, <1>8

RowsFit(d) == IsFiniteSet(RowsOf(d)) /\ Cardinality(RowsOf(d)) <= MaxContexts

LEMMA AdmittedFit ==
    ASSUME NEW S \in SUBSET Events, NEW d, RowsFit(d)
    PROVE  IsFiniteSet(RowsOf(d) \cup Admitted(S, d))
           /\ Cardinality(RowsOf(d) \cup Admitted(S, d)) <= MaxContexts
  <1> DEFINE A == Admitted(S, d)
             room == MaxContexts - Cardinality(RowsOf(d))
             rank == [c \in A |-> Cardinality(Earlier(S, d, c))]
  <1>1. Cardinality(RowsOf(d)) \in Nat /\ MaxContexts \in Nat /\ room \in Nat
    BY FS_CardinalityType, ReceiptAssumption DEF RowsFit
  <1>2. A \in SUBSET Fresh(S, d)
    BY DEF Admitted
  <1>3. ASSUME NEW c \in A PROVE rank[c] \in 0 .. room - 1
    <2>1. Earlier(S, d, c) \in SUBSET Fresh(S, d)
      BY DEF Earlier
    <2>2. Cardinality(Earlier(S, d, c)) \in Nat
      BY <2>1, FreshIsFinite, FS_Subset, FS_CardinalityType
    <2>3. Cardinality(RowsOf(d)) + Cardinality(Earlier(S, d, c)) < MaxContexts
      BY DEF Admitted
    <2>4. QED  BY <1>1, <2>2, <2>3
  <1>4. ASSUME NEW c \in A, NEW x \in A, c # x PROVE rank[c] # rank[x]
    <2>1. rank[c] \in Int /\ rank[x] \in Int
      BY <1>3
    <2>2. c \in Fresh(S, d) /\ x \in Fresh(S, d)
      BY <1>2
    <2>3. x \in Earlier(S, d, c) \/ c \in Earlier(S, d, x)
      BY <1>4, <2>2, EarlierIsTotal
    <2>4. rank[x] < rank[c] \/ rank[c] < rank[x]
      BY <2>2, <2>3, EarlierIsLess
    <2>5. QED  BY <2>1, <2>4
  <1>5. rank \in Injection(A, 0 .. room - 1)
    BY <1>3, <1>4 DEF Injection, IsInjective
  <1>6. IsFiniteSet(0 .. room - 1) /\ Cardinality(0 .. room - 1) = room
    BY <1>1, UpTo
  <1>7. IsFiniteSet(A) /\ Cardinality(A) <= room
    BY <1>5, <1>6, FS_Injection
  <1>8. Cardinality(A) \in Nat /\ Cardinality(RowsOf(d) \cap A) \in Nat
    <2>1. RowsOf(d) \cap A \in SUBSET A
      OBVIOUS
    <2>2. QED  BY <1>7, <2>1, FS_Subset, FS_CardinalityType
  <1>9. IsFiniteSet(RowsOf(d) \cup A)
        /\ Cardinality(RowsOf(d) \cup A) = Cardinality(RowsOf(d)) + Cardinality(A) - Cardinality(RowsOf(d) \cap A)
    BY <1>7, FS_Union DEF RowsFit
  <1>10. QED  BY <1>1, <1>7, <1>8, <1>9

\* What has no more rows than fit has rows that fit.
LEMMA FewerRows ==
    ASSUME NEW d, NEW T, IsFiniteSet(T), Cardinality(T) <= MaxContexts, RowsOf(d)' \subseteq T
    PROVE  RowsFit(d)'
  <1>1. IsFiniteSet(RowsOf(d)') /\ Cardinality(RowsOf(d)') <= Cardinality(T)
    BY FS_Subset
  <1>2. Cardinality(RowsOf(d)') \in Nat /\ Cardinality(T) \in Nat /\ MaxContexts \in Nat
    BY <1>1, FS_CardinalityType, ReceiptAssumption
  <1>3. QED  BY <1>1, <1>2 DEF RowsFit

AllRowsFit == \A d \in Days : RowsFit(d)

LEMMA RowsInit == Init => AllRowsFit
  <1>1. SUFFICES ASSUME Init, NEW d \in Days PROVE RowsFit(d)
    BY DEF AllRowsFit
  <1>2. RowsOf(d) = {}
    BY <1>1 DEF Init, RowsOf
  <1>3. QED  BY <1>2, FS_EmptySet, ReceiptAssumption DEF RowsFit

LEMMA RowsStep == TypeOK /\ AllRowsFit /\ [Next]_vars => AllRowsFit'
  <1>1. SUFFICES ASSUME TypeOK, AllRowsFit, [Next]_vars, NEW d \in Days PROVE RowsFit(d)'
    BY DEF AllRowsFit, Days, DayOf
  <1>2. RowsFit(d)
    BY <1>1 DEF AllRowsFit
  <1>3. ASSUME NEW b \in Batches, Ingest(b) PROVE RowsFit(d)'
    <2>1. Accepted(b) \in SUBSET Events
      BY ReceiptAssumption DEF Accepted
    <2>2. RowsOf(d)' \subseteq RowsOf(d) \cup Admitted(Accepted(b), d)
      <3>1. ASSUME NEW c \in Contexts, c \notin RowsOf(d) \cup Admitted(Accepted(b), d)
            PROVE  summaries'[d][c] = 0
        BY <1>3, <3>1 DEF Ingest
      <3>2. QED  BY <3>1 DEF RowsOf
    <2>3. QED  BY <1>2, <2>1, <2>2, AdmittedFit, FewerRows
  <1>4. ASSUME RowsOf(d)' \subseteq RowsOf(d) PROVE RowsFit(d)'
    BY <1>2, <1>4, FewerRows DEF RowsFit
  <1>5. CASE Maintenance
    <2>1. RowsOf(d)' \subseteq RowsOf(d)
      BY <1>5 DEF Maintenance, RowsOf
    <2>2. QED  BY <1>4, <2>1
  <1>6. CASE TimePasses
    <2>1. RowsOf(d)' = RowsOf(d)
      BY <1>6 DEF TimePasses, storedVars, RowsOf
    <2>2. QED  BY <1>4, <2>1
  <1>7. CASE UNCHANGED vars
    <2>1. RowsOf(d)' = RowsOf(d)
      BY <1>7 DEF vars, storedVars, RowsOf
    <2>2. QED  BY <1>4, <2>1
  <1>8. QED  BY <1>1, <1>3, <1>5, <1>6, <1>7 DEF Next

\* In however many batches the events of a day come, an endpoint never has more rows for
\* the day than maximum_contexts_per_host_day.
THEOREM RowsStayBounded == Spec => []ContextsBounded
  <1>1. AllRowsFit => ContextsBounded
    BY DEF AllRowsFit, RowsFit, ContextsBounded
  <1>2. QED  BY TypeInit, TypeStep, RowsInit, RowsStep, <1>1, PTL DEF Spec

-----------------------------------------------------------------------------
(* The summaries: what a batch counts is new in every set of countings, and *)
(* below the limit every context that is not yet in a row is admitted.      *)

CountingsIn(k, S) == UNION {{<<b, e, n>> : n \in 1 .. k[b][e]} : b \in Batches, e \in S}

LEMMA InCountings ==
    ASSUME NEW k, NEW S
    PROVE  /\ \A b \in Batches, e \in S : \A n \in 1 .. k[b][e] : <<b, e, n>> \in CountingsIn(k, S)
           /\ \A x \in CountingsIn(k, S) : \E b \in Batches, e \in S : \E n \in 1 .. k[b][e] : x = <<b, e, n>>
  <1> DEFINE N(b, e) == {<<b, e, n>> : n \in 1 .. k[b][e]}
  <1>1. ASSUME NEW b \in Batches, NEW e \in S, NEW n \in 1 .. k[b][e]
        PROVE  <<b, e, n>> \in CountingsIn(k, S)
    <2>1. <<b, e, n>> \in N(b, e)
      OBVIOUS
    <2> HIDE DEF N
    <2>2. <<b, e, n>> \in UNION {N(a, f) : a \in Batches, f \in S}
      BY <2>1
    <2>3. QED  BY <2>2 DEF CountingsIn, N
  <1>2. ASSUME NEW x \in CountingsIn(k, S)
        PROVE  \E b \in Batches, e \in S : \E n \in 1 .. k[b][e] : x = <<b, e, n>>
    <2>1. PICK b \in Batches, e \in S : x \in N(b, e)
      BY DEF CountingsIn
    <2>2. QED  BY <2>1
  <1>3. QED  BY <1>1, <1>2

LEMMA CountingsGrow ==
    ASSUME TypeOK, NEW b \in Batches, Ingest(b),
           NEW S \in SUBSET Events, IsFiniteSet(Countings(S))
    PROVE  /\ IsFiniteSet(Countings(S)')
           /\ Cardinality(Countings(S)') = Cardinality(Countings(S)) + Cardinality(Accepted(b) \cap S)
  <1> DEFINE new == Accepted(b) \cap S
             added == {<<b, e, counted[b][e] + 1>> : e \in new}
             times == [e \in new |-> <<b, e, counted[b][e] + 1>>]
  <1>1. new \in SUBSET Events /\ IsFiniteSet(new)
    BY EventSetsAreFinite
  <1>2. /\ \A e \in new : counted'[b][e] = counted[b][e] + 1 /\ counted[b][e] \in Nat
        /\ \A e \in Events \ new : e \in S => counted'[b][e] = counted[b][e]
        /\ \A a \in Batches \ {b} : counted'[a] = counted[a]
    BY DEF Ingest, TypeOK
  <1> DEFINE old == CountingsIn(counted, S)
             now == CountingsIn(counted', S)
  <1>eq. Countings(S) = old /\ Countings(S)' = now
    BY DEF Countings, CountingsIn
  <1> HIDE DEF old, now
  <1>in. /\ \A a \in Batches, e \in S : \A n \in 1 .. counted[a][e] : <<a, e, n>> \in old
         /\ \A x \in old : \E a \in Batches, e \in S : \E n \in 1 .. counted[a][e] : x = <<a, e, n>>
         /\ \A a \in Batches, e \in S : \A n \in 1 .. counted'[a][e] : <<a, e, n>> \in now
         /\ \A x \in now : \E a \in Batches, e \in S : \E n \in 1 .. counted'[a][e] : x = <<a, e, n>>
    BY InCountings DEF old, now
  <1>3. now \subseteq old \cup added
    <2>1. SUFFICES ASSUME NEW a \in Batches, NEW e \in S, NEW n \in 1 .. counted'[a][e]
                   PROVE  <<a, e, n>> \in old \cup added
      BY <1>in
    <2>2. CASE a = b /\ e \in new
      <3>1. n \in 1 .. counted[b][e] \/ n = counted[b][e] + 1
        BY <1>2, <2>2
      <3>2. QED  BY <1>in, <2>2, <3>1
    <2>3. CASE ~(a = b /\ e \in new)
      <3>1. counted'[a][e] = counted[a][e]
        BY <1>2, <2>3
      <3>2. QED  BY <1>in, <3>1
    <2>4. QED  BY <2>2, <2>3
  <1>4. old \subseteq now
    <2>1. SUFFICES ASSUME NEW a \in Batches, NEW e \in S, NEW n \in 1 .. counted[a][e]
                   PROVE  <<a, e, n>> \in now
      BY <1>in
    <2>2. n \in 1 .. counted'[a][e]
      BY <1>2
    <2>3. QED  BY <1>in, <2>2
  <1>5. added \subseteq now
    <2>1. SUFFICES ASSUME NEW e \in new PROVE <<b, e, counted[b][e] + 1>> \in now
      OBVIOUS
    <2>2. counted[b][e] + 1 \in 1 .. counted'[b][e]
      BY <1>2
    <2>3. QED  BY <1>in, <2>2
  <1>6. added \cap old = {}
    <2>1. SUFFICES ASSUME NEW e \in new, <<b, e, counted[b][e] + 1>> \in old PROVE FALSE
      OBVIOUS
    <2>2. counted[b][e] + 1 \in 1 .. counted[b][e]
      BY <1>in, <2>1
    <2>3. QED  BY <1>2, <2>2
  <1>7. IsFiniteSet(added) /\ Cardinality(added) = Cardinality(new)
    <2>1. times \in Bijection(new, added)
      BY DEF Bijection, Injection, IsInjective, Surjection
    <2>2. QED  BY <1>1, <2>1, FS_Bijection DEF ExistsBijection
  <1>8. now = old \cup added
    BY <1>3, <1>4, <1>5
  <1>9. IsFiniteSet(old \cup added)
        /\ Cardinality(old \cup added) =
             Cardinality(old) + Cardinality(added) - Cardinality(old \cap added)
    BY <1>eq, <1>7, FS_Union
  <1>10. Cardinality(old \cap added) = 0
    BY <1>6, FS_EmptySet
  <1>11. Cardinality(old) \in Nat /\ Cardinality(new) \in Nat
    BY <1>eq, <1>1, FS_CardinalityType
  <1>12. QED  BY <1>eq, <1>7, <1>8, <1>9, <1>10, <1>11

\* An ingestion that leaves a context without a row has filled the rows of the day.
LEMMA LeftOutWhenFull ==
    ASSUME NEW S \in SUBSET Events, NEW d, RowsFit(d), NEW c \in Fresh(S, d) \ Admitted(S, d)
    PROVE  Cardinality(RowsOf(d) \cup Admitted(S, d)) >= MaxContexts
  <1> DEFINE F == Fresh(S, d)
             A == Admitted(S, d)
             size == Cardinality(F)
             room == MaxContexts - Cardinality(RowsOf(d))
             rank == [x \in F |-> Cardinality(Earlier(S, d, x))]
             first == [x \in A |-> rank[x]]
  <1>1. Cardinality(RowsOf(d)) \in Nat /\ MaxContexts \in Nat /\ room \in Nat /\ size \in Nat
        /\ IsFiniteSet(F)
    BY FreshIsFinite, FS_CardinalityType, ReceiptAssumption DEF RowsFit
  <1>2. A \subseteq F
    BY DEF Admitted
  <1>3. ASSUME NEW x \in F PROVE rank[x] \in 0 .. size - 1
    <2>1. x \notin Earlier(S, d, x)
      <3>1. Events \subseteq Nat
        BY ReceiptAssumption
      <3>2. \A e \in InContext(S, d, x) : ~(e < e)
        BY <3>1 DEF InContext, OnDay
      <3>3. QED  BY <3>2 DEF Earlier
    <2>2. Earlier(S, d, x) \in SUBSET F /\ Earlier(S, d, x) # F
      BY <2>1 DEF Earlier
    <2>3. /\ Cardinality(Earlier(S, d, x)) \in Nat
          /\ Cardinality(Earlier(S, d, x)) <= size /\ Cardinality(Earlier(S, d, x)) # size
      BY <1>1, <2>2, FS_Subset, FS_CardinalityType
    <2>4. QED  BY <1>1, <2>3
  <1>4. ASSUME NEW x \in F, NEW y \in F, x # y PROVE rank[x] # rank[y]
    <2>1. rank[x] \in Int /\ rank[y] \in Int
      BY <1>3
    <2>2. x \in Earlier(S, d, y) \/ y \in Earlier(S, d, x)
      BY <1>4, EarlierIsTotal
    <2>3. rank[x] < rank[y] \/ rank[y] < rank[x]
      BY <2>2, EarlierIsLess
    <2>4. QED  BY <2>1, <2>3
  <1>5. rank \in Injection(F, 0 .. size - 1)
    BY <1>3, <1>4 DEF Injection, IsInjective
  <1>6. IsFiniteSet(0 .. size - 1) /\ Cardinality(0 .. size - 1) = size
    BY <1>1, UpTo
  <1>7. rank \in Surjection(F, 0 .. size - 1)
    BY <1>5, <1>6, FS_Injection
  <1>8. rank[c] >= room /\ rank[c] \in 0 .. size - 1
    BY <1>1, <1>3 DEF Admitted
  <1>9. first \in Surjection(A, 0 .. room - 1)
    <2>1. ASSUME NEW x \in A PROVE first[x] \in 0 .. room - 1
      <3>1. rank[x] \in Nat /\ Cardinality(RowsOf(d)) + rank[x] < MaxContexts
        BY <1>2, <1>3 DEF Admitted
      <3>2. QED  BY <1>1, <3>1
    <2>2. ASSUME NEW n \in 0 .. room - 1 PROVE \E x \in A : first[x] = n
      <3>1. n \in 0 .. size - 1
        BY <1>1, <1>8
      <3>2. PICK x \in F : rank[x] = n
        BY <1>7, <3>1 DEF Surjection
      <3>3. Cardinality(RowsOf(d)) + rank[x] < MaxContexts
        BY <1>1, <3>2
      <3>4. x \in A
        BY <3>2, <3>3 DEF Admitted
      <3>5. QED  BY <3>2, <3>4
    <2>3. QED  BY <2>1, <2>2 DEF Surjection
  <1>10. IsFiniteSet(A) /\ Cardinality(A) \in Nat
    BY <1>1, <1>2, FS_Subset, FS_CardinalityType
  <1>11. room <= Cardinality(A)
    <2>1. Cardinality(0 .. room - 1) <= Cardinality(A)
      BY <1>9, <1>10, FS_Surjection
    <2>2. QED  BY <1>1, <2>1, UpTo
  <1>12. Cardinality(RowsOf(d) \cup A) = Cardinality(RowsOf(d)) + Cardinality(A)
    <2>1. RowsOf(d) \cap A = {}
      BY DEF Admitted, Fresh
    <2>2. Cardinality(RowsOf(d) \cup A) = Cardinality(RowsOf(d)) + Cardinality(A) - Cardinality(RowsOf(d) \cap A)
      BY <1>10, FS_Union DEF RowsFit
    <2>3. Cardinality(RowsOf(d) \cap A) = 0
      BY <2>1, FS_EmptySet
    <2> HIDE DEF A
    <2>4. QED  BY <1>1, <1>10, <2>2, <2>3
  <1>13. Cardinality(RowsOf(d)) + Cardinality(A) >= MaxContexts
    <2> DEFINE r == Cardinality(RowsOf(d))   a == Cardinality(A)
    <2>1. r \in Nat /\ a \in Nat /\ MaxContexts \in Nat /\ MaxContexts - r <= a
      BY <1>1, <1>10, <1>11
    <2> HIDE DEF r, a
    <2>2. r + a >= MaxContexts
      BY <2>1
    <2>3. QED  BY <2>2 DEF r, a
  <1>14. QED  BY <1>12, <1>13

LEMMA CountingsOfFewer ==
    ASSUME NEW S, NEW R \in SUBSET S, IsFiniteSet(Countings(S))
    PROVE  IsFiniteSet(Countings(R)) /\ Cardinality(Countings(R)) \in Nat
  <1>1. Countings(S) = CountingsIn(counted, S) /\ Countings(R) = CountingsIn(counted, R)
    BY DEF Countings, CountingsIn
  <1>2. CountingsIn(counted, R) \in SUBSET CountingsIn(counted, S)
    <2>1. ASSUME NEW x \in CountingsIn(counted, R) PROVE x \in CountingsIn(counted, S)
      <3>1. \E b \in Batches, e \in R : \E n \in 1 .. counted[b][e] : x = <<b, e, n>>
        BY InCountings
      <3>2. QED  BY <3>1, InCountings
    <2>2. QED  BY <2>1
  <1>3. QED  BY <1>1, <1>2, FS_Subset, FS_CardinalityType

Agrees(d) ==
    /\ IsFiniteSet(Countings(OnDay(Events, d)))
    /\ coverage[d] = Cardinality(Countings(OnDay(Events, d)))
    /\ Cardinality(RowsOf(d)) < MaxContexts =>
          \A c \in Contexts : summaries[d][c] = Cardinality(Countings(InContext(Events, d, c)))

\* What TLC checks of the summaries, for each context on its own.
AgreeInv == \A d \in Days : d >= FirstDay => Agrees(d)

LEMMA AgreeInit == Init => AgreeInv
  <1>1. SUFFICES ASSUME Init, NEW d \in Days PROVE Agrees(d)
    BY DEF AgreeInv
  <1>2. ASSUME NEW S \in SUBSET Events PROVE Countings(S) = {}
    <2>1. Countings(S) = CountingsIn(counted, S)
      BY DEF Countings, CountingsIn
    <2>2. \A b \in Batches, e \in S : 1 .. counted[b][e] = {}
      BY <1>1 DEF Init
    <2>3. QED  BY <2>1, <2>2, InCountings
  <1>3. OnDay(Events, d) \in SUBSET Events /\ \A c \in Contexts : InContext(Events, d, c) \in SUBSET Events
    BY DEF OnDay, InContext
  <1>4. coverage[d] = 0 /\ \A c \in Contexts : summaries[d][c] = 0
    BY <1>1 DEF Init
  <1>5. QED  BY <1>2, <1>3, <1>4, FS_EmptySet DEF Agrees

LEMMA AgreeIngest ==
    ASSUME TypeOK, NEW b \in Batches, Ingest(b), NEW d \in Days, RowsFit(d), RowsFit(d)', Agrees(d)
    PROVE  Agrees(d)'
  <1> DEFINE new == Accepted(b)
             day == OnDay(Events, d)
             of(c) == InContext(Events, d, c)
  <1>1. new \in SUBSET Events /\ day \in SUBSET Events /\ \A c \in Contexts : of(c) \in SUBSET day
    BY ReceiptAssumption DEF Accepted, OnDay, InContext
  <1>2. OnDay(new, d) = new \cap day /\ \A c \in Contexts : InContext(new, d, c) = new \cap of(c)
    BY <1>1 DEF OnDay, InContext
  <1>3. /\ IsFiniteSet(Countings(day)')
        /\ Cardinality(Countings(day)') = Cardinality(Countings(day)) + Cardinality(new \cap day)
    BY <1>1, CountingsGrow DEF Agrees
  <1>4. coverage'[d] = Cardinality(Countings(day)')
    <2>1. coverage'[d] = coverage[d] + Cardinality(OnDay(new, d))
      BY DEF Ingest
    <2>2. QED  BY <1>2, <1>3, <2>1 DEF Agrees
  <1>5. ASSUME Cardinality(RowsOf(d)') < MaxContexts, NEW c \in Contexts
        PROVE  summaries'[d][c] = Cardinality(Countings(of(c))')
    <2>1. summaries'[d] = [x \in Contexts |-> IF x \in RowsOf(d) \cup Admitted(new, d)
                             THEN summaries[d][x] + Cardinality(InContext(new, d, x)) ELSE 0]
      BY DEF Ingest
    <2>2. \A x \in Contexts : Cardinality(InContext(new, d, x)) \in Nat
                              /\ (Cardinality(InContext(new, d, x)) = 0 => InContext(new, d, x) = {})
      <3>1. SUFFICES ASSUME NEW x \in Contexts
                     PROVE  Cardinality(InContext(new, d, x)) \in Nat
                            /\ (Cardinality(InContext(new, d, x)) = 0 => InContext(new, d, x) = {})
        OBVIOUS
      <3>2. InContext(new, d, x) \in SUBSET Events
        BY <1>1, <1>2
      <3>3. QED  BY <3>2, EventSetsAreFinite, FS_EmptySet
    <2>3. \A x \in Contexts : summaries[d][x] \in Nat
      BY DEF TypeOK
    <2>4. RowsOf(d)' = RowsOf(d) \cup Admitted(new, d)
      <3>1. Admitted(new, d) \subseteq Contexts /\ \A x \in Admitted(new, d) : InContext(new, d, x) # {}
        BY DEF Admitted, Fresh
      <3>2. ASSUME NEW x \in Contexts PROVE summaries'[d][x] > 0 <=> x \in RowsOf(d) \cup Admitted(new, d)
        <4>1. CASE x \in RowsOf(d)
          BY <2>1, <2>2, <2>3, <4>1 DEF RowsOf
        <4>2. CASE x \in Admitted(new, d)
          BY <2>1, <2>2, <2>3, <3>1, <4>2
        <4>3. CASE x \notin RowsOf(d) \cup Admitted(new, d)
          BY <2>1, <4>3
        <4>4. QED  BY <4>1, <4>2, <4>3
      <3>3. QED  BY <3>1, <3>2 DEF RowsOf
    <2>5. Fresh(new, d) \subseteq Admitted(new, d)
      <3>1. ASSUME NEW x \in Fresh(new, d) \ Admitted(new, d) PROVE FALSE
        <4>1. Cardinality(RowsOf(d)') >= MaxContexts
          BY <1>1, <2>4, LeftOutWhenFull
        <4>2. Cardinality(RowsOf(d)') \in Nat /\ MaxContexts \in Nat
          BY FS_CardinalityType, ReceiptAssumption DEF RowsFit
        <4>3. QED  BY <1>5, <4>1, <4>2
      <3>2. QED  BY <3>1
    <2>6. Cardinality(RowsOf(d)) < MaxContexts
      <3>1. Cardinality(RowsOf(d)) <= Cardinality(RowsOf(d)')
        BY <2>4, FS_Subset DEF RowsFit
      <3>2. Cardinality(RowsOf(d)) \in Nat /\ Cardinality(RowsOf(d)') \in Nat /\ MaxContexts \in Nat
        BY FS_CardinalityType, ReceiptAssumption DEF RowsFit
      <3>3. QED  BY <1>5, <3>1, <3>2
    <2>7. summaries[d][c] = Cardinality(Countings(of(c)))
      BY <2>6 DEF Agrees
    <2>8. Cardinality(Countings(of(c))') = Cardinality(Countings(of(c))) + Cardinality(InContext(new, d, c))
      <3>1. IsFiniteSet(Countings(of(c))) /\ of(c) \in SUBSET Events
        BY <1>1, CountingsOfFewer DEF Agrees
      <3>2. QED  BY <1>2, <3>1, CountingsGrow
    <2>9. CASE c \in RowsOf(d) \cup Admitted(new, d)
      BY <2>1, <2>7, <2>8, <2>9
    <2>10. CASE c \notin RowsOf(d) \cup Admitted(new, d)
      <3>1. summaries[d][c] = 0
        BY <2>3, <2>10 DEF RowsOf
      <3>2. InContext(new, d, c) = {}
        BY <2>5, <2>10 DEF Fresh
      <3>3. summaries'[d][c] = 0 /\ Cardinality(InContext(new, d, c)) = 0
        BY <2>1, <2>10, <3>2, FS_EmptySet
      <3>4. QED  BY <2>7, <2>8, <3>1, <3>3
    <2>11. QED  BY <2>9, <2>10
  <1>6. QED  BY <1>3, <1>4, <1>5 DEF Agrees

LEMMA AgreeStep == TypeOK /\ AllRowsFit /\ AllRowsFit' /\ AgreeInv /\ [Next]_vars => AgreeInv'
  <1>1. SUFFICES ASSUME TypeOK, AllRowsFit, AllRowsFit', AgreeInv, [Next]_vars,
                        NEW d \in Days, d >= FirstDay'
                 PROVE  Agrees(d)'
    BY DEF AgreeInv, Days, DayOf
  <1>2. d \in Int /\ clock \in Int
    BY <1>1, DayBounds, TimesOfEvents, ReceiptAssumption DEF Days, TypeOK, Times
  <1>3. ASSUME FirstDay <= FirstDay' PROVE Agrees(d)
    <2>1. FirstDay \in Int /\ FirstDay' \in Int
      <3>1. clock' \in Int
        BY <1>1, <1>2 DEF Next, Ingest, Maintenance, TimePasses, vars
      <3>2. DayOf(clock) \in Int /\ DayOf(clock') \in Int /\ Baseline \in Int
        BY <1>2, <3>1, DayBounds, ReceiptAssumption
      <3>3. QED  BY <3>2 DEF FirstDay, DayOf
    <2>2. d >= FirstDay
      BY <1>1, <1>2, <1>3, <2>1
    <2>3. QED  BY <1>1, <2>2 DEF AgreeInv
  <1>4. ASSUME clock' = clock PROVE Agrees(d)
    BY <1>1, <1>4 DEF FirstDay, DayOf, AgreeInv
  <1>5. ASSUME Agrees(d), counted' = counted, coverage'[d] = coverage[d], summaries'[d] = summaries[d]
        PROVE  Agrees(d)'
    <2>1. RowsOf(d)' = RowsOf(d)
      BY <1>5 DEF RowsOf
    <2>2. Countings(OnDay(Events, d))' = Countings(OnDay(Events, d))
          /\ \A c \in Contexts : Countings(InContext(Events, d, c))' = Countings(InContext(Events, d, c))
      BY <1>5 DEF Countings, OnDay, InContext, DayOf
    <2>3. QED  BY <1>5, <2>1, <2>2 DEF Agrees
  <1>6. ASSUME NEW b \in Batches, Ingest(b) PROVE Agrees(d)'
    <2>1. Agrees(d)
      BY <1>4, <1>6 DEF Ingest
    <2>2. RowsFit(d) /\ RowsFit(d)'
      BY <1>1 DEF AllRowsFit, Days, DayOf
    <2>3. QED  BY <1>1, <1>6, <2>1, <2>2, AgreeIngest
  <1>7. CASE Maintenance
    <2>1. Agrees(d) /\ FirstDay' = FirstDay
      BY <1>4, <1>7 DEF Maintenance, FirstDay, DayOf
    <2>2. ~(d < FirstRetained)
      <3>1. FirstDay \in Int
        BY <1>2, DayBounds, ReceiptAssumption DEF FirstDay
      <3>2. QED  BY <1>1, <1>2, <2>1, <3>1 DEF FirstRetained
    <2>3. coverage'[d] = coverage[d] /\ summaries'[d] = summaries[d] /\ counted' = counted
      BY <1>7, <2>2 DEF Maintenance, historyVars
    <2>4. QED  BY <1>5, <2>1, <2>3
  <1>8. CASE TimePasses
    <2>1. FirstDay <= FirstDay'
      <3>1. clock' = clock + 1
        BY <1>8 DEF TimePasses
      <3>2. DayOf(clock) <= DayOf(clock')
        BY <1>2, <3>1, DayMonotone
      <3>3. DayOf(clock) \in Int /\ DayOf(clock') \in Int /\ Baseline \in Int
        BY <1>2, <3>1, DayBounds, ReceiptAssumption
      <3>4. FirstDay = DayOf(clock) - Baseline /\ FirstDay' = DayOf(clock') - Baseline
        BY DEF FirstDay, DayOf
      <3>5. QED  BY <3>2, <3>3, <3>4
    <2>2. QED  BY <1>3, <1>5, <1>8, <2>1 DEF TimePasses, storedVars, historyVars
  <1>9. CASE UNCHANGED vars
    BY <1>4, <1>5, <1>9 DEF vars, storedVars, historyVars
  <1>10. QED  BY <1>1, <1>6, <1>7, <1>8, <1>9 DEF Next

\* Where each row counts the countings of its context, the rows together count all of the day.
LEMMA RowsCountAll ==
    ASSUME TypeOK, NEW d \in Days, Agrees(d), Cardinality(RowsOf(d)) < MaxContexts
    PROVE  Cardinality(InRows(d)) = coverage[d]
  <1> DEFINE day == OnDay(Events, d)
             of(c) == Countings(InContext(Events, d, c))
             number == [c \in Contexts |-> CHOOSE f : f \in Bijection(1 .. summaries[d][c], of(c))]
             map == [x \in InRows(d) |-> number[x[1]][x[2]]]
  <1>1. ASSUME NEW c \in Contexts
        PROVE  /\ \A n \in 1 .. summaries[d][c] : number[c][n] \in of(c)
               /\ \A m, n \in 1 .. summaries[d][c] : number[c][m] = number[c][n] => m = n
               /\ \A z \in of(c) : \E n \in 1 .. summaries[d][c] : number[c][n] = z
    <2>1. InContext(Events, d, c) \in SUBSET day
      BY DEF InContext
    <2>2. IsFiniteSet(of(c)) /\ summaries[d][c] = Cardinality(of(c))
      BY <2>1, CountingsOfFewer DEF Agrees
    <2>3. ExistsBijection(1 .. summaries[d][c], of(c))
      BY <2>2, FS_CardinalityType
    <2>4. number[c] \in Bijection(1 .. summaries[d][c], of(c))
      BY <2>3 DEF ExistsBijection
    <2> HIDE DEF number, of
    <2>5. QED  BY <2>4 DEF Bijection, Injection, IsInjective, Surjection
  <1>2. /\ \A c \in Contexts : \A n \in 1 .. summaries[d][c] : <<c, n>> \in InRows(d)
        /\ \A x \in InRows(d) : \E c \in Contexts : \E n \in 1 .. summaries[d][c] : x = <<c, n>>
    BY DEF InRows
  <1>3. /\ \A c \in Contexts : \A z \in of(c) :
              z \in Countings(day) /\ \E e \in Events : z[2] = e /\ Context[e] = c
        /\ \A z \in Countings(day) : \E c \in Contexts : z \in of(c)
    <2>1. \A S : Countings(S) = CountingsIn(counted, S)
      BY DEF Countings, CountingsIn
    <2>2. ASSUME NEW c \in Contexts, NEW z \in of(c)
          PROVE  z \in Countings(day) /\ \E e \in Events : z[2] = e /\ Context[e] = c
      <3>1. PICK b \in Batches, e \in InContext(Events, d, c) : \E n \in 1 .. counted[b][e] : z = <<b, e, n>>
        BY <2>1, InCountings
      <3>2. e \in day /\ e \in Events /\ Context[e] = c
        BY DEF InContext, OnDay
      <3>3. QED  BY <2>1, <3>1, <3>2, InCountings
    <2>3. ASSUME NEW z \in Countings(day) PROVE \E c \in Contexts : z \in of(c)
      <3>1. PICK b \in Batches, e \in day : \E n \in 1 .. counted[b][e] : z = <<b, e, n>>
        BY <2>1, InCountings
      <3>2. Context[e] \in Contexts /\ e \in InContext(Events, d, Context[e])
        BY ReceiptAssumption DEF InContext, OnDay
      <3>3. QED  BY <2>1, <3>1, <3>2, InCountings
    <2>4. QED  BY <2>2, <2>3
  <1> HIDE DEF of, number, day
  <1>4. map \in Injection(InRows(d), Countings(day))
    <2>1. ASSUME NEW x \in InRows(d) PROVE map[x] \in Countings(day)
      <3>1. PICK c \in Contexts : \E n \in 1 .. summaries[d][c] : x = <<c, n>>
        BY <1>2
      <3>2. map[x] \in of(c)
        BY <1>1, <3>1
      <3>3. QED  BY <1>3, <3>2
    <2>2. ASSUME NEW x \in InRows(d), NEW y \in InRows(d), map[x] = map[y] PROVE x = y
      <3>1. PICK c \in Contexts : \E n \in 1 .. summaries[d][c] : x = <<c, n>>
        BY <1>2
      <3>2. PICK a \in Contexts : \E n \in 1 .. summaries[d][a] : y = <<a, n>>
        BY <1>2
      <3>3. map[x] \in of(c) /\ map[y] \in of(a)
        BY <1>1, <3>1, <3>2
      <3>4. a = c
        BY <1>3, <2>2, <3>3
      <3>5. number[c][x[2]] = number[c][y[2]]
        BY <2>2, <3>1, <3>2, <3>4
      <3>6. x[2] = y[2]
        BY <1>1, <3>1, <3>2, <3>4, <3>5
      <3>7. QED  BY <3>1, <3>2, <3>4, <3>6
    <2>3. QED  BY <2>1, <2>2 DEF Injection, IsInjective
  <1>5. map \in Surjection(InRows(d), Countings(day))
    <2>1. ASSUME NEW z \in Countings(day) PROVE \E x \in InRows(d) : map[x] = z
      <3>1. PICK c \in Contexts : z \in of(c)
        BY <1>3
      <3>2. PICK n \in 1 .. summaries[d][c] : number[c][n] = z
        BY <1>1, <3>1
      <3>3. <<c, n>> \in InRows(d) /\ map[<<c, n>>] = z
        BY <1>2, <3>2
      <3>4. QED  BY <3>3
    <2>2. QED  BY <1>4, <2>1 DEF Injection, Surjection
  <1>6. IsFiniteSet(Countings(day)) /\ coverage[d] = Cardinality(Countings(day))
    BY DEF Agrees, day
  <1>7. QED  BY <1>4, <1>5, <1>6, FS_Injection

\* For every day whose events are still taken, what its coverage says was counted, and
\* below the limit of rows its summaries hold all of it: no batch, replay or retention
\* makes the two differ.
THEOREM CoverageAndSummariesAgree == Spec => []SummariesAgree
  <1>1. TypeOK /\ AgreeInv => SummariesAgree
    <2>1. SUFFICES ASSUME TypeOK, AgreeInv, NEW d \in Days, d >= FirstDay
                   PROVE  /\ coverage[d] = Cardinality(Countings(OnDay(Events, d)))
                          /\ Cardinality(RowsOf(d)) < MaxContexts => Cardinality(InRows(d)) = coverage[d]
      BY DEF SummariesAgree
    <2>2. Agrees(d)
      BY <2>1 DEF AgreeInv
    <2>3. QED  BY <2>1, <2>2, RowsCountAll DEF Agrees
  <1>2. QED  BY TypeInit, TypeStep, RowsInit, RowsStep, AgreeInit, AgreeStep, <1>1, PTL DEF Spec
=============================================================================
