----------------------- MODULE FindingLifecycle_proofs -----------------------
(* One open finding per context, whatever the interleaving of detections and *)
(* decisions, none closed but by a decision, and no detection lost or        *)
(* counted twice: for all contexts, batches, lifetimes and findings.         *)
EXTENDS FindingLifecycle, FiniteSetTheorems, TLAPS

-----------------------------------------------------------------------------
(* The inductive invariant *)

\* The unique constraint: no two findings have the key of a context.
KeysUnique ==
    \A i, j \in Rows : findings[i].key /\ findings[j].key
                        /\ findings[i].context = findings[j].context => i = j

\* What is inserted has the only key of its context, and no detection is looked up twice.
InsertedAlone ==
    /\ \A n \in inserted : Keyed(n[2]) = {} /\ added[n[1]] > 0
    /\ \A m, n \in inserted : m[1] = n[1] \/ m[2] = n[2] => m = n
    /\ looked # "not yet" => \A n \in inserted : n[2] # Head(todo)

\* A finding that stays open is found by every detection of its context.
SteadyCounts ==
    /\ steady \subseteq OpenRows
    /\ \A i \in steady : looked # "not yet" => findings[i].context # Head(todo)

\* What an analyst decides on is no finding of the transaction, and may be expected if that is the decision.
DecisionStands ==
    /\ \A n \in inserted : n[1] # decision.on
    /\ decision.what = "expected" /\ decision.on \in Rows => findings[decision.on].context \in Expectable

IInv == TypeOK /\ KeysUnique /\ InsertedAlone /\ SteadyCounts /\ OpenFindingsCount /\ DecisionStands

-----------------------------------------------------------------------------
(* Facts about the operators *)

LEMMA Constants ==
    /\ MaxClock \in Nat /\ ClosedDays \in Nat /\ Lifetimes \subseteq Nat
    /\ Expectable \subseteq Contexts /\ NoId \notin Ids
BY FindingAssumption

LEMMA HeadAndTail ==
    ASSUME NEW s \in Seq(Contexts), s # <<>>
    PROVE  Head(s) \in Contexts /\ Tail(s) \in Seq(Contexts)
OBVIOUS

\* A finding that is inserted is a new one of a context.
LEMMA InsertedFacts ==
    ASSUME TypeOK, NEW n \in inserted
    PROVE  n = <<n[1], n[2]>> /\ n[1] \in Ids /\ n[1] \notin Rows /\ n[2] \in Contexts
           /\ added[n[1]] \in Nat
<1>1. inserted \subseteq (Ids \ Rows) \X Contexts /\ added \in [Ids -> Nat]
  BY DEF TypeOK
<1>2. n \in (Ids \ Rows) \X Contexts
  BY <1>1
<1>3. n = <<n[1], n[2]>> /\ n[1] \in Ids /\ n[1] \notin Rows /\ n[2] \in Contexts
  BY <1>2
<1> QED BY <1>1, <1>3

\* Counting once more keeps a table of counts one.
LEMMA OneMore ==
    ASSUME NEW S, NEW t \in [S -> Nat], NEW k
    PROVE  [t EXCEPT ![k] = @ + 1] \in [S -> Nat]
<1> DEFINE u == [t EXCEPT ![k] = @ + 1]
<1>1. \A x \in S : u[x] = t[x] \/ u[x] = t[x] + 1
  OBVIOUS
<1>2. \A x \in S : t[x] \in Nat
  OBVIOUS
<1>3. \A x \in S : u[x] \in Nat
  BY <1>1, <1>2
<1>4. u = [x \in S |-> u[x]]
  OBVIOUS
<1> HIDE DEF u
<1>5. u \in [S -> Nat]
  BY <1>3, <1>4
<1> QED BY <1>5 DEF u

LEMMA RowFacts ==
    ASSUME TypeOK, NEW i \in Rows
    PROVE  i \in Ids /\ findings[i] \in Finds /\ WellClosed(findings[i])
BY DEF TypeOK, Rows

LEMMA NoFindingIs == NoFinding \notin Finds
BY DEF NoFinding, Finds, States, Open

LEMMA NothingIs == Nothing \in [Contexts -> Nat]
BY DEF Nothing

LEMMA FindingIs ==
    ASSUME NEW c \in Contexts, NEW n \in Nat \ {0}
    PROVE  /\ Finding(c, n) \in Finds /\ Finding(c, n).context = c /\ Finding(c, n).key
           /\ Finding(c, n).state \in Open /\ WellClosed(Finding(c, n))
BY DEF Finding, Finds, States, Open, NotClosed, WellClosed

LEMMA BatchesAre ==
    ASSUME NEW b \in Batches
    PROVE  b \in Seq(Contexts)
BY FindingAssumption

\* What a decision makes of a finding.
LEMMA DecidedIs ==
    ASSUME NEW f \in Finds, NEW what \in States, clock \in Nat
    PROVE  /\ Decided(f, what) \in Finds /\ Decided(f, what).state = what
           /\ Decided(f, what).context = f.context /\ Decided(f, what) # NoFinding
           /\ Decided(f, what).key <=> what \in Open
           /\ WellClosed(Decided(f, what))
<1>1. f = [context |-> f.context, state |-> f.state, key |-> f.key, closed |-> f.closed,
           occurrences |-> f.occurrences]
  BY DEF Finds
<1>2. CASE what \in Open
  <2>1. Decided(f, what) = [context |-> f.context, state |-> what, key |-> TRUE,
                            closed |-> NotClosed, occurrences |-> f.occurrences]
    BY <1>1, <1>2 DEF Decided, Reopened
  <2>2. Decided(f, what) \in Finds
    BY <2>1 DEF Finds, NotClosed
  <2>3. WellClosed(Decided(f, what))
    BY <1>2, <2>1 DEF WellClosed
  <2>4. Decided(f, what).state = what /\ Decided(f, what).context = f.context
        /\ Decided(f, what).key = TRUE
    BY <2>1
  <2> QED BY <1>2, <2>2, <2>3, <2>4, NoFindingIs
<1>3. CASE what \notin Open
  <2>1. Decided(f, what) = [context |-> f.context, state |-> what, key |-> FALSE,
                            closed |-> clock, occurrences |-> f.occurrences]
    BY <1>1, <1>3 DEF Decided, Closed
  <2>2. Decided(f, what) \in Finds
    BY <2>1 DEF Finds
  <2>3. WellClosed(Decided(f, what))
    BY <1>3, <2>1 DEF WellClosed
  <2>4. Decided(f, what).state = what /\ Decided(f, what).context = f.context
        /\ Decided(f, what).key = FALSE
    BY <2>1
  <2> QED BY <1>3, <2>2, <2>3, <2>4, NoFindingIs
<1> QED BY <1>2, <1>3

\* An open finding has the key of its context.
LEMMA OpenIsKeyed ==
    ASSUME TypeOK, NEW i \in OpenRows
    PROVE  i \in Rows /\ findings[i].key /\ i \in Keyed(findings[i].context)
BY RowFacts DEF OpenRows, WellClosed, Keyed

LEMMA OneOpenFollows == TypeOK /\ KeysUnique => OneOpen
BY OpenIsKeyed DEF KeysUnique, OneOpen

-----------------------------------------------------------------------------
(* The initial states *)

LEMMA InitIInv == Init => IInv
<1> SUFFICES ASSUME Init PROVE IInv
  OBVIOUS
<1>1. /\ clock = 0 /\ findings = [i \in Ids |-> NoFinding] /\ expectations = {} /\ steady = {}
      /\ looked = "not yet" /\ added = [i \in Ids |-> 0] /\ inserted = {} /\ hidden = Nothing
      /\ decision = Undecided
  BY DEF Init
<1>2. batch = <<>> /\ todo = <<>>
  BY DEF Init
<1>3. Rows = {} /\ OpenRows = {}
  BY <1>1 DEF Rows, OpenRows
<1>4. TypeOK
  <2>1. findings \in [Ids -> Finds \cup {NoFinding}] /\ added \in [Ids -> Nat]
    BY <1>1
  <2>2. decision \in [what : States \cup {"none"}, on : Ids \cup {NoId}]
    BY <1>1 DEF Undecided
  <2>3. clock \in 0 .. MaxClock
    <3>1. clock = 0 /\ MaxClock \in Nat
      BY <1>1, Constants
    <3> QED BY <3>1
  <2>4. batch \in Seq(Contexts) /\ todo \in Seq(Contexts)
    BY <1>2
  <2> QED BY <1>1, <1>3, <2>1, <2>2, <2>3, <2>4, NothingIs DEF TypeOK
<1>5. KeysUnique /\ InsertedAlone /\ SteadyCounts /\ OpenFindingsCount
  BY <1>1, <1>3 DEF KeysUnique, InsertedAlone, SteadyCounts, OpenFindingsCount
<1>6. DecisionStands
  BY <1>1 DEF DecisionStands, Undecided
<1> QED BY <1>4, <1>5, <1>6 DEF IInv

-----------------------------------------------------------------------------
(* The steps of the worker *)

\* What does not depend on the findings' table is kept when it does not change.
LEMMA SameTable ==
    ASSUME findings' = findings
    PROVE  Rows' = Rows /\ OpenRows' = OpenRows /\ \A c : Keyed(c)' = Keyed(c)
BY DEF Rows, OpenRows, Keyed, NoFinding

\* A transaction that begins, or begins again, has done nothing yet.
LEMMA RestartStep ==
    ASSUME IInv, NEW b \in Seq(Contexts), Restart(b), batch' \in Seq(Contexts), steady' = OpenRows,
           UNCHANGED <<clock, findings, expectations, decision>>
    PROVE  IInv'
<1>1. Rows' = Rows /\ OpenRows' = OpenRows /\ (\A c : Keyed(c)' = Keyed(c))
  BY SameTable
<1>2. /\ todo' = b /\ looked' = "not yet" /\ inserted' = {} /\ hidden' = Nothing
      /\ added' = [i \in Ids |-> 0]
  BY DEF Restart
<1>3. TypeOK'
  <2>1. added' \in [Ids -> Nat]
    BY <1>2
  <2>2. \A i \in Rows : WellClosed(findings[i])'
    BY DEF IInv, TypeOK, WellClosed
  <2> QED BY <1>1, <1>2, <2>1, <2>2, NothingIs DEF IInv, TypeOK, Undecided
<1>4. KeysUnique'
  BY <1>1 DEF IInv, KeysUnique
<1>5. InsertedAlone'
  BY <1>2 DEF InsertedAlone
<1>6. SteadyCounts'
  BY <1>1, <1>2 DEF SteadyCounts
<1>7. OpenFindingsCount'
  <2> SUFFICES ASSUME NEW i \in OpenRows PROVE hidden'[findings'[i].context] = 0
    BY <1>2 DEF OpenFindingsCount
  <2>1. findings[i].context \in Contexts
    BY RowFacts DEF IInv, OpenRows, Finds
  <2> QED BY <1>2, <2>1 DEF Nothing
<1>8. DecisionStands'
  BY <1>1, <1>2 DEF IInv, DecisionStands
<1> QED BY <1>3, <1>4, <1>5, <1>6, <1>7, <1>8 DEF IInv

LEMMA BeginStep == IInv /\ Begin => IInv'
<1> SUFFICES ASSUME IInv, Begin PROVE IInv'
  OBVIOUS
<1>1. PICK b \in Batches : batch' = b /\ Restart(b)
  BY DEF Begin
<1>2. b \in Seq(Contexts)
  BY BatchesAre
<1> QED BY <1>1, <1>2, RestartStep DEF Begin

LEMMA AgainStep == IInv /\ (Conflict \/ Fail) => IInv'
<1> SUFFICES ASSUME IInv, Conflict \/ Fail PROVE IInv'
  OBVIOUS
<1>1. Restart(batch) /\ batch' = batch /\ batch \in Seq(Contexts) /\ steady' = OpenRows
  BY DEF Conflict, RolledBack, Fail, IInv, TypeOK
<1> QED BY <1>1, RestartStep DEF Conflict, Fail

LEMMA CountStep == IInv /\ Count => IInv'
<1> SUFFICES ASSUME IInv, Count PROVE IInv'
  OBVIOUS
<1> USE DEF IInv
<1>1. /\ todo # <<>> /\ looked = "not yet" /\ todo' = Tail(todo)
      /\ UNCHANGED <<clock, findings, expectations, batch, looked, inserted, hidden, decision, steady>>
  BY DEF Count
<1>2. PICK i \in Existing(Head(todo)) : added' = [added EXCEPT ![i] = @ + 1]
  BY DEF Count
<1>3. Rows' = Rows /\ OpenRows' = OpenRows /\ (\A c : Keyed(c)' = Keyed(c))
  BY <1>1, SameTable
<1>4. added' \in [Ids -> Nat] /\ \A j \in Ids : added'[j] >= added[j]
  <2>1. added \in [Ids -> Nat]
    BY DEF TypeOK
  <2>2. \A j \in Ids : added'[j] = added[j] \/ added'[j] = added[j] + 1
    BY <1>2, <2>1
  <2>3. \A j \in Ids : added[j] \in Nat
    BY <2>1
  <2>4. \A j \in Ids : added'[j] \in Nat /\ added'[j] >= added[j]
    BY <2>2, <2>3
  <2>5. added' = [j \in Ids |-> added'[j]]
    BY <1>2, <2>1
  <2> QED BY <2>4, <2>5
<1>5. todo' \in Seq(Contexts)
  BY <1>1, HeadAndTail DEF TypeOK
<1>6. TypeOK'
  <2>1. \A j \in Rows : WellClosed(findings[j])'
    BY <1>1 DEF TypeOK, WellClosed
  <2> QED BY <1>1, <1>3, <1>4, <1>5, <2>1 DEF TypeOK, Undecided
<1>7. KeysUnique' /\ SteadyCounts' /\ OpenFindingsCount' /\ DecisionStands'
  BY <1>1, <1>3 DEF KeysUnique, SteadyCounts, OpenFindingsCount, DecisionStands
<1>8. InsertedAlone'
  <2>1. \A n \in inserted : n[1] \in Ids
    BY DEF TypeOK
  <2>2. \A n \in inserted : added'[n[1]] > 0
    <3> SUFFICES ASSUME NEW n \in inserted PROVE added'[n[1]] > 0
      OBVIOUS
    <3>1. added[n[1]] > 0 /\ added[n[1]] \in Nat /\ n[1] \in Ids
      BY InsertedFacts DEF InsertedAlone
    <3>2. added'[n[1]] >= added[n[1]] /\ added'[n[1]] \in Nat
      BY <1>4, <3>1
    <3> QED BY <3>1, <3>2
  <2> QED BY <1>1, <1>3, <2>2 DEF InsertedAlone
<1> QED BY <1>6, <1>7, <1>8

LEMMA LookStep == IInv /\ (NoneOpen \/ NotExpected) => IInv'
<1> SUFFICES ASSUME IInv, NoneOpen \/ NotExpected PROVE IInv'
  OBVIOUS
<1> USE DEF IInv
<1>1. /\ looked' \in {"no finding", "not expected"} /\ todo # <<>>
      /\ UNCHANGED <<clock, findings, expectations, batch, todo, added, inserted, hidden, decision, steady>>
  BY DEF NoneOpen, NotExpected, TypeOK
<1>2. Rows' = Rows /\ OpenRows' = OpenRows /\ (\A c : Keyed(c)' = Keyed(c))
  BY <1>1, SameTable
<1>3. TypeOK'
  <2>1. \A j \in Rows : WellClosed(findings[j])'
    BY <1>1 DEF TypeOK, WellClosed
  <2> QED BY <1>1, <1>2, <2>1 DEF TypeOK, Undecided
<1>4. KeysUnique' /\ OpenFindingsCount' /\ DecisionStands'
  BY <1>1, <1>2 DEF KeysUnique, OpenFindingsCount, DecisionStands
<1>5. (\A n \in inserted : n[2] # Head(todo)) /\ (\A i \in steady : findings[i].context # Head(todo))
  <2>1. CASE NotExpected
    BY <2>1 DEF NotExpected, InsertedAlone, SteadyCounts
  <2>2. CASE NoneOpen
    <3>1. Existing(Head(todo)) = {}
      BY <2>2 DEF NoneOpen, Counts
    <3>2. \A n \in inserted : n[2] # Head(todo)
      BY <3>1 DEF Existing
    <3>3. \A i \in steady : findings[i].context # Head(todo)
      BY <3>1, OpenIsKeyed DEF Existing, SteadyCounts
    <3> QED BY <3>2, <3>3
  <2> QED BY <2>1, <2>2
<1>6. InsertedAlone'
  BY <1>1, <1>2, <1>5 DEF InsertedAlone
<1>7. SteadyCounts'
  BY <1>1, <1>2, <1>5 DEF SteadyCounts
<1> QED BY <1>3, <1>4, <1>6, <1>7

LEMMA SuppressStep == IInv /\ Suppress => IInv'
<1> SUFFICES ASSUME IInv, Suppress PROVE IInv'
  OBVIOUS
<1> USE DEF IInv
<1>1. /\ looked = "no finding" /\ todo # <<>> /\ todo' = Tail(todo) /\ looked' = "not yet"
      /\ hidden' = [hidden EXCEPT ![Head(todo)] = @ + 1]
      /\ UNCHANGED <<clock, findings, expectations, batch, added, inserted, decision, steady>>
  BY DEF Suppress, TypeOK
<1>2. Rows' = Rows /\ OpenRows' = OpenRows /\ (\A c : Keyed(c)' = Keyed(c))
  BY <1>1, SameTable
<1>3. todo' \in Seq(Contexts) /\ hidden' \in [Contexts -> Nat]
  <2>1. Head(todo) \in Contexts /\ todo' \in Seq(Contexts) /\ hidden \in [Contexts -> Nat]
    BY <1>1, HeadAndTail DEF TypeOK
  <2> QED BY <1>1, <2>1, OneMore
<1>4. TypeOK'
  <2>1. \A j \in Rows : WellClosed(findings[j])'
    BY <1>1 DEF TypeOK, WellClosed
  <2> QED BY <1>1, <1>2, <1>3, <2>1 DEF TypeOK, Undecided
<1>5. KeysUnique' /\ InsertedAlone' /\ SteadyCounts' /\ DecisionStands'
  BY <1>1, <1>2 DEF KeysUnique, InsertedAlone, SteadyCounts, DecisionStands
<1>6. OpenFindingsCount'
  <2>1. \A i \in steady : findings[i].context # Head(todo)
    BY <1>1 DEF SteadyCounts
  <2>2. \A i \in steady : findings[i].context \in Contexts
    BY RowFacts DEF SteadyCounts, OpenRows, Finds
  <2> QED BY <1>1, <2>1, <2>2 DEF OpenFindingsCount, TypeOK
<1> QED BY <1>4, <1>5, <1>6

LEMMA InsertStep == IInv /\ Insert => IInv'
<1> SUFFICES ASSUME IInv, Insert PROVE IInv'
  OBVIOUS
<1> USE DEF IInv
<1> DEFINE c == Head(todo)
           i == CHOOSE j \in Free : TRUE
<1>1. /\ looked = "not expected" /\ Keyed(c) = {} /\ todo # <<>> /\ i \in Free
      /\ inserted' = inserted \cup {<<i, c>>} /\ added' = [added EXCEPT ![i] = 1]
      /\ todo' = Tail(todo) /\ looked' = "not yet"
      /\ UNCHANGED <<clock, findings, expectations, batch, hidden, decision, steady>>
  BY DEF Insert, TypeOK
<1>2. c \in Contexts /\ todo' \in Seq(Contexts)
  BY <1>1, HeadAndTail DEF TypeOK
<1>3. i \in Ids \ Rows /\ (\A n \in inserted : n[1] # i) /\ i # decision.on
  BY <1>1 DEF Free
<1> HIDE DEF c, i
<1>4. Rows' = Rows /\ OpenRows' = OpenRows /\ (\A d : Keyed(d)' = Keyed(d))
  BY <1>1, SameTable
<1>5. TypeOK'
  <2>1. \A j \in Rows : WellClosed(findings[j])'
    BY <1>1 DEF TypeOK, WellClosed
  <2>2. added' \in [Ids -> Nat]
    <3>1. added \in [Ids -> Nat]
      BY DEF TypeOK
    <3> QED BY <1>1, <3>1
  <2>3. inserted' \subseteq (Ids \ Rows) \X Contexts
    <3>1. inserted \subseteq (Ids \ Rows) \X Contexts
      BY DEF TypeOK
    <3>2. <<i, c>> \in (Ids \ Rows) \X Contexts
      BY <1>2, <1>3
    <3> QED BY <1>1, <3>1, <3>2
  <2> QED BY <1>1, <1>2, <1>4, <2>1, <2>2, <2>3 DEF TypeOK, Undecided
<1>6. KeysUnique' /\ SteadyCounts'
  BY <1>1, <1>4 DEF KeysUnique, SteadyCounts
<1>7. InsertedAlone'
  <2>1. \A n \in inserted : n[1] \in Ids /\ n[1] # i /\ n[2] # c
    BY <1>1, <1>3, InsertedFacts DEF InsertedAlone, c
  <2>2. ASSUME NEW n \in inserted' PROVE Keyed(n[2])' = {} /\ added'[n[1]] > 0
    <3>1. CASE n = <<i, c>>
      <4>1. n[1] = i /\ n[2] = c
        <5>1. <<i, c>>[1] = i /\ <<i, c>>[2] = c
          OBVIOUS
        <5> QED BY <3>1, <5>1
      <4>2. added'[i] = 1
        <5>1. added \in [Ids -> Nat]
          BY DEF TypeOK
        <5> QED BY <1>1, <1>3, <5>1
      <4>3. Keyed(n[2])' = {}
        BY <1>1, <1>4, <4>1
      <4>4. added'[n[1]] > 0
        BY <4>1, <4>2
      <4> QED BY <4>3, <4>4
    <3>2. CASE n \in inserted
      <4>1. added'[n[1]] = added[n[1]]
        BY <1>1, <1>3, <2>1, <3>2 DEF TypeOK
      <4> QED BY <1>4, <3>2, <4>1 DEF InsertedAlone
    <3> QED BY <1>1, <3>1, <3>2
  <2>3. \A m, n \in inserted' : m[1] = n[1] \/ m[2] = n[2] => m = n
    <3>1. <<i, c>>[1] = i /\ <<i, c>>[2] = c
      OBVIOUS
    <3>2. \A m \in inserted : m[1] # <<i, c>>[1] /\ m[2] # <<i, c>>[2]
      BY <2>1, <3>1
    <3> QED BY <1>1, <3>2 DEF InsertedAlone
  <2> QED BY <1>1, <2>2, <2>3 DEF InsertedAlone
<1>8. OpenFindingsCount'
  <2>1. \A j \in steady : findings[j].context # c
    BY <1>1 DEF SteadyCounts, c
  <2>2. <<i, c>>[2] = c
    OBVIOUS
  <2> QED BY <1>1, <2>1, <2>2 DEF OpenFindingsCount
<1>9. DecisionStands'
  <2>1. <<i, c>>[1] = i
    OBVIOUS
  <2> QED BY <1>1, <1>3, <1>4, <2>1 DEF DecisionStands
<1> QED BY <1>5, <1>6, <1>7, <1>8, <1>9

\* What is written: a finding of the table with another count, a new one, or nothing.
LEMMA WrittenIs ==
    ASSUME TypeOK, InsertedAlone, NEW i \in Ids
    PROVE  \/ /\ i \in Rows /\ Written(i) \in Finds
              /\ Written(i).state = findings[i].state /\ Written(i).key = findings[i].key
              /\ Written(i).closed = findings[i].closed /\ Written(i).context = findings[i].context
           \/ /\ i \notin Rows
              /\ \E n \in inserted : n[1] = i /\ Written(i) = Finding(n[2], added[i])
           \/ i \notin Rows /\ Written(i) = NoFinding
<1>1. CASE \E n \in inserted : n[1] = i
  <2> DEFINE n == CHOOSE m \in inserted : m[1] = i
  <2>1. n \in inserted /\ n[1] = i
    BY <1>1
  <2>2. Written(i) = Finding(n[2], added[i])
    BY <1>1 DEF Written
  <2> HIDE DEF n
  <2>3. i \notin Rows
    BY <2>1, InsertedFacts
  <2> QED BY <2>1, <2>2, <2>3
<1>2. CASE ~\E n \in inserted : n[1] = i
  <2>1. Written(i) = IF added[i] > 0 THEN [findings[i] EXCEPT !.occurrences = @ + added[i]] ELSE findings[i]
    BY <1>2 DEF Written
  <2>2. CASE i \in Rows
    <3> DEFINE f == findings[i]
    <3>1. f \in Finds /\ added[i] \in Nat
      BY <2>2, RowFacts DEF TypeOK
    <3> HIDE DEF f
    <3>2. CASE added[i] > 0
      <4>1. f = [context |-> f.context, state |-> f.state, key |-> f.key, closed |-> f.closed,
                 occurrences |-> f.occurrences]
        BY <3>1 DEF Finds
      <4>2. Written(i) = [context |-> f.context, state |-> f.state, key |-> f.key, closed |-> f.closed,
                          occurrences |-> f.occurrences + added[i]]
        BY <2>1, <3>2, <4>1 DEF f
      <4>3. f.occurrences + added[i] \in Nat \ {0}
        BY <3>1, <3>2 DEF Finds
      <4>4. Written(i) \in Finds
        BY <3>1, <4>2, <4>3 DEF Finds
      <4> QED BY <2>2, <4>2, <4>4 DEF f
    <3>3. CASE ~(added[i] > 0)
      BY <2>1, <2>2, <3>1, <3>3 DEF f
    <3> QED BY <3>2, <3>3
  <2>3. CASE i \notin Rows
    <3>1. findings[i] = NoFinding
      BY <2>3 DEF Rows
    <3>2. [NoFinding EXCEPT !.occurrences = @ + added[i]] = NoFinding
      BY DEF NoFinding
    <3> QED BY <2>1, <2>3, <3>1, <3>2
  <2> QED BY <2>2, <2>3
<1> QED BY <1>1, <1>2

\* A finding of the transaction is one when it is written.
LEMMA NewIs ==
    ASSUME TypeOK, InsertedAlone, NEW n \in inserted
    PROVE  LET f == Finding(n[2], added[n[1]]) IN
           f \in Finds /\ f.context = n[2] /\ f.key /\ WellClosed(f)
<1>1. n[2] \in Contexts /\ added[n[1]] \in Nat /\ added[n[1]] > 0
  BY InsertedFacts DEF InsertedAlone
<1>2. added[n[1]] \in Nat \ {0}
  BY <1>1
<1> QED BY <1>1, <1>2, FindingIs

LEMMA CommitStep == IInv /\ Commit => IInv' /\ OpenRows \subseteq OpenRows'
<1> SUFFICES ASSUME IInv, Commit PROVE IInv' /\ OpenRows \subseteq OpenRows'
  OBVIOUS
<1> USE DEF IInv
<1>1. /\ findings' = [i \in Ids |-> Written(i)] /\ batch' = <<>> /\ Restart(<<>>) /\ steady' = {}
      /\ UNCHANGED <<clock, expectations, decision>>
  BY DEF Commit
<1>2. /\ todo' = <<>> /\ looked' = "not yet" /\ inserted' = {} /\ hidden' = Nothing
      /\ added' = [i \in Ids |-> 0]
  BY <1>1 DEF Restart
<1>3. \A i \in Ids : findings'[i] = Written(i)
  BY <1>1
<1>4. \A i \in Rows :
        /\ findings'[i] \in Finds /\ findings'[i].state = findings[i].state
        /\ findings'[i].key = findings[i].key /\ findings'[i].closed = findings[i].closed
        /\ findings'[i].context = findings[i].context
  BY <1>3, WrittenIs DEF Rows
<1>5. \A i \in Ids \ Rows :
        \/ findings'[i] = NoFinding
        \/ \E n \in inserted : n[1] = i /\ findings'[i] = Finding(n[2], added[i])
  BY <1>3, WrittenIs
<1>6. \A i \in Rows' \ Rows :
        \E n \in inserted : n[1] = i /\ findings'[i] = Finding(n[2], added[i])
  BY <1>5 DEF Rows
<1>7. Rows \subseteq Rows' /\ OpenRows \subseteq OpenRows'
  BY <1>4, NoFindingIs DEF Rows, OpenRows
<1>8. TypeOK'
  <2>1. \A i \in Ids : findings'[i] \in Finds \cup {NoFinding}
    BY <1>4, <1>5, NewIs
  <2>2. \A i \in Rows' : WellClosed(findings[i])'
    <3> SUFFICES ASSUME NEW i \in Rows' PROVE WellClosed(findings[i])'
      OBVIOUS
    <3>1. CASE i \in Rows
      BY <1>1, <1>4, <3>1, RowFacts DEF WellClosed
    <3>2. CASE i \notin Rows
      <4>1. PICK n \in inserted : n[1] = i /\ findings'[i] = Finding(n[2], added[i])
        BY <1>6, <3>2
      <4>2. WellClosed(findings'[i])
        BY <4>1, NewIs
      <4> QED BY <1>1, <4>2 DEF WellClosed
    <3> QED BY <3>1, <3>2
  <2>3. findings' \in [Ids -> Finds \cup {NoFinding}]
    BY <1>1, <1>3, <2>1
  <2>4. added' \in [Ids -> Nat] /\ batch' \in Seq(Contexts) /\ todo' \in Seq(Contexts)
    <3>1. added' \in [Ids -> Nat]
      BY <1>2
    <3>2. <<>> \in Seq(Contexts)
      OBVIOUS
    <3> QED BY <1>1, <1>2, <3>1, <3>2
  <2>5. clock' \in 0 .. MaxClock /\ decision' \in [what : States \cup {"none"}, on : Ids \cup {NoId}]
        /\ (\A x \in expectations' : x.context \in Expectable /\ x.expires \in Nat)
    BY <1>1 DEF TypeOK
  <2>6. (decision # Undecided => decision.on \in Ids /\ decision.what \in States)'
    BY <1>1 DEF TypeOK, Undecided
  <2> QED BY <1>2, <2>2, <2>3, <2>4, <2>5, <2>6, NothingIs DEF TypeOK
<1>9. KeysUnique'
  <2> SUFFICES ASSUME NEW i \in Rows', NEW j \in Rows', findings'[i].key, findings'[j].key,
                      findings'[i].context = findings'[j].context
               PROVE  i = j
    BY DEF KeysUnique
  <2>1. ASSUME NEW k \in Rows, NEW l \in Rows' \ Rows, findings'[k].key
        PROVE  findings'[k].context # findings'[l].context
    <3>1. PICK n \in inserted : n[1] = l /\ findings'[l] = Finding(n[2], added[l])
      BY <1>6
    <3>2. findings'[l].context = n[2] /\ Keyed(n[2]) = {}
      BY <3>1, NewIs DEF InsertedAlone
    <3>3. findings[k].key /\ findings'[k].context = findings[k].context
      BY <1>4, <2>1
    <3> QED BY <3>2, <3>3 DEF Keyed
  <2>2. CASE i \in Rows /\ j \in Rows
    BY <1>4, <2>2 DEF KeysUnique
  <2>3. CASE i \notin Rows /\ j \notin Rows
    <3>1. PICK m \in inserted : m[1] = i /\ findings'[i] = Finding(m[2], added[i])
      BY <1>6, <2>3
    <3>2. PICK n \in inserted : n[1] = j /\ findings'[j] = Finding(n[2], added[j])
      BY <1>6, <2>3
    <3>3. m[2] = n[2]
      BY <3>1, <3>2, NewIs
    <3> QED BY <3>1, <3>2, <3>3 DEF InsertedAlone
  <2> QED BY <2>1, <2>2, <2>3
<1>10. InsertedAlone' /\ SteadyCounts' /\ OpenFindingsCount'
  BY <1>1, <1>2 DEF InsertedAlone, SteadyCounts, OpenFindingsCount
<1>11. DecisionStands'
  <2>1. decision.on \in Rows' => decision.on \in Rows
    BY <1>6 DEF DecisionStands
  <2> QED BY <1>1, <1>2, <1>4, <2>1 DEF DecisionStands
<1> QED BY <1>7, <1>8, <1>9, <1>10, <1>11

\* An open finding is not old.
LEMMA MaintenanceStep == IInv /\ Maintenance => IInv' /\ OpenRows \subseteq OpenRows'
<1> SUFFICES ASSUME IInv, Maintenance PROVE IInv' /\ OpenRows \subseteq OpenRows'
  OBVIOUS
<1> USE DEF IInv
<1>1. /\ findings' = [i \in Ids |-> IF i \in {j \in Rows : Old(findings[j])} THEN NoFinding ELSE findings[i]]
      /\ UNCHANGED <<clock, expectations, batch, todo, looked, added, inserted, hidden, decision, steady>>
  BY DEF Maintenance, txnVars
<1>2. \A i \in Ids : findings'[i] = NoFinding \/ findings'[i] = findings[i]
  BY <1>1
<1>3. \A i \in Rows' : i \in Rows /\ findings'[i] = findings[i]
  BY <1>2 DEF Rows
<1>4. \A i \in OpenRows : i \in OpenRows' /\ findings'[i] = findings[i]
  <2> SUFFICES ASSUME NEW i \in OpenRows PROVE i \in OpenRows' /\ findings'[i] = findings[i]
    OBVIOUS
  <2>1. i \in Rows /\ i \in Ids /\ ~Old(findings[i])
    BY RowFacts DEF OpenRows, WellClosed, Old
  <2>2. findings'[i] = findings[i]
    BY <1>1, <2>1
  <2> QED BY <2>1, <2>2 DEF OpenRows, Rows, NoFinding
<1>5. \A c : Keyed(c)' \subseteq Keyed(c)
  BY <1>3 DEF Keyed
<1>6. TypeOK'
  <2>1. \A i \in Rows' : WellClosed(findings[i])'
    BY <1>1, <1>3, RowFacts DEF WellClosed
  <2>2. findings' \in [Ids -> Finds \cup {NoFinding}]
    <3>1. \A i \in Ids : findings[i] \in Finds \cup {NoFinding}
      BY DEF TypeOK
    <3> QED BY <1>1, <3>1
  <2>3. inserted' \subseteq (Ids \ Rows') \X Contexts
    <3>1. inserted \subseteq (Ids \ Rows) \X Contexts
      BY DEF TypeOK
    <3>2. Rows' \subseteq Rows
      BY <1>3
    <3> QED BY <1>1, <3>1, <3>2
  <2> QED BY <1>1, <2>1, <2>2, <2>3 DEF TypeOK, Undecided
<1>7. KeysUnique'
  BY <1>3 DEF KeysUnique
<1>8. InsertedAlone'
  BY <1>1, <1>5 DEF InsertedAlone
<1>9. SteadyCounts' /\ OpenFindingsCount'
  <2>1. \A i \in steady : i \in OpenRows /\ i \in OpenRows' /\ findings'[i] = findings[i]
    BY <1>4 DEF SteadyCounts
  <2>2. SteadyCounts'
    BY <1>1, <2>1 DEF SteadyCounts
  <2>3. OpenFindingsCount'
    BY <1>1, <2>1 DEF OpenFindingsCount
  <2> QED BY <2>2, <2>3
<1>10. DecisionStands'
  BY <1>1, <1>3 DEF DecisionStands
<1> QED BY <1>4, <1>6, <1>7, <1>8, <1>9, <1>10
-----------------------------------------------------------------------------
(* The steps of the analysts, and time *)

LEMMA AskStep ==
    ASSUME IInv, NEW i \in Rows, NEW what \in States, Look(i, what)
    PROVE  IInv'
<1> USE DEF IInv
<1>1. /\ decision' = [what |-> what, on |-> i]
      /\ UNCHANGED <<clock, findings, expectations, batch, todo, looked, added, inserted, hidden, steady>>
  BY DEF Look, txnVars
<1>2. Rows' = Rows /\ OpenRows' = OpenRows /\ (\A c : Keyed(c)' = Keyed(c))
  BY <1>1, SameTable
<1>3. i \in Ids
  BY RowFacts
<1>4. TypeOK'
  <2>1. \A j \in Rows : WellClosed(findings[j])'
    BY <1>1 DEF TypeOK, WellClosed
  <2>2. decision' \in [what : States \cup {"none"}, on : Ids \cup {NoId}]
    BY <1>1, <1>3
  <2>3. decision'.on \in Ids /\ decision'.what \in States
    BY <1>1, <1>3
  <2> QED BY <1>1, <1>2, <2>1, <2>2, <2>3 DEF TypeOK
<1>5. KeysUnique' /\ InsertedAlone' /\ SteadyCounts' /\ OpenFindingsCount'
  BY <1>1, <1>2 DEF KeysUnique, InsertedAlone, SteadyCounts, OpenFindingsCount
<1>6. DecisionStands'
  <2>1. decision'.on = i /\ decision'.what = what
    BY <1>1
  <2>2. \A n \in inserted : n[1] # i
    BY InsertedFacts
  <2>3. what = "expected" => findings[i].context \in Expectable
    BY DEF Look
  <2> QED BY <1>1, <2>1, <2>2, <2>3 DEF DecisionStands
<1> QED BY <1>4, <1>5, <1>6

\* The step that only takes the decision away.
LEMMA UndecidedStep ==
    ASSUME IInv, decision' = Undecided,
           UNCHANGED <<clock, findings, expectations, batch, todo, looked, added, inserted, hidden, steady>>
    PROVE  IInv'
<1> USE DEF IInv
<1>1. Rows' = Rows /\ OpenRows' = OpenRows /\ (\A c : Keyed(c)' = Keyed(c))
  BY SameTable
<1>2. decision' \in [what : States \cup {"none"}, on : Ids \cup {NoId}]
  BY DEF Undecided
<1>3. decision'.on = NoId /\ decision'.what = "none" /\ Undecided' = Undecided
  BY DEF Undecided
<1>4. TypeOK'
  <2>1. \A j \in Rows : WellClosed(findings[j])'
    BY DEF TypeOK, WellClosed
  <2> QED BY <1>1, <1>2, <1>3, <2>1 DEF TypeOK
<1>5. KeysUnique' /\ InsertedAlone' /\ SteadyCounts' /\ OpenFindingsCount'
  BY <1>1 DEF KeysUnique, InsertedAlone, SteadyCounts, OpenFindingsCount
<1>6. DecisionStands'
  <2>1. \A n \in inserted : n[1] # NoId
    BY InsertedFacts, Constants
  <2> QED BY <1>3, <2>1 DEF DecisionStands
<1> QED BY <1>4, <1>5, <1>6

\* A decision that is possible is one about a finding of the table.
LEMMA DecideTable ==
    ASSUME IInv, Decide, ~Impossible(decision.on, decision.what)
    PROVE  /\ decision.on \in Rows /\ decision.on \in Ids /\ decision.what \in States
           /\ Decided(findings[decision.on], decision.what) \in Finds
           /\ findings'[decision.on] = Decided(findings[decision.on], decision.what)
           /\ findings'[decision.on].state = decision.what
           /\ findings'[decision.on].context = findings[decision.on].context
           /\ findings'[decision.on].key <=> decision.what \in Open
           /\ WellClosed(findings'[decision.on])
           /\ \A j \in Ids : j # decision.on => findings'[j] = findings[j]
           /\ Rows' = Rows
<1> DEFINE i == decision.on
           f == Decided(findings[i], decision.what)
<1>1. i \in Rows /\ decision.what \in States /\ clock \in Nat
  <2>1. i \in Rows /\ decision.what \in States
    BY DEF Decide, Impossible, IInv, TypeOK
  <2>2. clock \in 0 .. MaxClock /\ MaxClock \in Nat
    BY Constants DEF IInv, TypeOK
  <2> QED BY <2>1, <2>2
<1>2. i \in Ids /\ findings[i] \in Finds
  BY <1>1, RowFacts DEF IInv
<1>3. findings' = [findings EXCEPT ![i] = Decided(@, decision.what)]
  BY DEF Decide
<1>4. findings'[i] = f /\ \A j \in Ids : j # i => findings'[j] = findings[j]
  BY <1>2, <1>3 DEF IInv, TypeOK
<1>5. /\ f \in Finds /\ f.state = decision.what /\ f.context = findings[i].context
      /\ (f.key <=> decision.what \in Open) /\ WellClosed(f) /\ f # NoFinding
  BY <1>1, <1>2, DecidedIs
<1> HIDE DEF f
<1>6. Rows' = Rows
  BY <1>1, <1>4, <1>5 DEF Rows, NoFinding
<1> QED BY <1>1, <1>2, <1>4, <1>5, <1>6 DEF f

LEMMA DecideStep == IInv /\ Decide => IInv'
<1> SUFFICES ASSUME IInv, Decide PROVE IInv'
  OBVIOUS
<1> USE DEF IInv
<1> DEFINE i == decision.on
           what == decision.what
<1>1. CASE Impossible(i, what)
  BY <1>1, UndecidedStep DEF Decide, txnVars
<1>2. CASE ~Impossible(i, what)
  <2>1. /\ i \in Rows /\ i \in Ids /\ what \in States
        /\ findings'[i] \in Finds
        /\ findings'[i].context = findings[i].context /\ findings'[i].state = what
        /\ (findings'[i].key <=> what \in Open) /\ WellClosed(findings'[i])
        /\ (\A j \in Ids : j # i => findings'[j] = findings[j]) /\ Rows' = Rows
    BY <1>2, DecideTable
  <2>2. /\ ~Blocked(i, what) /\ decision' = Undecided
        /\ steady' = (IF what \in Open THEN steady ELSE steady \ {i})
        /\ UNCHANGED <<clock, batch, todo, looked, added, inserted, hidden>>
    BY <1>2 DEF Decide, txnVars
  <2>3. what \in Open => Keyed(findings[i].context) \ {i} = {}
    BY <1>2 DEF Impossible
  <2>4. \A x \in expectations' : x.context \in Expectable /\ x.expires \in Nat
    <3>1. CASE what = "expected"
      <4>1. PICK d \in Lifetimes : expectations' =
               expectations \cup {[context |-> findings[i].context, expires |-> clock + d]}
        BY <1>2, <3>1 DEF Decide
      <4>2. findings[i].context \in Expectable
        BY <2>1, <3>1 DEF DecisionStands
      <4>3. clock + d \in Nat
        <5>1. clock \in 0 .. MaxClock /\ MaxClock \in Nat /\ d \in Nat
          BY Constants DEF TypeOK
        <5> QED BY <5>1
      <4> DEFINE x == [context |-> findings[i].context, expires |-> clock + d]
      <4>4. x.context \in Expectable /\ x.expires \in Nat
        BY <4>2, <4>3
      <4>5. expectations' = expectations \cup {x}
        BY <4>1
      <4> HIDE DEF x
      <4> QED BY <4>4, <4>5 DEF TypeOK
    <3>2. CASE what # "expected"
      BY <1>2, <3>2 DEF Decide, TypeOK
    <3> QED BY <3>1, <3>2
  <2> HIDE DEF i, what
  <2>5. TypeOK'
    <3>1. findings' \in [Ids -> Finds \cup {NoFinding}]
      <4>1. findings' = [findings EXCEPT ![i] = Decided(@, what)]
        BY <1>2 DEF Decide, i, what
      <4>2. \A j \in Ids : findings[j] \in Finds \cup {NoFinding}
        BY DEF TypeOK
      <4>3. \A j \in Ids : findings'[j] \in Finds \cup {NoFinding}
        BY <2>1, <4>2
      <4>4. findings' = [j \in Ids |-> findings'[j]]
        BY <4>1 DEF TypeOK
      <4> QED BY <4>3, <4>4
    <3>2. \A j \in Rows : WellClosed(findings[j])'
      <4>1. \A j \in Rows : WellClosed(findings'[j])
        BY <2>1, RowFacts
      <4> QED BY <2>2, <4>1 DEF WellClosed
    <3>3. decision' \in [what : States \cup {"none"}, on : Ids \cup {NoId}] /\ Undecided' = Undecided
      BY <2>2 DEF Undecided
    <3>4. /\ clock' \in 0 .. MaxClock /\ batch' \in Seq(Contexts) /\ todo' \in Seq(Contexts)
          /\ looked' \in {"not yet", "no finding", "not expected"} /\ (looked' # "not yet" => todo' # <<>>)
          /\ added' \in [Ids -> Nat] /\ hidden' \in [Contexts -> Nat]
          /\ inserted' \subseteq (Ids \ Rows) \X Contexts
      BY <2>2 DEF TypeOK
    <3> QED BY <2>1, <2>2, <2>4, <3>1, <3>2, <3>3, <3>4 DEF TypeOK
  <2>6. KeysUnique'
    <3> SUFFICES ASSUME NEW j \in Rows, NEW k \in Rows, findings'[j].key, findings'[k].key,
                        findings'[j].context = findings'[k].context, j # k
                 PROVE  FALSE
      BY <2>1 DEF KeysUnique
    <3>1. ASSUME NEW l \in Rows, l # i, findings'[l].key, findings'[i].key,
                 findings'[l].context = findings'[i].context
          PROVE  FALSE
      <4>1. findings[l].key /\ findings[l].context = findings[i].context /\ what \in Open
        BY <2>1, <3>1 DEF Rows
      <4> QED BY <2>3, <3>1, <4>1 DEF Keyed
    <3>2. CASE j # i /\ k # i
      <4>1. findings'[j] = findings[j] /\ findings'[k] = findings[k]
        BY <2>1, <3>2 DEF Rows
      <4> QED BY <4>1 DEF KeysUnique
    <3> QED BY <3>1, <3>2
  <2>7. InsertedAlone'
    <3>1. ASSUME NEW n \in inserted, NEW j \in Rows, findings'[j].key, findings'[j].context = n[2]
          PROVE  FALSE
      <4>1. Keyed(n[2]) = {}
        BY DEF InsertedAlone
      <4>2. CASE j = i
        <5>1. what \in Open /\ findings[i].context = n[2]
          BY <2>1, <3>1, <4>2
        <5>2. findings[i].key
          BY <2>2, <5>1 DEF Blocked
        <5> QED BY <2>1, <4>1, <5>1, <5>2 DEF Keyed
      <4>3. CASE j # i
        <5>1. findings'[j] = findings[j]
          BY <2>1, <4>3 DEF Rows
        <5> QED BY <3>1, <4>1, <5>1 DEF Keyed
      <4> QED BY <4>2, <4>3
    <3>2. \A n \in inserted : Keyed(n[2])' = {}
      BY <2>1, <3>1 DEF Keyed
    <3> QED BY <2>2, <3>2 DEF InsertedAlone
  <2>8. \A j \in steady' : j \in steady /\ j \in OpenRows' /\ findings'[j].context = findings[j].context
    <3> SUFFICES ASSUME NEW j \in steady'
                 PROVE  j \in steady /\ j \in OpenRows' /\ findings'[j].context = findings[j].context
      OBVIOUS
    <3>1. j \in steady /\ j \in OpenRows /\ (j = i => what \in Open)
      BY <2>2 DEF SteadyCounts
    <3>2. j \in Ids /\ j \in Rows
      BY <3>1 DEF OpenRows, Rows
    <3>3. CASE j = i
      BY <2>1, <3>1, <3>2, <3>3 DEF OpenRows
    <3>4. CASE j # i
      <4>1. findings'[j] = findings[j]
        BY <2>1, <3>2, <3>4
      <4> QED BY <2>1, <3>1, <3>2, <4>1 DEF OpenRows
    <3> QED BY <3>3, <3>4
  <2>9. SteadyCounts' /\ OpenFindingsCount'
    <3>1. SteadyCounts'
      BY <2>2, <2>8 DEF SteadyCounts
    <3>2. OpenFindingsCount'
      BY <2>2, <2>8 DEF OpenFindingsCount
    <3> QED BY <3>1, <3>2
  <2>10. DecisionStands'
    <3>1. \A n \in inserted : n[1] # NoId
      BY InsertedFacts, Constants
    <3> QED BY <2>2, <3>1 DEF DecisionStands, Undecided
  <2> QED BY <2>5, <2>6, <2>7, <2>9, <2>10
<1> QED BY <1>1, <1>2

LEMMA RevokeStep == IInv /\ Revoke => IInv'
<1> SUFFICES ASSUME IInv, Revoke PROVE IInv'
  OBVIOUS
<1> USE DEF IInv
<1>1. /\ expectations' \subseteq expectations
      /\ UNCHANGED <<clock, findings, batch, todo, looked, added, inserted, hidden, decision, steady>>
  BY DEF Revoke, txnVars
<1>2. Rows' = Rows /\ OpenRows' = OpenRows /\ (\A c : Keyed(c)' = Keyed(c))
  BY <1>1, SameTable
<1>3. TypeOK'
  <2>1. \A j \in Rows : WellClosed(findings[j])'
    BY <1>1 DEF TypeOK, WellClosed
  <2> QED BY <1>1, <1>2, <2>1 DEF TypeOK, Undecided
<1>4. KeysUnique' /\ InsertedAlone' /\ SteadyCounts' /\ OpenFindingsCount' /\ DecisionStands'
  BY <1>1, <1>2 DEF KeysUnique, InsertedAlone, SteadyCounts, OpenFindingsCount, DecisionStands
<1> QED BY <1>3, <1>4

LEMMA TimeStep == IInv /\ TimePasses => IInv'
<1> SUFFICES ASSUME IInv, TimePasses PROVE IInv'
  OBVIOUS
<1> USE DEF IInv
<1>1. /\ clock < MaxClock /\ clock' = clock + 1 /\ clock \in 0 .. MaxClock /\ MaxClock \in Nat
      /\ UNCHANGED <<findings, expectations, batch, todo, looked, added, inserted, hidden, decision, steady>>
  BY Constants DEF TimePasses, txnVars, TypeOK
<1>2. Rows' = Rows /\ OpenRows' = OpenRows /\ (\A c : Keyed(c)' = Keyed(c))
  BY <1>1, SameTable
<1>3. TypeOK'
  <2>1. clock' \in 0 .. MaxClock /\ 0 .. clock \subseteq 0 .. clock'
    BY <1>1
  <2>2. \A j \in Rows : WellClosed(findings[j])'
    BY <1>1, <2>1 DEF TypeOK, WellClosed
  <2> QED BY <1>1, <1>2, <2>1, <2>2 DEF TypeOK, Undecided
<1>4. KeysUnique' /\ InsertedAlone' /\ SteadyCounts' /\ OpenFindingsCount' /\ DecisionStands'
  BY <1>1, <1>2 DEF KeysUnique, InsertedAlone, SteadyCounts, OpenFindingsCount, DecisionStands
<1> QED BY <1>3, <1>4

LEMMA StutterStep == IInv /\ UNCHANGED vars => IInv'
<1> SUFFICES ASSUME IInv, UNCHANGED vars PROVE IInv'
  OBVIOUS
<1> USE DEF IInv
<1>1. UNCHANGED <<clock, findings, expectations, batch, todo, looked, added, inserted, hidden, decision, steady>>
  BY DEF vars, txnVars
<1>2. Rows' = Rows /\ OpenRows' = OpenRows /\ (\A c : Keyed(c)' = Keyed(c))
  BY <1>1, SameTable
<1>3. TypeOK'
  <2>1. \A j \in Rows : WellClosed(findings[j])'
    BY <1>1 DEF TypeOK, WellClosed
  <2> QED BY <1>1, <1>2, <2>1 DEF TypeOK, Undecided
<1>4. KeysUnique' /\ InsertedAlone' /\ SteadyCounts' /\ OpenFindingsCount' /\ DecisionStands'
  BY <1>1, <1>2 DEF KeysUnique, InsertedAlone, SteadyCounts, OpenFindingsCount, DecisionStands
<1> QED BY <1>3, <1>4

LEMMA NextIInv == IInv /\ [Next]_vars => IInv'
<1> SUFFICES ASSUME IInv, [Next]_vars PROVE IInv'
  OBVIOUS
<1>1. CASE Worker
  BY <1>1, BeginStep, CountStep, LookStep, SuppressStep, InsertStep, AgainStep, CommitStep,
     MaintenanceStep DEF Worker
<1>2. CASE Analyst
  BY <1>2, AskStep, DecideStep, RevokeStep DEF Analyst
<1>3. CASE TimePasses
  BY <1>3, TimeStep
<1>4. CASE UNCHANGED vars
  BY <1>4, StutterStep
<1> QED BY <1>1, <1>2, <1>3, <1>4 DEF Next

-----------------------------------------------------------------------------
(* The theorems *)

LEMMA Inductive == Spec => []IInv
BY InitIInv, NextIInv, PTL DEF Spec

\* The types, and that state, key and time of closing of each finding agree.
THEOREM FindingTypesCorrect == Spec => []TypeOK
<1>1. IInv => TypeOK
  BY DEF IInv
<1> QED BY <1>1, Inductive, PTL

\* A context never has two open findings.
THEOREM OneOpenPerContext == Spec => []OneOpen
<1>1. IInv => OneOpen
  BY OneOpenFollows DEF IInv
<1> QED BY <1>1, Inductive, PTL

\* No detection of a finding that stays open is suppressed, or opens another.
THEOREM OpenFindingsAreCounted == Spec => []OpenFindingsCount
<1>1. IInv => OpenFindingsCount
  BY DEF IInv
<1> QED BY <1>1, Inductive, PTL

\* Neither the worker, nor retention, nor time closes or removes an open finding.
THEOREM OnlyAnalystsClose == Spec => ClosedByAnalystOnly
<1>1. IInv /\ [Next]_vars =>
        [\A i \in OpenRows : i \in OpenRows' \/ decision = [what |-> findings'[i].state, on |-> i]]_vars
  <2> SUFFICES ASSUME IInv, Next, NEW i \in OpenRows
               PROVE  i \in OpenRows' \/ decision = [what |-> findings'[i].state, on |-> i]
    OBVIOUS
  <2>1. CASE findings' = findings
    BY <2>1, SameTable
  <2>2. CASE Commit \/ Maintenance
    BY <2>2, CommitStep, MaintenanceStep
  <2>3. CASE Decide /\ ~Impossible(decision.on, decision.what)
    <3>1. i \in Ids /\ i \in Rows
      BY DEF OpenRows, Rows
    <3>2. /\ findings'[decision.on].state = decision.what /\ Rows' = Rows
          /\ \A j \in Ids : j # decision.on => findings'[j] = findings[j]
      BY <2>3, DecideTable
    <3>3. CASE i = decision.on
      <4>1. decision = [what |-> decision.what, on |-> decision.on]
        BY DEF IInv, TypeOK
      <4> QED BY <3>2, <3>3, <4>1
    <3>4. CASE i # decision.on
      <4>1. findings'[i] = findings[i]
        BY <3>1, <3>2, <3>4
      <4> QED BY <3>1, <3>2, <4>1 DEF OpenRows
    <3> QED BY <3>3, <3>4
  <2>4. findings' = findings \/ Commit \/ Maintenance \/ (Decide /\ ~Impossible(decision.on, decision.what))
    BY DEF Next, Worker, Analyst, Begin, Count, NoneOpen, Suppress, NotExpected, Insert, Conflict, Fail,
           Look, Decide, Revoke, TimePasses
  <2> QED BY <2>1, <2>2, <2>3, <2>4
<1> QED BY <1>1, Inductive, PTL DEF ClosedByAnalystOnly, Spec

-----------------------------------------------------------------------------
(* The evidence: a sum is the number of units of the findings it goes over *)

UnitsIn(k, S) == UNION {{<<i, n>> : n \in 1 .. k[i]} : i \in S}

LEMMA InUnits ==
    ASSUME NEW k, NEW S
    PROVE  /\ \A i \in S : \A n \in 1 .. k[i] : <<i, n>> \in UnitsIn(k, S)
           /\ \A x \in UnitsIn(k, S) : \E i \in S : \E n \in 1 .. k[i] : x = <<i, n>>
BY DEF UnitsIn

LEMMA UnitsAgree ==
    ASSUME NEW k, NEW l, NEW S, \A i \in S : k[i] = l[i]
    PROVE  UnitsIn(k, S) = UnitsIn(l, S)
<1>1. \A x \in UnitsIn(k, S) : x \in UnitsIn(l, S)
  BY InUnits
<1>2. \A x \in UnitsIn(l, S) : x \in UnitsIn(k, S)
  BY InUnits
<1> QED BY <1>1, <1>2

LEMMA ObservationsAre ==
    ASSUME NEW k, NEW S, \A i \in S : findings[i].occurrences = k[i]
    PROVE  ObservationsOf(S) = Cardinality(UnitsIn(k, S))
<1> DEFINE N(i) == {<<i, n>> : n \in 1 .. findings[i].occurrences}
           M(i) == {<<i, n>> : n \in 1 .. k[i]}
<1>1. \A i \in S : N(i) = M(i)
  OBVIOUS
<1> HIDE DEF N, M
<1>2. UNION {N(i) : i \in S} = UNION {M(i) : i \in S}
  BY <1>1
<1> QED BY <1>2 DEF ObservationsOf, UnitsIn, N, M

LEMMA UnitsFinite ==
    ASSUME NEW S \in SUBSET Ids, NEW k, \A i \in S : k[i] \in Nat
    PROVE  IsFiniteSet(UnitsIn(k, S)) /\ Cardinality(UnitsIn(k, S)) \in Nat
<1> DEFINE N(i) == {<<i, n>> : n \in 1 .. k[i]}
           f == [i \in S |-> N(i)]
           U == {N(i) : i \in S}
<1>1. ASSUME NEW i \in S PROVE IsFiniteSet(N(i))
  <2> DEFINE g == [n \in 1 .. k[i] |-> <<i, n>>]
  <2>1. g \in Surjection(1 .. k[i], N(i))
    BY DEF Surjection
  <2>2. 1 \in Int /\ k[i] \in Int
    OBVIOUS
  <2>3. IsFiniteSet(1 .. k[i])
    BY <2>2, FS_Interval
  <2> QED BY <2>1, <2>3, FS_Surjection
<1> HIDE DEF N
<1>2. f \in Surjection(S, U)
  BY DEF Surjection
<1>3. IsFiniteSet(S)
  BY FindingAssumption, FS_Subset
<1>4. IsFiniteSet(U)
  BY <1>2, <1>3, FS_Surjection
<1>5. \A T \in U : IsFiniteSet(T)
  BY <1>1
<1>6. IsFiniteSet(UNION U)
  BY <1>4, <1>5, FS_UNION
<1>7. UnitsIn(k, S) = UNION U
  BY DEF UnitsIn, N
<1> QED BY <1>6, <1>7, FS_CardinalityType

\* One observation more of a finding, or the first one of a new finding.
LEMMA UnitsMore ==
    ASSUME NEW S \in SUBSET Ids, NEW i \in Ids, NEW k, NEW l, NEW m \in Nat,
           \A j \in S : k[j] \in Nat,
           \A j \in S \ {i} : l[j] = k[j],
           i \in S => k[i] = m, i \notin S => m = 0, l[i] = m + 1
    PROVE  Cardinality(UnitsIn(l, S \cup {i})) = Cardinality(UnitsIn(k, S)) + 1
<1>1. <<i, m + 1>> \notin UnitsIn(k, S)
  <2>1. ASSUME <<i, m + 1>> \in UnitsIn(k, S) PROVE FALSE
    <3>1. i \in S /\ m + 1 \in 1 .. k[i]
      BY <2>1, InUnits
    <3> QED BY <3>1
  <2> QED BY <2>1
<1>2. \A x \in UnitsIn(l, S \cup {i}) : x \in UnitsIn(k, S) \cup {<<i, m + 1>>}
  <2> SUFFICES ASSUME NEW j \in S \cup {i}, NEW n \in 1 .. l[j]
               PROVE  <<j, n>> \in UnitsIn(k, S) \cup {<<i, m + 1>>}
    BY InUnits
  <2>1. CASE j # i
    BY <2>1, InUnits
  <2>2. CASE j = i
    <3>1. n = m + 1 \/ (n \in 1 .. m /\ m # 0)
      BY <2>2
    <3> QED BY <2>2, <3>1, InUnits
  <2> QED BY <2>1, <2>2
<1>3. \A x \in UnitsIn(k, S) : x \in UnitsIn(l, S \cup {i})
  <2> SUFFICES ASSUME NEW j \in S, NEW n \in 1 .. k[j] PROVE <<j, n>> \in UnitsIn(l, S \cup {i})
    BY InUnits
  <2>1. n \in 1 .. l[j] /\ j \in S \cup {i}
    OBVIOUS
  <2> QED BY <2>1, InUnits
<1>4. <<i, m + 1>> \in UnitsIn(l, S \cup {i})
  <2>1. m + 1 \in 1 .. l[i] /\ i \in S \cup {i}
    OBVIOUS
  <2> QED BY <2>1, InUnits
<1>5. UnitsIn(l, S \cup {i}) = UnitsIn(k, S) \cup {<<i, m + 1>>}
  BY <1>2, <1>3, <1>4
<1> DEFINE A == UnitsIn(k, S)
           x == <<i, m + 1>>
<1>6. IsFiniteSet(A) /\ x \notin A
  BY <1>1, UnitsFinite
<1> HIDE DEF A, x
<1>7. Cardinality(A \cup {x}) = Cardinality(A) + 1
  BY <1>6, FS_AddElement
<1> QED BY <1>5, <1>7 DEF A, x

LEMMA UnitsSplit ==
    ASSUME NEW S \in SUBSET Ids, NEW R \in SUBSET S, NEW k, \A i \in S : k[i] \in Nat
    PROVE  Cardinality(UnitsIn(k, S)) = Cardinality(UnitsIn(k, R)) + Cardinality(UnitsIn(k, S \ R))
<1>1. /\ IsFiniteSet(UnitsIn(k, R)) /\ Cardinality(UnitsIn(k, R)) \in Nat
      /\ IsFiniteSet(UnitsIn(k, S \ R)) /\ Cardinality(UnitsIn(k, S \ R)) \in Nat
  <2>1. R \in SUBSET Ids /\ S \ R \in SUBSET Ids
    OBVIOUS
  <2> QED BY <2>1, UnitsFinite
<1>2. UnitsIn(k, S) = UnitsIn(k, R) \cup UnitsIn(k, S \ R)
  <2>1. \A x \in UnitsIn(k, S) : x \in UnitsIn(k, R) \cup UnitsIn(k, S \ R)
    BY InUnits
  <2>2. \A x \in UnitsIn(k, R) \cup UnitsIn(k, S \ R) : x \in UnitsIn(k, S)
    BY InUnits
  <2> QED BY <2>1, <2>2
<1>3. UnitsIn(k, R) \cap UnitsIn(k, S \ R) = {}
  BY InUnits
<1>4. Cardinality(UnitsIn(k, R) \cap UnitsIn(k, S \ R)) = 0
  BY <1>3, FS_EmptySet
<1>5. Cardinality(UnitsIn(k, R) \cup UnitsIn(k, S \ R)) =
        Cardinality(UnitsIn(k, R)) + Cardinality(UnitsIn(k, S \ R))
          - Cardinality(UnitsIn(k, R) \cap UnitsIn(k, S \ R))
  BY <1>1, FS_Union
<1> QED BY <1>1, <1>2, <1>4, <1>5

\* The detections of a context in a batch, one at a time.
LEMMA CountEmpty == \A c : CountOf(c, <<>>) = 0
<1>1. \A c : {k \in DOMAIN <<>> : <<>>[k] = c} = {}
  OBVIOUS
<1> QED BY <1>1, FS_EmptySet DEF CountOf

LEMMA CountTail ==
    ASSUME NEW s \in Seq(Contexts), s # <<>>, NEW c
    PROVE  /\ CountOf(c, s) \in Nat /\ CountOf(c, Tail(s)) \in Nat
           /\ CountOf(c, s) = CountOf(c, Tail(s)) + IF Head(s) = c THEN 1 ELSE 0
<1> DEFINE t == Tail(s)
           D == {k \in DOMAIN s : s[k] = c}
           E == {k \in DOMAIN t : t[k] = c}
           R == D \ {1}
           f == [k \in E |-> k + 1]
<1>1. /\ DOMAIN s = 1 .. Len(s) /\ Len(s) \in Nat /\ Len(s) >= 1
      /\ DOMAIN t = 1 .. Len(s) - 1 /\ \A k \in 1 .. Len(s) - 1 : t[k] = s[k + 1]
      /\ Head(s) = s[1]
  OBVIOUS
<1>2. f \in Bijection(E, R)
  <2>1. \A k \in E : f[k] \in R
    BY <1>1
  <2>2. \A k, l \in E : f[k] = f[l] => k = l
    BY <1>1
  <2>3. ASSUME NEW k \in R PROVE \E l \in E : f[l] = k
    <3>1. k - 1 \in E /\ (k - 1) + 1 = k
      BY <1>1
    <3> QED BY <3>1
  <2> HIDE DEF E, R
  <2> QED BY <2>1, <2>2, <2>3 DEF Bijection, Injection, IsInjective, Surjection
<1>3. IsFiniteSet(D) /\ IsFiniteSet(E)
  <2>1. 1 \in Int /\ Len(s) \in Int /\ Len(s) - 1 \in Int
    BY <1>1
  <2>2. IsFiniteSet(1 .. Len(s)) /\ IsFiniteSet(1 .. Len(s) - 1)
    BY <2>1, FS_Interval
  <2>3. D \in SUBSET (1 .. Len(s)) /\ E \in SUBSET (1 .. Len(s) - 1)
    BY <1>1
  <2> QED BY <2>2, <2>3, FS_Subset
<1>4. Cardinality(R) = Cardinality(E)
  BY <1>2, <1>3, FS_Bijection DEF ExistsBijection
<1>5. 1 \in D <=> Head(s) = c
  BY <1>1
<1>6. Cardinality(D) \in Nat /\ Cardinality(E) \in Nat
  BY <1>3, FS_CardinalityType
<1>7. Cardinality(R) = IF 1 \in D THEN Cardinality(D) - 1 ELSE Cardinality(D)
  BY <1>3, FS_RemoveElement
<1>8. CountOf(c, s) = Cardinality(D) /\ CountOf(c, t) = Cardinality(E)
  BY DEF CountOf
<1> HIDE DEF D, E, R
<1>9. CASE Head(s) = c
  <2>1. Cardinality(D) = Cardinality(E) + 1
    BY <1>4, <1>5, <1>6, <1>7, <1>9
  <2> QED BY <1>6, <1>8, <1>9, <2>1
<1>10. CASE Head(s) # c
  <2>1. Cardinality(D) = Cardinality(E)
    BY <1>4, <1>5, <1>6, <1>7, <1>10
  <2> QED BY <1>6, <1>8, <1>10, <2>1
<1> QED BY <1>9, <1>10

-----------------------------------------------------------------------------
(* Every detection is accounted for, of the batches that are committed and of  *)
(* the one in hand: what the transaction has looked at is in its counts, in    *)
(* what it inserts or among what it hides, the rest is still to do.            *)

Occurrences == [i \in Ids |-> IF i \in Rows THEN findings[i].occurrences ELSE 0]
Seen == [i \in Ids |-> Occurrences[i] + added[i]]
RowsOn(c) == {i \in Rows : findings[i].context = c}
HoldersOf(c) == RowsOn(c) \cup {n[1] : n \in {m \in inserted : m[2] = c}}

Conserved(c) == total[c] = Cardinality(UnitsIn(Occurrences, RowsOn(c))) + gone[c] + expected[c]

InHand(c) ==
    total[c] + CountOf(c, batch) =
        Cardinality(UnitsIn(Seen, HoldersOf(c))) + hidden[c] + CountOf(c, todo) + gone[c] + expected[c]

\* Between two transactions nothing is in hand.
Cleared ==
    batch = <<>> => todo = <<>> /\ inserted = {} /\ hidden = Nothing /\ added = [i \in Ids |-> 0]

HistoryOK == {total, gone, expected} \subseteq [Contexts -> Nat]

EvidenceInv == HistoryOK /\ Cleared /\ \A c \in Contexts : Conserved(c) /\ InHand(c)

LEMMA OccurrencesAre ==
    ASSUME TypeOK
    PROVE  /\ \A i \in Ids : Occurrences[i] \in Nat /\ Seen[i] \in Nat
           /\ \A i \in Rows : Occurrences[i] = findings[i].occurrences
<1>1. \A i \in Rows : i \in Ids /\ findings[i].occurrences \in Nat
  BY RowFacts DEF Finds
<1>2. \A i \in Ids : Occurrences[i] \in Nat
  BY <1>1 DEF Occurrences
<1>3. \A i \in Ids : added[i] \in Nat
  BY DEF TypeOK
<1>4. \A i \in Ids : Seen[i] \in Nat
  BY <1>2, <1>3 DEF Seen
<1> QED BY <1>1, <1>2, <1>4 DEF Occurrences

LEMMA HoldersAre ==
    ASSUME TypeOK, NEW c
    PROVE  RowsOn(c) \in SUBSET Ids /\ HoldersOf(c) \in SUBSET Ids
BY InsertedFacts, RowFacts DEF RowsOn, HoldersOf

LEMMA CountsAre ==
    ASSUME TypeOK, NEW c
    PROVE  CountOf(c, batch) \in Nat /\ CountOf(c, todo) \in Nat
<1>1. ASSUME NEW s \in Seq(Contexts) PROVE CountOf(c, s) \in Nat
  <2>1. CASE s = <<>>
    BY <2>1, CountEmpty
  <2>2. CASE s # <<>>
    BY <2>2, CountTail
  <2> QED BY <2>1, <2>2
<1> QED BY <1>1 DEF TypeOK

LEMMA ConservedIs == TypeOK /\ EvidenceInv => EvidenceConserved
<1> SUFFICES ASSUME TypeOK, EvidenceInv, NEW c \in Contexts
             PROVE  total[c] = ObservationsOf({i \in Rows : findings[i].context = c}) + gone[c] + expected[c]
  BY DEF EvidenceConserved
<1>1. \A i \in RowsOn(c) : findings[i].occurrences = Occurrences[i]
  BY OccurrencesAre DEF RowsOn
<1>2. ObservationsOf(RowsOn(c)) = Cardinality(UnitsIn(Occurrences, RowsOn(c)))
  BY <1>1, ObservationsAre
<1> QED BY <1>2 DEF EvidenceInv, Conserved, RowsOn

LEMMA SameConserved ==
    ASSUME UNCHANGED <<findings, total, gone, expected>>
    PROVE  /\ Rows' = Rows /\ Occurrences' = Occurrences /\ \A c : RowsOn(c)' = RowsOn(c)
           /\ \A c : Conserved(c)' <=> Conserved(c)
           /\ HistoryOK' <=> HistoryOK
<1>1. Rows' = Rows
  BY SameTable
<1>2. Occurrences' = Occurrences /\ \A c : RowsOn(c)' = RowsOn(c)
  BY <1>1 DEF Occurrences, RowsOn
<1> QED BY <1>1, <1>2 DEF Conserved, HistoryOK

\* What is in hand at the beginning of a transaction is what is to do.
LEMMA RestartEvidence ==
    ASSUME TypeOK', NEW b \in Seq(Contexts), Restart(b), batch' = b, NEW c \in Contexts,
           HistoryOK', Conserved(c)'
    PROVE  InHand(c)'
<1>1. /\ todo' = b /\ added' = [i \in Ids |-> 0] /\ inserted' = {} /\ hidden' = Nothing
  BY DEF Restart
<1>2. HoldersOf(c)' = RowsOn(c)'
  BY <1>1 DEF HoldersOf
<1>3. \A i \in Rows' : i \in Ids /\ findings'[i].occurrences \in Nat
  BY DEF TypeOK, Rows, Finds
<1>4. \A i \in RowsOn(c)' : Seen'[i] = Occurrences'[i] /\ Occurrences'[i] \in Nat
  BY <1>1, <1>3 DEF RowsOn, Seen, Occurrences
<1>5. UnitsIn(Seen', HoldersOf(c)') = UnitsIn(Occurrences', RowsOn(c)')
  BY <1>2, <1>4, UnitsAgree
<1>6. RowsOn(c)' \in SUBSET Ids
  BY <1>3 DEF RowsOn
<1>7. Cardinality(UnitsIn(Occurrences', RowsOn(c)')) \in Nat
  BY <1>4, <1>6, UnitsFinite
<1>8. CountOf(c, b) \in Nat /\ hidden'[c] = 0
  BY <1>1, CountTail, CountEmpty DEF Nothing
<1>9. total'[c] \in Nat /\ gone'[c] \in Nat /\ expected'[c] \in Nat
  BY DEF HistoryOK
<1>10. InHand(c)' <=> total'[c] + CountOf(c, batch') =
          Cardinality(UnitsIn(Seen', HoldersOf(c)')) + hidden'[c] + CountOf(c, todo') + gone'[c] + expected'[c]
  BY DEF InHand, UnitsIn, CountOf
<1>11. Conserved(c)' <=> total'[c] = Cardinality(UnitsIn(Occurrences', RowsOn(c)')) + gone'[c] + expected'[c]
  BY DEF Conserved, UnitsIn
<1> DEFINE u == Cardinality(UnitsIn(Occurrences', RowsOn(c)'))
           k == CountOf(c, b)
<1>12. total'[c] = u + gone'[c] + expected'[c] /\ u \in Nat /\ k \in Nat
  BY <1>7, <1>8, <1>11
<1> HIDE DEF u, k
<1>13. total'[c] + k = u + 0 + k + gone'[c] + expected'[c]
  BY <1>9, <1>12
<1> QED BY <1>1, <1>5, <1>8, <1>10, <1>13 DEF u, k

LEMMA BeginEvidence ==
    ASSUME IInv, IInv', EvidenceInv, Begin \/ Conflict \/ Fail
    PROVE  EvidenceInv'
<1>1. /\ UNCHANGED <<findings, total, gone, expected>>
      /\ \E b \in Seq(Contexts) : Restart(b) /\ batch' = b /\ b # <<>>
  <2>1. CASE Begin
    <3>1. \A b \in Batches : b \in Seq(Contexts) /\ b # <<>>
      BY FindingAssumption
    <3> QED BY <2>1, <3>1 DEF Begin
  <2>2. CASE Conflict
    <3>1. batch # <<>> /\ batch \in Seq(Contexts)
      BY <2>2 DEF Conflict, IInv, TypeOK, EvidenceInv, Cleared
    <3> QED BY <2>2, <3>1 DEF Conflict, RolledBack, historyVars
  <2>3. CASE Fail
    BY <2>3 DEF Fail, IInv, TypeOK, historyVars
  <2> QED BY <2>1, <2>2, <2>3
<1>2. HistoryOK' /\ \A c \in Contexts : Conserved(c)'
  BY <1>1, SameConserved DEF EvidenceInv
<1>3. TypeOK'
  BY DEF IInv
<1>4. \A c \in Contexts : InHand(c)'
  BY <1>1, <1>2, <1>3, RestartEvidence
<1>5. Cleared'
  BY <1>1 DEF Cleared
<1> QED BY <1>2, <1>4, <1>5 DEF EvidenceInv

\* A step of the transaction that takes the first detection into the counts of a finding.
LEMMA TakenEvidence ==
    ASSUME TypeOK, TypeOK', EvidenceInv, todo # <<>>, todo' = Tail(todo),
           NEW i \in Ids, NEW c \in Contexts,
           i \in HoldersOf(Head(todo)) => Seen'[i] = Seen[i] + 1,
           i \notin HoldersOf(Head(todo)) => Seen'[i] = 1,
           \A d : d # Head(todo) => i \notin HoldersOf(d),
           \A j \in Ids \ {i} : Seen'[j] = Seen[j],
           \A d : HoldersOf(d)' = HoldersOf(d) \cup (IF d = Head(todo) THEN {i} ELSE {}),
           UNCHANGED <<batch, hidden, total, gone, expected>>
    PROVE  InHand(c)'
<1>1. InHand(c) /\ HistoryOK
  BY DEF EvidenceInv
<1>2. /\ total[c] \in Nat /\ gone[c] \in Nat /\ expected[c] \in Nat /\ hidden[c] \in Nat
      /\ CountOf(c, batch) \in Nat /\ CountOf(c, todo) \in Nat /\ CountOf(c, Tail(todo)) \in Nat
      /\ CountOf(c, todo) = CountOf(c, Tail(todo)) + IF Head(todo) = c THEN 1 ELSE 0
  BY <1>1, CountsAre, CountTail DEF HistoryOK, TypeOK
<1>3. HoldersOf(c) \in SUBSET Ids /\ \A j \in Ids : Seen[j] \in Nat
  BY HoldersAre, OccurrencesAre
<1> DEFINE u == Cardinality(UnitsIn(Seen, HoldersOf(c)))
           v == Cardinality(UnitsIn(Seen', HoldersOf(c)'))
<1>4. u \in Nat
  BY <1>3, UnitsFinite
<1>5. CASE Head(todo) = c
  <2>1. v = u + 1
    <3> DEFINE m == IF i \in HoldersOf(c) THEN Seen[i] ELSE 0
    <3>1. m \in Nat /\ Seen'[i] = m + 1 /\ (i \in HoldersOf(c) => Seen[i] = m) /\ (i \notin HoldersOf(c) => m = 0)
      BY <1>3, <1>5
    <3>2. \A j \in HoldersOf(c) : Seen[j] \in Nat
      BY <1>3
    <3>3. \A j \in HoldersOf(c) \ {i} : Seen'[j] = Seen[j]
      BY <1>3
    <3>4. HoldersOf(c)' = HoldersOf(c) \cup {i}
      BY <1>5
    <3> HIDE DEF m
    <3>5. Cardinality(UnitsIn(Seen', HoldersOf(c) \cup {i})) = Cardinality(UnitsIn(Seen, HoldersOf(c))) + 1
      BY <1>3, <3>1, <3>2, <3>3, UnitsMore
    <3> QED BY <3>4, <3>5
  <2>2. total[c] + CountOf(c, batch) = u + hidden[c] + CountOf(c, todo) + gone[c] + expected[c]
    BY <1>1 DEF InHand
  <2>3. InHand(c)' <=> total[c] + CountOf(c, batch) = v + hidden[c] + CountOf(c, Tail(todo)) + gone[c] + expected[c]
    BY DEF InHand, UnitsIn, CountOf
  <2>4. CountOf(c, todo) = CountOf(c, Tail(todo)) + 1
    BY <1>2, <1>5
  <2> HIDE DEF u, v
  <2>5. total[c] + CountOf(c, batch) = v + hidden[c] + CountOf(c, Tail(todo)) + gone[c] + expected[c]
    BY ONLY <1>2, <1>4, <2>1, <2>2, <2>4, SMT
  <2> QED BY <2>3, <2>5
<1>6. CASE Head(todo) # c
  <2>1. HoldersOf(c)' = HoldersOf(c) /\ i \notin HoldersOf(c)
    BY <1>6
  <2>2. UnitsIn(Seen', HoldersOf(c)) = UnitsIn(Seen, HoldersOf(c))
    BY <1>3, <2>1, UnitsAgree
  <2>3. v = u
    BY <2>1, <2>2
  <2>4. total[c] + CountOf(c, batch) = u + hidden[c] + CountOf(c, todo) + gone[c] + expected[c]
    BY <1>1 DEF InHand
  <2>5. InHand(c)' <=> total[c] + CountOf(c, batch) = v + hidden[c] + CountOf(c, Tail(todo)) + gone[c] + expected[c]
    BY DEF InHand, UnitsIn, CountOf
  <2> HIDE DEF u, v
  <2> QED BY <1>1, <1>2, <1>4, <1>6, <2>3, <2>4, <2>5
<1> QED BY <1>5, <1>6

LEMMA CountEvidence ==
    ASSUME IInv, IInv', EvidenceInv, Count
    PROVE  EvidenceInv'
<1> DEFINE c == Head(todo)
<1>1. /\ todo # <<>> /\ todo' = Tail(todo)
      /\ UNCHANGED <<findings, batch, inserted, hidden, total, gone, expected>>
  BY DEF Count, historyVars
<1>2. PICK i \in Existing(c) : added' = [added EXCEPT ![i] = @ + 1]
  BY DEF Count
<1>3. TypeOK /\ TypeOK'
  BY DEF IInv
<1>4. i \in HoldersOf(c) /\ i \in Ids
  <2>1. i \in HoldersOf(c)
    BY DEF Existing, Keyed, HoldersOf, RowsOn
  <2> QED BY <1>3, <2>1, HoldersAre
<1>5. \A d : d # c => i \notin HoldersOf(d)
  <2>1. CASE i \in Rows
    BY <1>3, <1>4, <2>1, InsertedFacts DEF HoldersOf, RowsOn
  <2>2. CASE i \notin Rows
    <3>1. PICK n \in inserted : n[1] = i /\ n[2] = c
      BY <1>4, <2>2 DEF HoldersOf, RowsOn
    <3>2. \A m \in inserted : m[1] = i => m = n
      BY <3>1 DEF IInv, InsertedAlone
    <3> QED BY <2>2, <3>1, <3>2 DEF HoldersOf, RowsOn
  <2> QED BY <2>1, <2>2
<1>6. Occurrences' = Occurrences /\ (\A d : RowsOn(d)' = RowsOn(d)) /\ HistoryOK'
      /\ \A d \in Contexts : Conserved(d)'
  BY <1>1, SameConserved DEF EvidenceInv
<1>7. Seen'[i] = Seen[i] + 1 /\ \A j \in Ids \ {i} : Seen'[j] = Seen[j]
  <2>1. /\ \A j \in Ids : added[j] \in Nat /\ Occurrences[j] \in Nat
        /\ added'[i] = added[i] + 1 /\ \A j \in Ids \ {i} : added'[j] = added[j]
    BY <1>2, <1>3, <1>4, OccurrencesAre DEF TypeOK
  <2>2. \A j \in Ids : Seen[j] = Occurrences[j] + added[j] /\ Seen'[j] = Occurrences[j] + added'[j]
    BY <1>6 DEF Seen
  <2> QED BY <1>4, <2>1, <2>2
<1>8. \A d : HoldersOf(d)' = HoldersOf(d) \cup (IF d = c THEN {i} ELSE {})
  <2>1. \A d : HoldersOf(d)' = HoldersOf(d)
    BY <1>1, <1>6 DEF HoldersOf
  <2> QED BY <1>4, <2>1
<1>9. \A d \in Contexts : InHand(d)'
  BY <1>1, <1>3, <1>4, <1>5, <1>7, <1>8, TakenEvidence
<1>10. Cleared'
  BY <1>1 DEF EvidenceInv, Cleared
<1> QED BY <1>6, <1>9, <1>10 DEF EvidenceInv

LEMMA InsertEvidence ==
    ASSUME IInv, IInv', EvidenceInv, Insert
    PROVE  EvidenceInv'
<1> DEFINE c == Head(todo)
           i == CHOOSE j \in Free : TRUE
<1>1. /\ todo # <<>> /\ todo' = Tail(todo) /\ i \in Free
      /\ inserted' = inserted \cup {<<i, c>>} /\ added' = [added EXCEPT ![i] = 1]
      /\ UNCHANGED <<findings, batch, hidden, total, gone, expected>>
  BY DEF Insert, historyVars, IInv, TypeOK
<1>2. i \in Ids \ Rows /\ \A n \in inserted : n[1] # i
  BY <1>1 DEF Free
<1> HIDE DEF i, c
<1>3. TypeOK /\ TypeOK'
  BY DEF IInv
<1>4. \A d : i \notin HoldersOf(d)
  BY <1>2 DEF HoldersOf, RowsOn
<1>5. Occurrences' = Occurrences /\ (\A d : RowsOn(d)' = RowsOn(d)) /\ HistoryOK'
      /\ \A d \in Contexts : Conserved(d)'
  BY <1>1, SameConserved DEF EvidenceInv
<1>6. Seen'[i] = 1 /\ \A j \in Ids \ {i} : Seen'[j] = Seen[j]
  <2>1. added'[i] = 1 /\ (\A j \in Ids \ {i} : added'[j] = added[j]) /\ Occurrences[i] = 0
    BY <1>1, <1>2, <1>3 DEF TypeOK, Occurrences
  <2>2. \A j \in Ids : Seen[j] = Occurrences[j] + added[j] /\ Seen'[j] = Occurrences[j] + added'[j]
    BY <1>5 DEF Seen
  <2> QED BY <1>2, <2>1, <2>2
<1>7. \A d : HoldersOf(d)' = HoldersOf(d) \cup (IF d = c THEN {i} ELSE {})
  <2>1. <<i, c>>[1] = i /\ <<i, c>>[2] = c
    OBVIOUS
  <2>2. \A d : {n[1] : n \in {m \in inserted' : m[2] = d}} =
               {n[1] : n \in {m \in inserted : m[2] = d}} \cup (IF d = c THEN {i} ELSE {})
    BY <1>1, <2>1
  <2> QED BY <1>5, <2>2 DEF HoldersOf
<1>8. \A d \in Contexts : InHand(d)'
  BY <1>1, <1>2, <1>3, <1>4, <1>6, <1>7, TakenEvidence DEF c
<1>9. Cleared'
  BY <1>1 DEF EvidenceInv, Cleared
<1> QED BY <1>5, <1>8, <1>9 DEF EvidenceInv

LEMMA SuppressEvidence ==
    ASSUME IInv, IInv', EvidenceInv, Suppress
    PROVE  EvidenceInv'
<1>1. /\ todo # <<>> /\ todo' = Tail(todo) /\ hidden' = [hidden EXCEPT ![Head(todo)] = @ + 1]
      /\ UNCHANGED <<findings, batch, added, inserted, total, gone, expected>>
  BY DEF Suppress, historyVars, IInv, TypeOK
<1>2. TypeOK
  BY DEF IInv
<1>3. Occurrences' = Occurrences /\ (\A d : RowsOn(d)' = RowsOn(d)) /\ HistoryOK'
      /\ \A d \in Contexts : Conserved(d)'
  BY <1>1, SameConserved DEF EvidenceInv
<1>4. ASSUME NEW c \in Contexts PROVE InHand(c)'
  <2> DEFINE u == Cardinality(UnitsIn(Seen, HoldersOf(c)))
  <2>1. Cardinality(UnitsIn(Seen, HoldersOf(c)))' = u
    <3>1. Seen' = Seen /\ HoldersOf(c)' = HoldersOf(c)
      BY <1>1, <1>3 DEF Seen, HoldersOf
    <3>2. Cardinality(UnitsIn(Seen, HoldersOf(c)))' = Cardinality(UnitsIn(Seen', HoldersOf(c)'))
      BY DEF UnitsIn
    <3> QED BY <3>1, <3>2
  <2>2. /\ HistoryOK /\ u \in Nat /\ hidden[c] \in Nat
        /\ total[c] + CountOf(c, batch) = u + hidden[c] + CountOf(c, todo) + gone[c] + expected[c]
    BY <1>2, HoldersAre, OccurrencesAre, UnitsFinite DEF EvidenceInv, InHand, TypeOK
  <2>3. /\ total[c] \in Nat /\ gone[c] \in Nat /\ expected[c] \in Nat
        /\ CountOf(c, batch) \in Nat /\ CountOf(c, Tail(todo)) \in Nat
        /\ CountOf(c, todo) = CountOf(c, Tail(todo)) + IF Head(todo) = c THEN 1 ELSE 0
    BY <1>1, <1>2, <2>2, CountsAre, CountTail DEF HistoryOK, TypeOK
  <2>4. hidden'[c] = hidden[c] + IF Head(todo) = c THEN 1 ELSE 0
    <3>1. hidden \in [Contexts -> Nat] /\ hidden' = [hidden EXCEPT ![Head(todo)] = hidden[Head(todo)] + 1]
      BY <1>1, <1>2 DEF TypeOK
    <3> HIDE DEF u
    <3>2. CASE Head(todo) = c
      BY <3>1, <3>2
    <3>3. CASE Head(todo) # c
      BY <2>2, <3>1, <3>3
    <3> QED BY <3>2, <3>3
  <2> HIDE DEF u
  <2>5. total[c] + CountOf(c, batch) = u + hidden'[c] + CountOf(c, Tail(todo)) + gone[c] + expected[c]
    <3>1. CASE Head(todo) = c
      BY ONLY <2>2, <2>3, <2>4, <3>1, SMT
    <3>2. CASE Head(todo) # c
      BY ONLY <2>2, <2>3, <2>4, <3>2, SMT
    <3> QED BY <3>1, <3>2
  <2> QED BY <1>1, <2>1, <2>5 DEF InHand, CountOf
<1>5. Cleared'
  BY <1>1 DEF EvidenceInv, Cleared
<1> QED BY <1>3, <1>4, <1>5 DEF EvidenceInv

\* What is written to a finding is what it had and what the transaction adds.
LEMMA WrittenCounts ==
    ASSUME TypeOK, InsertedAlone
    PROVE  /\ \A i \in Rows : Written(i).occurrences = findings[i].occurrences + added[i]
           /\ \A n \in inserted : Written(n[1]) = Finding(n[2], added[n[1]])
<1>1. ASSUME NEW i \in Rows PROVE Written(i).occurrences = findings[i].occurrences + added[i]
  <2>1. i \in Ids /\ findings[i] \in Finds /\ added[i] \in Nat /\ \A n \in inserted : n[1] # i
    BY RowFacts, InsertedFacts DEF TypeOK
  <2>2. Written(i) = IF added[i] > 0 THEN [findings[i] EXCEPT !.occurrences = @ + added[i]] ELSE findings[i]
    BY <2>1 DEF Written
  <2>3. findings[i].occurrences \in Nat
    BY <2>1 DEF Finds
  <2>4. [findings[i] EXCEPT !.occurrences = @ + added[i]].occurrences = findings[i].occurrences + added[i]
    BY <2>1 DEF Finds
  <2> QED BY <2>1, <2>2, <2>3, <2>4
<1>2. ASSUME NEW n \in inserted PROVE Written(n[1]) = Finding(n[2], added[n[1]])
  <2> DEFINE m == CHOOSE k \in inserted : k[1] = n[1]
  <2>1. m \in inserted /\ m[1] = n[1]
    OBVIOUS
  <2>2. m = n
    BY <2>1 DEF InsertedAlone
  <2>3. Written(n[1]) = Finding(m[2], added[n[1]])
    BY DEF Written
  <2> HIDE DEF m
  <2> QED BY <2>2, <2>3
<1> QED BY <1>1, <1>2

LEMMA CommitEvidence ==
    ASSUME IInv, IInv', EvidenceInv, Commit
    PROVE  EvidenceInv'
<1>1. /\ todo = <<>> /\ batch' = <<>> /\ Restart(<<>>) /\ gone' = gone
      /\ \A i \in Ids : findings'[i] = Written(i)
      /\ total' = [c \in Contexts |-> total[c] + CountOf(c, batch)]
      /\ expected' = [c \in Contexts |-> expected[c] + hidden[c]]
  BY DEF Commit
<1>2. TypeOK /\ TypeOK' /\ InsertedAlone
  BY DEF IInv
<1>3. HistoryOK'
  <2>1. ASSUME NEW c \in Contexts
        PROVE  total[c] + CountOf(c, batch) \in Nat /\ expected[c] + hidden[c] \in Nat
    <3>1. total[c] \in Nat /\ expected[c] \in Nat /\ hidden[c] \in Nat
      BY <1>2 DEF EvidenceInv, HistoryOK, TypeOK
    <3>2. CountOf(c, batch) \in Nat
      BY <1>2, CountsAre
    <3> QED BY <3>1, <3>2
  <2>2. total' \in [Contexts -> Nat] /\ expected' \in [Contexts -> Nat]
    BY <1>1, <2>1
  <2> QED BY <1>1, <2>2 DEF EvidenceInv, HistoryOK
<1>4. \A i \in Rows : i \in Rows' /\ findings'[i].context = findings[i].context
                      /\ findings'[i].occurrences = Seen[i]
  <2>1. \A i \in Rows : i \in Ids /\ findings[i].occurrences = Occurrences[i] /\ Seen[i] = Occurrences[i] + added[i]
    BY <1>2, RowFacts, OccurrencesAre DEF Seen
  <2>2. \A i \in Rows : findings'[i] \in Finds /\ findings'[i].context = findings[i].context
    BY <1>1, <1>2, <2>1, WrittenIs
  <2>3. \A i \in Rows : findings'[i].occurrences = findings[i].occurrences + added[i]
    BY <1>1, <1>2, <2>1, WrittenCounts
  <2> QED BY <2>1, <2>2, <2>3, NoFindingIs DEF Rows
<1>5. \A n \in inserted : n[1] \in Rows' /\ n[1] \notin Rows /\ findings'[n[1]].context = n[2]
                          /\ findings'[n[1]].occurrences = Seen[n[1]]
  <2> SUFFICES ASSUME NEW n \in inserted
               PROVE  n[1] \in Rows' /\ n[1] \notin Rows /\ findings'[n[1]].context = n[2]
                      /\ findings'[n[1]].occurrences = Seen[n[1]]
    OBVIOUS
  <2>1. n[1] \in Ids /\ n[1] \notin Rows /\ added[n[1]] \in Nat
    BY <1>2, InsertedFacts
  <2>2. findings'[n[1]] = Finding(n[2], added[n[1]])
    BY <1>1, <1>2, <2>1, WrittenCounts
  <2>3. findings'[n[1]] \in Finds /\ findings'[n[1]].context = n[2]
    BY <1>2, <2>2, NewIs
  <2>4. findings'[n[1]].occurrences = added[n[1]]
    BY <2>2 DEF Finding
  <2>5. Seen[n[1]] = added[n[1]]
    BY <2>1 DEF Seen, Occurrences
  <2> QED BY <2>1, <2>3, <2>4, <2>5, NoFindingIs DEF Rows
<1>6. \A i \in Rows' : i \in Rows \/ \E n \in inserted : n[1] = i
  <2>1. \A i \in Ids : i \in Rows \/ (\E n \in inserted : n[1] = i) \/ Written(i) = NoFinding
    BY <1>2, WrittenIs
  <2> QED BY <1>1, <2>1 DEF Rows
<1>7. ASSUME NEW c \in Contexts PROVE Conserved(c)'
  <2>1. RowsOn(c)' = HoldersOf(c)
    <3>1. \A i \in RowsOn(c)' : i \in HoldersOf(c)
      <4> SUFFICES ASSUME NEW i \in Rows', findings'[i].context = c PROVE i \in HoldersOf(c)
        BY DEF RowsOn
      <4>1. CASE i \in Rows
        BY <1>4, <4>1 DEF HoldersOf, RowsOn
      <4>2. CASE \E n \in inserted : n[1] = i
        BY <1>5, <4>2 DEF HoldersOf
      <4> QED BY <1>6, <4>1, <4>2
    <3>2. \A i \in HoldersOf(c) : i \in RowsOn(c)'
      BY <1>4, <1>5 DEF HoldersOf, RowsOn
    <3> QED BY <3>1, <3>2
  <2>2. \A i \in HoldersOf(c) : Occurrences'[i] = Seen[i]
    <3>1. \A i \in Rows' : Occurrences'[i] = findings'[i].occurrences
      BY DEF Occurrences, Rows
    <3>2. \A i \in HoldersOf(c) : i \in Rows' /\ findings'[i].occurrences = Seen[i]
      BY <1>4, <1>5 DEF HoldersOf, RowsOn
    <3> QED BY <3>1, <3>2
  <2>3. UnitsIn(Occurrences', HoldersOf(c)) = UnitsIn(Seen, HoldersOf(c))
    BY <2>2, UnitsAgree
  <2> DEFINE u == Cardinality(UnitsIn(Seen, HoldersOf(c)))
  <2>4. Cardinality(UnitsIn(Occurrences, RowsOn(c)))' = u
    <3>1. Cardinality(UnitsIn(Occurrences, RowsOn(c)))' = Cardinality(UnitsIn(Occurrences', RowsOn(c)'))
      BY DEF UnitsIn
    <3> QED BY <2>1, <2>3, <3>1
  <2>5. /\ HistoryOK /\ u \in Nat /\ hidden[c] \in Nat /\ CountOf(c, todo) = 0
        /\ total[c] + CountOf(c, batch) = u + hidden[c] + CountOf(c, todo) + gone[c] + expected[c]
    BY <1>1, <1>2, HoldersAre, OccurrencesAre, UnitsFinite, CountEmpty DEF EvidenceInv, InHand, TypeOK
  <2>6. gone[c] \in Nat /\ expected[c] \in Nat
    BY <2>5 DEF HistoryOK
  <2>7. total'[c] = total[c] + CountOf(c, batch) /\ expected'[c] = expected[c] + hidden[c]
    BY <1>1
  <2> HIDE DEF u
  <2>8. total'[c] = u + gone[c] + expected'[c]
    BY ONLY <2>5, <2>6, <2>7, SMT
  <2> QED BY <1>1, <2>4, <2>8 DEF Conserved
<1>8. <<>> \in Seq(Contexts)
  OBVIOUS
<1>9. \A c \in Contexts : InHand(c)'
  BY <1>1, <1>2, <1>3, <1>7, <1>8, RestartEvidence
<1>10. Cleared'
  BY <1>1 DEF Restart, Cleared, Nothing
<1> QED BY <1>3, <1>7, <1>9, <1>10 DEF EvidenceInv

\* What retention deletes it takes from the findings and adds to what is gone.
LEMMA MaintenanceEvidence ==
    ASSUME IInv, IInv', EvidenceInv, Maintenance
    PROVE  EvidenceInv'
<1> DEFINE S == {i \in Rows : Old(findings[i])}
           lost(c) == {i \in S : findings[i].context = c}
<1>1. /\ batch = <<>>
      /\ findings' = [i \in Ids |-> IF i \in S THEN NoFinding ELSE findings[i]]
      /\ gone' = [c \in Contexts |-> gone[c] + ObservationsOf(lost(c))]
      /\ UNCHANGED <<batch, todo, looked, added, inserted, hidden, total, expected>>
  BY DEF Maintenance, Idle, txnVars
<1>2. TypeOK /\ TypeOK'
  BY DEF IInv
<1>3. Rows' = Rows \ S /\ \A i \in Rows' : findings'[i] = findings[i]
  <2>1. \A i \in Ids : findings'[i] = IF i \in S THEN NoFinding ELSE findings[i]
    BY <1>1
  <2> HIDE DEF S
  <2> QED BY <2>1 DEF Rows, NoFinding
<1>4. ASSUME NEW c \in Contexts
      PROVE  /\ ObservationsOf(lost(c)) \in Nat
             /\ Cardinality(UnitsIn(Occurrences, RowsOn(c))) =
                  ObservationsOf(lost(c)) + Cardinality(UnitsIn(Occurrences, RowsOn(c)))'
             /\ Cardinality(UnitsIn(Occurrences, RowsOn(c)))' \in Nat
  <2>1. lost(c) \in SUBSET RowsOn(c) /\ RowsOn(c) \in SUBSET Ids /\ lost(c) \in SUBSET Ids
    BY <1>2, HoldersAre DEF RowsOn
  <2>2. ObservationsOf(lost(c)) = Cardinality(UnitsIn(Occurrences, lost(c)))
    <3>1. \A i \in lost(c) : findings[i].occurrences = Occurrences[i]
      BY <1>2, OccurrencesAre
    <3> HIDE DEF lost
    <3> QED BY <3>1, ObservationsAre
  <2>3. RowsOn(c)' = RowsOn(c) \ lost(c)
    BY <1>3 DEF RowsOn
  <2>4. \A i \in RowsOn(c)' : Occurrences'[i] = Occurrences[i]
    <3>1. \A i \in RowsOn(c)' : i \in Rows' /\ i \in Rows /\ findings'[i] = findings[i]
      BY <1>3 DEF RowsOn
    <3> QED BY <3>1 DEF Occurrences, Rows
  <2>5. Cardinality(UnitsIn(Occurrences, RowsOn(c)))' = Cardinality(UnitsIn(Occurrences, RowsOn(c) \ lost(c)))
    <3>1. Cardinality(UnitsIn(Occurrences, RowsOn(c)))' = Cardinality(UnitsIn(Occurrences', RowsOn(c)'))
      BY DEF UnitsIn
    <3>2. UnitsIn(Occurrences', RowsOn(c)') = UnitsIn(Occurrences, RowsOn(c)')
      BY <2>4, UnitsAgree
    <3> QED BY <2>3, <3>1, <3>2
  <2> HIDE DEF lost
  <2>6. \A i \in Ids : Occurrences[i] \in Nat
    BY <1>2, OccurrencesAre
  <2>7. Cardinality(UnitsIn(Occurrences, lost(c))) \in Nat
        /\ Cardinality(UnitsIn(Occurrences, RowsOn(c) \ lost(c))) \in Nat
    <3>1. RowsOn(c) \ lost(c) \in SUBSET Ids
      BY <2>1
    <3> QED BY <2>1, <2>6, <3>1, UnitsFinite
  <2>8. Cardinality(UnitsIn(Occurrences, RowsOn(c))) =
          Cardinality(UnitsIn(Occurrences, lost(c))) + Cardinality(UnitsIn(Occurrences, RowsOn(c) \ lost(c)))
    BY <2>1, <2>6, UnitsSplit
  <2> QED BY <2>2, <2>5, <2>7, <2>8
<1> HIDE DEF lost, S
<1>5. HistoryOK /\ \A c \in Contexts : total[c] \in Nat /\ gone[c] \in Nat /\ expected[c] \in Nat
  BY DEF EvidenceInv, HistoryOK
<1>6. HistoryOK'
  <2>1. \A c \in Contexts : gone[c] + ObservationsOf(lost(c)) \in Nat
    BY <1>4, <1>5
  <2>2. gone' \in [Contexts -> Nat]
    BY <1>1, <2>1
  <2> QED BY <1>1, <1>5, <2>2 DEF HistoryOK
<1>7. ASSUME NEW c \in Contexts PROVE Conserved(c)'
  <2> DEFINE u == Cardinality(UnitsIn(Occurrences, RowsOn(c)))
             v == Cardinality(UnitsIn(Occurrences, RowsOn(c)))'
             l == ObservationsOf(lost(c))
  <2>1. total[c] = u + gone[c] + expected[c]
    BY DEF EvidenceInv, Conserved
  <2>2. u = l + v /\ l \in Nat /\ v \in Nat
    BY <1>4
  <2>3. gone'[c] = gone[c] + l
    BY <1>1
  <2> HIDE DEF u, v, l
  <2>4. total[c] = v + gone'[c] + expected[c]
    BY ONLY <1>5, <2>1, <2>2, <2>3, c \in Contexts, SMT
  <2> QED BY <1>1, <2>4 DEF Conserved, v
<1>8. Restart(<<>>) /\ <<>> \in Seq(Contexts) /\ batch' = <<>> /\ Cleared'
  <2>1. /\ todo = <<>> /\ inserted = {} /\ hidden = Nothing /\ added = [i \in Ids |-> 0] /\ looked = "not yet"
    BY <1>1, <1>2 DEF EvidenceInv, Cleared, TypeOK
  <2>2. /\ todo' = <<>> /\ inserted' = {} /\ hidden' = Nothing /\ looked' = "not yet"
        /\ added' = [i \in Ids |-> 0] /\ batch' = <<>>
    BY <1>1, <2>1
  <2>3. Restart(<<>>)
    BY <2>2 DEF Restart
  <2>4. Cleared'
    BY <2>2 DEF Cleared, Nothing
  <2>5. <<>> \in Seq(Contexts)
    OBVIOUS
  <2> QED BY <2>2, <2>3, <2>4, <2>5
<1>9. \A c \in Contexts : InHand(c)'
  BY <1>2, <1>6, <1>7, <1>8, RestartEvidence
<1> QED BY <1>6, <1>7, <1>8, <1>9 DEF EvidenceInv

LEMMA SameEvidence ==
    ASSUME EvidenceInv, Occurrences' = Occurrences, \A c : RowsOn(c)' = RowsOn(c),
           UNCHANGED <<batch, todo, added, inserted, hidden, total, gone, expected>>
    PROVE  EvidenceInv'
<1>1. HistoryOK'
  BY DEF EvidenceInv, HistoryOK
<1>2. Cleared'
  BY DEF EvidenceInv, Cleared, Nothing
<1>3. ASSUME NEW c \in Contexts PROVE Conserved(c)' /\ InHand(c)'
  <2>1. Seen' = Seen /\ HoldersOf(c)' = HoldersOf(c)
    BY DEF Seen, HoldersOf
  <2>2. Cardinality(UnitsIn(Seen, HoldersOf(c)))' = Cardinality(UnitsIn(Seen, HoldersOf(c)))
    <3>1. Cardinality(UnitsIn(Seen, HoldersOf(c)))' = Cardinality(UnitsIn(Seen', HoldersOf(c)'))
      BY DEF UnitsIn
    <3> QED BY <2>1, <3>1
  <2>3. Cardinality(UnitsIn(Occurrences, RowsOn(c)))' = Cardinality(UnitsIn(Occurrences, RowsOn(c)))
    <3>1. Cardinality(UnitsIn(Occurrences, RowsOn(c)))' = Cardinality(UnitsIn(Occurrences', RowsOn(c)'))
      BY DEF UnitsIn
    <3>2. RowsOn(c)' = RowsOn(c)
      OBVIOUS
    <3> QED BY <3>1, <3>2
  <2>4. Conserved(c) /\ InHand(c)
    BY DEF EvidenceInv
  <2>5. Conserved(c)'
    BY <2>3, <2>4 DEF Conserved
  <2>6. CountOf(c, batch)' = CountOf(c, batch) /\ CountOf(c, todo)' = CountOf(c, todo)
    BY DEF CountOf
  <2>7. InHand(c)'
    BY <2>2, <2>4, <2>6 DEF InHand
  <2> QED BY <2>5, <2>7
<1> QED BY <1>1, <1>2, <1>3 DEF EvidenceInv

\* A decision changes neither the context nor the observations of a finding.
LEMMA DecideEvidence ==
    ASSUME IInv, EvidenceInv, Decide
    PROVE  EvidenceInv'
<1>1. UNCHANGED <<batch, todo, added, inserted, hidden, total, gone, expected>>
  BY DEF Decide, txnVars, historyVars
<1>2. Rows' = Rows /\ \A i \in Rows : /\ findings'[i].context = findings[i].context
                                      /\ findings'[i].occurrences = findings[i].occurrences
  <2>1. CASE Impossible(decision.on, decision.what)
    BY <2>1, SameTable DEF Decide
  <2>2. CASE ~Impossible(decision.on, decision.what)
    <3>1. /\ decision.on \in Rows /\ Rows' = Rows
          /\ findings'[decision.on] = Decided(findings[decision.on], decision.what)
          /\ findings'[decision.on].context = findings[decision.on].context
          /\ \A j \in Ids : j # decision.on => findings'[j] = findings[j]
      BY <2>2, DecideTable
    <3>2. findings[decision.on] \in Finds /\ \A i \in Rows : i \in Ids
      BY <3>1, RowFacts DEF IInv
    <3>3. \A f \in Finds : Decided(f, decision.what).occurrences = f.occurrences
      BY DEF Decided, Reopened, Closed, Finds
    <3> QED BY <3>1, <3>2, <3>3
  <2> QED BY <2>1, <2>2
<1>3. Occurrences' = Occurrences /\ \A c : RowsOn(c)' = RowsOn(c)
  BY <1>2 DEF Occurrences, RowsOn
<1> QED BY <1>1, <1>3, SameEvidence

LEMMA OtherEvidence ==
    ASSUME EvidenceInv, UNCHANGED <<findings, batch, todo, added, inserted, hidden, total, gone, expected>>
    PROVE  EvidenceInv'
BY SameConserved, SameEvidence

LEMMA EvidenceStep == IInv /\ IInv' /\ EvidenceInv /\ [Next]_vars => EvidenceInv'
<1> SUFFICES ASSUME IInv, IInv', EvidenceInv, [Next]_vars PROVE EvidenceInv'
  OBVIOUS
<1>1. CASE Worker
  <2>1. CASE NoneOpen \/ NotExpected
    BY <2>1, OtherEvidence DEF NoneOpen, NotExpected, historyVars
  <2> QED BY <1>1, <2>1, BeginEvidence, CountEvidence, InsertEvidence, SuppressEvidence, CommitEvidence,
             MaintenanceEvidence DEF Worker
<1>2. CASE Analyst
  <2>1. ASSUME NEW i \in Rows, NEW what \in States, Look(i, what) PROVE EvidenceInv'
    BY <2>1, OtherEvidence DEF Look, txnVars, historyVars
  <2>2. CASE Revoke
    BY <2>2, OtherEvidence DEF Revoke, txnVars, historyVars
  <2> QED BY <1>2, <2>1, <2>2, DecideEvidence DEF Analyst
<1>3. CASE TimePasses
  BY <1>3, OtherEvidence DEF TimePasses, txnVars, historyVars
<1>4. CASE UNCHANGED vars
  BY <1>4, OtherEvidence DEF vars, txnVars, historyVars
<1> QED BY <1>1, <1>2, <1>3, <1>4 DEF Next

LEMMA EvidenceInit == Init => EvidenceInv
<1> SUFFICES ASSUME Init PROVE EvidenceInv
  OBVIOUS
<1>1. /\ batch = <<>> /\ todo = <<>> /\ added = [i \in Ids |-> 0] /\ inserted = {} /\ hidden = Nothing
      /\ total = Nothing /\ gone = Nothing /\ expected = Nothing /\ Rows = {}
  BY DEF Init, Rows
<1>2. \A c : RowsOn(c) = {} /\ HoldersOf(c) = {}
  BY <1>1 DEF RowsOn, HoldersOf
<1>3. \A k : UnitsIn(k, {}) = {}
  BY DEF UnitsIn
<1>4. ASSUME NEW c \in Contexts PROVE Conserved(c) /\ InHand(c)
  <2>1. Nothing[c] = 0 /\ CountOf(c, <<>>) = 0 /\ Cardinality({}) = 0
    BY CountEmpty, FS_EmptySet DEF Nothing
  <2>2. total[c] = 0 /\ gone[c] = 0 /\ expected[c] = 0 /\ hidden[c] = 0
        /\ CountOf(c, batch) = 0 /\ CountOf(c, todo) = 0
    BY <1>1, <2>1
  <2>3. Cardinality(UnitsIn(Occurrences, RowsOn(c))) = 0 /\ Cardinality(UnitsIn(Seen, HoldersOf(c))) = 0
    BY <1>2, <1>3, <2>1
  <2> QED BY <2>2, <2>3 DEF Conserved, InHand
<1>5. HistoryOK
  BY <1>1, NothingIs DEF HistoryOK
<1> QED BY <1>1, <1>4, <1>5 DEF EvidenceInv, Cleared

\* Each detection of a committed batch is one observation of one finding, was expected, or
\* went with a finding that retention deleted: a transaction that fails and comes again, a
\* finding closed, reopened or deleted under it neither loses one nor counts one twice.
THEOREM EvidenceIsConserved == Spec => []EvidenceConserved
<1>1. TypeOK /\ EvidenceInv => EvidenceConserved
  BY ConservedIs
<1>2. IInv => TypeOK
  BY DEF IInv
<1> QED BY <1>1, <1>2, InitIInv, NextIInv, EvidenceInit, EvidenceStep, PTL DEF Spec
=============================================================================
