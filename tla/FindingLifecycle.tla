--------------------------- MODULE FindingLifecycle ---------------------------
(* Findings and expectations of one endpoint (deepsnout/engine.py,          *)
(* deepsnout/web.py).                                                       *)
(*                                                                          *)
(* The worker calls make_finding for the detections of a batch, in one      *)
(* transaction; the web process, which takes one form after the other,      *)
(* decides on findings meanwhile.  Each reads what the other has committed  *)
(* (READ COMMITTED).  active_key is unique and allows one open finding per  *)
(* context, a detector with what it looked at; who inserts a key that the   *)
(* other is inserting waits for it to end.  A transaction of the worker     *)
(* that fails is rolled back and its batch comes again.                     *)
EXTENDS Integers, Sequences, FiniteSets

CONSTANTS
    Contexts,
    Expectable,     \* the contexts of the detectors that take expectations
    Batches,        \* the detections a batch may hold, in order
    Lifetimes,      \* for how long an expectation may be made
    ClosedDays,     \* closed_finding_days
    Ids, NoId,      \* bound: findings
    MaxClock,       \* bound: time
    MaxBatches      \* bound: batches

ASSUME FindingAssumption ==
    /\ Expectable \subseteq Contexts /\ Batches \subseteq Seq(Contexts) \ {<<>>}
    /\ Lifetimes \subseteq Nat \ {0} /\ ClosedDays \in Nat \ {0}
    /\ MaxClock \in Nat /\ MaxBatches \in Nat /\ IsFiniteSet(Ids) /\ NoId \notin Ids

VARIABLES
    clock,
    findings,       \* the row of each finding, or NoFinding
    expectations,   \* those not revoked: [context, expires]
    batch,          \* the detections to be reported, or <<>>
    todo,           \* of these, those the transaction has yet to look at
    looked,         \* how far make_finding is with the first of them
    added,          \* the observations the transaction adds to each finding
    inserted,       \* the findings it inserts: <<id, context>>
    hidden,         \* the detections it has found to be expected
    decision,       \* what an analyst has asked for and the web process has looked at
    total,          \* history: the detections of committed batches
    gone,           \* history: the observations of findings that retention deleted
    expected,       \* history: the detections that were suppressed
    begun,          \* history: the batches so far
    steady          \* history: the findings open since the transaction began

txnVars == <<batch, todo, looked, added, inserted, hidden>>
historyVars == <<total, gone, expected, begun>>
vars == <<clock, findings, expectations, txnVars, decision, historyVars, steady>>

\* "investigating" is to all of this what "new" is, and stands for both.
Open == {"investigating", "malicious"}
States == Open \cup {"resolved", "expected"}
NotClosed == -1
NoFinding == [state |-> "none"]
Nothing == [c \in Contexts |-> 0]
Undecided == [what |-> "none", on |-> NoId]

Rows == {i \in Ids : findings[i] # NoFinding}
OpenRows == {i \in Rows : findings[i].state \in Open}

\* The findings that have the key of a context.
Keyed(c) == {i \in Rows : findings[i].key /\ findings[i].context = c}

Finding(c, n) ==
    [context |-> c, state |-> "investigating", key |-> TRUE, closed |-> NotClosed, occurrences |-> n]

-----------------------------------------------------------------------------
(* make_finding, in the transaction of an ingestion *)

Idle == todo = <<>> /\ batch = <<>>
Restart(b) ==
    /\ todo' = b /\ looked' = "not yet"
    /\ added' = [i \in Ids |-> 0] /\ inserted' = {} /\ hidden' = Nothing

Begin ==
    /\ Idle /\ begun < MaxBatches
    /\ \E b \in Batches : batch' = b /\ Restart(b)
    /\ begun' = begun + 1
    /\ steady' = OpenRows
    /\ UNCHANGED <<clock, findings, expectations, decision, total, gone, expected>>

\* The finding of the first detection: a committed one, or one of this transaction.
Existing(c) == Keyed(c) \cup {n[1] : n \in {m \in inserted : m[2] = c}}

\* (Faulty: an expectation is looked for first.)
CountsUnlessExpected(c) ==
    Existing(c) # {} /\ ~(c \in Expectable /\ \E x \in expectations : x.context = c /\ clock < x.expires)
Counts(c) == Existing(c) # {}

\* An open finding gets another observation ...
Count ==
    /\ todo # <<>> /\ looked = "not yet" /\ Counts(Head(todo))
    /\ \E i \in Existing(Head(todo)) : added' = [added EXCEPT ![i] = @ + 1]
    /\ todo' = Tail(todo)
    /\ UNCHANGED <<clock, findings, expectations, batch, looked, inserted, hidden, decision, historyVars, steady>>

NoneOpen ==
    /\ todo # <<>> /\ looked = "not yet" /\ ~Counts(Head(todo))
    /\ looked' = "no finding"
    /\ UNCHANGED <<clock, findings, expectations, batch, todo, added, inserted, hidden, decision, historyVars, steady>>

InForce(c) == \E x \in expectations : x.context = c /\ clock < x.expires

\* ... and without one an expectation may suppress the detection.
Suppress ==
    /\ looked = "no finding" /\ Head(todo) \in Expectable /\ InForce(Head(todo))
    /\ hidden' = [hidden EXCEPT ![Head(todo)] = @ + 1]
    /\ todo' = Tail(todo) /\ looked' = "not yet"
    /\ UNCHANGED <<clock, findings, expectations, batch, added, inserted, decision, historyVars, steady>>

NotExpected ==
    /\ looked = "no finding" /\ ~(Head(todo) \in Expectable /\ InForce(Head(todo)))
    /\ looked' = "not expected"
    /\ UNCHANGED <<clock, findings, expectations, batch, todo, added, inserted, hidden, decision, historyVars, steady>>

\* An id is never used again; here it may be, once nothing refers to it.
Free == Ids \ (Rows \cup {n[1] : n \in inserted} \cup {decision.on})

Insert ==
    /\ looked = "not expected" /\ Keyed(Head(todo)) = {} /\ Free # {}
    /\ LET i == CHOOSE j \in Free : TRUE IN
       /\ inserted' = inserted \cup {<<i, Head(todo)>>}
       /\ added' = [added EXCEPT ![i] = 1]
    /\ todo' = Tail(todo) /\ looked' = "not yet"
    /\ UNCHANGED <<clock, findings, expectations, batch, hidden, decision, historyVars, steady>>

\* The key was taken meanwhile: the insertion fails, and the transaction with it.
\* (Faulty: the finding is left out.)
Skipped ==
    /\ todo' = Tail(todo) /\ looked' = "not yet" /\ UNCHANGED <<batch, added, inserted, hidden>>
RolledBack == Restart(batch) /\ UNCHANGED batch

Conflict ==
    /\ looked = "not expected" /\ Keyed(Head(todo)) # {}
    /\ RolledBack
    /\ steady' = OpenRows
    /\ UNCHANGED <<clock, findings, expectations, decision, historyVars>>

\* It may fail for any other reason: the capacity, a cancellation, a crash.
Fail ==
    /\ batch # <<>> /\ (todo # batch \/ looked # "not yet")
    /\ Restart(batch)
    /\ steady' = OpenRows
    /\ UNCHANGED <<clock, findings, expectations, batch, decision, historyVars>>

Written(i) ==
    IF \E n \in inserted : n[1] = i
    THEN Finding((CHOOSE n \in inserted : n[1] = i)[2], added[i])
    ELSE IF added[i] > 0 THEN [findings[i] EXCEPT !.occurrences = @ + added[i]] ELSE findings[i]

CountOf(c, b) == Cardinality({k \in DOMAIN b : b[k] = c})

Commit ==
    /\ batch # <<>> /\ todo = <<>>
    /\ findings' = [i \in Ids |-> Written(i)]
    /\ total' = [c \in Contexts |-> total[c] + CountOf(c, batch)]
    /\ expected' = [c \in Contexts |-> expected[c] + hidden[c]]
    /\ batch' = <<>> /\ Restart(<<>>)
    /\ steady' = {}
    /\ UNCHANGED <<clock, expectations, decision, gone, begun>>

-----------------------------------------------------------------------------
(* The analysts *)

\* A decision is looked at: the finding is there, and the decision is one for it.
Look(i, what) ==
    /\ decision = Undecided
    /\ what = "expected" => findings[i].context \in Expectable /\ findings[i].state # "malicious"
    /\ what \in Open => Keyed(findings[i].context) \ {i} = {}
    /\ decision' = [what |-> what, on |-> i]
    /\ UNCHANGED <<clock, findings, expectations, txnVars, historyVars, steady>>

\* (Faulty: it stays without its key.)
ReopenedUnkeyed(f, what) == [f EXCEPT !.state = what, !.closed = NotClosed]
Reopened(f, what) == [f EXCEPT !.state = what, !.key = TRUE, !.closed = NotClosed]
Closed(f, what) == [f EXCEPT !.state = what, !.key = FALSE, !.closed = clock]

Decided(f, what) == IF what \in Open THEN Reopened(f, what) ELSE Closed(f, what)

\* The key it takes is that of a finding the worker is inserting: it has to wait.  An
\* observation the worker adds to the row itself is of another column, and may be
\* written to the database later than this.
Blocked(i, what) ==
    what \in Open /\ ~findings[i].key /\ \E n \in inserted : n[2] = findings[i].context

\* The row is gone, or its key was taken meanwhile.
Impossible(i, what) ==
    i \notin Rows \/ (what \in Open /\ Keyed(findings[i].context) \ {i} # {})

Decide ==
    /\ decision # Undecided
    /\ LET i == decision.on what == decision.what IN
       IF Impossible(i, what) THEN UNCHANGED <<findings, expectations, steady>>
       ELSE /\ ~Blocked(i, what)
            /\ findings' = [findings EXCEPT ![i] = Decided(@, what)]
            /\ steady' = IF what \in Open THEN steady ELSE steady \ {i}
            /\ IF what = "expected"
               THEN \E d \in Lifetimes : expectations' =
                        expectations \cup {[context |-> findings[i].context, expires |-> clock + d]}
               ELSE UNCHANGED expectations
    /\ decision' = Undecided
    /\ UNCHANGED <<clock, txnVars, historyVars>>

Revoke ==
    /\ decision = Undecided
    /\ \E x \in expectations : expectations' = expectations \ {x}
    /\ UNCHANGED <<clock, findings, txnVars, decision, historyVars, steady>>

-----------------------------------------------------------------------------
(* Retention, and the specification *)

\* Closed findings go after a while.  (Faulty: any that was not seen again.)
OldIfUnseen(f) == f.occurrences = 1 /\ clock > ClosedDays
Old(f) == f.closed # NotClosed /\ f.closed < clock - ClosedDays

ObservationsOf(S) == Cardinality(UNION {{<<i, n>> : n \in 1 .. findings[i].occurrences} : i \in S})

Maintenance ==
    /\ Idle
    /\ LET S == {i \in Rows : Old(findings[i])} IN
       /\ findings' = [i \in Ids |-> IF i \in S THEN NoFinding ELSE findings[i]]
       /\ gone' = [c \in Contexts |-> gone[c] + ObservationsOf({i \in S : findings[i].context = c})]
    /\ UNCHANGED <<clock, expectations, txnVars, decision, total, expected, begun, steady>>

TimePasses ==
    /\ clock < MaxClock
    /\ clock' = clock + 1
    /\ UNCHANGED <<findings, expectations, txnVars, decision, historyVars, steady>>

Init ==
    /\ clock = 0
    /\ findings = [i \in Ids |-> NoFinding] /\ expectations = {}
    /\ batch = <<>> /\ todo = <<>> /\ looked = "not yet"
    /\ added = [i \in Ids |-> 0] /\ inserted = {} /\ hidden = Nothing
    /\ decision = Undecided
    /\ total = Nothing /\ gone = Nothing /\ expected = Nothing /\ begun = 0
    /\ steady = {}

Worker == Begin \/ Count \/ NoneOpen \/ Suppress \/ NotExpected \/ Insert \/ Conflict \/ Fail \/ Commit \/ Maintenance

Analyst == (\E i \in Rows, what \in States : Look(i, what)) \/ Decide \/ Revoke

Next == Worker \/ Analyst \/ TimePasses

Spec == Init /\ [][Next]_vars

-----------------------------------------------------------------------------
(* Properties *)

Finds == [context : Contexts, state : States, key : BOOLEAN, closed : Int, occurrences : Nat \ {0}]

\* A finding is open with its key, or closed without one at some time.
WellClosed(f) ==
    IF f.state \in Open THEN f.key /\ f.closed = NotClosed ELSE ~f.key /\ f.closed \in 0 .. clock

\* Types, and that state, key and time of every finding go together: retention goes by
\* the time, the worker by the key, and the analysts see the state.
TypeOK ==
    /\ clock \in 0 .. MaxClock
    /\ findings \in [Ids -> Finds \cup {NoFinding}]
    /\ \A i \in Rows : WellClosed(findings[i])
    /\ \A x \in expectations : x.context \in Expectable /\ x.expires \in Nat
    /\ batch \in Seq(Contexts) /\ todo \in Seq(Contexts)
    /\ looked \in {"not yet", "no finding", "not expected"} /\ (looked # "not yet" => todo # <<>>)
    /\ added \in [Ids -> Nat] /\ hidden \in [Contexts -> Nat]
    /\ inserted \subseteq (Ids \ Rows) \X Contexts
    /\ decision \in [what : States \cup {"none"}, on : Ids \cup {NoId}]
    /\ decision # Undecided => decision.on \in Ids /\ decision.what \in States

\* However detections and decisions interleave, a context has one open finding at most.
OneOpen == \A i, j \in OpenRows : findings[i].context = findings[j].context => i = j

\* Every detection of a batch that was committed is counted in one finding, or was
\* expected: none is lost when the transaction fails and comes again, when a finding is
\* closed or reopened under it, and none is counted twice.
EvidenceConserved ==
    \A c \in Contexts : total[c] =
        ObservationsOf({i \in Rows : findings[i].context = c}) + gone[c] + expected[c]

\* A finding that stays open while a batch is reported gets all the detections of its
\* context, an expectation that is in force notwithstanding.  (A malicious finding may
\* have one: it was expected before it was reopened.)
OpenFindingsCount ==
    \A i \in steady :
        hidden[findings[i].context] = 0 /\ \A n \in inserted : n[2] # findings[i].context

\* Only a decision closes an open finding: "Open findings are never auto-closed by
\* normality or age" (docs/design.md), nor deleted.
ClosedByAnalystOnly ==
    [][\A i \in OpenRows : i \in OpenRows' \/ decision = [what |-> findings'[i].state, on |-> i]]_vars
=============================================================================
