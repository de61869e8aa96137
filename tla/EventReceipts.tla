---------------------------- MODULE EventReceipts ----------------------------
(***************************************************************************)
(* What keeps the history of an endpoint from counting an event twice      *)
(* (deepsnout/engine.py): the receipts of batches, the receipts of single  *)
(* events, the retention of both, the bounds on what is stored, and the    *)
(* daily summaries the events are counted in.                              *)
(*                                                                         *)
(* An ingestion is one transaction of the only worker.  It counts the      *)
(* events of a batch or, when the receipts are at their limit, is rolled   *)
(* back whole and changes nothing.  The events are process creations of    *)
(* one endpoint; they are numbered in the order ingest sorts them, by      *)
(* time.  Time is counted in parts of a day.                               *)
(***************************************************************************)
EXTENDS Integers, FiniteSets

CONSTANTS
    Events,         \* numbers
    Contexts,       \* the execution contexts
    Batches,        \* the identifiers of batches
    Ts, Context,    \* the time and the context of each event
    Content,        \* the events of each batch
    Day,            \* the length of a day
    Baseline,       \* baseline_days
    Dedup,          \* dedup_hours
    Tolerance,      \* the five minutes an event may be ahead
    MaxReceipts,    \* maximum_receipts
    MaxContexts,    \* maximum_contexts_per_host_day
    MaxClock        \* bound: time

ASSUME ReceiptAssumption ==
    /\ Events \subseteq Nat /\ IsFiniteSet(Events)
    /\ Ts \in [Events -> Nat] /\ Context \in [Events -> Contexts]
    /\ \A e, f \in Events : e < f => Ts[e] <= Ts[f]
    /\ Content \in [Batches -> SUBSET Events]
    /\ Day \in Nat \ {0} /\ Baseline \in Nat \ {0}
    /\ {Dedup, Tolerance, MaxReceipts, MaxContexts, MaxClock} \subseteq Nat

VARIABLES
    clock,
    seen,           \* when the receipt of an event was written
    receipt,        \* when the receipt of a batch was written
    coverage,       \* events of each day
    summaries,      \* per day and context, the count of its row, 0 where there is none
    counted,        \* history: how often a batch has counted an event
    last,           \* history: when an event was counted last
    ahead           \* history: the events that were counted before their day began

storedVars == <<seen, receipt, coverage, summaries>>
historyVars == <<counted, last, ahead>>
vars == <<clock, storedVars, historyVars>>

Times == 0 .. MaxClock
Never == -1
DayOf(t) == t \div Day
Days == {DayOf(Ts[e]) : e \in Events}

-----------------------------------------------------------------------------
(* Retention *)

\* The first day whose events are taken and whose summaries are kept.  (Faulty: a day more
\* is deleted than is refused.)
FirstDay == DayOf(clock) - Baseline
FirstRetainedLater == FirstDay + 1
FirstRetained == FirstDay

\* (Faulty: any receipt may go; batch receipts go a day early.)
AnyExpired(time) == time # Never
Expired(time) == time # Never /\ time < clock - Dedup
BatchExpiredEarly(time) == time # Never /\ time < clock - Baseline * Day
BatchExpired(time) == time # Never /\ time < clock - (Baseline + 1) * Day

-----------------------------------------------------------------------------
(* Ingestion *)

Received == {e \in Events : seen[e] # Never}

\* The receipts an ingestion finds: at the limit those that have expired go first.
Remaining == IF Cardinality(Received) < MaxReceipts THEN Received
             ELSE {e \in Received : ~Expired(seen[e])}

\* Room for every event of the batch, known or not.
Room(b) == Cardinality(Remaining) + Cardinality(Content[b]) <= MaxReceipts

Accepted(b) == {e \in Content[b] \ Remaining : FirstDay * Day <= Ts[e] /\ Ts[e] <= clock + Tolerance}

OnDay(S, d) == {e \in S : DayOf(Ts[e]) = d}
InContext(S, d, c) == {e \in OnDay(S, d) : Context[e] = c}
RowsOf(d) == {c \in Contexts : summaries[d][c] > 0}

\* A context of the day that has no row gets one while there are fewer than the limit, in
\* the order of the first event of each.  (Faulty: the rows there are already do not count.)
Fresh(S, d) == {c \in Contexts \ RowsOf(d) : InContext(S, d, c) # {}}
Earlier(S, d, c) == {x \in Fresh(S, d) : \E e \in InContext(S, d, x) : \A f \in InContext(S, d, c) : e < f}
AdmittedPerBatch(S, d) == {c \in Fresh(S, d) : Cardinality(Earlier(S, d, c)) < MaxContexts}
Admitted(S, d) == {c \in Fresh(S, d) : Cardinality(RowsOf(d)) + Cardinality(Earlier(S, d, c)) < MaxContexts}

\* The time of a receipt, whatever that of its event.
ReceivedAt(e) == clock

\* A batch whose receipt is kept counts nothing.  (Faulty: every batch counts.)
NotReplayed(b) == FALSE
Replayed(b) == receipt[b] # Never

Ingest(b) ==
    /\ ~Replayed(b)
    /\ Room(b)
    /\ LET new == Accepted(b) IN
       /\ seen' = [e \in Events |-> IF e \in new THEN ReceivedAt(e) ELSE IF e \in Remaining THEN seen[e] ELSE Never]
       /\ coverage' = [d \in Days |-> coverage[d] + Cardinality(OnDay(new, d))]
       /\ summaries' = [d \in Days |-> [c \in Contexts |->
                            IF c \in RowsOf(d) \cup Admitted(new, d)
                            THEN summaries[d][c] + Cardinality(InContext(new, d, c))
                            ELSE 0]]
       /\ counted' = [counted EXCEPT ![b] = [e \in Events |-> IF e \in new THEN @[e] + 1 ELSE @[e]]]
       /\ last' = [e \in Events |-> IF e \in new THEN clock ELSE last[e]]
       /\ ahead' = ahead \cup {e \in new : DayOf(clock) < DayOf(Ts[e])}
    /\ receipt' = [receipt EXCEPT ![b] = clock]
    /\ UNCHANGED clock

Maintenance ==
    /\ seen' = [e \in Events |-> IF Expired(seen[e]) THEN Never ELSE seen[e]]
    /\ receipt' = [b \in Batches |-> IF BatchExpired(receipt[b]) THEN Never ELSE receipt[b]]
    /\ coverage' = [d \in Days |-> IF d < FirstRetained THEN 0 ELSE coverage[d]]
    /\ summaries' = [d \in Days |-> IF d < FirstRetained THEN [c \in Contexts |-> 0] ELSE summaries[d]]
    /\ UNCHANGED <<clock, historyVars>>

TimePasses ==
    /\ clock < MaxClock
    /\ clock' = clock + 1
    /\ UNCHANGED <<storedVars, historyVars>>

-----------------------------------------------------------------------------
(* The specification *)

Init ==
    /\ clock = 0
    /\ seen = [e \in Events |-> Never]
    /\ receipt = [b \in Batches |-> Never]
    /\ coverage = [d \in Days |-> 0]
    /\ summaries = [d \in Days |-> [c \in Contexts |-> 0]]
    /\ counted = [b \in Batches |-> [e \in Events |-> 0]]
    /\ last = [e \in Events |-> Never]
    /\ ahead = {}

Next == (\E b \in Batches : Ingest(b)) \/ Maintenance \/ TimePasses

Spec == Init /\ [][Next]_vars

-----------------------------------------------------------------------------
(* Properties *)

TypeOK ==
    /\ clock \in Times
    /\ seen \in [Events -> (0 .. clock) \cup {Never}]
    /\ receipt \in [Batches -> (0 .. clock) \cup {Never}]
    /\ coverage \in [Days -> Nat]
    /\ summaries \in [Days -> [Contexts -> Nat]]
    /\ counted \in [Batches -> [Events -> Nat]]
    /\ last \in [Events -> (0 .. clock) \cup {Never}]
    /\ ahead \subseteq Events

\* However often a batch is ingested again, the retention of its receipt included, it
\* counts no event a second time: the receipt goes only when the events are too old
\* themselves.  An event that was counted up to five minutes before its day began is
\* the exception: it is still taken on the day the receipt goes.
BatchCountsOnce == \A b \in Batches, e \in Events : counted[b][e] <= 1 \/ e \in ahead

\* In whatever batches an event comes, and although receipts are given up at the limit,
\* it is not counted again within the time its receipt is promised for.
CountedApart ==
    [][\A e \in Events : (\E b \in Batches : counted'[b][e] > counted[b][e])
         => last[e] = Never \/ last[e] < clock - Dedup]_vars

\* The receipts never exceed their limit.
ReceiptsBounded == Cardinality(Received) <= MaxReceipts

\* Nor do the rows of an endpoint's day.
ContextsBounded == \A d \in Days : Cardinality(RowsOf(d)) <= MaxContexts

\* For the days of the reference, the coverage of a day is the number of times its events
\* were counted, and as long as the rows of the day are below their limit every one of
\* them is in a row: retention takes nothing an ingestion may still add to.  (Countings
\* has an element for every time one of the events S was counted, InRows one for every
\* event the rows of a day count.)
Countings(S) == UNION {{<<b, e, n>> : n \in 1 .. counted[b][e]} : b \in Batches, e \in S}
InRows(d) == UNION {{<<c, n>> : n \in 1 .. summaries[d][c]} : c \in Contexts}
SummariesAgree ==
    \A d \in Days : d >= FirstDay =>
        /\ coverage[d] = Cardinality(Countings(OnDay(Events, d)))
        /\ Cardinality(RowsOf(d)) < MaxContexts => Cardinality(InRows(d)) = coverage[d]
=============================================================================
