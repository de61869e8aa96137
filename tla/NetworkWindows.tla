--------------------------- MODULE NetworkWindows ---------------------------
(***************************************************************************)
(* DS-NET-001 (deepsnout/engine.py): the destination counts that one       *)
(* application of an endpoint has per window of 30 minutes, and the        *)
(* evaluation that reports two adjacent windows above the range of the     *)
(* previous days.  The events of a window come in any number of batches    *)
(* and in any order; a window that gets more events is evaluated again.    *)
(* What is reported leaves the reference of the later days.                *)
(*                                                                         *)
(* Time is counted in windows, a day is Day of them.  At clock c the       *)
(* windows before c have been closed for the five minutes evaluate_windows *)
(* waits.  The worker ingests and evaluates in one transaction; a handler  *)
(* of the web process that commits meanwhile sees none of it and acts as   *)
(* one that came before.                                                   *)
(***************************************************************************)
EXTENDS DetectorDays, FiniteSets, FiniteSetsExt

CONSTANTS
    MinWindows,     \* the least number of reference windows
    Floor, Factor,  \* network_floor, network_factor
    IdleLimit,      \* windows an idle tick evaluates, of 200
    BatchLimit,     \* windows evaluated after a batch, of 2000
    MaxWindow,      \* bound: windows
    Amounts,        \* bound: new destinations an event set adds to a window
    MaxBatches,     \* bound: batches
    MaxDecisions    \* bound: decisions of analysts and administrators

ASSUME WindowAssumption ==
    /\ {Day, Baseline, Minimum, MinWindows, Floor, Factor, IdleLimit, BatchLimit} \subseteq Nat \ {0}
    /\ Minimum <= Baseline
    /\ MaxWindow \in Nat /\ Amounts \subseteq Nat \ {0}
    /\ MaxBatches \in Nat /\ MaxDecisions \in Nat

VARIABLES
    distinct,       \* distinct_count of each window, 0 where there is no row
    ok, evaluated,  \* the columns reference_ok and evaluated
    pass,           \* the evaluation: what is left of it, and the references it has read
    finding,        \* the last finding: open, marked malicious, its first and last window
    expected,       \* whether an expectation is active
    enabled,        \* network_enabled
    batches, decisions,    \* counters of the bounds
    excluded,       \* history: the windows that were reported, or marked by an analyst
    judgedAt,         \* history: the threshold each window was compared with last
    reported,       \* history: the windows that were above it, as was the one before
    late            \* history: the windows compared before the one before them was
                    \* complete, or too old to be compared again

rowVars == <<distinct, ok, evaluated>>
analystVars == <<expected, enabled, decisions>>
windowHistory == <<excluded, judgedAt, reported, late>>
windowVars == <<clock, rowVars, pass, finding, batches, analystVars, windowHistory>>

Windows == 0 .. MaxWindow
Days == 0 .. (MaxWindow \div Day)
Rows == {t \in Windows : distinct[t] > 0}

-----------------------------------------------------------------------------
(* The reference *)

\* The windows of the previous days that count.
WindowReference(d) == {t \in Rows : (d - Baseline) * Day <= t /\ t < d * Day /\ ok[t]}

\* The smallest value that at least 95 in 100 of the windows do not exceed.
Percentile95(S) ==
    CHOOSE v \in {distinct[t] : t \in S} :
        /\ 100 * Cardinality({t \in S : distinct[t] <= v}) >= 95 * Cardinality(S)
        /\ 100 * Cardinality({t \in S : distinct[t] < v}) < 95 * Cardinality(S)

\* Twice the threshold of a day, or 0 while its reference is too small.
Insufficient == 0
Threshold(d) ==
    LET S == WindowReference(d) IN
    IF Cardinality({DayOf(t) : t \in S}) < Minimum \/ Cardinality(S) < MinWindows
    THEN Insufficient
    ELSE Max({2 * Floor, 2 * Percentile95(S) * Factor, 2 * Percentile95(S) + Floor})

Above(t, threshold) == t \in Windows /\ 2 * distinct[t] > threshold

-----------------------------------------------------------------------------
(* The evaluation: the last part of the transaction *)

NotRead == -1
NoPass == [rows |-> {}, references |-> [d \in Days |-> NotRead]]
Idle == pass.rows = {}

\* Windows of more than a day ago are not evaluated any more.
Stale(t) == t <= clock - Day

\* The first rows, by start, of those that are closed and not evaluated.
Pending(evaluatedNow, rows) == {t \in rows : ~evaluatedNow[t] /\ ~Stale(t) /\ t < clock}
FirstOf(S, limit) == {t \in S : Cardinality({u \in S : u < t}) < limit}
Swept(evaluatedNow, rows) == {t \in rows : ~evaluatedNow[t] /\ Stale(t)}

\* make_finding: an open finding is extended; otherwise one is created, unless an
\* expectation is active.  (Faulty: the last report counts, not the latest window.)
NewFinding(t) == [open |-> TRUE, malicious |-> FALSE, first |-> t, last |-> t]
ReportLast(t) ==
    finding' = CASE finding.open -> [finding EXCEPT !.last = t]
                 [] ~finding.open /\ expected -> finding
                 [] ~finding.open /\ ~expected -> NewFinding(t)
Report(t) ==
    finding' = CASE finding.open -> [finding EXCEPT !.last = Max({@, t})]
                 [] ~finding.open /\ expected -> finding
                 [] ~finding.open /\ ~expected -> NewFinding(t)

\* Both windows of a shift that is reported leave the reference.  (Faulty: the later one.)
ExcludeLater(t) == {t}
Exclude(t) == {t - 1, t}

\* The first of the rows of the pass.  It is compared with the reference of its day, which
\* is read once in a pass.
EvaluateNext ==
    /\ ~Idle
    /\ LET t == Min(pass.rows)
           d == DayOf(t)
           cached == pass.references[d]
           threshold == IF ~enabled THEN Insufficient
                        ELSE IF cached # NotRead THEN cached ELSE Threshold(d)
           shift == threshold # Insufficient /\ Above(t, threshold) /\ Above(t - 1, threshold)
           excluding == shift /\ (finding.open \/ ~expected)
       IN  /\ pass' = [rows |-> pass.rows \ {t},
                       references |-> [pass.references EXCEPT ![d] = IF enabled THEN threshold ELSE @]]
           /\ evaluated' = [evaluated EXCEPT ![t] = TRUE]
           /\ IF shift THEN Report(t) ELSE UNCHANGED finding
           /\ ok' = IF excluding THEN [u \in Windows |-> ok[u] /\ u \notin Exclude(t)] ELSE ok
           /\ excluded' = IF excluding THEN excluded \cup {t - 1, t} ELSE excluded
           /\ judgedAt' = [judgedAt EXCEPT ![t] = threshold]
           /\ reported' = IF shift THEN reported \cup {t} ELSE reported
           /\ late' = late \ {t}
    /\ UNCHANGED <<clock, distinct, batches, analystVars>>

-----------------------------------------------------------------------------
(* The transactions of the worker that touch windows *)

\* Events before the first day of the reference are refused, and those of more than five
\* minutes ahead.
FirstKept == (DayOf(clock) - Baseline) * Day

\* What a window that gets live events becomes.  (Faulty: one that was evaluated stays so.)
KeepEvaluated(t) == evaluated[t] /\ distinct[t] > 0
Reopened(t) == FALSE

\* A batch adds to the windows in the domain of add.  It is historical when its newest
\* event, of whatever endpoint, is more than a day old: it makes rows that are evaluated
\* already, leaves the flag of the others, and no evaluation follows.
Ingest(add, historical) ==
    /\ Idle /\ batches < MaxBatches
    /\ LET touched == DOMAIN add IN
       /\ \A t \in touched : FirstKept <= t /\ t <= clock + 1
       /\ historical => \A t \in touched : Stale(t)
       /\ distinct' = [t \in Windows |-> IF t \in touched THEN distinct[t] + add[t] ELSE distinct[t]]
       /\ LET flags == [t \in Windows |-> IF t \in touched /\ ~historical THEN Reopened(t) ELSE evaluated[t]]
              rows == Rows \cup touched
              swept == IF historical THEN {} ELSE Swept(flags, rows)
          IN  /\ evaluated' = [t \in Windows |-> flags[t] \/ t \in swept]
              /\ pass' = IF historical THEN pass
                         ELSE [NoPass EXCEPT !.rows = FirstOf(Pending(flags, rows), BatchLimit)]
              /\ LET following == {t \in Windows : t - 1 \in touched} IN
                 late' = late \cup swept
                              \cup (IF historical THEN touched \cup following ELSE following \ touched)
    /\ batches' = batches + 1
    /\ UNCHANGED <<clock, ok, finding, analystVars, excluded, judgedAt, reported>>

\* The evaluation of a tick that finds no job.
IdleEvaluation ==
    /\ Idle
    /\ evaluated' = [t \in Windows |-> evaluated[t] \/ t \in Swept(evaluated, Rows)]
    /\ pass' = [NoPass EXCEPT !.rows = FirstOf(Pending(evaluated, Rows), IdleLimit)]
    /\ late' = late \cup Swept(evaluated, Rows)
    /\ UNCHANGED <<clock, distinct, ok, finding, batches, analystVars, excluded, judgedAt, reported>>

\* Retention: the windows before the first day of the reference are deleted.
FirstWindow == (DayOf(clock) - Baseline) * Day
WindowMaintenance ==
    /\ Idle
    /\ LET gone == {t \in Rows : t < FirstWindow} IN
       /\ gone # {}
       /\ distinct' = [t \in Windows |-> IF t \in gone THEN 0 ELSE distinct[t]]
       /\ ok' = [t \in Windows |-> ok[t] \/ t \in gone]
       /\ evaluated' = [t \in Windows |-> evaluated[t] \/ t \in gone]
       /\ judgedAt' = [t \in Windows |-> IF t \in gone THEN Insufficient ELSE judgedAt[t]]
    /\ UNCHANGED <<clock, pass, finding, batches, analystVars, excluded, reported, late>>

-----------------------------------------------------------------------------
(* Decisions *)

MayDecide == Idle /\ decisions < MaxDecisions
Decided == decisions' = decisions + 1

\* update_finding "malicious": the windows from an hour before the end of the first
\* window to the end of the last one leave the reference.
MarkMalicious ==
    /\ MayDecide /\ finding.last >= 0
    /\ LET bad == {t \in Rows : finding.first - 1 <= t /\ t <= finding.last + 1} IN
       /\ ok' = [t \in Windows |-> ok[t] /\ t \notin bad]
       /\ excluded' = excluded \cup bad
    /\ finding' = [finding EXCEPT !.open = TRUE, !.malicious = TRUE]
    /\ Decided
    /\ UNCHANGED <<clock, distinct, evaluated, pass, batches, expected, enabled, judgedAt, reported, late>>

\* "resolved", and opening it again as "new" or "investigating".
Resolve ==
    /\ MayDecide /\ finding.last >= 0
    /\ finding' = [finding EXCEPT !.open = ~@, !.malicious = FALSE]
    /\ Decided
    /\ UNCHANGED <<clock, rowVars, pass, batches, expected, enabled, windowHistory>>

\* add_expectation closes the finding; an expectation is revoked or expires.
Expect ==
    /\ MayDecide /\ finding.last >= 0 /\ ~finding.malicious
    /\ finding' = [finding EXCEPT !.open = FALSE]
    /\ expected' = TRUE
    /\ Decided
    /\ UNCHANGED <<clock, rowVars, pass, batches, enabled, windowHistory>>

ExpectationEnds ==
    /\ Idle /\ expected
    /\ expected' = FALSE
    /\ UNCHANGED <<clock, rowVars, pass, finding, batches, enabled, decisions, windowHistory>>

\* settings_update.
ToggleDetector ==
    /\ MayDecide
    /\ enabled' = ~enabled
    /\ Decided
    /\ UNCHANGED <<clock, rowVars, pass, finding, batches, expected, windowHistory>>

WindowPasses ==
    /\ Idle /\ clock < MaxWindow
    /\ clock' = clock + 1
    /\ UNCHANGED <<rowVars, pass, finding, batches, analystVars, windowHistory>>

-----------------------------------------------------------------------------
(* The specification *)

WindowInit ==
    /\ clock = 0
    /\ distinct = [t \in Windows |-> 0]
    /\ ok = [t \in Windows |-> TRUE]
    /\ evaluated = [t \in Windows |-> TRUE]
    /\ pass = NoPass
    /\ finding = [NewFinding(-1) EXCEPT !.open = FALSE]
    /\ expected = FALSE /\ enabled = TRUE
    /\ batches = 0 /\ decisions = 0
    /\ excluded = {} /\ reported = {} /\ late = {}
    /\ judgedAt = [t \in Windows |-> Insufficient]

\* Bound: a batch adds as much to one window, or to two in a row.
Batch ==
    \E t \in Windows, historical \in BOOLEAN, a \in Amounts :
        \/ Ingest([u \in {t} |-> a], historical)
        \/ t < MaxWindow /\ Ingest([u \in {t, t + 1} |-> a], historical)

WindowNext ==
    \/ Batch
    \/ EvaluateNext \/ IdleEvaluation \/ WindowMaintenance
    \/ MarkMalicious \/ Resolve \/ Expect \/ ExpectationEnds \/ ToggleDetector
    \/ WindowPasses

WindowSpec == WindowInit /\ [][WindowNext]_windowVars

-----------------------------------------------------------------------------
(* Properties *)

WindowTypeOK ==
    /\ clock \in Windows
    /\ distinct \in [Windows -> Nat]
    /\ ok \in [Windows -> BOOLEAN] /\ evaluated \in [Windows -> BOOLEAN]
    /\ pass \in [rows : SUBSET Rows, references : [Days -> Nat \cup {NotRead}]]
    /\ finding \in [open : BOOLEAN, malicious : BOOLEAN, first : Windows \cup {-1}, last : Windows \cup {-1}]
    /\ finding.first <= finding.last
    /\ expected \in BOOLEAN /\ enabled \in BOOLEAN
    /\ batches \in 0 .. MaxBatches /\ decisions \in 0 .. MaxDecisions
    /\ excluded \subseteq Windows /\ reported \subseteq Windows /\ late \subseteq Windows
    /\ judgedAt \in [Windows -> Nat]

\* What was reported as a shift, or marked by an analyst, is in no later reference,
\* however late its other events arrive and whatever retention removes meanwhile.
ReferenceIsClean == \A d \in Days : WindowReference(d) \cap excluded = {}

\* Two adjacent windows above the threshold are reported, however their events were cut
\* into batches, unless events arrived for the earlier one after the later one was
\* compared, or for either after it was too old to be compared again.
ShiftsAreReported ==
    \A t \in Windows :
        judgedAt[t] # Insufficient /\ evaluated[t] /\ Above(t, judgedAt[t]) /\ Above(t - 1, judgedAt[t])
            => t \in reported \cup late
=============================================================================
