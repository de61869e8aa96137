-------------------------- MODULE ExecutionDetectors --------------------------
(***************************************************************************)
(* The two execution detectors of one endpoint (deepsnout/engine.py).      *)
(* DS-EXEC-001 looks at one process creation; DS-EXEC-002 joins a creation *)
(* that is new for the endpoint with an external connection of the same    *)
(* process.  The two arrive in any order, in different batches, days late, *)
(* while retention deletes the processes and the days of the reference,    *)
(* and a batch that is old altogether takes a path that keeps no process.  *)
(*                                                                         *)
(* An ingestion is one transaction of the only worker, which also runs     *)
(* retention; it takes its events one by one.  One that fails is rolled    *)
(* back whole and changes nothing.  An event is taken once (EventReceipts  *)
(* says when), and the contexts of a day are below their limit.  Time is   *)
(* counted in parts of a day.                                              *)
(***************************************************************************)
EXTENDS DetectorDays, FiniteSets

CONSTANTS
    Starts, Links,  \* process creations and connections
    Ts,             \* the time of each event
    Guid,           \* the process of each event, or NoGuid
    Context,        \* the execution context of each creation
    Remote,         \* the creations with a remote reference and an execution primitive
    Odd,            \* those DS-EXEC-002 is about that no peer group makes common
    External,       \* the connections to the outside that the process initiated
    NoGuid,
    None,
    ProcessDays,    \* process_days
    Tolerance,      \* the five minutes an event may be ahead
    MaxClock        \* bound: time

Events == Starts \cup Links
Guids == {Guid[e] : e \in Events} \ {NoGuid}

ASSUME DetectorAssumption ==
    /\ IsFiniteSet(Events) /\ Starts \cap Links = {} /\ None \notin Events
    /\ Ts \in [Events -> Nat] /\ DOMAIN Guid = Events /\ DOMAIN Context = Starts
    /\ Remote \subseteq Starts /\ Odd \subseteq Starts /\ External \subseteq Links
    /\ {Day, Baseline, Minimum, ProcessDays} \subseteq Nat \ {0}
    /\ {Tolerance, MaxClock} \subseteq Nat

\* Sysmon gives a process one creation, and no connection before it.
ASSUME ProcessAssumption ==
    /\ \A s, t \in Starts : Guid[s] = Guid[t] /\ Guid[s] # NoGuid => s = t
    /\ \A s \in Starts, l \in Links : Guid[s] = Guid[l] /\ Guid[s] # NoGuid => Ts[s] <= Ts[l]

VARIABLES
    batch,          \* the events the ingestion has yet to take
    fast,           \* historical: the batch takes the fast path
    processes,      \* per process [start, link, new, lastSeen]; lastSeen is Never without a row
    observed,       \* Coverage: the days with a creation
    rows,           \* BehaviorDay: the contexts of each day
    reports,        \* what make_finding was called for: <<detector, creation>>
    at,             \* history: when an event was taken
    judged,         \* history: the creations that were new when they were taken
    before          \* history: the creations that were taken before a creation

storedVars == <<processes, observed, rows, reports>>
historyVars == <<at, judged, before>>
vars == <<clock, batch, fast, storedVars, historyVars>>

Never == -1
Taken == {e \in Events : at[e] # Never}
NoProcess == [start |-> None, link |-> None, new |-> FALSE, lastSeen |-> Never]

-----------------------------------------------------------------------------
(* The detectors *)

\* The reference of a creation: the days before its own.  (Faulty: its own day as well.)
ReferenceAndToday(s) == DayOf(Ts[s]) - Baseline .. DayOf(Ts[s])
Reference(s) == DayOf(Ts[s]) - Baseline .. DayOf(Ts[s]) - 1

\* Enough days were observed, and on none of them the context.  (The code asks once per
\* batch, context and day.  It is the same: events come in the order of their times, and
\* only earlier days count.)
IsNew(s) ==
    /\ Cardinality(observed \cap Reference(s)) >= Minimum
    /\ ~ \E d \in Reference(s) : <<Context[s], d>> \in rows

\* What a process is reported for, as it stands.
Detected(p) ==
    LET recent == p.start # None /\ Ts[p.start] >= clock - Day IN
    {<<"DS-EXEC-001", s>> : s \in {x \in Remote : recent /\ x = p.start}}
        \cup {<<"DS-EXEC-002", s>> : s \in {x \in Odd : recent /\ x = p.start /\ p.new
                                              /\ p.link # None /\ Ts[p.link] >= Ts[x]}}

-----------------------------------------------------------------------------
(* Ingestion *)

Most(a, b) == IF a >= b THEN a ELSE b

\* The fast path is for a batch whose newest event is beyond the reach of the detectors.
Historical(S) == \A e \in S : Ts[e] < clock - Day

Begin ==
    /\ batch = {}
    /\ \E S \in SUBSET (Events \ Taken) \ {{}} : batch' = S /\ fast' = Historical(S)
    /\ UNCHANGED <<clock, storedVars, historyVars>>

\* Creations come first among the events of a time.
First(e) == \A f \in batch : Ts[e] < Ts[f] \/ (Ts[e] = Ts[f] /\ (e \in Starts \/ f \in Links))

TooOld(e) == Ts[e] < (DayOf(clock) - Baseline) * Day
Ahead(e) == Ts[e] > clock + Tolerance

Skip(e) ==
    /\ TooOld(e) \/ Ahead(e)
    /\ UNCHANGED <<storedVars, historyVars>>

\* A creation keeps the connection that came before it.
Started(p, s) == [start |-> s, link |-> p.link, new |-> IsNew(s), lastSeen |-> Most(p.lastSeen, Ts[s])]
Linked(p, l) ==
    [start |-> p.start, link |-> IF l \in External THEN l ELSE p.link, new |-> p.new,
     lastSeen |-> Most(p.lastSeen, Ts[l])]

TakeStart(s) ==
    /\ LET p == Started(IF Guid[s] = NoGuid THEN NoProcess ELSE processes[Guid[s]], s) IN
       IF fast THEN UNCHANGED <<processes, reports>>
       ELSE /\ processes' = [g \in Guids |-> IF g = Guid[s] THEN p ELSE processes[g]]
            /\ reports' = reports \cup Detected(p)
    /\ observed' = observed \cup {DayOf(Ts[s])}
    /\ rows' = rows \cup {<<Context[s], DayOf(Ts[s])>>}
    /\ judged' = IF IsNew(s) THEN judged \cup {s} ELSE judged
    /\ before' = [before EXCEPT ![s] = Taken \cap Starts]

\* Only a connection to the outside is looked at again.
TakeLink(l) ==
    /\ IF fast \/ Guid[l] = NoGuid THEN UNCHANGED <<processes, reports>>
       ELSE LET p == Linked(processes[Guid[l]], l) IN
            /\ processes' = [processes EXCEPT ![Guid[l]] = p]
            /\ reports' = IF l \in External THEN reports \cup Detected(p) ELSE reports
    /\ UNCHANGED <<observed, rows, judged, before>>

Take(e) ==
    /\ ~TooOld(e) /\ ~Ahead(e)
    /\ (e \in Starts /\ TakeStart(e)) \/ (e \in Links /\ TakeLink(e))
    /\ at' = [at EXCEPT ![e] = clock]

Step(e) ==
    /\ First(e)
    /\ batch' = batch \ {e}
    /\ Skip(e) \/ Take(e)
    /\ UNCHANGED <<clock, fast>>

-----------------------------------------------------------------------------
(* Retention, and the specification *)

\* A process goes some days after its last event.  (Faulty: as soon as it is not current.)
ForgottenAtOnce(p) == p.lastSeen < clock
Forgotten(p) == p.lastSeen < clock - ProcessDays * Day

FirstRetained == DayOf(clock) - Baseline

Maintenance ==
    /\ batch = {}
    /\ processes' = [g \in Guids |-> IF Forgotten(processes[g]) THEN NoProcess ELSE processes[g]]
    /\ observed' = {d \in observed : d >= FirstRetained}
    /\ rows' = {r \in rows : r[2] >= FirstRetained}
    /\ UNCHANGED <<clock, batch, fast, reports, historyVars>>

TimePasses ==
    /\ batch = {} /\ clock < MaxClock
    /\ clock' = clock + 1
    /\ UNCHANGED <<batch, fast, storedVars, historyVars>>

Init ==
    /\ clock = 0 /\ batch = {} /\ fast = FALSE
    /\ processes = [g \in Guids |-> NoProcess]
    /\ observed = {} /\ rows = {} /\ reports = {}
    /\ at = [e \in Events |-> Never]
    /\ judged = {}
    /\ before = [s \in Starts |-> {}]

Next == Begin \/ (\E e \in batch : Step(e)) \/ Maintenance \/ TimePasses

Spec == Init /\ [][Next]_vars

-----------------------------------------------------------------------------
(* Properties *)

\* The events of a process are its own, taken, and not after it was last seen.
ProcessRows ==
    \A g \in Guids : \A e \in {processes[g].start, processes[g].link} \ {None} :
        Guid[e] = g /\ e \in Taken /\ Ts[e] <= processes[g].lastSeen

\* The variables have their types, and a process was last seen at or after its events.
TypeOK ==
    /\ clock \in 0 .. MaxClock
    /\ batch \subseteq Events /\ fast \in BOOLEAN
    /\ processes \in [Guids -> [start : Starts \cup {None}, link : Links \cup {None}, new : BOOLEAN, lastSeen : Int]]
    /\ observed \subseteq Nat
    /\ rows \subseteq {Context[s] : s \in Starts} \X Nat
    /\ reports \subseteq {"DS-EXEC-001", "DS-EXEC-002"} \X Starts
    /\ at \in [Events -> (0 .. clock) \cup {Never}]
    /\ judged \subseteq Starts
    /\ before \in [Starts -> SUBSET Starts]
    /\ ProcessRows

\* A creation and an outward connection of its process were both taken, the later one
\* within a day of the creation.
Joined(s) ==
    /\ at[s] # Never /\ Ts[s] >= at[s] - Day
    /\ \E l \in External : Guid[l] = Guid[s] /\ Guid[s] # NoGuid /\ at[l] # Never /\ Ts[s] >= at[l] - Day

\* The join does not depend on the order or the batches the events came in, nor on what
\* the fast path left out and retention deleted meanwhile: a creation that was new when
\* it was taken is reported if it was joined in time, and no other is.
JoinedAreReported ==
    \A s \in Starts : <<"DS-EXEC-002", s>> \in reports <=> s \in Odd /\ s \in judged /\ Joined(s)

\* What is reported as new was not known: no creation that was taken before had the
\* context on an earlier day of the reference that retention keeps, and the endpoint had
\* been observed on enough of those days.
ReportedWasUnknown ==
    \A s \in Starts : <<"DS-EXEC-002", s>> \in reports =>
        LET known == {t \in before[s] : /\ DayOf(Ts[t]) >= DayOf(Ts[s]) - Baseline
                                        /\ DayOf(Ts[t]) < DayOf(Ts[s])} IN
        /\ \A t \in known : Context[t] = Context[s] => DayOf(Ts[t]) < DayOf(at[s]) - Baseline
        /\ Cardinality({DayOf(Ts[t]) : t \in known}) >= Minimum

\* A creation with remote execution characteristics is reported unless it comes a day late.
RemoteAreReported ==
    \A s \in Starts :
        <<"DS-EXEC-001", s>> \in reports <=> s \in Remote /\ at[s] # Never /\ Ts[s] >= at[s] - Day
=============================================================================
