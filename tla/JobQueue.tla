------------------------------ MODULE JobQueue ------------------------------
(***************************************************************************)
(* The durable work queue of DeepSnout: the web process enqueues, cancels  *)
(* and retries jobs and edits sources (deepsnout/web.py), the analysis     *)
(* worker schedules polls, runs one job at a time and recovers after a     *)
(* restart (deepsnout/worker.py).  The two share nothing but the database, *)
(* whose transactions are READ COMMITTED and take no row lock: what a      *)
(* handler read may be stale when it commits.  Every transaction that      *)
(* decides on what it read is therefore a read step and a commit step.     *)
(* The web process runs its handlers one at a time: they are "async def"   *)
(* with no await inside the transaction.                                   *)
(*                                                                         *)
(* Index time is counted in seconds 0 .. MaxClock; "clock" is what the     *)
(* code calls latest, now minus the configured lag.                        *)
(***************************************************************************)
EXTENDS Integers, FiniteSets

CONSTANTS
    Sources,        \* the configured Splunk sources
    NoSource,       \* the source_id of a job that has no source
    WebKinds,       \* the kinds without a source an operator queues
    Operations,     \* bound: what the operator does in a behaviour
    Backends,       \* the databases a behaviour may be deployed on
    MaxJobs,        \* bound: jobs ever created
    Cap,            \* the 20 of enqueue
    MaxClock,       \* bound: index seconds
    Window,         \* the backlog beyond which a source is catching up
    Lookback,       \* the range of a first poll
    Configs,        \* the configurations of a source that can be told apart
    HasHosts,       \* whether any endpoint has been observed
    DbFaults,       \* whether a worker transaction may fail by itself
    MaxCrashes,     \* bound: worker process crashes
    MaxRetries      \* bound: operator retries, but for those of "keep retrying"

ASSUME QueueAssumption ==
    /\ NoSource \notin Sources
    /\ WebKinds \subseteq {"import", "peer_groups", "demo", "remove_demo", "maintenance"}
    /\ Operations \subseteq {"toggle", "save", "retry", "keep retrying", "cancel"}
    /\ Backends \subseteq {"postgresql", "sqlite"}
    /\ {MaxJobs, Cap, MaxClock, Window, Lookback, MaxCrashes, MaxRetries} \subseteq Nat
    /\ Lookback <= MaxClock
    /\ {HasHosts, DbFaults} \subseteq BOOLEAN
    /\ Configs # {}

VARIABLES
    backend,        \* the SQL dialect, fixed by the deployment
    n,              \* jobs 1 .. n exist, in the order of their "created"
    job,            \* [kind, source] of each job, never changed
    status,         \* the status column
    payload,        \* what matters of the payload column: [origin, events]
    enabled, cfg, checkpoint, failing,    \* the row of each source
    clock,          \* the newest index second a poll may ask for
    peerDue,        \* an hour has passed since the last peer-group attempt
    web,            \* the handler the web process has read for and not committed
    pc, cur, ctx, plan,    \* the worker: where it is, its job, what it has read
    crashes, retries,      \* counters of the bounds
    base, count,    \* history: per source since its last reset, the first
                    \* second collected and how often each one was ingested
    delivered       \* history: how often the events of an import were ingested

queueVars == <<n, job, status, payload>>
sourceVars == <<enabled, cfg, checkpoint, failing>>
workerVars == <<pc, cur, ctx, plan>>
historyVars == <<base, count, delivered>>
envVars == <<backend, clock, peerDue, crashes, retries>>
vars == <<queueVars, sourceVars, workerVars, historyVars, envVars, web>>

-----------------------------------------------------------------------------
(* Values *)

Jobs == 1 .. MaxJobs
Seconds == 0 .. MaxClock
NoCursor == -1
Kinds == {"poll", "test"} \cup WebKinds \cup {"peer_groups"}
Statuses == {"queued", "running", "cancel_requested", "done", "failed", "cancelled"}
Active == {"queued", "running", "cancel_requested"}
Absent == "absent"

\* A job row that enqueue is about to insert.
Specs == [kind : Kinds, source : Sources \cup {NoSource},
          origin : {"operator", "scheduler", "none"}, events : BOOLEAN]
NoSpec == [kind |-> "test", source |-> NoSource, origin |-> "none", events |-> FALSE]

Handler == [op : {"idle", "enqueue", "save", "retry", "cancel"}, spec : Specs,
            job : Jobs \cup {0}, seen : Statuses \cup {Absent},
            source : Sources \cup {NoSource}, cfg : Configs, reset : BOOLEAN]
Idle == [op |-> "idle", spec |-> NoSpec, job |-> 0, seen |-> Absent,
         source |-> NoSource, cfg |-> CHOOSE c \in Configs : TRUE, reset |-> FALSE]

Context == [seen : Statuses \cup {Absent}, cfg : Configs, cursor : Seconds \cup {NoCursor},
            events : BOOLEAN, from : Seconds, to : Seconds,
            loaded : Seconds \cup {NoCursor}]
NoContext == [seen |-> Absent, cfg |-> CHOOSE c \in Configs : TRUE, cursor |-> NoCursor,
              events |-> FALSE, from |-> 0, to |-> 0, loaded |-> NoCursor]

Plan == [new : SUBSET Specs, catching : SUBSET Sources]
NoPlan == [new |-> {}, catching |-> {}]

\* Where the worker process is: down; between ticks; inside the scheduling
\* transaction; about to mark its job running, having chosen it or read it;
\* about to write its first heartbeat; working; having collected a poll; having
\* read the job for the last time; failing, before and after reading the job.
Places == {"down", "idle", "tick", "chosen", "starting", "heartbeat", "work",
           "collected", "commit", "except", "failing"}

-----------------------------------------------------------------------------
(* Queries *)

ActiveJobs == {j \in Jobs : status[j] \in Active}
ActiveOf(s) == {j \in ActiveJobs : job[j].source = s}
ActivePeerGroups == {j \in ActiveJobs : job[j].kind = "peer_groups"}

\* ORDER BY created, the first one.
Oldest(S) == {j \in S : \A i \in S : j <= i}

\* Rows the model may still create, those already promised set aside.
Room == MaxJobs - n - Cardinality(plan.new) - (IF web.op = "enqueue" THEN 1 ELSE 0)

CatchingUp(s) == /\ enabled[s]
                 /\ checkpoint[s] # NoCursor
                 /\ checkpoint[s] < clock - Window

\* The status column is VARCHAR(12): PostgreSQL refuses a longer value, SQLite
\* does not look at the length.
Fits(st) == backend = "postgresql" => st # "cancel_requested"

\* What is left of a payload when a job is closed: never the events of an import.
\* The web process and a finished run keep the origin, the worker's cancellations
\* do not.  (Faulty: the events stay.)
KeptWithEvents(p, keepOrigin) ==
    [origin |-> IF keepOrigin THEN p.origin ELSE "none", events |-> p.events]
Kept(p, keepOrigin) ==
    [origin |-> IF keepOrigin THEN p.origin ELSE "none", events |-> FALSE]

\* SQLite has one writer: the transactions of the worker that write before they
\* read for the last time shut the commits of the web process out.
WebMayCommit == \/ backend = "postgresql"
                \/ pc \notin {"tick", "commit"}
                \/ pc = "commit" /\ job[cur].kind = "test"

-----------------------------------------------------------------------------
(* The web process *)

\* What enqueue has let through: below the cap, and not coalesced with an
\* active job of the source or an active refresh.
MayEnqueue(kind, s) ==
    /\ Cardinality(ActiveJobs) < Cap
    /\ s # NoSource => ActiveOf(s) = {}
    /\ kind = "peer_groups" => ActivePeerGroups = {}

\* source_action "poll" and "test".
SourceJobRequest(kind, s) ==
    /\ web = Idle /\ Room > 0
    /\ MayEnqueue(kind, s)
    /\ web' = [Idle EXCEPT !.op = "enqueue",
                  !.spec = [kind |-> kind, source |-> s, origin |-> "operator", events |-> FALSE]]
    /\ UNCHANGED <<queueVars, sourceVars, workerVars, historyVars, envVars>>

\* Uploads, the demo, maintenance and the refresh of the peer groups.  An upload
\* carries its events in the payload, and no origin.
WebJobRequest(kind) ==
    /\ web = Idle /\ Room > 0
    /\ MayEnqueue(kind, NoSource)
    /\ web' = [Idle EXCEPT !.op = "enqueue",
                  !.spec = [kind |-> kind, source |-> NoSource,
                            origin |-> IF kind = "import" THEN "none" ELSE "operator",
                            events |-> kind = "import"]]
    /\ UNCHANGED <<queueVars, sourceVars, workerVars, historyVars, envVars>>

\* The rows new, inserted as jobs n + 1 .. m; spec[j] is the row of job j.
Insert(m, spec) ==
    /\ n' = m
    /\ job' = [j \in Jobs |-> IF j \in n + 1 .. m
                              THEN [kind |-> spec[j].kind, source |-> spec[j].source]
                              ELSE job[j]]
    /\ status' = [j \in Jobs |-> IF j \in n + 1 .. m THEN "queued" ELSE status[j]]
    /\ payload' = [j \in Jobs |-> IF j \in n + 1 .. m
                                  THEN [origin |-> spec[j].origin, events |-> spec[j].events]
                                  ELSE payload[j]]

EnqueueCommit ==
    /\ web.op = "enqueue" /\ WebMayCommit
    /\ n < MaxJobs
    /\ Insert(n + 1, [j \in {n + 1} |-> web.spec])
    /\ peerDue' = (peerDue /\ web.spec.kind # "peer_groups")
    /\ web' = Idle
    /\ UNCHANGED <<sourceVars, workerVars, historyVars, backend, clock, crashes, retries>>

ToggleSource(s) ==
    /\ "toggle" \in Operations
    /\ web = Idle /\ WebMayCommit
    /\ enabled' = [enabled EXCEPT ![s] = ~@]
    /\ UNCHANGED <<queueVars, cfg, checkpoint, failing, workerVars, historyVars, envVars, web>>

\* save_source on an existing source: refused unless it is paused and idle.  The
\* row is written column by column: a reset of a cursor that was read as NULL
\* writes nothing.
SaveRequest(s, c, reset) ==
    /\ "save" \in Operations
    /\ web = Idle
    /\ ~enabled[s] /\ ActiveOf(s) = {}
    /\ web' = [Idle EXCEPT !.op = "save", !.source = s, !.cfg = c,
                           !.reset = (reset /\ checkpoint[s] # NoCursor)]
    /\ UNCHANGED <<queueVars, sourceVars, workerVars, historyVars, envVars>>

SaveCommit ==
    /\ web.op = "save" /\ WebMayCommit
    /\ cfg' = [cfg EXCEPT ![web.source] = web.cfg]
    /\ IF web.reset
       THEN /\ checkpoint' = [checkpoint EXCEPT ![web.source] = NoCursor]
            /\ base' = [base EXCEPT ![web.source] = 0]
            /\ count' = [count EXCEPT ![web.source] = [t \in Seconds |-> 0]]
       ELSE UNCHANGED <<checkpoint, base, count>>
    /\ web' = Idle
    /\ UNCHANGED <<queueVars, enabled, failing, workerVars, envVars, delivered>>

\* retry looks for another queued or running job of the source, not for one whose
\* cancellation is pending, and not at the number of active jobs.  (Two bounds on what
\* the operator does: so many retries, or any number, of failed jobs only.)
RetryRequest(j) ==
    /\ web = Idle
    /\ \/ /\ "retry" \in Operations /\ retries < MaxRetries /\ retries' = retries + 1
          /\ status[j] \in {"failed", "cancelled"}
       \/ "keep retrying" \in Operations /\ status[j] = "failed" /\ UNCHANGED retries
    /\ job[j].source # NoSource =>
         \A i \in ActiveOf(job[j].source) \ {j} : status[i] = "cancel_requested"
    /\ web' = [Idle EXCEPT !.op = "retry", !.job = j, !.seen = status[j]]
    /\ UNCHANGED <<queueVars, sourceVars, workerVars, historyVars, backend, clock, peerDue, crashes>>

RetryCommit ==
    /\ web.op = "retry" /\ WebMayCommit
    /\ status' = [status EXCEPT ![web.job] = "queued"]
    /\ web' = Idle
    /\ UNCHANGED <<n, job, payload, sourceVars, workerVars, historyVars, envVars>>

CancelRequest(j) ==
    /\ "cancel" \in Operations
    /\ web = Idle
    /\ status[j] \in {"queued", "running"}
    /\ web' = [Idle EXCEPT !.op = "cancel", !.job = j, !.seen = status[j]]
    /\ UNCHANGED <<queueVars, sourceVars, workerVars, historyVars, envVars>>

\* A job read as queued is cancelled and its payload cut down to the origin; one
\* read as running is marked for the worker, where the column takes the mark: if
\* not, the transaction fails and is rolled back.
CancelCommit ==
    /\ web.op = "cancel" /\ WebMayCommit
    /\ IF web.seen = "queued"
       THEN /\ status' = [status EXCEPT ![web.job] = "cancelled"]
            /\ payload' = [payload EXCEPT ![web.job] = Kept(@, TRUE)]
       ELSE /\ status' = [status EXCEPT ![web.job] =
                            IF Fits("cancel_requested") THEN "cancel_requested" ELSE @]
            /\ UNCHANGED payload
    /\ web' = Idle
    /\ UNCHANGED <<n, job, sourceVars, workerVars, historyVars, envVars>>

-----------------------------------------------------------------------------
(* The worker: the scheduling transaction of tick *)

PollSpec(s) == [kind |-> "poll", source |-> s, origin |-> "scheduler", events |-> FALSE]
PeerSpec == [kind |-> "peer_groups", source |-> NoSource, origin |-> "scheduler", events |-> FALSE]

\* The polls a scan inserts when the sources of "due" are due: all that have no
\* active job, or as many as there is space for under the cap.
PollsFor(due) ==
    LET needed == {s \in due : ActiveOf(s) = {}}
        free == Cap - Cardinality(ActiveJobs)
        space == IF free < Room THEN free ELSE Room
    IN  {S \in SUBSET needed : /\ S = {} \/ Cardinality(S) <= space
                               /\ S = needed \/ Cardinality(S) >= space}

\* The sources a scan looks at: at the cap it breaks off at one that is due.
Visits(due, polls) ==
    {V \in SUBSET Sources :
        /\ polls \subseteq V
        /\ V # Sources => /\ Cardinality(ActiveJobs) + Cardinality(polls) >= Cap
                          /\ (due \cap V) \ polls # {}}

\* A source that is catching up and not failing is due at once, any other when its
\* interval has passed.  The refresh of the peer groups is due unless some source
\* is catching up; at the cap its enqueue raises, which rolls the tick back.
TickScan ==
    /\ pc = "idle"
    /\ \E due \in SUBSET {s \in Sources : enabled[s]} :
         /\ {s \in Sources : CatchingUp(s) /\ ~failing[s]} \subseteq due
         /\ \E polls \in PollsFor(due) : \E visited \in Visits(due, polls) :
              LET catching == {s \in visited : CatchingUp(s)}
                  total == Cardinality(ActiveJobs) + Cardinality(polls)
                  refresh == peerDue /\ catching = {}
                  peers == IF refresh /\ ActivePeerGroups = {} /\ Room > Cardinality(polls)
                           THEN {PeerSpec} ELSE {}
              IN  IF refresh /\ total >= Cap
                  THEN UNCHANGED <<pc, plan>>
                  ELSE /\ pc' = "tick"
                       /\ plan' = [new |-> {PollSpec(s) : s \in polls} \cup peers,
                                   catching |-> catching]
    /\ UNCHANGED <<queueVars, sourceVars, historyVars, envVars, web, cur, ctx>>

\* The choice of tick among the queued jobs: operator work, then a poll of a source
\* that is catching up, then the oldest.  (The model has fewer than the 50 rows
\* the query returns.)
\* (Faulty: a job of neither kind is never chosen.)
ChoosePreferred(st, jb, pl) ==
    LET queued == {j \in Jobs : st[j] = "queued"}
        operator == {j \in queued : pl[j].origin = "operator"}
    IN  Oldest(IF operator # {} THEN operator
               ELSE {j \in queued : jb[j].kind = "poll" /\ jb[j].source \in plan.catching})
Choice(st, jb, pl) ==
    LET queued == {j \in Jobs : st[j] = "queued"}
        operator == {j \in queued : pl[j].origin = "operator"}
        catchup == {j \in queued : jb[j].kind = "poll" /\ jb[j].source \in plan.catching}
    IN  Oldest(IF operator # {} THEN operator
               ELSE IF catchup # {} THEN catchup ELSE queued)

\* The commit of tick: the scheduled jobs are inserted, the refresh after the
\* polls, and the job to run is chosen.
TickCommit ==
    /\ pc = "tick"
    /\ \E m \in n .. MaxJobs : \E spec \in [n + 1 .. m -> plan.new] :
         /\ \A x \in plan.new : \E j \in n + 1 .. m : spec[j] = x
         /\ \A i, j \in n + 1 .. m : i # j => spec[i] # spec[j]
         /\ \A i, j \in n + 1 .. m : i < j => spec[i] # PeerSpec
         /\ Insert(m, spec)
    /\ peerDue' = (peerDue /\ PeerSpec \notin plan.new)
    /\ \E j \in Choice(status', job', payload') \cup {0} :
         /\ j = 0 <=> Choice(status', job', payload') = {}
         /\ cur' = j
         /\ pc' = IF j = 0 THEN "idle" ELSE "chosen"
    /\ plan' = NoPlan
    /\ UNCHANGED <<sourceVars, historyVars, web, ctx, backend, clock, crashes, retries>>

-----------------------------------------------------------------------------
(* The worker: run_job *)

\* The events of an import as run_job takes them from the payload.  (Faulty: the key
\* is wrong, and the default is empty.)
NothingTaken(j) == FALSE
Taken(j) == payload[j].events

\* _cancel_requested, on the job the worker is at.  (Faulty: the mark is not known.)
NeverPending == FALSE
CancelPending == status[cur] = "cancel_requested"

\* Where a poll begins: at the cursor of the snapshot, or with the lookback when
\* there is none.  (Faulty: always the lookback.)
StartAtLookback == clock - Lookback
PollStart == IF ctx.cursor = NoCursor THEN clock - Lookback ELSE ctx.cursor

\* The reads of the first transaction: the job, and the snapshot of its source.  A
\* job that is neither queued nor being cancelled makes run_job raise out of tick.
StartRead ==
    /\ pc = "chosen"
    /\ LET s == job[cur].source IN
       CASE status[cur] = "queued" ->
              /\ pc' = "starting"
              /\ ctx' = IF s = NoSource
                        THEN [NoContext EXCEPT !.seen = "queued", !.events = Taken(cur)]
                        ELSE [NoContext EXCEPT !.seen = "queued", !.cfg = cfg[s],
                                               !.cursor = checkpoint[s]]
              /\ UNCHANGED cur
         [] status[cur] = "cancel_requested" ->
              /\ pc' = "starting"
              /\ ctx' = [NoContext EXCEPT !.seen = "cancel_requested"]
              /\ UNCHANGED cur
         [] OTHER -> pc' = "idle" /\ cur' = 0 /\ UNCHANGED ctx
    /\ UNCHANGED <<queueVars, sourceVars, historyVars, envVars, web, plan>>

\* The job is marked running, or dropped.
StartCommit ==
    /\ pc = "starting"
    /\ IF ctx.seen = "cancel_requested"
       THEN /\ status' = [status EXCEPT ![cur] = "cancelled"]
            /\ payload' = [payload EXCEPT ![cur] = Kept(@, FALSE)]
            /\ pc' = "idle" /\ cur' = 0 /\ ctx' = NoContext
       ELSE /\ status' = [status EXCEPT ![cur] = "running"]
            /\ pc' = "heartbeat"
            /\ ctx' = [ctx EXCEPT !.seen = Absent]
            /\ UNCHANGED <<payload, cur>>
    /\ UNCHANGED <<n, job, sourceVars, historyVars, envVars, web, plan>>

\* progress("starting") is outside the try of run_job: what it raises, a pending
\* cancellation included, leaves tick with the job as it is.  SQLite skips it.
Heartbeat ==
    /\ pc = "heartbeat"
    /\ IF backend = "postgresql" /\ CancelPending
       THEN pc' = "idle" /\ cur' = 0 /\ ctx' = NoContext
       ELSE pc' = "work" /\ UNCHANGED <<cur, ctx>>
    /\ UNCHANGED <<queueVars, sourceVars, historyVars, envVars, web, plan>>

\* The work outside the transaction.  A poll collects [from, to): from the cursor,
\* or from the lookback when there is none, to at most the clock (how far the
\* slices reach is PollSlices), and nothing when it is there already.
CollectPoll ==
    /\ pc = "work" /\ job[cur].kind = "poll"
    /\ \E end \in Seconds :
         /\ IF PollStart < clock THEN PollStart < end /\ end <= clock ELSE end = PollStart
         /\ ctx' = [ctx EXCEPT !.from = PollStart, !.to = end]
    /\ pc' = "collected"
    /\ UNCHANGED <<queueVars, sourceVars, historyVars, envVars, web, plan, cur>>

\* Any work may fail: the search, its parsing, the capacity check of ingest, the
\* refresh, the commit.  So may the checks for a cancellation on the way.
WorkFails ==
    /\ pc \in {"work", "collected", "commit"}
    /\ pc' = "except"
    /\ UNCHANGED <<queueVars, sourceVars, historyVars, envVars, web, plan, cur, ctx>>

\* The last reads of run_job: the configuration is compared with the snapshot, and
\* the job is refreshed and looked at for a cancellation.
FinalRead ==
    /\ pc \in {"work", "collected"}
    /\ job[cur].kind = "poll" => pc = "collected"
    /\ LET s == job[cur].source IN
       IF CancelPending \/ (s # NoSource /\ cfg[s] # ctx.cfg)
       THEN pc' = "except" /\ UNCHANGED ctx
       ELSE /\ pc' = "commit"
            /\ ctx' = IF s = NoSource THEN ctx ELSE [ctx EXCEPT !.loaded = checkpoint[s]]
    /\ UNCHANGED <<queueVars, sourceVars, historyVars, envVars, web, plan, cur>>

\* What the commit of a poll of source s leaves in its row: the seconds collected
\* are ingested and the cursor moves behind them.  The column is written when the
\* new cursor differs from the one that was read.
\* (Faulty: the cursor is left to another transaction.)
IngestCollected(s) ==
    count' = [count EXCEPT ![s] = [t \in Seconds |-> IF ctx.from <= t /\ t < ctx.to
                                                     THEN count[s][t] + 1 ELSE count[s][t]]]
IngestOnly(s) == IngestCollected(s) /\ UNCHANGED <<checkpoint, base>>
AdvanceCursor(s) ==
    /\ IngestCollected(s)
    /\ IF ctx.to = ctx.loaded
       THEN UNCHANGED <<checkpoint, base>>
       ELSE /\ checkpoint' = [checkpoint EXCEPT ![s] = ctx.to]
            /\ base' = [base EXCEPT ![s] = IF checkpoint[s] = NoCursor THEN ctx.from ELSE @]

\* One transaction: the observations, the cursor, the source and the job.
FinalCommit ==
    /\ pc = "commit"
    /\ LET s == job[cur].source
           kind == job[cur].kind
       IN /\ IF kind = "poll" THEN AdvanceCursor(s)
                              ELSE UNCHANGED <<checkpoint, base, count>>
          /\ failing' = IF s = NoSource THEN failing ELSE [failing EXCEPT ![s] = FALSE]
          /\ delivered' = [delivered EXCEPT ![cur] = IF ctx.events THEN @ + 1 ELSE @]
          /\ peerDue' = (peerDue /\ kind # "peer_groups")
    /\ status' = [status EXCEPT ![cur] = "done"]
    /\ payload' = [payload EXCEPT ![cur] = Kept(@, TRUE)]
    /\ pc' = "idle" /\ cur' = 0 /\ ctx' = NoContext
    /\ UNCHANGED <<n, job, enabled, cfg, backend, clock, crashes, retries, web, plan>>

\* The except branch: a transaction of its own reads the job and closes it, as
\* cancelled if a cancellation is pending and as failed otherwise.
ExceptRead ==
    /\ pc = "except"
    /\ pc' = "failing"
    /\ ctx' = [NoContext EXCEPT !.seen = status[cur]]
    /\ UNCHANGED <<queueVars, sourceVars, historyVars, envVars, web, plan, cur>>

ExceptCommit ==
    /\ pc = "failing"
    /\ LET s == job[cur].source IN
       IF ctx.seen = "cancel_requested"
       THEN /\ status' = [status EXCEPT ![cur] = "cancelled"]
            /\ payload' = [payload EXCEPT ![cur] = Kept(@, FALSE)]
            /\ UNCHANGED failing
       ELSE /\ status' = [status EXCEPT ![cur] = "failed"]
            /\ failing' = IF s = NoSource THEN failing ELSE [failing EXCEPT ![s] = TRUE]
            /\ UNCHANGED payload
    /\ pc' = "idle" /\ cur' = 0 /\ ctx' = NoContext
    /\ UNCHANGED <<n, job, enabled, cfg, checkpoint, historyVars, envVars, web, plan>>

-----------------------------------------------------------------------------
(* The worker process *)

\* The process dies: what it had not committed is rolled back.
Crash ==
    /\ pc # "down"
    /\ crashes < MaxCrashes
    /\ crashes' = crashes + 1
    /\ pc' = "down" /\ cur' = 0 /\ ctx' = NoContext /\ plan' = NoPlan
    /\ UNCHANGED <<queueVars, sourceVars, historyVars, backend, clock, peerDue, retries, web>>

\* A transaction of the worker fails at its commit, outside the try of run_job or in
\* its except branch: run logs the exception of tick and goes on.
DbFault ==
    /\ DbFaults
    /\ pc \in {"tick", "chosen", "starting", "heartbeat", "except", "failing"}
    /\ pc' = "idle" /\ cur' = 0 /\ ctx' = NoContext /\ plan' = NoPlan
    /\ UNCHANGED <<queueVars, sourceVars, historyVars, envVars, web>>

\* The jobs a restarted worker finds running.  (Faulty: it does not look.)
NoneInterrupted == {}
Interrupted == {j \in Jobs : status[j] = "running"}

\* The process starts and recovers: the jobs being cancelled are closed, and those
\* that were running when the worker went away are failed.
Recover ==
    /\ pc = "down"
    /\ LET cancelling == {j \in Jobs : status[j] = "cancel_requested"}
       IN /\ status' = [j \in Jobs |-> IF j \in cancelling THEN "cancelled"
                                       ELSE IF j \in Interrupted THEN "failed" ELSE status[j]]
          /\ payload' = [j \in Jobs |-> IF j \in cancelling
                                        THEN Kept(payload[j], FALSE) ELSE payload[j]]
          /\ failing' = [s \in Sources |-> failing[s] \/ \E j \in Interrupted : job[j].source = s]
          /\ peerDue' = (peerDue /\ \A j \in Interrupted : job[j].kind # "peer_groups")
    /\ pc' = "idle"
    /\ UNCHANGED <<n, job, enabled, cfg, checkpoint, historyVars, web,
                   backend, clock, crashes, retries, plan, cur, ctx>>

-----------------------------------------------------------------------------
(* Time *)

TimePasses ==
    /\ clock < MaxClock
    /\ clock' = clock + 1
    /\ UNCHANGED <<queueVars, sourceVars, workerVars, historyVars, web,
                   backend, peerDue, crashes, retries>>

PeerHourPasses ==
    /\ HasHosts /\ ~peerDue
    /\ peerDue' = TRUE
    /\ UNCHANGED <<queueVars, sourceVars, workerVars, historyVars, web,
                   backend, clock, crashes, retries>>

-----------------------------------------------------------------------------
(* The specification *)

Init ==
    /\ backend \in Backends
    /\ n = 0
    /\ job = [j \in Jobs |-> [kind |-> "test", source |-> NoSource]]
    /\ status = [j \in Jobs |-> Absent]
    /\ payload = [j \in Jobs |-> [origin |-> "none", events |-> FALSE]]
    /\ enabled \in [Sources -> BOOLEAN]
    /\ cfg = [s \in Sources |-> CHOOSE c \in Configs : TRUE]
    /\ checkpoint = [s \in Sources |-> NoCursor]
    /\ failing = [s \in Sources |-> FALSE]
    /\ clock = Lookback
    /\ peerDue = FALSE
    /\ web = Idle
    /\ pc = "down" /\ cur = 0 /\ ctx = NoContext /\ plan = NoPlan
    /\ crashes = 0 /\ retries = 0
    /\ base = [s \in Sources |-> 0]
    /\ count = [s \in Sources |-> [t \in Seconds |-> 0]]
    /\ delivered = [j \in Jobs |-> 0]

WebCommit == EnqueueCommit \/ SaveCommit \/ RetryCommit \/ CancelCommit

WebNext ==
    \/ \E s \in Sources :
         \/ \E kind \in {"poll", "test"} : SourceJobRequest(kind, s)
         \/ ToggleSource(s)
         \/ \E c \in Configs, reset \in BOOLEAN : SaveRequest(s, c, reset)
    \/ \E kind \in WebKinds : WebJobRequest(kind)
    \/ \E j \in Jobs : RetryRequest(j) \/ CancelRequest(j)
    \/ WebCommit

WorkerStep ==
    \/ TickScan \/ TickCommit \/ StartRead \/ StartCommit \/ Heartbeat
    \/ CollectPoll \/ FinalRead \/ FinalCommit \/ ExceptRead \/ ExceptCommit
    \/ Recover

Next ==
    \/ WebNext
    \/ WorkerStep
    \/ WorkFails \/ DbFault \/ Crash
    \/ TimePasses \/ PeerHourPasses

Spec == Init /\ [][Next]_vars

\* The worker loop goes on, and the deployment restarts a worker that went away.
FairSpec == Spec /\ WF_vars(WorkerStep)

-----------------------------------------------------------------------------
(* Properties *)

QueueTypeOK ==
    /\ n \in 0 .. MaxJobs
    /\ job \in [Jobs -> [kind : Kinds, source : Sources \cup {NoSource}]]
    /\ status \in [Jobs -> Statuses \cup {Absent}]
    /\ payload \in [Jobs -> [origin : {"operator", "scheduler", "none"}, events : BOOLEAN]]

SourceTypeOK ==
    /\ enabled \in [Sources -> BOOLEAN]
    /\ cfg \in [Sources -> Configs]
    /\ checkpoint \in [Sources -> Seconds \cup {NoCursor}]
    /\ failing \in [Sources -> BOOLEAN]

WorkerTypeOK ==
    /\ pc \in Places
    /\ cur \in Jobs \cup {0}
    /\ ctx \in Context
    /\ plan \in Plan

HistoryTypeOK ==
    /\ base \in [Sources -> Seconds]
    /\ count \in [Sources -> [Seconds -> Nat]]
    /\ delivered \in [Jobs -> Nat]

EnvTypeOK ==
    /\ backend \in {"postgresql", "sqlite"}
    /\ clock \in Lookback .. MaxClock
    /\ peerDue \in BOOLEAN
    /\ crashes \in 0 .. MaxCrashes
    /\ retries \in 0 .. MaxRetries

TypeOK ==
    /\ QueueTypeOK
    /\ SourceTypeOK
    /\ WorkerTypeOK
    /\ HistoryTypeOK
    /\ EnvTypeOK
    /\ web \in Handler

\* What the proofs add to the types.  Only jobs that were created have a status, and
\* at these places the worker has one of them; a job row that polls has a source; the
\* cursor a poll started from is still that of its source, unless it was reset
\* meanwhile; and what was collected follows it.
RowsExist == /\ \A j \in Jobs : status[j] # Absent => j <= n
             /\ web.job <= n
Occupied == {"chosen", "starting", "heartbeat", "work", "collected", "commit", "except", "failing"}
WorkerHolds == pc \in Occupied => cur \in 1 .. n

PollHasSource(x) == x.kind = "poll" => x.source \in Sources
PollsHaveSources ==
    /\ \A j \in Jobs : PollHasSource(job[j])
    /\ PollHasSource(web.spec)
    /\ \A x \in plan.new : PollHasSource(x)

Polling(places) == pc \in places /\ job[cur].kind = "poll"
CursorFollowed ==
    /\ Polling({"starting", "heartbeat", "work", "collected", "commit"})
    /\ pc = "starting" => ctx.seen # "cancel_requested"
    => checkpoint[job[cur].source] \in {NoCursor, ctx.cursor}
CollectedFollows ==
    Polling({"collected", "commit"}) =>
        /\ ctx.from <= ctx.to
        /\ ctx.cursor # NoCursor => ctx.from = ctx.cursor
        /\ pc = "commit" => ctx.loaded \in {NoCursor, ctx.cursor}

QueueInv == TypeOK /\ RowsExist /\ WorkerHolds /\ PollsHaveSources /\ CursorFollowed /\ CollectedFollows

\* What they add for the imports.  Only a job without a source carries events; they
\* are ingested at most once, and gone from the payload then; and the worker has them
\* in hand as long as they are in the payload of the import it works on.
ImportsHaveNoSource ==
    /\ \A j \in Jobs : payload[j].events => j <= n /\ job[j].source = NoSource
    /\ web.spec.events => web.spec.source = NoSource
    /\ \A x \in plan.new : ~x.events
DeliveredOnce ==
    \A j \in Jobs : delivered[j] # 0 => delivered[j] = 1 /\ j <= n /\ ~payload[j].events
EventsInHand ==
    pc \in {"starting", "heartbeat", "work", "collected", "commit"} =>
        /\ ctx.events => delivered[cur] = 0
        /\ (pc = "starting" => ctx.seen # "cancel_requested") => (payload[cur].events => ctx.events)

ImportInv == ImportsHaveNoSource /\ DeliveredOnce /\ EventsInHand

\* And for the jobs that run: the worker has no job between two of them, and the one
\* it has chosen is not running yet.
JobAtHand ==
    /\ pc \notin Occupied => cur = 0
    /\ pc = "chosen" => status[cur] # "running"

Collection == INSTANCE CollectionCursor WITH cursor <- checkpoint

\* Failed, cancelled, interrupted and retried polls, races with the web process and
\* resets included, each index second behind a source's cursor has been ingested
\* exactly once since the cursor was last reset, and none beyond it.
ExactlyOnce == Collection!ExactlyOnce

\* The queue, the worker and the web process together implement the collection
\* cursor: every step collects on from the cursor, resets it, or leaves the
\* cursor and what was ingested alone.
RefinesCursor == Collection!Spec

\* However often an import is cancelled, interrupted or retried, its events are
\* ingested at most once.
ImportsIngestedOnce == \A j \in Jobs : delivered[j] <= 1

\* The events of a queued import stay in its payload until they are ingested or the
\* job is cancelled: a failure or a restart keeps them for the retry.
ImportsKept ==
    [][\A j \in Jobs : payload[j].events /\ ~payload'[j].events =>
         delivered'[j] = 1 \/ status'[j] = "cancelled"]_vars

\* A job is marked running only while the worker is at it, or is down and has not
\* recovered yet: the serial worker leaves no orphan behind.
RunningIsOwned ==
    \A j \in Jobs : status[j] = "running" => cur = j \/ pc = "down"

\* A running job comes to an end, whatever the web process does to it meanwhile.
RunningJobsEnd ==
    \A j \in Jobs : status[j] = "running" ~> status[j] # "running"

\* The worker has chosen a job that goes before j: by its class, or in the same class
\* by its age.
Class(j) == IF payload[j].origin = "operator" THEN 0
            ELSE IF job[j].kind = "poll" /\ CatchingUp(job[j].source) THEN 1 ELSE 2
PassedOver(j) ==
    /\ pc = "chosen" /\ cur # j
    /\ Class(cur) < Class(j) \/ (Class(cur) = Class(j) /\ cur < j)

\* A queued job is taken up in the end (or cancelled), unless jobs that go
\* before it are chosen over and over: the choice of tick has no aging, and an operator who
\* retries, or a source that stays behind, keeps older work waiting.
QueuedJobsRun ==
    \A j \in Jobs : <>[](status[j] = "queued") => []<>PassedOver(j)

\* A cancellation that is pending when the worker has its last look at the job is
\* honoured: the job ends as cancelled.
CancellationHonoured ==
    \A j \in Jobs :
        cur = j /\ status[j] = "cancel_requested" /\ pc \in {"heartbeat", "work", "collected"}
        ~> status[j] = "cancelled"
=============================================================================
