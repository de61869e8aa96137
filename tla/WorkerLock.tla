------------------------------ MODULE WorkerLock ------------------------------
(* The lock of the analysis worker on PostgreSQL (deepsnout/worker.py).     *)
(*                                                                          *)
(* A worker runs while its connection holds a session advisory lock.  The   *)
(* server releases the lock when the connection is lost, and another worker *)
(* may then start although the first one is still at work: it asks a guard  *)
(* at the top of its loop and before the transaction that ingests, and goes *)
(* on until then.  The workers poll sources that tell of one endpoint on    *)
(* one day; their transactions meet in the receipts of events and batches   *)
(* and in the summary of the day (READ COMMITTED; who inserts a key that    *)
(* another is inserting waits for it).  Receipts are not expired here.      *)
EXTENDS Integers, FiniteSets

CONSTANTS
    Workers, NoWorker,
    Sources,
    Jobs, NoJob,        \* bound: rows of the job table; one is taken again when nobody works on it
    SourceOf,           \* the source of each job
    MaxClock,           \* bound: the index seconds there are to be collected
    Busy,               \* the events: <<source, second>>
    MaxFaults           \* bound: connections lost, crashes and failures

Seconds == 0 .. MaxClock

ASSUME LockAssumption ==
    /\ NoWorker \notin Workers /\ NoJob \notin Jobs /\ SourceOf \in [Jobs -> Sources]
    /\ MaxClock \in Nat /\ MaxFaults \in Nat
    /\ Busy \subseteq Sources \X (0 .. MaxClock - 1) /\ IsFiniteSet(Busy)

VARIABLES
    owner,          \* whose connection holds the lock
    session,        \* of each worker: alive, or where it was lost
    pc,             \* where each worker is
    job, start, to, \* what it works on, and the seconds it has collected: start .. to - 1
    known, read,    \* what its transaction has read: the receipts and the summary
    status,         \* of the jobs
    cursor,         \* the checkpoint of each source
    seen, batches,  \* the receipts of events and of batches
    summary,        \* how many events the summary of the day counts
    counted,        \* history: how often each event was counted
    overlapped,     \* history: a worker has ingested whose lock was lost in its last transaction
    orphans,        \* history: the jobs left running since a worker last recovered
    faults

workVars == <<job, start, to, known, read>>
dataVars == <<cursor, seen, batches, summary, counted, overlapped>>
vars == <<owner, session, pc, workVars, status, dataVars, orphans, faults>>

Moves(w, from, next) == pc[w] = from /\ pc' = [pc EXCEPT ![w] = next]

InJob == {"running", "collected", "guarded", "read", "failing"}

Dropped(w) ==
    /\ job' = [job EXCEPT ![w] = NoJob]
    /\ start' = [start EXCEPT ![w] = 0] /\ to' = [to EXCEPT ![w] = 0]
    /\ known' = [known EXCEPT ![w] = {}] /\ read' = [read EXCEPT ![w] = 0]

-----------------------------------------------------------------------------
(* run: the lock, the recovery and the loop *)

\* pg_try_advisory_lock.
MayStart(w) == owner = NoWorker

Start(w) ==
    /\ MayStart(w) /\ Moves(w, "down", "recovery")
    /\ owner' = w /\ session' = [session EXCEPT ![w] = "alive"]
    /\ UNCHANGED <<workVars, status, dataVars, orphans, faults>>

\* Jobs that were running are over.  (Faulty: they are left alone.)
NoneInterrupted == {}
Interrupted == {j \in Jobs : status[j] = "running"}

Recover(w) ==
    /\ Moves(w, "recovery", "loop")
    /\ status' = [j \in Jobs |-> IF j \in Interrupted THEN "over" ELSE status[j]]
    /\ orphans' = {}
    /\ UNCHANGED <<owner, session, workVars, dataVars, faults>>

Guarded(w) == session[w] = "alive"

\* A worker that has lost the lock leaves.
GuardLoop(w) ==
    /\ Moves(w, "loop", IF Guarded(w) THEN "tick" ELSE "down")
    /\ UNCHANGED <<owner, session, workVars, status, dataVars, orphans, faults>>

\* The sources with something to be collected are due; enqueue coalesces with an active job.
\* A queued job is chosen.  (The code takes the oldest.)
Active(s) == \E j \in Jobs : SourceOf[j] = s /\ status[j] # "over"
Unused(s) == {j \in Jobs : SourceOf[j] = s /\ status[j] = "over" /\ \A w \in Workers : job[w] # j}
Due == {s \in Sources : cursor[s] < MaxClock /\ ~Active(s) /\ Unused(s) # {}}
Enqueued == {CHOOSE j \in Unused(s) : TRUE : s \in Due}
Queued == {j \in Jobs : status'[j] = "queued"}

Tick(w) ==
    /\ pc[w] = "tick"
    /\ status' = [j \in Jobs |-> IF j \in Enqueued THEN "queued" ELSE status[j]]
    /\ \/ Queued = {} /\ Moves(w, "tick", "loop") /\ UNCHANGED job
       \/ Moves(w, "tick", "chosen") /\ \E j \in Queued : job' = [job EXCEPT ![w] = j]
    /\ UNCHANGED <<owner, session, start, to, known, read, dataVars, orphans, faults>>

-----------------------------------------------------------------------------
(* run_job *)

Source(w) == SourceOf[job[w]]

\* It raises when the job is not queued, and the loop goes on.
FirstRead(w) ==
    /\ pc[w] = "chosen"
    /\ IF status[job[w]] = "queued"
       THEN /\ Moves(w, "chosen", "first")
            /\ start' = [start EXCEPT ![w] = cursor[Source(w)]] /\ UNCHANGED <<job, to, known, read>>
       ELSE Moves(w, "chosen", "loop") /\ Dropped(w)
    /\ UNCHANGED <<owner, session, status, dataVars, orphans, faults>>

FirstCommit(w) ==
    /\ Moves(w, "first", "running")
    /\ status' = [status EXCEPT ![job[w]] = "running"]
    /\ UNCHANGED <<owner, session, workVars, dataVars, orphans, faults>>

Collect(w) ==
    /\ Moves(w, "running", "collected")
    /\ \E t \in start[w] .. MaxClock :
          /\ start[w] < MaxClock => start[w] < t
          /\ to' = [to EXCEPT ![w] = t]
    /\ UNCHANGED <<owner, session, job, start, known, read, status, dataVars, orphans, faults>>

\* (Faulty: the guard is not asked.)
Unguarded(w) == TRUE
MayWrite(w) == Guarded(w)

GuardJob(w) ==
    /\ Moves(w, "collected", IF MayWrite(w) THEN "guarded" ELSE "failing")
    /\ UNCHANGED <<owner, session, workVars, status, dataVars, orphans, faults>>

Collected(w) == {e \in Busy : e[1] = Source(w) /\ start[w] <= e[2] /\ e[2] < to[w]}
Batch(w) == <<Source(w), start[w], to[w]>>

\* A batch that has a receipt is not looked at.
Replay == -1
FinalRead(w) ==
    /\ Moves(w, "guarded", "read")
    /\ known' = [known EXCEPT ![w] = seen]
    /\ read' = [read EXCEPT ![w] = IF Batch(w) \in batches THEN Replay ELSE summary]
    /\ UNCHANGED <<owner, session, job, start, to, status, dataVars, orphans, faults>>

New(w) == IF read[w] = Replay THEN {} ELSE Collected(w) \ known[w]

\* Another transaction has inserted a key of this one since: that of an event, of the
\* batch, or of the row of the day.  (Faulty: keys that are there are left alone.)
NoConflict(w) == FALSE
Conflict(w) ==
    \/ New(w) \cap seen # {}
    \/ read[w] # Replay /\ Batch(w) \in batches
    \/ New(w) # {} /\ read[w] = 0 /\ summary > 0

\* The cursor goes to where the collection has ended.  (Faulty: on by what was collected.)
MovedOn(w) ==
    LET c == cursor[Source(w)] + to[w] - start[w] IN IF c > MaxClock THEN MaxClock ELSE c
NextCursor(w) == to[w]

\* The summary is read, added to and written back.
Written(w) ==
    /\ cursor' = [cursor EXCEPT ![Source(w)] = NextCursor(w)]
    /\ seen' = seen \cup New(w)
    /\ counted' = [e \in Busy |-> IF e \in New(w) THEN counted[e] + 1 ELSE counted[e]]
    /\ summary' = IF New(w) = {} THEN summary ELSE read[w] + Cardinality(New(w))
    /\ batches' = batches \cup {Batch(w)}

FinalCommit(w) ==
    /\ pc[w] = "read" /\ ~Conflict(w) /\ Moves(w, "read", "loop")
    /\ Written(w)
    /\ overlapped' = (overlapped \/ session[w] = "lost in the last transaction")
    /\ status' = [status EXCEPT ![job[w]] = "over"] /\ Dropped(w)
    /\ UNCHANGED <<owner, session, orphans, faults>>

FinalFails(w) ==
    /\ pc[w] = "read" /\ Conflict(w) /\ Moves(w, "read", "failing")
    /\ UNCHANGED <<owner, session, workVars, status, dataVars, orphans, faults>>

\* The exception path writes without a guard.
Failed(w) ==
    /\ Moves(w, "failing", "loop")
    /\ status' = [status EXCEPT ![job[w]] = "over"] /\ Dropped(w)
    /\ UNCHANGED <<owner, session, dataVars, orphans, faults>>

-----------------------------------------------------------------------------
(* Faults *)

Fault == faults < MaxFaults /\ faults' = faults + 1

\* What fails in the try of run_job: a request, the final transaction and its commit.
WorkFails(w) ==
    /\ Fault /\ \E place \in {"running", "collected", "guarded", "read"} : Moves(w, place, "failing")
    /\ UNCHANGED <<owner, session, workVars, status, dataVars, orphans>>

\* What fails outside of it leaves the job as it is: the transactions of tick, the first one
\* of run_job, progress("starting") before the try, and the transaction of the exception.
LeftRunning(w) == {j \in Jobs : job[w] = j /\ pc[w] \in InJob /\ status[j] = "running"}
TickFails(w) ==
    /\ Fault /\ \E place \in {"tick", "chosen", "first", "running", "failing"} : Moves(w, place, "loop")
    /\ orphans' = orphans \cup LeftRunning(w) /\ Dropped(w)
    /\ UNCHANGED <<owner, session, status, dataVars>>

LoseSession(w) ==
    /\ Fault /\ owner = w
    /\ owner' = NoWorker
    /\ session' = [session EXCEPT ![w] =
          IF pc[w] \in {"guarded", "read"} THEN "lost in the last transaction" ELSE "lost"]
    /\ UNCHANGED <<pc, workVars, status, dataVars, orphans>>

\* Its connections go with it, and what it has not committed.
Crash(w) ==
    /\ Fault /\ pc[w] # "down"
    /\ pc' = [pc EXCEPT ![w] = "down"] /\ Dropped(w)
    /\ owner' = IF owner = w THEN NoWorker ELSE owner
    /\ session' = [session EXCEPT ![w] = "lost"]
    /\ orphans' = IF owner = w THEN orphans ELSE orphans \cup LeftRunning(w)
    /\ UNCHANGED <<status, dataVars>>

-----------------------------------------------------------------------------

Init ==
    /\ owner = NoWorker /\ session = [w \in Workers |-> "lost"] /\ pc = [w \in Workers |-> "down"]
    /\ job = [w \in Workers |-> NoJob]
    /\ start = [w \in Workers |-> 0] /\ to = [w \in Workers |-> 0]
    /\ known = [w \in Workers |-> {}] /\ read = [w \in Workers |-> 0]
    /\ status = [j \in Jobs |-> "over"]
    /\ cursor = [s \in Sources |-> 0] /\ seen = {} /\ batches = {} /\ summary = 0
    /\ counted = [e \in Busy |-> 0]
    /\ overlapped = FALSE /\ orphans = {} /\ faults = 0

Work(w) ==
    \/ Start(w) \/ Recover(w) \/ GuardLoop(w) \/ Tick(w)
    \/ FirstRead(w) \/ FirstCommit(w) \/ Collect(w) \/ GuardJob(w)
    \/ FinalRead(w) \/ FinalCommit(w) \/ FinalFails(w) \/ Failed(w)

Next == \E w \in Workers : Work(w) \/ WorkFails(w) \/ TickFails(w) \/ LoseSession(w) \/ Crash(w)

Spec == Init /\ [][Next]_vars

\* The processes are restarted and run on; nothing is promised of faults.
FairSpec == Spec /\ \A w \in Workers : WF_vars(Work(w))

-----------------------------------------------------------------------------
(* Properties *)

Places == {"down", "recovery", "loop", "tick", "chosen", "first"} \cup InJob

\* Types, and that the lock is owned by the one worker whose connection is alive.
TypeOK ==
    /\ owner \in Workers \cup {NoWorker}
    /\ session \in [Workers -> {"alive", "lost", "lost in the last transaction"}]
    /\ \A w \in Workers : session[w] = "alive" <=> owner = w
    /\ pc \in [Workers -> Places] /\ job \in [Workers -> Jobs \cup {NoJob}]
    /\ \A w \in Workers : pc[w] \in {"chosen", "first"} \cup InJob <=> job[w] # NoJob
    /\ start \in [Workers -> Seconds] /\ to \in [Workers -> Seconds]
    /\ known \in [Workers -> SUBSET Busy] /\ read \in [Workers -> Nat \cup {Replay}]
    /\ status \in [Jobs -> {"over", "queued", "running"}]
    /\ cursor \in [Sources -> Seconds] /\ seen \subseteq Busy
    /\ batches \subseteq Sources \X Seconds \X Seconds
    /\ summary \in Nat /\ counted \in [Busy -> Nat]
    /\ overlapped \in BOOLEAN /\ orphans \subseteq Jobs /\ faults \in 0 .. MaxFaults

\* However two workers overlap, an event is counted once: when it gets its receipt.
CountedOnce == \A e \in Busy : counted[e] = IF e \in seen THEN 1 ELSE 0

\* The events behind a cursor are in, although a worker that was overtaken may move it
\* back or over what the other one has collected.
CursorCovers == \A e \in Busy : e[2] < cursor[e[1]] => e \in seen

\* The summary counts every event, and none is lost to a parallel writer ("prevents
\* accidental parallel analysis writers", docs/design.md), unless a worker lost its lock
\* between the guard and the end of the transaction that ingests.  (Maintenance and the
\* evaluation of an idle tick ask no guard; they delete old days and count nothing.)
SummaryCountsAll == overlapped \/ summary = Cardinality(seen)

\* Everything of a source is collected in the end, and a job that was interrupted does not
\* keep it from being polled, unless one is left running that no recovery follows.  That is
\* so when its worker failed where nothing catches it (before the try of run_job, or in the
\* transaction of its exception) and lives on, or crashed after it had lost the lock and
\* another had recovered: the source is polled again when a worker starts.
EverythingIngested ==
    \A s \in Sources :
        \/ <>(\A e \in Busy : e[1] = s => e \in seen)
        \/ <>[](\E j \in orphans : SourceOf[j] = s /\ status[j] = "running")
=============================================================================
