-------------------------- MODULE WorkerLock_proofs --------------------------
(* Two workers never count an event twice nor leave one behind the cursor,   *)
(* and the summary misses none but through the gap the guard leaves: for any *)
(* number of workers, sources, jobs and events, and any faults.              *)
EXTENDS WorkerLock, FiniteSetTheorems, TLAPS

-----------------------------------------------------------------------------
(* The inductive invariant *)

\* A batch that has a receipt is in.
BatchesAreIn ==
    \A b \in batches : \A e \in Busy : e[1] = b[1] /\ b[2] <= e[2] /\ e[2] < b[3] => e \in seen

\* What was before its start is in; what it knows is in; and while it holds the lock in its
\* last transaction what it has read is still so, unless someone else has ingested meanwhile.
WorkerOK(w) ==
    /\ pc[w] \in {"first"} \cup InJob =>
          \A e \in Busy : e[1] = Source(w) /\ e[2] < start[w] => e \in seen
    /\ known[w] \subseteq seen
    /\ pc[w] = "read" /\ read[w] = Replay => Batch(w) \in batches
    /\ pc[w] \in {"guarded", "read"} => session[w] # "lost"
    /\ ~overlapped /\ pc[w] = "read" /\ session[w] = "alive" =>
          known[w] = seen /\ read[w] \in {summary, Replay}

DataOK == CountedOnce /\ CursorCovers /\ BatchesAreIn /\ SummaryCountsAll

IInv == TypeOK /\ DataOK /\ \A w \in Workers : WorkerOK(w)

-----------------------------------------------------------------------------
(* Facts about the operators *)

LEMMA Constants ==
    /\ NoWorker \notin Workers /\ NoJob \notin Jobs /\ SourceOf \in [Jobs -> Sources]
    /\ MaxClock \in Nat /\ MaxFaults \in Nat
BY LockAssumption

LEMMA FaultIs == TypeOK /\ Fault => faults' \in 0 .. MaxFaults
<1> SUFFICES ASSUME TypeOK, Fault PROVE faults' \in 0 .. MaxFaults
  OBVIOUS
<1>1. faults \in 0 .. MaxFaults /\ faults < MaxFaults /\ faults' = faults + 1 /\ MaxFaults \in Nat
  BY Constants DEF TypeOK, Fault
<1> QED BY <1>1

LEMMA BusyIs ==
    ASSUME NEW e \in Busy
    PROVE  e[1] \in Sources /\ e[2] \in Nat /\ e[2] < MaxClock
<1>1. e \in Sources \X (0 .. MaxClock - 1)
  BY LockAssumption
<1>2. e[1] \in Sources /\ e[2] \in 0 .. MaxClock - 1
  BY <1>1
<1> QED BY <1>2, Constants

LEMMA MovesIs ==
    ASSUME TypeOK, NEW w \in Workers, NEW from, NEW next \in Places, Moves(w, from, next)
    PROVE  /\ pc[w] = from /\ pc' \in [Workers -> Places] /\ pc'[w] = next
           /\ \A v \in Workers : v # w => pc'[v] = pc[v]
BY DEF Moves, TypeOK

\* A worker has a job from when it has chosen it.
LEMMA JobIs ==
    ASSUME TypeOK, NEW w \in Workers
    PROVE  /\ job[w] # NoJob <=> pc[w] \in {"chosen", "first"} \cup InJob
           /\ job[w] # NoJob => job[w] \in Jobs /\ Source(w) \in Sources
<1>1. job[w] \in Jobs \cup {NoJob} /\ (pc[w] \in {"chosen", "first"} \cup InJob <=> job[w] # NoJob)
  BY DEF TypeOK
<1> QED BY <1>1, Constants DEF Source

LEMMA DroppedIs ==
    ASSUME TypeOK, NEW w \in Workers, Dropped(w)
    PROVE  /\ job' \in [Workers -> Jobs \cup {NoJob}] /\ job'[w] = NoJob
           /\ start' \in [Workers -> Seconds] /\ to' \in [Workers -> Seconds]
           /\ known' \in [Workers -> SUBSET Busy] /\ read' \in [Workers -> Nat \cup {Replay}]
           /\ known'[w] = {}
           /\ \A v \in Workers : v # w =>
                /\ job'[v] = job[v] /\ start'[v] = start[v] /\ to'[v] = to[v]
                /\ known'[v] = known[v] /\ read'[v] = read[v]
<1>1. 0 \in Seconds
  BY Constants DEF Seconds
<1>2. job' \in [Workers -> Jobs \cup {NoJob}] /\ job'[w] = NoJob
      /\ \A v \in Workers : v # w => job'[v] = job[v]
  BY DEF TypeOK, Dropped
<1>3. start' \in [Workers -> Seconds] /\ \A v \in Workers : v # w => start'[v] = start[v]
  BY <1>1 DEF TypeOK, Dropped
<1>4. to' \in [Workers -> Seconds] /\ \A v \in Workers : v # w => to'[v] = to[v]
  BY <1>1 DEF TypeOK, Dropped
<1>5. known' \in [Workers -> SUBSET Busy] /\ known'[w] = {}
      /\ \A v \in Workers : v # w => known'[v] = known[v]
  BY DEF TypeOK, Dropped
<1>6. read' \in [Workers -> Nat \cup {Replay}] /\ \A v \in Workers : v # w => read'[v] = read[v]
  BY DEF TypeOK, Dropped
<1> QED BY <1>2, <1>3, <1>4, <1>5, <1>6

\* A worker whose variables do not change is as well off as before.
LEMMA SameWorker ==
    ASSUME NEW v \in Workers, WorkerOK(v), UNCHANGED dataVars,
           pc'[v] = pc[v], job'[v] = job[v], start'[v] = start[v], to'[v] = to[v],
           known'[v] = known[v], read'[v] = read[v], session'[v] = session[v]
    PROVE  WorkerOK(v)'
BY DEF WorkerOK, dataVars, Source, Batch

\* What is collected is stored in variables that only the last transaction changes.
LEMMA SameData == DataOK /\ UNCHANGED dataVars => DataOK'
BY DEF DataOK, dataVars, CountedOnce, CursorCovers, BatchesAreIn, SummaryCountsAll

-----------------------------------------------------------------------------
(* Initially *)

LEMMA InitIInv == Init => IInv
<1> SUFFICES ASSUME Init PROVE IInv
  OBVIOUS
<1>1. /\ owner = NoWorker /\ session = [w \in Workers |-> "lost"] /\ pc = [w \in Workers |-> "down"]
      /\ job = [w \in Workers |-> NoJob]
      /\ start = [w \in Workers |-> 0] /\ to = [w \in Workers |-> 0]
      /\ known = [w \in Workers |-> {}] /\ read = [w \in Workers |-> 0]
      /\ status = [j \in Jobs |-> "over"] /\ faults = 0 /\ overlapped = FALSE /\ orphans = {}
  BY DEF Init
<1>2. cursor = [s \in Sources |-> 0] /\ seen = {} /\ batches = {} /\ summary = 0
      /\ counted = [e \in Busy |-> 0]
  BY DEF Init
<1>3. 0 \in Seconds /\ 0 \in 0 .. MaxFaults
  BY Constants DEF Seconds
<1>4. TypeOK
  <2>1. /\ owner \in Workers \cup {NoWorker}
        /\ session \in [Workers -> {"alive", "lost", "lost in the last transaction"}]
        /\ \A w \in Workers : session[w] = "alive" <=> owner = w
    BY <1>1, Constants
  <2>2. /\ pc \in [Workers -> Places] /\ job \in [Workers -> Jobs \cup {NoJob}]
        /\ \A w \in Workers : pc[w] \in {"chosen", "first"} \cup InJob <=> job[w] # NoJob
    BY <1>1 DEF Places, InJob
  <2>3. /\ start \in [Workers -> Seconds] /\ to \in [Workers -> Seconds]
        /\ known \in [Workers -> SUBSET Busy] /\ read \in [Workers -> Nat \cup {Replay}]
    BY <1>1, <1>3
  <2>4. status \in [Jobs -> {"over", "queued", "running"}] /\ faults \in 0 .. MaxFaults
        /\ overlapped \in BOOLEAN /\ orphans \subseteq Jobs
    BY <1>1, <1>3
  <2>5. /\ cursor \in [Sources -> Seconds] /\ seen \subseteq Busy
        /\ batches \subseteq Sources \X Seconds \X Seconds
        /\ summary \in Nat /\ counted \in [Busy -> Nat]
    BY <1>2, <1>3
  <2> QED BY <2>1, <2>2, <2>3, <2>4, <2>5 DEF TypeOK
<1>5. DataOK
  <2>1. CursorCovers
    BY <1>2, BusyIs DEF CursorCovers
  <2>2. SummaryCountsAll
    BY <1>2, FS_EmptySet DEF SummaryCountsAll
  <2> QED BY <1>2, <2>1, <2>2 DEF DataOK, CountedOnce, BatchesAreIn
<1>6. \A w \in Workers : WorkerOK(w)
  BY <1>1 DEF WorkerOK, InJob
<1> QED BY <1>4, <1>5, <1>6 DEF IInv
-----------------------------------------------------------------------------
(* Steps that store nothing *)

\* One worker moves, and what it works on stays the same.
LEMMA MoveStep ==
    ASSUME IInv, NEW w \in Workers, NEW from, NEW next \in Places, Moves(w, from, next),
           UNCHANGED <<workVars, dataVars>>,
           job[w] # NoJob <=> next \in {"chosen", "first"} \cup InJob,
           WorkerOK(w)',
           UNCHANGED <<owner, session>>,
           status' \in [Jobs -> {"over", "queued", "running"}],
           orphans' \subseteq Jobs, faults' \in 0 .. MaxFaults
    PROVE  IInv'
<1> USE DEF IInv
<1>1. /\ pc[w] = from /\ pc' \in [Workers -> Places] /\ pc'[w] = next
      /\ \A v \in Workers : v # w => pc'[v] = pc[v]
  BY MovesIs DEF TypeOK
<1>2. UNCHANGED <<job, start, to, known, read, cursor, seen, batches, summary, counted, overlapped>>
  BY DEF workVars, dataVars
<1>3. TypeOK'
  <2>1. \A v \in Workers : pc'[v] \in {"chosen", "first"} \cup InJob <=> job'[v] # NoJob
    BY <1>1, <1>2 DEF TypeOK
  <2>2. \A v \in Workers : session'[v] = "alive" <=> owner' = v
    BY DEF TypeOK
  <2> QED BY <1>1, <1>2, <2>1, <2>2 DEF TypeOK
<1>4. \A v \in Workers : WorkerOK(v)'
  <2> SUFFICES ASSUME NEW v \in Workers, v # w PROVE WorkerOK(v)'
    OBVIOUS
  <2> QED BY <1>1, <1>2, SameWorker
<1> QED BY <1>3, <1>4, SameData

LEMMA StartStep == ASSUME IInv, NEW w \in Workers, Start(w) PROVE IInv'
<1> USE DEF IInv
<1>1. /\ owner = NoWorker /\ owner' = w /\ session' = [session EXCEPT ![w] = "alive"]
      /\ Moves(w, "down", "recovery") /\ UNCHANGED <<workVars, status, dataVars, orphans, faults>>
  BY DEF Start, MayStart
<1>2. /\ pc[w] = "down" /\ pc' \in [Workers -> Places] /\ pc'[w] = "recovery"
      /\ \A v \in Workers : v # w => pc'[v] = pc[v]
  BY <1>1, MovesIs DEF Places
<1>3. /\ session' \in [Workers -> {"alive", "lost", "lost in the last transaction"}]
      /\ session'[w] = "alive" /\ \A v \in Workers : v # w => session'[v] = session[v]
  BY <1>1 DEF TypeOK
<1>4. UNCHANGED <<job, start, to, known, read, cursor, seen, batches, summary, counted, overlapped>>
  BY <1>1 DEF workVars, dataVars
<1>5. TypeOK'
  <2>1. \A v \in Workers : session'[v] = "alive" <=> owner' = v
    BY <1>1, <1>3, Constants DEF TypeOK
  <2>2. \A v \in Workers : pc'[v] \in {"chosen", "first"} \cup InJob <=> job'[v] # NoJob
    <3>1. job[w] = NoJob
      BY <1>2 DEF TypeOK, InJob
    <3> QED BY <1>2, <1>4, <3>1 DEF TypeOK, InJob
  <2> QED BY <1>1, <1>2, <1>3, <1>4, <2>1, <2>2 DEF TypeOK
<1>6. WorkerOK(w)'
  BY <1>2, <1>4 DEF WorkerOK, InJob
<1>7. \A v \in Workers : v # w => WorkerOK(v)'
  BY <1>1, <1>2, <1>3, <1>4, SameWorker
<1> QED BY <1>1, <1>5, <1>6, <1>7, SameData

LEMMA RecoverStep == ASSUME IInv, NEW w \in Workers, Recover(w) PROVE IInv'
<1>1. /\ Moves(w, "recovery", "loop") /\ UNCHANGED <<owner, session, workVars, dataVars, faults>>
      /\ status' = [j \in Jobs |-> IF j \in Interrupted THEN "over" ELSE status[j]]
      /\ orphans' = {}
  BY DEF Recover
<1>2. status' \in [Jobs -> {"over", "queued", "running"}]
  <2>1. \A j \in Jobs : status[j] \in {"over", "queued", "running"}
    BY DEF IInv, TypeOK
  <2> QED BY <1>1, <2>1
<1>3. pc[w] = "recovery" /\ pc'[w] = "loop" /\ job[w] = NoJob
  <2>1. pc[w] = "recovery" /\ pc'[w] = "loop"
    BY <1>1, MovesIs DEF IInv, Places
  <2> QED BY <2>1, JobIs DEF IInv, InJob
<1>4. WorkerOK(w)'
  BY <1>1, <1>3 DEF IInv, WorkerOK, workVars, dataVars, InJob
<1>5. orphans' \subseteq Jobs /\ faults' \in 0 .. MaxFaults
  BY <1>1 DEF IInv, TypeOK
<1> QED BY <1>1, <1>2, <1>3, <1>4, <1>5, MoveStep DEF Places, InJob

LEMMA GuardLoopStep == ASSUME IInv, NEW w \in Workers, GuardLoop(w) PROVE IInv'
<1> DEFINE next == IF Guarded(w) THEN "tick" ELSE "down"
<1>1. Moves(w, "loop", next) /\ UNCHANGED <<owner, session, workVars, status, dataVars, orphans, faults>>
  BY DEF GuardLoop
<1>2. next \in Places /\ next \notin {"chosen", "first"} \cup InJob
  BY DEF Places, InJob
<1> HIDE DEF next
<1>3. pc[w] = "loop" /\ pc'[w] = next /\ job[w] = NoJob
  <2>1. pc[w] = "loop" /\ pc'[w] = next
    BY <1>1, <1>2, MovesIs DEF IInv
  <2> QED BY <2>1, JobIs DEF IInv, InJob
<1>4. WorkerOK(w)'
  BY <1>1, <1>2, <1>3 DEF IInv, WorkerOK, workVars, dataVars, InJob
<1>5. /\ status' \in [Jobs -> {"over", "queued", "running"}]
      /\ orphans' \subseteq Jobs /\ faults' \in 0 .. MaxFaults
  BY <1>1 DEF IInv, TypeOK
<1> QED BY <1>1, <1>2, <1>3, <1>4, <1>5, MoveStep

LEMMA FirstCommitStep == ASSUME IInv, NEW w \in Workers, FirstCommit(w) PROVE IInv'
<1>1. /\ Moves(w, "first", "running") /\ status' = [status EXCEPT ![job[w]] = "running"]
      /\ UNCHANGED <<owner, session, workVars, dataVars, orphans, faults>>
  BY DEF FirstCommit
<1>2. pc[w] = "first" /\ pc'[w] = "running"
  BY <1>1, MovesIs DEF IInv, Places, InJob
<1>3. status' \in [Jobs -> {"over", "queued", "running"}]
  BY <1>1 DEF IInv, TypeOK
<1>4. WorkerOK(w)'
  BY <1>1, <1>2 DEF IInv, WorkerOK, workVars, dataVars, Source, InJob
<1>5. job[w] # NoJob
  BY <1>2, JobIs DEF IInv
<1>6. orphans' \subseteq Jobs /\ faults' \in 0 .. MaxFaults
  BY <1>1 DEF IInv, TypeOK
<1> QED BY <1>1, <1>3, <1>4, <1>5, <1>6, MoveStep DEF Places, InJob

LEMMA GuardJobStep == ASSUME IInv, NEW w \in Workers, GuardJob(w) PROVE IInv'
<1> DEFINE next == IF MayWrite(w) THEN "guarded" ELSE "failing"
<1>1. Moves(w, "collected", next) /\ UNCHANGED <<owner, session, workVars, status, dataVars, orphans, faults>>
  BY DEF GuardJob
<1>2. next \in Places /\ next \in InJob /\ next # "read" /\ (next = "guarded" => session[w] = "alive")
  BY DEF Places, InJob, MayWrite, Guarded
<1> HIDE DEF next
<1>3. pc[w] = "collected" /\ pc'[w] = next
  BY <1>1, <1>2, MovesIs DEF IInv
<1>4. WorkerOK(w)'
  BY <1>1, <1>2, <1>3 DEF IInv, WorkerOK, workVars, dataVars, Source, InJob
<1>5. job[w] # NoJob
  BY <1>3, JobIs DEF IInv, InJob
<1>6. /\ status' \in [Jobs -> {"over", "queued", "running"}]
      /\ orphans' \subseteq Jobs /\ faults' \in 0 .. MaxFaults
  BY <1>1 DEF IInv, TypeOK
<1> QED BY <1>1, <1>2, <1>4, <1>5, <1>6, MoveStep

\* The work fails, or its last transaction does.
LEMMA FailingStep ==
    ASSUME IInv, NEW w \in Workers, FinalFails(w) \/ WorkFails(w)
    PROVE  IInv'
<1>1. PICK from \in InJob :
        Moves(w, from, "failing") /\ UNCHANGED <<owner, session, workVars, status, dataVars, orphans>>
  BY DEF FinalFails, WorkFails, InJob
<1>2. pc[w] = from /\ pc'[w] = "failing"
  BY <1>1, MovesIs DEF IInv, Places, InJob
<1>3. WorkerOK(w)'
  BY <1>1, <1>2 DEF IInv, WorkerOK, workVars, dataVars, Source, InJob
<1>4. job[w] # NoJob
  BY <1>2, JobIs DEF IInv
<1>5. faults' \in 0 .. MaxFaults
  BY FaultIs DEF IInv, TypeOK, FinalFails, WorkFails
<1>6. status' \in [Jobs -> {"over", "queued", "running"}] /\ orphans' \subseteq Jobs
  BY <1>1 DEF IInv, TypeOK
<1> QED BY <1>1, <1>3, <1>4, <1>5, <1>6, MoveStep DEF Places, InJob
-----------------------------------------------------------------------------
(* Steps in which a worker takes a job, works on it or lets go of it *)

\* The one worker that moves keeps its promises, and nobody else's variables change.
LEMMA WorkerMoves ==
    ASSUME IInv, NEW w \in Workers,
           UNCHANGED <<owner, session, dataVars>>, orphans' \subseteq Jobs, faults' \in 0 .. MaxFaults,
           pc' \in [Workers -> Places], job' \in [Workers -> Jobs \cup {NoJob}],
           pc'[w] \in {"chosen", "first"} \cup InJob <=> job'[w] # NoJob,
           start' \in [Workers -> Seconds], to' \in [Workers -> Seconds],
           known' \in [Workers -> SUBSET Busy], read' \in [Workers -> Nat \cup {Replay}],
           status' \in [Jobs -> {"over", "queued", "running"}],
           \A v \in Workers : v # w =>
               /\ pc'[v] = pc[v] /\ job'[v] = job[v] /\ start'[v] = start[v] /\ to'[v] = to[v]
               /\ known'[v] = known[v] /\ read'[v] = read[v],
           WorkerOK(w)'
    PROVE  IInv'
<1> USE DEF IInv
<1>1. UNCHANGED <<cursor, seen, batches, summary, counted, overlapped>>
  BY DEF dataVars
<1>2. TypeOK'
  <2>1. \A v \in Workers : pc'[v] \in {"chosen", "first"} \cup InJob <=> job'[v] # NoJob
    BY JobIs
  <2>2. \A v \in Workers : session'[v] = "alive" <=> owner' = v
    BY DEF TypeOK
  <2> QED BY <1>1, <2>1, <2>2 DEF TypeOK
<1>3. \A v \in Workers : v # w => WorkerOK(v)'
  BY SameWorker
<1> QED BY <1>2, <1>3, SameData

LEMMA WorkStep ==
    ASSUME IInv, NEW w \in Workers,
           UNCHANGED <<owner, session, dataVars, orphans, faults>>,
           pc' \in [Workers -> Places], job' \in [Workers -> Jobs \cup {NoJob}],
           pc'[w] \in {"chosen", "first"} \cup InJob <=> job'[w] # NoJob,
           start' \in [Workers -> Seconds], to' \in [Workers -> Seconds],
           known' \in [Workers -> SUBSET Busy], read' \in [Workers -> Nat \cup {Replay}],
           status' \in [Jobs -> {"over", "queued", "running"}],
           \A v \in Workers : v # w =>
               /\ pc'[v] = pc[v] /\ job'[v] = job[v] /\ start'[v] = start[v] /\ to'[v] = to[v]
               /\ known'[v] = known[v] /\ read'[v] = read[v],
           WorkerOK(w)'
    PROVE  IInv'
<1>1. orphans' \subseteq Jobs /\ faults' \in 0 .. MaxFaults
  BY DEF IInv, TypeOK
<1> QED BY <1>1, WorkerMoves

LEMMA TickStep == ASSUME IInv, NEW w \in Workers, Tick(w) PROVE IInv'
<1>1. /\ status' = [j \in Jobs |-> IF j \in Enqueued THEN "queued" ELSE status[j]]
      /\ UNCHANGED <<owner, session, start, to, known, read, dataVars, orphans, faults>>
  BY DEF Tick
<1>2. status' \in [Jobs -> {"over", "queued", "running"}]
  <2>1. \A j \in Jobs : status[j] \in {"over", "queued", "running"}
    BY DEF IInv, TypeOK
  <2> QED BY <1>1, <2>1
<1>3. pc[w] = "tick" /\ job[w] = NoJob
  BY JobIs DEF Tick, IInv, InJob
<1>4. CASE Moves(w, "tick", "loop") /\ UNCHANGED job
  <2>1. pc'[w] = "loop"
    BY <1>4, MovesIs DEF IInv, Places
  <2>2. WorkerOK(w)'
    BY <1>1, <2>1 DEF IInv, WorkerOK, dataVars, InJob
  <2>3. orphans' \subseteq Jobs /\ faults' \in 0 .. MaxFaults
    BY <1>1 DEF IInv, TypeOK
  <2> QED BY <1>1, <1>2, <1>3, <1>4, <2>2, <2>3, MoveStep DEF Places, InJob, workVars
<1>5. CASE Moves(w, "tick", "chosen") /\ \E j \in Queued : job' = [job EXCEPT ![w] = j]
  <2>1. PICK j \in Jobs : job' = [job EXCEPT ![w] = j]
    BY <1>5 DEF Queued
  <2>2. /\ pc' \in [Workers -> Places] /\ pc'[w] = "chosen"
        /\ \A v \in Workers : v # w => pc'[v] = pc[v]
    BY <1>5, MovesIs DEF IInv, Places
  <2>3. /\ job' \in [Workers -> Jobs \cup {NoJob}] /\ job'[w] # NoJob
        /\ \A v \in Workers : v # w => job'[v] = job[v]
    BY <2>1, Constants DEF IInv, TypeOK
  <2>4. WorkerOK(w)'
    BY <1>1, <2>2 DEF IInv, WorkerOK, dataVars, InJob
  <2>5. /\ start' \in [Workers -> Seconds] /\ to' \in [Workers -> Seconds]
        /\ known' \in [Workers -> SUBSET Busy] /\ read' \in [Workers -> Nat \cup {Replay}]
    BY <1>1 DEF IInv, TypeOK
  <2> QED BY <1>1, <1>2, <2>2, <2>3, <2>4, <2>5, WorkStep
<1> QED BY <1>4, <1>5 DEF Tick

\* It lets go of its job.
LEMMA DropStep ==
    ASSUME IInv, NEW w \in Workers, NEW from, Moves(w, from, "loop"), Dropped(w),
           UNCHANGED <<owner, session, dataVars>>, orphans' \subseteq Jobs, faults' \in 0 .. MaxFaults,
           status' \in [Jobs -> {"over", "queued", "running"}]
    PROVE  IInv'
<1>1. /\ pc' \in [Workers -> Places] /\ pc'[w] = "loop"
      /\ \A v \in Workers : v # w => pc'[v] = pc[v]
  BY MovesIs DEF IInv, Places
<1>2. /\ job' \in [Workers -> Jobs \cup {NoJob}] /\ job'[w] = NoJob
      /\ start' \in [Workers -> Seconds] /\ to' \in [Workers -> Seconds]
      /\ known' \in [Workers -> SUBSET Busy] /\ read' \in [Workers -> Nat \cup {Replay}]
      /\ known'[w] = {}
      /\ \A v \in Workers : v # w =>
           /\ job'[v] = job[v] /\ start'[v] = start[v] /\ to'[v] = to[v]
           /\ known'[v] = known[v] /\ read'[v] = read[v]
  BY DroppedIs DEF IInv
<1>3. WorkerOK(w)'
  BY <1>1, <1>2 DEF WorkerOK, InJob
<1>4. pc'[w] \notin {"chosen", "first"} \cup InJob
  BY <1>1 DEF InJob
<1> QED BY <1>1, <1>2, <1>3, <1>4, WorkerMoves

\* A tick that fails outside the try, with or without a job.
LEMMA TickFailsStep == ASSUME IInv, NEW w \in Workers, TickFails(w) PROVE IInv'
<1>1. PICK from : Moves(w, from, "loop")
  BY DEF TickFails
<1>2. Dropped(w) /\ UNCHANGED <<owner, session, dataVars>> /\ UNCHANGED status
  BY DEF TickFails
<1>3. faults' \in 0 .. MaxFaults
  BY FaultIs DEF IInv, TickFails
<1>4. orphans' \subseteq Jobs /\ status' \in [Jobs -> {"over", "queued", "running"}]
  BY <1>2 DEF TickFails, LeftRunning, IInv, TypeOK
<1> QED BY <1>1, <1>2, <1>3, <1>4, DropStep

LEMMA FailedStep == ASSUME IInv, NEW w \in Workers, Failed(w) PROVE IInv'
<1>1. /\ status' \in [Jobs -> {"over", "queued", "running"}]
      /\ orphans' \subseteq Jobs /\ faults' \in 0 .. MaxFaults
  BY DEF Failed, IInv, TypeOK
<1> QED BY <1>1, DropStep DEF Failed

\* What is before a cursor is in, so what is before the start will be.
LEMMA FirstReadStep == ASSUME IInv, NEW w \in Workers, FirstRead(w) PROVE IInv'
<1>1. pc[w] = "chosen" /\ UNCHANGED <<owner, session, status, dataVars, orphans, faults>>
  BY DEF FirstRead
<1>2. /\ status' \in [Jobs -> {"over", "queued", "running"}]
      /\ orphans' \subseteq Jobs /\ faults' \in 0 .. MaxFaults
  BY <1>1 DEF IInv, TypeOK
<1>3. CASE Moves(w, "chosen", "loop") /\ Dropped(w)
  BY <1>1, <1>2, <1>3, DropStep
<1>4. CASE /\ Moves(w, "chosen", "first")
           /\ start' = [start EXCEPT ![w] = cursor[Source(w)]] /\ UNCHANGED <<job, to, known, read>>
  <2>1. job[w] # NoJob /\ Source(w) \in Sources
    BY <1>1, JobIs DEF IInv
  <2>2. /\ pc' \in [Workers -> Places] /\ pc'[w] = "first"
        /\ \A v \in Workers : v # w => pc'[v] = pc[v]
    BY <1>4, MovesIs DEF IInv, Places
  <2>3. cursor[Source(w)] \in Seconds
    BY <2>1 DEF IInv, TypeOK
  <2>4. /\ start' \in [Workers -> Seconds] /\ start'[w] = cursor[Source(w)]
        /\ \A v \in Workers : v # w => start'[v] = start[v]
    BY <1>4, <2>3 DEF IInv, TypeOK
  <2>5. WorkerOK(w)'
    <3>1. \A e \in Busy : e[1] = Source(w) /\ e[2] < start'[w] => e \in seen
      BY <2>4 DEF IInv, DataOK, CursorCovers
    <3> QED BY <1>1, <1>4, <2>2, <3>1 DEF IInv, WorkerOK, dataVars, Source
  <2>6. /\ job' \in [Workers -> Jobs \cup {NoJob}] /\ to' \in [Workers -> Seconds]
        /\ known' \in [Workers -> SUBSET Busy] /\ read' \in [Workers -> Nat \cup {Replay}]
    BY <1>4 DEF IInv, TypeOK
  <2> QED BY <1>1, <1>2, <1>4, <2>1, <2>2, <2>4, <2>5, <2>6, WorkStep
<1> QED BY <1>3, <1>4 DEF FirstRead

LEMMA CollectStep == ASSUME IInv, NEW w \in Workers, Collect(w) PROVE IInv'
<1>1. /\ Moves(w, "running", "collected")
      /\ UNCHANGED <<owner, session, job, start, known, read, status, dataVars, orphans, faults>>
  BY DEF Collect
<1>2. PICK t \in start[w] .. MaxClock : to' = [to EXCEPT ![w] = t]
  BY DEF Collect
<1>3. t \in Seconds
  <2>1. start[w] \in 0 .. MaxClock /\ MaxClock \in Nat
    BY Constants DEF IInv, TypeOK, Seconds
  <2> QED BY <2>1 DEF Seconds
<1>4. /\ pc' \in [Workers -> Places] /\ pc[w] = "running" /\ pc'[w] = "collected"
      /\ \A v \in Workers : v # w => pc'[v] = pc[v]
  BY <1>1, MovesIs DEF IInv, Places, InJob
<1>5. to' \in [Workers -> Seconds] /\ \A v \in Workers : v # w => to'[v] = to[v]
  BY <1>2, <1>3 DEF IInv, TypeOK
<1>6. WorkerOK(w)'
  BY <1>1, <1>4 DEF IInv, WorkerOK, dataVars, Source, InJob
<1>7. job[w] # NoJob
  BY <1>4, JobIs DEF IInv, InJob
<1>8. /\ job' \in [Workers -> Jobs \cup {NoJob}] /\ start' \in [Workers -> Seconds]
      /\ known' \in [Workers -> SUBSET Busy] /\ read' \in [Workers -> Nat \cup {Replay}]
      /\ status' \in [Jobs -> {"over", "queued", "running"}]
  BY <1>1 DEF IInv, TypeOK
<1>9. pc'[w] \in InJob
  BY <1>4 DEF InJob
<1> QED BY <1>1, <1>4, <1>5, <1>6, <1>7, <1>8, <1>9, WorkStep

LEMMA FinalReadStep == ASSUME IInv, NEW w \in Workers, FinalRead(w) PROVE IInv'
<1> DEFINE r == IF Batch(w) \in batches THEN Replay ELSE summary
<1>1. /\ Moves(w, "guarded", "read")
      /\ known' = [known EXCEPT ![w] = seen] /\ read' = [read EXCEPT ![w] = r]
      /\ UNCHANGED <<owner, session, job, start, to, status, dataVars, orphans, faults>>
  BY DEF FinalRead
<1>2. /\ pc' \in [Workers -> Places] /\ pc[w] = "guarded" /\ pc'[w] = "read"
      /\ \A v \in Workers : v # w => pc'[v] = pc[v]
  BY <1>1, MovesIs DEF IInv, Places, InJob
<1>3. r \in Nat \cup {Replay} /\ r \in {summary, Replay} /\ (r = Replay => Batch(w) \in batches)
  <2>1. summary \in Nat
    BY DEF IInv, TypeOK
  <2> QED BY <2>1 DEF Replay
<1> HIDE DEF r
<1>4. /\ known' \in [Workers -> SUBSET Busy] /\ known'[w] = seen
      /\ \A v \in Workers : v # w => known'[v] = known[v]
  BY <1>1 DEF IInv, TypeOK
<1>5. /\ read' \in [Workers -> Nat \cup {Replay}] /\ read'[w] = r
      /\ \A v \in Workers : v # w => read'[v] = read[v]
  BY <1>1, <1>3 DEF IInv, TypeOK
<1>6. WorkerOK(w)'
  <2>1. UNCHANGED <<cursor, seen, batches, summary, counted, overlapped>>
    BY <1>1 DEF dataVars
  <2>2. /\ \A e \in Busy : e[1] = Source(w) /\ e[2] < start[w] => e \in seen
        /\ session[w] # "lost"
    BY <1>2 DEF IInv, WorkerOK, InJob
  <2> QED BY <1>1, <1>2, <1>3, <1>4, <1>5, <2>1, <2>2 DEF WorkerOK, Source, Batch
<1>7. job[w] # NoJob
  BY <1>2, JobIs DEF IInv, InJob
<1>8. /\ job' \in [Workers -> Jobs \cup {NoJob}] /\ start' \in [Workers -> Seconds]
      /\ to' \in [Workers -> Seconds] /\ status' \in [Jobs -> {"over", "queued", "running"}]
  BY <1>1 DEF IInv, TypeOK
<1>9. pc'[w] \in InJob
  BY <1>2 DEF InJob
<1> QED BY <1>1, <1>2, <1>4, <1>5, <1>6, <1>7, <1>8, <1>9, WorkStep

-----------------------------------------------------------------------------
(* Faults *)

LEMMA LoseSessionStep == ASSUME IInv, NEW w \in Workers, LoseSession(w) PROVE IInv'
<1> USE DEF IInv
<1> DEFINE how == IF pc[w] \in {"guarded", "read"} THEN "lost in the last transaction" ELSE "lost"
<1>1. /\ Fault /\ owner = w /\ owner' = NoWorker /\ session' = [session EXCEPT ![w] = how]
      /\ UNCHANGED <<pc, workVars, status, dataVars, orphans>>
  BY DEF LoseSession
<1>2. UNCHANGED <<job, start, to, known, read, cursor, seen, batches, summary, counted, overlapped>>
  BY <1>1 DEF workVars, dataVars
<1>3. /\ how \in {"lost", "lost in the last transaction"}
      /\ pc[w] \in {"guarded", "read"} => how # "lost"
  OBVIOUS
<1> HIDE DEF how
<1>4. /\ session' \in [Workers -> {"alive", "lost", "lost in the last transaction"}]
      /\ session'[w] = how /\ \A v \in Workers : v # w => session'[v] = session[v]
  BY <1>1, <1>3 DEF TypeOK
<1>5. TypeOK'
  <2>1. \A v \in Workers : session'[v] = "alive" <=> owner' = v
    BY <1>1, <1>3, <1>4, Constants DEF TypeOK
  <2>2. \A v \in Workers : pc'[v] \in {"chosen", "first"} \cup InJob <=> job'[v] # NoJob
    BY <1>1, <1>2 DEF TypeOK
  <2>3. faults' \in 0 .. MaxFaults
    BY <1>1, FaultIs
  <2>4. owner' \in Workers \cup {NoWorker}
    BY <1>1
  <2> QED BY <1>1, <1>2, <1>4, <2>1, <2>2, <2>3, <2>4 DEF TypeOK
<1>6. WorkerOK(w)'
  BY <1>1, <1>2, <1>3, <1>4 DEF WorkerOK, Source, Batch
<1>7. \A v \in Workers : v # w => WorkerOK(v)'
  BY <1>1, <1>2, <1>4, SameWorker
<1> QED BY <1>1, <1>5, <1>6, <1>7, SameData

LEMMA CrashStep == ASSUME IInv, NEW w \in Workers, Crash(w) PROVE IInv'
<1> USE DEF IInv
<1>1. /\ Fault /\ pc' = [pc EXCEPT ![w] = "down"] /\ Dropped(w)
      /\ owner' = (IF owner = w THEN NoWorker ELSE owner)
      /\ session' = [session EXCEPT ![w] = "lost"]
      /\ orphans' = IF owner = w THEN orphans ELSE orphans \cup LeftRunning(w)
      /\ UNCHANGED <<status, dataVars>>
  BY DEF Crash
<1>2. UNCHANGED <<cursor, seen, batches, summary, counted, overlapped>>
  BY <1>1 DEF dataVars
<1>3. /\ session' \in [Workers -> {"alive", "lost", "lost in the last transaction"}]
      /\ session'[w] = "lost" /\ \A v \in Workers : v # w => session'[v] = session[v]
  BY <1>1 DEF TypeOK
<1>4. /\ pc' \in [Workers -> Places] /\ pc'[w] = "down"
      /\ \A v \in Workers : v # w => pc'[v] = pc[v]
  BY <1>1 DEF TypeOK, Places
<1>5. /\ job' \in [Workers -> Jobs \cup {NoJob}] /\ job'[w] = NoJob
      /\ start' \in [Workers -> Seconds] /\ to' \in [Workers -> Seconds]
      /\ known' \in [Workers -> SUBSET Busy] /\ read' \in [Workers -> Nat \cup {Replay}]
      /\ known'[w] = {}
      /\ \A v \in Workers : v # w =>
           /\ job'[v] = job[v] /\ start'[v] = start[v] /\ to'[v] = to[v]
           /\ known'[v] = known[v] /\ read'[v] = read[v]
  BY <1>1, DroppedIs
<1>6. TypeOK'
  <2>1. \A v \in Workers : session'[v] = "alive" <=> owner' = v
    <3> SUFFICES ASSUME NEW v \in Workers PROVE session'[v] = "alive" <=> owner' = v
      OBVIOUS
    <3>1. session[v] = "alive" <=> owner = v
      BY DEF TypeOK
    <3> QED BY <1>1, <1>3, <3>1, Constants
  <2>2. \A v \in Workers : pc'[v] \in {"chosen", "first"} \cup InJob <=> job'[v] # NoJob
    <3> SUFFICES ASSUME NEW v \in Workers
                 PROVE  pc'[v] \in {"chosen", "first"} \cup InJob <=> job'[v] # NoJob
      OBVIOUS
    <3>1. CASE v = w
      BY <1>4, <1>5, <3>1 DEF InJob
    <3>2. CASE v # w
      BY <1>4, <1>5, <3>2, JobIs
    <3> QED BY <3>1, <3>2
  <2>3. faults' \in 0 .. MaxFaults
    BY <1>1, FaultIs
  <2>4. owner' \in Workers \cup {NoWorker}
    BY <1>1 DEF TypeOK
  <2>5. orphans' \subseteq Jobs
    BY <1>1 DEF TypeOK, LeftRunning
  <2> QED BY <1>1, <1>2, <1>3, <1>4, <1>5, <2>1, <2>2, <2>3, <2>4, <2>5 DEF TypeOK
<1>7. WorkerOK(w)'
  BY <1>3, <1>4, <1>5 DEF WorkerOK, InJob
<1>8. \A v \in Workers : v # w => WorkerOK(v)'
  BY <1>1, <1>3, <1>4, <1>5, SameWorker
<1> QED BY <1>1, <1>6, <1>7, <1>8, SameData
-----------------------------------------------------------------------------
(* The transaction that ingests *)

LEMMA FinalCommitStep == ASSUME IInv, NEW w \in Workers, FinalCommit(w) PROVE IInv'
<1> USE DEF IInv
<1> DEFINE n == New(w)
           s == Source(w)
<1>1. /\ pc[w] = "read" /\ ~Conflict(w) /\ Moves(w, "read", "loop") /\ Dropped(w)
      /\ overlapped' = (overlapped \/ session[w] = "lost in the last transaction")
      /\ status' = [status EXCEPT ![job[w]] = "over"]
      /\ UNCHANGED <<owner, session, orphans, faults>>
  BY DEF FinalCommit
<1>2. /\ cursor' = [cursor EXCEPT ![s] = to[w]] /\ seen' = seen \cup n
      /\ counted' = [e \in Busy |-> IF e \in n THEN counted[e] + 1 ELSE counted[e]]
      /\ summary' = (IF n = {} THEN summary ELSE read[w] + Cardinality(n))
      /\ batches' = batches \cup {Batch(w)}
  BY DEF FinalCommit, Written, NextCursor
<1>3. n \subseteq Busy /\ n \cap seen = {} /\ (n # {} => read[w] # Replay)
  BY <1>1 DEF New, Collected, Conflict
<1>4. job[w] # NoJob /\ s \in Sources
  BY <1>1, JobIs DEF InJob
<1>5. /\ \A e \in Busy : e[1] = s /\ e[2] < start[w] => e \in seen
      /\ known[w] \subseteq seen /\ (read[w] = Replay => Batch(w) \in batches) /\ session[w] # "lost"
      /\ (~overlapped /\ session[w] = "alive" => known[w] = seen /\ read[w] \in {summary, Replay})
  BY <1>1 DEF WorkerOK, InJob
<1>6. start[w] \in Nat /\ to[w] \in Seconds /\ to[w] \in Nat /\ start[w] \in Seconds
  <2>1. start[w] \in Seconds /\ to[w] \in Seconds
    BY DEF TypeOK
  <2> QED BY <2>1, Constants DEF Seconds
<1>7. Batch(w) = <<s, start[w], to[w]>>
  BY DEF Batch
<1>8. IsFiniteSet(Busy)
  BY LockAssumption
<1>9. n = {} \/ n = {e \in Busy : e[1] = s /\ start[w] <= e[2] /\ e[2] < to[w]} \ known[w]
  BY DEF New, Collected
<1>10. \A e \in Busy : e[1] = s /\ start[w] <= e[2] /\ e[2] < to[w] => e \in seen'
  <2> SUFFICES ASSUME NEW e \in Busy, e[1] = s, start[w] <= e[2], e[2] < to[w] PROVE e \in seen'
    OBVIOUS
  <2>1. CASE read[w] = Replay
    <3>1. <<s, start[w], to[w]>> \in batches
      BY <1>5, <1>7, <2>1
    <3> QED BY <1>2, <3>1 DEF DataOK, BatchesAreIn
  <2>2. CASE read[w] # Replay
    <3>1. e \in n \/ e \in known[w]
      BY <2>2 DEF New, Collected
    <3> QED BY <1>2, <1>5, <3>1
  <2> QED BY <2>1, <2>2
<1> HIDE DEF n, s
<1>11. /\ pc' \in [Workers -> Places] /\ pc'[w] = "loop"
       /\ \A v \in Workers : v # w => pc'[v] = pc[v]
  BY <1>1, MovesIs DEF Places
<1>12. /\ job' \in [Workers -> Jobs \cup {NoJob}] /\ job'[w] = NoJob
       /\ start' \in [Workers -> Seconds] /\ to' \in [Workers -> Seconds]
       /\ known' \in [Workers -> SUBSET Busy] /\ read' \in [Workers -> Nat \cup {Replay}]
       /\ known'[w] = {}
       /\ \A v \in Workers : v # w =>
            /\ job'[v] = job[v] /\ start'[v] = start[v] /\ to'[v] = to[v]
            /\ known'[v] = known[v] /\ read'[v] = read[v]
  BY <1>1, DroppedIs
<1>13. IsFiniteSet(seen) /\ IsFiniteSet(n) /\ Cardinality(n) \in Nat /\ Cardinality(seen) \in Nat
       /\ Cardinality(seen \cup n) = Cardinality(seen) + Cardinality(n)
  <2>1. IsFiniteSet(seen) /\ IsFiniteSet(n)
    BY <1>3, <1>8, FS_Subset DEF TypeOK
  <2>2. Cardinality(n) \in Nat /\ Cardinality(seen) \in Nat
    BY <2>1, FS_CardinalityType
  <2>3. Cardinality(seen \cup n) = Cardinality(seen) + Cardinality(n) - Cardinality(seen \cap n)
    BY <2>1, FS_Union
  <2>4. seen \cap n = {} /\ Cardinality({}) = 0
    BY <1>3, FS_EmptySet
  <2>5. Cardinality(seen \cap n) = 0
    BY <2>4
  <2>6. Cardinality(seen \cup n) = Cardinality(seen) + Cardinality(n)
    <3> DEFINE a == Cardinality(seen)
               b == Cardinality(n)
               c == Cardinality(seen \cup n)
               d == Cardinality(seen \cap n)
    <3>1. a \in Nat /\ b \in Nat /\ c = a + b - d /\ d = 0
      BY <2>2, <2>3, <2>5
    <3> HIDE DEF a, b, c, d
    <3>2. c = a + b
      BY <3>1
    <3> QED BY <3>2 DEF a, b, c
  <2> QED BY <2>1, <2>2, <2>6
<1>14. TypeOK'
  <2>1. \A v \in Workers : pc'[v] \in {"chosen", "first"} \cup InJob <=> job'[v] # NoJob
    <3> SUFFICES ASSUME NEW v \in Workers
                 PROVE  pc'[v] \in {"chosen", "first"} \cup InJob <=> job'[v] # NoJob
      OBVIOUS
    <3>1. CASE v = w
      BY <1>11, <1>12, <3>1 DEF InJob
    <3>2. CASE v # w
      BY <1>11, <1>12, <3>2, JobIs
    <3> QED BY <3>1, <3>2
  <2>2. \A v \in Workers : session'[v] = "alive" <=> owner' = v
    BY <1>1 DEF TypeOK
  <2>3. status' \in [Jobs -> {"over", "queued", "running"}]
    BY <1>1 DEF TypeOK
  <2>4. cursor' \in [Sources -> Seconds] /\ seen' \subseteq Busy
    BY <1>2, <1>3, <1>4, <1>6 DEF TypeOK
  <2>5. batches' \subseteq Sources \X Seconds \X Seconds
    <3>1. Batch(w) \in Sources \X Seconds \X Seconds
      BY <1>4, <1>6, <1>7
    <3> QED BY <1>2, <3>1 DEF TypeOK
  <2>6. summary' \in Nat
    <3>1. read[w] \in Nat \cup {Replay} /\ summary \in Nat
      BY DEF TypeOK
    <3>2. n # {} => read[w] \in Nat
      BY <1>3, <3>1
    <3> QED BY <1>2, <1>13, <3>1, <3>2
  <2>7. counted' \in [Busy -> Nat]
    <3>1. \A e \in Busy : counted[e] \in Nat
      BY DEF TypeOK
    <3>2. \A e \in Busy : counted[e] + 1 \in Nat
      BY <3>1
    <3> QED BY <1>2, <3>1, <3>2
  <2>8. overlapped' \in BOOLEAN /\ orphans' \subseteq Jobs /\ faults' \in 0 .. MaxFaults
    BY <1>1 DEF TypeOK
  <2>9. /\ owner' \in Workers \cup {NoWorker}
        /\ session' \in [Workers -> {"alive", "lost", "lost in the last transaction"}]
    BY <1>1 DEF TypeOK
  <2> QED BY <1>11, <1>12, <2>1, <2>2, <2>3, <2>4, <2>5, <2>6, <2>7, <2>8, <2>9 DEF TypeOK
<1>15. CountedOnce'
  <2>1. \A e \in Busy : counted[e] = IF e \in seen THEN 1 ELSE 0
    BY DEF DataOK, CountedOnce
  <2>2. \A e \in Busy : counted'[e] = IF e \in seen' THEN 1 ELSE 0
    BY <1>2, <1>3, <2>1
  <2> QED BY <2>2 DEF CountedOnce
<1>16. CursorCovers'
  <2> SUFFICES ASSUME NEW e \in Busy, e[2] < cursor'[e[1]] PROVE e \in seen'
    BY DEF CursorCovers
  <2>1. e[1] \in Sources /\ e[2] \in Nat
    BY BusyIs
  <2>2. CASE e[1] = s
    <3>1. e[2] < to[w]
      BY <1>2, <1>4, <2>2 DEF TypeOK
    <3>2. CASE e[2] < start[w]
      BY <1>2, <1>5, <2>2, <3>2
    <3>3. CASE start[w] <= e[2]
      BY <1>10, <2>2, <3>1, <3>3
    <3> QED BY <1>6, <2>1, <3>2, <3>3
  <2>3. CASE e[1] # s
    <3>1. cursor'[e[1]] = cursor[e[1]]
      BY <1>2, <2>1, <2>3 DEF TypeOK
    <3> QED BY <1>2, <3>1 DEF DataOK, CursorCovers
  <2> QED BY <2>2, <2>3
<1>17. BatchesAreIn'
  <2> SUFFICES ASSUME NEW b \in batches', NEW e \in Busy, e[1] = b[1], b[2] <= e[2], e[2] < b[3]
               PROVE  e \in seen'
    BY DEF BatchesAreIn
  <2>1. CASE b \in batches
    BY <1>2, <2>1 DEF DataOK, BatchesAreIn
  <2>2. CASE b = <<s, start[w], to[w]>>
    <3>1. b[1] = s /\ b[2] = start[w] /\ b[3] = to[w]
      BY <2>2
    <3> QED BY <1>10, <3>1
  <2> QED BY <1>2, <1>7, <2>1, <2>2
<1>18. SummaryCountsAll'
  <2> SUFFICES ASSUME ~overlapped' PROVE summary' = Cardinality(seen')
    BY DEF SummaryCountsAll
  <2>1. session[w] \in {"alive", "lost", "lost in the last transaction"}
    BY DEF TypeOK
  <2>2. ~overlapped /\ session[w] = "alive"
    BY <1>1, <1>5, <2>1
  <2>3. summary = Cardinality(seen) /\ read[w] \in {summary, Replay}
    BY <1>5, <2>2 DEF DataOK, SummaryCountsAll
  <2>4. CASE n = {}
    <3>1. seen' = seen /\ summary' = summary
      BY <1>2, <2>4
    <3> QED BY <2>3, <3>1
  <2>5. CASE n # {}
    <3>1. summary' = summary + Cardinality(n)
      BY <1>2, <1>3, <2>3, <2>5
    <3> QED BY <1>2, <1>13, <2>3, <3>1
  <2> QED BY <2>4, <2>5
<1>19. WorkerOK(w)'
  BY <1>11, <1>12 DEF WorkerOK, InJob
<1>20. ASSUME NEW v \in Workers, v # w PROVE WorkerOK(v)'
  <2>1. /\ pc'[v] = pc[v] /\ job'[v] = job[v] /\ start'[v] = start[v] /\ to'[v] = to[v]
        /\ known'[v] = known[v] /\ read'[v] = read[v] /\ session'[v] = session[v]
    BY <1>1, <1>11, <1>12, <1>20
  <2>2. seen \subseteq seen' /\ batches \subseteq batches'
    BY <1>2
  <2>3. ~overlapped' => session[v] # "alive"
    <3>1. session[w] \in {"alive", "lost", "lost in the last transaction"}
      BY DEF TypeOK
    <3>2. ~overlapped' => session[w] = "alive"
      BY <1>1, <1>5, <3>1
    <3> QED BY <1>20, <3>2 DEF TypeOK
  <2>4. Source(v)' = Source(v) /\ Batch(v)' = Batch(v)
    BY <2>1 DEF Source, Batch
  <2>5. WorkerOK(v)
    OBVIOUS
  <2> QED BY <2>1, <2>2, <2>3, <2>4, <2>5 DEF WorkerOK
<1> QED BY <1>14, <1>15, <1>16, <1>17, <1>18, <1>19, <1>20 DEF DataOK

LEMMA NextIInv == IInv /\ [Next]_vars => IInv'
<1> SUFFICES ASSUME IInv, [Next]_vars PROVE IInv'
  OBVIOUS
<1>1. CASE UNCHANGED vars
  <2>1. UNCHANGED <<owner, session, pc, job, start, to, known, read, status, dataVars, orphans, faults>>
    BY <1>1 DEF vars, workVars
  <2>2. UNCHANGED <<cursor, seen, batches, summary, counted, overlapped>>
    BY <2>1 DEF dataVars
  <2>3. TypeOK'
    BY <2>1, <2>2 DEF IInv, TypeOK
  <2>4. \A v \in Workers : WorkerOK(v)'
    BY <2>1, SameWorker DEF IInv
  <2> QED BY <2>1, <2>3, <2>4, SameData DEF IInv
<1>2. CASE Next
  <2>1. PICK w \in Workers : Work(w) \/ WorkFails(w) \/ TickFails(w) \/ LoseSession(w) \/ Crash(w)
    BY <1>2 DEF Next
  <2> QED BY <2>1, StartStep, RecoverStep, GuardLoopStep, TickStep, FirstReadStep, FirstCommitStep,
             CollectStep, GuardJobStep, FinalReadStep, FinalCommitStep, FailingStep, FailedStep,
             TickFailsStep, LoseSessionStep, CrashStep DEF Work
<1> QED BY <1>1, <1>2

-----------------------------------------------------------------------------
(* The theorems *)

LEMMA Inductive == Spec => []IInv
BY InitIInv, NextIInv, PTL DEF Spec

\* Types, and the one owner of the lock.
THEOREM LockTypesCorrect == Spec => []TypeOK
<1>1. IInv => TypeOK
  BY DEF IInv
<1> QED BY <1>1, Inductive, PTL

\* No event is counted twice, however many workers overlap.
THEOREM EventsCountedOnce == Spec => []CountedOnce
<1>1. IInv => CountedOnce
  BY DEF IInv, DataOK
<1> QED BY <1>1, Inductive, PTL

\* No worker leaves an event behind a cursor.
THEOREM CursorsCoverEvents == Spec => []CursorCovers
<1>1. IInv => CursorCovers
  BY DEF IInv, DataOK
<1> QED BY <1>1, Inductive, PTL

\* The guard leaves one gap only in which a parallel writer can lose a count.
THEOREM SummaryIsComplete == Spec => []SummaryCountsAll
<1>1. IInv => SummaryCountsAll
  BY DEF IInv, DataOK
<1> QED BY <1>1, Inductive, PTL
=============================================================================
