--------------------------- MODULE JobQueue_proofs ---------------------------
(***************************************************************************)
(* The work queue, proved for all values of its constants: type            *)
(* correctness, that the queue implements CollectionCursor, which ingests  *)
(* exactly once, that imports are ingested once and kept until then, and   *)
(* that the jobs which run are the worker's.                               *)
(***************************************************************************)
EXTENDS JobQueue, TLAPS

-----------------------------------------------------------------------------
(* Constants and values *)

LEMMA ConstantsAreNat ==
    /\ MaxJobs \in Nat /\ Cap \in Nat /\ MaxClock \in Nat /\ Window \in Nat
    /\ Lookback \in Nat /\ MaxCrashes \in Nat /\ MaxRetries \in Nat
    /\ Lookback <= MaxClock /\ NoSource \notin Sources
  BY QueueAssumption

LEMMA ValuesTyped ==
    /\ NoSpec \in Specs
    /\ Idle \in Handler
    /\ NoContext \in Context
    /\ NoPlan \in Plan
    /\ 0 \in Seconds
  <1>1. (CHOOSE c \in Configs : TRUE) \in Configs
    BY QueueAssumption
  <1>2. 0 \in Seconds
    BY ConstantsAreNat DEF Seconds
  <1>3. NoSpec \in Specs
    BY DEF NoSpec, Specs, Kinds
  <1>4. Idle \in Handler
    BY <1>1, <1>3 DEF Idle, Handler
  <1>5. NoContext \in Context
    BY <1>1, <1>2 DEF NoContext, Context
  <1>6. NoPlan \in Plan
    BY DEF NoPlan, Plan
  <1>7. QED  BY <1>2, <1>3, <1>4, <1>5, <1>6

LEMMA KindsTyped ==
    "poll" \in Kinds /\ "test" \in Kinds /\ "peer_groups" \in Kinds /\ WebKinds \subseteq Kinds
  BY DEF Kinds

-----------------------------------------------------------------------------
(* What a step leaves alone keeps its type *)

LEMMA QueueFrame == QueueTypeOK /\ UNCHANGED queueVars => QueueTypeOK'
  BY DEF QueueTypeOK, queueVars

LEMMA SourceFrame == SourceTypeOK /\ UNCHANGED sourceVars => SourceTypeOK'
  BY DEF SourceTypeOK, sourceVars

LEMMA WorkerFrame == WorkerTypeOK /\ UNCHANGED workerVars => WorkerTypeOK'
  BY DEF WorkerTypeOK, workerVars

LEMMA HistoryFrame == HistoryTypeOK /\ UNCHANGED historyVars => HistoryTypeOK'
  BY DEF HistoryTypeOK, historyVars

LEMMA EnvFrame == EnvTypeOK /\ UNCHANGED envVars => EnvTypeOK'
  BY DEF EnvTypeOK, envVars

-----------------------------------------------------------------------------
(* Type correctness *)

LEMMA InitTypeOK == Init => TypeOK
  <1> SUFFICES ASSUME Init PROVE TypeOK
    OBVIOUS
  <1>1. QueueTypeOK
    BY ConstantsAreNat, KindsTyped DEF Init, QueueTypeOK, Jobs, Absent
  <1>2. SourceTypeOK
    <2>1. (CHOOSE c \in Configs : TRUE) \in Configs
      BY QueueAssumption
    <2>2. QED  BY <2>1 DEF Init, SourceTypeOK
  <1>3. WorkerTypeOK
    BY ValuesTyped DEF Init, WorkerTypeOK, Places
  <1>4. HistoryTypeOK
    BY ValuesTyped DEF Init, HistoryTypeOK
  <1>5. EnvTypeOK
    <2>1. backend \in {"postgresql", "sqlite"}
      BY QueueAssumption DEF Init
    <2>2. clock \in Lookback .. MaxClock
      BY ConstantsAreNat DEF Init
    <2>3. crashes \in 0 .. MaxCrashes /\ retries \in 0 .. MaxRetries
      BY ConstantsAreNat DEF Init
    <2>4. QED  BY <2>1, <2>2, <2>3 DEF Init, EnvTypeOK
  <1>6. web \in Handler
    BY ValuesTyped DEF Init
  <1>7. QED  BY <1>1, <1>2, <1>3, <1>4, <1>5, <1>6 DEF TypeOK

\* The web process reading for a handler changes nothing but its own state.
LEMMA RequestTypeOK ==
    ASSUME TypeOK, web' \in Handler, retries' \in 0 .. MaxRetries,
           UNCHANGED <<queueVars, sourceVars, workerVars, historyVars,
                       backend, clock, peerDue, crashes>>
    PROVE  TypeOK'
  BY QueueFrame, SourceFrame, WorkerFrame, HistoryFrame
  DEF TypeOK, EnvTypeOK

LEMMA SourceJobRequestTypeOK ==
    ASSUME TypeOK, NEW s \in Sources, NEW kind \in {"poll", "test"}, SourceJobRequest(kind, s)
    PROVE  TypeOK'
  <1>1. [kind |-> kind, source |-> s, origin |-> "operator", events |-> FALSE] \in Specs
    BY KindsTyped DEF Specs
  <1>2. web' \in Handler
    BY <1>1, ValuesTyped DEF SourceJobRequest, Handler
  <1>3. QED
    BY <1>2, RequestTypeOK DEF SourceJobRequest, TypeOK, EnvTypeOK, envVars

LEMMA WebJobRequestTypeOK ==
    ASSUME TypeOK, NEW kind \in WebKinds, WebJobRequest(kind)
    PROVE  TypeOK'
  <1>1. [kind |-> kind, source |-> NoSource,
         origin |-> IF kind = "import" THEN "none" ELSE "operator",
         events |-> kind = "import"] \in Specs
    BY KindsTyped DEF Specs
  <1>2. web' \in Handler
    BY <1>1, ValuesTyped DEF WebJobRequest, Handler
  <1>3. QED
    BY <1>2, RequestTypeOK DEF WebJobRequest, TypeOK, EnvTypeOK, envVars

LEMMA SaveRequestTypeOK ==
    ASSUME TypeOK, NEW s \in Sources, NEW c \in Configs, NEW reset \in BOOLEAN,
           SaveRequest(s, c, reset)
    PROVE  TypeOK'
  <1>1. web' \in Handler
    BY ValuesTyped DEF SaveRequest, Handler
  <1>2. QED
    BY <1>1, RequestTypeOK DEF SaveRequest, TypeOK, EnvTypeOK, envVars

LEMMA RetryRequestTypeOK ==
    ASSUME TypeOK, NEW j \in Jobs, RetryRequest(j)
    PROVE  TypeOK'
  <1>1. web' \in Handler
    BY ValuesTyped DEF RetryRequest, Handler, TypeOK, QueueTypeOK
  <1>2. retries' \in 0 .. MaxRetries
    <2>1. retries' = retries \/ (retries < MaxRetries /\ retries' = retries + 1)
      BY DEF RetryRequest
    <2>2. QED  BY <2>1, ConstantsAreNat DEF TypeOK, EnvTypeOK
  <1>3. QED
    BY <1>1, <1>2, RequestTypeOK DEF RetryRequest

LEMMA CancelRequestTypeOK ==
    ASSUME TypeOK, NEW j \in Jobs, CancelRequest(j)
    PROVE  TypeOK'
  <1>1. web' \in Handler
    BY ValuesTyped DEF CancelRequest, Handler, TypeOK, QueueTypeOK
  <1>2. QED
    BY <1>1, RequestTypeOK DEF CancelRequest, TypeOK, EnvTypeOK, envVars

\* The rows Insert writes.
LEMMA InsertTypeOK ==
    ASSUME QueueTypeOK, NEW m \in n .. MaxJobs, NEW spec, Insert(m, spec),
           \A j \in n + 1 .. m : spec[j] \in Specs
    PROVE  QueueTypeOK'
  <1>1. \A j \in n + 1 .. m :
          /\ [kind |-> spec[j].kind, source |-> spec[j].source]
               \in [kind : Kinds, source : Sources \cup {NoSource}]
          /\ [origin |-> spec[j].origin, events |-> spec[j].events]
               \in [origin : {"operator", "scheduler", "none"}, events : BOOLEAN]
    BY DEF Specs
  <1>2. n' \in 0 .. MaxJobs
    BY ConstantsAreNat DEF Insert, QueueTypeOK
  <1>3. job' \in [Jobs -> [kind : Kinds, source : Sources \cup {NoSource}]]
    BY <1>1 DEF Insert, QueueTypeOK
  <1>4. status' \in [Jobs -> Statuses \cup {Absent}]
    BY DEF Insert, QueueTypeOK, Statuses
  <1>5. payload' \in [Jobs -> [origin : {"operator", "scheduler", "none"}, events : BOOLEAN]]
    BY <1>1 DEF Insert, QueueTypeOK
  <1>6. QED  BY <1>2, <1>3, <1>4, <1>5 DEF QueueTypeOK

LEMMA EnqueueCommitTypeOK == ASSUME TypeOK, EnqueueCommit PROVE TypeOK'
  <1>1. QueueTypeOK'
    <2>1. n + 1 \in n .. MaxJobs
      BY ConstantsAreNat DEF EnqueueCommit, TypeOK, QueueTypeOK
    <2>2. web.spec \in Specs
      BY DEF TypeOK, Handler
    <2>3. \A j \in n + 1 .. n + 1 : [i \in {n + 1} |-> web.spec][j] \in Specs
      BY <2>2 DEF TypeOK, QueueTypeOK
    <2>4. QED
      BY <2>1, <2>3, InsertTypeOK DEF EnqueueCommit, TypeOK
  <1>2. web' \in Handler
    BY ValuesTyped DEF EnqueueCommit
  <1>3. EnvTypeOK'
    BY DEF EnqueueCommit, TypeOK, EnvTypeOK
  <1>4. QED
    BY <1>1, <1>2, <1>3, SourceFrame, WorkerFrame, HistoryFrame DEF EnqueueCommit, TypeOK

LEMMA ToggleSourceTypeOK ==
    ASSUME TypeOK, NEW s \in Sources, ToggleSource(s)
    PROVE  TypeOK'
  BY QueueFrame, WorkerFrame, HistoryFrame, EnvFrame DEF ToggleSource, TypeOK, SourceTypeOK

LEMMA SaveCommitTypeOK == ASSUME TypeOK, SaveCommit PROVE TypeOK'
  <1>1. SourceTypeOK'
    BY DEF SaveCommit, TypeOK, SourceTypeOK, Handler
  <1>2. HistoryTypeOK'
    <2>1. base' \in [Sources -> Seconds]
      BY ValuesTyped DEF SaveCommit, TypeOK, HistoryTypeOK
    <2>2. count' \in [Sources -> [Seconds -> Nat]]
      <3>1. [t \in Seconds |-> 0] \in [Seconds -> Nat]
        OBVIOUS
      <3>2. CASE web.reset
        BY <3>1, <3>2 DEF SaveCommit, TypeOK, HistoryTypeOK
      <3>3. CASE ~web.reset
        BY <3>3 DEF SaveCommit, TypeOK, HistoryTypeOK
      <3>4. QED  BY <3>2, <3>3
    <2>3. QED
      BY <2>1, <2>2 DEF SaveCommit, TypeOK, HistoryTypeOK
  <1>3. QED
    BY <1>1, <1>2, ValuesTyped, QueueFrame, WorkerFrame, EnvFrame DEF SaveCommit, TypeOK

LEMMA RetryCommitTypeOK == ASSUME TypeOK, RetryCommit PROVE TypeOK'
  <1>1. QueueTypeOK'
    BY DEF RetryCommit, TypeOK, QueueTypeOK, Statuses
  <1>2. QED
    BY <1>1, ValuesTyped, SourceFrame, WorkerFrame, HistoryFrame, EnvFrame DEF RetryCommit, TypeOK

\* What remains of a payload is a payload.
LEMMA KeptTyped ==
    ASSUME NEW p \in [origin : {"operator", "scheduler", "none"}, events : BOOLEAN],
           NEW keepOrigin \in BOOLEAN
    PROVE  Kept(p, keepOrigin) \in [origin : {"operator", "scheduler", "none"}, events : BOOLEAN]
  BY DEF Kept

LEMMA CancelCommitTypeOK == ASSUME TypeOK, CancelCommit PROVE TypeOK'
  <1>1. QueueTypeOK'
    <2>1. status' \in [Jobs -> Statuses \cup {Absent}]
      BY DEF CancelCommit, TypeOK, QueueTypeOK, Statuses
    <2>2. payload' \in [Jobs -> [origin : {"operator", "scheduler", "none"}, events : BOOLEAN]]
      <3>1. web.job \in Jobs =>
              Kept(payload[web.job], TRUE) \in
                [origin : {"operator", "scheduler", "none"}, events : BOOLEAN]
        BY KeptTyped DEF TypeOK, QueueTypeOK
      <3>2. CASE web.seen = "queued"
        BY <3>1, <3>2 DEF CancelCommit, TypeOK, QueueTypeOK
      <3>3. CASE web.seen # "queued"
        BY <3>3 DEF CancelCommit, TypeOK, QueueTypeOK
      <3>4. QED  BY <3>2, <3>3
    <2>3. QED
      BY <2>1, <2>2 DEF CancelCommit, TypeOK, QueueTypeOK
  <1>2. QED
    BY <1>1, ValuesTyped, SourceFrame, WorkerFrame, HistoryFrame, EnvFrame DEF CancelCommit, TypeOK

\* The steps that change the worker's own state and nothing else.
LEMMA WorkerOnlyTypeOK ==
    ASSUME TypeOK, WorkerTypeOK',
           UNCHANGED <<queueVars, sourceVars, historyVars, envVars, web>>
    PROVE  TypeOK'
  BY QueueFrame, SourceFrame, HistoryFrame, EnvFrame DEF TypeOK

LEMMA TickScanTypeOK == ASSUME TypeOK, TickScan PROVE TypeOK'
  <1>1. \A s \in Sources : PollSpec(s) \in Specs
    BY KindsTyped DEF PollSpec, Specs
  <1>2. PeerSpec \in Specs
    BY KindsTyped DEF PeerSpec, Specs
  <1>3. ASSUME NEW due \in SUBSET {s \in Sources : enabled[s]}, NEW polls \in PollsFor(due)
        PROVE  /\ polls \subseteq Sources
               /\ \A V \in Visits(due, polls) : V \subseteq Sources
    BY DEF PollsFor, Visits
  <1>4. plan' \in Plan
    BY <1>1, <1>2, <1>3 DEF TickScan, Plan, TypeOK, WorkerTypeOK
  <1>5. pc' \in Places
    BY DEF TickScan, Places, TypeOK, WorkerTypeOK
  <1>6. QED
    BY <1>4, <1>5, WorkerOnlyTypeOK DEF TickScan, TypeOK, WorkerTypeOK

LEMMA TickCommitTypeOK == ASSUME TypeOK, TickCommit PROVE TypeOK'
  <1>1. QueueTypeOK'
    <2>1. PICK m \in n .. MaxJobs : \E spec \in [n + 1 .. m -> plan.new] : Insert(m, spec)
      BY DEF TickCommit
    <2>2. PICK spec \in [n + 1 .. m -> plan.new] : Insert(m, spec)
      BY <2>1
    <2>3. \A j \in n + 1 .. m : spec[j] \in Specs
      BY DEF TypeOK, WorkerTypeOK, Plan
    <2>4. QED
      BY <2>2, <2>3, InsertTypeOK DEF TypeOK
  <1>2. WorkerTypeOK'
    <2>1. Choice(status', job', payload') \subseteq Jobs
      BY DEF Choice, Oldest
    <2>2. cur' \in Jobs \cup {0}
      BY <2>1 DEF TickCommit
    <2>3. pc' \in Places
      BY DEF TickCommit, Places
    <2>4. QED
      BY <2>2, <2>3, ValuesTyped DEF TickCommit, TypeOK, WorkerTypeOK
  <1>3. EnvTypeOK'
    BY DEF TickCommit, TypeOK, EnvTypeOK
  <1>4. QED
    BY <1>1, <1>2, <1>3, SourceFrame, HistoryFrame DEF TickCommit, TypeOK

\* Where the worker has a job, the job is a row of the table.
LEMMA CurrentJobTyped ==
    ASSUME TypeOK, WorkerHolds, pc \in Occupied
    PROVE  /\ cur \in Jobs /\ cur \in 1 .. n
           /\ job[cur].source \in Sources \cup {NoSource}
           /\ job[cur].kind \in Kinds
           /\ status[cur] \in Statuses \cup {Absent}
           /\ payload[cur] \in [origin : {"operator", "scheduler", "none"}, events : BOOLEAN]
  <1>1. cur \in Jobs /\ cur \in 1 .. n
    BY ConstantsAreNat DEF WorkerHolds, TypeOK, QueueTypeOK, Jobs
  <1>2. QED
    BY <1>1 DEF TypeOK, QueueTypeOK

LEMMA StartReadTypeOK == ASSUME TypeOK, WorkerHolds, StartRead PROVE TypeOK'
  <1>1. /\ cur \in Jobs /\ job[cur].source \in Sources \cup {NoSource}
        /\ payload[cur].events \in BOOLEAN
    BY CurrentJobTyped DEF StartRead, Occupied
  <1>2. ctx' \in Context
    <2>1. CASE status[cur] = "queued"
      <3>1. CASE job[cur].source = NoSource
        BY <1>1, <2>1, <3>1, ValuesTyped DEF StartRead, Taken, Context, Statuses
      <3>2. CASE job[cur].source # NoSource
        <4>1. /\ cfg[job[cur].source] \in Configs
              /\ checkpoint[job[cur].source] \in Seconds \cup {NoCursor}
          BY <1>1, <3>2 DEF TypeOK, SourceTypeOK
        <4>2. ctx' = [NoContext EXCEPT !.seen = "queued", !.cfg = cfg[job[cur].source],
                                       !.cursor = checkpoint[job[cur].source]]
          BY <2>1, <3>2 DEF StartRead
        <4>3. QED
          BY <4>1, <4>2, ValuesTyped DEF Context, Statuses
      <3>3. QED  BY <3>1, <3>2
    <2>2. CASE status[cur] = "cancel_requested"
      BY <2>2, ValuesTyped DEF StartRead, Context, Statuses
    <2>3. CASE status[cur] \notin {"queued", "cancel_requested"}
      BY <2>3 DEF StartRead, TypeOK, WorkerTypeOK
    <2>4. QED  BY <2>1, <2>2, <2>3
  <1>3. pc' \in Places /\ cur' \in Jobs \cup {0}
    BY <1>1 DEF StartRead, Places
  <1>4. QED
    BY <1>2, <1>3, WorkerOnlyTypeOK DEF StartRead, TypeOK, WorkerTypeOK

LEMMA StartCommitTypeOK == ASSUME TypeOK, WorkerHolds, StartCommit PROVE TypeOK'
  <1>1. cur \in Jobs
    BY CurrentJobTyped DEF StartCommit, Occupied
  <1>2. Kept(payload[cur], FALSE) \in [origin : {"operator", "scheduler", "none"}, events : BOOLEAN]
    BY <1>1, KeptTyped DEF TypeOK, QueueTypeOK
  <1>3. QueueTypeOK'
    BY <1>1, <1>2 DEF StartCommit, TypeOK, QueueTypeOK, Statuses
  <1>4. WorkerTypeOK'
    BY ValuesTyped DEF StartCommit, TypeOK, WorkerTypeOK, Places, Context
  <1>5. QED
    BY <1>3, <1>4, SourceFrame, HistoryFrame, EnvFrame DEF StartCommit, TypeOK

LEMMA HeartbeatTypeOK == ASSUME TypeOK, Heartbeat PROVE TypeOK'
  <1>1. WorkerTypeOK'
    BY ValuesTyped DEF Heartbeat, TypeOK, WorkerTypeOK, Places
  <1>2. QED
    BY <1>1, WorkerOnlyTypeOK DEF Heartbeat

\* A poll begins at the cursor of its snapshot or within the index time.
LEMMA PollStartTyped == ASSUME TypeOK PROVE PollStart \in Seconds
  <1>1. clock - Lookback \in Seconds
    BY ConstantsAreNat DEF TypeOK, EnvTypeOK, Seconds
  <1>2. ctx.cursor \in Seconds \cup {NoCursor}
    BY DEF TypeOK, WorkerTypeOK, Context
  <1>3. QED
    BY <1>1, <1>2 DEF PollStart

LEMMA CollectPollTypeOK == ASSUME TypeOK, CollectPoll PROVE TypeOK'
  <1>1. WorkerTypeOK'
    BY PollStartTyped DEF CollectPoll, TypeOK, WorkerTypeOK, Places, Context
  <1>2. QED
    BY <1>1, WorkerOnlyTypeOK DEF CollectPoll

LEMMA WorkFailsTypeOK == ASSUME TypeOK, WorkFails PROVE TypeOK'
  <1>1. WorkerTypeOK'
    BY DEF WorkFails, TypeOK, WorkerTypeOK, Places
  <1>2. QED
    BY <1>1, WorkerOnlyTypeOK DEF WorkFails

LEMMA FinalReadTypeOK == ASSUME TypeOK, WorkerHolds, FinalRead PROVE TypeOK'
  <1>1. job[cur].source \in Sources \cup {NoSource}
    BY CurrentJobTyped DEF FinalRead, Occupied
  <1>2. ctx' \in Context
    BY <1>1 DEF FinalRead, TypeOK, WorkerTypeOK, SourceTypeOK, Context
  <1>3. pc' \in Places
    BY DEF FinalRead, Places
  <1>4. QED
    BY <1>2, <1>3, WorkerOnlyTypeOK DEF FinalRead, TypeOK, WorkerTypeOK

LEMMA AdvanceCursorTypeOK ==
    ASSUME TypeOK, NEW s, AdvanceCursor(s)
    PROVE  /\ checkpoint' \in [Sources -> Seconds \cup {NoCursor}]
           /\ base' \in [Sources -> Seconds]
           /\ count' \in [Sources -> [Seconds -> Nat]]
  <1>1. ctx.to \in Seconds /\ ctx.from \in Seconds
    BY DEF TypeOK, WorkerTypeOK, Context
  <1>2. count' \in [Sources -> [Seconds -> Nat]]
    <2>1. s \in Sources =>
            [t \in Seconds |-> IF ctx.from <= t /\ t < ctx.to
                               THEN count[s][t] + 1 ELSE count[s][t]] \in [Seconds -> Nat]
      BY DEF TypeOK, HistoryTypeOK
    <2>2. QED
      BY <2>1 DEF AdvanceCursor, IngestCollected, TypeOK, HistoryTypeOK
  <1>3. checkpoint' \in [Sources -> Seconds \cup {NoCursor}]
    BY <1>1 DEF AdvanceCursor, TypeOK, SourceTypeOK
  <1>4. base' \in [Sources -> Seconds]
    BY <1>1 DEF AdvanceCursor, TypeOK, HistoryTypeOK
  <1>5. QED  BY <1>2, <1>3, <1>4

LEMMA FinalCommitTypeOK == ASSUME TypeOK, WorkerHolds, FinalCommit PROVE TypeOK'
  <1>1. cur \in Jobs
    BY CurrentJobTyped DEF FinalCommit, Occupied
  <1>2. Kept(payload[cur], TRUE) \in [origin : {"operator", "scheduler", "none"}, events : BOOLEAN]
    BY <1>1, KeptTyped DEF TypeOK, QueueTypeOK
  <1>3. QueueTypeOK'
    BY <1>1, <1>2 DEF FinalCommit, TypeOK, QueueTypeOK, Statuses
  <1>4. /\ checkpoint' \in [Sources -> Seconds \cup {NoCursor}]
        /\ base' \in [Sources -> Seconds]
        /\ count' \in [Sources -> [Seconds -> Nat]]
    BY AdvanceCursorTypeOK DEF FinalCommit, TypeOK, SourceTypeOK, HistoryTypeOK
  <1>5. failing' \in [Sources -> BOOLEAN]
    BY DEF FinalCommit, TypeOK, SourceTypeOK
  <1>6. delivered' \in [Jobs -> Nat]
    <2>1. delivered[cur] \in Nat /\ delivered[cur] + 1 \in Nat
      BY <1>1 DEF TypeOK, HistoryTypeOK
    <2>2. delivered' = [delivered EXCEPT ![cur] = IF ctx.events THEN delivered[cur] + 1
                                                                ELSE delivered[cur]]
      BY DEF FinalCommit
    <2>3. QED
      BY <2>1, <2>2 DEF TypeOK, HistoryTypeOK
  <1>7. EnvTypeOK'
    BY DEF FinalCommit, TypeOK, EnvTypeOK
  <1>8. WorkerTypeOK'
    BY ValuesTyped DEF FinalCommit, TypeOK, WorkerTypeOK, Places
  <1>9. QED
    BY <1>3, <1>4, <1>5, <1>6, <1>7, <1>8
    DEF FinalCommit, TypeOK, SourceTypeOK, HistoryTypeOK

LEMMA ExceptReadTypeOK == ASSUME TypeOK, WorkerHolds, ExceptRead PROVE TypeOK'
  <1>1. status[cur] \in Statuses \cup {Absent}
    BY CurrentJobTyped DEF ExceptRead, Occupied
  <1>2. WorkerTypeOK'
    BY <1>1, ValuesTyped DEF ExceptRead, TypeOK, WorkerTypeOK, Places, Context
  <1>3. QED
    BY <1>2, WorkerOnlyTypeOK DEF ExceptRead

LEMMA ExceptCommitTypeOK == ASSUME TypeOK, WorkerHolds, ExceptCommit PROVE TypeOK'
  <1>1. cur \in Jobs
    BY CurrentJobTyped DEF ExceptCommit, Occupied
  <1>2. Kept(payload[cur], FALSE) \in [origin : {"operator", "scheduler", "none"}, events : BOOLEAN]
    BY <1>1, KeptTyped DEF TypeOK, QueueTypeOK
  <1>3. QueueTypeOK'
    BY <1>1, <1>2 DEF ExceptCommit, TypeOK, QueueTypeOK, Statuses
  <1>4. SourceTypeOK'
    BY DEF ExceptCommit, TypeOK, SourceTypeOK
  <1>5. WorkerTypeOK'
    BY ValuesTyped DEF ExceptCommit, TypeOK, WorkerTypeOK, Places
  <1>6. QED
    BY <1>3, <1>4, <1>5, HistoryFrame, EnvFrame DEF ExceptCommit, TypeOK

LEMMA CrashTypeOK == ASSUME TypeOK, Crash PROVE TypeOK'
  <1>1. WorkerTypeOK'
    BY ValuesTyped DEF Crash, WorkerTypeOK, Places
  <1>2. EnvTypeOK'
    BY ConstantsAreNat DEF Crash, TypeOK, EnvTypeOK
  <1>3. QED
    BY <1>1, <1>2, QueueFrame, SourceFrame, HistoryFrame DEF Crash, TypeOK

LEMMA DbFaultTypeOK == ASSUME TypeOK, DbFault PROVE TypeOK'
  <1>1. WorkerTypeOK'
    BY ValuesTyped DEF DbFault, WorkerTypeOK, Places
  <1>2. QED
    BY <1>1, WorkerOnlyTypeOK DEF DbFault

LEMMA RecoverTypeOK == ASSUME TypeOK, Recover PROVE TypeOK'
  <1>1. \A j \in Jobs : Kept(payload[j], FALSE) \in
                          [origin : {"operator", "scheduler", "none"}, events : BOOLEAN]
    BY KeptTyped DEF TypeOK, QueueTypeOK
  <1>2. QueueTypeOK'
    BY <1>1 DEF Recover, TypeOK, QueueTypeOK, Statuses
  <1>3. SourceTypeOK'
    BY DEF Recover, TypeOK, SourceTypeOK
  <1>4. WorkerTypeOK'
    BY DEF Recover, TypeOK, WorkerTypeOK, Places
  <1>5. EnvTypeOK'
    BY DEF Recover, TypeOK, EnvTypeOK
  <1>6. QED
    BY <1>2, <1>3, <1>4, <1>5, HistoryFrame DEF Recover, TypeOK

LEMMA TimeTypeOK == ASSUME TypeOK, TimePasses \/ PeerHourPasses PROVE TypeOK'
  <1>1. clock' \in Lookback .. MaxClock
    BY ConstantsAreNat DEF TimePasses, PeerHourPasses, TypeOK, EnvTypeOK
  <1>2. EnvTypeOK'
    BY <1>1 DEF TimePasses, PeerHourPasses, TypeOK, EnvTypeOK
  <1>3. QED
    BY <1>2, QueueFrame, SourceFrame, WorkerFrame, HistoryFrame
    DEF TimePasses, PeerHourPasses, TypeOK

\* One step per action: types are kept where the worker has the job it is at.
LEMMA NextTypeOK == ASSUME TypeOK, WorkerHolds, [Next]_vars PROVE TypeOK'
  <1>1. ASSUME NEW s \in Sources, NEW kind \in {"poll", "test"}, SourceJobRequest(kind, s)
        PROVE  TypeOK'
    BY <1>1, SourceJobRequestTypeOK
  <1>2. ASSUME NEW s \in Sources, ToggleSource(s) PROVE TypeOK'
    BY <1>2, ToggleSourceTypeOK
  <1>3. ASSUME NEW s \in Sources, NEW c \in Configs, NEW reset \in BOOLEAN, SaveRequest(s, c, reset)
        PROVE  TypeOK'
    BY <1>3, SaveRequestTypeOK
  <1>4. ASSUME NEW kind \in WebKinds, WebJobRequest(kind) PROVE TypeOK'
    BY <1>4, WebJobRequestTypeOK
  <1>5. ASSUME NEW j \in Jobs, RetryRequest(j) \/ CancelRequest(j) PROVE TypeOK'
    BY <1>5, RetryRequestTypeOK, CancelRequestTypeOK
  <1>6. CASE WebCommit
    BY <1>6, EnqueueCommitTypeOK, SaveCommitTypeOK, RetryCommitTypeOK, CancelCommitTypeOK
    DEF WebCommit
  <1>7. CASE TickScan \/ TickCommit
    BY <1>7, TickScanTypeOK, TickCommitTypeOK
  <1>8. CASE StartRead \/ StartCommit \/ Heartbeat
    BY <1>8, StartReadTypeOK, StartCommitTypeOK, HeartbeatTypeOK
  <1>9. CASE CollectPoll \/ WorkFails \/ FinalRead \/ FinalCommit
    BY <1>9, CollectPollTypeOK, WorkFailsTypeOK, FinalReadTypeOK, FinalCommitTypeOK
  <1>10. CASE ExceptRead \/ ExceptCommit
    BY <1>10, ExceptReadTypeOK, ExceptCommitTypeOK
  <1>11. CASE Crash \/ DbFault \/ Recover
    BY <1>11, CrashTypeOK, DbFaultTypeOK, RecoverTypeOK
  <1>12. CASE TimePasses \/ PeerHourPasses
    BY <1>12, TimeTypeOK
  <1>13. CASE UNCHANGED vars
    BY <1>13, QueueFrame, SourceFrame, WorkerFrame, HistoryFrame, EnvFrame DEF vars, TypeOK
  <1>14. QED
    BY <1>1, <1>2, <1>3, <1>4, <1>5, <1>6, <1>7, <1>8, <1>9, <1>10, <1>11, <1>12, <1>13
    DEF Next, WebNext, WorkerStep

-----------------------------------------------------------------------------
(* The rows and the job of the worker *)

\* The steps of the worker and of the environment that write no job.
Quiet == \/ TickScan \/ StartRead \/ Heartbeat \/ CollectPoll \/ WorkFails \/ FinalRead
         \/ ExceptRead \/ Crash \/ DbFault \/ TimePasses \/ PeerHourPasses

LEMMA QuietKeepsTheQueue == ASSUME Quiet PROVE UNCHANGED <<n, job, status, payload, web>>
  BY DEF Quiet, TickScan, StartRead, Heartbeat, CollectPoll, WorkFails, FinalRead, ExceptRead,
         Crash, DbFault, TimePasses, PeerHourPasses, queueVars

\* The handlers of the web process that have read and not yet written.
Reading == \/ \E s \in Sources :
                \/ \E kind \in {"poll", "test"} : SourceJobRequest(kind, s)
                \/ \E c \in Configs, reset \in BOOLEAN : SaveRequest(s, c, reset)
           \/ \E kind \in WebKinds : WebJobRequest(kind)

LEMMA ReadingChangesWebOnly ==
    ASSUME Reading
    PROVE  /\ UNCHANGED <<queueVars, sourceVars, workerVars, historyVars, envVars>>
           /\ web'.job = 0 /\ web = Idle
  <1>1. ASSUME NEW s \in Sources, NEW kind \in {"poll", "test"}, SourceJobRequest(kind, s)
        PROVE  /\ UNCHANGED <<queueVars, sourceVars, workerVars, historyVars, envVars>>
               /\ web'.job = 0 /\ web = Idle
    BY <1>1 DEF SourceJobRequest, Idle
  <1>2. ASSUME NEW s \in Sources, NEW c \in Configs, NEW reset \in BOOLEAN, SaveRequest(s, c, reset)
        PROVE  /\ UNCHANGED <<queueVars, sourceVars, workerVars, historyVars, envVars>>
               /\ web'.job = 0 /\ web = Idle
    BY <1>2 DEF SaveRequest, Idle
  <1>3. ASSUME NEW kind \in WebKinds, WebJobRequest(kind)
        PROVE  /\ UNCHANGED <<queueVars, sourceVars, workerVars, historyVars, envVars>>
               /\ web'.job = 0 /\ web = Idle
    BY <1>3 DEF WebJobRequest, Idle
  <1>4. QED  BY <1>1, <1>2, <1>3 DEF Reading

\* The rows that an insertion adds exist, and the others stay.
LEMMA InsertRows ==
    ASSUME QueueTypeOK, NEW m \in n .. MaxJobs, NEW spec, Insert(m, spec)
    PROVE  /\ n' = m /\ n <= n'
           /\ \A j \in Jobs : j <= n => job'[j] = job[j] /\ status'[j] = status[j]
           /\ \A j \in Jobs : n < j /\ j <= m => job'[j].kind = spec[j].kind
                                                 /\ job'[j].source = spec[j].source
           /\ \A j \in Jobs : m < j => job'[j] = job[j] /\ status'[j] = status[j]
  <1>1. m \in Nat /\ n \in Nat /\ MaxJobs \in Nat
    BY ConstantsAreNat DEF QueueTypeOK
  <1>2. QED
    BY <1>1 DEF Insert, Jobs

LEMMA EnqueueCommitInserts ==
    ASSUME TypeOK, EnqueueCommit
    PROVE  n + 1 \in n .. MaxJobs /\ Insert(n + 1, [j \in {n + 1} |-> web.spec])
  BY ConstantsAreNat DEF EnqueueCommit, TypeOK, QueueTypeOK

LEMMA NextRowsExist == ASSUME TypeOK, RowsExist, WorkerHolds, [Next]_vars PROVE RowsExist'
  <1> USE DEF RowsExist
  <1>1. CASE Reading
    BY <1>1, ReadingChangesWebOnly DEF queueVars, TypeOK, QueueTypeOK
  <1>2. ASSUME NEW j \in Jobs, RetryRequest(j) \/ CancelRequest(j) PROVE RowsExist'
    <2>1. status[j] # Absent /\ web'.job = j /\ UNCHANGED <<n, status>>
      BY <1>2 DEF RetryRequest, CancelRequest, Idle, Absent, queueVars
    <2>2. QED  BY <2>1
  <1>3. CASE EnqueueCommit
    <2>1. web'.job = 0
      BY <1>3 DEF EnqueueCommit, Idle
    <2>2. QED
      BY <1>3, <2>1, EnqueueCommitInserts, InsertRows, ConstantsAreNat DEF TypeOK, QueueTypeOK, Jobs
  <1>4. CASE RetryCommit
    <2>1. web'.job = 0 /\ n' = n /\ status' = [status EXCEPT ![web.job] = "queued"]
      BY <1>4 DEF RetryCommit, Idle
    <2>2. QED  BY <2>1 DEF TypeOK, QueueTypeOK
  <1>5. CASE CancelCommit
    <2>1. web'.job = 0 /\ n' = n
      BY <1>5 DEF CancelCommit, Idle
    <2>2. \A j \in Jobs : j # web.job => status'[j] = status[j]
      BY <1>5 DEF CancelCommit, TypeOK, QueueTypeOK
    <2>3. QED  BY <2>1, <2>2 DEF TypeOK, QueueTypeOK
  <1>6. CASE SaveCommit
    <2>1. web'.job = 0 /\ UNCHANGED <<n, status>>
      BY <1>6 DEF SaveCommit, Idle, queueVars
    <2>2. QED  BY <2>1 DEF TypeOK, QueueTypeOK
  <1>7. ASSUME NEW s \in Sources, ToggleSource(s) PROVE RowsExist'
    BY <1>7 DEF ToggleSource, queueVars
  <1>8. CASE TickCommit
    <2>1. PICK m \in n .. MaxJobs : \E spec \in [n + 1 .. m -> plan.new] : Insert(m, spec)
      BY <1>8 DEF TickCommit
    <2>2. PICK spec \in [n + 1 .. m -> plan.new] : Insert(m, spec)
      BY <2>1
    <2>3. m \in Nat /\ n \in Nat /\ web' = web
      BY <1>8, ConstantsAreNat DEF TickCommit, TypeOK, QueueTypeOK
    <2>4. n' = m /\ n <= n' /\ \A j \in Jobs : m < j => status'[j] = status[j]
      BY <2>2, InsertRows DEF TypeOK
    <2>5. web.job \in Nat
      BY <2>3, ConstantsAreNat DEF TypeOK, Handler, Jobs
    <2>6. QED  BY <2>3, <2>4, <2>5 DEF Jobs
  <1>9. CASE StartCommit \/ FinalCommit \/ ExceptCommit
    <2>1. cur \in Jobs /\ cur \in 1 .. n
      BY <1>9, CurrentJobTyped DEF StartCommit, FinalCommit, ExceptCommit, Occupied
    <2>2. \A j \in Jobs : j # cur => status'[j] = status[j]
      BY <1>9 DEF StartCommit, FinalCommit, ExceptCommit, TypeOK, QueueTypeOK
    <2>3. UNCHANGED <<n, web>>
      BY <1>9 DEF StartCommit, FinalCommit, ExceptCommit
    <2>4. QED  BY <2>1, <2>2, <2>3 DEF TypeOK, QueueTypeOK
  <1>10. CASE Recover
    <2>1. \A j \in Jobs : status[j] = Absent => status'[j] = Absent
      BY <1>10 DEF Recover, Interrupted, Absent
    <2>2. QED  BY <1>10, <2>1 DEF Recover
  <1>11. CASE Quiet
    BY <1>11, QuietKeepsTheQueue
  <1>12. CASE UNCHANGED vars
    BY <1>12 DEF vars, queueVars
  <1>13. QED
    BY <1>1, <1>2, <1>3, <1>4, <1>5, <1>6, <1>7, <1>8, <1>9, <1>10, <1>11, <1>12
    DEF Next, WebNext, WebCommit, WorkerStep, Reading, Quiet

\* What the web process does, the worker neither loses its job nor its rows.
WebStep == \/ Reading \/ WebCommit
           \/ \E s \in Sources : ToggleSource(s)
           \/ \E j \in Jobs : RetryRequest(j) \/ CancelRequest(j)

LEMMA NextSplits ==
    ASSUME [Next]_vars
    PROVE  \/ WebStep \/ TickCommit \/ StartCommit \/ FinalCommit \/ ExceptCommit \/ Recover
           \/ Quiet \/ UNCHANGED vars
  BY DEF Next, WebNext, WorkerStep, WebStep, Reading, Quiet

LEMMA WebKeepsTheWorker ==
    ASSUME TypeOK, WebStep
    PROVE  /\ UNCHANGED workerVars
           /\ n <= n' /\ \A j \in Jobs : j <= n => job'[j] = job[j]
           /\ \A s \in Sources : checkpoint'[s] \in {checkpoint[s], NoCursor}
  <1> DEFINE Goal == /\ UNCHANGED workerVars
                     /\ n <= n' /\ \A j \in Jobs : j <= n => job'[j] = job[j]
                     /\ \A s \in Sources : checkpoint'[s] \in {checkpoint[s], NoCursor}
  <1>0. n \in Int
    BY DEF TypeOK, QueueTypeOK
  <1>1. CASE Reading
    BY <1>0, <1>1, ReadingChangesWebOnly DEF queueVars, sourceVars
  <1>2. CASE EnqueueCommit
    <2>1. UNCHANGED <<workerVars, sourceVars>>
      BY <1>2 DEF EnqueueCommit
    <2>2. QED
      BY <1>2, <2>1, EnqueueCommitInserts, InsertRows DEF sourceVars, TypeOK
  <1>3. CASE SaveCommit
    <2>1. UNCHANGED <<n, job, workerVars>>
      BY <1>3 DEF SaveCommit, queueVars
    <2>2. \A s \in Sources : checkpoint'[s] \in {checkpoint[s], NoCursor}
      BY <1>3 DEF SaveCommit, TypeOK, SourceTypeOK
    <2>3. QED  BY <1>0, <2>1, <2>2
  <1>4. CASE RetryCommit
    BY <1>0, <1>4 DEF RetryCommit, sourceVars
  <1>5. CASE CancelCommit
    BY <1>0, <1>5 DEF CancelCommit, sourceVars
  <1>6. ASSUME NEW s \in Sources, ToggleSource(s) PROVE Goal
    BY <1>0, <1>6 DEF ToggleSource, queueVars
  <1>7. ASSUME NEW j \in Jobs, RetryRequest(j) \/ CancelRequest(j) PROVE Goal
    <2>1. UNCHANGED <<queueVars, sourceVars, workerVars>>
      BY <1>7 DEF RetryRequest, CancelRequest
    <2>2. QED  BY <1>0, <2>1 DEF queueVars, sourceVars
  <1>8. QED
    BY <1>1, <1>2, <1>3, <1>4, <1>5, <1>6, <1>7 DEF WebStep, WebCommit

LEMMA NextWorkerHolds ==
    ASSUME TypeOK, RowsExist, WorkerHolds, TypeOK', RowsExist', [Next]_vars
    PROVE  WorkerHolds'
  <1>1. CASE WebStep
    <2>1. UNCHANGED <<pc, cur>> /\ n <= n'
      BY <1>1, WebKeepsTheWorker DEF workerVars
    <2>2. n \in Nat /\ n' \in Nat /\ cur \in Nat
      BY ConstantsAreNat DEF TypeOK, QueueTypeOK, WorkerTypeOK, Jobs
    <2>3. QED  BY <2>1, <2>2 DEF WorkerHolds
  <1>2. CASE TickCommit
    <2>1. \A j \in Choice(status', job', payload') : j \in Jobs /\ status'[j] = "queued"
      BY DEF Choice, Oldest
    <2>2. \A j \in Choice(status', job', payload') : j \in 1 .. n'
      BY <2>1, ConstantsAreNat DEF RowsExist, Absent, Jobs, TypeOK, QueueTypeOK
    <2>3. cur' \in Choice(status', job', payload') \/ pc' = "idle"
      BY <1>2 DEF TickCommit
    <2>4. QED  BY <2>2, <2>3 DEF WorkerHolds, Occupied
  <1>3. CASE StartCommit
    BY <1>3 DEF StartCommit, WorkerHolds, Occupied
  <1>4. CASE FinalCommit \/ ExceptCommit \/ Recover
    BY <1>4 DEF FinalCommit, ExceptCommit, Recover, WorkerHolds, Occupied
  <1>5. CASE Quiet
    BY <1>5, QuietKeepsTheQueue
    DEF Quiet, WorkerHolds, Occupied, TickScan, StartRead, Heartbeat, CollectPoll, WorkFails,
        FinalRead, ExceptRead, Crash, DbFault, TimePasses, PeerHourPasses, workerVars
  <1>6. CASE UNCHANGED vars
    BY <1>6 DEF vars, workerVars, queueVars, WorkerHolds
  <1>7. QED
    BY <1>1, <1>2, <1>3, <1>4, <1>5, <1>6, NextSplits

\* Types, rows and the worker's job are right in every reachable state.
THEOREM QueueTypeCorrect == Spec => [](TypeOK /\ RowsExist /\ WorkerHolds)
  <1>1. Init => TypeOK /\ RowsExist /\ WorkerHolds
    <2>1. Init => RowsExist
      BY ConstantsAreNat DEF Init, RowsExist, Idle
    <2>2. Init => WorkerHolds
      BY DEF Init, WorkerHolds, Occupied
    <2>3. QED  BY <2>1, <2>2, InitTypeOK
  <1>2. TypeOK /\ RowsExist /\ WorkerHolds /\ [Next]_vars => (TypeOK /\ RowsExist /\ WorkerHolds)'
    BY NextTypeOK, NextRowsExist, NextWorkerHolds
  <1>3. QED
    BY <1>1, <1>2, PTL DEF Spec

\* Every variable keeps its type.
THEOREM TypesAreRight == Spec => []TypeOK
  BY QueueTypeCorrect, PTL

-----------------------------------------------------------------------------
(* The cursor a poll follows *)

LEMMA NextPollsHaveSources ==
    ASSUME TypeOK, RowsExist, WorkerHolds, PollsHaveSources, [Next]_vars
    PROVE  PollsHaveSources'
  <1> USE DEF PollsHaveSources, PollHasSource
  <1>1. ASSUME NEW s \in Sources, NEW kind \in {"poll", "test"}, SourceJobRequest(kind, s)
        PROVE  PollsHaveSources'
    BY <1>1 DEF SourceJobRequest, Idle, queueVars, workerVars
  <1>2. ASSUME NEW kind \in WebKinds, WebJobRequest(kind) PROVE PollsHaveSources'
    <2>1. kind # "poll"
      BY <1>2, QueueAssumption
    <2>2. QED  BY <1>2, <2>1 DEF WebJobRequest, Idle, queueVars, workerVars
  <1>3. ASSUME NEW s \in Sources, NEW c \in Configs, NEW reset \in BOOLEAN, SaveRequest(s, c, reset)
        PROVE  PollsHaveSources'
    BY <1>3 DEF SaveRequest, Idle, NoSpec, queueVars, workerVars
  <1>4. ASSUME NEW j \in Jobs, RetryRequest(j) \/ CancelRequest(j) PROVE PollsHaveSources'
    <2>1. web'.spec = NoSpec
      BY <1>4 DEF RetryRequest, CancelRequest, Idle
    <2>2. UNCHANGED <<job, plan>>
      BY <1>4 DEF RetryRequest, CancelRequest, queueVars, workerVars
    <2>3. QED  BY <2>1, <2>2 DEF NoSpec
  <1>5. ASSUME NEW s \in Sources, ToggleSource(s) PROVE PollsHaveSources'
    BY <1>5 DEF ToggleSource, queueVars, workerVars
  <1>6. CASE EnqueueCommit
    <2>1. web'.spec = NoSpec /\ plan' = plan
      BY <1>6 DEF EnqueueCommit, Idle, workerVars
    <2>2. \A j \in Jobs : PollHasSource(job'[j])
      BY <1>6, EnqueueCommitInserts, InsertRows DEF TypeOK, QueueTypeOK, Jobs
    <2>3. QED  BY <2>1, <2>2 DEF NoSpec
  <1>7. CASE SaveCommit \/ RetryCommit \/ CancelCommit
    <2>1. web'.spec = NoSpec
      <3>1. web' = Idle
        BY <1>7 DEF SaveCommit, RetryCommit, CancelCommit
      <3>2. QED  BY <3>1 DEF Idle
    <2>2. UNCHANGED <<job, plan>>
      BY <1>7 DEF SaveCommit, RetryCommit, CancelCommit, queueVars, workerVars
    <2>3. QED  BY <2>1, <2>2 DEF NoSpec
  <1>8. CASE TickScan
    <2>1. \A due \in SUBSET {s \in Sources : enabled[s]} :
            \A polls \in PollsFor(due) : polls \subseteq Sources
      BY DEF PollsFor
    <2>2. \A x \in plan'.new : PollHasSource(x)
      BY <1>8, <2>1 DEF TickScan, PollSpec, PeerSpec
    <2>3. QED  BY <1>8, <2>2 DEF TickScan, queueVars
  <1>9. CASE TickCommit
    <2>1. PICK m \in n .. MaxJobs : \E spec \in [n + 1 .. m -> plan.new] : Insert(m, spec)
      BY <1>9 DEF TickCommit
    <2>2. PICK spec \in [n + 1 .. m -> plan.new] : Insert(m, spec)
      BY <2>1
    <2>3. ASSUME NEW j \in Jobs PROVE PollHasSource(job'[j])
      <3>1. m \in Int /\ n \in Int /\ j \in Int
        BY ConstantsAreNat DEF TypeOK, QueueTypeOK, Jobs
      <3>2. CASE n < j /\ j <= m
        <4>1. spec[j] \in plan.new
          BY <3>1, <3>2
        <4>2. job'[j].kind = spec[j].kind /\ job'[j].source = spec[j].source
          BY <2>2, <3>2, InsertRows DEF TypeOK
        <4>3. QED  BY <4>1, <4>2
      <3>3. CASE ~(n < j /\ j <= m)
        <4>1. job'[j] = job[j]
          BY <2>2, <3>1, <3>3, InsertRows DEF TypeOK
        <4>2. QED  BY <4>1
      <3>4. QED  BY <3>2, <3>3
    <2>4. QED  BY <1>9, <2>3 DEF TickCommit, NoPlan
  <1>10. CASE StartCommit \/ FinalCommit \/ ExceptCommit \/ Recover
    BY <1>10 DEF StartCommit, FinalCommit, ExceptCommit, Recover
  <1>11. CASE Quiet /\ ~TickScan
    <2>1. plan' \in {plan, NoPlan}
      BY <1>11 DEF Quiet, StartRead, Heartbeat, CollectPoll, WorkFails, FinalRead, ExceptRead,
                   Crash, DbFault, TimePasses, PeerHourPasses, workerVars
    <2>2. QED  BY <1>11, <2>1, QuietKeepsTheQueue DEF NoPlan
  <1>12. CASE UNCHANGED vars
    BY <1>12 DEF vars, queueVars, workerVars
  <1>13. QED
    BY <1>1, <1>2, <1>3, <1>4, <1>5, <1>6, <1>7, <1>8, <1>9, <1>10, <1>11, <1>12
    DEF Next, WebNext, WebCommit, WorkerStep, Quiet

\* The source of a poll the worker is at.
LEMMA PollingSource ==
    ASSUME TypeOK, WorkerHolds, PollsHaveSources, pc \in Occupied, job[cur].kind = "poll"
    PROVE  job[cur].source \in Sources
  BY CurrentJobTyped DEF PollsHaveSources, PollHasSource

LEMMA NextCursorFollowed ==
    ASSUME TypeOK, RowsExist, WorkerHolds, PollsHaveSources, CursorFollowed, [Next]_vars
    PROVE  CursorFollowed'
  <1> USE DEF Polling
  <1>1. CASE WebStep
    <2>1. /\ UNCHANGED <<pc, cur, ctx>>
          /\ \A j \in Jobs : j <= n => job'[j] = job[j]
          /\ \A s \in Sources : checkpoint'[s] \in {checkpoint[s], NoCursor}
      BY <1>1, WebKeepsTheWorker DEF workerVars
    <2>2. SUFFICES ASSUME Polling({"starting", "heartbeat", "work", "collected", "commit"})',
                          pc = "starting" => ctx.seen # "cancel_requested"
                   PROVE  checkpoint'[job'[cur].source] \in {NoCursor, ctx.cursor}
      BY <2>1 DEF CursorFollowed
    <2>3. cur \in Jobs /\ cur <= n /\ pc \in Occupied
      BY <2>1, <2>2, CurrentJobTyped DEF Occupied, TypeOK, QueueTypeOK
    <2>4. job'[cur] = job[cur]
      BY <2>1, <2>3
    <2>5. job[cur].source \in Sources
      BY <2>1, <2>2, <2>3, <2>4, PollingSource
    <2>6. checkpoint[job[cur].source] \in {NoCursor, ctx.cursor}
      BY <2>1, <2>2, <2>4 DEF CursorFollowed
    <2>7. QED  BY <2>1, <2>4, <2>5, <2>6
  <1>2. CASE TickCommit \/ FinalCommit \/ ExceptCommit \/ Recover
    BY <1>2 DEF TickCommit, FinalCommit, ExceptCommit, Recover, CursorFollowed
  <1>3. CASE StartCommit
    BY <1>3 DEF StartCommit, CursorFollowed, sourceVars, TypeOK, WorkerTypeOK, Context
  <1>4. CASE StartRead
    <2>1. cur \in Jobs
      BY <1>4, CurrentJobTyped DEF StartRead, Occupied
    <2>2. UNCHANGED <<job, checkpoint>>
      BY <1>4 DEF StartRead, queueVars, sourceVars
    <2>3. CASE status[cur] = "queued" /\ job[cur].kind = "poll"
      <3>1. job[cur].source # NoSource
        BY <1>4, <2>3, PollingSource, ConstantsAreNat DEF StartRead, Occupied
      <3>2. ctx'.cursor = checkpoint[job[cur].source] /\ cur' = cur
        BY <1>4, <2>3, <3>1 DEF StartRead, NoContext
      <3>3. QED  BY <2>2, <3>2 DEF CursorFollowed
    <2>4. CASE status[cur] = "queued" /\ job[cur].kind # "poll"
      BY <1>4, <2>2, <2>4 DEF StartRead, CursorFollowed
    <2>5. CASE status[cur] = "cancel_requested"
      BY <1>4, <2>5 DEF StartRead, CursorFollowed, NoContext
    <2>6. CASE status[cur] \notin {"queued", "cancel_requested"}
      BY <1>4, <2>6 DEF StartRead, CursorFollowed
    <2>7. QED  BY <2>3, <2>4, <2>5, <2>6
  <1>5. CASE Heartbeat \/ WorkFails \/ ExceptRead \/ TickScan \/ Crash \/ DbFault
    BY <1>5 DEF Heartbeat, WorkFails, ExceptRead, TickScan, Crash, DbFault,
                CursorFollowed, queueVars, sourceVars
  <1>6. CASE CollectPoll
    BY <1>6 DEF CollectPoll, CursorFollowed, queueVars, sourceVars, TypeOK, WorkerTypeOK, Context
  <1>7. CASE FinalRead
    BY <1>7 DEF FinalRead, CursorFollowed, queueVars, sourceVars, TypeOK, WorkerTypeOK, Context
  <1>8. CASE TimePasses \/ PeerHourPasses \/ UNCHANGED vars
    BY <1>8 DEF TimePasses, PeerHourPasses, vars, queueVars, sourceVars, workerVars, CursorFollowed
  <1>9. QED
    BY <1>1, <1>2, <1>3, <1>4, <1>5, <1>6, <1>7, <1>8, NextSplits DEF Quiet

LEMMA NextCollectedFollows ==
    ASSUME TypeOK, RowsExist, WorkerHolds, PollsHaveSources, CursorFollowed, CollectedFollows,
           [Next]_vars
    PROVE  CollectedFollows'
  <1> USE DEF Polling, CollectedFollows
  <1>1. CASE WebStep
    <2>1. UNCHANGED <<pc, cur, ctx>> /\ \A j \in Jobs : j <= n => job'[j] = job[j]
      BY <1>1, WebKeepsTheWorker DEF workerVars
    <2>2. pc \in {"collected", "commit"} => cur \in Jobs /\ cur <= n
      BY CurrentJobTyped DEF Occupied, TypeOK, QueueTypeOK
    <2>3. QED  BY <2>1, <2>2
  <1>2. CASE TickCommit \/ StartCommit \/ FinalCommit \/ ExceptCommit \/ Recover
    BY <1>2 DEF TickCommit, StartCommit, FinalCommit, ExceptCommit, Recover
  <1>3. CASE CollectPoll
    <2>1. PICK end \in Seconds :
            /\ IF PollStart < clock THEN PollStart < end /\ end <= clock ELSE end = PollStart
            /\ ctx' = [ctx EXCEPT !.from = PollStart, !.to = end]
      BY <1>3 DEF CollectPoll
    <2>2. ctx'.from = PollStart /\ ctx'.to = end /\ ctx'.cursor = ctx.cursor
      BY <2>1 DEF TypeOK, WorkerTypeOK, Context
    <2>3. PollStart <= end
      BY <2>1, PollStartTyped, ConstantsAreNat DEF Seconds
    <2>4. ctx.cursor # NoCursor => PollStart = ctx.cursor
      BY DEF PollStart
    <2>5. pc' # "commit"
      BY <1>3 DEF CollectPoll
    <2>6. QED  BY <2>2, <2>3, <2>4, <2>5
  <1>4. CASE FinalRead
    <2>1. /\ pc' \in {"except", "commit"} /\ cur' = cur /\ job' = job
          /\ ctx'.from = ctx.from /\ ctx'.to = ctx.to /\ ctx'.cursor = ctx.cursor
          /\ job[cur].kind = "poll" => pc = "collected"
      BY <1>4 DEF FinalRead, queueVars, TypeOK, WorkerTypeOK, Context
    <2>2. ASSUME pc' = "commit", job[cur].kind = "poll"
          PROVE  ctx'.loaded \in {NoCursor, ctx.cursor}
      <3>1. pc = "collected"
        BY <2>1, <2>2
      <3>2. job[cur].source \in Sources /\ job[cur].source # NoSource
        BY <2>2, <3>1, PollingSource, QueueAssumption DEF Occupied
      <3>3. ctx'.loaded = checkpoint[job[cur].source]
        BY <1>4, <2>2, <3>2 DEF FinalRead, TypeOK, WorkerTypeOK, Context
      <3>4. checkpoint[job[cur].source] \in {NoCursor, ctx.cursor}
        BY <2>2, <3>1 DEF CursorFollowed
      <3>5. QED  BY <3>3, <3>4
    <2>3. ASSUME pc' = "commit", job[cur].kind = "poll"
          PROVE  ctx'.from <= ctx'.to /\ (ctx'.cursor # NoCursor => ctx'.from = ctx'.cursor)
      BY <2>1, <2>3
    <2>4. CollectedFollows'
      BY <2>1, <2>2, <2>3
    <2>5. QED  BY <2>4
  <1>5. CASE Quiet /\ ~CollectPoll /\ ~FinalRead
    BY <1>5 DEF Quiet, TickScan, StartRead, Heartbeat, WorkFails, ExceptRead, Crash, DbFault,
                TimePasses, PeerHourPasses, queueVars, workerVars
  <1>6. CASE UNCHANGED vars
    BY <1>6 DEF vars, queueVars, workerVars
  <1>7. QED
    BY <1>1, <1>2, <1>3, <1>4, <1>5, <1>6, NextSplits

\* The whole inductive invariant: types, rows, the worker's job and the cursor it follows.
THEOREM QueueInvariant == Spec => []QueueInv
  <1>1. Init => PollsHaveSources /\ CursorFollowed /\ CollectedFollows
    BY DEF Init, PollsHaveSources, PollHasSource, CursorFollowed, CollectedFollows, Polling,
           Idle, NoSpec, NoPlan
  <1>2. /\ TypeOK /\ RowsExist /\ WorkerHolds
        /\ PollsHaveSources /\ CursorFollowed /\ CollectedFollows
        /\ [Next]_vars
        => (PollsHaveSources /\ CursorFollowed /\ CollectedFollows)'
    BY NextPollsHaveSources, NextCursorFollowed, NextCollectedFollows
  <1>3. QED
    BY <1>1, <1>2, QueueTypeCorrect, PTL DEF Spec, QueueInv

-----------------------------------------------------------------------------
(* The queue implements the collection cursor *)

\* Under the substitution the values of the two modules agree.
LEMMA CollectionValues ==
    Collection!Seconds = Seconds /\ Collection!NoCursor = NoCursor
  BY DEF Collection!Seconds, Seconds, Collection!NoCursor, NoCursor

\* A poll that commits collects on from the cursor of its source, or ingests nothing.
LEMMA AdvanceCollects ==
    ASSUME QueueInv, pc = "commit", job[cur].kind = "poll", AdvanceCursor(job[cur].source)
    PROVE  Collection!Next \/ UNCHANGED Collection!cursorVars
  <1> DEFINE s == job[cur].source
  <1>1. s \in Sources
    BY PollingSource DEF QueueInv, Occupied
  <1>2. CASE ctx.to = ctx.loaded
    <2>1. ctx.from \in Seconds /\ ctx.to \in Seconds
      BY DEF QueueInv, TypeOK, WorkerTypeOK, Context
    <2>2. ctx.from = ctx.to
      <3>1. ctx.loaded \in {NoCursor, ctx.cursor} /\ (ctx.cursor # NoCursor => ctx.from = ctx.cursor)
        BY DEF QueueInv, CollectedFollows, Polling
      <3>2. ctx.to # NoCursor
        BY <2>1 DEF Seconds, NoCursor
      <3>3. QED  BY <1>2, <3>1, <3>2
    <2>3. count \in [Sources -> [Seconds -> Nat]]
      BY DEF QueueInv, TypeOK, HistoryTypeOK
    <2>4. [t \in Seconds |-> IF ctx.from <= t /\ t < ctx.to
                             THEN count[s][t] + 1 ELSE count[s][t]] = count[s]
      <3>1. \A t \in Seconds : ~(ctx.from <= t /\ t < ctx.to)
        BY <2>1, <2>2 DEF Seconds
      <3>2. count[s] \in [Seconds -> Nat]
        BY <1>1, <2>3
      <3>3. QED  BY <3>1, <3>2
    <2>5. count' = count
      BY <2>3, <2>4 DEF AdvanceCursor, IngestCollected
    <2>6. QED
      BY <1>2, <2>5 DEF AdvanceCursor, Collection!cursorVars
  <1>3. CASE ctx.to # ctx.loaded
    <2>1. ctx.from \in Seconds /\ ctx.to \in Seconds
      BY DEF QueueInv, TypeOK, WorkerTypeOK, Context
    <2>2. ctx.from <= ctx.to /\ (ctx.cursor # NoCursor => ctx.from = ctx.cursor)
      BY DEF QueueInv, CollectedFollows, Polling
    <2>3. checkpoint[s] \in {NoCursor, ctx.cursor}
      BY DEF QueueInv, CursorFollowed, Polling
    <2>4. checkpoint[s] \in {NoCursor, ctx.from}
      BY <2>2, <2>3
    <2>5. Collection!Collect(s, ctx.from, ctx.to)
      BY <1>3, <2>2, <2>4, CollectionValues DEF AdvanceCursor, IngestCollected, Collection!Collect
    <2>6. QED
      BY <1>1, <2>1, <2>5, CollectionValues DEF Collection!Next
  <1>4. QED  BY <1>2, <1>3

\* An update outside the domain of a function changes nothing.
LEMMA UpdateOutside ==
    ASSUME NEW S, NEW T, NEW f \in [S -> T], NEW x, x \notin S, NEW v
    PROVE  [f EXCEPT ![x] = v] = f
  OBVIOUS

\* A reset of the cursor by save_source.
LEMMA SaveResets ==
    ASSUME QueueInv, SaveCommit
    PROVE  Collection!Next \/ UNCHANGED Collection!cursorVars
  <1>1. CASE web.reset /\ web.source \in Sources
    <2>1. Collection!Reset(web.source)
      BY <1>1, CollectionValues DEF SaveCommit, Collection!Reset
    <2>2. QED
      BY <1>1, <2>1 DEF Collection!Next
  <1>2. CASE web.reset /\ web.source \notin Sources
    <2>1. checkpoint' = checkpoint
      <3>1. checkpoint' = [checkpoint EXCEPT ![web.source] = NoCursor]
        BY <1>2 DEF SaveCommit
      <3>2. checkpoint \in [Sources -> Seconds \cup {NoCursor}]
        BY DEF QueueInv, TypeOK, SourceTypeOK
      <3>3. QED  BY <1>2, <3>1, <3>2, UpdateOutside
    <2>2. base' = base
      <3>1. base' = [base EXCEPT ![web.source] = 0]
        BY <1>2 DEF SaveCommit
      <3>2. base \in [Sources -> Seconds]
        BY DEF QueueInv, TypeOK, HistoryTypeOK
      <3>3. QED  BY <1>2, <3>1, <3>2, UpdateOutside
    <2>3. count' = count
      <3>1. count' = [count EXCEPT ![web.source] = [t \in Seconds |-> 0]]
        BY <1>2 DEF SaveCommit
      <3>2. count \in [Sources -> [Seconds -> Nat]]
        BY DEF QueueInv, TypeOK, HistoryTypeOK
      <3>3. QED  BY <1>2, <3>1, <3>2, UpdateOutside
    <2>4. QED  BY <2>1, <2>2, <2>3 DEF Collection!cursorVars
  <1>3. CASE ~web.reset
    BY <1>3 DEF SaveCommit, Collection!cursorVars
  <1>4. QED  BY <1>1, <1>2, <1>3

LEMMA NextCollects ==
    ASSUME QueueInv, [Next]_vars
    PROVE  Collection!Next \/ UNCHANGED Collection!cursorVars
  <1> USE DEF Collection!cursorVars
  <1>1. CASE FinalCommit
    <2>1. CASE job[cur].kind = "poll"
      BY <1>1, <2>1, AdvanceCollects DEF FinalCommit
    <2>2. CASE job[cur].kind # "poll"
      BY <1>1, <2>2 DEF FinalCommit
    <2>3. QED  BY <2>1, <2>2
  <1>2. CASE SaveCommit
    BY <1>2, SaveResets
  <1>3. CASE Reading
    BY <1>3, ReadingChangesWebOnly DEF sourceVars, historyVars
  <1>4. ASSUME NEW j \in Jobs, RetryRequest(j) \/ CancelRequest(j)
        PROVE  UNCHANGED Collection!cursorVars
    BY <1>4 DEF RetryRequest, CancelRequest, sourceVars, historyVars
  <1>5. ASSUME NEW s \in Sources, ToggleSource(s) PROVE UNCHANGED Collection!cursorVars
    BY <1>5 DEF ToggleSource, historyVars
  <1>6. CASE EnqueueCommit \/ RetryCommit \/ CancelCommit
    BY <1>6 DEF EnqueueCommit, RetryCommit, CancelCommit, sourceVars, historyVars
  <1>7. CASE TickCommit \/ StartCommit \/ ExceptCommit \/ Recover
    BY <1>7 DEF TickCommit, StartCommit, ExceptCommit, Recover, sourceVars, historyVars
  <1>8. CASE Quiet
    BY <1>8 DEF Quiet, TickScan, StartRead, Heartbeat, CollectPoll, WorkFails, FinalRead,
                ExceptRead, Crash, DbFault, TimePasses, PeerHourPasses, sourceVars, historyVars
  <1>9. CASE UNCHANGED vars
    BY <1>9 DEF vars, sourceVars, historyVars
  <1>10. QED
    BY <1>1, <1>2, <1>3, <1>4, <1>5, <1>6, <1>7, <1>8, <1>9, NextSplits DEF WebStep, WebCommit

\* However enqueueing, cancelling, retrying, resets, faults and restarts interleave,
\* a source's cursor and what was ingested for it only ever change by a collection
\* that starts at the cursor, or by a reset.
THEOREM QueueImplementsCollection == Spec => RefinesCursor
  <1>1. Init => Collection!Init
    BY CollectionValues DEF Init, Collection!Init
  <1>2. QueueInv /\ [Next]_vars => [Collection!Next]_(Collection!cursorVars)
    BY NextCollects
  <1>3. QED
    BY <1>1, <1>2, QueueInvariant, PTL DEF Spec, RefinesCursor, Collection!Spec

-----------------------------------------------------------------------------
(* What the abstract cursor promises, whoever collects *)

CursorTypeOK ==
    /\ checkpoint \in [Sources -> Seconds \cup {NoCursor}]
    /\ base \in [Sources -> Int]
    /\ count \in [Sources -> [Seconds -> Nat]]

BaseBelowCursor == \A s \in Sources : checkpoint[s] # NoCursor => base[s] <= checkpoint[s]

\* ExactlyOnce, said with the names of the queue.
CountedOnce ==
    \A s \in Sources : \A t \in Seconds :
        count[s][t] = IF checkpoint[s] # NoCursor /\ base[s] <= t /\ t < checkpoint[s] THEN 1 ELSE 0

CursorInv == CursorTypeOK /\ BaseBelowCursor /\ CountedOnce

\* Nothing has been ingested before the first collection.
LEMMA CursorInit == Collection!Init => CursorInv
  BY CollectionValues
  DEF Collection!Init, CursorInv, CursorTypeOK, BaseBelowCursor, CountedOnce, Seconds, NoCursor

\* A collection that starts at the cursor ingests what had not been ingested.
LEMMA CollectKeepsInv ==
    ASSUME NEW s \in Sources, NEW from \in Seconds, NEW to \in Seconds,
           CursorInv, Collection!Collect(s, from, to)
    PROVE  CursorInv'
  <1> USE CollectionValues DEF CursorInv, Collection!Collect
  <1>1. CursorTypeOK'
    <2>1. checkpoint' \in [Sources -> Seconds \cup {NoCursor}]
      BY DEF CursorTypeOK
    <2>2. base' \in [Sources -> Int]
      BY DEF CursorTypeOK, Seconds
    <2>3. [t \in Seconds |-> IF from <= t /\ t < to THEN count[s][t] + 1 ELSE count[s][t]]
            \in [Seconds -> Nat]
      BY DEF CursorTypeOK
    <2>4. count' \in [Sources -> [Seconds -> Nat]]
      BY <2>3 DEF CursorTypeOK
    <2>5. QED  BY <2>1, <2>2, <2>4 DEF CursorTypeOK
  <1>2. BaseBelowCursor'
    BY <1>1 DEF BaseBelowCursor, CursorTypeOK, Seconds, NoCursor
  <1>3. CountedOnce'
    <2>1. SUFFICES ASSUME NEW x \in Sources, NEW t \in Seconds
                   PROVE  count'[x][t] =
                            IF checkpoint'[x] # NoCursor /\ base'[x] <= t /\ t < checkpoint'[x]
                            THEN 1 ELSE 0
      BY DEF CountedOnce
    <2>2. CASE x # s
      BY <2>2 DEF CountedOnce, CursorTypeOK
    <2>3. CASE x = s
      BY <2>3 DEF CountedOnce, CursorTypeOK, BaseBelowCursor, Seconds, NoCursor
    <2>4. QED  BY <2>2, <2>3
  <1>4. QED  BY <1>1, <1>2, <1>3

\* A reset starts the account of its source afresh.
LEMMA ResetKeepsInv ==
    ASSUME NEW s \in Sources, CursorInv, Collection!Reset(s)
    PROVE  CursorInv'
  BY CollectionValues
  DEF CursorInv, Collection!Reset, CursorTypeOK, BaseBelowCursor, CountedOnce, Seconds, NoCursor

\* Whatever is collected and reset, each second behind a cursor has been ingested
\* exactly once and none beyond it.
THEOREM CursorExactlyOnce == Collection!Spec => []Collection!ExactlyOnce
  <1>1. CursorInv /\ [Collection!Next]_(Collection!cursorVars) => CursorInv'
    <2> SUFFICES ASSUME CursorInv, [Collection!Next]_(Collection!cursorVars) PROVE CursorInv'
      OBVIOUS
    <2>1. CASE Collection!Next
      BY <2>1, CollectKeepsInv, ResetKeepsInv, CollectionValues DEF Collection!Next
    <2>2. CASE UNCHANGED Collection!cursorVars
      BY <2>2 DEF Collection!cursorVars, CursorInv, CursorTypeOK, BaseBelowCursor, CountedOnce
    <2>3. QED  BY <2>1, <2>2
  <1>2. CursorInv => Collection!ExactlyOnce
    BY CollectionValues DEF CursorInv, CountedOnce, Collection!ExactlyOnce
  <1>3. QED
    BY CursorInit, <1>1, <1>2, PTL DEF Collection!Spec

\* So each index second behind a cursor has been ingested exactly once since the last
\* reset, and none beyond it: a failed, cancelled or interrupted poll loses and
\* repeats nothing.
THEOREM QueueIngestsExactlyOnce == Spec => []ExactlyOnce
  BY CursorExactlyOnce, QueueImplementsCollection, PTL DEF RefinesCursor, ExactlyOnce

-----------------------------------------------------------------------------
(* The events of an import *)

\* The payloads an insertion writes, and those it leaves.
LEMMA InsertPayloads ==
    ASSUME QueueTypeOK, NEW m \in n .. MaxJobs, NEW spec, Insert(m, spec)
    PROVE  /\ \A j \in Jobs : n < j /\ j <= m => payload'[j].events = spec[j].events
           /\ \A j \in Jobs : j <= n \/ m < j => payload'[j] = payload[j]
  <1>1. m \in Nat /\ n \in Nat /\ MaxJobs \in Nat
    BY ConstantsAreNat DEF QueueTypeOK
  <1>2. QED
    BY <1>1 DEF Insert, Jobs

\* What remains of a payload carries no events.
LEMMA KeptHasNoEvents ==
    ASSUME NEW p, NEW keepOrigin
    PROVE  Kept(p, keepOrigin).events = FALSE
  BY DEF Kept

\* A job that is closed loses its events, and the others keep theirs.
LEMMA ClosingPayloads ==
    ASSUME TypeOK, NEW i, NEW keepOrigin \in BOOLEAN,
           payload' = [payload EXCEPT ![i] = Kept(@, keepOrigin)]
    PROVE  \A j \in Jobs : IF j = i THEN ~payload'[j].events ELSE payload'[j] = payload[j]
  BY KeptHasNoEvents DEF TypeOK, QueueTypeOK

\* Where no row is inserted, no payload gains events, and a row keeps its source.
PayloadsOnlyShrink ==
    /\ n' = n /\ job' = job
    /\ \A j \in Jobs : payload'[j].events => payload[j].events

LEMMA ShrinkingKeepsSources ==
    ASSUME ImportsHaveNoSource, PayloadsOnlyShrink, web' \in {web, Idle}, plan' \in {plan, NoPlan}
    PROVE  ImportsHaveNoSource'
  <1>1. ~Idle.spec.events /\ NoPlan.new = {}
    BY DEF Idle, NoSpec, NoPlan
  <1>2. QED
    BY <1>1 DEF ImportsHaveNoSource, PayloadsOnlyShrink

LEMMA ClosersShrink ==
    ASSUME TypeOK, StartCommit \/ FinalCommit \/ ExceptCommit \/ Recover
    PROVE  PayloadsOnlyShrink /\ UNCHANGED <<web, plan>>
  <1> USE DEF PayloadsOnlyShrink
  <1>1. CASE StartCommit
    <2>1. CASE ctx.seen = "cancel_requested"
      BY <1>1, <2>1, ClosingPayloads DEF StartCommit
    <2>2. CASE ctx.seen # "cancel_requested"
      BY <1>1, <2>2 DEF StartCommit
    <2>3. QED  BY <2>1, <2>2
  <1>2. CASE FinalCommit
    BY <1>2, ClosingPayloads DEF FinalCommit
  <1>3. CASE ExceptCommit
    <2>1. CASE ctx.seen = "cancel_requested"
      BY <1>3, <2>1, ClosingPayloads DEF ExceptCommit
    <2>2. CASE ctx.seen # "cancel_requested"
      BY <1>3, <2>2 DEF ExceptCommit
    <2>3. QED  BY <2>1, <2>2
  <1>4. CASE Recover
    BY <1>4, KeptHasNoEvents DEF Recover
  <1>5. QED  BY <1>1, <1>2, <1>3, <1>4

\* Only the scan plans: the other quiet steps keep the plan or drop it.
LEMMA QuietPlans ==
    ASSUME Quiet, ~TickScan
    PROVE  plan' \in {plan, NoPlan}
  <1>1. CASE Crash \/ DbFault
    BY <1>1 DEF Crash, DbFault
  <1>2. CASE StartRead \/ Heartbeat \/ WorkFails \/ ExceptRead
    BY <1>2 DEF StartRead, Heartbeat, WorkFails, ExceptRead
  <1>3. CASE CollectPoll \/ FinalRead
    BY <1>3, Zenon DEF CollectPoll, FinalRead
  <1>4. CASE TimePasses \/ PeerHourPasses
    BY <1>4 DEF TimePasses, PeerHourPasses, workerVars
  <1>5. QED  BY <1>1, <1>2, <1>3, <1>4 DEF Quiet

LEMMA NextImportsHaveNoSource ==
    ASSUME TypeOK, ImportsHaveNoSource, [Next]_vars
    PROVE  ImportsHaveNoSource'
  <1> USE DEF PayloadsOnlyShrink
  <1>1. ASSUME NEW s \in Sources, NEW kind \in {"poll", "test"}, SourceJobRequest(kind, s)
        PROVE  ImportsHaveNoSource'
    BY <1>1 DEF SourceJobRequest, Idle, queueVars, workerVars, ImportsHaveNoSource
  <1>2. ASSUME NEW kind \in WebKinds, WebJobRequest(kind) PROVE ImportsHaveNoSource'
    BY <1>2 DEF WebJobRequest, Idle, queueVars, workerVars, ImportsHaveNoSource
  <1>3. ASSUME NEW s \in Sources, NEW c \in Configs, NEW reset \in BOOLEAN, SaveRequest(s, c, reset)
        PROVE  ImportsHaveNoSource'
    BY <1>3 DEF SaveRequest, Idle, NoSpec, queueVars, workerVars, ImportsHaveNoSource
  <1>4. ASSUME NEW j \in Jobs, RetryRequest(j) \/ CancelRequest(j) PROVE ImportsHaveNoSource'
    <2>1. web'.spec = NoSpec /\ UNCHANGED <<n, job, payload, plan>>
      BY <1>4 DEF RetryRequest, CancelRequest, Idle, queueVars, workerVars
    <2>2. QED  BY <2>1 DEF NoSpec, ImportsHaveNoSource
  <1>5. ASSUME NEW s \in Sources, ToggleSource(s) PROVE ImportsHaveNoSource'
    BY <1>5, ShrinkingKeepsSources DEF ToggleSource, queueVars, workerVars
  <1>6. CASE EnqueueCommit
    <2>1. n \in Int /\ web'.spec = NoSpec /\ plan' = plan
      BY <1>6 DEF EnqueueCommit, Idle, workerVars, TypeOK, QueueTypeOK
    <2>2. ASSUME NEW j \in Jobs, payload'[j].events PROVE j <= n' /\ job'[j].source = NoSource
      <3>1. j \in Int
        BY DEF Jobs
      <3>2. CASE j = n + 1
        BY <1>6, <2>1, <2>2, <3>2, EnqueueCommitInserts, InsertRows, InsertPayloads
        DEF TypeOK, ImportsHaveNoSource
      <3>3. CASE j # n + 1
        <4>1. payload'[j] = payload[j] /\ job'[j] = job[j] /\ n <= n'
          BY <1>6, <2>1, <3>1, <3>3, EnqueueCommitInserts, InsertRows, InsertPayloads DEF TypeOK
        <4>2. n' \in Int
          BY <1>6, <2>1 DEF EnqueueCommit, Insert
        <4>3. QED  BY <2>1, <2>2, <3>1, <4>1, <4>2 DEF ImportsHaveNoSource
      <3>4. QED  BY <3>2, <3>3
    <2>3. QED  BY <2>1, <2>2 DEF NoSpec, ImportsHaveNoSource
  <1>7. CASE SaveCommit \/ RetryCommit
    <2>1. UNCHANGED <<n, job, payload, plan>> /\ web' = Idle
      BY <1>7 DEF SaveCommit, RetryCommit, queueVars, workerVars
    <2>2. QED  BY <2>1, ShrinkingKeepsSources
  <1>8. CASE CancelCommit
    <2>1. UNCHANGED <<n, job, plan>> /\ web' = Idle
      BY <1>8 DEF CancelCommit, workerVars
    <2>2. PayloadsOnlyShrink
      BY <1>8, <2>1, ClosingPayloads DEF CancelCommit
    <2>3. QED  BY <2>1, <2>2, ShrinkingKeepsSources
  <1>9. CASE TickScan
    <2>1. UNCHANGED <<n, job, payload, web>>
      BY <1>9 DEF TickScan, queueVars
    <2>2. \A x \in plan'.new : ~x.events
      BY <1>9 DEF TickScan, PollSpec, PeerSpec, ImportsHaveNoSource
    <2>3. QED  BY <2>1, <2>2 DEF ImportsHaveNoSource
  <1>10. CASE TickCommit
    <2>1. PICK m \in n .. MaxJobs : \E spec \in [n + 1 .. m -> plan.new] : Insert(m, spec)
      BY <1>10 DEF TickCommit
    <2>2. PICK spec \in [n + 1 .. m -> plan.new] : Insert(m, spec)
      BY <2>1
    <2>3. m \in Int /\ n \in Int /\ n' = m /\ n <= m
      BY <2>2, InsertRows, ConstantsAreNat DEF TypeOK, QueueTypeOK
    <2>4. ASSUME NEW j \in Jobs, payload'[j].events PROVE j <= n' /\ job'[j].source = NoSource
      <3>1. j \in Int
        BY DEF Jobs
      <3>2. ~(n < j /\ j <= m)
        <4>1. SUFFICES ASSUME n < j, j <= m PROVE FALSE
          OBVIOUS
        <4>2. spec[j] \in plan.new /\ payload'[j].events = spec[j].events
          BY <2>2, <2>3, <3>1, <4>1, InsertPayloads DEF TypeOK
        <4>3. QED  BY <2>4, <4>2 DEF ImportsHaveNoSource
      <3>3. payload'[j] = payload[j] /\ job'[j] = job[j]
        BY <2>2, <2>3, <3>1, <3>2, InsertRows, InsertPayloads DEF TypeOK
      <3>4. QED  BY <2>3, <2>4, <3>1, <3>3 DEF ImportsHaveNoSource
    <2>5. web' = web /\ plan' = NoPlan
      BY <1>10 DEF TickCommit
    <2>6. QED  BY <2>4, <2>5 DEF NoPlan, ImportsHaveNoSource
  <1>11. CASE StartCommit \/ FinalCommit \/ ExceptCommit \/ Recover
    BY <1>11, ClosersShrink, ShrinkingKeepsSources
  <1>12. CASE Quiet /\ ~TickScan
    BY <1>12, QuietPlans, QuietKeepsTheQueue, ShrinkingKeepsSources
  <1>13. CASE UNCHANGED vars
    BY <1>13, ShrinkingKeepsSources DEF vars, queueVars, workerVars
  <1>14. QED
    BY <1>1, <1>2, <1>3, <1>4, <1>5, <1>6, <1>7, <1>8, <1>9, <1>10, <1>11, <1>12, <1>13
    DEF Next, WebNext, WebCommit, WorkerStep, Quiet

\* Only the final commit of a run counts a delivery.
LEMMA DeliveredAtTheEnd ==
    ASSUME [Next]_vars, ~FinalCommit
    PROVE  delivered' = delivered
  <1>1. CASE Reading
    BY <1>1, ReadingChangesWebOnly DEF historyVars
  <1>2. ASSUME NEW j \in Jobs, RetryRequest(j) \/ CancelRequest(j) PROVE delivered' = delivered
    BY <1>2 DEF RetryRequest, CancelRequest, historyVars
  <1>3. ASSUME NEW s \in Sources, ToggleSource(s) PROVE delivered' = delivered
    BY <1>3 DEF ToggleSource, historyVars
  <1>4. CASE WebCommit
    BY <1>4 DEF WebCommit, EnqueueCommit, SaveCommit, RetryCommit, CancelCommit, historyVars
  <1>5. CASE TickCommit \/ StartCommit \/ ExceptCommit \/ Recover
    BY <1>5 DEF TickCommit, StartCommit, ExceptCommit, Recover, historyVars
  <1>6. CASE Quiet
    <2>1. CASE CollectPoll \/ FinalRead
      BY <2>1, Zenon DEF CollectPoll, FinalRead, historyVars
    <2>2. CASE ~CollectPoll /\ ~FinalRead
      BY <1>6, <2>2 DEF Quiet, TickScan, StartRead, Heartbeat, WorkFails, ExceptRead, Crash,
                        DbFault, TimePasses, PeerHourPasses, historyVars
    <2>3. QED  BY <2>1, <2>2
  <1>7. CASE UNCHANGED vars
    BY <1>7 DEF vars, historyVars
  <1>8. QED
    BY <1>1, <1>2, <1>3, <1>4, <1>5, <1>6, <1>7, NextSplits DEF WebStep

\* The payload of a job that exists gains no events, and loses them only when the job
\* is closed: as cancelled, or by the final commit of its run.
LEMMA WebClosesAsCancelled ==
    ASSUME TypeOK, WebStep
    PROVE  \A j \in Jobs : j <= n => /\ payload'[j].events => payload[j].events
                                     /\ payload'[j] = payload[j] \/ status'[j] = "cancelled"
  <1> DEFINE Goal == \A j \in Jobs : j <= n => /\ payload'[j].events => payload[j].events
                                               /\ payload'[j] = payload[j] \/ status'[j] = "cancelled"
  <1>1. CASE Reading
    BY <1>1, ReadingChangesWebOnly DEF queueVars
  <1>2. ASSUME NEW j \in Jobs, RetryRequest(j) \/ CancelRequest(j) PROVE Goal
    BY <1>2 DEF RetryRequest, CancelRequest, queueVars
  <1>3. ASSUME NEW s \in Sources, ToggleSource(s) PROVE Goal
    BY <1>3 DEF ToggleSource, queueVars
  <1>4. CASE EnqueueCommit
    BY <1>4, EnqueueCommitInserts, InsertPayloads DEF TypeOK
  <1>5. CASE SaveCommit \/ RetryCommit
    BY <1>5 DEF SaveCommit, RetryCommit, queueVars
  <1>6. CASE CancelCommit
    <2>1. CASE web.seen = "queued"
      <3>1. status' = [status EXCEPT ![web.job] = "cancelled"]
        BY <1>6, <2>1 DEF CancelCommit
      <3>2. \A j \in Jobs : IF j = web.job THEN ~payload'[j].events ELSE payload'[j] = payload[j]
        BY <1>6, <2>1, ClosingPayloads DEF CancelCommit
      <3>3. QED  BY <3>1, <3>2 DEF TypeOK, QueueTypeOK
    <2>2. CASE web.seen # "queued"
      BY <1>6, <2>2 DEF CancelCommit
    <2>3. QED  BY <2>1, <2>2
  <1>7. QED
    BY <1>1, <1>2, <1>3, <1>4, <1>5, <1>6 DEF WebStep, WebCommit

LEMMA WebRowsAreCounted == ASSUME TypeOK, WebStep PROVE n' \in {n, n + 1}
  <1>1. CASE Reading
    BY <1>1, ReadingChangesWebOnly DEF queueVars
  <1>2. CASE EnqueueCommit
    BY <1>2 DEF EnqueueCommit, Insert
  <1>3. CASE SaveCommit \/ RetryCommit \/ CancelCommit
    BY <1>3 DEF SaveCommit, RetryCommit, CancelCommit, queueVars
  <1>4. ASSUME NEW s \in Sources, ToggleSource(s) PROVE n' = n
    BY <1>4 DEF ToggleSource, queueVars
  <1>5. ASSUME NEW j \in Jobs, RetryRequest(j) \/ CancelRequest(j) PROVE n' = n
    BY <1>5 DEF RetryRequest, CancelRequest, queueVars
  <1>6. QED  BY <1>1, <1>2, <1>3, <1>4, <1>5 DEF WebStep, WebCommit

LEMMA NextDeliveredOnce ==
    ASSUME TypeOK, WorkerHolds, DeliveredOnce, EventsInHand, [Next]_vars
    PROVE  DeliveredOnce'
  <1> USE DEF DeliveredOnce
  <1>0. n \in Int
    BY DEF TypeOK, QueueTypeOK
  <1>1. CASE WebStep /\ ~FinalCommit
    <2>1. SUFFICES ASSUME NEW j \in Jobs, delivered[j] # 0
                   PROVE  delivered[j] = 1 /\ j <= n' /\ ~payload'[j].events
      BY <1>1, DeliveredAtTheEnd
    <2>2. delivered[j] = 1 /\ j <= n /\ ~payload[j].events /\ j \in Int
      BY <2>1 DEF Jobs
    <2>3. n <= n' /\ ~payload'[j].events
      BY <1>1, <2>2, WebClosesAsCancelled, WebKeepsTheWorker
    <2>4. QED  BY <1>0, <2>2, <2>3, WebRowsAreCounted, <1>1
  <1>2. CASE TickCommit /\ ~FinalCommit
    <2>1. PICK m \in n .. MaxJobs : \E spec \in [n + 1 .. m -> plan.new] : Insert(m, spec)
      BY <1>2 DEF TickCommit
    <2>2. PICK spec \in [n + 1 .. m -> plan.new] : Insert(m, spec)
      BY <2>1
    <2>3. m \in Int /\ n' = m /\ n <= m
      BY <2>2, InsertRows, ConstantsAreNat DEF TypeOK, QueueTypeOK
    <2>4. \A j \in Jobs : j <= n => payload'[j] = payload[j]
      BY <2>2, InsertPayloads DEF TypeOK
    <2>5. \A j \in Jobs : j \in Int
      BY DEF Jobs
    <2>6. QED  BY <1>0, <1>2, <2>3, <2>4, <2>5, DeliveredAtTheEnd
  <1>3. CASE StartCommit \/ ExceptCommit \/ Recover
    <2>1. delivered' = delivered
      BY <1>3 DEF StartCommit, ExceptCommit, Recover, historyVars
    <2>2. QED  BY <1>3, <2>1, ClosersShrink DEF PayloadsOnlyShrink
  <1>4. CASE FinalCommit
    <2>1. cur \in Jobs /\ cur <= n /\ (ctx.events => delivered[cur] = 0)
      BY <1>4, CurrentJobTyped DEF FinalCommit, Occupied, EventsInHand, TypeOK, QueueTypeOK
    <2>2. n' = n /\ \A j \in Jobs : IF j = cur THEN ~payload'[j].events
                                               ELSE payload'[j] = payload[j]
      BY <1>4, ClosingPayloads DEF FinalCommit
    <2>3. \A j \in Jobs : j # cur => delivered'[j] = delivered[j]
      BY <1>4 DEF FinalCommit, TypeOK, HistoryTypeOK
    <2>4. delivered'[cur] = IF ctx.events THEN delivered[cur] + 1 ELSE delivered[cur]
      BY <1>4, <2>1 DEF FinalCommit, TypeOK, HistoryTypeOK
    <2>5. QED  BY <2>1, <2>2, <2>3, <2>4
  <1>5. CASE Quiet /\ ~FinalCommit
    BY <1>5, QuietKeepsTheQueue, DeliveredAtTheEnd
  <1>6. CASE UNCHANGED vars
    BY <1>6 DEF vars, queueVars, historyVars
  <1>7. QED
    BY <1>1, <1>2, <1>3, <1>4, <1>5, <1>6, NextSplits

LEMMA NextEventsInHand ==
    ASSUME TypeOK, WorkerHolds, ImportsHaveNoSource, DeliveredOnce, EventsInHand, [Next]_vars
    PROVE  EventsInHand'
  <1> USE DEF EventsInHand
  <1>1. CASE WebStep
    <2>1. UNCHANGED <<pc, cur, ctx>>
      BY <1>1, WebKeepsTheWorker DEF workerVars
    <2>2. CASE pc \in {"starting", "heartbeat", "work", "collected", "commit"}
      <3>1. cur \in Jobs /\ cur <= n
        BY <2>2, CurrentJobTyped DEF Occupied, TypeOK, QueueTypeOK
      <3>2. payload'[cur].events => payload[cur].events
        BY <1>1, <3>1, WebClosesAsCancelled
      <3>3. delivered' = delivered
        <4>1. CASE FinalCommit
          BY <2>1, <2>2, <4>1 DEF FinalCommit
        <4>2. CASE ~FinalCommit
          BY <4>2, DeliveredAtTheEnd
        <4>3. QED  BY <4>1, <4>2
      <3>4. QED  BY <2>1, <2>2, <3>2, <3>3
    <2>3. CASE pc \notin {"starting", "heartbeat", "work", "collected", "commit"}
      BY <2>1, <2>3
    <2>4. QED  BY <2>2, <2>3
  <1>2. CASE TickCommit \/ FinalCommit \/ ExceptCommit \/ Recover
    BY <1>2 DEF TickCommit, FinalCommit, ExceptCommit, Recover
  <1>3. CASE StartCommit
    <2>1. CASE ctx.seen = "cancel_requested"
      BY <1>3, <2>1 DEF StartCommit
    <2>2. CASE ctx.seen # "cancel_requested"
      <3>1. ctx'.events = ctx.events /\ UNCHANGED <<cur, payload, delivered>>
        BY <1>3, <2>2 DEF StartCommit, historyVars, TypeOK, WorkerTypeOK, Context
      <3>2. pc = "starting" /\ pc' = "heartbeat"
        BY <1>3, <2>2 DEF StartCommit
      <3>3. QED  BY <2>2, <3>1, <3>2
    <2>3. QED  BY <2>1, <2>2
  <1>4. CASE StartRead
    <2>1. cur \in Jobs
      BY <1>4, CurrentJobTyped DEF StartRead, Occupied
    <2>2. UNCHANGED <<payload, delivered>>
      BY <1>4 DEF StartRead, queueVars, historyVars
    <2>3. payload[cur].events => job[cur].source = NoSource /\ delivered[cur] = 0
      BY <2>1 DEF ImportsHaveNoSource, DeliveredOnce
    <2>4. payload[cur].events \in BOOLEAN
      BY <2>1 DEF TypeOK, QueueTypeOK
    <2>5. CASE status[cur] = "queued"
      <3>1. cur' = cur /\ pc' = "starting"
        BY <1>4, <2>5 DEF StartRead
      <3>2. CASE job[cur].source = NoSource
        <4>1. ctx'.events = payload[cur].events
          BY <1>4, <2>5, <3>2 DEF StartRead, NoContext, Taken
        <4>2. QED  BY <2>2, <2>3, <2>4, <3>1, <4>1
      <3>3. CASE job[cur].source # NoSource
        <4>1. ~ctx'.events
          BY <1>4, <2>5, <3>3 DEF StartRead, NoContext
        <4>2. QED  BY <2>2, <2>3, <3>1, <3>3, <4>1
      <3>4. QED  BY <3>2, <3>3
    <2>6. CASE status[cur] = "cancel_requested"
      <3>1. pc' = "starting" /\ ctx' = [NoContext EXCEPT !.seen = "cancel_requested"]
        BY <1>4, <2>6 DEF StartRead
      <3>2. ctx'.seen = "cancel_requested" /\ ~ctx'.events
        BY <3>1 DEF NoContext
      <3>3. QED  BY <3>1, <3>2
    <2>7. CASE status[cur] \notin {"queued", "cancel_requested"}
      BY <1>4, <2>7 DEF StartRead
    <2>8. QED  BY <2>5, <2>6, <2>7
  <1>5. CASE Heartbeat
    BY <1>5 DEF Heartbeat, queueVars, historyVars
  <1>6. CASE WorkFails \/ ExceptRead \/ TickScan \/ Crash \/ DbFault
    <2>1. pc' \in {"except", "failing", "idle", "down"} \/ TickScan
      BY <1>6 DEF WorkFails, ExceptRead, Crash, DbFault
    <2>2. TickScan => pc' \in {"idle", "tick"}
      BY DEF TickScan
    <2>3. QED  BY <2>1, <2>2
  <1>7. CASE CollectPoll
    <2>1. ctx'.events = ctx.events /\ pc = "work" /\ pc' = "collected"
      BY <1>7 DEF CollectPoll, TypeOK, WorkerTypeOK, Context
    <2>2. UNCHANGED <<cur, payload, delivered>>
      BY <1>7, Zenon DEF CollectPoll, queueVars, historyVars
    <2>3. QED  BY <2>1, <2>2
  <1>8. CASE FinalRead
    <2>1. ctx'.events = ctx.events /\ pc \in {"work", "collected"} /\ pc' \in {"except", "commit"}
      BY <1>8 DEF FinalRead, TypeOK, WorkerTypeOK, Context
    <2>2. UNCHANGED <<cur, payload, delivered>>
      BY <1>8, Zenon DEF FinalRead, queueVars, historyVars
    <2>3. QED  BY <2>1, <2>2
  <1>9. CASE TimePasses \/ PeerHourPasses \/ UNCHANGED vars
    BY <1>9 DEF TimePasses, PeerHourPasses, vars, queueVars, workerVars, historyVars
  <1>10. QED
    BY <1>1, <1>2, <1>3, <1>4, <1>5, <1>6, <1>7, <1>8, <1>9, NextSplits DEF Quiet

\* The account of the events of imports is right in every reachable state.
THEOREM ImportInvariant == Spec => []ImportInv
  <1>1. Init => ImportInv
    BY DEF Init, ImportInv, ImportsHaveNoSource, DeliveredOnce, EventsInHand, Idle, NoSpec, NoPlan
  <1>2. TypeOK /\ RowsExist /\ WorkerHolds /\ ImportInv /\ [Next]_vars => ImportInv'
    BY NextImportsHaveNoSource, NextDeliveredOnce, NextEventsInHand DEF ImportInv
  <1>3. QED
    BY <1>1, <1>2, QueueTypeCorrect, PTL DEF Spec

\* However an import is cancelled, interrupted, failed and retried, and whatever the
\* web process does to it while the worker runs it, its events are ingested at most once.
THEOREM ImportsAreIngestedOnce == Spec => []ImportsIngestedOnce
  <1>1. TypeOK /\ ImportInv => ImportsIngestedOnce
    <2>1. ASSUME TypeOK, ImportInv, NEW j \in Jobs PROVE delivered[j] <= 1
      <3>1. delivered[j] \in Nat /\ (delivered[j] # 0 => delivered[j] = 1)
        BY <2>1 DEF TypeOK, HistoryTypeOK, ImportInv, DeliveredOnce
      <3>2. QED  BY <3>1
    <2>2. QED  BY <2>1 DEF ImportsIngestedOnce
  <1>2. QED
    BY <1>1, ImportInvariant, QueueTypeCorrect, PTL

\* The action of ImportsKept.
KeepsImports ==
    \A j \in Jobs : payload[j].events /\ ~payload'[j].events =>
        delivered'[j] = 1 \/ status'[j] = "cancelled"

LEMMA StepKeepsImports ==
    ASSUME TypeOK, WorkerHolds, ImportInv, [Next]_vars
    PROVE  KeepsImports
  <1> SUFFICES ASSUME NEW j \in Jobs, payload[j].events, ~payload'[j].events
               PROVE  delivered'[j] = 1 \/ status'[j] = "cancelled"
    BY DEF KeepsImports
  <1>1. j <= n /\ payload'[j] # payload[j]
    BY DEF ImportInv, ImportsHaveNoSource
  <1>2. CASE WebStep
    BY <1>1, <1>2, WebClosesAsCancelled
  <1>3. CASE TickCommit
    <2>1. PICK m \in n .. MaxJobs : \E spec \in [n + 1 .. m -> plan.new] : Insert(m, spec)
      BY <1>3 DEF TickCommit
    <2>2. PICK spec \in [n + 1 .. m -> plan.new] : Insert(m, spec)
      BY <2>1
    <2>3. QED  BY <1>1, <2>2, InsertPayloads DEF TypeOK
  <1>4. CASE StartCommit \/ ExceptCommit
    <2>1. ctx.seen = "cancel_requested"
      BY <1>1, <1>4 DEF StartCommit, ExceptCommit
    <2>2. /\ payload' = [payload EXCEPT ![cur] = Kept(@, FALSE)]
          /\ status' = [status EXCEPT ![cur] = "cancelled"]
      BY <1>4, <2>1 DEF StartCommit, ExceptCommit
    <2>3. j = cur
      BY <1>1, <2>2, ClosingPayloads
    <2>4. QED  BY <2>2, <2>3 DEF TypeOK, QueueTypeOK
  <1>5. CASE FinalCommit
    <2>1. payload' = [payload EXCEPT ![cur] = Kept(@, TRUE)] /\ pc = "commit"
      BY <1>5 DEF FinalCommit
    <2>2. j = cur
      BY <1>1, <2>1, ClosingPayloads
    <2>3. ctx.events /\ delivered[cur] = 0
      BY <2>1, <2>2 DEF ImportInv, EventsInHand
    <2>4. delivered' = [delivered EXCEPT ![cur] = delivered[cur] + 1]
      BY <1>5, <2>3 DEF FinalCommit
    <2>5. QED  BY <2>2, <2>3, <2>4 DEF TypeOK, HistoryTypeOK
  <1>6. CASE Recover
    BY <1>1, <1>6 DEF Recover
  <1>7. CASE Quiet
    BY <1>1, <1>7, QuietKeepsTheQueue
  <1>8. CASE UNCHANGED vars
    BY <1>1, <1>8 DEF vars, queueVars
  <1>9. QED
    BY <1>2, <1>3, <1>4, <1>5, <1>6, <1>7, <1>8, NextSplits

\* The events of an import leave its payload only by being ingested or with its
\* cancellation: no failure, fault or restart takes them.
THEOREM ImportsAreKept == Spec => ImportsKept
  <1>1. TypeOK /\ WorkerHolds /\ ImportInv /\ [Next]_vars => [KeepsImports]_vars
    BY StepKeepsImports
  <1>2. ImportsKept <=> [][KeepsImports]_vars
    BY PTL DEF ImportsKept, KeepsImports
  <1>3. QED
    BY <1>1, <1>2, QueueTypeCorrect, ImportInvariant, PTL DEF Spec

-----------------------------------------------------------------------------
(* The job the worker is at *)

\* The rows an insertion adds are queued.
LEMMA InsertQueues ==
    ASSUME QueueTypeOK, NEW m \in n .. MaxJobs, NEW spec, Insert(m, spec)
    PROVE  \A j \in Jobs : status'[j] \in {status[j], "queued"}
  BY DEF Insert

\* The web process marks no job running.
LEMMA WebStartsNothing ==
    ASSUME TypeOK, WebStep
    PROVE  \A j \in Jobs : status'[j] = "running" => status[j] = "running"
  <1> DEFINE Goal == \A j \in Jobs : status'[j] = "running" => status[j] = "running"
  <1>1. CASE Reading
    BY <1>1, ReadingChangesWebOnly DEF queueVars
  <1>2. ASSUME NEW j \in Jobs, RetryRequest(j) \/ CancelRequest(j) PROVE Goal
    BY <1>2 DEF RetryRequest, CancelRequest, queueVars
  <1>3. ASSUME NEW s \in Sources, ToggleSource(s) PROVE Goal
    BY <1>3 DEF ToggleSource, queueVars
  <1>4. CASE EnqueueCommit
    BY <1>4, EnqueueCommitInserts, InsertQueues DEF TypeOK
  <1>5. CASE SaveCommit
    BY <1>5 DEF SaveCommit, queueVars
  <1>6. CASE RetryCommit \/ CancelCommit
    BY <1>6 DEF RetryCommit, CancelCommit, TypeOK, QueueTypeOK
  <1>7. QED
    BY <1>1, <1>2, <1>3, <1>4, <1>5, <1>6 DEF WebStep, WebCommit

LEMMA NextJobAtHand ==
    ASSUME TypeOK, RowsExist, WorkerHolds, JobAtHand, [Next]_vars
    PROVE  JobAtHand'
  <1> USE DEF JobAtHand, Occupied
  <1>1. CASE WebStep
    <2>1. UNCHANGED <<pc, cur>>
      BY <1>1, WebKeepsTheWorker DEF workerVars
    <2>2. CASE pc = "chosen"
      <3>1. cur \in Jobs /\ cur <= n
        BY <2>2, CurrentJobTyped DEF TypeOK, QueueTypeOK
      <3>2. status'[cur] = "running" => status[cur] = "running"
        BY <1>1, <3>1, WebStartsNothing
      <3>3. QED  BY <2>1, <2>2, <3>2
    <2>3. CASE pc # "chosen"
      BY <2>1, <2>3
    <2>4. QED  BY <2>2, <2>3
  <1>2. CASE TickCommit
    <2>1. \A j \in Choice(status', job', payload') : status'[j] = "queued"
      BY DEF Choice, Oldest
    <2>2. \/ cur' \in Choice(status', job', payload') /\ pc' = "chosen"
          \/ cur' = 0 /\ pc' = "idle"
      BY <1>2 DEF TickCommit
    <2>3. QED  BY <2>1, <2>2
  <1>3. CASE StartCommit \/ FinalCommit \/ ExceptCommit
    BY <1>3 DEF StartCommit, FinalCommit, ExceptCommit
  <1>4. CASE Recover
    BY <1>4 DEF Recover
  <1>5. CASE TickScan \/ Heartbeat \/ WorkFails \/ ExceptRead \/ Crash \/ DbFault
    BY <1>5 DEF TickScan, Heartbeat, WorkFails, ExceptRead, Crash, DbFault
  <1>6. CASE StartRead
    BY <1>6 DEF StartRead
  <1>7. CASE CollectPoll \/ FinalRead
    <2>1. pc' \in {"collected", "except", "commit"}
      BY <1>7, Zenon DEF CollectPoll, FinalRead
    <2>2. QED  BY <2>1
  <1>8. CASE TimePasses \/ PeerHourPasses \/ UNCHANGED vars
    BY <1>8 DEF TimePasses, PeerHourPasses, vars, queueVars, workerVars
  <1>9. QED
    BY <1>1, <1>2, <1>3, <1>4, <1>5, <1>6, <1>7, <1>8, NextSplits DEF Quiet

LEMMA NextRunningIsOwned ==
    ASSUME ~DbFaults, TypeOK, WorkerHolds, JobAtHand, RunningIsOwned, [Next]_vars
    PROVE  RunningIsOwned'
  <1> USE DEF RunningIsOwned
  <1>1. CASE WebStep
    BY <1>1, WebKeepsTheWorker, WebStartsNothing DEF workerVars
  <1>2. CASE TickCommit
    <2>1. PICK m \in n .. MaxJobs : \E spec \in [n + 1 .. m -> plan.new] : Insert(m, spec)
      BY <1>2 DEF TickCommit
    <2>2. \A j \in Jobs : status'[j] = "running" => status[j] = "running"
      BY <2>1, InsertQueues DEF TypeOK
    <2>3. pc = "tick" /\ cur = 0
      BY <1>2 DEF TickCommit, JobAtHand, Occupied
    <2>4. \A j \in Jobs : j # 0
      BY DEF Jobs
    <2>5. QED  BY <2>2, <2>3, <2>4
  <1>3. CASE StartCommit
    <2>1. cur \in Jobs /\ pc = "starting"
      BY <1>3, CurrentJobTyped DEF StartCommit, Occupied
    <2>2. CASE ctx.seen = "cancel_requested"
      BY <1>3, <2>1, <2>2 DEF StartCommit, TypeOK, QueueTypeOK
    <2>3. CASE ctx.seen # "cancel_requested"
      BY <1>3, <2>1, <2>3 DEF StartCommit, TypeOK, QueueTypeOK
    <2>4. QED  BY <2>2, <2>3
  <1>4. CASE FinalCommit \/ ExceptCommit
    <2>1. cur \in Jobs /\ pc \in {"commit", "failing"}
      BY <1>4, CurrentJobTyped DEF FinalCommit, ExceptCommit, Occupied
    <2>2. status'[cur] # "running" /\ \A j \in Jobs : j # cur => status'[j] = status[j]
      BY <1>4, <2>1 DEF FinalCommit, ExceptCommit, TypeOK, QueueTypeOK
    <2>3. QED  BY <2>1, <2>2
  <1>5. CASE Recover
    BY <1>5 DEF Recover, Interrupted
  <1>6. CASE StartRead
    <2>1. cur \in Jobs /\ pc = "chosen" /\ status[cur] # "running"
      BY <1>6, CurrentJobTyped DEF StartRead, Occupied, JobAtHand
    <2>2. status' = status
      BY <1>6 DEF StartRead, queueVars
    <2>3. QED  BY <2>1, <2>2
  <1>7. CASE Heartbeat
    BY <1>7 DEF Heartbeat, CancelPending, queueVars
  <1>8. CASE WorkFails \/ ExceptRead \/ TickScan \/ Crash \/ CollectPoll \/ FinalRead
    <2>1. status' = status
      BY <1>8, QuietKeepsTheQueue DEF Quiet
    <2>2. pc # "down" /\ (cur' = cur \/ pc' = "down")
      <3>1. CASE CollectPoll \/ FinalRead
        BY <3>1, Zenon DEF CollectPoll, FinalRead
      <3>2. CASE WorkFails \/ ExceptRead \/ Crash
        BY <3>2 DEF WorkFails, ExceptRead, Crash
      <3>3. CASE TickScan
        BY <3>3 DEF TickScan
      <3>4. QED  BY <1>8, <3>1, <3>2, <3>3
    <2>3. QED  BY <2>1, <2>2
  <1>9. CASE TimePasses \/ PeerHourPasses \/ UNCHANGED vars
    BY <1>9 DEF TimePasses, PeerHourPasses, vars, queueVars, workerVars
  <1>10. QED
    BY <1>1, <1>2, <1>3, <1>4, <1>5, <1>6, <1>7, <1>8, <1>9, NextSplits DEF Quiet, DbFault

\* As long as no transaction of the worker fails by itself, a job is marked running only
\* while the worker is at it or is down: whatever the web process does, however often
\* the worker crashes, the restart finds every job that was interrupted.  (A fault of
\* the first heartbeat or of the except branch leaves its job running: the invariant
\* needs the hypothesis.)
THEOREM RunningJobsAreOwned ==
    ASSUME ~DbFaults
    PROVE  Spec => []RunningIsOwned
  <1>1. Init => JobAtHand /\ RunningIsOwned
    BY DEF Init, JobAtHand, Occupied, RunningIsOwned, Absent
  <1>2. TypeOK /\ RowsExist /\ WorkerHolds /\ JobAtHand /\ RunningIsOwned /\ [Next]_vars
        => JobAtHand' /\ RunningIsOwned'
    <2> SUFFICES ASSUME TypeOK, RowsExist, WorkerHolds, JobAtHand, RunningIsOwned, [Next]_vars
                 PROVE  JobAtHand' /\ RunningIsOwned'
      OBVIOUS
    <2>1. JobAtHand'
      BY NextJobAtHand
    <2>2. RunningIsOwned'
      BY NextRunningIsOwned
    <2>3. QED  BY <2>1, <2>2
  <1>3. QED
    BY <1>1, <1>2, QueueTypeCorrect, PTL DEF Spec
=============================================================================
