----------------------------- MODULE PollSlices -----------------------------
(***************************************************************************)
(* How a poll of one Splunk source covers index time: run_job plans a      *)
(* slice (deepsnout/worker.py), SplunkClient.slice halves it while it      *)
(* holds too many events (deepsnout/splunk.py), a source that is far       *)
(* behind goes on with further slices in the same poll, and the span a     *)
(* poll learned is what the next one starts with.  JobQueue sees of all    *)
(* this only the range that a poll has collected when it commits.          *)
(*                                                                         *)
(* Index time is counted in seconds; the events of a second do not change  *)
(* once the lag has passed, which is what the lag is for.                  *)
(***************************************************************************)
EXTENDS Integers

CONSTANTS
    MaxClock,       \* bound: index seconds
    Window,         \* settings.window
    CatchupWindow,  \* settings.catchup_window
    Lookback,       \* settings.lookback
    MaxEvents,      \* settings.max_events
    MaxSlices,      \* CATCHUP_BATCH_MAX_SLICES
    MaxBatch,       \* CATCHUP_BATCH_MAX_EVENTS
    Modes,          \* the search_profile settings a behaviour may have
    Loads,          \* bound: the event histories, per profile the events before each second
    MaxFailures     \* bound: polls that fail for reasons of their own

Profiles == {"broad", "cribl_flat_sysmon"}
Seconds == 0 .. MaxClock

ASSUME SliceAssumption ==
    /\ {MaxClock, Lookback, MaxFailures} \subseteq Nat
    /\ {Window, CatchupWindow, MaxEvents, MaxSlices, MaxBatch} \subseteq Nat \ {0}
    /\ Lookback <= MaxClock
    /\ Modes \subseteq {"auto"} \cup Profiles
    /\ Loads \subseteq [Profiles -> [Seconds -> Nat]]
    /\ \A l \in Loads : \A p \in Profiles :
         \A t, u \in Seconds : t <= u => l[p][t] <= l[p][u]

VARIABLES
    mode, load,     \* the configuration and the events, fixed in a behaviour
    clock,          \* latest: now minus the lag
    checkpoint,     \* the checkpoint column
    spans,          \* the learned span of each profile, 0 before there is one
    detected,       \* detected_profile is the Cribl profile
    auditDue,       \* PROFILE_AUDIT_INTERVAL has passed since the last audit
    pc,             \* where the poll is
    poll,           \* what the poll decided when it began
    slice,          \* the slice being searched: [from, end), what was asked, attempts
    next, span,     \* next_checkpoint and next_span
    slices, got,    \* len(reports) and len(records)
    batch,          \* history: how often the records hold each second
    failures        \* counter of the bound

settingVars == <<mode, load>>
tuningVars == <<spans, detected, auditDue>>
pollVars == <<pc, poll, slice, next, span, slices, got, batch>>
vars == <<settingVars, clock, checkpoint, tuningVars, pollVars, failures>>

NoCursor == -1

-----------------------------------------------------------------------------
(* Planning a slice *)

Least(a, b) == IF a <= b THEN a ELSE b
Most(a, b) == IF a >= b THEN a ELSE b

\* _next_slice_span.  The fill is received / MaxEvents: above 0.75, or after a slice
\* that had to be halved, the next slice aims at 0.65; below 0.45 it doubles.
\* (Faulty: a halved slice is followed by one twice as long.)
NextSpanDoubling(current, ceiling, received, attempts) == Least(ceiling, Most(current + 1, 2 * current))
NextSpan(current, ceiling, received, attempts) ==
    IF attempts > 1 \/ 100 * received > 75 * MaxEvents
    THEN IF received <= 0
         THEN Least(current, ceiling)
         ELSE Least(ceiling, Most(1, (current * 65 * MaxEvents) \div (100 * received)))
    ELSE IF 100 * received < 45 * MaxEvents /\ current < ceiling
         THEN Least(ceiling, Most(current + 1, 2 * current))
         ELSE Least(current, ceiling)

\* Where a slice that holds too many events ends when it is tried again.
Halved(s) == s.from + Most(1, (s.end - s.from) \div 2)

\* Where the next slice starts.  (Faulty: behind what was asked for.)
AskedEnd == slice.asked
Reached == slice.end

\* The events a search of the slice reports.
Count(s) == load[poll.profile][s.end] - load[poll.profile][s.from]

\* The search of a profile: the configured one, or what the audits of "auto" say.
Profile == IF mode # "auto" THEN mode
           ELSE IF detected /\ ~auditDue THEN "cribl_flat_sysmon" ELSE "broad"

NewSlice(from, end) == [from |-> from, end |-> end, asked |-> end, attempts |-> 1]
NoSlice == NewSlice(0, 0)
NoPoll == [start |-> 0, latest |-> 0, catching |-> FALSE, ceiling |-> 1, profile |-> "broad"]
Nothing == [t \in Seconds |-> 0]

-----------------------------------------------------------------------------
(* A poll *)

\* The poll reads the cursor and the tuning and plans its first slice; it has nothing
\* to collect when the cursor is at the clock.
Begin ==
    /\ pc = "idle"
    /\ LET start == IF checkpoint = NoCursor THEN clock - Lookback ELSE checkpoint
           catching == clock - start > 2 * Window
           ceiling == IF catching THEN Most(Window, CatchupWindow) ELSE Window
           learned == IF spans[Profile] = 0 THEN Window ELSE spans[Profile]
           preferred == Most(1, Least(ceiling, learned))
           end == Least(clock, start + preferred)
       IN  /\ poll' = [start |-> start, latest |-> clock, catching |-> catching,
                       ceiling |-> ceiling, profile |-> Profile]
           /\ IF start >= end
              THEN pc' = "commit" /\ next' = start /\ span' = preferred /\ UNCHANGED slice
              ELSE /\ pc' = "search" /\ slice' = NewSlice(start, end)
                   /\ UNCHANGED <<next, span>>
    /\ slices' = 0 /\ got' = 0 /\ batch' = Nothing
    /\ UNCHANGED <<settingVars, clock, checkpoint, tuningVars, failures>>

\* A search that reports fewer events than the cap is taken whole.  The records kept are
\* fewer: unsupported and malformed ones and other computers are left out.
Collected ==
    /\ pc = "search"
    /\ Count(slice) < MaxEvents
    /\ batch' = [t \in Seconds |-> IF slice.from <= t /\ t < slice.end THEN batch[t] + 1 ELSE batch[t]]
    /\ next' = Reached
    /\ span' = NextSpan(Most(1, slice.end - slice.from), poll.ceiling, Count(slice), slice.attempts)
    /\ slices' = slices + 1
    /\ \E kept \in 0 .. Count(slice) : got' = got + kept
    /\ pc' = "collected"
    /\ UNCHANGED <<settingVars, clock, checkpoint, tuningVars, poll, slice, failures>>

\* One that reports more is tried again from the same start with half the span.
\* (Faulty: the poll gives up.)
TooManyFails ==
    /\ pc = "search"
    /\ Count(slice) >= MaxEvents
    /\ pc' = "idle"
    /\ UNCHANGED <<settingVars, clock, checkpoint, tuningVars, poll, slice, next, span, slices, got,
                   batch, failures>>
TooManyEvents ==
    /\ pc = "search"
    /\ Count(slice) >= MaxEvents
    /\ slice.end - slice.from > 1
    /\ slice' = [slice EXCEPT !.end = Halved(slice), !.attempts = @ + 1]
    /\ UNCHANGED <<settingVars, clock, checkpoint, tuningVars, pc, poll, next, span, slices, got,
                   batch, failures>>

\* A batch goes on with another slice while the source is far behind, the profile is
\* the optimized one, and neither the slices nor the records have reached their bound.
\* (Faulty: the records are not looked at.)
RoomWithoutRecords == slices < MaxSlices
RoomForSlice == slices < MaxSlices /\ got < MaxBatch
Continues == /\ poll.catching /\ poll.profile = "cribl_flat_sysmon"
             /\ next < poll.latest
             /\ RoomForSlice

NextSlice ==
    /\ pc = "collected" /\ Continues
    /\ slice' = NewSlice(next, Least(poll.latest, next + span))
    /\ pc' = "search"
    /\ UNCHANGED <<settingVars, clock, checkpoint, tuningVars, poll, next, span, slices, got,
                   batch, failures>>

\* The batch is complete, or its time (CATCHUP_COLLECTION_BUDGET) is over.
BatchEnds ==
    /\ pc = "collected"
    /\ pc' = "commit"
    /\ UNCHANGED <<settingVars, clock, checkpoint, tuningVars, poll, slice, next, span, slices, got,
                   batch, failures>>

\* Cursor and tuning are written together.  A broad poll of an "auto" source with a
\* sample that is large enough decides on the profile and restarts the interval.
SampleSeen == load[poll.profile][next] > load[poll.profile][poll.start]
Commit ==
    /\ pc = "commit"
    /\ checkpoint' = next
    /\ spans' = [spans EXCEPT ![poll.profile] = span]
    /\ \/ UNCHANGED <<detected, auditDue>>
       \/ /\ mode = "auto" /\ poll.profile = "broad" /\ SampleSeen
          /\ detected' \in BOOLEAN /\ auditDue' = FALSE
    /\ pc' = "idle"
    /\ UNCHANGED <<settingVars, clock, poll, slice, next, span, slices, got, batch, failures>>

\* A second that alone reaches the cap fails the poll: cursor and tuning stay.
TooDense ==
    /\ pc = "search"
    /\ Count(slice) >= MaxEvents
    /\ slice.end - slice.from <= 1
    /\ pc' = "idle"
    /\ UNCHANGED <<settingVars, clock, checkpoint, tuningVars, poll, slice, next, span, slices, got,
                   batch, failures>>

\* So does anything else that goes wrong: the search, its results, the time budget of
\* the poll, a cancellation, the commit.
Fails ==
    /\ pc # "idle" /\ failures < MaxFailures
    /\ failures' = failures + 1
    /\ pc' = "idle"
    /\ UNCHANGED <<settingVars, clock, checkpoint, tuningVars, poll, slice, next, span, slices, got,
                   batch>>

-----------------------------------------------------------------------------
(* Time *)

TimePasses ==
    /\ clock < MaxClock
    /\ clock' = clock + 1
    /\ UNCHANGED <<settingVars, checkpoint, tuningVars, pollVars, failures>>

AuditFallsDue ==
    /\ mode = "auto" /\ ~auditDue
    /\ auditDue' = TRUE
    /\ UNCHANGED <<settingVars, clock, checkpoint, spans, detected, pollVars, failures>>

-----------------------------------------------------------------------------
(* The specification *)

Init ==
    /\ mode \in Modes /\ load \in Loads
    /\ clock = Lookback
    /\ checkpoint = NoCursor
    /\ spans = [p \in Profiles |-> 0]
    /\ detected = FALSE /\ auditDue = TRUE
    /\ pc = "idle" /\ poll = NoPoll /\ slice = NoSlice
    /\ next = 0 /\ span = 1 /\ slices = 0 /\ got = 0 /\ batch = Nothing
    /\ failures = 0

PollStep == \/ Begin \/ Collected \/ TooManyEvents \/ NextSlice \/ BatchEnds \/ Commit \/ TooDense

Next == PollStep \/ Fails \/ TimePasses \/ AuditFallsDue

Spec == Init /\ [][Next]_vars

\* The queue schedules a source that is behind again and again.
FairSpec == Spec /\ WF_vars(PollStep)

-----------------------------------------------------------------------------
(* Properties *)

Largest == Most(Window, CatchupWindow)

TypeOK ==
    /\ mode \in Modes /\ load \in Loads
    /\ clock \in Lookback .. MaxClock
    /\ checkpoint \in Seconds \cup {NoCursor}
    /\ spans \in [Profiles -> 0 .. Largest]
    /\ detected \in BOOLEAN /\ auditDue \in BOOLEAN
    /\ pc \in {"idle", "search", "collected", "commit"}
    /\ poll \in [start : Seconds, latest : Seconds, catching : BOOLEAN,
                 ceiling : 1 .. Largest, profile : Profiles]
    /\ slice \in [from : Seconds, end : Seconds, asked : Seconds, attempts : Nat \ {0}]
    /\ next \in Seconds /\ span \in 1 .. Largest
    /\ slices \in Nat /\ got \in Nat
    /\ batch \in [Seconds -> Nat]
    /\ failures \in 0 .. MaxFailures

\* What a poll has collected is the range from its start to next_checkpoint, each
\* second once: slices that were halved or that follow each other leave no gap and do
\* not overlap.
BatchReaches(s) == \A t \in Seconds : batch[t] = IF poll.start <= t /\ t < s THEN 1 ELSE 0
CollectedRange ==
    pc \in {"collected", "commit"} =>
        /\ poll.start <= next /\ next <= Most(poll.start, poll.latest)
        /\ BatchReaches(next)

\* A poll that commits moves the cursor on, unless there was nothing to collect.
CommitsMakeProgress ==
    pc = "commit" => next > poll.start \/ poll.start >= poll.latest

\* One transaction ingests fewer records than the batch bound and one slice together.
BatchBounded == got < MaxBatch + MaxEvents /\ slices <= MaxSlices

\* What makes these inductive: while a slice is searched the batch reaches up to it, and
\* there is room for it.
SliceFollowsBatch ==
    /\ pc = "search" => /\ poll.start <= slice.from /\ slice.from < slice.end
                        /\ slice.end <= poll.latest
                        /\ BatchReaches(slice.from)
                        /\ RoomForSlice
    /\ pc = "collected" => poll.start < next /\ next <= poll.latest

PollInv == TypeOK /\ SliceFollowsBatch /\ CollectedRange /\ CommitsMakeProgress /\ BatchBounded

\* At a steady rate of events the spans that are learned fit under the cap, so that no
\* search but those of the configured window is tried twice.
Steady(p, rate) == \A t \in Seconds : load[p][t] = rate * t
SteadySpansFit ==
    \A p \in Profiles : \A rate \in 0 .. MaxEvents :
        Steady(p, rate) /\ spans[p] > Window => rate * spans[p] < MaxEvents

\* The span that a poll has learned and not committed fits as well.
LearnedSpanFits ==
    pc \in {"collected", "commit"} =>
        \A rate \in 0 .. MaxEvents :
            Steady(poll.profile, rate) /\ span > Window => rate * span < MaxEvents

\* A second at or over the cap.
Dense(t) == t < MaxClock /\ \E p \in Profiles : load[p][t + 1] - load[p][t] >= MaxEvents

\* Every second is passed by the cursor in the end when none is too dense; a cursor that
\* advances slice by slice reaches every second before the first one that is.
Collectable(t) ==
    \/ \A u \in Seconds : ~Dense(u)
    \/ mode = "broad" /\ checkpoint \in 0 .. t /\ \A u \in checkpoint .. t : ~Dense(u)
BacklogIsCollected ==
    \A t \in Seconds : t < clock /\ Collectable(t) ~> checkpoint > t
=============================================================================
