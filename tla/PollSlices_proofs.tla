-------------------------- MODULE PollSlices_proofs --------------------------
(***************************************************************************)
(* The slices of a poll, proved for every setting and every history of     *)
(* events: a poll collects a range of index time from its start without a  *)
(* gap or an overlap, moves on, and stays within its bounds; the spans it  *)
(* learns at a steady rate fit under the cap; and what the polls of a      *)
(* source commit, one after the other, is a CollectionCursor.              *)
(***************************************************************************)
EXTENDS PollSlices, TLAPS

-----------------------------------------------------------------------------
(* The operators *)

LEMMA SettingsTyped ==
    /\ MaxClock \in Nat /\ Lookback \in Nat /\ Lookback <= MaxClock /\ MaxFailures \in Nat
    /\ Window \in Nat \ {0} /\ CatchupWindow \in Nat \ {0} /\ MaxEvents \in Nat \ {0}
    /\ MaxSlices \in Nat \ {0} /\ MaxBatch \in Nat \ {0}
    /\ Largest \in Nat \ {0} /\ Window <= Largest /\ CatchupWindow <= Largest
  BY SliceAssumption DEF Largest, Most

LEMMA DivIsInt == ASSUME NEW a \in Nat, NEW b \in Nat \ {0} PROVE a \div b \in Int
  OBVIOUS

\* Whatever was received, the next span is a span, and no longer than the ceiling.
LEMMA NextSpanBounds ==
    ASSUME NEW current \in Nat \ {0}, NEW ceiling \in Nat \ {0}, NEW received \in Nat,
           NEW attempts \in Nat \ {0}
    PROVE  NextSpan(current, ceiling, received, attempts) \in 1 .. ceiling
  <1> DEFINE target == (current * 65 * MaxEvents) \div (100 * received)
  <1>1. CASE received > 0
    <2>1. current * 65 * MaxEvents \in Nat
      BY SettingsTyped
    <2>2. 100 * received \in Nat \ {0}
      BY <1>1
    <2>3. target \in Int
      BY <2>1, <2>2, DivIsInt
    <2>4. Least(ceiling, Most(1, target)) \in 1 .. ceiling
      <3> HIDE DEF target
      <3> QED  BY <2>3 DEF Least, Most
    <2>5. QED
      BY <1>1, <2>4 DEF NextSpan, Least, Most
  <1>2. CASE received <= 0
    BY <1>2 DEF NextSpan, Least, Most
  <1>3. QED  BY <1>1, <1>2

\* A slice that is halved keeps its start and becomes shorter, never empty.
LEMMA HalvedShrinks ==
    ASSUME NEW s \in [from : Seconds, end : Seconds, asked : Seconds, attempts : Nat \ {0}],
           s.end - s.from > 1
    PROVE  /\ Halved(s) \in Seconds
           /\ s.from < Halved(s) /\ Halved(s) < s.end
  <1>1. s.from \in Int /\ s.end \in Int
    BY SettingsTyped DEF Seconds
  <1>2. (s.end - s.from) \div 2 \in Int /\ (s.end - s.from) \div 2 < s.end - s.from
    BY <1>1
  <1>3. QED
    BY <1>1, <1>2, SettingsTyped DEF Halved, Most, Seconds

\* The events of a range of seconds.
LEMMA CountIsNat ==
    ASSUME TypeOK, slice.from <= slice.end
    PROVE  Count(slice) \in Nat
  <1>1. /\ load[poll.profile] \in [Seconds -> Nat]
        /\ load[poll.profile][slice.from] <= load[poll.profile][slice.end]
    BY SliceAssumption DEF TypeOK
  <1>2. QED
    BY <1>1 DEF Count, TypeOK

-----------------------------------------------------------------------------
(* The initial state and the steps *)

LEMMA ValuesTyped ==
    /\ NoSlice \in [from : Seconds, end : Seconds, asked : Seconds, attempts : Nat \ {0}]
    /\ NoPoll \in [start : Seconds, latest : Seconds, catching : BOOLEAN,
                   ceiling : 1 .. Largest, profile : Profiles]
    /\ Nothing \in [Seconds -> Nat]
    /\ 0 \in Seconds
  <1>1. 0 \in Seconds
    BY SettingsTyped DEF Seconds
  <1>2. 1 \in 1 .. Largest
    BY SettingsTyped
  <1>3. QED
    BY <1>1, <1>2 DEF NoSlice, NewSlice, NoPoll, Nothing, Profiles

LEMMA ProfileTyped == ASSUME mode \in Modes PROVE Profile \in Profiles
  BY SliceAssumption DEF Profile, Profiles

LEMMA NewSliceTyped ==
    ASSUME NEW from \in Seconds, NEW end \in Seconds
    PROVE  NewSlice(from, end) \in [from : Seconds, end : Seconds, asked : Seconds,
                                    attempts : Nat \ {0}]
  BY DEF NewSlice

LEMMA InitPollInv == ASSUME Init PROVE PollInv
  <1>1. clock \in Lookback .. MaxClock /\ 0 \in 0 .. Largest /\ 1 \in 1 .. Largest
        /\ 0 \in 0 .. MaxFailures
    BY SettingsTyped DEF Init
  <1>2. TypeOK
    BY <1>1, ValuesTyped DEF Init, TypeOK
  <1>3. SliceFollowsBatch /\ CollectedRange /\ CommitsMakeProgress
    BY DEF Init, SliceFollowsBatch, CollectedRange, CommitsMakeProgress
  <1>4. BatchBounded
    BY SettingsTyped DEF Init, BatchBounded
  <1>5. QED  BY <1>2, <1>3, <1>4 DEF PollInv

\* A poll begins at the cursor, inside the index time that has passed, with nothing in
\* its batch.
LEMMA BeginKeepsPollInv == ASSUME PollInv, Begin PROVE PollInv'
  <1> DEFINE start == IF checkpoint = NoCursor THEN clock - Lookback ELSE checkpoint
             catching == clock - start > 2 * Window
             ceiling == IF catching THEN Most(Window, CatchupWindow) ELSE Window
             learned == IF spans[Profile] = 0 THEN Window ELSE spans[Profile]
             preferred == Most(1, Least(ceiling, learned))
             end == Least(clock, start + preferred)
  <1>1. Profile \in Profiles
    BY ProfileTyped DEF PollInv, TypeOK
  <1>2. clock \in Seconds /\ start \in Seconds
    <2>1. clock \in Lookback .. MaxClock /\ checkpoint \in Seconds \cup {NoCursor}
      BY DEF PollInv, TypeOK
    <2>2. QED
      BY <2>1, SettingsTyped DEF Seconds, NoCursor
  <1>3. ceiling \in 1 .. Largest
    BY SettingsTyped DEF Most, Largest
  <1>4. learned \in 1 .. Largest
    <2>1. spans[Profile] \in 0 .. Largest
      BY <1>1 DEF PollInv, TypeOK
    <2>2. QED
      BY <2>1, SettingsTyped
  <1>5. preferred \in 1 .. Largest
    <2> HIDE DEF ceiling, learned
    <2> QED  BY <1>3, <1>4, SettingsTyped DEF Most, Least
  <1>6. /\ end \in Int /\ end <= clock /\ (start < clock => start < end)
        /\ (start >= end => start >= clock)
    <2> HIDE DEF preferred, start
    <2> QED  BY <1>2, <1>5, SettingsTyped DEF Least, Seconds
  <1>7. start < end => end \in Seconds
    <2> HIDE DEF end, start
    <2> QED  BY <1>2, <1>6, SettingsTyped DEF Seconds
  <1>8. /\ poll' = [start |-> start, latest |-> clock, catching |-> catching,
                    ceiling |-> ceiling, profile |-> Profile]
        /\ slices' = 0 /\ got' = 0 /\ batch' = Nothing
        /\ UNCHANGED <<mode, load, clock, checkpoint, spans, detected, auditDue, failures>>
    BY DEF Begin, settingVars, tuningVars
  <1>9. \/ start >= end /\ pc' = "commit" /\ next' = start /\ span' = preferred /\ slice' = slice
        \/ start < end /\ pc' = "search" /\ slice' = NewSlice(start, end)
           /\ next' = next /\ span' = span
    <2> HIDE DEF preferred
    <2>1. start >= end \/ start < end
      BY <1>2, <1>6 DEF Seconds
    <2>2. QED  BY <2>1 DEF Begin, preferred
  <1> HIDE DEF start, catching, ceiling, learned, preferred, end
  <1>10. catching \in BOOLEAN
    BY DEF catching
  <1>11. TypeOK'
    <2>1. poll' \in [start : Seconds, latest : Seconds, catching : BOOLEAN,
                    ceiling : 1 .. Largest, profile : Profiles]
      BY <1>1, <1>2, <1>3, <1>8, <1>10
    <2>2. /\ slice' \in [from : Seconds, end : Seconds, asked : Seconds, attempts : Nat \ {0}]
          /\ next' \in Seconds /\ span' \in 1 .. Largest
          /\ pc' \in {"idle", "search", "collected", "commit"}
      <3>1. CASE pc' = "commit"
        <4>1. next' = start /\ span' = preferred /\ slice' = slice
          BY <1>9, <3>1
        <4>2. QED
          BY <1>2, <1>5, <3>1, <4>1 DEF PollInv, TypeOK
      <3>2. CASE pc' = "search"
        <4>1. start < end /\ slice' = NewSlice(start, end) /\ next' = next /\ span' = span
          BY <1>9, <3>2
        <4>2. slice' \in [from : Seconds, end : Seconds, asked : Seconds, attempts : Nat \ {0}]
          BY <1>2, <1>7, <4>1, NewSliceTyped
        <4>3. QED
          BY <3>2, <4>1, <4>2 DEF PollInv, TypeOK
      <3>3. QED  BY <1>9, <3>1, <3>2
    <2>3. slices' \in Nat /\ got' \in Nat /\ batch' \in [Seconds -> Nat]
      BY <1>8, ValuesTyped
    <2>4. QED
      BY <1>8, <2>1, <2>2, <2>3 DEF PollInv, TypeOK
  <1>12. SliceFollowsBatch' /\ CollectedRange'
    <2>1. CASE pc' = "commit"
      <3>1. next' = start /\ poll'.start = start /\ poll'.latest = clock
        BY <1>8, <1>9, <2>1
      <3>2. start <= Most(start, clock)
        BY <1>2 DEF Most, Seconds
      <3>3. \A t \in Seconds : batch'[t] = 0 /\ ~(start <= t /\ t < start)
        BY <1>2, <1>8 DEF Nothing, Seconds
      <3>4. start <= start
        BY <1>2 DEF Seconds
      <3>5. QED
        BY <2>1, <3>1, <3>2, <3>3, <3>4 DEF SliceFollowsBatch, CollectedRange, BatchReaches
    <2>2. CASE pc' = "search"
      <3>1. /\ slice'.from = start /\ slice'.end = end /\ start < end
            /\ poll'.start = start /\ poll'.latest = clock
        BY <1>8, <1>9, <2>2 DEF NewSlice
      <3>2. RoomForSlice'
        BY <1>8, SettingsTyped DEF RoomForSlice
      <3>3. \A t \in Seconds : batch'[t] = 0 /\ ~(start <= t /\ t < start)
        BY <1>2, <1>8 DEF Nothing, Seconds
      <3>4. start <= start
        BY <1>2 DEF Seconds
      <3>5. QED
        BY <1>6, <2>2, <3>1, <3>2, <3>3, <3>4 DEF SliceFollowsBatch, CollectedRange, BatchReaches
    <2>3. QED  BY <1>9, <2>1, <2>2
  <1>13. CommitsMakeProgress'
    BY <1>6, <1>8, <1>9 DEF CommitsMakeProgress
  <1>14. BatchBounded'
    BY <1>8, SettingsTyped DEF BatchBounded
  <1>15. QED  BY <1>11, <1>12, <1>13, <1>14 DEF PollInv

\* A slice that is taken extends the batch by the seconds behind it, and by no other.
LEMMA CollectedKeepsPollInv == ASSUME PollInv, Collected PROVE PollInv'
  <1>1. /\ pc = "search" /\ pc' = "collected" /\ next' = slice.end
        /\ slices' = slices + 1 /\ Count(slice) < MaxEvents
        /\ \E kept \in 0 .. Count(slice) : got' = got + kept
        /\ UNCHANGED <<mode, load, clock, checkpoint, spans, detected, auditDue, poll, slice, failures>>
    BY DEF Collected, Reached, settingVars, tuningVars
  <1>2. TypeOK
    BY DEF PollInv
  <1>3. /\ poll.start \in Seconds /\ poll.latest \in Seconds /\ poll.ceiling \in 1 .. Largest
        /\ slice.from \in Seconds /\ slice.end \in Seconds /\ slice.attempts \in Nat \ {0}
    BY <1>2 DEF TypeOK
  <1>4. /\ poll.start <= slice.from /\ slice.from < slice.end /\ slice.end <= poll.latest
        /\ BatchReaches(slice.from) /\ RoomForSlice
    BY <1>1 DEF PollInv, SliceFollowsBatch
  <1>5. Count(slice) \in Nat
    BY <1>2, <1>3, <1>4, CountIsNat DEF Seconds
  <1>6. TypeOK'
    <2>1. span' \in 1 .. Largest
      <3>1. Most(1, slice.end - slice.from) \in Nat \ {0}
        BY <1>3 DEF Most, Seconds
      <3>2. poll.ceiling \in Nat \ {0} /\ poll.ceiling <= Largest /\ Largest \in Nat
        BY <1>3, SettingsTyped
      <3>3. span' \in 1 .. poll.ceiling
        BY <1>3, <1>5, <3>1, <3>2, NextSpanBounds DEF Collected
      <3>4. QED
        BY <3>2, <3>3
    <2>2. batch' \in [Seconds -> Nat]
      <3>1. \A t \in Seconds : batch[t] \in Nat /\ batch[t] + 1 \in Nat
        BY <1>2 DEF TypeOK
      <3>2. QED
        BY <3>1 DEF Collected
    <2>4. next' \in Seconds /\ slices' \in Nat /\ got' \in Nat
      BY <1>1, <1>2, <1>3, <1>5 DEF TypeOK
    <2>5. QED
      BY <1>1, <1>2, <2>1, <2>2, <2>4 DEF TypeOK
  <1>7. BatchReaches(slice.end)'
    <2>1. ASSUME NEW t \in Seconds
          PROVE  batch'[t] = IF poll.start <= t /\ t < slice.end THEN 1 ELSE 0
      <3>1. batch'[t] = IF slice.from <= t /\ t < slice.end THEN batch[t] + 1 ELSE batch[t]
        BY DEF Collected
      <3>2. batch[t] = IF poll.start <= t /\ t < slice.from THEN 1 ELSE 0
        BY <1>4 DEF BatchReaches
      <3>3. QED
        BY <1>3, <1>4, <3>1, <3>2 DEF Seconds
    <2>2. QED
      BY <1>1, <2>1 DEF BatchReaches
  <1>8. SliceFollowsBatch' /\ CollectedRange' /\ CommitsMakeProgress'
    <2>1. poll.start < slice.end /\ slice.end <= Most(poll.start, poll.latest)
      BY <1>3, <1>4 DEF Most, Seconds
    <2>2. poll.start <= slice.end
      BY <1>3, <2>1 DEF Seconds
    <2>3. QED
      BY <1>1, <1>4, <1>7, <2>1, <2>2
         DEF SliceFollowsBatch, CollectedRange, CommitsMakeProgress, BatchReaches
  <1>9. BatchBounded'
    BY <1>1, <1>2, <1>4, <1>5, SettingsTyped DEF BatchBounded, RoomForSlice, TypeOK
  <1>10. QED  BY <1>6, <1>8, <1>9 DEF PollInv

\* A slice that is halved still follows the batch.
LEMMA TooManyEventsKeepsPollInv == ASSUME PollInv, TooManyEvents PROVE PollInv'
  <1>1. /\ pc = "search" /\ slice.end - slice.from > 1
        /\ slice' = [slice EXCEPT !.end = Halved(slice), !.attempts = @ + 1]
        /\ UNCHANGED <<mode, load, clock, checkpoint, spans, detected, auditDue, pc, poll, next,
                       span, slices, got, batch, failures>>
    BY DEF TooManyEvents, settingVars, tuningVars
  <1>2. slice \in [from : Seconds, end : Seconds, asked : Seconds, attempts : Nat \ {0}]
    BY DEF PollInv, TypeOK
  <1>3. Halved(slice) \in Seconds /\ slice.from < Halved(slice) /\ Halved(slice) < slice.end
    BY <1>1, <1>2, HalvedShrinks
  <1>4. /\ slice' \in [from : Seconds, end : Seconds, asked : Seconds, attempts : Nat \ {0}]
        /\ slice'.from = slice.from /\ slice'.end = Halved(slice)
    <2>1. slice.attempts + 1 \in Nat \ {0}
      BY <1>2
    <2>2. slice' = [from |-> slice.from, end |-> Halved(slice), asked |-> slice.asked,
                    attempts |-> slice.attempts + 1]
      BY <1>1, <1>2
    <2>3. QED
      BY <1>2, <1>3, <2>1, <2>2
  <1>5. TypeOK'
    BY <1>1, <1>4 DEF PollInv, TypeOK
  <1>6. SliceFollowsBatch'
    <2>1. /\ poll.start <= slice.from /\ slice.end <= poll.latest
          /\ BatchReaches(slice.from) /\ RoomForSlice
      BY <1>1 DEF PollInv, SliceFollowsBatch
    <2>2. slice'.end <= poll.latest
      BY <1>2, <1>3, <1>4, <2>1 DEF PollInv, TypeOK, Seconds
    <2>3. /\ poll'.start <= slice'.from /\ slice'.from < slice'.end /\ slice'.end <= poll'.latest
          /\ BatchReaches(slice.from)' /\ RoomForSlice'
      BY <1>1, <1>3, <1>4, <2>1, <2>2 DEF BatchReaches, RoomForSlice
    <2>4. QED
      BY <1>1, <1>4, <2>3 DEF SliceFollowsBatch, BatchReaches
  <1>7. CollectedRange' /\ CommitsMakeProgress' /\ BatchBounded'
    BY <1>1 DEF PollInv, CollectedRange, CommitsMakeProgress, BatchBounded
  <1>8. QED  BY <1>5, <1>6, <1>7 DEF PollInv

\* The next slice starts where the batch ends.
LEMMA NextSliceKeepsPollInv == ASSUME PollInv, NextSlice PROVE PollInv'
  <1> DEFINE end == Least(poll.latest, next + span)
  <1>1. /\ pc = "collected" /\ pc' = "search" /\ slice' = NewSlice(next, end)
        /\ next < poll.latest /\ RoomForSlice
        /\ UNCHANGED <<mode, load, clock, checkpoint, spans, detected, auditDue, poll, next, span,
                       slices, got, batch, failures>>
    BY DEF NextSlice, Continues, settingVars, tuningVars
  <1>2. next \in Seconds /\ span \in 1 .. Largest /\ poll.start \in Seconds /\ poll.latest \in Seconds
    BY DEF PollInv, TypeOK
  <1>3. end \in Seconds /\ next < end /\ end <= poll.latest
    BY <1>1, <1>2, SettingsTyped DEF Least, Seconds
  <1> HIDE DEF end
  <1>4. /\ slice' \in [from : Seconds, end : Seconds, asked : Seconds, attempts : Nat \ {0}]
        /\ slice'.from = next /\ slice'.end = end
    BY <1>1, <1>2, <1>3, NewSliceTyped DEF NewSlice
  <1>5. TypeOK'
    BY <1>1, <1>4 DEF PollInv, TypeOK
  <1>6. SliceFollowsBatch'
    <2>1. poll.start <= next /\ BatchReaches(next)
      BY <1>1 DEF PollInv, CollectedRange
    <2>2. QED
      BY <1>1, <1>3, <1>4, <2>1 DEF SliceFollowsBatch, BatchReaches, RoomForSlice
  <1>7. CollectedRange' /\ CommitsMakeProgress' /\ BatchBounded'
    BY <1>1 DEF PollInv, CollectedRange, CommitsMakeProgress, BatchBounded
  <1>8. QED  BY <1>5, <1>6, <1>7 DEF PollInv

LEMMA BatchEndsKeepsPollInv == ASSUME PollInv, BatchEnds PROVE PollInv'
  <1>1. /\ pc = "collected" /\ pc' = "commit"
        /\ UNCHANGED <<mode, load, clock, checkpoint, spans, detected, auditDue, poll, slice, next,
                       span, slices, got, batch, failures>>
    BY DEF BatchEnds, settingVars, tuningVars
  <1>2. TypeOK' /\ BatchBounded'
    BY <1>1 DEF PollInv, TypeOK, BatchBounded
  <1>3. SliceFollowsBatch' /\ CollectedRange'
    BY <1>1 DEF PollInv, SliceFollowsBatch, CollectedRange, BatchReaches
  <1>4. CommitsMakeProgress'
    <2>1. poll.start < next /\ next \in Seconds /\ poll.start \in Seconds
      BY <1>1 DEF PollInv, SliceFollowsBatch, TypeOK
    <2>2. QED
      BY <1>1, <2>1 DEF CommitsMakeProgress, Seconds
  <1>5. QED  BY <1>2, <1>3, <1>4 DEF PollInv

LEMMA CommitKeepsPollInv == ASSUME PollInv, Commit PROVE PollInv'
  <1>1. /\ pc' = "idle" /\ checkpoint' = next
        /\ spans' = [spans EXCEPT ![poll.profile] = span]
        /\ detected' \in BOOLEAN /\ auditDue' \in BOOLEAN
        /\ UNCHANGED <<mode, load, clock, poll, slice, next, span, slices, got, batch,
                       failures>>
    BY DEF Commit, settingVars, PollInv, TypeOK
  <1>2. spans' \in [Profiles -> 0 .. Largest]
    <2>1. span \in 0 .. Largest /\ poll.profile \in Profiles /\ spans \in [Profiles -> 0 .. Largest]
      BY SettingsTyped DEF PollInv, TypeOK
    <2>2. QED
      BY <1>1, <2>1
  <1>3. TypeOK'
    BY <1>1, <1>2 DEF PollInv, TypeOK
  <1>4. SliceFollowsBatch' /\ CollectedRange' /\ CommitsMakeProgress' /\ BatchBounded'
    BY <1>1 DEF PollInv, SliceFollowsBatch, CollectedRange, CommitsMakeProgress, BatchBounded
  <1>5. QED  BY <1>3, <1>4 DEF PollInv

LEMMA FailureKeepsPollInv == ASSUME PollInv, TooDense \/ Fails PROVE PollInv'
  <1>1. /\ pc' = "idle" /\ failures' \in 0 .. MaxFailures
        /\ UNCHANGED <<mode, load, clock, checkpoint, spans, detected, auditDue, poll, slice, next,
                       span, slices, got, batch>>
    BY SettingsTyped DEF TooDense, Fails, settingVars, tuningVars, PollInv, TypeOK
  <1>2. QED
    BY <1>1 DEF PollInv, TypeOK, SliceFollowsBatch, CollectedRange, CommitsMakeProgress, BatchBounded

\* What goes on around a poll does not touch it.
LEMMA AroundKeepsPollInv ==
    ASSUME PollInv, TimePasses \/ AuditFallsDue \/ UNCHANGED vars
    PROVE  PollInv'
  <1>1. /\ clock' \in Lookback .. MaxClock /\ auditDue' \in BOOLEAN
        /\ UNCHANGED <<mode, load, checkpoint, spans, detected, pc, poll, slice, next, span, slices,
                       got, batch, failures>>
    <2>1. clock \in Lookback .. MaxClock /\ auditDue \in BOOLEAN
      BY DEF PollInv, TypeOK
    <2>2. CASE TimePasses
      BY <2>1, <2>2, SettingsTyped DEF TimePasses, settingVars, tuningVars, pollVars
    <2>3. CASE AuditFallsDue
      BY <2>1, <2>3 DEF AuditFallsDue, settingVars, pollVars
    <2>4. CASE UNCHANGED vars
      BY <2>1, <2>4 DEF vars, settingVars, tuningVars, pollVars
    <2>5. QED  BY <2>2, <2>3, <2>4
  <1>2. TypeOK'
    BY <1>1 DEF PollInv, TypeOK
  <1>3. SliceFollowsBatch' /\ CollectedRange' /\ CommitsMakeProgress' /\ BatchBounded'
    BY <1>1 DEF PollInv, SliceFollowsBatch, CollectedRange, CommitsMakeProgress, BatchBounded,
                BatchReaches, RoomForSlice
  <1>4. QED  BY <1>2, <1>3 DEF PollInv

LEMMA NextKeepsPollInv == ASSUME PollInv, [Next]_vars PROVE PollInv'
  BY BeginKeepsPollInv, CollectedKeepsPollInv, TooManyEventsKeepsPollInv, NextSliceKeepsPollInv,
     BatchEndsKeepsPollInv, CommitKeepsPollInv, FailureKeepsPollInv, AroundKeepsPollInv
     DEF Next, PollStep

-----------------------------------------------------------------------------
(* The theorems *)

\* The invariant of a poll: where its slice, its batch and its bounds stand to each other
\* at every place run_job can be.
THEOREM SlicesInvariant == Spec => []PollInv
  BY InitPollInv, NextKeepsPollInv, PTL DEF Spec

\* Every variable of a poll keeps its type; the spans that run_job stores for a profile
\* lie within the widest window.
THEOREM SlicesTypeCorrect == Spec => []TypeOK
  <1>1. PollInv => TypeOK
    BY DEF PollInv
  <1>2. QED  BY <1>1, SlicesInvariant, PTL

\* However often SplunkClient.slice halves, and however many slices run_job puts into a
\* batch: what a poll collects is one range from its start, each second once.
THEOREM PollCollectsARange == Spec => []CollectedRange
  <1>1. PollInv => CollectedRange
    BY DEF PollInv
  <1>2. QED  BY <1>1, SlicesInvariant, PTL

\* A poll of a source that is behind never commits the cursor it began with.
THEOREM PollsMoveOn == Spec => []CommitsMakeProgress
  <1>1. PollInv => CommitsMakeProgress
    BY DEF PollInv
  <1>2. QED  BY <1>1, SlicesInvariant, PTL

\* The records of one transaction stay below the batch bound and one slice together.
THEOREM BatchesAreBounded == Spec => []BatchBounded
  <1>1. PollInv => BatchBounded
    BY DEF PollInv
  <1>2. QED  BY <1>1, SlicesInvariant, PTL

-----------------------------------------------------------------------------
(* The spans at a steady rate *)

LEMMA Multiplied ==
    ASSUME NEW r \in Nat, NEW a \in Nat, NEW b \in Nat, a <= b
    PROVE  r * a \in Nat /\ r * b \in Nat /\ r * a <= r * b
  <1>1. PICK d \in Nat : b = a + d
    <2>1. b - a \in Nat /\ b = a + (b - a)
      OBVIOUS
    <2>2. QED  BY <2>1
  <1>2. r * a \in Nat /\ r * d \in Nat /\ r * b = r * a + r * d
    BY <1>1, SMTT(30)
  <1>3. r * b \in Nat
    BY SMT
  <1>4. QED  BY <1>2, <1>3

\* What a span of the new length holds when it aims at 0.65 of the cap.
LEMMA AimedSpanFits ==
    ASSUME NEW r \in Nat \ {0}, NEW c \in Nat \ {0},
           NEW q \in Int, q = (c * 65 * MaxEvents) \div (100 * (r * c)), q > 0
    PROVE  r * q < MaxEvents
  <1> DEFINE x == c * (65 * MaxEvents)   y == 100 * (r * c)
  <1>1. x \in Nat /\ y \in Nat \ {0} /\ r * c \in Nat \ {0}
    <2>1. r * c \in Nat \ {0}
      BY SMTT(30)
    <2>2. QED  BY <2>1, SettingsTyped
  <1>2. q = x \div y
    <2>1. c * 65 * MaxEvents = x
      BY SettingsTyped
    <2>2. QED  BY <2>1
  <1>3. y * q <= x
    <2> HIDE DEF x, y
    <2>1. QED  BY <1>1, <1>2, SMTT(30)
  <1>4. y * q = c * (100 * (r * q))
    BY SMTT(30)
  <1>5. c * (100 * (r * q)) <= c * (65 * MaxEvents)
    BY <1>3, <1>4
  <1> DEFINE u == 100 * (r * q)   v == 65 * MaxEvents
  <1>6. u \in Nat /\ v \in Nat /\ r * q \in Nat
    <2>1. r * q \in Nat
      BY SMTT(30)
    <2>2. QED  BY <2>1, SettingsTyped
  <1>7. u <= v
    <2>1. SUFFICES ASSUME v < u PROVE FALSE
      BY <1>6
    <2>2. c * v < c * u
      <3> HIDE DEF u, v
      <3>1. PICK d \in Nat : u = v + 1 + d
        <4>1. u - v - 1 \in Nat /\ u = v + 1 + (u - v - 1)
          BY <1>6, <2>1
        <4>2. QED  BY <4>1
      <3>2. c * u = c * v + c + c * d /\ c * v \in Nat /\ c * d \in Nat
        BY <1>6, <3>1, SMTT(30)
      <3>3. QED  BY <3>2
    <2>3. c * u \in Int /\ c * v \in Int
      <3> HIDE DEF u, v
      <3>1. QED  BY <1>6
    <2>4. c * u <= c * v
      BY <1>5
    <2> HIDE DEF u, v
    <2>5. QED  BY <2>2, <2>3, <2>4
  <1>8. QED  BY <1>6, <1>7, SettingsTyped

\* A span that follows a slice under the cap stays under it at the same rate, however
\* often the slice was halved; the span of one second is the exception.
LEMMA NextSpanFits ==
    ASSUME NEW r \in Nat, NEW c \in Nat \ {0}, NEW ceiling \in Nat \ {0},
           NEW attempts \in Nat \ {0}, r * c < MaxEvents,
           NextSpan(c, ceiling, r * c, attempts) > 1
    PROVE  r * NextSpan(c, ceiling, r * c, attempts) < MaxEvents
  <1> DEFINE s == NextSpan(c, ceiling, r * c, attempts)
             target == (c * 65 * MaxEvents) \div (100 * (r * c))
  <1>1. s \in Nat /\ r * c \in Nat
    <2>1. r * c \in Nat
      BY SMT
    <2>2. QED  BY <2>1, NextSpanBounds
  <1>2. CASE s <= c
    <2> HIDE DEF s
    <2>1. r * s <= r * c /\ r * s \in Nat
      BY <1>1, <1>2, Multiplied
    <2>2. QED  BY <1>1, <2>1, SettingsTyped DEF s
  <1>3. CASE r = 0
    <2> HIDE DEF s
    <2>1. r * s = 0
      BY <1>1, <1>3
    <2>2. QED  BY <2>1, SettingsTyped DEF s
  <1>4. CASE r # 0 /\ (attempts > 1 \/ 100 * (r * c) > 75 * MaxEvents)
    <2>1. r * c \in Nat \ {0}
      BY <1>4, SMTT(30)
    <2>2. s = Least(ceiling, Most(1, target))
      BY <1>4, <2>1 DEF NextSpan
    <2>3. target \in Int
      <3>1. c * 65 * MaxEvents \in Nat /\ 100 * (r * c) \in Nat \ {0}
        BY <2>1, SettingsTyped
      <3>2. QED  BY <3>1, DivIsInt
    <2>4. target > 1 /\ s <= target
      <3> HIDE DEF s, target
      <3>1. s > 1
        BY DEF s
      <3>2. QED  BY <2>2, <2>3, <3>1 DEF Least, Most
    <2>5. r * target < MaxEvents
      <3>1. target > 0
        <4> HIDE DEF target
        <4>1. QED  BY <2>3, <2>4
      <3>2. QED  BY <1>4, <2>3, <3>1, AimedSpanFits
    <2> HIDE DEF s, target
    <2>6. r * s <= r * target /\ r * s \in Nat /\ r * target \in Nat
      <3>1. target \in Nat
        BY <2>3, <2>4
      <3>2. QED  BY <1>1, <2>4, <3>1, Multiplied
    <2>7. QED  BY <2>5, <2>6, SettingsTyped DEF s
  <1>5. CASE ~(attempts > 1 \/ 100 * (r * c) > 75 * MaxEvents) /\ 100 * (r * c) < 45 * MaxEvents
    <2>1. s <= 2 * c
      BY <1>5, <1>1 DEF NextSpan, Least, Most
    <2> HIDE DEF s
    <2>2. r * s <= r * (2 * c) /\ r * s \in Nat /\ r * (2 * c) = 2 * (r * c)
      BY <1>1, <2>1, Multiplied
    <2>3. QED  BY <1>1, <1>5, <2>2, SettingsTyped DEF s
  <1>6. CASE ~(attempts > 1 \/ 100 * (r * c) > 75 * MaxEvents) /\ ~(100 * (r * c) < 45 * MaxEvents)
    <2>1. s <= c
      BY <1>6, <1>1 DEF NextSpan, Least
    <2>2. QED  BY <1>2, <2>1
  <1>7. QED  BY <1>3, <1>4, <1>5, <1>6

\* The events of a slice at a steady rate.
LEMMA SteadyCount ==
    ASSUME NEW r \in Nat, PollInv, pc = "search", Steady(poll.profile, r)
    PROVE  /\ slice.end - slice.from \in Nat \ {0}
           /\ Count(slice) = r * (slice.end - slice.from)
  <1>1. /\ slice.from \in Seconds /\ slice.end \in Seconds /\ slice.from \in Nat /\ slice.end \in Nat
        /\ slice.from < slice.end
    BY SettingsTyped DEF PollInv, TypeOK, SliceFollowsBatch, Seconds
  <1>2. Count(slice) = r * slice.end - r * slice.from
    BY <1>1 DEF Count, Steady
  <1>3. r * slice.end - r * slice.from = r * (slice.end - slice.from)
    <2> DEFINE a == slice.from   b == slice.end
    <2>1. a \in Int /\ b \in Int
      BY <1>1
    <2> HIDE DEF a, b
    <2>2. r * b - r * a = r * (b - a)
      BY <2>1, SMTT(30)
    <2>3. QED  BY <2>2 DEF a, b
  <1>4. QED  BY <1>1, <1>2, <1>3

\* A slice that is taken teaches a span that fits.
LEMMA CollectedLearns ==
    ASSUME PollInv, LearnedSpanFits, Collected
    PROVE  LearnedSpanFits'
  <1> SUFFICES ASSUME NEW r \in 0 .. MaxEvents, Steady(poll.profile, r), span' > Window
               PROVE  r * span' < MaxEvents
    BY DEF Collected, settingVars, LearnedSpanFits, Steady
  <1> DEFINE c == slice.end - slice.from
  <1>1. r \in Nat
    BY SettingsTyped
  <1>2. pc = "search" /\ Count(slice) < MaxEvents
    BY DEF Collected
  <1>3. c \in Nat \ {0} /\ Count(slice) = r * c
    BY <1>1, <1>2, SteadyCount
  <1>4. Most(1, c) = c
    BY <1>3 DEF Most
  <1>5. span' = NextSpan(c, poll.ceiling, r * c, slice.attempts)
    BY <1>3, <1>4 DEF Collected
  <1>6. poll.ceiling \in Nat \ {0} /\ slice.attempts \in Nat \ {0}
    BY SettingsTyped DEF PollInv, TypeOK
  <1>7. span' \in Nat
    <2> HIDE DEF c
    <2>1. r * c \in Nat
      BY <1>1, <1>3
    <2>2. NextSpan(c, poll.ceiling, r * c, slice.attempts) \in 1 .. poll.ceiling
      BY <1>3, <1>6, <2>1, NextSpanBounds
    <2>3. QED  BY <1>5, <1>6, <2>2
  <1>8. span' > 1
    BY <1>7, SettingsTyped
  <1> HIDE DEF c
  <1>9. QED
    BY <1>1, <1>2, <1>3, <1>5, <1>6, <1>8, NextSpanFits

\* A poll that has nothing to collect keeps the span of its profile, or cuts it.
LEMMA BeginLearns ==
    ASSUME PollInv, SteadySpansFit, Begin
    PROVE  LearnedSpanFits'
  <1> SUFFICES ASSUME pc' = "commit", NEW r \in 0 .. MaxEvents, Steady(Profile, r), span' > Window
               PROVE  r * span' < MaxEvents
    BY DEF Begin, settingVars, LearnedSpanFits, Steady
  <1> DEFINE start == IF checkpoint = NoCursor THEN clock - Lookback ELSE checkpoint
             catching == clock - start > 2 * Window
             ceiling == IF catching THEN Most(Window, CatchupWindow) ELSE Window
             learned == IF spans[Profile] = 0 THEN Window ELSE spans[Profile]
  <1>1. Profile \in Profiles /\ spans[Profile] \in 0 .. Largest
    BY ProfileTyped DEF PollInv, TypeOK
  <1>2. span' = Most(1, Least(ceiling, learned))
    BY DEF Begin
  <1>3. ceiling \in Nat \ {0} /\ learned \in Nat \ {0}
    BY <1>1, SettingsTyped DEF Most
  <1>4. span' \in Nat /\ span' <= learned
    <2> HIDE DEF ceiling, learned
    <2>1. QED  BY <1>2, <1>3 DEF Most, Least
  <1>5. learned = spans[Profile] /\ spans[Profile] > Window
    BY <1>1, <1>4, SettingsTyped
  <1>6. r * spans[Profile] < MaxEvents
    BY <1>1, <1>5 DEF SteadySpansFit
  <1>7. r \in Nat /\ spans[Profile] \in Nat /\ span' <= spans[Profile]
    BY <1>1, <1>4, <1>5, SettingsTyped
  <1>8. r * span' <= r * spans[Profile] /\ r * span' \in Nat /\ r * spans[Profile] \in Nat
    BY <1>4, <1>7, Multiplied
  <1>9. QED  BY <1>6, <1>8, SettingsTyped

LEMMA SpansStep ==
    ASSUME PollInv, SteadySpansFit, LearnedSpanFits, [Next]_vars
    PROVE  (SteadySpansFit /\ LearnedSpanFits)'
  <1>1. CASE Begin
    BY <1>1, BeginLearns DEF Begin, settingVars, tuningVars, SteadySpansFit, Steady
  <1>2. CASE Collected
    BY <1>2, CollectedLearns DEF Collected, settingVars, tuningVars, SteadySpansFit, Steady
  <1>3. CASE Commit
    <2>1. load' = load /\ pc' = "idle" /\ spans' = [spans EXCEPT ![poll.profile] = span]
      BY <1>3 DEF Commit, settingVars
    <2>2. LearnedSpanFits'
      BY <2>1 DEF LearnedSpanFits
    <2>3. \A p \in Profiles : spans'[p] = IF p = poll.profile THEN span ELSE spans[p]
      BY <2>1 DEF PollInv, TypeOK
    <2>4. \A r \in 0 .. MaxEvents : Steady(poll.profile, r) /\ span > Window => r * span < MaxEvents
      BY <1>3 DEF Commit, LearnedSpanFits
    <2>5. SteadySpansFit'
      BY <2>1, <2>3, <2>4 DEF SteadySpansFit, Steady
    <2>6. QED  BY <2>2, <2>5
  <1>4. CASE TooManyEvents \/ NextSlice \/ BatchEnds \/ TooDense \/ Fails
    <2>1. /\ UNCHANGED <<load, spans, poll, span>>
          /\ pc' \in {"collected", "commit"} => pc \in {"collected", "commit"}
      BY <1>4 DEF TooManyEvents, NextSlice, BatchEnds, TooDense, Fails, settingVars, tuningVars
    <2>2. QED  BY <2>1 DEF SteadySpansFit, LearnedSpanFits, Steady
  <1>5. CASE TimePasses \/ AuditFallsDue \/ UNCHANGED vars
    BY <1>5 DEF TimePasses, AuditFallsDue, vars, settingVars, tuningVars, pollVars,
                SteadySpansFit, LearnedSpanFits, Steady
  <1>6. QED  BY <1>1, <1>2, <1>3, <1>4, <1>5 DEF Next, PollStep

\* At a steady rate of events no span that run_job stores is longer than a search below
\* the cap can hold: the tuning of _next_slice_span settles, whatever it did before.
THEOREM SpansFit == Spec => []SteadySpansFit
  <1>1. Init => SteadySpansFit /\ LearnedSpanFits
    BY SettingsTyped DEF Init, SteadySpansFit, LearnedSpanFits
  <1>2. PollInv /\ SteadySpansFit /\ LearnedSpanFits /\ [Next]_vars
        => (SteadySpansFit /\ LearnedSpanFits)'
    BY SpansStep
  <1>3. QED
    BY <1>1, <1>2, SlicesInvariant, PTL DEF Spec

-----------------------------------------------------------------------------
(* The polls of a source, one after the other *)

VARIABLES
    begun,      \* history: the first second that was ingested
    ingested    \* history: how often each second was ingested

\* The transaction that commits a poll ingests its batch; nothing else does.
Ingests ==
    /\ begun' = IF checkpoint = NoCursor THEN poll.start ELSE begun
    /\ ingested' = [t \in Seconds |-> ingested[t] + batch[t]]

RecordedInit == Init /\ begun = 0 /\ ingested = [t \in Seconds |-> 0]
RecordedNext ==
    \/ Commit /\ Ingests
    \/ /\ \/ Begin \/ Collected \/ TooManyEvents \/ NextSlice \/ BatchEnds \/ TooDense
          \/ Fails \/ TimePasses \/ AuditFallsDue
       /\ UNCHANGED <<begun, ingested>>
recordedVars == <<vars, begun, ingested>>
RecordedSpec == RecordedInit /\ [][RecordedNext]_recordedVars

Source == {"source"}
Collection == INSTANCE CollectionCursor WITH
    Sources <- Source,
    cursor <- [s \in Source |-> checkpoint],
    base <- [s \in Source |-> begun],
    count <- [s \in Source |-> ingested]

\* A poll goes on from the cursor it read, as long as it runs.
CursorHeld == pc # "idle" => checkpoint \in {NoCursor, poll.start}

\* What has been ingested is what lies between the first second and the cursor.
IngestedOnce ==
    /\ begun \in Seconds /\ (checkpoint # NoCursor => begun <= checkpoint)
    /\ ingested = [t \in Seconds |->
                      IF checkpoint # NoCursor /\ begun <= t /\ t < checkpoint THEN 1 ELSE 0]

LEMMA CursorHeldInit == Init => CursorHeld
  BY DEF Init, CursorHeld

LEMMA CursorHeldStep ==
    ASSUME CursorHeld, [Next]_vars
    PROVE  CursorHeld'
  <1>1. CASE Begin
    <2>1. checkpoint' = checkpoint
          /\ poll'.start = IF checkpoint = NoCursor THEN clock - Lookback ELSE checkpoint
      BY <1>1 DEF Begin
    <2>2. QED  BY <2>1 DEF CursorHeld
  <1>2. CASE Commit \/ TooDense \/ Fails
    BY <1>2 DEF Commit, TooDense, Fails, CursorHeld
  <1>3. CASE Collected \/ TooManyEvents \/ NextSlice \/ BatchEnds
    <2>1. pc # "idle" /\ checkpoint' = checkpoint /\ poll' = poll
      BY <1>3 DEF Collected, TooManyEvents, NextSlice, BatchEnds
    <2>2. QED  BY <2>1 DEF CursorHeld
  <1>4. CASE TimePasses \/ AuditFallsDue \/ UNCHANGED vars
    BY <1>4 DEF TimePasses, AuditFallsDue, vars, pollVars, CursorHeld
  <1>5. QED  BY <1>1, <1>2, <1>3, <1>4 DEF Next, PollStep

LEMMA RecordedStart == RecordedInit => Init /\ IngestedOnce
  BY SettingsTyped DEF RecordedInit, Init, IngestedOnce, Seconds

\* A step that is recorded is a step of the poll.
LEMMA RecordedSteps == [RecordedNext]_recordedVars => [Next]_vars
  BY DEF RecordedNext, recordedVars, Next, PollStep

\* What a poll carries when it commits.
LEMMA CommittedRange ==
    ASSUME PollInv, CursorHeld, Commit
    PROVE  /\ poll.start \in Seconds /\ next \in Seconds /\ poll.start <= next
           /\ checkpoint \in {NoCursor, poll.start} /\ checkpoint' = next
           /\ \A t \in Seconds : batch[t] = IF poll.start <= t /\ t < next THEN 1 ELSE 0
  <1>1. pc = "commit" /\ checkpoint' = next
    BY DEF Commit
  <1>2. TypeOK /\ CollectedRange
    BY DEF PollInv
  <1>3. QED  BY <1>1, <1>2 DEF TypeOK, CollectedRange, BatchReaches, CursorHeld

\* A commit adds the seconds from the cursor on, each once.
LEMMA IngestedOnceStep ==
    ASSUME PollInv, CursorHeld, IngestedOnce, [RecordedNext]_recordedVars
    PROVE  IngestedOnce'
  <1>1. CASE Commit /\ Ingests
    <2>1. /\ poll.start \in Seconds /\ next \in Seconds /\ poll.start <= next
          /\ checkpoint \in {NoCursor, poll.start} /\ checkpoint' = next
          /\ \A t \in Seconds : batch[t] = IF poll.start <= t /\ t < next THEN 1 ELSE 0
      BY <1>1, CommittedRange
    <2>2. NoCursor \notin Seconds /\ Seconds \subseteq Int
      BY SettingsTyped DEF Seconds, NoCursor
    <2>3. /\ begun' = IF checkpoint = NoCursor THEN poll.start ELSE begun
          /\ ingested' = [t \in Seconds |-> ingested[t] + batch[t]]
      BY <1>1 DEF Ingests
    <2>4. begun \in Seconds /\ begun' \in Seconds
      BY <2>1, <2>3 DEF IngestedOnce
    <2>5. begun' <= poll.start
      BY <2>1, <2>2, <2>3, <2>4 DEF IngestedOnce
    <2>6. begun' <= next
      <3>1. begun' \in Int /\ poll.start \in Int /\ next \in Int
        BY <2>1, <2>2, <2>4
      <3>2. QED  BY <2>1, <2>5, <3>1
    <2>7. ASSUME NEW t \in Seconds
          PROVE  ingested[t] + batch[t] = IF begun' <= t /\ t < next THEN 1 ELSE 0
      <3>1. ingested[t] = IF checkpoint # NoCursor /\ begun <= t /\ t < checkpoint THEN 1 ELSE 0
        BY DEF IngestedOnce
      <3>2. batch[t] = IF poll.start <= t /\ t < next THEN 1 ELSE 0
        BY <2>1
      <3>3. t \in Int /\ poll.start \in Int /\ next \in Int /\ begun \in Int /\ begun' \in Int
        BY <2>1, <2>2, <2>4
      <3>4. QED  BY <2>1, <2>2, <2>3, <2>5, <3>1, <3>2, <3>3
    <2>8. QED
      BY <2>1, <2>2, <2>3, <2>4, <2>6, <2>7 DEF IngestedOnce
  <1>2. CASE UNCHANGED <<checkpoint, begun, ingested>>
    BY <1>2 DEF IngestedOnce
  <1>3. UNCHANGED <<checkpoint, begun, ingested>> \/ (Commit /\ Ingests)
    BY DEF RecordedNext, recordedVars, vars, Begin, Collected, TooManyEvents, NextSlice, BatchEnds, TooDense,
           Fails, TimePasses, AuditFallsDue
  <1>4. QED  BY <1>1, <1>2, <1>3

\* A commit collects on from the cursor; no other step of a poll does anything to it.
LEMMA RecordedCollects ==
    ASSUME PollInv, CursorHeld, IngestedOnce, [RecordedNext]_recordedVars
    PROVE  [Collection!Next]_(Collection!cursorVars)
  <1>1. CASE Commit /\ Ingests
    <2>1. /\ poll.start \in Seconds /\ next \in Seconds /\ poll.start <= next
          /\ checkpoint \in {NoCursor, poll.start} /\ checkpoint' = next
          /\ \A t \in Seconds : batch[t] = IF poll.start <= t /\ t < next THEN 1 ELSE 0
      BY <1>1, CommittedRange
    <2>2. Collection!Seconds = Seconds /\ Collection!NoCursor = NoCursor
      BY DEF Collection!Seconds, Seconds, Collection!NoCursor, NoCursor
    <2>3. Collection!Collect("source", poll.start, next)
      <3>1. begun' = IF checkpoint = NoCursor THEN poll.start ELSE begun
        BY <1>1 DEF Ingests
      <3>2. ingested' = [t \in Seconds |-> IF poll.start <= t /\ t < next THEN ingested[t] + 1 ELSE ingested[t]]
        <4>1. ingested' = [t \in Seconds |-> ingested[t] + batch[t]]
          BY <1>1 DEF Ingests
        <4>2. \A t \in Seconds : ingested[t] \in Int
          BY DEF IngestedOnce
        <4>3. QED  BY <2>1, <4>1, <4>2
      <3>3. QED  BY <2>1, <2>2, <3>1, <3>2 DEF Collection!Collect, Source
    <2>4. QED  BY <2>1, <2>2, <2>3 DEF Collection!Next, Source
  <1>2. CASE UNCHANGED <<checkpoint, begun, ingested>>
    BY <1>2 DEF Collection!cursorVars
  <1>3. UNCHANGED <<checkpoint, begun, ingested>> \/ (Commit /\ Ingests)
    BY DEF RecordedNext, recordedVars, vars, Begin, Collected, TooManyEvents, NextSlice, BatchEnds, TooDense,
           Fails, TimePasses, AuditFallsDue
  <1>4. QED  BY <1>1, <1>2, <1>3

\* However run_job cuts the time it covers into polls and slices, which of them fail and
\* which are tried again: what the polls of a source commit is a collection, the range from
\* the cursor on in each transaction.
THEOREM PollsImplementCollection == RecordedSpec => Collection!Spec
  <1>1. RecordedInit => Collection!Init
    <2> SUFFICES ASSUME RecordedInit PROVE Collection!Init
      OBVIOUS
    <2>1. checkpoint = NoCursor /\ begun = 0 /\ ingested = [t \in Seconds |-> 0]
      BY DEF RecordedInit, Init
    <2>2. QED
      BY <2>1 DEF Collection!Init, Collection!Seconds, Seconds, Collection!NoCursor, NoCursor
  <1>2. QED
    BY <1>1, RecordedStart, RecordedSteps, InitPollInv, NextKeepsPollInv, CursorHeldInit, CursorHeldStep,
       IngestedOnceStep, RecordedCollects, PTL DEF RecordedSpec, Collection!Spec

\* So every second behind the checkpoint has been ingested once, and none beyond it,
\* through every slice that was halved and every poll that failed.
THEOREM PollsIngestExactlyOnce == RecordedSpec => []Collection!ExactlyOnce
  <1>1. IngestedOnce => Collection!ExactlyOnce
    BY DEF IngestedOnce, Collection!ExactlyOnce, Collection!Seconds, Seconds, Collection!NoCursor, NoCursor
  <1>2. QED
    BY <1>1, RecordedStart, RecordedSteps, InitPollInv, NextKeepsPollInv, CursorHeldInit, CursorHeldStep,
       IngestedOnceStep, PTL DEF RecordedSpec
=============================================================================
