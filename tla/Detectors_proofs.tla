--------------------------- MODULE Detectors_proofs ---------------------------
(* The detectors.  Of ExecutionDetectors: the join of DS-EXEC-002 is        *)
(* complete and exact, and its reference is what was known, for every set    *)
(* of events, every time and every retention.  Of NetworkWindows: what was   *)
(* reported stays out of the reference of DS-NET-001, and no shift of two    *)
(* windows is missed.  The two have DetectorDays in common.                  *)
EXTENDS ExecutionDetectors, NetworkWindows, FiniteSetTheorems, WellFoundedInduction, TLAPS

Processes == [start : Starts \cup {None}, link : Links \cup {None}, new : BOOLEAN, lastSeen : Int]

-----------------------------------------------------------------------------
(* The inductive invariant *)

\* A batch is of events that were not taken, beyond the detectors' reach on the fast path.
BatchOK ==
    /\ batch \cap Taken = {}
    /\ fast => \A e \in batch : Ts[e] < clock - Day

\* A creation the detectors still look at has its process, and its verdict.
StartsHeld ==
    \A s \in Starts : s \in Taken /\ Guid[s] # NoGuid /\ Ts[s] >= clock - Day =>
        /\ processes[Guid[s]].start = s
        /\ processes[Guid[s]].new <=> s \in judged

\* So has a connection, or one that came after it.
LinksHeld ==
    /\ \A l \in External : l \in Taken /\ Guid[l] # NoGuid /\ Ts[l] >= clock - Day =>
        processes[Guid[l]].link # None /\ Ts[l] <= processes[Guid[l]].lastSeen
    /\ \A g \in Guids : processes[g].link \in External \cup {None}

\* The days and their contexts are those of what was taken, as far as retention goes.
ReferenceHeld ==
    /\ observed \subseteq {DayOf(Ts[t]) : t \in Taken \cap Starts}
    /\ \A t \in Taken \cap Starts : DayOf(Ts[t]) >= FirstRetained => <<Context[t], DayOf(Ts[t])>> \in rows

KnownTo(s) == {t \in before[s] : DayOf(Ts[t]) >= DayOf(Ts[s]) - Baseline /\ DayOf(Ts[t]) < DayOf(Ts[s])}

\* A creation that was new was taken, and unknown when it was.
JudgedWasUnknown ==
    \A s \in judged :
        /\ s \in Taken
        /\ \A t \in KnownTo(s) : Context[t] = Context[s] => DayOf(Ts[t]) < DayOf(at[s]) - Baseline
        /\ Cardinality({DayOf(Ts[t]) : t \in KnownTo(s)}) >= Minimum

IInv ==
    /\ TypeOK /\ BatchOK /\ StartsHeld /\ LinksHeld /\ ReferenceHeld /\ JudgedWasUnknown
    /\ JoinedAreReported /\ RemoteAreReported

-----------------------------------------------------------------------------
(* Facts about the operators *)

LEMMA ConstantTypes ==
    /\ Day \in Nat \ {0} /\ Baseline \in Nat /\ Minimum \in Nat /\ ProcessDays \in Nat \ {0}
    /\ Tolerance \in Nat /\ MaxClock \in Nat
    /\ \A e \in Events : Ts[e] \in Nat
    /\ External \subseteq Links /\ Remote \subseteq Starts /\ Odd \subseteq Starts
    /\ \A e \in Events : Guid[e] # NoGuid => Guid[e] \in Guids
    /\ NoGuid \notin Guids
    /\ None \notin Starts /\ None \notin Links
    /\ \A e \in Starts : e \notin Links
BY DetectorAssumption DEF Events, Guids

LEMMA DayTypes == \A t \in Nat : DayOf(t) \in Nat
BY ConstantTypes DEF DayOf

LEMMA DaysGrow == \A a, b \in Nat : a <= b => DayOf(a) <= DayOf(b)
<1> SUFFICES ASSUME NEW a \in Nat, NEW b \in Nat, a <= b PROVE a \div Day <= b \div Day
  BY DEF DayOf
<1> QED BY ConstantTypes

LEMMA RetentionReaches == ProcessDays * Day >= Day
BY ConstantTypes

\* A process that is forgotten was last seen before what the detectors look at.
LEMMA ForgottenIsOld ==
    ASSUME NEW p \in Processes, clock \in Nat, Forgotten(p)
    PROVE  p.lastSeen < clock - Day
BY ConstantTypes, RetentionReaches DEF Forgotten, Processes

LEMMA StartedIs ==
    ASSUME NEW p \in Processes, NEW s \in Starts
    PROVE  /\ Started(p, s) \in Processes
           /\ Started(p, s).start = s /\ Started(p, s).link = p.link /\ Started(p, s).new = IsNew(s)
           /\ Started(p, s).lastSeen >= p.lastSeen /\ Started(p, s).lastSeen >= Ts[s]
<1>1. IsNew(s) \in BOOLEAN
  BY DEF IsNew
<1>2. Most(p.lastSeen, Ts[s]) \in Int /\ Most(p.lastSeen, Ts[s]) >= p.lastSeen
      /\ Most(p.lastSeen, Ts[s]) >= Ts[s]
  BY ConstantTypes DEF Most, Processes, Events
<1> QED BY <1>1, <1>2 DEF Started, Processes

LEMMA LinkedIs ==
    ASSUME NEW p \in Processes, NEW l \in Links
    PROVE  /\ Linked(p, l) \in Processes
           /\ Linked(p, l).start = p.start /\ Linked(p, l).new = p.new
           /\ Linked(p, l).link = (IF l \in External THEN l ELSE p.link)
           /\ Linked(p, l).lastSeen >= p.lastSeen /\ Linked(p, l).lastSeen >= Ts[l]
<1>1. Most(p.lastSeen, Ts[l]) \in Int /\ Most(p.lastSeen, Ts[l]) >= p.lastSeen
      /\ Most(p.lastSeen, Ts[l]) >= Ts[l]
  BY ConstantTypes DEF Most, Processes, Events
<1> QED BY <1>1, ConstantTypes DEF Linked, Processes

LEMMA NoProcessIs == NoProcess \in Processes
BY DEF NoProcess, Processes, Never

\* DS-EXEC-001 is for a recent creation with remote characteristics, ...
LEMMA DetectedRemote ==
    ASSUME NEW p \in Processes, NEW s \in Starts
    PROVE  <<"DS-EXEC-001", s>> \in Detected(p)
             <=> s \in Remote /\ s = p.start /\ Ts[s] >= clock - Day
BY ConstantTypes DEF Detected

\* ... DS-EXEC-002 for a recent, new and connected one.
LEMMA DetectedJoined ==
    ASSUME NEW p \in Processes, NEW s \in Starts
    PROVE  <<"DS-EXEC-002", s>> \in Detected(p)
             <=> /\ s \in Odd /\ s = p.start /\ Ts[s] >= clock - Day
                 /\ p.new /\ p.link # None /\ Ts[p.link] >= Ts[s]
BY ConstantTypes DEF Detected

LEMMA DetectedType ==
    ASSUME NEW p \in Processes
    PROVE  Detected(p) \subseteq {"DS-EXEC-001", "DS-EXEC-002"} \X Starts
BY ConstantTypes DEF Detected

\* What the types say of a process.
LEMMA ProcessFacts ==
    ASSUME TypeOK, NEW g \in Guids
    PROVE  /\ processes[g] \in Processes
           /\ processes[g].start # None =>
                /\ processes[g].start \in Starts /\ Guid[processes[g].start] = g
                /\ processes[g].start \in Taken /\ Ts[processes[g].start] <= processes[g].lastSeen
           /\ processes[g].link # None =>
                /\ processes[g].link \in Links /\ Guid[processes[g].link] = g
                /\ processes[g].link \in Taken /\ Ts[processes[g].link] <= processes[g].lastSeen
BY DEF TypeOK, ProcessRows, Processes

-----------------------------------------------------------------------------
(* The initial states *)

LEMMA InitIInv == Init => IInv
<1> SUFFICES ASSUME Init PROVE IInv
  OBVIOUS
<1> USE ConstantTypes DEF Init
<1>1. Taken = {}
  BY DEF Taken, Events
<1>2. TypeOK
  <2>1. processes \in [Guids -> Processes]
    BY NoProcessIs
  <2>2. at \in [Events -> (0 .. clock) \cup {Never}]
    OBVIOUS
  <2>3. ProcessRows
    BY DEF NoProcess, ProcessRows
  <2>4. clock \in 0 .. MaxClock /\ batch \subseteq Events /\ observed \subseteq Nat
        /\ judged \subseteq Starts /\ before \in [Starts -> SUBSET Starts]
    OBVIOUS
  <2>6. fast \in BOOLEAN
    BY Zenon
  <2>5. rows \subseteq {Context[s] : s \in Starts} \X Nat
        /\ reports \subseteq {"DS-EXEC-001", "DS-EXEC-002"} \X Starts
    OBVIOUS
  <2> QED BY <2>1, <2>2, <2>3, <2>4, <2>5, <2>6 DEF TypeOK, Processes
<1>3. BatchOK /\ StartsHeld /\ ReferenceHeld /\ JudgedWasUnknown
  BY <1>1 DEF BatchOK, StartsHeld, ReferenceHeld, JudgedWasUnknown
<1>4. LinksHeld
  BY <1>1 DEF LinksHeld, NoProcess
<1>5. JoinedAreReported /\ RemoteAreReported
  BY DEF JoinedAreReported, RemoteAreReported, Joined, Events, Never
<1> QED BY <1>2, <1>3, <1>4, <1>5 DEF IInv

-----------------------------------------------------------------------------
(* The steps of the ingestion, one by one *)

\* What the first and the last events of a batch have in common.
LEMMA Kept ==
    ASSUME NEW e \in batch, Step(e)
    PROVE  batch' = batch \ {e} /\ clock' = clock /\ fast' = fast
BY DEF Step

\* The days in reach are those that retention keeps.
LEMMA TakenInReach ==
    ASSUME TypeOK, NEW e \in Events, ~TooOld(e)
    PROVE  DayOf(Ts[e]) >= FirstRetained
<1>1. Ts[e] \in Nat /\ clock \in Nat
  BY ConstantTypes DEF TypeOK
<1>2. PICK n \in Int : n = DayOf(clock) - Baseline
  BY <1>1, ConstantTypes, DayTypes
<1>3. Ts[e] >= n * Day
  BY <1>1, <1>2, ConstantTypes DEF TooOld
<1>4. Ts[e] \div Day >= n
  BY <1>1, <1>3, ConstantTypes
<1> QED BY <1>2, <1>4 DEF FirstRetained, DayOf

\* A creation becomes taken, and no other event does.
LEMMA TakenGrows ==
    ASSUME TypeOK, NEW e \in Events, at' = [at EXCEPT ![e] = clock]
    PROVE  /\ Taken' = Taken \cup {e}
           /\ at'[e] = clock /\ clock \in Nat
           /\ \A f \in Events : f # e => at'[f] = at[f]
<1>1. clock \in Nat /\ clock # Never /\ at \in [Events -> (0 .. clock) \cup {Never}]
  BY ConstantTypes DEF TypeOK, Never
<1>2. at'[e] = clock /\ \A f \in Events : f # e => at'[f] = at[f]
  BY <1>1
<1>3. \A f : f \in Taken' <=> f \in Events /\ at'[f] # Never
  BY DEF Taken, Events, Never
<1>4. \A f \in Events : f \in Taken' <=> f \in Taken \/ f = e
  BY <1>1, <1>2, <1>3 DEF Taken
<1>5. \A f \in Taken : f \in Events
  BY DEF Taken
<1>6. Taken' = Taken \cup {e}
  BY <1>3, <1>4, <1>5
<1> QED BY <1>1, <1>2, <1>6

LEMMA TakeTypes ==
    ASSUME TypeOK, NEW e \in batch, Take(e), clock' = clock, fast' = fast, batch' = batch \ {e}
    PROVE  TypeOK'
<1>0. e \in Events /\ clock \in Nat
  BY DEF TypeOK
<1>1. at' \in [Events -> (0 .. clock') \cup {Never}] /\ Taken' = Taken \cup {e}
  <2>1. at' = [at EXCEPT ![e] = clock]
    BY DEF Take
  <2>2. Taken' = Taken \cup {e}
    BY <1>0, <2>1, TakenGrows
  <2>3. at' \in [Events -> (0 .. clock') \cup {Never}]
    BY <1>0, <2>1 DEF TypeOK
  <2> QED BY <2>2, <2>3
<1>2. CASE e \in Starts /\ TakeStart(e)
  <2> DEFINE p == Started(IF Guid[e] = NoGuid THEN NoProcess ELSE processes[Guid[e]], e)
  <2>1. (IF Guid[e] = NoGuid THEN NoProcess ELSE processes[Guid[e]]) \in Processes
    BY <1>0, ConstantTypes, ProcessFacts, NoProcessIs
  <2>2. p \in Processes /\ p.start = e /\ p.lastSeen >= Ts[e]
        /\ p.link = (IF Guid[e] = NoGuid THEN NoProcess ELSE processes[Guid[e]]).link
        /\ p.lastSeen >= (IF Guid[e] = NoGuid THEN NoProcess ELSE processes[Guid[e]]).lastSeen
    BY <1>2, <2>1, StartedIs
  <2>3. \/ processes' = processes /\ reports' = reports
        \/ /\ processes' = [g \in Guids |-> IF g = Guid[e] THEN p ELSE processes[g]]
           /\ reports' = reports \cup Detected(p)
    BY <1>2 DEF TakeStart
  <2> HIDE DEF p
  <2>4. processes' \in [Guids -> Processes]
    BY <2>2, <2>3 DEF TypeOK, Processes
  <2>5. reports' \subseteq {"DS-EXEC-001", "DS-EXEC-002"} \X Starts
    BY <2>2, <2>3, DetectedType DEF TypeOK
  <2>6. observed' \subseteq Nat
    BY <1>0, <1>2, DayTypes, ConstantTypes DEF TakeStart, TypeOK
  <2>7. rows' \subseteq {Context[s] : s \in Starts} \X Nat
    BY <1>0, <1>2, DayTypes, ConstantTypes DEF TakeStart, TypeOK
  <2>8. judged' \subseteq Starts /\ before' \in [Starts -> SUBSET Starts]
    BY <1>2 DEF TakeStart, TypeOK
  <2>9. ProcessRows'
    <3> SUFFICES ASSUME NEW g \in Guids', NEW f \in ({processes[g].start, processes[g].link} \ {None})'
                 PROVE  (Guid[f] = g /\ f \in Taken /\ Ts[f] <= processes[g].lastSeen)'
      BY DEF ProcessRows
    <3>1. g \in Guids /\ f \in {processes'[g].start, processes'[g].link} /\ f # None
      BY DEF Guids
    <3>2. CASE processes'[g] = processes[g]
      BY <3>1, <3>2, <1>1 DEF TypeOK, ProcessRows
    <3>3. CASE g = Guid[e] /\ processes'[g] = p
      <4>1. g # NoGuid /\ processes[g] \in Processes
        BY <3>1, ProcessFacts, ConstantTypes
      <4>2. CASE f = p.start
        BY <4>2, <2>2, <3>3, <1>1
      <4>3. CASE f = p.link
        <5>1. f = processes[g].link /\ p.lastSeen >= processes[g].lastSeen
          BY <4>1, <4>3, <3>3, <2>2
        <5>2. f \in Links /\ Guid[f] = g /\ f \in Taken /\ Ts[f] <= processes[g].lastSeen
          BY <5>1, <3>1, ProcessFacts
        <5>3. Ts[f] \in Int /\ p.lastSeen \in Int /\ processes[g].lastSeen \in Int
          BY <5>2, <4>1, <2>2, ConstantTypes DEF Processes, Events
        <5> QED BY <5>1, <5>2, <5>3, <3>3, <1>1
      <4> QED BY <3>1, <3>3, <4>2, <4>3
    <3> QED BY <3>1, <3>2, <3>3, <2>3
  <2> QED BY <1>0, <1>1, <2>4, <2>5, <2>6, <2>7, <2>8, <2>9 DEF TypeOK, Processes
<1>3. CASE e \in Links /\ TakeLink(e)
  <2>1. CASE processes' = processes /\ reports' = reports
    <3>1. ProcessRows'
      BY <1>1, <2>1 DEF TypeOK, ProcessRows, Guids
    <3> QED BY <1>0, <1>1, <1>3, <2>1, <3>1 DEF TakeLink, TypeOK
  <2>2. CASE ~fast /\ Guid[e] # NoGuid
    <3> DEFINE p == Linked(processes[Guid[e]], e)
    <3>1. Guid[e] \in Guids /\ processes[Guid[e]] \in Processes
      BY <1>0, <2>2, ConstantTypes, ProcessFacts
    <3>2. /\ p \in Processes /\ p.start = processes[Guid[e]].start
          /\ p.link = (IF e \in External THEN e ELSE processes[Guid[e]].link)
          /\ p.lastSeen >= Ts[e] /\ p.lastSeen >= processes[Guid[e]].lastSeen
      BY <1>3, <3>1, LinkedIs
    <3>3. processes' = [processes EXCEPT ![Guid[e]] = p]
          /\ (reports' = reports \/ reports' = reports \cup Detected(p))
      BY <1>3, <2>2 DEF TakeLink
    <3> HIDE DEF p
    <3>4. processes' \in [Guids -> Processes]
      BY <3>1, <3>2, <3>3 DEF TypeOK, Processes
    <3>5. reports' \subseteq {"DS-EXEC-001", "DS-EXEC-002"} \X Starts
      BY <3>2, <3>3, DetectedType DEF TypeOK
    <3>6. ProcessRows'
      <4> SUFFICES ASSUME NEW g \in Guids, NEW f \in {processes'[g].start, processes'[g].link} \ {None}
                   PROVE  Guid[f] = g /\ f \in Taken' /\ Ts[f] <= processes'[g].lastSeen
        BY DEF ProcessRows, Guids
      <4>1. CASE processes'[g] = processes[g]
        BY <4>1, <1>1 DEF TypeOK, ProcessRows
      <4>2. CASE g = Guid[e] /\ processes'[g] = p
        <5>1. CASE f = e
          BY <4>2, <5>1, <3>2, <1>1
        <5>2. CASE f \in {processes[g].start, processes[g].link}
          <6>1. Guid[f] = g /\ f \in Taken /\ Ts[f] <= processes[g].lastSeen /\ f \in Events
            BY <5>2, ProcessFacts DEF Events
          <6>2. Ts[f] \in Int /\ p.lastSeen \in Int /\ processes[g].lastSeen \in Int
            BY <6>1, <4>2, <3>1, <3>2, ConstantTypes DEF Processes
          <6> QED BY <6>1, <6>2, <4>2, <3>2, <1>1
        <5> QED BY <4>2, <5>1, <5>2, <3>2
      <4> QED BY <4>1, <4>2, <3>1, <3>3 DEF TypeOK
    <3> QED BY <1>0, <1>1, <1>3, <3>4, <3>5, <3>6 DEF TakeLink, TypeOK, Processes
  <2> QED BY <1>3, <2>1, <2>2 DEF TakeLink
<1> QED BY <1>2, <1>3 DEF Take

\* An event is taken, on the fast path or not.
LEMMA TakeFacts ==
    ASSUME TypeOK, BatchOK, NEW e \in batch, Take(e), clock' = clock
    PROVE  /\ e \in Events /\ e \notin Taken /\ Taken' = Taken \cup {e}
           /\ clock \in Nat /\ at'[e] = clock /\ \A f \in Events : f # e => at'[f] = at[f]
           /\ fast => Ts[e] < clock - Day
           /\ \A f \in Taken : f \in Events /\ at[f] \in Nat /\ at[f] <= clock
<1>1. e \in Events /\ at' = [at EXCEPT ![e] = clock]
  BY DEF TypeOK, Take
<1>2. \A f \in Taken : f \in Events /\ at[f] \in Nat /\ at[f] <= clock
  BY DEF TypeOK, Taken
<1>3. e \notin Taken /\ (fast => Ts[e] < clock - Day)
  BY DEF BatchOK
<1> QED BY <1>1, <1>2, <1>3, TakenGrows

\* What taking a creation does, away from the fast path.
LEMMA TakeStartFacts ==
    ASSUME TypeOK, NEW s \in Starts, TakeStart(s), ~fast
    PROVE  \E p \in Processes :
             /\ p.start = s /\ p.new = IsNew(s) /\ p.lastSeen >= Ts[s]
             /\ reports' = reports \cup Detected(p)
             /\ Guid[s] = NoGuid => processes' = processes /\ p.link = None
             /\ Guid[s] # NoGuid =>
                  /\ Guid[s] \in Guids /\ processes' = [processes EXCEPT ![Guid[s]] = p]
                  /\ p.link = processes[Guid[s]].link /\ p.lastSeen >= processes[Guid[s]].lastSeen
<1> DEFINE q == IF Guid[s] = NoGuid THEN NoProcess ELSE processes[Guid[s]]
<1>1. q \in Processes /\ (Guid[s] # NoGuid => Guid[s] \in Guids)
  BY ConstantTypes, ProcessFacts, NoProcessIs DEF Events
<1>2. /\ processes' = [g \in Guids |-> IF g = Guid[s] THEN Started(q, s) ELSE processes[g]]
      /\ reports' = reports \cup Detected(Started(q, s))
  BY DEF TakeStart
<1>3. /\ Started(q, s) \in Processes /\ Started(q, s).start = s /\ Started(q, s).new = IsNew(s)
      /\ Started(q, s).lastSeen >= Ts[s] /\ Started(q, s).link = q.link
      /\ Started(q, s).lastSeen >= q.lastSeen
  BY <1>1, StartedIs
<1>4. CASE Guid[s] = NoGuid
  <2>1. processes' = processes
    BY <1>2, <1>4, ConstantTypes DEF TypeOK
  <2>2. q.link = None
    BY <1>4 DEF NoProcess
  <2> QED BY <1>2, <1>3, <1>4, <2>1, <2>2
<1>5. CASE Guid[s] # NoGuid
  <2>1. processes' = [processes EXCEPT ![Guid[s]] = Started(q, s)]
    BY <1>2, <1>5 DEF TypeOK
  <2>2. q = processes[Guid[s]]
    BY <1>5
  <2> QED BY <1>1, <1>2, <1>3, <1>5, <2>1, <2>2
<1> QED BY <1>4, <1>5

\* And taking a connection.
LEMMA TakeLinkFacts ==
    ASSUME TypeOK, NEW l \in Links, TakeLink(l), ~fast, Guid[l] # NoGuid
    PROVE  /\ Guid[l] \in Guids
           /\ \E p \in Processes :
             /\ p.start = processes[Guid[l]].start /\ p.new = processes[Guid[l]].new
             /\ p.link = (IF l \in External THEN l ELSE processes[Guid[l]].link)
             /\ p.lastSeen >= Ts[l] /\ p.lastSeen >= processes[Guid[l]].lastSeen
             /\ processes' = [processes EXCEPT ![Guid[l]] = p]
             /\ reports' = IF l \in External THEN reports \cup Detected(p) ELSE reports
<1>1. Guid[l] \in Guids /\ processes[Guid[l]] \in Processes
  BY ConstantTypes, ProcessFacts DEF Events
<1> QED BY <1>1, LinkedIs DEF TakeLink

LEMMA TakeStartsHeld ==
    ASSUME TypeOK, BatchOK, StartsHeld, JudgedWasUnknown, NEW e \in batch, Take(e), clock' = clock
    PROVE  StartsHeld'
<1> SUFFICES ASSUME NEW s \in Starts, s \in Taken', Guid[s] # NoGuid, Ts[s] >= clock - Day
             PROVE  processes'[Guid[s]].start = s /\ (processes'[Guid[s]].new <=> s \in judged')
  BY DEF StartsHeld
<1>0. /\ e \in Events /\ e \notin Taken /\ Taken' = Taken \cup {e} /\ (fast => Ts[e] < clock - Day)
      /\ Guid[s] \in Guids /\ clock \in Nat /\ Ts[e] \in Nat /\ Ts[s] \in Nat
  BY TakeFacts, ConstantTypes DEF Events
<1>1. judged' \cap (Starts \ {e}) = judged \cap (Starts \ {e})
  BY DEF Take, TakeStart, TakeLink
<1>2. CASE e = s
  <2>1. ~fast /\ TakeStart(s)
    BY <1>0, <1>2, ConstantTypes DEF Take
  <2>2. PICK p \in Processes :
          p.start = s /\ p.new = IsNew(s) /\ processes' = [processes EXCEPT ![Guid[s]] = p]
    BY <2>1, TakeStartFacts
  <2>3. processes'[Guid[s]] = p
    BY <1>0, <2>2 DEF TypeOK
  <2>4. s \in judged' <=> IsNew(s)
    BY <1>0, <1>2, <2>1 DEF TakeStart, JudgedWasUnknown
  <2> QED BY <2>2, <2>3, <2>4
<1>3. CASE e # s
  <2>1. processes[Guid[s]].start = s /\ (processes[Guid[s]].new <=> s \in judged)
    BY <1>0, <1>3 DEF StartsHeld
  <2>2. s \in judged <=> s \in judged'
    BY <1>1, <1>3
  <2>3. CASE processes'[Guid[s]] = processes[Guid[s]]
    BY <2>1, <2>2, <2>3
  <2>4. CASE e \in Starts /\ TakeStart(e)
    <3>1. Guid[e] # Guid[s]
      BY <1>3, <2>4, ProcessAssumption
    <3>2. CASE fast
      BY <2>3, <2>4, <3>2 DEF TakeStart
    <3>3. CASE ~fast
      <4>1. PICK p \in Processes :
              /\ Guid[e] = NoGuid => processes' = processes
              /\ Guid[e] # NoGuid => processes' = [processes EXCEPT ![Guid[e]] = p]
        BY <2>4, <3>3, TakeStartFacts
      <4>2. processes'[Guid[s]] = processes[Guid[s]]
        BY <1>0, <3>1, <4>1 DEF TypeOK
      <4> QED BY <2>3, <4>2
    <3> QED BY <3>2, <3>3
  <2>5. CASE e \in Links /\ TakeLink(e)
    <3>1. CASE fast \/ Guid[e] = NoGuid
      BY <2>3, <2>5, <3>1 DEF TakeLink
    <3>2. CASE ~fast /\ Guid[e] # NoGuid
      <4>1. PICK p \in Processes :
              /\ p.start = processes[Guid[e]].start /\ p.new = processes[Guid[e]].new
              /\ processes' = [processes EXCEPT ![Guid[e]] = p]
        BY <2>5, <3>2, TakeLinkFacts
      <4>2. CASE Guid[e] = Guid[s]
        BY <1>0, <2>1, <2>2, <4>1, <4>2 DEF TypeOK
      <4>3. CASE Guid[e] # Guid[s]
        BY <1>0, <2>3, <4>1, <4>3 DEF TypeOK
      <4> QED BY <4>2, <4>3
    <3> QED BY <3>1, <3>2
  <2> QED BY <2>4, <2>5 DEF Take
<1> QED BY <1>2, <1>3

LEMMA TakeLinksHeld ==
    ASSUME TypeOK, BatchOK, LinksHeld, NEW e \in batch, Take(e), clock' = clock
    PROVE  LinksHeld'
<1>0. /\ e \in Events /\ Taken' = Taken \cup {e} /\ (fast => Ts[e] < clock - Day)
      /\ clock \in Nat /\ Ts[e] \in Nat
      /\ Guid[e] # NoGuid => Guid[e] \in Guids
      /\ \A g \in Guids : processes[g] \in Processes
  BY TakeFacts, ConstantTypes, ProcessFacts
<1> DEFINE Ok(p, g) ==
      /\ p.link \in External \cup {None}
      /\ \A l \in External : l \in Taken' /\ Guid[l] = g /\ Ts[l] >= clock - Day =>
           p.link # None /\ Ts[l] <= p.lastSeen
<1>1. \A g \in Guids : e \notin External \/ Guid[e] # g \/ fast => Ok(processes[g], g)
  <2> SUFFICES ASSUME NEW g \in Guids, e \notin External \/ Guid[e] # g \/ fast PROVE Ok(processes[g], g)
    OBVIOUS
  <2>1. processes[g].link \in External \cup {None}
    BY DEF LinksHeld
  <2>2. ASSUME NEW l \in External, l \in Taken', Guid[l] = g, Ts[l] >= clock - Day
        PROVE  processes[g].link # None /\ Ts[l] <= processes[g].lastSeen
    <3>1. l # e
      BY <1>0, <2>2, ConstantTypes
    <3> QED BY <1>0, <2>2, <3>1, ConstantTypes DEF LinksHeld
  <2> QED BY <2>1, <2>2
<1>2. ASSUME NEW g \in Guids PROVE Ok(processes'[g], g)
  <2>1. CASE processes'[g] = processes[g] /\ (e \notin External \/ Guid[e] # g \/ fast)
    BY <1>1, <2>1
  <2>2. CASE e \in Starts /\ TakeStart(e)
    <3>1. e \notin External
      BY <2>2, ConstantTypes
    <3>2. CASE fast
      BY <2>1, <2>2, <3>2 DEF TakeStart
    <3>3. CASE ~fast
      <4>1. PICK p \in Processes :
              /\ Guid[e] = NoGuid => processes' = processes
              /\ Guid[e] # NoGuid =>
                   /\ processes' = [processes EXCEPT ![Guid[e]] = p]
                   /\ p.link = processes[Guid[e]].link /\ p.lastSeen >= processes[Guid[e]].lastSeen
        BY <2>2, <3>3, TakeStartFacts
      <4>2. CASE processes'[g] = processes[g]
        BY <2>1, <3>1, <4>2
      <4>3. CASE g = Guid[e] /\ processes'[g] = p /\ Guid[e] # NoGuid
        <5>1. p.link = processes[g].link /\ p.lastSeen >= processes[g].lastSeen
          BY <4>1, <4>3
        <5>2. \A l \in External : Ts[l] \in Int
          BY ConstantTypes DEF Events
        <5>3. Ok(processes[g], g) /\ processes[g].lastSeen \in Int /\ p.lastSeen \in Int
          BY <1>0, <1>1, <3>1 DEF Processes
        <5> QED BY <4>3, <5>1, <5>2, <5>3
      <4> QED BY <1>0, <4>1, <4>2, <4>3 DEF TypeOK
    <3> QED BY <3>2, <3>3
  <2>3. CASE e \in Links /\ TakeLink(e)
    <3>1. CASE fast \/ Guid[e] = NoGuid
      <4>1. e \notin External \/ Guid[e] # g \/ fast
        BY <3>1, ConstantTypes
      <4> QED BY <2>1, <2>3, <3>1, <4>1 DEF TakeLink
    <3>2. CASE ~fast /\ Guid[e] # NoGuid
      <4>1. PICK p \in Processes :
              /\ p.link = (IF e \in External THEN e ELSE processes[Guid[e]].link)
              /\ p.lastSeen >= Ts[e] /\ p.lastSeen >= processes[Guid[e]].lastSeen
              /\ processes' = [processes EXCEPT ![Guid[e]] = p]
        BY <2>3, <3>2, TakeLinkFacts
      <4>2. CASE Guid[e] # g
        BY <2>1, <4>1, <4>2 DEF TypeOK
      <4>3. CASE Guid[e] = g
        <5>1. processes'[g] = p
          BY <4>1, <4>3 DEF TypeOK
        <5>2. p.lastSeen \in Int /\ processes[g].lastSeen \in Int /\ p.lastSeen >= processes[g].lastSeen
          BY <1>0, <4>1, <4>3 DEF Processes
        <5>3. p.link \in External \cup {None}
          BY <4>1, <4>3 DEF LinksHeld
        <5>4. ASSUME NEW l \in External, l \in Taken', Guid[l] = g, Ts[l] >= clock - Day
              PROVE  p.link # None /\ Ts[l] <= p.lastSeen
          <6>1. Ts[l] \in Int /\ l \in Links
            BY ConstantTypes DEF Events
          <6>2. CASE l = e
            BY <4>1, <5>4, <6>1, <6>2, ConstantTypes
          <6>3. CASE l # e
            <7>1. processes[g].link # None /\ Ts[l] <= processes[g].lastSeen
              BY <1>0, <5>4, <6>3, ConstantTypes DEF LinksHeld
            <7>2. Ts[l] <= p.lastSeen
              BY <5>2, <6>1, <7>1
            <7>3. p.link # None
              BY <4>1, <4>3, <7>1, ConstantTypes
            <7> QED BY <7>2, <7>3
          <6> QED BY <6>2, <6>3
        <5> QED BY <5>1, <5>3, <5>4
      <4> QED BY <4>2, <4>3
    <3> QED BY <3>1, <3>2
  <2> QED BY <2>2, <2>3 DEF Take
<1>3. ASSUME NEW l \in External, l \in Taken', Guid[l] # NoGuid, Ts[l] >= clock - Day
      PROVE  processes'[Guid[l]].link # None /\ Ts[l] <= processes'[Guid[l]].lastSeen
  <2>1. Guid[l] \in Guids
    BY <1>3, ConstantTypes DEF Events
  <2> QED BY <1>2, <1>3, <2>1
<1>4. \A g \in Guids : processes'[g].link \in External \cup {None}
  BY <1>2
<1> QED BY <1>3, <1>4 DEF LinksHeld, Guids

LEMMA TakeReferenceHeld ==
    ASSUME TypeOK, BatchOK, ReferenceHeld, NEW e \in batch, Take(e), clock' = clock
    PROVE  ReferenceHeld'
<1>0. Taken' = Taken \cup {e}
  BY TakeFacts
<1>1. CASE e \in Starts
  <2>1. TakeStart(e)
    BY <1>1, ConstantTypes DEF Take
  <2>2. observed' = observed \cup {DayOf(Ts[e])} /\ rows' = rows \cup {<<Context[e], DayOf(Ts[e])>>}
    BY <2>1 DEF TakeStart
  <2> QED BY <1>0, <1>1, <2>2 DEF ReferenceHeld, FirstRetained
<1>2. CASE e \notin Starts
  <2>1. observed' = observed /\ rows' = rows
    BY <1>2 DEF Take, TakeLink
  <2>2. Taken' \cap Starts = Taken \cap Starts
    BY <1>0, <1>2
  <2> QED BY <2>1, <2>2 DEF ReferenceHeld, FirstRetained
<1> QED BY <1>1, <1>2

\* What IsNew says of the reference, while retention may have shortened it.
LEMMA NewWasUnknown ==
    ASSUME TypeOK, ReferenceHeld, NEW s \in Starts, IsNew(s),
           NEW K, K = {t \in Taken \cap Starts : DayOf(Ts[t]) >= DayOf(Ts[s]) - Baseline
                                                 /\ DayOf(Ts[t]) < DayOf(Ts[s])}
    PROVE  /\ \A t \in K : Context[t] = Context[s] => DayOf(Ts[t]) < FirstRetained
           /\ Cardinality({DayOf(Ts[t]) : t \in K}) >= Minimum
<1>0. \A t \in Starts : DayOf(Ts[t]) \in Nat
  BY DayTypes, ConstantTypes DEF Events
<1>00. FirstRetained \in Int
  BY DayTypes, ConstantTypes DEF TypeOK, FirstRetained
<1>1. \A t \in K : DayOf(Ts[t]) \in Reference(s)
  BY <1>0, ConstantTypes DEF Reference
<1>2. \A t \in K : Context[t] = Context[s] => DayOf(Ts[t]) < FirstRetained
  <2> SUFFICES ASSUME NEW t \in K, Context[t] = Context[s], ~(DayOf(Ts[t]) < FirstRetained) PROVE FALSE
    OBVIOUS
  <2>1. <<Context[t], DayOf(Ts[t])>> \in rows
    BY <1>0, <1>00 DEF ReferenceHeld
  <2> QED BY <1>1, <2>1 DEF IsNew
<1>3. Cardinality({DayOf(Ts[t]) : t \in K}) >= Minimum
  <2> DEFINE D == {DayOf(Ts[t]) : t \in K}
             O == observed \cap Reference(s)
  <2>1. O \subseteq D
    <3> SUFFICES ASSUME NEW d \in O PROVE d \in D
      OBVIOUS
    <3>1. PICK t \in Taken \cap Starts : d = DayOf(Ts[t])
      BY DEF ReferenceHeld
    <3>2. t \in K
      BY <1>0, <3>1, ConstantTypes DEF Reference
    <3> QED BY <3>1, <3>2
  <2>2. IsFiniteSet(D)
    <3>1. IsFiniteSet(K)
      BY FS_Subset, DetectorAssumption DEF Events
    <3> DEFINE f == [t \in K |-> DayOf(Ts[t])]
    <3>2. f \in Surjection(K, D)
      BY DEF Surjection
    <3> QED BY <3>1, <3>2, FS_Surjection
  <2>3. Cardinality(O) <= Cardinality(D) /\ Cardinality(O) \in Nat /\ Cardinality(D) \in Nat
    BY <2>1, <2>2, FS_Subset, FS_CardinalityType
  <2>4. Cardinality(O) >= Minimum
    BY DEF IsNew
  <2> QED BY <2>3, <2>4, ConstantTypes
<1> QED BY <1>2, <1>3

LEMMA TakeJudged ==
    ASSUME TypeOK, BatchOK, ReferenceHeld, JudgedWasUnknown, NEW e \in batch, Take(e), clock' = clock
    PROVE  JudgedWasUnknown'
<1>0. /\ e \notin Taken /\ Taken' = Taken \cup {e} /\ at'[e] = clock
      /\ \A f \in Events : f # e => at'[f] = at[f]
  BY TakeFacts
<1> SUFFICES ASSUME NEW s \in judged'
             PROVE  /\ s \in Taken'
                    /\ \A t \in KnownTo(s)' : Context[t] = Context[s] => DayOf(Ts[t]) < DayOf(at'[s]) - Baseline
                    /\ Cardinality({DayOf(Ts[t]) : t \in KnownTo(s)'}) >= Minimum
  BY DEF JudgedWasUnknown, DayOf
<1>1. CASE s \in judged
  <2>1. s # e /\ s \in Starts /\ s \in Taken
    BY <1>0, <1>1 DEF JudgedWasUnknown, TypeOK
  <2>2. at'[s] = at[s] /\ before'[s] = before[s]
    BY <1>0, <2>1 DEF Take, TakeStart, TakeLink, TypeOK, Events
  <2>3. KnownTo(s)' = KnownTo(s)
    BY <2>2 DEF KnownTo, DayOf
  <2> QED BY <1>0, <1>1, <2>1, <2>2, <2>3 DEF JudgedWasUnknown
<1>2. CASE s \notin judged
  <2>1. e \in Starts /\ TakeStart(e) /\ s = e /\ IsNew(s)
    BY <1>2 DEF Take, TakeStart, TakeLink
  <2>2. before'[s] = Taken \cap Starts
    BY <2>1 DEF TakeStart, TypeOK
  <2>3. KnownTo(s)' = {t \in Taken \cap Starts : DayOf(Ts[t]) >= DayOf(Ts[s]) - Baseline
                                                  /\ DayOf(Ts[t]) < DayOf(Ts[s])}
    BY <2>2 DEF KnownTo, DayOf
  <2>4. /\ \A t \in KnownTo(s)' : Context[t] = Context[s] => DayOf(Ts[t]) < FirstRetained
        /\ Cardinality({DayOf(Ts[t]) : t \in KnownTo(s)'}) >= Minimum
    BY <2>1, <2>3, NewWasUnknown
  <2>5. FirstRetained = DayOf(at'[s]) - Baseline
    BY <1>0, <2>1 DEF FirstRetained
  <2> QED BY <1>0, <2>1, <2>4, <2>5
<1> QED BY <1>1, <1>2

LEMMA TakeRemote ==
    ASSUME TypeOK, BatchOK, RemoteAreReported, NEW e \in batch, Take(e), clock' = clock
    PROVE  RemoteAreReported'
<1>0. /\ e \in Events /\ e \notin Taken /\ at'[e] = clock /\ clock \in Nat
      /\ \A f \in Events : f # e => at'[f] = at[f]
      /\ fast => Ts[e] < clock - Day
      /\ \A f \in Taken : f \in Events /\ at[f] \in Nat /\ at[f] <= clock
      /\ \A f \in Events : Ts[f] \in Nat
      /\ Day \in Nat
  BY TakeFacts, ConstantTypes
<1> DEFINE R(x) == <<"DS-EXEC-001", x>>
           Due(x) == x \in Remote /\ at[x] # Never /\ Ts[x] >= at[x] - Day
<1> SUFFICES ASSUME NEW s \in Starts PROVE R(s) \in reports' <=> Due(s)'
  BY DEF RemoteAreReported, Never
<1>1. R(s) \in reports <=> Due(s)
  BY DEF RemoteAreReported
<1>2. s \in Events
  BY DEF Events
<1>3. CASE e = s
  <2>1. TakeStart(s) /\ R(s) \notin reports
    BY <1>0, <1>1, <1>3, ConstantTypes DEF Take, Taken
  <2>2. Due(s)' <=> s \in Remote /\ Ts[s] >= clock - Day
    BY <1>0, <1>3 DEF Never
  <2>3. CASE fast
    BY <1>0, <1>3, <2>1, <2>2, <2>3 DEF TakeStart
  <2>4. CASE ~fast
    <3>1. PICK p \in Processes : p.start = s /\ reports' = reports \cup Detected(p)
      BY <2>1, <2>4, TakeStartFacts
    <3>2. R(s) \in Detected(p) <=> s \in Remote /\ Ts[s] >= clock - Day
      BY <3>1, DetectedRemote
    <3> QED BY <2>1, <2>2, <3>1, <3>2
  <2> QED BY <2>3, <2>4
<1>4. CASE e # s
  <2>1. Due(s)' <=> Due(s)
    BY <1>0, <1>2, <1>4 DEF Never
  <2>2. CASE reports' = reports
    BY <1>1, <2>1, <2>2
  <2>3. CASE e \in Starts /\ TakeStart(e) /\ ~fast
    <3>1. PICK p \in Processes : p.start = e /\ reports' = reports \cup Detected(p)
      BY <2>3, TakeStartFacts
    <3>2. R(s) \notin Detected(p)
      BY <1>4, <3>1, DetectedRemote
    <3> QED BY <1>1, <2>1, <3>1, <3>2
  <2>4. CASE e \in Links /\ TakeLink(e) /\ ~fast /\ Guid[e] # NoGuid
    <3>1. PICK p \in Processes : /\ Guid[e] \in Guids /\ p.start = processes[Guid[e]].start
                                 /\ reports' = IF e \in External THEN reports \cup Detected(p) ELSE reports
      BY <2>4, TakeLinkFacts
    <3>2. R(s) \in Detected(p) => Due(s)
      <4> HAVE R(s) \in Detected(p)
      <4>1. s \in Remote /\ s = processes[Guid[e]].start /\ Ts[s] >= clock - Day
        BY <3>1, DetectedRemote
      <4>2. s \in Taken
        BY <3>1, <4>1, ProcessFacts, ConstantTypes
      <4> QED BY <1>0, <4>1, <4>2 DEF Taken
    <3> QED BY <1>1, <2>1, <3>1, <3>2
  <2> QED BY <2>2, <2>3, <2>4 DEF Take, TakeStart, TakeLink
<1> QED BY <1>3, <1>4

LEMMA TakeJoined ==
    ASSUME TypeOK, BatchOK, StartsHeld, LinksHeld, JudgedWasUnknown, JoinedAreReported,
           NEW e \in batch, Take(e), clock' = clock
    PROVE  JoinedAreReported'
<1>0. /\ e \in Events /\ e \notin Taken /\ at'[e] = clock /\ clock \in Nat /\ at[e] = Never
      /\ \A f \in Events : f # e => at'[f] = at[f]
      /\ fast => Ts[e] < clock - Day
      /\ \A f \in Taken : f \in Events /\ at[f] \in Nat /\ at[f] <= clock
      /\ \A f \in Events : Ts[f] \in Nat
      /\ Day \in Nat
  BY TakeFacts, ConstantTypes DEF Taken
<1> DEFINE R(x) == <<"DS-EXEC-002", x>>
<1> SUFFICES ASSUME NEW s \in Starts PROVE R(s) \in reports' <=> s \in Odd /\ s \in judged' /\ Joined(s)'
  BY DEF JoinedAreReported
<1>1. R(s) \in reports <=> s \in Odd /\ s \in judged /\ Joined(s)
  BY DEF JoinedAreReported
<1>2. s \in Events /\ (Guid[s] # NoGuid => Guid[s] \in Guids)
  BY ConstantTypes DEF Events
<1>3. \A l \in External : l \in Links /\ l \in Events
  BY ConstantTypes DEF Events
<1>4. CASE e = s
  <2>1. TakeStart(s) /\ R(s) \notin reports
    BY <1>0, <1>1, <1>4, ConstantTypes DEF Take, Joined
  <2>2. at'[s] = clock /\ (\A l \in External : at'[l] = at[l])
    BY <1>0, <1>3, <1>4, ConstantTypes
  <2>3. Joined(s)' => Ts[s] >= clock - Day
    BY <2>2 DEF Joined
  <2>4. CASE fast
    BY <1>0, <1>4, <2>1, <2>3, <2>4 DEF TakeStart
  <2>5. CASE ~fast
    <3>1. PICK p \in Processes :
            /\ p.start = s /\ p.new = IsNew(s) /\ reports' = reports \cup Detected(p)
            /\ Guid[s] = NoGuid => p.link = None
            /\ Guid[s] # NoGuid => Guid[s] \in Guids /\ p.link = processes[Guid[s]].link
      BY <2>1, <2>5, TakeStartFacts
    <3>2. s \in judged' <=> IsNew(s)
      BY <1>0, <1>4, <2>1 DEF TakeStart, JudgedWasUnknown
    <3>3. R(s) \in reports' <=> /\ s \in Odd /\ Ts[s] >= clock - Day
                                /\ IsNew(s) /\ p.link # None /\ Ts[p.link] >= Ts[s]
      BY <2>1, <3>1, DetectedJoined
    <3>4. ASSUME Joined(s)' PROVE p.link # None /\ Ts[p.link] >= Ts[s] /\ Ts[s] >= clock - Day
      <4>1. PICK l \in External : Guid[l] = Guid[s] /\ Guid[s] # NoGuid /\ at[l] # Never
        BY <2>2, <3>4 DEF Joined, Never
      <4>2. l \in Taken /\ Ts[l] >= Ts[s] /\ Ts[s] >= clock - Day
        BY <1>3, <2>3, <3>4, <4>1, ProcessAssumption DEF Taken
      <4>3. processes[Guid[s]].link # None
        BY <1>0, <1>2, <1>3, <4>1, <4>2 DEF LinksHeld
      <4>4. Guid[processes[Guid[s]].link] = Guid[s] /\ processes[Guid[s]].link \in Links
        BY <1>2, <4>1, <4>3, ProcessFacts
      <4> QED BY <3>1, <4>1, <4>2, <4>3, <4>4, ProcessAssumption
    <3>5. ASSUME p.link # None, Ts[s] >= clock - Day PROVE Joined(s)'
      <4>1. Guid[s] # NoGuid /\ p.link = processes[Guid[s]].link /\ Guid[s] \in Guids
        BY <3>1, <3>5
      <4>2. p.link \in External /\ Guid[p.link] = Guid[s] /\ p.link \in Taken
        BY <3>5, <4>1, ProcessFacts DEF LinksHeld
      <4>3. at'[p.link] = at[p.link] /\ at[p.link] # Never /\ at[p.link] \in Nat /\ at[p.link] <= clock
        BY <1>0, <2>2, <4>2 DEF Taken
      <4>4. Ts[s] \in Nat /\ Ts[s] >= at'[p.link] - Day /\ at'[p.link] # Never
        BY <1>0, <1>2, <3>5, <4>3
      <4>5. at'[s] # Never
        BY <1>0, <2>2 DEF Never
      <4> QED BY <2>2, <3>5, <4>1, <4>2, <4>4, <4>5 DEF Joined, Never
    <3> QED BY <3>2, <3>3, <3>4, <3>5
  <2> QED BY <2>4, <2>5
<1>5. CASE e # s
  <2>1. (s \in judged' <=> s \in judged) /\ at'[s] = at[s]
    BY <1>0, <1>2, <1>5 DEF Take, TakeStart, TakeLink
  <2>2. ASSUME e \notin External \/ Guid[e] # Guid[s] \/ Guid[s] = NoGuid PROVE Joined(s)' <=> Joined(s)
    <3>1. \A l \in External : Guid[l] = Guid[s] /\ Guid[s] # NoGuid => at'[l] = at[l]
      BY <1>0, <1>3, <2>2
    <3> QED BY <2>1, <3>1 DEF Joined, Never
  <2>3. CASE e \in Starts /\ TakeStart(e)
    <3>1. Joined(s)' <=> Joined(s)
      BY <1>3, <2>2, <2>3, ConstantTypes
    <3>2. R(s) \in reports' <=> R(s) \in reports
      <4>1. CASE fast
        BY <2>3, <4>1 DEF TakeStart
      <4>2. CASE ~fast
        <5>1. PICK p \in Processes : p.start = e /\ reports' = reports \cup Detected(p)
          BY <2>3, <4>2, TakeStartFacts
        <5> QED BY <1>5, <5>1, DetectedJoined
      <4> QED BY <4>1, <4>2
    <3> QED BY <1>1, <2>1, <3>1, <3>2
  <2>4. CASE e \in Links /\ TakeLink(e) /\ (e \notin External \/ Guid[e] = NoGuid)
    <3>1. reports' = reports
      BY <2>4 DEF TakeLink
    <3> QED BY <1>1, <2>1, <2>2, <2>4, <3>1
  <2>5. CASE e \in External /\ TakeLink(e) /\ Guid[e] # NoGuid /\ fast
    <3>1. reports' = reports
      BY <2>5 DEF TakeLink
    <3>2. Joined(s)' => Joined(s)
      <4> HAVE Joined(s)'
      <4>1. PICK l \in External : Guid[l] = Guid[s] /\ Guid[s] # NoGuid /\ at'[l] # Never
                                  /\ Ts[s] >= at'[l] - Day
        BY DEF Joined, Never
      <4>2. l # e
        <5>1. SUFFICES ASSUME l = e PROVE FALSE
          OBVIOUS
        <5>2. Ts[s] <= Ts[e]
          BY <1>3, <4>1, <5>1, ProcessAssumption
        <5> QED BY <1>0, <1>2, <2>5, <4>1, <5>1, <5>2
      <4>3. at'[l] = at[l]
        BY <1>0, <1>3, <4>2
      <4>4. at[s] # Never /\ Ts[s] >= at[s] - Day
        BY <2>1 DEF Joined, Never
      <4> QED BY <4>1, <4>3, <4>4 DEF Joined
    <3>3. Joined(s) => Joined(s)'
      BY <1>0, <1>3, <2>1 DEF Joined, Never
    <3> QED BY <1>1, <2>1, <3>1, <3>2, <3>3
  <2>6. CASE e \in External /\ TakeLink(e) /\ Guid[e] # NoGuid /\ ~fast
    <3>1. PICK p \in Processes :
            /\ Guid[e] \in Guids
            /\ p.start = processes[Guid[e]].start /\ p.new = processes[Guid[e]].new
            /\ p.link = e /\ reports' = reports \cup Detected(p)
      BY <1>3, <2>6, TakeLinkFacts
    <3>2. R(s) \in Detected(p) <=> /\ s \in Odd /\ s = p.start /\ Ts[s] >= clock - Day
                                   /\ p.new /\ Ts[e] >= Ts[s]
      BY <1>3, <2>6, <3>1, DetectedJoined, ConstantTypes
    <3>3. Joined(s) => Joined(s)'
      BY <1>0, <1>3, <2>1 DEF Joined, Never
    <3>4. ASSUME R(s) \in Detected(p) PROVE s \in Odd /\ s \in judged' /\ Joined(s)'
      <4>1. s = processes[Guid[e]].start /\ s # None /\ processes[Guid[e]].new
        BY <3>1, <3>2, <3>4, ConstantTypes
      <4>2. s \in Taken /\ Guid[s] = Guid[e]
        BY <3>1, <4>1, ProcessFacts
      <4>3. s \in judged
        BY <2>6, <3>2, <3>4, <4>1, <4>2 DEF StartsHeld
      <4>4. at[s] # Never /\ at[s] \in Nat /\ at[s] <= clock
        BY <1>0, <4>2 DEF Taken
      <4>5. Ts[s] >= at'[s] - Day /\ at'[s] # Never /\ at'[e] # Never /\ Ts[s] >= at'[e] - Day
        BY <1>0, <1>2, <2>1, <3>2, <3>4, <4>4 DEF Never
      <4> QED BY <2>1, <2>6, <3>2, <3>4, <4>2, <4>3, <4>5 DEF Joined, Never
    <3>5. ASSUME s \in Odd, s \in judged, Joined(s)', ~Joined(s) PROVE R(s) \in Detected(p)
      <4>1. PICK l \in External : Guid[l] = Guid[s] /\ Guid[s] # NoGuid /\ at'[l] # Never
                                  /\ Ts[s] >= at'[l] - Day
        BY <3>5 DEF Joined, Never
      <4>2. at[s] # Never /\ Ts[s] >= at[s] - Day
        BY <2>1, <3>5 DEF Joined, Never
      <4>3. l = e
        <5> SUFFICES ASSUME l # e PROVE Joined(s)
          BY <3>5
        <5>1. at'[l] = at[l]
          BY <1>0, <1>3
        <5> QED BY <4>1, <4>2, <5>1 DEF Joined
      <4>4. Ts[s] >= clock - Day /\ Guid[e] = Guid[s] /\ Guid[s] # NoGuid
        BY <1>0, <4>1, <4>3
      <4>5. processes[Guid[s]].start = s /\ processes[Guid[s]].new
        BY <1>2, <3>5, <4>2, <4>4 DEF StartsHeld, Taken
      <4>6. Ts[e] >= Ts[s]
        BY <1>3, <2>6, <4>4, ProcessAssumption
      <4> QED BY <3>1, <3>2, <3>5, <4>4, <4>5, <4>6
    <3> QED BY <1>1, <2>1, <3>1, <3>3, <3>4, <3>5
  <2> QED BY <2>3, <2>4, <2>5, <2>6 DEF Take
<1> QED BY <1>4, <1>5

-----------------------------------------------------------------------------
(* The other steps *)

\* A step that only moves on in a batch keeps everything but the batch.
LEMMA QuietStep ==
    ASSUME IInv, clock' = clock, UNCHANGED <<storedVars, historyVars>>,
           batch' \subseteq Events, fast' \in BOOLEAN
    PROVE  /\ TypeOK' /\ StartsHeld' /\ LinksHeld' /\ ReferenceHeld' /\ JudgedWasUnknown'
           /\ JoinedAreReported' /\ RemoteAreReported' /\ Taken' = Taken
<1> USE DEF IInv, storedVars, historyVars
<1>1. Taken' = Taken
  BY DEF Taken, Events, Never
<1>2. TypeOK'
  BY <1>1 DEF TypeOK, ProcessRows, Guids
<1>3. StartsHeld' /\ LinksHeld'
  BY <1>1 DEF StartsHeld, LinksHeld, Guids
<1>4. ReferenceHeld'
  BY <1>1 DEF ReferenceHeld, FirstRetained, DayOf
<1>5. JudgedWasUnknown'
  BY <1>1 DEF JudgedWasUnknown, KnownTo, DayOf
<1>6. JoinedAreReported' /\ RemoteAreReported'
  BY DEF JoinedAreReported, RemoteAreReported, Joined, Never
<1> QED BY <1>1, <1>2, <1>3, <1>4, <1>5, <1>6

LEMMA BeginStep == IInv /\ Begin => IInv'
<1> SUFFICES ASSUME IInv, Begin PROVE IInv'
  OBVIOUS
<1>1. PICK S \in SUBSET (Events \ Taken) \ {{}} : batch' = S /\ fast' = Historical(S)
  BY DEF Begin
<1>2. Historical(S) \in BOOLEAN
  BY DEF Historical
<1>3. clock' = clock /\ UNCHANGED <<storedVars, historyVars>>
  BY DEF Begin
<1>4. /\ TypeOK' /\ StartsHeld' /\ LinksHeld' /\ ReferenceHeld' /\ JudgedWasUnknown'
      /\ JoinedAreReported' /\ RemoteAreReported' /\ Taken' = Taken
  BY <1>1, <1>2, <1>3, QuietStep
<1>5. BatchOK'
  BY <1>1, <1>3, <1>4 DEF BatchOK, Historical
<1> QED BY <1>4, <1>5 DEF IInv

LEMMA EventStep == ASSUME IInv, NEW e \in batch, Step(e) PROVE IInv'
<1> USE DEF IInv
<1>1. batch' = batch \ {e} /\ clock' = clock /\ fast' = fast
  BY DEF Step
<1>2. CASE Skip(e)
  <2>1. UNCHANGED <<storedVars, historyVars>>
    BY <1>2 DEF Skip
  <2>2. batch' \subseteq Events /\ fast' \in BOOLEAN
    BY <1>1 DEF TypeOK
  <2>3. /\ TypeOK' /\ StartsHeld' /\ LinksHeld' /\ ReferenceHeld' /\ JudgedWasUnknown'
        /\ JoinedAreReported' /\ RemoteAreReported' /\ Taken' = Taken
    BY <1>1, <2>1, <2>2, QuietStep
  <2>4. BatchOK'
    BY <1>1, <2>3 DEF BatchOK
  <2> QED BY <2>3, <2>4
<1>3. CASE Take(e)
  <2>1. TypeOK'
    BY <1>1, <1>3, TakeTypes
  <2>2. Taken' = Taken \cup {e}
    BY <1>1, <1>3, TakeFacts
  <2>3. BatchOK'
    BY <1>1, <2>2 DEF BatchOK
  <2>4. StartsHeld'
    BY <1>1, <1>3, TakeStartsHeld
  <2>5. LinksHeld'
    BY <1>1, <1>3, TakeLinksHeld
  <2>6. ReferenceHeld'
    BY <1>1, <1>3, TakeReferenceHeld
  <2>7. JudgedWasUnknown'
    BY <1>1, <1>3, TakeJudged
  <2>8. JoinedAreReported'
    BY <1>1, <1>3, TakeJoined
  <2>9. RemoteAreReported'
    BY <1>1, <1>3, TakeRemote
  <2> QED BY <2>1, <2>3, <2>4, <2>5, <2>6, <2>7, <2>8, <2>9
<1> QED BY <1>2, <1>3 DEF Step

\* Retention deletes only processes no detector looks at, and days out of reach.
LEMMA MaintenanceStep == IInv /\ Maintenance => IInv'
<1> SUFFICES ASSUME IInv, Maintenance PROVE IInv'
  OBVIOUS
<1> USE DEF IInv
<1>1. clock' = clock /\ batch' = batch /\ fast' = fast /\ reports' = reports /\ UNCHANGED historyVars
  BY DEF Maintenance
<1>2. Taken' = Taken
  BY <1>1 DEF Taken, historyVars, Events, Never
<1>3. /\ processes' = [g \in Guids |-> IF Forgotten(processes[g]) THEN NoProcess ELSE processes[g]]
      /\ observed' = {d \in observed : d >= FirstRetained}
      /\ rows' = {r \in rows : r[2] >= FirstRetained}
  BY DEF Maintenance
<1>4. \A g \in Guids : \/ processes'[g] = processes[g]
                       \/ processes'[g] = NoProcess /\ processes[g].lastSeen < clock - Day
  <2> SUFFICES ASSUME NEW g \in Guids
               PROVE  \/ processes'[g] = processes[g]
                      \/ processes'[g] = NoProcess /\ processes[g].lastSeen < clock - Day
    OBVIOUS
  <2>1. processes[g] \in Processes /\ clock \in Nat
    BY ProcessFacts DEF TypeOK
  <2> QED BY <1>3, <2>1, ForgottenIsOld
<1>5. TypeOK'
  <2>1. processes' \in [Guids -> Processes]
    BY <1>3, NoProcessIs DEF TypeOK, Processes
  <2>2. ProcessRows'
    <3> SUFFICES ASSUME NEW g \in Guids, NEW f \in {processes'[g].start, processes'[g].link} \ {None}
                 PROVE  Guid[f] = g /\ f \in Taken' /\ Ts[f] <= processes'[g].lastSeen
      BY DEF ProcessRows, Guids
    <3>1. CASE processes'[g] = processes[g]
      BY <1>2, <3>1 DEF TypeOK, ProcessRows
    <3>2. CASE processes'[g] = NoProcess
      BY <3>2 DEF NoProcess
    <3> QED BY <1>4, <3>1, <3>2
  <2>3. observed' \subseteq Nat /\ rows' \subseteq {Context[s] : s \in Starts} \X Nat
    BY <1>3 DEF TypeOK
  <2> QED BY <1>1, <2>1, <2>2, <2>3 DEF TypeOK, Processes, historyVars
<1>6. BatchOK'
  BY <1>1, <1>2 DEF BatchOK
<1>7. StartsHeld'
  <2> SUFFICES ASSUME NEW s \in Starts, s \in Taken, Guid[s] # NoGuid, Ts[s] >= clock - Day
               PROVE  processes'[Guid[s]].start = s /\ (processes'[Guid[s]].new <=> s \in judged)
    BY <1>1, <1>2 DEF StartsHeld, historyVars
  <2>1. processes[Guid[s]].start = s /\ (processes[Guid[s]].new <=> s \in judged) /\ Guid[s] \in Guids
    BY ConstantTypes DEF StartsHeld, Events
  <2>2. Ts[s] <= processes[Guid[s]].lastSeen /\ processes[Guid[s]].lastSeen \in Int /\ Ts[s] \in Nat
        /\ clock \in Nat
    BY <2>1, ProcessFacts, ConstantTypes DEF Processes, Events, TypeOK
  <2>3. processes'[Guid[s]] = processes[Guid[s]]
    BY <1>4, <2>1, <2>2, ConstantTypes
  <2> QED BY <2>1, <2>3
<1>8. LinksHeld'
  <2>1. \A g \in Guids : processes'[g].link \in External \cup {None}
    BY <1>4 DEF LinksHeld, NoProcess
  <2>2. ASSUME NEW l \in External, l \in Taken, Guid[l] # NoGuid, Ts[l] >= clock - Day
        PROVE  processes'[Guid[l]].link # None /\ Ts[l] <= processes'[Guid[l]].lastSeen
    <3>1. processes[Guid[l]].link # None /\ Ts[l] <= processes[Guid[l]].lastSeen /\ Guid[l] \in Guids
      BY <2>2, ConstantTypes DEF LinksHeld, Events
    <3>2. processes[Guid[l]].lastSeen \in Int /\ Ts[l] \in Nat /\ clock \in Nat
      BY <3>1, ProcessFacts, ConstantTypes DEF Processes, Events, TypeOK
    <3>3. processes'[Guid[l]] = processes[Guid[l]]
      BY <1>4, <2>2, <3>1, <3>2, ConstantTypes
    <3> QED BY <3>1, <3>3
  <2> QED BY <1>1, <1>2, <2>1, <2>2 DEF LinksHeld, Guids
<1>9. ReferenceHeld'
  BY <1>1, <1>2, <1>3 DEF ReferenceHeld, FirstRetained, DayOf
<1>10. JudgedWasUnknown'
  BY <1>1, <1>2 DEF JudgedWasUnknown, KnownTo, DayOf, historyVars
<1>11. JoinedAreReported' /\ RemoteAreReported'
  BY <1>1 DEF JoinedAreReported, RemoteAreReported, Joined, Never, historyVars
<1> QED BY <1>5, <1>6, <1>7, <1>8, <1>9, <1>10, <1>11

LEMMA ClockStep == IInv /\ TimePasses => IInv'
<1> SUFFICES ASSUME IInv, TimePasses PROVE IInv'
  OBVIOUS
<1> USE DEF IInv
<1>1. /\ batch = {} /\ batch' = {} /\ clock' = clock + 1 /\ clock < MaxClock /\ fast' = fast
      /\ UNCHANGED <<storedVars, historyVars>> /\ clock \in Nat
  BY DEF TimePasses, TypeOK
<1>2. Taken' = Taken
  BY <1>1 DEF Taken, historyVars, Events, Never
<1>3. TypeOK'
  <2>1. clock' \in 0 .. MaxClock /\ at' \in [Events -> (0 .. clock') \cup {Never}]
    BY <1>1, ConstantTypes DEF TypeOK, historyVars
  <2>2. ProcessRows'
    BY <1>1, <1>2 DEF TypeOK, ProcessRows, Guids, storedVars
  <2> QED BY <1>1, <2>1, <2>2 DEF TypeOK, storedVars, historyVars
<1>4. BatchOK'
  BY <1>1 DEF BatchOK
<1>5. StartsHeld' /\ LinksHeld'
  <2>1. \A e \in Events : Ts[e] >= clock' - Day => Ts[e] >= clock - Day
    BY <1>1, ConstantTypes
  <2> QED BY <1>1, <1>2, <2>1, ConstantTypes DEF StartsHeld, LinksHeld, storedVars, historyVars, Guids, Events
<1>6. ReferenceHeld'
  <2>1. FirstRetained <= FirstRetained' /\ FirstRetained \in Int /\ FirstRetained' \in Int
    <3>1. DayOf(clock) \in Nat /\ DayOf(clock') \in Nat /\ DayOf(clock) <= DayOf(clock')
      BY <1>1, DayTypes, DaysGrow
    <3> QED BY <3>1, ConstantTypes DEF FirstRetained, DayOf
  <2>2. \A t \in Starts : DayOf(Ts[t]) \in Nat
    BY DayTypes, ConstantTypes DEF Events
  <2> QED BY <1>1, <1>2, <2>1, <2>2 DEF ReferenceHeld, storedVars, DayOf
<1>7. JudgedWasUnknown'
  BY <1>1, <1>2 DEF JudgedWasUnknown, KnownTo, DayOf, historyVars
<1>8. JoinedAreReported' /\ RemoteAreReported'
  BY <1>1 DEF JoinedAreReported, RemoteAreReported, Joined, Never, storedVars, historyVars
<1> QED BY <1>3, <1>4, <1>5, <1>6, <1>7, <1>8

LEMMA NextIInv == IInv /\ [Next]_vars => IInv'
<1> SUFFICES ASSUME IInv, [Next]_vars PROVE IInv'
  OBVIOUS
<1>1. CASE UNCHANGED vars
  <2>1. clock' = clock /\ batch' = batch /\ fast' = fast /\ UNCHANGED <<storedVars, historyVars>>
    BY <1>1 DEF vars
  <2>2. batch' \subseteq Events /\ fast' \in BOOLEAN
    BY <2>1 DEF IInv, TypeOK
  <2>3. /\ TypeOK' /\ StartsHeld' /\ LinksHeld' /\ ReferenceHeld' /\ JudgedWasUnknown'
        /\ JoinedAreReported' /\ RemoteAreReported' /\ Taken' = Taken
    BY <2>1, <2>2, QuietStep
  <2>4. BatchOK'
    BY <2>1, <2>3 DEF IInv, BatchOK
  <2> QED BY <2>3, <2>4 DEF IInv
<1> QED BY <1>1, BeginStep, EventStep, MaintenanceStep, ClockStep DEF Next

-----------------------------------------------------------------------------
(* The theorems *)

LEMMA DetectorInvariant == Spec => []IInv
<1> QED BY InitIInv, NextIInv, PTL DEF Spec

\* The processes, the reference and the reports of an endpoint keep their types.
THEOREM DetectorTypesCorrect == Spec => []TypeOK
<1>1. IInv => TypeOK
  BY DEF IInv
<1> QED BY <1>1, DetectorInvariant, PTL

\* DS-EXEC-002 reports exactly the new creations that an outward connection joined in time.
THEOREM JoinIsExact == Spec => []JoinedAreReported
<1>1. IInv => JoinedAreReported
  BY DEF IInv
<1> QED BY <1>1, DetectorInvariant, PTL

\* What DS-EXEC-002 reports was unknown to an endpoint that had been observed long enough.
THEOREM NoveltyIsReal == Spec => []ReportedWasUnknown
<1>1. IInv => ReportedWasUnknown
  <2> SUFFICES ASSUME IInv, NEW s \in Starts, <<"DS-EXEC-002", s>> \in reports
               PROVE  LET known == {t \in before[s] : /\ DayOf(Ts[t]) >= DayOf(Ts[s]) - Baseline
                                                      /\ DayOf(Ts[t]) < DayOf(Ts[s])} IN
                      /\ \A t \in known : Context[t] = Context[s] => DayOf(Ts[t]) < DayOf(at[s]) - Baseline
                      /\ Cardinality({DayOf(Ts[t]) : t \in known}) >= Minimum
    BY DEF ReportedWasUnknown
  <2>1. s \in judged
    BY DEF IInv, JoinedAreReported
  <2> QED BY <2>1 DEF IInv, JudgedWasUnknown, KnownTo
<1> QED BY <1>1, DetectorInvariant, PTL

\* DS-EXEC-001 reports exactly the creations with remote characteristics that came in time.
THEOREM RemoteIsExact == Spec => []RemoteAreReported
<1>1. IInv => RemoteAreReported
  BY DEF IInv
<1> QED BY <1>1, DetectorInvariant, PTL

-----------------------------------------------------------------------------
(* The windows of DS-NET-001 *)

LEMMA WindowTypes ==
    /\ Day \in Nat \ {0} /\ Baseline \in Nat /\ MinWindows \in Nat \ {0}
    /\ Floor \in Nat /\ Factor \in Nat /\ MaxWindow \in Nat /\ Amounts \subseteq Nat \ {0}
    /\ MaxBatches \in Nat /\ MaxDecisions \in Nat
BY WindowAssumption

LEMMA WindowDays ==
    ASSUME NEW t \in Windows
    PROVE  t \in Nat /\ t <= MaxWindow /\ DayOf(t) \in Days
<1>1. t \in Nat /\ MaxWindow \in Nat /\ t <= MaxWindow
  BY WindowTypes DEF Windows
<1>2. DayOf(t) \in Nat /\ DayOf(MaxWindow) \in Nat /\ DayOf(t) <= DayOf(MaxWindow)
  BY <1>1, DayTypes, DaysGrow
<1> QED BY <1>1, <1>2 DEF DayOf, Days

\* Some element of a finite set has the greatest value, and some natural number of a set is
\* the least.
LEMMA LeastOf ==
    ASSUME NEW N \in SUBSET Nat, N # {}
    PROVE  \E m \in N : \A x \in N : m <= x
<1> DEFINE less == OpToRel(<, Nat)
<1>1. IsWellFoundedOn(less, Nat)
  BY NatLessThanWellFounded
<1>2. \A a, b \in Nat : a < b => <<a, b>> \in less
  BY DEF OpToRel
<1> HIDE DEF less
<1>3. PICK m \in N : \A x \in N : ~(<<x, m>> \in less)
  BY <1>1, WFMin
<1>4. ASSUME NEW x \in N PROVE m <= x
  <2>1. x \in Nat /\ m \in Nat
    OBVIOUS
  <2>2. ~(x < m)
    BY <1>2, <1>3, <2>1
  <2> QED BY <2>1, <2>2
<1> QED BY <1>4

LEMMA GreatestOf ==
    ASSUME NEW S, IsFiniteSet(S), S # {}, NEW f, \A x \in S : f[x] \in Nat
    PROVE  \E m \in S : \A x \in S : f[x] <= f[m]
<1> DEFINE below(x) == {y \in S : f[y] <= f[x]}
           left(x) == Cardinality(S) - Cardinality(below(x))
           N == {left(x) : x \in S}
<1>1. \A x \in S : /\ IsFiniteSet(below(x)) /\ Cardinality(below(x)) \in Nat
                   /\ Cardinality(below(x)) <= Cardinality(S)
  BY FS_Subset, FS_CardinalityType
<1>2. Cardinality(S) \in Nat
  BY FS_CardinalityType
<1> HIDE DEF below
<1>3. \A x \in S : left(x) \in Nat
  BY <1>1, <1>2
<1> HIDE DEF left
<1>4. N \in SUBSET Nat /\ N # {}
  BY <1>3
<1>5. PICK n \in N : \A k \in N : n <= k
  <2> HIDE DEF N
  <2> QED BY <1>4, LeastOf
<1>6. PICK m \in S : n = left(m)
  OBVIOUS
<1>7. ASSUME NEW x \in S, ~(f[x] <= f[m]) PROVE FALSE
  <2>1. f[x] \in Nat /\ f[m] \in Nat /\ f[m] < f[x]
    BY <1>7
  <2>2. below(m) \in SUBSET below(x)
    BY <2>1 DEF below
  <2>3. x \in below(x) /\ x \notin below(m)
    BY <2>1 DEF below
  <2>4. Cardinality(below(m)) <= Cardinality(below(x)) /\ Cardinality(below(m)) # Cardinality(below(x))
    BY <1>1, <2>2, <2>3, FS_Subset
  <2>5. left(m) <= left(x)
    BY <1>5, <1>6
  <2>6. Cardinality(below(m)) \in Nat /\ Cardinality(below(x)) \in Nat
    BY <1>1
  <2> QED BY <1>2, <2>4, <2>5, <2>6 DEF left
<1> QED BY <1>7

\* A percentile is one of the values.
LEMMA PercentileType ==
    ASSUME NEW S, IsFiniteSet(S), S # {}, \A t \in S : distinct[t] \in Nat
    PROVE  Percentile95(S) \in Nat
<1> DEFINE n == Cardinality(S)
           upTo(v) == Cardinality({t \in S : distinct[t] <= v})
           under(v) == Cardinality({t \in S : distinct[t] < v})
           V == {distinct[t] : t \in S}
           G == {v \in V : 100 * upTo(v) >= 95 * n}
<1>1. n \in Nat /\ n > 0
  <2>1. n \in Nat /\ n # 0
    BY FS_CardinalityType, FS_EmptySet
  <2> HIDE DEF n
  <2> QED BY <2>1
<1>2. \A v : upTo(v) \in Nat /\ under(v) \in Nat
  BY FS_Subset, FS_CardinalityType
<1>3. V \in SUBSET Nat
  OBVIOUS
<1>4. G # {}
  <2>1. PICK m \in S : \A t \in S : distinct[t] <= distinct[m]
    BY GreatestOf
  <2>2. upTo(distinct[m]) = n
    <3>1. {t \in S : distinct[t] <= distinct[m]} = S
      BY <2>1
    <3> QED BY <3>1
  <2> HIDE DEF n, upTo
  <2>3. 100 * upTo(distinct[m]) >= 95 * n
    BY <1>1, <2>2
  <2> QED BY <2>3
<1>5. PICK v \in G : \A w \in G : v <= w
  <2>1. G \in SUBSET Nat
    BY <1>3
  <2> HIDE DEF G
  <2> QED BY <1>4, <2>1, LeastOf
<1>6. 100 * under(v) < 95 * n
  <2> DEFINE U == {t \in S : distinct[t] < v}
  <2>1. CASE U = {}
    <3>1. under(v) = 0
      BY <2>1, FS_EmptySet
    <3> HIDE DEF under, n
    <3> QED BY <1>1, <3>1
  <2>2. CASE U # {}
    <3>1. IsFiniteSet(U) /\ \A t \in U : distinct[t] \in Nat
      BY FS_Subset
    <3>2. PICK u \in U : \A t \in U : distinct[t] <= distinct[u]
      <4> HIDE DEF U
      <4> QED BY <2>2, <3>1, GreatestOf
    <3>3. v \in Nat /\ distinct[u] \in Nat /\ distinct[u] < v
      BY <1>3
    <3>4. U = {t \in S : distinct[t] <= distinct[u]}
      BY <3>2, <3>3
    <3>5. under(v) = upTo(distinct[u])
      BY <3>4
    <3>6. distinct[u] \in V /\ distinct[u] \notin G
      <4>1. distinct[u] \in V
        OBVIOUS
      <4>2. ~(v <= distinct[u])
        BY <3>3
      <4> HIDE DEF G
      <4> QED BY <1>5, <4>1, <4>2
    <3>7. ~(100 * upTo(distinct[u]) >= 95 * n)
      BY <3>6
    <3>8. upTo(distinct[u]) \in Nat
      BY <1>2
    <3> HIDE DEF n, upTo, under
    <3> QED BY <1>1, <3>5, <3>7, <3>8
  <2> QED BY <2>1, <2>2
<1>7. v \in V /\ 100 * upTo(v) >= 95 * n /\ 100 * under(v) < 95 * n
  BY <1>6
<1>8. \E w \in {distinct[t] : t \in S} :
        /\ 100 * Cardinality({t \in S : distinct[t] <= w}) >= 95 * Cardinality(S)
        /\ 100 * Cardinality({t \in S : distinct[t] < w}) < 95 * Cardinality(S)
  BY <1>7
<1>9. Percentile95(S) \in V
  BY <1>8 DEF Percentile95
<1> QED BY <1>3, <1>9

LEMMA ProductType == \A a, b \in Nat : a * b \in Nat
OBVIOUS

LEMMA MaxOfThree ==
    ASSUME NEW a \in Int, NEW b \in Int, NEW c \in Int
    PROVE  Max({a, b, c}) \in {a, b, c}
<1>1. \E m \in {a, b, c} : \A x \in {a, b, c} : m >= x
  <2>1. CASE a >= b /\ a >= c
    BY <2>1
  <2>2. CASE b >= a /\ b >= c
    BY <2>2
  <2>3. CASE c >= a /\ c >= b
    BY <2>3
  <2> QED BY <2>1, <2>2, <2>3
<1> QED BY <1>1 DEF Max

LEMMA MaxOfTwo ==
    ASSUME NEW a \in Int, NEW b \in Int
    PROVE  Max({a, b}) \in {a, b} /\ Max({a, b}) >= a
<1>1. \E m \in {a, b} : \A x \in {a, b} : m >= x
  <2>1. CASE a >= b
    BY <2>1
  <2>2. CASE b >= a
    BY <2>2
  <2> QED BY <2>1, <2>2
<1>2. Max({a, b}) \in {a, b} /\ \A x \in {a, b} : Max({a, b}) >= x
  BY <1>1 DEF Max
<1> QED BY <1>2

LEMMA ThresholdType ==
    ASSUME WindowTypeOK, NEW d
    PROVE  Threshold(d) \in Nat
<1> DEFINE S == WindowReference(d)
<1>1. S \in SUBSET Windows /\ \A t \in Windows : distinct[t] \in Nat
  BY DEF WindowReference, Rows, WindowTypeOK
<1>2. IsFiniteSet(S)
  <2>1. IsFiniteSet(Windows)
    BY WindowTypes, FS_Interval DEF Windows
  <2> QED BY <1>1, <2>1, FS_Subset
<1> HIDE DEF S
<1>3. CASE Cardinality({DayOf(t) : t \in S}) < Minimum \/ Cardinality(S) < MinWindows
  BY <1>3 DEF Threshold, Insufficient, S
<1>4. CASE ~(Cardinality({DayOf(t) : t \in S}) < Minimum \/ Cardinality(S) < MinWindows)
  <2> DEFINE p == Percentile95(S)
             a == 2 * Floor
             b == 2 * p * Factor
             c == 2 * p + Floor
  <2>1. S # {}
    <3>1. Cardinality({}) = 0 /\ MinWindows \in Nat \ {0} /\ ~(Cardinality(S) < MinWindows)
      BY <1>4, WindowTypes, FS_EmptySet
    <3> QED BY <3>1
  <2>2. p \in Nat
    BY <1>1, <1>2, <2>1, PercentileType
  <2>3. Threshold(d) = Max({a, b, c})
    BY <1>4 DEF Threshold, S
  <2> HIDE DEF p
  <2>4. a \in Nat /\ b \in Nat /\ c \in Nat
    <3>1. 2 * p \in Nat /\ Floor \in Nat /\ Factor \in Nat
      BY <2>2, WindowTypes
    <3>2. (2 * p) * Factor \in Nat
      BY <3>1, ProductType
    <3> QED BY <3>1, <3>2
  <2> HIDE DEF a, b, c
  <2>5. Max({a, b, c}) \in {a, b, c}
    BY <2>4, MaxOfThree
  <2> QED BY <2>3, <2>4, <2>5
<1> QED BY <1>3, <1>4

-----------------------------------------------------------------------------
(* The inductive invariant of the windows *)

\* A window that was reported or marked is out of the reference, or deleted for good.
ExcludedStays == \A t \in excluded : ~ok[t] \/ (distinct[t] = 0 /\ t < FirstWindow)

WindowInv == WindowTypeOK /\ ExcludedStays /\ ShiftsAreReported

\* The window and the one before it are above what the window was compared with last.
Shifted(t) ==
    /\ judgedAt[t] # 0 /\ evaluated[t] /\ 2 * distinct[t] > judgedAt[t]
    /\ t - 1 \in Windows /\ 2 * distinct[t - 1] > judgedAt[t]

LEMMA ShiftsAre ==
    /\ ShiftsAreReported <=> \A t \in Windows : Shifted(t) => t \in reported \cup late
    /\ ShiftsAreReported' <=> \A t \in Windows : Shifted(t)' => t \in reported' \cup late'
BY DEF Shifted, ShiftsAreReported, Above, Insufficient, Windows

\* The first row of a pass, the threshold it is compared with, and what follows.
Evaluated(t, threshold, shift, excluding) ==
    /\ t \in pass.rows /\ t \in Windows /\ threshold \in Nat
    /\ shift \in BOOLEAN /\ excluding \in BOOLEAN /\ (excluding => shift)
    /\ shift <=> threshold # 0 /\ Above(t, threshold) /\ Above(t - 1, threshold)
    /\ pass' = [rows |-> pass.rows \ {t},
                references |-> [pass.references EXCEPT ![DayOf(t)] = IF enabled THEN threshold ELSE @]]
    /\ evaluated' = [evaluated EXCEPT ![t] = TRUE]
    /\ IF shift THEN Report(t) ELSE finding' = finding
    /\ ok' = IF excluding THEN [u \in Windows |-> ok[u] /\ u \notin {t - 1, t}] ELSE ok
    /\ excluded' = IF excluding THEN excluded \cup {t - 1, t} ELSE excluded
    /\ judgedAt' = [judgedAt EXCEPT ![t] = threshold]
    /\ reported' = IF shift THEN reported \cup {t} ELSE reported
    /\ late' = late \ {t}
    /\ UNCHANGED <<clock, distinct, batches, expected, enabled, decisions>>

LEMMA EvaluateIs ==
    ASSUME WindowTypeOK, EvaluateNext
    PROVE  \E t, threshold, shift, excluding : Evaluated(t, threshold, shift, excluding)
<1> DEFINE t == Min(pass.rows)
           d == DayOf(t)
           cached == pass.references[d]
           threshold == IF ~enabled THEN Insufficient
                        ELSE IF cached # NotRead THEN cached ELSE Threshold(d)
           shift == threshold # Insufficient /\ Above(t, threshold) /\ Above(t - 1, threshold)
           excluding == shift /\ (finding.open \/ ~expected)
<1>1. t \in pass.rows /\ t \in Windows
  <2>1. pass.rows # {} /\ pass.rows \in SUBSET Windows
    BY DEF EvaluateNext, Idle, WindowTypeOK, Rows
  <2>2. pass.rows \in SUBSET Nat
    BY <2>1, WindowDays
  <2>3. \E m \in pass.rows : \A x \in pass.rows : m <= x
    BY <2>1, <2>2, LeastOf
  <2>4. t \in pass.rows
    BY <2>3 DEF Min
  <2> QED BY <2>1, <2>4
<1>2. threshold \in Nat
  <2>1. d \in Days
    BY <1>1, WindowDays
  <2>2. cached \in Nat \cup {NotRead}
    BY <2>1 DEF WindowTypeOK
  <2>3. Threshold(d) \in Nat
    BY ThresholdType
  <2> QED BY <2>2, <2>3 DEF Insufficient
<1>3. shift \in BOOLEAN /\ excluding \in BOOLEAN /\ (excluding => shift)
      /\ (shift <=> threshold # 0 /\ Above(t, threshold) /\ Above(t - 1, threshold))
  <2>1. Insufficient = 0
    BY DEF Insufficient
  <2> QED BY <2>1
<1>4. /\ pass' = [rows |-> pass.rows \ {t},
                  references |-> [pass.references EXCEPT ![d] = IF enabled THEN threshold ELSE @]]
      /\ evaluated' = [evaluated EXCEPT ![t] = TRUE]
      /\ IF shift THEN Report(t) ELSE UNCHANGED finding
      /\ ok' = IF excluding THEN [u \in Windows |-> ok[u] /\ u \notin Exclude(t)] ELSE ok
      /\ excluded' = IF excluding THEN excluded \cup {t - 1, t} ELSE excluded
      /\ judgedAt' = [judgedAt EXCEPT ![t] = threshold]
      /\ reported' = IF shift THEN reported \cup {t} ELSE reported
      /\ late' = late \ {t}
      /\ UNCHANGED <<clock, distinct, batches, analystVars>>
  BY Zenon DEF EvaluateNext
<1>5. Evaluated(t, threshold, shift, excluding)
  <2> HIDE DEF t, cached, threshold, shift, excluding
  <2> QED BY <1>1, <1>2, <1>3, <1>4 DEF Evaluated, Exclude, analystVars, shift, excluding
<1> QED BY <1>5

\* What a report makes of the finding.
LEMMA ReportTypes ==
    ASSUME WindowTypeOK, NEW t \in Windows, Report(t)
    PROVE  /\ finding' \in [open : BOOLEAN, malicious : BOOLEAN,
                            first : Windows \cup {-1}, last : Windows \cup {-1}]
           /\ finding'.first <= finding'.last
<1>1. finding \in [open : BOOLEAN, malicious : BOOLEAN,
                   first : Windows \cup {-1}, last : Windows \cup {-1}]
      /\ finding.first <= finding.last /\ expected \in BOOLEAN
  BY DEF WindowTypeOK
<1>2. t \in Int /\ \A u \in Windows \cup {-1} : u \in Int
  BY WindowDays
<1>3. CASE finding.open
  <2>1. finding' = [finding EXCEPT !.last = Max({finding.last, t})]
    BY <1>1, <1>3 DEF Report
  <2>2. finding.last \in Int /\ finding.first \in Int
    BY <1>1, <1>2
  <2> DEFINE m == Max({finding.last, t})
  <2>3. m \in {finding.last, t} /\ m >= finding.last
    BY <1>2, <2>2, MaxOfTwo
  <2> HIDE DEF m
  <2>4. m \in Windows \cup {-1} /\ finding.first <= m
    BY <1>1, <1>2, <2>2, <2>3
  <2>5. finding' = [finding EXCEPT !.last = m]
    BY <2>1 DEF m
  <2> QED BY <1>1, <2>4, <2>5
<1>4. CASE ~finding.open /\ expected
  <2>1. finding' = finding
    BY <1>1, <1>4 DEF Report
  <2> QED BY <1>1, <2>1
<1>5. CASE ~finding.open /\ ~expected
  <2>1. finding' = NewFinding(t)
    BY <1>1, <1>5 DEF Report
  <2> QED BY <1>2, <2>1 DEF NewFinding
<1> QED BY <1>1, <1>3, <1>4, <1>5

LEMMA EvaluateKeeps ==
    ASSUME WindowInv, EvaluateNext
    PROVE  WindowInv'
<1>1. PICK t, threshold, shift, excluding : Evaluated(t, threshold, shift, excluding)
  BY EvaluateIs DEF WindowInv
<1>2. WindowTypeOK
  BY DEF WindowInv
<1>3. t \in Windows /\ t \in Nat /\ threshold \in Nat /\ DayOf(t) \in Days
  BY <1>1, WindowDays DEF Evaluated
<1>4. excluding => t - 1 \in Windows
  BY <1>1 DEF Evaluated, Above
<1>5. Rows' = Rows
  BY <1>1 DEF Evaluated, Rows
<1>6. WindowTypeOK'
  <2>1. pass' \in [rows : SUBSET Rows', references : [Days -> Nat \cup {NotRead}]]
    <3>1. pass.rows \ {t} \in SUBSET Rows
      BY <1>2 DEF WindowTypeOK
    <3> DEFINE r == [pass.references EXCEPT ![DayOf(t)] = IF enabled THEN threshold ELSE @]
    <3>2. r \in [Days -> Nat \cup {NotRead}]
      BY <1>2, <1>3 DEF WindowTypeOK
    <3>3. pass' = [rows |-> pass.rows \ {t}, references |-> r]
      BY <1>1 DEF Evaluated
    <3> HIDE DEF r
    <3> QED BY <1>5, <3>1, <3>2, <3>3
  <2>2. evaluated' \in [Windows -> BOOLEAN] /\ judgedAt' \in [Windows -> Nat]
    BY <1>1, <1>2, <1>3 DEF Evaluated, WindowTypeOK
  <2>3. ok' \in [Windows -> BOOLEAN]
    <3>1. CASE excluding
      <4>1. ok' = [u \in Windows |-> ok[u] /\ u \notin {t - 1, t}]
        BY <1>1, <3>1 DEF Evaluated
      <4> QED BY <4>1
    <3>2. CASE ~excluding
      BY <1>1, <1>2, <3>2 DEF Evaluated, WindowTypeOK
    <3> QED BY <3>1, <3>2
  <2>4. /\ finding' \in [open : BOOLEAN, malicious : BOOLEAN,
                         first : Windows \cup {-1}, last : Windows \cup {-1}]
        /\ finding'.first <= finding'.last
    <3>1. CASE shift
      BY <1>1, <1>2, <1>3, <3>1, ReportTypes DEF Evaluated
    <3>2. CASE ~shift
      BY <1>1, <1>2, <3>2 DEF Evaluated, WindowTypeOK
    <3> QED BY <3>1, <3>2
  <2>5. excluded' \subseteq Windows /\ reported' \subseteq Windows /\ late' \subseteq Windows
    <3>1. excluded \subseteq Windows /\ reported \subseteq Windows /\ late \subseteq Windows
      BY <1>2 DEF WindowTypeOK
    <3> QED BY <1>1, <1>3, <1>4, <3>1 DEF Evaluated
  <2>6. clock' = clock /\ distinct' = distinct /\ UNCHANGED <<batches, expected, enabled, decisions>>
    BY <1>1 DEF Evaluated
  <2> QED BY <1>2, <1>5, <2>1, <2>2, <2>3, <2>4, <2>5, <2>6 DEF WindowTypeOK, Windows, Days
<1>7. ExcludedStays'
  <2> SUFFICES ASSUME NEW u \in excluded'
               PROVE  ~ok'[u] \/ (distinct'[u] = 0 /\ u < FirstWindow')
    BY DEF ExcludedStays
  <2>1. distinct' = distinct /\ FirstWindow' = FirstWindow
    BY <1>1 DEF Evaluated, FirstWindow, DayOf
  <2>2. CASE excluding
    <3>1. u \in Windows /\ excluded' = excluded \cup {t - 1, t}
      BY <1>1, <1>6, <2>2 DEF Evaluated, WindowTypeOK, Windows
    <3>2. ok' = [w \in Windows |-> ok[w] /\ w \notin {t - 1, t}]
      BY <1>1, <2>2 DEF Evaluated
    <3>3. ok'[u] => ok[u] /\ u \notin {t - 1, t}
      BY <3>1, <3>2
    <3> QED BY <2>1, <3>1, <3>3 DEF WindowInv, ExcludedStays
  <2>3. CASE ~excluding
    BY <1>1, <2>1, <2>3 DEF Evaluated, WindowInv, ExcludedStays
  <2> QED BY <1>1, <2>2, <2>3 DEF Evaluated
<1>8. ShiftsAreReported'
  <2> SUFFICES ASSUME NEW u \in Windows, Shifted(u)'
               PROVE  u \in reported' \cup late'
    BY ShiftsAre
  <2>1. distinct' = distinct
    BY <1>1 DEF Evaluated
  <2>2. judgedAt'[u] # 0 /\ evaluated'[u] /\ Above(u, judgedAt'[u]) /\ Above(u - 1, judgedAt'[u])
    BY <2>1 DEF Shifted, Above
  <2>3. CASE u = t
    <3>1. judgedAt'[u] = threshold
      BY <1>1, <1>2, <2>3 DEF Evaluated, WindowTypeOK
    <3>2. shift
      BY <1>1, <2>2, <2>3, <3>1 DEF Evaluated
    <3> QED BY <1>1, <2>3, <3>2 DEF Evaluated
  <2>4. CASE u # t
    <3>1. judgedAt'[u] = judgedAt[u] /\ evaluated'[u] = evaluated[u]
      BY <1>1, <1>2, <2>4 DEF Evaluated, WindowTypeOK
    <3>2. u \in reported \cup late
      BY <2>2, <3>1, ShiftsAre DEF WindowInv, Shifted, Above
    <3> QED BY <1>1, <2>4, <3>2 DEF Evaluated
  <2> QED BY <2>3, <2>4
<1> QED BY <1>6, <1>7, <1>8 DEF WindowInv

\* The rows a pass takes are rows, and so are those it sweeps.
LEMMA PassRows ==
    ASSUME NEW flags, NEW R, NEW limit
    PROVE  FirstOf(Pending(flags, R), limit) \in SUBSET R /\ Swept(flags, R) \in SUBSET R
BY DEF FirstOf, Pending, Swept

LEMMA NewPass ==
    ASSUME NEW R \in SUBSET Rows'
    PROVE  [NoPass EXCEPT !.rows = R] \in
               [rows : SUBSET Rows', references : [Days -> Nat \cup {NotRead}]]
BY DEF NoPass

\* A batch opens the windows it adds to again, or they are late, as those after them are.
LEMMA IngestKeeps ==
    ASSUME WindowInv, NEW add, NEW historical \in BOOLEAN,
           DOMAIN add \in SUBSET Windows, \A t \in DOMAIN add : add[t] \in Nat \ {0},
           Ingest(add, historical)
    PROVE  WindowInv'
<1> DEFINE touched == DOMAIN add
           flags == [t \in Windows |-> IF t \in touched /\ ~historical THEN Reopened(t) ELSE evaluated[t]]
           R == Rows \cup touched
           swept == IF historical THEN {} ELSE Swept(flags, R)
           following == {t \in Windows : t - 1 \in touched}
<1>1. /\ Idle /\ batches < MaxBatches
      /\ \A t \in touched : FirstKept <= t
      /\ distinct' = [t \in Windows |-> IF t \in touched THEN distinct[t] + add[t] ELSE distinct[t]]
      /\ evaluated' = [t \in Windows |-> flags[t] \/ t \in swept]
      /\ pass' = IF historical THEN pass
                 ELSE [NoPass EXCEPT !.rows = FirstOf(Pending(flags, R), BatchLimit)]
      /\ late' = late \cup swept \cup (IF historical THEN touched \cup following ELSE following \ touched)
      /\ batches' = batches + 1
      /\ UNCHANGED <<clock, ok, finding, excluded, judgedAt, reported, expected, enabled, decisions>>
  BY DEF Ingest, analystVars
<1>2. WindowTypeOK
  BY DEF WindowInv
<1>3. \A t \in Windows : distinct[t] \in Nat
  BY <1>2 DEF WindowTypeOK
<1>4. \A t \in Windows : /\ t \in touched => distinct'[t] = distinct[t] + add[t]
                         /\ t \notin touched => distinct'[t] = distinct[t]
  BY <1>1
<1>5. Rows' = R
  BY <1>3, <1>4 DEF Rows, Windows
<1>6. R \in SUBSET Windows /\ swept \in SUBSET Windows
  <2>1. R \in SUBSET Windows
    BY DEF Rows
  <2> QED BY <2>1, PassRows
<1> HIDE DEF flags, R, swept
<1>7. WindowTypeOK'
  <2>1. distinct' \in [Windows -> Nat]
    <3>1. \A t \in touched : distinct[t] + add[t] \in Nat
      BY <1>3
    <3> QED BY <1>1, <1>3, <3>1
  <2>2. evaluated' \in [Windows -> BOOLEAN]
    <3>1. flags \in [Windows -> BOOLEAN]
      BY <1>2 DEF flags, Reopened, WindowTypeOK
    <3> QED BY <1>1, <3>1
  <2>3. pass' \in [rows : SUBSET Rows', references : [Days -> Nat \cup {NotRead}]]
    <3>1. CASE historical
      <4>1. pass' = pass /\ pass \in [rows : SUBSET Rows, references : [Days -> Nat \cup {NotRead}]]
        BY <1>1, <1>2, <3>1 DEF WindowTypeOK
      <4>2. Rows \in SUBSET Rows'
        BY <1>5 DEF R
      <4> QED BY <4>1, <4>2
    <3>2. CASE ~historical
      <4>1. FirstOf(Pending(flags, R), BatchLimit) \in SUBSET Rows'
        BY <1>5, PassRows
      <4> QED BY <1>1, <3>2, <4>1, NewPass
    <3> QED BY <3>1, <3>2
  <2>4. late' \subseteq Windows
    <3>1. late \subseteq Windows /\ touched \subseteq Windows /\ following \subseteq Windows
      BY <1>2 DEF WindowTypeOK
    <3> HIDE DEF touched, following
    <3> QED BY <1>1, <1>6, <3>1
  <2>5. batches' \in 0 .. MaxBatches
    BY <1>1, <1>2, WindowTypes DEF WindowTypeOK
  <2> QED BY <1>1, <1>2, <2>1, <2>2, <2>3, <2>4, <2>5 DEF WindowTypeOK, Windows, Days
<1>8. ExcludedStays'
  <2> SUFFICES ASSUME NEW u \in excluded
               PROVE  ~ok'[u] \/ (distinct'[u] = 0 /\ u < FirstWindow')
    BY <1>1 DEF ExcludedStays
  <2>1. FirstWindow' = FirstWindow /\ FirstKept = FirstWindow /\ ok' = ok
    BY <1>1 DEF FirstWindow, FirstKept, DayOf
  <2>2. u \in Windows
    BY <1>2 DEF WindowTypeOK
  <2>3. CASE ~ok[u]
    BY <2>1, <2>3
  <2>4. CASE distinct[u] = 0 /\ u < FirstWindow
    <3>1. u \notin touched
      <4>1. clock \in Nat /\ u \in Nat
        BY <1>2, <2>2, WindowDays DEF WindowTypeOK
      <4>2. DayOf(clock) - Baseline \in Int
        BY <4>1, DayTypes, WindowTypes
      <4>3. FirstWindow \in Int
        BY <4>2, ConstantTypes DEF FirstWindow, DayOf
      <4> QED BY <1>1, <2>1, <2>4, <4>1, <4>3
    <3> QED BY <1>4, <2>1, <2>2, <2>4, <3>1
  <2> QED BY <2>3, <2>4 DEF WindowInv, ExcludedStays
<1>9. ShiftsAreReported'
  <2> SUFFICES ASSUME NEW u \in Windows, Shifted(u)'
               PROVE  u \in reported' \cup late'
    BY ShiftsAre
  <2>1. /\ judgedAt[u] # 0 /\ evaluated'[u] /\ 2 * distinct'[u] > judgedAt[u]
        /\ u - 1 \in Windows /\ 2 * distinct'[u - 1] > judgedAt[u] /\ reported' = reported
    BY <1>1 DEF Shifted, Windows
  <2>2. CASE u \in swept
    BY <1>1, <2>2
  <2>3. CASE u \in touched /\ u \notin swept
    <3>1. flags[u]
      BY <1>1, <2>1, <2>3
    <3>2. historical
      BY <2>3, <3>1 DEF flags, Reopened
    <3> QED BY <1>1, <2>3, <3>2
  <2>4. CASE u \notin touched /\ u - 1 \in touched
    BY <1>1, <2>4
  <2>5. CASE u \notin touched /\ u - 1 \notin touched /\ u \notin swept
    <3>1. distinct'[u] = distinct[u] /\ distinct'[u - 1] = distinct[u - 1]
      BY <1>4, <2>1, <2>5
    <3>2. evaluated[u]
      <4>1. flags[u]
        BY <1>1, <2>1, <2>5
      <4> QED BY <2>5, <4>1 DEF flags
    <3>3. u \in reported \cup late
      BY <2>1, <3>1, <3>2, ShiftsAre DEF WindowInv, Shifted
    <3> QED BY <1>1, <2>1, <3>3
  <2> QED BY <2>2, <2>3, <2>4, <2>5
<1> QED BY <1>7, <1>8, <1>9 DEF WindowInv

LEMMA BatchKeeps ==
    ASSUME WindowInv, Batch
    PROVE  WindowInv'
<1>1. PICK t \in Windows, historical \in BOOLEAN, a \in Amounts :
          \/ Ingest([u \in {t} |-> a], historical)
          \/ t < MaxWindow /\ Ingest([u \in {t, t + 1} |-> a], historical)
  BY DEF Batch
<1>2. a \in Nat \ {0} /\ t \in Nat /\ MaxWindow \in Nat
  BY WindowTypes, WindowDays
<1>3. CASE Ingest([u \in {t} |-> a], historical)
  <2> DEFINE add == [u \in {t} |-> a]
  <2>1. DOMAIN add \in SUBSET Windows /\ \A u \in DOMAIN add : add[u] \in Nat \ {0}
    BY <1>2
  <2>2. Ingest(add, historical)
    BY <1>3
  <2> HIDE DEF add
  <2> QED BY <2>1, <2>2, IngestKeeps
<1>4. CASE t < MaxWindow /\ Ingest([u \in {t, t + 1} |-> a], historical)
  <2> DEFINE add == [u \in {t, t + 1} |-> a]
  <2>1. DOMAIN add \in SUBSET Windows /\ \A u \in DOMAIN add : add[u] \in Nat \ {0}
    BY <1>2, <1>4 DEF Windows
  <2>2. Ingest(add, historical)
    BY <1>4
  <2> HIDE DEF add
  <2> QED BY <2>1, <2>2, IngestKeeps
<1> QED BY <1>1, <1>3, <1>4

LEMMA IdleEvaluationKeeps ==
    ASSUME WindowInv, IdleEvaluation
    PROVE  WindowInv'
<1> DEFINE swept == Swept(evaluated, Rows)
<1>1. /\ evaluated' = [t \in Windows |-> evaluated[t] \/ t \in swept]
      /\ pass' = [NoPass EXCEPT !.rows = FirstOf(Pending(evaluated, Rows), IdleLimit)]
      /\ late' = late \cup swept
      /\ UNCHANGED <<clock, distinct, ok, finding, batches, excluded, judgedAt, reported, expected, enabled, decisions>>
  BY DEF IdleEvaluation, analystVars
<1>2. WindowTypeOK
  BY DEF WindowInv
<1>3. swept \in SUBSET Windows
  BY PassRows DEF Rows
<1> HIDE DEF swept
<1>4. Rows' = Rows
  BY <1>1 DEF Rows, Windows
<1>5. WindowTypeOK'
  <2>1. pass' \in [rows : SUBSET Rows', references : [Days -> Nat \cup {NotRead}]]
    <3>1. FirstOf(Pending(evaluated, Rows), IdleLimit) \in SUBSET Rows'
      BY <1>4, PassRows
    <3> QED BY <1>1, <3>1, NewPass
  <2>2. evaluated' \in [Windows -> BOOLEAN]
    BY <1>1, <1>2 DEF WindowTypeOK
  <2>3. late' \subseteq Windows
    BY <1>1, <1>2, <1>3 DEF WindowTypeOK
  <2> QED BY <1>1, <1>2, <2>1, <2>2, <2>3 DEF WindowTypeOK, Windows, Days
<1>6. ExcludedStays'
  BY <1>1 DEF WindowInv, ExcludedStays, FirstWindow, DayOf
<1>7. ShiftsAreReported'
  <2> SUFFICES ASSUME NEW u \in Windows, Shifted(u)'
               PROVE  u \in reported' \cup late'
    BY ShiftsAre
  <2>1. u \in swept \/ Shifted(u)
    BY <1>1 DEF Shifted, Windows
  <2>2. Shifted(u) => u \in reported \cup late
    BY ShiftsAre DEF WindowInv
  <2> QED BY <1>1, <2>1, <2>2
<1> QED BY <1>5, <1>6, <1>7 DEF WindowInv

\* What retention deletes is before the first day, and is compared with nothing any more.
LEMMA RetentionKeeps ==
    ASSUME WindowInv, WindowMaintenance
    PROVE  WindowInv'
<1> DEFINE lost == {t \in Rows : t < FirstWindow}
<1>1. /\ Idle
      /\ distinct' = [t \in Windows |-> IF t \in lost THEN 0 ELSE distinct[t]]
      /\ ok' = [t \in Windows |-> ok[t] \/ t \in lost]
      /\ evaluated' = [t \in Windows |-> evaluated[t] \/ t \in lost]
      /\ judgedAt' = [t \in Windows |-> IF t \in lost THEN Insufficient ELSE judgedAt[t]]
      /\ UNCHANGED <<clock, pass, finding, batches, excluded, reported, late, expected, enabled, decisions>>
  BY DEF WindowMaintenance, analystVars
<1>2. WindowTypeOK
  BY DEF WindowInv
<1>3. FirstWindow' = FirstWindow /\ \A t \in lost : t < FirstWindow
  BY <1>1 DEF FirstWindow, DayOf
<1> HIDE DEF lost
<1>4. WindowTypeOK'
  <2>1. pass' \in [rows : SUBSET Rows', references : [Days -> Nat \cup {NotRead}]]
    BY <1>1, <1>2 DEF Idle, WindowTypeOK
  <2>2. ok' \in [Windows -> BOOLEAN] /\ evaluated' \in [Windows -> BOOLEAN]
    BY <1>1, <1>2 DEF WindowTypeOK
  <2>3. distinct' \in [Windows -> Nat] /\ judgedAt' \in [Windows -> Nat]
    BY <1>1, <1>2 DEF WindowTypeOK, Insufficient
  <2> QED BY <1>1, <1>2, <2>1, <2>2, <2>3 DEF WindowTypeOK, Windows, Days
<1>5. ExcludedStays'
  <2> SUFFICES ASSUME NEW u \in excluded
               PROVE  ~ok'[u] \/ (distinct'[u] = 0 /\ u < FirstWindow')
    BY <1>1 DEF ExcludedStays
  <2>1. u \in Windows
    BY <1>2 DEF WindowTypeOK
  <2>2. ~ok[u] \/ (distinct[u] = 0 /\ u < FirstWindow)
    BY DEF WindowInv, ExcludedStays
  <2>3. CASE u \in lost
    BY <1>1, <1>3, <2>1, <2>3
  <2>4. CASE u \notin lost
    BY <1>1, <1>3, <2>1, <2>2, <2>4
  <2> QED BY <2>3, <2>4
<1>6. ShiftsAreReported'
  <2> SUFFICES ASSUME NEW u \in Windows, Shifted(u)'
               PROVE  u \in reported' \cup late'
    BY ShiftsAre
  <2>1. /\ judgedAt'[u] # 0 /\ evaluated'[u] /\ 2 * distinct'[u] > judgedAt'[u]
        /\ u - 1 \in Windows /\ 2 * distinct'[u - 1] > judgedAt'[u]
    BY DEF Shifted, Windows
  <2>2. u \notin lost /\ judgedAt'[u] = judgedAt[u] /\ judgedAt[u] \in Nat /\ distinct'[u] = distinct[u]
    BY <1>1, <1>2, <2>1 DEF Insufficient, WindowTypeOK
  <2>3. u - 1 \notin lost /\ distinct'[u - 1] = distinct[u - 1]
    BY <1>1, <2>1, <2>2
  <2>4. evaluated[u]
    BY <1>1, <2>1, <2>2
  <2>5. Shifted(u)
    BY <2>1, <2>2, <2>3, <2>4 DEF Shifted
  <2> QED BY <1>1, <2>5, ShiftsAre DEF WindowInv
<1> QED BY <1>4, <1>5, <1>6 DEF WindowInv

\* Who marks a finding takes its windows out of the reference.
LEMMA MaliciousKeeps ==
    ASSUME WindowInv, MarkMalicious
    PROVE  WindowInv'
<1> DEFINE bad == {t \in Rows : finding.first - 1 <= t /\ t <= finding.last + 1}
<1>1. /\ ok' = [t \in Windows |-> ok[t] /\ t \notin bad] /\ excluded' = excluded \cup bad
      /\ finding' = [finding EXCEPT !.open = TRUE, !.malicious = TRUE]
      /\ decisions < MaxDecisions /\ decisions' = decisions + 1
      /\ UNCHANGED <<clock, distinct, evaluated, pass, batches, expected, enabled, judgedAt, reported, late>>
  BY DEF MarkMalicious, MayDecide, Decided
<1>2. WindowTypeOK
  BY DEF WindowInv
<1>3. bad \in SUBSET Windows
  BY DEF Rows
<1> HIDE DEF bad
<1>4. WindowTypeOK'
  <2>1. Rows' = Rows
    BY <1>1 DEF Rows, Windows
  <2>2. ok' \in [Windows -> BOOLEAN]
    BY <1>1
  <2>3. /\ finding' \in [open : BOOLEAN, malicious : BOOLEAN,
                         first : Windows \cup {-1}, last : Windows \cup {-1}]
        /\ finding'.first <= finding'.last
    BY <1>1, <1>2 DEF WindowTypeOK
  <2>4. excluded' \subseteq Windows /\ decisions' \in 0 .. MaxDecisions
    BY <1>1, <1>2, <1>3, WindowTypes DEF WindowTypeOK
  <2> QED BY <1>1, <1>2, <2>1, <2>2, <2>3, <2>4 DEF WindowTypeOK, Windows, Days
<1>5. ExcludedStays'
  <2> SUFFICES ASSUME NEW u \in excluded'
               PROVE  ~ok'[u] \/ (distinct'[u] = 0 /\ u < FirstWindow')
    BY DEF ExcludedStays
  <2>1. u \in Windows /\ (u \in excluded \/ u \in bad)
    BY <1>1, <1>2, <1>3 DEF WindowTypeOK
  <2>2. distinct' = distinct /\ FirstWindow' = FirstWindow /\ (ok'[u] <=> ok[u] /\ u \notin bad)
    BY <1>1, <2>1 DEF FirstWindow, DayOf
  <2> QED BY <2>1, <2>2 DEF WindowInv, ExcludedStays
<1>6. ShiftsAreReported'
  BY <1>1, ShiftsAre DEF WindowInv, Shifted, Windows
<1> QED BY <1>4, <1>5, <1>6 DEF WindowInv

\* The other decisions touch neither the windows nor what is known of them.
LEMMA DecisionKeeps ==
    ASSUME WindowInv,
           Resolve \/ Expect \/ ExpectationEnds \/ ToggleDetector
    PROVE  WindowInv'
<1>1. /\ UNCHANGED <<clock, distinct, ok, evaluated, pass, batches, excluded, judgedAt, reported, late>>
      /\ decisions' \in {decisions, decisions + 1} /\ (decisions' # decisions => decisions < MaxDecisions)
      /\ expected' \in {expected, TRUE, FALSE} /\ enabled' \in {enabled, ~enabled}
      /\ finding' \in {finding, [finding EXCEPT !.open = FALSE],
                       [finding EXCEPT !.open = ~finding.open, !.malicious = FALSE]}
  <2>1. CASE Resolve
    BY <2>1 DEF Resolve, MayDecide, Decided, rowVars, windowHistory
  <2>2. CASE Expect
    BY <2>2 DEF Expect, MayDecide, Decided, rowVars, windowHistory
  <2>3. CASE ExpectationEnds
    BY <2>3 DEF ExpectationEnds, rowVars, windowHistory
  <2>4. CASE ToggleDetector
    BY <2>4 DEF ToggleDetector, MayDecide, Decided, rowVars, windowHistory
  <2> QED BY <2>1, <2>2, <2>3, <2>4
<1>2. WindowTypeOK
  BY DEF WindowInv
<1>3. WindowTypeOK'
  <2>1. Rows' = Rows
    BY <1>1 DEF Rows, Windows
  <2>2. /\ finding' \in [open : BOOLEAN, malicious : BOOLEAN,
                         first : Windows \cup {-1}, last : Windows \cup {-1}]
        /\ finding'.first <= finding'.last
    BY <1>1, <1>2 DEF WindowTypeOK
  <2>3. decisions' \in 0 .. MaxDecisions
    BY <1>1, <1>2, WindowTypes DEF WindowTypeOK
  <2>4. expected' \in BOOLEAN /\ enabled' \in BOOLEAN
    BY <1>1, <1>2 DEF WindowTypeOK
  <2> QED BY <1>1, <1>2, <2>1, <2>2, <2>3, <2>4 DEF WindowTypeOK, Windows, Days
<1>4. ExcludedStays'
  BY <1>1 DEF WindowInv, ExcludedStays, FirstWindow, DayOf
<1>5. ShiftsAreReported'
  BY <1>1, ShiftsAre DEF WindowInv, Shifted, Windows
<1> QED BY <1>3, <1>4, <1>5 DEF WindowInv

\* The first day that is kept only moves on.
LEMMA TimeKeeps ==
    ASSUME WindowInv, WindowPasses
    PROVE  WindowInv'
<1>1. /\ clock < MaxWindow /\ clock' = clock + 1
      /\ UNCHANGED <<distinct, ok, evaluated, pass, finding, batches, expected, enabled, decisions,
                     excluded, judgedAt, reported, late>>
  BY DEF WindowPasses, rowVars, analystVars, windowHistory
<1>2. WindowTypeOK /\ clock \in Nat /\ clock' \in Nat /\ clock <= clock' /\ MaxWindow \in Nat
  BY <1>1, WindowDays, WindowTypes DEF WindowInv, WindowTypeOK
<1>3. WindowTypeOK'
  <2>1. clock' \in Windows
    BY <1>1, <1>2 DEF Windows
  <2>2. Rows' = Rows
    BY <1>1 DEF Rows, Windows
  <2> QED BY <1>1, <1>2, <2>1, <2>2 DEF WindowTypeOK, Windows, Days
<1>4. FirstWindow \in Int /\ FirstWindow' \in Int /\ FirstWindow <= FirstWindow'
  <2> DEFINE a == DayOf(clock) - Baseline
             b == DayOf(clock') - Baseline
  <2>1. a \in Int /\ b \in Int /\ a <= b
    <3>1. DayOf(clock) \in Nat /\ DayOf(clock') \in Nat /\ DayOf(clock) <= DayOf(clock')
      BY <1>2, DayTypes, DaysGrow
    <3> QED BY <3>1, ConstantTypes
  <2>2. FirstWindow = a * Day /\ FirstWindow' = b * Day
    BY DEF FirstWindow, DayOf
  <2> HIDE DEF a, b
  <2>3. \A x, y \in Int, k \in Nat : x <= y => x * k \in Int /\ y * k \in Int /\ x * k <= y * k
    OBVIOUS
  <2> QED BY <2>1, <2>2, <2>3, ConstantTypes
<1>5. ExcludedStays'
  <2>1. \A u \in excluded : u \in Nat
    BY <1>2, WindowDays DEF WindowTypeOK
  <2> QED BY <1>1, <1>4, <2>1 DEF WindowInv, ExcludedStays
<1>6. ShiftsAreReported'
  BY <1>1, ShiftsAre DEF WindowInv, Shifted, Windows
<1> QED BY <1>3, <1>5, <1>6 DEF WindowInv

LEMMA WindowStep == WindowInv /\ [WindowNext]_windowVars => WindowInv'
<1> SUFFICES ASSUME WindowInv, [WindowNext]_windowVars PROVE WindowInv'
  OBVIOUS
<1>1. CASE WindowNext
  BY <1>1, BatchKeeps, EvaluateKeeps, IdleEvaluationKeeps, RetentionKeeps, MaliciousKeeps, DecisionKeeps,
     TimeKeeps DEF WindowNext
<1>2. CASE UNCHANGED windowVars
  <2>1. UNCHANGED <<clock, distinct, ok, evaluated, pass, finding, batches, expected, enabled, decisions,
                    excluded, judgedAt, reported, late>>
    BY <1>2 DEF windowVars, rowVars, analystVars, windowHistory
  <2>2. WindowTypeOK'
    BY <2>1 DEF WindowInv, WindowTypeOK, Windows, Days, Rows
  <2>3. ExcludedStays'
    BY <2>1 DEF WindowInv, ExcludedStays, FirstWindow, DayOf
  <2>4. ShiftsAreReported'
    BY <2>1, ShiftsAre DEF WindowInv, Shifted, Windows
  <2> QED BY <2>2, <2>3, <2>4 DEF WindowInv
<1> QED BY <1>1, <1>2

LEMMA WindowStart == WindowInit => WindowInv
<1> SUFFICES ASSUME WindowInit PROVE WindowInv
  OBVIOUS
<1>1. WindowTypeOK
  <2>1. 0 \in Windows /\ MaxBatches \in Nat /\ MaxDecisions \in Nat
    BY WindowTypes DEF Windows
  <2>2. finding = [open |-> FALSE, malicious |-> FALSE, first |-> -1, last |-> -1]
    BY DEF WindowInit, NewFinding
  <2>3. pass \in [rows : SUBSET Rows, references : [Days -> Nat \cup {NotRead}]]
    BY DEF WindowInit, NoPass
  <2>4. /\ distinct = [t \in Windows |-> 0] /\ ok = [t \in Windows |-> TRUE]
        /\ evaluated = [t \in Windows |-> TRUE] /\ judgedAt = [t \in Windows |-> 0]
    BY DEF WindowInit, Insufficient
  <2>5. /\ finding \in [open : BOOLEAN, malicious : BOOLEAN,
                        first : Windows \cup {-1}, last : Windows \cup {-1}]
        /\ finding.first <= finding.last
    BY <2>2
  <2>6. /\ distinct \in [Windows -> Nat] /\ judgedAt \in [Windows -> Nat]
        /\ ok \in [Windows -> BOOLEAN] /\ evaluated \in [Windows -> BOOLEAN]
    BY <2>4
  <2>7. expected \in BOOLEAN /\ enabled \in BOOLEAN
    BY DEF WindowInit
  <2>8. /\ clock \in Windows /\ batches \in 0 .. MaxBatches /\ decisions \in 0 .. MaxDecisions
        /\ excluded \subseteq Windows /\ reported \subseteq Windows /\ late \subseteq Windows
    BY <2>1 DEF WindowInit
  <2> QED BY <2>3, <2>5, <2>6, <2>7, <2>8 DEF WindowTypeOK
<1>2. ExcludedStays
  BY DEF WindowInit, ExcludedStays
<1>3. ShiftsAreReported
  BY DEF WindowInit, ShiftsAreReported
<1> QED BY <1>1, <1>2, <1>3 DEF WindowInv

\* Counts, flags and thresholds keep their types: a percentile is one of the counts, and a
\* pass takes none but rows.
THEOREM WindowTypesCorrect == WindowSpec => []WindowTypeOK
<1>1. WindowInv => WindowTypeOK
  BY DEF WindowInv
<1> QED BY <1>1, WindowStart, WindowStep, PTL DEF WindowSpec

\* A window that was reported, or marked by an analyst, is in no later reference: events
\* that come late do not bring it back, and retention resets no flag it still needs.
THEOREM ReferenceStaysClean == WindowSpec => []ReferenceIsClean
<1>1. WindowInv => ReferenceIsClean
  <2> SUFFICES ASSUME WindowInv, NEW d, NEW t \in WindowReference(d), t \in excluded PROVE FALSE
    BY DEF ReferenceIsClean
  <2>1. ok[t] /\ distinct[t] > 0
    BY DEF WindowReference, Rows
  <2> QED BY <2>1 DEF WindowInv, ExcludedStays
<1> QED BY <1>1, WindowStart, WindowStep, PTL DEF WindowSpec

\* Two windows in a row above the threshold are reported, however their events were cut
\* into batches, but for the windows that are late.
THEOREM WindowShiftsAreReported == WindowSpec => []ShiftsAreReported
<1>1. WindowInv => ShiftsAreReported
  BY DEF WindowInv
<1> QED BY <1>1, WindowStart, WindowStep, PTL DEF WindowSpec
==============================================================================
