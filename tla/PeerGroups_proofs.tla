-------------------------- MODULE PeerGroups_proofs --------------------------
(***************************************************************************)
(* Peer groups, proved for every fleet, catalogue of groups and limit: as  *)
(* long as no handler overlapped a refresh, what a handler or a refresh    *)
(* has read is still what the database holds, and then each commit keeps   *)
(* the registry, the suggestions and the cohorts in step.                  *)
(***************************************************************************)
EXTENDS PeerGroups, SequenceTheorems, TLAPS

-----------------------------------------------------------------------------
(* The inductive invariant *)

\* A handler that is about to commit has been counted in, and one that approves a
\* suggestion has it under its label.
WebHolds ==
    /\ web.op # "idle" => handlers < MaxHandlers
    /\ web.op = "approve" => web.label \in Labels /\ web.registry[web.label].kind = "auto"

Typed == TypeOK /\ WebHolds

\* The database, without races.  A cohort in use and a label an analyst assigned are
\* registered, and automatic groups have fingerprints of their own.
Registered ==
    /\ \A h \in Hosts : cohort[h] # Unassigned => registry[cohort[h]] # NoGroup
    /\ \A h \in Hosts : assigned[h] \in Labels => registry[assigned[h]] # NoGroup
    /\ \A k, l \in AutoLabels(registry) :
         registry[k].fingerprint = registry[l].fingerprint => k = l

\* The history tells the kind of each group and how it was assessed last.
Tracked ==
    \A l \in Labels : /\ registry[l].kind = "manual" => tracked[l] = "manual"
                      /\ registry[l].kind = "auto" => tracked[l] = registry[l].suitability

\* What has been suggested is neither rejected nor approved.
Undecided(list, rejected, reg) ==
    \A g \in list : g.fingerprint \notin rejected /\ LabelsOf(reg, g.fingerprint) = {}

\* A handler that is about to commit leaves an endpoint where the analyst put it last.
MembersStay ==
    \A h \in Hosts : assigned[h] \in Labels /\ registry[assigned[h]] = Manual =>
        Overwritten(cohort, web.hosts)[h] = assigned[h]

\* What a handler has read is what the database holds.
WebInStep ==
    /\ web.op \notin {"approve", "assign"} => web.hosts = NoWrites
    /\ web.op = "manual" =>
         /\ web.label \in Labels /\ registry[web.label] = NoGroup
         /\ web.registry = [registry EXCEPT ![web.label] = Manual]
    /\ web.op = "approve" =>
         /\ registry[web.label].kind # "manual"
         /\ \E g \in suggestions :
              /\ web.registry = [registry EXCEPT ![web.label] = Automatic(g)]
              /\ web.suggestions = Without(g.fingerprint)
         /\ \A h \in DOMAIN web.hosts : web.hosts[h] = web.label
    /\ web.op = "reject" =>
         \E g \in suggestions : /\ web.suggestions = Without(g.fingerprint)
                                /\ Rejected(web.rejections) \subseteq Rejected(rejections) \cup {g.fingerprint}
    /\ web.op = "assign" =>
         \A h \in DOMAIN web.hosts :
             web.hosts[h] # Unassigned => web.hosts[h] \in Labels /\ registry[web.hosts[h]] # NoGroup

\* What a refresh has read is what the database holds, but for the assessments it will
\* write, and it moves endpoints between automatic groups only.
RefreshInStep ==
    refresh.at # "idle" =>
        /\ refresh.rejected = Rejected(rejections)
        /\ \A l \in Labels :
             \/ refresh.registry[l] = registry[l]
             \/ /\ refresh.registry[l].kind = "auto" /\ registry[l].kind = "auto"
                /\ refresh.registry[l].fingerprint = registry[l].fingerprint
        /\ Undecided(refresh.suggestions, refresh.rejected, refresh.registry)
        /\ \A h \in DOMAIN refresh.writes :
             /\ cohort[h] \in {Unassigned} \cup AutoLabels(registry)
             /\ refresh.writes[h] \in {Unassigned} \cup AutoLabels(registry)

InStep ==
    /\ Registered /\ Tracked
    /\ Undecided(suggestions, Rejected(rejections), registry)
    /\ MembersStay
    /\ WebInStep /\ RefreshInStep

GroupInv == Typed /\ (~raced => InStep)

-----------------------------------------------------------------------------
(* Groups, writes and lists of rejections *)

LEMMA MarksAreNoLabels == Unassigned \notin Labels /\ "nobody" \notin Labels
  BY GroupAssumption DEF Unassigned

LEMMA GroupFields ==
    ASSUME NEW g \in Groups
    PROVE  /\ g \in GroupValues /\ g.fingerprint \in Fingerprints /\ g.members \subseteq Hosts
           /\ g.suitability \in Suitabilities /\ g.stable \in BOOLEAN
  BY GroupAssumption DEF GroupValues

\* A handler and a refresh register automatic groups as they were found.
LEMMA EntryOfGroup ==
    ASSUME NEW g \in Groups
    PROVE  /\ Automatic(g) \in Entries /\ Automatic(g).kind = "auto"
           /\ Automatic(g).fingerprint = g.fingerprint
           /\ Automatic(g).suitability = g.suitability
  BY GroupFields DEF Entries, Automatic

LEMMA ManualEntries ==
    /\ NoGroup \in Entries /\ NoGroup.kind = "none"
    /\ Manual \in Entries /\ Manual.kind = "manual"
  BY DEF Entries, NoGroup, Manual

LEMMA EntryKinds ==
    ASSUME NEW e \in Entries
    PROVE  /\ e.kind \in {"none", "manual", "auto"}
           /\ e.kind = "none" <=> e = NoGroup
           /\ e.kind = "manual" <=> e = Manual
           /\ e.kind = "auto" => e.suitability \in Suitabilities /\ e.fingerprint \in Fingerprints
  <1>1. CASE e = NoGroup \/ e = Manual
    BY <1>1 DEF NoGroup, Manual
  <1>2. CASE \E g \in GroupValues : e = Automatic(g)
    BY <1>2 DEF Automatic, GroupValues, NoGroup, Manual
  <1>3. QED  BY <1>1, <1>2 DEF Entries

\* What a transaction writes is a partial function on the endpoints.
LEMMA MakeWrites ==
    ASSUME NEW S \in SUBSET Hosts, NEW w \in [S -> Cohorts]
    PROVE  w \in HostWrites
  BY DEF HostWrites

LEMMA WritesShape ==
    ASSUME NEW w \in HostWrites
    PROVE  DOMAIN w \subseteq Hosts /\ w \in [DOMAIN w -> Cohorts]
  BY DEF HostWrites

LEMMA NoWritesType == NoWrites \in HostWrites /\ DOMAIN NoWrites = {}
  <1>1. NoWrites \in [{} -> Cohorts] /\ DOMAIN NoWrites = {}
    BY DEF NoWrites
  <1>2. QED  BY <1>1, MakeWrites

LEMMA OverwrittenType ==
    ASSUME NEW old \in [Hosts -> Cohorts], NEW w \in HostWrites
    PROVE  Overwritten(old, w) \in [Hosts -> Cohorts]
  BY WritesShape DEF Overwritten

\* The rejections are sequences of at most MaxRejections fingerprints.
LEMMA RejectionSequences ==
    \A list : list \in RejectionLists <=> list \in Seq(Fingerprints) /\ Len(list) <= MaxRejections
  <1>0. MaxRejections \in Nat
    BY GroupAssumption
  <1>1. ASSUME NEW list \in RejectionLists
        PROVE  list \in Seq(Fingerprints) /\ Len(list) <= MaxRejections
    <2>1. PICK k \in 0 .. MaxRejections : list \in [1 .. k -> Fingerprints]
      BY <1>1 DEF RejectionLists
    <2>2. list \in Seq(Fingerprints)
      BY <2>1, <1>0, SeqDef
    <2>3. Len(list) = k
      <3>1. DOMAIN list = 1 .. k /\ DOMAIN list = 1 .. Len(list) /\ Len(list) \in Nat
        BY <2>1, <2>2, LenProperties
      <3>2. QED  BY <3>1, <1>0
    <2>4. QED  BY <1>0, <2>2, <2>3
  <1>2. ASSUME NEW list \in Seq(Fingerprints), Len(list) <= MaxRejections
        PROVE  list \in RejectionLists
    <2>1. list \in [1 .. Len(list) -> Fingerprints] /\ Len(list) \in Nat
      BY LenProperties
    <2>2. Len(list) \in 0 .. MaxRejections
      BY <1>0, <1>2, <2>1
    <2>3. QED  BY <2>1, <2>2 DEF RejectionLists
  <1>3. QED  BY <1>1, <1>2

\* Another rejection is remembered, and at most the oldest one is forgotten.
LEMMA LastRejectionsFacts ==
    ASSUME NEW list \in RejectionLists, NEW fp \in Fingerprints
    PROVE  /\ LastRejections(list, fp) \in RejectionLists
           /\ Rejected(LastRejections(list, fp)) \subseteq Rejected(list) \cup {fp}
  <1> DEFINE all == AllRejections(list, fp)
  <1>0. MaxRejections \in Nat \ {0}
    BY GroupAssumption
  <1>1. list \in Seq(Fingerprints) /\ Len(list) <= MaxRejections /\ Len(list) \in Nat
    BY RejectionSequences, LenProperties
  <1>2. /\ all \in Seq(Fingerprints) /\ Len(all) \in Nat /\ Len(all) <= Len(list) + 1
        /\ \A i \in 1 .. Len(all) : all[i] \in Rejected(list) \cup {fp}
    <2>1. CASE fp \in Rejected(list)
      BY <1>1, <2>1, LenProperties DEF AllRejections, Rejected
    <2>2. CASE fp \notin Rejected(list)
      <3>1. all = Append(list, fp)
        BY <2>2 DEF AllRejections
      <3>2. all \in Seq(Fingerprints) /\ Len(all) = Len(list) + 1
        BY <1>1, <3>1
      <3>3. \A i \in 1 .. Len(list) : i \in DOMAIN list /\ all[i] = list[i]
        BY <1>1, <3>1, LenProperties
      <3>4. all[Len(list) + 1] = fp
        BY <1>1, <3>1
      <3>5. QED
        BY <1>1, <3>2, <3>3, <3>4 DEF Rejected
    <2>3. QED  BY <2>1, <2>2
  <1>3. CASE Len(all) <= MaxRejections
    <2>1. LastRejections(list, fp) = all
      BY <1>3 DEF LastRejections
    <2>2. QED
      BY <1>2, <1>3, <2>1, RejectionSequences, LenProperties DEF Rejected
  <1>4. CASE ~(Len(all) <= MaxRejections)
    <2>1. LastRejections(list, fp) = Tail(all)
      BY <1>4 DEF LastRejections
    <2>2. all # << >>
      BY <1>0, <1>2, <1>4, EmptySeq
    <2>3. /\ Tail(all) \in Seq(Fingerprints) /\ Len(Tail(all)) = Len(all) - 1
          /\ \A i \in 1 .. Len(Tail(all)) : Tail(all)[i] = all[i + 1]
      BY <1>2, <2>2, HeadTailProperties
    <2>4. Tail(all) \in RejectionLists
      <3>1. Len(all) - 1 <= MaxRejections
        BY <1>0, <1>1, <1>2
      <3>2. QED  BY <2>3, <3>1, RejectionSequences
    <2>5. \A i \in 1 .. Len(Tail(all)) : Tail(all)[i] \in Rejected(list) \cup {fp}
      BY <1>2, <2>3
    <2>6. DOMAIN Tail(all) = 1 .. Len(Tail(all))
      BY <2>3, LenProperties
    <2>7. QED
      BY <2>1, <2>4, <2>5, <2>6 DEF Rejected
  <1>5. QED  BY <1>3, <1>4

LEMMA NoRejections == << >> \in RejectionLists /\ Rejected(<< >>) = {}
  <1>1. << >> \in Seq(Fingerprints) /\ Len(<< >>) = 0
    BY EmptySeq
  <1>2. << >> \in RejectionLists
    <2>1. 0 <= MaxRejections
      BY GroupAssumption
    <2>2. QED  BY <1>1, <2>1, RejectionSequences
  <1>3. DOMAIN << >> = {}
    BY <1>1, LenProperties
  <1>4. Rejected(<< >>) = {}
    BY <1>3, Zenon DEF Rejected
  <1>5. QED  BY <1>2, <1>4

-----------------------------------------------------------------------------
(* Types *)

LEMMA IdleTypes ==
    /\ IdleWeb.op = "idle" /\ IdleWeb.hosts = NoWrites /\ IdleRefresh.at = "idle"
    /\ IdleWeb \in [op : {"idle"} \cup {"manual", "approve", "reject", "assign"},
                    registry : Registries, suggestions : SUBSET Groups,
                    rejections : RejectionLists, hosts : HostWrites, label : Cohorts]
    /\ IdleRefresh \in [at : {"idle", "discover", "groups"}, registry : Registries,
                        rejected : SUBSET Fingerprints, groups : SUBSET Groups,
                        suggestions : SUBSET Groups, writes : HostWrites, locked : SUBSET Hosts]
  <1>1. [l \in Labels |-> NoGroup] \in Registries
    BY ManualEntries DEF Registries
  <1>2. Unassigned \in Cohorts
    BY DEF Cohorts
  <1>3. QED
    BY <1>1, <1>2, NoWritesType, NoRejections DEF IdleWeb, IdleRefresh

LEMMA InitTypes == Init => Typed
  <1> SUFFICES ASSUME Init PROVE Typed
    OBVIOUS
  <1>1. registry \in Registries
    BY ManualEntries DEF Init, Registries
  <1>2. rejections \in RejectionLists
    BY NoRejections DEF Init
  <1>3. cohort \in [Hosts -> Cohorts] /\ assigned \in [Hosts -> Cohorts \cup Nobody]
    BY DEF Init, Cohorts, Nobody
  <1>4. WebTypeOK /\ RefreshTypeOK
    BY IdleTypes DEF Init, WebTypeOK, RefreshTypeOK
  <1>5. handlers \in 0 .. MaxHandlers
    BY GroupAssumption DEF Init
  <1>6. WebHolds
    BY IdleTypes DEF Init, WebHolds
  <1>7. QED  BY <1>1, <1>2, <1>3, <1>4, <1>5, <1>6 DEF Init, TypeOK, Typed

LEMMA WithoutSubset ==
    ASSUME NEW fp, suggestions \subseteq Groups
    PROVE  Without(fp) \subseteq Groups
  BY DEF Without

\* A handler that has read only sets web, and assigned where it assigns an endpoint.
LEMMA RequestTypes ==
    ASSUME TypeOK, WebRequest
    PROVE  TypeOK' /\ WebHolds'
  <1>1. ASSUME NEW l \in Labels, ManualRequest(l) PROVE TypeOK'
    <2>1. l \in Cohorts /\ [registry EXCEPT ![l] = Manual] \in Registries
      BY ManualEntries DEF Cohorts, TypeOK, Registries
    <2>2. WebTypeOK'
      BY <1>1, <2>1, IdleTypes DEF ManualRequest, WebTypeOK
    <2>3. QED
      BY <1>1, <2>2 DEF ManualRequest, TypeOK, RefreshTypeOK, databaseVars, historyVars
  <1>2. ASSUME NEW g \in Groups, NEW l \in Labels, ApproveRequest(g, l) PROVE TypeOK'
    <2> DEFINE taken == {h \in g.members : MayTake(h, cohort, AutoLabels(registry)) /\ cohort[h] # l}
    <2>1. l \in Cohorts /\ [registry EXCEPT ![l] = Automatic(g)] \in Registries
      BY EntryOfGroup DEF Cohorts, TypeOK, Registries
    <2>2. [h \in taken |-> l] \in HostWrites
      <3>1. taken \in SUBSET Hosts
        BY GroupFields
      <3>2. [h \in taken |-> l] \in [taken -> Cohorts]
        BY <2>1
      <3> HIDE DEF taken
      <3>3. QED  BY <3>1, <3>2, MakeWrites
    <2>3. Without(g.fingerprint) \subseteq Groups
      BY WithoutSubset DEF TypeOK
    <2>4. WebTypeOK'
      BY <1>2, <2>1, <2>2, <2>3, NoRejections DEF ApproveRequest, WebTypeOK
    <2>5. QED
      BY <1>2, <2>4 DEF ApproveRequest, TypeOK, RefreshTypeOK, databaseVars, historyVars
  <1>3. ASSUME NEW g \in Groups, RejectRequest(g) PROVE TypeOK'
    <2>1. LastRejections(rejections, g.fingerprint) \in RejectionLists
      BY LastRejectionsFacts, GroupFields DEF TypeOK
    <2>2. Without(g.fingerprint) \subseteq Groups
      BY WithoutSubset DEF TypeOK
    <2>3. WebTypeOK'
      BY <1>3, <2>1, <2>2, IdleTypes DEF RejectRequest, WebTypeOK
    <2>4. QED
      BY <1>3, <2>3 DEF RejectRequest, TypeOK, RefreshTypeOK, databaseVars, historyVars
  <1>4. ASSUME NEW h \in Hosts, NEW l \in Cohorts, AssignRequest(h, l) PROVE TypeOK'
    <2> DEFINE moved == {h} \ {y \in Hosts : cohort[y] = l}
    <2>1. [x \in moved |-> l] \in HostWrites
      <3>1. moved \in SUBSET Hosts /\ [x \in moved |-> l] \in [moved -> Cohorts]
        OBVIOUS
      <3> HIDE DEF moved
      <3>2. QED  BY <3>1, MakeWrites
    <2>2. WebTypeOK'
      BY <1>4, <2>1, IdleTypes DEF AssignRequest, WebTypeOK
    <2>3. assigned' \in [Hosts -> Cohorts \cup Nobody]
      BY <1>4 DEF AssignRequest, TypeOK
    <2>4. QED
      BY <1>4, <2>2, <2>3 DEF AssignRequest, TypeOK, RefreshTypeOK, databaseVars
  <1>5. WebHolds'
    <2>1. \A l \in Labels : ManualRequest(l) => WebHolds'
      BY DEF ManualRequest, MayHandle, WebHolds, IdleWeb
    <2>2. ASSUME NEW g \in Groups, NEW l \in Labels, ApproveRequest(g, l) PROVE WebHolds'
      <3>1. [registry EXCEPT ![l] = Automatic(g)][l].kind = "auto"
        BY EntryOfGroup DEF TypeOK, Registries
      <3>2. QED  BY <2>2, <3>1 DEF ApproveRequest, MayHandle, WebHolds
    <2>3. \A g \in Groups : RejectRequest(g) => WebHolds'
      BY DEF RejectRequest, MayHandle, WebHolds, IdleWeb
    <2>4. \A h \in Hosts, l \in Cohorts : AssignRequest(h, l) => WebHolds'
      BY DEF AssignRequest, MayHandle, WebHolds, IdleWeb
    <2>5. QED  BY <2>1, <2>2, <2>3, <2>4 DEF WebRequest
  <1>6. QED  BY <1>1, <1>2, <1>3, <1>4, <1>5 DEF WebRequest

LEMMA CommitTypes ==
    ASSUME TypeOK, WebHolds, WebCommit
    PROVE  TypeOK' /\ WebHolds'
  <1>1. registry' \in Registries /\ suggestions' \subseteq Groups /\ rejections' \in RejectionLists
    BY DEF WebCommit, TypeOK, WebTypeOK
  <1>2. cohort' \in [Hosts -> Cohorts]
    BY OverwrittenType DEF WebCommit, TypeOK, WebTypeOK
  <1>3. WebTypeOK' /\ RefreshTypeOK'
    BY IdleTypes DEF WebCommit, TypeOK, WebTypeOK, RefreshTypeOK
  <1>4. handlers' \in 0 .. MaxHandlers
    <2>1. handlers < MaxHandlers
      BY DEF WebCommit, WebHolds
    <2>2. QED  BY <2>1, GroupAssumption DEF WebCommit, TypeOK
  <1>5. raced' \in BOOLEAN
    BY DEF WebCommit, TypeOK
  <1>6. assigned' \in [Hosts -> Cohorts \cup Nobody]
    BY DEF WebCommit, TypeOK, Nobody
  <1>7. tracked' \in [Labels -> {"none", "manual"} \cup Suitabilities]
    <2>1. tracked \in [Labels -> {"none", "manual"} \cup Suitabilities]
      BY DEF TypeOK
    <2>2. CASE web.op = "approve"
      <3>1. web.label \in Labels /\ web.registry[web.label].kind = "auto"
        BY <2>2 DEF WebHolds
      <3>2. web.registry[web.label] \in Entries
        BY <3>1 DEF TypeOK, WebTypeOK, Registries
      <3>3. web.registry[web.label].suitability \in Suitabilities
        BY <3>1, <3>2, EntryKinds
      <3>4. QED  BY <2>1, <2>2, <3>3 DEF WebCommit
    <2>3. CASE web.op # "approve"
      BY <2>1, <2>3 DEF WebCommit
    <2>4. QED  BY <2>2, <2>3
  <1>8. WebHolds'
    BY IdleTypes DEF WebCommit, WebHolds
  <1>9. QED  BY <1>1, <1>2, <1>3, <1>4, <1>5, <1>6, <1>7, <1>8 DEF TypeOK

\* What a group does to the members of its label is a write of endpoints.
LEMMA MemberWritesType ==
    ASSUME TypeOK, NEW g \in Groups, NEW l \in Labels
    PROVE  MemberWrites(g, l) \in HostWrites
  <1> DEFINE joining == {h \in g.members : MayTake(h, Visible, AutoLabels(refresh.registry))}
             leaving == {h \in Hosts \ g.members : Visible[h] = l}
             S == {x \in joining : Visible[x] # l} \cup leaving
  <1>1. S \in SUBSET Hosts
    BY GroupFields
  <1>2. \A h : (IF h \in joining THEN l ELSE Unassigned) \in Cohorts
    BY DEF Cohorts
  <1>3. MemberWrites(g, l) = [h \in S |-> IF h \in joining THEN l ELSE Unassigned]
    BY DEF MemberWrites
  <1> HIDE DEF joining, leaving, S
  <1>4. [h \in S |-> IF h \in joining THEN l ELSE Unassigned] \in [S -> Cohorts]
    BY <1>2
  <1>5. QED  BY <1>1, <1>3, <1>4, MakeWrites

LEMMA MergedWrites ==
    ASSUME NEW old \in HostWrites, NEW new \in HostWrites
    PROVE  [h \in DOMAIN old \cup DOMAIN new |-> IF h \in DOMAIN new THEN new[h] ELSE old[h]]
             \in HostWrites
  <1> DEFINE S == DOMAIN old \cup DOMAIN new
  <1>1. S \in SUBSET Hosts
    BY WritesShape
  <1>2. \A h \in S : (IF h \in DOMAIN new THEN new[h] ELSE old[h]) \in Cohorts
    <2>1. \A h \in DOMAIN new : new[h] \in Cohorts
      BY WritesShape
    <2>2. \A h \in DOMAIN old : old[h] \in Cohorts
      BY WritesShape
    <2>3. QED  BY <2>1, <2>2
  <1> HIDE DEF S
  <1>3. [h \in S |-> IF h \in DOMAIN new THEN new[h] ELSE old[h]] \in [S -> Cohorts]
    BY <1>2
  <1>4. [h \in S |-> IF h \in DOMAIN new THEN new[h] ELSE old[h]] \in HostWrites
    BY <1>1, <1>3, MakeWrites
  <1>5. QED  BY <1>4 DEF S

LEMMA RefreshTypes ==
    ASSUME TypeOK, RefreshStep
    PROVE  TypeOK'
  <1>1. CASE RefreshBegin
    <2>1. Rejected(rejections) \subseteq Fingerprints
      BY DEF TypeOK, RejectionLists, Rejected
    <2>2. RefreshTypeOK'
      BY <1>1, <2>1, IdleTypes DEF RefreshBegin, TypeOK, RefreshTypeOK
    <2>3. QED
      BY <1>1, <2>2 DEF RefreshBegin, TypeOK, WebTypeOK, databaseVars
  <1>2. CASE Discover
    <2>1. RefreshTypeOK'
      BY <1>2 DEF Discover, Discoveries, TypeOK, RefreshTypeOK
    <2>2. QED
      BY <1>2, <2>1 DEF Discover, TypeOK, WebTypeOK, databaseVars, historyVars
  <1>3. CASE RefreshCommit
    <2>1. registry' \in Registries /\ suggestions' \subseteq Groups
      BY <1>3 DEF RefreshCommit, TypeOK, RefreshTypeOK
    <2>2. cohort' \in [Hosts -> Cohorts]
      BY <1>3, OverwrittenType DEF RefreshCommit, TypeOK, RefreshTypeOK
    <2>3. tracked' \in [Labels -> {"none", "manual"} \cup Suitabilities]
      <3>1. \A l \in Labels : refresh.registry[l] \in Entries
        BY DEF TypeOK, RefreshTypeOK, Registries
      <3>2. \A l \in Labels :
              refresh.registry[l].kind = "auto" => refresh.registry[l].suitability \in Suitabilities
        BY <3>1, EntryKinds
      <3>3. QED  BY <1>3, <3>2 DEF RefreshCommit, TypeOK
    <2>4. RefreshTypeOK'
      BY <1>3, IdleTypes DEF RefreshCommit, RefreshTypeOK
    <2>5. QED
      BY <1>3, <2>1, <2>2, <2>3, <2>4 DEF RefreshCommit, TypeOK, WebTypeOK
  <1>4. CASE RefreshFails
    <2>1. RefreshTypeOK'
      BY <1>4, IdleTypes DEF RefreshFails, RefreshTypeOK
    <2>2. QED
      BY <1>4, <2>1 DEF RefreshFails, TypeOK, WebTypeOK, databaseVars, historyVars
  <1>5. ASSUME NEW g \in Groups, RefreshGroup(g) PROVE TypeOK'
    <2> DEFINE Suggesting == [refresh EXCEPT !.groups = @ \ {g},
                                 !.suggestions = IF Presented(g) THEN @ \cup {g} ELSE @]
               Updating(l, new) == [refresh EXCEPT !.groups = @ \ {g},
                                      !.registry[l] = Automatic(g),
                                      !.locked = DOMAIN refresh.writes,
                                      !.writes = [h \in DOMAIN @ \cup DOMAIN new |->
                                                    IF h \in DOMAIN new THEN new[h] ELSE refresh.writes[h]]]
    <2>1. RefreshTypeOK'
      <3>1. CASE refresh' = Suggesting
        BY <3>1 DEF TypeOK, RefreshTypeOK
      <3>2. ASSUME NEW l \in Labels, NEW new \in HostWrites, refresh' = Updating(l, new)
            PROVE RefreshTypeOK'
        <4>1. [refresh.registry EXCEPT ![l] = Automatic(g)] \in Registries
          BY EntryOfGroup DEF TypeOK, RefreshTypeOK, Registries
        <4>2. DOMAIN refresh.writes \subseteq Hosts
          BY WritesShape DEF TypeOK, RefreshTypeOK
        <4>3. [h \in DOMAIN refresh.writes \cup DOMAIN new |->
                 IF h \in DOMAIN new THEN new[h] ELSE refresh.writes[h]] \in HostWrites
          BY MergedWrites DEF TypeOK, RefreshTypeOK
        <4>4. QED
          BY <3>2, <4>1, <4>2, <4>3 DEF TypeOK, RefreshTypeOK
      <3>3. LabelsOf(refresh.registry, g.fingerprint) \subseteq Labels
        BY DEF LabelsOf, AutoLabels
      <3>4. \/ refresh' = Suggesting
            \/ \E l \in LabelsOf(refresh.registry, g.fingerprint) :
                 refresh' = Updating(l, MemberWrites(g, l))
        BY <1>5, Zenon DEF RefreshGroup
      <3> HIDE DEF Suggesting, Updating
      <3>5. QED
        BY <3>1, <3>2, <3>3, <3>4, MemberWritesType
    <2>2. QED
      BY <1>5, <2>1 DEF RefreshGroup, TypeOK, WebTypeOK, databaseVars, historyVars
  <1>6. QED  BY <1>1, <1>2, <1>3, <1>4, <1>5 DEF RefreshStep

LEMMA NextTypes == Typed /\ [Next]_vars => Typed'
  <1> SUFFICES ASSUME TypeOK, WebHolds, [Next]_vars PROVE TypeOK' /\ WebHolds'
    BY DEF Typed
  <1>1. CASE WebRequest
    BY <1>1, RequestTypes
  <1>2. CASE WebCommit
    BY <1>2, CommitTypes
  <1>3. CASE RefreshStep
    <2>1. web' = web /\ handlers' = handlers
      BY <1>3 DEF RefreshStep, RefreshBegin, Discover, RefreshCommit, RefreshFails, RefreshGroup
    <2>2. QED  BY <1>3, <2>1, RefreshTypes DEF WebHolds
  <1>4. CASE UNCHANGED vars
    BY <1>4 DEF vars, databaseVars, historyVars, TypeOK, WebTypeOK, RefreshTypeOK, WebHolds
  <1>5. QED  BY <1>1, <1>2, <1>3, <1>4 DEF Next

\* The variables have their types in every behaviour: whatever handlers and refreshes
\* read and write, and however they overlap.
THEOREM GroupTypesCorrect == Spec => []TypeOK
  <1>1. Typed => TypeOK
    BY DEF Typed
  <1>2. QED  BY InitTypes, NextTypes, <1>1, PTL DEF Spec

-----------------------------------------------------------------------------
(* Without races: the handlers *)

LEMMA OverwrittenValue ==
    ASSUME NEW old, NEW w, NEW h \in Hosts
    PROVE  Overwritten(old, w)[h] = IF h \in DOMAIN w THEN w[h] ELSE old[h]
  BY DEF Overwritten

\* An approval under l: no other group has the fingerprint of what is suggested.
LEMMA NoLabelsOf ==
    ASSUME NEW reg, NEW fp
    PROVE  LabelsOf(reg, fp) = {} <=>
             \A l \in Labels : reg[l].kind = "auto" => reg[l].fingerprint # fp
  BY DEF LabelsOf, AutoLabels

LEMMA InitInStep == Init => InStep
  <1> SUFFICES ASSUME Init PROVE InStep
    OBVIOUS
  <1>1. Registered
    BY MarksAreNoLabels, ManualEntries DEF Init, Registered, AutoLabels
  <1>2. Tracked
    BY ManualEntries DEF Init, Tracked
  <1>3. Undecided(suggestions, Rejected(rejections), registry)
    BY DEF Init, Undecided
  <1>4. MembersStay
    BY MarksAreNoLabels DEF Init, MembersStay
  <1>5. WebInStep /\ RefreshInStep
    BY IdleTypes DEF Init, WebInStep, RefreshInStep
  <1>6. QED  BY <1>1, <1>2, <1>3, <1>4, <1>5 DEF InStep

\* While no handler is about to commit, an endpoint is where the analyst put it.
LEMMA MembersAreThere ==
    ASSUME InStep, web.op = "idle",
           NEW h \in Hosts, assigned[h] \in Labels, registry[assigned[h]] = Manual
    PROVE  cohort[h] = assigned[h]
  <1>1. DOMAIN web.hosts = {}
    BY NoWritesType DEF InStep, WebInStep
  <1>2. QED  BY <1>1, OverwrittenValue DEF InStep, MembersStay

\* A handler that reads touches neither the database nor the refresh.
LEMMA RequestReads ==
    ASSUME WebRequest
    PROVE  /\ UNCHANGED <<registry, suggestions, rejections, cohort, refresh, raced, tracked>>
           /\ web.op = "idle"
  BY DEF WebRequest, ManualRequest, ApproveRequest, RejectRequest, AssignRequest, MayHandle,
         databaseVars, historyVars

LEMMA AutoIsNotManual ==
    ASSUME TypeOK, NEW l \in Labels
    PROVE  /\ registry[l] \in Entries
           /\ l \in AutoLabels(registry) <=> registry[l].kind = "auto"
           /\ l \in AutoLabels(registry) => registry[l] # Manual /\ registry[l] # NoGroup
  BY ManualEntries DEF TypeOK, Registries, AutoLabels

LEMMA RequestKeepsWeb ==
    ASSUME TypeOK, InStep, WebRequest
    PROVE  WebInStep'
  <1> USE RequestReads
  <1>1. ASSUME NEW l \in Labels, ManualRequest(l) PROVE WebInStep'
    BY <1>1, IdleTypes DEF ManualRequest, WebInStep, IdleWeb
  <1>2. ASSUME NEW g \in Groups, NEW l \in Labels, ApproveRequest(g, l) PROVE WebInStep'
    <2>1. g \in suggestions
      BY <1>2 DEF ApproveRequest, Listed
    <2>2. QED
      BY <1>2, <2>1 DEF ApproveRequest, WebInStep, Without
  <1>3. ASSUME NEW g \in Groups, RejectRequest(g) PROVE WebInStep'
    <2>1. Rejected(LastRejections(rejections, g.fingerprint)) \subseteq Rejected(rejections) \cup {g.fingerprint}
      BY LastRejectionsFacts, GroupFields DEF TypeOK
    <2>2. QED
      BY <1>3, <2>1 DEF RejectRequest, WebInStep, IdleWeb, Without
  <1>4. ASSUME NEW h \in Hosts, NEW l \in Cohorts, AssignRequest(h, l) PROVE WebInStep'
    <2>1. l # Unassigned => l \in Labels /\ registry[l] # NoGroup
      <3>1. ASSUME l # Unassigned PROVE l \in Labels
        BY <3>1 DEF Cohorts
      <3>2. ASSUME l # Unassigned, registry[l] = NoGroup PROVE FALSE
        <4>1. Catalog(registry, cohort)[l] # NoGroup
          BY <1>4, <3>2 DEF AssignRequest
        <4>2. \E x \in Hosts : cohort[x] = l
          BY <3>1, <3>2, <4>1 DEF Catalog
        <4>3. QED  BY <3>2, <4>2 DEF InStep, Registered
      <3>3. QED  BY <3>1, <3>2
    <2>2. web'.op = "assign" /\ \A x \in DOMAIN web'.hosts : web'.hosts[x] = l
      BY <1>4 DEF AssignRequest, IdleWeb
    <2>3. QED  BY <2>1, <2>2 DEF WebInStep
  <1>5. QED  BY <1>1, <1>2, <1>3, <1>4 DEF WebRequest

\* What will be written leaves an endpoint where the analyst put it last.
LEMMA RequestKeepsMembers ==
    ASSUME TypeOK, InStep, WebRequest
    PROVE  MembersStay' /\ Registered'
  <1> USE RequestReads, MarksAreNoLabels
  <1>1. CASE assigned' = assigned /\ web'.hosts = NoWrites
    BY <1>1, MembersAreThere, NoWritesType, OverwrittenValue
    DEF MembersStay, InStep, Registered
  <1>2. ASSUME NEW g \in Groups, NEW l \in Labels, ApproveRequest(g, l)
        PROVE  MembersStay' /\ Registered'
    <2>1. assigned' = assigned
      BY <1>2 DEF ApproveRequest, historyVars
    <2>2. ASSUME NEW h \in Hosts, assigned[h] \in Labels, registry[assigned[h]] = Manual
          PROVE  h \notin DOMAIN web'.hosts /\ cohort[h] = assigned[h]
      <3>1. cohort[h] = assigned[h]
        BY <2>2, MembersAreThere
      <3>2. ~MayTake(h, cohort, AutoLabels(registry))
        BY <2>2, <3>1, AutoIsNotManual DEF MayTake
      <3>3. QED  BY <1>2, <3>1, <3>2 DEF ApproveRequest
    <2>3. MembersStay'
      BY <2>1, <2>2, OverwrittenValue DEF MembersStay
    <2>4. Registered'
      BY <2>1 DEF InStep, Registered
    <2>5. QED  BY <2>3, <2>4
  <1>3. ASSUME NEW h \in Hosts, NEW l \in Cohorts, AssignRequest(h, l)
        PROVE  MembersStay' /\ Registered'
    <2>1. assigned' = [assigned EXCEPT ![h] = l] /\ assigned \in [Hosts -> Cohorts \cup Nobody]
      BY <1>3 DEF AssignRequest, TypeOK
    <2>2. web'.hosts = [x \in {h} \ {y \in Hosts : cohort[y] = l} |-> l]
      BY <1>3 DEF AssignRequest, IdleWeb
    <2>3. l \in Labels => registry[l] # NoGroup
      <3>1. ASSUME l \in Labels, registry[l] = NoGroup PROVE FALSE
        <4>1. Catalog(registry, cohort)[l] # NoGroup
          BY <1>3, <3>1 DEF AssignRequest
        <4>2. \E x \in Hosts : cohort[x] = l
          BY <3>1, <4>1 DEF Catalog
        <4>3. QED  BY <3>1, <4>2 DEF InStep, Registered
      <3>2. QED  BY <3>1
    <2>4. Registered'
      BY <2>1, <2>3 DEF InStep, Registered
    <2>5. ASSUME NEW x \in Hosts, assigned'[x] \in Labels, registry[assigned'[x]] = Manual
          PROVE  Overwritten(cohort, web'.hosts)[x] = assigned'[x]
      <3>1. CASE x = h
        <4>1. assigned'[x] = l
          BY <2>1, <3>1
        <4>2. x \in DOMAIN web'.hosts => web'.hosts[x] = l
          BY <2>2
        <4>3. x \notin DOMAIN web'.hosts => cohort[x] = l
          BY <2>2, <3>1
        <4>4. QED  BY <4>1, <4>2, <4>3, OverwrittenValue
      <3>2. CASE x # h
        <4>1. assigned'[x] = assigned[x] /\ x \notin DOMAIN web'.hosts
          BY <2>1, <2>2, <3>2
        <4>2. QED  BY <2>5, <4>1, MembersAreThere, OverwrittenValue
      <3>3. QED  BY <3>1, <3>2
    <2>6. MembersStay'
      BY <2>5 DEF MembersStay
    <2>7. QED  BY <2>4, <2>6
  <1>4. ASSUME NEW l \in Labels, ManualRequest(l)
        PROVE  assigned' = assigned /\ web'.hosts = NoWrites
    BY <1>4 DEF ManualRequest, IdleWeb, historyVars
  <1>5. ASSUME NEW g \in Groups, RejectRequest(g)
        PROVE  assigned' = assigned /\ web'.hosts = NoWrites
    BY <1>5 DEF RejectRequest, IdleWeb, historyVars
  <1>6. QED  BY <1>1, <1>2, <1>3, <1>4, <1>5 DEF WebRequest

LEMMA RequestKeepsInStep ==
    ASSUME TypeOK, InStep, WebRequest
    PROVE  InStep'
  <1>1. Tracked' /\ Undecided(suggestions, Rejected(rejections), registry)' /\ RefreshInStep'
    BY RequestReads DEF InStep, Tracked, Undecided, LabelsOf, AutoLabels, Rejected, RefreshInStep
  <1>2. QED
    BY <1>1, RequestKeepsWeb, RequestKeepsMembers DEF InStep

\* A commit that no refresh overlaps.
LEMMA CommitRegisters ==
    ASSUME Typed, InStep, WebCommit
    PROVE  Registered' /\ Tracked'
  <1>1. TypeOK /\ WebHolds
    BY DEF Typed
  <1>2. /\ registry \in [Labels -> Entries] /\ cohort \in [Hosts -> Cohorts]
        /\ assigned \in [Hosts -> Cohorts \cup Nobody] /\ DOMAIN tracked = Labels
    BY <1>1 DEF TypeOK, Registries
  <1>3. \A h \in Hosts : cohort'[h] = IF h \in DOMAIN web.hosts THEN web.hosts[h] ELSE cohort[h]
    BY OverwrittenValue DEF WebCommit
  <1>4. CASE web.op = "manual"
    <2>1. /\ registry' = [registry EXCEPT ![web.label] = Manual] /\ web.label \in Labels
          /\ tracked' = [tracked EXCEPT ![web.label] = "manual"] /\ assigned' = assigned
      BY <1>4 DEF WebCommit, InStep, WebInStep
    <2>2. \A h \in Hosts : cohort'[h] = cohort[h]
      BY <1>3, <1>4, NoWritesType DEF InStep, WebInStep
    <2>3. \A l \in AutoLabels(registry') : l \in AutoLabels(registry) /\ registry'[l] = registry[l]
      BY <1>2, <2>1, ManualEntries DEF AutoLabels
    <2>4. \A l \in Labels : registry[l] # NoGroup => registry'[l] # NoGroup
      BY <1>2, <2>1, ManualEntries
    <2>5. Registered'
      <3>1. \A h \in Hosts : cohort'[h] # Unassigned => registry'[cohort'[h]] # NoGroup
        BY <1>2, <2>2, <2>4 DEF InStep, Registered, Cohorts
      <3>2. \A h \in Hosts : assigned'[h] \in Labels => registry'[assigned'[h]] # NoGroup
        BY <2>1, <2>4 DEF InStep, Registered
      <3>3. \A k, l \in AutoLabels(registry') :
              registry'[k].fingerprint = registry'[l].fingerprint => k = l
        BY <2>3 DEF InStep, Registered
      <3>4. QED  BY <3>1, <3>2, <3>3 DEF Registered
    <2>6. Tracked'
      BY <1>2, <2>1, ManualEntries DEF InStep, Tracked
    <2>7. QED  BY <2>5, <2>6
  <1>5. CASE web.op = "approve"
    <2>1. PICK g \in suggestions : web.registry = [registry EXCEPT ![web.label] = Automatic(g)]
      BY <1>5 DEF InStep, WebInStep
    <2>2. web.label \in Labels /\ g \in Groups
      BY <1>1, <1>5 DEF WebHolds, TypeOK
    <2>3. /\ registry' = [registry EXCEPT ![web.label] = Automatic(g)]
          /\ tracked' = [tracked EXCEPT ![web.label] = registry'[web.label].suitability]
      BY <1>5, <2>1 DEF WebCommit
    <2>4. registry'[web.label] = Automatic(g) /\ registry'[web.label] # NoGroup
      BY <1>2, <2>2, <2>3, EntryOfGroup, ManualEntries
    <2>5. \A l \in Labels : registry[l] # NoGroup => registry'[l] # NoGroup
      BY <1>2, <2>2, <2>3, <2>4
    <2>6. \A h \in Hosts : cohort'[h] # Unassigned => registry'[cohort'[h]] # NoGroup
      <3>1. \A h \in DOMAIN web.hosts : web.hosts[h] = web.label
        BY <1>5 DEF InStep, WebInStep
      <3>2. QED
        BY <1>2, <1>3, <2>4, <2>5, <3>1 DEF InStep, Registered, Cohorts
    <2>7. \A h \in Hosts : assigned'[h] \in Labels => registry'[assigned'[h]] # NoGroup
      BY <1>5, <2>5, MarksAreNoLabels DEF WebCommit, InStep, Registered
    <2>8. \A l \in Labels : registry[l].kind = "auto" => registry[l].fingerprint # g.fingerprint
      BY NoLabelsOf DEF InStep, Undecided
    <2>9. \A k, l \in AutoLabels(registry') :
            registry'[k].fingerprint = registry'[l].fingerprint => k = l
      BY <1>2, <2>2, <2>3, <2>4, <2>8, EntryOfGroup DEF InStep, Registered, AutoLabels
    <2>10. Tracked'
      BY <1>2, <2>2, <2>3, <2>4, EntryOfGroup DEF InStep, Tracked
    <2>11. QED  BY <2>6, <2>7, <2>9, <2>10 DEF Registered
  <1>6. CASE web.op \notin {"manual", "approve"}
    <2>1. registry' = registry /\ tracked' = tracked /\ assigned' = assigned
      BY <1>6 DEF WebCommit
    <2>2. \A h \in DOMAIN web.hosts :
            web.hosts[h] # Unassigned => web.hosts[h] \in Labels /\ registry[web.hosts[h]] # NoGroup
      BY <1>6, NoWritesType DEF InStep, WebInStep
    <2>3. QED
      BY <1>3, <2>1, <2>2 DEF InStep, Registered, Tracked, AutoLabels
  <1>7. QED  BY <1>4, <1>5, <1>6

LEMMA CommitDecides ==
    ASSUME Typed, InStep, WebCommit
    PROVE  Undecided(suggestions, Rejected(rejections), registry)'
  <1> DEFINE Free(reg, fp) == \A l \in Labels : reg[l].kind = "auto" => reg[l].fingerprint # fp
  <1>1. TypeOK /\ WebHolds
    BY DEF Typed
  <1>2. registry \in [Labels -> Entries]
    BY <1>1 DEF TypeOK, Registries
  <1>3. SUFFICES ASSUME NEW g \in suggestions'
                 PROVE  g.fingerprint \notin Rejected(rejections') /\ Free(registry', g.fingerprint)
    BY NoLabelsOf DEF Undecided
  <1>4. \A k \in suggestions : k.fingerprint \notin Rejected(rejections) /\ Free(registry, k.fingerprint)
    BY NoLabelsOf DEF InStep, Undecided
  <1>5. CASE web.op = "manual"
    <2>1. suggestions' = suggestions /\ rejections' = rejections
      BY <1>5 DEF WebCommit
    <2>2. registry' = [registry EXCEPT ![web.label] = Manual]
      BY <1>5 DEF WebCommit, InStep, WebInStep
    <2>3. QED
      BY <1>2, <1>4, <2>1, <2>2, ManualEntries
  <1>6. CASE web.op = "approve"
    <2>1. PICK k \in suggestions : /\ web.registry = [registry EXCEPT ![web.label] = Automatic(k)]
                                   /\ web.suggestions = Without(k.fingerprint)
      BY <1>6 DEF InStep, WebInStep
    <2>2. k \in Groups
      BY <1>1 DEF TypeOK
    <2>3. g \in suggestions /\ g.fingerprint # k.fingerprint
      BY <1>6, <2>1 DEF WebCommit, Without
    <2>4. rejections' = rejections /\ registry' = [registry EXCEPT ![web.label] = Automatic(k)]
      BY <1>6, <2>1 DEF WebCommit
    <2>5. QED
      BY <1>2, <1>4, <2>2, <2>3, <2>4, EntryOfGroup
  <1>7. CASE web.op = "reject"
    <2>1. PICK k \in suggestions :
            /\ web.suggestions = Without(k.fingerprint)
            /\ Rejected(web.rejections) \subseteq Rejected(rejections) \cup {k.fingerprint}
      BY <1>7 DEF InStep, WebInStep
    <2>2. g \in suggestions /\ g.fingerprint # k.fingerprint
      BY <1>7, <2>1 DEF WebCommit, Without
    <2>3. rejections' = web.rejections /\ registry' = registry
      BY <1>7 DEF WebCommit
    <2>4. QED  BY <1>4, <2>1, <2>2, <2>3
  <1>8. CASE web.op \notin {"manual", "approve", "reject"}
    BY <1>4, <1>8 DEF WebCommit
  <1>9. QED  BY <1>5, <1>6, <1>7, <1>8

LEMMA CommitKeepsMembers ==
    ASSUME Typed, InStep, WebCommit
    PROVE  MembersStay'
  <1>1. TypeOK /\ WebHolds
    BY DEF Typed
  <1>2. web'.hosts = NoWrites
    BY IdleTypes DEF WebCommit
  <1>3. SUFFICES ASSUME NEW h \in Hosts, assigned'[h] \in Labels, registry'[assigned'[h]] = Manual
                 PROVE  cohort'[h] = assigned'[h]
    BY <1>2, NoWritesType, OverwrittenValue DEF MembersStay
  <1>4. assigned'[h] = assigned[h] /\ (web.op = "approve" => h \notin DOMAIN web.hosts)
    BY <1>3, MarksAreNoLabels DEF WebCommit
  <1>5. registry[assigned[h]] = Manual
    <2>1. registry \in [Labels -> Entries] /\ registry[assigned[h]] # NoGroup
      BY <1>1, <1>3, <1>4 DEF TypeOK, Registries, InStep, Registered
    <2>2. CASE web.op = "manual"
      <3>1. registry' = [registry EXCEPT ![web.label] = Manual] /\ registry[web.label] = NoGroup
        BY <2>2 DEF WebCommit, InStep, WebInStep
      <3>2. QED  BY <1>3, <1>4, <2>1, <3>1
    <2>3. CASE web.op = "approve"
      <3>1. PICK g \in suggestions : web.registry = [registry EXCEPT ![web.label] = Automatic(g)]
        BY <2>3 DEF InStep, WebInStep
      <3>2. g \in Groups /\ registry' = [registry EXCEPT ![web.label] = Automatic(g)]
        BY <1>1, <2>3, <3>1 DEF TypeOK, WebCommit
      <3>3. Automatic(g) # Manual
        BY <3>2, EntryOfGroup, ManualEntries
      <3>4. QED  BY <1>3, <1>4, <2>1, <3>2, <3>3
    <2>4. CASE web.op \notin {"manual", "approve"}
      BY <1>3, <1>4, <2>4 DEF WebCommit
    <2>5. QED  BY <2>2, <2>3, <2>4
  <1>6. Overwritten(cohort, web.hosts)[h] = assigned[h]
    BY <1>3, <1>4, <1>5 DEF InStep, MembersStay
  <1>7. QED  BY <1>4, <1>6 DEF WebCommit

LEMMA CommitKeepsInStep ==
    ASSUME Typed, InStep, WebCommit, ~raced'
    PROVE  InStep'
  <1>1. refresh'.at = "idle" /\ web' = IdleWeb
    BY DEF WebCommit
  <1>2. WebInStep' /\ RefreshInStep'
    BY <1>1, IdleTypes DEF WebInStep, RefreshInStep
  <1>3. QED
    BY <1>2, CommitRegisters, CommitDecides, CommitKeepsMembers DEF InStep

-----------------------------------------------------------------------------
(* Without races: the refresh *)

\* The registry that a refresh will write has the groups of the one it read.
SameGroups(reg, old) ==
    \A l \in Labels :
        \/ reg[l] = old[l]
        \/ reg[l].kind = "auto" /\ old[l].kind = "auto" /\ reg[l].fingerprint = old[l].fingerprint

LEMMA SameGroupsFacts ==
    ASSUME NEW reg \in Registries, NEW old \in Registries, SameGroups(reg, old)
    PROVE  /\ AutoLabels(reg) = AutoLabels(old)
           /\ \A l \in AutoLabels(reg) : reg[l].fingerprint = old[l].fingerprint
           /\ \A fp : LabelsOf(reg, fp) = LabelsOf(old, fp)
           /\ \A l \in Labels : /\ reg[l] = NoGroup <=> old[l] = NoGroup
                                /\ reg[l] = Manual <=> old[l] = Manual
                                /\ reg[l].kind # "auto" => reg[l] = old[l]
  <1>1. \A l \in Labels : reg[l] \in Entries /\ old[l] \in Entries
    BY DEF Registries
  <1>2. \A l \in Labels : reg[l].kind = "auto" <=> old[l].kind = "auto"
    BY DEF SameGroups
  <1>3. \A l \in Labels : reg[l].kind # "auto" => reg[l] = old[l]
    BY DEF SameGroups
  <1>4. AutoLabels(reg) = AutoLabels(old)
    BY <1>2 DEF AutoLabels
  <1>5. \A l \in AutoLabels(reg) : reg[l].fingerprint = old[l].fingerprint
    BY DEF SameGroups, AutoLabels
  <1>6. \A fp : LabelsOf(reg, fp) = LabelsOf(old, fp)
    BY <1>4, <1>5 DEF LabelsOf
  <1>7. \A l \in Labels : /\ reg[l] = NoGroup <=> old[l] = NoGroup
                          /\ reg[l] = Manual <=> old[l] = Manual
                          /\ reg[l].kind # "auto" => reg[l] = old[l]
    BY <1>1, <1>2, <1>3, EntryKinds
  <1>8. QED  BY <1>4, <1>5, <1>6, <1>7, Zenon

\* Each part of a refresh leaves the handlers and, until it commits, the database alone.
LEMMA RefreshReads ==
    ASSUME RefreshBegin \/ Discover \/ RefreshFails \/ \E g \in Groups : RefreshGroup(g)
    PROVE  UNCHANGED <<registry, suggestions, rejections, cohort, web, assigned, tracked>>
  BY DEF RefreshBegin, Discover, RefreshFails, RefreshGroup, databaseVars, historyVars

LEMMA UnchangedInStep ==
    ASSUME InStep, UNCHANGED <<registry, suggestions, rejections, cohort, web, assigned, tracked>>
    PROVE  /\ Registered' /\ Tracked' /\ MembersStay' /\ WebInStep'
           /\ Undecided(suggestions, Rejected(rejections), registry)'
  <1>1. Registered' /\ Tracked'
    BY DEF InStep, Registered, AutoLabels, Tracked
  <1>2. MembersStay'
    BY DEF InStep, MembersStay, Overwritten
  <1>3. WebInStep'
    <2>1. WebInStep
      BY DEF InStep
    <2>2. web.op = "approve" =>
            \E g \in suggestions : /\ web.registry = [registry EXCEPT ![web.label] = Automatic(g)]
                                   /\ web.suggestions = Without(g.fingerprint)'
      BY <2>1 DEF WebInStep, Without
    <2>3. web.op = "reject" =>
            \E g \in suggestions :
                /\ web.suggestions = Without(g.fingerprint)'
                /\ Rejected(web.rejections) \subseteq Rejected(rejections) \cup {g.fingerprint}
      BY <2>1 DEF WebInStep, Without
    <2>4. QED
      BY <2>1, <2>2, <2>3 DEF WebInStep
  <1>4. Undecided(suggestions, Rejected(rejections), registry)'
    BY DEF InStep, Undecided, LabelsOf, AutoLabels, Rejected
  <1>5. QED  BY <1>1, <1>2, <1>3, <1>4

LEMMA BeginInStep ==
    ASSUME RefreshBegin
    PROVE  RefreshInStep'
  <1>1. /\ refresh'.at = "discover" /\ refresh'.registry = registry /\ refresh'.suggestions = {}
        /\ refresh'.rejected = Rejected(rejections) /\ refresh'.writes = NoWrites
    BY DEF RefreshBegin, IdleRefresh
  <1>2. UNCHANGED <<registry, rejections, cohort>>
    BY DEF RefreshBegin, databaseVars
  <1>3. QED
    BY <1>1, <1>2, NoWritesType DEF RefreshInStep, Undecided

LEMMA DiscoverInStep ==
    ASSUME TypeOK, RefreshInStep, Discover
    PROVE  RefreshInStep'
  <1>1. /\ refresh'.registry = refresh.registry /\ refresh'.suggestions = refresh.suggestions
        /\ refresh'.rejected = refresh.rejected /\ refresh'.writes = refresh.writes
        /\ refresh.at # "idle"
    BY DEF Discover, TypeOK, RefreshTypeOK
  <1>2. UNCHANGED <<registry, rejections, cohort>>
    BY DEF Discover, databaseVars
  <1>3. QED
    BY <1>1, <1>2 DEF RefreshInStep

\* A group moves endpoints from no group or an automatic one to none or its own.
LEMMA MemberWritesMove ==
    ASSUME TypeOK, RefreshInStep, refresh.at = "groups",
           NEW g \in Groups, NEW l \in AutoLabels(refresh.registry),
           NEW h \in DOMAIN MemberWrites(g, l)
    PROVE  /\ h \in Hosts
           /\ cohort[h] \in {Unassigned} \cup AutoLabels(registry)
           /\ MemberWrites(g, l)[h] \in {Unassigned} \cup AutoLabels(registry)
  <1> DEFINE joining == {x \in g.members : MayTake(x, Visible, AutoLabels(refresh.registry))}
             leaving == {x \in Hosts \ g.members : Visible[x] = l}
             S == {x \in joining : Visible[x] # l} \cup leaving
  <1>1. AutoLabels(refresh.registry) = AutoLabels(registry)
    BY SameGroupsFacts DEF TypeOK, RefreshTypeOK, RefreshInStep, SameGroups
  <1>2. MemberWrites(g, l) = [x \in S |-> IF x \in joining THEN l ELSE Unassigned]
    BY DEF MemberWrites
  <1>3. h \in S /\ h \in Hosts
    BY <1>2, GroupFields
  <1>4. MemberWrites(g, l)[h] \in {Unassigned, l}
    <2>1. MemberWrites(g, l)[h] = IF h \in joining THEN l ELSE Unassigned
      BY <1>2, <1>3, Zenon
    <2>2. QED  BY <2>1
  <1>5. Visible[h] \in {Unassigned} \cup AutoLabels(registry)
    <2>1. h \in joining \/ h \in leaving
      BY <1>3
    <2>2. QED  BY <1>1, <2>1 DEF MayTake
  <1>6. cohort[h] \in {Unassigned} \cup AutoLabels(registry)
    <2>1. CASE h \in DOMAIN refresh.writes
      BY <2>1 DEF RefreshInStep
    <2>2. CASE h \notin DOMAIN refresh.writes
      BY <1>3, <1>5, <2>2, OverwrittenValue DEF Visible
    <2>3. QED  BY <2>1, <2>2
  <1>7. QED  BY <1>1, <1>3, <1>4, <1>6

LEMMA GroupInStep ==
    ASSUME TypeOK, RefreshInStep, NEW g \in Groups, RefreshGroup(g)
    PROVE  RefreshInStep'
  <1> DEFINE Suggesting == [refresh EXCEPT !.groups = @ \ {g},
                               !.suggestions = IF Presented(g) THEN @ \cup {g} ELSE @]
             Updating(l, new) == [refresh EXCEPT !.groups = @ \ {g},
                                    !.registry[l] = Automatic(g),
                                    !.locked = DOMAIN refresh.writes,
                                    !.writes = [h \in DOMAIN @ \cup DOMAIN new |->
                                                  IF h \in DOMAIN new THEN new[h] ELSE refresh.writes[h]]]
  <1>1. UNCHANGED <<registry, rejections, cohort>> /\ refresh.at = "groups"
    BY DEF RefreshGroup, databaseVars
  <1>2. \/ LabelsOf(refresh.registry, g.fingerprint) = {} /\ refresh' = Suggesting
        \/ \E l \in LabelsOf(refresh.registry, g.fingerprint) :
             refresh' = Updating(l, MemberWrites(g, l))
    BY Zenon DEF RefreshGroup
  <1>3. /\ refresh.rejected = Rejected(rejections)
        /\ SameGroups(refresh.registry, registry)
        /\ Undecided(refresh.suggestions, refresh.rejected, refresh.registry)
        /\ \A h \in DOMAIN refresh.writes :
             /\ cohort[h] \in {Unassigned} \cup AutoLabels(registry)
             /\ refresh.writes[h] \in {Unassigned} \cup AutoLabels(registry)
    BY <1>1 DEF RefreshInStep, SameGroups
  <1>4. CASE LabelsOf(refresh.registry, g.fingerprint) = {} /\ refresh' = Suggesting
    <2>1. /\ refresh'.registry = refresh.registry /\ refresh'.rejected = refresh.rejected
          /\ refresh'.writes = refresh.writes
          /\ refresh'.suggestions \subseteq refresh.suggestions \cup {g}
          /\ g \in refresh'.suggestions => Presented(g) \/ g \in refresh.suggestions
      BY <1>4 DEF TypeOK, RefreshTypeOK
    <2>2. Undecided(refresh'.suggestions, refresh.rejected, refresh.registry)
      BY <1>3, <1>4, <2>1 DEF Undecided, Presented
    <2>3. QED
      BY <1>1, <1>3, <2>1, <2>2 DEF RefreshInStep, SameGroups
  <1>5. ASSUME NEW l \in LabelsOf(refresh.registry, g.fingerprint),
               refresh' = Updating(l, MemberWrites(g, l))
        PROVE  RefreshInStep'
    <2> DEFINE new == MemberWrites(g, l)
    <2>1. /\ l \in Labels /\ l \in AutoLabels(refresh.registry)
          /\ refresh.registry[l].kind = "auto" /\ refresh.registry[l].fingerprint = g.fingerprint
      BY DEF LabelsOf, AutoLabels
    <2>2. /\ refresh'.registry = [refresh.registry EXCEPT ![l] = Automatic(g)]
          /\ refresh'.rejected = refresh.rejected /\ refresh'.suggestions = refresh.suggestions
          /\ refresh'.writes = [h \in DOMAIN refresh.writes \cup DOMAIN new |->
                                  IF h \in DOMAIN new THEN new[h] ELSE refresh.writes[h]]
      BY <1>5 DEF TypeOK, RefreshTypeOK
    <2>3. /\ refresh.registry \in [Labels -> Entries] /\ refresh'.registry \in [Labels -> Entries]
          /\ \A k \in Labels : refresh'.registry[k] = IF k = l THEN Automatic(g) ELSE refresh.registry[k]
      BY <2>1, <2>2, EntryOfGroup DEF TypeOK, RefreshTypeOK, Registries
    <2>4. SameGroups(refresh'.registry, refresh.registry)
      BY <2>1, <2>3, EntryOfGroup DEF SameGroups
    <2>5. SameGroups(refresh'.registry, registry)
      BY <1>3, <2>4 DEF SameGroups
    <2>6. Undecided(refresh.suggestions, refresh.rejected, refresh'.registry)
      <3>1. refresh.registry \in Registries /\ refresh'.registry \in Registries
        BY <2>3 DEF Registries
      <3>2. \A fp : LabelsOf(refresh'.registry, fp) = LabelsOf(refresh.registry, fp)
        BY <2>4, <3>1, SameGroupsFacts
      <3>3. QED  BY <1>3, <3>2 DEF Undecided
    <2>7. ASSUME NEW h \in DOMAIN refresh'.writes
          PROVE  /\ cohort[h] \in {Unassigned} \cup AutoLabels(registry)
                 /\ refresh'.writes[h] \in {Unassigned} \cup AutoLabels(registry)
      <3>1. CASE h \in DOMAIN new
        <4>1. refresh'.writes[h] = new[h]
          BY <2>2, <3>1
        <4>2. QED  BY <1>1, <2>1, <3>1, <4>1, MemberWritesMove
      <3>2. CASE h \notin DOMAIN new
        <4>1. h \in DOMAIN refresh.writes /\ refresh'.writes[h] = refresh.writes[h]
          BY <2>2, <2>7, <3>2
        <4>2. QED  BY <1>3, <4>1
      <3>3. QED  BY <3>1, <3>2
    <2>8. QED
      BY <1>1, <1>3, <2>2, <2>5, <2>6, <2>7 DEF RefreshInStep, SameGroups
  <1>6. QED  BY <1>2, <1>4, <1>5

\* The commit of a refresh that no handler overlaps writes what it found of the database.
LEMMA RefreshCommitInStep ==
    ASSUME TypeOK, InStep, RefreshCommit, web.op = "idle"
    PROVE  InStep'
  <1>1. /\ registry' = refresh.registry /\ suggestions' = refresh.suggestions
        /\ UNCHANGED <<rejections, web, assigned>>
        /\ tracked' = [l \in Labels |-> IF refresh.registry[l].kind = "auto" /\ registry[l].kind = "auto"
                                        THEN refresh.registry[l].suitability ELSE tracked[l]]
    BY DEF RefreshCommit
  <1>2. \A h \in Hosts : cohort'[h] = IF h \in DOMAIN refresh.writes THEN refresh.writes[h] ELSE cohort[h]
    BY OverwrittenValue DEF RefreshCommit
  <1>3. /\ refresh.rejected = Rejected(rejections)
        /\ SameGroups(refresh.registry, registry)
        /\ Undecided(refresh.suggestions, refresh.rejected, refresh.registry)
        /\ \A h \in DOMAIN refresh.writes :
             /\ cohort[h] \in {Unassigned} \cup AutoLabels(registry)
             /\ refresh.writes[h] \in {Unassigned} \cup AutoLabels(registry)
    BY DEF RefreshCommit, InStep, RefreshInStep, SameGroups
  <1>4. refresh.registry \in Registries /\ registry \in Registries
    BY DEF TypeOK, RefreshTypeOK
  <1>5. /\ AutoLabels(registry') = AutoLabels(registry)
        /\ \A l \in AutoLabels(registry') : registry'[l].fingerprint = registry[l].fingerprint
        /\ \A l \in Labels : /\ registry'[l] = NoGroup <=> registry[l] = NoGroup
                             /\ registry'[l] = Manual <=> registry[l] = Manual
                             /\ registry'[l].kind # "auto" => registry'[l] = registry[l]
    BY <1>1, <1>3, <1>4, SameGroupsFacts
  <1>6. Registered'
    <2>1. ASSUME NEW h \in Hosts, cohort'[h] # Unassigned PROVE registry'[cohort'[h]] # NoGroup
      <3>1. CASE h \in DOMAIN refresh.writes
        <4>1. cohort'[h] \in AutoLabels(registry)
          BY <1>2, <1>3, <2>1, <3>1
        <4>2. QED  BY <1>5, <4>1, AutoIsNotManual DEF AutoLabels
      <3>2. CASE h \notin DOMAIN refresh.writes
        <4>1. cohort'[h] = cohort[h] /\ registry[cohort[h]] # NoGroup
          BY <1>2, <2>1, <3>2 DEF InStep, Registered
        <4>2. cohort[h] \in Labels
          BY <2>1, <4>1 DEF TypeOK, Cohorts
        <4>3. QED  BY <1>5, <4>1, <4>2
      <3>3. QED  BY <3>1, <3>2
    <2>2. \A h \in Hosts : assigned'[h] \in Labels => registry'[assigned'[h]] # NoGroup
      BY <1>1, <1>5 DEF InStep, Registered
    <2>3. \A k, l \in AutoLabels(registry') :
            registry'[k].fingerprint = registry'[l].fingerprint => k = l
      BY <1>5 DEF InStep, Registered
    <2>4. QED  BY <2>1, <2>2, <2>3 DEF Registered
  <1>7. Tracked'
    <2>1. \A l \in Labels : registry'[l].kind = "auto" <=> registry[l].kind = "auto"
      BY <1>5 DEF AutoLabels
    <2>2. QED
      BY <1>1, <1>5, <2>1 DEF InStep, Tracked
  <1>8. Undecided(suggestions, Rejected(rejections), registry)'
    BY <1>1, <1>3
  <1>9. MembersStay'
    <2>1. web'.hosts = NoWrites
      BY <1>1 DEF InStep, WebInStep
    <2>2. ASSUME NEW h \in Hosts, assigned'[h] \in Labels, registry'[assigned'[h]] = Manual
          PROVE  cohort'[h] = assigned'[h]
      <3>1. assigned[h] \in Labels /\ registry[assigned[h]] = Manual /\ assigned'[h] = assigned[h]
        BY <1>1, <1>5, <2>2
      <3>2. cohort[h] = assigned[h]
        BY <3>1, MembersAreThere
      <3>3. h \notin DOMAIN refresh.writes
        BY <1>3, <3>1, <3>2, AutoIsNotManual, MarksAreNoLabels
      <3>4. QED  BY <1>2, <3>1, <3>2, <3>3
    <2>3. QED
      BY <2>1, <2>2, NoWritesType, OverwrittenValue DEF MembersStay
  <1>10. WebInStep' /\ RefreshInStep'
    <2>1. web'.op = "idle" /\ web'.hosts = NoWrites /\ refresh'.at = "idle"
      BY <1>1, IdleTypes DEF RefreshCommit, InStep, WebInStep
    <2>2. QED  BY <2>1 DEF WebInStep, RefreshInStep
  <1>11. QED  BY <1>6, <1>7, <1>8, <1>9, <1>10 DEF InStep

LEMMA RefreshKeepsInStep ==
    ASSUME TypeOK, InStep, RefreshStep, ~raced'
    PROVE  InStep'
  <1>1. CASE RefreshCommit
    <2>1. web.op = "idle"
      BY <1>1 DEF RefreshCommit
    <2>2. QED  BY <1>1, <2>1, RefreshCommitInStep
  <1>2. CASE RefreshBegin
    BY <1>2, RefreshReads, UnchangedInStep, BeginInStep DEF InStep
  <1>3. CASE Discover
    BY <1>3, RefreshReads, UnchangedInStep, DiscoverInStep DEF InStep
  <1>4. CASE RefreshFails
    <2>1. RefreshInStep'
      BY <1>4, IdleTypes DEF RefreshFails, RefreshInStep
    <2>2. QED
      BY <1>4, <2>1, RefreshReads, UnchangedInStep DEF InStep
  <1>5. ASSUME NEW g \in Groups, RefreshGroup(g) PROVE InStep'
    <2>1. RefreshInStep'
      BY <1>5, GroupInStep DEF InStep
    <2>2. QED
      BY <1>5, <2>1, RefreshReads, UnchangedInStep DEF InStep
  <1>6. QED  BY <1>1, <1>2, <1>3, <1>4, <1>5 DEF RefreshStep

-----------------------------------------------------------------------------
(* The theorems *)

\* Once a handler and a refresh have overlapped, that is remembered.
LEMMA RacesAreKept ==
    ASSUME TypeOK, [Next]_vars, ~raced'
    PROVE  ~raced
  <1>1. \/ raced' = raced
        \/ raced' = (raced \/ refresh.at # "idle")
        \/ raced' = (raced \/ web.op # "idle")
    BY DEF Next, WebRequest, ManualRequest, ApproveRequest, RejectRequest, AssignRequest, WebCommit,
           RefreshStep, RefreshBegin, Discover, RefreshGroup, RefreshCommit, RefreshFails,
           vars, historyVars
  <1>2. QED  BY <1>1

LEMMA NextKeepsGroupInv == GroupInv /\ [Next]_vars => GroupInv'
  <1> SUFFICES ASSUME GroupInv, [Next]_vars PROVE GroupInv'
    OBVIOUS
  <1>1. Typed /\ TypeOK
    BY DEF GroupInv, Typed
  <1>2. Typed'
    BY <1>1, NextTypes
  <1>3. ASSUME ~raced' PROVE InStep'
    <2>1. InStep
      BY <1>1, <1>3, RacesAreKept DEF GroupInv
    <2>2. CASE WebRequest
      BY <1>1, <2>1, <2>2, RequestKeepsInStep
    <2>3. CASE WebCommit
      BY <1>1, <1>3, <2>1, <2>3, CommitKeepsInStep
    <2>4. CASE RefreshStep
      BY <1>1, <1>3, <2>1, <2>4, RefreshKeepsInStep
    <2>5. CASE UNCHANGED vars
      <3>1. RefreshInStep'
        BY <2>1, <2>5 DEF InStep, RefreshInStep, Undecided, LabelsOf, AutoLabels, Rejected,
                          vars, databaseVars, historyVars
      <3>2. QED
        BY <2>1, <2>5, <3>1, UnchangedInStep DEF InStep, vars, databaseVars, historyVars
    <2>6. QED  BY <2>2, <2>3, <2>4, <2>5 DEF Next
  <1>4. QED  BY <1>2, <1>3 DEF GroupInv

\* What a handler and a refresh have read stays true until they commit, unless they
\* overlap: the invariant the properties below rest on.
THEOREM GroupsInStep == Spec => []GroupInv
  <1>1. Init => GroupInv
    BY InitTypes, InitInStep DEF GroupInv
  <1>2. QED  BY <1>1, NextKeepsGroupInv, PTL DEF Spec

\* Every cohort in use is registered, and no two labels stand for one discovered group,
\* whatever was approved, renamed, assigned and refreshed.
THEOREM RegistryIsComplete == Spec => []RegistryComplete
  <1>1. GroupInv => RegistryComplete
    BY DEF GroupInv, InStep, Registered, RegistryComplete
  <1>2. QED  BY GroupsInStep, <1>1, PTL

\* Peers suppress findings only in groups of the analyst's and in those assessed as
\* recommended by the last approval or refresh.
THEOREM SuppressionIsGranted == Spec => []SuppressionGranted
  <1>1. GroupInv => SuppressionGranted
    <2> SUFFICES ASSUME GroupInv, ~raced, NEW l \in Labels, SuppressionAllowed(l)
                 PROVE  tracked[l] \in {"manual", "recommended"}
      BY DEF SuppressionGranted
    <2>1. Registered /\ Tracked /\ cohort \in [Hosts -> Cohorts]
      BY DEF GroupInv, InStep, Typed, TypeOK
    <2>2. Catalog(registry, cohort)[l] = registry[l]
      <3>1. \A h \in Hosts : cohort[h] = l => registry[l] # NoGroup
        BY <2>1, MarksAreNoLabels DEF Registered
      <3>2. QED  BY <3>1 DEF Catalog
    <2>3. QED
      BY <2>1, <2>2 DEF SuppressionAllowed, Tracked
  <1>2. QED  BY GroupsInStep, <1>1, PTL

\* A suggestion the analyst rejected does not come back while it is remembered, and what
\* he approved is not suggested again.
THEOREM RejectedSuggestionsStayAway == Spec => []RejectedStayAway
  <1>1. GroupInv => RejectedStayAway
    BY DEF GroupInv, InStep, Undecided, RejectedStayAway
  <1>2. QED  BY GroupsInStep, <1>1, PTL

\* No refresh, approval or assignment of others takes an endpoint out of the manual group
\* an analyst put it into.
THEOREM ManualMembersAreKept == Spec => []ManualMembersKept
  <1>1. GroupInv => ManualMembersKept
    BY MembersAreThere DEF GroupInv, ManualMembersKept
  <1>2. QED  BY GroupsInStep, <1>1, PTL
=============================================================================
