----------------------------- MODULE PeerGroups -----------------------------
(***************************************************************************)
(* Peer groups (deepsnout/peer_groups.py): the worker's refresh discovers  *)
(* groups of similar endpoints, suggests the new ones and updates the      *)
(* members of those an analyst has approved; meanwhile analysts approve    *)
(* and reject suggestions, create groups by hand and assign endpoints in   *)
(* the web process (deepsnout/web.py).                                     *)
(*                                                                         *)
(* The refresh is one transaction that takes minutes.  It reads the        *)
(* registry and the rejections before the discovery and writes the whole   *)
(* registry after it; the transactions are READ COMMITTED and the State    *)
(* rows are overwritten as a whole, so what a handler commits in between   *)
(* may be lost.  A handler reads and commits too, but the web process runs *)
(* one handler at a time.  What the discovery finds in the summaries is    *)
(* left open: any groups of the given catalogue that may occur together.   *)
(* An endpoint stands for all those with the same summaries.  One          *)
(* namespace is modelled; namespaces do not share endpoints.               *)
(***************************************************************************)
EXTENDS Integers, Sequences

CONSTANTS
    Hosts,          \* the endpoints of the namespace
    Labels,         \* the labels an analyst gives to groups
    Fingerprints,   \* the identities of discovered groups
    Groups,         \* bound: what a discovery may find
    Operations,     \* bound: what the analysts do in a behaviour
    MaxRejections,  \* MAX_REJECTIONS
    MaxHandlers     \* bound: web handlers that commit

Suitabilities == {"recommended", "technical"}

\* A discovered group; stable: maturity is "stable" and no current day is included.
GroupValues == [fingerprint : Fingerprints, members : SUBSET Hosts,
                suitability : Suitabilities, stable : BOOLEAN]

ASSUME GroupAssumption ==
    /\ Groups \subseteq GroupValues
    /\ Operations \subseteq {"manual", "approve", "reject", "assign"}
    /\ MaxRejections \in Nat \ {0} /\ MaxHandlers \in Nat
    /\ {"unassigned", "nobody"} \cap Labels = {}     \* the latter is a mark of the history

VARIABLES
    registry,       \* peer_group_registry: the group behind each label
    suggestions,    \* peer_group_suggestions
    rejections,     \* peer_group_rejections: the fingerprints, the oldest first
    cohort,         \* the cohort column of each endpoint
    web,            \* what the handler that has read is going to write
    refresh,        \* the refresh: where it is, what it read and will write
    handlers,       \* counter of the bound
    raced,          \* history: a refresh and a handler have overlapped
    assigned,       \* history: the group an analyst assigned an endpoint to last
    tracked         \* history: what the analyst, or a refresh after him, said of a label

databaseVars == <<registry, suggestions, rejections, cohort>>
historyVars == <<raced, assigned, tracked>>
vars == <<databaseVars, web, refresh, handlers, historyVars>>

-----------------------------------------------------------------------------
(* Values *)

Unassigned == "unassigned"
Cohorts == Labels \cup {Unassigned}
Nobody == {"nobody"}

NoGroup == [kind |-> "none"]
Manual == [kind |-> "manual"]
Automatic(g) == [kind |-> "auto", fingerprint |-> g.fingerprint,
                 suitability |-> g.suitability, stable |-> g.stable]
Entries == {NoGroup, Manual} \cup {Automatic(g) : g \in GroupValues}
Registries == [Labels -> Entries]

\* The endpoints whose cohort a transaction writes, and what it writes.
HostWrites == UNION {[S -> Cohorts] : S \in SUBSET Hosts}
NoWrites == [h \in {} |-> Unassigned]
Overwritten(old, writes) ==
    [h \in Hosts |-> IF h \in DOMAIN writes THEN writes[h] ELSE old[h]]

Rejected(list) == {list[i] : i \in DOMAIN list}
RejectionLists == UNION {[1 .. k -> Fingerprints] : k \in 0 .. MaxRejections}

AutoLabels(reg) == {l \in Labels : reg[l].kind = "auto"}

\* The label a fingerprint is approved under.
LabelsOf(reg, fp) == {l \in AutoLabels(reg) : reg[l].fingerprint = fp}

IdleWeb == [op |-> "idle", registry |-> [l \in Labels |-> NoGroup], suggestions |-> {},
            rejections |-> << >>, hosts |-> NoWrites, label |-> Unassigned]
IdleRefresh == [at |-> "idle", registry |-> [l \in Labels |-> NoGroup], rejected |-> {},
                groups |-> {}, suggestions |-> {}, writes |-> NoWrites, locked |-> {}]

-----------------------------------------------------------------------------
(* What the detectors ask *)

\* peer_group_catalog: a cohort that is in use and not in the registry is taken for a
\* manual group.
Catalog(reg, coh) ==
    [l \in Labels |-> IF reg[l] = NoGroup /\ \E h \in Hosts : coh[h] = l THEN Manual ELSE reg[l]]

\* peer_group_suppression_allowed.  (Faulty: the suitability is not looked at.)
AllowedForAnyStable(l) ==
    LET group == Catalog(registry, cohort)[l] IN
    \/ group.kind = "manual"
    \/ group.kind = "auto" /\ group.stable
SuppressionAllowed(l) ==
    LET group == Catalog(registry, cohort)[l] IN
    \/ group.kind = "manual"
    \/ group.kind = "auto" /\ group.suitability = "recommended" /\ group.stable

-----------------------------------------------------------------------------
(* The web handlers: what each of them reads and will write *)

MayHandle(op) == op \in Operations /\ web.op = "idle" /\ handlers < MaxHandlers

\* create_manual_group.
ManualRequest(l) ==
    /\ MayHandle("manual")
    /\ registry[l] = NoGroup
    /\ web' = [IdleWeb EXCEPT !.op = "manual", !.label = l,
                              !.registry = [registry EXCEPT ![l] = Manual]]
    /\ UNCHANGED <<databaseVars, refresh, handlers, historyVars>>

\* The endpoints that a group may take: those in no group or in an automatic one.
\* (Faulty: whatever group they are in.)
TakeAny(h, coh, autoLabels) == TRUE
MayTake(h, coh, autoLabels) == coh[h] = Unassigned \/ coh[h] \in autoLabels

\* A suggestion is looked up by its fingerprint, and the recommended ones come first in
\* the list; it is removed by its fingerprint too.  (Faulty: it stays.)
Listed(g) == /\ g \in suggestions
             /\ g.suitability = "technical" =>
                  ~ \E k \in suggestions : k.fingerprint = g.fingerprint /\ k.suitability = "recommended"
StillThere(fp) == suggestions
Without(fp) == {k \in suggestions : k.fingerprint # fp}

\* approve_suggestion: the label is new, or that of an automatic group, which it then
\* stands for no longer.
ApproveRequest(g, l) ==
    /\ MayHandle("approve")
    /\ Listed(g)
    /\ registry[l].kind # "manual"
    /\ (\E h \in Hosts : cohort[h] = l) => registry[l] # NoGroup
    /\ LET taken == {h \in g.members : MayTake(h, cohort, AutoLabels(registry)) /\ cohort[h] # l} IN
       web' = [op |-> "approve", label |-> l,
               registry |-> [registry EXCEPT ![l] = Automatic(g)],
               suggestions |-> Without(g.fingerprint),
               rejections |-> << >>,
               hosts |-> [h \in taken |-> l]]
    /\ UNCHANGED <<databaseVars, refresh, handlers, historyVars>>

\* The rejections are a list without repetition of which the last ones are kept.
\* (Faulty: all are kept.)
AllRejections(list, fp) == IF fp \in Rejected(list) THEN list ELSE Append(list, fp)
LastRejections(list, fp) ==
    LET all == AllRejections(list, fp) IN
    IF Len(all) <= MaxRejections THEN all ELSE Tail(all)

\* reject_suggestion.
RejectRequest(g) ==
    /\ MayHandle("reject")
    /\ g \in suggestions
    /\ web' = [IdleWeb EXCEPT !.op = "reject",
                              !.suggestions = Without(g.fingerprint),
                              !.rejections = LastRejections(rejections, g.fingerprint)]
    /\ UNCHANGED <<databaseVars, refresh, handlers, historyVars>>

\* assign_host_group: to a group of the catalogue, or to none.
AssignRequest(h, l) ==
    /\ MayHandle("assign")
    /\ l # Unassigned => Catalog(registry, cohort)[l] # NoGroup
    /\ web' = [IdleWeb EXCEPT !.op = "assign", !.label = l,
                              !.hosts = [x \in {h} \ {y \in Hosts : cohort[y] = l} |-> l]]
    /\ assigned' = [assigned EXCEPT ![h] = l]
    /\ UNCHANGED <<databaseVars, refresh, handlers, raced, tracked>>

\* The commit of a handler.  It waits for the endpoints that the refresh has written.
WebCommit ==
    /\ web.op # "idle"
    /\ DOMAIN web.hosts \cap refresh.locked = {}
    /\ registry' = IF web.op \in {"manual", "approve"} THEN web.registry ELSE registry
    /\ suggestions' = IF web.op \in {"approve", "reject"} THEN web.suggestions ELSE suggestions
    /\ rejections' = IF web.op = "reject" THEN web.rejections ELSE rejections
    /\ cohort' = Overwritten(cohort, web.hosts)
    /\ assigned' = IF web.op = "approve"
                   THEN [h \in Hosts |-> IF h \in DOMAIN web.hosts THEN "nobody" ELSE assigned[h]]
                   ELSE assigned
    /\ tracked' = CASE web.op = "manual" -> [tracked EXCEPT ![web.label] = "manual"]
                    [] web.op = "approve" ->
                         [tracked EXCEPT ![web.label] = web.registry[web.label].suitability]
                    [] OTHER -> tracked
    /\ raced' = (raced \/ refresh.at # "idle")
    /\ web' = IdleWeb
    /\ handlers' = handlers + 1
    /\ UNCHANGED refresh

-----------------------------------------------------------------------------
(* refresh_peer_groups, inside the last transaction of run_job *)

\* The first reads, before the discovery.
RefreshBegin ==
    /\ refresh.at = "idle"
    /\ refresh' = [IdleRefresh EXCEPT !.at = "discover", !.registry = registry,
                                      !.rejected = Rejected(rejections)]
    /\ raced' = (raced \/ web.op # "idle")
    /\ UNCHANGED <<databaseVars, web, handlers, assigned, tracked>>

\* Groups of a kind are connected components of a graph, so they are disjoint; a technical
\* cluster inside a recommended group is dropped.  Two groups may well have the same
\* strongest features, and then the same fingerprint.
Discoveries == {S \in SUBSET Groups :
                  \A g, k \in S : g # k =>
                    /\ g.suitability = k.suitability => g.members \cap k.members = {}
                    /\ g.suitability = "technical" /\ k.suitability = "recommended" =>
                         ~(g.members \subseteq k.members)}

Discover ==
    /\ refresh.at = "discover"
    /\ \E found \in Discoveries : refresh' = [refresh EXCEPT !.at = "groups", !.groups = found]
    /\ UNCHANGED <<databaseVars, web, handlers, historyVars>>

\* What the transaction sees: its own writes over what is committed.
Visible == Overwritten(cohort, refresh.writes)

\* What a group that is approved as l does to the members of l.
MemberWrites(g, l) ==
    LET joining == {h \in g.members : MayTake(h, Visible, AutoLabels(refresh.registry))}
        leaving == {h \in Hosts \ g.members : Visible[h] = l}
    IN  [h \in {x \in joining : Visible[x] # l} \cup leaving |-> IF h \in joining THEN l ELSE Unassigned]

\* The suggestions that are presented.  (Faulty: the rejections are forgotten.)
PresentAnyway(g) == TRUE
Presented(g) == g.fingerprint \notin refresh.rejected

\* One group of the loop, the recommended ones first: one that is approved gets its
\* members and its assessment updated, any other is suggested unless it was rejected.
\* The endpoints written for the groups before it are flushed by its query.
RefreshGroup(g) ==
    /\ refresh.at = "groups"
    /\ g \in refresh.groups
    /\ g.suitability = "technical" => \A k \in refresh.groups : k.suitability = "technical"
    /\ LET approved == LabelsOf(refresh.registry, g.fingerprint) IN
       \/ /\ approved = {}
          /\ refresh' = [refresh EXCEPT !.groups = @ \ {g},
                            !.suggestions = IF Presented(g) THEN @ \cup {g} ELSE @]
       \/ \E l \in approved :
            refresh' = [refresh EXCEPT !.groups = @ \ {g},
                           !.registry[l] = Automatic(g),
                           !.locked = DOMAIN refresh.writes,
                           !.writes = LET new == MemberWrites(g, l) IN
                                      [h \in DOMAIN @ \cup DOMAIN new |->
                                         IF h \in DOMAIN new THEN new[h] ELSE refresh.writes[h]]]
    /\ UNCHANGED <<databaseVars, web, handlers, historyVars>>

\* The registry and the suggestions are written, and the transaction commits.
RefreshCommit ==
    /\ refresh.at = "groups" /\ refresh.groups = {}
    /\ registry' = refresh.registry
    /\ suggestions' = refresh.suggestions
    /\ cohort' = Overwritten(cohort, refresh.writes)
    /\ tracked' = [l \in Labels |-> IF refresh.registry[l].kind = "auto" /\ registry[l].kind = "auto"
                                    THEN refresh.registry[l].suitability ELSE tracked[l]]
    /\ refresh' = IdleRefresh
    /\ raced' = (raced \/ web.op # "idle")
    /\ UNCHANGED <<rejections, web, handlers, assigned>>

\* The job is cancelled or fails, or the worker dies: everything is rolled back.
RefreshFails ==
    /\ refresh.at # "idle"
    /\ refresh' = IdleRefresh
    /\ UNCHANGED <<databaseVars, web, handlers, historyVars>>

-----------------------------------------------------------------------------
(* The specification *)

Init ==
    /\ registry = [l \in Labels |-> NoGroup]
    /\ suggestions = {} /\ rejections = << >>
    /\ cohort = [h \in Hosts |-> Unassigned]
    /\ web = IdleWeb /\ refresh = IdleRefresh /\ handlers = 0
    /\ raced = FALSE
    /\ assigned = [h \in Hosts |-> "nobody"]
    /\ tracked = [l \in Labels |-> "none"]

WebRequest ==
    \/ \E l \in Labels : ManualRequest(l)
    \/ \E g \in Groups : \/ RejectRequest(g)
                         \/ \E l \in Labels : ApproveRequest(g, l)
    \/ \E h \in Hosts, l \in Cohorts : AssignRequest(h, l)

RefreshStep == \/ RefreshBegin \/ Discover \/ RefreshCommit \/ RefreshFails
               \/ \E g \in Groups : RefreshGroup(g)

Next == WebRequest \/ WebCommit \/ RefreshStep

Spec == Init /\ [][Next]_vars

-----------------------------------------------------------------------------
(* Properties *)

WebTypeOK ==
    web \in [op : {"idle"} \cup {"manual", "approve", "reject", "assign"},
             registry : Registries, suggestions : SUBSET Groups, rejections : RejectionLists,
             hosts : HostWrites, label : Cohorts]

RefreshTypeOK ==
    refresh \in [at : {"idle", "discover", "groups"}, registry : Registries,
                 rejected : SUBSET Fingerprints, groups : SUBSET Groups,
                 suggestions : SUBSET Groups, writes : HostWrites, locked : SUBSET Hosts]

TypeOK ==
    /\ registry \in Registries
    /\ suggestions \subseteq Groups
    /\ rejections \in RejectionLists
    /\ cohort \in [Hosts -> Cohorts]
    /\ WebTypeOK /\ RefreshTypeOK
    /\ handlers \in 0 .. MaxHandlers
    /\ raced \in BOOLEAN
    /\ assigned \in [Hosts -> Cohorts \cup Nobody]
    /\ tracked \in [Labels -> {"none", "manual"} \cup Suitabilities]

\* As long as no handler overlapped a refresh: an endpoint is in a group the registry
\* knows, and each automatic group has a fingerprint of its own.
RegistryComplete ==
    ~raced => /\ \A h \in Hosts : cohort[h] # Unassigned => registry[cohort[h]] # NoGroup
              /\ \A k, l \in AutoLabels(registry) :
                   registry[k].fingerprint = registry[l].fingerprint => k = l

\* As long as no handler overlapped a refresh: peers suppress findings only in a group
\* that was created by hand or that was recommended the last time it was assessed, after
\* however many approvals, renamings and refreshes.
SuppressionGranted ==
    ~raced => \A l \in Labels : SuppressionAllowed(l) => tracked[l] \in {"manual", "recommended"}

\* As long as no handler overlapped a refresh: a suggestion that was rejected, and is
\* still remembered, is not presented, and neither is one that is approved.
RejectedStayAway ==
    ~raced => \A g \in suggestions : /\ g.fingerprint \notin Rejected(rejections)
                                     /\ LabelsOf(registry, g.fingerprint) = {}

\* As long as no handler overlapped a refresh: an endpoint that an analyst put into a
\* manual group stays there until he assigns it again.
ManualMembersKept ==
    ~raced /\ web.op = "idle" =>
        \A h \in Hosts : assigned[h] \in Labels /\ registry[assigned[h]] = Manual =>
            cohort[h] = assigned[h]

\* A technical cluster never suppresses a finding, approved or not.
TechnicalNeverSuppresses ==
    \A l \in Labels : tracked[l] = "technical" => ~SuppressionAllowed(l)
=============================================================================
