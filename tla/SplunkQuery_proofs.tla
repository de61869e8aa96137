-------------------------- MODULE SplunkQuery_proofs --------------------------
(***************************************************************************)
(* What a search returns, proved for every slice, every setting and every  *)
(* page size.  The lemmas about single rows say what the adapters and the  *)
(* optimized search decide; the inductive invariant says that the tallies  *)
(* are those of the rows fetched so far.                                   *)
(***************************************************************************)
EXTENDS SplunkQuery, FiniteSetTheorems, TLAPS

-----------------------------------------------------------------------------
(* Single rows *)

\* A number that no field states comes from the adapter, with the fields it asks for.
LEMMA InferredNumber ==
    ASSUME NEW r, NEW f, Fills(r) \/ Number(r) \notin {r.eventid, r.eventcode}, Verdict(r, f) = "event"
    PROVE  /\ Number(r) \in Supported /\ Number(r) = Hint(r)
           /\ r.raw = "json" /\ Signature(r, Hint(r))
  <1>1. Number(r) # None /\ Number(r) \in Supported
    BY DEF Verdict
  <1>2. Fills(r)
    BY DEF Number
  <1>3. Number(r) = Inferred(r)
    BY <1>2 DEF Number
  <1>4. QED  BY <1>1, <1>3 DEF Inferred, Adapted

\* The fields of a signature are fields of one event only.
LEMMA SignatureTells ==
    ASSUME NEW r, RowShape(r), Genuine(r), NEW n \in Supported, Signature(r, n)
    PROVE  r.truth = n
  <1>1. Telling[n] \cap r.present # {}
    BY DEF Signature, Telling, Supported
  <1>2. Telling[n] \cap r.keys # {}
    BY <1>1 DEF RowShape
  <1>3. QED  BY <1>2 DEF Genuine

\* An inferred number is the number of the event the row was written for.
LEMMA InferredNumberIsTrue ==
    ASSUME NEW r, NEW f, RowShape(r), Genuine(r), Verdict(r, f) = "event",
           Number(r) \notin {r.eventid, r.eventcode}
    PROVE  Number(r) = r.truth
  BY InferredNumber, SignatureTells

\* The optimized search keeps an event when it sees its number in the field the code reads
\* it from, whatever the other fields are.
LEMMA LegibleIsKept ==
    ASSUME NEW r, NEW f, RowShape(r), Verdict(r, f) = "event", Legible(r)
    PROVE  SearchKeeps(r)
  <1>1. Number(r) \in Supported
    BY DEF Verdict
  <1>2. CASE Fills(r) /\ r.id = None
    <2>1. r.task \in Supported
      BY <1>2, InferredNumber DEF Hint
    <2>2. r.seen.Task = r.task
      BY <1>2 DEF Legible, Origin
    <2>3. QED  BY <2>1, <2>2 DEF SearchKeeps, Legible
  <1>3. CASE Fills(r) /\ r.id # None
    <2>1. Origin(r) = "ID"
      BY <1>3 DEF Origin
    <2>2. r.seen.ID = r.id /\ r.id \notin Numerals
      BY <2>1 DEF Legible
    <2>3. r.id \in Words
      BY <1>3, <2>2 DEF RowShape
    <2>4. SymbolicNumber[r.id] \in Supported
      BY <1>3, <2>2, InferredNumber DEF Hint
    <2>5. r.id \in {"PROCESS_CREATE", "NETWORK_CONNECT", "DNS_QUERY"}
      BY <2>3, <2>4 DEF SymbolicNumber, Supported, None
    <2>6. QED  BY <2>2, <2>5 DEF SearchKeeps, Legible
  <1>4. CASE ~Fills(r) /\ r.eventid # None
    <2>1. r.seen.EventID = r.eventid
      BY <1>4 DEF Legible, Origin
    <2>2. r.eventid \in Supported
      BY <1>1, <1>4 DEF Number
    <2>3. QED  BY <2>1, <2>2 DEF SearchKeeps, Legible
  <1>5. CASE ~Fills(r) /\ r.eventid = None
    <2>1. r.seen.EventCode = r.eventcode
      BY <1>5 DEF Legible, Origin
    <2>2. r.eventcode \in Supported
      BY <1>1, <1>5 DEF Number
    <2>3. QED  BY <2>1, <2>2 DEF SearchKeeps, Legible
  <1>6. QED  BY <1>2, <1>3, <1>4, <1>5

\* Only a hint that names another family makes the adapter ignore a row that has the
\* fields of a supported event.
LEMMA IgnoredNamesFamily ==
    ASSUME NEW r, NEW f, r.eventid = None, r.eventcode = None, Verdict(r, f) = "ignored", ~Foreign(r),
           NEW n \in Supported, Signature(r, n)
    PROVE  Hint(r) \in DOMAIN Family
  <1>1. CASE Number(r) = None
    <2>1. Recognized(r)
      BY <1>1 DEF Verdict
    <2>2. ~ControlRecord(r)
      BY DEF ControlRecord
    <2>3. QED  BY <2>1, <2>2 DEF Recognized, FamilyShape
  <1>2. CASE Number(r) # None
    <2>1. Number(r) \in Supported
      BY <1>2 DEF Number, Fills, Inferred
    <2>2. Verdict(r, f) # "ignored"
      BY <2>1, <1>2, AdapterAssumption DEF Verdict
    <2>3. QED  BY <2>2
  <1>3. QED  BY <1>1, <1>2

-----------------------------------------------------------------------------
(* The inductive invariant *)

Searched == pc \in {"watch", "fetch"} \/ outcome = "returned" => found \in Results

\* The tallies are those of the rows that are fetched.
Tallied ==
    /\ events = Of(Fetched, "event") \cap InScope(Fetched)
    /\ filtered = Of(Fetched, "event") \ InScope(Fetched)
    /\ ignored = Of(Fetched, "ignored")
    /\ invalid = Of(Fetched, "malformed")

Fresh == pc = "create" => offset = 0 /\ search = "none"
Undecided == pc \in {"create", "watch", "fetch"} => outcome = "none"
BelowCap == pc = "fetch" => Len(found) < case.max
Complete ==
    outcome = "returned" =>
        offset = Len(found) /\ Len(found) < case.max /\ Cardinality(invalid) <= case.tolerance

QueryInv ==
    /\ TypeOK /\ case \in Cases
    /\ Searched /\ Tallied /\ Fresh /\ Undecided /\ BelowCap /\ Complete
    /\ SearchesRemoved

\* The number of rows the server keeps is a number, at most one more than the cap.
LEMMA KeptIsBounded ==
    ASSUME case \in Cases
    PROVE  /\ IsFiniteSet(Matching) /\ Matching \subseteq DOMAIN case.rows
           /\ Cardinality(Matching) \in Nat /\ case.max \in Nat /\ Kept \in Nat
           /\ Kept < case.max => Kept = Cardinality(Matching)
  <1>1. IsFiniteSet(DOMAIN case.rows) /\ case.max \in Nat
    BY QueryAssumption
  <1>2. Matching \subseteq DOMAIN case.rows
    BY DEF Matching
  <1>3. IsFiniteSet(Matching)
    BY <1>1, <1>2, FS_Subset
  <1>4. Cardinality(Matching) \in Nat
    BY <1>3, FS_CardinalityType
  <1>5. QED  BY <1>1, <1>2, <1>3, <1>4 DEF Kept

\* A result is a sequence of rows of the slice.
LEMMA ResultIsSequence ==
    ASSUME case \in Cases, NEW f \in Results
    PROVE  f \in Seq(DOMAIN case.rows) /\ Len(f) = Kept /\ DOMAIN f = 1 .. Kept
  <1>1. f \in [1 .. Kept -> Matching]
    BY DEF Results, Injection, IsInjective
  <1>2. f \in [1 .. Kept -> DOMAIN case.rows]
    BY <1>1, KeptIsBounded
  <1>3. QED  BY <1>1, <1>2, KeptIsBounded

\* A result below the cap holds every row that matches.
LEMMA ResultIsComplete ==
    ASSUME case \in Cases, NEW f \in Results, Len(f) < case.max
    PROVE  {f[i] : i \in 1 .. Len(f)} = Matching
  <1>1. Len(f) = Kept /\ Kept = Cardinality(Matching) /\ Kept \in Nat
    BY ResultIsSequence, KeptIsBounded
  <1>2. Cardinality(1 .. Kept) = Cardinality(Matching)
    BY <1>1, FS_Interval
  <1>3. f \in Injection(1 .. Kept, Matching) /\ IsFiniteSet(Matching)
    BY KeptIsBounded DEF Results
  <1>4. f \in Surjection(1 .. Kept, Matching)
    BY <1>2, <1>3, FS_Injection
  <1>5. QED  BY <1>1, <1>4 DEF Surjection

\* Tallies add up over pages.
LEMMA TalliesAddUp ==
    ASSUME NEW P, NEW Q
    PROVE  /\ \A v : Of(P \cup Q, v) = Of(P, v) \cup Of(Q, v)
           /\ InScope(P \cup Q) = InScope(P) \cup InScope(Q)
  BY DEF Of, InScope

LEMMA QueryInit == Init => QueryInv
  <1> SUFFICES ASSUME Init PROVE QueryInv
    OBVIOUS
  <1>1. TypeOK
    <2>1. found \in Seq(DOMAIN case.rows) /\ Len(found) = 0
      BY DEF Init
    <2>2. {events, filtered, ignored, invalid} \subseteq SUBSET DOMAIN case.rows
      BY DEF Init
    <2>3. {cancelled, expired, late} \subseteq BOOLEAN /\ unsure \subseteq {"creation", "deletion"}
      BY DEF Init
    <2>4. offset \in 0 .. Len(found)
      BY <2>1 DEF Init
    <2>5. QED  BY <2>1, <2>2, <2>3, <2>4 DEF Init, TypeOK
  <1>2. Fetched = {}
    BY DEF Init, Fetched
  <1>3. Tallied
    BY <1>2 DEF Init, Tallied, Of, InScope
  <1>4. QED  BY <1>1, <1>3 DEF Init, QueryInv, Searched, Fresh, Undecided, BelowCap, Complete, SearchesRemoved

\* A step that leaves the result and the tallies alone keeps what is said of them.
LEMMA SameTallies ==
    ASSUME QueryInv, UNCHANGED <<case, found, tallies>>
    PROVE  /\ Tallied' /\ case' \in Cases
           /\ Fetched' = Fetched /\ Matching' = Matching /\ Kept' = Kept /\ Results' = Results
  <1>1. Fetched' = Fetched
    BY DEF Fetched, tallies
  <1>2. /\ \A S, v : Of(S, v)' = Of(S, v)
        /\ \A S : InScope(S)' = InScope(S)
    BY DEF Of, InScope
  <1>3. Tallied'
    BY <1>1, <1>2 DEF QueryInv, Tallied, tallies, Of, InScope
  <1>4. QED  BY <1>1, <1>3 DEF QueryInv, Matching, Kept, Results

LEMMA CreateKeeps == ASSUME QueryInv, Create PROVE QueryInv'
  <1>1. case \in Cases /\ case' = case /\ offset = 0 /\ offset' = 0 /\ outcome = "none"
    BY DEF QueryInv, Create, Fresh, Undecided, tallies
  <1>2. /\ found' \in Seq(DOMAIN case.rows) /\ Len(found') \in Nat
        /\ pc' = "watch" => found' \in Results
    BY <1>1, ResultIsSequence DEF QueryInv, TypeOK, Create, Fails
  <1>3. TypeOK'
    <2>1. /\ {events, filtered, ignored, invalid}' \subseteq SUBSET DOMAIN case'.rows
          /\ {cancelled, expired, late}' \subseteq BOOLEAN
      BY DEF QueryInv, TypeOK, Create, tallies, guards
    <2>2. /\ pc' \in {"create", "watch", "fetch", "delete", "ended"}
          /\ search' \in {"none", "running", "done", "broken"}
          /\ outcome' \in {"none", "returned", "toomany", "failed"}
          /\ unsure' \subseteq {"creation", "deletion"}
      BY DEF QueryInv, TypeOK, Create, Fails
    <2>3. found' \in Seq(DOMAIN case'.rows) /\ offset' \in 0 .. Len(found')
      BY <1>1, <1>2
    <2>4. QED  BY <2>1, <2>2, <2>3 DEF TypeOK
  <1>4. Results' = Results
    BY <1>1 DEF Results, Kept, Matching
  <1>5. Fetched = {} /\ Fetched' = {}
    BY <1>1 DEF Fetched
  <1>6. Tallied'
    BY <1>1, <1>5 DEF QueryInv, Tallied, Create, tallies, Of, InScope
  <1>7. SearchesRemoved'
    BY DEF QueryInv, Create, Fails, Fresh, SearchesRemoved, GuardUp, guards
  <1>8. Searched' /\ Fresh' /\ Undecided' /\ BelowCap' /\ Complete'
    BY <1>1, <1>2, <1>4 DEF Create, Fails, Searched, Fresh, Undecided, BelowCap, Complete
  <1>9. QED  BY <1>1, <1>3, <1>6, <1>7, <1>8 DEF QueryInv

LEMMA WatchKeeps == ASSUME QueryInv, Watch PROVE QueryInv'
  <1>1. UNCHANGED <<case, found, tallies>>
    BY DEF Watch
  <1>2. TypeOK'
    BY <1>1 DEF QueryInv, TypeOK, Watch, Fails, tallies, guards
  <1>3. BelowCap'
    <2>1. pc' = "fetch" => ~(Len(found) >= case.max)
      BY DEF Watch, Fails, Oversized
    <2>2. Len(found) \in Nat /\ case.max \in Nat
      BY QueryAssumption DEF QueryInv, TypeOK
    <2>3. QED  BY <1>1, <2>1, <2>2 DEF BelowCap
  <1>4. Searched' /\ Fresh' /\ Undecided' /\ Complete' /\ SearchesRemoved'
    BY <1>1, SameTallies
    DEF QueryInv, Watch, Fails, Searched, Fresh, Undecided, Complete, SearchesRemoved
  <1>5. QED  BY <1>1, <1>2, <1>3, <1>4, SameTallies DEF QueryInv

\* A page adds its rows to what is fetched, each to the tally of its verdict.
LEMMA PageTallies ==
    ASSUME QueryInv, UNCHANGED <<case, found>>, NEW n \in Nat \ {0}, Page(n)
    PROVE  Tallied' /\ offset' \in 0 .. Len(found)
           /\ {events, filtered, ignored, invalid}' \subseteq SUBSET DOMAIN case.rows
  <1> DEFINE P == {found[i] : i \in offset + 1 .. offset + n}
  <1>1. offset \in Nat /\ Len(found) \in Nat /\ offset + n <= Len(found) /\ offset' = offset + n
    BY DEF QueryInv, TypeOK, Page, Advance
  <1>2. \A i \in 1 .. Len(found) : found[i] \in DOMAIN case.rows
    BY DEF QueryInv, TypeOK
  <1>3. P \subseteq DOMAIN case.rows
    BY <1>1, <1>2
  <1>4. Fetched' = Fetched \cup P
    <2>1. 1 .. offset' = (1 .. offset) \cup (offset + 1 .. offset + n)
      BY <1>1
    <2>2. QED  BY <2>1 DEF Fetched
  <1>5. /\ events' = events \cup (Of(P, "event") \cap InScope(P))
        /\ filtered' = filtered \cup (Of(P, "event") \ InScope(P))
        /\ ignored' = ignored \cup Of(P, "ignored")
        /\ invalid' = invalid \cup Of(P, "malformed")
    BY DEF Page
  <1>6. Tallied'
    <2>1. /\ events' = Of(Fetched', "event") \cap InScope(Fetched')
          /\ filtered' = Of(Fetched', "event") \ InScope(Fetched')
          /\ ignored' = Of(Fetched', "ignored")
          /\ invalid' = Of(Fetched', "malformed")
      BY <1>4, <1>5 DEF QueryInv, Tallied, Of, InScope
    <2>2. QED  BY <2>1 DEF Tallied, Of, InScope
  <1>7. {events, filtered, ignored, invalid}' \subseteq SUBSET DOMAIN case.rows
    BY <1>3, <1>5 DEF QueryInv, TypeOK, Of, InScope
  <1>8. QED  BY <1>1, <1>6, <1>7

LEMMA FetchKeeps == ASSUME QueryInv, Fetch PROVE QueryInv'
  <1>1. UNCHANGED <<case, found, search, guards, unsure>> /\ pc = "fetch"
    BY DEF Fetch
  <1>2. CASE Fails("delete") /\ UNCHANGED tallies
    <2>1. TypeOK'
      BY <1>1, <1>2 DEF QueryInv, TypeOK, Fails, tallies, guards
    <2>2. Searched' /\ Fresh' /\ Undecided' /\ BelowCap' /\ Complete' /\ SearchesRemoved'
      BY <1>1, <1>2 DEF Fails, Searched, Fresh, Undecided, BelowCap, Complete, SearchesRemoved
    <2>3. QED  BY <1>1, <1>2, <2>1, <2>2, SameTallies DEF QueryInv
  <1>3. ASSUME NEW n \in 1 .. PageSize + 1, Page(n) PROVE QueryInv'
    <2>1. n \in Nat \ {0}
      BY QueryAssumption
    <2>2. UNCHANGED <<pc, outcome>>
      BY <1>3 DEF Page
    <2>3. /\ Tallied' /\ offset' \in 0 .. Len(found)
          /\ {events, filtered, ignored, invalid}' \subseteq SUBSET DOMAIN case.rows
      BY <1>1, <1>3, <2>1, PageTallies
    <2>4. TypeOK'
      BY <1>1, <2>2, <2>3 DEF QueryInv, TypeOK, guards
    <2>5. Results' = Results
      BY <1>1 DEF Results, Kept, Matching
    <2>6. Searched' /\ Fresh' /\ Undecided' /\ BelowCap' /\ Complete' /\ SearchesRemoved'
      BY <1>1, <2>2, <2>5
      DEF QueryInv, Searched, Fresh, Undecided, BelowCap, Complete, SearchesRemoved
    <2>7. QED  BY <1>1, <2>3, <2>4, <2>6 DEF QueryInv
  <1>4. QED  BY <1>2, <1>3 DEF Fetch

LEMMA RefusalKeeps == ASSUME QueryInv, AnswerRefused PROVE QueryInv'
  <1>1. UNCHANGED <<case, found, tallies>>
    BY DEF AnswerRefused
  <1>2. TypeOK'
    BY <1>1 DEF QueryInv, TypeOK, AnswerRefused, Fails, tallies, guards
  <1>3. Searched' /\ Fresh' /\ Undecided' /\ BelowCap' /\ Complete' /\ SearchesRemoved'
    BY <1>1 DEF AnswerRefused, Fails, Searched, Fresh, Undecided, BelowCap, Complete, SearchesRemoved
  <1>4. QED  BY <1>1, <1>2, <1>3, SameTallies DEF QueryInv

LEMMA ReturnKeeps == ASSUME QueryInv, Return PROVE QueryInv'
  <1>1. UNCHANGED <<case, found, tallies>> /\ pc = "fetch" /\ pc' = "delete"
    BY DEF Return
  <1>2. TypeOK'
    BY <1>1 DEF QueryInv, TypeOK, Return, tallies, guards
  <1>3. Complete'
    <2>1. offset = Len(found) /\ Len(found) < case.max
      BY <1>1 DEF Return, QueryInv, TypeOK, BelowCap
    <2>2. outcome' = "returned" => Cardinality(invalid) <= case.tolerance
      BY DEF Return
    <2>3. QED  BY <1>1, <2>1, <2>2 DEF Complete, tallies
  <1>4. Searched' /\ Fresh' /\ Undecided' /\ BelowCap' /\ SearchesRemoved'
    BY <1>1, SameTallies DEF QueryInv, Searched, Fresh, Undecided, BelowCap, SearchesRemoved
  <1>5. QED  BY <1>1, <1>2, <1>3, <1>4, SameTallies DEF QueryInv

LEMMA DeleteKeeps == ASSUME QueryInv, Delete PROVE QueryInv'
  <1>1. UNCHANGED <<case, found, tallies, outcome, guards>> /\ pc = "delete" /\ pc' = "ended"
    BY DEF Delete
  <1>2. TypeOK'
    BY <1>1 DEF QueryInv, TypeOK, Delete, tallies, guards
  <1>3. SearchesRemoved'
    BY DEF Delete, DeletesJob, SearchesRemoved, GuardUp, guards
  <1>4. Searched' /\ Fresh' /\ Undecided' /\ BelowCap' /\ Complete'
    BY <1>1, SameTallies DEF QueryInv, Searched, Fresh, Undecided, BelowCap, Complete, tallies
  <1>5. QED  BY <1>1, <1>2, <1>3, <1>4, SameTallies DEF QueryInv

\* The server, the operator and the clock change nothing of what was fetched.
LEMMA EnvironmentKeeps ==
    ASSUME QueryInv, SearchEnds \/ Interruption PROVE QueryInv'
  <1>1. UNCHANGED <<case, pc, found, tallies, outcome, unsure>>
    BY DEF SearchEnds, Interruption
  <1>2. TypeOK'
    BY <1>1 DEF QueryInv, TypeOK, SearchEnds, Interruption, Cancel, Expire, DeadlinePasses, tallies, guards
  <1>3. Fresh' /\ SearchesRemoved'
    BY <1>1 DEF QueryInv, Fresh, SearchesRemoved, SearchEnds, Interruption, Cancel, Expire, DeadlinePasses,
                GuardUp, tallies, guards
  <1>4. Searched' /\ Undecided' /\ BelowCap' /\ Complete'
    BY <1>1, SameTallies DEF QueryInv, Searched, Undecided, BelowCap, Complete, tallies
  <1>5. QED  BY <1>1, <1>2, <1>3, <1>4, SameTallies DEF QueryInv

LEMMA QueryStep == QueryInv /\ [Next]_vars => QueryInv'
  <1> SUFFICES ASSUME QueryInv, [Next]_vars PROVE QueryInv'
    OBVIOUS
  <1>1. CASE UNCHANGED vars
    <2>1. UNCHANGED <<case, found, tallies>> /\ Results' = Results /\ Tallied' /\ case' \in Cases
      BY <1>1, SameTallies DEF vars
    <2>2. TypeOK'
      BY <1>1 DEF vars, tallies, guards, QueryInv, TypeOK
    <2>3. QED  BY <1>1, <2>1, <2>2 DEF vars, tallies, guards, QueryInv, Searched, Fresh, Undecided, BelowCap,
                   Complete, SearchesRemoved, GuardUp
  <1>2. QED  BY <1>1, CreateKeeps, WatchKeeps, FetchKeeps, RefusalKeeps, ReturnKeeps, DeleteKeeps,
                EnvironmentKeeps DEF Next, Client

LEMMA QueryInvariant == Spec => []QueryInv
  BY QueryInit, QueryStep, PTL DEF Spec

-----------------------------------------------------------------------------
(* What follows *)

\* Every variable of a search keeps its type, and the offset stays within the result.
THEOREM QueryTypesCorrect == Spec => []TypeOK
  <1>1. QueryInv => TypeOK
    BY DEF QueryInv
  <1>2. QED  BY <1>1, QueryInvariant, PTL

\* When everything is fetched, what is fetched is what matches.
LEMMA ReturnedIsMatching ==
    ASSUME QueryInv, outcome = "returned" PROVE Fetched = Matching
  <1>1. found \in Results /\ Len(found) < case.max /\ offset = Len(found)
    BY DEF QueryInv, Searched, Complete
  <1>2. QED  BY <1>1, ResultIsComplete DEF QueryInv, Fetched

\* The verdict on a row is one of three.
LEMMA VerdictIsOne == \A r, f : Verdict(r, f) \in {"event", "ignored", "malformed"}
  BY DEF Verdict

\* What query returns is the whole slice, for every slice, cap, tolerance and paging.
THEOREM SlicesAreWhole == Spec => []SliceIsWhole
  <1>1. QueryInv => SliceIsWhole
    <2> SUFFICES ASSUME QueryInv, outcome = "returned"
                 PROVE  /\ Matching = events \cup filtered \cup ignored \cup invalid
                        /\ events = Of(Matching, "event") \cap InScope(Matching)
                        /\ filtered = Of(Matching, "event") \ InScope(Matching)
                        /\ ignored = Of(Matching, "ignored")
                        /\ Cardinality(invalid) <= case.tolerance
      BY DEF SliceIsWhole
    <2>1. /\ events = Of(Matching, "event") \cap InScope(Matching)
          /\ filtered = Of(Matching, "event") \ InScope(Matching)
          /\ ignored = Of(Matching, "ignored") /\ invalid = Of(Matching, "malformed")
      BY ReturnedIsMatching DEF QueryInv, Tallied
    <2>2. Matching = Of(Matching, "event") \cup Of(Matching, "ignored") \cup Of(Matching, "malformed")
      BY VerdictIsOne DEF Of
    <2>3. QED  BY <2>1, <2>2 DEF QueryInv, Complete
  <1>2. QED  BY <1>1, QueryInvariant, PTL

\* A row of a tally is a row of the slice with that verdict.
LEMMA TalliedRow ==
    ASSUME QueryInv, NEW i
    PROVE  /\ i \in events \cup filtered => Verdict(case.rows[i], case.format) = "event"
           /\ i \in ignored => Verdict(case.rows[i], case.format) = "ignored"
           /\ i \in events \cup filtered \cup ignored => RowShape(case.rows[i]) /\ Genuine(case.rows[i])
  <1>1. i \in events \cup filtered \cup ignored => i \in DOMAIN case.rows
    BY DEF QueryInv, TypeOK
  <1>2. QED  BY <1>1, QueryAssumption DEF QueryInv, Tallied, Of

\* A number that no field states is the true one, for every row that has the fields of no
\* other event (Genuine).
THEOREM InferredNumbersAreTrue == Spec => []InferredIsTrue
  <1>1. QueryInv => InferredIsTrue
    BY TalliedRow, InferredNumberIsTrue DEF InferredIsTrue
  <1>2. QED  BY <1>1, QueryInvariant, PTL

\* What looks like a supported event is ignored only under the number of another family.
THEOREM SupportedRowsFailClosed == Spec => []SupportedFailsClosed
  <1>1. QueryInv => SupportedFailsClosed
    BY TalliedRow, IgnoredNamesFamily DEF SupportedFailsClosed
  <1>2. QED  BY <1>1, QueryInvariant, PTL

\* A returned slice lacks no event in scope whose number the search could read; the rows
\* that only the code can read are excepted under the optimized search, and not others.
THEOREM ReturnedEventsAreDelivered == Spec => []EventsDelivered
  <1>1. ASSUME QueryInv, outcome = "returned", NEW i \in DOMAIN case.rows,
               Verdict(case.rows[i], case.format) = "event", case.rows[i].inScope
        PROVE  i \in events \/ (case.optimized /\ ~Legible(case.rows[i]))
    <2>1. i \in Matching => i \in events
      BY <1>1, ReturnedIsMatching DEF QueryInv, Tallied, Of, InScope
    <2>2. i \notin Matching => case.optimized /\ ~SearchKeeps(case.rows[i])
      BY <1>1 DEF Matching
    <2>3. RowShape(case.rows[i])
      BY <1>1, QueryAssumption DEF QueryInv
    <2>4. QED  BY <1>1, <2>1, <2>2, <2>3, LegibleIsKept
  <1>2. QueryInv => EventsDelivered
    BY <1>1 DEF EventsDelivered
  <1>3. QED  BY <1>2, QueryInvariant, PTL

\* A search stays on the server only for one of the three reasons.
THEOREM SearchesAreRemoved == Spec => []SearchesRemoved
  <1>1. QueryInv => SearchesRemoved
    BY DEF QueryInv
  <1>2. QED  BY <1>1, QueryInvariant, PTL

-----------------------------------------------------------------------------
(* What a poll makes of a query *)

\* A slice is refused as too large when it holds as many rows as the cap, or more.
RefusedIsLarge == outcome = "toomany" => Cardinality(Matching) >= case.max

\* PollSlices takes a slice whose events are fewer than the cap and halves any other: a
\* query that returns, or refuses, has counted all the rows the search looks for, although
\* the server stops one row after the cap.
AnswerIsTheCount ==
    /\ outcome = "returned" => Cardinality(Matching) < case.max
    /\ RefusedIsLarge

\* A query is refused in Watch and nowhere else, and its outcome stands.
LEMMA RefusalStands ==
    ASSUME QueryInv, RefusedIsLarge, [Next]_vars
    PROVE  RefusedIsLarge'
  <1>1. case' = case /\ Matching' = Matching
    BY DEF Next, Client, Create, Watch, Fetch, Return, Delete, AnswerRefused, SearchEnds, Interruption,
           vars, Matching
  <1>2. CASE Watch /\ outcome' = "toomany"
    <2>1. Len(found) >= case.max
      <3>1. outcome # "toomany"
        BY <1>2 DEF Watch, QueryInv, Undecided
      <3>2. QED  BY <1>2, <3>1 DEF Watch, Fails, Oversized
    <2>2. Len(found) = Kept
      <3>1. found \in Results
        BY <1>2 DEF Watch, QueryInv, Searched
      <3>2. QED  BY <3>1, ResultIsSequence DEF QueryInv
    <2>3. Cardinality(Matching) >= case.max
      BY <2>1, <2>2, KeptIsBounded DEF QueryInv, Kept
    <2>4. QED  BY <1>1, <2>3 DEF RefusedIsLarge
  <1>3. CASE outcome' \in {outcome, "failed", "returned"}
    BY <1>1, <1>3 DEF RefusedIsLarge
  <1>4. outcome' \in {outcome, "failed", "returned"} \/ (Watch /\ outcome' = "toomany")
    BY DEF Next, Client, Create, Watch, Fetch, Page, Return, Delete, AnswerRefused, SearchEnds,
           Interruption, Fails, vars
  <1>5. QED  BY <1>2, <1>3, <1>4

\* What query tells a poll is what PollSlices goes by: the number of rows against the cap.
THEOREM AnswersAreCounts == Spec => []AnswerIsTheCount
  <1>1. Init => RefusedIsLarge
    BY DEF Init, RefusedIsLarge
  <1>2. QueryInv /\ RefusedIsLarge => AnswerIsTheCount
    <2> SUFFICES ASSUME QueryInv, outcome = "returned" PROVE Cardinality(Matching) < case.max
      BY DEF AnswerIsTheCount
    <2>1. found \in Results /\ Len(found) < case.max
      BY DEF QueryInv, Searched, Complete
    <2>2. Len(found) = Kept
      BY <2>1, ResultIsSequence DEF QueryInv
    <2>3. QED  BY <2>1, <2>2, KeptIsBounded DEF QueryInv
  <1>3. QED  BY <1>1, <1>2, RefusalStands, QueryInvariant, PTL DEF Spec
=============================================================================
