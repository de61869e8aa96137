----------------------------- MODULE SplunkQuery -----------------------------
(***************************************************************************)
(* One search of one slice (SplunkClient.query, deepsnout/splunk.py): the  *)
(* search job is created, watched until it is done, its result is fetched  *)
(* page by page and normalized row by row, and the job is deleted.  The    *)
(* caller (PollSlices) sees of this only what is returned: everything the  *)
(* slice holds, a refusal because it holds too much, or a failure.         *)
(*                                                                         *)
(* The server, external, may fail any request, finalize or fail the job,   *)
(* and answer with previews or with pages shorter or longer than asked     *)
(* for.  An operator may cancel, and two deadlines may pass: that of the   *)
(* search and that of the whole job of the worker.                         *)
(***************************************************************************)
EXTENDS EventAdapters, Sequences, Functions

CONSTANTS
    Cases,          \* bound: what a call may meet, the rows of a slice and the settings
    PageSize        \* RESULT_PAGE_SIZE

\* The fields of one event only, whatever its hints say: Sysmon writes a parent, a
\* destination or a query for no other event.
Telling == [n \in Supported |->
    CASE n = "1" -> {"ParentProcessGuid", "ParentImage"} [] n = "3" -> {"DestinationIp"} [] n = "22" -> {"QueryName"}]
Genuine(r) == \A n \in Supported : Telling[n] \cap r.keys # {} => r.truth = n

ASSUME QueryAssumption ==
    /\ PageSize \in Nat \ {0}
    /\ \A c \in Cases :
         /\ IsFiniteSet(DOMAIN c.rows)
         /\ \A i \in DOMAIN c.rows : RowShape(c.rows[i]) /\ Genuine(c.rows[i])
         /\ c.format \in {"auto", "xml", "json"} /\ c.optimized \in BOOLEAN
         /\ c.max \in Nat \ {0} /\ c.tolerance \in Nat

VARIABLES
    case,           \* the rows of the slice and the settings of the source
    pc,             \* where query is
    search,         \* the job on the server
    found,          \* the result of the search, as indexes of the rows
    offset,         \* how many rows of the result have been fetched
    events, filtered, ignored, invalid,     \* the rows of each kind, reported as counts
    outcome,        \* what the caller is told
    cancelled,      \* cancel_check
    expired,        \* operation_deadline has passed
    late,           \* the deadline of this search has passed
    unsure          \* history: the requests that may have been served although the client was
                    \* not told: their answer was lost, or came and was refused

tallies == <<offset, events, filtered, ignored, invalid>>
guards == <<cancelled, expired, late>>
vars == <<case, pc, search, found, tallies, outcome, guards, unsure>>

GuardUp == ~cancelled /\ ~expired

\* The rows the search looks for, and the number of them that the server keeps.
Matching == {i \in DOMAIN case.rows : case.optimized => SearchKeeps(case.rows[i])}
Kept == IF Cardinality(Matching) <= case.max THEN Cardinality(Matching) ELSE case.max + 1

\* The results the server may report.
Results == Injection(1 .. Kept, Matching)

Fails(where) == pc' = where /\ outcome' = "failed"

-----------------------------------------------------------------------------
(* The client *)

\* The job is created, unless the request never leaves; the answer may be lost, or have no
\* usable sid.
Create ==
    /\ pc = "create"
    /\ \/ /\ Fails("ended")
          /\ UNCHANGED <<search, found, unsure>>
       \/ /\ GuardUp
          /\ search' = "running"
          /\ found' \in Results
          /\ \/ pc' = "watch" /\ UNCHANGED <<outcome, unsure>>
             \/ Fails("ended") /\ unsure' = unsure \cup {"creation"}
    /\ UNCHANGED <<case, tallies, guards>>

\* More rows than the cap, or as many.  (Faulty: a result that reaches it is taken to be
\* complete, although the server stops one row after it.)
OversizedBeyond(count) == count > case.max + 1
Oversized(count) == count >= case.max

\* The status is asked for until the job is done.  (Faulty: for ever.)
GivesUpWithoutDeadline == ~GuardUp \/ search = "broken"
GivesUp == ~GuardUp \/ search = "broken" \/ (search = "running" /\ late)

Watch ==
    /\ pc = "watch"
    /\ \/ GivesUp /\ Fails("delete")
       \/ /\ ~GivesUp /\ search = "done"
          /\ \/ Oversized(Len(found)) /\ pc' = "delete" /\ outcome' = "toomany"
             \/ ~Oversized(Len(found)) /\ pc' = "fetch" /\ UNCHANGED outcome
    /\ UNCHANGED <<case, search, found, tallies, guards, unsure>>

\* How many rows the offset moves on for a page.
Advance(n) == n

Of(page, verdict) == {i \in page : Verdict(case.rows[i], case.format) = verdict}
InScope(page) == {i \in page : case.rows[i].inScope}

\* One page of n rows, perhaps fewer than asked for.
Page(n) ==
    LET page == {found[i] : i \in offset + 1 .. offset + n} IN
    /\ offset + n <= Len(found)
    /\ offset' = offset + Advance(n)
    /\ events' = events \cup (Of(page, "event") \cap InScope(page))
    /\ filtered' = filtered \cup (Of(page, "event") \ InScope(page))
    /\ ignored' = ignored \cup Of(page, "ignored")
    /\ invalid' = invalid \cup Of(page, "malformed")
    /\ UNCHANGED <<pc, outcome>>

Fetch ==
    /\ pc = "fetch" /\ offset < Len(found)
    /\ \/ (~GuardUp \/ late) /\ Fails("delete") /\ UNCHANGED tallies
       \/ GuardUp /\ ~late /\ \E n \in 1 .. PageSize + 1 : Page(n)
    /\ UNCHANGED <<case, search, found, guards, unsure>>

\* An answer that ends the query: an HTTP error, a warning, no such job, a job without a
\* count, a preview, a page that is empty or too long.
AnswerRefused ==
    /\ pc = "watch" \/ (pc = "fetch" /\ offset < Len(found))
    /\ Fails("delete")
    /\ UNCHANGED <<case, search, found, tallies, guards, unsure>>

Return ==
    /\ pc = "fetch" /\ offset >= Len(found)
    /\ pc' = "delete"
    /\ outcome' = IF Cardinality(invalid) <= case.tolerance THEN "returned" ELSE "failed"
    /\ UNCHANGED <<case, search, found, tallies, guards, unsure>>

\* However the query ended, its job is deleted; the request that does it asks the same
\* guard as every other, and may fail or be answered with an error.  (Faulty: only a query
\* that succeeded deletes its job.)
DeletesJobOnSuccess == GuardUp /\ outcome = "returned"
DeletesJob == GuardUp
Delete ==
    /\ pc = "delete"
    /\ pc' = "ended"
    /\ \/ ~DeletesJob /\ UNCHANGED <<search, unsure>>
       \/ DeletesJob /\ search' = "none" /\ UNCHANGED unsure
       \/ DeletesJob /\ UNCHANGED search /\ unsure' = unsure \cup {"deletion"}
    /\ UNCHANGED <<case, found, tallies, outcome, guards>>

-----------------------------------------------------------------------------
(* The server, the operator and the clock *)

SearchEnds ==
    /\ search = "running" /\ search' \in {"done", "broken"}
    /\ UNCHANGED <<case, pc, found, tallies, outcome, guards, unsure>>

Cancel == ~cancelled /\ cancelled' = TRUE /\ UNCHANGED <<expired, late>>
Expire == ~expired /\ expired' = TRUE /\ UNCHANGED <<cancelled, late>>
DeadlinePasses == ~late /\ pc \in {"watch", "fetch"} /\ late' = TRUE /\ UNCHANGED <<cancelled, expired>>
Interruption ==
    /\ pc # "ended"
    /\ Cancel \/ Expire \/ DeadlinePasses
    /\ UNCHANGED <<case, pc, search, found, tallies, outcome, unsure>>

Init ==
    /\ case \in Cases
    /\ pc = "create" /\ search = "none" /\ found = <<>>
    /\ offset = 0 /\ events = {} /\ filtered = {} /\ ignored = {} /\ invalid = {}
    /\ outcome = "none"
    /\ cancelled = FALSE /\ expired = FALSE /\ late = FALSE
    /\ unsure = {}

Client == Create \/ Watch \/ Fetch \/ Return \/ Delete
Next == Client \/ AnswerRefused \/ SearchEnds \/ Interruption

\* The thread of the worker runs, and time passes; the server owes nothing.
Spec == Init /\ [][Next]_vars /\ WF_vars(Client) /\ WF_vars(Interruption /\ DeadlinePasses)

-----------------------------------------------------------------------------
(* Properties *)

TypeOK ==
    /\ pc \in {"create", "watch", "fetch", "delete", "ended"}
    /\ search \in {"none", "running", "done", "broken"}
    /\ found \in Seq(DOMAIN case.rows)
    /\ offset \in 0 .. Len(found)
    /\ {events, filtered, ignored, invalid} \subseteq SUBSET DOMAIN case.rows
    /\ outcome \in {"none", "returned", "toomany", "failed"}
    /\ {cancelled, expired, late} \subseteq BOOLEAN
    /\ unsure \subseteq {"creation", "deletion"}

\* The rows that are fetched so far.
Fetched == {found[i] : i \in 1 .. offset}

\* What query returns is the whole slice, however the server paged and truncated: every
\* row the search looks for is counted once, under what normalize makes of it, and the
\* malformed ones are within the tolerance.  The cursor moves past the slice on this.
SliceIsWhole ==
    outcome = "returned" =>
        /\ Matching = events \cup filtered \cup ignored \cup invalid
        /\ events = Of(Matching, "event") \cap InScope(Matching)
        /\ filtered = Of(Matching, "event") \ InScope(Matching)
        /\ ignored = Of(Matching, "ignored")
        /\ Cardinality(invalid) <= case.tolerance

\* A number that no field of the row states is the right one: the hints of the flat
\* dialect may say what they like, a row becomes the event it was written for or none.
InferredIsTrue ==
    \A i \in events \cup filtered : LET r == case.rows[i] IN
        Number(r) \notin {r.eventid, r.eventcode} => Number(r) = r.truth

\* The field that the number of a row comes from.
Origin(r) ==
    IF Fills(r) THEN (IF r.id = None THEN "Task" ELSE "ID")
    ELSE IF r.eventid # None THEN "EventID" ELSE "EventCode"

\* The search sees in that field what the code reads in it.  The code reads more: a number
\* below the top level, under another of its names, in an object, with blanks, double quotes
\* or zeros around it, a numeric ID, a symbol with other separators, a row inside of Event.
Legible(r) ==
    /\ r.raw = "json"
    /\ Origin(r) = "ID" => r.id \notin Numerals
    /\ r.seen[Origin(r)] =
          [Task |-> r.task, EventID |-> r.eventid, EventCode |-> r.eventcode, ID |-> r.id][Origin(r)]

\* What the slice holds of the endpoints in scope is returned, whichever the profile, but
\* for the rows that the optimized search passes over because it cannot read their number:
\* whatever else a row holds, its number in plain sight is enough.
EventsDelivered ==
    outcome = "returned" =>
        \A i \in DOMAIN case.rows : LET r == case.rows[i] IN
            Verdict(r, case.format) = "event" /\ r.inScope =>
                i \in events \/ (case.optimized /\ ~Legible(r))

\* A row with the fields of a supported event, from Sysmon and without an explicit
\* number, is ignored only when a number it hints at names another family: a symbol that
\* changed keeps the cursor where it is instead of dropping the events.
SupportedFailsClosed ==
    \A i \in ignored : LET r == case.rows[i] IN
        (\E n \in Supported : Signature(r, n)) /\ r.eventid = None /\ r.eventcode = None =>
            Foreign(r) \/ Hint(r) \in DOMAIN Family

\* A search is left on the server only after a cancellation, the end of the budget of the
\* worker, or a request (to create it or to delete it) whose answer was lost or refused.
SearchesRemoved == pc = "ended" /\ search # "none" => ~GuardUp \/ unsure # {}

\* A query ends, even when its search never does.
QueriesEnd == pc = "create" ~> pc = "ended"
=============================================================================
