---------------------------- MODULE MCSplunkQuery ----------------------------
(* Slices of one row of every kind, and of a few rows of the kinds that differ. *)
EXTENDS SplunkQuery, TLC

MCNumerals == {"1", "3", "5", "7", "22", "255"}
MCWords == {"PROCESS_CREATE", "NETWORK_CONNECT", "DNS_QUERY", "QUEUE", "n/a"}

Process == {"ProcessGuid", "Image"}
FieldsOf(n) ==
    CASE n = "1" -> Process \cup {"ParentImage"} [] n = "3" -> Process \cup {"DestinationIp", "DestinationPort"}
      [] n = "22" -> {"Image", "QueryName"} [] n = "7" -> Process \cup {"ImageLoaded"}
      [] n = "5" -> Process [] n = "255" -> {}
System == {"Task", "Channel", "SystemTime"}

\* A row whose numbers are in plain sight, and one in which the search does not see f.
Plain(r) == [r EXCEPT !.seen = [Task |-> r.task, EventID |-> r.eventid, EventCode |-> r.eventcode, ID |-> r.id]]
Hidden(r, f) == [Plain(r) EXCEPT !.seen[f] = None]

\* A flat row of Sysmon that was written for n and hints at nothing.
FlatRow(n) ==
    [raw |-> "json", broken |-> FALSE, provider |-> None, name |-> None, channel |-> "sysmon", guid |-> None,
     eventid |-> None, eventcode |-> None, id |-> None, task |-> None,
     seen |-> [f \in SearchFields |-> None],
     keys |-> FieldsOf(n) \cup System, present |-> FieldsOf(n) \cup System, defects |-> {}, inScope |-> TRUE, truth |-> n]

\* The hints vary, and one field may be missing.
Hinted ==
    {Plain([FlatRow(n) EXCEPT !.id = i, !.task = t, !.present = @ \ gone]) :
        n \in MCNumerals, i \in {None, "1", "5", "PROCESS_CREATE", "NETWORK_CONNECT", "QUEUE"},
        t \in {None, "1", "22", "7", "255", "n/a"}, gone \in {{}, {"ParentImage"}, {"DestinationPort"}}}

\* An explicit number beside the hints, under either name or under both; the field of the
\* EventID present or not.
Explicit ==
    {Plain([FlatRow(n) EXCEPT !.task = n, !.eventid = e, !.eventcode = c, !.keys = @ \cup field]) :
        n \in {"1", "3", "7"}, e \in {None, "1", "7", "n/a"}, c \in {None, "3", "7"}, field \in {{}, {"EventID"}}}

\* What the code reads and the search does not see, and the other way round.
Numbered ==
    {[FlatRow(n) EXCEPT !.task = t, !.id = i, !.eventid = e, !.eventcode = c] :
        n \in {"1", "22"}, t \in {None, "1", "22"}, i \in {None, "1", "DNS_QUERY"}, e \in {None, "22"}, c \in {None, "1"}}
Written22 == [FlatRow("22") EXCEPT !.task = "22"]
Spelled ==
    {Hidden(r, f) : r \in Numbered, f \in SearchFields}
        \cup {[Written22 EXCEPT !.seen[f] = x] : f \in SearchFields, x \in {"22", "7", "DNS_QUERY"}}

\* Who wrote the row.
Identified ==
    {[Plain([FlatRow(n) EXCEPT !.task = n]) EXCEPT !.provider = p, !.name = a, !.channel = c, !.guid = g, !.keys = @ \ gone] :
        n \in {"1"}, p \in Identities, a \in Identities, c \in Identities, g \in {None, "sysmon"},
        gone \in {{}, {"SystemTime"}}}

\* How it is written, and the values it lacks.
Written ==
    {Plain([FlatRow(n) EXCEPT !.raw = w, !.broken = b, !.eventid = n, !.defects = d]) :
        n \in {"1", "3", "22"}, w \in {"json", "xml", "text"}, b \in BOOLEAN,
        d \in SUBSET {"endpoint", "destination"}}

Well(r) == r.present \subseteq r.keys
Rows == {r \in Hinted \cup Explicit \cup Spelled \cup Identified \cup Written : Well(r)}

Call(rows, f, o, m, t) == [rows |-> rows, format |-> f, optimized |-> o, max |-> m, tolerance |-> t]

Some == {Plain([FlatRow("1") EXCEPT !.task = "1"]), Plain([FlatRow("7") EXCEPT !.task = "7"]),
         Plain([FlatRow("3") EXCEPT !.task = "22"]), Plain([FlatRow("22") EXCEPT !.task = "22", !.inScope = FALSE])}
Three == {<<a, b, c>> : a \in Some, b \in Some, c \in Some}

MCCases ==
    {Call(<<r>>, f, FALSE, 2, 1) : r \in Written, f \in {"auto", "xml", "json"}}
        \cup {Call(<<r>>, "auto", o, 2, 1) : r \in Rows, o \in BOOLEAN}
        \cup {Call(s, "json", o, m, t) : s \in Three, o \in BOOLEAN, m \in {1, 3, 4}, t \in {0, 1}}
=============================================================================
