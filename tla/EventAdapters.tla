---------------------------- MODULE EventAdapters ----------------------------
(***************************************************************************)
(* What becomes of one row of a search (deepsnout/normalize.py and         *)
(* event_adapters.py): an event, something to ignore, or a malformed       *)
(* record.  Most collectors name the event's number; the flat Cribl        *)
(* dialect often does not, and an adapter infers it, or recognizes a       *)
(* family that is not supported, from weaker hints and the fields that     *)
(* are present.  The last definition is the filter that the optimized      *)
(* search profile puts into the query (splunk.py): it decides on the text  *)
(* of four fields before the adapter sees the row.                         *)
(*                                                                         *)
(* A row is a record of what these decisions look at.  A number is what    *)
(* the code makes of the text it arrives as (blanks, a pair of quotes and  *)
(* leading zeros are gone, an object is the text in it), or that text when *)
(* it is no number; None is a text that is absent or empty.                *)
(***************************************************************************)
EXTENDS Integers, FiniteSets

CONSTANTS
    Numerals,       \* the texts that are numbers
    Words           \* the texts that are not: the symbols of an ID among them

None == "none"
Supported == {"1", "3", "22"}
Identities == {None, "sysmon", "other"}
SearchFields == {"Task", "EventID", "EventCode", "ID"}
Markers == {"Task", "Guid", "Channel", "sourceMachineID", "SystemTime", "EventRecordID"}

ASSUME AdapterAssumption ==
    /\ None \notin Numerals \cup Words /\ Numerals \cap Words = {}
    /\ Supported \cup {"255"} \subseteq Numerals
    /\ {"PROCESS_CREATE", "NETWORK_CONNECT", "DNS_QUERY"} \subseteq Words

\* raw is how _raw is written, and broken that it cannot be parsed.  provider is the
\* identity of a canonical provider field; name, channel and guid those of the top-level
\* fields.  eventid and eventcode are the explicit numbers, under whichever of their names
\* and however deep they stand; id is the number or symbol of the ID of the event object,
\* task that of its Task.  seen is what a search finds of the four in _raw: the text at the
\* top level under exactly that name, less its single quotes, an ID in capitals, and None
\* when it is not there or not bare.  keys are the fields of the event object, present
\* those with a value; defects are the values normalization refuses, and inScope says
\* that the endpoint matches the pattern of the source.  No code sees truth, the number
\* of the event that the collector wrote the row for.
RowShape(r) ==
    /\ r.raw \in {"json", "xml", "text"}
    /\ {r.provider, r.name, r.channel, r.guid} \subseteq Identities
    /\ {r.eventid, r.eventcode, r.id, r.task} \subseteq Numerals \cup Words \cup {None}
    /\ r.seen \in [SearchFields -> Numerals \cup Words \cup {None}]
    /\ {r.broken, r.inScope} \subseteq BOOLEAN
    /\ r.present \subseteq r.keys
    /\ r.defects \subseteq {"endpoint", "time", "destination", "query"}
    /\ r.truth \in Numerals

-----------------------------------------------------------------------------
(* The flat Cribl adapter *)

Flat(r) == Cardinality(Markers \cap r.keys) >= 3
Trusted(r) == "sysmon" \in {r.name, r.channel, r.guid}

\* The fields that corroborate a supported number.  (Faulty: a process is enough for all.)
HasProcess(r) == {"ProcessGuid", "Image"} \cap r.present # {}
AnySignature(r, n) == n \in Supported /\ HasProcess(r)
Signature(r, n) ==
    \/ n = "1" /\ {"ProcessGuid", "Image"} \subseteq r.present
               /\ {"ParentProcessGuid", "ParentImage"} \cap r.present # {}
    \/ n = "3" /\ {"DestinationIp", "DestinationPort"} \subseteq r.present /\ HasProcess(r)
    \/ n = "22" /\ "QueryName" \in r.present /\ HasProcess(r)

\* The known families that are not supported, and the fields that tell each of them.
Family == [n \in {"2", "4", "5", "6", "7", "8", "11", "12", "13", "15", "16"} |->
    CASE n = "2" -> {"ProcessGuid", "TargetFilename", "CreationUtcTime", "PreviousCreationUtcTime"}
      [] n = "4" -> {"State", "SchemaVersion"}
      [] n = "5" -> {"ProcessGuid", "Image"}
      [] n = "6" -> {"ImageLoaded", "Hashes", "Signed"}
      [] n = "7" -> {"ProcessGuid", "Image", "ImageLoaded"}
      [] n = "8" -> {"SourceProcessGuid", "TargetProcessGuid", "NewThreadId", "StartAddress"}
      [] n = "11" -> {"ProcessGuid", "TargetFilename", "CreationUtcTime"}
      [] n = "12" -> {"ProcessGuid", "TargetObject", "EventType"}
      [] n = "13" -> {"ProcessGuid", "TargetObject", "EventType", "Details"}
      [] n = "15" -> {"ProcessGuid", "Image", "TargetFilename", "CreationUtcTime", "Hash"}
      [] n = "16" -> {"Configuration", "ConfigurationFileHash"}]
FamilyShape(r, n) == n \in DOMAIN Family /\ Family[n] \subseteq r.present

SymbolicNumber == [s \in Words |->
    CASE s = "PROCESS_CREATE" -> "1" [] s = "NETWORK_CONNECT" -> "3" [] s = "DNS_QUERY" -> "22" [] OTHER -> None]

\* The number a row hints at: that of its ID, and without an ID its task.
Hint(r) == IF r.id = None THEN r.task ELSE IF r.id \in Numerals THEN r.id ELSE SymbolicNumber[r.id]

\* A hint counts only with the fields of its event.
Adapted(r) == r.raw = "json" /\ Flat(r) /\ Trusted(r)
Inferred(r) == IF Adapted(r) /\ Hint(r) \in Supported /\ Signature(r, Hint(r)) THEN Hint(r) ELSE None

\* What the adapter says may be ignored: a number with the fields of its family, and a
\* symbol it does not know in the family of internal errors, unless the row looks like a
\* supported event.  (Faulty: whatever the row looks like.)
AnyControlRecord(r) == r.id \in Words /\ SymbolicNumber[r.id] = None /\ r.task = "255"
ControlRecord(r) ==
    /\ r.id \in Words /\ SymbolicNumber[r.id] = None /\ r.task = "255"
    /\ \A n \in Supported : ~Signature(r, n)
Recognized(r) == Adapted(r) /\ (ControlRecord(r) \/ (r.id \notin Words /\ FamilyShape(r, Hint(r))))

-----------------------------------------------------------------------------
(* Normalization *)

\* What the adapters contribute only fills a field that is absent: an explicit EventID
\* wins, and the EventID that an adapter infers goes before an explicit EventCode.
Fills(r) == r.eventid = None /\ "EventID" \notin r.keys /\ Inferred(r) # None
Number(r) == IF Fills(r) THEN Inferred(r) ELSE IF r.eventid # None THEN r.eventid ELSE r.eventcode
Provider(r) ==
    IF r.provider = None /\ "Provider" \notin r.keys /\ r.raw = "json" /\ Flat(r) THEN r.name ELSE r.provider

Foreign(r) == Provider(r) = "other" \/ (Provider(r) = None /\ r.channel = "other")

\* The values a supported event needs.
Defective(r) ==
    \/ {"endpoint", "time"} \cap r.defects # {}
    \/ Number(r) = "3" /\ "destination" \in r.defects
    \/ Number(r) = "22" /\ "query" \in r.defects

Unreadable(r, format) == r.broken \/ (format # "auto" /\ format # r.raw)

\* normalize, in the order in which it gives up.
Verdict(r, format) ==
    IF Unreadable(r, format) THEN "malformed"
    ELSE IF Foreign(r) THEN "ignored"
    ELSE IF Number(r) = None THEN (IF Recognized(r) THEN "ignored" ELSE "malformed")
    ELSE IF Number(r) \notin Numerals THEN "malformed"
    ELSE IF Number(r) \notin Supported THEN "ignored"
    ELSE IF Defective(r) THEN "malformed" ELSE "event"

-----------------------------------------------------------------------------
(* The optimized search *)

\* It compares what it sees with the numbers and symbols themselves.  (Faulty: it does not
\* look at tasks.)
SearchKeepsIDs(r) ==
    /\ r.raw = "json"
    /\ \/ {r.seen.EventID, r.seen.EventCode} \cap Supported # {}
       \/ r.seen.ID \in {"PROCESS_CREATE", "NETWORK_CONNECT", "DNS_QUERY"}
SearchKeeps(r) ==
    /\ r.raw = "json"
    /\ \/ {r.seen.Task, r.seen.EventID, r.seen.EventCode} \cap Supported # {}
       \/ r.seen.ID \in {"PROCESS_CREATE", "NETWORK_CONNECT", "DNS_QUERY"}
=============================================================================
