---------------------------- MODULE ReportExport ----------------------------
(***************************************************************************)
(* How a parsed report becomes observations of metrics and attributes of   *)
(* its log record: exportReport (main.go), which copies the measurements   *)
(* and numbers repeated fields, and Export (export.go), which records the  *)
(* measurements that are there and names the fields, one step for each.    *)
(*                                                                         *)
(* A key is a word with the numbers in brackets that follow it: X-Vendor   *)
(* is [word |-> "X-Vendor", numbers |-> <<>>], X-Vendor[2] has <<2>>.  An  *)
(* attribute's name, after "rfc6035.field.", is the sequence of what       *)
(* stands between its underscores: x_vendor_2 is <<"x", "vendor", "2">>.   *)
(***************************************************************************)
EXTENDS Integers, Sequences, SequencesExt, FiniteSets, TLC

CONSTANTS
    Words,      \* the words of keys, in the order of their bytes
    Normal,     \* word -> what normalizeFieldKey makes of it
    Plain,      \* the words that are their own normal form
    Secret,     \* the words secretField finds one of its words in
    Xs,         \* x, xx, xxx and so on
    Reports     \* the reports: the keys of the fields, and which measurements there are

Key == [word : {Words[i] : i \in DOMAIN Words}, numbers : Seq(Nat)]

\* vqreport.Metrics, of either side; a value is told by where it comes from.
Sides == {"local", "remote"}
Metrics == {"PacketsPerSecond", "RERL", "MOSLQ", "MOSCQ", "RLQ", "RCQ", "PacketLoss",
            "DiscardRate", "RoundTripDelay", "OneWayDelay", "IAJ", "MAJ"}
Report == [keys : Seq(Key), measured : SUBSET (Sides \X Metrics)]

CallID == [word |-> "SIP.Call-ID", numbers |-> <<>>]
CSeq == [word |-> "SIP.CSeq", numbers |-> <<>>]

\* No word ends in punctuation, unless it has nothing else.  ("auth", which is secret
\* as a whole key only, is left out.)
ASSUME KeysAssumption ==
    /\ IsInjective(Words)
    /\ {CallID.word, CSeq.word} \subseteq {Words[i] : i \in DOMAIN Words}
    /\ \A i \in DOMAIN Words : Words[i] \in DOMAIN Normal
    /\ \A w \in DOMAIN Normal : Normal[w] \in Seq(STRING)
    /\ Plain \cup Secret \subseteq DOMAIN Normal
    /\ \A v, w \in Plain : Normal[v] = Normal[w] => v = w
ASSUME ReportsAssumption ==
    /\ Reports \subseteq Report
    /\ Xs \in Seq(STRING)
    /\ \A m, n \in DOMAIN Xs : Xs[m] = Xs[n] => m = n
    /\ \A r \in Reports : Len(r.keys) + 2 <= Len(Xs)

VARIABLES
    report,     \* the parsed report
    phase,      \* "numbering", "recording", "naming" or "emitted"
    at,         \* the field exportReport is at
    fields,     \* otelexport.Report.Fields: key -> value
    recorded,   \* how many of the calls that record metrics have been made
    observed,   \* what the histograms were given, in order
    left,       \* the keys logAttributes has still to name
    used,       \* the names it has given
    attributes  \* the attributes, in the order they are appended

vars == <<report, phase, at, fields, recorded, observed, left, used, attributes>>

\* Values are told apart by where they come from.
Value == {"publish"} \X {"Call-ID", "CSeq"} \cup {"report"} \X Nat

Init ==
    /\ report \in Reports
    /\ phase = "numbering"
    /\ at = 1
    /\ fields = [k \in {} |-> 0]
    /\ recorded = 0
    /\ observed = <<>>
    /\ left = {}
    /\ used = {}
    /\ attributes = <<>>

-----------------------------------------------------------------------------
(* exportReport *)

\* (Variants named Bad... are wrong on purpose: each stands for a plausible
\* mistake in the definition that follows it.)

\* The number is how often the key has come, whatever else is called so.
BadNumbered(key) ==
    LET before == {i \in 1..at - 1 : report.keys[i] = key} IN
    IF before = {} THEN key
    ELSE [key EXCEPT !.numbers = Append(@, Cardinality(before) + 1)]

With(key, n) == [key EXCEPT !.numbers = Append(@, n)]

\* The key itself or, if it is taken, key[n] for the first n from 2 that is free.
Numbered(key) ==
    IF key \notin DOMAIN fields THEN key
    ELSE With(key, CHOOSE n \in 2..Cardinality(DOMAIN fields) + 2 :
                     /\ With(key, n) \notin DOMAIN fields
                     /\ \A m \in 2..n - 1 : With(key, m) \in DOMAIN fields)

AddField ==
    LET new == Numbered(report.keys[at]) IN
    /\ phase = "numbering"
    /\ at <= Len(report.keys)
    /\ fields' = [k \in DOMAIN fields \cup {new} |->
                     IF k = new THEN <<"report", at>> ELSE fields[k]]
    /\ at' = at + 1
    /\ UNCHANGED <<report, phase, recorded, observed, left, used, attributes>>

\* The identity of the PUBLISH goes over what the report has under these keys.
AddPublish ==
    /\ phase = "numbering"
    /\ at > Len(report.keys)
    /\ fields' = [k \in DOMAIN fields \cup {CallID, CSeq} |->
                     CASE k = CallID -> <<"publish", "Call-ID">>
                       [] k = CSeq -> <<"publish", "CSeq">>
                       [] OTHER -> fields[k]]
    /\ phase' = "recording"
    /\ UNCHANGED <<report, at, recorded, observed, left, used, attributes>>

-----------------------------------------------------------------------------
(* Export: the metrics *)

\* One letter is wrong in the long list of exportReport.
BadSourceOf(field) ==
    CASE field = "RFactorLQ" -> "RLQ"
      [] field = "RFactorCQ" -> "RLQ"
      [] field = "RTD" -> "RoundTripDelay"
      [] OTHER -> field

\* The measurement a field of otelexport.Report, without its side, is a copy of.
SourceOf(field) ==
    CASE field = "RFactorLQ" -> "RLQ"
      [] field = "RFactorCQ" -> "RCQ"
      [] field = "RTD" -> "RoundTripDelay"
      [] OTHER -> field

\* The calls of recordDirection and recordJitter in their order: the histogram, the
\* field whose local and remote value it is given, what these are divided by, and
\* the kind of jitter.
Call(histogram, field, per, kind) ==
    [histogram |-> histogram, field |-> field, per |-> per, kind |-> kind]
Calls == <<
    Call("mos_lq", "MOSLQ", 1, "none"), Call("mos_cq", "MOSCQ", 1, "none"),
    Call("r_factor_lq", "RFactorLQ", 1, "none"), Call("r_factor_cq", "RFactorCQ", 1, "none"),
    Call("packet_loss", "PacketLoss", 100, "none"), Call("discard_rate", "DiscardRate", 100, "none"),
    Call("round_trip_delay", "RTD", 1000, "none"), Call("one_way_delay", "OneWayDelay", 1000, "none"),
    Call("jitter", "IAJ", 1000, "interarrival"), Call("jitter", "MAJ", 1000, "mean_absolute")>>

\* Nothing is recorded of a measurement that is not there.
Recorded(call, side) ==
    LET value == <<side, SourceOf(call.field)>> IN
    IF value \notin report.measured THEN <<>>
    ELSE <<[histogram |-> call.histogram, side |-> side, kind |-> call.kind,
            value |-> value, per |-> call.per]>>

\* Export calls for the local value, then for the remote one.
RecordMetric ==
    LET call == Calls[recorded + 1] IN
    /\ phase = "recording"
    /\ recorded < Len(Calls)
    /\ observed' = observed \o Recorded(call, "local") \o Recorded(call, "remote")
    /\ recorded' = recorded + 1
    /\ UNCHANGED <<report, phase, at, fields, left, used, attributes>>

MetricsRecorded ==
    /\ phase = "recording"
    /\ recorded = Len(Calls)
    /\ left' = DOMAIN fields
    /\ phase' = "naming"
    /\ UNCHANGED <<report, at, fields, recorded, observed, used, attributes>>

-----------------------------------------------------------------------------
(* Export: the log record, logAttributes *)

\* sort.Strings: words first, for a bracket comes before an underscore and a letter
\* of lower case, then a key before its numbered ones, these by their numbers. Textual
\* order puts [10] before [2]; numbers have one digit in the runs, and of the order the
\* names only keep which of two that collide gets the suffix.
Before(k, l) ==
    LET Place(w) == CHOOSE i \in DOMAIN Words : Words[i] = w IN
    \/ Place(k.word) < Place(l.word)
    \/ /\ k.word = l.word
       /\ \/ IsStrictPrefix(k.numbers, l.numbers)
          \/ \E i \in DOMAIN k.numbers \cap DOMAIN l.numbers :
                /\ k.numbers[i] < l.numbers[i]
                /\ \A j \in 1..i - 1 : k.numbers[j] = l.numbers[j]

secretField(key) == key.word \in Secret

\* Brackets become underscores: two between one number and the next, and those at
\* the ends are trimmed.
normalizeFieldKey(key) ==
    LET parts == Normal[key.word] \o
                   [i \in 1..2 * Len(key.numbers) - 1 |->
                       IF i % 2 = 1 THEN ToString(key.numbers[(i + 1) \div 2]) ELSE ""]
    IN IF parts = <<>> THEN <<"unnamed">> ELSE parts

Spelled(key, name) ==
    key.word \in Plain /\ key.numbers = <<>> /\ name = Normal[key.word]

\* base, base_x, base_xx and so on.
Candidate(base, n) == IF n = 0 THEN base ELSE Append(base, Xs[n])

\* One suffix is tried.
BadUnused(base) == IF base \in used THEN Candidate(base, 1) ELSE base

Unused(base) ==
    Candidate(base, CHOOSE n \in 0..Len(Xs) :
        /\ Candidate(base, n) \notin used
        /\ \A m \in 0..n - 1 : Candidate(base, m) \in used)

\* The keys come in their order.
IsNext(k) == k \in left /\ \A l \in left \ {k} : Before(k, l)

SkipSecret(k) ==
    /\ phase = "naming"
    /\ IsNext(k)
    /\ secretField(k)
    /\ left' = left \ {k}
    /\ UNCHANGED <<report, phase, at, fields, recorded, observed, used, attributes>>

\* The key is compared with its normal form, before a suffix was added.
BadName(k) ==
    LET base == normalizeFieldKey(k)
        normalized == Unused(base)
    IN
    /\ phase = "naming"
    /\ IsNext(k)
    /\ ~secretField(k)
    /\ attributes' = Append(attributes,
           [name |-> normalized, value |-> fields[k],
            original |-> IF Spelled(k, base) THEN {} ELSE {k}])
    /\ used' = used \cup {normalized}
    /\ left' = left \ {k}
    /\ UNCHANGED <<report, phase, at, fields, recorded, observed>>

\* The base is remembered, not the name that was given.
BadUsed(k) ==
    LET normalized == Unused(normalizeFieldKey(k)) IN
    /\ phase = "naming"
    /\ IsNext(k)
    /\ ~secretField(k)
    /\ attributes' = Append(attributes,
           [name |-> normalized, value |-> fields[k],
            original |-> IF Spelled(k, normalized) THEN {} ELSE {k}])
    /\ used' = used \cup {normalizeFieldKey(k)}
    /\ left' = left \ {k}
    /\ UNCHANGED <<report, phase, at, fields, recorded, observed>>

\* original is what .original_key holds, if there is such an attribute.
Name(k) ==
    LET normalized == Unused(normalizeFieldKey(k)) IN
    /\ phase = "naming"
    /\ IsNext(k)
    /\ ~secretField(k)
    /\ attributes' = Append(attributes,
           [name |-> normalized, value |-> fields[k],
            original |-> IF Spelled(k, normalized) THEN {} ELSE {k}])
    /\ used' = used \cup {normalized}
    /\ left' = left \ {k}
    /\ UNCHANGED <<report, phase, at, fields, recorded, observed>>

Emit ==
    /\ phase = "naming"
    /\ left = {}
    /\ phase' = "emitted"
    /\ UNCHANGED <<report, at, fields, recorded, observed, left, used, attributes>>

Next ==
    \/ AddField
    \/ AddPublish
    \/ RecordMetric
    \/ MetricsRecorded
    \/ \E k \in left : SkipSecret(k) \/ Name(k)
    \/ Emit

Spec == Init /\ [][Next]_vars
-----------------------------------------------------------------------------
(* Properties *)

\* Every variable has its type, and used holds the names in attributes.
TypeOK ==
    /\ phase \in {"numbering", "recording", "naming", "emitted"}
    /\ at \in 1..Len(report.keys) + 1
    /\ \A k \in DOMAIN fields : k \in Key /\ fields[k] \in Value
    /\ recorded \in 0..Len(Calls)
    /\ left \subseteq DOMAIN fields
    /\ used = {attributes[i].name : i \in DOMAIN attributes}
    /\ \A i \in DOMAIN attributes : attributes[i].original \subseteq DOMAIN fields

KeysOf(value) == {k \in DOMAIN fields : fields[k] = value}

\* Report.Fields keeps every field the exporter was given, each under a key made from
\* its own, and repeated ones in their order, even if a report itself has a
\* key like X[2] (main.go:316).  What the report calls SIP.Call-ID or SIP.CSeq is
\* the exception: the PUBLISH's own values replace the first of each.
RepeatedFieldsKept ==
    /\ \A i \in 1..at - 1 :
          LET keys == KeysOf(<<"report", i>>)
              replaced == /\ phase # "numbering"
                          /\ report.keys[i] \in {CallID, CSeq}
                          /\ \A j \in 1..i - 1 : report.keys[j] # report.keys[i]
          IN
          /\ Cardinality(keys) = IF replaced THEN 0 ELSE 1
          /\ \A k \in keys :
                /\ k.word = report.keys[i].word
                /\ k = report.keys[i] \/ Front(k.numbers) = report.keys[i].numbers
    /\ \A i, j \in 1..at - 1 :
          i < j /\ report.keys[i] = report.keys[j] =>
              \A k \in KeysOf(<<"report", i>>), l \in KeysOf(<<"report", j>>) : Before(k, l)

\* docs/signals.md:43-68: each measurement of the report becomes one observation, in the
\* histogram of its kind, on its own side and in that histogram's unit, whatever
\* else the report has; a measurement that is absent becomes none, least of all a zero.
MeasurementsObserved ==
    LET documented == {
            <<"MOSLQ", "mos_lq", 1, "none">>, <<"MOSCQ", "mos_cq", 1, "none">>,
            <<"RLQ", "r_factor_lq", 1, "none">>, <<"RCQ", "r_factor_cq", 1, "none">>,
            <<"PacketLoss", "packet_loss", 100, "none">>,
            <<"DiscardRate", "discard_rate", 100, "none">>,
            <<"RoundTripDelay", "round_trip_delay", 1000, "none">>,
            <<"OneWayDelay", "one_way_delay", 1000, "none">>,
            <<"IAJ", "jitter", 1000, "interarrival">>,
            <<"MAJ", "jitter", 1000, "mean_absolute">>}
        Of(value) == {i \in DOMAIN observed : observed[i].value = value}
    IN phase \in {"naming", "emitted"} =>
        \A side \in Sides, metric \in Metrics :
            LET value == <<side, metric>> IN
            /\ Cardinality(Of(value)) =
                  IF value \in report.measured /\ \E d \in documented : d[1] = metric
                  THEN 1 ELSE 0
            /\ \A i \in Of(value) :
                  LET o == observed[i] IN
                  /\ o.side = side
                  /\ <<metric, o.histogram, o.per, o.kind>> \in documented

\* No attribute of a record has the name of another, which a backend would take for
\* one attribute set twice (export.go:220): neither two keys with the same normal
\* form nor a suffixed name and a key that is really spelled so.
NamesUnique ==
    \A i, j \in DOMAIN attributes : attributes[i].name = attributes[j].name => i = j

\* Every field that is not secret can be read back from the record, with its own key and
\* value: from .original_key, or from the name if there is no such attribute.
FieldsRecoverable ==
    phase = "emitted" =>
        \A k \in DOMAIN fields :
            LET named == {i \in DOMAIN attributes :
                            \/ attributes[i].original = {k}
                            \/ attributes[i].original = {} /\ Spelled(k, attributes[i].name)}
            IN IF secretField(k) THEN named = {}
               ELSE \E i \in named : named = {i} /\ attributes[i].value = fields[k]
=============================================================================
