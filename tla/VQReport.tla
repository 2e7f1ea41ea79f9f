------------------------------ MODULE VQReport ------------------------------
(***************************************************************************)
(* internal/vqreport/parse.go: the parser of a report body.  The body is a *)
(* sequence of physical lines; Parse folds them into logical lines, one    *)
(* after the other, and then works these off in the same way.              *)
(*                                                                         *)
(* A line is its key and its NAME=value tokens, a value the conversions it *)
(* survives.  What the parser stores is kept as the place it came from:    *)
(* <<l, i>> is token i of logical line l and <<l, 0>> the whole line, so   *)
(* the properties can say which of several values won.                     *)
(***************************************************************************)
EXTENDS Integers, Sequences, SequencesExt

CONSTANT Bodies     \* the bodies to parse, sequences of physical lines

ReportTypes == {"VQSessionReport", "VQIntervalReport", "VQAlertReport"}
Identities == {"callid", "localid", "remoteid", "origid", "toid", "fromid"}
Sections == {"localmetrics", "metrics", "remotemetrics"}
Addresses == {"localaddr", "remoteaddr"}

\* Normalised keys; a line may also be blank or have no colon, and "other" is
\* any key the parser does not know: those of the metric lines among them.
Keys == ReportTypes \cup Identities \cup Sections \cup Addresses
          \cup {"blank", "no colon", "other"}

\* Values: an integer below 256, the unavailable sentinel, an integer of 9 to 16 bits,
\* a number that is no integer, an IP address, anything else.
Values == {"small", "127", "big", "real", "ip", "text"}
Names == {"pd", "pt", "rerl", "moslq", "nlr", "ip", "port", "ssrc", "vendor"}

Token == [name : Names, value : Values]
Line == [fold : BOOLEAN, key : Keys, tokens : Seq(Token)]
LogicalLine == [key : Keys, tokens : Seq(Token)]

\* A continuation is blank or starts with a token: one that has a colon, or goes on
\* with the value of the line before it, is left out.
ASSUME BodiesAssumption ==
    /\ Bodies \subseteq Seq(Line)
    /\ \A b \in Bodies : \A n \in DOMAIN b :
          /\ b[n].fold => b[n].key \in {"blank", "no colon"}
          /\ b[n].key = "blank" => b[n].tokens = <<>>

VARIABLES
    body,       \* the lines to parse
    logical,    \* and as foldLines joins them
    phase,      \* "folding", in the loop over the "lines", "parsed" or "refused"
    at,         \* the line of body, then of logical, that the loop is at
    local,      \* metric lines belong to the local side
    dialect, reportType,
    ids,        \* CallID, LocalID, RemoteID, OrigID
    addresses,  \* LocalAddress and RemoteAddress: name -> place
    metrics,    \* LocalMetrics and RemoteMetrics: name -> place
    fields,     \* Fields, as the set of places
    unknown     \* Unknown, likewise

vars == <<body, logical, phase, at, local, dialect, reportType, ids, addresses, metrics,
          fields, unknown>>
result == <<dialect, reportType, ids, addresses, metrics, fields, unknown>>

None == <<0, 0>>
Metrics == {"pd", "pt", "rerl", "moslq", "nlr"}
NoMetrics == [n \in Metrics |-> None]
NoAddress == [n \in {"ip", "port", "ssrc"} |-> None]

-----------------------------------------------------------------------------
(* foldLines and detectDialect *)

\* A continuation adds its tokens to the line before it, and after a blank line it
\* is a line of its own.  One that opens the body is a line like any other.
AddLine(lines, line) ==
    IF line.fold /\ lines # <<>>
    THEN LET last == Last(lines) IN
         Append(Front(lines),
                [key |-> IF last.key = "blank" THEN line.key ELSE last.key,
                 tokens |-> last.tokens \o line.tokens])
    ELSE Append(lines, [key |-> line.key, tokens |-> line.tokens])

\* The first line that is not blank, or 0.
First ==
    LET filled == {l \in 1..Len(logical) : logical[l].key # "blank"} IN
    IF filled = {} THEN 0 ELSE CHOOSE l \in filled : \A m \in filled : l <= m

HasReportLine == First # 0 /\ logical[First].key \in ReportTypes

HasKey(k) == \E l \in First + 1..Len(logical) : logical[l].key = k

Detected == IF HasKey("toid") /\ HasKey("fromid") THEN "prestandard" ELSE "standard"

Init ==
    /\ body \in Bodies
    /\ logical = <<>>
    /\ phase = "folding"
    /\ at = 1
    /\ local = TRUE
    /\ dialect = "unknown" /\ reportType = "none"
    /\ ids = [k \in {"callid", "localid", "remoteid", "origid"} |-> 0]
    /\ addresses = [k \in Addresses |-> NoAddress]
    /\ metrics = [s \in {"local", "remote"} |-> NoMetrics]
    /\ fields = {} /\ unknown = {}

\* One round of foldLines.
Fold ==
    /\ phase = "folding"
    /\ at <= Len(body)
    /\ logical' = AddLine(logical, body[at])
    /\ at' = at + 1
    /\ UNCHANGED <<body, phase, local, result>>

Folded == phase = "folding" /\ at > Len(body)

\* ErrUnrecognizedDialect.
Refuse ==
    /\ Folded
    /\ ~HasReportLine
    /\ phase' = "refused"
    /\ UNCHANGED <<body, logical, at, local, result>>

\* (Variants named Bad... are wrong on purpose: each stands for a plausible
\* mistake in the definition that follows it.)

\* The loop begins a line too late.
BadStart ==
    /\ Folded
    /\ HasReportLine
    /\ phase' = "lines"
    /\ at' = First + 2
    /\ dialect' = Detected
    /\ reportType' = logical[First].key
    /\ fields' = {<<First, 0>>}
    /\ UNCHANGED <<body, logical, local, ids, addresses, metrics, unknown>>

Start ==
    /\ Folded
    /\ HasReportLine
    /\ phase' = "lines"
    /\ at' = First + 1
    /\ dialect' = Detected
    /\ reportType' = logical[First].key
    /\ fields' = {<<First, 0>>}
    /\ UNCHANGED <<body, logical, local, ids, addresses, metrics, unknown>>

-----------------------------------------------------------------------------
(* The loop: one action for each kind of line *)

Here == logical[at]

Reading(keys) ==
    /\ phase = "lines"
    /\ at <= Len(logical)
    /\ Here.key \in keys
    /\ at' = at + 1
    /\ UNCHANGED <<body, logical, phase, dialect, reportType>>

SkipBlank ==
    /\ Reading({"blank"})
    /\ UNCHANGED <<local, ids, addresses, metrics, fields, unknown>>

NoColon ==
    /\ Reading({"no colon"})
    /\ unknown' = unknown \cup {<<at, 0>>}
    /\ UNCHANGED <<local, ids, addresses, metrics, fields>>

\* The first line of an identity is kept.
BadIdentity ==
    LET id == CASE Here.key = "toid" -> "remoteid"
                [] Here.key = "fromid" -> "localid"
                [] OTHER -> Here.key
    IN
    /\ Reading(Identities)
    /\ ids' = [ids EXCEPT ![id] = IF @ = 0 THEN at ELSE @]
    /\ fields' = fields \cup {<<at, 0>>}
    /\ UNCHANGED <<local, addresses, metrics, unknown>>

\* ToID and FromID are the draft's names of RemoteID and LocalID.
Identity ==
    LET id == CASE Here.key = "toid" -> "remoteid"
                [] Here.key = "fromid" -> "localid"
                [] OTHER -> Here.key
    IN
    /\ Reading(Identities)
    /\ ids' = [ids EXCEPT ![id] = at]
    /\ fields' = fields \cup {<<at, 0>>}
    /\ UNCHANGED <<local, addresses, metrics, unknown>>

\* The alert example's "Metrics:" is not taken for the local block.
BadSection ==
    /\ Reading(Sections)
    /\ local' = IF Here.key = "metrics" THEN local ELSE Here.key = "localmetrics"
    /\ fields' = fields \cup {<<at, 0>>}
    /\ UNCHANGED <<ids, addresses, metrics, unknown>>

Section ==
    /\ Reading(Sections)
    /\ local' = (Here.key # "remotemetrics")
    /\ fields' = fields \cup {<<at, 0>>}
    /\ UNCHANGED <<ids, addresses, metrics, unknown>>

Places == {<<at, i>> : i \in 1..Len(Here.tokens)}

AsToken(p) == logical[p[1]].tokens[p[2]]

\* netip.ParseAddr, and ParseUint of 16 or 32 bits.
IsComponent(t) ==
    \/ t.name = "ip" /\ t.value = "ip"
    \/ t.name \in {"port", "ssrc"} /\ t.value \in {"small", "127", "big"}

\* The loop over the tokens of a line: each that fits goes under its name, over
\* what was there.
Stored(record, fitting) ==
    [n \in DOMAIN record |->
        LET of == {i \in 1..Len(Here.tokens) : <<at, i>> \in fitting /\ Here.tokens[i].name = n}
        IN IF of = {} THEN record[n] ELSE <<at, CHOOSE i \in of : \A j \in of : j <= i>>]

Components == {p \in Places : IsComponent(AsToken(p))}

\* A second line of the side adds to the address of the first.
BadAddressLine ==
    /\ Reading(Addresses)
    /\ addresses' = [addresses EXCEPT ![Here.key] = Stored(@, Components)]
    /\ fields' = fields \cup Places
    /\ unknown' = unknown \cup (Places \ Components)
    /\ UNCHANGED <<local, ids, metrics>>

\* Every address line makes a new Address.
AddressLine ==
    /\ Reading(Addresses)
    /\ addresses' = [addresses EXCEPT ![Here.key] = Stored(NoAddress, Components)]
    /\ fields' = fields \cup Places
    /\ unknown' = unknown \cup (Places \ Components)
    /\ UNCHANGED <<local, ids, metrics>>

Number(v) == v \in {"small", "127", "big", "real"}

\* RERL's sentinel is understood but sets nothing.
Unavailable(t) == t.name = "rerl" /\ t.value = "127"

\* setMetric stores the token: codecs are taken as they are, payload types have
\* 8 bits, all else is a float.
IsMetric(t) ==
    \/ t.name = "pd"
    \/ t.name = "pt" /\ t.value \in {"small", "127"}
    \/ t.name \in Metrics \ {"pd", "pt"} /\ Number(t.value) /\ ~Unavailable(t)

Observed == {p \in Places : IsMetric(AsToken(p))}

\* A token that cannot be converted is dropped.
BadMetricLine ==
    LET side == IF local THEN "local" ELSE "remote" IN
    /\ Reading({"other"} \cup ReportTypes)
    /\ Here.tokens # <<>>
    /\ metrics' = [metrics EXCEPT ![side] = Stored(@, Observed)]
    /\ fields' = fields \cup Observed
    /\ UNCHANGED <<local, ids, addresses, unknown>>

MetricLine ==
    LET side == IF local THEN "local" ELSE "remote" IN
    /\ Reading({"other"} \cup ReportTypes)
    /\ Here.tokens # <<>>
    /\ metrics' = [metrics EXCEPT ![side] = Stored(@, Observed)]
    /\ fields' = fields \cup Places
    /\ unknown' = unknown \cup {p \in Places \ Observed : ~Unavailable(AsToken(p))}
    /\ UNCHANGED <<local, ids, addresses>>

UnknownHeader ==
    /\ Reading({"other"} \cup ReportTypes)
    /\ Here.tokens = <<>>
    /\ fields' = fields \cup {<<at, 0>>}
    /\ unknown' = unknown \cup {<<at, 0>>}
    /\ UNCHANGED <<local, ids, addresses, metrics>>

Finish ==
    /\ phase = "lines"
    /\ at > Len(logical)
    /\ phase' = "parsed"
    /\ UNCHANGED <<body, logical, at, local, result>>

Next ==
    \/ Fold
    \/ Refuse
    \/ Start
    \/ SkipBlank
    \/ NoColon
    \/ Identity
    \/ Section
    \/ AddressLine
    \/ MetricLine
    \/ UnknownHeader
    \/ Finish

Spec == Init /\ [][Next]_vars
-----------------------------------------------------------------------------
(* Properties.  They look at the lines as a whole, not one after the other. *)

Parsed == phase = "parsed"
After(p, q) == p[1] > q[1] \/ (p[1] = q[1] /\ p[2] > q[2])
Rest == First + 1..Len(logical)
TokensOf(keys) ==
    UNION {{<<l, i>> : i \in 1..Len(logical[l].tokens)} :
              l \in {m \in Rest : logical[m].key \in keys}}
MetricTokens == TokensOf({"other"} \cup ReportTypes)

TypeOK ==
    /\ phase \in {"folding", "lines", "parsed", "refused"}
    /\ logical \in Seq(LogicalLine)
    /\ at \in 1..Len(IF phase \in {"folding", "refused"} THEN body ELSE logical) + 1
    /\ local \in BOOLEAN
    /\ dialect \in {"unknown", "standard", "prestandard"}
    /\ reportType \in ReportTypes \cup {"none"}
    /\ \A k \in DOMAIN ids : ids[k] \in 0..Len(logical)
    /\ \A k \in Addresses, n \in DOMAIN NoAddress : addresses[k][n] \in fields \cup {None}
    /\ \A s \in {"local", "remote"}, n \in Metrics : metrics[s][n] \in fields \cup {None}
    /\ \A p \in fields \cup unknown :
          p[1] \in 1..Len(logical) /\ p[2] \in 0..Len(logical[p[1]].tokens)

\* A line is remote when the last section header before it is RemoteMetrics.
IsRemote(l) ==
    \E m \in Rest :
        /\ m < l /\ logical[m].key = "remotemetrics"
        /\ \A n \in m + 1..l - 1 : logical[n].key \notin {"localmetrics", "metrics"}

\* The tokens of one side from which a metric can be read.
Observations(side, name) ==
    {p \in MetricTokens :
        LET t == AsToken(p) IN
        /\ t.name = name
        /\ IsRemote(p[1]) <=> side = "remote"
        /\ CASE name = "pd" -> TRUE
             [] name = "pt" -> t.value \in {"small", "127"}
             [] name = "rerl" -> t.value \in {"small", "big", "real"}
             [] OTHER -> t.value \in {"small", "127", "big", "real"}}

\* A metric is the last observation of it in its side's blocks, wherever these
\* begin and end, and absent, never zero or the sentinel, if there is none
\* (traps 2 to 4 of spec/protocol.md).
LastObservationWins ==
    Parsed => \A side \in {"local", "remote"}, name \in Metrics :
        LET obs == Observations(side, name) IN
        IF obs = {} THEN metrics[side][name] = None
        ELSE /\ metrics[side][name] \in obs
             /\ \A p \in obs : ~After(p, metrics[side][name])

\* An address is read from one line, the last of its side: its parts never come
\* from different endpoints.
AddressOfOneLine ==
    Parsed => \A k \in Addresses, n \in DOMAIN NoAddress :
        addresses[k][n] # None =>
            /\ logical[addresses[k][n][1]].key = k
            /\ \A l \in Rest : logical[l].key = k => l <= addresses[k][n][1]

\* The headers that name a party.
HeadersOf(id) ==
    CASE id = "remoteid" -> {"remoteid", "toid"}
      [] id = "localid" -> {"localid", "fromid"}
      [] OTHER -> {id}

\* The dialects name the parties differently; whichever line comes last names
\* them, and only the pair of draft names makes the report prestandard.
PartiesAndDialect ==
    Parsed =>
        /\ \A id \in DOMAIN ids :
              LET named == {l \in Rest : logical[l].key \in HeadersOf(id)} IN
              IF named = {} THEN ids[id] = 0
              ELSE ids[id] \in named /\ \A l \in named : l <= ids[id]
        /\ dialect = "prestandard" <=>
              \E l, m \in Rest : logical[l].key = "toid" /\ logical[m].key = "fromid"

\* The tokens of the first n lines, in order.
TokensUpTo(lines, n) ==
    LET upTo[m \in 0..n] == IF m = 0 THEN <<>> ELSE upTo[m - 1] \o lines[m].tokens
    IN upTo[n]

\* A typed value is made of these tokens, in an address line and in any other.
Typed(p) ==
    LET t == AsToken(p) IN
    IF logical[p[1]].key \in Addresses
    THEN <<t.name, t.value>> \in {<<"ip", "ip">>} \cup ({"port", "ssrc"} \X {"small", "127", "big"})
    ELSE \/ t.name = "pd"
         \/ <<t.name, t.value>> \in ({"pt"} \X {"small", "127"})
                                      \cup ({"rerl"} \X {"small", "big", "real"})
                                      \cup ({"moslq", "nlr"} \X {"small", "127", "big", "real"})

\* The one token that is recognised and makes no value: the unavailable RERL.
Sentinel(p) ==
    /\ AsToken(p).name = "rerl" /\ AsToken(p).value = "127"
    /\ logical[p[1]].key \notin Addresses

\* parse.go:57: "Unrecognised observations remain in Report.Fields and
\* Report.Unknown": folding keeps every token of the body, in order (trap 5 of
\* spec/protocol.md), every token is a field, and listed as unknown are exactly those
\* that became no typed value, whether for their name, their value or the line they
\* are in, but for the unavailable RERL (parse.go:327).
UnrecognisedRemains ==
    /\ phase # "folding" =>
          TokensUpTo(logical, Len(logical)) = TokensUpTo(body, Len(body))
    /\ Parsed => \A p \in MetricTokens \cup TokensOf(Addresses) :
        /\ p \in fields
        /\ p \in unknown <=> ~Typed(p) /\ ~Sentinel(p)
=============================================================================
