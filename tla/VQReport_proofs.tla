--------------------------- MODULE VQReport_proofs ---------------------------
(***************************************************************************)
(* Proofs about module VQReport, for bodies of any length: what the loop   *)
(* of Parse has stored, line after line, is what the properties read off   *)
(* the lines as a whole.                                                   *)
(***************************************************************************)
EXTENDS VQReport, Extremes, SequenceTheorems, TLAPS

Parties == {"callid", "localid", "remoteid", "origid"}
MetricKeys == {"other"} \cup ReportTypes

\* The records keep their fields.
Shape ==
    /\ body \in Seq(Line)
    /\ DOMAIN ids = Parties
    /\ DOMAIN addresses = Addresses
    /\ \A k \in Addresses : DOMAIN addresses[k] = DOMAIN NoAddress
    /\ DOMAIN metrics = {"local", "remote"}
    /\ \A s \in {"local", "remote"} : DOMAIN metrics[s] = Metrics

\* Where the loops are, and that nothing is stored before the second one.
Place ==
    /\ phase \in {"lines", "parsed"} =>
          First \in 1..Len(logical) /\ at \in First + 1..Len(logical) + 1
    /\ phase = "parsed" => at = Len(logical) + 1
    /\ phase = "folding" =>
          /\ local = TRUE
          /\ ids = [k \in Parties |-> 0]
          /\ addresses = [k \in Addresses |-> NoAddress]
          /\ metrics = [s \in {"local", "remote"} |-> NoMetrics]
          /\ fields = {} /\ unknown = {}
          /\ reportType = "none" /\ dialect = "unknown"

\* The properties, of the lines read so far.
Before == First + 1..at - 1

IdRead(id) ==
    LET named == {l \in Before : logical[l].key \in HeadersOf(id)} IN
    IF named = {} THEN ids[id] = 0
    ELSE ids[id] \in named /\ \A l \in named : l <= ids[id]

AddressRead(k, n) ==
    addresses[k][n] # None =>
        /\ addresses[k][n][1] \in Before /\ logical[addresses[k][n][1]].key = k
        /\ \A l \in Before : logical[l].key = k => l <= addresses[k][n][1]

MetricRead(side, name) ==
    LET obs == {p \in Observations(side, name) : p[1] < at} IN
    IF obs = {} THEN metrics[side][name] = None
    ELSE /\ metrics[side][name] \in obs
         /\ \A p \in obs : ~After(p, metrics[side][name])

ReadSoFar ==
    phase \in {"lines", "parsed"} =>
        /\ dialect = Detected
        /\ phase = "lines" => (local <=> ~IsRemote(at))
        /\ \A id \in Parties : IdRead(id)
        /\ \A k \in Addresses, n \in DOMAIN NoAddress : AddressRead(k, n)
        /\ \A side \in {"local", "remote"}, name \in Metrics : MetricRead(side, name)

IInv == TypeOK /\ Shape /\ Place /\ ReadSoFar

-----------------------------------------------------------------------------
\* The first line that is not blank is one of the lines.
LEMMA FirstLine ==
    ASSUME logical \in Seq(LogicalLine), HasReportLine
    PROVE  First \in 1..Len(logical)
<1> DEFINE filled == {l \in 1..Len(logical) : logical[l].key # "blank"}
<1>1. filled # {}
  BY DEF HasReportLine, First
<1>2. \E l \in filled : \A m \in filled : l <= m
  <2>1. filled \subseteq Nat
    OBVIOUS
  <2> HIDE DEF filled
  <2> QED
    BY <1>1, <2>1, Least
<1> QED
  BY <1>1, <1>2 DEF First

\* What depends on the lines only does not change with the rest.
LEMMA SameLines ==
    ASSUME UNCHANGED logical
    PROVE  /\ First' = First /\ Rest' = Rest /\ Detected' = Detected
           /\ \A l : IsRemote(l)' = IsRemote(l)
           /\ \A side, name : Observations(side, name)' = Observations(side, name)
<1>1. First' = First /\ Rest' = Rest
  BY DEF First, Rest
<1>2. Detected' = Detected
  BY <1>1 DEF Detected, HasKey
<1>3. \A l : IsRemote(l)' = IsRemote(l)
  BY <1>1 DEF IsRemote
<1>4. MetricTokens' = MetricTokens
  BY <1>1 DEF MetricTokens, TokensOf
<1>5. \A side, name : Observations(side, name)' = Observations(side, name)
  BY <1>3, <1>4 DEF Observations, AsToken
<1> QED
  BY <1>1, <1>2, <1>3, <1>5

LEMMA TokenPlaces ==
    ASSUME NEW keys, NEW p
    PROVE  p \in TokensOf(keys) <=>
               \E l \in Rest : \E i \in 1..Len(logical[l].tokens) :
                   logical[l].key \in keys /\ p = <<l, i>>
  BY DEF TokensOf

\* What Stored makes of a line: the last token that fits, or nothing.
LEMMA StoredLast ==
    ASSUME NEW record, NEW fitting, NEW n \in DOMAIN record, Len(Here.tokens) \in Nat
    PROVE  \/ /\ Stored(record, fitting)[n] = record[n]
              /\ \A i \in 1..Len(Here.tokens) :
                    ~(<<at, i>> \in fitting /\ Here.tokens[i].name = n)
           \/ \E i \in 1..Len(Here.tokens) :
                 /\ Stored(record, fitting)[n] = <<at, i>>
                 /\ <<at, i>> \in fitting /\ Here.tokens[i].name = n
                 /\ \A j \in 1..Len(Here.tokens) :
                       <<at, j>> \in fitting /\ Here.tokens[j].name = n => j <= i
<1> DEFINE of == {i \in 1..Len(Here.tokens) :
                    <<at, i>> \in fitting /\ Here.tokens[i].name = n}
<1>1. Stored(record, fitting)[n] =
          IF of = {} THEN record[n] ELSE <<at, CHOOSE i \in of : \A j \in of : j <= i>>
  BY DEF Stored
<1>2. CASE of # {}
  <2>1. \E i \in of : \A j \in of : j <= i
    <3>1. of \subseteq 1..Len(Here.tokens)
      OBVIOUS
    <3> HIDE DEF of
    <3> QED
      BY <1>2, <3>1, Greatest
  <2> HIDE DEF of
  <2>2. PICK i \in of : i = (CHOOSE k \in of : \A j \in of : j <= k) /\ \A j \in of : j <= i
    BY <2>1
  <2>3. Stored(record, fitting)[n] = <<at, i>>
    BY <1>1, <1>2, <2>2
  <2> QED
    BY <2>2, <2>3 DEF of
<1>3. CASE of = {}
  BY <1>1, <1>3
<1> QED
  BY <1>2, <1>3

-----------------------------------------------------------------------------
(* One round of the loop *)

\* What all rounds have in common.
LEMMA Round ==
    ASSUME IInv, NEW keys, Reading(keys)
    PROVE  /\ at \in 1..Len(logical) /\ at \in Rest /\ Rest \subseteq Nat /\ at' = at + 1
           /\ Here \in LogicalLine /\ Here.key \in keys
           /\ Here.tokens \in Seq(Token) /\ Len(Here.tokens) \in Nat
           /\ Before' = Before \cup {at} /\ at \notin Before
           /\ Before \subseteq Nat
           /\ Place' /\ phase' = "lines" /\ phase = "lines"
<1>1. phase = "lines" /\ phase' = "lines" /\ at' = at + 1 /\ logical' = logical /\ at <= Len(logical)
  BY DEF Reading
<1>2. First \in 1..Len(logical) /\ at \in First + 1..Len(logical) + 1 /\ logical \in Seq(LogicalLine)
  BY <1>1 DEF IInv, Place, TypeOK
<1>3. Len(logical) \in Nat
  BY <1>2
<1>4. at \in 1..Len(logical) /\ at \in Rest /\ Rest \subseteq Nat
  BY <1>1, <1>2, <1>3 DEF Rest
<1>5. Here \in LogicalLine
  BY <1>2, <1>4 DEF Here
<1>6. Here.tokens \in Seq(Token)
  BY <1>5 DEF LogicalLine
<1>7. First' = First
  BY <1>1, SameLines
<1>8. Before' = Before \cup {at} /\ at \notin Before /\ Before \subseteq Nat
  BY <1>1, <1>2, <1>3, <1>7 DEF Before
<1>9. Place'
  BY <1>1, <1>2, <1>3, <1>4, <1>7 DEF Place
<1>10. Here.key \in keys
  BY DEF Reading
<1> QED
  BY <1>1, <1>4, <1>5, <1>6, <1>8, <1>9, <1>10

\* The side of the next line.
LEMMA NextSide ==
    ASSUME IInv, NEW keys, Reading(keys)
    PROVE  IsRemote(at') <=> \/ Here.key = "remotemetrics"
                             \/ Here.key \notin Sections /\ IsRemote(at)
<1>1. at \in Rest /\ at' = at + 1 /\ at \in Nat /\ Rest \subseteq Nat
  BY Round
<1>2. \A m \in Rest : m < at' <=> m < at \/ m = at
  BY <1>1
<1>3. CASE Here.key = "remotemetrics"
  <2>1. \A n \in at + 1..at' - 1 : FALSE
    BY <1>1
  <2>2. at < at'
    BY <1>1
  <2> QED
    BY <1>1, <1>3, <2>1, <2>2 DEF IsRemote, Here
<1>4. CASE Here.key \in {"localmetrics", "metrics"}
  <2>1. ASSUME NEW m \in Rest, m < at', logical[m].key = "remotemetrics"
        PROVE  at \in m + 1..at' - 1
    <3>1. m # at
      BY <1>4, <2>1 DEF Here
    <3> QED
      BY <1>1, <1>2, <2>1, <3>1
  <2>2. ~IsRemote(at')
    BY <1>4, <2>1 DEF IsRemote, Here
  <2> QED
    BY <1>4, <2>2 DEF Sections
<1>5. CASE Here.key \notin Sections
  <2>1. ASSUME NEW m \in Rest, m < at
        PROVE  /\ \A n \in m + 1..at - 1 : n \in m + 1..at' - 1
               /\ \A n \in m + 1..at' - 1 : n \in m + 1..at - 1 \/ n = at
    BY <1>1, <2>1
  <2>2. Here.key \notin {"localmetrics", "metrics", "remotemetrics"}
    BY <1>5 DEF Sections
  <2>3. IsRemote(at) => IsRemote(at')
    BY <1>2, <2>1, <2>2 DEF IsRemote, Here
  <2>4. IsRemote(at') => IsRemote(at)
    BY <1>2, <2>1, <2>2 DEF IsRemote, Here
  <2> QED
    BY <1>5, <2>2, <2>3, <2>4
<1> QED
  BY <1>3, <1>4, <1>5 DEF Sections

\* A line that names another party, or none.
LEMMA IdAdvance ==
    ASSUME IInv, NEW keys, Reading(keys), NEW id \in Parties,
           \/ Here.key \notin HeadersOf(id) /\ ids'[id] = ids[id]
           \/ Here.key \in HeadersOf(id) /\ ids'[id] = at
    PROVE  IdRead(id)'
<1>1. IdRead(id) /\ logical' = logical /\ Before' = Before \cup {at}
        /\ \A l \in Before : l <= at
  BY Round DEF IInv, ReadSoFar, Reading, Before, Place
<1> DEFINE named == {l \in Before : logical[l].key \in HeadersOf(id)}
           named1 == {l \in Before \cup {at} : logical[l].key \in HeadersOf(id)}
<1>2. SUFFICES IF named1 = {} THEN ids'[id] = 0
               ELSE ids'[id] \in named1 /\ \A l \in named1 : l <= ids'[id]
  BY <1>1 DEF IdRead
<1>3. CASE Here.key \notin HeadersOf(id) /\ ids'[id] = ids[id]
  <2>1. named1 = named
    BY <1>3 DEF Here
  <2> QED
    BY <1>1, <1>3, <2>1 DEF IdRead
<1>4. CASE Here.key \in HeadersOf(id) /\ ids'[id] = at
  <2>1. at \in named1 /\ \A l \in named1 : l <= at
    BY <1>1, <1>4, Round DEF Here
  <2> QED
    BY <1>4, <2>1
<1> QED
  BY <1>3, <1>4

LEMMA AddressAdvance ==
    ASSUME IInv, NEW keys, Reading(keys), NEW k \in Addresses, NEW n \in DOMAIN NoAddress,
           \/ Here.key # k /\ addresses'[k] = addresses[k]
           \/ Here.key = k /\ addresses'[k][n] = None
           \/ Here.key = k /\ addresses'[k][n][1] = at
    PROVE  AddressRead(k, n)'
<1>1. AddressRead(k, n) /\ logical' = logical /\ Before' = Before \cup {at}
        /\ at \in Nat /\ \A l \in Before : l <= at
  BY Round DEF IInv, ReadSoFar, Reading, Before, Place
<1>2. CASE Here.key # k /\ addresses'[k] = addresses[k]
  BY <1>1, <1>2 DEF AddressRead, Here
<1>3. CASE Here.key = k /\ addresses'[k][n] = None
  BY <1>3 DEF AddressRead
<1>4. CASE Here.key = k /\ addresses'[k][n][1] = at
  BY <1>1, <1>4 DEF AddressRead, Here
<1> QED
  BY <1>2, <1>3, <1>4

\* The observations of the line itself.
LEMMA MetricAdvance ==
    ASSUME IInv, NEW keys, Reading(keys),
           NEW side \in {"local", "remote"}, NEW name \in Metrics,
           LET here == {p \in Observations(side, name) : p[1] = at} IN
           \/ here = {} /\ metrics'[side][name] = metrics[side][name]
           \/ \E i \in Nat : /\ <<at, i>> \in here
                             /\ metrics'[side][name] = <<at, i>>
                             /\ \A p \in here : p[2] <= i
    PROVE  MetricRead(side, name)'
<1> DEFINE all == Observations(side, name)
           here == {p \in all : p[1] = at}
           obs == {p \in all : p[1] < at}
           obs1 == {p \in all : p[1] < at + 1}
<1>1. MetricRead(side, name) /\ all' = all /\ at' = at + 1 /\ at \in Nat
  <2>1. logical' = logical
    BY DEF Reading
  <2> QED
    BY <2>1, Round, SameLines DEF IInv, ReadSoFar
<1>2. \A p \in all : p[1] \in Nat /\ p[2] \in Nat
  <2>1. \A p \in all : \E l \in Rest : \E i \in 1..Len(logical[l].tokens) : p = <<l, i>>
    BY TokenPlaces DEF Observations, MetricTokens
  <2>2. Rest \subseteq Nat
    BY Round
  <2> QED
    BY <2>1, <2>2
<1>3. obs1 = obs \cup here
  BY <1>1, <1>2
<1>4. SUFFICES IF obs1 = {} THEN metrics'[side][name] = None
               ELSE /\ metrics'[side][name] \in obs1
                    /\ \A p \in obs1 : ~After(p, metrics'[side][name])
  BY <1>1 DEF MetricRead, After
<1>5. CASE here = {} /\ metrics'[side][name] = metrics[side][name]
  BY <1>1, <1>3, <1>5 DEF MetricRead
<1>6. ASSUME NEW i \in Nat, <<at, i>> \in here, metrics'[side][name] = <<at, i>>,
             \A p \in here : p[2] <= i
      PROVE  /\ metrics'[side][name] \in obs1
             /\ \A p \in obs1 : ~After(p, metrics'[side][name])
  <2>1. <<at, i>> \in obs1
    BY <1>3, <1>6
  <2>2. ASSUME NEW p \in obs1 PROVE ~After(p, <<at, i>>)
    <3>1. CASE p \in obs
      BY <1>1, <1>2, <3>1 DEF After
    <3>2. CASE p \in here
      BY <1>1, <1>2, <1>6, <3>2 DEF After
    <3> QED
      BY <1>3, <3>1, <3>2
  <2> QED
    BY <1>6, <2>1, <2>2
<1>7. CASE \E i \in Nat : /\ <<at, i>> \in here
                          /\ metrics'[side][name] = <<at, i>>
                          /\ \A p \in here : p[2] <= i
  <2>1. obs1 # {}
    BY <1>3, <1>7
  <2> QED
    BY <1>6, <1>7, <2>1
<1> QED
  BY <1>5, <1>7

\* Which of its tokens are observations, and of which side.
LEMMA HereObservations ==
    ASSUME IInv, NEW keys, Reading(keys),
           NEW side \in {"local", "remote"}, NEW name \in Metrics
    PROVE  LET here == {p \in Observations(side, name) : p[1] = at} IN
           /\ Here.key \notin MetricKeys \/ side # (IF local THEN "local" ELSE "remote") =>
                 here = {}
           /\ \A p \in here : p = <<at, p[2]>> /\ p[2] \in 1..Len(Here.tokens)
           /\ Here.key \in MetricKeys /\ side = (IF local THEN "local" ELSE "remote") =>
                 \A i \in 1..Len(Here.tokens) :
                     <<at, i>> \in here <=> <<at, i>> \in Observed /\ Here.tokens[i].name = name
<1> DEFINE here == {p \in Observations(side, name) : p[1] = at}
<1>1. at \in Rest /\ Here = logical[at] /\ (local <=> ~IsRemote(at)) /\ local \in BOOLEAN
  BY Round DEF Here, IInv, ReadSoFar, TypeOK
<1>2. \A p \in here : /\ Here.key \in MetricKeys
                      /\ p = <<at, p[2]>> /\ p[2] \in 1..Len(Here.tokens)
  BY <1>1, TokenPlaces DEF Observations, MetricTokens, MetricKeys
<1>3. here # {} => side = IF local THEN "local" ELSE "remote"
  BY <1>1 DEF Observations
<1>4. ASSUME NEW i \in 1..Len(Here.tokens), Here.key \in MetricKeys,
             side = IF local THEN "local" ELSE "remote"
      PROVE  <<at, i>> \in here <=> <<at, i>> \in Observed /\ Here.tokens[i].name = name
  <2> DEFINE t == Here.tokens[i]
  <2>1. AsToken(<<at, i>>) = t
    BY <1>1 DEF AsToken
  <2>2. <<at, i>> \in MetricTokens /\ <<at, i>> \in Places
    BY <1>1, <1>4, TokenPlaces DEF MetricTokens, MetricKeys, Places
  <2>3. IsRemote(<<at, i>>[1]) <=> side = "remote"
    BY <1>1, <1>4
  <2>4. <<at, i>> \in Observed <=> IsMetric(t)
    BY <2>1, <2>2 DEF Observed
  <2>5. <<at, i>> \in here <=>
          /\ t.name = name
          /\ CASE name = "pd" -> TRUE
               [] name = "pt" -> t.value \in {"small", "127"}
               [] name = "rerl" -> t.value \in {"small", "big", "real"}
               [] OTHER -> t.value \in {"small", "127", "big", "real"}
    BY <2>1, <2>2, <2>3 DEF Observations
  <2>6. t.name = name =>
          (IsMetric(t) <=>
             CASE name = "pd" -> TRUE
               [] name = "pt" -> t.value \in {"small", "127"}
               [] name = "rerl" -> t.value \in {"small", "big", "real"}
               [] OTHER -> t.value \in {"small", "127", "big", "real"})
    BY DEF IsMetric, Metrics, Number, Unavailable
  <2> QED
    BY <2>4, <2>5, <2>6
<1> QED
  BY <1>2, <1>3, <1>4

\* A line that is no metric line stores no metric.
LEMMA NoMetricAdvance ==
    ASSUME IInv, NEW keys, Reading(keys), metrics' = metrics,
           Here.key \notin MetricKeys \/ Here.tokens = <<>>,
           NEW side \in {"local", "remote"}, NEW name \in Metrics
    PROVE  MetricRead(side, name)'
<1> DEFINE here == {p \in Observations(side, name) : p[1] = at}
<1>1. CASE Here.key \notin MetricKeys
  BY <1>1, HereObservations, MetricAdvance
<1>2. CASE Here.tokens = <<>>
  <2>1. \A p \in here : p[2] \in 1..Len(Here.tokens)
    BY HereObservations
  <2>2. here = {}
    BY <1>2, <2>1
  <2> QED
    BY <2>2, MetricAdvance
<1> QED
  BY <1>1, <1>2

LEMMA RoundReads ==
    ASSUME IInv, NEW keys, Reading(keys),
           local' = (IF Here.key \in Sections THEN Here.key # "remotemetrics" ELSE local),
           \A id \in Parties : IdRead(id)',
           \A k \in Addresses, n \in DOMAIN NoAddress : AddressRead(k, n)',
           \A side \in {"local", "remote"}, name \in Metrics : MetricRead(side, name)'
    PROVE  ReadSoFar'
<1>1. dialect' = dialect /\ logical' = logical /\ dialect = Detected /\ (local <=> ~IsRemote(at))
  BY Round DEF Reading, IInv, ReadSoFar
<1>2. Detected' = Detected /\ IsRemote(at)' = IsRemote(at')
  BY <1>1, SameLines
<1>3. local' <=> ~IsRemote(at')
  BY <1>1, NextSide DEF Sections
<1> QED
  BY <1>1, <1>2, <1>3 DEF ReadSoFar

LEMMA RoundTypes ==
    ASSUME IInv, NEW keys, Reading(keys), Shape', local' \in BOOLEAN,
           \A k \in Parties : ids'[k] \in {ids[k], at},
           fields \subseteq fields', fields' \subseteq fields \cup {<<at, 0>>} \cup Places,
           unknown' \subseteq unknown \cup {<<at, 0>>} \cup Places,
           \A k \in Addresses, n \in DOMAIN NoAddress :
               addresses'[k][n] \in {addresses[k][n], None} \cup fields',
           \A s \in {"local", "remote"}, n \in Metrics :
               metrics'[s][n] \in {metrics[s][n]} \cup fields'
    PROVE  TypeOK'
<1>1. /\ logical' = logical /\ phase' = "lines" /\ dialect' = dialect
      /\ reportType' = reportType /\ at \in 1..Len(logical) /\ at' = at + 1
  BY Round DEF Reading
<1>2. \A p \in {<<at, 0>>} \cup Places :
          p[1] \in 1..Len(logical) /\ p[2] \in 0..Len(logical[p[1]].tokens)
  BY <1>1, Round DEF Places, Here
<1>3. \A p \in fields' \cup unknown' :
          p[1] \in 1..Len(logical) /\ p[2] \in 0..Len(logical[p[1]].tokens)
  BY <1>2 DEF IInv, TypeOK
<1>4. \A k \in Parties : ids'[k] \in 0..Len(logical)
  BY <1>1 DEF IInv, TypeOK, Shape
<1>5. at' \in 1..Len(logical) + 1
  BY <1>1, Round DEF IInv, TypeOK
<1> QED
  BY <1>1, <1>3, <1>4, <1>5 DEF IInv, TypeOK, Shape

-----------------------------------------------------------------------------
(* The actions *)

\* A line that names no party, gives no address.
LEMMA NoIdAdvance ==
    ASSUME IInv, NEW keys, Reading(keys), ids' = ids, Here.key \notin Identities
    PROVE  \A id \in Parties : IdRead(id)'
<1>1. \A id \in Parties : HeadersOf(id) \subseteq Identities
  BY DEF Parties, HeadersOf, Identities
<1> QED
  BY <1>1, IdAdvance

LEMMA NoAddressAdvance ==
    ASSUME IInv, NEW keys, Reading(keys), addresses' = addresses, Here.key \notin Addresses
    PROVE  \A k \in Addresses, n \in DOMAIN NoAddress : AddressRead(k, n)'
  BY AddressAdvance

LEMMA PlainRound ==
    ASSUME IInv, NEW keys, Reading(keys), UNCHANGED <<local, ids, addresses, metrics>>,
           Here.key \notin Identities \cup Sections \cup Addresses,
           Here.key \notin MetricKeys \/ Here.tokens = <<>>,
           fields' \in {fields, fields \cup {<<at, 0>>}},
           unknown' \in {unknown, unknown \cup {<<at, 0>>}}
    PROVE  IInv'
<1>1. Shape'
  BY DEF Shape, IInv, Reading
<1>2. ReadSoFar'
  BY NoIdAdvance, NoAddressAdvance, NoMetricAdvance, RoundReads
<1>3. TypeOK'
  BY <1>1, RoundTypes DEF IInv, TypeOK
<1> QED
  BY <1>1, <1>2, <1>3, Round DEF IInv

LEMMA SkipBlankStep == IInv /\ SkipBlank => IInv'
<1> SUFFICES ASSUME IInv, SkipBlank PROVE IInv'
  OBVIOUS
<1>1. Reading({"blank"}) /\ Here.key = "blank"
  BY DEF SkipBlank, Reading
<1> QED
  BY <1>1, PlainRound
     DEF SkipBlank, Identities, Sections, Addresses, MetricKeys, ReportTypes

LEMMA NoColonStep == IInv /\ NoColon => IInv'
<1> SUFFICES ASSUME IInv, NoColon PROVE IInv'
  OBVIOUS
<1>1. Reading({"no colon"}) /\ Here.key = "no colon"
  BY DEF NoColon, Reading
<1> QED
  BY <1>1, PlainRound
     DEF NoColon, Identities, Sections, Addresses, MetricKeys, ReportTypes

LEMMA UnknownHeaderStep == IInv /\ UnknownHeader => IInv'
<1> SUFFICES ASSUME IInv, UnknownHeader PROVE IInv'
  OBVIOUS
<1>1. Reading(MetricKeys) /\ Here.key \in MetricKeys
  BY DEF UnknownHeader, Reading, MetricKeys
<1>2. Here.key \notin Identities \cup Sections \cup Addresses
  BY <1>1 DEF Identities, Sections, Addresses, MetricKeys, ReportTypes
<1> QED
  BY <1>1, <1>2, PlainRound DEF UnknownHeader

LEMMA SectionStep == IInv /\ Section => IInv'
<1> SUFFICES ASSUME IInv, Section PROVE IInv'
  OBVIOUS
<1>1. Reading(Sections) /\ Here.key \in Sections
  BY DEF Section, Reading
<1>2. Here.key \notin Identities /\ Here.key \notin Addresses /\ Here.key \notin MetricKeys
  BY <1>1 DEF Identities, Sections, Addresses, MetricKeys, ReportTypes
<1>3. Shape'
  BY DEF Shape, IInv, Section, Reading
<1>4. ReadSoFar'
  BY <1>1, <1>2, NoIdAdvance, NoAddressAdvance, NoMetricAdvance, RoundReads DEF Section
<1>5. TypeOK'
  BY <1>1, <1>3, RoundTypes DEF IInv, TypeOK, Section
<1> QED
  BY <1>1, <1>3, <1>4, <1>5, Round DEF IInv

LEMMA IdentityStep == IInv /\ Identity => IInv'
<1> SUFFICES ASSUME IInv, Identity PROVE IInv'
  OBVIOUS
<1> DEFINE id == CASE Here.key = "toid" -> "remoteid"
                   [] Here.key = "fromid" -> "localid"
                   [] OTHER -> Here.key
<1>1. Reading(Identities) /\ Here.key \in Identities
  BY DEF Identity, Reading
<1>2. Here.key \notin Sections /\ Here.key \notin Addresses /\ Here.key \notin MetricKeys
  BY <1>1 DEF Identities, Sections, Addresses, MetricKeys, ReportTypes
<1>3. ids' = [ids EXCEPT ![id] = at]
  BY DEF Identity
<1>4. id \in Parties /\ \A p \in Parties : Here.key \in HeadersOf(p) <=> p = id
  BY <1>1 DEF Identities, Parties, HeadersOf
<1>5. DOMAIN ids = Parties
  BY DEF IInv, Shape
<1> HIDE DEF id
<1>6. \A p \in Parties : ids'[p] = IF p = id THEN at ELSE ids[p]
  BY <1>3, <1>4, <1>5
<1>7. Shape'
  BY <1>3 DEF Shape, IInv, Identity, Reading
<1>8. \A p \in Parties : IdRead(p)'
  BY <1>1, <1>4, <1>6, IdAdvance
<1>9. ReadSoFar'
  BY <1>1, <1>2, <1>8, NoAddressAdvance, NoMetricAdvance, RoundReads DEF Identity
<1>10. TypeOK'
  BY <1>1, <1>6, <1>7, RoundTypes DEF IInv, TypeOK, Identity
<1> QED
  BY <1>1, <1>7, <1>9, <1>10, Round DEF IInv

LEMMA AddressLineStep == IInv /\ AddressLine => IInv'
<1> SUFFICES ASSUME IInv, AddressLine PROVE IInv'
  OBVIOUS
<1>1. Reading(Addresses) /\ Here.key \in Addresses /\ Len(Here.tokens) \in Nat
  BY Round DEF AddressLine, Reading
<1>2. Here.key \notin Sections /\ Here.key \notin Identities /\ Here.key \notin MetricKeys
  BY <1>1 DEF Identities, Sections, Addresses, MetricKeys, ReportTypes
<1>3. addresses' = [addresses EXCEPT ![Here.key] = Stored(NoAddress, Components)]
  BY DEF AddressLine
<1>4. \A k \in Addresses : addresses'[k] =
          IF k = Here.key THEN Stored(NoAddress, Components) ELSE addresses[k]
  BY <1>1, <1>3 DEF IInv, Shape
<1>5. DOMAIN Stored(NoAddress, Components) = DOMAIN NoAddress
  BY DEF Stored
<1>6. ASSUME NEW n \in DOMAIN NoAddress
      PROVE  \/ Stored(NoAddress, Components)[n] = None
             \/ /\ Stored(NoAddress, Components)[n] \in Places
                /\ Stored(NoAddress, Components)[n][1] = at
  <2>1. NoAddress[n] = None
    BY DEF NoAddress
  <2>2. CASE Stored(NoAddress, Components)[n] = NoAddress[n]
    BY <2>1, <2>2
  <2>3. ASSUME NEW i \in 1..Len(Here.tokens), Stored(NoAddress, Components)[n] = <<at, i>>
        PROVE  /\ Stored(NoAddress, Components)[n] \in Places
               /\ Stored(NoAddress, Components)[n][1] = at
    BY <2>3 DEF Places
  <2>4. \/ Stored(NoAddress, Components)[n] = NoAddress[n]
        \/ \E i \in 1..Len(Here.tokens) :
              /\ Stored(NoAddress, Components)[n] = <<at, i>>
              /\ <<at, i>> \in Components /\ Here.tokens[i].name = n
              /\ \A j \in 1..Len(Here.tokens) :
                    <<at, j>> \in Components /\ Here.tokens[j].name = n => j <= i
    BY <1>1, StoredLast
  <2> QED
    BY <2>2, <2>3, <2>4
<1>7. Shape'
  BY <1>3, <1>4, <1>5 DEF Shape, IInv, AddressLine, Reading
<1>8. \A k \in Addresses, n \in DOMAIN NoAddress : AddressRead(k, n)'
  BY <1>1, <1>4, <1>6, AddressAdvance
<1>9. ReadSoFar'
  BY <1>1, <1>2, <1>8, NoIdAdvance, NoMetricAdvance, RoundReads DEF AddressLine
<1>10. fields' = fields \cup Places /\ unknown' \subseteq unknown \cup Places
         /\ UNCHANGED <<local, ids, metrics>>
  BY DEF AddressLine
<1>11. \A k \in Addresses, n \in DOMAIN NoAddress :
           addresses'[k][n] \in {addresses[k][n], None} \cup fields'
  BY <1>4, <1>6, <1>10
<1>12. TypeOK'
  BY <1>1, <1>7, <1>10, <1>11, RoundTypes DEF IInv, TypeOK
<1> QED
  BY <1>1, <1>7, <1>9, <1>12, Round DEF IInv

LEMMA MetricLineStep == IInv /\ MetricLine => IInv'
<1> SUFFICES ASSUME IInv, MetricLine PROVE IInv'
  OBVIOUS
<1> DEFINE side == IF local THEN "local" ELSE "remote"
<1>1. Reading(MetricKeys) /\ Here.key \in MetricKeys /\ Len(Here.tokens) \in Nat
  BY Round DEF MetricLine, Reading, MetricKeys
<1>2. Here.key \notin Sections /\ Here.key \notin Identities /\ Here.key \notin Addresses
  BY <1>1 DEF Identities, Sections, Addresses, MetricKeys, ReportTypes
<1>3. metrics' = [metrics EXCEPT ![side] = Stored(metrics[side], Observed)]
  BY DEF MetricLine
<1>4. side \in {"local", "remote"} /\ DOMAIN metrics = {"local", "remote"}
        /\ \A s \in {"local", "remote"} : DOMAIN metrics[s] = Metrics
  BY DEF IInv, Shape
<1> HIDE DEF side
<1>5. \A s \in {"local", "remote"} : metrics'[s] =
          IF s = side THEN Stored(metrics[side], Observed) ELSE metrics[s]
  BY <1>3, <1>4
<1>6. DOMAIN Stored(metrics[side], Observed) = Metrics
  BY <1>4 DEF Stored
<1>7. Shape'
  BY <1>3, <1>4, <1>5, <1>6 DEF Shape, IInv, MetricLine, Reading
<1>8. ASSUME NEW s \in {"local", "remote"}, NEW name \in Metrics
      PROVE  /\ MetricRead(s, name)'
             /\ metrics'[s][name] \in {metrics[s][name]} \cup Places
  <2> DEFINE here == {p \in Observations(s, name) : p[1] = at}
             of == {i \in 1..Len(Here.tokens) :
                      <<at, i>> \in Observed /\ Here.tokens[i].name = name}
  <2>1. CASE s # side
    <3>1. here = {}
      BY <1>1, <2>1, HereObservations DEF side
    <3> QED
      BY <1>1, <1>5, <2>1, <3>1, MetricAdvance
  <2>2. CASE s = side
    <3>1. \A p \in here : p = <<at, p[2]>> /\ p[2] \in 1..Len(Here.tokens)
      BY <1>1, HereObservations
    <3>2. \A i \in 1..Len(Here.tokens) : <<at, i>> \in here <=> i \in of
      BY <1>1, <2>2, HereObservations DEF side
    <3>3. metrics'[s][name] = Stored(metrics[side], Observed)[name]
      BY <1>5, <2>2
    <3>4. name \in DOMAIN metrics[side]
      BY <1>4
    <3>5. CASE /\ Stored(metrics[side], Observed)[name] = metrics[side][name]
               /\ \A i \in 1..Len(Here.tokens) : i \notin of
      <4>1. here = {}
        BY <3>1, <3>2, <3>5
      <4>2. metrics'[s][name] = metrics[s][name]
        BY <2>2, <3>3, <3>5
      <4> QED
        BY <1>1, <4>1, <4>2, MetricAdvance
    <3>6. ASSUME NEW i \in 1..Len(Here.tokens), i \in of,
                 Stored(metrics[side], Observed)[name] = <<at, i>>,
                 \A j \in 1..Len(Here.tokens) : j \in of => j <= i
          PROVE  /\ MetricRead(s, name)'
                 /\ metrics'[s][name] \in {metrics[s][name]} \cup Places
      <4>1. metrics'[s][name] = <<at, i>> /\ i \in Nat /\ <<at, i>> \in here
        BY <3>2, <3>3, <3>6
      <4>2. \A p \in here : p[2] <= i
        BY <3>1, <3>2, <3>6
      <4>3. MetricRead(s, name)'
        BY <1>1, <4>1, <4>2, MetricAdvance
      <4> QED
        BY <3>6, <4>1, <4>3 DEF Places
    <3>7. \/ /\ Stored(metrics[side], Observed)[name] = metrics[side][name]
             /\ \A i \in 1..Len(Here.tokens) : i \notin of
          \/ \E i \in 1..Len(Here.tokens) :
                /\ Stored(metrics[side], Observed)[name] = <<at, i>>
                /\ i \in of
                /\ \A j \in 1..Len(Here.tokens) : j \in of => j <= i
      BY <1>1, <3>4, StoredLast
    <3> HIDE DEF of
    <3> QED
      BY <3>5, <3>6, <3>7
  <2> QED
    BY <2>1, <2>2
<1>9. ReadSoFar'
  BY <1>1, <1>2, <1>8, NoIdAdvance, NoAddressAdvance, RoundReads DEF MetricLine
<1>10. fields' = fields \cup Places /\ unknown' \subseteq unknown \cup Places
         /\ UNCHANGED <<local, ids, addresses>>
  BY DEF MetricLine
<1>11. TypeOK'
  BY <1>1, <1>7, <1>8, <1>10, RoundTypes DEF IInv, TypeOK
<1> QED
  BY <1>1, <1>7, <1>9, <1>11, Round DEF IInv

LEMMA FoldStep == IInv /\ Fold => IInv'
<1> SUFFICES ASSUME IInv, Fold PROVE IInv'
  OBVIOUS
<1>1. phase = "folding" /\ body \in Seq(Line) /\ at \in 1..Len(body) /\ logical \in Seq(LogicalLine)
  BY DEF IInv, TypeOK, Shape, Fold
<1>2. body[at] \in Line
  BY <1>1
<1>3. AddLine(logical, body[at]) \in Seq(LogicalLine)
  <2> DEFINE line == body[at]
             last == Last(logical)
             joined == [key |-> IF last.key = "blank" THEN line.key ELSE last.key,
                        tokens |-> last.tokens \o line.tokens]
  <2>1. CASE line.fold /\ logical # <<>>
    <3>1. last \in LogicalLine
      BY <1>1, <2>1 DEF Last
    <3>2. last.key \in Keys /\ line.key \in Keys
            /\ last.tokens \in Seq(Token) /\ line.tokens \in Seq(Token)
      BY <1>2, <3>1 DEF LogicalLine, Line
    <3>3. joined \in LogicalLine
      BY <3>2 DEF LogicalLine
    <3>4. Front(logical) \in Seq(LogicalLine)
      BY <1>1, <2>1 DEF Front
    <3>5. AddLine(logical, line) = Append(Front(logical), joined)
      BY <2>1 DEF AddLine
    <3> QED
      BY <3>3, <3>4, <3>5
  <2>2. CASE ~(line.fold /\ logical # <<>>)
    <3>1. [key |-> line.key, tokens |-> line.tokens] \in LogicalLine
      BY <1>2 DEF LogicalLine, Line
    <3>2. AddLine(logical, line) = Append(logical, [key |-> line.key, tokens |-> line.tokens])
      BY <2>2 DEF AddLine
    <3> QED
      BY <1>1, <3>1, <3>2
  <2> QED
    BY <2>1, <2>2
<1>4. /\ phase' = "folding" /\ body' = body /\ at' \in 1..Len(body) + 1
      /\ logical' \in Seq(LogicalLine)
      /\ UNCHANGED <<local, result>>
  BY <1>1, <1>3 DEF Fold
<1>5. Place' /\ Shape' /\ ReadSoFar'
  BY <1>1, <1>4 DEF IInv, Place, Shape, ReadSoFar, result
<1>6. TypeOK'
  <2>1. Place
    BY DEF IInv
  <2>2. Len(logical') \in Nat /\ \A k \in DOMAIN ids : ids[k] = 0
    BY <1>1, <1>4, <2>1 DEF Place
  <2>3. /\ \A k \in Addresses, n \in DOMAIN NoAddress : addresses[k][n] = None
        /\ \A s \in {"local", "remote"}, n \in Metrics : metrics[s][n] = None
    BY <1>1, <2>1 DEF Place, NoAddress, NoMetrics
  <2> QED
    BY <1>1, <1>4, <2>1, <2>2, <2>3 DEF IInv, TypeOK, Place, result
<1> QED
  BY <1>5, <1>6 DEF IInv

LEMMA RefuseStep == IInv /\ Refuse => IInv'
<1> SUFFICES ASSUME IInv, Refuse PROVE IInv'
  OBVIOUS
<1>1. phase = "folding" /\ phase' = "refused" /\ UNCHANGED <<body, logical, at, local, result>>
  BY DEF Refuse, Folded
<1>2. TypeOK'
  BY <1>1 DEF IInv, TypeOK, result
<1> QED
  BY <1>1, <1>2 DEF IInv, Shape, Place, ReadSoFar, result

LEMMA StartStep == IInv /\ Start => IInv'
<1> SUFFICES ASSUME IInv, Start PROVE IInv'
  OBVIOUS
<1>1. /\ phase = "folding" /\ phase' = "lines" /\ at' = First + 1 /\ dialect' = Detected
      /\ reportType' = logical[First].key /\ fields' = {<<First, 0>>} /\ HasReportLine
      /\ UNCHANGED <<body, logical, local, ids, addresses, metrics, unknown>>
  BY DEF Start, Folded
<1>2. logical \in Seq(LogicalLine) /\ Len(logical) \in Nat /\ First \in 1..Len(logical)
  BY <1>1, FirstLine DEF IInv, TypeOK
<1>3. First' = First /\ Detected' = Detected /\ Rest' = Rest /\ IsRemote(at)' = IsRemote(at')
        /\ \A side, name : Observations(side, name)' = Observations(side, name)
  BY <1>1, SameLines
<1>4. Before' = {} /\ Rest \subseteq Nat /\ \A l \in Rest : l >= at'
  BY <1>1, <1>2, <1>3 DEF Before, Rest
<1>5. \A side, name : {p \in Observations(side, name) : p[1] < at'} = {}
  <2>1. ASSUME NEW side, NEW name, NEW p \in Observations(side, name), p[1] < at'
        PROVE  FALSE
    <3>1. PICK l \in Rest : \E i \in 1..Len(logical[l].tokens) : p = <<l, i>>
      BY <2>1, TokenPlaces DEF Observations, MetricTokens
    <3> QED
      BY <1>1, <1>2, <1>4, <2>1, <3>1
  <2> QED
    BY <2>1
<1>6. ~IsRemote(at')
  BY <1>1, <1>2, <1>4 DEF IsRemote
<1>7. /\ local = TRUE /\ unknown = {}
      /\ \A id \in Parties : ids[id] = 0
      /\ \A k \in Addresses, n \in DOMAIN NoAddress : addresses[k][n] = None
      /\ \A s \in {"local", "remote"}, n \in Metrics : metrics[s][n] = None
  BY <1>1 DEF IInv, Place, NoAddress, NoMetrics
<1>8. Shape'
  BY <1>1 DEF IInv, Shape
<1>9. Place'
  BY <1>1, <1>2, <1>3 DEF Place
<1>10. ReadSoFar'
  <2>1. \A id \in Parties : IdRead(id)'
    BY <1>1, <1>4, <1>7 DEF IdRead
  <2>2. \A k \in Addresses, n \in DOMAIN NoAddress : AddressRead(k, n)'
    BY <1>1, <1>7 DEF AddressRead
  <2>3. \A side \in {"local", "remote"}, name \in Metrics : MetricRead(side, name)'
    BY <1>1, <1>3, <1>5, <1>7 DEF MetricRead
  <2> QED
    BY <1>1, <1>3, <1>6, <1>7, <2>1, <2>2, <2>3 DEF ReadSoFar
<1>11. TypeOK'
  <2>1. at' \in 1..Len(logical) + 1
    BY <1>1, <1>2
  <2>2. Detected \in {"standard", "prestandard"} /\ logical[First].key \in ReportTypes
    BY <1>1 DEF Detected, HasReportLine
  <2>3. Len(logical[First].tokens) \in Nat
    <3>1. logical[First] \in LogicalLine
      BY <1>2
    <3>2. logical[First].tokens \in Seq(Token)
      BY <3>1 DEF LogicalLine
    <3> QED
      BY <3>2
  <2>4. \A k \in DOMAIN ids : ids[k] = 0
    BY <1>7 DEF IInv, Shape
  <2> QED
    BY <1>1, <1>2, <1>7, <2>1, <2>2, <2>3, <2>4 DEF TypeOK
<1> QED
  BY <1>8, <1>9, <1>10, <1>11 DEF IInv

LEMMA FinishStep == IInv /\ Finish => IInv'
<1> SUFFICES ASSUME IInv, Finish PROVE IInv'
  OBVIOUS
<1>1. /\ phase = "lines" /\ phase' = "parsed" /\ at > Len(logical)
      /\ UNCHANGED <<body, logical, at, local, result>>
  BY DEF Finish
<1>2. UNCHANGED <<dialect, reportType, ids, addresses, metrics, fields, unknown>>
  BY <1>1 DEF result
<1>3. First' = First /\ Detected' = Detected /\ Before' = Before
        /\ \A side, name : Observations(side, name)' = Observations(side, name)
  BY <1>1, SameLines DEF Before
<1>4. TypeOK' /\ Shape'
  BY <1>1, <1>2 DEF IInv, TypeOK, Shape
<1>5. Place'
  BY <1>1, <1>3 DEF IInv, Place, TypeOK
<1>6. ReadSoFar'
  <2>1. \A id \in Parties : IdRead(id)'
    BY <1>1, <1>2, <1>3 DEF IInv, ReadSoFar, IdRead
  <2>2. \A k \in Addresses, n \in DOMAIN NoAddress : AddressRead(k, n)'
    BY <1>1, <1>2, <1>3 DEF IInv, ReadSoFar, AddressRead
  <2>3. \A side \in {"local", "remote"}, name \in Metrics : MetricRead(side, name)'
    BY <1>1, <1>2, <1>3 DEF IInv, ReadSoFar, MetricRead, After
  <2> QED
    BY <1>1, <1>2, <1>3, <2>1, <2>2, <2>3 DEF IInv, ReadSoFar
<1> QED
  BY <1>4, <1>5, <1>6 DEF IInv

LEMMA Stutter == IInv /\ UNCHANGED vars => IInv'
<1> SUFFICES ASSUME IInv, UNCHANGED vars PROVE IInv'
  OBVIOUS
<1>1. UNCHANGED <<body, logical, phase, at, local, dialect, reportType, ids, addresses,
                  metrics, fields, unknown>>
  BY DEF vars
<1>2. First' = First /\ Detected' = Detected /\ Before' = Before
        /\ IsRemote(at)' = IsRemote(at')
        /\ \A side, name : Observations(side, name)' = Observations(side, name)
  BY <1>1, SameLines DEF Before
<1>3. TypeOK' /\ Shape' /\ Place'
  BY <1>1, <1>2 DEF IInv, TypeOK, Shape, Place
<1>4. ReadSoFar'
  <2>1. \A id : IdRead(id)' <=> IdRead(id)
    BY <1>1, <1>2 DEF IdRead
  <2>2. \A k, n : AddressRead(k, n)' <=> AddressRead(k, n)
    BY <1>1, <1>2 DEF AddressRead
  <2>3. \A side, name : MetricRead(side, name)' <=> MetricRead(side, name)
    BY <1>1, <1>2 DEF MetricRead, After
  <2> QED
    BY <1>1, <1>2, <2>1, <2>2, <2>3 DEF IInv, ReadSoFar
<1> QED
  BY <1>3, <1>4 DEF IInv

LEMMA InitHolds == Init => IInv
<1> SUFFICES ASSUME Init PROVE IInv
  OBVIOUS
<1>1. body \in Seq(Line)
  BY BodiesAssumption DEF Init
<1>2. Shape /\ Place /\ ReadSoFar
  <2>1. DOMAIN ids = Parties /\ ids = [k \in Parties |-> 0]
    BY DEF Init, Parties
  <2>2. /\ DOMAIN addresses = Addresses
        /\ \A k \in Addresses : DOMAIN addresses[k] = DOMAIN NoAddress
    BY DEF Init
  <2>3. /\ DOMAIN metrics = {"local", "remote"}
        /\ \A s \in {"local", "remote"} : DOMAIN metrics[s] = Metrics
    BY DEF Init, NoMetrics
  <2>4. Shape
    BY <1>1, <2>1, <2>2, <2>3 DEF Shape
  <2>5. Place
    BY <2>1 DEF Init, Place
  <2>6. ReadSoFar
    BY DEF Init, ReadSoFar
  <2> QED
    BY <2>4, <2>5, <2>6
<1>3. TypeOK
  <2>1. <<>> \in Seq(LogicalLine) /\ Len(body) \in Nat
    BY <1>1
  <2>2. \A k \in DOMAIN ids : ids[k] = 0
    BY DEF Init
  <2>3. /\ \A k \in Addresses, n \in DOMAIN NoAddress : addresses[k][n] = None
        /\ \A s \in {"local", "remote"}, n \in Metrics : metrics[s][n] = None
    BY DEF Init, NoAddress, NoMetrics
  <2> QED
    BY <2>1, <2>2, <2>3 DEF Init, TypeOK
<1> QED
  BY <1>2, <1>3 DEF IInv

LEMMA NextHolds == IInv /\ [Next]_vars => IInv'
  BY FoldStep, RefuseStep, StartStep, SkipBlankStep, NoColonStep, IdentityStep, SectionStep,
     AddressLineStep, MetricLineStep, UnknownHeaderStep, FinishStep, Stutter DEF Next

-----------------------------------------------------------------------------
(* The tokens of the lines *)

\* The function TokensUpTo is defined by exists, and gives sequences of tokens.
LEMMA TokensFunction ==
    ASSUME NEW lines, NEW k \in Nat, \A m \in 1..k : lines[m].tokens \in Seq(Token)
    PROVE  \E f : /\ f \in [0..k -> Seq(Token)] /\ f[0] = <<>>
                  /\ \A m \in 1..k : f[m] = f[m - 1] \o lines[m].tokens
                  /\ TokensUpTo(lines, k) = f[k]
<1> DEFINE S == Seq(Token)
           Is(f) == f = [m \in 0..k |-> IF m = 0 THEN <<>> ELSE f[m - 1] \o lines[m].tokens]
           To(f, n) == /\ f \in [0..n -> S] /\ f[0] = <<>>
                       /\ \A m \in 1..n : f[m] = f[m - 1] \o lines[m].tokens
           Reached == {n \in 0..k : \E f : To(f, n)}
<1>1. <<>> \in S /\ \A m \in 1..k, t \in S : t \o lines[m].tokens \in S
  OBVIOUS
<1>2. 0 \in Reached
  <2>1. To([m \in 0..0 |-> <<>>], 0)
    BY <1>1
  <2>2. 0 \in 0..k
    OBVIOUS
  <2> HIDE DEF To
  <2> QED
    BY <2>1, <2>2
<1>3. ASSUME NEW n \in 1..k, n - 1 \in Reached PROVE n \in Reached
  <2>1. PICK f : To(f, n - 1)
    BY <1>3
  <2> DEFINE next == f[n - 1] \o lines[n].tokens
             g == [m \in 0..n |-> IF m = n THEN next ELSE f[m]]
  <2>2. n - 1 \in 0..n - 1 /\ f[n - 1] \in S
    BY <2>1
  <2>3. next \in S
    BY <1>1, <2>2
  <2>4. \A m \in 1..n - 1 : f[m] = f[m - 1] \o lines[m].tokens
    BY <2>1
  <2>5. f \in [0..n - 1 -> S] /\ f[0] = <<>>
    BY <2>1
  <2>6. g \in [0..n -> S] /\ g[0] = <<>>
    <3> HIDE DEF S, next
    <3> QED
      BY <2>3, <2>5
  <2>7. \A m \in 1..n : g[m] = g[m - 1] \o lines[m].tokens
    <3> SUFFICES ASSUME NEW m \in 1..n PROVE g[m] = g[m - 1] \o lines[m].tokens
      OBVIOUS
    <3>1. m \in 0..n /\ m - 1 \in 0..n /\ m - 1 # n
      OBVIOUS
    <3>2. g[m - 1] = f[m - 1]
      BY <3>1
    <3>3. CASE m = n
      BY <3>1, <3>2, <3>3
    <3>4. CASE m # n
      <4>1. m \in 1..n - 1 /\ g[m] = f[m]
        BY <3>1, <3>4
      <4> QED
        BY <2>4, <3>2, <4>1
    <3> QED
      BY <3>3, <3>4
  <2>8. To(g, n)
    <3> HIDE DEF g, S
    <3> QED
      BY <2>6, <2>7
  <2>9. n \in 0..k
    OBVIOUS
  <2> HIDE DEF To, g
  <2> QED
    BY <2>8, <2>9
<1>4. PICK f : To(f, k)
  <2> HIDE DEF Reached
  <2>1. \A n \in 0..k : n \in Reached
    BY <1>2, <1>3, StepByStep
  <2>2. k \in Reached
    BY <2>1
  <2> HIDE DEF To
  <2> QED
    BY <2>2 DEF Reached
<1>5. ASSUME NEW m \in 0..k, m # 0 PROVE f[m] = f[m - 1] \o lines[m].tokens
  <2>1. m \in 1..k
    BY <1>5
  <2> QED
    BY <1>4, <2>1
<1>6. f = [m \in 0..k |-> f[m]]
  BY <1>4
<1>7. Is(f)
  BY <1>4, <1>5, <1>6
<1>8. PICK h : h = (CHOOSE g : Is(g)) /\ Is(h)
  <2> HIDE DEF Is
  <2> QED
    BY <1>7
<1>9. TokensUpTo(lines, k) = h[k]
  BY <1>8 DEF TokensUpTo
<1>10. h[0] = <<>> /\ \A m \in 1..k : h[m] = h[m - 1] \o lines[m].tokens
  <2>1. \A m \in 0..k : h[m] = IF m = 0 THEN <<>> ELSE h[m - 1] \o lines[m].tokens
    BY <1>8
  <2>2. 0 \in 0..k /\ \A m \in 1..k : m \in 0..k /\ m # 0
    OBVIOUS
  <2> QED
    BY <2>1, <2>2
<1>11. h = [m \in 0..k |-> h[m]]
  BY <1>8
<1> HIDE DEF Is
<1> DEFINE T == {m \in 0..k : h[m] \in S}
<1>12. 0 \in T
  <2>1. 0 \in 0..k /\ h[0] \in S
    BY <1>1, <1>10
  <2> QED
    BY <2>1
<1>13. ASSUME NEW m \in 1..k, m - 1 \in T PROVE m \in T
  <2>1. m \in 0..k /\ h[m - 1] \in S
    BY <1>13
  <2>2. h[m] = h[m - 1] \o lines[m].tokens
    BY <1>10
  <2> QED
    BY <1>1, <2>1, <2>2
<1>14. \A m \in 0..k : h[m] \in S
  <2>1. \A m \in 0..k : m \in T
    <3> HIDE DEF T
    <3> QED
      BY <1>12, <1>13, StepByStep
  <2> QED
    BY <2>1
<1>15. h \in [0..k -> S]
  BY <1>11, <1>14
<1> QED
  BY <1>9, <1>10, <1>15 DEF S

\* One line more, its tokens more.
LEMMA OneLineMore ==
    ASSUME NEW lines, NEW n \in Nat, \A m \in 1..n : lines[m].tokens \in Seq(Token)
    PROVE  /\ TokensUpTo(lines, n) \in Seq(Token)
           /\ n = 0 => TokensUpTo(lines, n) = <<>>
           /\ n # 0 => TokensUpTo(lines, n) = TokensUpTo(lines, n - 1) \o lines[n].tokens
<1>1. PICK g : /\ g \in [0..n -> Seq(Token)] /\ g[0] = <<>>
               /\ \A m \in 1..n : g[m] = g[m - 1] \o lines[m].tokens
               /\ TokensUpTo(lines, n) = g[n]
  BY TokensFunction
<1>2. TokensUpTo(lines, n) \in Seq(Token)
  <2>1. n \in 0..n
    OBVIOUS
  <2> QED
    BY <1>1, <2>1
<1>3. ASSUME n # 0 PROVE TokensUpTo(lines, n) = TokensUpTo(lines, n - 1) \o lines[n].tokens
  <2>1. n - 1 \in Nat /\ n \in 1..n /\ \A m \in 1..n - 1 : lines[m].tokens \in Seq(Token)
    BY <1>3
  <2>2. PICK f : /\ f[0] = <<>>
                 /\ \A m \in 1..n - 1 : f[m] = f[m - 1] \o lines[m].tokens
                 /\ TokensUpTo(lines, n - 1) = f[n - 1]
    BY <2>1, TokensFunction
  \* The two functions agree as far as both go.
  <2> DEFINE T == {m \in 0..n - 1 : g[m] = f[m]}
  <2>3. 0 \in T
    BY <1>1, <2>1, <2>2
  <2>4. ASSUME NEW m \in 1..n - 1, m - 1 \in T PROVE m \in T
    <3>1. m \in 0..n - 1 /\ m \in 1..n /\ g[m - 1] = f[m - 1]
      BY <2>4
    <3> QED
      BY <1>1, <2>2, <3>1
  <2>5. \A m \in 0..n - 1 : m \in T
    <3> HIDE DEF T
    <3> QED
      BY <2>1, <2>3, <2>4, StepByStep
  <2>6. g[n - 1] = f[n - 1]
    BY <2>1, <2>5
  <2> QED
    BY <1>1, <2>1, <2>2, <2>6
<1> QED
  BY <1>1, <1>2, <1>3

\* Lines that follow have no part in it.
LEMMA SameTokens ==
    ASSUME NEW lines, NEW more, NEW n \in Nat,
           \A m \in 1..n : lines[m].tokens \in Seq(Token) /\ more[m].tokens = lines[m].tokens
    PROVE  TokensUpTo(more, n) = TokensUpTo(lines, n)
<1> DEFINE T == {k \in 0..n : TokensUpTo(more, k) = TokensUpTo(lines, k)}
<1>1. 0 \in T
  <2>1. \A l : TokensUpTo(l, 0) = <<>>
    <3>1. 0 \in Nat /\ \A l : \A m \in 1..0 : l[m].tokens \in Seq(Token)
      OBVIOUS
    <3> QED
      BY <3>1, OneLineMore
  <2> QED
    BY <2>1
<1>2. ASSUME NEW k \in 1..n, k - 1 \in T PROVE k \in T
  <2>1. k \in Nat /\ k # 0 /\ k \in 0..n /\ more[k].tokens = lines[k].tokens
    OBVIOUS
  <2>2. \A m \in 1..k : lines[m].tokens \in Seq(Token) /\ more[m].tokens \in Seq(Token)
    OBVIOUS
  <2> HIDE DEF T
  <2>3. TokensUpTo(lines, k) = TokensUpTo(lines, k - 1) \o lines[k].tokens
    BY <2>1, <2>2, OneLineMore
  <2>4. TokensUpTo(more, k) = TokensUpTo(more, k - 1) \o more[k].tokens
    BY <2>1, <2>2, OneLineMore
  <2> QED
    BY <1>2, <2>1, <2>3, <2>4 DEF T
<1>3. \A k \in 0..n : k \in T
  <2> HIDE DEF T
  <2> QED
    BY <1>1, <1>2, StepByStep
<1> QED
  BY <1>3

\* foldLines takes all tokens of a line over, wherever it puts them.
LEMMA AddedTokens ==
    ASSUME NEW lines \in Seq(LogicalLine), NEW line \in Line
    PROVE  LET new == AddLine(lines, line) IN
           TokensUpTo(new, Len(new)) = TokensUpTo(lines, Len(lines)) \o line.tokens
<1> DEFINE new == AddLine(lines, line)
           n == Len(lines)
<1>1. /\ n \in Nat /\ line.tokens \in Seq(Token)
      /\ \A m \in 1..n : lines[m] \in LogicalLine /\ lines[m].tokens \in Seq(Token)
  <2>1. \A m \in 1..n : lines[m] \in LogicalLine
    OBVIOUS
  <2> QED
    BY <2>1 DEF LogicalLine, Line
<1>2. CASE line.fold /\ lines # <<>>
  <2> DEFINE last == Last(lines)
             joined == [key |-> IF last.key = "blank" THEN line.key ELSE last.key,
                        tokens |-> last.tokens \o line.tokens]
             front == Front(lines)
  <2>1. n # 0 /\ n - 1 \in Nat /\ last = lines[n]
    BY <1>1, <1>2 DEF Last
  <2>2. /\ front \in Seq(LogicalLine) /\ Len(front) = n - 1
        /\ \A m \in 1..n - 1 : front[m] = lines[m]
    <3>1. front = SubSeq(lines, 1, n - 1)
      BY DEF Front
    <3>2. \A m \in 1..n - 1 : lines[m] \in LogicalLine
      BY <1>1
    <3> HIDE DEF front
    <3>3. /\ front \in Seq(LogicalLine)
          /\ Len(front) = IF 1 <= n - 1 THEN (n - 1) - 1 + 1 ELSE 0
      BY <2>1, <3>1, <3>2, SubSeqProperties
    <3>4. \A m \in 1..(n - 1) - 1 + 1 : front[m] = lines[1 + m - 1]
      BY <2>1, <3>1, <3>2, SubSeqProperties
    <3>5. \A m \in 1..n - 1 : 1 + m - 1 = m
      OBVIOUS
    <3>6. \A m \in 1..n - 1 : front[m] = lines[m]
      BY <2>1, <3>4, <3>5
    <3>7. Len(front) = n - 1
      <4> HIDE DEF n
      <4> QED
        BY <1>1, <2>1, <3>3
    <3> QED
      BY <3>3, <3>6, <3>7
  <2>3. new = Append(front, joined)
    BY <1>2 DEF AddLine
  <2>4. joined.tokens = lines[n].tokens \o line.tokens
    BY <2>1
  <2> HIDE DEF front, joined, new
  <2>5. /\ Len(new) = n /\ new[n] = joined
        /\ \A m \in 1..n - 1 : new[m] = lines[m]
    BY <2>1, <2>2, <2>3
  <2>6. joined.tokens \in Seq(Token)
    BY <1>1, <2>1, <2>4
  <2>7. \A m \in 1..n : new[m].tokens \in Seq(Token)
    <3>1. \A m \in 1..n : m = n \/ m \in 1..n - 1
      BY <1>1
    <3> QED
      BY <1>1, <2>5, <2>6, <3>1
  <2>8. /\ TokensUpTo(new, n) = TokensUpTo(new, n - 1) \o joined.tokens
        /\ TokensUpTo(lines, n) = TokensUpTo(lines, n - 1) \o lines[n].tokens
    BY <1>1, <2>1, <2>5, <2>7, OneLineMore
  <2>9. TokensUpTo(new, n - 1) = TokensUpTo(lines, n - 1)
    <3>1. \A m \in 1..n - 1 :
            lines[m].tokens \in Seq(Token) /\ new[m].tokens = lines[m].tokens
      BY <1>1, <2>5
    <3> QED
      BY <2>1, <3>1, SameTokens
  <2>10. TokensUpTo(lines, n - 1) \in Seq(Token) /\ lines[n].tokens \in Seq(Token)
    <3>1. \A m \in 1..n - 1 : lines[m].tokens \in Seq(Token)
      BY <1>1
    <3>2. TokensUpTo(lines, n - 1) \in Seq(Token)
      BY <2>1, <3>1, OneLineMore
    <3> QED
      BY <1>1, <2>1, <3>2
  <2>11. TokensUpTo(lines, n - 1) \o (lines[n].tokens \o line.tokens)
           = (TokensUpTo(lines, n - 1) \o lines[n].tokens) \o line.tokens
    <3> DEFINE a == TokensUpTo(lines, n - 1)
               b == lines[n].tokens
               c == line.tokens
    <3>1. a \in Seq(Token) /\ b \in Seq(Token) /\ c \in Seq(Token)
      BY <1>1, <2>10
    <3> HIDE DEF a, b, c
    <3>2. a \o (b \o c) = (a \o b) \o c
      BY <3>1, ConcatAssociative
    <3> QED
      BY <3>2 DEF a, b, c
  <2>12. TokensUpTo(new, Len(new)) = TokensUpTo(lines, n) \o line.tokens
    <3>1. TokensUpTo(new, n) = TokensUpTo(lines, n - 1) \o (lines[n].tokens \o line.tokens)
      BY <2>4, <2>8, <2>9
    <3> QED
      BY <2>5, <2>8, <2>11, <3>1
  <2> QED
    BY <2>12 DEF new
<1>3. CASE ~(line.fold /\ lines # <<>>)
  <2> DEFINE added == [key |-> line.key, tokens |-> line.tokens]
  <2>1. new = Append(lines, added)
    BY <1>3 DEF AddLine
  <2>2. added.tokens = line.tokens
    OBVIOUS
  <2> HIDE DEF added, new
  <2>3. /\ Len(new) = n + 1 /\ new[n + 1] = added
        /\ \A m \in 1..n : new[m] = lines[m]
    BY <1>1, <2>1
  <2>4. \A m \in 1..n + 1 : new[m].tokens \in Seq(Token)
    <3>1. \A m \in 1..n + 1 : m = n + 1 \/ m \in 1..n
      BY <1>1
    <3> QED
      BY <1>1, <2>2, <2>3, <3>1
  <2>5. TokensUpTo(new, n + 1) = TokensUpTo(new, n) \o line.tokens
    <3>1. n + 1 \in Nat /\ n + 1 # 0 /\ (n + 1) - 1 = n
      BY <1>1
    <3>2. TokensUpTo(new, n + 1) = TokensUpTo(new, (n + 1) - 1) \o new[n + 1].tokens
      BY <2>4, <3>1, OneLineMore
    <3> QED
      BY <2>2, <2>3, <3>1, <3>2
  <2>6. TokensUpTo(new, n) = TokensUpTo(lines, n)
    BY <1>1, <2>3, SameTokens
  <2>7. TokensUpTo(new, Len(new)) = TokensUpTo(lines, n) \o line.tokens
    BY <2>3, <2>5, <2>6
  <2> QED
    BY <2>7 DEF new
<1> QED
  BY <1>2, <1>3

\* No token is lost on the way into the logical lines.
TokensKept ==
    TokensUpTo(logical, Len(logical)) =
        TokensUpTo(body, IF phase = "folding" THEN at - 1 ELSE Len(body))

\* Nor from those read so far into Fields, and Unknown has of them what it should;
\* it has nothing yet of the lines that follow.
KeptSoFar ==
    phase \in {"lines", "parsed"} =>
        /\ \A p \in unknown : p[1] < at
        /\ \A p \in MetricTokens \cup TokensOf(Addresses) : p[1] < at =>
              /\ p \in fields
              /\ p \in unknown <=> ~Typed(p) /\ ~Sentinel(p)

LEMMA NextTokensKept == IInv /\ TokensKept /\ [Next]_vars => TokensKept'
<1> SUFFICES ASSUME IInv, TokensKept, [Next]_vars PROVE TokensKept'
  OBVIOUS
<1>1. body \in Seq(Line) /\ logical \in Seq(LogicalLine) /\ Len(body) \in Nat
  BY DEF IInv, Shape, TypeOK
<1>2. CASE Fold
  <2>1. /\ phase = "folding" /\ phase' = phase /\ at \in 1..Len(body) /\ at' = at + 1
        /\ logical' = AddLine(logical, body[at]) /\ body' = body
    BY <1>1, <1>2 DEF Fold, IInv, TypeOK
  <2>2. body[at] \in Line /\ \A m \in 1..at : body[m].tokens \in Seq(Token)
    <3>1. \A m \in 1..at : body[m] \in Line
      BY <1>1, <2>1
    <3> QED
      BY <2>1, <3>1 DEF Line
  <2>3. TokensUpTo(logical', Len(logical')) = TokensUpTo(logical, Len(logical)) \o body[at].tokens
    BY <1>1, <2>1, <2>2, AddedTokens
  <2>4. TokensUpTo(body, at) = TokensUpTo(body, at - 1) \o body[at].tokens
    <3>1. at \in Nat /\ at # 0
      BY <1>1, <2>1
    <3> QED
      BY <2>2, <3>1, OneLineMore
  <2>5. TokensUpTo(logical', Len(logical')) = TokensUpTo(body, at)
    BY <2>1, <2>3, <2>4 DEF TokensKept
  <2>6. at' - 1 = at /\ phase' = "folding"
    BY <2>1
  <2> QED
    BY <2>1, <2>5, <2>6 DEF TokensKept
<1>3. CASE Refuse \/ Start
  <2>1. /\ phase = "folding" /\ phase' # "folding" /\ at > Len(body)
        /\ logical' = logical /\ body' = body
    BY <1>3 DEF Refuse, Start, Folded
  <2>2. at - 1 = Len(body)
    BY <1>1, <2>1 DEF IInv, TypeOK
  <2> QED
    BY <2>1, <2>2 DEF TokensKept
<1>4. ASSUME logical' = logical, body' = body, phase # "folding", phase' # "folding"
      PROVE  TokensKept'
  BY <1>4 DEF TokensKept
<1>5. CASE SkipBlank \/ NoColon \/ Identity \/ Section \/ AddressLine \/ MetricLine \/ UnknownHeader
  BY <1>4, <1>5 DEF SkipBlank, NoColon, Identity, Section, AddressLine, MetricLine,
                    UnknownHeader, Reading
<1>6. CASE Finish
  BY <1>4, <1>6 DEF Finish
<1>7. CASE UNCHANGED vars
  BY <1>7 DEF vars, TokensKept
<1> QED
  BY <1>2, <1>3, <1>5, <1>6, <1>7 DEF Next

\* Which tokens there are depends on the lines only.
LEMMA SamePlaces ==
    ASSUME UNCHANGED logical
    PROVE  /\ (MetricTokens \cup TokensOf(Addresses))' = MetricTokens \cup TokensOf(Addresses)
           /\ \A p : Typed(p)' = Typed(p) /\ Sentinel(p)' = Sentinel(p)
<1>1. Rest' = Rest
  BY SameLines
<1> QED
  BY <1>1 DEF MetricTokens, TokensOf, AsToken, Typed, Sentinel

\* What is kept stays kept, and of the line itself is kept what has to be.
LEMMA KeptAdvance ==
    ASSUME IInv, KeptSoFar, NEW keys, Reading(keys),
           fields \subseteq fields', unknown \subseteq unknown',
           \A p \in unknown' : p \in unknown \/ p[1] = at,
           Here.key \in MetricKeys \cup Addresses =>
               \A i \in 1..Len(Here.tokens) :
                   /\ <<at, i>> \in fields'
                   /\ <<at, i>> \in unknown' <=>
                         <<at, i>> \in unknown \/ (~Typed(<<at, i>>) /\ ~Sentinel(<<at, i>>))
    PROVE  KeptSoFar'
<1> DEFINE all == MetricTokens \cup TokensOf(Addresses)
<1>1. /\ phase = "lines" /\ phase' = "lines" /\ at' = at + 1 /\ logical' = logical
      /\ at \in Rest /\ Rest \subseteq Nat
  BY Round DEF Reading
<1>2. all' = all /\ \A p : Typed(p)' = Typed(p) /\ Sentinel(p)' = Sentinel(p)
  BY <1>1, SamePlaces
<1>3. \A p \in all : p[1] < at' => p[1] < at \/
          \E i \in 1..Len(Here.tokens) : p = <<at, i>> /\ Here.key \in MetricKeys \cup Addresses
  <2> SUFFICES ASSUME NEW p \in all, p[1] < at', ~(p[1] < at)
               PROVE  \E i \in 1..Len(Here.tokens) :
                          p = <<at, i>> /\ Here.key \in MetricKeys \cup Addresses
    OBVIOUS
  <2>1. PICK l \in Rest : \E i \in 1..Len(logical[l].tokens) :
            logical[l].key \in MetricKeys \cup Addresses /\ p = <<l, i>>
    BY TokenPlaces DEF MetricTokens, MetricKeys
  <2>2. l = at
    BY <1>1, <2>1
  <2> QED
    BY <2>1, <2>2 DEF Here
<1> HIDE DEF all
<1>4. ASSUME NEW p \in all, p[1] < at'
      PROVE  /\ p \in fields'
             /\ p \in unknown' <=> ~Typed(p) /\ ~Sentinel(p)
  <2>1. CASE p[1] < at
    <3>1. p \in fields /\ (p \in unknown <=> ~Typed(p) /\ ~Sentinel(p))
      BY <1>1, <2>1 DEF KeptSoFar, all
    <3>2. p \in unknown' <=> p \in unknown
      BY <1>1, <2>1
    <3> QED
      BY <3>1, <3>2
  <2>2. ASSUME NEW i \in 1..Len(Here.tokens), p = <<at, i>>,
               Here.key \in MetricKeys \cup Addresses
        PROVE  /\ p \in fields'
               /\ p \in unknown' <=> ~Typed(p) /\ ~Sentinel(p)
    <3>1. p \notin unknown
      BY <1>1, <2>2 DEF KeptSoFar
    <3> QED
      BY <2>2, <3>1
  <2> QED
    BY <1>3, <1>4, <2>1, <2>2
<1>5. \A p \in unknown' : p[1] < at'
  <2>1. at \in Nat /\ \A p \in unknown : p[1] \in Int /\ p[1] < at
    BY <1>1 DEF KeptSoFar, IInv, TypeOK
  <2> QED
    BY <1>1, <2>1
<1> QED
  BY <1>1, <1>2, <1>4, <1>5 DEF KeptSoFar, all

LEMMA NextKeptSoFar == IInv /\ KeptSoFar /\ [Next]_vars => KeptSoFar'
<1> SUFFICES ASSUME IInv, KeptSoFar, [Next]_vars PROVE KeptSoFar'
  OBVIOUS
<1>1. CASE Fold \/ Refuse
  BY <1>1 DEF Fold, Refuse, KeptSoFar, Folded
<1>2. CASE Start
  <2>1. at' = First + 1 /\ logical' = logical /\ First \in 1..Len(logical)
    BY <1>2, FirstLine DEF Start, Folded, IInv, TypeOK
  <2>2. \A p \in MetricTokens \cup TokensOf(Addresses) : ~(p[1] < at')
    <3>1. \A p \in MetricTokens \cup TokensOf(Addresses) :
            \E l \in Rest : \E i \in 1..Len(logical[l].tokens) : p = <<l, i>>
      BY TokenPlaces DEF MetricTokens
    <3>2. \A l \in Rest : ~(l < at')
      BY <2>1 DEF Rest, IInv, TypeOK
    <3> QED
      BY <3>1, <3>2
  <2>3. unknown' = {}
    BY <1>2 DEF Start, Folded, IInv, Place
  <2> QED
    BY <2>1, <2>2, <2>3, SamePlaces DEF KeptSoFar
<1>3. CASE SkipBlank \/ NoColon \/ Identity \/ Section
  <2>1. PICK keys : /\ keys \in {{"blank"}, {"no colon"}, Identities, Sections} /\ Reading(keys)
                    /\ fields \subseteq fields' /\ unknown \subseteq unknown'
    BY <1>3 DEF SkipBlank, NoColon, Identity, Section
  <2>2. Here.key \notin MetricKeys \cup Addresses
    BY <2>1 DEF Reading, Identities, Sections, Addresses, MetricKeys, ReportTypes
  <2>3. \A p \in unknown' : p \in unknown \/ p[1] = at
    <3>1. <<at, 0>>[1] = at
      OBVIOUS
    <3>2. unknown' = unknown \/ unknown' = unknown \cup {<<at, 0>>}
      BY <1>3 DEF SkipBlank, NoColon, Identity, Section
    <3> QED
      BY <3>1, <3>2
  <2> QED
    BY <2>1, <2>2, <2>3, KeptAdvance
<1>4. CASE AddressLine
  <2>1. Reading(Addresses) /\ Here = logical[at]
    BY <1>4 DEF AddressLine, Here
  <2>2. fields' = fields \cup Places /\ unknown' = unknown \cup (Places \ Components)
    BY <1>4 DEF AddressLine
  <2>3. \A i \in 1..Len(Here.tokens) :
            /\ <<at, i>> \in Places /\ AsToken(<<at, i>>) = Here.tokens[i]
            /\ <<at, i>> \in Components <=> IsComponent(Here.tokens[i])
    BY <2>1 DEF Places, Components, AsToken
  <2>4. \A i \in 1..Len(Here.tokens) :
            ~Typed(<<at, i>>) /\ ~Sentinel(<<at, i>>) <=> ~IsComponent(Here.tokens[i])
    BY <2>1 DEF Typed, Sentinel, IsComponent, AsToken, Reading
  <2>5. \A p \in Places : p[1] = at
    BY DEF Places
  <2>7. \A p \in unknown' : p \in unknown \/ p[1] = at
    BY <2>2, <2>5
  <2>8. \A i \in 1..Len(Here.tokens) :
            /\ <<at, i>> \in fields'
            /\ <<at, i>> \in unknown' <=>
                  <<at, i>> \in unknown \/ (~Typed(<<at, i>>) /\ ~Sentinel(<<at, i>>))
    <3> SUFFICES ASSUME NEW i \in 1..Len(Here.tokens)
                 PROVE  /\ <<at, i>> \in fields'
                        /\ <<at, i>> \in unknown' <=>
                              <<at, i>> \in unknown \/ (~Typed(<<at, i>>) /\ ~Sentinel(<<at, i>>))
      OBVIOUS
    <3>1. /\ <<at, i>> \in Places /\ AsToken(<<at, i>>) = Here.tokens[i]
          /\ <<at, i>> \in Components <=> IsComponent(Here.tokens[i])
      BY <2>3
    <3>2. <<at, i>> \in unknown' <=> <<at, i>> \in unknown \/ <<at, i>> \notin Components
      BY <2>2, <3>1
    <3> QED
      BY <2>2, <2>4, <3>1, <3>2
  <2>9. fields \subseteq fields' /\ unknown \subseteq unknown'
    BY <2>2
  <2> QED
    BY <2>1, <2>7, <2>8, <2>9, KeptAdvance
<1>5. CASE MetricLine
  <2>1. Reading(MetricKeys) /\ Here = logical[at]
    BY <1>5 DEF MetricLine, Here, MetricKeys
  <2>2. /\ fields' = fields \cup Places
        /\ unknown' = unknown \cup {p \in Places \ Observed : ~Unavailable(AsToken(p))}
    BY <1>5 DEF MetricLine
  <2>3. \A i \in 1..Len(Here.tokens) :
            /\ <<at, i>> \in Places /\ AsToken(<<at, i>>) = Here.tokens[i]
            /\ <<at, i>> \in Observed <=> IsMetric(Here.tokens[i])
    BY <2>1 DEF Places, Observed, AsToken
  <2>4. Here.key \notin Addresses
    BY <2>1 DEF Reading, MetricKeys, ReportTypes, Addresses
  <2>5. \A i \in 1..Len(Here.tokens) :
            /\ Typed(<<at, i>>) <=> IsMetric(Here.tokens[i])
            /\ Sentinel(<<at, i>>) <=> Unavailable(Here.tokens[i])
    BY <2>1, <2>4 DEF Typed, Sentinel, IsMetric, Unavailable, Number, Metrics, AsToken
  <2>6. \A p \in Places : p[1] = at
    BY DEF Places
  <2>7. \A p \in unknown' : p \in unknown \/ p[1] = at
    BY <2>2, <2>6
  <2>8. \A i \in 1..Len(Here.tokens) :
            /\ <<at, i>> \in fields'
            /\ <<at, i>> \in unknown' <=>
                  <<at, i>> \in unknown \/ (~Typed(<<at, i>>) /\ ~Sentinel(<<at, i>>))
    <3> SUFFICES ASSUME NEW i \in 1..Len(Here.tokens)
                 PROVE  /\ <<at, i>> \in fields'
                        /\ <<at, i>> \in unknown' <=>
                              <<at, i>> \in unknown \/ (~Typed(<<at, i>>) /\ ~Sentinel(<<at, i>>))
      OBVIOUS
    <3>1. /\ <<at, i>> \in Places /\ AsToken(<<at, i>>) = Here.tokens[i]
          /\ <<at, i>> \in Observed <=> IsMetric(Here.tokens[i])
      BY <2>3
    <3>2. <<at, i>> \in unknown' <=>
              \/ <<at, i>> \in unknown
              \/ <<at, i>> \notin Observed /\ ~Unavailable(Here.tokens[i])
      BY <2>2, <3>1
    <3> QED
      BY <2>2, <2>5, <3>1, <3>2
  <2>9. fields \subseteq fields' /\ unknown \subseteq unknown'
    BY <2>2
  <2> QED
    BY <2>1, <2>7, <2>8, <2>9, KeptAdvance
<1>6. CASE UnknownHeader
  <2>1. /\ Reading(MetricKeys) /\ Here.tokens = <<>>
        /\ fields \subseteq fields' /\ unknown \subseteq unknown'
        /\ \A p \in unknown' : p \in unknown \/ p[1] = at
    BY <1>6 DEF UnknownHeader, MetricKeys
  <2>2. \A i \in 1..Len(Here.tokens) : FALSE
    BY <2>1
  <2> QED
    BY <2>1, <2>2, KeptAdvance
<1>7. CASE Finish \/ UNCHANGED vars
  <2>1. UNCHANGED <<logical, at, fields, unknown>> /\ (phase' \in {"lines", "parsed"} =>
            phase \in {"lines", "parsed"})
    BY <1>7 DEF Finish, vars, result
  <2> QED
    BY <2>1, SamePlaces DEF KeptSoFar
<1> QED
  BY <1>1, <1>2, <1>3, <1>4, <1>5, <1>6, <1>7 DEF Next

-----------------------------------------------------------------------------
(* The theorems *)

\* All lines read, what was read so far is what the body says.
LEMMA AllRead ==
    ASSUME IInv, Parsed
    PROVE  Before = Rest /\ \A p, side, name : p \in Observations(side, name) => p[1] < at
<1>1. at = Len(logical) + 1 /\ First \in 1..Len(logical) /\ Len(logical) \in Nat
  BY DEF IInv, Place, TypeOK, Parsed
<1>2. Before = Rest
  BY <1>1 DEF Before, Rest
<1>3. ASSUME NEW p, NEW side, NEW name, p \in Observations(side, name) PROVE p[1] < at
  <2>1. PICK l \in Rest : \E i \in 1..Len(logical[l].tokens) : p = <<l, i>>
    BY <1>3, TokenPlaces DEF Observations, MetricTokens
  <2>2. l < at
    BY <1>1 DEF Rest
  <2> QED
    BY <2>1, <2>2
<1> QED
  BY <1>2, <1>3

\* The loop keeps its types: what is stored of a body is one of its tokens or lines.
THEOREM TypeCorrect == Spec => []TypeOK
<1>1. IInv => TypeOK
  BY DEF IInv
<1> QED
  BY <1>1, InitHolds, NextHolds, PTL DEF Spec

\* Traps 2 to 4 of spec/protocol.md for bodies of any length: the metrics parse.go:155-166
\* leaves are the last observations of their side, wherever its blocks begin and end,
\* and neither a sentinel nor a value that cannot be read replaces one.
THEOREM LastObservation == Spec => []LastObservationWins
<1>1. IInv => LastObservationWins
  <2> SUFFICES ASSUME IInv, Parsed, NEW side \in {"local", "remote"}, NEW name \in Metrics
               PROVE  LET obs == Observations(side, name) IN
                      IF obs = {} THEN metrics[side][name] = None
                      ELSE /\ metrics[side][name] \in obs
                           /\ \A p \in obs : ~After(p, metrics[side][name])
    BY DEF LastObservationWins
  <2>1. {p \in Observations(side, name) : p[1] < at} = Observations(side, name)
    BY AllRead
  <2>2. MetricRead(side, name)
    BY DEF IInv, ReadSoFar, Parsed
  <2> QED
    BY <2>1, <2>2 DEF MetricRead
<1> QED
  BY <1>1, InitHolds, NextHolds, PTL DEF Spec

\* However many address lines a body has, the parts of an address are of the last one
\* of its side (parse.go:151-154).
THEOREM AddressIsOfOneLine == Spec => []AddressOfOneLine
<1>1. IInv => AddressOfOneLine
  BY AllRead DEF IInv, ReadSoFar, AddressRead, AddressOfOneLine, Parsed
<1> QED
  BY <1>1, InitHolds, NextHolds, PTL DEF Spec

\* Each party is named by the last line that names it in either dialect (parse.go:132-150),
\* and only ToID and FromID together make a report prestandard.
THEOREM PartiesOfDialect == Spec => []PartiesAndDialect
<1>1. IInv => PartiesAndDialect
  <2> SUFFICES ASSUME IInv, Parsed PROVE PartiesAndDialect
    BY DEF PartiesAndDialect
  <2>1. ASSUME NEW id \in DOMAIN ids
        PROVE  LET named == {l \in Rest : logical[l].key \in HeadersOf(id)} IN
               IF named = {} THEN ids[id] = 0
               ELSE ids[id] \in named /\ \A l \in named : l <= ids[id]
    BY AllRead DEF IInv, ReadSoFar, IdRead, Shape, Parsed
  <2>2. dialect = "prestandard" <=>
            \E l, m \in Rest : logical[l].key = "toid" /\ logical[m].key = "fromid"
    BY DEF IInv, ReadSoFar, Parsed, Detected, HasKey, Rest
  <2> QED
    BY <2>1, <2>2 DEF PartiesAndDialect
<1> QED
  BY <1>1, InitHolds, NextHolds, PTL DEF Spec

\* Of a body of any length (parse.go:119-207, 335-356) folding keeps every token in its
\* place, every token of a metric or an address line is in Fields, and in Unknown if and
\* only if no typed value was made of it and it is not the unavailable RERL.
THEOREM NothingIsLost == Spec => []UnrecognisedRemains
<1>1. Init => TokensKept /\ KeptSoFar
  <2> SUFFICES ASSUME Init PROVE TokensKept /\ KeptSoFar
    OBVIOUS
  <2>1. Len(logical) = 0 /\ at - 1 = 0 /\ phase = "folding"
    BY DEF Init
  <2>2. TokensUpTo(logical, 0) = <<>> /\ TokensUpTo(body, 0) = <<>>
    <3>1. 0 \in Nat /\ \A lines : \A m \in 1..0 : lines[m].tokens \in Seq(Token)
      OBVIOUS
    <3> QED
      BY <3>1, OneLineMore
  <2> QED
    BY <2>1, <2>2 DEF TokensKept, KeptSoFar
<1>2. IInv /\ TokensKept /\ KeptSoFar => UnrecognisedRemains
  <2> SUFFICES ASSUME IInv, TokensKept, KeptSoFar PROVE UnrecognisedRemains
    OBVIOUS
  <2>1. phase # "folding" => TokensUpTo(logical, Len(logical)) = TokensUpTo(body, Len(body))
    BY DEF TokensKept
  <2>2. ASSUME Parsed, NEW p \in MetricTokens \cup TokensOf(Addresses) PROVE p[1] < at
    <3>1. PICK l \in Rest : \E i \in 1..Len(logical[l].tokens) : p = <<l, i>>
      BY <2>2, TokenPlaces DEF MetricTokens
    <3>2. at = Len(logical) + 1 /\ First \in 1..Len(logical) /\ Len(logical) \in Nat
      BY <2>2 DEF IInv, Place, TypeOK, Parsed
    <3> QED
      BY <3>1, <3>2 DEF Rest
  <2> QED
    BY <2>1, <2>2 DEF UnrecognisedRemains, KeptSoFar, Parsed
<1> QED
  BY <1>1, <1>2, InitHolds, NextHolds, NextTokensKept, NextKeptSoFar, PTL DEF Spec
=============================================================================
