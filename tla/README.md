# Verification of rfc6035-2otel

`rfc6035-2otel` receives voice-quality reports that phones send as SIP PUBLISH
requests over UDP (RFC 6035), answers them, parses them and exports them as OTLP
metrics and logs. This directory holds TLA+ models of the collector, the TLC
configurations that check them on small instances, and TLAPS proofs of what
matters most for all instances. Paths below are relative to the repository (`src/`).

## 1. Inventory

| Part | State | Operations | Talks to |
|---|---|---|---|
| SIP listener, `internal/sip/sip.go` | socket, cache `seen` (key to response and expiry) under a mutex, one goroutine per datagram | `Serve`, `handleDatagram`, `responseFor` | network; observer (counters); handler of `run` |
| SIP messages, same file | none | `parseRequest`, `validatePublish`, `buildResponse`, `decorateVia`, `grantedExpiry` | listener |
| Process, `cmd/rfc6035-2otel/main.go` | providers, failure sink, exit code | `run`, its handler closure, `providers.Shutdown`, `exportReport`, `healthcheck` | everything |
| Report parser, `internal/vqreport/parse.go` | the report being built, the local/remote section | `Parse` | handler |
| Exporter, `internal/otelexport/export.go` | SDK instruments | `Export`, `logAttributes` | SDK providers |
| Self-observability, `internal/selfobs/recorder.go` | SDK counters, registry of sender names | `New`, `Record*` | listener, handler, exporters |
| Health probe, `healthcheck` of `main.go` | one socket with a deadline | one request, one read, one verdict | whatever has the collector's port |
| Configuration, `internal/config/config.go` | `Config` | `Load`, `Validate`, `SenderName` | `run`, listener, exporter |
| OpenTelemetry SDK | totals, queue of log records | collect, export, shutdown | external: modelled as `run` uses it |

Not part of the collector and not modelled: the Grafana and CI scripts
(`grafana/`, `scripts/`), the chart, the dashboards and alert rules.

What makes this program hard to test:

* *Races between copies of a report.* Phones retransmit; every datagram has its
  own goroutine. Two goroutines with one key must agree on which of them
  delivers the report, and they share only a map that purges itself.
* *Effects after the unlock.* The cache's size change, the answer, the counters
  and the handler call come after the mutex is released, in any order between
  goroutines, and the write may fail or the socket may be closed meanwhile.
* *The end of the window.* Purge, lookup and insertion depend on the clock; a
  copy may come at the very instant an entry expires.
* *Copies that are not the same.* A copy may come from another address, after
  other reports, at the end of the window, or to a process that was started
  since; it gets bytes that were built for another datagram, or none are left.
* *Stopping.* The context is looked at only after a failed read; `run` does not
  wait for the goroutines; metrics and logs share one 10 s deadline; a failed
  metric export can be made up for, a failed log export cannot.
* *Starting.* Any step may fail after the providers run; settings come from three
  layers; three components each have their own idea of what a sender name is,
  and the recorder refuses in silence what it does not know.
* *Loosely specified input.* Two dialects, repeated and folded lines, sections
  that begin and end, sentinels: the meaning of a line depends on lines before.

What makes each part correct is stated as properties in section 3. The list of
hazards, each at its line, with the properties that cover it or the reason why
none does, is in `PROJECT.json`.

## 2. Modules

| Module | Models | Correspondence |
|---|---|---|
| `ReportDelivery` | nothing in the code: the promise of `sip.go:22` | a clock and the history of reports; `Admit`, `Absorb`, `Hand` |
| `Listener` | `Serve`'s reads, `handleDatagram`, `responseFor` | `pc`, `datagram`, `answer` are a goroutine's place and locals, `seen` is the map, `gauge` the sum of `RecordDedupeCacheChange`, `observed` the other counters. One action for each call that another goroutine could see; `Hit` and `Miss` are the critical section, whole. `reports` is history: each report that was not a duplicate, when it came and how often it was handled |
| `ServeLoop` | `Serve` alone | deadline, socket buffer, cancellation, result |
| `SipMessage` | `parseRequest`, `validatePublish`, `decorateVia`, `grantedExpiry`, the builders of responses | operators with the names of the functions; no state |
| `SipExchange` | phones that retransmit, the network, the listener with its cache, stops and restarts of the process, `healthcheck` | the listener's step from datagram to answer is one action (`Refuse`, `Admit`, `Repeat`), made of `SipMessage`'s operators; `replies` is all that was sent, `lost` the reports a process was stopped with |
| `Collector` | handler closure, failure-counting exporters, `run` from `ListenAndServe` on | `stage` is where a report's handler is, `totals` what the meters hold, `queue`/`batch` what the log batcher holds, `overwritten`, `dropped` and `late` the records it lost and how; the SDK's own steps are marked external |
| `VQReport` | `Parse` | one action for each line of the folding loop and for each kind of line after it; stored values are kept as their place `<<line, token>>` so that the properties can say which of several won |
| `Startup` | `run` up to `ListenAndServe`, `config.Load`, `Validate`, the logger, OTLP endpoints, resource, `selfobs.New`, `sip.New` | one action for each step of `run`, all of its exits |
| `Labels` | which label values the recorder's `Record*` let through, what `otelexport` makes of them, what the program passes to both | operators; used by `Startup` |
| `ReportExport` | the field loop of `exportReport`, its table of measurements with `Export`'s recording of it, `logAttributes`, `normalizeFieldKey` | one step for each field, for each pair of calls of the table (`RecordMetric`), and for its end (`MetricsRecorded`); a key is a word and the numbers in brackets after it, a name the parts between its underscores, a value its origin |
| `Extremes` | | lemmas: least and greatest members of sets of numbers, the pigeonhole principle, facts shown from one number to the next |
| `..._proofs` | | the theorems about the module of that name |
| `MCListener`, `MCSipExchange`, `MCVQReport`, `MCReportExport`, `MCStartup` | | values of the constants for TLC |

How they meet. `Listener` takes reads as steps that may happen at any time and
`Return` as one that may happen at any time; `ServeLoop` says when they do.
`Listener` has the goroutines and takes parsing and the bytes of answers as
given; `SipExchange` has the bytes, the addresses and the restarts and takes a
datagram as one step, which `Listener`'s refinement of `ReportDelivery`
justifies as far as the cache is concerned. `Collector` begins where
`Listener`'s `CallHandler` ends (`Answer`), and its `ListenAndServeReturns` is
`ServeLoop`'s return. `Startup` ends where `Collector` begins. The ASSUME that
`Window` is positive in `Listener` is part of what `ConfigurationRuns` of
`Startup_proofs` establishes.

Definitions named `Bad...` stand for plausible mistakes in the definition that
follows them. Nothing uses them: each is put in place of its neighbour once, to
see that the property meant to catch the mistake does.

Abstractions.

* `Listener`: a datagram is the outcome of parsing and validating it and its
  Call-ID/CSeq key; a response is the number of the report it was built for.
  Time is in ticks.
* `SipMessage`: the value of a header is the sequence of its parameters, a
  parameter its name and value with the case and the blanks the code looks at.
  `randomToken` returns the next of `Tokens`, which are different; the two
  tokens of one response are one. A header has a value and a continuation no
  colon; `parseRequest` is a recursive function of the number of lines read.
* `Collector`: metrics and logs of a report are either recorded or not; an export
  takes all that waits. The batcher's queue has room for `QueueSize` records and
  loses the rest; a failure is counted (`RecordExportFailure`) only as long as the
  meter provider runs, because what is counted later is never collected.
* `VQReport`: a line is its normalised key and its tokens, a token's value the
  conversions it survives; a continuation starts with a token.
* `Startup`, `Labels`: a string is a word with its padding and case, an endpoint
  its scheme, host, path segments and trailing slashes. `WithEndpointURL` of the
  HTTP exporters finds no host in a text without a scheme. `listen.address`,
  `service.name` and `service.version` share one setting, of the header names
  two spellings are kept.
* `ReportExport`: the words of field keys, their normal forms and their order are
  constants; numbered keys are ordered by their number, where `sort.Strings` puts
  `[10]` before `[2]` (the runs have one digit, and no property rests on it); no word ends in punctuation (unless it is nothing else), and
  `auth`, which `secretField` compares as a whole, is not among them. `Xs` are
  the suffixes `x`, `xx`, ... in the order in which they are tried.

## 3. Runs

Bounds are constants of the modules (`MaxTime`, `MaxDatagrams`, `MaxLives`,
`MaxStart`, `Capacity`, `QueueSize`, `MaxCollections`) or sets in the MC modules
(`MCMixes`, `MCBodies`, `MCReports`, `MCStarts`). CHECK_DEADLOCK is off where the
modelled part ends (a bounded clock, a parsed body, an exited process).

* **listener_cache**: 3 goroutines, 2 keys, a window of 2 ticks, a clock to 4,
  4 datagrams. Three goroutines are the fewest in which two copies race while a
  third purges; two keys let a lookup of one purge the other; four ticks let a
  report expire, come again and expire again; four datagrams let a key be
  admitted twice with a copy each. Goroutines and keys are symmetric.
  Checks `OncePerWindow` (handled at most once; readmitted only a whole window
  later), `CacheIsHistory` (the map decides as the whole history would),
  `AnswersMatch` (answers in flight are of their own key; one goroutine at most
  will call the handler), `LiveEntriesStay` (no entry is dropped early or
  renewed), `UsageSettles` (deltas sent out of order still add up) and the
  inductive `IInv`.
* **listener_delivers**: all kinds of traffic, 2 goroutines, 3 datagrams. Checks
  that the listener implements `ReportDelivery` with its fairness (`Delivers`)
  and that no datagram, report or duplicate is uncounted or lost when writes
  fail or `Serve` has returned (`NothingUncounted`).
* **serve_loop**: `ReturnsForCause`, `StopsWhenQuiet`, `StopsWhenSocketFails`.
* **serve_busy** (violation): `sip.go:87` says that the listener "serves until
  ctx is cancelled"; under traffic without a gap of 200 ms it does not stop,
  because line 107 is reached only after a failed read.
* **sip_exchange**: two phones behind one NAT that gives one of them a new port;
  nine mixes of what they send. In seven the first sends a usual report and the
  second a report in the same dialog that wishes for two hours, one with folded and
  repeated headers, one with a padded `rport` and a negative expiry, or one of four
  requests that are refused or malformed; in one both have neither Call-ID nor CSeq;
  in one, beside which the probe runs, one is refused with 405 and the other is
  malformed. Window 3, retransmission 1, delay 1 and start 1 are the
  smallest numbers that keep the assumption about timers (below) and let a copy
  come before, after and at the same time as another report's; two lives of the
  process let a report be answered in both, five tokens are more than are drawn.
  317309 states. Checks
  * `AnswersOwnRequest`: what a phone gets is the answer to its own request, no more
    and no less: its Call-ID, CSeq, From and To as they were with all their
    continuations, a tag added to the To of a 200 if there was none, its Via with
    the phone's own address and port, and an expiry that is not longer than the
    request wished for. Four things are excepted by name: a header that comes again
    and is continued there (`Misread`: the parser appends the continuation to the
    first one, `sip.go:231`), a Via with two `rport` parameters, which RFC 3261
    forbids, a padded or capital `rport` (see **sip_via**), and a To whose tag has a
    blank before it, which gets a second one (`sip.go:281`);
  * `SameAnswer`: one To tag and one entity tag for one report, none shared;
  * `HandledOncePerLife`: handled at most once in a life; what was answered is
    handled, pending or lost with the process;
  * `ProbeDecides`: a probe that says healthy has got a 405, so whoever has the port
    and answers 200 does not pass for the collector; a collector that runs is not
    called unhealthy before the deadline unless another server answered; every
    probe comes to a verdict. A server that refuses OPTIONS with 405 is taken for
    the collector (`main.go:458` has nothing to tell them by); the other server of
    the model answers 200 or 405, so the run has that case.

  The probe runs beside one of the mixes only: it has no part in the others. The
  clock ends at the instant in which the first window does, while copies of the
  other phone's report still come, so an entry expires; what happens long after is
  `listener_cache`'s, and that nothing is handled twice then is proved for every
  `MaxTime`.
* **sip_via** (violation): `spec/protocol.md:43` asks to honour `rport`; a Via with
  `; rport` goes back without the port, because `sip.go:308` finds the parameter
  and line 309 replaces the text `;rport`. Same phones and bounds as sip_exchange.
* **collector**: three reports, one unparsable, a queue with room for one record, one
  periodic collection, a backend that may fail or hang. `CleanExitKeepsFinished`
  (with exit code 0 the metrics of what was finished when the listener stopped are
  exported, and its log, unless one of the losses named next), `NoSilentLoss` (with
  exit code 0 a lost log record is one of a failure the backend was told of, or of
  an export that failed after the meter provider was shut down, or was overwritten
  in the full queue: the code tells nobody of the last two, and there is no third
  silent one), `ExportedOnce`, the inductive `IInv`, `Exits`,
  `QueuedRecordsLeave`. The shared 10 s may run out in a metric shutdown that
  fails, in one that succeeds, and while the logs are shut down. One
  collection is enough to race a periodic export against the handlers and the
  shutdown; a second adds only another overwrite of cumulative totals. Room for one
  record lets the second of two reports overflow it. 761936 states.
* **collector_accepted** (violation): `docs/security.md:26` says "Every accepted
  report produces an OTLP log"; a report answered just before the signal gets
  none, with exit code 0, a healthy backend and room in the queue.
* **vqreport**: 2475 bodies: a report line with up to four metric lines or three
  header lines, and bodies without a report line. Four lines are enough for two
  blocks of one side with an observation in each, and for a sentinel after an
  observation; three header lines for two addresses and a continuation.
  `LastObservationWins`, `AddressOfOneLine`, `PartiesAndDialect`,
  `UnrecognisedRemains` (folding keeps every token, in order; every token of a
  metric or address line is in Fields; and in Unknown is a token if and only if it
  became no typed value, be it for its name, its value or the line it is in, and is
  not the unavailable `RERL=127`, of which `parse.go:327` makes neither). Values are
  of six classes, among them numbers too big for a payload type.
* **log_attributes**: reports of up to four fields, with keys that collide in
  case, in punctuation, with a number in brackets, with a suffix of
  `logAttributes`, with a key `exportReport` sets itself, or have no letter; and
  reports of up to two fields with all measurements, with all but one and with
  one only. Four fields are the fewest in which two collisions meet (a suffixed
  name with a key spelled so, a numbered key with a repeated one that looks
  numbered). `RepeatedFieldsKept`, `NamesUnique`, `FieldsRecoverable`, and
  `MeasurementsObserved` (every value of the report that `docs/signals.md` lists
  is observed once, in its histogram with its side and unit, and nothing else). The
  one loss is named in `RepeatedFieldsKept`: a field the body calls `SIP.Call-ID` or
  `SIP.CSeq` is replaced by the PUBLISH's.
* **startup**: files with up to two senders (padded, blank, equal but for case,
  named like the fallback), files with settings of all kinds (and an empty
  file, which the decoder refuses) under environments of up to two variables, all
  forms of an endpoint with both protocols, builds with blank parts; every step may fail. Two senders suffice because every
  condition relates two, two variables because the later of two wins.
  `NothingLeftRunning`, `Precedence`, `SignalsAgree` (the recorder refuses no
  label the program uses, and its counters carry the labels of the call metrics),
  `SendersStayApart`, `ConfigurationInForce` (of a process that serves
  each signal's URL, the resource and the window are those of the configuration; a
  level or a window that `Validate` took is not refused later; an endpoint over gRPC
  or a sender's name may be). Over HTTP it speaks of endpoints with a scheme, as in
  `config.example.yaml:12`: a bare host and port passes `Validate` too, but
  `WithEndpointURL` (`main.go:185,192`) finds no host in it, and the collector runs
  without a word and sends elsewhere or nowhere. Of the attributes in
  OTEL_RESOURCE_ATTRIBUTES those named `host.name` or `telemetry.sdk.*` are
  excepted: `main.go:249-250` detects these after it read the variable, though
  `docs/configuration.md:70-71` says that other attributes are retained.
* **startup_unique** (violation): `docs/configuration.md:48` asks for unique
  names; a sender named `unknown`, or two that differ in case only, pass
  `Validate` and then fail in the recorder's registry.

Fairness. `Listener`: weak fairness of each goroutine: the Go scheduler runs
it, a UDP write and a short critical section do not block for ever; none of the
reads, of time or of `Return`. `ServeLoop`: weak fairness of the loop and of
time; none of the network or the signal. `Collector`: weak fairness of the
exporters and of `run` because the SDK bounds an export in time; none of the
handlers, the signal or the collections. `SipExchange`: time passes,
and the probe's read returns once it can, because it has a deadline
(`main.go:440`); none of phones, network, stops or starts. `VQReport`,
`ReportExport` and `Startup` check safety only.

## 4. Proofs

All theorems hold for every value of the constants under the assumptions named
in the modules. Every invariant and every action property a passing run checks is
proved; the runs show on small instances that what is
proved is not empty, the theorems that the bounds do not matter.

| Module | Theorem | States |
|---|---|---|
| `Listener_proofs` | `Invariance`, `TypeCorrect` | `IInv`, `TypeOK` |
| | `DeliveredOncePerWindow` | `OncePerWindow` |
| | `AnswersStayMatched` | `AnswersMatch` |
| | `CacheDecidesLikeHistory` | `CacheIsHistory` |
| | `WindowDoesNotSlide` | `LiveEntriesStay` |
| | `ListenerImplementsPromise` | `Spec => Promise!Spec` |
| | `UsageIsExact` | `UsageSettles` |
| | `NothingIsUncounted` | `NothingUncounted` |
| `ServeLoop_proofs` | `TypeCorrect`, `ReturnsOnlyForCause` | `TypeOK`, `ReturnsForCause` |
| `SipExchange_proofs` | `Invariance`, `TypeCorrect` | the module's `IInv`, `TypeOK` |
| | `OwnAnswer` | `AnswersOwnRequest` |
| | `OneAnswer` | `SameAnswer` |
| | `HandledOnce` | `HandledOncePerLife` |
| | `VerdictsAreSound` | the safety of `ProbeDecides` |
| `Collector_proofs` | `Invariance`, `TypeCorrect` | `IInv`, `TypeOK` |
| | `CleanExitIsClean` | `CleanExitKeepsFinished` |
| | `LossIsTold` | `NoSilentLoss` |
| | `LogsLeaveOnce` | `ExportedOnce` |
| `Startup_proofs` | `TypeCorrect` | `TypeOK` |
| | `LaterSourceCounts` | `Precedence` |
| | `ProvidersAreShut` | `NothingLeftRunning` |
| | `ChecksStayInForce` | what was validated is what serves |
| | `ConfigurationRuns` | `ConfigurationInForce` |
| | `LabelsAgree` | `SignalsAgree` |
| | `SendersApart` | `SendersStayApart` |
| `VQReport_proofs` | `TypeCorrect` | `TypeOK` |
| | `LastObservation` | `LastObservationWins` |
| | `AddressIsOfOneLine` | `AddressOfOneLine` |
| | `PartiesOfDialect` | `PartiesAndDialect` |
| | `NothingIsLost` | `UnrecognisedRemains` |
| `ReportExport_proofs` | `Invariance`, `TypeCorrect` | the module's `IInv`, `TypeOK` |
| | `FieldsKept` | `RepeatedFieldsKept` |
| | `NamesApart` | `NamesUnique` |
| | `FieldsReadBack` | `FieldsRecoverable` |
| | `EachMeasuredOnce` | `MeasurementsObserved` |

*Listener.* `OncePerWindow` is not inductive. `Miss` may admit a report only
because the lookup failed, so the invariant must tie the map to the history:
`CacheSound` (an entry belongs to the report that made it and expires a window
after it) and `YoungCached` (a report younger than the window has its entry).
`CallHandler` may count a report as handled only because the goroutine's answer
says it is no duplicate, so `AnswersMatch` says that the answer in flight is of
a report not handled yet and that no second goroutine holds such an answer for
it. `IInv` is the conjunction of these with `TypeOK`; one lemma per group of
actions shows that a step keeps it. `CacheIsHistory` follows from `IInv` in each
state, `LiveEntriesStay` and the refinement from `IInv` for each step: `Miss` is
`Admit`, `Hit` is `Absorb`, `CallHandler` is `Hand`, `Tick` is `Tick` and all
other steps stutter.

The usage counter needs a sum over the goroutines that owe it a change, and a
sum by recursion could not be reasoned about. `Sums` says instead that some walk
through those goroutines, in some order, leads from one number to the other;
that a sum grows by a goroutine put at its end and loses one taken out of its
middle are lemmas. `Owed` (from `gauge`, what is owed leads to the size of the
map) is then inductive. `Counted` is the like for the outcome counters: each
datagram is in a counter or with a goroutine that has still to count it.

*SipExchange.* `Remembered` carries the argument about time: as long as a copy of
a report that was taken may still come, its entry is in the cache and lives
until after that, because the window is longer than a phone goes on sending
plus the delay of its last copy. `KeptIsTaken` and `Settled` say the converse
and what becomes of an answered report, `Cached` and `Tokened` that the cache
holds the very response that was sent and that each has a token of its own. All
of it is about one life of the process; a stop empties both sides.

`AnswersOwnRequest` rests on what `parseRequest` keeps, and that is exact: of the
headers read so far it holds (lemma `Heard`) what the first line of that name said,
with its continuations and nothing else, or nothing if no line had the name, unless a
repeated header was continued (`Misread`). `Current` says which header continuations
go to, and `OneLine` what a line adds to it. From there `DecoratedVia` and `Answered` show it of every response
that is built, and `Cached` of those that are sent again. That the recursive
functions `Parsed` and what a request said (`SaidBy`) are
defined by their equations at all is shown from one line to the next
(`ParsedFunction`, `SaidFunction`): their finite approximations exist.

*Collector.* `IInv` adds to the properties where each report is in each phase of
the shutdown (`StagesMatch`), what the totals and the queue hold of those whose
handlers were done when the listener stopped (`FinishedKept`), what is known of
each lost record (`LossKnown`: overwritten, or failed and counted, or failed when
nobody counted any more), and that the exit code is that of the errors (`ExitTold`).

*Startup.* `InForce`: in every phase after a check, what it checked still holds
of the settings that the later steps read. `Loaded`: each setting is that of the
last source among those applied so far. `Built` says what newProviders made of the
settings and `InPlace` carries it through the rest of the start; `HTTPPaths` says
what becomes of a path that ends in either signal's own.

*VQReport.* The properties read the whole body; `ReadSoFar` states them of the
lines up to the one Parse is at. Where a definition chooses the last of several
lines, `Extremes` shows that there is one: a set of naturals has a least element
because `<` is well-founded, so no induction over the body is needed.
`UnrecognisedRemains` adds `TokensKept` (while Parse folds, the logical lines have
the tokens of the lines read, in their order: `AddedTokens`, for each place foldLines
puts a line) and `KeptSoFar` (the tokens read so far are in Fields, and in Unknown
exactly where they must be).

*ReportExport.* `KeysMade` says of each field how it came to its key, and is
enough to show that numbering loses none; `Told` ties the attributes given so far
to the keys they tell. That `logAttributes` finds a name that is free is the
pigeonhole principle: there are more suffixes than names (`Sizes`).
`MeasurementsObserved` is an invariant of the table: what is recorded is what the
pairs of calls made so far say, each once.

Assumptions. `Listener`: traffic consists of datagrams, the keys are finitely
many, the window is positive (config.go:171, sip.go:75). `SipExchange`: Call-ID
and CSeq together are unique among requests that have both (RFC 3261),
`randomToken` does not draw the same 12 bytes twice, phones do not share an
address and port, and `PatienceAssumption`: the last copy of a report arrives
before its window ends. With the default window of 32 s and SIP's timers the
last copy is sent after 31.5 s, so the assumption is tight; a shorter configured
window breaks it. `SipMessage`: what `strconv.Atoi` accepts is a number.
`VQReport`, `ReportExport`, `Startup`, `Collector`: the inputs have their type,
and a key has one normal form. Bounds are naturals.

Only model-checked: all liveness, which is out of the prover's reach: the
fairness part of `Delivers`, `StopsWhenQuiet`, `StopsWhenSocketFails`, `Exits`,
`QueuedRecordsLeave`, the verdict in `ProbeDecides`. The proofs are about the
specifications without fairness or need none of it.

## 5. Not modelled

* The characters of SIP messages, and token splitting within a line of a report.
  Consequence: a header value with a semicolon in quotes is not told apart, nor a
  parameter whose name only begins with `rport`.
* Headers without a value, and continuations with a colon.
* Requests without Call-ID and CSeq are in the model, but the properties are not
  stated for them: they share one key, and RFC 3261 demands both headers.
* The SDK's instruments and the inside of its exporters and batcher: `Collector`
  has of them what `run` relies on.
* Memory: neither the cache nor the number of goroutines has a limit in the
  code, so there is nothing to check but that it grows.
* NaN and infinity, which `ParseFloat` accepts: values are told apart by their
  origin.
* The spelling of IP addresses, which the configuration compares as text.
* Errors of a collection before the failure sink has its recorder: the reader waits
  far longer than the startup takes.
* The Grafana and CI scripts, the chart, dashboards, alert rules and workflows,
  which are not part of the collector.

Runs that find a disagreement between code and documents are listed under
"findings" in `PROJECT.json`. Disagreements met that no run shows:

* `parse.go:78` says that Fields retains every parsed header; an address header
  without `NAME=value` tokens leaves nothing there (`parse.go:151`).
* `spec/protocol.md:45-46` asks for Call-ID and CSeq verbatim and for a tag in To only
  where there is none: see the exceptions of `AnswersOwnRequest` in section 3.
* An endpoint without a scheme over HTTP is accepted and not used: see **startup**.

## 6. Plan

Done: 1 `ReportDelivery` and `Listener`; 2 `ServeLoop`; 3 `Collector`;
4 `VQReport`; 5 `Startup` with `Labels`; 6 `ReportExport`; 7 `SipExchange`
(phones, restarts and the probe); 8 `SipMessage`; 9 the first proofs of section 4;
10. the proofs of `ConfigurationInForce` and `AnswersOwnRequest`;
11. those of `UnrecognisedRemains` and `MeasurementsObserved`;
12. the batcher's bounded queue and late failures in `Collector`, the exact answer in
`AnswersOwnRequest`, the probe against servers that refuse OPTIONS.

Left:

13. `SipExchange` on top of `Listener`'s goroutines: a stop between the unlock
    and the write of an answer.
