------------------------------ MODULE Collector ------------------------------
(***************************************************************************)
(* cmd/rfc6035-2otel/main.go: the process around the listener.  A report   *)
(* that the listener answered (module Listener, CallHandler) runs through  *)
(* the handler in its own goroutine while the metric reader and the log    *)
(* batcher export what the handlers recorded, and run shuts them down when *)
(* ListenAndServe returns.  The OpenTelemetry SDK is external and modelled *)
(* as run uses it: a reader that exports the running totals, a batcher     *)
(* with a bounded queue that exports each record once.                     *)
(***************************************************************************)
EXTENDS Integers, FiniteSets

CONSTANTS
    Reports,        \* the reports answered with 200 and not duplicates
    Unparsable,     \* those whose body vqreport.Parse refuses
    QueueSize,      \* log records the batcher's queue has room for
    MaxCollections, \* bound on the periodic metric exports
    Undisturbed     \* the telemetry backend takes every export in time

ASSUME UnparsableAssumption == Unparsable \subseteq Reports
ASSUME QueueSizeAssumption == QueueSize \in Nat \ {0}
ASSUME UndisturbedAssumption == Undisturbed \in BOOLEAN
ASSUME MaxCollectionsAssumption == MaxCollections \in Nat

VARIABLES
    phase,          \* where run is, from ListenAndServe on
    stage,          \* where the goroutine of each report is
    totals,         \* what was recorded, in the meter provider
    collecting,     \* the metric reader is exporting
    snapshot,       \* the totals it exports
    metricsOut,     \* totals the backend has
    queue,          \* log records waiting in the batcher
    batch,          \* log records on their way to the backend
    logsOut,        \* log records the backend has
    overwritten,    \* log records that found no room in the queue
    dropped,        \* log records of failed exports, or given up by the shutdown
    late,           \* those of exports that failed after the meter provider was shut down
    collections,    \* periodic metric exports so far
    expired,        \* the metrics used up the 10 s of the shutdown context
    serveErr,       \* ListenAndServe returned an error
    shutdownErr,    \* providers.Shutdown returned an error
    exitCode,       \* what run returned
    finished        \* reports whose handler had returned when Serve returned

vars == <<phase, stage, totals, collecting, snapshot, metricsOut, queue, overwritten, batch,
          logsOut, dropped, late, collections, expired, serveErr, shutdownErr,
          exitCode, finished>>
handlers == <<stage, totals, queue, overwritten>>
metrics == <<collecting, snapshot, metricsOut, collections>>
logs == <<batch, logsOut, dropped, late>>
process == <<phase, expired, serveErr, shutdownErr, exitCode, finished>>

Phases == {"serving", "metrics", "logs", "return", "exited"}
Stages == {"awaited", "answered", "counted", "measured", "logged", "done", "refused"}

\* What is recorded for a report: one more in the reports counter, its call quality,
\* its processing time or a parse error by the handler; and when the export of its log
\* fails, the one more in export_failures for the batch it is in.
Kinds == {"report", "quality", "duration", "parse error", "log failure"}

\* export_failures also counts exports of metrics, told apart by their number.
Metered == (Reports \X Kinds) \cup ((0..MaxCollections) \X {"metric failure"})

Init ==
    /\ phase = "serving"
    /\ stage = [r \in Reports |-> "awaited"]
    /\ totals = {} /\ collecting = FALSE /\ snapshot = {} /\ metricsOut = {}
    /\ queue = {} /\ overwritten = {} /\ batch = {} /\ logsOut = {} /\ dropped = {} /\ late = {}
    /\ collections = 0
    /\ expired = FALSE /\ serveErr = FALSE /\ shutdownErr = FALSE
    /\ exitCode = "none"
    /\ finished = {}

-----------------------------------------------------------------------------
(* The handler, one goroutine for each report.  It stops with the process. *)

Running == phase # "exited"

Step(r, from, to) ==
    /\ Running
    /\ stage[r] = from
    /\ stage' = [stage EXCEPT ![r] = to]
    /\ UNCHANGED <<metrics, logs, process>>

Add(r, kind) == totals' = totals \cup {<<r, kind>>}

Answer(r) ==
    /\ phase = "serving"
    /\ Step(r, "awaited", "answered")
    /\ UNCHANGED <<totals, queue, overwritten>>

RefuseReport(r) ==
    /\ r \in Unparsable
    /\ Step(r, "answered", "refused")
    /\ Add(r, "parse error")
    /\ UNCHANGED <<queue, overwritten>>

RecordReport(r) ==
    /\ r \notin Unparsable
    /\ Step(r, "answered", "counted")
    /\ Add(r, "report")
    /\ UNCHANGED <<queue, overwritten>>

\* (Variants named Bad... are wrong on purpose: each stands for a plausible
\* mistake in the definition that follows it.)

\* The log record is emitted before the metrics as well as after them.
BadRecordQuality(r) ==
    /\ Step(r, "counted", "measured")
    /\ Add(r, "quality")
    /\ queue' = queue \cup {r}
    /\ UNCHANGED overwritten

\* The recordDirection and recordJitter calls of Export, taken as one.
RecordQuality(r) ==
    /\ Step(r, "counted", "measured")
    /\ Add(r, "quality")
    /\ UNCHANGED <<queue, overwritten>>

\* The batcher takes records until its shutdown.
BatcherRuns == phase \in {"serving", "metrics", "logs"}

\* The log provider takes records even after its shutdown.
BadEmit(r) ==
    /\ Step(r, "measured", "logged")
    /\ queue' = queue \cup {r}
    /\ UNCHANGED <<totals, overwritten>>

\* A record emitted after the log provider was shut down goes nowhere; one that finds the
\* queue full takes the place of an older one.
Emit(r) ==
    /\ Step(r, "measured", "logged")
    /\ \/ ~BatcherRuns /\ UNCHANGED <<queue, overwritten>>
       \/ /\ BatcherRuns /\ Cardinality(queue) < QueueSize
          /\ queue' = queue \cup {r}
          /\ UNCHANGED overwritten
       \/ /\ BatcherRuns /\ Cardinality(queue) >= QueueSize
          /\ \E old \in queue :
                /\ queue' = (queue \ {old}) \cup {r}
                /\ overwritten' = overwritten \cup {old}
    /\ UNCHANGED totals

RecordProcessDuration(r) ==
    /\ Step(r, "logged", "done")
    /\ Add(r, "duration")
    /\ UNCHANGED <<queue, overwritten>>

Handle(r) ==
    \/ RefuseReport(r)
    \/ RecordReport(r)
    \/ RecordQuality(r)
    \/ Emit(r)
    \/ RecordProcessDuration(r)

-----------------------------------------------------------------------------
(* The exporters, wrapped to count their failures *)

\* The meter provider exports what it has a last time when it is shut down.
MetersRun == phase \in {"serving", "metrics"}

\* A failed export is reported to the self-observability recorder, whose counter is in
\* the meter provider: what comes after that one's last export is not seen by anybody.
RecordExportFailure(what, kind) ==
    totals' = IF MetersRun THEN totals \cup (what \X {kind}) ELSE totals

Collect ==
    /\ phase = "serving"
    /\ ~collecting
    /\ collections < MaxCollections
    /\ collections' = collections + 1
    /\ collecting' = TRUE
    /\ snapshot' = totals
    /\ UNCHANGED <<handlers, logs, process, metricsOut>>

\* The totals are cumulative: a failed export is made up for by the next.
ExportMetrics ==
    /\ MetersRun
    /\ collecting
    /\ collecting' = FALSE
    /\ snapshot' = {}
    /\ \/ metricsOut' = snapshot /\ UNCHANGED totals
       \/ /\ ~Undisturbed
          /\ RecordExportFailure({collections}, "metric failure")
          /\ UNCHANGED metricsOut
    /\ UNCHANGED <<stage, queue, overwritten, logs, process, collections>>

TakeBatch ==
    /\ BatcherRuns
    /\ batch = {} /\ queue # {}
    /\ batch' = queue
    /\ queue' = {}
    /\ UNCHANGED <<stage, totals, overwritten, metrics, process, logsOut, dropped, late>>

\* The log exporter is not wrapped: nobody learns of its failures.
BadExportLogs ==
    /\ BatcherRuns
    /\ batch # {}
    /\ batch' = {}
    /\ \/ logsOut' = logsOut \cup batch /\ UNCHANGED <<dropped, late>>
       \/ /\ ~Undisturbed
          /\ dropped' = dropped \cup batch
          /\ late' = IF MetersRun THEN late ELSE late \cup batch
          /\ UNCHANGED logsOut
    /\ UNCHANGED <<handlers, metrics, process>>

\* Log records are not kept: a failed export loses its batch.
ExportLogs ==
    /\ BatcherRuns
    /\ batch # {}
    /\ batch' = {}
    /\ \/ logsOut' = logsOut \cup batch /\ UNCHANGED <<totals, dropped, late>>
       \/ /\ ~Undisturbed
          /\ RecordExportFailure(batch, "log failure")
          /\ dropped' = dropped \cup batch
          /\ late' = IF MetersRun THEN late ELSE late \cup batch
          /\ UNCHANGED logsOut
    /\ UNCHANGED <<stage, queue, overwritten, metrics, process>>

-----------------------------------------------------------------------------
(* run, from the return of ListenAndServe *)

Handled == {r \in Reports : stage[r] \in {"done", "refused"}}

\* It returns nil after the signal, or the error of the socket; the goroutines
\* of the listener are not waited for.
ListenAndServeReturns ==
    /\ phase = "serving"
    /\ phase' = "metrics"
    /\ serveErr' \in BOOLEAN
    /\ finished' = Handled
    /\ UNCHANGED <<handlers, metrics, logs, expired, shutdownErr, exitCode>>

\* The reader stops without a last collection.
BadShutdownMetrics ==
    /\ phase = "metrics"
    /\ ~collecting
    /\ phase' = "logs"
    /\ UNCHANGED <<handlers, logs, metrics, expired, shutdownErr, serveErr, exitCode, finished>>

\* providers.Shutdown, first half: the reader stops, collects once more and exports, in
\* time or not, successfully or not.  That this export failed is counted too late to be
\* seen, but returned.
ShutdownMetrics ==
    /\ phase = "metrics"
    /\ ~collecting
    /\ phase' = "logs"
    /\ expired' \in {FALSE, ~Undisturbed}
    /\ \/ metricsOut' = totals /\ UNCHANGED shutdownErr
       \/ ~Undisturbed /\ shutdownErr' = TRUE /\ UNCHANGED metricsOut
    /\ UNCHANGED <<handlers, logs, collecting, snapshot, collections, serveErr, exitCode,
                   finished>>

\* What the batcher still holds is lost, and run is told so.
GiveUp ==
    /\ ~Undisturbed
    /\ shutdownErr' = TRUE
    /\ dropped' = dropped \cup queue \cup batch
    /\ UNCHANGED logsOut

\* The batcher waits for the backend however long that takes.
BadShutdownLogs ==
    /\ phase = "logs"
    /\ batch = {} /\ ~expired
    /\ phase' = "return"
    /\ queue' = {}
    /\ \/ logsOut' = logsOut \cup queue /\ UNCHANGED <<dropped, shutdownErr>>
       \/ GiveUp
    /\ UNCHANGED <<stage, totals, overwritten, metrics, batch, late, serveErr, expired, exitCode,
                   finished>>

\* Second half: the batcher waits for the batch on its way, whose failure is not
\* returned, and exports what it holds.  That export fails, or what is left of the 10 s
\* is over before it or while the batch is still on its way: these errors are returned.
ShutdownLogs ==
    /\ phase = "logs"
    /\ phase' = "return"
    /\ queue' = {} /\ batch' = {}
    /\ \/ /\ batch = {} /\ ~expired
          /\ logsOut' = logsOut \cup queue
          /\ UNCHANGED <<dropped, shutdownErr>>
       \/ GiveUp
    /\ UNCHANGED <<stage, totals, overwritten, metrics, late, serveErr, expired, exitCode, finished>>

\* A failed shutdown has an exit code of its own.
BadReturn ==
    /\ phase = "return"
    /\ phase' = "exited"
    /\ exitCode' = IF serveErr THEN "1" ELSE IF shutdownErr THEN "2" ELSE "0"
    /\ UNCHANGED <<handlers, metrics, logs, serveErr, shutdownErr, expired, finished>>

Return ==
    /\ phase = "return"
    /\ phase' = "exited"
    /\ exitCode' = IF serveErr \/ shutdownErr THEN "1" ELSE "0"
    /\ UNCHANGED <<handlers, metrics, logs, serveErr, shutdownErr, expired, finished>>

Shutdown == ShutdownMetrics \/ ShutdownLogs \/ Return

Next ==
    \/ \E r \in Reports : Answer(r) \/ Handle(r)
    \/ Collect
    \/ ExportMetrics
    \/ TakeBatch
    \/ ExportLogs
    \/ ListenAndServeReturns
    \/ Shutdown

Spec == Init /\ [][Next]_vars

\* Exports end (the SDK bounds them in time), the exporters are scheduled, and
\* so is run.  No signal need ever come, and no handler get any further.
FairSpec ==
    /\ Spec
    /\ WF_vars(ExportMetrics)
    /\ WF_vars(TakeBatch)
    /\ WF_vars(ExportLogs)
    /\ WF_vars(Shutdown)
-----------------------------------------------------------------------------
(* Properties *)

TypeOK ==
    /\ phase \in Phases
    /\ stage \in [Reports -> Stages]
    /\ totals \subseteq Metered
    /\ collecting \in BOOLEAN
    /\ snapshot \subseteq totals /\ metricsOut \subseteq totals
    /\ queue \subseteq Reports /\ batch \subseteq Reports
    /\ overwritten \subseteq Reports /\ logsOut \subseteq Reports
    /\ late \subseteq dropped /\ dropped \subseteq Reports
    /\ collections \in 0..MaxCollections
    /\ expired \in BOOLEAN /\ serveErr \in BOOLEAN /\ shutdownErr \in BOOLEAN
    /\ exitCode \in {"none", "0", "1"}
    /\ finished \subseteq Reports

\* What the handler of a parsable report leaves behind.
Recorded(r) == {<<r, "report">>, <<r, "quality">>, <<r, "duration">>}

\* The log records the batcher took.
Emitted == queue \cup batch \cup logsOut \cup dropped \cup overwritten

\* The backend was told that the export with the log of r failed.
FailureSeen(r) == <<r, "log failure">> \in metricsOut

\* getting-started.md:25: a clean shutdown flushes the providers.  An exit code
\* of 0 means that everything the handlers had finished when the listener
\* stopped has reached the backend; a log record is missing only if the batcher's
\* queue had overflowed or an export of logs failed, which the backend was told unless
\* it was after the last export of metrics.
CleanExitKeepsFinished ==
    exitCode = "0" =>
        \A r \in finished \ Unparsable :
            /\ Recorded(r) \subseteq metricsOut
            /\ r \in logsOut \/ FailureSeen(r) \/ r \in late \cup overwritten

\* Of a log record that is lost either the exit code tells or the export_failures the
\* backend has (main.go:414-420, 148-153).  Lost without a sign are only the
\* records of an export that failed after the meter provider was shut down, whose
\* failure is counted where nobody reads it (main.go:276), and those the batcher's full
\* queue had no room for.
NoSilentLoss ==
    exitCode = "0" =>
        \A r \in Emitted \ logsOut : FailureSeen(r) \/ r \in late \cup overwritten

\* A record is exported once: no report is logged and given up, or logged
\* while it waits to be exported again.
ExportedOnce ==
    /\ logsOut \cap dropped = {}
    /\ (queue \cup batch) \cap (logsOut \cup dropped) = {}
    /\ queue \cap batch = {}
    /\ overwritten \cap (queue \cup batch \cup logsOut \cup dropped) = {}

\* Whatever happens to the backend, the process ends once the listener has.
Exits == phase = "metrics" ~> phase = "exited"

\* A record in the batcher does not stay there: it is exported or given up.
QueuedRecordsLeave ==
    \A r \in Reports : r \in queue ~> r \in logsOut \cup dropped \cup overwritten

\* security.md:26: "Every accepted report produces an OTLP log"; with a backend
\* that takes everything and an exit code of 0, every parsable report that was
\* answered has its log.
EveryAcceptedReportLogged ==
    exitCode = "0" =>
        \A r \in Reports \ Unparsable : stage[r] # "awaited" => r \in logsOut

-----------------------------------------------------------------------------
(* The invariant by which the safety properties hold *)

\* How far a handler has come shows in what it has left behind.
StagesMatch ==
    \A r \in Reports :
        /\ stage[r] = "refused" => r \in Unparsable
        /\ stage[r] \in {"counted", "measured", "logged", "done"} => <<r, "report">> \in totals
        /\ stage[r] \in {"measured", "logged", "done"} => <<r, "quality">> \in totals
        /\ stage[r] = "done" => <<r, "duration">> \in totals
        /\ r \in Emitted => stage[r] \in {"logged", "done"}
        /\ phase = "serving" /\ stage[r] \in {"logged", "done"} => r \in Emitted

\* What was finished when the listener stopped stays accounted for, and its metrics
\* have left once the reader was shut down without an error.
FinishedKept ==
    \A r \in finished :
        /\ phase # "serving"
        /\ stage[r] \in {"done", "refused"}
        /\ r \notin Unparsable =>
              /\ r \in Emitted
              /\ phase \in {"logs", "return", "exited"} /\ ~shutdownErr =>
                    Recorded(r) \subseteq metricsOut

\* A loss is in the totals if they were still to be exported, and has left with them.
LossKnown ==
    \A r \in dropped :
        \/ r \in late
        \/ shutdownErr
        \/ /\ <<r, "log failure">> \in totals
           /\ MetersRun \/ FailureSeen(r)

\* run returns last, with what it knows.
ExitTold ==
    /\ phase \in {"return", "exited"} => queue = {} /\ batch = {}
    /\ exitCode # "none" => phase = "exited"
    /\ exitCode = "0" => ~serveErr /\ ~shutdownErr

\* Inductive: the safety properties with what ties handlers, meters, log records and the
\* phases of run (main.go:119-155) together.
IInv ==
    /\ TypeOK /\ LossKnown /\ ExportedOnce
    /\ StagesMatch /\ FinishedKept /\ ExitTold
=============================================================================
