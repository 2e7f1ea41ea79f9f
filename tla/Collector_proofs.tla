--------------------------- MODULE Collector_proofs ---------------------------
(***************************************************************************)
(* Proofs about module Collector, for every set of reports, any number of  *)
(* collections and a backend that may fail or not.                         *)
(***************************************************************************)
EXTENDS Collector, TLAPS

LEMMA InitIInv == Init => IInv
<1> SUFFICES ASSUME Init PROVE IInv
  OBVIOUS
<1>1. TypeOK
  <2>1. collecting \in BOOLEAN /\ expired \in BOOLEAN /\ serveErr \in BOOLEAN
           /\ shutdownErr \in BOOLEAN
    BY Zenon DEF Init
  <2>2. collections \in 0..MaxCollections
    BY MaxCollectionsAssumption DEF Init
  <2>3. stage \in [Reports -> Stages] /\ phase \in Phases
    BY DEF Init, Stages, Phases
  <2>4. /\ totals \subseteq Metered
        /\ snapshot \subseteq totals /\ metricsOut \subseteq totals
        /\ queue \subseteq Reports /\ batch \subseteq Reports
        /\ overwritten \subseteq Reports /\ logsOut \subseteq Reports
        /\ late \subseteq dropped /\ dropped \subseteq Reports
        /\ exitCode \in {"none", "0", "1"}
        /\ finished \subseteq Reports
    BY DEF Init
  <2> QED
    BY <2>1, <2>2, <2>3, <2>4, Zenon DEF TypeOK
<1>2. LossKnown /\ ExportedOnce
  BY DEF Init, LossKnown, ExportedOnce, FailureSeen
<1>3. StagesMatch
  BY DEF Init, StagesMatch, Emitted
<1>4. FinishedKept /\ ExitTold
  BY DEF Init, FinishedKept, ExitTold
<1> QED
  BY <1>1, <1>2, <1>3, <1>4 DEF IInv

-----------------------------------------------------------------------------
(* The handlers *)

LEMMA AnswerStep ==
    ASSUME IInv, NEW r \in Reports, Answer(r)
    PROVE  IInv'
<1> USE DEF Answer, Step, handlers, metrics, logs, process
<1>1. TypeOK'
  BY DEF IInv, TypeOK, Stages
<1>2. LossKnown' /\ ExportedOnce'
  BY DEF IInv, LossKnown, ExportedOnce, FailureSeen, MetersRun
<1>3. StagesMatch'
  BY DEF IInv, TypeOK, StagesMatch, Emitted
<1>4. FinishedKept'
  BY DEF IInv, TypeOK, FinishedKept, Emitted, Recorded
<1>5. ExitTold'
  BY DEF IInv, ExitTold
<1> QED
  BY <1>1, <1>2, <1>3, <1>4, <1>5 DEF IInv

\* What a handler adds to the totals is of a known kind, and nothing leaves them.
LEMMA AddType ==
    ASSUME TypeOK, NEW r \in Reports, NEW kind \in Kinds, Add(r, kind)
    PROVE  /\ totals' \subseteq Metered
           /\ totals \subseteq totals'
           /\ <<r, kind>> \in totals'
<1>1. <<r, kind>> \in Metered
  BY DEF Metered
<1> QED
  BY <1>1 DEF TypeOK, Add

LEMMA HandleStep ==
    ASSUME IInv, NEW r \in Reports, Handle(r)
    PROVE  IInv'
<1>1. CASE RefuseReport(r)
  <2> USE DEF RefuseReport, Step, handlers, metrics, logs, process
  <2>0. "parse error" \in Kinds /\ TypeOK
    BY DEF Kinds, IInv
  <2>1. totals' \subseteq Metered /\ totals \subseteq totals'
    BY <1>1, <2>0, AddType
  <2>2. TypeOK'
    BY <1>1, <2>1 DEF IInv, TypeOK, Stages
  <2>3. LossKnown' /\ ExportedOnce'
    BY <1>1, <2>1 DEF IInv, LossKnown, ExportedOnce, FailureSeen, MetersRun
  <2>4. StagesMatch'
    BY <1>1, <2>1 DEF IInv, TypeOK, StagesMatch, Emitted
  <2>5. FinishedKept'
    BY <1>1 DEF IInv, TypeOK, FinishedKept, Emitted, Recorded
  <2>6. ExitTold'
    BY <1>1 DEF IInv, ExitTold
  <2> QED
    BY <2>2, <2>3, <2>4, <2>5, <2>6 DEF IInv
<1>2. CASE RecordReport(r)
  <2> USE DEF RecordReport, Step, handlers, metrics, logs, process
  <2>0. "report" \in Kinds /\ TypeOK
    BY DEF Kinds, IInv
  <2>1. totals' \subseteq Metered /\ totals \subseteq totals' /\ <<r, "report">> \in totals'
    BY <1>2, <2>0, AddType
  <2>2. TypeOK'
    BY <1>2, <2>1 DEF IInv, TypeOK, Stages
  <2>3. LossKnown' /\ ExportedOnce'
    BY <1>2, <2>1 DEF IInv, LossKnown, ExportedOnce, FailureSeen, MetersRun
  <2>4. StagesMatch'
    BY <1>2, <2>1 DEF IInv, TypeOK, StagesMatch, Emitted
  <2>5. FinishedKept'
    BY <1>2 DEF IInv, TypeOK, FinishedKept, Emitted, Recorded
  <2>6. ExitTold'
    BY <1>2 DEF IInv, ExitTold
  <2> QED
    BY <2>2, <2>3, <2>4, <2>5, <2>6 DEF IInv
<1>3. CASE RecordQuality(r)
  <2> USE DEF RecordQuality, Step, handlers, metrics, logs, process
  <2>0. "quality" \in Kinds /\ TypeOK
    BY DEF Kinds, IInv
  <2>1. totals' \subseteq Metered /\ totals \subseteq totals' /\ <<r, "quality">> \in totals'
    BY <1>3, <2>0, AddType
  <2>2. TypeOK'
    BY <1>3, <2>1 DEF IInv, TypeOK, Stages
  <2>3. LossKnown' /\ ExportedOnce'
    BY <1>3, <2>1 DEF IInv, LossKnown, ExportedOnce, FailureSeen, MetersRun
  <2>4. StagesMatch'
    BY <1>3, <2>1 DEF IInv, TypeOK, StagesMatch, Emitted
  <2>5. FinishedKept'
    BY <1>3 DEF IInv, TypeOK, FinishedKept, Emitted, Recorded
  <2>6. ExitTold'
    BY <1>3 DEF IInv, ExitTold
  <2> QED
    BY <2>2, <2>3, <2>4, <2>5, <2>6 DEF IInv
<1>4. CASE Emit(r)
  <2> USE DEF Emit, BatcherRuns, Step, handlers, metrics, logs, process
  <2>1. r \notin Emitted
    BY <1>4 DEF IInv, StagesMatch
  <2>2. TypeOK'
    BY <1>4 DEF IInv, TypeOK, Stages
  <2>3. LossKnown' /\ ExportedOnce'
    <3>1. LossKnown'
      BY <1>4 DEF IInv, LossKnown, FailureSeen, MetersRun
    <3>2. \/ queue' = queue /\ overwritten' = overwritten
          \/ queue' = queue \cup {r} /\ overwritten' = overwritten
          \/ \E old \in queue : /\ queue' = (queue \ {old}) \cup {r}
                                /\ overwritten' = overwritten \cup {old}
      BY <1>4, Zenon
    <3>3. UNCHANGED <<batch, logsOut, dropped>>
      BY <1>4
    <3>4. ExportedOnce'
      BY <2>1, <3>2, <3>3 DEF IInv, ExportedOnce, Emitted
    <3> QED
      BY <3>1, <3>4
  <2>4. StagesMatch'
    BY <1>4 DEF IInv, TypeOK, StagesMatch, Emitted
  <2>5. FinishedKept'
    BY <1>4 DEF IInv, TypeOK, FinishedKept, Emitted, Recorded
  <2>6. ExitTold'
    BY <1>4 DEF IInv, ExitTold
  <2> QED
    BY <2>2, <2>3, <2>4, <2>5, <2>6 DEF IInv
<1>5. CASE RecordProcessDuration(r)
  <2> USE DEF RecordProcessDuration, Step, handlers, metrics, logs, process
  <2>0. "duration" \in Kinds /\ TypeOK
    BY DEF Kinds, IInv
  <2>1. totals' \subseteq Metered /\ totals \subseteq totals' /\ <<r, "duration">> \in totals'
    BY <1>5, <2>0, AddType
  <2>2. TypeOK'
    BY <1>5, <2>1 DEF IInv, TypeOK, Stages
  <2>3. LossKnown' /\ ExportedOnce'
    BY <1>5, <2>1 DEF IInv, LossKnown, ExportedOnce, FailureSeen, MetersRun
  <2>4. StagesMatch'
    BY <1>5, <2>1 DEF IInv, TypeOK, StagesMatch, Emitted
  <2>5. FinishedKept'
    BY <1>5 DEF IInv, TypeOK, FinishedKept, Emitted, Recorded
  <2>6. ExitTold'
    BY <1>5 DEF IInv, ExitTold
  <2> QED
    BY <2>2, <2>3, <2>4, <2>5, <2>6 DEF IInv
<1> QED
  BY <1>1, <1>2, <1>3, <1>4, <1>5 DEF Handle

-----------------------------------------------------------------------------
(* The exporters *)

LEMMA CollectStep ==
    ASSUME IInv, Collect
    PROVE  IInv'
<1> USE DEF Collect, handlers, metrics, logs, process
<1>1. TypeOK'
  <2>1. collections' \in 0..MaxCollections
    BY MaxCollectionsAssumption DEF IInv, TypeOK
  <2>2. collecting' \in BOOLEAN
    BY Zenon
  <2>3. snapshot' \subseteq totals' /\ metricsOut' \subseteq totals'
    BY DEF IInv, TypeOK
  <2>4. UNCHANGED <<phase, stage, totals, queue, overwritten, batch, logsOut, dropped, late, expired,
                    serveErr, shutdownErr, exitCode, finished>>
    OBVIOUS
  <2> QED
    BY <2>1, <2>2, <2>3, <2>4 DEF IInv, TypeOK
<1>2. LossKnown' /\ ExportedOnce'
  BY DEF IInv, TypeOK, LossKnown, ExportedOnce, FailureSeen, MetersRun
<1>3. StagesMatch'
  BY DEF IInv, StagesMatch, Emitted
<1>4. FinishedKept'
  BY DEF IInv, TypeOK, FinishedKept, Emitted, Recorded
<1>5. ExitTold'
  BY DEF IInv, ExitTold
<1> QED
  BY <1>1, <1>2, <1>3, <1>4, <1>5 DEF IInv

LEMMA ExportMetricsStep ==
    ASSUME IInv, ExportMetrics
    PROVE  IInv'
<1> USE DEF ExportMetrics, RecordExportFailure, MetersRun, handlers, metrics, logs, process
<1>0. totals' \subseteq Metered /\ totals \subseteq totals'
  <2>1. totals' = totals \/ totals' = totals \cup ({collections} \X {"metric failure"})
    OBVIOUS
  <2>2. {collections} \X {"metric failure"} \subseteq Metered
    BY DEF IInv, TypeOK, Metered
  <2> QED
    BY <2>1, <2>2 DEF IInv, TypeOK
<1>1. TypeOK'
  <2>2. collecting' \in BOOLEAN
    BY Zenon
  <2>3. snapshot' \subseteq totals' /\ metricsOut' \subseteq totals'
    BY <1>0 DEF IInv, TypeOK
  <2>4. UNCHANGED <<phase, stage, queue, overwritten, batch, logsOut, dropped, late, collections,
                    expired, serveErr, shutdownErr, exitCode, finished>>
    OBVIOUS
  <2> QED
    BY <1>0, <2>2, <2>3, <2>4 DEF IInv, TypeOK
<1>2. LossKnown' /\ ExportedOnce'
  BY DEF IInv, TypeOK, LossKnown, ExportedOnce, FailureSeen, MetersRun
<1>3. StagesMatch'
  BY DEF IInv, StagesMatch, Emitted
<1>4. FinishedKept'
  BY DEF IInv, TypeOK, FinishedKept, Emitted, Recorded
<1>5. ExitTold'
  BY DEF IInv, ExitTold
<1> QED
  BY <1>1, <1>2, <1>3, <1>4, <1>5 DEF IInv

LEMMA TakeBatchStep ==
    ASSUME IInv, TakeBatch
    PROVE  IInv'
<1> USE DEF TakeBatch, MetersRun, handlers, metrics, logs, process
<1>1. TypeOK'
  BY DEF IInv, TypeOK, Phases
<1>2. LossKnown' /\ ExportedOnce'
  BY DEF IInv, TypeOK, LossKnown, ExportedOnce, FailureSeen, MetersRun
<1>3. StagesMatch'
  BY DEF IInv, StagesMatch, Emitted
<1>4. FinishedKept'
  BY DEF IInv, TypeOK, FinishedKept, Emitted, Recorded
<1>5. ExitTold'
  BY DEF IInv, ExitTold
<1> QED
  BY <1>1, <1>2, <1>3, <1>4, <1>5 DEF IInv

LEMMA ExportLogsStep ==
    ASSUME IInv, ExportLogs
    PROVE  IInv'
<1> USE DEF ExportLogs, RecordExportFailure, MetersRun, BatcherRuns, handlers, metrics, logs, process
<1>0. totals' \subseteq Metered /\ totals \subseteq totals'
  <2>1. totals' = totals \/ totals' = totals \cup (batch \X {"log failure"})
    OBVIOUS
  <2>2. batch \X {"log failure"} \subseteq Metered
    BY DEF IInv, TypeOK, Metered, Kinds
  <2> QED
    BY <2>1, <2>2 DEF IInv, TypeOK
<1>1. TypeOK'
  <2>1. snapshot' \subseteq totals' /\ metricsOut' \subseteq totals'
    BY <1>0 DEF IInv, TypeOK
  <2>2. batch' \subseteq Reports /\ logsOut' \subseteq Reports
    BY DEF IInv, TypeOK
  <2>3. late' \subseteq dropped' /\ dropped' \subseteq Reports
    BY DEF IInv, TypeOK
  <2>4. UNCHANGED <<phase, stage, queue, overwritten, collecting, collections, expired, serveErr,
                    shutdownErr, exitCode, finished>>
    OBVIOUS
  <2> QED
    BY <1>0, <2>1, <2>2, <2>3, <2>4 DEF IInv, TypeOK
<1>2. LossKnown' /\ ExportedOnce'
  BY DEF IInv, TypeOK, LossKnown, ExportedOnce, FailureSeen, MetersRun
<1>3. StagesMatch'
  BY DEF IInv, StagesMatch, Emitted
<1>4. FinishedKept'
  BY DEF IInv, TypeOK, FinishedKept, Emitted, Recorded
<1>5. ExitTold'
  BY DEF IInv, ExitTold
<1> QED
  BY <1>1, <1>2, <1>3, <1>4, <1>5 DEF IInv

-----------------------------------------------------------------------------
(* run *)

\* The goroutines that had returned by then had left everything behind.
LEMMA ReturnsStep ==
    ASSUME IInv, ListenAndServeReturns
    PROVE  IInv'
<1> USE DEF ListenAndServeReturns, MetersRun, Handled, handlers, metrics, logs, process
<1>1. TypeOK'
  BY DEF IInv, TypeOK, Phases
<1>2. LossKnown' /\ ExportedOnce'
  BY DEF IInv, TypeOK, LossKnown, ExportedOnce, FailureSeen, MetersRun
<1>3. StagesMatch'
  BY DEF IInv, StagesMatch, Emitted
<1>4. FinishedKept'
  <2> SUFFICES ASSUME NEW r \in Handled
               PROVE  /\ stage[r] \in {"done", "refused"}
                      /\ r \notin Unparsable => r \in Emitted
    BY DEF FinishedKept, Emitted
  <2>1. stage[r] \in {"done", "refused"} /\ r \in Reports
    OBVIOUS
  <2>2. r \notin Unparsable => stage[r] = "done"
    BY <2>1 DEF IInv, StagesMatch
  <2>3. stage[r] = "done" => r \in Emitted
    BY <2>1 DEF IInv, StagesMatch
  <2> QED
    BY <2>1, <2>2, <2>3
<1>5. ExitTold'
  BY DEF IInv, ExitTold
<1> QED
  BY <1>1, <1>2, <1>3, <1>4, <1>5 DEF IInv

LEMMA ShutdownMetricsStep ==
    ASSUME IInv, ShutdownMetrics
    PROVE  IInv'
<1> USE DEF ShutdownMetrics, MetersRun, handlers, metrics, logs, process
<1>1. TypeOK'
  <2>2. shutdownErr' \in BOOLEAN /\ expired' \in BOOLEAN
    BY Zenon DEF IInv, TypeOK
  <2>3. metricsOut' \subseteq totals'
    BY DEF IInv, TypeOK
  <2> QED
    BY <2>2, <2>3 DEF IInv, TypeOK, Phases
<1>2. LossKnown' /\ ExportedOnce'
  <2>1. ExportedOnce'
    BY DEF IInv, ExportedOnce
  <2> SUFFICES ASSUME NEW r \in dropped, r \notin late, ~shutdownErr'
               PROVE  <<r, "log failure">> \in totals /\ FailureSeen(r)'
    BY <2>1 DEF LossKnown
  <2>2. ~shutdownErr /\ metricsOut' = totals
    <3>1. ~(shutdownErr' = TRUE)
      OBVIOUS
    <3> QED
      BY <3>1, Zenon
  <2>3. <<r, "log failure">> \in totals
    BY <2>2 DEF IInv, LossKnown
  <2> QED
    BY <2>2, <2>3 DEF FailureSeen
<1>3. StagesMatch'
  BY DEF IInv, StagesMatch, Emitted
<1>4. FinishedKept'
  <2> SUFFICES ASSUME NEW r \in finished
               PROVE  /\ stage[r] \in {"done", "refused"}
                      /\ r \notin Unparsable =>
                            /\ r \in Emitted
                            /\ ~shutdownErr' => Recorded(r) \subseteq metricsOut'
    BY DEF FinishedKept, Emitted
  <2>1. stage[r] \in {"done", "refused"} /\ (r \notin Unparsable => r \in Emitted)
    BY DEF IInv, FinishedKept
  <2>2. r \in Reports /\ (r \notin Unparsable => stage[r] = "done")
    BY <2>1 DEF IInv, TypeOK, StagesMatch
  <2>3. r \notin Unparsable => Recorded(r) \subseteq totals
    BY <2>2 DEF IInv, StagesMatch, Recorded
  <2>4. ~shutdownErr' => metricsOut' = totals
    OBVIOUS
  <2> QED
    BY <2>1, <2>3, <2>4
<1>5. ExitTold'
  BY DEF IInv, ExitTold
<1> QED
  BY <1>1, <1>2, <1>3, <1>4, <1>5 DEF IInv

LEMMA ShutdownLogsStep ==
    ASSUME IInv, ShutdownLogs
    PROVE  IInv'
<1> USE DEF ShutdownLogs, MetersRun, GiveUp, handlers, metrics, logs, process
<1>1. TypeOK'
  <2>2. shutdownErr' \in BOOLEAN
    BY Zenon DEF IInv, TypeOK
  <2>3. logsOut' \subseteq Reports /\ dropped' \subseteq Reports
    BY DEF IInv, TypeOK
  <2> QED
    BY <2>2, <2>3 DEF IInv, TypeOK, Phases
<1>2. LossKnown' /\ ExportedOnce'
  BY DEF IInv, TypeOK, LossKnown, ExportedOnce, FailureSeen, MetersRun
<1>3. StagesMatch'
  BY DEF IInv, StagesMatch, Emitted
<1>4. FinishedKept'
  <2>1. Emitted' = Emitted
    BY DEF Emitted
  <2>2. ~shutdownErr' => ~shutdownErr
    BY Zenon
  <2>3. \A r : Recorded(r)' = Recorded(r)
    BY DEF Recorded
  <2> QED
    BY <2>1, <2>2, <2>3 DEF IInv, FinishedKept
<1>5. ExitTold'
  BY DEF IInv, ExitTold
<1> QED
  BY <1>1, <1>2, <1>3, <1>4, <1>5 DEF IInv

LEMMA ReturnStep ==
    ASSUME IInv, Return
    PROVE  IInv'
<1> USE DEF Return, MetersRun, handlers, metrics, logs, process
<1>1. TypeOK'
  BY DEF IInv, TypeOK, Phases
<1>2. LossKnown' /\ ExportedOnce'
  BY DEF IInv, TypeOK, LossKnown, ExportedOnce, FailureSeen, MetersRun
<1>3. StagesMatch'
  BY DEF IInv, StagesMatch, Emitted
<1>4. FinishedKept'
  BY DEF IInv, TypeOK, FinishedKept, Emitted, Recorded
<1>5. ExitTold'
  BY DEF IInv, ExitTold
<1> QED
  BY <1>1, <1>2, <1>3, <1>4, <1>5 DEF IInv

LEMMA StutterStep ==
    ASSUME IInv, UNCHANGED vars
    PROVE  IInv'
<1> USE DEF vars, MetersRun, handlers, metrics, logs, process
<1>1. TypeOK'
  BY DEF IInv, TypeOK, Phases
<1>2. LossKnown' /\ ExportedOnce'
  BY DEF IInv, TypeOK, LossKnown, ExportedOnce, FailureSeen, MetersRun
<1>3. StagesMatch'
  BY DEF IInv, StagesMatch, Emitted
<1>4. FinishedKept'
  BY DEF IInv, TypeOK, FinishedKept, Emitted, Recorded
<1>5. ExitTold'
  BY DEF IInv, ExitTold
<1> QED
  BY <1>1, <1>2, <1>3, <1>4, <1>5 DEF IInv

LEMMA NextIInv == IInv /\ [Next]_vars => IInv'
  BY AnswerStep, HandleStep, CollectStep, ExportMetricsStep, TakeBatchStep, ExportLogsStep,
     ReturnsStep, ShutdownMetricsStep, ShutdownLogsStep, ReturnStep, StutterStep
     DEF Next, Shutdown

\* What the invariant says of the losses, once the exit code is 0.
LEMMA CleanLoss == IInv => NoSilentLoss
<1> SUFFICES ASSUME IInv, exitCode = "0", NEW r \in Emitted \ logsOut
             PROVE  FailureSeen(r) \/ r \in late \cup overwritten
  BY DEF NoSilentLoss
<1>1. phase = "exited" /\ ~shutdownErr /\ queue = {} /\ batch = {}
  BY DEF IInv, ExitTold
<1>2. r \in dropped \cup overwritten
  BY <1>1 DEF Emitted
<1>3. r \in dropped => r \in late \/ FailureSeen(r)
  BY <1>1 DEF IInv, LossKnown, MetersRun
<1> QED
  BY <1>2, <1>3

\* What it says of the handlers that had finished.
LEMMA CleanExit == IInv => CleanExitKeepsFinished
<1> SUFFICES ASSUME IInv, exitCode = "0", NEW r \in finished \ Unparsable
             PROVE  /\ Recorded(r) \subseteq metricsOut
                    /\ r \in logsOut \/ FailureSeen(r) \/ r \in late \cup overwritten
  BY DEF CleanExitKeepsFinished
<1>1. phase = "exited" /\ ~shutdownErr
  BY DEF IInv, ExitTold
<1>2. r \in Emitted /\ Recorded(r) \subseteq metricsOut
  BY <1>1 DEF IInv, FinishedKept
<1>3. r \in Emitted \ logsOut => FailureSeen(r) \/ r \in late \cup overwritten
  BY CleanLoss DEF NoSilentLoss
<1> QED
  BY <1>2, <1>3

-----------------------------------------------------------------------------
(* The theorems *)

\* The invariant holds for every set of reports, whatever the backend does.
THEOREM Invariance == Spec => []IInv
<1>1. Init => IInv
  BY InitIInv
<1> QED
  BY <1>1, NextIInv, PTL DEF Spec

\* Every variable keeps its type; the backend never has totals no handler recorded.
THEOREM TypeCorrect == Spec => []TypeOK
<1>1. IInv => TypeOK
  BY DEF IInv
<1> QED
  BY <1>1, Invariance, PTL

\* An exit code of 0 (main.go:151) means that everything the handlers had finished when
\* the listener stopped has reached the backend, but for log records the backend knows a
\* failed export of, or that met an overflow or a failure after the meters were shut.
THEOREM CleanExitIsClean == Spec => []CleanExitKeepsFinished
  BY CleanExit, Invariance, PTL

\* At an exit code of 0 the backend was told of each failed export of logs, but for those
\* that failed after the meter provider was shut down (main.go:276, 414-420); the only
\* other loss is the overflow of the batcher.
THEOREM LossIsTold == Spec => []NoSilentLoss
  BY CleanLoss, Invariance, PTL

\* The one Emit of Export (export.go:177) becomes one exported log record, or one that
\* is given up, never both and never two.
THEOREM LogsLeaveOnce == Spec => []ExportedOnce
<1>1. IInv => ExportedOnce
  BY DEF IInv
<1> QED
  BY <1>1, Invariance, PTL
=============================================================================
