-------------------------------- MODULE Labels --------------------------------
(***************************************************************************)
(* The values of metric attributes: which of them the self-observability   *)
(* recorder (internal/selfobs) lets through, what the report exporter      *)
(* (internal/otelexport) makes of them, and what the program passes to     *)
(* both.  The two are written apart and have to agree.                     *)
(*                                                                         *)
(* A string is a word, perhaps padded with blanks, perhaps in upper case.  *)
(* A call of the recorder is the set of the series it adds to: none, if it *)
(* is refused (an error its callers drop).                                 *)
(***************************************************************************)
EXTENDS Integers, Sequences, SequencesExt

Plain(w) == [word |-> w, padded |-> FALSE, upper |-> FALSE]
TrimSpace(s) == [s EXCEPT !.padded = FALSE]
ToLower(s) == [s EXCEPT !.upper = FALSE]
Unknown == Plain("unknown")

-----------------------------------------------------------------------------
(* selfobs: the recorder *)

\* The allowed word that the value is, case and blanks aside, and its own spelling.
closed(value, allowed) == {w \in allowed : ToLower(TrimSpace(value)) = Plain(w)}
canonical(value, allowed) == closed(value, allowed)

\* registry: a sender's name in lower case -> the name.
sender(registry, value) ==
    LET key == ToLower(TrimSpace(value)) IN
    IF key \in DOMAIN registry THEN {registry[key]} ELSE {}

\* Names are trimmed; one that is blank, or another's in another case, is refused.
senderRegistry(names) ==
    LET trimmed == [i \in DOMAIN names |-> TrimSpace(names[i])]
        keys == [i \in DOMAIN names |-> ToLower(trimmed[i])]
    IN
    [ok |-> (\A i \in DOMAIN names : trimmed[i].word # "") /\ IsInjective(keys),
     names |-> [k \in ToSet(keys) |-> trimmed[CHOOSE i \in DOMAIN keys : keys[i] = k]]]

validBuildInfo(build) == \A part \in DOMAIN build : TrimSpace(build[part]).word # ""

RecordedDialects == {"standard", "prestandard"}
RecordedTypes == {"VQSessionReport", "VQIntervalReport", "VQAlertReport"}
RecordedErrors == {"invalid_input", "malformed_datagram", "malformed_sip",
                   "unrecognized_dialect", "invalid_value", "export_failed"}

RecordDatagram(outcome) == closed(outcome, {"accepted", "rejected", "malformed"})
RecordReport(registry, dialect, type, name) ==
    closed(dialect, RecordedDialects) \X canonical(type, RecordedTypes) \X sender(registry, name)
RecordParseError(errorType) == closed(errorType, RecordedErrors)
RecordDuplicate(registry, name) == sender(registry, name)
RecordResponse(status) == {status} \cap {200, 405, 415, 489}
RecordExportFailure(signal) == closed(signal, {"metrics", "logs"})
RecordProcessDuration(dialect, duration) ==
    IF duration < 0 THEN {} ELSE closed(dialect, RecordedDialects)

-----------------------------------------------------------------------------
(* otelexport: the labels of the call metrics *)

boundedDialect(value) ==
    LET v == ToLower(TrimSpace(value)) IN IF v.word = "" THEN "unknown" ELSE v.word

boundedReportType(value) ==
    IF value \in {Plain(t) : t \in RecordedTypes} THEN value.word ELSE "unknown"

boundedSenderName(name) ==
    IF TrimSpace(name).word = "" THEN Unknown ELSE TrimSpace(name)

-----------------------------------------------------------------------------
(* What the program passes to them *)

\* Dialect.String of what detectDialect returns, and the types reportLine knows.
Dialects == {Plain("standard"), Plain("prestandard")}
ReportTypes == {Plain(t) : t \in {"VQSessionReport", "VQIntervalReport", "VQAlertReport"}}

\* Parse returns one of its two errors.
ParseErrors == {"ErrUnrecognizedDialect", "ErrInvalidInput"}
parseErrorType(err) ==
    Plain(CASE err = "ErrUnrecognizedDialect" -> "unrecognized_dialect"
            [] err = "ErrInvalidInput" -> "invalid_input"
            [] OTHER -> "invalid_value")

Outcomes == {Plain("malformed"), Plain("rejected"), Plain("accepted")}
Statuses == {200, 405, 415, 489}
Signals == {Plain("metrics"), Plain("logs")}
=============================================================================
