---------------------------- MODULE Startup_proofs ----------------------------
(***************************************************************************)
(* Proofs about module Startup, for everything the process may be started  *)
(* with and all sources of reports.                                        *)
(***************************************************************************)
EXTENDS Startup, TLAPS

\* The phases in which run has gone past Validate, past the registry, past sip.New.
Validated == {"logger", "providers", "buildinfo", "recorder", "instruments", "exporter",
              "listener", "bind", "serving"}
Recorded == {"instruments", "exporter", "listener", "bind", "serving"}
Listening == {"bind", "serving"}

\* What was checked or made once stays in force.
InForce ==
    /\ start \in Starts
    /\ senders \in Seq(Sender)
    /\ phase \in Validated => ValidSettings /\ ValidSenders
    /\ phase \in Recorded =>
          senderRegistry(Registered).ok /\ registry = senderRegistry(Registered).names
    /\ phase \in Listening => window = cfg.window
    /\ exit.failed \notin {"logger", "listener"}

LEMMA SendersOfFile ==
    ASSUME start \in Starts
    PROVE  file.senders \in Seq(Sender)
  BY StartsAssumption DEF IsStart, file

LEMMA InitInForce == Init => InForce
<1> SUFFICES ASSUME Init PROVE InForce
  OBVIOUS
<1>1. senders \in Seq(Sender)
  <2>1. <<>> \in Seq(Sender)
    OBVIOUS
  <2> QED
    BY <2>1 DEF Init
<1> QED
  BY <1>1 DEF Init, InForce, Validated, Recorded, Listening, NotExited

\* What depends on the senders only does not change with the rest.
LEMMA SameSenders ==
    ASSUME UNCHANGED senders
    PROVE  /\ ValidSenders' = ValidSenders
           /\ Registered' = Registered
           /\ senderRegistry(Registered)' = senderRegistry(Registered)
<1>1. Addresses' = Addresses /\ Names' = Names /\ Registered' = Registered
  BY DEF Addresses, Names, Registered
<1> QED
  BY <1>1 DEF ValidSenders, senderRegistry

LEMMA SameSettings ==
    ASSUME UNCHANGED cfg
    PROVE  ValidSettings' = ValidSettings
  BY DEF ValidSettings

\* A step that leaves what was checked alone, and goes on without skipping a check or out.
LEMMA Forward ==
    ASSUME InForce, UNCHANGED <<start, cfg, senders, registry, window>>,
           \/ phase' = "exited"
           \/ phase' = phase
           \/ phase \in Validated /\ phase' \in Validated
                /\ (phase' \in Recorded => phase \in Recorded)
                /\ (phase' \in Listening => phase \in Listening)
           \/ phase' \notin Validated,
           exit' = exit \/ exit'.failed \notin {"logger", "listener"}
    PROVE  InForce'
  BY SameSenders, SameSettings DEF InForce, Validated, Recorded, Listening

LEMMA NextInForce == InForce /\ [Next]_vars => InForce'
<1> SUFFICES ASSUME InForce, [Next]_vars PROVE InForce'
  OBVIOUS
<1> USE DEF Continue, Exit
<1>1. CASE Leave
  BY <1>1, Forward DEF Leave
<1>2. CASE ParseFlags
  BY <1>2, Forward DEF ParseFlags, Validated
<1>3. CASE ReadFile
  <2>1. senders' \in Seq(Sender)
    BY <1>3, SendersOfFile DEF ReadFile, InForce
  <2>2. phase' \notin Validated /\ phase' \notin Recorded /\ phase' \notin Listening
    BY <1>3 DEF ReadFile, Validated, Recorded, Listening
  <2>3. exit'.failed \notin {"logger", "listener"} /\ start' = start
    BY <1>3 DEF ReadFile, InForce
  <2> QED
    BY <2>1, <2>2, <2>3 DEF InForce
<1>4. CASE ApplyEnvironment
  <2>1. phase' \notin Validated /\ phase' \notin Recorded /\ phase' \notin Listening
    BY <1>4 DEF ApplyEnvironment, Validated, Recorded, Listening
  <2>2. exit'.failed \notin {"logger", "listener"} /\ start' = start /\ senders' = senders
    BY <1>4 DEF ApplyEnvironment, InForce
  <2> QED
    BY <2>1, <2>2 DEF InForce
<1>5. CASE EnvironmentDone
  BY <1>5, Forward DEF EnvironmentDone, Validated
<1>6. CASE Validate
  BY <1>6, SameSenders, SameSettings DEF Validate, InForce, Validated, Recorded, Listening
<1>7. CASE NewLogger
  <2>1. cfg.level \in {"debug", "info"}
    BY <1>7 DEF NewLogger, InForce, Validated, ValidSettings
  <2> QED
    BY <1>7, <2>1, Forward DEF NewLogger, Validated, Recorded, Listening
<1>8. CASE NewProviders
  BY <1>8, Forward DEF NewProviders, Validated, Recorded, Listening
<1>9. CASE CheckBuildInfo
  BY <1>9, Forward DEF CheckBuildInfo, Validated, Recorded, Listening
<1>10. CASE NewRecorder
  <2>1. ValidSettings' = ValidSettings /\ ValidSenders' = ValidSenders
          /\ senderRegistry(Registered)' = senderRegistry(Registered)
    BY <1>10, SameSenders, SameSettings DEF NewRecorder
  <2>2. phase' # "exited" => senderRegistry(Registered).ok
                              /\ registry' = senderRegistry(Registered).names
    BY <1>10 DEF NewRecorder
  <2> QED
    BY <1>10, <2>1, <2>2 DEF NewRecorder, InForce, Validated, Recorded, Listening
<1>11. CASE NewInstruments
  BY <1>11, Forward DEF NewInstruments, Validated, Recorded, Listening
<1>12. CASE NewExporter
  BY <1>12, Forward DEF NewExporter, Validated, Recorded, Listening
<1>13. CASE NewListener
  <2>1. cfg.window \in {"positive", "default"}
    BY <1>13 DEF NewListener, InForce, Validated, ValidSettings
  <2>2. phase' = "bind" /\ window' = cfg.window
    BY <1>13, <2>1 DEF NewListener
  <2>3. ValidSettings' = ValidSettings /\ ValidSenders' = ValidSenders
          /\ senderRegistry(Registered)' = senderRegistry(Registered)
    BY <1>13, SameSenders, SameSettings DEF NewListener
  <2> QED
    BY <1>13, <2>1, <2>2, <2>3 DEF NewListener, InForce, Validated, Recorded, Listening
<1>14. CASE Bind
  BY <1>14, Forward DEF Bind, Validated, Recorded, Listening
<1>15. CASE UNCHANGED vars
  BY <1>15, Forward DEF vars
<1> QED
  BY <1>1, <1>2, <1>3, <1>4, <1>5, <1>6, <1>7, <1>8, <1>9, <1>10, <1>11, <1>12, <1>13,
     <1>14, <1>15 DEF Next

LEMMA NextNothingLeft == NothingLeftRunning /\ [Next]_vars => NothingLeftRunning'
<1> SUFFICES ASSUME NothingLeftRunning, [Next]_vars PROVE NothingLeftRunning'
  OBVIOUS
<1> USE DEF Continue, Exit, NothingLeftRunning
<1>1. CASE Leave \/ ParseFlags \/ ReadFile \/ ApplyEnvironment \/ EnvironmentDone
  BY <1>1 DEF Leave, ParseFlags, ReadFile, ApplyEnvironment, EnvironmentDone
<1>2. CASE Validate \/ NewLogger \/ NewProviders
  BY <1>2 DEF Validate, NewLogger, NewProviders
<1>3. CASE CheckBuildInfo \/ NewRecorder \/ NewInstruments
  BY <1>3 DEF CheckBuildInfo, NewRecorder, NewInstruments
<1>4. CASE NewExporter \/ NewListener \/ Bind
  BY <1>4 DEF NewExporter, NewListener, Bind
<1>5. CASE UNCHANGED vars
  BY <1>5 DEF vars
<1> QED
  BY <1>1, <1>2, <1>3, <1>4, <1>5 DEF Next

-----------------------------------------------------------------------------
(* Labels *)

\* TrimSpace and ToLower keep to strings, and trimming twice is trimming once.
LEMMA Trimmed ==
    ASSUME NEW s \in String
    PROVE  /\ TrimSpace(s) \in String
           /\ TrimSpace(TrimSpace(s)) = TrimSpace(s)
           /\ TrimSpace(s).word = s.word
  BY DEF TrimSpace, String

\* A plain word is trimmed and in lower case already.
LEMMA PlainWords ==
    ASSUME NEW w
    PROVE  /\ Plain(w).word = w
           /\ TrimSpace(Plain(w)) = Plain(w) /\ ToLower(Plain(w)) = Plain(w)
<1>1. Plain(w).word = w /\ Plain(w).padded = FALSE /\ Plain(w).upper = FALSE
  BY DEF Plain
<1> DEFINE S == [word : {w}, padded : {FALSE}, upper : {FALSE}]
<1>2. Plain(w) \in S
  BY DEF Plain
<1>3. \A r, s \in S : r = s
  <2>1. \A r \in S : r = [word |-> r.word, padded |-> r.padded, upper |-> r.upper]
    OBVIOUS
  <2>2. \A r \in S : r.word = w /\ r.padded = FALSE /\ r.upper = FALSE
    OBVIOUS
  <2> QED
    BY <2>1, <2>2, Zenon
<1>4. TrimSpace(Plain(w)) = Plain(w)
  BY <1>2, <1>3 DEF TrimSpace
<1>5. ToLower(Plain(w)) = Plain(w)
  BY <1>2, <1>3 DEF ToLower
<1> QED
  BY <1>1, <1>4, <1>5

LEMMA UnknownIsTrimmed ==
    /\ Unknown \in String /\ Unknown.word # ""
    /\ TrimSpace(Unknown) = Unknown
<1>1. Unknown.word = "unknown" /\ TrimSpace(Unknown) = Unknown
  BY PlainWords DEF Unknown
<1>2. "unknown" \in Words
  BY DEF Words
<1>3. Unknown \in String
  BY <1>2 DEF Unknown, Plain, String
<1> QED
  BY <1>1, <1>3

\* Of a closed set a plain word of it is what is let through.
LEMMA ClosedWord ==
    ASSUME NEW w, NEW allowed, w \in allowed
    PROVE  closed(Plain(w), allowed) = {w} /\ canonical(Plain(w), allowed) = {w}
<1>1. \A v \in allowed : Plain(w) = Plain(v) <=> v = w
  BY PlainWords
<1> QED
  BY <1>1, PlainWords DEF closed, canonical

\* A registry that could be made knows each of its names, and by its own spelling.
LEMMA Lookup ==
    ASSUME NEW names \in Seq(String), senderRegistry(names).ok, NEW i \in DOMAIN names
    PROVE  sender(senderRegistry(names).names, TrimSpace(names[i])) = {TrimSpace(names[i])}
<1> DEFINE trimmed == [j \in DOMAIN names |-> TrimSpace(names[j])]
           keys == [j \in DOMAIN names |-> ToLower(trimmed[j])]
           new == [k \in ToSet(keys) |-> trimmed[CHOOSE j \in DOMAIN keys : keys[j] = k]]
           key == ToLower(TrimSpace(TrimSpace(names[i])))
<1>1. senderRegistry(names).names = new /\ IsInjective(keys)
  BY DEF senderRegistry
<1>2. names[i] \in String
  OBVIOUS
<1>3. key = keys[i]
  BY <1>2, Trimmed
<1>4. key \in ToSet(keys)
  BY <1>3 DEF ToSet
<1>5. (CHOOSE j \in DOMAIN keys : keys[j] = keys[i]) = i
  BY <1>1 DEF IsInjective
<1>6. new[key] = trimmed[i]
  BY <1>3, <1>4, <1>5
<1> HIDE DEF new, keys, key
<1>7. DOMAIN new = ToSet(keys)
  BY DEF new
<1> QED
  BY <1>1, <1>4, <1>6, <1>7 DEF sender, key

\* The name of a source is one the registry was made from, trimmed.
LEMMA NameOfSource ==
    ASSUME senders \in Seq(Sender), ValidSenders, NEW a
    PROVE  LET name == SenderName(Plain(a)) IN
           /\ \E i \in DOMAIN Registered : name = TrimSpace(Registered[i])
           /\ name.word # "" /\ TrimSpace(name) = name
<1> DEFINE of == {i \in DOMAIN senders : Addresses[i] = TrimSpace(Plain(a))}
<1>1. DOMAIN Registered = 1..Len(senders) + 1 /\ Registered[1] = Unknown
        /\ \A i \in DOMAIN senders : Registered[i + 1] = senders[i].name
  BY DEF Registered
<1>2. CASE of = {}
  <2>1. SenderName(Plain(a)) = Unknown
    BY <1>2 DEF SenderName
  <2>2. 1 \in DOMAIN Registered
    BY <1>1
  <2> QED
    BY <2>1, <2>2, <1>1, UnknownIsTrimmed
<1>3. ASSUME NEW i \in of PROVE SenderName(Plain(a)) = TrimSpace(senders[i].name)
  <2>1. \A j \in of : j = i
    BY <1>3 DEF ValidSenders, IsInjective, Addresses
  <2>2. i \in DOMAIN senders /\ i <= i
    OBVIOUS
  <2>3. (CHOOSE k \in of : \A j \in of : k <= j) = i
    BY <2>1, <2>2
  <2>4. SenderName(Plain(a)) = Names[i]
    BY <2>3 DEF SenderName
  <2> QED
    BY <2>2, <2>4 DEF Names
<1>4. ASSUME NEW i \in of
      PROVE  /\ i + 1 \in DOMAIN Registered
             /\ senders[i].name \in String /\ TrimSpace(senders[i].name).word # ""
  <2>1. i \in 1..Len(senders) /\ senders[i] \in Sender
    OBVIOUS
  <2>2. i + 1 \in DOMAIN Registered
    BY <1>1, <2>1
  <2>3. senders[i].name \in String
    BY <2>1 DEF Sender
  <2>4. TrimSpace(senders[i].name).word # ""
    BY <2>1 DEF ValidSenders, Names
  <2> QED
    BY <2>2, <2>3, <2>4
<1>5. CASE of # {}
  <2>1. PICK i \in of : TRUE
    BY <1>5
  <2>2. i + 1 \in DOMAIN Registered /\ Registered[i + 1] = senders[i].name
    BY <1>1, <1>4, <2>1
  <2> QED
    BY <1>3, <1>4, <2>1, <2>2, Trimmed
<1> QED
  BY <1>2, <1>5

\* What the program passes to the recorder is in the recorder's closed sets.
LEMMA ClosedSets ==
    /\ \A d \in Dialects :
          closed(d, RecordedDialects) = {d.word} /\ boundedDialect(d) = d.word
    /\ \A t \in ReportTypes :
          canonical(t, RecordedTypes) = {t.word} /\ boundedReportType(t) = t.word
    /\ \A o \in Outcomes : RecordDatagram(o) = {o.word}
    /\ \A e \in ParseErrors : RecordParseError(parseErrorType(e)) = {parseErrorType(e).word}
    /\ \A s \in Statuses : RecordResponse(s) = {s}
    /\ \A s \in Signals : RecordExportFailure(s) = {s.word}
<1>1. \A d \in Dialects :
          closed(d, RecordedDialects) = {d.word} /\ boundedDialect(d) = d.word
  <2> SUFFICES ASSUME NEW w \in RecordedDialects
               PROVE  closed(Plain(w), RecordedDialects) = {w} /\ boundedDialect(Plain(w)) = w
    BY PlainWords DEF Dialects, RecordedDialects
  <2>1. w # ""
    BY DEF RecordedDialects
  <2> QED
    BY <2>1, PlainWords, ClosedWord DEF boundedDialect
<1>2. ASSUME NEW t \in RecordedTypes
      PROVE  /\ canonical(Plain(t), RecordedTypes) = {Plain(t).word}
             /\ boundedReportType(Plain(t)) = Plain(t).word
  BY PlainWords, ClosedWord DEF boundedReportType
<1>3. ReportTypes = {Plain(t) : t \in RecordedTypes}
  BY DEF ReportTypes, RecordedTypes
<1>4. \A o \in Outcomes : RecordDatagram(o) = {o.word}
  BY PlainWords, ClosedWord DEF Outcomes, RecordDatagram
<1>5. \A e \in ParseErrors : RecordParseError(parseErrorType(e)) = {parseErrorType(e).word}
  BY PlainWords, ClosedWord DEF ParseErrors, RecordParseError, RecordedErrors, parseErrorType
<1>6. \A s \in Statuses : RecordResponse(s) = {s}
  <2> SUFFICES ASSUME NEW s \in Statuses PROVE {s} \cap Statuses = {s}
    BY DEF Statuses, RecordResponse
  <2> QED
    OBVIOUS
<1>7. \A s \in Signals : RecordExportFailure(s) = {s.word}
  BY PlainWords, ClosedWord DEF Signals, RecordExportFailure
<1> QED
  BY <1>1, <1>2, <1>3, <1>4, <1>5, <1>6, <1>7

LEMMA InForceSignalsAgree == InForce => SignalsAgree
<1> SUFFICES ASSUME InForce, phase = "serving" PROVE SignalsAgree
  BY DEF SignalsAgree
<1>1. /\ senders \in Seq(Sender) /\ ValidSenders
      /\ senderRegistry(Registered).ok /\ registry = senderRegistry(Registered).names
  BY DEF InForce, Validated, Recorded
<1>2. Registered \in Seq(String)
  <2>1. [i \in DOMAIN senders |-> senders[i].name] \in Seq(String)
    <3>1. ASSUME NEW i \in DOMAIN senders PROVE senders[i].name \in String
      <4>1. senders[i] \in Sender
        BY <1>1
      <4> QED
        BY <4>1 DEF Sender
    <3> QED
      BY <1>1, <3>1
  <2>2. Unknown \in String
    BY UnknownIsTrimmed
  <2>3. <<Unknown>> \in Seq(String)
    BY <2>2
  <2> QED
    BY <2>1, <2>3 DEF Registered
<1>3. ASSUME NEW a \in Sources
      PROVE  /\ sender(registry, SenderName(Plain(a))) = {SenderName(Plain(a))}
             /\ boundedSenderName(SenderName(Plain(a))) = SenderName(Plain(a))
  <2>1. PICK i \in DOMAIN Registered : SenderName(Plain(a)) = TrimSpace(Registered[i])
    BY <1>1, NameOfSource
  <2>2. sender(registry, SenderName(Plain(a))) = {SenderName(Plain(a))}
    BY <1>1, <1>2, <2>1, Lookup
  <2>3. SenderName(Plain(a)).word # "" /\ TrimSpace(SenderName(Plain(a))) = SenderName(Plain(a))
    BY <1>1, NameOfSource
  <2> QED
    BY <2>2, <2>3 DEF boundedSenderName
<1>4. ASSUME NEW a \in Sources, NEW d \in Dialects, NEW t \in ReportTypes
      PROVE  RecordReport(registry, d, t, SenderName(Plain(a)))
               = {<<boundedDialect(d), boundedReportType(t),
                    boundedSenderName(SenderName(Plain(a)))>>}
  <2>1. RecordReport(registry, d, t, SenderName(Plain(a)))
          = {d.word} \X {t.word} \X {SenderName(Plain(a))}
    BY <1>3, ClosedSets DEF RecordReport
  <2>2. boundedDialect(d) = d.word /\ boundedReportType(t) = t.word
    BY ClosedSets
  <2>3. \A x, y, z : {x} \X {y} \X {z} = {<<x, y, z>>}
    OBVIOUS
  <2> QED
    BY <1>3, <2>1, <2>2, <2>3
<1>5. \A a \in Sources : RecordDuplicate(registry, senderName(a))
                           = {boundedSenderName(SenderName(Plain(a)))}
  BY <1>3 DEF RecordDuplicate, senderName
<1>6. \A d \in Dialects : RecordProcessDuration(d, 0) = {boundedDialect(d)}
  BY ClosedSets DEF RecordProcessDuration
<1> QED
  BY <1>4, <1>5, <1>6, ClosedSets DEF SignalsAgree

\* The name of a source that is configured, and of one that is not, by its place among
\* the names the registry was made from.
LEMMA PlaceOfName ==
    ASSUME senders \in Seq(Sender), ValidSenders, NEW a
    PROVE  /\ \A i \in DOMAIN senders : Addresses[i] = Plain(a) =>
                 SenderName(Plain(a)) = TrimSpace(Registered[i + 1])
           /\ (\A i \in DOMAIN senders : Addresses[i] # Plain(a)) =>
                 SenderName(Plain(a)) = TrimSpace(Registered[1])
<1> DEFINE of == {i \in DOMAIN senders : Addresses[i] = TrimSpace(Plain(a))}
<1>1. Registered[1] = Unknown /\ \A i \in DOMAIN senders : Registered[i + 1] = senders[i].name
  BY DEF Registered
<1>2. ASSUME NEW i \in DOMAIN senders, Addresses[i] = Plain(a)
      PROVE  SenderName(Plain(a)) = TrimSpace(Registered[i + 1])
  <2>1. of = {i}
    BY <1>2, PlainWords DEF ValidSenders, IsInjective, Addresses
  <2>2. (CHOOSE k \in of : \A j \in of : k <= j) = i
    BY <2>1
  <2>3. SenderName(Plain(a)) = Names[i]
    BY <2>1, <2>2 DEF SenderName
  <2> QED
    BY <1>1, <2>3 DEF Names
<1>3. ASSUME \A i \in DOMAIN senders : Addresses[i] # Plain(a)
      PROVE  SenderName(Plain(a)) = TrimSpace(Registered[1])
  <2>1. of = {}
    BY <1>3, PlainWords
  <2>2. SenderName(Plain(a)) = Unknown
    BY <2>1 DEF SenderName
  <2> QED
    BY <1>1, <2>2, UnknownIsTrimmed
<1> QED
  BY <1>2, <1>3

LEMMA InForceSendersApart == InForce => SendersStayApart
<1> SUFFICES ASSUME InForce, phase = "serving",
                    NEW a \in Sources, NEW b \in Sources, a # b,
                    NEW i \in DOMAIN senders, Addresses[i] = Plain(a)
             PROVE  ToLower(SenderName(Plain(a))) # ToLower(SenderName(Plain(b)))
  BY DEF SendersStayApart
<1> DEFINE keys == [j \in DOMAIN Registered |-> ToLower(TrimSpace(Registered[j]))]
<1>1. senders \in Seq(Sender) /\ ValidSenders /\ senderRegistry(Registered).ok
  BY DEF InForce, Validated, Recorded
<1>2. IsInjective(keys)
  <2> DEFINE trimmed == [j \in DOMAIN Registered |-> TrimSpace(Registered[j])]
             lower == [j \in DOMAIN Registered |-> ToLower(trimmed[j])]
  <2>1. IsInjective(lower)
    BY <1>1 DEF senderRegistry
  <2>2. lower = keys
    OBVIOUS
  <2> QED
    BY <2>1, <2>2
<1>3. DOMAIN Registered = 1..Len(senders) + 1
  BY <1>1 DEF Registered
<1>4. PICK j \in DOMAIN Registered :
          j # i + 1 /\ SenderName(Plain(b)) = TrimSpace(Registered[j])
  <2>1. ASSUME NEW k \in DOMAIN senders, Addresses[k] = Plain(b)
        PROVE  /\ k # i /\ k + 1 \in DOMAIN Registered
               /\ SenderName(Plain(b)) = TrimSpace(Registered[k + 1])
    <3>1. Plain(a) # Plain(b)
      BY PlainWords
    <3>2. k \in 1..Len(senders) /\ k # i
      BY <1>1, <2>1, <3>1
    <3> QED
      BY <1>1, <1>3, <2>1, <3>2, PlaceOfName
  <2>2. ASSUME \A k \in DOMAIN senders : Addresses[k] # Plain(b)
        PROVE  1 \in DOMAIN Registered /\ SenderName(Plain(b)) = TrimSpace(Registered[1])
    BY <1>1, <1>3, <2>2, PlaceOfName
  <2>3. i \in 1..Len(senders)
    BY <1>1
  <2>4. CASE \E k \in DOMAIN senders : Addresses[k] = Plain(b)
    <3>1. PICK k \in DOMAIN senders : Addresses[k] = Plain(b)
      BY <2>4
    <3>2. k \in 1..Len(senders) /\ k + 1 # i + 1
      BY <1>1, <2>1, <2>3, <3>1
    <3> QED
      BY <2>1, <3>1, <3>2
  <2>5. CASE \A k \in DOMAIN senders : Addresses[k] # Plain(b)
    <3>1. 1 # i + 1
      BY <2>3
    <3> QED
      BY <2>2, <2>5, <3>1
  <2> QED
    BY <2>4, <2>5
<1>5. i + 1 \in DOMAIN Registered /\ SenderName(Plain(a)) = TrimSpace(Registered[i + 1])
  BY <1>1, <1>3, PlaceOfName
<1>6. keys[i + 1] # keys[j]
  BY <1>2, <1>4, <1>5 DEF IsInjective
<1> QED
  BY <1>4, <1>5, <1>6

-----------------------------------------------------------------------------
(* Configuration *)

\* Of the variables, those that have been applied.
Applied == Len(environ) - Len(pending)

\* The value of a setting by those.
InEffect(s) ==
    LET set == {n \in 1..Applied : environ[n].key = s} IN
    IF set # {} THEN \E n \in set : cfg[s] = environ[n].value /\ \A m \in set : m <= n
    ELSE IF s \in DOMAIN file.settings THEN cfg[s] = file.settings[s]
    ELSE cfg[s] = Default[s]

Loaded ==
    /\ start \in Starts
    /\ pending \in Seq(ToSet(environ)) /\ Len(pending) <= Len(environ)
    /\ \A n \in 1..Len(pending) : pending[n] = environ[Applied + n]
    /\ DOMAIN cfg = Settings
    /\ phase \in {"flags", "file"} => cfg = Default /\ pending = environ
    /\ phase \notin {"flags", "file", "environment", "exited"} => pending = <<>>
    /\ phase \notin {"flags", "file", "exited"} => \A s \in Settings : InEffect(s)

LEMMA Environ ==
    ASSUME start \in Starts
    PROVE  /\ environ \in Seq(ToSet(environ))
           /\ DOMAIN file.settings \subseteq Settings
           /\ \A n \in DOMAIN environ : environ[n].key \in Settings \cup {"other"}
  BY StartsAssumption DEF IsStart, IsSetting, environ, file

LEMMA DefaultSettings == DOMAIN Default = Settings
  BY DEF Default, Settings, ValuesOf

LEMMA InitLoaded == Init => Loaded
<1> SUFFICES ASSUME Init PROVE Loaded
  OBVIOUS
<1>1. pending = environ /\ environ \in Seq(ToSet(environ)) /\ Applied = 0
  BY Environ DEF Init, Applied
<1> QED
  BY <1>1, DefaultSettings DEF Init, Loaded

LEMMA LoadedPrecedence == Loaded => Precedence
<1> SUFFICES ASSUME Loaded, phase \notin {"flags", "file", "environment", "exited"},
                    NEW s \in Settings
             PROVE  LET set == {n \in DOMAIN environ : environ[n].key = s} IN
                    IF set # {} THEN \E n \in set : cfg[s] = environ[n].value /\ \A m \in set : m <= n
                    ELSE IF s \in DOMAIN file.settings THEN cfg[s] = file.settings[s]
                    ELSE cfg[s] = Default[s]
  BY DEF Precedence
<1>1. 1..Applied = DOMAIN environ
  <2>1. pending = <<>> /\ Len(environ) \in Nat /\ DOMAIN environ = 1..Len(environ)
    BY Environ DEF Loaded
  <2> QED
    BY <2>1 DEF Applied
<1>2. InEffect(s)
  BY DEF Loaded
<1> QED
  BY <1>1, <1>2 DEF InEffect

LEMMA ReadFileLoaded == Loaded /\ ReadFile => Loaded'
<1> SUFFICES ASSUME Loaded, ReadFile PROVE Loaded'
  OBVIOUS
<1>0. pending = environ /\ Applied = 0 /\ environ \in Seq(ToSet(environ)) /\ start \in Starts
  BY Environ DEF Loaded, ReadFile, Applied
<1>1. environ' = environ /\ file' = file /\ start' = start /\ pending' = pending /\ Applied' = 0
  BY <1>0 DEF ReadFile, environ, file, Applied
<1>2. CASE phase' = "exited" /\ cfg' = cfg
  BY <1>0, <1>1, <1>2, Environ DEF Loaded
<1>3. CASE phase' = "environment" /\ cfg' = Decoded
  <2>1. cfg = Default
    BY DEF Loaded, ReadFile
  <2>2. DOMAIN Decoded = Settings /\ \A s \in Settings :
           Decoded[s] = IF s \in DOMAIN file.settings THEN file.settings[s] ELSE Default[s]
    BY <1>0, <2>1, Environ, DefaultSettings DEF Decoded
  <2>3. \A s \in Settings : InEffect(s)'
    BY <1>1, <1>3, <2>2 DEF InEffect
  <2> QED
    BY <1>0, <1>1, <1>3, <2>2, <2>3, Environ DEF Loaded
<1> QED
  BY <1>2, <1>3 DEF ReadFile, Exit, Continue

LEMMA ApplyLoaded == Loaded /\ ApplyEnvironment => Loaded'
<1> SUFFICES ASSUME Loaded, ApplyEnvironment PROVE Loaded'
  OBVIOUS
<1>0. /\ environ \in Seq(ToSet(environ)) /\ start \in Starts
      /\ pending \in Seq(ToSet(environ)) /\ pending # <<>> /\ Len(pending) \in Nat
      /\ Len(environ) \in Nat /\ Len(pending) <= Len(environ)
  BY Environ DEF Loaded, ApplyEnvironment
<1>1. environ' = environ /\ file' = file /\ start' = start /\ pending' = Tail(pending)
  BY DEF ApplyEnvironment, environ, file
<1>2. /\ pending' \in Seq(ToSet(environ)) /\ Len(pending') = Len(pending) - 1
      /\ \A n \in 1..Len(pending') : pending'[n] = pending[n + 1]
  BY <1>0, <1>1
<1>3. Applied' = Applied + 1 /\ Applied \in Nat /\ Applied + 1 \in 1..Len(environ)
  BY <1>0, <1>1, <1>2 DEF Applied
<1>4. \A n \in 1..Len(pending') : pending'[n] = environ'[Applied' + n]
  BY <1>0, <1>1, <1>2, <1>3 DEF Loaded
<1>5. Head(pending) = environ[Applied + 1]
  BY <1>0 DEF Loaded
<1>6. CASE phase' = "exited" /\ cfg' = cfg
  BY <1>0, <1>1, <1>2, <1>4, <1>6 DEF Loaded
<1>7. CASE /\ phase' = "environment" /\ cfg' = Apply(Head(pending))
           /\ Head(pending).key # "other"
  <2> DEFINE e == environ[Applied + 1]
  <2>1. e.key \in Settings /\ cfg' = [cfg EXCEPT ![e.key] = e.value]
    <3>1. e.key \in Settings \cup {"other"}
      BY <1>0, <1>3, Environ
    <3>2. e = Head(pending)
      BY <1>5
    <3> QED
      BY <1>7, <3>1, <3>2 DEF Apply
  <2>2. ASSUME NEW s \in Settings PROVE InEffect(s)'
    <3> DEFINE set == {n \in 1..Applied : environ[n].key = s}
               set1 == {n \in 1..Applied + 1 : environ[n].key = s}
    <3>1. SUFFICES IF set1 # {} THEN \E n \in set1 : cfg'[s] = environ[n].value
                                                       /\ \A m \in set1 : m <= n
                   ELSE IF s \in DOMAIN file.settings THEN cfg'[s] = file.settings[s]
                   ELSE cfg'[s] = Default[s]
      BY <1>1, <1>3 DEF InEffect
    <3>2. CASE s = e.key
      <4>1. Applied + 1 \in set1 /\ cfg'[s] = environ[Applied + 1].value
        BY <1>3, <2>1, <3>2 DEF Loaded
      <4>2. \A m \in set1 : m <= Applied + 1
        BY <1>3
      <4> QED
        BY <4>1, <4>2
    <3>3. CASE s # e.key
      <4>1. set1 = set
        BY <1>3, <3>3
      <4>2. cfg'[s] = cfg[s]
        BY <2>1, <3>3 DEF Loaded
      <4>3. InEffect(s)
        BY DEF Loaded, ApplyEnvironment
      <4> QED
        BY <4>1, <4>2, <4>3 DEF InEffect
    <3> QED
      BY <3>2, <3>3
  <2>3. DOMAIN cfg' = Settings
    BY <2>1 DEF Loaded
  <2> QED
    BY <1>0, <1>1, <1>2, <1>4, <1>7, <2>2, <2>3 DEF Loaded
<1> QED
  BY <1>6, <1>7 DEF ApplyEnvironment, Exit

LEMMA SameLoaded ==
    ASSUME Loaded, UNCHANGED <<start, pending, cfg>>,
           \/ phase' = "exited" \/ phase' = phase
           \/ phase = "flags" /\ phase' = "file"
           \/ phase = "environment" /\ pending = <<>>
                /\ phase' \notin {"flags", "file"}
           \/ phase \notin {"flags", "file", "environment", "exited"}
                /\ phase' \notin {"flags", "file"}
    PROVE  Loaded'
<1>1. environ' = environ /\ file' = file /\ Applied' = Applied
  BY DEF environ, file, Applied
<1>2. \A s \in Settings : InEffect(s)' = InEffect(s)
  BY <1>1 DEF InEffect
<1> QED
  BY <1>1, <1>2 DEF Loaded

LEMMA NextLoaded == Loaded /\ [Next]_vars => Loaded'
<1> SUFFICES ASSUME Loaded, [Next]_vars PROVE Loaded'
  OBVIOUS
<1> USE DEF Continue, Exit
<1>1. CASE Leave \/ ParseFlags \/ EnvironmentDone \/ Validate \/ NewLogger
  BY <1>1, SameLoaded DEF Leave, ParseFlags, EnvironmentDone, Validate, NewLogger
<1>2. CASE NewProviders \/ CheckBuildInfo \/ NewRecorder \/ NewInstruments
  BY <1>2, SameLoaded DEF NewProviders, CheckBuildInfo, NewRecorder, NewInstruments
<1>3. CASE NewExporter \/ NewListener \/ Bind
  BY <1>3, SameLoaded DEF NewExporter, NewListener, Bind
<1>4. CASE UNCHANGED vars
  BY <1>4, SameLoaded DEF vars
<1> QED
  BY <1>1, <1>2, <1>3, <1>4, ReadFileLoaded, ApplyLoaded DEF Next

LEMMA InitTyped == Init => TypeOK
<1> SUFFICES ASSUME Init PROVE TypeOK
  OBVIOUS
<1>1. DOMAIN cfg = Settings /\ \A s \in Settings : cfg[s] \in ValuesOf[s]
  <2>1. NoEndpoint \in Endpoint
    <3>1. <<>> \in Seq({"otlp", "v1", "metrics", "logs"})
      OBVIOUS
    <3> QED
      BY <3>1 DEF NoEndpoint, Endpoint
  <2>2. /\ Default["endpoint"] \in ValuesOf["endpoint"]
        /\ Default["protocol"] \in ValuesOf["protocol"]
        /\ Default["window"] \in ValuesOf["window"]
        /\ Default["port"] \in ValuesOf["port"]
        /\ Default["level"] \in ValuesOf["level"]
        /\ Default["identity"] \in ValuesOf["identity"]
        /\ Default["authorization"] \in ValuesOf["authorization"]
        /\ Default["Authorization"] \in ValuesOf["Authorization"]
    BY <2>1 DEF Default, ValuesOf
  <2>3. Settings = {"endpoint", "protocol", "window", "port", "level", "identity",
                    "authorization", "Authorization"}
    BY DEF Settings, ValuesOf
  <2> QED
    BY <2>2, <2>3, DefaultSettings DEF Init
<1>2. \A k \in DOMAIN registry : ToLower(registry[k]) = k
  BY DEF Init
<1> QED
  BY <1>1, <1>2 DEF Init, TypeOK, Phases, NoExporters, NotExited

\* The keys of a registry are the names in lower case.
LEMMA Keys ==
    ASSUME NEW names
    PROVE  \A k \in DOMAIN senderRegistry(names).names :
               ToLower(senderRegistry(names).names[k]) = k
<1> DEFINE trimmed == [j \in DOMAIN names |-> TrimSpace(names[j])]
           keys == [j \in DOMAIN names |-> ToLower(trimmed[j])]
           new == [k \in ToSet(keys) |-> trimmed[CHOOSE j \in DOMAIN keys : keys[j] = k]]
<1>1. senderRegistry(names).names = new
  BY DEF senderRegistry
<1>2. ASSUME NEW k \in ToSet(keys) PROVE ToLower(new[k]) = k
  <2>1. \E j \in DOMAIN keys : keys[j] = k
    BY DEF ToSet
  <2>2. PICK j \in DOMAIN keys : j = (CHOOSE i \in DOMAIN keys : keys[i] = k) /\ keys[j] = k
    BY <2>1
  <2> QED
    BY <2>2
<1> QED
  BY <1>1, <1>2

LEMMA NextTyped == TypeOK /\ Loaded /\ [Next]_vars => TypeOK'
<1> SUFFICES ASSUME TypeOK, Loaded, [Next]_vars PROVE TypeOK'
  OBVIOUS
<1> USE DEF Continue, Exit, Phases, TypeOK
<1>1. CASE Leave \/ ParseFlags \/ EnvironmentDone \/ Validate \/ NewLogger
  BY <1>1 DEF Leave, ParseFlags, EnvironmentDone, Validate, NewLogger
<1>2. CASE ReadFile
  <2>1. \A s \in Settings : Decoded[s] \in ValuesOf[s]
    BY StartsAssumption DEF Loaded, Decoded, IsStart, IsSetting, file
  <2>2. DOMAIN Decoded = Settings
    BY DEF Decoded
  <2> QED
    BY <1>2, <2>1, <2>2 DEF ReadFile
<1>3. CASE ApplyEnvironment
  <2> DEFINE e == Head(pending)
  <2>1. e.key = "other" \/ (e.key \in Settings /\ e.value \in ValuesOf[e.key])
    <3>1. environ \in Seq(ToSet(environ)) /\ pending \in Seq(ToSet(environ)) /\ pending # <<>>
            /\ Len(pending) <= Len(environ)
      BY <1>3, Environ DEF Loaded, ApplyEnvironment
    <3>2. Applied + 1 \in 1..Len(environ) /\ e = environ[Applied + 1]
      BY <3>1 DEF Loaded, Applied
    <3> QED
      BY <3>1, <3>2, StartsAssumption DEF Loaded, IsStart, IsSetting, environ
  <2>2. cfg' = cfg \/ (e.key \in Settings /\ cfg' = [cfg EXCEPT ![e.key] = e.value])
    BY <1>3, <2>1 DEF ApplyEnvironment, Apply
  <2>3. DOMAIN cfg' = Settings /\ \A s \in Settings : cfg'[s] \in ValuesOf[s]
    <3>1. CASE cfg' = cfg
      BY <3>1
    <3>2. CASE e.key \in Settings /\ cfg' = [cfg EXCEPT ![e.key] = e.value]
      <4>1. e.value \in ValuesOf[e.key]
        BY <2>1, <3>2 DEF Settings, ValuesOf
      <4>2. \A s \in Settings : cfg'[s] = IF s = e.key THEN e.value ELSE cfg[s]
        BY <3>2
      <4>3. ASSUME NEW s \in Settings PROVE cfg'[s] \in ValuesOf[s]
        BY <4>1, <4>2
      <4> QED
        BY <3>2, <4>3
    <3> QED
      BY <2>2, <3>1, <3>2
  <2> QED
    BY <1>3, <2>3 DEF ApplyEnvironment
<1>4. CASE NewProviders
  <2>1. exporters'.protocol \in {"none", "http", "grpc"}
    BY <1>4 DEF NewProviders, NewExporters
  <2> QED
    BY <1>4, <2>1 DEF NewProviders
<1>5. CASE NewRecorder
  BY <1>5, Keys DEF NewRecorder
<1>6. CASE CheckBuildInfo \/ NewInstruments \/ NewExporter \/ Bind
  BY <1>6 DEF CheckBuildInfo, NewInstruments, NewExporter, Bind
<1>7. CASE NewListener
  <2>1. window' \in ValuesOf["window"] \cup {"none"}
    BY <1>7 DEF NewListener, Settings, ValuesOf
  <2> QED
    BY <1>7, <2>1 DEF NewListener
<1>8. CASE UNCHANGED vars
  BY <1>8 DEF vars
<1> QED
  BY <1>1, <1>2, <1>3, <1>4, <1>5, <1>6, <1>7, <1>8 DEF Next

-----------------------------------------------------------------------------
(* The providers *)

\* The phases in which the providers have been built.
Built == {"buildinfo", "recorder", "instruments", "exporter", "listener", "bind", "serving"}

\* They are what the settings and the start make them, and stay so.
InPlace ==
    phase \in Built =>
        /\ exporters = NewExporters
        /\ resource = newResource
        /\ cfg.protocol # "http" => ~grpcRefused(cfg.endpoint)

\* What the providers are built from does not change with the rest.
LEMMA SameBuilt ==
    ASSUME InPlace, UNCHANGED <<start, cfg, exporters, resource>>,
           phase' \in Built => phase \in Built
    PROVE  InPlace'
<1>1. NewExporters' = NewExporters /\ newResource' = newResource
  BY DEF NewExporters, newResource
<1> QED
  BY <1>1 DEF InPlace

LEMMA NextInPlace == InForce /\ InPlace /\ [Next]_vars => InPlace'
<1> SUFFICES ASSUME InForce, InPlace, [Next]_vars PROVE InPlace'
  OBVIOUS
<1> USE DEF Continue, Exit, Built
<1>1. CASE Leave \/ ParseFlags \/ EnvironmentDone \/ Validate \/ NewLogger
  BY <1>1, SameBuilt DEF Leave, ParseFlags, EnvironmentDone, Validate, NewLogger
<1>2. CASE ReadFile \/ ApplyEnvironment
  BY <1>2 DEF ReadFile, ApplyEnvironment, InPlace
<1>3. CASE NewProviders
  <2>1. cfg.protocol \in {"http", "grpc"}
    BY <1>3 DEF NewProviders, InForce, Validated, ValidSettings
  <2>2. NewExporters' = NewExporters /\ newResource' = newResource
    BY <1>3 DEF NewProviders, NewExporters, newResource
  <2>3. CASE /\ ~(cfg.protocol = "grpc" /\ grpcRefused(cfg.endpoint))
             /\ exporters' = NewExporters /\ resource' = newResource /\ cfg' = cfg
    BY <2>1, <2>2, <2>3 DEF InPlace
  <2>4. CASE phase' = "exited"
    BY <2>4 DEF InPlace
  <2> QED
    BY <1>3, <2>3, <2>4 DEF NewProviders
<1>4. CASE CheckBuildInfo \/ NewRecorder \/ NewInstruments
  BY <1>4, SameBuilt DEF CheckBuildInfo, NewRecorder, NewInstruments
<1>5. CASE NewExporter \/ NewListener \/ Bind
  BY <1>5, SameBuilt DEF NewExporter, NewListener, Bind
<1>6. CASE UNCHANGED vars
  BY <1>6, SameBuilt DEF vars
<1> QED
  BY <1>1, <1>2, <1>3, <1>4, <1>5, <1>6 DEF Next

\* What Without returns: the path, or all of it but its last two segments.
LEMMA WithoutSignal ==
    ASSUME NEW S, NEW path \in Seq(S), NEW signal
    PROVE  /\ Without(path, signal) \in Seq(S)
           /\ Len(Without(path, signal)) \in 0..Len(path)
           /\ Without(path, signal) = SubSeq(path, 1, Len(Without(path, signal)))
           /\ Without(path, signal) = IF EndsIn(path, signal) THEN SubSeq(path, 1, Len(path) - 2)
                                      ELSE path
<1>1. CASE EndsIn(path, signal)
  <2>1. Len(path) \in Nat /\ Len(path) >= 2
    BY <1>1 DEF EndsIn
  <2>2. PICK n : n = Len(path) - 2 /\ n \in 0..Len(path)
    <3>1. Len(path) - 2 \in 0..Len(path)
      BY <2>1
    <3> QED
      BY <3>1, Zenon
  <2>3. SubSeq(path, 1, n) \in Seq(S) /\ Len(SubSeq(path, 1, n)) = n
    BY <2>1, <2>2
  <2> QED
    BY <1>1, <2>1, <2>2, <2>3 DEF Without
<1>2. CASE ~EndsIn(path, signal)
  <2>1. Without(path, signal) = path
    BY <1>2 DEF Without
  <2>2. path = SubSeq(path, 1, Len(path)) /\ Len(path) \in Nat
    OBVIOUS
  <2> QED
    BY <1>2, <2>1, <2>2
<1> QED
  BY <1>1, <1>2

\* A prefix of a prefix is a prefix.
LEMMA PrefixOfPrefix ==
    ASSUME NEW S, NEW s \in Seq(S), NEW m \in 0..Len(s), NEW n \in 0..m
    PROVE  SubSeq(SubSeq(s, 1, m), 1, n) = SubSeq(s, 1, n)
  OBVIOUS

\* Whatever the endpoint's path, both signals go under one base, which is the path
\* without its signal if it ends in one signal only.
LEMMA HTTPPaths ==
    ASSUME NEW S, NEW raw, raw.path \in Seq(S)
    PROVE  LET path == raw.path
               EndsInSignal(p) == EndsIn(p, "metrics") \/ EndsIn(p, "logs")
               stripped == IF EndsInSignal(path) THEN SubSeq(path, 1, Len(path) - 2) ELSE path
           IN \E n \in 0..Len(path) : LET base == SubSeq(path, 1, n) IN
                 /\ Without(Without(path, "metrics"), "logs") = base
                 /\ ~EndsInSignal(stripped) => base = stripped
<1> DEFINE path == raw.path
           p1 == Without(path, "metrics")
           p2 == Without(p1, "logs")
           EndsInSignal(p) == EndsIn(p, "metrics") \/ EndsIn(p, "logs")
           stripped == IF EndsInSignal(path) THEN SubSeq(path, 1, Len(path) - 2) ELSE path
<1>1. /\ p1 \in Seq(S) /\ Len(p1) \in 0..Len(path) /\ p1 = SubSeq(path, 1, Len(p1))
      /\ p1 = IF EndsIn(path, "metrics") THEN SubSeq(path, 1, Len(path) - 2) ELSE path
  BY WithoutSignal
<1>2. /\ p2 \in Seq(S) /\ Len(p2) \in 0..Len(p1) /\ p2 = SubSeq(p1, 1, Len(p2))
      /\ p2 = IF EndsIn(p1, "logs") THEN SubSeq(p1, 1, Len(p1) - 2) ELSE p1
  BY <1>1, WithoutSignal
<1>3. p2 = SubSeq(path, 1, Len(p2)) /\ Len(p2) \in 0..Len(path)
  <2>1. SubSeq(SubSeq(path, 1, Len(p1)), 1, Len(p2)) = SubSeq(path, 1, Len(p2))
    BY <1>1, <1>2, PrefixOfPrefix
  <2>2. p2 = SubSeq(path, 1, Len(p2))
    BY <1>1, <1>2, <2>1, Zenon
  <2>3. Len(path) \in Nat
    OBVIOUS
  <2> QED
    BY <1>1, <1>2, <2>2, <2>3
<1> HIDE DEF p1, p2
<1>4. ~EndsInSignal(stripped) => p2 = stripped
  BY <1>1, <1>2
<1>5. \E n \in 0..Len(path) : p2 = SubSeq(path, 1, n) /\ (~EndsInSignal(stripped) => SubSeq(path, 1, n) = stripped)
  BY <1>3, <1>4
<1> QED
  BY <1>5 DEF p1, p2

LEMMA BuiltEndpoints ==
    ASSUME TypeOK, exporters = NewExporters, cfg.protocol \in {"http", "grpc"}
    PROVE  RightEndpoints
<1>1. cfg.endpoint \in Endpoint
  BY DEF TypeOK, Settings, ValuesOf
<1>2. CASE cfg.protocol = "http" /\ cfg.endpoint.scheme # ""
  <2>1. cfg.endpoint.path \in Seq({"otlp", "v1", "metrics", "logs"})
    BY <1>1 DEF Endpoint
  <2>2. /\ exporters.metrics.path = Without(Without(cfg.endpoint.path, "metrics"), "logs")
                                       \o <<"v1", "metrics">>
        /\ exporters.logs.path = Without(Without(cfg.endpoint.path, "metrics"), "logs")
                                       \o <<"v1", "logs">>
        /\ exporters.metrics.host = cfg.endpoint.host
        /\ exporters.logs.host = cfg.endpoint.host
    <3>1. \A signal : /\ otlpHTTPURL(cfg.endpoint, signal).scheme = cfg.endpoint.scheme
                      /\ otlpHTTPURL(cfg.endpoint, signal).host = cfg.endpoint.host
                      /\ otlpHTTPURL(cfg.endpoint, signal).path
                           = Without(Without(cfg.endpoint.path, "metrics"), "logs")
                               \o <<"v1", signal>>
      BY <1>1 DEF otlpHTTPURL, Endpoint
    <3>2. /\ exporters.metrics = otlpHTTPURL(cfg.endpoint, "metrics")
          /\ exporters.logs = otlpHTTPURL(cfg.endpoint, "logs")
      BY <1>2, <3>1 DEF NewExporters, WithEndpointURL
    <3> QED
      BY <3>1, <3>2
  <2> QED
    BY <1>2, <2>1, <2>2, HTTPPaths DEF RightEndpoints
<1>3. CASE cfg.protocol # "http"
  <2>1. exporters.metrics = grpcEndpoint(cfg.endpoint).endpoint
          /\ exporters.logs = grpcEndpoint(cfg.endpoint).endpoint
          /\ exporters.insecure = grpcEndpoint(cfg.endpoint).insecure
    BY <1>3 DEF NewExporters
  <2>2. grpcEndpoint(cfg.endpoint).endpoint.host = cfg.endpoint.host
          /\ grpcEndpoint(cfg.endpoint).endpoint.scheme = ""
          /\ (grpcEndpoint(cfg.endpoint).insecure <=> cfg.endpoint.scheme = "http")
    BY <1>1 DEF grpcEndpoint, NoEndpoint
  <2> QED
    BY <1>3, <2>1, <2>2 DEF RightEndpoints
<1> QED
  BY <1>2, <1>3 DEF RightEndpoints

LEMMA InPlaceConfiguration == InForce /\ TypeOK /\ InPlace => ConfigurationInForce
<1> SUFFICES ASSUME InForce, TypeOK, InPlace PROVE ConfigurationInForce
  OBVIOUS
<1>1. ASSUME phase = "serving" PROVE RightEndpoints
  <2>1. exporters = NewExporters /\ cfg.protocol \in {"http", "grpc"}
    BY <1>1 DEF InPlace, Built, InForce, Validated, ValidSettings
  <2> QED
    BY <2>1, BuiltEndpoints
<1>2. ASSUME phase = "serving"
      PROVE  /\ \A a \in OwnAttributes : resource[a] = "config"
             /\ \A a \in start.attributes \ (OwnAttributes \cup DetectedAttributes) :
                   resource[a] = "environment"
  <2>1. resource = newResource
    BY <1>2 DEF InPlace, Built
  <2>2. \A a \in start.attributes \ (OwnAttributes \cup DetectedAttributes) :
           a # "host.name" /\ a # "telemetry.sdk.name" /\ a \notin OwnAttributes
    BY DEF DetectedAttributes
  <2>3. \A a \in OwnAttributes : resource[a] = "config"
    <3>1. \A a \in OwnAttributes : a # "host.name" /\ a # "telemetry.sdk.name"
      BY DEF OwnAttributes
    <3> QED
      BY <2>1, <3>1 DEF newResource
  <2> QED
    BY <2>1, <2>2, <2>3 DEF newResource
<1>3. phase = "serving" => window = cfg.window
  BY DEF InForce, Listening
<1> QED
  BY <1>1, <1>2, <1>3 DEF ConfigurationInForce, InForce

-----------------------------------------------------------------------------
(* The theorems *)

\* The state of run keeps its types: the settings whatever the file and the environment
\* hold, and the registry's keys are its names in lower case.
THEOREM TypeCorrect == Spec => []TypeOK
<1>1. TypeOK /\ Loaded /\ [Next]_vars => TypeOK' /\ Loaded'
  BY NextTyped, NextLoaded
<1> QED
  BY <1>1, InitTyped, InitLoaded, PTL DEF Spec

\* config.Load (config.go:68-106): for every file and every order of variables the
\* environment goes before the file, the file before the defaults, and of two variables
\* for one setting the later one counts.
THEOREM LaterSourceCounts == Spec => []Precedence
  BY InitLoaded, NextLoaded, LoadedPrecedence, PTL DEF Spec

\* Once the providers run (main.go:88) every way out of run shuts them down.
THEOREM ProvidersAreShut == Spec => []NothingLeftRunning
<1>1. Init => NothingLeftRunning
  BY DEF Init, NothingLeftRunning
<1> QED
  BY <1>1, NextNothingLeft, PTL DEF Spec

\* What was checked or made once stays in force.
THEOREM ChecksStayInForce == Spec => []InForce
  BY InitInForce, NextInForce, PTL DEF Spec

\* What the operator configured is what runs (main.go:179-305, sip.go:66-85): for every
\* URL however deep its path, and over gRPC for every host and port, the exporters send
\* where it says, for every set of attributes in the environment the identity is the
\* configuration's, and the window is the one Validate let through.
THEOREM ConfigurationRuns == Spec => []ConfigurationInForce
<1>1. Init => InPlace
  BY DEF Init, InPlace, Built
<1>2. Spec => []InPlace
  BY <1>1, NextInPlace, ChecksStayInForce, PTL DEF Spec
<1> QED
  BY <1>2, InPlaceConfiguration, ChecksStayInForce, TypeCorrect, PTL

\* For every configuration that starts and every source address, the recorder
\* (recorder.go:127-195) drops nothing that is passed to it, and its labels are those
\* of the exporter (export.go:146-150).
THEOREM LabelsAgree == Spec => []SignalsAgree
  BY InForceSignalsAgree, ChecksStayInForce, PTL

\* Whatever names are configured, a label of a configured sender (config.go:210-218) is
\* no other source's, in any case of letters: "unknown" is in the registry
\* (main.go:93-97, recorder.go:205-219) before the configured names.
THEOREM SendersApart == Spec => []SendersStayApart
  BY InForceSendersApart, ChecksStayInForce, PTL
=============================================================================
