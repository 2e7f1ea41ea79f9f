------------------------------- MODULE Startup -------------------------------
(***************************************************************************)
(* run of cmd/rfc6035-2otel/main.go up to ListenAndServe: the flags, the   *)
(* configuration (internal/config: defaults, file, environment,            *)
(* validation), the logger, the providers, the self-observability recorder *)
(* with its registry of sender names (internal/selfobs), the exporter and  *)
(* the listener.  Whatever fails on the way ends the process.              *)
(*                                                                         *)
(* Strings are those of module Labels.                                     *)
(***************************************************************************)
EXTENDS Labels

CONSTANTS
    Starts,         \* what the process may be started with
    Sources         \* the addresses reports come from, as words

Words == {"", "unknown", "office", "annex"} \cup Sources
String == [word : Words, padded : BOOLEAN, upper : BOOLEAN]

Sender == [address : String, name : String]

\* An URL, or host and port if it has no scheme; the path in its segments, and the
\* slashes that follow it.
Endpoint == [scheme : {"", "http", "https", "ftp"}, host : {"", "otel"},
             path : Seq({"otlp", "v1", "metrics", "logs"}), slashes : 0..2]
NoEndpoint == [scheme |-> "", host |-> "", path |-> <<>>, slashes |-> 0]

\* "identity" stands for listen.address, service.name and service.version, of which is
\* asked only that they are not blank; "Authorization" and "authorization" for two
\* spellings of one header. "words" is text where a number or a duration is wanted.
ValuesOf == [
    endpoint |-> Endpoint,
    protocol |-> {"http", "grpc", "words"},
    window |-> {"default", "positive", "zero", "negative", "words"},
    port |-> {"default", "valid", "zero", "words"},
    level |-> {"info", "debug", "words"},
    identity |-> {"default", "text", ""},
    authorization |-> {"", "file", "environment"},
    Authorization |-> {"", "file"}]
Settings == DOMAIN ValuesOf
IsSetting(s, v) == s \in Settings /\ v \in ValuesOf[s]

\* No file, one that cannot be read or has an unknown key, one without a document (of
\* which the decoder returns io.EOF), or one that sets some of the settings and the senders.  The environment: the prefixed variables, "other" for a
\* name that is not known or an empty header, and the OTEL_RESOURCE_ATTRIBUTES.
IsStart(s) ==
    /\ s.file.kind \in {"none", "unreadable", "empty", "yaml"}
    /\ s.file.kind # "yaml" => s.file.settings = <<>> /\ s.file.senders = <<>>
    /\ \A k \in DOMAIN s.file.settings : IsSetting(k, s.file.settings[k])
    /\ s.file.senders \in Seq(Sender)
    /\ s.environ \in Seq(ToSet(s.environ))
    /\ \A n \in DOMAIN s.environ :
          s.environ[n].key = "other" \/ IsSetting(s.environ[n].key, s.environ[n].value)
    \* the names of variables are taken in lower case
    /\ \A n \in DOMAIN s.environ : s.environ[n].key # "Authorization"
    /\ s.build \in [{"version", "revision", "date"} -> String]

ASSUME StartsAssumption == \A s \in Starts : IsStart(s)
ASSUME SourcesAssumption == "" \notin Sources

VARIABLES
    phase,      \* the next thing run does, or "serving", or "exited"
    start,      \* what the process was started with
    pending,    \* the variables not yet applied
    cfg,        \* the settings
    senders,    \* Config.Senders
    providers,  \* "none", "open" or "shut"
    exporters,  \* where the OTLP exporters of the providers send to
    resource,   \* the resource of the providers: attribute -> who set it
    registry,   \* recorder.senders
    window,     \* Listener.config.DedupeWindow
    exit        \* the exit code and what failed, when exited

vars == <<phase, start, pending, cfg, senders, providers, exporters, resource, registry,
          window, exit>>

file == start.file
environ == start.environ

Phases == {"flags", "file", "environment", "validate", "logger", "providers", "buildinfo",
           "recorder", "instruments", "exporter", "listener", "bind", "serving", "exited"}

Default == [endpoint |-> NoEndpoint, protocol |-> "http", window |-> "default",
            port |-> "default", level |-> "info", identity |-> "default",
            authorization |-> "", Authorization |-> ""]
NotExited == [code |-> 0, failed |-> "nothing"]
NoExporters == [protocol |-> "none"]

Init ==
    /\ phase = "flags"
    /\ start \in Starts
    /\ pending = environ
    /\ cfg = Default /\ senders = <<>>
    /\ providers = "none"
    /\ exporters = NoExporters
    /\ resource = <<>>
    /\ registry = <<>>
    /\ window = "none"
    /\ exit = NotExited

-----------------------------------------------------------------------------
\* On to the next phase, or out of run with a code: whatever providers there are
\* are shut down first.
Continue(next) == phase' = next /\ UNCHANGED <<providers, exit>>

Exit(code) ==
    /\ phase' = "exited"
    /\ exit' = [code |-> code, failed |-> IF code = 0 THEN "nothing" ELSE phase]
    /\ providers' = IF providers = "open" THEN "shut" ELSE providers

\* --version, --healthcheck against another process, and flags that do not parse.
Leave ==
    /\ phase = "flags"
    /\ \E code \in {0, 1, 2} : Exit(code)
    /\ UNCHANGED <<start, pending, cfg, senders, exporters, resource, registry, window>>

ParseFlags ==
    /\ phase = "flags"
    /\ Continue("file")
    /\ UNCHANGED <<start, pending, cfg, senders, exporters, resource, registry, window>>

-----------------------------------------------------------------------------
(* config.Load *)

\* (Variants named Bad... are wrong on purpose: each stands for a plausible
\* mistake in the definition that follows it.)

\* The file is decoded into an empty Config.
BadDecoded == file.settings

\* The file is decoded into the defaults.
Decoded ==
    [s \in Settings |-> IF s \in DOMAIN file.settings THEN file.settings[s] ELSE cfg[s]]

\* Text where a number is wanted.
Unparsable(key, value) == key \in {"window", "port"} /\ value = "words"

ReadFile ==
    /\ phase = "file"
    /\ IF \/ file.kind \in {"unreadable", "empty"}
          \/ \E k \in DOMAIN file.settings : Unparsable(k, file.settings[k])
       THEN Exit(1) /\ UNCHANGED <<cfg, senders>>
       ELSE /\ Continue("environment")
            /\ cfg' = Decoded
            /\ senders' = file.senders
    /\ UNCHANGED <<start, pending, exporters, resource, registry, window>>

\* The first of two variables that mean the same setting is kept.
BadApply(entry) ==
    IF entry.key \in {e.key : e \in ToSet(SubSeq(environ, 1, Len(environ) - Len(pending)))}
    THEN cfg ELSE [cfg EXCEPT ![entry.key] = entry.value]

Apply(entry) == [cfg EXCEPT ![entry.key] = entry.value]

\* The names are compared in lower case, so two variables may set one key.
ApplyEnvironment ==
    /\ phase = "environment"
    /\ pending # <<>>
    /\ pending' = Tail(pending)
    /\ LET entry == Head(pending) IN
       IF entry.key = "other" \/ Unparsable(entry.key, entry.value)
       THEN Exit(1) /\ UNCHANGED cfg
       ELSE UNCHANGED <<phase, providers, exit>> /\ cfg' = Apply(entry)
    /\ UNCHANGED <<start, senders, exporters, resource, registry, window>>

EnvironmentDone ==
    /\ phase = "environment"
    /\ pending = <<>>
    /\ Continue("validate")
    /\ UNCHANGED <<start, pending, cfg, senders, exporters, resource, registry, window>>

Addresses == [i \in DOMAIN senders |-> TrimSpace(senders[i].address)]
Names == [i \in DOMAIN senders |-> TrimSpace(senders[i].name)]

ValidSettings ==
    /\ cfg.identity # ""
    /\ cfg.port # "zero"
    /\ cfg.endpoint # NoEndpoint
    /\ cfg.protocol \in {"http", "grpc"}
    /\ cfg.window \in {"positive", "default"}
    /\ cfg.level \in {"debug", "info"}

ValidSenders ==
    /\ IsInjective(Addresses) /\ IsInjective(Names)
    /\ \A i \in DOMAIN senders : Addresses[i].word # "" /\ Names[i].word # ""

Validate ==
    /\ phase = "validate"
    /\ IF ValidSettings /\ ValidSenders THEN Continue("logger") ELSE Exit(1)
    /\ UNCHANGED <<start, pending, cfg, senders, exporters, resource, registry, window>>

\* SenderName: the name configured for an address, which may be padded.
SenderName(address) ==
    LET of == {i \in DOMAIN senders : Addresses[i] = TrimSpace(address)} IN
    IF of = {} THEN Unknown ELSE Names[CHOOSE i \in of : \A j \in of : i <= j]

-----------------------------------------------------------------------------
(* What run builds *)

NewLogger ==
    /\ phase = "logger"
    /\ IF cfg.level \in {"debug", "info"} THEN Continue("providers") ELSE Exit(1)
    /\ UNCHANGED <<start, pending, cfg, senders, exporters, resource, registry, window>>

EndsIn(path, signal) ==
    Len(path) >= 2 /\ path[Len(path) - 1] = "v1" /\ path[Len(path)] = signal

Without(path, signal) ==
    IF EndsIn(path, signal) THEN SubSeq(path, 1, Len(path) - 2) ELSE path

\* The path of the other signal is kept.
BadOtlpHTTPURL(base, signal) ==
    [base EXCEPT !.path = Without(@, signal) \o <<"v1", signal>>, !.slashes = 0]

otlpHTTPURL(base, signal) ==
    [base EXCEPT !.path = Without(Without(@, "metrics"), "logs") \o <<"v1", signal>>,
                 !.slashes = 0]

\* What it refuses, and what it returns otherwise.
grpcRefused(raw) ==
    /\ raw.scheme # ""
    /\ \/ raw.scheme \notin {"http", "https"}
       \/ raw.host = ""
       \/ raw.path # <<>> \/ raw.slashes > 1

grpcEndpoint(raw) ==
    IF raw.scheme = "" THEN [endpoint |-> raw, insecure |-> FALSE]
    ELSE [endpoint |-> [NoEndpoint EXCEPT !.host = raw.host], insecure |-> raw.scheme = "http"]

\* What the option of the HTTP exporters makes of the URL it is given.  Without a scheme
\* ("otel:4318/v1/logs") url.Parse takes the host for one, or fails: nothing of the URL is
\* used, and the exporter has no host or that of its own default.
WithEndpointURL(url) == IF url.scheme = "" THEN NoEndpoint ELSE url

NewExporters ==
    IF cfg.protocol = "http"
    THEN [protocol |-> "http",
          metrics |-> WithEndpointURL(otlpHTTPURL(cfg.endpoint, "metrics")),
          logs |-> WithEndpointURL(otlpHTTPURL(cfg.endpoint, "logs"))]
    ELSE LET to == grpcEndpoint(cfg.endpoint) IN
         [protocol |-> "grpc", metrics |-> to.endpoint, logs |-> to.endpoint,
          insecure |-> to.insecure]

OwnAttributes == {"service.name", "service.version", "service.instance.id"}
DetectedAttributes == {"host.name", "telemetry.sdk.name"}

\* Each detector goes over those before it: the environment, the SDK, the host, and the
\* application's own attributes.
newResource ==
    [a \in start.attributes \cup DetectedAttributes \cup OwnAttributes |->
        CASE a \in OwnAttributes -> "config"
          [] a = "host.name" -> "host"
          [] a = "telemetry.sdk.name" -> "sdk"
          [] OTHER -> "environment"]

\* The exporters of the SDK and its detectors are external, and may fail.
NewProviders ==
    /\ phase = "providers"
    /\ \/ /\ ~(cfg.protocol = "grpc" /\ grpcRefused(cfg.endpoint))
          /\ phase' = "buildinfo" /\ providers' = "open" /\ UNCHANGED exit
          /\ exporters' = NewExporters
          /\ resource' = newResource
       \/ Exit(1) /\ UNCHANGED <<exporters, resource>>
    /\ UNCHANGED <<start, pending, cfg, senders, registry, window>>

\* selfobs.New, in three steps: the build info,
CheckBuildInfo ==
    /\ phase = "buildinfo"
    /\ IF validBuildInfo(start.build) THEN Continue("recorder") ELSE Exit(1)
    /\ UNCHANGED <<start, pending, cfg, senders, exporters, resource, registry, window>>

\* The fallback is forgotten.
BadRegistered == Names

Registered == <<Unknown>> \o [i \in DOMAIN senders |-> senders[i].name]

\* Names that differ in case only share an entry.
BadNewRecorder ==
    /\ phase = "recorder"
    /\ Continue("instruments")
    /\ registry' = senderRegistry(Registered).names
    /\ UNCHANGED <<start, pending, cfg, senders, exporters, resource, window>>

\* the registry of "unknown" and the configured names,
NewRecorder ==
    /\ phase = "recorder"
    /\ LET new == senderRegistry(Registered) IN
       IF new.ok THEN Continue("instruments") /\ registry' = new.names
       ELSE Exit(1) /\ UNCHANGED registry
    /\ UNCHANGED <<start, pending, cfg, senders, exporters, resource, window>>

\* and the instruments, which the SDK may refuse.
NewInstruments ==
    /\ phase = "instruments"
    /\ Continue("exporter") \/ Exit(1)
    /\ UNCHANGED <<start, pending, cfg, senders, exporters, resource, registry, window>>

NewExporter ==
    /\ phase = "exporter"
    /\ Continue("listener") \/ Exit(1)
    /\ UNCHANGED <<start, pending, cfg, senders, exporters, resource, registry, window>>

\* sip.New takes a zero window for the default and refuses a negative one.
NewListener ==
    /\ phase = "listener"
    /\ IF cfg.window = "negative" THEN Exit(1) /\ UNCHANGED window
       ELSE /\ Continue("bind")
            /\ window' = IF cfg.window = "zero" THEN "default" ELSE cfg.window
    /\ UNCHANGED <<start, pending, cfg, senders, exporters, resource, registry>>

\* The process ends with its providers open.
BadBind ==
    /\ phase = "bind"
    /\ \/ Continue("serving")
       \/ /\ phase' = "exited" /\ exit' = [code |-> 1, failed |-> "bind"]
          /\ UNCHANGED providers
    /\ UNCHANGED <<start, pending, cfg, senders, exporters, resource, registry, window>>

\* ListenAndServe binds the address or fails, and run goes on to its end.
Bind ==
    /\ phase = "bind"
    /\ Continue("serving") \/ Exit(1)
    /\ UNCHANGED <<start, pending, cfg, senders, exporters, resource, registry, window>>

Next ==
    \/ Leave
    \/ ParseFlags
    \/ ReadFile
    \/ ApplyEnvironment
    \/ EnvironmentDone
    \/ Validate
    \/ NewLogger
    \/ NewProviders
    \/ CheckBuildInfo
    \/ NewRecorder
    \/ NewInstruments
    \/ NewExporter
    \/ NewListener
    \/ Bind

Spec == Init /\ [][Next]_vars
-----------------------------------------------------------------------------
(* Properties *)

\* Every variable has its type.
TypeOK ==
    /\ phase \in Phases
    /\ DOMAIN cfg = Settings /\ \A s \in Settings : cfg[s] \in ValuesOf[s]
    /\ providers \in {"none", "open", "shut"}
    /\ exporters.protocol \in {"none", "http", "grpc"}
    /\ \A k \in DOMAIN registry : ToLower(registry[k]) = k
    /\ window \in ValuesOf["window"] \cup {"none"}
    /\ exit.code \in 0..2 /\ exit.failed \in Phases \cup {"nothing"}

\* Once providers exist their goroutines export in the background: every way
\* out of run after that shuts them down (main.go:101-144), and while it serves
\* they are running.
NothingLeftRunning ==
    /\ phase = "exited" => providers # "open"
    /\ phase \in {"buildinfo", "recorder", "instruments", "exporter", "listener", "bind",
                  "serving"} => providers = "open"

\* docs/configuration.md:3-4: the environment goes before the file and the file
\* before the defaults; of two variables for one setting the later counts.
Precedence ==
    phase \notin {"flags", "file", "environment", "exited"} =>
        \A s \in Settings :
            LET set == {n \in DOMAIN environ : environ[n].key = s} IN
            IF set # {} THEN \E n \in set : cfg[s] = environ[n].value /\ \A m \in set : m <= n
            ELSE IF s \in DOMAIN file.settings THEN cfg[s] = file.settings[s]
            ELSE cfg[s] = Default[s]

\* docs/configuration.md:32-35: over HTTP each signal has its own path under one base,
\* the endpoint without the signal's path it may have come with (if there was one only:
\* of two, the code strips one or both, by their order); over gRPC only host and port
\* are used.  A bare host:port is promised for gRPC only: Validate lets it through for
\* HTTP too, and nothing is said of where the exporters send then.
RightEndpoints ==
    LET path == cfg.endpoint.path
        EndsInSignal(p) == EndsIn(p, "metrics") \/ EndsIn(p, "logs")
        stripped == IF EndsInSignal(path) THEN SubSeq(path, 1, Len(path) - 2) ELSE path
    IN IF cfg.protocol = "http"
       THEN cfg.endpoint.scheme # "" =>
            /\ \E n \in 0..Len(path) : LET base == SubSeq(path, 1, n) IN
                  /\ exporters.metrics.path = base \o <<"v1", "metrics">>
                  /\ exporters.logs.path = base \o <<"v1", "logs">>
                  /\ ~EndsInSignal(stripped) => base = stripped
            /\ exporters.metrics.host = cfg.endpoint.host
            /\ exporters.logs.host = cfg.endpoint.host
       ELSE /\ exporters.metrics = exporters.logs
            /\ exporters.metrics.host = cfg.endpoint.host
            /\ exporters.metrics.scheme = ""
            /\ exporters.insecure <=> cfg.endpoint.scheme = "http"

\* What the operator configured is what runs: the exporters of an endpoint in the form
\* docs/configuration.md asks for send where it says; the service's identity goes over the
\* environment's and nothing else does (configuration.md:70-71, of the attributes the SDK
\* does not detect itself: its host.name goes over the environment's, main.go:249-250);
\* and the listener has the window configured and not its own default.  A level or a
\* window that Validate let through is refused neither by newLogger (main.go:165-168) nor
\* by sip.New (sip.go:66-85); an endpoint over gRPC and a sender's name may be.
ConfigurationInForce ==
    /\ phase = "serving" =>
          /\ RightEndpoints
          /\ \A a \in OwnAttributes : resource[a] = "config"
          /\ \A a \in start.attributes \ (OwnAttributes \cup DetectedAttributes) :
                resource[a] = "environment"
          /\ window = cfg.window
    /\ exit.failed \notin {"logger", "listener"}

\* Listener.senderName, with SenderName of the configuration.
senderName(a) == boundedSenderName(SenderName(Plain(a)))

\* The recorder drops what is not in its closed sets, and the callers drop its error
\* (main.go:128, sip.go:152).  While the collector serves it drops nothing, and its reports
\* and duplicates carry the very labels the call metrics of the report carry, so the
\* two can be joined: the sender's name above all, which Validate, the
\* registry and the exporter each read in their own way.
SignalsAgree ==
    phase = "serving" =>
        /\ \A a \in Sources :
              LET name == boundedSenderName(SenderName(Plain(a))) IN
              /\ RecordDuplicate(registry, senderName(a)) = {name}
              /\ \A d \in Dialects, t \in ReportTypes :
                    RecordReport(registry, d, t, SenderName(Plain(a)))
                      = {<<boundedDialect(d), boundedReportType(t), name>>}
        /\ \A d \in Dialects : RecordProcessDuration(d, 0) = {boundedDialect(d)}
        /\ \A o \in Outcomes : RecordDatagram(o) = {o.word}
        /\ \A e \in ParseErrors : RecordParseError(parseErrorType(e)) = {parseErrorType(e).word}
        /\ \A s \in Statuses : RecordResponse(s) = {s}
        /\ \A s \in Signals : RecordExportFailure(s) = {s.word}

\* docs/configuration.md:49-54: a label stands for one configured address, and
\* "unknown" for no configured address, also for a backend that ignores case (of
\* addresses in the spelling the listener prints them in).
SendersStayApart ==
    phase = "serving" => \A a, b \in Sources :
        LET Configured(s) == \E i \in DOMAIN senders : Addresses[i] = Plain(s)
            Label(s) == ToLower(SenderName(Plain(s)))
        IN
        Configured(a) /\ a # b => Label(a) # Label(b)

\* docs/configuration.md:48: "Each address and name must be non-empty and
\* unique": names that are do not keep the collector from starting.
UniqueNamesStart ==
    exit.failed = "recorder" => ~IsInjective(Names)
=============================================================================
