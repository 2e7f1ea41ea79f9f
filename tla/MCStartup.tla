------------------------------ MODULE MCStartup ------------------------------
EXTENDS Startup, TLC

Padded(w) == [Plain(w) EXCEPT !.padded = TRUE]
Upper(w) == [Plain(w) EXCEPT !.upper = TRUE]

MCSources == {"10.0.0.1", "10.0.0.2"}

\* Up to two senders: blank, padded, equal but for padding or case, and named
\* like the fallback.
MCAddresses == {Plain("10.0.0.1"), Padded("10.0.0.1"), Plain("10.0.0.2"), Padded("")}
MCNames == {Plain("office"), Padded("office"), Upper("office"), Plain("annex"),
            Plain("unknown"), Plain("")}
MCSenders == UNION {[1..n -> [address : MCAddresses, name : MCNames]] : n \in 0..2}
OneSender == <<[address |-> Plain("10.0.0.1"), name |-> Plain("office")]>>

URL(scheme, path, slashes) ==
    [scheme |-> scheme, host |-> "otel", path |-> path, slashes |-> slashes]
MCEndpoints ==
    {URL("https", path, slashes) :
        path \in {<<>>, <<"otlp">>, <<"v1", "metrics">>, <<"otlp", "v1", "logs">>,
                 <<"v1", "logs", "v1", "metrics">>},
        slashes \in {0, 1}}
      \cup {URL("", <<>>, 0), URL("http", <<>>, 1), URL("https", <<>>, 2), URL("ftp", <<>>, 0),
            [URL("http", <<>>, 0) EXCEPT !.host = ""]}

Complete == [endpoint |-> URL("https", <<>>, 0), protocol |-> "http"]
NoFile(kind) == [kind |-> kind, settings |-> <<>>, senders |-> <<>>]
Yaml(settings, s) == [kind |-> "yaml", settings |-> settings, senders |-> s]

MCBuild == [part \in {"version", "revision", "date"} |-> Plain("office")]
Start(f, e, b, a) == [file |-> f, environ |-> e, build |-> b, attributes |-> a]

\* Files with settings of all kinds, and every variable once or twice.
SettingsFiles ==
    {NoFile("none"), NoFile("unreadable"), NoFile("empty")}
      \cup {Yaml(s, OneSender) :
              s \in [endpoint : {URL("https", <<>>, 0), URL("http", <<"v1", "logs">>, 1)},
                     protocol : {"http", "grpc"}]
                      \cup [endpoint : {NoEndpoint}, window : {"positive"}]
                      \cup {t :> v @@ Complete : t \in {"window", "port"},
                                                 v \in {"zero", "words"}}
                      \cup {"window" :> "negative" @@ Complete, "level" :> "words" @@ Complete,
                            "identity" :> "" @@ Complete,
                            "Authorization" :> "file" @@ "authorization" :> "file" @@ Complete}}

MCEntries ==
    {[key |-> "endpoint", value |-> URL("", <<>>, 0)],
     [key |-> "endpoint", value |-> URL("https", <<"otlp", "v1", "metrics">>, 0)],
     [key |-> "protocol", value |-> "grpc"], [key |-> "protocol", value |-> "words"],
     [key |-> "level", value |-> "debug"], [key |-> "identity", value |-> "text"],
     [key |-> "authorization", value |-> "environment"], [key |-> "other", value |-> ""]}
      \cup {[key |-> "window", value |-> v] : v \in {"positive", "zero", "negative", "words"}}
      \cup {[key |-> "port", value |-> v] : v \in {"valid", "words"}}

MCEnvironments == UNION {[1..n -> MCEntries] : n \in 0..2}

\* All senders, all settings, all endpoints, and what the build and the standard
\* environment bring along.
MCStarts ==
    {Start(Yaml(Complete, s), <<>>, MCBuild, {}) : s \in MCSenders}
      \cup {Start(f, e, MCBuild, {}) : f \in SettingsFiles, e \in MCEnvironments}
      \cup {Start(Yaml([endpoint |-> u, protocol |-> p], OneSender), <<>>, MCBuild,
                  {"service.name", "deployment", "host.name"}) : u \in MCEndpoints, p \in {"http", "grpc"}}
      \cup {Start(Yaml(Complete, OneSender), <<>>, [MCBuild EXCEPT !.revision = s], {}) :
              s \in {Plain(""), Padded(""), Padded("office")}}
=============================================================================
