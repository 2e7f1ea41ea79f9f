----------------------------- MODULE MCVQReport -----------------------------
EXTENDS VQReport

T(n, v) == [name |-> n, value |-> v]
L(k, ts) == [fold |-> FALSE, key |-> k, tokens |-> ts]

ReportLine == L("VQSessionReport", <<>>)

\* Two blocks of each side, metric lines that overwrite each other in part, a
\* sentinel, values that do not convert, and a continuation.
MetricLines == {
    L("remotemetrics", <<>>),
    L("metrics", <<>>),
    L("other", <<T("moslq", "small"), T("vendor", "text"), T("port", "small"), T("rerl", "big")>>),
    L("other", <<T("rerl", "127"), T("moslq", "text"), T("pt", "big"), T("nlr", "real")>>),
    L("other", <<>>),
    [fold |-> TRUE, key |-> "no colon", tokens |-> <<T("moslq", "127"), T("pt", "small")>>]}

\* Identities of both dialects, addresses that are complete, partial and bad.
HeaderLines == {
    L("toid", <<>>),
    L("fromid", <<>>),
    L("localid", <<>>),
    L("localaddr", <<T("ip", "ip"), T("port", "big")>>),
    L("localaddr", <<T("ip", "text"), T("ssrc", "small"), T("rerl", "127"), T("port", "ip")>>),
    L("localaddr", <<>>),
    L("blank", <<>>),
    L("no colon", <<>>),
    [fold |-> TRUE, key |-> "no colon", tokens |-> <<T("port", "127")>>]}

UpTo(n, lines) == UNION {[1..m -> lines] : m \in 0..n}

MCBodies ==
    {<<ReportLine>> \o b : b \in UpTo(4, MetricLines) \cup UpTo(3, HeaderLines)}
      \cup UpTo(2, HeaderLines \cup {ReportLine})
=============================================================================
