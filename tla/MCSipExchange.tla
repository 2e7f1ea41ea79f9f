---------------------------- MODULE MCSipExchange ----------------------------
EXTENDS SipExchange, TLC

MCPhones == {"desk", "hall"}

\* Both behind one NAT, which gives desk a new port at some time.
MCAddresses == "desk" :> {[ip |-> "nat", port |-> "1000"], [ip |-> "nat", port |-> "1001"]}
                 @@ "hall" :> {[ip |-> "nat", port |-> "2000"]}
MCProbeAddress == [ip |-> "localhost", port |-> "3000"]

MCAtoi == "60" :> 60 @@ "7200" :> 7200 @@ "-5" :> -5 @@ "1" :> 1

\* One for each report and life, and more than are used.
MCTokens == <<"t1", "t2", "t3", "t4", "t5">>

MCTexts == UNION {DOMAIN MCAtoi, {MCTokens[i] : i \in DOMAIN MCTokens},
    {"", "desk", "hall", "rport", "branch", "tag", "received", "collector", "localhost", "health",
     "healthcheck", "2", "nat", "1000", "1001", "2000", "3000", "application/vq-rtcpxr", "vq-rtcpxr", "text/plain", "presence"}}

H(name, value) == [folded |-> FALSE, name |-> name, value |-> value]
Fold(value) == [folded |-> TRUE, name |-> "", value |-> value]
NoHeader == [folded |-> FALSE, name |-> "", value |-> <<>>]

\* A report of phone p, as a phone would send it.
Via(p) == H("via", <<Bare(p), Set("branch", p), Bare("rport")>>)
From(p) == H("from", <<Bare(p), Set("tag", p)>>)
To == H("to", <<Bare("collector")>>)
CallID(p) == H("call-id", <<Bare(p)>>)
CSeq(n) == H("cseq", <<Bare(n)>>)
Type(t) == H("content-type", <<Bare(t)>>)
Event(e) == H("event", <<Bare(e)>>)
Expires(e) == H("expires", <<Bare(e)>>)
VQ == <<Type("application/vq-rtcpxr"), Event("vq-rtcpxr")>>

Sent(p, lines) == [method |-> "PUBLISH", lines |-> lines, body |-> p]
Usual(p) == Sent(p, <<Via(p), From(p), To, CallID(p), CSeq("1"), Expires("60")>> \o VQ)

\* What hall sends beside desk's report: a report in the dialog of desk with its own
\* CSeq that wishes for a long expiry; one with folded headers and with headers that are
\* repeated, of which one is continued; one with a padded rport that wishes for a negative
\* expiry; and what is refused or not understood.
Others == <<
    Sent("hall", <<Via("hall"), From("hall"), To, CallID("desk"), CSeq("2"),
                   Expires("7200")>> \o VQ),
    Sent("hall", VQ \o <<H("via", <<Bare("hall"), Set("branch", "hall")>>),
                         Fold(<<Bare("rport")>>), From("hall"), H("to", <<Bare("collector")>>),
                         Fold(<<Set("tag", "hall")>>), CallID("hall"), CSeq("1"),
                         Via("desk"), Fold(<<Set("received", "nat")>>), CSeq("2")>>),
    Sent("hall", <<H("via", <<Bare("hall"), [Bare("rport") EXCEPT !.padded = TRUE]>>),
                   From("hall"), To, CallID("hall"), CSeq("1"), Expires("-5")>> \o VQ),
    Sent("hall", <<Via("hall"), From("hall"), To, CallID("hall"), CSeq("1"),
                   Type("text/plain"), Event("presence")>>),
    Sent("hall", <<Via("hall"), CallID("hall"), CSeq("1"), Type("application/vq-rtcpxr")>>),
    [Usual("hall") EXCEPT !.method = "short"],
    Sent("hall", <<Via("hall"), NoHeader>>)>>

NoIdentity(p) == Sent(p, <<Via(p), From(p), To, Expires("7200")>> \o VQ)

\* A phone whose reports are refused, beside which the probe runs.
Wrong(p) == [Usual(p) EXCEPT !.method = "OPTIONS"]

Mix(d, h) == "desk" :> d @@ "hall" :> h
MCMixes == [n \in DOMAIN Others |-> Mix(Usual("desk"), Others[n])]
             \o <<Mix(NoIdentity("desk"), NoIdentity("hall")),
                 Mix(Wrong("desk"), [Usual("hall") EXCEPT !.method = "short"])>>
=============================================================================
