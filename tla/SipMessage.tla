------------------------------ MODULE SipMessage ------------------------------
(***************************************************************************)
(* internal/sip/sip.go: what the listener reads from a datagram and what   *)
(* it writes in answer, as operators: parseRequest, validatePublish and    *)
(* the builders of responses.                                              *)
(*                                                                         *)
(* The value of a header is the sequence of what stands between its        *)
(* semicolons, a parameter the sequence of what stands between its equals  *)
(* signs after the name: ";rport" has no value, ";rport=5060" has one.     *)
(* Case and blanks are kept where the code is particular about them, at    *)
(* the start of a parameter.                                               *)
(***************************************************************************)
EXTENDS Integers, Sequences, SequencesExt

CONSTANTS
    Texts,          \* the words of headers
    Atoi            \* strconv.Atoi: word -> number, where it is one

ASSUME AtoiAssumption == DOMAIN Atoi \subseteq Texts /\ \A w \in DOMAIN Atoi : Atoi[w] \in Int

HeaderNames == {"via", "from", "to", "call-id", "cseq", "expires", "content-type", "event"}

\* padded: a blank between the semicolon and the name; upper: not in lower case.
Param == [name : Texts, value : Seq(Texts), padded : BOOLEAN, upper : BOOLEAN]
Bare(name) == [name |-> name, value |-> <<>>, padded |-> FALSE, upper |-> FALSE]
Set(name, value) == [Bare(name) EXCEPT !.value = <<value>>]

\* A line after the first one. A continuation has no name, and begins with a
\* semicolon; a line that is no header, for want of a colon, has neither name nor
\* value. (A header without a value, which is treated like one that is missing, and a
\* continuation with a colon are left out.)
Line == {l \in [folded : BOOLEAN, name : HeaderNames \cup {""}, value : Seq(Param)] :
            IF l.folded THEN l.name = "" ELSE l.name = "" <=> l.value = <<>>}

\* method "short": the first line has fewer than three words.
Message == [method : {"PUBLISH", "OPTIONS", "short"}, lines : Seq(Line), body : Texts]

Address == [ip : Texts, port : Texts]

-----------------------------------------------------------------------------
(* parseRequest *)

\* The first of repeated headers counts, but a continuation of a later one is
\* appended to it all the same.  A header that is missing has no value.
ParseLine(r, line) ==
    IF ~r.ok THEN r
    ELSE IF line.folded /\ r.current # "" THEN [r EXCEPT !.headers[r.current] = @ \o line.value]
    ELSE IF line.name = "" THEN [r EXCEPT !.ok = FALSE]
    ELSE [r EXCEPT !.current = line.name,
                   !.headers[line.name] = IF @ = <<>> THEN line.value ELSE @]

NothingParsed(m) ==
    [ok |-> m.method # "short", current |-> "", headers |-> [name \in HeaderNames |-> <<>>]]

\* After the first n lines.
Parsed(m, n) ==
    LET parsed[k \in 0..n] ==
            IF k = 0 THEN NothingParsed(m) ELSE ParseLine(parsed[k - 1], m.lines[k])
    IN parsed[n]

parseRequest(m) ==
    LET end == Parsed(m, Len(m.lines)) IN
    [ok |-> end.ok, method |-> m.method, headers |-> end.headers, body |-> m.body]

header(r, name) == r.headers[name]

-----------------------------------------------------------------------------
(* validatePublish *)

\* What comes before the first semicolon.
Leads(value, word) == value # <<>> /\ value[1].name = word

validatePublish(r) ==
    IF r.method # "PUBLISH" THEN 405
    ELSE IF ~Leads(header(r, "content-type"), "application/vq-rtcpxr") THEN 415
    ELSE IF ~Leads(header(r, "event"), "vq-rtcpxr") THEN 489
    ELSE 200

-----------------------------------------------------------------------------
(* buildResponse, buildErrorResponse *)

Params(value) == 2..Len(value)
containsParam(value, name) == \E i \in Params(value) : value[i].name = name
containsBareParam(value, name) ==
    \E i \in Params(value) : value[i].name = name /\ value[i].value = <<>>

\* strings.Replace: the first ";rport" spelled just so gets the port, whether or not it
\* is the bare one.
FillPort(via, port) ==
    LET spelled == {i \in Params(via) :
                      via[i].name = "rport" /\ ~via[i].padded /\ ~via[i].upper}
    IN [i \in DOMAIN via |->
          IF i \in spelled /\ \A j \in spelled : i <= j
          THEN [via[i] EXCEPT !.value = <<port>> \o @] ELSE via[i]]

decorateVia(via, remote) ==
    LET seen == IF containsParam(via, "received") THEN via
                ELSE Append(via, Set("received", remote.ip))
    IN IF containsBareParam(seen, "rport") THEN FillPort(seen, remote.port) ELSE seen

\* (Variants named Bad... are wrong on purpose: each stands for a plausible
\* mistake in the definition that follows it.)

\* A negative wish is granted.
BadGrantedExpiry(value, maximum) ==
    IF Len(value) = 1 /\ value[1].name \in DOMAIN Atoi
    THEN IF Atoi[value[1].name] < maximum THEN Atoi[value[1].name] ELSE maximum
    ELSE 0

grantedExpiry(value, maximum) ==
    IF Len(value) = 1 /\ value[1].name \in DOMAIN Atoi /\ Atoi[value[1].name] >= 0
    THEN IF Atoi[value[1].name] < maximum THEN Atoi[value[1].name] ELSE maximum
    ELSE 0

\* The search for ";tag=" is particular about blanks only.
Tagged(to) ==
    \E i \in Params(to) : to[i].name = "tag" /\ to[i].value # <<>> /\ ~to[i].padded

\* A header that is missing, or that the status does not call for, is not written.
response(r, remote, status, token, expires) ==
    LET via == header(r, "via")
        to == header(r, "to")
    IN [status |-> status,
        via |-> IF via = <<>> THEN <<>> ELSE decorateVia(via, remote),
        from |-> header(r, "from"),
        to |-> IF status = 200 /\ to # <<>> /\ ~Tagged(to)
               THEN Append(to, Set("tag", token)) ELSE to,
        callID |-> header(r, "call-id"),
        cseq |-> header(r, "cseq"),
        etag |-> token,
        expires |-> expires]

MaxExpires == 3600

\* randomToken: two tokens that no other response has; one stands for both.
buildResponse(r, remote, token) ==
    response(r, remote, 200, token, grantedExpiry(header(r, "expires"), MaxExpires))

buildErrorResponse(r, remote, status) == response(r, remote, status, "", -1)

-----------------------------------------------------------------------------
(* What a message says, read without a parser *)

HeadersOf(m, name) == {i \in DOMAIN m.lines : m.lines[i].name = name}

\* Line k is line i, or continues it.
Tells(m, i, k) == i <= k /\ \A j \in i + 1..k : m.lines[j].folded

\* What line i says with its continuations, up to line n.
SaidBy(m, i, n) ==
    LET by[k \in 0..n] ==
            IF k = 0 THEN <<>>
            ELSE IF Tells(m, i, k) THEN by[k - 1] \o m.lines[k].value ELSE by[k - 1]
    IN by[n]

\* The first header of that name.
Said(m, name) ==
    LET at == HeadersOf(m, name) IN
    IF at = {} THEN <<>>
    ELSE SaidBy(m, CHOOSE i \in at : \A j \in at : i <= j, Len(m.lines))

\* A header that comes again with a continuation, which the parser appends to the first
\* one's value.
Misread(m, name) ==
    \E i, j \in HeadersOf(m, name) :
        i < j /\ j + 1 \in DOMAIN m.lines /\ m.lines[j + 1].folded
=============================================================================
