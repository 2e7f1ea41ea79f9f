----------------------------- MODULE SipExchange -----------------------------
(***************************************************************************)
(* Phones, the collector and its health probe over UDP.  A phone sends its *)
(* report again until it is answered or gives up; the network may lose,    *)
(* copy, delay and reorder datagrams, and may carry copies of one request  *)
(* from several addresses (a NAT that forgets its binding).  The collector *)
(* answers with what module SipMessage builds, keeps the answers in its    *)
(* cache, and loses everything it has in memory when it stops.             *)
(*                                                                         *)
(* Here a datagram is handled in one step up to its answer; how goroutines *)
(* interleave in it is the matter of module Listener.                      *)
(***************************************************************************)
EXTENDS SipMessage, FiniteSets

CONSTANTS
    Phones,
    Mixes,          \* what the phones may send in one run, each phone -> Message
    Probed,         \* the mixes beside which the health probe runs
    Addresses,      \* phone -> the addresses its copies may come from
    ProbeAddress,   \* where the health probe sends from
    Tokens,         \* what randomToken returns, one after the other
    Window,         \* Config.DedupeWindow, in ticks
    RetryFor,       \* how long a phone goes on sending, after its first copy
    MaxDelay,       \* how long a copy may be on its way
    Deadline,       \* healthcheck's 2 s
    MaxStart,       \* bound on the time at which phones start
    MaxTime,        \* bound on the clock
    MaxLives        \* bound on the times the collector runs

Identified(m) == Said(m, "call-id") # <<>> /\ Said(m, "cseq") # <<>>

\* RFC 3261: no other request has the Call-ID and the CSeq of one that has both.
ASSUME MixesAssumption ==
    /\ Probed \subseteq DOMAIN Mixes
    /\ \A n \in DOMAIN Mixes :
          LET Identity(p) == LET r == parseRequest(Mixes[n][p]) IN
                             <<header(r, "call-id"), header(r, "cseq")>>
          IN
          /\ Mixes[n] \in [Phones -> Message]
          /\ \A p, q \in Phones : p # q =>
                /\ Mixes[n][p].body # Mixes[n][q].body
                /\ Identified(Mixes[n][p]) => Identity(p) # Identity(q)
ASSUME AddressesAssumption ==
    /\ \A p \in Phones : Addresses[p] \subseteq Address /\ ProbeAddress \notin Addresses[p]
    /\ \A p, q \in Phones : p # q => Addresses[p] \cap Addresses[q] = {}
    /\ ProbeAddress \in Address
\* randomToken: the same 12 bytes are not drawn twice.
ASSUME TokensAssumption ==
    /\ Tokens \in Seq(Texts)
    /\ \A m, n \in DOMAIN Tokens : Tokens[m] = Tokens[n] => m = n
\* Timer F of a phone runs out before the window of its report does: the last of the
\* copies it sends in 32 s is sent after 31.5 s.
ASSUME PatienceAssumption ==
    /\ {Window, RetryFor, MaxDelay, Deadline, MaxStart, MaxTime, MaxLives} \subseteq Nat
    /\ RetryFor + MaxDelay < Window
    /\ MaxLives > 0

VARIABLES
    now,
    mix,        \* which of Mixes the phones send
    starts,     \* when it sends the first copy
    life,       \* how often the collector was started
    up,         \* the collector is running
    seen,       \* its cache: key -> [response, expires]
    minted,     \* how many of Tokens were used
    pending,    \* the reports answered whose handler was not called yet
    handled,    \* what the handler got: <<body, life>> -> how often
    lost,       \* the reports the collector was stopped with, as <<body, life>>
    replies,    \* all that was sent in answer
    probe,      \* what healthcheck is doing
    asked       \* when it sent its request

vars == <<now, mix, starts, life, up, seen, minted, pending, handled, lost,
          replies, probe, asked>>

NotYet == -1

Messages == Mixes
message == Messages[mix]
Bodies == {message[p].body : p \in Phones}

\* What the listener makes of the messages.
Requests == [n \in DOMAIN Mixes |-> [p \in Phones |-> parseRequest(Mixes[n][p])]]
Statuses == [n \in DOMAIN Mixes |-> [p \in Phones |-> validatePublish(Requests[n][p])]]
request(p) == Requests[mix][p]
Accepted(p) == request(p).ok /\ Statuses[mix][p] = 200

\* And what they say.
Sayings == [n \in DOMAIN Mixes |-> [p \in Phones |->
               [name \in HeaderNames |-> Said(Mixes[n][p], name)]]]
Says(p, name) == Sayings[mix][p][name]

Publish(r, from) ==
    [body |-> r.body, callID |-> header(r, "call-id"), cseq |-> header(r, "cseq"),
     remote |-> from]

\* The life of the process that replies: 0 for one that is not the collector.
Reply(to, who, what) == [to |-> to, life |-> who, response |-> what]

Init ==
    /\ now = 0
    /\ mix \in DOMAIN Mixes
    /\ starts \in [Phones -> 0..MaxStart] /\ \E p \in Phones : starts[p] = 0
    /\ life = 1 /\ up = TRUE
    /\ seen = [k \in {} |-> 0]
    /\ minted = 0
    /\ pending = {}
    /\ handled = [x \in Bodies \X (1..MaxLives) |-> 0]
    /\ lost = {}
    /\ replies = {}
    /\ probe = "none" /\ asked = NotYet

-----------------------------------------------------------------------------
(* Phones and network *)

\* A copy of p's request may come in as long as one may be on its way, however
\* many have come before; that it need not come is its loss.
Arrives(p, from) ==
    /\ up
    /\ now \in starts[p]..starts[p] + RetryFor + MaxDelay
    /\ from \in Addresses[p]

-----------------------------------------------------------------------------
(* handleDatagram.  A malformed datagram changes nothing here. *)

\* (Variants named Bad... are wrong on purpose: each stands for a plausible
\* mistake in the definition that follows it.)

\* CSeq is forgotten.
BadKeyOf(r) == <<header(r, "call-id"), <<>>>>

KeyOf(r) == <<header(r, "call-id"), header(r, "cseq")>>

Live == {k \in DOMAIN seen : seen[k].expires > now}

Purged == [k \in Live |-> seen[k]]

\* The window begins when the clock does.
BadEntry(resp) == [response |-> resp, expires |-> Window]

Entry(resp) == [response |-> resp, expires |-> now + Window]

Refuse(p, from) ==
    LET status == Statuses[mix][p] IN
    /\ Arrives(p, from)
    /\ request(p).ok /\ status # 200
    /\ replies' = replies \cup
                    {Reply(from, life, buildErrorResponse(request(p), from, status))}
    /\ UNCHANGED <<now, mix, starts, life, up, seen, minted, pending, handled, lost,
                   probe, asked>>

\* A new report: it is answered, and remembered, before the handler gets it.
Admit(p, from) ==
    LET r == request(p)
        k == KeyOf(r)
        resp == buildResponse(r, from, Tokens[minted + 1])
    IN
    /\ Arrives(p, from)
    /\ Accepted(p)
    /\ minted < Len(Tokens)
    /\ k \notin Live
    /\ seen' = [x \in Live \cup {k} |-> IF x = k THEN Entry(resp) ELSE seen[x]]
    /\ minted' = minted + 1
    /\ pending' = pending \cup {Publish(r, from)}
    /\ replies' = replies \cup {Reply(from, life, resp)}
    /\ UNCHANGED <<now, mix, starts, life, up, handled, lost, probe, asked>>

\* A copy is answered with a response of its own.
BadRepeat(p, from) ==
    /\ Arrives(p, from)
    /\ Accepted(p)
    /\ KeyOf(request(p)) \in Live
    /\ minted < Len(Tokens)
    /\ seen' = Purged
    /\ minted' = minted + 1
    /\ replies' = replies \cup
                    {Reply(from, life, buildResponse(request(p), from, Tokens[minted + 1]))}
    /\ UNCHANGED <<now, mix, starts, life, up, pending, handled, lost, probe, asked>>

\* A copy, perhaps from another address: the answer is the first one, as it was.
Repeat(p, from) ==
    LET k == KeyOf(request(p)) IN
    /\ Arrives(p, from)
    /\ Accepted(p)
    /\ k \in Live
    /\ seen' = Purged
    /\ replies' = replies \cup {Reply(from, life, seen[k].response)}
    /\ UNCHANGED <<now, mix, starts, life, up, minted, pending, handled, lost,
                   probe, asked>>

CallHandler(publish) ==
    /\ publish \in pending
    /\ pending' = pending \ {publish}
    /\ handled' = [handled EXCEPT ![<<publish.body, life>>] = @ + 1]
    /\ UNCHANGED <<now, mix, starts, life, up, seen, minted, lost, replies,
                   probe, asked>>

\* The process ends, with an exit or without one; its cache was in its memory only.
Stop ==
    /\ up
    /\ up' = FALSE
    /\ seen' = [k \in {} |-> 0]
    /\ pending' = {}
    /\ lost' = lost \cup {<<publish.body, life>> : publish \in pending}
    /\ UNCHANGED <<now, mix, starts, life, minted, handled, replies, probe, asked>>

Restart ==
    /\ ~up
    /\ life < MaxLives
    /\ up' = TRUE
    /\ life' = life + 1
    /\ UNCHANGED <<now, mix, starts, seen, minted, pending, handled, lost, replies,
                   probe, asked>>

-----------------------------------------------------------------------------
(* healthcheck, in a process of its own *)

probeRequest ==
    [method |-> "OPTIONS",
     lines |-> <<[folded |-> FALSE, name |-> "via",
                  value |-> <<Bare("localhost"), Set("branch", "health"), Bare("rport")>>],
                 [folded |-> FALSE, name |-> "from",
                  value |-> <<Bare("localhost"), Set("tag", "health")>>],
                 [folded |-> FALSE, name |-> "to", value |-> <<Bare("collector")>>],
                 [folded |-> FALSE, name |-> "call-id", value |-> <<Bare("healthcheck")>>],
                 [folded |-> FALSE, name |-> "cseq", value |-> <<Bare("1")>>]>>,
     body |-> ""]

\* What the listener, or another server in its place, makes of it.
probeHeard == parseRequest(probeRequest)

\* (MaxTime leaves it its time.)
SendProbe ==
    /\ probe = "none"
    /\ mix \in Probed
    /\ now + Deadline <= MaxTime
    /\ probe' = "waiting"
    /\ asked' = now
    /\ UNCHANGED <<now, mix, starts, life, up, seen, minted, pending, handled, lost,
                   replies>>

ProbeReplies == {r \in replies : r.to = ProbeAddress}

\* The collector treats the probe like any other request.
AnswerProbe ==
    LET status == validatePublish(probeHeard) IN
    /\ up
    /\ probe # "none" /\ now <= asked + MaxDelay
    /\ probeHeard.ok /\ status # 200
    /\ replies' = replies \cup
                    {Reply(ProbeAddress, life,
                           buildErrorResponse(probeHeard, ProbeAddress, status))}
    /\ UNCHANGED <<now, mix, starts, life, up, seen, minted, pending, handled, lost,
                   probe, asked>>

\* While the collector is down another SIP server may have its port, one that knows
\* OPTIONS or one that refuses it as the collector would.
AnswerInItsPlace ==
    /\ ~up
    /\ probe = "waiting"
    /\ \E resp \in {buildResponse(probeHeard, ProbeAddress, "other"),
                    buildErrorResponse(probeHeard, ProbeAddress, 405)} :
          replies' = replies \cup {Reply(ProbeAddress, 0, resp)}
    /\ UNCHANGED <<now, mix, starts, life, up, seen, minted, pending, handled, lost,
                   probe, asked>>

Verdict(v) ==
    /\ probe = "waiting"
    /\ probe' = v
    /\ UNCHANGED <<now, mix, starts, life, up, seen, minted, pending, handled, lost,
                   replies, asked>>

\* Any answer will do.
BadReadReply ==
    \E reply \in ProbeReplies :
        Verdict(IF reply.response.status \in {200, 405} THEN "healthy" ELSE "unhealthy")

\* One read: what it returns decides.
ReadReply ==
    \E reply \in ProbeReplies :
        Verdict(IF reply.response.status = 405 THEN "healthy" ELSE "unhealthy")

\* The read fails: when its time is up, or because nobody has the port.
ReadFails ==
    /\ now >= asked + Deadline \/ ~up
    /\ Verdict("unhealthy")

-----------------------------------------------------------------------------
Tick ==
    /\ now < MaxTime
    /\ now' = now + 1
    /\ UNCHANGED <<mix, starts, life, up, seen, minted, pending, handled, lost,
                   replies, probe, asked>>

Next ==
    \/ \E p \in Phones : \E from \in Addresses[p] :
          Refuse(p, from) \/ Admit(p, from) \/ Repeat(p, from)
    \/ \E publish \in pending : CallHandler(publish)
    \/ Stop
    \/ Restart
    \/ SendProbe
    \/ AnswerProbe
    \/ AnswerInItsPlace
    \/ ReadReply
    \/ ReadFails
    \/ Tick

Spec == Init /\ [][Next]_vars

\* Time passes, and a read returns once it can.
FairSpec == Spec /\ WF_vars(Tick) /\ WF_vars(ReadReply \/ ReadFails)
-----------------------------------------------------------------------------
(* Properties *)

\* Every variable has its type.  A 200 grants from 0 to MaxExpires seconds, and any other
\* status nothing; that no more is granted than was asked for is in AnswersOwnRequest.
TypeOK ==
    /\ now \in 0..MaxTime
    /\ starts \in [Phones -> 0..MaxStart]
    /\ life \in 1..MaxLives /\ up \in BOOLEAN
    /\ (~up => DOMAIN seen = {} /\ pending = {})
    /\ minted \in 0..Len(Tokens)
    /\ {publish.body : publish \in pending} \subseteq Bodies
    /\ lost \subseteq Bodies \X (1..life)
    /\ probe \in {"none", "waiting", "healthy", "unhealthy"}
    /\ \A reply \in replies :
          /\ reply.life \in 0..life
          /\ reply.response.status \in {200, 405, 415, 489}
          /\ reply.response.expires \in
                 IF reply.response.status = 200 THEN 0..MaxExpires ELSE {-1}

Replies(p) == {reply \in replies : reply.to \in Addresses[p]}

\* RFC 3261, 7.3.1: no parameter appears more than once.
OnePort(via) ==
    \A i, j \in Params(via) : via[i].name = "rport" /\ via[j].name = "rport" => i = j

\* Via with the port filled in that it asks for, and the address if it had none, for a
\* request that came from a.  "; rport" and ";RPORT" are left as they are, see
\* RportHonoured.
Honoured(via, a) ==
    [i \in DOMAIN via |->
        IF i # 1 /\ via[i] = Bare("rport") THEN Set("rport", a.port) ELSE via[i]]
      \o IF via = <<>> \/ containsParam(via, "received") THEN <<>>
         ELSE <<Set("received", a.ip)>>

HasTag(to) == \E i \in Params(to) : to[i].name = "tag"

\* What was wished for, at most MaxExpires, and nothing for what is no wish.
Grants(wish, granted) ==
    /\ granted \in 0..MaxExpires
    /\ IF Len(wish) = 1 /\ wish[1].name \in DOMAIN Atoi /\ Atoi[wish[1].name] >= 0
       THEN granted \in {Atoi[wish[1].name], MaxExpires} /\ granted <= Atoi[wish[1].name]
       ELSE granted = 0

\* The response has what the request of p had, no more and no less, but for a header that
\* is continued where it is repeated (sip.go:231).  A Via that breaks RFC 3261, and a To
\* with "; tag=", which gets a second tag (sip.go:281), are left out.
Answers(resp, p) ==
    LET Clear(name) == ~Misread(message[p], name) IN
    /\ Clear("call-id") => resp.callID = Says(p, "call-id")
    /\ Clear("cseq") => resp.cseq = Says(p, "cseq")
    /\ Clear("from") => resp.from = Says(p, "from")
    /\ Clear("to") =>
          /\ resp.status # 200 \/ Says(p, "to") = <<>> \/ Tagged(Says(p, "to"))
                => resp.to = Says(p, "to")
          /\ resp.status = 200 /\ Says(p, "to") # <<>> /\ ~HasTag(Says(p, "to"))
                => resp.to = Append(Says(p, "to"), Set("tag", resp.etag))
    /\ Clear("via") /\ OnePort(Says(p, "via")) =>
          \E a \in Addresses[p] : resp.via = Honoured(Says(p, "via"), a)
    /\ Clear("expires") /\ resp.status = 200 => Grants(Says(p, "expires"), resp.expires)

\* spec/protocol.md:43-48: whatever a phone gets in answer to a request with a Call-ID
\* and a CSeq is the answer to this request: it has its Call-ID, CSeq and From as they
\* were, its To, in a 200 with a tag, its Via with the address and the port of the phone,
\* and an expiry no longer than the request wished for.  The cache hands out what was
\* built for another datagram (sip.go:171), which came from another address perhaps.
AnswersOwnRequest ==
    \A p \in Phones : Identified(message[p]) =>
        \A reply \in Replies(p) : Answers(reply.response, p)

\* spec/protocol.md:43: "echo verbatim, adding received= and honouring rport (RFC 3581)
\* when present": no answer has an rport without a port.  The code finds one that has a
\* blank before it or capitals, and does not fill it in (sip.go:308-309).
RportHonoured ==
    \A p \in Phones : Identified(message[p]) =>
        \A reply \in Replies(p) : LET via == reply.response.via IN
            \A i \in Params(via) : via[i].name = "rport" => via[i].value # <<>>

\* All the 200s a phone gets for one report from one life of the collector are the same,
\* with one To tag and one SIP-ETag, wherever its copies come from; and no two
\* reports, and no two lives, share an entity tag.
SameAnswer ==
    \A p, q \in Phones : Identified(message[p]) /\ Identified(message[q]) =>
        \A s \in Replies(p), t \in Replies(q) :
            s.response.status = 200 /\ t.response.status = 200 =>
                IF p = q /\ s.life = t.life THEN s.response = t.response
                ELSE s.response.etag # t.response.etag

\* The handler gets a report at most once in each life of the collector, and a report
\* that was answered with 200 is handed over or about to be, unless the collector was
\* stopped in between: then no copy brings it back in that life.  After a restart a copy
\* is a new report (sip.go:84): it may be handled once more.
HandledOncePerLife ==
    /\ \A x \in DOMAIN handled : handled[x] <= 1
    /\ \A p \in Phones : Identified(message[p]) =>
          \A reply \in Replies(p) : reply.response.status = 200 =>
              LET x == <<message[p].body, reply.life>> IN
              \/ handled[x] = 1
              \/ reply.life = life /\ \E publish \in pending : publish.body = message[p].body
              \/ x \in lost

\* The probe calls healthy only what refused its OPTIONS with 405 (main.go:458), never one
\* that answers otherwise or nobody; who has the port and refuses OPTIONS like the
\* collector passes for it.  It does not call the collector unhealthy that runs, before
\* its deadline, unless another server answered: what the collector makes of the probe's
\* request (sip.go:131-140) is what the probe waits for.  And every probe comes to a
\* verdict, if nothing answers by its deadline (main.go:440).
ProbeDecides ==
    /\ [](probe = "healthy" => \E reply \in ProbeReplies : reply.response.status = 405)
    /\ [][probe = "waiting" /\ probe' = "unhealthy" =>
              \/ now >= asked + Deadline \/ ~up
              \/ \E reply \in ProbeReplies : reply.life = 0]_vars
    /\ probe = "waiting" ~> probe \in {"healthy", "unhealthy"}
=============================================================================
