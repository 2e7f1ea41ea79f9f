------------------------------ MODULE Listener ------------------------------
(***************************************************************************)
(* internal/sip/sip.go: the UDP listener.  Serve reads datagrams and runs  *)
(* handleDatagram in a goroutine for each; the goroutines share the        *)
(* deduplication cache, the socket and the observer.  The network may      *)
(* lose, copy and reorder datagrams as it likes, so any datagram of        *)
(* Traffic may be read at any time.                                        *)
(*                                                                         *)
(* Parsing and validation are summed up in the kind of a datagram; a       *)
(* response is the report it was built for.                                *)
(***************************************************************************)
EXTENDS Integers, Sequences, FiniteSets

CONSTANTS
    Goroutines,     \* handleDatagram calls that may run at once
    Keys,           \* Call-ID/CSeq pairs
    Traffic,        \* the datagrams the network may bring
    Window,         \* Config.DedupeWindow, in ticks
    MaxTime,        \* bound on the clock
    MaxDatagrams    \* bound on the datagrams read

\* What parseRequest and validatePublish make of a datagram.
Kinds == {"malformed", "rejected", "accepted"}

Datagram == [kind : Kinds, key : Keys]

ASSUME TrafficAssumption == Traffic \subseteq Datagram
ASSUME KeysAssumption == IsFiniteSet(Keys)          \* a header fits a datagram
ASSUME WindowAssumption == Window \in Nat \ {0}     \* New replaces 0, refuses < 0
ASSUME BoundsAssumption == MaxTime \in Nat /\ MaxDatagrams \in Nat

VARIABLES
    now,        \* time.Now()
    serving,    \* Serve has not returned and the socket is open
    received,   \* datagrams read so far
    pc,         \* where each goroutine is in handleDatagram
    datagram,   \* its datagram
    answer,     \* what responseFor returned to it
    seen,       \* the cache: key -> [token, expires]
    gauge,      \* sum of the RecordDedupeCacheChange calls
    observed,   \* calls of the other Observer methods, by event
    reports     \* every report that was not a duplicate, in order

vars == <<now, serving, received, pc, datagram, answer, seen,
          gauge, observed, reports>>

Labels == {"idle", "parse", "refuse", "recordRefusal", "lookup",
           "recordChange", "respond", "recordOK", "settle"}
AfterLookup == {"recordChange", "respond", "recordOK", "settle"}
Events == {"malformed", "rejected", "accepted", "refusal", "200", "duplicate"}

NoDatagram == [kind |-> "none"]
NoAnswer == [token |-> 0]

\* token names the cached response: the report whose first copy built it.
Answer == [token : Nat, duplicate : BOOLEAN, delta : Int]
Entry == [token : Nat, expires : Nat]
Report == [key : Keys, at : Nat, handled : Nat, replays : Nat]

Init ==
    /\ now = 0
    /\ serving = TRUE
    /\ received = 0
    /\ pc = [g \in Goroutines |-> "idle"]
    /\ datagram = [g \in Goroutines |-> NoDatagram]
    /\ answer = [g \in Goroutines |-> NoAnswer]
    /\ seen = [k \in {} |-> NoAnswer]
    /\ gauge = 0
    /\ observed = [e \in Events |-> 0]
    /\ reports = <<>>

-----------------------------------------------------------------------------
(* Serve *)

Receive(g, d) ==
    /\ serving
    /\ received < MaxDatagrams
    /\ pc[g] = "idle"
    /\ received' = received + 1
    /\ pc' = [pc EXCEPT ![g] = "parse"]
    /\ datagram' = [datagram EXCEPT ![g] = d]
    /\ UNCHANGED <<now, serving, answer, seen, gauge, observed, reports>>

Observe(e) == observed' = [observed EXCEPT ![e] = @ + 1]

\* A datagram that fills the buffer may be cut off and is never parsed.
ReceiveTruncated ==
    /\ serving
    /\ received < MaxDatagrams
    /\ received' = received + 1
    /\ Observe("malformed")
    /\ UNCHANGED <<now, serving, pc, datagram, answer, seen, gauge, reports>>

\* Serve returns (why and when: module ServeLoop) and ListenAndServe closes the
\* socket; the goroutines are not waited for.
Return ==
    /\ serving
    /\ serving' = FALSE
    /\ UNCHANGED <<now, received, pc, datagram, answer, seen, gauge, observed, reports>>

-----------------------------------------------------------------------------
(* handleDatagram *)

Goto(g, l) == pc' = [pc EXCEPT ![g] = l]

\* The goroutine returns.
Done(g) ==
    /\ Goto(g, "idle")
    /\ datagram' = [datagram EXCEPT ![g] = NoDatagram]
    /\ answer' = [answer EXCEPT ![g] = NoAnswer]

RecordMalformed(g) ==
    /\ pc[g] = "parse"
    /\ datagram[g].kind = "malformed"
    /\ Observe("malformed")
    /\ Done(g)
    /\ UNCHANGED <<now, serving, received, seen, gauge, reports>>

RecordRejected(g) ==
    /\ pc[g] = "parse"
    /\ datagram[g].kind = "rejected"
    /\ Observe("rejected")
    /\ Goto(g, "refuse")
    /\ UNCHANGED <<now, serving, received, datagram, answer, seen, gauge, reports>>

\* WriteTo may fail, and does once the socket is closed.
Refuse(g) ==
    /\ pc[g] = "refuse"
    /\ \/ serving /\ Goto(g, "recordRefusal") /\ UNCHANGED <<datagram, answer>>
       \/ Done(g)
    /\ UNCHANGED <<now, serving, received, seen, gauge, observed, reports>>

RecordRefusal(g) ==
    /\ pc[g] = "recordRefusal"
    /\ Observe("refusal")
    /\ Done(g)
    /\ UNCHANGED <<now, serving, received, seen, gauge, reports>>

\* The answer is sent before it is looked up.
BadRecordAccepted(g) ==
    /\ pc[g] = "parse"
    /\ datagram[g].kind = "accepted"
    /\ Observe("accepted")
    /\ Goto(g, "respond")
    /\ UNCHANGED <<now, serving, received, datagram, answer, seen, gauge, reports>>

RecordAccepted(g) ==
    /\ pc[g] = "parse"
    /\ datagram[g].kind = "accepted"
    /\ Observe("accepted")
    /\ Goto(g, "lookup")
    /\ UNCHANGED <<now, serving, received, datagram, answer, seen, gauge, reports>>

-----------------------------------------------------------------------------
(* responseFor: one critical section, its clock read inside it *)

\* (Variants named Bad... are wrong on purpose: each stands for a plausible
\* mistake in the definition that follows it.)

\* An entry whose time has come is kept for one more instant.
BadLive == {k \in DOMAIN seen : seen[k].expires >= now}

\* Entries the purge leaves: those that expire after now.
Live == {k \in DOMAIN seen : seen[k].expires > now}

\* Evicted entries are not counted.
BadExpired == 0

Expired == Cardinality(DOMAIN seen) - Cardinality(Live)

Purged == [k \in Live |-> seen[k]]

\* The window is one tick short.
BadFresh(token) == [token |-> token, expires |-> now + Window - 1]

\* The entry of a new report.
Fresh(token) == [token |-> token, expires |-> now + Window]

\* The observer is called with the change of the cache's size, if it changed.
Answered(g, a) ==
    /\ answer' = [answer EXCEPT ![g] = a]
    /\ Goto(g, IF a.delta = 0 THEN "respond" ELSE "recordChange")

\* A hit renews the entry it finds.
BadHit(g) ==
    LET k == datagram[g].key IN
    /\ pc[g] = "lookup"
    /\ k \in Live
    /\ seen' = [Purged EXCEPT ![k].expires = now + Window]
    /\ reports' = [reports EXCEPT ![seen[k].token].replays = @ + 1]
    /\ Answered(g, [token |-> seen[k].token, duplicate |-> TRUE, delta |-> -Expired])
    /\ UNCHANGED <<now, serving, received, datagram, gauge, observed>>

\* A hit forgets to say that the answer is a duplicate.
BadHitFlag(g) ==
    LET k == datagram[g].key IN
    /\ pc[g] = "lookup"
    /\ k \in Live
    /\ seen' = Purged
    /\ reports' = [reports EXCEPT ![seen[k].token].replays = @ + 1]
    /\ Answered(g, [token |-> seen[k].token, duplicate |-> FALSE, delta |-> -Expired])
    /\ UNCHANGED <<now, serving, received, datagram, gauge, observed>>

Hit(g) ==
    LET k == datagram[g].key IN
    /\ pc[g] = "lookup"
    /\ k \in Live
    /\ seen' = Purged
    /\ reports' = [reports EXCEPT ![seen[k].token].replays = @ + 1]
    /\ Answered(g, [token |-> seen[k].token, duplicate |-> TRUE, delta |-> -Expired])
    /\ UNCHANGED <<now, serving, received, datagram, gauge, observed>>

Miss(g) ==
    LET k == datagram[g].key
        t == Len(reports) + 1
    IN
    /\ pc[g] = "lookup"
    /\ k \notin Live
    /\ seen' = [q \in Live \cup {k} |-> IF q = k THEN Fresh(t) ELSE seen[q]]
    /\ reports' = Append(reports, [key |-> k, at |-> now, handled |-> 0, replays |-> 0])
    /\ Answered(g, [token |-> t, duplicate |-> FALSE, delta |-> 1 - Expired])
    /\ UNCHANGED <<now, serving, received, datagram, gauge, observed>>

ResponseFor(g) == Hit(g) \/ Miss(g)

-----------------------------------------------------------------------------
(* handleDatagram, with the answer *)

RecordChange(g) ==
    /\ pc[g] = "recordChange"
    /\ gauge' = gauge + answer[g].delta
    /\ Goto(g, "respond")
    /\ UNCHANGED <<now, serving, received, datagram, answer, seen, observed, reports>>

\* A failed write ends the goroutine.
BadRespond(g) ==
    /\ pc[g] = "respond"
    /\ \/ serving /\ Goto(g, "recordOK") /\ UNCHANGED <<datagram, answer>>
       \/ Done(g)
    /\ UNCHANGED <<now, serving, received, seen, gauge, observed, reports>>

\* A failed write of the answer does not stop the delivery of the report.
Respond(g) ==
    /\ pc[g] = "respond"
    /\ \/ serving /\ Goto(g, "recordOK")
       \/ Goto(g, "settle")
    /\ UNCHANGED <<now, serving, received, datagram, answer, seen, gauge,
                   observed, reports>>

RecordOK(g) ==
    /\ pc[g] = "recordOK"
    /\ Observe("200")
    /\ Goto(g, "settle")
    /\ UNCHANGED <<now, serving, received, datagram, answer, seen, gauge, reports>>

\* The branch on duplicate is lost: every goroutine calls the handler.
BadCallHandler(g) ==
    /\ pc[g] = "settle"
    /\ reports' = [reports EXCEPT ![answer[g].token].handled = @ + 1]
    /\ Done(g)
    /\ UNCHANGED <<now, serving, received, seen, gauge, observed>>

RecordDuplicate(g) ==
    /\ pc[g] = "settle"
    /\ answer[g].duplicate
    /\ Observe("duplicate")
    /\ Done(g)
    /\ UNCHANGED <<now, serving, received, seen, gauge, reports>>

CallHandler(g) ==
    /\ pc[g] = "settle"
    /\ ~answer[g].duplicate
    /\ reports' = [reports EXCEPT ![answer[g].token].handled = @ + 1]
    /\ Done(g)
    /\ UNCHANGED <<now, serving, received, seen, gauge, observed>>

-----------------------------------------------------------------------------
(* The clock *)

Tick ==
    /\ now < MaxTime
    /\ now' = now + 1
    /\ UNCHANGED <<serving, received, pc, datagram, answer, seen, gauge,
                   observed, reports>>

HandleDatagram(g) ==
    \/ RecordMalformed(g)
    \/ RecordRejected(g)
    \/ Refuse(g)
    \/ RecordRefusal(g)
    \/ RecordAccepted(g)
    \/ ResponseFor(g)
    \/ RecordChange(g)
    \/ Respond(g)
    \/ RecordOK(g)
    \/ RecordDuplicate(g)
    \/ CallHandler(g)

Next ==
    \/ \E g \in Goroutines, d \in Traffic : Receive(g, d)
    \/ ReceiveTruncated
    \/ Return
    \/ \E g \in Goroutines : HandleDatagram(g)
    \/ Tick

Spec == Init /\ [][Next]_vars

\* The Go scheduler runs every goroutine, no call of handleDatagram blocks for
\* ever (a UDP write, a mutex held for one lookup, counters), and the process
\* stays up: what shutdown cuts off is a matter of module Collector.
FairSpec == Spec /\ \A g \in Goroutines : WF_vars(HandleDatagram(g))
-----------------------------------------------------------------------------
(* Properties *)

\* Every variable has its type; a goroutine's locals have theirs from the step
\* that assigns them to its return.
TypeOK ==
    /\ now \in Nat
    /\ serving \in BOOLEAN
    /\ received \in Nat
    /\ pc \in [Goroutines -> Labels]
    /\ datagram \in [Goroutines -> Datagram \cup {NoDatagram}]
    /\ answer \in [Goroutines -> Answer \cup {NoAnswer}]
    /\ \A g \in Goroutines :
          /\ pc[g] # "idle" => datagram[g] \in Datagram
          /\ pc[g] \in AfterLookup => answer[g] \in Answer
    /\ DOMAIN seen \subseteq Keys
    /\ \A k \in DOMAIN seen : seen[k] \in Entry
    /\ gauge \in Int
    /\ observed \in [Events -> Nat]
    /\ reports \in Seq(Report)

\* The promise of type Publish (sip.go:22): however copies of a report race
\* through the listener, the handler gets it at most once, and a second report
\* with its Call-ID and CSeq is admitted only a whole window later.
OncePerWindow ==
    /\ \A t \in 1..Len(reports) : reports[t].handled <= 1
    /\ \A s, t \in 1..Len(reports) :
          s < t /\ reports[s].key = reports[t].key
             => reports[t].at >= reports[s].at + Window

\* The cache knows exactly the reports younger than the window: responseFor,
\* which sees only its map, decides as if it had the whole history.
CacheIsHistory ==
    /\ \A k \in Live :
          LET t == seen[k].token IN
          /\ t \in 1..Len(reports)
          /\ reports[t].key = k
          /\ now < reports[t].at + Window
    /\ \A t \in 1..Len(reports) :
          now < reports[t].at + Window
             => /\ reports[t].key \in Live
                /\ seen[reports[t].key].token = t

\* A live entry is neither dropped nor renewed, by a hit or by the purge that
\* the lookup of any other key makes: the window of a report does not slide.
LiveEntriesStay ==
    [][\A k \in Live : k \in DOMAIN seen' /\ seen'[k] = seen[k]]_vars

\* The answers in flight repeat the right report: the token a goroutine holds
\* is a report of its own key, and the one goroutine whose answer is no
\* duplicate is the only one that may still call the handler for it.
AnswersMatch ==
    \A g \in Goroutines : pc[g] \in AfterLookup =>
        LET t == answer[g].token IN
        /\ t \in 1..Len(reports)
        /\ reports[t].key = datagram[g].key
        /\ ~answer[g].duplicate =>
              /\ reports[t].handled = 0
              /\ \A h \in Goroutines \ {g} :
                    pc[h] \in AfterLookup /\ ~answer[h].duplicate
                       => answer[h].token # t

\* The parts of the inductive invariant that the properties above need.
\* An entry belongs to the report that made it and expires a window after it.
CacheSound ==
    \A k \in DOMAIN seen :
        LET t == seen[k].token IN
        /\ t \in 1..Len(reports)
        /\ reports[t].key = k
        /\ seen[k].expires = reports[t].at + Window

\* A report younger than the window has its entry.
YoungCached ==
    \A t \in 1..Len(reports) :
        /\ reports[t].at <= now
        /\ now < reports[t].at + Window
              => /\ reports[t].key \in DOMAIN seen
                 /\ seen[reports[t].key].token = t

\* What responseFor relies on from one lookup to the next, and what makes
\* OncePerWindow, CacheIsHistory and AnswersMatch hold: it is inductive.
IInv ==
    /\ TypeOK
    /\ CacheSound
    /\ YoungCached
    /\ OncePerWindow
    /\ AnswersMatch

\* The cache usage counter, whose changes are sent after the mutex is released
\* and may arrive in any order, is right whenever none is on its way.
UsageSettles ==
    (\A g \in Goroutines : pc[g] # "recordChange") => gauge = Cardinality(DOMAIN seen)

\* Once no goroutine is running, every datagram is in exactly one outcome
\* counter and every accepted one was either handled or counted as a duplicate.
NothingUncounted ==
    (\A g \in Goroutines : pc[g] = "idle") =>
        /\ received = observed["malformed"] + observed["rejected"] + observed["accepted"]
        /\ observed["accepted"] = Len(reports) + observed["duplicate"]
        /\ \A t \in 1..Len(reports) : reports[t].handled = 1

\* The listener does what ReportDelivery promises, and does deliver every
\* report it has answered.
Promise == INSTANCE ReportDelivery WITH clock <- now, MaxReports <- MaxDatagrams
Delivers == Promise!FairSpec
=============================================================================
