-------------------------- MODULE Listener_proofs --------------------------
(***************************************************************************)
(* Proofs about module Listener, for all values of its constants.          *)
(***************************************************************************)
EXTENDS Listener, SequenceTheorems, FiniteSetTheorems, TLAPS

\* What counting a replay, or a call of the handler, keeps of a report.
LEMMA CountedReport ==
    ASSUME NEW x \in Report
    PROVE  /\ [x EXCEPT !.replays = @ + 1] \in Report
           /\ [x EXCEPT !.handled = @ + 1] \in Report
  BY DEF Report

\* The history and its reports: what an update of one report keeps.
LEMMA Replayed ==
    ASSUME NEW s \in Seq(Report), NEW t \in 1..Len(s)
    PROVE  LET r == [s EXCEPT ![t].replays = @ + 1] IN
           /\ r \in Seq(Report)
           /\ Len(r) = Len(s)
           /\ \A i \in 1..Len(s) : /\ r[i].key = s[i].key
                                   /\ r[i].at = s[i].at
                                   /\ r[i].handled = s[i].handled
<1> DEFINE e == [s[t] EXCEPT !.replays = @ + 1]
<1>1. s[t] \in Report
  BY ElementOfSeq
<1>2. e \in Report
  BY <1>1, CountedReport
<1>3. [s EXCEPT ![t] = e] = [s EXCEPT ![t].replays = @ + 1]
  OBVIOUS
<1>4. /\ [s EXCEPT ![t] = e] \in Seq(Report)
      /\ Len([s EXCEPT ![t] = e]) = Len(s)
      /\ \A j \in 1..Len(s) : [s EXCEPT ![t] = e][j] = IF j = t THEN e ELSE s[j]
  BY <1>2, ExceptSeq
<1>5. /\ e.key = s[t].key
      /\ e.at = s[t].at /\ e.handled = s[t].handled
  BY <1>1 DEF Report
<1> QED
  BY <1>3, <1>4, <1>5

LEMMA Handed ==
    ASSUME NEW s \in Seq(Report), NEW t \in 1..Len(s)
    PROVE  LET r == [s EXCEPT ![t].handled = @ + 1] IN
           /\ r \in Seq(Report)
           /\ Len(r) = Len(s)
           /\ \A i \in 1..Len(s) :
                 /\ r[i].key = s[i].key
                 /\ r[i].at = s[i].at
                 /\ r[i].handled = IF i = t THEN s[i].handled + 1 ELSE s[i].handled
<1> DEFINE e == [s[t] EXCEPT !.handled = @ + 1]
<1>1. s[t] \in Report
  BY ElementOfSeq
<1>2. e \in Report
  BY <1>1, CountedReport
<1>3. [s EXCEPT ![t] = e] = [s EXCEPT ![t].handled = @ + 1]
  OBVIOUS
<1>4. /\ [s EXCEPT ![t] = e] \in Seq(Report)
      /\ Len([s EXCEPT ![t] = e]) = Len(s)
      /\ \A j \in 1..Len(s) : [s EXCEPT ![t] = e][j] = IF j = t THEN e ELSE s[j]
  BY <1>2, ExceptSeq
<1>5. /\ e.key = s[t].key /\ e.at = s[t].at /\ e.handled = s[t].handled + 1
  BY <1>1 DEF Report
<1> QED
  BY <1>3, <1>4, <1>5

LEMMA Appended ==
    ASSUME NEW s \in Seq(Report), NEW e \in Report
    PROVE  /\ Append(s, e) \in Seq(Report)
           /\ Len(Append(s, e)) = Len(s) + 1
           /\ Append(s, e)[Len(s) + 1] = e
           /\ \A i \in 1..Len(s) : Append(s, e)[i] = s[i]
  OBVIOUS

\* The size the observer is told of is an integer: the cache is finite.
LEMMA DeltaType ==
    ASSUME TypeOK
    PROVE  Expired \in Int
<1>1. IsFiniteSet(DOMAIN seen) /\ IsFiniteSet(Live)
  BY KeysAssumption, FS_Subset DEF TypeOK, Live
<1>2. Cardinality(DOMAIN seen) \in Nat /\ Cardinality(Live) \in Nat
  BY <1>1, FS_CardinalityType
<1> QED
  BY <1>2 DEF Expired

LEMMA InitIInv == Init => IInv
<1> SUFFICES ASSUME Init PROVE IInv
  OBVIOUS
<1>1. TypeOK
  BY DEF Init, TypeOK, Labels, AfterLookup, Events
<1>2. CacheSound /\ YoungCached /\ OncePerWindow
  BY DEF Init, CacheSound, YoungCached, OncePerWindow
<1>3. AnswersMatch
  BY DEF Init, AnswersMatch, AfterLookup
<1> QED
  BY <1>1, <1>2, <1>3 DEF IInv

-----------------------------------------------------------------------------
(* Steps that leave the cache and the history alone *)

LEMMA ReportType ==
    ASSUME TypeOK, NEW t \in 1..Len(reports)
    PROVE  /\ reports[t] \in Report
           /\ reports[t].key \in Keys
           /\ reports[t].at \in Nat
           /\ reports[t].handled \in Nat
<1>1. reports[t] \in Report
  BY ElementOfSeq DEF TypeOK
<1> QED
  BY <1>1 DEF Report

LEMMA HistoryUntouched ==
    ASSUME TypeOK, CacheSound, YoungCached, OncePerWindow,
           seen' = seen, reports' = reports, now' \in Nat, now <= now'
    PROVE  CacheSound' /\ YoungCached' /\ OncePerWindow'
<1>1. \A t \in 1..Len(reports) : reports[t].at \in Nat
  BY ReportType
<1>2. CacheSound'
  BY DEF CacheSound
<1>3. YoungCached'
  <2> SUFFICES ASSUME NEW t \in 1..Len(reports)
               PROVE  /\ reports[t].at <= now'
                      /\ now' < reports[t].at + Window
                            => /\ reports[t].key \in DOMAIN seen
                               /\ seen[reports[t].key].token = t
    BY DEF YoungCached
  <2>1. reports[t].at \in Nat /\ now \in Nat /\ Window \in Nat
    BY <1>1, WindowAssumption DEF TypeOK
  <2> QED
    BY <2>1 DEF YoungCached
<1>4. OncePerWindow'
  BY DEF OncePerWindow
<1> QED
  BY <1>2, <1>3, <1>4

\* A goroutine that holds an answer afterwards held the same one before.
LEMMA AnswersUntouched ==
    ASSUME AnswersMatch, reports' = reports,
           \A g \in Goroutines : pc'[g] \in AfterLookup =>
              /\ pc[g] \in AfterLookup
              /\ answer'[g] = answer[g]
              /\ datagram'[g] = datagram[g]
    PROVE  AnswersMatch'
  BY DEF AnswersMatch

LEMMA ObserveType ==
    ASSUME observed \in [Events -> Nat], NEW e \in Events, Observe(e)
    PROVE  observed' \in [Events -> Nat]
  BY DEF Observe

\* A goroutine's locals keep their types when it returns.
LEMMA DoneType ==
    ASSUME TypeOK, NEW g \in Goroutines, Done(g)
    PROVE  /\ pc' \in [Goroutines -> Labels]
           /\ datagram' \in [Goroutines -> Datagram \cup {NoDatagram}]
           /\ answer' \in [Goroutines -> Answer \cup {NoAnswer}]
           /\ \A h \in Goroutines :
                 /\ pc'[h] # "idle" => datagram'[h] \in Datagram
                 /\ pc'[h] \in AfterLookup => answer'[h] \in Answer
  BY DEF TypeOK, Done, Goto, Labels, AfterLookup

\* Every step but Hit, Miss and CallHandler is of this kind.
LEMMA QuietStep ==
    ASSUME IInv,
           \/ \E g \in Goroutines, d \in Traffic : Receive(g, d)
           \/ ReceiveTruncated
           \/ Return
           \/ \E g \in Goroutines :
                \/ RecordMalformed(g)
                \/ RecordRejected(g)
                \/ Refuse(g)
                \/ RecordRefusal(g)
                \/ RecordAccepted(g)
                \/ RecordChange(g)
                \/ Respond(g)
                \/ RecordOK(g)
                \/ RecordDuplicate(g)
           \/ Tick
           \/ UNCHANGED vars
    PROVE  IInv'
<1> USE DEF IInv
<1>1. /\ seen' = seen /\ reports' = reports
      /\ now' \in Nat /\ now <= now'
  BY DEF TypeOK, Receive, ReceiveTruncated, Return, RecordMalformed, RecordRejected,
         Refuse, RecordRefusal, RecordAccepted, RecordChange, Respond, RecordOK,
         RecordDuplicate, Tick, vars
<1>2. CacheSound' /\ YoungCached' /\ OncePerWindow'
  BY <1>1, HistoryUntouched
<1> DEFINE Kept == \A g \in Goroutines : pc'[g] \in AfterLookup =>
                      /\ pc[g] \in AfterLookup
                      /\ answer'[g] = answer[g]
                      /\ datagram'[g] = datagram[g]
<1>3. Kept
  <2> USE DEF TypeOK, AfterLookup, Done, Goto
  <2>1. CASE \E g \in Goroutines, d \in Traffic : Receive(g, d)
    BY <2>1 DEF Receive
  <2>2. CASE ReceiveTruncated \/ Return \/ Tick \/ UNCHANGED vars
    BY <2>2 DEF ReceiveTruncated, Return, Tick, vars
  <2>3. ASSUME NEW g \in Goroutines,
               \/ RecordMalformed(g) \/ RecordRejected(g) \/ Refuse(g)
               \/ RecordRefusal(g) \/ RecordAccepted(g)
        PROVE  Kept
    BY <2>3 DEF RecordMalformed, RecordRejected, Refuse, RecordRefusal, RecordAccepted
  <2>4. ASSUME NEW g \in Goroutines,
               RecordChange(g) \/ Respond(g) \/ RecordOK(g) \/ RecordDuplicate(g)
        PROVE  Kept
    BY <2>4 DEF RecordChange, Respond, RecordOK, RecordDuplicate
  <2> HIDE DEF Kept
  <2> QED
    BY <2>1, <2>2, <2>3, <2>4
<1>4. AnswersMatch'
  BY <1>1, <1>3, AnswersUntouched
<1>5. TypeOK'
  <2> USE DEF TypeOK, Labels, AfterLookup, Events
  <2>1. ASSUME NEW g \in Goroutines, NEW d \in Traffic, Receive(g, d)
        PROVE  TypeOK'
    <3>1. d \in Datagram
      BY TrafficAssumption
    <3>2. UNCHANGED <<now, serving, answer, seen, gauge, observed, reports>>
      BY <2>1 DEF Receive
    <3> QED
      BY <2>1, <3>1, <3>2 DEF Receive
  <2>2. CASE ReceiveTruncated
    <3>1. observed' \in [Events -> Nat]
      BY <2>2, ObserveType DEF ReceiveTruncated
    <3> QED
      BY <2>2, <3>1 DEF ReceiveTruncated
  <2>3. CASE Return \/ Tick \/ UNCHANGED vars
    BY <2>3, <1>1 DEF Return, Tick, vars
  <2>4. ASSUME NEW g \in Goroutines,
               RecordMalformed(g) \/ RecordRefusal(g) \/ RecordDuplicate(g)
        PROVE  TypeOK'
    <3>1. Done(g)
      BY <2>4 DEF RecordMalformed, RecordRefusal, RecordDuplicate
    <3>2. observed' \in [Events -> Nat]
      BY <2>4, ObserveType DEF RecordMalformed, RecordRefusal, RecordDuplicate
    <3> HIDE DEF Labels, AfterLookup, Events
    <3> QED
      BY <2>4, <3>1, <3>2, DoneType DEF RecordMalformed, RecordRefusal, RecordDuplicate
  <2>5. ASSUME NEW g \in Goroutines,
               RecordRejected(g) \/ RecordAccepted(g) \/ RecordOK(g)
        PROVE  TypeOK'
    <3>1. observed' \in [Events -> Nat]
      BY <2>5, ObserveType DEF RecordRejected, RecordAccepted, RecordOK
    <3> QED
      BY <2>5, <3>1 DEF RecordRejected, RecordAccepted, RecordOK, Goto
  <2>6. ASSUME NEW g \in Goroutines, Refuse(g)
        PROVE  TypeOK'
    <3>1. CASE Done(g)
      BY <2>6, <3>1, DoneType DEF Refuse
    <3>2. CASE Goto(g, "recordRefusal") /\ UNCHANGED <<datagram, answer>>
      BY <2>6, <3>2 DEF Refuse, Goto
    <3> QED
      BY <2>6, <3>1, <3>2 DEF Refuse
  <2>7. ASSUME NEW g \in Goroutines, RecordChange(g)
        PROVE  TypeOK'
    BY <2>7 DEF RecordChange, Goto, Answer
  <2>8. ASSUME NEW g \in Goroutines, Respond(g)
        PROVE  TypeOK'
    BY <2>8 DEF Respond, Goto
  <2> HIDE DEF TypeOK
  <2> QED
    BY <2>1, <2>2, <2>3, <2>4, <2>5, <2>6, <2>7, <2>8
<1> QED
  BY <1>2, <1>4, <1>5

-----------------------------------------------------------------------------
(* The lookup *)

LEMMA AnsweredType ==
    ASSUME TypeOK, NEW g \in Goroutines, NEW a \in Answer, Answered(g, a),
           pc[g] = "lookup", datagram' = datagram
    PROVE  /\ pc' \in [Goroutines -> Labels]
           /\ datagram' \in [Goroutines -> Datagram \cup {NoDatagram}]
           /\ answer' \in [Goroutines -> Answer \cup {NoAnswer}]
           /\ \A h \in Goroutines :
                 /\ pc'[h] # "idle" => datagram'[h] \in Datagram
                 /\ pc'[h] \in AfterLookup => answer'[h] \in Answer
           /\ pc'[g] \in AfterLookup /\ answer'[g] = a
           /\ \A h \in Goroutines \ {g} : pc'[h] = pc[h] /\ answer'[h] = answer[h]
  BY DEF TypeOK, Answered, Goto, Labels, AfterLookup

\* The purge drops no entry of a report younger than the window.
LEMMA YoungLive ==
    ASSUME TypeOK, CacheSound, YoungCached, NEW t \in 1..Len(reports),
           now < reports[t].at + Window
    PROVE  /\ reports[t].key \in Live
           /\ seen[reports[t].key].token = t
  BY DEF YoungCached, CacheSound, Live

\* And keeps none of an older report.
LEMMA LiveYoung ==
    ASSUME TypeOK, CacheSound, NEW k \in Live
    PROVE  /\ k \in DOMAIN seen /\ k \in Keys
           /\ seen[k] \in Entry
           /\ seen[k].token \in 1..Len(reports)
           /\ reports[seen[k].token].key = k
           /\ now < reports[seen[k].token].at + Window
           /\ seen[k].expires = reports[seen[k].token].at + Window
<1>1. k \in DOMAIN seen /\ k \in Keys /\ seen[k] \in Entry
  BY DEF TypeOK, Live
<1>2. seen[k].expires > now
  BY DEF Live
<1>3. /\ seen[k].token \in 1..Len(reports)
      /\ reports[seen[k].token].key = k
      /\ seen[k].expires = reports[seen[k].token].at + Window
  BY <1>1 DEF CacheSound
<1>4. /\ reports[seen[k].token].at \in Nat /\ Window \in Nat /\ now \in Nat
  BY <1>3, ReportType, WindowAssumption DEF TypeOK
<1> QED
  BY <1>1, <1>2, <1>3, <1>4

LEMMA HitStep ==
    ASSUME IInv, NEW g \in Goroutines, Hit(g)
    PROVE  IInv'
<1> DEFINE k == datagram[g].key
           t == seen[k].token
           a == [token |-> t, duplicate |-> TRUE, delta |-> -Expired]
<1> USE DEF IInv
<1>1. /\ pc[g] = "lookup" /\ k \in Live
      /\ seen' = Purged
      /\ reports' = [reports EXCEPT ![t].replays = @ + 1]
      /\ Answered(g, a)
      /\ UNCHANGED <<now, serving, received, datagram, gauge, observed>>
  BY DEF Hit
<1>2. t \in 1..Len(reports) /\ reports[t].key = k /\ t \in Nat
  <2>1. k \in Live
    BY <1>1
  <2> HIDE DEF k
  <2>2. t \in 1..Len(reports) /\ reports[t].key = k
    BY <2>1, LiveYoung
  <2> HIDE DEF t
  <2> QED
    BY <2>2
<1>3. reports \in Seq(Report)
  BY DEF TypeOK
<1>4. /\ reports' \in Seq(Report)
      /\ Len(reports') = Len(reports)
      /\ \A i \in 1..Len(reports) : /\ reports'[i].key = reports[i].key
                                    /\ reports'[i].at = reports[i].at
                                    /\ reports'[i].handled = reports[i].handled
  <2>1. reports' = [reports EXCEPT ![t].replays = @ + 1] /\ t \in 1..Len(reports)
    BY <1>1, <1>2
  <2> HIDE DEF k, t, a
  <2> QED
    BY <1>3, <2>1, Replayed
<1>5. /\ DOMAIN seen' = Live
      /\ \A q \in Live : seen'[q] = seen[q]
  BY <1>1 DEF Purged
<1>6. a \in Answer
  BY <1>2, DeltaType DEF Answer
<1>7. TypeOK'
  <2>1. DOMAIN seen' \subseteq Keys /\ \A q \in DOMAIN seen' : seen'[q] \in Entry
    BY <1>5, LiveYoung
  <2> QED
    BY <1>1, <1>4, <1>6, <2>1, AnsweredType DEF TypeOK
<1>8. CacheSound'
  BY <1>4, <1>5, LiveYoung DEF CacheSound
<1>9. YoungCached'
  <2> SUFFICES ASSUME NEW i \in 1..Len(reports)
               PROVE  /\ reports'[i].at <= now
                      /\ now < reports'[i].at + Window
                            => /\ reports'[i].key \in DOMAIN seen'
                               /\ seen'[reports'[i].key].token = i
    BY <1>1, <1>4 DEF YoungCached
  <2>1. /\ reports[i].at <= now
        /\ reports'[i].at = reports[i].at /\ reports'[i].key = reports[i].key
    BY <1>4 DEF YoungCached
  <2> QED
    BY <2>1, <1>5, YoungLive
<1>10. OncePerWindow'
  BY <1>4 DEF OncePerWindow
<1>11. AnswersMatch'
  <2>1. /\ answer'[g] = a /\ datagram' = datagram
        /\ \A h \in Goroutines \ {g} : pc'[h] = pc[h] /\ answer'[h] = answer[h]
    BY <1>1, <1>6, AnsweredType
  <2> QED
    BY <1>2, <1>4, <2>1 DEF AnswersMatch
<1> QED
  BY <1>7, <1>8, <1>9, <1>10, <1>11

LEMMA MissStep ==
    ASSUME IInv, NEW g \in Goroutines, Miss(g)
    PROVE  IInv'
<1> DEFINE k == datagram[g].key
           t == Len(reports) + 1
           a == [token |-> t, duplicate |-> FALSE, delta |-> 1 - Expired]
           e == [key |-> k, at |-> now, handled |-> 0, replays |-> 0]
<1> USE DEF IInv
<1>1. /\ pc[g] = "lookup" /\ k \notin Live
      /\ seen' = [q \in Live \cup {k} |-> IF q = k THEN Fresh(t) ELSE seen[q]]
      /\ reports' = Append(reports, e)
      /\ Answered(g, a)
      /\ UNCHANGED <<now, serving, received, datagram, gauge, observed>>
  BY DEF Miss
<1>2. /\ reports \in Seq(Report) /\ Len(reports) \in Nat /\ now \in Nat
      /\ Window \in Nat /\ Window > 0 /\ now + Window \in Nat /\ k \in Keys
  BY <1>1, WindowAssumption DEF TypeOK, Datagram
<1>3. e \in Report
  BY <1>2 DEF Report
<1>4. /\ reports' \in Seq(Report)
      /\ Len(reports') = t
      /\ reports'[t] = e
      /\ \A i \in 1..Len(reports) : reports'[i] = reports[i]
  BY <1>1, <1>2, <1>3, Appended
<1>5. /\ DOMAIN seen' = Live \cup {k}
      /\ seen'[k].token = t /\ seen'[k].expires = now + Window
      /\ seen'[k] \in Entry
      /\ \A q \in Live : q # k /\ seen'[q] = seen[q]
  BY <1>1, <1>2 DEF Fresh, Entry
<1>6. a \in Answer
  BY <1>2, DeltaType DEF Answer
<1>7. TypeOK'
  <2>1. DOMAIN seen' \subseteq Keys /\ \A q \in DOMAIN seen' : seen'[q] \in Entry
    BY <1>2, <1>5, LiveYoung
  <2> QED
    BY <1>1, <1>4, <1>6, <2>1, AnsweredType DEF TypeOK
<1>8. CacheSound'
  <2> SUFFICES ASSUME NEW q \in DOMAIN seen'
               PROVE  /\ seen'[q].token \in 1..Len(reports')
                      /\ reports'[seen'[q].token].key = q
                      /\ seen'[q].expires = reports'[seen'[q].token].at + Window
    BY DEF CacheSound
  <2>1. CASE q = k
    BY <2>1, <1>2, <1>4, <1>5
  <2>2. CASE q \in Live
    BY <2>2, <1>2, <1>4, <1>5, LiveYoung
  <2> QED
    BY <1>5, <2>1, <2>2
<1>9. YoungCached'
  <2> SUFFICES ASSUME NEW i \in 1..t
               PROVE  /\ reports'[i].at <= now
                      /\ now < reports'[i].at + Window
                            => /\ reports'[i].key \in DOMAIN seen'
                               /\ seen'[reports'[i].key].token = i
    BY <1>1, <1>4 DEF YoungCached
  <2>1. CASE i = t
    BY <2>1, <1>2, <1>4, <1>5
  <2>2. CASE i \in 1..Len(reports)
    <3>1. reports'[i] = reports[i] /\ reports[i].at <= now
      BY <2>2, <1>4 DEF YoungCached
    <3> QED
      BY <2>2, <3>1, <1>5, YoungLive
  <2> QED
    BY <1>2, <2>1, <2>2
<1>10. OncePerWindow'
  <2>1. \A i \in 1..t : reports'[i].handled <= 1
    BY <1>2, <1>4 DEF OncePerWindow
  <2>2. ASSUME NEW i \in 1..t, NEW j \in 1..t, i < j, reports'[i].key = reports'[j].key
        PROVE  reports'[j].at >= reports'[i].at + Window
    <3>1. i \in 1..Len(reports) /\ reports'[i] = reports[i] /\ reports[i].at \in Nat
      BY <2>2, <1>2, <1>4, ReportType
    <3>2. CASE j = t
      <4>1. reports[i].key \notin Live
        BY <2>2, <3>1, <3>2, <1>1, <1>4
      <4> QED
        BY <3>1, <3>2, <4>1, <1>2, <1>4, YoungLive
    <3>3. CASE j \in 1..Len(reports)
      BY <2>2, <3>1, <3>3, <1>4 DEF OncePerWindow
    <3> QED
      BY <1>2, <3>2, <3>3
  <2> QED
    BY <2>1, <2>2, <1>4 DEF OncePerWindow
<1>11. AnswersMatch'
  <2>1. /\ answer'[g] = a /\ datagram' = datagram
        /\ \A h \in Goroutines \ {g} : pc'[h] = pc[h] /\ answer'[h] = answer[h]
    BY <1>1, <1>6, AnsweredType
  <2>2. \A h \in Goroutines \ {g} : pc'[h] \in AfterLookup =>
           /\ answer'[h].token \in 1..Len(reports)
           /\ answer'[h].token # t
    BY <1>2, <2>1 DEF AnswersMatch
  <2> SUFFICES ASSUME NEW h \in Goroutines, pc'[h] \in AfterLookup
               PROVE  LET u == answer'[h].token IN
                      /\ u \in 1..Len(reports')
                      /\ reports'[u].key = datagram'[h].key
                      /\ ~answer'[h].duplicate =>
                            /\ reports'[u].handled = 0
                            /\ \A f \in Goroutines \ {h} :
                                  pc'[f] \in AfterLookup /\ ~answer'[f].duplicate
                                     => answer'[f].token # u
    BY DEF AnswersMatch
  <2>3. CASE h = g
    BY <1>2, <1>4, <2>1, <2>2, <2>3
  <2>4. CASE h # g
    <3>1. pc[h] \in AfterLookup /\ answer'[h] = answer[h]
      BY <2>1, <2>4
    <3>2. /\ answer[h].token \in 1..Len(reports)
          /\ answer[h].token # t
          /\ reports[answer[h].token].key = datagram[h].key
      BY <2>2, <2>4, <3>1 DEF AnswersMatch
    <3>3. ASSUME ~answer[h].duplicate
          PROVE  /\ reports[answer[h].token].handled = 0
                 /\ \A f \in Goroutines \ {h, g} :
                       pc[f] \in AfterLookup /\ ~answer[f].duplicate
                          => answer[f].token # answer[h].token
      BY <3>1, <3>3 DEF AnswersMatch
    <3> QED
      BY <1>2, <1>4, <2>1, <3>1, <3>2, <3>3
  <2> QED
    BY <2>3, <2>4
<1> QED
  BY <1>7, <1>8, <1>9, <1>10, <1>11

-----------------------------------------------------------------------------
(* The delivery *)

LEMMA CallHandlerStep ==
    ASSUME IInv, NEW g \in Goroutines, CallHandler(g)
    PROVE  IInv'
<1> DEFINE t == answer[g].token
<1> USE DEF IInv
<1>1. /\ pc[g] = "settle" /\ ~answer[g].duplicate
      /\ reports' = [reports EXCEPT ![t].handled = @ + 1]
      /\ Done(g)
      /\ UNCHANGED <<now, serving, received, seen, gauge, observed>>
  BY DEF CallHandler
<1>2. pc[g] \in AfterLookup
  BY <1>1 DEF AfterLookup
<1>3. t \in 1..Len(reports) /\ reports[t].handled = 0
  BY <1>1, <1>2 DEF AnswersMatch
<1>4. /\ reports' \in Seq(Report)
      /\ Len(reports') = Len(reports)
      /\ \A i \in 1..Len(reports) :
            /\ reports'[i].key = reports[i].key
            /\ reports'[i].at = reports[i].at
            /\ reports'[i].handled = IF i = t THEN reports[i].handled + 1
                                              ELSE reports[i].handled
  <2>1. reports' = [reports EXCEPT ![t].handled = @ + 1] /\ t \in 1..Len(reports)
    BY <1>1, <1>3
  <2>2. reports \in Seq(Report)
    BY DEF TypeOK
  <2> HIDE DEF t
  <2> QED
    BY <2>1, <2>2, Handed
<1>5. TypeOK'
  BY <1>1, <1>4, DoneType DEF TypeOK
<1>6. CacheSound'
  BY <1>1, <1>4 DEF CacheSound
<1>7. YoungCached'
  BY <1>1, <1>4 DEF YoungCached
<1>8. OncePerWindow'
  <2>1. ASSUME NEW i \in 1..Len(reports')
        PROVE  reports'[i].handled <= 1
    <3>1. i \in 1..Len(reports) /\ reports[i].handled <= 1
      BY <1>4 DEF OncePerWindow
    <3>2. CASE i = t
      BY <1>3, <1>4, <3>1, <3>2
    <3>3. CASE i # t
      BY <1>4, <3>1, <3>3
    <3> QED
      BY <3>2, <3>3
  <2>2. ASSUME NEW i \in 1..Len(reports'), NEW j \in 1..Len(reports'),
               i < j, reports'[i].key = reports'[j].key
        PROVE  reports'[j].at >= reports'[i].at + Window
    <3>1. i \in 1..Len(reports) /\ j \in 1..Len(reports)
          /\ reports[i].key = reports[j].key
      BY <1>4, <2>2
    <3>2. reports[j].at >= reports[i].at + Window
      BY <2>2, <3>1 DEF OncePerWindow
    <3> QED
      BY <1>4, <3>1, <3>2
  <2> QED
    BY <2>1, <2>2 DEF OncePerWindow
<1>9. AnswersMatch'
  <2>1. \A h \in Goroutines : pc'[h] \in AfterLookup =>
           /\ h # g /\ pc[h] \in AfterLookup
           /\ answer'[h] = answer[h] /\ datagram'[h] = datagram[h]
    BY <1>1 DEF Done, Goto, TypeOK, AfterLookup
  <2>2. \A h \in Goroutines \ {g} :
           pc[h] \in AfterLookup /\ ~answer[h].duplicate => answer[h].token # t
    BY <1>1, <1>2 DEF AnswersMatch
  <2> SUFFICES ASSUME NEW h \in Goroutines, pc'[h] \in AfterLookup
               PROVE  LET u == answer'[h].token IN
                      /\ u \in 1..Len(reports')
                      /\ reports'[u].key = datagram'[h].key
                      /\ ~answer'[h].duplicate =>
                            /\ reports'[u].handled = 0
                            /\ \A f \in Goroutines \ {h} :
                                  pc'[f] \in AfterLookup /\ ~answer'[f].duplicate
                                     => answer'[f].token # u
    BY DEF AnswersMatch
  <2>3. answer[h].token \in 1..Len(reports)
        /\ reports[answer[h].token].key = datagram[h].key
    BY <2>1 DEF AnswersMatch
  <2>4. ASSUME ~answer[h].duplicate
        PROVE  /\ answer[h].token # t
               /\ reports[answer[h].token].handled = 0
               /\ \A f \in Goroutines \ {h} :
                     pc[f] \in AfterLookup /\ ~answer[f].duplicate
                        => answer[f].token # answer[h].token
    BY <2>1, <2>2, <2>4 DEF AnswersMatch
  <2> QED
    BY <1>4, <2>1, <2>3, <2>4
<1> QED
  BY <1>5, <1>6, <1>7, <1>8, <1>9

-----------------------------------------------------------------------------
(* The theorems *)

\* The invariant holds at every step of the listener.
THEOREM Invariance == Spec => []IInv
<1>1. IInv /\ [Next]_vars => IInv'
  <2> SUFFICES ASSUME IInv, [Next]_vars PROVE IInv'
    OBVIOUS
  <2>1. ASSUME NEW g \in Goroutines, ResponseFor(g) PROVE IInv'
    BY <2>1, HitStep, MissStep DEF ResponseFor
  <2>2. ASSUME NEW g \in Goroutines, CallHandler(g) PROVE IInv'
    BY <2>2, CallHandlerStep
  <2> QED
    BY <2>1, <2>2, QuietStep DEF Next, HandleDatagram
<1> QED
  BY <1>1, InitIInv, PTL DEF Spec

\* Type correctness of the listener's state and of its goroutines' locals.
THEOREM TypeCorrect == Spec => []TypeOK
  BY Invariance, PTL DEF IInv

\* The promise of sip.go:22, for any number of goroutines, keys and datagrams,
\* any window and any schedule: at most one delivery, one report per window.
THEOREM DeliveredOncePerWindow == Spec => []OncePerWindow
  BY Invariance, PTL DEF IInv

\* Every answer in flight belongs to its request's key and a report has at most
\* one goroutine that may still deliver it.
THEOREM AnswersStayMatched == Spec => []AnswersMatch
  BY Invariance, PTL DEF IInv

\* Looking a key up in the map is the same as searching the history for a
\* report younger than the window: no copy slips through, no new report is
\* swallowed by an old entry.
THEOREM CacheDecidesLikeHistory == Spec => []CacheIsHistory
<1>1. IInv => CacheIsHistory
  <2> SUFFICES ASSUME IInv PROVE CacheIsHistory
    OBVIOUS
  <2> QED
    BY LiveYoung, YoungLive DEF IInv, CacheIsHistory
<1> QED
  BY <1>1, Invariance, PTL

\* A step that is no lookup leaves the cache as it is.
LEMMA CacheUntouched ==
    ASSUME [Next]_vars, \A g \in Goroutines : ~ResponseFor(g)
    PROVE  seen' = seen
  BY DEF Next, vars, HandleDatagram, Receive, ReceiveTruncated, Return, Tick,
         RecordMalformed, RecordRejected, Refuse, RecordRefusal, RecordAccepted,
         RecordChange, Respond, RecordOK, RecordDuplicate, CallHandler

\* No step drops or renews an entry that is still live: the window is counted
\* from the first copy of a report, however many copies follow.
THEOREM WindowDoesNotSlide == Spec => LiveEntriesStay
<1> DEFINE Stay == \A k \in Live : k \in DOMAIN seen' /\ seen'[k] = seen[k]
<1>1. [Next]_vars => Stay
  <2> SUFFICES ASSUME [Next]_vars PROVE Stay
    OBVIOUS
  <2>1. ASSUME NEW g \in Goroutines, Hit(g) PROVE Stay
    BY <2>1 DEF Hit, Purged
  <2>2. ASSUME NEW g \in Goroutines, Miss(g) PROVE Stay
    BY <2>2 DEF Miss
  <2>3. CASE \A g \in Goroutines : ~ResponseFor(g)
    BY <2>3, CacheUntouched DEF Live
  <2> HIDE DEF Stay
  <2> QED
    BY <2>1, <2>2, <2>3 DEF ResponseFor
<1> QED
  BY <1>1, PTL DEF Spec, LiveEntriesStay

-----------------------------------------------------------------------------
(* The listener implements ReportDelivery *)

LEMMA HitAbsorbs ==
    ASSUME IInv, NEW g \in Goroutines, Hit(g)
    PROVE  Promise!Absorb(datagram[g].key)
<1> DEFINE k == datagram[g].key
           t == seen[k].token
<1>1. /\ t \in 1..Len(reports)
      /\ reports[t].key = k
      /\ now < reports[t].at + Window
  BY LiveYoung DEF IInv, Hit
<1>2. reports' = [reports EXCEPT ![t].replays = @ + 1] /\ now' = now
  BY DEF Hit
<1> QED
  BY <1>1, <1>2 DEF Promise!Absorb, Promise!Recent

LEMMA MissAdmits ==
    ASSUME IInv, NEW g \in Goroutines, Miss(g)
    PROVE  Promise!Admit(datagram[g].key)
<1>1. \A t \in 1..Len(reports) : ~Promise!Recent(t, datagram[g].key)
  BY YoungLive DEF IInv, Miss, Promise!Recent
<1> QED
  BY <1>1 DEF Miss, Promise!Admit

LEMMA CallHandlerHands ==
    ASSUME IInv, NEW g \in Goroutines, CallHandler(g)
    PROVE  \E t \in 1..Len(reports) : Promise!Hand(t)
<1> DEFINE t == answer[g].token
<1>1. t \in 1..Len(reports) /\ reports[t].handled = 0
  BY DEF IInv, AnswersMatch, CallHandler, AfterLookup
<1>2. reports' = [reports EXCEPT ![t].handled = @ + 1] /\ now' = now
  BY DEF CallHandler
<1>3. reports' = [reports EXCEPT ![t].handled = 1]
  BY <1>1, <1>2
<1> QED
  BY <1>1, <1>2, <1>3 DEF Promise!Hand

LEMMA OthersStutter ==
    ASSUME IInv, [Next]_vars,
           \A g \in Goroutines : ~ResponseFor(g) /\ ~CallHandler(g)
    PROVE  (reports' = reports /\ now' = now) \/ Promise!Tick
  BY DEF Next, vars, HandleDatagram, Receive, ReceiveTruncated, Return, Tick,
         RecordMalformed, RecordRejected, Refuse, RecordRefusal, RecordAccepted,
         RecordChange, Respond, RecordOK, RecordDuplicate, Promise!Tick

\* Every behaviour of the concurrent listener is one of ReportDelivery: lookups
\* admit or absorb, handler calls hand over, and all else is invisible.
THEOREM ListenerImplementsPromise == Spec => Promise!Spec
<1>1. Init => Promise!Init
  BY DEF Init, Promise!Init
<1>2. IInv /\ [Next]_vars => [Promise!Next]_(Promise!vars)
  <2> SUFFICES ASSUME IInv, [Next]_vars PROVE [Promise!Next]_(Promise!vars)
    OBVIOUS
  <2> USE DEF Promise!Next, Promise!vars
  <2>1. ASSUME NEW g \in Goroutines, Hit(g) PROVE Promise!Next
    <3>1. datagram[g].key \in Keys
      BY <2>1 DEF IInv, TypeOK, Hit, Datagram
    <3> QED
      BY <2>1, <3>1, HitAbsorbs
  <2>2. ASSUME NEW g \in Goroutines, Miss(g) PROVE Promise!Next
    <3>1. datagram[g].key \in Keys
      BY <2>2 DEF IInv, TypeOK, Miss, Datagram
    <3> QED
      BY <2>2, <3>1, MissAdmits
  <2>3. ASSUME NEW g \in Goroutines, CallHandler(g) PROVE Promise!Next
    BY <2>3, CallHandlerHands
  <2>4. CASE \A g \in Goroutines : ~ResponseFor(g) /\ ~CallHandler(g)
    BY <2>4, OthersStutter
  <2> QED
    BY <2>1, <2>2, <2>3, <2>4 DEF ResponseFor
<1> QED
  BY <1>1, <1>2, Invariance, PTL DEF Spec, Promise!Spec

-----------------------------------------------------------------------------
(* The usage counter.  A sum over a set of goroutines is a walk through them, in  *)
(* some order: c[i] is what it comes to after the first i.                        *)

Walk(n, b, c, G, delta, from, to) ==
    /\ b \in [1..n -> G] /\ c \in [0..n -> Int]
    /\ \A g \in G : \E i \in 1..n : b[i] = g
    /\ \A i, j \in 1..n : b[i] = b[j] => i = j
    /\ c[0] = from /\ c[n] = to
    /\ \A i \in 1..n : c[i] = c[i - 1] + delta[b[i]]

Sums(G, delta, from, to) ==
    \E n \in Nat : \E b, c : Walk(n, b, c, G, delta, from, to)

LEMMA SumOfNone ==
    ASSUME NEW G, NEW delta, NEW from \in Int, NEW to
    PROVE  G = {} => (Sums(G, delta, from, to) <=> to = from)
<1>1. Sums(G, delta, from, to) /\ G = {} => to = from
  <2> SUFFICES ASSUME Sums(G, delta, from, to) PROVE G = {} => to = from
    OBVIOUS
  <2>a. PICK n \in Nat : \E b, c : Walk(n, b, c, G, delta, from, to)
    BY DEF Sums
  <2>b. PICK b, c : Walk(n, b, c, G, delta, from, to)
    BY <2>a
  <2>1. /\ b \in [1..n -> G] /\ c \in [0..n -> Int]
        /\ \A g \in G : \E i \in 1..n : b[i] = g
        /\ \A i, j \in 1..n : b[i] = b[j] => i = j
        /\ c[0] = from /\ c[n] = to
        /\ \A i \in 1..n : c[i] = c[i - 1] + delta[b[i]]
    BY <2>b DEF Walk
  <2>2. n # 0 => b[1] \in G
    BY <2>1
  <2> QED
    BY <2>1, <2>2
<1>2. G = {} /\ to = from => Sums(G, delta, from, to)
  <2> SUFFICES ASSUME G = {}, to = from PROVE Sums(G, delta, from, to)
    OBVIOUS
  <2> DEFINE b == [i \in 1..0 |-> 0]
             c == [i \in 0..0 |-> from]
  <2>1. b \in [1..0 -> G] /\ c \in [0..0 -> Int] /\ c[0] = from
    OBVIOUS
  <2>2. 0 \in Nat /\ \A i : i \notin 1..0
    OBVIOUS
  <2> HIDE DEF b, c
  <2> QED
    BY <2>1, <2>2 DEF Sums, Walk
<1> QED
  BY <1>1, <1>2

LEMMA SumUntouched ==
    ASSUME NEW G, NEW delta, NEW after, NEW from, NEW to,
           Sums(G, delta, from, to), \A g \in G : after[g] = delta[g]
    PROVE  Sums(G, after, from, to)
<1>a. PICK n \in Nat : \E b, c : Walk(n, b, c, G, delta, from, to)
  BY DEF Sums
<1>b. PICK b, c : Walk(n, b, c, G, delta, from, to)
  BY <1>a
<1>1. /\ b \in [1..n -> G] /\ c \in [0..n -> Int]
      /\ \A g \in G : \E i \in 1..n : b[i] = g
      /\ \A i, j \in 1..n : b[i] = b[j] => i = j
      /\ c[0] = from /\ c[n] = to
      /\ \A i \in 1..n : c[i] = c[i - 1] + delta[b[i]]
  BY <1>b DEF Walk
<1>2. \A i \in 1..n : c[i] = c[i - 1] + after[b[i]]
  BY <1>1
<1>3. Walk(n, b, c, G, after, from, to)
  BY <1>1, <1>2 DEF Walk
<1> QED
  BY <1>3 DEF Sums

LEMMA SumWithOneMore ==
    ASSUME NEW G, NEW delta, NEW after, NEW from, NEW to,
           Sums(G, delta, from, to), NEW h, h \notin G, after[h] \in Int,
           \A g \in G : after[g] = delta[g]
    PROVE  Sums(G \cup {h}, after, from, to + after[h])
<1>a. PICK n \in Nat : \E b, c : Walk(n, b, c, G, after, from, to)
  BY SumUntouched DEF Sums
<1>b. PICK b, c : Walk(n, b, c, G, after, from, to)
  BY <1>a
<1>1. /\ b \in [1..n -> G] /\ c \in [0..n -> Int]
      /\ \A g \in G : \E i \in 1..n : b[i] = g
      /\ \A i, j \in 1..n : b[i] = b[j] => i = j
      /\ c[0] = from /\ c[n] = to
      /\ \A i \in 1..n : c[i] = c[i - 1] + after[b[i]]
  BY <1>b DEF Walk
<1> DEFINE b1 == [i \in 1..n + 1 |-> IF i = n + 1 THEN h ELSE b[i]]
           c1 == [i \in 0..n + 1 |-> IF i = n + 1 THEN to + after[h] ELSE c[i]]
<1>2. to \in Int /\ n + 1 \in Nat /\ \A i : i \in 1..n + 1 <=> i \in 1..n \/ i = n + 1
  BY <1>1
<1>3. b1 \in [1..n + 1 -> G \cup {h}] /\ b1[n + 1] = h /\ \A i \in 1..n : b1[i] = b[i]
  BY <1>1, <1>2
<1>4. /\ c1 \in [0..n + 1 -> Int] /\ c1[0] = from /\ c1[n + 1] = to + after[h]
      /\ c1[n] = to /\ \A i \in 1..n : c1[i] = c[i] /\ c1[i - 1] = c[i - 1]
  BY <1>1, <1>2
<1> HIDE DEF b1, c1
<1>5. \A g \in G \cup {h} : \E i \in 1..n + 1 : b1[i] = g
  BY <1>1, <1>2, <1>3
<1>6. \A i, j \in 1..n + 1 : b1[i] = b1[j] => i = j
  <2>1. \A i \in 1..n : b1[i] = b[i] /\ b1[i] \in G
    BY <1>1, <1>3
  <2> QED
    BY <1>1, <1>2, <1>3, <2>1
<1>7. \A i \in 1..n + 1 : c1[i] = c1[i - 1] + after[b1[i]]
  <2>1. \A i \in 1..n : c1[i] = c1[i - 1] + after[b1[i]]
    BY <1>1, <1>3, <1>4
  <2>2. c1[n + 1] = c1[(n + 1) - 1] + after[b1[n + 1]]
    BY <1>3, <1>4
  <2> QED
    BY <1>2, <2>1, <2>2
<1>8. Walk(n + 1, b1, c1, G \cup {h}, after, from, to + after[h])
  BY <1>3, <1>4, <1>5, <1>6, <1>7 DEF Walk
<1> QED
  BY <1>2, <1>8 DEF Sums

\* Any of them may come first, wherever it stands.
LEMMA SumWithoutOne ==
    ASSUME NEW G, NEW delta, NEW after, NEW from, NEW to,
           Sums(G, delta, from, to), NEW h \in G, \A g \in G : delta[g] \in Int,
           \A g \in G \ {h} : after[g] = delta[g]
    PROVE  Sums(G \ {h}, after, from + delta[h], to)
<1>a. PICK n \in Nat : \E b, c : Walk(n, b, c, G, delta, from, to)
  BY DEF Sums
<1>b. PICK b, c : Walk(n, b, c, G, delta, from, to)
  BY <1>a
<1>1. /\ b \in [1..n -> G] /\ c \in [0..n -> Int]
      /\ \A g \in G : \E i \in 1..n : b[i] = g
      /\ \A i, j \in 1..n : b[i] = b[j] => i = j
      /\ c[0] = from /\ c[n] = to
      /\ \A i \in 1..n : c[i] = c[i - 1] + delta[b[i]]
  BY <1>b DEF Walk
<1>2. PICK at \in 1..n : b[at] = h
  BY <1>1
<1> DEFINE b1 == [i \in 1..n - 1 |-> IF i < at THEN b[i] ELSE b[i + 1]]
           c1 == [i \in 0..n - 1 |-> IF i < at THEN c[i] + delta[h] ELSE c[i + 1]]
<1>3. n - 1 \in Nat /\ \A i \in 1..n - 1 : i \in 1..n /\ i + 1 \in 1..n /\ i - 1 \in 0..n - 1
  BY <1>2
<1>4. \A i \in 1..n - 1 : b1[i] = IF i < at THEN b[i] ELSE b[i + 1]
  OBVIOUS
<1>5. \A i \in 0..n - 1 : c1[i] = IF i < at THEN c[i] + delta[h] ELSE c[i + 1]
  OBVIOUS
<1>6. b1 \in [1..n - 1 -> G \ {h}]
  <2>1. \A i \in 1..n - 1 : b1[i] \in G \ {h}
    <3> SUFFICES ASSUME NEW i \in 1..n - 1 PROVE b1[i] \in G \ {h}
      OBVIOUS
    <3>1. CASE i < at
      <4>1. b1[i] = b[i] /\ i \in 1..n /\ i # at
        BY <1>3, <1>4, <3>1
      <4> HIDE DEF b1
      <4> QED
        BY <1>1, <1>2, <4>1
    <3>2. CASE ~(i < at)
      <4>1. b1[i] = b[i + 1] /\ i + 1 \in 1..n /\ i + 1 # at
        BY <1>3, <1>4, <3>2
      <4> HIDE DEF b1
      <4> QED
        BY <1>1, <1>2, <4>1
    <3> QED
      BY <3>1, <3>2
  <2> QED
    BY <2>1
<1>7. c1 \in [0..n - 1 -> Int]
  <2>1. \A i \in 0..n - 1 : c[i] \in Int /\ c[i + 1] \in Int
    BY <1>1
  <2>2. delta[h] \in Int
    OBVIOUS
  <2> QED
    BY <2>1, <2>2
<1> HIDE DEF b1, c1
<1>8. \A g \in G \ {h} : \E i \in 1..n - 1 : b1[i] = g
  <2> SUFFICES ASSUME NEW g \in G \ {h} PROVE \E i \in 1..n - 1 : b1[i] = g
    OBVIOUS
  <2>1. PICK i \in 1..n : b[i] = g
    BY <1>1
  <2>2. i # at
    BY <1>2, <2>1
  <2>3. CASE i < at
    <3>1. i \in 1..n - 1
      BY <2>3
    <3> QED
      BY <1>4, <2>1, <2>3, <3>1
  <2>4. CASE i > at
    <3>1. i - 1 \in 1..n - 1 /\ ~(i - 1 < at) /\ (i - 1) + 1 = i
      BY <2>4
    <3> QED
      BY <1>4, <2>1, <3>1
  <2> QED
    BY <2>2, <2>3, <2>4
<1>9. \A i, j \in 1..n - 1 : b1[i] = b1[j] => i = j
  <2> SUFFICES ASSUME NEW i \in 1..n - 1, NEW j \in 1..n - 1, b1[i] = b1[j] PROVE i = j
    OBVIOUS
  <2> DEFINE Old(k) == IF k < at THEN k ELSE k + 1
  <2>1. b1[i] = b[Old(i)] /\ b1[j] = b[Old(j)]
    BY <1>4
  <2>2. Old(i) \in 1..n /\ Old(j) \in 1..n
    BY <1>3
  <2>3. Old(i) = Old(j)
    <3> HIDE DEF Old
    <3> QED
      BY <1>1, <2>1, <2>2
  <2> QED
    BY <2>3
<1>10. c1[0] = from + delta[h] /\ c1[n - 1] = to
  <2>1. c1[0] = from + delta[h]
    BY <1>1, <1>3, <1>5
  <2>2. c1[n - 1] = to
    <3>1. CASE at = n
      <4>1. c[n] = c[n - 1] + delta[h]
        BY <1>1, <1>2, <3>1
      <4> QED
        BY <1>1, <1>3, <1>5, <3>1, <4>1
    <3>2. CASE at # n
      <4>1. n - 1 \in 0..n - 1 /\ ~(n - 1 < at) /\ (n - 1) + 1 = n
        BY <1>3, <3>2
      <4> QED
        BY <1>1, <1>5, <4>1
    <3> QED
      BY <3>1, <3>2
  <2> QED
    BY <2>1, <2>2
<1>11. \A i \in 1..n - 1 : c1[i] = c1[i - 1] + after[b1[i]]
  <2> SUFFICES ASSUME NEW i \in 1..n - 1 PROVE c1[i] = c1[i - 1] + after[b1[i]]
    OBVIOUS
  <2>1. after[b1[i]] = delta[b1[i]]
    BY <1>6
  <2>2. /\ c[i] \in Int /\ c[i - 1] \in Int /\ c[i + 1] \in Int
        /\ c[i] = c[i - 1] + delta[b[i]] /\ c[i + 1] = c[i] + delta[b[i + 1]]
    <3>1. /\ i \in 1..n /\ i + 1 \in 1..n /\ (i + 1) - 1 = i
          /\ i \in 0..n /\ i - 1 \in 0..n /\ i + 1 \in 0..n
      BY <1>3
    <3>2. c[i] = c[i - 1] + delta[b[i]] /\ c[i + 1] = c[(i + 1) - 1] + delta[b[i + 1]]
      BY <1>1, <3>1
    <3> QED
      BY <1>1, <3>1, <3>2
  <2>3. i \in 0..n - 1 /\ i - 1 \in 0..n - 1
    BY <1>3
  <2>4. CASE i < at
    <3>1. c1[i] = c[i] + delta[h] /\ c1[i - 1] = c[i - 1] + delta[h] /\ b1[i] = b[i]
      BY <1>4, <1>5, <2>3, <2>4
    <3>2. delta[b[i]] \in Int /\ delta[h] \in Int
      BY <1>1, <1>3
    <3> QED
      BY <2>1, <2>2, <3>1, <3>2
  <2>5. CASE i = at
    <3>1. c1[i] = c[i + 1] /\ c1[i - 1] = c[i - 1] + delta[h] /\ b1[i] = b[i + 1]
      BY <1>4, <1>5, <2>3, <2>5
    <3>2. c[i] = c[i - 1] + delta[h]
      BY <1>2, <2>2, <2>5
    <3> QED
      BY <2>1, <2>2, <3>1, <3>2
  <2>6. CASE i > at
    <3>1. c1[i] = c[i + 1] /\ c1[i - 1] = c[(i - 1) + 1] /\ b1[i] = b[i + 1]
      BY <1>4, <1>5, <2>3, <2>6
    <3>2. (i - 1) + 1 = i
      OBVIOUS
    <3> QED
      BY <2>1, <2>2, <3>1, <3>2
  <2> QED
    BY <2>4, <2>5, <2>6
<1>12. n - 1 \in Nat
  BY <1>3
<1>13. Walk(n - 1, b1, c1, G \ {h}, after, from + delta[h], to)
  BY <1>6, <1>7, <1>8, <1>9, <1>10, <1>11 DEF Walk
<1> QED
  BY <1>12, <1>13 DEF Sums

Owing == {g \in Goroutines : pc[g] = "recordChange"}
Deltas == [g \in Goroutines |-> answer[g].delta]

\* With the changes still on their way the counter comes to the size of the cache.
Owed == Sums(Owing, Deltas, gauge, Cardinality(DOMAIN seen))

LEMMA LookupOwes ==
    ASSUME TypeOK, Owed, NEW g \in Goroutines, pc[g] = "lookup", gauge' = gauge,
           NEW a, Answered(g, a), a \in Answer,
           Cardinality(DOMAIN seen)' = Cardinality(DOMAIN seen) + a.delta
    PROVE  Owed'
<1>1. /\ pc' = [pc EXCEPT ![g] = IF a.delta = 0 THEN "respond" ELSE "recordChange"]
      /\ answer' = [answer EXCEPT ![g] = a] /\ a.delta \in Int
      /\ pc \in [Goroutines -> Labels] /\ answer \in [Goroutines -> Answer \cup {NoAnswer}]
  BY DEF Answered, Goto, Answer, TypeOK
<1>2. g \notin Owing /\ Owing \subseteq Goroutines
  BY DEF Owing
<1>3. Deltas'[g] = a.delta /\ \A h \in Goroutines \ {g} : Deltas'[h] = Deltas[h]
  BY <1>1 DEF Deltas
<1>4. IsFiniteSet(DOMAIN seen) /\ Cardinality(DOMAIN seen) \in Nat
  BY KeysAssumption, FS_Subset, FS_CardinalityType DEF TypeOK
<1> HIDE DEF Deltas
<1>5. CASE a.delta = 0
  <2>1. Owing' = Owing
    BY <1>1, <1>5 DEF Owing
  <2>2. Sums(Owing, Deltas', gauge, Cardinality(DOMAIN seen))
    BY <1>2, <1>3, SumUntouched DEF Owed
  <2> QED
    BY <1>4, <1>5, <2>1, <2>2 DEF Owed
<1>6. CASE a.delta # 0
  <2>1. Owing' = Owing \cup {g}
    BY <1>1, <1>6 DEF Owing
  <2>2. Sums(Owing \cup {g}, Deltas', gauge, Cardinality(DOMAIN seen) + Deltas'[g])
    BY <1>1, <1>2, <1>3, SumWithOneMore DEF Owed
  <2> QED
    BY <1>3, <2>1, <2>2 DEF Owed
<1> QED
  BY <1>5, <1>6

LEMMA NextOwed ==
    ASSUME IInv, Owed, [Next]_vars
    PROVE  Owed'
<1>1. /\ TypeOK /\ pc \in [Goroutines -> Labels]
      /\ answer \in [Goroutines -> Answer \cup {NoAnswer}]
      /\ \A h \in Owing : answer[h].delta \in Int
  BY DEF IInv, TypeOK, Owing, AfterLookup, Answer
<1>2. IsFiniteSet(DOMAIN seen) /\ IsFiniteSet(Live) /\ Cardinality(DOMAIN seen) \in Nat
      /\ Cardinality(Live) \in Nat
  <2>1. IsFiniteSet(DOMAIN seen) /\ IsFiniteSet(Live)
    BY <1>1, KeysAssumption, FS_Subset DEF TypeOK, Live
  <2> QED
    BY <2>1, FS_CardinalityType
<1>3. ASSUME NEW g \in Goroutines, Hit(g) PROVE Owed'
  <2> DEFINE a == [token |-> seen[datagram[g].key].token, duplicate |-> TRUE, delta |-> -Expired]
  <2>1. Answered(g, a) /\ pc[g] = "lookup" /\ gauge' = gauge /\ seen' = Purged
        /\ datagram[g].key \in Live
    BY <1>3 DEF Hit
  <2>2. a \in Answer
    <3>1. seen[datagram[g].key] \in Entry
      BY <1>1, <2>1 DEF TypeOK, Live
    <3> QED
      BY <1>1, <3>1, DeltaType DEF Answer, Entry
  <2>3. Cardinality(DOMAIN seen)' = Cardinality(DOMAIN seen) + a.delta
    <3>1. DOMAIN seen' = Live
      BY <2>1 DEF Purged
    <3> QED
      BY <1>2, <3>1 DEF Expired
  <2> HIDE DEF a
  <2> QED
    BY <1>1, <2>1, <2>2, <2>3, LookupOwes
<1>4. ASSUME NEW g \in Goroutines, Miss(g) PROVE Owed'
  <2> DEFINE k == datagram[g].key
             a == [token |-> Len(reports) + 1, duplicate |-> FALSE, delta |-> 1 - Expired]
  <2>1. Answered(g, a) /\ pc[g] = "lookup" /\ gauge' = gauge /\ k \notin Live
        /\ DOMAIN seen' = Live \cup {k}
    BY <1>4 DEF Miss
  <2>2. a \in Answer
    <3>1. Len(reports) \in Nat
      BY <1>1 DEF TypeOK
    <3> QED
      BY <1>1, <3>1, DeltaType DEF Answer
  <2>3. Cardinality(DOMAIN seen)' = Cardinality(DOMAIN seen) + a.delta
    <3>1. Cardinality(Live \cup {k}) = Cardinality(Live) + 1
      BY <1>2, <2>1, FS_AddElement
    <3> QED
      BY <1>2, <2>1, <3>1 DEF Expired
  <2> HIDE DEF a
  <2> QED
    BY <1>1, <2>1, <2>2, <2>3, LookupOwes
<1>5. ASSUME NEW g \in Goroutines, RecordChange(g) PROVE Owed'
  <2>1. /\ gauge' = gauge + answer[g].delta /\ seen' = seen /\ answer' = answer
        /\ pc[g] = "recordChange" /\ pc' = [pc EXCEPT ![g] = "respond"]
    BY <1>5 DEF RecordChange, Goto
  <2>2. g \in Owing /\ Owing' = Owing \ {g}
    BY <1>1, <2>1 DEF Owing
  <2>3. \A h \in Owing : Deltas[h] \in Int /\ Deltas[h] = answer[h].delta
    BY <1>1 DEF Deltas, Owing
  <2>4. Deltas' = Deltas
    BY <2>1 DEF Deltas
  <2>5. Sums(Owing \ {g}, Deltas, gauge + Deltas[g], Cardinality(DOMAIN seen))
    BY <2>2, <2>3, SumWithoutOne DEF Owed
  <2> QED
    BY <2>1, <2>2, <2>3, <2>4, <2>5 DEF Owed
<1>6. CASE \A g \in Goroutines : ~ResponseFor(g) /\ ~RecordChange(g)
  <2>1. seen' = seen
    BY <1>6, CacheUntouched
  <2>2. /\ gauge' = gauge /\ Owing' = Owing
        /\ \A h \in Owing : answer'[h] = answer[h]
    BY <1>1, <1>6 DEF Next, vars, HandleDatagram, Receive, ReceiveTruncated, Return, Tick,
         RecordMalformed, RecordRejected, Refuse, RecordRefusal, RecordAccepted,
         Respond, RecordOK, RecordDuplicate, CallHandler, Done, Goto, Owing
  <2>3. \A h \in Owing : Deltas'[h] = Deltas[h]
    BY <2>2 DEF Deltas, Owing
  <2>4. Sums(Owing, Deltas', gauge, Cardinality(DOMAIN seen))
    BY <2>3, SumUntouched DEF Owed
  <2> QED
    BY <2>1, <2>2, <2>4 DEF Owed
<1> QED
  BY <1>3, <1>4, <1>5, <1>6 DEF ResponseFor

\* The observer is told of each change of the cache's size after the mutex is released
\* (sip.go:145), so the changes may overtake one another; whenever none is on its way the
\* counter is the size of the cache, for any number of goroutines.
THEOREM UsageIsExact == Spec => []UsageSettles
<1>1. Init => Owed
  <2> SUFFICES ASSUME Init PROVE Owed
    OBVIOUS
  <2>1. Owing = {} /\ DOMAIN seen = {} /\ gauge = 0
    BY DEF Init, Owing
  <2>2. Cardinality(DOMAIN seen) = 0
    BY <2>1, FS_EmptySet
  <2> QED
    BY <2>1, <2>2, SumOfNone DEF Owed
<1>2. IInv /\ Owed => UsageSettles
  <2> SUFFICES ASSUME IInv, Owed, \A g \in Goroutines : pc[g] # "recordChange"
               PROVE  gauge = Cardinality(DOMAIN seen)
    BY DEF UsageSettles
  <2>1. Owing = {} /\ gauge \in Int
    BY DEF Owing, IInv, TypeOK
  <2> QED
    BY <2>1, SumOfNone DEF Owed
<1> QED
  BY <1>1, <1>2, NextOwed, Invariance, PTL DEF Spec

-----------------------------------------------------------------------------
(* The outcome counters *)

Parsing == {g \in Goroutines : pc[g] = "parse"}
Looking == {g \in Goroutines : pc[g] = "lookup"}
Holding == {g \in Goroutines : pc[g] \in AfterLookup}
Repeating == {g \in Holding : answer[g].duplicate}

\* Each datagram is in a counter or with a goroutine that will count it.
Counted ==
    /\ IsFiniteSet(Parsing) /\ IsFiniteSet(Looking) /\ IsFiniteSet(Repeating)
    /\ received = observed["malformed"] + observed["rejected"] + observed["accepted"]
                     + Cardinality(Parsing)
    /\ observed["accepted"] = Len(reports) + observed["duplicate"]
                                 + Cardinality(Looking) + Cardinality(Repeating)
    /\ \A t \in 1..Len(reports) : reports[t].handled = 0 =>
          \E g \in Holding : ~answer[g].duplicate /\ answer[g].token = t

\* A step that moves no goroutine past a counter.
LEMMA AnswersCounted ==
    ASSUME IInv, Counted, UNCHANGED <<received, observed, reports>>,
           Parsing' = Parsing, Looking' = Looking, Holding' = Holding,
           \A g \in Holding : answer'[g] = answer[g]
    PROVE  Counted'
<1>1. Repeating' = Repeating
  BY DEF Repeating
<1> QED
  BY <1>1 DEF Counted

LEMMA NextCounted ==
    ASSUME IInv, Counted, [Next]_vars
    PROVE  Counted'
<1>1. /\ TypeOK /\ pc \in [Goroutines -> Labels] /\ observed \in [Events -> Nat]
      /\ answer \in [Goroutines -> Answer \cup {NoAnswer}]
      /\ Len(reports) \in Nat /\ received \in Nat
      /\ {"malformed", "rejected", "accepted", "refusal", "200", "duplicate"} \subseteq Events
  BY DEF IInv, TypeOK, Events
<1>2. /\ IsFiniteSet(Parsing) /\ IsFiniteSet(Looking) /\ IsFiniteSet(Repeating)
      /\ Cardinality(Parsing) \in Nat /\ Cardinality(Looking) \in Nat
      /\ Cardinality(Repeating) \in Nat /\ Len(reports) \in Nat /\ received \in Nat
      /\ observed["malformed"] \in Nat /\ observed["rejected"] \in Nat
      /\ observed["accepted"] \in Nat /\ observed["duplicate"] \in Nat
      /\ received = observed["malformed"] + observed["rejected"] + observed["accepted"]
                       + Cardinality(Parsing)
      /\ observed["accepted"] = Len(reports) + observed["duplicate"]
                                   + Cardinality(Looking) + Cardinality(Repeating)
  BY <1>1, FS_CardinalityType DEF Counted
<1>2a. /\ Cardinality(Parsing) \in Nat /\ received \in Nat /\ observed["malformed"] \in Nat
       /\ observed["rejected"] \in Nat /\ observed["accepted"] \in Nat
       /\ received = observed["malformed"] + observed["rejected"] + observed["accepted"]
                        + Cardinality(Parsing)
  BY <1>2
<1>2b. /\ Cardinality(Looking) \in Nat /\ Cardinality(Repeating) \in Nat
       /\ Len(reports) \in Nat /\ observed["accepted"] \in Nat
       /\ observed["duplicate"] \in Nat
       /\ observed["accepted"] = Len(reports) + observed["duplicate"]
                                    + Cardinality(Looking) + Cardinality(Repeating)
  BY <1>2
<1>3. \A t \in 1..Len(reports) : reports[t].handled = 0 =>
          \E g \in Holding : ~answer[g].duplicate /\ answer[g].token = t
  BY DEF Counted
<1>4. ASSUME NEW g \in Goroutines, NEW d \in Traffic, Receive(g, d) PROVE Counted'
  <2>1. /\ pc[g] = "idle" /\ pc' = [pc EXCEPT ![g] = "parse"] /\ received' = received + 1
        /\ UNCHANGED <<answer, observed, reports>>
    BY <1>4 DEF Receive
  <2>2. /\ Parsing' = Parsing \cup {g} /\ g \notin Parsing
        /\ Looking' = Looking /\ Holding' = Holding
    BY <1>1, <2>1 DEF Parsing, Looking, Holding, AfterLookup
  <2>3. Repeating' = Repeating
    BY <2>1, <2>2 DEF Repeating
  <2>4. /\ IsFiniteSet(Parsing \cup {g})
        /\ Cardinality(Parsing \cup {g}) = Cardinality(Parsing) + 1
    BY <1>2, <2>2, FS_AddElement
  <2>5. /\ received' = received + 1
        /\ Len(reports') = Len(reports)
        /\ observed'["malformed"] = observed["malformed"]
        /\ observed'["rejected"] = observed["rejected"]
        /\ observed'["accepted"] = observed["accepted"]
        /\ observed'["duplicate"] = observed["duplicate"]
    BY <1>1, <1>2, <1>3, <2>1, <2>2, <2>3, <2>4
  <2>6. /\ Cardinality(Parsing') = Cardinality(Parsing) + 1
        /\ Cardinality(Looking') = Cardinality(Looking)
        /\ Cardinality(Repeating') = Cardinality(Repeating)
        /\ IsFiniteSet(Parsing') /\ IsFiniteSet(Looking') /\ IsFiniteSet(Repeating')
    BY <1>1, <1>2, <1>3, <2>1, <2>2, <2>3, <2>4
  <2>7. received' = observed'["malformed"] + observed'["rejected"] + observed'["accepted"]
                     + Cardinality(Parsing')
    BY <1>2a, <2>5, <2>6
  <2>8. observed'["accepted"] = Len(reports') + observed'["duplicate"]
                                 + Cardinality(Looking') + Cardinality(Repeating')
    BY <1>2b, <2>5, <2>6
  <2>9. \A t \in 1..Len(reports') : reports'[t].handled = 0 =>
          \E h \in Holding' : ~answer'[h].duplicate /\ answer'[h].token = t
    BY <1>3, <2>1, <2>2
  <2> QED
    BY <2>6, <2>7, <2>8, <2>9 DEF Counted
<1>5. CASE ReceiveTruncated
  <2>1. /\ received' = received + 1 /\ UNCHANGED <<pc, answer, reports>>
        /\ observed' = [observed EXCEPT !["malformed"] = @ + 1]
    BY <1>5 DEF ReceiveTruncated, Observe
  <2>2. /\ Parsing' = Parsing /\ Looking' = Looking
        /\ Holding' = Holding /\ Repeating' = Repeating
    BY <2>1 DEF Parsing, Looking, Holding, Repeating
  <2>3. /\ observed'["malformed"] = observed["malformed"] + 1
        /\ observed'["rejected"] = observed["rejected"]
        /\ observed'["accepted"] = observed["accepted"]
        /\ observed'["duplicate"] = observed["duplicate"]
    BY <1>1, <2>1
  <2>4. /\ received' = received + 1
        /\ Len(reports') = Len(reports)
        /\ observed'["malformed"] = observed["malformed"] + 1
        /\ observed'["rejected"] = observed["rejected"]
        /\ observed'["accepted"] = observed["accepted"]
        /\ observed'["duplicate"] = observed["duplicate"]
    BY <1>1, <1>2, <1>3, <2>1, <2>2, <2>3
  <2>5. /\ Cardinality(Parsing') = Cardinality(Parsing)
        /\ Cardinality(Looking') = Cardinality(Looking)
        /\ Cardinality(Repeating') = Cardinality(Repeating)
        /\ IsFiniteSet(Parsing') /\ IsFiniteSet(Looking') /\ IsFiniteSet(Repeating')
    BY <1>1, <1>2, <1>3, <2>1, <2>2, <2>3
  <2>6. received' = observed'["malformed"] + observed'["rejected"] + observed'["accepted"]
                     + Cardinality(Parsing')
    BY <1>2a, <2>4, <2>5
  <2>7. observed'["accepted"] = Len(reports') + observed'["duplicate"]
                                 + Cardinality(Looking') + Cardinality(Repeating')
    BY <1>2b, <2>4, <2>5
  <2>8. \A t \in 1..Len(reports') : reports'[t].handled = 0 =>
          \E h \in Holding' : ~answer'[h].duplicate /\ answer'[h].token = t
    BY <1>3, <2>1, <2>2
  <2> QED
    BY <2>5, <2>6, <2>7, <2>8 DEF Counted
<1>6. ASSUME NEW g \in Goroutines, RecordMalformed(g) \/ RecordRejected(g) PROVE Counted'
  <2> DEFINE e == IF datagram[g].kind = "malformed" THEN "malformed" ELSE "rejected"
  <2>1. /\ pc[g] = "parse" /\ UNCHANGED <<received, reports>>
        /\ pc' \in {[pc EXCEPT ![g] = "idle"], [pc EXCEPT ![g] = "refuse"]}
        /\ \/ observed' = [observed EXCEPT !["malformed"] = @ + 1]
           \/ observed' = [observed EXCEPT !["rejected"] = @ + 1]
        /\ \A h \in Goroutines \ {g} : answer'[h] = answer[h]
    BY <1>1, <1>6 DEF RecordMalformed, RecordRejected, Observe, Done, Goto
  <2>2. /\ Parsing' = Parsing \ {g} /\ g \in Parsing
        /\ Looking' = Looking /\ Holding' = Holding /\ g \notin Holding
        /\ Holding \subseteq Goroutines
    BY <1>1, <2>1 DEF Parsing, Looking, Holding, AfterLookup
  <2>3. Repeating' = Repeating /\ \A h \in Holding : answer'[h] = answer[h]
    BY <2>1, <2>2 DEF Repeating
  <2>4. /\ IsFiniteSet(Parsing \ {g})
        /\ Cardinality(Parsing \ {g}) = Cardinality(Parsing) - 1
    BY <1>2, <2>2, FS_RemoveElement
  <2>5. /\ observed'["malformed"] + observed'["rejected"] + observed'["accepted"]
             = observed["malformed"] + observed["rejected"] + observed["accepted"] + 1
        /\ observed'["accepted"] = observed["accepted"]
        /\ observed'["duplicate"] = observed["duplicate"]
    <3>1. CASE observed' = [observed EXCEPT !["malformed"] = @ + 1]
      <4>1. /\ observed'["malformed"] = observed["malformed"] + 1
            /\ observed'["rejected"] = observed["rejected"]
            /\ observed'["accepted"] = observed["accepted"]
            /\ observed'["duplicate"] = observed["duplicate"]
        BY <1>1, <3>1
      <4> QED
        BY <1>1, <4>1
    <3>2. CASE observed' = [observed EXCEPT !["rejected"] = @ + 1]
      <4>1. /\ observed'["malformed"] = observed["malformed"]
            /\ observed'["rejected"] = observed["rejected"] + 1
            /\ observed'["accepted"] = observed["accepted"]
            /\ observed'["duplicate"] = observed["duplicate"]
        BY <1>1, <3>2
      <4> QED
        BY <1>1, <4>1
    <3> QED
      BY <2>1, <3>1, <3>2
  <2>6. \A t \in 1..Len(reports') : reports'[t].handled = 0 =>
          \E h \in Holding' : ~answer'[h].duplicate /\ answer'[h].token = t
    BY <1>3, <2>1, <2>2, <2>3
  <2>7. \A l \in {"malformed", "rejected", "accepted"} : observed'[l] \in Nat
    BY <1>1, <2>1
  <2>8. /\ received' = received
        /\ Len(reports') = Len(reports)
        /\ observed'["malformed"] + observed'["rejected"] + observed'["accepted"]
             = observed["malformed"] + observed["rejected"] + observed["accepted"] + 1
        /\ observed'["accepted"] = observed["accepted"]
        /\ observed'["duplicate"] = observed["duplicate"]
        /\ observed'["malformed"] \in Nat /\ observed'["rejected"] \in Nat
    BY <1>1, <1>2, <2>1, <2>2, <2>3, <2>4, <2>5, <2>6, <2>7
  <2>9. /\ Cardinality(Parsing') = Cardinality(Parsing) - 1
        /\ Cardinality(Looking') = Cardinality(Looking)
        /\ Cardinality(Repeating') = Cardinality(Repeating)
        /\ IsFiniteSet(Parsing') /\ IsFiniteSet(Looking') /\ IsFiniteSet(Repeating')
    BY <1>1, <1>2, <2>1, <2>2, <2>3, <2>4, <2>5, <2>6, <2>7
  <2>10. received' = observed'["malformed"] + observed'["rejected"] + observed'["accepted"]
                     + Cardinality(Parsing')
    <3>1. received = (observed["malformed"] + observed["rejected"] + observed["accepted"] + 1)
                       + (Cardinality(Parsing) - 1)
      BY <1>2a
    <3>2. received' = (observed'["malformed"] + observed'["rejected"] + observed'["accepted"])
                        + Cardinality(Parsing')
      BY <2>8, <2>9, <3>1
    <3> QED
      BY <3>2
  <2>11. observed'["accepted"] = Len(reports') + observed'["duplicate"]
                                 + Cardinality(Looking') + Cardinality(Repeating')
    BY <1>2b, <2>8, <2>9
  <2> QED
    BY <2>9, <2>10, <2>11, <2>6 DEF Counted
<1>7. ASSUME NEW g \in Goroutines, RecordAccepted(g) PROVE Counted'
  <2>1. /\ pc[g] = "parse" /\ UNCHANGED <<received, reports, answer>>
        /\ pc' = [pc EXCEPT ![g] = "lookup"]
        /\ observed' = [observed EXCEPT !["accepted"] = @ + 1]
    BY <1>7 DEF RecordAccepted, Observe, Goto
  <2>2. /\ Parsing' = Parsing \ {g} /\ g \in Parsing
        /\ Looking' = Looking \cup {g} /\ g \notin Looking /\ Holding' = Holding
    BY <1>1, <2>1 DEF Parsing, Looking, Holding, AfterLookup
  <2>3. Repeating' = Repeating
    BY <2>1, <2>2 DEF Repeating
  <2>4. /\ IsFiniteSet(Parsing \ {g})
        /\ Cardinality(Parsing \ {g}) = Cardinality(Parsing) - 1
        /\ IsFiniteSet(Looking \cup {g})
        /\ Cardinality(Looking \cup {g}) = Cardinality(Looking) + 1
    BY <1>2, <2>2, FS_RemoveElement, FS_AddElement
  <2>5. /\ observed'["malformed"] = observed["malformed"]
        /\ observed'["rejected"] = observed["rejected"]
        /\ observed'["accepted"] = observed["accepted"] + 1
        /\ observed'["duplicate"] = observed["duplicate"]
    BY <1>1, <2>1
  <2>6. /\ received' = received
        /\ Len(reports') = Len(reports)
        /\ observed'["malformed"] = observed["malformed"]
        /\ observed'["rejected"] = observed["rejected"]
        /\ observed'["accepted"] = observed["accepted"] + 1
        /\ observed'["duplicate"] = observed["duplicate"]
    BY <1>1, <1>2, <1>3, <2>1, <2>2, <2>3, <2>4, <2>5
  <2>7. /\ Cardinality(Parsing') = Cardinality(Parsing) - 1
        /\ Cardinality(Looking') = Cardinality(Looking) + 1
        /\ Cardinality(Repeating') = Cardinality(Repeating)
        /\ IsFiniteSet(Parsing') /\ IsFiniteSet(Looking') /\ IsFiniteSet(Repeating')
    BY <1>1, <1>2, <1>3, <2>1, <2>2, <2>3, <2>4, <2>5
  <2>8. received' = observed'["malformed"] + observed'["rejected"] + observed'["accepted"]
                     + Cardinality(Parsing')
    <3>1. received = observed["malformed"] + observed["rejected"] + (observed["accepted"] + 1)
                       + (Cardinality(Parsing) - 1)
      BY <1>2a
    <3> QED
      BY <2>6, <2>7, <3>1
  <2>9. observed'["accepted"] = Len(reports') + observed'["duplicate"]
                                 + Cardinality(Looking') + Cardinality(Repeating')
    <3> DEFINE a == observed["accepted"]
               l == Len(reports)
               d == observed["duplicate"]
               k == Cardinality(Looking)
               r == Cardinality(Repeating)
    <3>1. /\ a \in Nat /\ l \in Nat /\ d \in Nat /\ k \in Nat /\ r \in Nat
          /\ a = l + d + k + r
      BY <1>2b
    <3> HIDE DEF a, l, d, k, r
    <3>2. a + 1 = l + d + (k + 1) + r
      BY <3>1
    <3> QED
      BY <2>6, <2>7, <3>2 DEF a, l, d, k, r
  <2>10. \A t \in 1..Len(reports') : reports'[t].handled = 0 =>
          \E h \in Holding' : ~answer'[h].duplicate /\ answer'[h].token = t
    BY <1>3, <2>1, <2>2
  <2> QED
    BY <2>7, <2>8, <2>9, <2>10 DEF Counted
<1>8. ASSUME NEW g \in Goroutines, Hit(g) PROVE Counted'
  <2> DEFINE u == seen[datagram[g].key].token
  <2>1. /\ pc[g] = "lookup" /\ UNCHANGED <<received, observed>>
        /\ pc'[g] \in AfterLookup /\ answer'[g].duplicate
        /\ \A h \in Goroutines \ {g} : pc'[h] = pc[h] /\ answer'[h] = answer[h]
    BY <1>1, <1>8 DEF Hit, Answered, Goto, AfterLookup
  <2>2. /\ Len(reports') = Len(reports)
        /\ \A t \in 1..Len(reports) : reports'[t].handled = reports[t].handled
    <3>1. reports' = [reports EXCEPT ![u].replays = @ + 1] /\ datagram[g].key \in Live
      BY <1>8 DEF Hit
    <3>2. u \in 1..Len(reports)
      BY <3>1 DEF IInv, CacheSound, Live
    <3>3. reports \in Seq(Report)
      BY <1>1 DEF TypeOK
    <3> HIDE DEF u
    <3> QED
      BY <3>1, <3>2, <3>3, Replayed
  <2>3. /\ Parsing' = Parsing /\ Looking' = Looking \ {g}
        /\ g \in Looking /\ Holding' = Holding \cup {g} /\ g \notin Holding
        /\ Holding \subseteq Goroutines
    BY <1>1, <2>1 DEF Parsing, Looking, Holding, AfterLookup
  <2>4. Repeating' = Repeating \cup {g} /\ g \notin Repeating
    BY <2>1, <2>3 DEF Repeating
  <2>5. /\ IsFiniteSet(Looking \ {g})
        /\ Cardinality(Looking \ {g}) = Cardinality(Looking) - 1
        /\ IsFiniteSet(Repeating \cup {g})
        /\ Cardinality(Repeating \cup {g}) = Cardinality(Repeating) + 1
    BY <1>2, <2>3, <2>4, FS_RemoveElement, FS_AddElement
  <2>6. \A t \in 1..Len(reports') : reports'[t].handled = 0 =>
          \E h \in Holding' : ~answer'[h].duplicate /\ answer'[h].token = t
    BY <1>3, <2>1, <2>2, <2>3
  <2>7. /\ received' = received
        /\ Len(reports') = Len(reports)
        /\ observed'["malformed"] = observed["malformed"]
        /\ observed'["rejected"] = observed["rejected"]
        /\ observed'["accepted"] = observed["accepted"]
        /\ observed'["duplicate"] = observed["duplicate"]
    BY <1>1, <1>2, <2>1, <2>2, <2>3, <2>4, <2>5, <2>6
  <2>8. /\ Cardinality(Parsing') = Cardinality(Parsing)
        /\ Cardinality(Looking') = Cardinality(Looking) - 1
        /\ Cardinality(Repeating') = Cardinality(Repeating) + 1
        /\ IsFiniteSet(Parsing') /\ IsFiniteSet(Looking') /\ IsFiniteSet(Repeating')
    BY <1>1, <1>2, <2>1, <2>2, <2>3, <2>4, <2>5, <2>6
  <2>9. received' = observed'["malformed"] + observed'["rejected"] + observed'["accepted"]
                     + Cardinality(Parsing')
    BY <1>2a, <2>7, <2>8
  <2>10. observed'["accepted"] = Len(reports') + observed'["duplicate"]
                                 + Cardinality(Looking') + Cardinality(Repeating')
    BY <1>2b, <2>7, <2>8
  <2> QED
    BY <2>8, <2>9, <2>10, <2>6 DEF Counted
<1>9. ASSUME NEW g \in Goroutines, Miss(g) PROVE Counted'
  <2>1. /\ pc[g] = "lookup" /\ UNCHANGED <<received, observed>>
        /\ pc'[g] \in AfterLookup /\ ~answer'[g].duplicate
        /\ answer'[g].token = Len(reports) + 1
        /\ \A h \in Goroutines \ {g} : pc'[h] = pc[h] /\ answer'[h] = answer[h]
    BY <1>1, <1>9 DEF Miss, Answered, Goto, AfterLookup
  <2>2. /\ Len(reports') = Len(reports) + 1
        /\ \A t \in 1..Len(reports) : reports'[t] = reports[t]
    <3>1. reports \in Seq(Report)
      BY <1>1 DEF TypeOK
    <3> QED
      BY <1>9, <3>1 DEF Miss
  <2>3. /\ Parsing' = Parsing /\ Looking' = Looking \ {g}
        /\ g \in Looking /\ Holding' = Holding \cup {g} /\ g \notin Holding
        /\ Holding \subseteq Goroutines
    BY <1>1, <2>1 DEF Parsing, Looking, Holding, AfterLookup
  <2>4. Repeating' = Repeating
    BY <2>1, <2>3 DEF Repeating
  <2>5. /\ IsFiniteSet(Looking \ {g})
        /\ Cardinality(Looking \ {g}) = Cardinality(Looking) - 1
    BY <1>2, <2>3, FS_RemoveElement
  <2>6. \A t \in 1..Len(reports') : reports'[t].handled = 0 =>
          \E h \in Holding' : ~answer'[h].duplicate /\ answer'[h].token = t
    <3> SUFFICES ASSUME NEW t \in 1..Len(reports'), reports'[t].handled = 0
                 PROVE  \E h \in Holding' : ~answer'[h].duplicate /\ answer'[h].token = t
      OBVIOUS
    <3>1. CASE t = Len(reports) + 1
      BY <2>1, <2>3, <3>1
    <3>2. CASE t # Len(reports) + 1
      <4>1. t \in 1..Len(reports) /\ reports[t].handled = 0
        BY <1>1, <2>2, <3>2
      <4>2. PICK h \in Holding : ~answer[h].duplicate /\ answer[h].token = t
        BY <1>3, <4>1
      <4> QED
        BY <2>1, <2>3, <4>2
    <3> QED
      BY <3>1, <3>2
  <2>7. /\ received' = received
        /\ Len(reports') = Len(reports) + 1
        /\ observed'["malformed"] = observed["malformed"]
        /\ observed'["rejected"] = observed["rejected"]
        /\ observed'["accepted"] = observed["accepted"]
        /\ observed'["duplicate"] = observed["duplicate"]
    BY <1>1, <1>2, <2>1, <2>2, <2>3, <2>4, <2>5, <2>6
  <2>8. /\ Cardinality(Parsing') = Cardinality(Parsing)
        /\ Cardinality(Looking') = Cardinality(Looking) - 1
        /\ Cardinality(Repeating') = Cardinality(Repeating)
        /\ IsFiniteSet(Parsing') /\ IsFiniteSet(Looking') /\ IsFiniteSet(Repeating')
    BY <1>1, <1>2, <2>1, <2>2, <2>3, <2>4, <2>5, <2>6
  <2>9. received' = observed'["malformed"] + observed'["rejected"] + observed'["accepted"]
                     + Cardinality(Parsing')
    BY <1>2a, <2>7, <2>8
  <2>10. observed'["accepted"] = Len(reports') + observed'["duplicate"]
                                 + Cardinality(Looking') + Cardinality(Repeating')
    BY <1>2b, <2>7, <2>8
  <2> QED
    BY <2>8, <2>9, <2>10, <2>6 DEF Counted
<1>10. ASSUME NEW g \in Goroutines, RecordDuplicate(g) PROVE Counted'
  <2>1. /\ pc[g] = "settle" /\ answer[g].duplicate /\ UNCHANGED <<received, reports>>
        /\ pc' = [pc EXCEPT ![g] = "idle"]
        /\ observed' = [observed EXCEPT !["duplicate"] = @ + 1]
        /\ \A h \in Goroutines \ {g} : answer'[h] = answer[h]
    BY <1>1, <1>10 DEF RecordDuplicate, Observe, Done, Goto
  <2>2. /\ Parsing' = Parsing /\ Looking' = Looking
        /\ Holding' = Holding \ {g} /\ g \in Holding /\ Holding \subseteq Goroutines
    BY <1>1, <2>1 DEF Parsing, Looking, Holding, AfterLookup
  <2>3. Repeating' = Repeating \ {g} /\ g \in Repeating
    BY <2>1, <2>2 DEF Repeating
  <2>4. /\ IsFiniteSet(Repeating \ {g})
        /\ Cardinality(Repeating \ {g}) = Cardinality(Repeating) - 1
    BY <1>2, <2>3, FS_RemoveElement
  <2>5. /\ observed'["malformed"] = observed["malformed"]
        /\ observed'["rejected"] = observed["rejected"]
        /\ observed'["accepted"] = observed["accepted"]
        /\ observed'["duplicate"] = observed["duplicate"] + 1
    BY <1>1, <2>1
  <2>6. \A t \in 1..Len(reports') : reports'[t].handled = 0 =>
          \E h \in Holding' : ~answer'[h].duplicate /\ answer'[h].token = t
    BY <1>3, <2>1, <2>2
  <2>7. /\ received' = received
        /\ Len(reports') = Len(reports)
        /\ observed'["malformed"] = observed["malformed"]
        /\ observed'["rejected"] = observed["rejected"]
        /\ observed'["accepted"] = observed["accepted"]
        /\ observed'["duplicate"] = observed["duplicate"] + 1
    BY <1>1, <1>2, <2>1, <2>2, <2>3, <2>4, <2>5, <2>6
  <2>8. /\ Cardinality(Parsing') = Cardinality(Parsing)
        /\ Cardinality(Looking') = Cardinality(Looking)
        /\ Cardinality(Repeating') = Cardinality(Repeating) - 1
        /\ IsFiniteSet(Parsing') /\ IsFiniteSet(Looking') /\ IsFiniteSet(Repeating')
    BY <1>1, <1>2, <2>1, <2>2, <2>3, <2>4, <2>5, <2>6
  <2>9. received' = observed'["malformed"] + observed'["rejected"] + observed'["accepted"]
                     + Cardinality(Parsing')
    BY <1>2a, <2>7, <2>8
  <2>10. observed'["accepted"] = Len(reports') + observed'["duplicate"]
                                 + Cardinality(Looking') + Cardinality(Repeating')
    BY <1>2b, <2>7, <2>8
  <2> QED
    BY <2>8, <2>9, <2>10, <2>6 DEF Counted
<1>11. ASSUME NEW g \in Goroutines, CallHandler(g) PROVE Counted'
  <2> DEFINE u == answer[g].token
  <2>1. /\ pc[g] = "settle" /\ ~answer[g].duplicate /\ UNCHANGED <<received, observed>>
        /\ pc' = [pc EXCEPT ![g] = "idle"]
        /\ \A h \in Goroutines \ {g} : answer'[h] = answer[h]
    BY <1>1, <1>11 DEF CallHandler, Done, Goto
  <2>2. /\ Len(reports') = Len(reports)
        /\ \A t \in 1..Len(reports) :
              reports'[t].handled = IF t = u THEN reports[t].handled + 1 ELSE reports[t].handled
        /\ reports[u].handled = 0
    <3>1. reports' = [reports EXCEPT ![u].handled = @ + 1]
      BY <1>11 DEF CallHandler
    <3>2. u \in 1..Len(reports) /\ reports[u].handled = 0
      BY <2>1 DEF IInv, AnswersMatch, AfterLookup
    <3>3. reports \in Seq(Report)
      BY <1>1 DEF TypeOK
    <3> HIDE DEF u
    <3> QED
      BY <3>1, <3>2, <3>3, Handed
  <2>3. /\ Parsing' = Parsing /\ Looking' = Looking
        /\ Holding' = Holding \ {g} /\ g \in Holding /\ Holding \subseteq Goroutines
    BY <1>1, <2>1 DEF Parsing, Looking, Holding, AfterLookup
  <2>4. Repeating' = Repeating
    BY <2>1, <2>3 DEF Repeating
  <2>5. \A t \in 1..Len(reports') : reports'[t].handled = 0 =>
          \E h \in Holding' : ~answer'[h].duplicate /\ answer'[h].token = t
    <3> SUFFICES ASSUME NEW t \in 1..Len(reports), reports'[t].handled = 0
                 PROVE  \E h \in Holding' : ~answer'[h].duplicate /\ answer'[h].token = t
      BY <2>2
    <3>1. t # u /\ reports[t].handled = 0
      BY <2>2
    <3>2. PICK h \in Holding : ~answer[h].duplicate /\ answer[h].token = t
      BY <1>3, <3>1
    <3>3. h # g
      BY <3>1, <3>2
    <3> QED
      BY <2>1, <2>3, <3>2, <3>3
  <2>6. /\ received' = received
        /\ Len(reports') = Len(reports)
        /\ observed'["malformed"] = observed["malformed"]
        /\ observed'["rejected"] = observed["rejected"]
        /\ observed'["accepted"] = observed["accepted"]
        /\ observed'["duplicate"] = observed["duplicate"]
    BY <1>1, <1>2, <2>1, <2>2, <2>3, <2>4, <2>5
  <2>7. /\ Cardinality(Parsing') = Cardinality(Parsing)
        /\ Cardinality(Looking') = Cardinality(Looking)
        /\ Cardinality(Repeating') = Cardinality(Repeating)
        /\ IsFiniteSet(Parsing') /\ IsFiniteSet(Looking') /\ IsFiniteSet(Repeating')
    BY <1>1, <1>2, <2>1, <2>2, <2>3, <2>4, <2>5
  <2>8. received' = observed'["malformed"] + observed'["rejected"] + observed'["accepted"]
                     + Cardinality(Parsing')
    BY <1>2a, <2>6, <2>7
  <2>9. observed'["accepted"] = Len(reports') + observed'["duplicate"]
                                 + Cardinality(Looking') + Cardinality(Repeating')
    BY <1>2b, <2>6, <2>7
  <2> QED
    BY <2>7, <2>8, <2>9, <2>5 DEF Counted
<1>12. ASSUME NEW g \in Goroutines, RecordRefusal(g) \/ RecordOK(g) PROVE Counted'
  <2>1. /\ UNCHANGED <<received, reports>>
        /\ \/ pc[g] = "recordRefusal" /\ pc' = [pc EXCEPT ![g] = "idle"]
           \/ pc[g] = "recordOK" /\ pc' = [pc EXCEPT ![g] = "settle"] /\ answer' = answer
        /\ \/ observed' = [observed EXCEPT !["refusal"] = @ + 1]
           \/ observed' = [observed EXCEPT !["200"] = @ + 1]
        /\ \A h \in Goroutines \ {g} : answer'[h] = answer[h]
    BY <1>1, <1>12 DEF RecordRefusal, RecordOK, Observe, Done, Goto
  <2>2. /\ Parsing' = Parsing /\ Looking' = Looking
        /\ Holding' = Holding /\ \A h \in Holding : answer'[h] = answer[h]
    BY <1>1, <2>1 DEF Parsing, Looking, Holding, AfterLookup
  <2>3. Repeating' = Repeating
    BY <2>2 DEF Repeating
  <2>4. /\ observed'["malformed"] = observed["malformed"]
        /\ observed'["rejected"] = observed["rejected"]
        /\ observed'["accepted"] = observed["accepted"]
        /\ observed'["duplicate"] = observed["duplicate"]
    BY <1>1, <2>1
  <2>5. \A t \in 1..Len(reports') : reports'[t].handled = 0 =>
          \E h \in Holding' : ~answer'[h].duplicate /\ answer'[h].token = t
    BY <1>3, <2>1, <2>2
  <2>6. /\ received' = received
        /\ Len(reports') = Len(reports)
        /\ observed'["malformed"] = observed["malformed"]
        /\ observed'["rejected"] = observed["rejected"]
        /\ observed'["accepted"] = observed["accepted"]
        /\ observed'["duplicate"] = observed["duplicate"]
    BY <1>1, <1>2, <2>1, <2>2, <2>3, <2>4, <2>5
  <2>7. /\ Cardinality(Parsing') = Cardinality(Parsing)
        /\ Cardinality(Looking') = Cardinality(Looking)
        /\ Cardinality(Repeating') = Cardinality(Repeating)
        /\ IsFiniteSet(Parsing') /\ IsFiniteSet(Looking') /\ IsFiniteSet(Repeating')
    BY <1>1, <1>2, <2>1, <2>2, <2>3, <2>4, <2>5
  <2>8. received' = observed'["malformed"] + observed'["rejected"] + observed'["accepted"]
                     + Cardinality(Parsing')
    BY <1>2a, <2>6, <2>7
  <2>9. observed'["accepted"] = Len(reports') + observed'["duplicate"]
                                 + Cardinality(Looking') + Cardinality(Repeating')
    BY <1>2b, <2>6, <2>7
  <2> QED
    BY <2>7, <2>8, <2>9, <2>5 DEF Counted
<1>13. ASSUME NEW g \in Goroutines, Refuse(g) \/ RecordChange(g) \/ Respond(g)
       PROVE  Counted'
  <2>1. /\ UNCHANGED <<received, observed, reports>>
        /\ Parsing' = Parsing /\ Looking' = Looking /\ Holding' = Holding
        /\ \A h \in Holding : answer'[h] = answer[h]
    BY <1>1, <1>13 DEF Refuse, RecordChange, Respond, Done, Goto, Parsing, Looking, Holding, AfterLookup
  <2> QED
    BY <2>1, AnswersCounted
<1>14. CASE Return \/ Tick \/ UNCHANGED vars
  <2>1. /\ UNCHANGED <<received, observed, reports>>
        /\ Parsing' = Parsing /\ Looking' = Looking /\ Holding' = Holding
        /\ \A h \in Holding : answer'[h] = answer[h]
    BY <1>14 DEF Return, Tick, vars, Parsing, Looking, Holding
  <2> QED
    BY <2>1, AnswersCounted
<1> QED
  BY <1>4, <1>5, <1>6, <1>7, <1>8, <1>9, <1>10, <1>11, <1>12, <1>13, <1>14
     DEF Next, HandleDatagram, ResponseFor

\* Whatever writes fail and whenever Serve returns, each datagram ends in exactly one
\* outcome counter, and each accepted one is handled or counted as a duplicate
\* (sip.go:125-157).
THEOREM NothingIsUncounted == Spec => []NothingUncounted
<1>1. Init => Counted
  <2> SUFFICES ASSUME Init PROVE Counted
    OBVIOUS
  <2>1. Parsing = {} /\ Looking = {} /\ Repeating = {}
    BY DEF Init, Parsing, Looking, Repeating, Holding, AfterLookup
  <2>2. /\ received = 0 /\ observed["malformed"] = 0 /\ observed["rejected"] = 0
        /\ observed["accepted"] = 0 /\ observed["duplicate"] = 0 /\ Len(reports) = 0
    BY DEF Init, Events
  <2>3. IsFiniteSet({}) /\ Cardinality({}) = 0
    BY FS_EmptySet
  <2> QED
    BY <2>1, <2>2, <2>3 DEF Counted
<1>2. IInv /\ Counted => NothingUncounted
  <2> SUFFICES ASSUME IInv, Counted, \A g \in Goroutines : pc[g] = "idle"
               PROVE  /\ received = observed["malformed"] + observed["rejected"]
                                      + observed["accepted"]
                      /\ observed["accepted"] = Len(reports) + observed["duplicate"]
                      /\ \A t \in 1..Len(reports) : reports[t].handled = 1
    BY DEF NothingUncounted
  <2>1. Parsing = {} /\ Looking = {} /\ Holding = {} /\ Repeating = {}
    BY DEF Parsing, Looking, Repeating, Holding, AfterLookup
  <2>2. IsFiniteSet({}) /\ Cardinality({}) = 0
    BY FS_EmptySet
  <2>3. observed \in [Events -> Nat] /\ Len(reports) \in Nat
    BY DEF IInv, TypeOK
  <2>4. \A t \in 1..Len(reports) : reports[t].handled = 1
    <3> SUFFICES ASSUME NEW t \in 1..Len(reports) PROVE reports[t].handled = 1
      OBVIOUS
    <3>1. reports[t].handled \in Nat /\ reports[t].handled <= 1
      BY ReportType DEF IInv, OncePerWindow
    <3>2. reports[t].handled # 0
      BY <2>1 DEF Counted
    <3> QED
      BY <3>1, <3>2
  <2> QED
    BY <2>1, <2>2, <2>3, <2>4 DEF Counted, Events
<1> QED
  BY <1>1, <1>2, NextCounted, Invariance, PTL DEF Spec
=============================================================================
