--------------------------- MODULE ReportDelivery ---------------------------
(***************************************************************************)
(* What the SIP listener promises its handler (sip.go: "a validated SIP    *)
(* PUBLISH report delivered once per Call-ID/CSeq pair during the          *)
(* configured deduplication window"), stated without goroutines, cache or  *)
(* sockets: the history of reports and a clock decide everything.          *)
(***************************************************************************)
EXTENDS Integers, Sequences

CONSTANTS Keys, Window, MaxReports

VARIABLES
    clock,      \* the wall clock
    reports     \* reports in the order they were first answered

vars == <<clock, reports>>

\* One report: when it was first answered, how often the
\* handler got it and how many copies were answered in its place.
Report == [key : Keys, at : Nat, handled : Nat, replays : Nat]

Recent(t, k) == reports[t].key = k /\ clock < reports[t].at + Window

Init ==
    /\ clock = 0
    /\ reports = <<>>

Tick ==
    /\ clock' = clock + 1
    /\ UNCHANGED reports

\* A report is new when no report of its key is younger than the window.
Admit(k) ==
    /\ \A t \in 1..Len(reports) : ~Recent(t, k)
    /\ reports' = Append(reports, [key |-> k, at |-> clock, handled |-> 0, replays |-> 0])
    /\ UNCHANGED clock

\* A copy is absorbed by the one young report of its key, and by no older one.
Absorb(k) ==
    /\ \E t \in 1..Len(reports) :
          /\ Recent(t, k)
          /\ reports' = [reports EXCEPT ![t].replays = @ + 1]
    /\ UNCHANGED clock

\* The handler gets every report once.
Hand(t) ==
    /\ t \in 1..Len(reports)
    /\ reports[t].handled = 0
    /\ reports' = [reports EXCEPT ![t].handled = 1]
    /\ UNCHANGED clock

Next ==
    \/ Tick
    \/ \E k \in Keys : Admit(k) \/ Absorb(k)
    \/ \E t \in 1..Len(reports) : Hand(t)

Spec == Init /\ [][Next]_vars

\* A report that was answered is handed over in the end.
FairSpec == Spec /\ \A t \in 1..MaxReports : WF_vars(Hand(t))
=============================================================================
