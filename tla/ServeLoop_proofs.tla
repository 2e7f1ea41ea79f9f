--------------------------- MODULE ServeLoop_proofs ---------------------------
(***************************************************************************)
(* Proofs about module ServeLoop, for every deadline and every capacity of *)
(* the socket's buffer.                                                    *)
(***************************************************************************)
EXTENDS ServeLoop, SequenceTheorems, TLAPS

\* What a read takes from the buffer and a datagram adds to it.
LEMMA BufferSteps ==
    ASSUME TypeOK
    PROVE  /\ buffer # <<>> => Tail(buffer) \in Seq(Sizes) /\ Len(Tail(buffer)) <= Capacity
           /\ Len(buffer) < Capacity =>
                 \A size \in Sizes : /\ Append(buffer, size) \in Seq(Sizes)
                                     /\ Len(Append(buffer, size)) <= Capacity
<1>1. buffer \in Seq(Sizes) /\ Len(buffer) <= Capacity
  BY DEF TypeOK
<1> QED
  BY <1>1, CapacityAssumption

LEMMA InitHolds == Init => TypeOK /\ ReturnsForCause
<1> SUFFICES ASSUME Init PROVE TypeOK /\ ReturnsForCause
  OBVIOUS
<1>1. buffer \in Seq(Sizes) /\ Len(buffer) <= Capacity
  <2>1. <<>> \in Seq(Sizes) /\ Len(<<>>) = 0
    OBVIOUS
  <2> QED
    BY <2>1, CapacityAssumption DEF Init
<1>2. TypeOK
  <2>1. socket \in BOOLEAN /\ cancelled \in BOOLEAN
    BY Zenon DEF Init
  <2>2. waited \in 0..Deadline
    BY DeadlineAssumption DEF Init
  <2>3. /\ loop \in {"arm", "reading", "returned"}
        /\ result \in {"none", "nil", "error"}
        /\ taken \in {"none", "malformed", "spawned"}
    BY DEF Init
  <2> QED
    BY <1>1, <2>1, <2>2, <2>3, Zenon DEF TypeOK
<1>3. ReturnsForCause
  BY DEF Init, ReturnsForCause
<1> QED
  BY <1>2, <1>3

\* Each step keeps the types.
LEMMA TypeStep == TypeOK /\ [Next]_vars => TypeOK'
<1> SUFFICES ASSUME TypeOK, [Next]_vars PROVE TypeOK'
  OBVIOUS
<1> USE DeadlineAssumption, CapacityAssumption
<1>1. CASE SetReadDeadline
  BY <1>1 DEF TypeOK, SetReadDeadline, ReturnWith
<1>2. CASE ReadDatagram
  BY <1>2, BufferSteps DEF TypeOK, ReadDatagram
<1>3. CASE ReadTimeout
  BY <1>3 DEF TypeOK, ReadTimeout, ReturnWith
<1>4. CASE ReadError
  BY <1>4 DEF TypeOK, ReadError, ReturnWith
<1>5. ASSUME NEW size \in Sizes, Arrive(size) PROVE TypeOK'
  BY <1>5, BufferSteps DEF TypeOK, Arrive
<1>6. CASE SocketFails
  BY <1>6 DEF TypeOK, SocketFails
<1>7. CASE Cancel
  BY <1>7 DEF TypeOK, Cancel
<1>8. CASE Tick
  BY <1>8 DEF TypeOK, Tick
<1>9. CASE UNCHANGED vars
  BY <1>9 DEF TypeOK, vars
<1> QED
  BY <1>1, <1>2, <1>3, <1>4, <1>5, <1>6, <1>7, <1>8, <1>9 DEF Next, Serve

\* A result is given once, with the cause it stands for, and no cause goes away.
LEMMA CauseStep == ReturnsForCause /\ [Next]_vars => ReturnsForCause'
<1> SUFFICES ASSUME ReturnsForCause, [Next]_vars PROVE ReturnsForCause'
  OBVIOUS
<1>1. CASE SetReadDeadline
  BY <1>1 DEF ReturnsForCause, SetReadDeadline, ReturnWith
<1>2. CASE ReadDatagram
  BY <1>2 DEF ReturnsForCause, ReadDatagram
<1>3. CASE ReadTimeout
  BY <1>3 DEF ReturnsForCause, ReadTimeout, ReturnWith
<1>4. CASE ReadError
  BY <1>4 DEF ReturnsForCause, ReadError, ReturnWith
<1>5. CASE \/ \E size \in Sizes : Arrive(size)
           \/ SocketFails \/ Cancel \/ Tick
  BY <1>5 DEF ReturnsForCause, Arrive, SocketFails, Cancel, Tick
<1>6. CASE UNCHANGED vars
  BY <1>6 DEF ReturnsForCause, vars
<1> QED
  BY <1>1, <1>2, <1>3, <1>4, <1>5, <1>6 DEF Next, Serve

\* Every variable of the loop keeps its type: no read outlasts its deadline, and the
\* buffer never holds more than its capacity.
THEOREM TypeCorrect == Spec => []TypeOK
<1>1. Init => TypeOK
  BY InitHolds
<1> QED
  BY <1>1, TypeStep, PTL DEF Spec

\* Serve (sip.go:99-123) returns nil only after the signal and an error only from
\* a broken socket, whichever of a timeout, a datagram and a signal comes first.
THEOREM ReturnsOnlyForCause == Spec => []ReturnsForCause
<1>1. Init => ReturnsForCause
  BY InitHolds
<1> QED
  BY <1>1, CauseStep, PTL DEF Spec
=============================================================================
