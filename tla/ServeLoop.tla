------------------------------ MODULE ServeLoop ------------------------------
(***************************************************************************)
(* Serve (internal/sip/sip.go:99): one goroutine alternates between        *)
(* setting a read deadline and reading a datagram.  The context is looked  *)
(* at only when a read fails.  Module Listener takes its reads as steps    *)
(* that may happen at any time; here are the deadline, the socket's buffer *)
(* and the reasons for which Serve returns.                                *)
(***************************************************************************)
EXTENDS Integers, Sequences

CONSTANTS
    Deadline,       \* the 200 ms given to each read, in ticks
    Capacity        \* datagrams the kernel buffers for the socket

ASSUME DeadlineAssumption == Deadline \in Nat \ {0}
ASSUME CapacityAssumption == Capacity \in Nat \ {0}

VARIABLES
    loop,       \* where Serve is: about to set a deadline, reading, returned
    waited,     \* time since the deadline was set
    buffer,     \* datagrams in the socket's buffer
    socket,     \* the socket works
    cancelled,  \* ctx.Err() # nil
    result,     \* what Serve returned
    taken       \* what became of the last datagram read

vars == <<loop, waited, buffer, socket, cancelled, result, taken>>

\* A datagram longer than MaxDatagram fills the buffer of MaxDatagram+1 bytes.
Sizes == {"fits", "overlong"}

Init ==
    /\ loop = "arm"
    /\ waited = 0
    /\ buffer = <<>>
    /\ socket = TRUE
    /\ cancelled = FALSE
    /\ result = "none"
    /\ taken = "none"

ReturnWith(r) ==
    /\ loop' = "returned"
    /\ result' = r

\* A deadline that cannot be set is tried again.
BadSetReadDeadline ==
    /\ loop = "arm"
    /\ loop' = IF socket THEN "reading" ELSE "arm"
    /\ waited' = 0
    /\ UNCHANGED <<buffer, socket, cancelled, result, taken>>

\* SetReadDeadline; its failure is returned whether or not ctx is cancelled.
SetReadDeadline ==
    /\ loop = "arm"
    /\ IF socket THEN loop' = "reading" /\ UNCHANGED result
                 ELSE ReturnWith("error")
    /\ waited' = 0
    /\ UNCHANGED <<buffer, socket, cancelled, taken>>

\* ReadFrom returns a datagram: a possibly truncated one is only counted, any
\* other goes to a goroutine.
ReadDatagram ==
    /\ loop = "reading" /\ socket /\ buffer # <<>>
    /\ taken' = IF Head(buffer) = "overlong" THEN "malformed" ELSE "spawned"
    /\ buffer' = Tail(buffer)
    /\ loop' = "arm"
    /\ UNCHANGED <<waited, socket, cancelled, result>>

\* (Variants named Bad... are wrong on purpose: each stands for a plausible
\* mistake in the definition that follows it.)

\* The check of the context is left out.
BadReadTimeout ==
    /\ loop = "reading" /\ socket /\ waited = Deadline
    /\ loop' = "arm" /\ UNCHANGED result
    /\ UNCHANGED <<waited, buffer, socket, cancelled, taken>>

\* A cancelled Serve returns on a timeout, one that still serves reads again.
\* (A datagram that arrived while the read timed out stays in the buffer.)
ReadTimeout ==
    /\ loop = "reading" /\ socket /\ waited = Deadline
    /\ IF cancelled THEN ReturnWith("nil") ELSE loop' = "arm" /\ UNCHANGED result
    /\ UNCHANGED <<waited, buffer, socket, cancelled, taken>>

\* Errors of the socket are returned as if the context had been cancelled.
BadReadError ==
    /\ loop = "reading" /\ ~socket
    /\ ReturnWith("nil")
    /\ UNCHANGED <<waited, buffer, socket, cancelled, taken>>

\* Any other read error: nil if the context is cancelled, the error if not.
ReadError ==
    /\ loop = "reading" /\ ~socket
    /\ ReturnWith(IF cancelled THEN "nil" ELSE "error")
    /\ UNCHANGED <<waited, buffer, socket, cancelled, taken>>

Serve == SetReadDeadline \/ ReadDatagram \/ ReadTimeout \/ ReadError

-----------------------------------------------------------------------------
(* The environment *)

\* A datagram that finds the buffer full is lost.
Arrive(size) ==
    /\ Len(buffer) < Capacity
    /\ buffer' = Append(buffer, size)
    /\ UNCHANGED <<loop, waited, socket, cancelled, result, taken>>

SocketFails ==
    /\ socket' = FALSE
    /\ UNCHANGED <<loop, waited, buffer, cancelled, result, taken>>

Cancel ==
    /\ cancelled' = TRUE
    /\ UNCHANGED <<loop, waited, buffer, socket, result, taken>>

\* The read outlasts its deadline.
BadTick ==
    /\ loop = "reading" /\ waited <= Deadline
    /\ waited' = waited + 1
    /\ UNCHANGED <<loop, buffer, socket, cancelled, result, taken>>

Tick ==
    /\ loop = "reading" /\ waited < Deadline
    /\ waited' = waited + 1
    /\ UNCHANGED <<loop, buffer, socket, cancelled, result, taken>>

Next ==
    \/ Serve
    \/ \E size \in Sizes : Arrive(size)
    \/ SocketFails
    \/ Cancel
    \/ Tick

\* Serve runs whenever it can and time passes; nothing is assumed of the
\* network, the socket or the signal.
Spec == Init /\ [][Next]_vars /\ WF_vars(Serve) /\ WF_vars(Tick)

-----------------------------------------------------------------------------
(* Properties *)

TypeOK ==
    /\ loop \in {"arm", "reading", "returned"}
    /\ waited \in 0..Deadline
    /\ buffer \in Seq(Sizes) /\ Len(buffer) <= Capacity
    /\ socket \in BOOLEAN
    /\ cancelled \in BOOLEAN
    /\ result \in {"none", "nil", "error"}
    /\ taken \in {"none", "malformed", "spawned"}

\* run (main.go:141) exits 0 or 1 by what Serve returns: nil only after the
\* signal and an error only from a broken socket.
ReturnsForCause ==
    /\ loop = "returned" <=> result # "none"
    /\ result = "nil" => cancelled
    /\ result = "error" => ~socket

\* Once the signal is given and no more datagrams come, Serve works off what is
\* in the buffer, waits out one deadline and returns.
StopsWhenQuiet ==
    <>cancelled /\ <>[][Len(buffer') <= Len(buffer)]_buffer => <>(loop = "returned")

\* A broken socket ends Serve without a signal.
StopsWhenSocketFails == ~socket ~> (loop = "returned")

\* sip.go:87: "serves until ctx is cancelled or the socket fails".
ServesUntilCancelled == cancelled ~> (loop = "returned")
=============================================================================
