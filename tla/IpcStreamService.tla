-------------------------- MODULE IpcStreamService --------------------------
(***************************************************************************)
(* What the GG-IPC client promises about each stream, whatever slot of its *)
(* table the stream is in and whichever thread acts: a request is pending, *)
(* is accepted and open, and ends for good; its caller is told once; its   *)
(* subscription callback runs only while it is open, one callback at a     *)
(* time and never across a close by a thread; and a caller that is told of *)
(* an error has a stream that has ended.                                   *)
(***************************************************************************)

CONSTANT Stream     \* the streams that can be requested

VARIABLES
    phase,          \* stream -> "new", "pending", "open" or "ended"
    told,           \* stream -> what its caller was told, or "none"
    running,        \* the stream whose subscription callback runs, if any
    closed          \* streams that a thread has closed

vars == <<phase, told, running, closed>>

Init ==
    /\ phase = [n \in Stream |-> "new"]
    /\ told = [n \in Stream |-> "none"]
    /\ running = {}
    /\ closed = {}

Move(n, p) == phase' = [phase EXCEPT ![n] = p]

\* A request is made.
Request(n) ==
    /\ phase[n] = "new" /\ running = {}
    /\ Move(n, "pending")
    /\ UNCHANGED <<told, running, closed>>

\* The server accepts a subscription whose caller has not been told anything.
Open(n) ==
    /\ phase[n] = "pending" /\ told[n] = "none" /\ running = {}
    /\ Move(n, "open")
    /\ UNCHANGED <<told, running, closed>>

\* A stream ends: by its response, by the server, or by a callback.  No pending
\* stream ends while a subscription callback runs.
End(n) ==
    /\ phase[n] = "open" \/ (phase[n] = "pending" /\ running = {})
    /\ Move(n, "ended")
    /\ UNCHANGED <<told, running, closed>>

\* A subscription callback is entered, and returns; when it fails or the event
\* was the last one, its stream ends with it.
Begin(n) ==
    /\ phase[n] = "open" /\ running = {}
    /\ running' = {n}
    /\ UNCHANGED <<phase, told, closed>>

Finish(n) ==
    /\ running = {n}
    /\ running' = {}
    /\ UNCHANGED phase \/ Move(n, "ended")
    /\ UNCHANGED <<told, closed>>

\* The caller is told that its request succeeded: there has been a response.
Succeed(n) ==
    /\ phase[n] \in {"open", "ended"} /\ told[n] = "none" /\ running = {}
    /\ told' = [told EXCEPT ![n] = "OK"]
    /\ UNCHANGED <<phase, running, closed>>

\* The caller is told of an error, and its stream has ended.  A caller whose
\* deadline has passed can take one other stream with it.
Fail(n, m, r) ==
    /\ phase[n] # "new" /\ told[n] = "none" /\ running = {}
    /\ told' = [told EXCEPT ![n] = r]
    /\ m = n \/ (r = "TIMEOUT" /\ phase[m] # "new")
    /\ phase' = [phase EXCEPT ![n] = "ended", ![m] = "ended"]
    /\ UNCHANGED <<running, closed>>

\* A thread closes a subscription that has been accepted, perhaps again.
Close(n) ==
    /\ phase[n] \in {"open", "ended"} /\ running = {}
    /\ Move(n, "ended")
    /\ closed' = closed \cup {n}
    /\ UNCHANGED <<told, running>>

Next ==
    \E n \in Stream :
        \/ Request(n)
        \/ Open(n)
        \/ End(n)
        \/ Begin(n)
        \/ Finish(n)
        \/ Succeed(n)
        \/ \E m \in Stream, r \in {"FAILED", "TIMEOUT"} : Fail(n, m, r)
        \/ Close(n)

Spec == Init /\ [][Next]_vars
=============================================================================
