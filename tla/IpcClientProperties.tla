------------------------ MODULE IpcClientProperties ------------------------
(* What the GG-IPC client guarantees, and the fairness its liveness needs. *)
EXTENDS IpcClient

\* The variables have their types.
TypeOK ==
    /\ stream_state_mtx \in Threads \cup {Recv, NoThread}
    /\ stream_state_id \in [Slots -> 0..MaxCalls]
    /\ stream_state_generation \in [Slots -> 0..(GenMod - 1)]
    /\ stream_state_handler \in [Slots -> StreamHandlers]
    /\ next_stream_id \in 1..(MaxCalls + 1)
    /\ pc \in [Threads -> {"idle", "begin", "send", "wait", "expired"}]
    /\ frame \in [Threads -> Frames]
    /\ expiries \in 0..MaxExpiries
    /\ rpc \in {"poll", "dispatch", "response", "event", "closed", "exited"}
    /\ stream_id \in 0..MaxCalls
    /\ msg \in Messages
    /\ cur \in [index : Slots, ctx : Threads \cup Ids \cup {NoThread}]
    /\ handles \subseteq Handles
    /\ outcome \in [Ids -> Results \cup {"none"}]
    /\ answered \subseteq Ids
    /\ ended \subseteq 0..MaxCalls
    /\ closed \subseteq 0..MaxCalls

-----------------------------------------------------------------------------
(* Stack frames and slots. *)

\* Thread t is inside ggipc_subscribe, has claimed slot i, and has not been
\* given its response.
Awaits(t, i) ==
    /\ t \in Threads
    /\ pc[t] \in {"send", "wait", "expired"}
    /\ frame[t].index = i
    /\ ~frame[t].ready

\* response_handler writes through a pointer into the stack of the waiting
\* thread.  Every slot that would route a packet to it points to the frame of
\* a call that has not returned, that claimed the slot under this stream id,
\* and that has no response yet; and so does the pointer that the receive
\* thread holds while a response callback runs.
FrameSafety ==
    /\ \A i \in Slots :
         (stream_state_id[i] # 0 /\ stream_state_handler[i].fn = "null") =>
            /\ Awaits(stream_state_handler[i].ctx, i)
            /\ frame[stream_state_handler[i].ctx].sid = stream_state_id[i]
    /\ rpc = "response" =>
            /\ Awaits(cur.ctx, cur.index)
            /\ frame[cur.ctx].sid = stream_id

\* The first slot that matches a stream id is the only one: live stream ids
\* are distinct and were handed out by next_stream_id.
DistinctStreamIds ==
    \A i, j \in Slots :
        stream_state_id[i] # 0 =>
            /\ stream_state_id[i] < next_stream_id
            /\ stream_state_id[i] = stream_state_id[j] => i = j

\* A slot in use belongs to a call that awaits its response or to a live
\* subscription: no sequence of errors, timeouts and closes loses a slot.
NoSlotLeak ==
    \A i \in Slots : stream_state_id[i] # 0 =>
        \/ \E t \in Threads :
              Awaits(t, i) /\ frame[t].sid = stream_state_id[i]
        \/ /\ stream_state_handler[i] = SubHandler(stream_state_id[i])
           /\ stream_state_id[i] \notin ended

-----------------------------------------------------------------------------
(* Callbacks. *)

\* A subscription callback gets only events of the stream that its own call
\* opened (client_raw.h: sub_callback is invoked for subscription events).
EventsReachTheirSubscription ==
    rpc = "event" => cur.ctx = stream_id

\* The response callback of a call runs at most once: the closure that the
\* Rust bindings pass as its context is consumed by the first run.
ResponseAtMostOnce ==
    rpc = "response" => frame[cur.ctx].sid \notin answered

\* When an application thread has returned from closing a subscription, its
\* callback is not running and no slot can start it again (subscription.hpp:
\* "After this function returns, the Subscription's associated
\* SubscriptionCallback (if any) is no longer called").
QuiescentAfterClose ==
    \A n \in closed \ {0} :
        /\ \A i \in Slots : stream_state_handler[i] # SubHandler(n)
        /\ ~(rpc = "event" /\ cur.ctx = n)

\* When ggipc_subscribe has returned an error, its subscription callback is not
\* running and no slot can start it: the caller may free the context.
NoOrphanSubscription ==
    \A n \in Ids : outcome[n] \in {"FAILED", "TIMEOUT"} =>
        /\ \A i \in Slots : stream_state_handler[i] # SubHandler(n)
        /\ ~(rpc = "event" /\ cur.ctx = n)

-----------------------------------------------------------------------------
(* Handles and lifetimes. *)

\* A handle that validates names the subscription it was issued for, so that
\* closing a stale handle never ends another stream or a pending call.
HandlesNotReused ==
    \A h \in handles : validate_handle(h) =>
        /\ stream_state_id[handle_index(h)] = h.sid
        /\ stream_state_handler[handle_index(h)] = SubHandler(h.sid)

\* A subscription that ggipc_subscribe reported open stays open until it is
\* closed, the server ends it or its callback fails (client_raw.h: "Invokes
\* `sub_callback` for each subscription event").
SubscriptionStaysOpen ==
    \A h \in handles :
        (h.sid # 0 /\ outcome[h.sid] = "OK" /\ h.sid \notin ended) =>
            \E i \in Slots : stream_state_handler[i] = SubHandler(h.sid)

\* As long as no wait has reached its deadline, that is so: whatever calls, late
\* or repeated closes and errors of other streams do to the table.
PromptSubscriptionStaysOpen == expiries = 0 => SubscriptionStaysOpen

\* A call that waits for its response, as long as no wait has reached its
\* deadline, still has its slot, so that the response can reach it.
WaitersKeepTheirSlot ==
    \A t \in Threads : (expiries = 0 /\ pc[t] = "wait" /\ ~frame[t].ready) =>
        /\ stream_state_id[frame[t].index] = frame[t].sid
        /\ stream_state_handler[frame[t].index] = PendingHandler(t)

-----------------------------------------------------------------------------
(* Streams, as the application sees them. *)

InTable(n, fn) ==
    \E i \in Slots : stream_state_id[i] = n /\ stream_state_handler[i].fn = fn

\* Where the table, the id counter and the handlers say that stream n is.
Phase(n) ==
    IF InTable(n, "sub") THEN "open"
    ELSE IF InTable(n, "null") THEN "pending"
    ELSE IF n < next_stream_id THEN "ended" ELSE "new"

Phases == [n \in Ids |-> Phase(n)]

\* The stream whose subscription callback is running, if there is one.
EventStreams == {n \in {stream_id} : rpc = "event"}

Service == INSTANCE IpcStreamService WITH
    Stream <- Ids, phase <- Phases, told <- outcome, running <- EventStreams

\* The client implements the stream service: slots that are claimed, cleared
\* and reused, late responses and closes of stale handles never show in what
\* happens to a stream, except that a deadline that passes can end one other
\* stream (client.h promises the service, not the table).
IsStreamService == Service!Spec

-----------------------------------------------------------------------------
(* Liveness.  A thread that can run is scheduled; a mutex that is released   *)
(* again and again is eventually obtained; a deadline passes; user callbacks *)
(* return.  Nothing is assumed of the server or of when the application      *)
(* makes its calls.                                                          *)

Fairness ==
    /\ \A t \in Threads :
         /\ SF_vars(SubscribeClaim(t) \/ SubscribeNoMem(t))
         /\ WF_vars(SubscribeSend(t) \/ SubscribeSendFail(t))
         /\ SF_vars(SubscribeWake(t))
         /\ WF_vars(SubscribeExpire(t))
         /\ SF_vars(SubscribeTimedOut(t))
    /\ WF_vars(CallbackReturn)

FairSpec == Spec /\ Fairness

\* Every call returns, or the process ends (client.h: the response timeout is
\* the "Maximum time IPC functions will wait for server response").
CallsReturn ==
    \A t \in Threads : pc[t] = "begin" ~> (pc[t] = "idle" \/ ~Running)
=============================================================================
