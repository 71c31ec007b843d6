----------------------------- MODULE IpcClient -----------------------------
(***************************************************************************)
(* The GG-IPC client (src/src/ipc/client.c) once it is connected: the      *)
(* table of stream slots that application threads and the receive thread   *)
(* share, the calls and subscriptions that occupy the slots, and the       *)
(* dispatch of the server's packets to them.                               *)
(*                                                                         *)
(* An action is one critical section of stream_state_mtx, or one step      *)
(* outside it.  User callbacks run on the receive thread with the mutex    *)
(* held: from a Dispatch...Call action to a ...Return action.  The server  *)
(* is arbitrary: any packet may arrive at any time.                        *)
(***************************************************************************)
EXTENDS Integers, FiniteSets

CONSTANTS
    Threads,      \* application threads
    Recv,         \* the receive thread
    NoThread,     \* nobody: the owner of a free mutex, a NULL pointer
    MaxStreams,   \* GG_IPC_MAX_STREAMS, the number of slots
    GenMod,       \* 2^16 in the code: generations are uint16_t
    MaxCalls,     \* bound: stream ids handed out (2^31 - 1 in the code)
    MaxExpiries   \* bound: waits that reach their deadline

ASSUME ThreadsAssumption ==
    /\ Recv \notin Threads
    /\ NoThread \notin Threads \cup {Recv}

\* A static assertion of client.c: slot numbers fit in 16 bits.
ASSUME BoundsAssumption ==
    /\ MaxStreams \in Nat /\ 0 < MaxStreams /\ MaxStreams < 65536
    /\ GenMod \in Nat \ {0}
    /\ MaxCalls \in Nat
    /\ MaxExpiries \in Nat

VARIABLES
    stream_state_mtx,         \* owner of the mutex
    stream_state_id,          \* slot -> stream id, 0 when the slot is free
    stream_state_generation,  \* slot -> generation
    stream_state_handler,     \* slot -> StreamHandler
    next_stream_id,           \* static counter of ggipc_subscribe
    pc,                       \* thread -> where it is in ggipc_subscribe
    frame,                    \* thread -> locals of its ggipc_subscribe
    expiries,                 \* waits that have reached their deadline
    rpc,                      \* where the receive thread is
    stream_id,                \* stream id of the packet it has read
    msg,                      \* what the packet says, once it is looked at
    cur,                      \* slot index and ctx that the dispatch captured
    handles,                  \* subscription handles the application has seen
    outcome,                  \* history: what the call with this id returned
    answered,                 \* history: calls whose response callback ran
    ended,                    \* history: subscriptions ended for a reason
    closed                    \* history: subscriptions a thread has closed

slotVars   == <<stream_state_id, stream_state_generation, stream_state_handler>>
threadVars == <<next_stream_id, pc, frame, expiries>>
recvVars   == <<rpc, stream_id, msg, cur>>
appVars    == <<handles, outcome, answered, ended, closed>>
vars == <<stream_state_mtx, slotVars, threadVars, recvVars, appVars>>

-----------------------------------------------------------------------------
(* Data. *)

Slots == 0..(MaxStreams - 1)
Ids   == 1..MaxCalls

\* A request with only a response, or a subscription.
Kinds == {"call", "sub"}

\* GgError, as far as the control flow tells its values apart.
Results == {"OK", "FAILED", "TIMEOUT"}

\* What a packet says besides its stream id.  A body is a JSON object ("map"),
\* one without the JSON content-type header ("untyped"), one too large to
\* decode ("large"), or anything else ("bad").
Messages ==
    [type : {"message"}, term : BOOLEAN, body : {"map", "untyped", "large", "bad"}]
    \cup [type : {"error"}, term : BOOLEAN, body : {"map", "bad"}]
    \cup [type : {"other"}, term : BOOLEAN, body : {"bad"}]

NoMessage == [type |-> "other", term |-> FALSE, body |-> "bad"]

\* With a NULL fn a response is awaited and ctx is the stack frame of the
\* waiting thread; otherwise ctx is the context of the subscription, named by
\* the id of the call that made it.
StreamHandlers == [fn : {"null", "sub"}, ctx : Threads \cup Ids \cup {NoThread}]

ZeroHandler       == [fn |-> "null", ctx |-> NoThread]
PendingHandler(t) == [fn |-> "null", ctx |-> t]
SubHandler(n)     == [fn |-> "sub", ctx |-> n]

\* Locals of ggipc_subscribe: the slot, its generation when it was claimed,
\* the stream id, and what response_handler writes through the ctx pointer.
Frames == [kind : Kinds, index : Slots, gen : 0..(GenMod - 1), sid : 0..MaxCalls,
           ready : BOOLEAN, ret : Results]

NewFrame(k, i, g, n) == [kind |-> k, index |-> i, gen |-> g, sid |-> n,
                         ready |-> FALSE, ret |-> "TIMEOUT"]

NoFrame == NewFrame("call", 0, 0, 0)

\* The low 16 bits and the generation of a handle, the slot number plus one.
\* sid is not in the code: it names the subscription that the handle is for.
Handles == [low : 0..MaxStreams, gen : 0..(GenMod - 1), sid : 0..MaxCalls]

ZeroHandle == [low |-> 0, gen |-> 0, sid |-> 0]

get_current_handle(i) ==
    [low |-> i + 1, gen |-> stream_state_generation[i], sid |-> stream_state_id[i]]

\* The underflow of the zero handle fails the bounds check.
handle_index(h) == (h.low - 1) % 65536

\* Mutant: the generation is not compared.
validate_handle_NoGeneration(h) == handle_index(h) < MaxStreams

validate_handle(h) ==
    /\ handle_index(h) < MaxStreams
    /\ stream_state_generation[handle_index(h)] = h.gen

\* Mutant: the comparison is not an equality.
get_stream_index_from_id_AtLeast(n, i) ==
    /\ n > 0
    /\ stream_state_id[i] >= n
    /\ \A j \in Slots : j < i => stream_state_id[j] < n

\* i is the first slot with stream id n.
get_stream_index_from_id(n, i) ==
    /\ n > 0
    /\ stream_state_id[i] = n
    /\ \A j \in Slots : j < i => stream_state_id[j] # n

NextGen(g) == (g + 1) % GenMod

\* Takes the first free slot and starts a new generation of it.  The id -1
\* that it leaves is overwritten before the mutex is released.
claim_stream_index(i) ==
    /\ stream_state_id[i] = 0
    /\ \A j \in Slots : j < i => stream_state_id[j] # 0
    /\ stream_state_generation' =
           [stream_state_generation EXCEPT ![i] = NextGen(@)]

set_stream_index(i, n, h) ==
    /\ stream_state_id' = [stream_state_id EXCEPT ![i] = n]
    /\ stream_state_handler' = [stream_state_handler EXCEPT ![i] = h]

\* Mutant: a cleared slot keeps its generation.
clear_stream_index_SameGeneration(i) ==
    /\ UNCHANGED stream_state_generation
    /\ set_stream_index(i, 0, ZeroHandler)

\* Mutant: a cleared slot keeps the mark of a claimed one.
clear_stream_index_Claimed(i) ==
    /\ stream_state_generation' =
           [stream_state_generation EXCEPT ![i] = NextGen(@)]
    /\ set_stream_index(i, -1, ZeroHandler)

clear_stream_index(i) ==
    /\ stream_state_generation' =
           [stream_state_generation EXCEPT ![i] = NextGen(@)]
    /\ set_stream_index(i, 0, ZeroHandler)

-----------------------------------------------------------------------------
(* Initial state: the client is connected, nothing has been called. *)

Init ==
    /\ stream_state_mtx = NoThread
    /\ stream_state_id = [i \in Slots |-> 0]
    /\ stream_state_generation = [i \in Slots |-> 0]
    /\ stream_state_handler = [i \in Slots |-> ZeroHandler]
    /\ next_stream_id = 1
    /\ pc = [t \in Threads |-> "idle"]
    /\ frame = [t \in Threads |-> NoFrame]
    /\ expiries = 0
    /\ rpc = "poll"
    /\ stream_id = 0
    /\ msg = NoMessage
    /\ cur = [index |-> 0, ctx |-> NoThread]
    /\ handles = {ZeroHandle}
    /\ outcome = [n \in Ids |-> "none"]
    /\ answered = {}
    /\ ended = {}
    /\ closed = {}

Running == rpc # "exited"
MtxFree == stream_state_mtx = NoThread

-----------------------------------------------------------------------------
(* ggipc_call and ggipc_subscribe, on an application thread. *)

\* The bound counts the calls that are yet to claim a slot.
SubscribeBegin(t, k) ==
    /\ Running /\ pc[t] = "idle"
    /\ next_stream_id + Cardinality({u \in Threads : pc[u] = "begin"}) <= MaxCalls
    /\ pc' = [pc EXCEPT ![t] = "begin"]
    /\ frame' = [frame EXCEPT ![t] = NewFrame(k, 0, 0, 0)]
    /\ UNCHANGED <<stream_state_mtx, slotVars, next_stream_id, expiries,
                   recvVars, appVars>>

\* Mutant: the stream id is taken without being counted.
SubscribeClaim_SameId(t) ==
    /\ Running /\ pc[t] = "begin" /\ MtxFree
    /\ \E i \in Slots :
         /\ claim_stream_index(i)
         /\ set_stream_index(i, next_stream_id, PendingHandler(t))
         /\ frame' = [frame EXCEPT ![t] =
               NewFrame(@.kind, i, NextGen(stream_state_generation[i]),
                        next_stream_id)]
    /\ stream_state_mtx' = t
    /\ pc' = [pc EXCEPT ![t] = "send"]
    /\ UNCHANGED <<next_stream_id, expiries, recvVars, appVars>>

\* Locks the mutex, claims a slot and points it at this thread's frame.
SubscribeClaim(t) ==
    /\ Running /\ pc[t] = "begin" /\ MtxFree
    /\ next_stream_id <= MaxCalls
    /\ \E i \in Slots :
         /\ claim_stream_index(i)
         /\ set_stream_index(i, next_stream_id, PendingHandler(t))
         /\ frame' = [frame EXCEPT ![t] =
               NewFrame(@.kind, i, NextGen(stream_state_generation[i]),
                        next_stream_id)]
    /\ next_stream_id' = next_stream_id + 1
    /\ stream_state_mtx' = t
    /\ pc' = [pc EXCEPT ![t] = "send"]
    /\ UNCHANGED <<expiries, recvVars, appVars>>

\* No slot is free: NOMEM.
SubscribeNoMem(t) ==
    /\ Running /\ pc[t] = "begin" /\ MtxFree
    /\ \A i \in Slots : stream_state_id[i] # 0
    /\ pc' = [pc EXCEPT ![t] = "idle"]
    /\ frame' = [frame EXCEPT ![t] = NoFrame]
    /\ UNCHANGED <<stream_state_mtx, slotVars, next_stream_id, expiries,
                   recvVars, appVars>>

\* The request is written, and the timed wait releases the mutex.
SubscribeSend(t) ==
    /\ Running /\ pc[t] = "send" /\ stream_state_mtx = t
    /\ pc' = [pc EXCEPT ![t] = "wait"]
    /\ stream_state_mtx' = NoThread
    /\ UNCHANGED <<slotVars, next_stream_id, frame, expiries, recvVars, appVars>>

\* The call returns r: the thread leaves the frame, and on success the caller
\* of a subscription has its handle.
Return(t, r) ==
    /\ pc' = [pc EXCEPT ![t] = "idle"]
    /\ frame' = [frame EXCEPT ![t] = NoFrame]
    /\ outcome' = [outcome EXCEPT ![frame[t].sid] = r]
    /\ handles' = handles \cup
          {h \in {[low |-> frame[t].index + 1, gen |-> frame[t].gen,
                   sid |-> frame[t].sid]} : frame[t].kind = "sub" /\ r = "OK"}
    /\ UNCHANGED <<next_stream_id, answered, ended, closed>>

\* Mutant: the slot of a request that was not sent is not released.
SubscribeSendFail_NoClear(t) ==
    /\ Running /\ pc[t] = "send" /\ stream_state_mtx = t
    /\ Return(t, "FAILED")
    /\ stream_state_mtx' = NoThread
    /\ UNCHANGED <<slotVars, expiries, recvVars>>

\* Encoding or writing the request fails.
SubscribeSendFail(t) ==
    /\ Running /\ pc[t] = "send" /\ stream_state_mtx = t
    /\ clear_stream_index(frame[t].index)
    /\ Return(t, "FAILED")
    /\ stream_state_mtx' = NoThread
    /\ UNCHANGED <<expiries, recvVars>>

\* The waiter has been signalled, has the mutex again and sees ready.  A
\* wakeup that finds ready false goes back to waiting and changes nothing.
SubscribeWake(t) ==
    /\ Running /\ pc[t] = "wait" /\ MtxFree
    /\ frame[t].ready
    /\ Return(t, frame[t].ret)
    /\ UNCHANGED <<stream_state_mtx, slotVars, expiries, recvVars>>

\* The deadline passes while the thread is blocked in the timed wait.  It has
\* to lock the mutex again before pthread_cond_timedwait returns ETIMEDOUT.
SubscribeExpire(t) ==
    /\ Running /\ pc[t] = "wait"
    /\ ~frame[t].ready
    /\ expiries < MaxExpiries
    /\ expiries' = expiries + 1
    /\ pc' = [pc EXCEPT ![t] = "expired"]
    /\ UNCHANGED <<stream_state_mtx, slotVars, next_stream_id, frame, recvVars,
                   appVars>>

\* Mutant: the slot is left to a late response.
SubscribeTimedOut_NoClear(t) ==
    /\ Running /\ pc[t] = "expired" /\ MtxFree
    /\ Return(t, "TIMEOUT")
    /\ UNCHANGED <<slotVars, stream_state_mtx, expiries, recvVars>>

\* Mutant: the slot is cleared only if it still awaits a response.
SubscribeTimedOut_IfPending(t) ==
    /\ Running /\ pc[t] = "expired" /\ MtxFree
    /\ IF stream_state_handler[frame[t].index].fn = "null"
       THEN clear_stream_index(frame[t].index)
       ELSE UNCHANGED slotVars
    /\ Return(t, "TIMEOUT")
    /\ UNCHANGED <<stream_state_mtx, expiries, recvVars>>

\* Mutant: a timeout is handled like an interrupted wait.
SubscribeTimedOut_WaitAgain(t) ==
    /\ Running /\ pc[t] = "expired" /\ MtxFree
    /\ pc' = [pc EXCEPT ![t] = "wait"]
    /\ expiries' = expiries - 1
    /\ UNCHANGED <<stream_state_mtx, slotVars, next_stream_id, frame, recvVars,
                   appVars>>

\* ETIMEDOUT: the slot is cleared and TIMEOUT returned, whatever has happened
\* to the slot and to ready in the meantime.
SubscribeTimedOut(t) ==
    /\ Running /\ pc[t] = "expired" /\ MtxFree
    /\ clear_stream_index(frame[t].index)
    /\ Return(t, "TIMEOUT")
    /\ UNCHANGED <<stream_state_mtx, expiries, recvVars>>

-----------------------------------------------------------------------------
(* ggipc_close_subscription *)

\* The part under the mutex: a handle that does not validate is ignored; for
\* one that does, the server is told and the slot is cleared.
close_subscription(h) ==
    IF validate_handle(h)
    THEN /\ clear_stream_index(handle_index(h))
         /\ ended' = ended \cup {h.sid}
    ELSE UNCHANGED <<slotVars, ended>>

\* Mutant: closing does not lock the mutex.
CloseSubscription_NoLock(t, h) ==
    /\ Running /\ pc[t] = "idle"
    /\ close_subscription(h)
    /\ closed' = closed \cup ({h.sid} \ {0})
    /\ UNCHANGED <<stream_state_mtx, threadVars, recvVars, handles, outcome,
                   answered>>

\* An application thread closes a handle that it has seen, perhaps again.
CloseSubscription(t, h) ==
    /\ Running /\ pc[t] = "idle" /\ MtxFree
    /\ close_subscription(h)
    /\ closed' = closed \cup ({h.sid} \ {0})
    /\ UNCHANGED <<stream_state_mtx, threadVars, recvVars, handles, outcome,
                   answered>>

\* A user callback closes a handle; the mutex is recursive.
CallbackClose(h) ==
    /\ rpc \in {"response", "event"} /\ stream_state_mtx = Recv
    /\ close_subscription(h)
    /\ UNCHANGED <<stream_state_mtx, threadVars, recvVars, handles, outcome,
                   answered, closed>>

\* A user callback makes a call: INVALID, because this is the receive thread.
CallbackSubscribe ==
    /\ rpc \in {"response", "event"}
    /\ UNCHANGED vars

-----------------------------------------------------------------------------
(* The receive thread. *)

\* A well-formed packet with a stream id that is not negative is read, without
\* the mutex.  The rest of it is chosen when the dispatch first looks at it.
ReadPacket ==
    /\ rpc = "poll"
    /\ stream_id' \in 0..MaxCalls
    /\ rpc' = "dispatch"
    /\ UNCHANGED <<stream_state_mtx, slotVars, threadVars, msg, cur, appVars>>

\* End of file, a read error, or a packet whose framing or headers are bad:
\* the connection is closed, but ipc_conn_fd keeps its value.
ReadFail ==
    /\ rpc = "poll"
    /\ rpc' = "closed"
    /\ UNCHANGED <<stream_state_mtx, slotVars, threadVars, stream_id, msg, cur,
                   appVars>>

\* The epoll loop returns after a failed callback or a failed epoll_wait, and
\* the receive thread ends the process.
Exit ==
    /\ rpc \in {"poll", "closed"}
    /\ rpc' = "exited"
    /\ UNCHANGED <<stream_state_mtx, slotVars, threadVars, stream_id, msg, cur,
                   appVars>>

\* The receive thread is done with the packet.
Poll ==
    /\ rpc' = "poll"
    /\ stream_id' = 0
    /\ msg' = NoMessage
    /\ cur' = [index |-> 0, ctx |-> NoThread]

\* No slot has the stream id: the packet is dropped.
DispatchDrop ==
    /\ rpc = "dispatch" /\ MtxFree
    /\ \A i \in Slots : ~get_stream_index_from_id(stream_id, i)
    /\ Poll
    /\ UNCHANGED <<stream_state_mtx, slotVars, threadVars, appVars>>

\* The mutex is locked and the packet belongs to slot i.
Dispatching(i, fn) ==
    /\ rpc = "dispatch" /\ MtxFree
    /\ get_stream_index_from_id(stream_id, i)
    /\ stream_state_handler[i].fn = fn

\* A user callback is entered, with the mutex held.
EnterCallback(i, m, where) ==
    /\ rpc' = where
    /\ msg' = m
    /\ cur' = [index |-> i, ctx |-> stream_state_handler[i].ctx]
    /\ stream_state_mtx' = Recv
    /\ UNCHANGED <<slotVars, threadVars, stream_id, outcome, answered, ended,
                   closed>>

\* Whether response_handler_inner can invoke result_callback or error_callback.
InvokesResponseCallback(m) ==
    \/ m.type = "message" /\ m.body \in {"map", "untyped"}
    \/ m.type = "error" /\ m.body = "map"

\* What it can return without a user callback: the callback is NULL, the
\* message is of another type, or it cannot be decoded.
ResultsWithoutCallback(m) ==
    {r \in {"OK", "FAILED"} :
        \/ r = "OK" /\ m.type = "message"
        \/ r = "FAILED" /\ (m.type # "message" \/ m.body \in {"large", "bad"})}

\* What it returns when the callback returns r: an error response is an error
\* whatever the callback says.
ResponseResult(m, r) == IF m.type = "error" THEN "FAILED" ELSE r

\* Mutant: the slot of a failed request is left for the waiter to release.
response_handler_KeepFailed(i, t, m, r) ==
    LET accepted == frame[t].kind = "sub" /\ r = "OK"
    IN  /\ IF accepted /\ ~m.term
           THEN set_stream_index(i, stream_id, SubHandler(frame[t].sid))
           ELSE UNCHANGED <<stream_state_id, stream_state_handler>>
        /\ UNCHANGED stream_state_generation
        /\ frame' = [frame EXCEPT ![t].ready = TRUE, ![t].ret = r]

\* The rest of response_handler, for slot i and the frame of thread t: a
\* subscription that was accepted takes over the slot, all else frees it.
response_handler(i, t, m, r) ==
    LET accepted == frame[t].kind = "sub" /\ r = "OK"
    IN  /\ IF accepted /\ ~m.term
           THEN /\ set_stream_index(i, stream_id, SubHandler(frame[t].sid))
                /\ UNCHANGED stream_state_generation
           ELSE clear_stream_index(i)
        /\ frame' = [frame EXCEPT ![t] = [@ EXCEPT
               !.ready = TRUE,
               !.ret = IF accepted /\ m.term THEN "FAILED" ELSE r]]

\* A response that needs no user callback.
DispatchResponse(i, m) ==
    /\ Dispatching(i, "null")
    /\ \E r \in ResultsWithoutCallback(m) :
          response_handler(i, stream_state_handler[i].ctx, m, r)
    /\ Poll
    /\ UNCHANGED <<stream_state_mtx, next_stream_id, pc, expiries, appVars>>

\* A response for which the user's callback is entered.
DispatchResponseCall(i, m) ==
    /\ Dispatching(i, "null")
    /\ InvokesResponseCallback(m)
    /\ EnterCallback(i, m, "response")
    /\ UNCHANGED handles

\* The response callback returns r.
ResponseReturn(r) ==
    /\ rpc = "response" /\ stream_state_mtx = Recv
    /\ response_handler(cur.index, cur.ctx, msg, ResponseResult(msg, r))
    /\ answered' = answered \cup {frame[cur.ctx].sid}
    /\ stream_state_mtx' = NoThread
    /\ Poll
    /\ UNCHANGED <<next_stream_id, pc, expiries, handles, outcome, ended, closed>>

\* Whether call_sub_callback gets as far as the user's callback, and what it
\* returns when it does not: a body that is too large is skipped.
InvokesSubCallback(m) == m.type = "message" /\ m.body = "map"

SubResultWithoutCallback(m) ==
    IF m.type = "message" /\ m.body = "large" THEN "OK" ELSE "FAILED"

\* The end of dispatch_incoming_packet for slot i of a subscription.
EventDone(i, m, r) ==
    IF r # "OK" \/ m.term
    THEN /\ clear_stream_index(i)
         /\ ended' = ended \cup {stream_id}
    ELSE UNCHANGED <<slotVars, ended>>

\* An event that never reaches the user's callback.
DispatchEvent(i, m) ==
    /\ Dispatching(i, "sub")
    /\ ~InvokesSubCallback(m)
    /\ EventDone(i, m, SubResultWithoutCallback(m))
    /\ Poll
    /\ UNCHANGED <<stream_state_mtx, threadVars, handles, outcome, answered,
                   closed>>

\* An event for which the subscription callback is entered, with its handle.
DispatchEventCall(i, m) ==
    /\ Dispatching(i, "sub")
    /\ InvokesSubCallback(m)
    /\ EnterCallback(i, m, "event")
    /\ handles' = handles \cup {get_current_handle(i)}

\* The subscription callback returns r.  If it closed its own handle and fails,
\* or the packet ends the stream, the slot is cleared a second time.
EventReturn(r) ==
    /\ rpc = "event" /\ stream_state_mtx = Recv
    /\ EventDone(cur.index, msg, r)
    /\ stream_state_mtx' = NoThread
    /\ Poll
    /\ UNCHANGED <<threadVars, handles, outcome, answered, closed>>

-----------------------------------------------------------------------------

\* Nothing is under way and nothing has to happen: the application makes no
\* further call, or the process has ended.
Quiescent ==
    /\ \/ rpc = "exited"
       \/ rpc = "poll" /\ \A t \in Threads : pc[t] = "idle"
    /\ UNCHANGED vars

ThreadNext(t) ==
    \/ \E k \in Kinds : SubscribeBegin(t, k)
    \/ SubscribeClaim(t)
    \/ SubscribeNoMem(t)
    \/ SubscribeSend(t)
    \/ SubscribeSendFail(t)
    \/ SubscribeWake(t)
    \/ SubscribeExpire(t)
    \/ SubscribeTimedOut(t)
    \/ \E h \in handles : CloseSubscription(t, h)

CallbackReturn ==
    \E r \in {"OK", "FAILED"} : ResponseReturn(r) \/ EventReturn(r)

RecvNext ==
    \/ ReadPacket
    \/ ReadFail
    \/ Exit
    \/ DispatchDrop
    \/ \E i \in Slots, m \in Messages :
         \/ DispatchResponse(i, m)
         \/ DispatchResponseCall(i, m)
         \/ DispatchEvent(i, m)
         \/ DispatchEventCall(i, m)
    \/ \E h \in handles : CallbackClose(h)
    \/ CallbackSubscribe
    \/ CallbackReturn

Next == (\E t \in Threads : ThreadNext(t)) \/ RecvNext \/ Quiescent

Spec == Init /\ [][Next]_vars
=============================================================================
