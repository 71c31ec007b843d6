---------------------- MODULE IpcClientCallbackProofs ----------------------
(***************************************************************************)
(* Proofs about which callbacks of the GG-IPC client can run, and when: an *)
(* event reaches the subscription it is for, a response callback runs at   *)
(* most once, and no callback outlives a subscribe that failed.            *)
(***************************************************************************)
EXTENDS IpcClientProofs

\* Thread t has claimed a slot and has not returned.
Active(t) == pc[t] \in {"send", "wait", "expired"}

\* Calls under way have stream ids of their own, and nothing is recorded about
\* a call before it happens.
CallInv ==
    /\ \A t \in Threads : Active(t) =>
         /\ frame[t].sid \in 1..(next_stream_id - 1)
         /\ outcome[frame[t].sid] = "none"
         /\ ~frame[t].ready => frame[t].sid \notin answered
    /\ \A t, u \in Threads :
         (Active(t) /\ Active(u) /\ frame[t].sid = frame[u].sid) => t = u
    /\ \A n \in Ids : n >= next_stream_id => outcome[n] = "none" /\ n \notin answered

\* The subscription in slot i was reported open, or will be by the thread that
\* claimed the slot, unless its deadline has passed.
Opened(i) ==
    \/ outcome[stream_state_id[i]] = "OK"
    \/ \E t \in Threads :
         /\ Active(t)
         /\ frame[t].index = i
         /\ frame[t].sid = stream_state_id[i]
         /\ frame[t].ready
         /\ frame[t].kind = "sub"
         /\ frame[t].ret = "OK"

\* A slot with a subscription callback has the stream id of its subscription.
SubInv ==
    \A i \in Slots : stream_state_handler[i].fn = "sub" =>
        /\ stream_state_id[i] \in Ids
        /\ stream_state_handler[i].ctx = stream_state_id[i]
        /\ Opened(i)

\* The subscription whose callback runs has not failed.
EventInv ==
    rpc = "event" =>
        /\ stream_id \in Ids
        /\ cur.ctx = stream_id
        /\ outcome[stream_id] \notin {"FAILED", "TIMEOUT"}

CInv == CallInv /\ SubInv /\ EventInv

-----------------------------------------------------------------------------

\* The invariant holds of a client that has just connected.
LEMMA InitCInv == Init => CInv
  BY DEF Init, CInv, CallInv, SubInv, EventInv, Active, ZeroHandler, Ids

\* Steps that leave the table, the frames of the active calls and the history
\* alone.
LEMMA QuietStep ==
    ASSUME IInv, CInv, UNCHANGED <<slotVars, next_stream_id, outcome, answered>>,
           EventInv',
           \A t \in Threads : Active(t)' <=> Active(t),
           \A t \in Threads : Active(t) => frame'[t] = frame[t]
    PROVE  CInv'
<1> USE DEF CInv, slotVars
<1>1. CallInv'
  BY DEF CallInv
<1>2. SubInv'
  BY DEF SubInv, Opened
<1> QED
  BY <1>1, <1>2

\* A call begins.
LEMMA BeginC ==
    ASSUME IInv, CInv, NEW t \in Threads, NEW k \in Kinds, SubscribeBegin(t, k)
    PROVE  CInv'
<1>1. EventInv'
  BY DEF SubscribeBegin, CInv, EventInv, recvVars, appVars
<1>2. \A u \in Threads : /\ Active(u)' <=> Active(u)
                         /\ Active(u) => frame'[u] = frame[u]
  BY DEF SubscribeBegin, Active, IInv, TypeOK
<1> QED
  BY <1>1, <1>2, QuietStep DEF SubscribeBegin, appVars

\* No slot is free.
LEMMA NoMemC ==
    ASSUME IInv, CInv, NEW t \in Threads, SubscribeNoMem(t)
    PROVE  CInv'
<1>1. EventInv'
  BY DEF SubscribeNoMem, CInv, EventInv, recvVars, appVars
<1>2. \A u \in Threads : /\ Active(u)' <=> Active(u)
                         /\ Active(u) => frame'[u] = frame[u]
  BY DEF SubscribeNoMem, Active, IInv, TypeOK
<1> QED
  BY <1>1, <1>2, QuietStep DEF SubscribeNoMem, appVars

\* A request is sent.
LEMMA SendC ==
    ASSUME IInv, CInv, NEW t \in Threads, SubscribeSend(t)
    PROVE  CInv'
<1>1. EventInv'
  BY DEF SubscribeSend, CInv, EventInv, recvVars, appVars
<1>2. \A u \in Threads : /\ Active(u)' <=> Active(u)
                         /\ Active(u) => frame'[u] = frame[u]
  BY DEF SubscribeSend, Active, IInv, TypeOK
<1> QED
  BY <1>1, <1>2, QuietStep DEF SubscribeSend, appVars

\* A deadline passes.
LEMMA ExpireC ==
    ASSUME IInv, CInv, NEW t \in Threads, SubscribeExpire(t)
    PROVE  CInv'
<1>1. EventInv'
  BY DEF SubscribeExpire, CInv, EventInv, recvVars, appVars
<1>2. \A u \in Threads : /\ Active(u)' <=> Active(u)
                         /\ Active(u) => frame'[u] = frame[u]
  BY DEF SubscribeExpire, Active, IInv, TypeOK
<1> QED
  BY <1>1, <1>2, QuietStep DEF SubscribeExpire, appVars

\* A packet is read, reading fails, the process ends, or a packet is dropped.
LEMMA ReadC ==
    ASSUME IInv, CInv, ReadPacket \/ ReadFail \/ Exit \/ DispatchDrop
    PROVE  CInv'
<1>1. EventInv'
  BY DEF ReadPacket, ReadFail, Exit, DispatchDrop, Poll, EventInv
<1> QED
  BY <1>1, QuietStep DEF ReadPacket, ReadFail, Exit, DispatchDrop, threadVars,
                         appVars, Active

\* A slot is claimed under a new stream id.
LEMMA ClaimC ==
    ASSUME IInv, CInv, NEW t \in Threads, SubscribeClaim(t)
    PROVE  CInv'
<1> USE DEF CInv
<1>1. PICK i \in Slots :
        /\ claim_stream_index(i)
        /\ set_stream_index(i, next_stream_id, PendingHandler(t))
        /\ frame' = [frame EXCEPT ![t] =
              NewFrame(frame[t].kind, i, NextGen(stream_state_generation[i]),
                       next_stream_id)]
  BY DEF SubscribeClaim
<1>2. next_stream_id \in Ids /\ next_stream_id \in 0..MaxCalls
  BY DEF SubscribeClaim, IInv, TypeOK, Ids
<1>3. PendingHandler(t) \in StreamHandlers /\ PendingHandler(t).fn = "null"
  BY DEF PendingHandler, StreamHandlers
<1>4. /\ stream_state_handler'[i].fn = "null"
      /\ \A j \in Slots \ {i} :
            /\ stream_state_id'[j] = stream_state_id[j]
            /\ stream_state_handler'[j] = stream_state_handler[j]
  BY <1>1, <1>2, <1>3, SetSlot DEF IInv
<1>5. /\ next_stream_id' = next_stream_id + 1
      /\ frame'[t].sid = next_stream_id
      /\ \A u \in Threads \ {t} : frame'[u] = frame[u] /\ (Active(u)' <=> Active(u))
      /\ ~Active(t)
      /\ UNCHANGED <<outcome, answered, rpc, stream_id, cur>>
  BY <1>1 DEF SubscribeClaim, IInv, TypeOK, NewFrame, Active, recvVars, appVars
<1>6. CallInv'
  <2>1. next_stream_id \in Int
    BY DEF IInv, TypeOK
  <2>2. \A n \in Ids : n >= next_stream_id + 1 => n >= next_stream_id
    BY <2>1 DEF Ids
  <2>3. 1..(next_stream_id - 1) \subseteq 1..next_stream_id
        /\ next_stream_id \in 1..next_stream_id
        /\ next_stream_id \notin 1..(next_stream_id - 1)
        /\ next_stream_id + 1 - 1 = next_stream_id
    BY <2>1, <1>2 DEF Ids
  <2>4. outcome[next_stream_id] = "none" /\ next_stream_id \notin answered
    BY <1>2, <2>1 DEF CallInv
  <2> QED
    BY <1>5, <2>2, <2>3, <2>4 DEF CallInv
<1>7. SubInv'
  BY <1>4, <1>5 DEF SubInv, Opened
<1>8. EventInv'
  BY <1>5 DEF EventInv
<1> QED
  BY <1>6, <1>7, <1>8

\* Returning from a call, with slot j kept and opened by someone else, leaves
\* its subscription open: the outcome that is recorded is of another call.
LEMMA ReturnKeepsOpened ==
    ASSUME IInv, CInv, NEW t \in Threads, NEW r \in Results, Return(t, r),
           Active(t), NEW j \in Slots, stream_state_id'[j] = stream_state_id[j],
           stream_state_id[j] \in Ids, Opened(j),
           \/ frame[t].index # j
           \/ frame[t].sid # stream_state_id[j]
           \/ r = "OK"
    PROVE  Opened(j)'
<1> USE DEF CInv
<1>1. outcome[frame[t].sid] = "none" /\ frame[t].sid \in Ids
  BY BoundsAssumption DEF CallInv, IInv, TypeOK, Ids
<1>2. /\ outcome' = [outcome EXCEPT ![frame[t].sid] = r]
      /\ \A u \in Threads \ {t} : frame'[u] = frame[u] /\ (Active(u)' <=> Active(u))
  BY DEF Return, IInv, TypeOK, Active
<1>3. CASE outcome[stream_state_id[j]] = "OK"
  <2>1. frame[t].sid # stream_state_id[j]
    BY <1>1, <1>3
  <2>2. outcome'[stream_state_id[j]] = "OK"
    BY <1>2, <1>3, <2>1 DEF IInv, TypeOK
  <2> QED
    BY <2>2 DEF Opened
<1>4. ASSUME NEW u \in Threads, Active(u), frame[u].index = j,
             frame[u].sid = stream_state_id[j], frame[u].ready,
             frame[u].kind = "sub", frame[u].ret = "OK"
      PROVE  Opened(j)'
  <2>1. CASE u # t
    BY <1>2, <1>4, <2>1 DEF Opened
  <2>2. CASE u = t
    <3>1. r = "OK" /\ frame[t].sid = stream_state_id[j]
      BY <1>4, <2>2
    <3>2. outcome'[stream_state_id[j]] = "OK"
      BY <1>1, <1>2, <3>1 DEF IInv, TypeOK
    <3> QED
      BY <3>2 DEF Opened
  <2> QED
    BY <2>1, <2>2
<1> QED
  BY <1>3, <1>4 DEF Opened

\* Returning keeps what is known of the calls under way.
LEMMA ReturnKeepsCalls ==
    ASSUME IInv, CInv, NEW t \in Threads, NEW r \in Results, Return(t, r),
           Active(t)
    PROVE  CallInv'
<1> USE DEF CInv
<1>1. frame[t].sid \in 1..(next_stream_id - 1) /\ frame[t].sid \in Ids
  BY BoundsAssumption DEF CallInv, IInv, TypeOK, Ids
<1>2. /\ outcome' = [outcome EXCEPT ![frame[t].sid] = r]
      /\ ~Active(t)'
      /\ \A u \in Threads \ {t} : frame'[u] = frame[u] /\ (Active(u)' <=> Active(u))
      /\ UNCHANGED <<next_stream_id, answered>>
  BY DEF Return, IInv, TypeOK, Active
<1>3. \A n \in Ids \ {frame[t].sid} : outcome'[n] = outcome[n]
  BY <1>2 DEF IInv, TypeOK
<1>4. ASSUME NEW u \in Threads, Active(u)'
      PROVE  /\ frame'[u].sid \in 1..(next_stream_id' - 1)
             /\ outcome'[frame'[u].sid] = "none"
             /\ ~frame'[u].ready => frame'[u].sid \notin answered'
  <2>1. u # t /\ Active(u) /\ frame'[u] = frame[u]
    BY <1>2, <1>4
  <2>2. frame[u].sid # frame[t].sid /\ frame[u].sid \in 1..(next_stream_id - 1)
    BY <2>1 DEF CallInv
  <2>3. frame[u].sid \in Ids
    BY <2>2, BoundsAssumption DEF IInv, TypeOK, Ids
  <2> QED
    BY <1>2, <1>3, <2>1, <2>2, <2>3 DEF CallInv
<1>5. ASSUME NEW u \in Threads, NEW v \in Threads, Active(u)', Active(v)',
             frame'[u].sid = frame'[v].sid
      PROVE  u = v
  BY <1>2, <1>5 DEF CallInv
<1>6. ASSUME NEW n \in Ids, n >= next_stream_id'
      PROVE  outcome'[n] = "none" /\ n \notin answered'
  <2>1. n # frame[t].sid
    BY <1>1, <1>2, <1>6 DEF Ids, IInv, TypeOK
  <2> QED
    BY <1>2, <1>3, <1>6, <2>1 DEF CallInv
<1> QED
  BY <1>4, <1>5, <1>6 DEF CallInv

\* A call that gives up clears its slot, and with it its own subscription if
\* the response came after the deadline.
LEMMA GiveUpC ==
    ASSUME IInv, CInv, NEW t \in Threads, NEW r \in Results,
           pc[t] \in {"send", "expired"},
           stream_state_mtx \in {t, NoThread},
           clear_stream_index(frame[t].index), Return(t, r),
           UNCHANGED recvVars
    PROVE  CInv'
<1> USE DEF CInv
<1> DEFINE i == frame[t].index
<1>1. Active(t) /\ i \in Slots
  BY DEF Active, IInv, TypeOK, Frames
<1>2. /\ stream_state_handler'[i].fn = "null"
      /\ \A j \in Slots \ {i} :
            /\ stream_state_id'[j] = stream_state_id[j]
            /\ stream_state_handler'[j] = stream_state_handler[j]
  <2>1. stream_state_handler'[i] = ZeroHandler
    BY <1>1 DEF clear_stream_index, set_stream_index, IInv, TypeOK
  <2> QED
    BY <1>1, <2>1, ClearSlot DEF IInv, ZeroHandler
<1>3. CallInv'
  BY <1>1, ReturnKeepsCalls
<1>4. SubInv'
  <2>1. ASSUME NEW j \in Slots, stream_state_handler'[j].fn = "sub"
        PROVE  /\ stream_state_id'[j] \in Ids
               /\ stream_state_handler'[j].ctx = stream_state_id'[j]
               /\ Opened(j)'
    <3>1. /\ j # i
          /\ stream_state_id'[j] = stream_state_id[j]
          /\ stream_state_handler'[j] = stream_state_handler[j]
      BY <1>2, <2>1
    <3>2. /\ stream_state_id[j] \in Ids
          /\ stream_state_handler[j].ctx = stream_state_id[j]
          /\ Opened(j)
      BY <2>1, <3>1 DEF SubInv
    <3>3. Opened(j)'
      BY <1>1, <3>1, <3>2, ReturnKeepsOpened
    <3> QED
      BY <3>1, <3>2, <3>3
  <2> QED
    BY <2>1 DEF SubInv
<1>5. EventInv'
  <2>1. rpc # "event"
    BY ThreadsAssumption DEF IInv, LockInv
  <2> QED
    BY <2>1 DEF EventInv, recvVars
<1> QED
  BY <1>3, <1>4, <1>5

\* A request cannot be sent.
LEMMA SendFailC ==
    ASSUME IInv, CInv, NEW t \in Threads, SubscribeSendFail(t)
    PROVE  CInv'
  BY GiveUpC DEF SubscribeSendFail, Results

\* A wait has timed out.
LEMMA TimedOutC ==
    ASSUME IInv, CInv, NEW t \in Threads, SubscribeTimedOut(t)
    PROVE  CInv'
  BY GiveUpC DEF SubscribeTimedOut, Results, MtxFree

\* A call returns its response: a subscription that it opened is reported so.
LEMMA WakeC ==
    ASSUME IInv, CInv, NEW t \in Threads, SubscribeWake(t)
    PROVE  CInv'
<1> USE DEF CInv
<1>1. /\ Active(t) /\ frame[t].ready /\ frame[t].ret \in Results
      /\ Return(t, frame[t].ret)
      /\ UNCHANGED <<slotVars, recvVars>>
  BY DEF SubscribeWake, Active, IInv, TypeOK, Frames
<1>2. CallInv'
  BY <1>1, ReturnKeepsCalls
<1>3. SubInv'
  <2>1. ASSUME NEW j \in Slots, stream_state_handler[j].fn = "sub"
        PROVE  Opened(j)'
    <3>1. stream_state_id[j] \in Ids /\ Opened(j) /\ stream_state_id'[j] = stream_state_id[j]
      BY <1>1, <2>1 DEF SubInv, slotVars
    <3>2. CASE frame[t].sid # stream_state_id[j]
      BY <1>1, <3>1, <3>2, ReturnKeepsOpened
    <3>3. CASE frame[t].sid = stream_state_id[j]
      <4>1. outcome[frame[t].sid] = "none"
        BY <1>1 DEF CallInv
      <4>2. PICK u \in Threads : /\ Active(u) /\ frame[u].sid = stream_state_id[j]
                                 /\ frame[u].ret = "OK"
        BY <3>1, <3>3, <4>1 DEF Opened
      <4>3. u = t
        BY <1>1, <3>3, <4>2 DEF CallInv
      <4> QED
        BY <1>1, <3>1, <4>2, <4>3, ReturnKeepsOpened
    <3> QED
      BY <3>2, <3>3
  <2> QED
    BY <1>1, <2>1 DEF SubInv, slotVars
<1>4. EventInv'
  <2>1. rpc # "event"
    BY ThreadsAssumption DEF SubscribeWake, MtxFree, IInv, LockInv
  <2> QED
    BY <1>1, <2>1 DEF EventInv, recvVars
<1> QED
  BY <1>2, <1>3, <1>4

-----------------------------------------------------------------------------
(* Steps that clear a slot or nothing, with the threads left alone. *)

\* One slot, or none, is cleared.
LEMMA ClearC ==
    ASSUME IInv, CInv, NEW i \in Slots,
           clear_stream_index(i) \/ UNCHANGED slotVars,
           UNCHANGED <<threadVars, outcome, answered>>, EventInv'
    PROVE  CInv'
<1> USE DEF CInv
<1>1. ASSUME NEW j \in Slots, stream_state_handler'[j].fn = "sub"
      PROVE  /\ stream_state_id'[j] = stream_state_id[j]
             /\ stream_state_handler'[j] = stream_state_handler[j]
  <2>1. CASE clear_stream_index(i)
    <3>1. stream_state_handler'[i] = ZeroHandler
      BY <2>1 DEF clear_stream_index, set_stream_index, IInv, TypeOK
    <3> QED
      BY <1>1, <2>1, <3>1, ClearSlot DEF IInv, ZeroHandler
  <2> QED
    BY <2>1 DEF slotVars
<1>2. CallInv'
  BY DEF CallInv, Active, threadVars
<1>3. SubInv'
  BY <1>1 DEF SubInv, Opened, Active, threadVars
<1> QED
  BY <1>2, <1>3

\* Closing a subscription, by a thread or by a callback.
LEMMA CloseKeepsC ==
    ASSUME IInv, CInv, NEW h \in handles, close_subscription(h),
           UNCHANGED <<threadVars, recvVars, outcome, answered>>
    PROVE  CInv'
<1>1. EventInv'
  BY DEF CInv, EventInv, recvVars
<1>2. h \in Handles
  BY DEF IInv, TypeOK
<1>3. CASE validate_handle(h)
  BY <1>1, <1>2, <1>3, HandleIndexType, ClearC DEF close_subscription
<1>4. CASE ~validate_handle(h)
  <2>1. 0 \in Slots /\ UNCHANGED slotVars
    BY <1>4, BoundsAssumption DEF Slots, close_subscription
  <2> QED
    BY <1>1, <2>1, ClearC
<1> QED
  BY <1>3, <1>4

\* An application thread runs ggipc_close_subscription.
LEMMA CloseC ==
    ASSUME IInv, CInv, NEW t \in Threads, NEW h \in handles,
           CloseSubscription(t, h)
    PROVE  CInv'
  BY CloseKeepsC DEF CloseSubscription

\* A user callback runs ggipc_close_subscription.
LEMMA CallbackCloseC ==
    ASSUME IInv, CInv, NEW h \in handles, CallbackClose(h)
    PROVE  CInv'
  BY CloseKeepsC DEF CallbackClose

\* An event is handled without a user callback.
LEMMA DispatchEventC ==
    ASSUME IInv, CInv, NEW i \in Slots, NEW m \in Messages, DispatchEvent(i, m)
    PROVE  CInv'
<1>1. EventInv'
  BY DEF DispatchEvent, Poll, EventInv
<1> QED
  BY <1>1, ClearC DEF DispatchEvent, EventDone

\* A subscription callback returns.
LEMMA EventReturnC ==
    ASSUME IInv, CInv, NEW r \in {"OK", "FAILED"}, EventReturn(r)
    PROVE  CInv'
<1>1. EventInv' /\ cur.index \in Slots
  BY DEF EventReturn, Poll, EventInv, IInv, TypeOK
<1> QED
  BY <1>1, ClearC DEF EventReturn, EventDone

-----------------------------------------------------------------------------
(* Callbacks are entered, and responses are handled. *)

\* A subscription callback is entered.
LEMMA DispatchEventCallC ==
    ASSUME IInv, CInv, NEW i \in Slots, NEW m \in Messages,
           DispatchEventCall(i, m)
    PROVE  CInv'
<1> USE DEF CInv
<1>1. /\ stream_state_id[i] = stream_id
      /\ stream_state_handler[i].fn = "sub"
      /\ EnterCallback(i, m, "event")
  BY DEF DispatchEventCall, Dispatching, get_stream_index_from_id
<1>2. /\ stream_id \in Ids
      /\ stream_state_handler[i].ctx = stream_id
      /\ outcome[stream_id] \notin {"FAILED", "TIMEOUT"}
  BY <1>1 DEF SubInv, Opened, CallInv
<1>3. EventInv'
  BY <1>1, <1>2 DEF EnterCallback, EventInv
<1> QED
  BY <1>1, <1>3, QuietStep DEF EnterCallback, threadVars, Active

\* A response callback is entered.
LEMMA DispatchResponseCallC ==
    ASSUME IInv, CInv, NEW i \in Slots, NEW m \in Messages,
           DispatchResponseCall(i, m)
    PROVE  CInv'
<1>1. EnterCallback(i, m, "response")
  BY DEF DispatchResponseCall
<1>2. EventInv'
  BY <1>1 DEF EnterCallback, EventInv
<1> QED
  BY <1>1, <1>2, QuietStep DEF EnterCallback, threadVars, Active

\* The rest of response_handler: the subscription that it installs is the one
\* of the frame that it makes ready.
LEMMA RespondC ==
    ASSUME IInv, CInv, NEW i \in Slots, NEW t \in Threads, NEW m \in Messages,
           NEW r \in Results, response_handler(i, t, m, r),
           Awaits(t, i), frame[t].sid = stream_id,
           UNCHANGED <<next_stream_id, pc, outcome>>,
           answered' \subseteq answered \cup {frame[t].sid},
           EventInv'
    PROVE  CInv'
<1> USE DEF CInv
<1>1. Active(t) /\ stream_id \in Ids
  <2>1. Active(t)
    BY DEF Awaits, Active
  <2> QED
    BY <2>1 DEF CallInv, IInv, TypeOK, Ids
<1>2. PICK x \in Results :
         /\ frame' = [frame EXCEPT ![t] = [frame[t] EXCEPT !.ready = TRUE, !.ret = x]]
         /\ (frame[t].kind = "sub" /\ r = "OK" /\ ~m.term) => x = "OK"
  BY DEF response_handler, Results
<1>3. /\ frame'[t].ready /\ frame'[t].ret = x
      /\ frame'[t].sid = frame[t].sid /\ frame'[t].index = frame[t].index
      /\ frame'[t].kind = frame[t].kind
      /\ \A u \in Threads \ {t} : frame'[u] = frame[u]
      /\ \A u \in Threads : Active(u)' <=> Active(u)
  <2>1. frame[t] \in Frames
    BY DEF IInv, TypeOK
  <2>2. ASSUME NEW f \in Frames
        PROVE  LET g == [f EXCEPT !.ready = TRUE, !.ret = x]
               IN  /\ g.ready /\ g.ret = x
                   /\ g.sid = f.sid /\ g.index = f.index /\ g.kind = f.kind
    BY DEF Frames
  <2> QED
    BY <1>2, <2>1, <2>2 DEF IInv, TypeOK, Active
<1>4. CallInv'
  <2>1. ASSUME NEW u \in Threads, Active(u)'
        PROVE  /\ frame'[u].sid \in 1..(next_stream_id' - 1)
               /\ outcome'[frame'[u].sid] = "none"
               /\ ~frame'[u].ready => frame'[u].sid \notin answered'
    <3>1. CASE u = t
      BY <1>1, <1>3, <3>1 DEF CallInv
    <3>2. CASE u # t
      <4>1. frame[u].sid # frame[t].sid
        BY <1>1, <1>3, <2>1, <3>2 DEF CallInv
      <4> QED
        BY <1>3, <2>1, <3>2, <4>1 DEF CallInv
    <3> QED
      BY <3>1, <3>2
  <2>2. ASSUME NEW u \in Threads, NEW v \in Threads, Active(u)', Active(v)',
               frame'[u].sid = frame'[v].sid
        PROVE  u = v
    <3>1. frame'[u].sid = frame[u].sid /\ frame'[v].sid = frame[v].sid
      BY <1>3
    <3> QED
      BY <1>3, <2>2, <3>1 DEF CallInv
  <2>3. ASSUME NEW n \in Ids, n >= next_stream_id'
        PROVE  outcome'[n] = "none" /\ n \notin answered'
    <3>1. frame[t].sid # n
      BY <1>1, <2>3 DEF CallInv, IInv, TypeOK, Ids
    <3> QED
      BY <2>3, <3>1 DEF CallInv
  <2> QED
    BY <2>1, <2>2, <2>3 DEF CallInv
<1>5. SubInv'
  <2>1. ASSUME NEW j \in Slots, stream_state_handler'[j].fn = "sub", j # i
        PROVE  /\ stream_state_id'[j] \in Ids
               /\ stream_state_handler'[j].ctx = stream_state_id'[j]
               /\ Opened(j)'
    <3>1. /\ stream_state_id'[j] = stream_state_id[j]
          /\ stream_state_handler'[j] = stream_state_handler[j]
      BY <2>1 DEF response_handler, clear_stream_index, set_stream_index, IInv, TypeOK
    <3>2. /\ stream_state_id[j] \in Ids
          /\ stream_state_handler[j].ctx = stream_state_id[j]
          /\ Opened(j)
      BY <2>1, <3>1 DEF SubInv
    <3>3. Opened(j)'
      <4>1. CASE outcome[stream_state_id[j]] = "OK"
        BY <3>1, <4>1 DEF Opened
      <4>2. ASSUME NEW u \in Threads, Active(u), frame[u].index = j,
                   frame[u].sid = stream_state_id[j], frame[u].ready,
                   frame[u].kind = "sub", frame[u].ret = "OK"
            PROVE  Opened(j)'
        <5>1. u # t
          BY <4>2 DEF Awaits
        <5> QED
          BY <1>3, <3>1, <4>2, <5>1 DEF Opened
      <4> QED
        BY <3>2, <4>1, <4>2 DEF Opened
    <3> QED
      BY <3>1, <3>2, <3>3
  <2>2. ASSUME stream_state_handler'[i].fn = "sub"
        PROVE  /\ stream_state_id'[i] \in Ids
               /\ stream_state_handler'[i].ctx = stream_state_id'[i]
               /\ Opened(i)'
    <3>1. ~clear_stream_index(i)
      BY <2>2 DEF clear_stream_index, set_stream_index, ZeroHandler, IInv, TypeOK
    <3>2. /\ set_stream_index(i, stream_id, SubHandler(stream_id))
          /\ x = "OK" /\ frame[t].kind = "sub"
      BY <1>2, <3>1 DEF response_handler
    <3>3. /\ stream_state_id'[i] = stream_id
          /\ stream_state_handler'[i].ctx = stream_id
      BY <3>2 DEF set_stream_index, SubHandler, IInv, TypeOK
    <3>4. Opened(i)'
      BY <1>1, <1>3, <3>2, <3>3 DEF Opened, Awaits
    <3> QED
      BY <1>1, <3>3, <3>4
  <2> QED
    BY <2>1, <2>2 DEF SubInv
<1> QED
  BY <1>4, <1>5

\* A response is handled without a user callback.
LEMMA DispatchResponseC ==
    ASSUME IInv, CInv, NEW i \in Slots, NEW m \in Messages, DispatchResponse(i, m)
    PROVE  CInv'
<1>1. PICK r \in ResultsWithoutCallback(m) :
         response_handler(i, stream_state_handler[i].ctx, m, r)
  BY DEF DispatchResponse
<1>2. r \in Results
  BY <1>1 DEF ResultsWithoutCallback, Results
<1>3. EventInv'
  BY DEF DispatchResponse, Poll, EventInv
<1>4. /\ Dispatching(i, "null")
      /\ UNCHANGED <<next_stream_id, pc, outcome, answered>>
  BY DEF DispatchResponse, appVars
<1> QED
  BY <1>1, <1>2, <1>3, <1>4, DispatchedSlot, RespondC

\* A response callback returns and response_handler finishes.
LEMMA ResponseReturnC ==
    ASSUME IInv, CInv, NEW r \in {"OK", "FAILED"}, ResponseReturn(r)
    PROVE  CInv'
<1>1. ResponseResult(msg, r) \in Results /\ msg \in Messages /\ cur.index \in Slots
  BY DEF ResponseResult, Results, IInv, TypeOK
<1>2. EventInv'
  BY DEF ResponseReturn, Poll, EventInv
<1>3. /\ cur.ctx \in Threads /\ Awaits(cur.ctx, cur.index)
      /\ frame[cur.ctx].sid = stream_id
  BY DEF ResponseReturn, IInv, FrameSafety, Awaits
<1>4. /\ response_handler(cur.index, cur.ctx, msg, ResponseResult(msg, r))
      /\ answered' = answered \cup {frame[cur.ctx].sid}
      /\ UNCHANGED <<next_stream_id, pc, outcome>>
  BY DEF ResponseReturn
<1> QED
  BY <1>1, <1>2, <1>3, <1>4, RespondC

-----------------------------------------------------------------------------

\* Nothing changes.
LEMMA StutterC ==
    ASSUME IInv, CInv, UNCHANGED vars
    PROVE  CInv'
<1>1. EventInv'
  BY DEF CInv, EventInv, vars, recvVars, appVars
<1> QED
  BY <1>1, QuietStep DEF vars, threadVars, appVars, Active

\* Every step of every thread preserves the invariant.
LEMMA NextCInv == IInv /\ CInv /\ [Next]_vars => CInv'
<1> SUFFICES ASSUME IInv, CInv, [Next]_vars PROVE CInv'
  OBVIOUS
<1>1. ASSUME NEW t \in Threads, ThreadNext(t) PROVE CInv'
  BY <1>1, BeginC, ClaimC, NoMemC, SendC, SendFailC, WakeC, ExpireC, TimedOutC,
     CloseC DEF ThreadNext
<1>2. CASE RecvNext
  BY <1>2, ReadC, DispatchResponseC, DispatchResponseCallC, DispatchEventC,
     DispatchEventCallC, CallbackCloseC, StutterC, ResponseReturnC, EventReturnC
     DEF RecvNext, CallbackReturn, CallbackSubscribe
<1>3. CASE Quiescent \/ UNCHANGED vars
  BY <1>3, StutterC DEF Quiescent
<1> QED
  BY <1>1, <1>2, <1>3 DEF Next

\* Calls, subscriptions and the callback that runs in client.c always agree:
\* the inductive invariant, relative to IInv.
THEOREM CallbackInvariance == Spec => []CInv
  BY Invariance, InitCInv, NextCInv, PTL DEF Spec

\* An event is given to the callback of the subscription that opened its
\* stream, and to no other.
THEOREM EventsRouted == Spec => []EventsReachTheirSubscription
<1>1. CInv => EventsReachTheirSubscription
  BY DEF CInv, EventInv, EventsReachTheirSubscription
<1> QED
  BY <1>1, CallbackInvariance, PTL

\* A response callback runs at most once for each call, even when the server
\* sends several responses or the call times out while it runs.
THEOREM ResponsesOnce == Spec => []ResponseAtMostOnce
<1>1. IInv /\ CInv => ResponseAtMostOnce
  BY DEF IInv, FrameSafety, Awaits, CInv, CallInv, Active, ResponseAtMostOnce
<1> QED
  BY <1>1, Invariance, CallbackInvariance, PTL

\* After a subscribe that returned an error, its subscription callback neither
\* runs nor can be started: the context may be freed.
THEOREM NoOrphans == Spec => []NoOrphanSubscription
<1>1. IInv /\ CInv => NoOrphanSubscription
  <2> SUFFICES ASSUME IInv, CInv, NEW n \in Ids,
                      outcome[n] \in {"FAILED", "TIMEOUT"}
               PROVE  /\ \A i \in Slots : stream_state_handler[i] # SubHandler(n)
                      /\ ~(rpc = "event" /\ cur.ctx = n)
    BY DEF NoOrphanSubscription
  <2>1. ASSUME NEW i \in Slots, stream_state_handler[i] = SubHandler(n)
        PROVE  FALSE
    <3>1. stream_state_id[i] = n /\ Opened(i)
      BY <2>1 DEF CInv, SubInv, SubHandler
    <3> QED
      BY <3>1 DEF Opened, CInv, CallInv
  <2>2. ~(rpc = "event" /\ cur.ctx = n)
    BY DEF CInv, EventInv
  <2> QED
    BY <2>1, <2>2
<1> QED
  BY <1>1, Invariance, CallbackInvariance, PTL
=============================================================================
