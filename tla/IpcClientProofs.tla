-------------------------- MODULE IpcClientProofs --------------------------
(***************************************************************************)
(* Proofs about the GG-IPC client, for any number of threads, slots, calls *)
(* and timeouts and for any server: the types, FrameSafety and             *)
(* DistinctStreamIds are invariants.                                       *)
(***************************************************************************)
EXTENDS IpcClientProperties, TLAPS

\* The mutex is held exactly by a thread that is sending its request, or by
\* the receive thread while a user callback runs.
LockInv ==
    /\ \A t \in Threads : (stream_state_mtx = t) <=> (pc[t] = "send")
    /\ (stream_state_mtx = Recv) <=> (rpc \in {"response", "event"})

\* While a response callback runs, no slot but the one it was dispatched from
\* has its stream id, which was handed out.
ResponseInv ==
    rpc = "response" =>
        /\ stream_id \in 1..(next_stream_id - 1)
        /\ \A j \in Slots : j # cur.index => stream_state_id[j] # stream_id

IInv ==
    /\ TypeOK
    /\ LockInv
    /\ FrameSafety
    /\ DistinctStreamIds
    /\ ResponseInv

-----------------------------------------------------------------------------
(* Facts about the operators. *)

\* Generations wrap around and stay in their range.
LEMMA NextGenType ==
    ASSUME NEW g \in 0..(GenMod - 1)
    PROVE  NextGen(g) \in 0..(GenMod - 1)
  BY BoundsAssumption DEF NextGen

\* A handle that validates names a slot.
LEMMA HandleIndexType ==
    ASSUME NEW h \in Handles, validate_handle(h)
    PROVE  handle_index(h) \in Slots
  BY BoundsAssumption DEF Handles, validate_handle, handle_index, Slots

\* The handle of a slot is a handle.
LEMMA CurrentHandleType ==
    ASSUME TypeOK, NEW i \in Slots
    PROVE  get_current_handle(i) \in Handles
  BY BoundsAssumption DEF TypeOK, Handles, get_current_handle, Slots

\* Clearing a slot keeps the types, frees the slot and leaves the others alone.
LEMMA ClearSlot ==
    ASSUME TypeOK, NEW i \in Slots, clear_stream_index(i)
    PROVE  /\ stream_state_id' \in [Slots -> 0..MaxCalls]
           /\ stream_state_generation' \in [Slots -> 0..(GenMod - 1)]
           /\ stream_state_handler' \in [Slots -> StreamHandlers]
           /\ stream_state_id'[i] = 0
           /\ \A j \in Slots \ {i} :
                 /\ stream_state_id'[j] = stream_state_id[j]
                 /\ stream_state_handler'[j] = stream_state_handler[j]
<1>1. stream_state_generation' \in [Slots -> 0..(GenMod - 1)]
  BY NextGenType DEF TypeOK, clear_stream_index
<1>2. ZeroHandler \in StreamHandlers
  BY DEF ZeroHandler, StreamHandlers
<1>3. 0 \in 0..MaxCalls
  BY BoundsAssumption
<1> QED
  BY <1>1, <1>2, <1>3 DEF TypeOK, clear_stream_index, set_stream_index

\* Setting a slot keeps the types and leaves the other slots alone.
LEMMA SetSlot ==
    ASSUME TypeOK, NEW i \in Slots, NEW n \in 0..MaxCalls,
           NEW h \in StreamHandlers, set_stream_index(i, n, h)
    PROVE  /\ stream_state_id' \in [Slots -> 0..MaxCalls]
           /\ stream_state_handler' \in [Slots -> StreamHandlers]
           /\ stream_state_id'[i] = n
           /\ stream_state_handler'[i] = h
           /\ \A j \in Slots \ {i} :
                 /\ stream_state_id'[j] = stream_state_id[j]
                 /\ stream_state_handler'[j] = stream_state_handler[j]
  BY DEF TypeOK, set_stream_index

\* A fresh frame is a frame.
LEMMA NewFrameType ==
    /\ \A k \in Kinds, i \in Slots, g \in 0..(GenMod - 1), n \in 0..MaxCalls :
          NewFrame(k, i, g, n) \in Frames
    /\ \A k \in Kinds : NewFrame(k, 0, 0, 0) \in Frames
    /\ NoFrame \in Frames
<1>1. ASSUME NEW k \in Kinds, NEW i \in Slots, NEW g \in 0..(GenMod - 1),
             NEW n \in 0..MaxCalls
      PROVE  NewFrame(k, i, g, n) \in Frames
  BY DEF NewFrame, Frames, Results
<1>2. 0 \in Slots /\ 0 \in 0..(GenMod - 1) /\ 0 \in 0..MaxCalls
  BY BoundsAssumption DEF Slots
<1> QED
  BY <1>1, <1>2 DEF NoFrame, Kinds

\* The packet-less state of the receive thread is well typed.
LEMMA PollType ==
    ASSUME Poll
    PROVE  /\ rpc' = "poll"
           /\ stream_id' \in 0..MaxCalls
           /\ msg' \in Messages
           /\ cur' \in [index : Slots, ctx : Threads \cup Ids \cup {NoThread}]
  BY BoundsAssumption DEF Poll, NoMessage, Messages, Slots
-----------------------------------------------------------------------------
(* IInv holds initially, and each action preserves it. *)

\* The invariant holds of a client that has just connected.
LEMMA InitInv == Init => IInv
<1> SUFFICES ASSUME Init PROVE IInv
  OBVIOUS
<1>1. TypeOK
  BY NewFrameType, BoundsAssumption, ThreadsAssumption
     DEF Init, TypeOK, Slots, Ids, ZeroHandler, StreamHandlers, NoMessage,
         Messages, ZeroHandle, Handles, Kinds, Results
<1>2. LockInv
  BY ThreadsAssumption DEF Init, LockInv
<1>3. FrameSafety /\ DistinctStreamIds /\ ResponseInv
  BY DEF Init, FrameSafety, DistinctStreamIds, ResponseInv
<1> QED
  BY <1>1, <1>2, <1>3 DEF IInv

\* A call begins.  No slot points to the frame of an idle thread.
LEMMA BeginStep ==
    ASSUME IInv, NEW t \in Threads, NEW k \in Kinds, SubscribeBegin(t, k)
    PROVE  IInv'
<1> USE DEF IInv, slotVars, recvVars, appVars
<1>1. TypeOK'
  BY NewFrameType DEF SubscribeBegin, TypeOK
<1>2. LockInv'
  BY DEF SubscribeBegin, TypeOK, LockInv
<1>4. FrameSafety'
  BY DEF SubscribeBegin, TypeOK, FrameSafety, Awaits
<1>5. DistinctStreamIds' /\ ResponseInv'
  BY DEF SubscribeBegin, TypeOK, DistinctStreamIds, ResponseInv
<1> QED
  BY <1>1, <1>2, <1>4, <1>5

\* A slot is claimed.  The mutex is free, so no callback is running, and the
\* new stream id is larger than every one in the table.
LEMMA ClaimStep ==
    ASSUME IInv, NEW t \in Threads, SubscribeClaim(t)
    PROVE  IInv'
<1> USE DEF IInv, recvVars, appVars
<1>1. PICK i \in Slots :
        /\ claim_stream_index(i)
        /\ set_stream_index(i, next_stream_id, PendingHandler(t))
        /\ frame' = [frame EXCEPT ![t] =
              NewFrame(frame[t].kind, i, NextGen(stream_state_generation[i]),
                       next_stream_id)]
  BY DEF SubscribeClaim
<1>2. next_stream_id \in 0..MaxCalls /\ PendingHandler(t) \in StreamHandlers
  BY BoundsAssumption DEF SubscribeClaim, TypeOK, PendingHandler, StreamHandlers
<1>3. /\ stream_state_id' \in [Slots -> 0..MaxCalls]
      /\ stream_state_handler' \in [Slots -> StreamHandlers]
      /\ stream_state_id'[i] = next_stream_id
      /\ stream_state_handler'[i] = PendingHandler(t)
      /\ \A j \in Slots \ {i} :
            /\ stream_state_id'[j] = stream_state_id[j]
            /\ stream_state_handler'[j] = stream_state_handler[j]
  BY <1>1, <1>2, SetSlot
<1>4. stream_state_generation' \in [Slots -> 0..(GenMod - 1)]
  BY <1>1, NextGenType DEF TypeOK, claim_stream_index
<1>5. frame' \in [Threads -> Frames]
  <2>1. NextGen(stream_state_generation[i]) \in 0..(GenMod - 1)
    BY NextGenType DEF TypeOK
  <2> QED
    BY <1>1, <1>2, <2>1, NewFrameType DEF TypeOK, Frames
<1>6. TypeOK'
  BY <1>3, <1>4, <1>5, BoundsAssumption DEF SubscribeClaim, TypeOK
<1>7. LockInv' /\ rpc # "response"
  BY ThreadsAssumption DEF SubscribeClaim, TypeOK, LockInv, MtxFree
<1>9. FrameSafety'
  <2>1. rpc' # "response"
    BY <1>7 DEF SubscribeClaim
  <2>2. Awaits(t, i)' /\ frame'[t].sid = next_stream_id
    BY <1>1 DEF SubscribeClaim, TypeOK, Awaits, NewFrame
  <2>3. ASSUME NEW j \in Slots, j # i, stream_state_id'[j] # 0,
               stream_state_handler'[j].fn = "null"
        PROVE  /\ Awaits(stream_state_handler[j].ctx, j)'
               /\ frame'[stream_state_handler'[j].ctx].sid = stream_state_id'[j]
    <3>1. /\ Awaits(stream_state_handler[j].ctx, j)
          /\ frame[stream_state_handler[j].ctx].sid = stream_state_id[j]
      BY <2>3, <1>3 DEF FrameSafety
    <3>2. stream_state_handler[j].ctx # t
      BY <3>1 DEF Awaits, SubscribeClaim
    <3> QED
      BY <3>1, <3>2, <1>1, <1>3, <2>3 DEF Awaits, SubscribeClaim, TypeOK
  <2> QED
    BY <2>1, <2>2, <2>3, <1>3 DEF FrameSafety, PendingHandler
<1>10. DistinctStreamIds'
  BY <1>3, BoundsAssumption DEF SubscribeClaim, TypeOK, DistinctStreamIds
<1>11. ResponseInv'
  BY <1>7 DEF SubscribeClaim, ResponseInv
<1> QED
  BY <1>6, <1>7, <1>9, <1>10, <1>11

\* No slot is free, or the request is sent: the table is not touched.
LEMMA NoMemStep ==
    ASSUME IInv, NEW t \in Threads, SubscribeNoMem(t)
    PROVE  IInv'
<1> USE DEF IInv, slotVars, recvVars, appVars
<1>1. TypeOK'
  BY NewFrameType DEF SubscribeNoMem, TypeOK, Kinds
<1>2. LockInv'
  BY DEF SubscribeNoMem, TypeOK, LockInv
<1>3. FrameSafety'
  BY DEF SubscribeNoMem, TypeOK, FrameSafety, Awaits
<1>4. DistinctStreamIds' /\ ResponseInv'
  BY DEF SubscribeNoMem, TypeOK, DistinctStreamIds, ResponseInv
<1> QED
  BY <1>1, <1>2, <1>3, <1>4

\* A request is sent and the timed wait of ggipc_subscribe begins.
LEMMA SendStep ==
    ASSUME IInv, NEW t \in Threads, SubscribeSend(t)
    PROVE  IInv'
<1> USE DEF IInv, slotVars, recvVars, appVars
<1>1. TypeOK'
  BY DEF SubscribeSend, TypeOK
<1>2. LockInv'
  BY ThreadsAssumption DEF SubscribeSend, TypeOK, LockInv
<1>3. FrameSafety'
  BY DEF SubscribeSend, TypeOK, FrameSafety, Awaits
<1>4. DistinctStreamIds' /\ ResponseInv'
  BY DEF SubscribeSend, TypeOK, DistinctStreamIds, ResponseInv
<1> QED
  BY <1>1, <1>2, <1>3, <1>4

\* Returning keeps the types.
LEMMA ReturnType ==
    ASSUME TypeOK, NEW t \in Threads, NEW r \in Results, Return(t, r)
    PROVE  /\ pc' \in [Threads -> {"idle", "begin", "send", "wait", "expired"}]
           /\ frame' \in [Threads -> Frames]
           /\ outcome' \in [Ids -> Results \cup {"none"}]
           /\ handles' \subseteq Handles
<1>1. pc' \in [Threads -> {"idle", "begin", "send", "wait", "expired"}]
  BY DEF TypeOK, Return
<1>2. frame' \in [Threads -> Frames]
  BY NewFrameType DEF TypeOK, Return, Kinds
<1>3. outcome' \in [Ids -> Results \cup {"none"}]
  BY DEF TypeOK, Return
<1>4. [low |-> frame[t].index + 1, gen |-> frame[t].gen, sid |-> frame[t].sid]
         \in Handles
  <2>1. /\ frame[t].index \in Slots
        /\ frame[t].gen \in 0..(GenMod - 1)
        /\ frame[t].sid \in 0..MaxCalls
    BY DEF TypeOK, Frames
  <2>2. frame[t].index + 1 \in 0..MaxStreams
    BY <2>1, BoundsAssumption DEF Slots
  <2> QED
    BY <2>1, <2>2 DEF Handles
<1>5. handles' \subseteq Handles
  BY <1>4 DEF TypeOK, Return
<1> QED
  BY <1>1, <1>2, <1>3, <1>5

\* A call that fails to send, or times out, clears the slot it claimed before
\* it returns: only that slot can point to its frame.
LEMMA GiveUpStep ==
    ASSUME IInv, NEW t \in Threads, NEW r \in Results,
           pc[t] \in {"send", "expired"},
           stream_state_mtx \in {t, NoThread},
           clear_stream_index(frame[t].index), Return(t, r),
           stream_state_mtx' = NoThread, UNCHANGED <<expiries, recvVars>>
    PROVE  IInv'
<1> DEFINE i == frame[t].index
<1> USE DEF IInv, recvVars
<1>1. i \in Slots
  BY DEF TypeOK, Frames
<1>2. /\ stream_state_id' \in [Slots -> 0..MaxCalls]
      /\ stream_state_generation' \in [Slots -> 0..(GenMod - 1)]
      /\ stream_state_handler' \in [Slots -> StreamHandlers]
      /\ stream_state_id'[i] = 0
      /\ \A j \in Slots \ {i} :
            /\ stream_state_id'[j] = stream_state_id[j]
            /\ stream_state_handler'[j] = stream_state_handler[j]
  BY <1>1, ClearSlot
<1>3. TypeOK'
  BY <1>2, ReturnType DEF TypeOK, Return
<1>4. LockInv' /\ rpc # "response" /\ rpc' = rpc
  BY ThreadsAssumption DEF TypeOK, LockInv, Return
<1>6. FrameSafety'
  <2>1. ASSUME NEW j \in Slots, stream_state_id'[j] # 0,
               stream_state_handler'[j].fn = "null"
        PROVE  /\ Awaits(stream_state_handler[j].ctx, j)'
               /\ frame'[stream_state_handler'[j].ctx].sid = stream_state_id'[j]
    <3>1. j # i
      BY <2>1, <1>2
    <3>2. /\ Awaits(stream_state_handler[j].ctx, j)
          /\ frame[stream_state_handler[j].ctx].sid = stream_state_id[j]
      BY <2>1, <3>1, <1>2 DEF FrameSafety
    <3>3. stream_state_handler[j].ctx # t
      BY <3>1, <3>2 DEF Awaits
    <3> QED
      BY <3>1, <3>2, <3>3, <1>2 DEF Awaits, Return, TypeOK
  <2> QED
    BY <2>1, <1>4 DEF FrameSafety
<1>7. DistinctStreamIds'
  BY <1>2 DEF DistinctStreamIds, Return, TypeOK
<1>8. ResponseInv'
  BY <1>4 DEF ResponseInv
<1> QED
  BY <1>3, <1>4, <1>6, <1>7, <1>8

\* A request that cannot be sent gives its slot up.
LEMMA SendFailStep ==
    ASSUME IInv, NEW t \in Threads, SubscribeSendFail(t)
    PROVE  IInv'
  BY GiveUpStep DEF SubscribeSendFail, Results

\* A wait that timed out gives its slot up, answered or not.
LEMMA TimedOutStep ==
    ASSUME IInv, NEW t \in Threads, SubscribeTimedOut(t)
    PROVE  IInv'
  BY GiveUpStep DEF SubscribeTimedOut, Results, MtxFree

\* A call returns its response.  No slot points to a frame that is ready.
LEMMA WakeStep ==
    ASSUME IInv, NEW t \in Threads, SubscribeWake(t)
    PROVE  IInv'
<1> USE DEF IInv, slotVars, recvVars
<1>1. TypeOK'
  <2>1. frame[t].ret \in Results
    BY DEF TypeOK, Frames
  <2> QED
    BY <2>1, ReturnType DEF SubscribeWake, Return, TypeOK
<1>2. LockInv'
  BY DEF SubscribeWake, Return, TypeOK, LockInv
<1>3. FrameSafety'
  BY DEF SubscribeWake, Return, TypeOK, FrameSafety, Awaits
<1>4. DistinctStreamIds' /\ ResponseInv'
  BY DEF SubscribeWake, Return, TypeOK, DistinctStreamIds, ResponseInv
<1> QED
  BY <1>1, <1>2, <1>3, <1>4

\* A deadline passes.
LEMMA ExpireStep ==
    ASSUME IInv, NEW t \in Threads, SubscribeExpire(t)
    PROVE  IInv'
<1> USE DEF IInv, slotVars, recvVars, appVars
<1>1. TypeOK'
  BY BoundsAssumption DEF SubscribeExpire, TypeOK
<1>2. LockInv'
  BY DEF SubscribeExpire, TypeOK, LockInv
<1>3. FrameSafety'
  BY DEF SubscribeExpire, TypeOK, FrameSafety, Awaits
<1>4. DistinctStreamIds' /\ ResponseInv'
  BY DEF SubscribeExpire, TypeOK, DistinctStreamIds, ResponseInv
<1> QED
  BY <1>1, <1>2, <1>3, <1>4

-----------------------------------------------------------------------------
(* Steps that only clear a slot. *)

\* Clearing any slot, with the threads left alone, keeps what IInv says of the
\* table.
LEMMA ClearKeeps ==
    ASSUME IInv, NEW i \in Slots, clear_stream_index(i), UNCHANGED threadVars
    PROVE  /\ DistinctStreamIds'
           /\ \A j \in Slots :
                (stream_state_id'[j] # 0 /\ stream_state_handler'[j].fn = "null") =>
                   /\ Awaits(stream_state_handler[j].ctx, j)'
                   /\ frame'[stream_state_handler'[j].ctx].sid = stream_state_id'[j]
<1> USE DEF IInv, threadVars
<1>1. /\ stream_state_id'[i] = 0
      /\ \A j \in Slots \ {i} :
            /\ stream_state_id'[j] = stream_state_id[j]
            /\ stream_state_handler'[j] = stream_state_handler[j]
  BY ClearSlot
<1>3. DistinctStreamIds'
  BY <1>1 DEF DistinctStreamIds, TypeOK
<1>4. ASSUME NEW j \in Slots, stream_state_id'[j] # 0,
             stream_state_handler'[j].fn = "null"
      PROVE  /\ Awaits(stream_state_handler[j].ctx, j)'
             /\ frame'[stream_state_handler'[j].ctx].sid = stream_state_id'[j]
  <2>1. j # i
    BY <1>1, <1>4
  <2>2. /\ Awaits(stream_state_handler[j].ctx, j)
        /\ frame[stream_state_handler[j].ctx].sid = stream_state_id[j]
    BY <1>1, <1>4, <2>1 DEF FrameSafety
  <2> QED
    BY <1>1, <2>1, <2>2 DEF Awaits
<1> QED
  BY <1>3, <1>4

\* Closing a subscription clears a slot or nothing; during a response callback
\* the frame that is being answered is not touched.
LEMMA CloseKeeps ==
    ASSUME IInv, NEW h \in handles, close_subscription(h),
           UNCHANGED <<stream_state_mtx, threadVars, recvVars, handles, outcome,
                       answered>>,
           closed' \subseteq 0..MaxCalls
    PROVE  IInv'
<1> USE DEF IInv
<1>1. h \in Handles /\ h.sid \in 0..MaxCalls
  BY DEF TypeOK, Handles
<1>2. LockInv'
  BY DEF LockInv, threadVars, recvVars
<1>3. CASE ~validate_handle(h)
  <2>1. UNCHANGED <<slotVars, ended>>
    BY <1>3 DEF close_subscription
  <2>2. TypeOK'
    BY <2>1 DEF TypeOK, slotVars, threadVars, recvVars
  <2>3. FrameSafety' /\ DistinctStreamIds' /\ ResponseInv'
    BY <2>1 DEF FrameSafety, Awaits, DistinctStreamIds, ResponseInv, slotVars,
                threadVars, recvVars
  <2> QED
    BY <1>2, <2>2, <2>3
<1>4. CASE validate_handle(h)
  <2> DEFINE i == handle_index(h)
  <2>1. i \in Slots /\ clear_stream_index(i) /\ ended' = ended \cup {h.sid}
    BY <1>1, <1>4, HandleIndexType DEF close_subscription
  <2>2. TypeOK'
    BY <1>1, <2>1, ClearSlot DEF TypeOK, threadVars, recvVars
  <2>3. DistinctStreamIds' /\ FrameSafety'
    BY <2>1, ClearKeeps DEF FrameSafety, Awaits, threadVars, recvVars
  <2>4. ResponseInv'
    <3>1. \A j \in Slots : stream_state_id'[j] \in {0, stream_state_id[j]}
      BY <2>1, ClearSlot
    <3> QED
      BY <3>1 DEF ResponseInv, threadVars, recvVars, TypeOK
  <2> QED
    BY <1>2, <2>2, <2>3, <2>4
<1> QED
  BY <1>3, <1>4

\* An application thread runs ggipc_close_subscription.
LEMMA CloseStep ==
    ASSUME IInv, NEW t \in Threads, NEW h \in handles, CloseSubscription(t, h)
    PROVE  IInv'
<1>1. closed' \subseteq 0..MaxCalls
  BY DEF CloseSubscription, IInv, TypeOK, Handles
<1> QED
  BY <1>1, CloseKeeps DEF CloseSubscription

\* A user callback runs ggipc_close_subscription.
LEMMA CallbackCloseStep ==
    ASSUME IInv, NEW h \in handles, CallbackClose(h)
    PROVE  IInv'
  BY CloseKeeps DEF CallbackClose, IInv, TypeOK

-----------------------------------------------------------------------------
(* The receive thread. *)

\* Reading, failing, exiting, and dropping a packet leave the table alone.
LEMMA ReadStep ==
    ASSUME IInv, ReadPacket \/ ReadFail \/ Exit \/ DispatchDrop
    PROVE  IInv'
<1> USE DEF IInv, slotVars, threadVars, appVars
<1>1. TypeOK'
  BY PollType DEF ReadPacket, ReadFail, Exit, DispatchDrop, TypeOK
<1>2. LockInv' /\ rpc' # "response"
  BY PollType DEF ReadPacket, ReadFail, Exit, DispatchDrop, LockInv
<1>3. FrameSafety' /\ DistinctStreamIds' /\ ResponseInv'
  BY <1>2 DEF ReadPacket, ReadFail, Exit, DispatchDrop, FrameSafety, Awaits,
              DistinctStreamIds, ResponseInv
<1> QED
  BY <1>1, <1>2, <1>3

\* The rest of response_handler, for a frame that awaits slot i under the
\* stream id of the packet: afterwards no slot points to the frame.
LEMMA RespondKeeps ==
    ASSUME IInv, NEW i \in Slots, NEW t \in Threads, NEW m \in Messages,
           NEW r \in Results, response_handler(i, t, m, r),
           Awaits(t, i), frame[t].sid = stream_id,
           stream_id \in 1..(next_stream_id - 1),
           \A j \in Slots : j # i => stream_state_id[j] # stream_id,
           UNCHANGED <<next_stream_id, pc>>
    PROVE  /\ stream_state_id' \in [Slots -> 0..MaxCalls]
           /\ stream_state_generation' \in [Slots -> 0..(GenMod - 1)]
           /\ stream_state_handler' \in [Slots -> StreamHandlers]
           /\ frame' \in [Threads -> Frames]
           /\ DistinctStreamIds'
           /\ \A j \in Slots :
                (stream_state_id'[j] # 0 /\ stream_state_handler'[j].fn = "null") =>
                   /\ Awaits(stream_state_handler[j].ctx, j)'
                   /\ frame'[stream_state_handler'[j].ctx].sid = stream_state_id'[j]
<1> USE DEF IInv
<1>1. stream_id \in Ids /\ SubHandler(stream_id) \in StreamHandlers
  BY BoundsAssumption DEF TypeOK, Ids, SubHandler, StreamHandlers
<1>2. /\ frame' \in [Threads -> Frames]
      /\ \A u \in Threads \ {t} : frame'[u] = frame[u]
  <2>1. PICK x \in Results :
           frame' = [frame EXCEPT ![t] = [frame[t] EXCEPT !.ready = TRUE, !.ret = x]]
    BY DEF response_handler, Results
  <2>2. frame[t] \in Frames
    BY DEF TypeOK
  <2>3. ASSUME NEW f \in Frames
        PROVE  [f EXCEPT !.ready = TRUE, !.ret = x] \in Frames
    BY DEF Frames
  <2> QED
    BY <2>1, <2>2, <2>3 DEF TypeOK
<1>3. /\ stream_state_id' \in [Slots -> 0..MaxCalls]
      /\ stream_state_generation' \in [Slots -> 0..(GenMod - 1)]
      /\ stream_state_handler' \in [Slots -> StreamHandlers]
      /\ \/ stream_state_id'[i] = 0
         \/ /\ stream_state_id'[i] = stream_id
            /\ stream_state_handler'[i].fn = "sub"
      /\ \A j \in Slots \ {i} :
            /\ stream_state_id'[j] = stream_state_id[j]
            /\ stream_state_handler'[j] = stream_state_handler[j]
  <2>1. CASE clear_stream_index(i)
    BY <2>1, ClearSlot
  <2>2. CASE /\ set_stream_index(i, stream_id, SubHandler(stream_id))
             /\ UNCHANGED stream_state_generation
    <3>1. stream_id \in 0..MaxCalls
      BY DEF TypeOK
    <3> QED
      BY <1>1, <2>2, <3>1, SetSlot DEF SubHandler, TypeOK
  <2> QED
    BY <2>1, <2>2 DEF response_handler
<1>4. DistinctStreamIds'
  BY <1>3 DEF DistinctStreamIds, TypeOK
<1>5. ASSUME NEW j \in Slots, stream_state_id'[j] # 0,
             stream_state_handler'[j].fn = "null"
      PROVE  /\ Awaits(stream_state_handler[j].ctx, j)'
             /\ frame'[stream_state_handler'[j].ctx].sid = stream_state_id'[j]
  <2>1. j # i
    BY <1>3, <1>5
  <2>2. /\ Awaits(stream_state_handler[j].ctx, j)
        /\ frame[stream_state_handler[j].ctx].sid = stream_state_id[j]
    BY <1>3, <1>5, <2>1 DEF FrameSafety
  <2>3. stream_state_handler[j].ctx # t
    BY <2>1, <2>2 DEF Awaits
  <2> QED
    BY <1>2, <1>3, <2>1, <2>2, <2>3 DEF Awaits
<1> QED
  BY <1>2, <1>3, <1>4, <1>5

\* The slot of a packet is the only one with its stream id.
LEMMA DispatchedSlot ==
    ASSUME IInv, NEW i \in Slots, Dispatching(i, "null")
    PROVE  /\ stream_state_handler[i].ctx \in Threads
           /\ Awaits(stream_state_handler[i].ctx, i)
           /\ frame[stream_state_handler[i].ctx].sid = stream_id
           /\ stream_id \in 1..(next_stream_id - 1)
           /\ \A j \in Slots : j # i => stream_state_id[j] # stream_id
<1> USE DEF IInv
<1>1. /\ stream_state_id[i] = stream_id /\ stream_id > 0
      /\ stream_state_handler[i].fn = "null"
  BY DEF Dispatching, get_stream_index_from_id
<1>2. /\ Awaits(stream_state_handler[i].ctx, i)
      /\ frame[stream_state_handler[i].ctx].sid = stream_id
  BY <1>1 DEF FrameSafety, TypeOK
<1>3. /\ stream_id < next_stream_id
      /\ \A j \in Slots : j # i => stream_state_id[j] # stream_id
  BY <1>1 DEF DistinctStreamIds, TypeOK
<1>4. stream_id \in 1..(next_stream_id - 1)
  BY <1>1, <1>3 DEF TypeOK
<1> QED
  BY <1>2, <1>3, <1>4 DEF Awaits

\* A response is handled without a user callback.
LEMMA DispatchResponseStep ==
    ASSUME IInv, NEW i \in Slots, NEW m \in Messages, DispatchResponse(i, m)
    PROVE  IInv'
<1> USE DEF IInv
<1>1. PICK r \in ResultsWithoutCallback(m) :
         response_handler(i, stream_state_handler[i].ctx, m, r)
  BY DEF DispatchResponse
<1>2. r \in Results
  BY <1>1 DEF ResultsWithoutCallback, Results
<1>3. Dispatching(i, "null") /\ Poll /\ UNCHANGED <<next_stream_id, pc>>
  BY DEF DispatchResponse
<1>4. /\ stream_state_id' \in [Slots -> 0..MaxCalls]
      /\ stream_state_generation' \in [Slots -> 0..(GenMod - 1)]
      /\ stream_state_handler' \in [Slots -> StreamHandlers]
      /\ frame' \in [Threads -> Frames]
      /\ DistinctStreamIds'
      /\ \A j \in Slots :
           (stream_state_id'[j] # 0 /\ stream_state_handler'[j].fn = "null") =>
              /\ Awaits(stream_state_handler[j].ctx, j)'
              /\ frame'[stream_state_handler'[j].ctx].sid = stream_state_id'[j]
  BY <1>1, <1>2, <1>3, DispatchedSlot, RespondKeeps
<1>5. TypeOK'
  BY <1>3, <1>4, PollType DEF DispatchResponse, TypeOK, appVars
<1>6. LockInv' /\ rpc' # "response"
  BY <1>3, PollType DEF DispatchResponse, Dispatching, LockInv
<1>7. FrameSafety' /\ ResponseInv'
  BY <1>4, <1>6 DEF FrameSafety, ResponseInv
<1> QED
  BY <1>4, <1>5, <1>6, <1>7

\* A response callback is entered.
LEMMA DispatchResponseCallStep ==
    ASSUME IInv, NEW i \in Slots, NEW m \in Messages, DispatchResponseCall(i, m)
    PROVE  IInv'
<1> USE DEF IInv, slotVars, threadVars
<1>1. Dispatching(i, "null") /\ EnterCallback(i, m, "response") /\ UNCHANGED handles
  BY DEF DispatchResponseCall
<1>2. cur' = [index |-> i, ctx |-> stream_state_handler[i].ctx]
  BY <1>1 DEF EnterCallback
<1>3. TypeOK'
  BY <1>1, <1>2, DispatchedSlot DEF EnterCallback, TypeOK
<1>4. LockInv'
  BY <1>1, ThreadsAssumption DEF EnterCallback, Dispatching, MtxFree, LockInv, TypeOK
<1>5. FrameSafety' /\ ResponseInv' /\ DistinctStreamIds'
  BY <1>1, <1>2, DispatchedSlot
     DEF EnterCallback, FrameSafety, Awaits, ResponseInv, DistinctStreamIds
<1> QED
  BY <1>3, <1>4, <1>5

\* A response callback returns and response_handler finishes.
LEMMA ResponseReturnStep ==
    ASSUME IInv, NEW r \in {"OK", "FAILED"}, ResponseReturn(r)
    PROVE  IInv'
<1> USE DEF IInv
<1>1. ResponseResult(msg, r) \in Results /\ msg \in Messages
  BY DEF ResponseResult, Results, TypeOK
<1>2. /\ rpc = "response" /\ Poll /\ UNCHANGED <<next_stream_id, pc>>
      /\ response_handler(cur.index, cur.ctx, msg, ResponseResult(msg, r))
  BY DEF ResponseReturn
<1>3. /\ cur.index \in Slots /\ cur.ctx \in Threads
      /\ Awaits(cur.ctx, cur.index) /\ frame[cur.ctx].sid = stream_id
      /\ stream_id \in 1..(next_stream_id - 1)
      /\ \A j \in Slots : j # cur.index => stream_state_id[j] # stream_id
  BY <1>2 DEF TypeOK, FrameSafety, Awaits, ResponseInv
<1>4. /\ stream_state_id' \in [Slots -> 0..MaxCalls]
      /\ stream_state_generation' \in [Slots -> 0..(GenMod - 1)]
      /\ stream_state_handler' \in [Slots -> StreamHandlers]
      /\ frame' \in [Threads -> Frames]
      /\ DistinctStreamIds'
      /\ \A j \in Slots :
           (stream_state_id'[j] # 0 /\ stream_state_handler'[j].fn = "null") =>
              /\ Awaits(stream_state_handler[j].ctx, j)'
              /\ frame'[stream_state_handler'[j].ctx].sid = stream_state_id'[j]
  BY <1>1, <1>2, <1>3, RespondKeeps
<1>5. TypeOK'
  <2>1. stream_id \in Ids
    BY <1>3 DEF TypeOK, Ids
  <2> QED
    BY <1>2, <1>3, <1>4, <2>1, PollType DEF ResponseReturn, TypeOK
<1>6. LockInv' /\ rpc' # "response"
  BY <1>2, PollType, ThreadsAssumption DEF ResponseReturn, LockInv, TypeOK
<1>7. FrameSafety' /\ ResponseInv'
  BY <1>4, <1>6 DEF FrameSafety, ResponseInv
<1> QED
  BY <1>4, <1>5, <1>6, <1>7

\* The end of an event clears its slot or nothing.
LEMMA EventKeeps ==
    ASSUME IInv, NEW i \in Slots, NEW m, NEW r, EventDone(i, m, r), Poll,
           UNCHANGED <<threadVars, handles, outcome, answered, closed>>,
           LockInv', stream_state_mtx' = NoThread
    PROVE  IInv'
<1> USE DEF IInv
<1>1. CASE UNCHANGED <<slotVars, ended>>
  <2>1. TypeOK'
    BY <1>1, PollType DEF TypeOK, slotVars, threadVars
  <2>2. FrameSafety' /\ DistinctStreamIds' /\ ResponseInv'
    BY <1>1, PollType DEF FrameSafety, Awaits, DistinctStreamIds, ResponseInv,
                          slotVars, threadVars
  <2> QED
    BY <2>1, <2>2
<1>2. CASE clear_stream_index(i) /\ ended' = ended \cup {stream_id}
  <2>1. TypeOK'
    BY <1>2, PollType, ClearSlot DEF TypeOK, threadVars
  <2>2. DistinctStreamIds' /\ FrameSafety' /\ ResponseInv'
    BY <1>2, PollType, ClearKeeps DEF FrameSafety, ResponseInv
  <2> QED
    BY <2>1, <2>2
<1> QED
  BY <1>1, <1>2 DEF EventDone

\* An event is handled without a user callback.
LEMMA DispatchEventStep ==
    ASSUME IInv, NEW i \in Slots, NEW m \in Messages, DispatchEvent(i, m)
    PROVE  IInv'
<1>1. LockInv' /\ stream_state_mtx' = NoThread
  BY PollType DEF IInv, DispatchEvent, Dispatching, MtxFree, LockInv, threadVars
<1> QED
  BY <1>1, EventKeeps DEF DispatchEvent

\* A subscription callback is entered.
LEMMA DispatchEventCallStep ==
    ASSUME IInv, NEW i \in Slots, NEW m \in Messages, DispatchEventCall(i, m)
    PROVE  IInv'
<1> USE DEF IInv, slotVars, threadVars
<1>1. /\ Dispatching(i, "sub") /\ EnterCallback(i, m, "event")
      /\ handles' = handles \cup {get_current_handle(i)}
  BY DEF DispatchEventCall
<1>2. stream_state_handler[i].ctx \in Threads \cup Ids \cup {NoThread}
  BY DEF TypeOK, StreamHandlers
<1>3. TypeOK'
  BY <1>1, <1>2, CurrentHandleType DEF EnterCallback, TypeOK
<1>4. LockInv'
  BY <1>1, ThreadsAssumption DEF EnterCallback, Dispatching, MtxFree, LockInv, TypeOK
<1>5. FrameSafety' /\ ResponseInv' /\ DistinctStreamIds'
  BY <1>1 DEF EnterCallback, FrameSafety, Awaits, ResponseInv, DistinctStreamIds
<1> QED
  BY <1>3, <1>4, <1>5

\* A subscription callback returns.
LEMMA EventReturnStep ==
    ASSUME IInv, NEW r \in {"OK", "FAILED"}, EventReturn(r)
    PROVE  IInv'
<1>1. LockInv' /\ stream_state_mtx' = NoThread
  BY PollType, ThreadsAssumption DEF IInv, TypeOK, EventReturn, LockInv, threadVars
<1>2. cur.index \in Slots
  BY DEF IInv, TypeOK
<1> QED
  BY <1>1, <1>2, EventKeeps DEF EventReturn

\* Nothing changes.
LEMMA StutterStep ==
    ASSUME IInv, UNCHANGED vars
    PROVE  IInv'
  BY DEF IInv, TypeOK, LockInv, FrameSafety, Awaits, DistinctStreamIds,
         ResponseInv, vars, slotVars, threadVars, recvVars, appVars

-----------------------------------------------------------------------------

\* Every step of every thread preserves the invariant.
LEMMA NextInv == IInv /\ [Next]_vars => IInv'
<1> SUFFICES ASSUME IInv, [Next]_vars PROVE IInv'
  OBVIOUS
<1>1. ASSUME NEW t \in Threads, ThreadNext(t) PROVE IInv'
  BY <1>1, BeginStep, ClaimStep, NoMemStep, SendStep, SendFailStep, WakeStep,
     ExpireStep, TimedOutStep, CloseStep DEF ThreadNext
<1>2. CASE RecvNext
  BY <1>2, ReadStep, DispatchResponseStep, DispatchResponseCallStep,
     DispatchEventStep, DispatchEventCallStep, CallbackCloseStep, StutterStep,
     ResponseReturnStep, EventReturnStep
     DEF RecvNext, CallbackReturn, CallbackSubscribe
<1>3. CASE Quiescent \/ UNCHANGED vars
  BY <1>3, StutterStep DEF Quiescent
<1> QED
  BY <1>1, <1>2, <1>3 DEF Next

\* The table of stream slots, the mutex and the frames of the waiting
\* threads in client.c always agree: the inductive invariant.
THEOREM Invariance == Spec => []IInv
  BY InitInv, NextInv, PTL DEF Spec

\* The variables have their types in every reachable state.
THEOREM TypeCorrect == Spec => []TypeOK
<1>1. IInv => TypeOK
  BY DEF IInv
<1> QED
  BY <1>1, Invariance, PTL

\* response_handler never writes to the frame of a call that has returned or
\* that already has a response, whatever the threads, the timeouts and the
\* server do.
THEOREM FrameSafe == Spec => []FrameSafety
<1>1. IInv => FrameSafety
  BY DEF IInv
<1> QED
  BY <1>1, Invariance, PTL

\* The stream ids in the table are distinct.
THEOREM StreamIdsDistinct == Spec => []DistinctStreamIds
<1>1. IInv => DistinctStreamIds
  BY DEF IInv
<1> QED
  BY <1>1, Invariance, PTL
====
