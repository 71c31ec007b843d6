---------------------- MODULE IpcClientHandleProofs ----------------------
(***************************************************************************)
(* Proofs about what the slots of the GG-IPC client stand for over time:   *)
(* no slot is lost, and, until the 16-bit generation of a slot wraps       *)
(* around, handles are not reused, a closed subscription is silent, calls  *)
(* and subscriptions keep their slots, and the client implements the       *)
(* service of IpcStreamService.                                            *)
(***************************************************************************)
EXTENDS IpcClientCallbackProofs

-----------------------------------------------------------------------------
(* Where a stream can be: facts that hold whatever the generations are. *)

\* A thread waits for the response on stream n.
Awaited(n) ==
    \E t \in Threads : Active(t) /\ ~frame[t].ready /\ frame[t].sid = n

\* Stream n is a subscription that has had its response, and only the slots in
\* S can have its id.
Settled(n, S) ==
    /\ n \in 1..(next_stream_id - 1)
    /\ \A t \in Threads : (Active(t) /\ frame[t].sid = n) =>
          frame[t].ready /\ frame[t].kind = "sub"
    /\ \A j \in Slots \ S : stream_state_id[j] # n

\* The stream of a handle can only be in the slot that the handle names.
HandleInv ==
    \A h \in handles \ {ZeroHandle} :
        h.low - 1 \in Slots /\ Settled(h.sid, {h.low - 1})

\* The stream of a call can only be in the slot that the call claimed.
ClaimInv ==
    \A t \in Threads : Active(t) =>
        \A j \in Slots \ {frame[t].index} : stream_state_id[j] # frame[t].sid

\* A stream that has ended is in no slot.
EndedInv == \A n \in ended : Settled(n, {})

\* The stream of the event being handled is in the slot it was found in.
RunInv == rpc = "event" => Settled(stream_id, {cur.index})

LInv == HandleInv /\ ClaimInv /\ EndedInv /\ RunInv

-----------------------------------------------------------------------------
(* Generations. *)

\* No generation is about to wrap around: a slot has been claimed and cleared
\* fewer than 2^16 - 1 times.
NoWrap == \A i \in Slots : stream_state_generation[i] < GenMod - 1

\* Slot i at generation g was given to stream n, to be handled by d: it has
\* that generation for exactly as long as it has that stream.
Ticket(i, g, n, d) ==
    /\ g <= stream_state_generation[i]
    /\ stream_state_generation[i] = g <=> stream_state_id[i] = n
    /\ stream_state_id[i] = n => stream_state_handler[i] = d

\* The call of thread t has opened a subscription that it has not reported.
Reporting(t) ==
    Active(t) /\ frame[t].ready /\ frame[t].kind = "sub" /\ frame[t].ret = "OK"

\* A handle, and the frame of a call, are tickets.
HandleTicket(h) == Ticket(h.low - 1, h.gen, h.sid, SubHandler(h.sid))

FrameTicket(t) ==
    LET f == frame[t]
    IN  /\ (Active(t) /\ ~f.ready) => Ticket(f.index, f.gen, f.sid, PendingHandler(t))
        /\ Reporting(t) => Ticket(f.index, f.gen, f.sid, SubHandler(f.sid))

TicketInv ==
    /\ \A h \in handles \ {ZeroHandle} : HandleTicket(h)
    /\ \A t \in Threads : FrameTicket(t)

\* While a user callback runs, the slot of its packet is not given away: a
\* response callback cannot close the stream it responds on.
CurInv ==
    /\ rpc = "response" =>
          /\ stream_state_id[cur.index] = stream_id
          /\ stream_state_handler[cur.index] = PendingHandler(cur.ctx)
    /\ rpc = "event" => stream_state_id[cur.index] \in {0, stream_id}

\* A stream that a thread has closed is in no slot, and no event of it is
\* being handled.
ClosedInv ==
    \A n \in closed : Settled(n, {}) /\ ~(rpc = "event" /\ stream_id = n)

\* A subscription that was reported open and has not ended, a call that waits
\* and a subscription about to be reported have their slots.
HandleOpen(h) ==
    (outcome[h.sid] = "OK" /\ h.sid \notin ended) =>
        stream_state_id[h.low - 1] = h.sid

FrameOpen(t) ==
    (Active(t) /\ (frame[t].ready => Reporting(t) /\ frame[t].sid \notin ended)) =>
        stream_state_id[frame[t].index] = frame[t].sid

\* That is so before the first deadline passes.
PromptInv ==
    expiries = 0 =>
        /\ \A t \in Threads : pc[t] # "expired" /\ FrameOpen(t)
        /\ \A h \in handles \ {ZeroHandle} : HandleOpen(h)

\* A request that is being sent has no response.
SendInv == \A t \in Threads : pc[t] = "send" => ~frame[t].ready

HInv == TicketInv /\ CurInv /\ ClosedInv /\ PromptInv /\ SendInv

-----------------------------------------------------------------------------
(* Streams settle.  Advance describes every step: stream ids are handed out  *)
(* in order, calls keep theirs, and a slot takes a stream id that is new or  *)
(* that a call waits for, or loses the one it has.                           *)

Advance ==
    /\ next_stream_id' \in {next_stream_id, next_stream_id + 1}
    /\ \A t \in Threads : Active(t)' =>
          \/ frame'[t].sid = next_stream_id
          \/ /\ Active(t)
             /\ frame'[t].sid = frame[t].sid
             /\ frame'[t].kind = frame[t].kind
             /\ frame[t].ready => frame'[t].ready
    /\ \A j \in Slots :
          \/ stream_state_id'[j] \in {0, stream_state_id[j], next_stream_id}
          \/ Awaited(stream_state_id'[j])

\* A settled stream stays settled, and in the same slots.
LEMMA SettledStays ==
    ASSUME IInv, Advance, NEW n, NEW S, Settled(n, S)
    PROVE  Settled(n, S)'
<1>1. /\ next_stream_id \in 1..(MaxCalls + 1)
      /\ next_stream_id' = next_stream_id \/ next_stream_id' = next_stream_id + 1
      /\ n \in 1..(next_stream_id - 1)
  BY DEF IInv, TypeOK, Advance, Settled
<1>2. n \in 1..MaxCalls /\ n # 0 /\ n # next_stream_id
  BY <1>1, BoundsAssumption
<1>3. n \in 1..(next_stream_id' - 1)
  BY <1>1
<1> QED
  BY <1>2, <1>3 DEF Advance, Settled, Awaited

\* A step that clears slots and lets calls end.
LEMMA ClearAdvance ==
    ASSUME UNCHANGED next_stream_id,
           \A t \in Threads : Active(t)' => Active(t) /\ frame'[t] = frame[t],
           \A j \in Slots : stream_state_id'[j] \in {0, stream_state_id[j]}
    PROVE  Advance
  BY DEF Advance

\* Clearing a slot takes its stream id away and nothing else.
LEMMA ClearIds ==
    ASSUME IInv, NEW i \in Slots, clear_stream_index(i)
    PROVE  /\ stream_state_id'[i] = 0
           /\ \A j \in Slots \ {i} : stream_state_id'[j] = stream_state_id[j]
           /\ \A j \in Slots : stream_state_id'[j] \in {0, stream_state_id[j]}
  BY ClearSlot DEF IInv

\* The steps that leave the table alone.
LEMMA QuietAdvance ==
    ASSUME IInv, NEW t \in Threads,
           \/ \E k \in Kinds : SubscribeBegin(t, k)
           \/ SubscribeNoMem(t)
           \/ SubscribeSend(t)
           \/ SubscribeWake(t)
           \/ SubscribeExpire(t)
    PROVE  /\ UNCHANGED <<slotVars, next_stream_id, recvVars, ended, closed>>
           /\ \A u \in Threads : Active(u)' => Active(u) /\ frame'[u] = frame[u]
           /\ Advance
<1>1. UNCHANGED <<slotVars, next_stream_id, recvVars, ended, closed>>
  BY DEF SubscribeBegin, SubscribeNoMem, SubscribeSend, SubscribeWake, Return,
         SubscribeExpire, appVars
<1>2. ASSUME NEW u \in Threads, Active(u)'
      PROVE  Active(u) /\ frame'[u] = frame[u]
  BY <1>2 DEF SubscribeBegin, SubscribeNoMem, SubscribeSend, SubscribeWake,
              SubscribeExpire, Return, Active, IInv, TypeOK
<1> QED
  BY <1>1, <1>2, ClearAdvance DEF slotVars

\* A call gives up and clears the slot it claimed.
LEMMA GiveUpAdvance ==
    ASSUME IInv, NEW t \in Threads, SubscribeSendFail(t) \/ SubscribeTimedOut(t)
    PROVE  /\ clear_stream_index(frame[t].index) /\ frame[t].index \in Slots
           /\ UNCHANGED <<next_stream_id, recvVars, ended, closed, handles>>
           /\ \A u \in Threads : Active(u)' => Active(u) /\ frame'[u] = frame[u]
           /\ ~Active(t)'
           /\ Advance
<1>1. /\ clear_stream_index(frame[t].index)
      /\ Return(t, "FAILED") \/ Return(t, "TIMEOUT")
      /\ UNCHANGED recvVars
  BY DEF SubscribeSendFail, SubscribeTimedOut
<1>2. frame[t].index \in Slots
  BY DEF IInv, TypeOK, Frames
<1>3. UNCHANGED <<next_stream_id, ended, closed, handles>>
  BY <1>1 DEF Return
<1>4. ~Active(t)' /\ \A u \in Threads : Active(u)' => Active(u) /\ frame'[u] = frame[u]
  BY <1>1 DEF Return, Active, IInv, TypeOK
<1> QED
  BY <1>1, <1>2, <1>3, <1>4, ClearIds, ClearAdvance

\* A slot is claimed.
LEMMA ClaimAdvance ==
    ASSUME IInv, NEW t \in Threads, SubscribeClaim(t)
    PROVE  /\ \E i \in Slots :
                 /\ claim_stream_index(i)
                 /\ frame'[t] = NewFrame(frame[t].kind, i,
                                         NextGen(stream_state_generation[i]),
                                         next_stream_id)
                 /\ stream_state_id'[i] = next_stream_id
                 /\ stream_state_handler'[i] = PendingHandler(t)
                 /\ \A j \in Slots \ {i} :
                      /\ stream_state_id'[j] = stream_state_id[j]
                      /\ stream_state_handler'[j] = stream_state_handler[j]
           /\ next_stream_id \in Ids /\ next_stream_id' = next_stream_id + 1
           /\ ~Active(t) /\ Active(t)'
           /\ \A u \in Threads \ {t} : Active(u)' => Active(u) /\ frame'[u] = frame[u]
           /\ UNCHANGED <<recvVars, appVars, expiries>>
           /\ rpc \notin {"response", "event"}
           /\ Advance
<1>1. next_stream_id \in Ids /\ next_stream_id' = next_stream_id + 1
      /\ UNCHANGED <<recvVars, appVars, expiries>> /\ stream_state_mtx = NoThread
  BY DEF SubscribeClaim, MtxFree, IInv, TypeOK, Ids
<1>2. PICK i \in Slots :
        /\ claim_stream_index(i)
        /\ set_stream_index(i, next_stream_id, PendingHandler(t))
        /\ frame' = [frame EXCEPT ![t] =
              NewFrame(frame[t].kind, i, NextGen(stream_state_generation[i]),
                       next_stream_id)]
  BY DEF SubscribeClaim
<1>3. /\ stream_state_id'[i] = next_stream_id
      /\ stream_state_handler'[i] = PendingHandler(t)
      /\ \A j \in Slots \ {i} :
           /\ stream_state_id'[j] = stream_state_id[j]
           /\ stream_state_handler'[j] = stream_state_handler[j]
  BY <1>2 DEF set_stream_index, IInv, TypeOK
<1>4. frame'[t] = NewFrame(frame[t].kind, i, NextGen(stream_state_generation[i]),
                           next_stream_id)
      /\ \A u \in Threads \ {t} : frame'[u] = frame[u]
  BY <1>2 DEF IInv, TypeOK
<1>5. /\ ~Active(t) /\ Active(t)'
      /\ \A u \in Threads \ {t} : Active(u)' => Active(u)
  BY DEF SubscribeClaim, Active, IInv, TypeOK
<1>6. frame'[t].sid = next_stream_id
  BY <1>4 DEF NewFrame
<1>7. Advance
  BY <1>1, <1>3, <1>4, <1>5, <1>6 DEF Advance
<1>8. rpc \notin {"response", "event"}
  BY <1>1, ThreadsAssumption DEF IInv, LockInv
<1> QED
  BY <1>1, <1>2, <1>3, <1>4, <1>5, <1>7, <1>8

\* A subscription is closed, by a thread or by a callback.
LEMMA CloseAdvance ==
    ASSUME IInv, NEW h \in handles, close_subscription(h), UNCHANGED threadVars
    PROVE  /\ \A u \in Threads : Active(u)' => Active(u) /\ frame'[u] = frame[u]
           /\ \A j \in Slots : stream_state_id'[j] \in {0, stream_state_id[j]}
           /\ validate_handle(h) =>
                 /\ h # ZeroHandle
                 /\ handle_index(h) = h.low - 1
                 /\ h.low - 1 \in Slots
                 /\ clear_stream_index(h.low - 1)
           /\ Advance
<1>1. h \in Handles
  BY DEF IInv, TypeOK
<1>2. ASSUME validate_handle(h)
      PROVE  h # ZeroHandle /\ handle_index(h) = h.low - 1
  BY <1>1, <1>2, BoundsAssumption
     DEF validate_handle, handle_index, ZeroHandle, Handles
<1>3. validate_handle(h) => h.low - 1 \in Slots /\ clear_stream_index(h.low - 1)
  BY <1>1, <1>2, HandleIndexType DEF close_subscription
<1>4. \A j \in Slots : stream_state_id'[j] \in {0, stream_state_id[j]}
  BY <1>3, ClearIds DEF close_subscription, slotVars
<1>5. UNCHANGED next_stream_id
      /\ \A u \in Threads : Active(u)' => Active(u) /\ frame'[u] = frame[u]
  BY DEF threadVars, Active
<1> QED
  BY <1>2, <1>3, <1>4, <1>5, ClearAdvance

\* The stream of a call that is under way was handed out.
LEMMA ActiveId ==
    ASSUME IInv, CInv, NEW t \in Threads, Active(t)
    PROVE  frame[t].sid \in Ids /\ frame[t].sid # next_stream_id
<1>1. /\ frame[t].sid \in 1..(next_stream_id - 1)
      /\ next_stream_id \in 1..(MaxCalls + 1)
  BY DEF CInv, CallInv, IInv, TypeOK
<1> QED
  BY <1>1, BoundsAssumption DEF Ids

\* The call in slot i has its response, and the slot becomes the one of its
\* subscription.
Converts(i) ==
    /\ stream_state_id'[i] = stream_id
    /\ stream_state_handler'[i] = SubHandler(stream_id)
    /\ UNCHANGED stream_state_generation
    /\ \A j \in Slots \ {i} :
          /\ stream_state_id'[j] = stream_state_id[j]
          /\ stream_state_handler'[j] = stream_state_handler[j]

\* The rest of response_handler: the call that waited no longer does, and its
\* slot is cleared unless its subscription was accepted.
LEMMA RespondAdvance ==
    ASSUME IInv, CInv, NEW i \in Slots, NEW t \in Threads, NEW m \in Messages,
           NEW r \in Results, response_handler(i, t, m, r),
           Awaits(t, i), frame[t].sid = stream_id,
           UNCHANGED <<next_stream_id, pc>>
    PROVE  /\ stream_id \in Ids
           /\ \/ clear_stream_index(i) /\ ~Reporting(t)'
              \/ Converts(i)
           /\ \A u \in Threads : Active(u)' <=> Active(u)
           /\ \A u \in Threads \ {t} : frame'[u] = frame[u]
           /\ frame'[t].ready
           /\ frame'[t].sid = stream_id /\ frame'[t].index = i
           /\ frame'[t].gen = frame[t].gen
           /\ \A n \in Ids : n = stream_id => Awaited(n) /\ ~Awaited(n)'
           /\ Advance
<1>1. Active(t) /\ frame[t].index = i /\ ~frame[t].ready /\ stream_id \in Ids
  <2>1. Active(t) /\ frame[t].index = i /\ ~frame[t].ready
    BY DEF Awaits, Active
  <2> QED
    BY <2>1, ActiveId
<1>2. PICK x \in Results :
         /\ frame' = [frame EXCEPT ![t] = [frame[t] EXCEPT !.ready = TRUE, !.ret = x]]
         /\ \/ clear_stream_index(i) /\ ~(frame[t].kind = "sub" /\ x = "OK")
            \/ /\ set_stream_index(i, stream_id, SubHandler(stream_id))
               /\ UNCHANGED stream_state_generation
  BY DEF response_handler, Results
<1>3. /\ frame'[t].ready /\ frame'[t].ret = x /\ frame'[t].kind = frame[t].kind
      /\ frame'[t].sid = stream_id /\ frame'[t].index = i
      /\ frame'[t].gen = frame[t].gen
      /\ \A u \in Threads \ {t} : frame'[u] = frame[u]
  <2>1. frame[t] \in Frames
    BY DEF IInv, TypeOK
  <2>2. ASSUME NEW f \in Frames
        PROVE  LET g == [f EXCEPT !.ready = TRUE, !.ret = x]
               IN  /\ g.ready /\ g.ret = x /\ g.kind = f.kind
                   /\ g.sid = f.sid /\ g.index = f.index /\ g.gen = f.gen
    BY DEF Frames
  <2> QED
    BY <1>1, <1>2, <2>1, <2>2 DEF IInv, TypeOK
<1>4. \A u \in Threads : Active(u)' <=> Active(u)
  BY DEF Active
<1>5. (clear_stream_index(i) /\ ~Reporting(t)') \/ Converts(i)
  <2>1. CASE clear_stream_index(i) /\ ~(frame[t].kind = "sub" /\ x = "OK")
    BY <1>3, <2>1 DEF Reporting
  <2>2. CASE /\ set_stream_index(i, stream_id, SubHandler(stream_id))
             /\ UNCHANGED stream_state_generation
    BY <2>2 DEF set_stream_index, Converts, IInv, TypeOK
  <2> QED
    BY <1>2, <2>1, <2>2
<1>6. ASSUME NEW n \in Ids, n = stream_id
      PROVE  Awaited(n) /\ ~Awaited(n)'
  <2>1. Awaited(n)
    BY <1>1, <1>6 DEF Awaited
  <2>2. ASSUME NEW u \in Threads, Active(u)', ~frame'[u].ready, frame'[u].sid = n
        PROVE  FALSE
    <3>1. u # t /\ Active(u) /\ frame[u].sid = frame[t].sid
      BY <1>3, <1>4, <1>6, <2>2
    <3> QED
      BY <1>1, <3>1 DEF CInv, CallInv
  <2> QED
    BY <2>1, <2>2 DEF Awaited
<1>7. Advance
  <2>1. ASSUME NEW u \in Threads, Active(u)'
        PROVE  /\ Active(u)
               /\ frame'[u].sid = frame[u].sid
               /\ frame'[u].kind = frame[u].kind
               /\ frame[u].ready => frame'[u].ready
    BY <1>3, <1>4, <2>1
  <2>2. ASSUME NEW j \in Slots
        PROVE  \/ stream_state_id'[j] \in {0, stream_state_id[j]}
               \/ Awaited(stream_state_id'[j])
    <3>1. CASE clear_stream_index(i)
      BY <3>1, ClearIds
    <3>2. CASE Converts(i)
      BY <1>1, <1>6, <3>2 DEF Converts
    <3> QED
      BY <1>5, <3>1, <3>2
  <2> QED
    BY <2>1, <2>2 DEF Advance
<1> QED
  BY <1>1, <1>3, <1>4, <1>5, <1>6, <1>7

\* A response is handled, with or without a user callback.
Responds(i, t) ==
    /\ i \in Slots /\ t \in Threads
    /\ rpc \in {"dispatch", "response"}
    /\ pc[t] # "send" /\ Awaits(t, i)
    /\ \A j \in Slots \ {i} : stream_state_id[j] # stream_id
    /\ (clear_stream_index(i) /\ ~Reporting(t)') \/ Converts(i)
    /\ \A u \in Threads : Active(u)' <=> Active(u)
    /\ \A u \in Threads \ {t} : frame'[u] = frame[u]
    /\ frame[t].sid = stream_id
    /\ frame'[t].ready
    /\ frame'[t].sid = stream_id /\ frame'[t].index = i
    /\ frame'[t].gen = frame[t].gen
    /\ stream_id \in Ids
    /\ \A n \in Ids : n = stream_id => Awaited(n) /\ ~Awaited(n)'
    /\ rpc' = "poll"
    /\ UNCHANGED <<pc, expiries, handles, outcome, ended, closed>>
    /\ Advance

\* A response is handled without a user callback.
LEMMA DispatchResponseAdvance ==
    ASSUME IInv, CInv, NEW i \in Slots, NEW m \in Messages, DispatchResponse(i, m)
    PROVE  stream_state_id[i] = stream_id /\ \E t \in Threads : Responds(i, t)
<1>1. PICK r \in ResultsWithoutCallback(m) :
         response_handler(i, stream_state_handler[i].ctx, m, r)
  BY DEF DispatchResponse
<1>2. r \in Results
  BY <1>1 DEF ResultsWithoutCallback, Results
<1>3. /\ Dispatching(i, "null") /\ rpc = "dispatch" /\ rpc' = "poll"
      /\ stream_state_mtx = NoThread /\ stream_state_id[i] = stream_id
      /\ UNCHANGED <<next_stream_id, pc, expiries, handles, outcome, ended, closed>>
  BY DEF DispatchResponse, Dispatching, MtxFree, get_stream_index_from_id, Poll, appVars
<1>4. PICK t \in Threads :
         /\ t = stream_state_handler[i].ctx
         /\ Awaits(t, i) /\ frame[t].sid = stream_id
         /\ \A j \in Slots : j # i => stream_state_id[j] # stream_id
  BY <1>3, DispatchedSlot
<1>5. pc[t] # "send"
  BY <1>3, ThreadsAssumption DEF IInv, LockInv
<1>6. Responds(i, t)
  BY <1>1, <1>2, <1>3, <1>4, <1>5, RespondAdvance DEF Responds
<1> QED
  BY <1>3, <1>6

\* A response callback returns and response_handler finishes.
LEMMA ResponseReturnAdvance ==
    ASSUME IInv, CInv, NEW r \in {"OK", "FAILED"}, ResponseReturn(r)
    PROVE  \E i \in Slots, t \in Threads : i = cur.index /\ Responds(i, t)
<1>1. /\ ResponseResult(msg, r) \in Results /\ msg \in Messages /\ cur.index \in Slots
  BY DEF ResponseResult, Results, IInv, TypeOK
<1>2. /\ rpc = "response" /\ rpc' = "poll"
      /\ response_handler(cur.index, cur.ctx, msg, ResponseResult(msg, r))
      /\ UNCHANGED <<next_stream_id, pc, expiries, handles, outcome, ended, closed>>
  BY DEF ResponseReturn, Poll
<1>3. PICK i \in Slots, t \in Threads :
         /\ i = cur.index /\ t = cur.ctx
         /\ Awaits(t, i) /\ frame[t].sid = stream_id
         /\ \A j \in Slots : j # i => stream_state_id[j] # stream_id
  BY <1>1, <1>2 DEF IInv, FrameSafety, ResponseInv, Awaits
<1>4. PICK m \in Messages, x \in Results : response_handler(i, t, m, x)
  BY <1>1, <1>2, <1>3
<1>5. pc[t] # "send"
  BY ThreadsAssumption DEF ResponseReturn, IInv, LockInv
<1>6. Responds(i, t)
  BY <1>2, <1>3, <1>4, <1>5, RespondAdvance DEF Responds
<1> QED
  BY <1>3, <1>6

\* Steps of the receive thread that leave the table and the threads alone.
LEMMA RecvAdvance ==
    ASSUME \/ ReadPacket \/ ReadFail \/ Exit \/ DispatchDrop
           \/ \E i \in Slots, m \in Messages :
                 DispatchResponseCall(i, m) \/ DispatchEventCall(i, m)
           \/ UNCHANGED vars
    PROVE  /\ UNCHANGED <<slotVars, next_stream_id, pc, expiries, frame, outcome,
                          ended, closed>>
           /\ \A u \in Threads : Active(u)' => Active(u) /\ frame'[u] = frame[u]
           /\ Advance
<1>1. UNCHANGED <<slotVars, next_stream_id, pc, expiries, frame, outcome, ended, closed>>
  BY DEF ReadPacket, ReadFail, Exit, DispatchDrop, DispatchResponseCall,
         DispatchEventCall, EnterCallback, vars, threadVars, appVars
<1>2. \A u \in Threads : Active(u)' => Active(u) /\ frame'[u] = frame[u]
  BY <1>1 DEF Active
<1> QED
  BY <1>1, <1>2, ClearAdvance DEF slotVars

\* The end of an event clears its slot, and the stream has ended, or nothing.
LEMMA EventAdvance ==
    ASSUME IInv, NEW i \in Slots, NEW m, NEW r, EventDone(i, m, r),
           UNCHANGED threadVars
    PROVE  /\ \/ clear_stream_index(i) /\ ended' = ended \cup {stream_id}
              \/ UNCHANGED <<slotVars, ended>>
           /\ \A u \in Threads : Active(u)' => Active(u) /\ frame'[u] = frame[u]
           /\ Advance
<1>1. \/ clear_stream_index(i) /\ ended' = ended \cup {stream_id}
      \/ UNCHANGED <<slotVars, ended>>
  BY DEF EventDone
<1>2. \A j \in Slots : stream_state_id'[j] \in {0, stream_state_id[j]}
  BY <1>1, ClearIds DEF slotVars
<1>3. /\ UNCHANGED next_stream_id
      /\ \A u \in Threads : Active(u)' => Active(u) /\ frame'[u] = frame[u]
  BY DEF threadVars, Active
<1> QED
  BY <1>1, <1>2, <1>3, ClearAdvance

-----------------------------------------------------------------------------
(* LInv holds initially, and each step preserves it. *)

\* The invariant holds of a client that has just connected.
LEMMA InitLInv == Init => LInv
  BY DEF Init, LInv, HandleInv, ClaimInv, EndedInv, RunInv, Active

\* The streams of the old handles, and the ones that have ended, stay settled.
LEMMA OldSettled ==
    ASSUME IInv, LInv, Advance
    PROVE  /\ \A h \in handles \ {ZeroHandle} :
                 h.low - 1 \in Slots /\ Settled(h.sid, {h.low - 1})'
           /\ \A n \in ended : Settled(n, {})'
           /\ (rpc = "event" /\ UNCHANGED <<stream_id, cur>>) => RunInv'
<1>1. ASSUME NEW h \in handles \ {ZeroHandle}
      PROVE  h.low - 1 \in Slots /\ Settled(h.sid, {h.low - 1})'
  BY SettledStays DEF LInv, HandleInv
<1>2. ASSUME NEW n \in ended
      PROVE  Settled(n, {})'
  BY SettledStays DEF LInv, EndedInv
<1>3. ASSUME rpc = "event", UNCHANGED <<stream_id, cur>>
      PROVE  RunInv'
  <2>1. PICK n, S : n = stream_id /\ S = {cur.index}
    OBVIOUS
  <2>2. Settled(n, S)'
    BY <1>3, <2>1, SettledStays DEF LInv, RunInv
  <2> QED
    BY <1>3, <2>1, <2>2 DEF RunInv
<1> QED
  BY <1>1, <1>2, <1>3

\* Calls keep their claims when slots are only cleared.
LEMMA ClaimsKept ==
    ASSUME IInv, CInv, LInv,
           \A u \in Threads : Active(u)' => Active(u) /\ frame'[u] = frame[u],
           \A j \in Slots : stream_state_id'[j] \in {0, stream_state_id[j]}
    PROVE  ClaimInv'
<1> SUFFICES ASSUME NEW u \in Threads, Active(u)',
                    NEW j \in Slots \ {frame'[u].index}
             PROVE  stream_state_id'[j] # frame'[u].sid
  BY DEF ClaimInv
<1>1. Active(u) /\ frame'[u] = frame[u]
  OBVIOUS
<1>2. frame[u].sid # 0 /\ stream_state_id[j] # frame[u].sid
  BY <1>1 DEF CInv, CallInv, LInv, ClaimInv
<1> QED
  BY <1>1, <1>2

\* The stream of a call that is about to report a subscription is settled.
LEMMA ReportingSettled ==
    ASSUME CInv, LInv, NEW t \in Threads, Reporting(t)
    PROVE  Settled(frame[t].sid, {frame[t].index})
  BY DEF Reporting, Settled, LInv, ClaimInv, CInv, CallInv

\* The stream of a subscription is settled in its slot.
LEMMA SubSettled ==
    ASSUME IInv, CInv, NEW i \in Slots, stream_state_handler[i].fn = "sub"
    PROVE  Settled(stream_state_id[i], {i})
<1>1. stream_state_id[i] \in Ids /\ stream_state_id[i] # 0 /\ Opened(i)
  BY DEF CInv, SubInv, Ids
<1>2. ASSUME NEW t \in Threads, Active(t), frame[t].sid = stream_state_id[i]
      PROVE  frame[t].ready /\ frame[t].kind = "sub"
  <2>1. outcome[stream_state_id[i]] = "none"
    BY <1>2 DEF CInv, CallInv
  <2>2. PICK u \in Threads : /\ Active(u) /\ frame[u].ready /\ frame[u].kind = "sub"
                             /\ frame[u].sid = stream_state_id[i]
    BY <1>1, <2>1 DEF Opened
  <2> QED
    BY <1>2, <2>2 DEF CInv, CallInv
<1>3. /\ stream_state_id[i] < next_stream_id
      /\ \A j \in Slots \ {i} : stream_state_id[j] # stream_state_id[i]
  BY <1>1 DEF IInv, DistinctStreamIds
<1>4. stream_state_id[i] \in 1..(next_stream_id - 1)
  BY <1>1, <1>3 DEF Ids, IInv, TypeOK
<1> QED
  BY <1>2, <1>3, <1>4 DEF Settled

\* A stream that is settled in a slot is in no slot once that one is cleared.
LEMMA ClearSettles ==
    ASSUME IInv, Advance, NEW i \in Slots, clear_stream_index(i), NEW n,
           Settled(n, {i})
    PROVE  Settled(n, {})'
<1>1. Settled(n, {i})'
  BY SettledStays
<1>2. stream_state_id'[i] = 0
  BY ClearIds
<1>3. n # 0
  BY DEF Settled
<1> QED
  BY <1>1, <1>2, <1>3 DEF Settled

\* Steps of a thread that leave the table alone.
LEMMA QuietL ==
    ASSUME IInv, CInv, LInv, NEW t \in Threads,
           \/ \E k \in Kinds : SubscribeBegin(t, k)
           \/ SubscribeNoMem(t)
           \/ SubscribeSend(t)
           \/ SubscribeWake(t)
           \/ SubscribeExpire(t)
    PROVE  LInv'
<1>1. /\ UNCHANGED <<slotVars, recvVars, ended>> /\ Advance
      /\ \A u \in Threads : Active(u)' => Active(u) /\ frame'[u] = frame[u]
  BY QuietAdvance
<1>2. ClaimInv'
  BY <1>1, ClaimsKept DEF slotVars
<1>3. EndedInv' /\ RunInv'
  BY <1>1, OldSettled DEF EndedInv, RunInv, recvVars
<1>4. HandleInv'
  <2>1. CASE handles' = handles
    BY <1>1, <2>1, OldSettled DEF HandleInv
  <2>2. CASE SubscribeWake(t)
    <3> DEFINE f == frame[t]
               new == [low |-> f.index + 1, gen |-> f.gen, sid |-> f.sid]
    <3>1. handles' \subseteq handles \cup {h \in {new} : Reporting(t)}
      BY <2>2 DEF SubscribeWake, Return, Reporting, Active
    <3>2. PICK i \in Slots, n \in 0..MaxCalls : i = f.index /\ n = f.sid
      BY DEF IInv, TypeOK, Frames
    <3>4. Reporting(t) => Settled(n, {i})'
      BY <1>1, <3>2, ReportingSettled, SettledStays
    <3>5. new.low - 1 = i /\ new.sid = n
      BY <3>2 DEF Slots
    <3> HIDE DEF new, f
    <3>6. ASSUME NEW h \in handles' \ {ZeroHandle}
          PROVE  h.low - 1 \in Slots /\ Settled(h.sid, {h.low - 1})'
      <4>1. CASE h \in handles
        BY <1>1, <4>1, OldSettled
      <4>2. CASE h = new /\ Reporting(t)
        <5>1. h.low - 1 = i /\ h.sid = n
          BY <4>2, <3>5
        <5> QED
          BY <3>4, <4>2, <5>1
      <4> QED
        BY <3>1, <4>1, <4>2
    <3> QED
      BY <3>6 DEF HandleInv
  <2> QED
    BY <2>1, <2>2 DEF SubscribeBegin, SubscribeNoMem, SubscribeSend,
                      SubscribeExpire, appVars
<1> QED
  BY <1>2, <1>3, <1>4 DEF LInv

\* A call gives up.  The mutex is not the receive thread's, so no event is
\* being handled.
LEMMA GiveUpL ==
    ASSUME IInv, CInv, LInv, NEW t \in Threads,
           SubscribeSendFail(t) \/ SubscribeTimedOut(t)
    PROVE  LInv'
<1>1. /\ clear_stream_index(frame[t].index) /\ frame[t].index \in Slots
      /\ UNCHANGED <<recvVars, ended, handles>> /\ Advance
      /\ \A u \in Threads : Active(u)' => Active(u) /\ frame'[u] = frame[u]
  BY GiveUpAdvance
<1>2. ClaimInv'
  BY <1>1, ClearIds, ClaimsKept
<1>3. HandleInv' /\ EndedInv' /\ RunInv'
  BY <1>1, OldSettled DEF HandleInv, EndedInv, RunInv, recvVars
<1> QED
  BY <1>2, <1>3 DEF LInv

\* A slot is claimed.
LEMMA ClaimL ==
    ASSUME IInv, CInv, LInv, NEW t \in Threads, SubscribeClaim(t)
    PROVE  LInv'
<1>1. PICK i \in Slots :
         /\ frame'[t] = NewFrame(frame[t].kind, i,
                                 NextGen(stream_state_generation[i]), next_stream_id)
         /\ stream_state_id'[i] = next_stream_id
         /\ \A j \in Slots \ {i} : stream_state_id'[j] = stream_state_id[j]
  BY ClaimAdvance
<1>2. /\ frame'[t].index = i /\ frame'[t].sid = next_stream_id
      /\ UNCHANGED <<recvVars, appVars>> /\ Advance
      /\ next_stream_id \in Ids
      /\ \A u \in Threads \ {t} : Active(u)' => Active(u) /\ frame'[u] = frame[u]
      /\ rpc \notin {"response", "event"}
  BY <1>1, ClaimAdvance DEF NewFrame
<1>3. ClaimInv'
  <2>1. ASSUME NEW j \in Slots
        PROVE  stream_state_id[j] # next_stream_id
    <3>1. /\ stream_state_id[j] # 0 => stream_state_id[j] < next_stream_id
          /\ next_stream_id \in 1..MaxCalls
      BY <1>2 DEF Ids, IInv, DistinctStreamIds
    <3> QED
      BY <3>1
  <2>2. ASSUME NEW u \in Threads, Active(u)', NEW j \in Slots \ {frame'[u].index}
        PROVE  stream_state_id'[j] # frame'[u].sid
    <3>1. CASE u = t
      BY <1>1, <1>2, <2>1, <2>2, <3>1
    <3>2. CASE u # t
      <4>1. /\ Active(u) /\ frame'[u] = frame[u]
            /\ frame[u].sid # next_stream_id
            /\ stream_state_id[j] # frame[u].sid
        BY <1>2, <2>2, <3>2 DEF CInv, CallInv, LInv, ClaimInv, IInv, TypeOK
      <4> QED
        BY <1>1, <4>1
    <3> QED
      BY <3>1, <3>2
  <2> QED
    BY <2>2 DEF ClaimInv
<1>4. HandleInv' /\ EndedInv' /\ RunInv'
  BY <1>2, OldSettled DEF HandleInv, EndedInv, RunInv, recvVars, appVars
<1> QED
  BY <1>3, <1>4 DEF LInv

\* A subscription is closed: its stream has ended and its slot is cleared.
LEMMA CloseL ==
    ASSUME IInv, CInv, LInv, NEW h \in handles, close_subscription(h),
           UNCHANGED <<threadVars, recvVars, handles>>
    PROVE  LInv'
<1>1. /\ Advance
      /\ \A u \in Threads : Active(u)' => Active(u) /\ frame'[u] = frame[u]
      /\ \A j \in Slots : stream_state_id'[j] \in {0, stream_state_id[j]}
  BY CloseAdvance
<1>2. ClaimInv'
  BY <1>1, ClaimsKept
<1>3. HandleInv' /\ RunInv'
  BY <1>1, OldSettled DEF HandleInv, RunInv, recvVars
<1>4. EndedInv'
  <2>1. CASE validate_handle(h)
    <3>1. /\ h \in handles \ {ZeroHandle} /\ h.low - 1 \in Slots
          /\ clear_stream_index(h.low - 1) /\ ended' = ended \cup {h.sid}
      BY <2>1, CloseAdvance DEF close_subscription
    <3>2. Settled(h.sid, {})'
      BY <1>1, <3>1, ClearSettles DEF LInv, HandleInv
    <3> QED
      BY <1>1, <3>1, <3>2, OldSettled DEF EndedInv
  <2>2. CASE ~validate_handle(h)
    BY <1>1, <2>2, OldSettled DEF EndedInv, close_subscription
  <2> QED
    BY <2>1, <2>2
<1> QED
  BY <1>2, <1>3, <1>4 DEF LInv

\* An event has been handled.
LEMMA EventL ==
    ASSUME IInv, CInv, LInv, NEW i \in Slots, NEW m, NEW r, EventDone(i, m, r),
           UNCHANGED <<threadVars, handles>>, Settled(stream_id, {i}),
           rpc' = "poll"
    PROVE  LInv'
<1>1. /\ \/ clear_stream_index(i) /\ ended' = ended \cup {stream_id}
         \/ UNCHANGED <<slotVars, ended>>
      /\ \A u \in Threads : Active(u)' => Active(u) /\ frame'[u] = frame[u]
      /\ Advance
  BY EventAdvance
<1>2. ClaimInv'
  BY <1>1, ClearIds, ClaimsKept DEF slotVars
<1>3. HandleInv' /\ RunInv'
  BY <1>1, OldSettled DEF HandleInv, RunInv
<1>4. EndedInv'
  <2>1. PICK n : n = stream_id
    OBVIOUS
  <2>2. clear_stream_index(i) => Settled(n, {})'
    BY <1>1, <2>1, ClearSettles
  <2> QED
    BY <1>1, <2>1, <2>2, OldSettled DEF EndedInv
<1> QED
  BY <1>2, <1>3, <1>4 DEF LInv

\* A response has been handled.
LEMMA RespondL ==
    ASSUME IInv, CInv, LInv, NEW i \in Slots, NEW t \in Threads, Responds(i, t)
    PROVE  LInv'
<1>1. HandleInv' /\ EndedInv' /\ RunInv'
  BY OldSettled DEF Responds, HandleInv, EndedInv, RunInv
<1>2. ASSUME NEW u \in Threads, Active(u)', NEW j \in Slots \ {frame'[u].index}
      PROVE  stream_state_id'[j] # frame'[u].sid
  <2>1. /\ Active(u) /\ frame'[u].sid = frame[u].sid
        /\ frame'[u].index = frame[u].index
    BY <1>2 DEF Responds, Awaits
  <2>2. stream_state_id[j] # frame[u].sid /\ frame[u].sid # 0
    BY <1>2, <2>1 DEF LInv, ClaimInv, CInv, CallInv
  <2>3. CASE clear_stream_index(i)
    BY <2>1, <2>2, <2>3, ClearIds
  <2>4. CASE Converts(i)
    <3>1. CASE u = t
      BY <1>2, <2>1, <2>2, <2>4, <3>1 DEF Responds, Converts
    <3>2. CASE u # t
      <4>1. frame[u].sid # stream_id
        BY <2>1, <3>2 DEF Responds, Awaits, Active, CInv, CallInv
      <4> QED
        BY <2>1, <2>2, <2>4, <4>1 DEF Converts
    <3> QED
      BY <3>1, <3>2
  <2> QED
    BY <2>3, <2>4 DEF Responds
<1> QED
  BY <1>1, <1>2 DEF LInv, ClaimInv

\* Steps of the receive thread that leave the table alone.  An event callback
\* is entered with the handle of the slot of a subscription.
LEMMA RecvL ==
    ASSUME IInv, CInv, LInv,
           \/ ReadPacket \/ ReadFail \/ Exit \/ DispatchDrop
           \/ \E i \in Slots, m \in Messages :
                 DispatchResponseCall(i, m) \/ DispatchEventCall(i, m)
           \/ UNCHANGED vars
    PROVE  LInv'
<1>1. /\ UNCHANGED <<slotVars, ended>> /\ Advance
      /\ \A u \in Threads : Active(u)' => Active(u) /\ frame'[u] = frame[u]
  BY RecvAdvance
<1>2. ClaimInv'
  BY <1>1, ClaimsKept DEF slotVars
<1>3. EndedInv'
  BY <1>1, OldSettled DEF EndedInv
<1>4. ASSUME NEW i \in Slots, NEW m \in Messages, DispatchEventCall(i, m)
      PROVE  HandleInv' /\ RunInv'
  <2> DEFINE new == get_current_handle(i)
  <2>1. PICK n : n = stream_state_id[i]
    OBVIOUS
  <2>2. /\ stream_state_handler[i].fn = "sub"
        /\ stream_id' = n /\ cur'.index = i
        /\ handles' = handles \cup {new}
    BY <1>4, <2>1 DEF DispatchEventCall, Dispatching, EnterCallback,
                      get_stream_index_from_id
  <2>3. Settled(n, {i})'
    BY <1>1, <2>1, <2>2, SubSettled, SettledStays
  <2>4. new.low - 1 = i /\ new.sid = n
    BY <2>1 DEF get_current_handle, Slots
  <2> HIDE DEF new
  <2>5. ASSUME NEW h \in handles' \ {ZeroHandle}
        PROVE  h.low - 1 \in Slots /\ Settled(h.sid, {h.low - 1})'
    <3>1. CASE h \in handles
      BY <1>1, <3>1, OldSettled
    <3>2. CASE h = new
      <4>1. h.low - 1 = i /\ h.sid = n
        BY <2>4, <3>2
      <4> QED
        BY <2>3, <4>1
    <3> QED
      BY <2>2, <3>1, <3>2
  <2>6. RunInv'
    BY <2>2, <2>3 DEF RunInv
  <2> QED
    BY <2>5, <2>6 DEF HandleInv
<1>5. ASSUME ReadPacket \/ ReadFail \/ Exit \/ DispatchDrop \/ UNCHANGED vars
      PROVE  HandleInv' /\ RunInv'
  <2>1. handles' = handles
    BY <1>5 DEF ReadPacket, ReadFail, Exit, DispatchDrop, vars, appVars
  <2>2. rpc' = "event" => rpc = "event" /\ UNCHANGED <<stream_id, cur>>
    BY <1>5 DEF ReadPacket, ReadFail, Exit, DispatchDrop, Poll, vars, recvVars
  <2>3. HandleInv'
    BY <1>1, <2>1, OldSettled DEF HandleInv
  <2>4. CASE rpc' = "event"
    BY <1>1, <2>2, <2>3, <2>4, OldSettled
  <2>5. CASE rpc' # "event"
    BY <2>3, <2>5 DEF RunInv
  <2> QED
    BY <2>4, <2>5
<1>6. ASSUME NEW i \in Slots, NEW m \in Messages, DispatchResponseCall(i, m)
      PROVE  HandleInv' /\ RunInv'
  <2>1. handles' = handles /\ rpc' = "response"
    BY <1>6 DEF DispatchResponseCall, EnterCallback
  <2> QED
    BY <1>1, <2>1, OldSettled DEF HandleInv, RunInv
<1> QED
  BY <1>2, <1>3, <1>4, <1>5, <1>6 DEF LInv

\* Every step of every thread preserves the invariant.
LEMMA NextLInv == IInv /\ CInv /\ LInv /\ [Next]_vars => LInv'
<1> SUFFICES ASSUME IInv, CInv, LInv, [Next]_vars PROVE LInv'
  OBVIOUS
<1>1. ASSUME NEW t \in Threads, ThreadNext(t) PROVE LInv'
  BY <1>1, QuietL, GiveUpL, ClaimL, CloseL DEF ThreadNext, CloseSubscription
<1>2. ASSUME NEW i \in Slots, NEW m \in Messages, DispatchEvent(i, m)
      PROVE  LInv'
  <2>1. Settled(stream_id, {i})
    BY <1>2, SubSettled DEF DispatchEvent, Dispatching, get_stream_index_from_id
  <2> QED
    BY <1>2, <2>1, EventL DEF DispatchEvent, Poll
<1>3. ASSUME NEW r \in {"OK", "FAILED"}, EventReturn(r)
      PROVE  LInv'
  <2>1. cur.index \in Slots /\ Settled(stream_id, {cur.index})
    BY <1>3 DEF EventReturn, LInv, RunInv, IInv, TypeOK
  <2> QED
    BY <1>3, <2>1, EventL DEF EventReturn, Poll
<1>4. CASE RecvNext
  BY <1>2, <1>3, <1>4, RecvL, CloseL, RespondL, DispatchResponseAdvance,
     ResponseReturnAdvance
     DEF RecvNext, CallbackReturn, CallbackSubscribe, CallbackClose
<1>5. CASE Quiescent \/ UNCHANGED vars
  BY <1>5, RecvL DEF Quiescent
<1> QED
  BY <1>1, <1>4, <1>5 DEF Next

\* Streams of client.c that have their response stay in the slot they were
\* given, and leave it for good when they end: the inductive invariant,
\* relative to IInv and CInv.
THEOREM StreamInvariance == Spec => []LInv
  BY Invariance, CallbackInvariance, InitLInv, NextLInv, PTL DEF Spec

\* No sequence of calls, errors, timeouts and closes loses a slot: one that is
\* in use has a call that waits or a subscription that has not ended.
THEOREM SlotsNotLost == Spec => []NoSlotLeak
<1>1. IInv /\ CInv /\ LInv => NoSlotLeak
  <2> SUFFICES ASSUME IInv, CInv, LInv, NEW i \in Slots, stream_state_id[i] # 0
               PROVE  \/ \E t \in Threads :
                           Awaits(t, i) /\ frame[t].sid = stream_state_id[i]
                      \/ /\ stream_state_handler[i] = SubHandler(stream_state_id[i])
                         /\ stream_state_id[i] \notin ended
    BY DEF NoSlotLeak
  <2>1. stream_state_handler[i] \in StreamHandlers
    BY DEF IInv, TypeOK
  <2>2. CASE stream_state_handler[i].fn = "null"
    BY <2>2 DEF IInv, FrameSafety, Awaits
  <2>3. CASE stream_state_handler[i].fn = "sub"
    <3>1. stream_state_handler[i].ctx = stream_state_id[i]
      BY <2>3 DEF CInv, SubInv
    <3>2. stream_state_handler[i] = SubHandler(stream_state_id[i])
      BY <2>1, <2>3, <3>1 DEF StreamHandlers, SubHandler
    <3> QED
      BY <3>2 DEF LInv, EndedInv, Settled
  <2> QED
    BY <2>1, <2>2, <2>3 DEF StreamHandlers
<1> QED
  BY <1>1, Invariance, CallbackInvariance, StreamInvariance, PTL

-----------------------------------------------------------------------------
(* What a step does to a slot while generations do not wrap around. *)

\* Stream n gets its response, or its call gives up.
Answered(n) == Awaited(n) /\ ~Awaited(n)'

Kept(j) ==
    /\ stream_state_id'[j] = stream_state_id[j]
    /\ stream_state_generation'[j] = stream_state_generation[j]
    /\ stream_state_handler'[j] = stream_state_handler[j]

\* As long as no deadline has passed, a slot is cleared for a reason.
Cleared(j) ==
    /\ stream_state_id'[j] = 0
    /\ stream_state_generation'[j] = stream_state_generation[j] + 1
    /\ \A n \in Ids : (expiries' = 0 /\ stream_state_id[j] = n) =>
          n \in ended' \/ Answered(n)

Claimed(j) ==
    /\ stream_state_id[j] = 0
    /\ stream_state_id'[j] = next_stream_id
    /\ stream_state_generation'[j] = stream_state_generation[j] + 1

Converted(j) ==
    /\ stream_state_id'[j] = stream_state_id[j]
    /\ stream_state_generation'[j] = stream_state_generation[j]
    /\ \A n \in Ids : stream_state_id[j] = n => Answered(n)

SlotStep(j) == Kept(j) \/ Cleared(j) \/ Claimed(j) \/ Converted(j)

\* Without wrapping around, the next generation is a larger one.
LEMMA NextGenLarger ==
    ASSUME IInv, NoWrap, NEW i \in Slots
    PROVE  NextGen(stream_state_generation[i]) = stream_state_generation[i] + 1
<1>1. stream_state_generation[i] \in 0..(GenMod - 1)
      /\ stream_state_generation[i] < GenMod - 1
  BY DEF IInv, TypeOK, NoWrap
<1> QED
  BY <1>1, BoundsAssumption DEF NextGen

\* Clearing a slot is a step of that slot alone.
LEMMA ClearStep ==
    ASSUME IInv, NoWrap, NEW i \in Slots, clear_stream_index(i),
           \A n \in Ids : (expiries' = 0 /\ stream_state_id[i] = n) =>
              n \in ended' \/ Answered(n)
    PROVE  \A j \in Slots : SlotStep(j)
<1>1. stream_state_generation'[i] = stream_state_generation[i] + 1
      /\ \A j \in Slots \ {i} : stream_state_generation'[j] = stream_state_generation[j]
  BY NextGenLarger DEF clear_stream_index, IInv, TypeOK
<1>2. /\ stream_state_id'[i] = 0
      /\ \A j \in Slots \ {i} :
           /\ stream_state_id'[j] = stream_state_id[j]
           /\ stream_state_handler'[j] = stream_state_handler[j]
  BY ClearSlot DEF IInv
<1>3. Cleared(i)
  BY <1>1, <1>2 DEF Cleared
<1>4. \A j \in Slots \ {i} : Kept(j)
  BY <1>1, <1>2 DEF Kept
<1> QED
  BY <1>3, <1>4 DEF SlotStep

\* A ticket stays one until its stream gets its response.
LEMMA TicketStays ==
    ASSUME IInv, NEW i \in Slots, SlotStep(i), NEW n \in Ids,
           n # next_stream_id, ~Answered(n), NEW g \in Nat, NEW d,
           Ticket(i, g, n, d)
    PROVE  Ticket(i, g, n, d)'
<1> DEFINE a == stream_state_generation[i]
           b == stream_state_generation'[i]
<1>1. a \in Nat /\ n # 0
  BY BoundsAssumption DEF IInv, TypeOK, Ids
<1>2. CASE Kept(i)
  BY <1>2 DEF Kept, Ticket
<1>3. CASE Cleared(i)
  <2>1. g <= a /\ b = a + 1 /\ stream_state_id'[i] # n
    BY <1>1, <1>3 DEF Ticket, Cleared
  <2>2. g <= b /\ b # g
    BY <1>1, <2>1
  <2> QED
    BY <2>1, <2>2 DEF Ticket
<1>4. CASE Claimed(i)
  <2>1. g <= a /\ b = a + 1 /\ stream_state_id'[i] # n
    BY <1>4 DEF Ticket, Claimed
  <2>2. g <= b /\ b # g
    BY <1>1, <2>1
  <2> QED
    BY <2>1, <2>2 DEF Ticket
<1>5. CASE Converted(i)
  BY <1>5 DEF Converted, Ticket
<1> QED
  BY <1>2, <1>3, <1>4, <1>5 DEF SlotStep

\* Before the first deadline, a stream loses its slot only when it ends, gets
\* its response or its call gives up.
LEMMA SlotStays ==
    ASSUME NEW i \in Slots, SlotStep(i), NEW n \in Ids, ~Answered(n),
           stream_state_id[i] = n, expiries' = 0, n \notin ended'
    PROVE  stream_state_id'[i] = n
<1>1. n # 0
  BY DEF Ids
<1> QED
  BY <1>1 DEF SlotStep, Kept, Cleared, Claimed, Converted

\* A settled stream was handed out, and no call waits for it.
LEMMA SettledId ==
    ASSUME IInv, NEW n, NEW S, Settled(n, S)
    PROVE  n \in Ids /\ n # next_stream_id /\ ~Awaited(n) /\ ~Answered(n)
<1>1. next_stream_id \in 1..(MaxCalls + 1) /\ n \in 1..(next_stream_id - 1)
  BY DEF IInv, TypeOK, Settled
<1>2. n \in 1..MaxCalls /\ n # next_stream_id
  BY <1>1, BoundsAssumption
<1>3. ~Awaited(n)
  BY DEF Settled, Awaited
<1> QED
  BY <1>2, <1>3 DEF Ids, Answered

\* What every step below does: slots change as above, and no stream that had
\* ended or deadline that had passed is forgotten.
TableStep ==
    /\ \A j \in Slots : SlotStep(j)
    /\ ended \subseteq ended'
    /\ expiries' = 0 => expiries = 0

\* The handles that the application already has.
LEMMA HandleStays ==
    ASSUME IInv, LInv, HInv, TableStep, NEW h \in handles \ {ZeroHandle}
    PROVE  /\ HandleTicket(h)'
           /\ (expiries' = 0 /\ (outcome'[h.sid] = "OK" => outcome[h.sid] = "OK")) =>
                 HandleOpen(h)'
<1>1. h.low - 1 \in Slots /\ Settled(h.sid, {h.low - 1})
  BY DEF LInv, HandleInv
<1>2. /\ h.sid \in Ids /\ h.sid # next_stream_id /\ ~Answered(h.sid)
      /\ h.gen \in Nat
  BY <1>1, SettledId, BoundsAssumption DEF IInv, TypeOK, Handles
<1>3. HandleTicket(h)'
  <2>1. Ticket(h.low - 1, h.gen, h.sid, SubHandler(h.sid))
    BY DEF HInv, TicketInv, HandleTicket
  <2> QED
    BY <1>1, <1>2, <2>1, TicketStays DEF HandleTicket, TableStep
<1>4. ASSUME expiries' = 0, outcome'[h.sid] = "OK", outcome[h.sid] = "OK",
             h.sid \notin ended'
      PROVE  stream_state_id'[h.low - 1] = h.sid
  <2>1. stream_state_id[h.low - 1] = h.sid
    BY <1>4 DEF TableStep, HInv, PromptInv, HandleOpen
  <2> QED
    BY <1>1, <1>2, <1>4, <2>1, SlotStays DEF TableStep
<1> QED
  BY <1>3, <1>4 DEF HandleOpen

\* The frame of a call that goes on as it was.
LEMMA FrameStays ==
    ASSUME IInv, CInv, LInv, EndedInv', HInv, TableStep, NEW t \in Threads,
           Active(t)' => Active(t) /\ frame'[t] = frame[t]
    PROVE  FrameTicket(t)' /\ (expiries' = 0 => FrameOpen(t)')
<1>1. CASE ~Active(t)'
  BY <1>1 DEF FrameTicket, FrameOpen, Reporting
<1>2. CASE Active(t)' /\ ~frame[t].ready
  <2>1. PICK i \in Slots, g \in Nat, n \in Ids :
           /\ i = frame[t].index /\ g = frame[t].gen /\ n = frame[t].sid
           /\ n # next_stream_id
    <3>1. frame[t] \in Frames
      BY DEF IInv, TypeOK
    <3>2. frame[t].index \in Slots /\ frame[t].gen \in Nat
      BY <3>1, BoundsAssumption DEF Frames
    <3> QED
      BY <1>2, <3>2, ActiveId
  <2>2. Active(t) /\ frame'[t] = frame[t] /\ ~Reporting(t)'
    BY <1>2 DEF Reporting
  <2>3. Awaited(n)'
    BY <1>2, <2>1, <2>2 DEF Awaited
  <2>4. ~Answered(n) /\ n \notin ended'
    BY <2>3 DEF Answered, EndedInv, Settled, Awaited
  <2>5. Ticket(i, g, n, PendingHandler(t))
    BY <1>2, <2>1, <2>2 DEF HInv, TicketInv, FrameTicket
  <2>6. Ticket(i, g, n, PendingHandler(t))'
    BY <2>1, <2>4, <2>5, TicketStays DEF TableStep
  <2>7. ASSUME expiries' = 0 PROVE stream_state_id'[i] = n
    <3>1. stream_state_id[i] = n
      BY <1>2, <2>1, <2>2, <2>7 DEF HInv, PromptInv, FrameOpen, TableStep
    <3> QED
      BY <2>1, <2>4, <2>7, <3>1, SlotStays DEF TableStep
  <2> QED
    BY <2>1, <2>2, <2>6, <2>7 DEF FrameTicket, FrameOpen
<1>3. CASE Active(t)' /\ frame[t].ready /\ Reporting(t)
  <2>1. Active(t) /\ frame'[t] = frame[t] /\ Settled(frame[t].sid, {frame[t].index})
    BY <1>3, ReportingSettled
  <2>2. PICK i \in Slots, g \in Nat, n \in Ids :
           /\ i = frame[t].index /\ g = frame[t].gen /\ n = frame[t].sid
           /\ n # next_stream_id /\ ~Answered(n)
    <3>1. frame[t] \in Frames
      BY DEF IInv, TypeOK
    <3>2. frame[t].index \in Slots /\ frame[t].gen \in Nat /\ frame[t].sid \in 0..MaxCalls
      BY <3>1, BoundsAssumption DEF Frames
    <3>3. PICK n \in 0..MaxCalls : n = frame[t].sid
      BY <3>2
    <3>4. n \in Ids /\ n # next_stream_id /\ ~Answered(n)
      BY <2>1, <3>3, SettledId
    <3> QED
      BY <3>2, <3>3, <3>4
  <2>3. Ticket(i, g, n, SubHandler(n))
    BY <1>3, <2>2 DEF HInv, TicketInv, FrameTicket
  <2>4. Ticket(i, g, n, SubHandler(n))'
    BY <2>2, <2>3, TicketStays DEF TableStep
  <2>5. ASSUME expiries' = 0, n \notin ended' PROVE stream_state_id'[i] = n
    <3>1. stream_state_id[i] = n
      BY <1>3, <2>1, <2>2, <2>5 DEF HInv, PromptInv, FrameOpen, TableStep
    <3> QED
      BY <2>2, <2>5, <3>1, SlotStays DEF TableStep
  <2> QED
    BY <1>3, <2>1, <2>2, <2>4, <2>5 DEF FrameTicket, FrameOpen
<1>4. CASE Active(t)' /\ frame[t].ready /\ ~Reporting(t)
  BY <1>4 DEF FrameTicket, FrameOpen, Reporting
<1> QED
  BY <1>1, <1>2, <1>3, <1>4

\* The parts of HInv that follow once the new frames and handles are known.
LEMMA TicketsStay ==
    ASSUME IInv, CInv, LInv, EndedInv', HInv, TableStep,
           \A t \in Threads :
              \/ Active(t)' => Active(t) /\ frame'[t] = frame[t]
              \/ FrameTicket(t)' /\ FrameOpen(t)',
           \A t \in Threads :
              (expiries' = 0 /\ pc'[t] = "expired") => pc[t] = "expired",
           \A h \in handles' \ {ZeroHandle} :
              \/ h \in handles /\ (outcome'[h.sid] = "OK" => outcome[h.sid] = "OK")
              \/ HandleTicket(h)' /\ (expiries' = 0 => HandleOpen(h)')
    PROVE  TicketInv' /\ PromptInv'
<1>1. ASSUME NEW t \in Threads
      PROVE  FrameTicket(t)' /\ (expiries' = 0 => FrameOpen(t)')
  BY FrameStays
<1>2. ASSUME NEW h \in handles' \ {ZeroHandle}
      PROVE  HandleTicket(h)' /\ (expiries' = 0 => HandleOpen(h)')
  BY HandleStays
<1>3. ASSUME NEW t \in Threads, expiries' = 0
      PROVE  pc'[t] # "expired"
  BY <1>3 DEF HInv, PromptInv, TableStep
<1> QED
  BY <1>1, <1>2, <1>3 DEF TicketInv, PromptInv

\* The streams that threads have closed.
LEMMA ClosedStays ==
    ASSUME IInv, HInv, Advance, UNCHANGED closed,
           rpc' = "event" => rpc = "event" /\ stream_id' = stream_id
    PROVE  ClosedInv'
<1> SUFFICES ASSUME NEW n \in closed
             PROVE  Settled(n, {})' /\ ~(rpc' = "event" /\ stream_id' = n)
  BY DEF ClosedInv
<1>1. Settled(n, {}) /\ ~(rpc = "event" /\ stream_id = n)
  BY DEF HInv, ClosedInv
<1> QED
  BY <1>1, SettledStays

\* A step that leaves the slots alone.
LEMMA KeptStep ==
    ASSUME UNCHANGED <<slotVars, ended>>, expiries' = 0 => expiries = 0
    PROVE  TableStep
  BY DEF TableStep, SlotStep, Kept, slotVars

\* The invariant holds of a client that has just connected.
LEMMA InitHInv == Init => HInv
  BY DEF Init, HInv, TicketInv, FrameTicket, Reporting, Active, CurInv, ClosedInv,
         PromptInv, FrameOpen, SendInv

\* A call begins, finds no slot, sends its request or reaches its deadline.
LEMMA QuietH ==
    ASSUME IInv, CInv, LInv, EndedInv', HInv, NEW t \in Threads,
           \/ \E k \in Kinds : SubscribeBegin(t, k)
           \/ SubscribeNoMem(t)
           \/ SubscribeSend(t)
           \/ SubscribeExpire(t)
    PROVE  HInv'
<1>1. /\ UNCHANGED <<slotVars, recvVars, ended, closed>> /\ Advance
      /\ \A u \in Threads : Active(u)' => Active(u) /\ frame'[u] = frame[u]
  BY QuietAdvance
<1>2. UNCHANGED <<handles, outcome>>
  BY DEF SubscribeBegin, SubscribeNoMem, SubscribeSend, SubscribeExpire, appVars
<1>3. /\ expiries' = 0 => expiries = 0
      /\ \A u \in Threads : (expiries' = 0 /\ pc'[u] = "expired") => pc[u] = "expired"
      /\ \A u \in Threads : pc'[u] = "send" => pc[u] = "send"
  <2>1. CASE SubscribeExpire(t)
    <3>1. expiries' # 0
      BY <2>1, BoundsAssumption DEF SubscribeExpire, IInv, TypeOK
    <3> QED
      BY <2>1, <3>1 DEF SubscribeExpire, IInv, TypeOK
  <2>2. CASE ~SubscribeExpire(t)
    BY <2>2 DEF SubscribeBegin, SubscribeNoMem, SubscribeSend, IInv, TypeOK
  <2> QED
    BY <2>1, <2>2
<1>4. TicketInv' /\ PromptInv'
  BY <1>1, <1>2, <1>3, KeptStep, TicketsStay
<1>5. ClosedInv'
  BY <1>1, ClosedStays DEF recvVars
<1>6. CurInv'
  BY <1>1 DEF HInv, CurInv, slotVars, recvVars
<1>7. SendInv'
  BY <1>1, <1>3 DEF HInv, SendInv, Active
<1> QED
  BY <1>4, <1>5, <1>6, <1>7 DEF HInv

\* A call returns its response.  If it reports a subscription, its frame is
\* the ticket that the handle becomes, and an earlier handle of the same
\* subscription names the same slot.
LEMMA WakeH ==
    ASSUME IInv, CInv, LInv, EndedInv', HInv, NEW t \in Threads, SubscribeWake(t)
    PROVE  HInv'
<1>1. /\ UNCHANGED <<slotVars, recvVars, ended, closed>> /\ Advance
      /\ \A u \in Threads : Active(u)' => Active(u) /\ frame'[u] = frame[u]
  BY QuietAdvance
<1>2. /\ Active(t) /\ frame[t].ready /\ Return(t, frame[t].ret) /\ UNCHANGED expiries
      /\ \A u \in Threads : pc'[u] \in {"expired", "send"} => pc'[u] = pc[u]
  BY DEF SubscribeWake, Return, Active, IInv, TypeOK
<1>3. PICK i \in Slots, g \in 0..(GenMod - 1), n \in 0..MaxCalls :
         i = frame[t].index /\ g = frame[t].gen /\ n = frame[t].sid
  BY DEF IInv, TypeOK, Frames
<1>4. /\ \A h \in handles' : h \in handles
            \/ (Reporting(t) /\ h = [low |-> i + 1, gen |-> g, sid |-> n])
      /\ \A k \in Ids \ {n} : outcome'[k] = outcome[k]
      /\ n \in Ids /\ outcome'[n] = frame[t].ret
  <2>1. n \in Ids
    BY <1>2, <1>3, ActiveId
  <2> QED
    BY <1>2, <1>3, <2>1 DEF Return, Reporting, IInv, TypeOK
<1>5. ASSUME Reporting(t)
      PROVE  /\ Ticket(i, g, n, SubHandler(n))'
             /\ (expiries' = 0 /\ n \notin ended') => stream_state_id'[i] = n
  BY <1>1, <1>2, <1>3, <1>5
     DEF HInv, TicketInv, FrameTicket, PromptInv, FrameOpen, Ticket, slotVars
<1>6. ASSUME NEW h \in handles' \ {ZeroHandle}
      PROVE  \/ h \in handles /\ (outcome'[h.sid] = "OK" => outcome[h.sid] = "OK")
             \/ HandleTicket(h)' /\ (expiries' = 0 => HandleOpen(h)')
  <2>1. CASE h \in handles /\ h.sid # n
    <3>1. h.sid \in Ids
      BY <2>1, SettledId DEF LInv, HandleInv
    <3> QED
      BY <1>4, <2>1, <3>1
  <2>2. CASE h \in handles /\ h.sid = n /\ outcome'[n] = "OK"
    <3>1. h.low - 1 \in Slots /\ Settled(n, {h.low - 1})
      BY <2>2 DEF LInv, HandleInv
    <3>2. Reporting(t)
      BY <1>2, <1>3, <1>4, <2>2, <3>1 DEF Settled, Reporting
    <3>3. HandleTicket(h)'
      BY <1>1, <2>2 DEF HInv, TicketInv, HandleTicket, Ticket, slotVars
    <3>4. (expiries' = 0 /\ n \notin ended') => stream_state_id'[h.low - 1] = n
      BY <1>1, <1>5, <3>1, <3>2 DEF Settled, slotVars
    <3> QED
      BY <2>2, <3>3, <3>4 DEF HandleOpen
  <2>3. CASE Reporting(t) /\ h = [low |-> i + 1, gen |-> g, sid |-> n]
    <3>1. h.low - 1 = i /\ h.gen = g /\ h.sid = n
      BY <2>3 DEF Slots
    <3> QED
      BY <1>5, <2>3, <3>1 DEF HandleTicket, HandleOpen
  <2> QED
    BY <1>4, <2>1, <2>2, <2>3
<1>7. TicketInv' /\ PromptInv'
  BY <1>1, <1>2, <1>6, KeptStep, TicketsStay
<1>8. ClosedInv' /\ CurInv'
  BY <1>1, ClosedStays DEF recvVars, HInv, CurInv, slotVars
<1>9. SendInv'
  BY <1>1, <1>2 DEF HInv, SendInv, Active
<1> QED
  BY <1>7, <1>8, <1>9 DEF HInv

\* A call gives up and clears its slot.  Before the first deadline, only a
\* request that was not sent does, and the slot is still its own.
LEMMA GiveUpH ==
    ASSUME IInv, CInv, LInv, EndedInv', HInv, NoWrap, NEW t \in Threads,
           SubscribeSendFail(t) \/ SubscribeTimedOut(t)
    PROVE  HInv'
<1>1. /\ clear_stream_index(frame[t].index) /\ frame[t].index \in Slots
      /\ UNCHANGED <<recvVars, ended, closed, handles>> /\ Advance
      /\ \A u \in Threads : Active(u)' => Active(u) /\ frame'[u] = frame[u]
      /\ ~Active(t)'
  BY GiveUpAdvance
<1>2. /\ UNCHANGED expiries
      /\ \A u \in Threads : pc'[u] \in {"expired", "send"} => pc'[u] = pc[u]
      /\ frame[t].sid \in Ids
      /\ \A n \in Ids : outcome'[n] = "OK" => outcome[n] = "OK"
  <2>1. /\ UNCHANGED expiries
        /\ Active(t) /\ (Return(t, "FAILED") \/ Return(t, "TIMEOUT"))
    BY DEF SubscribeSendFail, SubscribeTimedOut, Active
  <2>2. frame[t].sid \in Ids
    BY <2>1, ActiveId
  <2> QED
    BY <2>1, <2>2 DEF Return, IInv, TypeOK
<1>3. rpc \notin {"response", "event"}
  BY ThreadsAssumption
     DEF SubscribeSendFail, SubscribeTimedOut, MtxFree, IInv, LockInv
<1>4. ASSUME NEW n \in Ids, expiries' = 0, stream_state_id[frame[t].index] = n
      PROVE  Answered(n)
  <2>1. pc[t] = "send" /\ ~frame[t].ready
    BY <1>2, <1>4 DEF SubscribeSendFail, SubscribeTimedOut, HInv, PromptInv, SendInv
  <2>2. Active(t) /\ frame[t].sid = n
    BY <1>2, <1>4, <2>1 DEF Active, HInv, PromptInv, FrameOpen
  <2>3. Awaited(n)
    BY <2>1, <2>2 DEF Awaited
  <2>4. ~Awaited(n)'
    BY <1>1, <2>2 DEF Awaited, CInv, CallInv
  <2> QED
    BY <2>3, <2>4 DEF Answered
<1>5. TableStep
  BY <1>1, <1>2, <1>4, ClearStep DEF TableStep
<1>6. \A h \in handles \ {ZeroHandle} : h.sid \in Ids
  BY SettledId DEF LInv, HandleInv
<1>7. TicketInv' /\ PromptInv'
  BY <1>1, <1>2, <1>5, <1>6, TicketsStay
<1>8. ClosedInv' /\ CurInv'
  BY <1>1, <1>3, ClosedStays DEF recvVars, CurInv
<1>9. SendInv'
  BY <1>1, <1>2 DEF HInv, SendInv, Active
<1> QED
  BY <1>7, <1>8, <1>9 DEF HInv

\* A slot is claimed, and the frame of the call is its ticket.
LEMMA ClaimH ==
    ASSUME IInv, CInv, LInv, EndedInv', HInv, NoWrap, NEW t \in Threads,
           SubscribeClaim(t)
    PROVE  HInv'
<1>1. PICK i \in Slots :
         /\ claim_stream_index(i)
         /\ frame'[t] = NewFrame(frame[t].kind, i,
                                 NextGen(stream_state_generation[i]), next_stream_id)
         /\ stream_state_id'[i] = next_stream_id
         /\ stream_state_handler'[i] = PendingHandler(t)
         /\ \A j \in Slots \ {i} :
              /\ stream_state_id'[j] = stream_state_id[j]
              /\ stream_state_handler'[j] = stream_state_handler[j]
  BY ClaimAdvance
<1>2. /\ \A u \in Threads \ {t} : Active(u)' => Active(u) /\ frame'[u] = frame[u]
      /\ UNCHANGED <<recvVars, appVars, expiries>>
      /\ rpc \notin {"response", "event"} /\ Advance
  BY ClaimAdvance
<1>3. /\ stream_state_id[i] = 0
      /\ stream_state_generation'[i] = stream_state_generation[i] + 1
      /\ \A j \in Slots \ {i} : stream_state_generation'[j] = stream_state_generation[j]
  BY <1>1, NextGenLarger DEF claim_stream_index, IInv, TypeOK
<1>4. TableStep
  <2>1. Claimed(i)
    BY <1>1, <1>3 DEF Claimed
  <2>2. \A j \in Slots \ {i} : Kept(j)
    BY <1>1, <1>3 DEF Kept
  <2> QED
    BY <1>2, <2>1, <2>2 DEF TableStep, SlotStep, appVars
<1>5. /\ frame'[t].index = i /\ frame'[t].sid = next_stream_id
      /\ frame'[t].gen = stream_state_generation'[i] /\ ~frame'[t].ready
  BY <1>1, <1>3, NextGenLarger DEF NewFrame
<1>6. FrameTicket(t)' /\ FrameOpen(t)'
  <2>1. stream_state_generation'[i] <= stream_state_generation'[i]
    BY <1>3, BoundsAssumption DEF IInv, TypeOK
  <2> QED
    BY <1>1, <1>5, <2>1 DEF FrameTicket, FrameOpen, Reporting, Ticket
<1>7. \A u \in Threads :
         /\ pc'[u] = "expired" => pc[u] = "expired"
         /\ pc'[u] = "send" => u = t \/ pc[u] = "send"
  BY DEF SubscribeClaim, IInv, TypeOK
<1>8. TicketInv' /\ PromptInv'
  BY <1>2, <1>4, <1>6, <1>7, TicketsStay DEF appVars
<1>9. ClosedInv' /\ CurInv'
  BY <1>2, ClosedStays DEF recvVars, appVars, CurInv
<1>10. SendInv'
  BY <1>2, <1>5, <1>7 DEF HInv, SendInv, Active
<1> QED
  BY <1>8, <1>9, <1>10 DEF HInv

\* A handle that validates is the ticket of the slot that it names.
LEMMA ValidHandle ==
    ASSUME IInv, LInv, HInv, NEW h \in handles, validate_handle(h)
    PROVE  /\ h # ZeroHandle /\ handle_index(h) = h.low - 1
           /\ stream_state_id[h.low - 1] = h.sid
           /\ stream_state_handler[h.low - 1] = SubHandler(h.sid)
<1>1. h \in Handles
  BY DEF IInv, TypeOK
<1>2. h # ZeroHandle /\ handle_index(h) = h.low - 1
  BY <1>1, BoundsAssumption DEF validate_handle, handle_index, ZeroHandle, Handles
<1> QED
  BY <1>2 DEF HInv, TicketInv, HandleTicket, Ticket, validate_handle

\* What closing a subscription does to tickets, and that a response callback
\* cannot close the stream of its own call.
LEMMA CloseKeepsH ==
    ASSUME IInv, CInv, LInv, EndedInv', HInv, NoWrap, NEW h \in handles,
           close_subscription(h),
           UNCHANGED <<threadVars, recvVars, handles, outcome>>
    PROVE  TicketInv' /\ PromptInv' /\ CurInv' /\ SendInv'
<1>1. \A u \in Threads : Active(u)' => Active(u) /\ frame'[u] = frame[u]
  BY CloseAdvance
<1>2. CASE validate_handle(h)
  <2>1. /\ h.low - 1 \in Slots /\ clear_stream_index(h.low - 1)
        /\ ended' = ended \cup {h.sid}
    BY <1>2, CloseAdvance DEF close_subscription
  <2>2. /\ stream_state_id[h.low - 1] = h.sid
        /\ stream_state_handler[h.low - 1] = SubHandler(h.sid)
    BY <1>2, ValidHandle
  <2>3. TableStep
    BY <2>1, <2>2, ClearStep DEF TableStep, threadVars
  <2>4. TicketInv' /\ PromptInv'
    BY <1>1, <2>3, TicketsStay DEF threadVars
  <2>5. ASSUME rpc = "response" PROVE cur.index # h.low - 1
    <3>1. stream_state_handler[cur.index] = PendingHandler(cur.ctx)
      BY <2>5 DEF HInv, CurInv
    <3> QED
      BY <2>2, <3>1 DEF PendingHandler, SubHandler
  <2>6. cur.index \in Slots
    BY DEF IInv, TypeOK
  <2>7. CurInv'
    BY <2>1, <2>5, <2>6, ClearSlot DEF HInv, CurInv, recvVars, IInv
  <2> QED
    BY <2>4, <2>7 DEF HInv, SendInv, threadVars
<1>3. CASE ~validate_handle(h)
  <2>1. UNCHANGED <<slotVars, ended>>
    BY <1>3 DEF close_subscription
  <2>2. TicketInv' /\ PromptInv'
    BY <1>1, <2>1, KeptStep, TicketsStay DEF threadVars
  <2> QED
    BY <2>1, <2>2 DEF HInv, CurInv, SendInv, slotVars, threadVars, recvVars
<1> QED
  BY <1>2, <1>3

\* A user callback closes a subscription.
LEMMA CallbackCloseH ==
    ASSUME IInv, CInv, LInv, EndedInv', HInv, NoWrap, NEW h \in handles,
           CallbackClose(h)
    PROVE  HInv'
<1>1. /\ close_subscription(h)
      /\ UNCHANGED <<threadVars, recvVars, handles, outcome, closed>>
  BY DEF CallbackClose
<1>2. TicketInv' /\ PromptInv' /\ CurInv' /\ SendInv'
  BY <1>1, CloseKeepsH
<1>3. ClosedInv'
  BY <1>1, CloseAdvance, ClosedStays DEF recvVars
<1> QED
  BY <1>2, <1>3 DEF HInv

\* A thread closes a subscription: afterwards no slot has its stream, whether
\* the handle was valid or not.
LEMMA CloseH ==
    ASSUME IInv, CInv, LInv, EndedInv', HInv, NoWrap, NEW t \in Threads,
           NEW h \in handles, CloseSubscription(t, h)
    PROVE  HInv'
<1>1. /\ close_subscription(h) /\ closed' = closed \cup ({h.sid} \ {0})
      /\ UNCHANGED <<threadVars, recvVars, handles, outcome>>
      /\ stream_state_mtx = NoThread
  BY DEF CloseSubscription, MtxFree
<1>2. TicketInv' /\ PromptInv' /\ CurInv' /\ SendInv'
  BY <1>1, CloseKeepsH
<1>3. Advance
  BY <1>1, CloseAdvance
<1>4. rpc' # "event"
  BY <1>1, ThreadsAssumption DEF IInv, LockInv, recvVars
<1>5. ASSUME h.sid # 0
      PROVE  Settled(h.sid, {})'
  <2>1. h # ZeroHandle /\ h \in Handles
    BY <1>5 DEF ZeroHandle, IInv, TypeOK
  <2>2. h.low - 1 \in Slots /\ Settled(h.sid, {h.low - 1})
    BY <2>1 DEF LInv, HandleInv
  <2>3. CASE validate_handle(h)
    BY <1>1, <1>3, <2>2, <2>3, CloseAdvance, ClearSettles
  <2>4. CASE ~validate_handle(h)
    <3>1. handle_index(h) = h.low - 1 /\ handle_index(h) < MaxStreams
      BY <2>1, <2>2, BoundsAssumption DEF handle_index, Slots, Handles
    <3>2. stream_state_id[h.low - 1] # h.sid
      BY <2>1, <2>4, <3>1
         DEF validate_handle, HInv, TicketInv, HandleTicket, Ticket
    <3>3. Settled(h.sid, {})
      BY <2>2, <3>2 DEF Settled
    <3> QED
      BY <1>3, <3>3, SettledStays
  <2> QED
    BY <2>3, <2>4
<1>6. ASSUME NEW n \in closed
      PROVE  Settled(n, {})'
  BY <1>3, SettledStays DEF HInv, ClosedInv
<1>7. ClosedInv'
  BY <1>1, <1>4, <1>5, <1>6 DEF ClosedInv
<1> QED
  BY <1>2, <1>7 DEF HInv

\* An event has been handled: if its slot is cleared, the stream has ended.
LEMMA EventH ==
    ASSUME IInv, CInv, LInv, EndedInv', HInv, NoWrap, NEW i \in Slots,
           NEW m, NEW r, EventDone(i, m, r),
           UNCHANGED <<threadVars, handles, outcome, closed>>,
           stream_state_id[i] \in {0, stream_id}, rpc' = "poll"
    PROVE  HInv'
<1>1. /\ \/ clear_stream_index(i) /\ ended' = ended \cup {stream_id}
         \/ UNCHANGED <<slotVars, ended>>
      /\ \A u \in Threads : Active(u)' => Active(u) /\ frame'[u] = frame[u]
      /\ Advance
  BY EventAdvance
<1>2. TableStep
  <2>1. CASE clear_stream_index(i) /\ ended' = ended \cup {stream_id}
    <3>1. \A n \in Ids : stream_state_id[i] = n => n \in ended'
      BY <2>1 DEF Ids
    <3> QED
      BY <2>1, <3>1, ClearStep DEF TableStep, threadVars
  <2> QED
    BY <1>1, <2>1, KeptStep DEF threadVars
<1>3. TicketInv' /\ PromptInv'
  BY <1>1, <1>2, TicketsStay DEF threadVars
<1>4. ClosedInv' /\ CurInv'
  BY <1>1, ClosedStays DEF CurInv
<1>5. SendInv'
  BY DEF HInv, SendInv, threadVars
<1> QED
  BY <1>3, <1>4, <1>5 DEF HInv

\* A response has been handled: the ticket of an accepted subscription is now
\* for its events.
LEMMA RespondH ==
    ASSUME IInv, CInv, LInv, EndedInv', HInv, NoWrap, NEW i \in Slots,
           NEW t \in Threads, Responds(i, t), stream_state_id[i] = stream_id
    PROVE  HInv'
<1>1. TableStep
  <2>1. \A n \in Ids : stream_state_id[i] = n => Answered(n)
    BY DEF Responds, Answered
  <2>2. CASE clear_stream_index(i)
    BY <2>1, <2>2, ClearStep DEF TableStep, Responds
  <2>3. CASE Converts(i)
    <3>1. Converted(i) /\ \A j \in Slots \ {i} : Kept(j)
      BY <2>1, <2>3 DEF Converts, Converted, Kept
    <3> QED
      BY <3>1 DEF TableStep, SlotStep, Responds
  <2> QED
    BY <2>2, <2>3 DEF Responds
<1>2. FrameTicket(t)' /\ FrameOpen(t)'
  <2>1. CASE ~Reporting(t)'
    BY <2>1 DEF FrameTicket, FrameOpen, Responds
  <2>2. CASE Converts(i)
    <3>1. Ticket(i, frame[t].gen, stream_id, PendingHandler(t))
      BY DEF HInv, TicketInv, FrameTicket, Responds, Awaits, Active
    <3>2. /\ frame'[t].gen <= stream_state_generation'[i]
          /\ stream_state_generation'[i] = frame'[t].gen
          /\ stream_state_id'[i] = frame'[t].sid
          /\ stream_state_handler'[i] = SubHandler(frame'[t].sid)
      BY <2>2, <3>1 DEF Ticket, Converts, Responds
    <3> QED
      BY <3>2 DEF FrameTicket, FrameOpen, Ticket, Responds
  <2> QED
    BY <2>1, <2>2 DEF Responds
<1>3. TicketInv' /\ PromptInv'
  BY <1>1, <1>2, TicketsStay DEF Responds
<1>4. ClosedInv' /\ CurInv'
  BY ClosedStays DEF CurInv, Responds
<1>5. SendInv'
  BY DEF HInv, SendInv, Responds
<1> QED
  BY <1>3, <1>4, <1>5 DEF HInv

\* Steps of the receive thread that leave the table alone.
LEMMA RecvH ==
    ASSUME IInv, CInv, LInv, EndedInv', HInv,
           \/ ReadPacket \/ ReadFail \/ Exit \/ DispatchDrop
           \/ \E i \in Slots, m \in Messages :
                 DispatchResponseCall(i, m) \/ DispatchEventCall(i, m)
           \/ UNCHANGED vars
    PROVE  HInv'
<1>1. /\ UNCHANGED <<slotVars, pc, expiries, frame, outcome, ended, closed>>
      /\ \A u \in Threads : Active(u)' => Active(u) /\ frame'[u] = frame[u]
      /\ Advance
  BY RecvAdvance
<1>2. SendInv' /\ TableStep
  BY <1>1, KeptStep DEF HInv, SendInv
<1>3. ASSUME handles' = handles
      PROVE  TicketInv' /\ PromptInv'
  BY <1>1, <1>2, <1>3, TicketsStay
<1>4. CASE ReadPacket \/ ReadFail \/ Exit \/ DispatchDrop \/ UNCHANGED vars
  <2>1. handles' = handles
    BY <1>4 DEF ReadPacket, ReadFail, Exit, DispatchDrop, vars, appVars
  <2>2. rpc' \in {"response", "event"} => UNCHANGED <<rpc, stream_id, cur>>
    BY <1>4 DEF ReadPacket, ReadFail, Exit, DispatchDrop, Poll, vars, recvVars
  <2>3. ClosedInv'
    BY <1>1, <2>2, ClosedStays
  <2>4. CurInv'
    BY <1>1, <2>2 DEF HInv, CurInv, slotVars
  <2> QED
    BY <1>2, <1>3, <2>1, <2>3, <2>4 DEF HInv
<1>5. ASSUME NEW i \in Slots, NEW m \in Messages, DispatchResponseCall(i, m)
      PROVE  HInv'
  <2>1. /\ stream_state_id[i] = stream_id /\ stream_state_handler[i].fn = "null"
        /\ EnterCallback(i, m, "response") /\ handles' = handles
    BY <1>5 DEF DispatchResponseCall, Dispatching, get_stream_index_from_id
  <2>2. stream_state_handler[i] = PendingHandler(stream_state_handler[i].ctx)
    <3>1. stream_state_handler[i] \in StreamHandlers
      BY DEF IInv, TypeOK
    <3> QED
      BY <2>1, <3>1 DEF StreamHandlers, PendingHandler
  <2>3. ClosedInv'
    BY <1>1, <2>1, ClosedStays DEF EnterCallback
  <2>4. CurInv'
    BY <1>1, <2>1, <2>2 DEF EnterCallback, CurInv, slotVars
  <2> QED
    BY <1>2, <1>3, <2>1, <2>3, <2>4 DEF HInv
<1>6. ASSUME NEW i \in Slots, NEW m \in Messages, DispatchEventCall(i, m)
      PROVE  HInv'
  <2> DEFINE new == get_current_handle(i)
  <2>1. /\ stream_state_id[i] = stream_id /\ stream_state_handler[i].fn = "sub"
        /\ EnterCallback(i, m, "event") /\ handles' = handles \cup {new}
    BY <1>6 DEF DispatchEventCall, Dispatching, get_stream_index_from_id
  <2>2. /\ new.low - 1 = i /\ new.gen = stream_state_generation[i]
        /\ new.sid = stream_state_id[i]
    BY DEF get_current_handle, Slots
  <2>3. stream_state_handler[i] = SubHandler(stream_state_id[i])
    <3>1. stream_state_handler[i] \in StreamHandlers
          /\ stream_state_handler[i].ctx = stream_state_id[i]
      BY <2>1 DEF IInv, TypeOK, CInv, SubInv
    <3> QED
      BY <2>1, <3>1 DEF StreamHandlers, SubHandler
  <2> HIDE DEF new
  <2>4. ASSUME NEW h, h = new
        PROVE  HandleTicket(h)' /\ HandleOpen(h)'
    <3>1. stream_state_generation[i] <= stream_state_generation[i]
      BY BoundsAssumption DEF IInv, TypeOK
    <3>2. /\ h.low - 1 = i /\ h.gen = stream_state_generation[i]
          /\ h.sid = stream_state_id[i]
      BY <2>2, <2>4
    <3> QED
      BY <1>1, <2>3, <3>1, <3>2 DEF HandleTicket, HandleOpen, Ticket, slotVars
  <2>5. TicketInv' /\ PromptInv'
    BY <1>1, <1>2, <2>1, <2>4, TicketsStay
  <2>6. CurInv'
    BY <1>1, <2>1 DEF EnterCallback, CurInv, slotVars
  <2>7. ClosedInv'
    <3>1. ASSUME NEW n \in closed
          PROVE  Settled(n, {})' /\ stream_id' # n
      <4>1. Settled(n, {})
        BY DEF HInv, ClosedInv
      <4> QED
        BY <1>1, <2>1, <4>1, SettledStays DEF Settled, EnterCallback
    <3> QED
      BY <1>1, <3>1 DEF ClosedInv
  <2> QED
    BY <1>2, <2>5, <2>6, <2>7 DEF HInv
<1> QED
  BY <1>4, <1>5, <1>6

\* Every step of every thread preserves the invariant, as long as no
\* generation wraps around.
LEMMA NextHInv ==
    IInv /\ CInv /\ LInv /\ LInv' /\ HInv /\ NoWrap /\ [Next]_vars => HInv'
<1> SUFFICES ASSUME IInv, CInv, LInv, EndedInv', HInv, NoWrap, [Next]_vars
             PROVE  HInv'
  BY DEF LInv
<1>1. ASSUME NEW t \in Threads, ThreadNext(t) PROVE HInv'
  BY <1>1, QuietH, WakeH, GiveUpH, ClaimH, CloseH DEF ThreadNext
<1>2. ASSUME NEW i \in Slots, NEW m \in Messages, DispatchEvent(i, m)
      PROVE  HInv'
  BY <1>2, EventH DEF DispatchEvent, Dispatching, get_stream_index_from_id, Poll
<1>3. ASSUME NEW r \in {"OK", "FAILED"}, EventReturn(r)
      PROVE  HInv'
  <2>1. cur.index \in Slots /\ stream_state_id[cur.index] \in {0, stream_id}
    BY <1>3 DEF EventReturn, HInv, CurInv, IInv, TypeOK
  <2> QED
    BY <1>3, <2>1, EventH DEF EventReturn, Poll
<1>4. ASSUME NEW r \in {"OK", "FAILED"}, ResponseReturn(r)
      PROVE  HInv'
  <2>1. stream_state_id[cur.index] = stream_id
    BY <1>4 DEF ResponseReturn, HInv, CurInv
  <2> QED
    BY <1>4, <2>1, ResponseReturnAdvance, RespondH
<1>5. CASE RecvNext
  BY <1>2, <1>3, <1>4, <1>5, RecvH, CallbackCloseH, DispatchResponseAdvance, RespondH
     DEF RecvNext, CallbackReturn, CallbackSubscribe
<1>6. CASE Quiescent \/ UNCHANGED vars
  BY <1>6, RecvH DEF Quiescent
<1> QED
  BY <1>1, <1>5, <1>6 DEF Next

-----------------------------------------------------------------------------
(* What follows while no generation wraps around.  Without that hypothesis   *)
(* an old handle can validate again: 16 bits are not enough for ever.        *)

\* A slot of client.c has one generation for each stream that it carries: the
\* inductive invariant, relative to IInv, CInv and LInv.
THEOREM HandleInvariance == Spec /\ []NoWrap => []HInv
  BY Invariance, CallbackInvariance, StreamInvariance, InitHInv, NextHInv, PTL
     DEF Spec

\* A handle that validates is the one of the subscription in its slot: closing
\* a stale handle never ends another stream or a pending call.
THEOREM HandlesSafe == Spec /\ []NoWrap => []HandlesNotReused
<1>1. IInv /\ LInv /\ HInv => HandlesNotReused
  BY ValidHandle DEF HandlesNotReused
<1> QED
  BY <1>1, Invariance, StreamInvariance, HandleInvariance, PTL

\* Once a thread has returned from closing a subscription, its callback does
\* not run and no slot can start it.
THEOREM ClosedIsQuiet == Spec /\ []NoWrap => []QuiescentAfterClose
<1>1. IInv /\ CInv /\ HInv => QuiescentAfterClose
  <2> SUFFICES ASSUME IInv, CInv, HInv, NEW n \in closed \ {0}
               PROVE  /\ \A i \in Slots : stream_state_handler[i] # SubHandler(n)
                      /\ ~(rpc = "event" /\ cur.ctx = n)
    BY DEF QuiescentAfterClose
  <2>1. Settled(n, {}) /\ ~(rpc = "event" /\ stream_id = n)
    BY DEF HInv, ClosedInv
  <2>2. ASSUME NEW i \in Slots, stream_state_handler[i] = SubHandler(n)
        PROVE  FALSE
    <3>1. stream_state_id[i] = n
      BY <2>2 DEF CInv, SubInv, SubHandler
    <3> QED
      BY <2>1, <3>1 DEF Settled
  <2>3. ~(rpc = "event" /\ cur.ctx = n)
    BY <2>1 DEF CInv, EventInv
  <2> QED
    BY <2>2, <2>3
<1> QED
  BY <1>1, Invariance, CallbackInvariance, HandleInvariance, PTL

\* Until the first deadline passes, a subscription that was reported open keeps
\* its slot until it is closed, the server ends it or its callback fails.
THEOREM SubscriptionsStayOpen ==
    Spec /\ []NoWrap => []PromptSubscriptionStaysOpen
<1>1. LInv /\ HInv => PromptSubscriptionStaysOpen
  <2> SUFFICES ASSUME LInv, HInv, expiries = 0, NEW h \in handles, h.sid # 0,
                      outcome[h.sid] = "OK", h.sid \notin ended
               PROVE  \E i \in Slots : stream_state_handler[i] = SubHandler(h.sid)
    BY DEF PromptSubscriptionStaysOpen, SubscriptionStaysOpen
  <2>1. h # ZeroHandle
    BY DEF ZeroHandle
  <2>2. h.low - 1 \in Slots /\ stream_state_id[h.low - 1] = h.sid
    BY <2>1 DEF LInv, HandleInv, HInv, PromptInv, HandleOpen
  <2> QED
    BY <2>1, <2>2 DEF HInv, TicketInv, HandleTicket, Ticket
<1> QED
  BY <1>1, StreamInvariance, HandleInvariance, PTL

\* Until the first deadline passes, a call that waits for its response has the
\* slot that it claimed, so that the response reaches it.
THEOREM WaitersKeepSlots == Spec /\ []NoWrap => []WaitersKeepTheirSlot
<1>1. HInv => WaitersKeepTheirSlot
  BY DEF WaitersKeepTheirSlot, HInv, PromptInv, FrameOpen, TicketInv, FrameTicket,
         Ticket, Active
<1> QED
  BY <1>1, HandleInvariance, PTL

-----------------------------------------------------------------------------
(* The stream service.  First, what the table says of the streams. *)

\* A request that is being sent has its slot: its thread holds the mutex.
SlotInv ==
    \A t \in Threads : pc[t] = "send" =>
        stream_state_id[frame[t].index] = frame[t].sid

\* Live streams were handed out, and their phase is in their slot.
LEMMA PhaseInTable ==
    ASSUME IInv, NEW i \in Slots, stream_state_id[i] # 0
    PROVE  /\ stream_state_id[i] \in Ids /\ stream_state_id[i] < next_stream_id
           /\ Phases[stream_state_id[i]] =
                 IF stream_state_handler[i].fn = "sub" THEN "open" ELSE "pending"
<1>1. stream_state_id[i] \in Ids /\ stream_state_id[i] < next_stream_id
  BY DEF IInv, TypeOK, DistinctStreamIds, Ids
<1>2. \A j \in Slots : stream_state_id[j] = stream_state_id[i] => j = i
  BY DEF IInv, DistinctStreamIds
<1>3. stream_state_handler[i].fn \in {"sub", "null"}
  BY DEF IInv, TypeOK, StreamHandlers
<1>4. Phase(stream_state_id[i]) =
         IF stream_state_handler[i].fn = "sub" THEN "open" ELSE "pending"
  BY <1>2, <1>3 DEF Phase, InTable
<1> QED
  BY <1>1, <1>4 DEF Phases

\* A stream that is in no slot is new or has ended.
LEMMA PhaseOutside ==
    ASSUME NEW n \in Ids, \A j \in Slots : stream_state_id[j] # n
    PROVE  Phases[n] = IF n < next_stream_id THEN "ended" ELSE "new"
  BY DEF Phases, Phase, InTable

\* A stream keeps its phase when the slots that have its id keep it and get no
\* company.
LEMMA PhaseKept ==
    ASSUME NEW n \in Ids, (n < next_stream_id)' <=> n < next_stream_id,
           \A j \in Slots :
              \/ stream_state_id[j] # n /\ stream_state_id'[j] # n
              \/ /\ stream_state_id'[j] = stream_state_id[j]
                 /\ stream_state_handler'[j] = stream_state_handler[j]
    PROVE  Phases'[n] = Phases[n]
<1>1. \A fn : InTable(n, fn)' <=> InTable(n, fn)
  BY DEF InTable
<1>2. Phase(n)' = Phase(n)
  BY <1>1 DEF Phase
<1> QED
  BY <1>2 DEF Phases

\* Phases are a function on the streams.
LEMMA PhasesType ==
    /\ Phases = [n \in Ids |-> Phases[n]]
    /\ Phases' = [n \in Ids |-> Phases'[n]]
    /\ DOMAIN Phases = Ids
  BY DEF Phases

\* As long as the table stays as it is, so do the phases.
LEMMA PhasesKept ==
    ASSUME UNCHANGED <<slotVars, next_stream_id>>
    PROVE  Phases' = Phases
<1>1. \A n \in Ids : Phases'[n] = Phases[n]
  BY PhaseKept DEF slotVars
<1> QED
  BY <1>1, PhasesType

\* Clearing a slot ends its stream and no other.
LEMMA PhaseCleared ==
    ASSUME IInv, NEW i \in Slots, clear_stream_index(i), UNCHANGED next_stream_id
    PROVE  \/ stream_state_id[i] = 0 /\ Phases' = Phases
           \/ /\ stream_state_id[i] \in Ids
              /\ Phases' = [Phases EXCEPT ![stream_state_id[i]] = "ended"]
<1> DEFINE k == stream_state_id[i]
<1>1. /\ stream_state_id'[i] = 0
      /\ \A j \in Slots \ {i} :
            /\ stream_state_id'[j] = stream_state_id[j]
            /\ stream_state_handler'[j] = stream_state_handler[j]
  BY ClearSlot DEF IInv
<1>2. ASSUME NEW n \in Ids, n # k
      PROVE  Phases'[n] = Phases[n]
  <2>1. n # 0
    BY DEF Ids
  <2> QED
    BY <1>1, <1>2, <2>1, PhaseKept
<1>3. CASE k = 0
  <2>1. \A n \in Ids : Phases'[n] = Phases[n]
    BY <1>2, <1>3 DEF Ids
  <2> QED
    BY <1>3, <2>1, PhasesType
<1>4. CASE k # 0
  <2>1. k \in Ids /\ k < next_stream_id
    BY <1>4, PhaseInTable
  <2>2. \A j \in Slots : stream_state_id'[j] # k
    BY <1>1, <1>4 DEF IInv, DistinctStreamIds
  <2>3. Phases'[k] = "ended"
    <3>1. \A n \in Ids : (\A j \in Slots : stream_state_id'[j] # n) =>
             Phases'[n] = IF n < next_stream_id' THEN "ended" ELSE "new"
      BY DEF Phases, Phase, InTable
    <3> QED
      BY <2>1, <2>2, <3>1
  <2>4. Phases' = [Phases EXCEPT ![k] = "ended"]
    BY <1>2, <2>1, <2>3, PhasesType
  <2> QED
    BY <2>1, <2>4
<1> QED
  BY <1>3, <1>4

\* The slot of a call becomes the one of its subscription: the stream opens.
LEMMA PhaseConverted ==
    ASSUME IInv, NEW i \in Slots, Converts(i), stream_id \in Ids,
           stream_state_id[i] = stream_id, UNCHANGED next_stream_id
    PROVE  Phases' = [Phases EXCEPT ![stream_id] = "open"]
<1>1. stream_state_id'[i] = stream_id /\ stream_state_handler'[i].fn = "sub"
  BY DEF Converts, SubHandler
<1>2. Phases'[stream_id] = "open"
  <2>1. \A n \in Ids : InTable(n, "sub")' => Phases'[n] = "open"
    BY DEF Phases, Phase
  <2>2. \A n : n = stream_id => InTable(n, "sub")'
    BY <1>1 DEF InTable
  <2> QED
    BY <2>1, <2>2
<1>3. ASSUME NEW n \in Ids, n # stream_id
      PROVE  Phases'[n] = Phases[n]
  BY <1>3, <1>1, PhaseKept DEF Converts
<1> QED
  BY <1>2, <1>3, PhasesType

\* A slot is claimed: the next stream is pending.
LEMMA PhaseClaimed ==
    ASSUME IInv, CInv, NEW t \in Threads, SubscribeClaim(t)
    PROVE  /\ next_stream_id \in Ids
           /\ Phases[next_stream_id] = "new"
           /\ Phases' = [Phases EXCEPT ![next_stream_id] = "pending"]
<1> DEFINE k == next_stream_id
<1>1. PICK i \in Slots :
         /\ claim_stream_index(i)
         /\ stream_state_id'[i] = k
         /\ stream_state_handler'[i] = PendingHandler(t)
         /\ \A j \in Slots \ {i} :
              /\ stream_state_id'[j] = stream_state_id[j]
              /\ stream_state_handler'[j] = stream_state_handler[j]
  BY ClaimAdvance
<1>2. k \in Ids /\ next_stream_id' = k + 1
  BY ClaimAdvance
<1>3. ASSUME NEW j \in Slots
      PROVE  stream_state_id[j] # k
  BY <1>2, PhaseInTable DEF Ids
<1>4. Phases[k] = "new"
  BY <1>2, <1>3, PhaseOutside DEF Ids
<1>5. Phases'[k] = "pending"
  <2>1. \A n \in Ids : (InTable(n, "null")' /\ ~InTable(n, "sub")') =>
           Phases'[n] = "pending"
    BY DEF Phases, Phase
  <2>2. \A n : n = k => InTable(n, "null")' /\ ~InTable(n, "sub")'
    BY <1>1, <1>3 DEF InTable, PendingHandler
  <2> QED
    BY <1>2, <2>1, <2>2
<1>6. ASSUME NEW n \in Ids, n # k
      PROVE  Phases'[n] = Phases[n]
  <2>1. (n < next_stream_id') <=> n < next_stream_id
    BY <1>2, <1>6 DEF Ids
  <2>2. stream_state_id[i] = 0 /\ n # 0
    BY <1>1 DEF claim_stream_index, Ids
  <2> QED
    BY <1>1, <1>6, <2>1, <2>2, PhaseKept
<1> QED
  BY <1>2, <1>4, <1>5, <1>6, PhasesType

\* A call that has its response has an open stream, or one that has ended; it
\* has ended unless it is a subscription about to be reported.
LEMMA PhaseAnswered ==
    ASSUME IInv, CInv, NEW t \in Threads, Active(t), frame[t].ready
    PROVE  /\ frame[t].sid \in Ids
           /\ Phases[frame[t].sid] \in {"open", "ended"}
           /\ ~Reporting(t) => Phases[frame[t].sid] = "ended"
<1> DEFINE n == frame[t].sid
<1>1. n \in Ids /\ n < next_stream_id /\ outcome[n] = "none"
  <2>1. n \in 1..(next_stream_id - 1) /\ next_stream_id \in Nat
    BY DEF CInv, CallInv, IInv, TypeOK
  <2> QED
    BY <2>1, ActiveId DEF CInv, CallInv
<1>2. ASSUME NEW j \in Slots, stream_state_id[j] = n
      PROVE  Reporting(t) /\ stream_state_handler[j].fn = "sub"
  <2>1. stream_state_id[j] # 0
    BY <1>1, <1>2 DEF Ids
  <2>2. stream_state_handler[j].fn # "null"
    <3>1. SUFFICES ASSUME stream_state_handler[j].fn = "null" PROVE FALSE
      OBVIOUS
    <3>2. PICK u \in Threads : Awaits(u, j) /\ frame[u].sid = n
      BY <1>2, <2>1, <3>1 DEF IInv, FrameSafety, Awaits
    <3>3. Active(u) /\ ~frame[u].ready
      BY <3>2 DEF Awaits, Active
    <3> QED
      BY <3>2, <3>3 DEF CInv, CallInv
  <2>3. stream_state_handler[j].fn = "sub"
    BY <2>2 DEF IInv, TypeOK, StreamHandlers
  <2>4. Opened(j)
    BY <2>3 DEF CInv, SubInv
  <2>5. PICK u \in Threads : /\ Active(u) /\ frame[u].sid = n
                             /\ frame[u].kind = "sub" /\ frame[u].ret = "OK"
    BY <1>1, <1>2, <2>4 DEF Opened
  <2>6. u = t
    BY <2>5 DEF CInv, CallInv
  <2> QED
    BY <2>3, <2>5, <2>6 DEF Reporting
<1>3. CASE \A j \in Slots : stream_state_id[j] # n
  BY <1>1, <1>3, PhaseOutside
<1>4. ASSUME NEW j \in Slots, stream_state_id[j] = n
      PROVE  Phases[n] = "open" /\ Reporting(t)
  <2>1. stream_state_id[j] # 0
    BY <1>1, <1>4 DEF Ids
  <2> QED
    BY <1>2, <1>4, <2>1, PhaseInTable
<1> QED
  BY <1>1, <1>3, <1>4

-----------------------------------------------------------------------------
(* Each step of the client is a step of the service, or none. *)

ServiceStep == Service!Next \/ UNCHANGED Service!vars

\* Steps that change neither the table nor what has been reported.
LEMMA QuietService ==
    ASSUME UNCHANGED <<slotVars, next_stream_id, outcome, closed>>,
           rpc' = "event" <=> rpc = "event",
           rpc = "event" => stream_id' = stream_id
    PROVE  ServiceStep
<1>1. Phases' = Phases
  BY PhasesKept
<1>2. EventStreams' = EventStreams
  BY DEF EventStreams
<1> QED
  BY <1>1, <1>2 DEF ServiceStep, Service!vars

\* With the mutex free or with a thread, no subscription callback runs.
LEMMA NoEvent ==
    ASSUME IInv, stream_state_mtx # Recv
    PROVE  rpc # "event" /\ EventStreams = {}
  BY DEF IInv, LockInv, EventStreams

\* A request is made.
LEMMA ClaimService ==
    ASSUME IInv, CInv, NEW t \in Threads, SubscribeClaim(t)
    PROVE  ServiceStep
<1>1. EventStreams = {} /\ rpc # "event"
  BY NoEvent, ThreadsAssumption DEF SubscribeClaim, MtxFree
<1>2. EventStreams' = {} /\ UNCHANGED <<outcome, closed>>
  BY <1>1 DEF SubscribeClaim, recvVars, appVars, EventStreams
<1>3. Service!Request(next_stream_id) /\ next_stream_id \in Ids
  BY <1>1, <1>2, PhaseClaimed DEF Service!Request, Service!Move
<1> QED
  BY <1>3 DEF ServiceStep, Service!Next

\* A request that cannot be sent, and a wait that has timed out: the caller is
\* told, its stream has ended, and after a timeout perhaps another one too.
LEMMA GiveUpService ==
    ASSUME IInv, CInv, LInv, SlotInv, NEW t \in Threads,
           SubscribeSendFail(t) \/ SubscribeTimedOut(t)
    PROVE  ServiceStep
<1> DEFINE n == frame[t].sid
           i == frame[t].index
           k == stream_state_id[i]
<1>1. /\ clear_stream_index(i) /\ i \in Slots
      /\ UNCHANGED <<next_stream_id, recvVars, closed>>
  BY GiveUpAdvance
<1>2. Active(t) /\ stream_state_mtx # Recv
  BY ThreadsAssumption
     DEF SubscribeSendFail, SubscribeTimedOut, MtxFree, Active
<1>3. EventStreams = {} /\ EventStreams' = {}
  BY <1>1, <1>2, NoEvent DEF recvVars, EventStreams
<1>4. n \in Ids /\ n < next_stream_id /\ outcome[n] = "none"
  <2>1. n \in 1..(next_stream_id - 1) /\ next_stream_id \in Nat
    BY <1>2 DEF CInv, CallInv, IInv, TypeOK
  <2> QED
    BY <1>2, <2>1, ActiveId DEF CInv, CallInv
<1>5. Phases[n] # "new"
  BY <1>4 DEF Phases, Phase
<1>6. k # n => Phases[n] = "ended"
  <2>1. ASSUME k # n
        PROVE  \A j \in Slots : stream_state_id[j] # n
    BY <1>2, <2>1 DEF LInv, ClaimInv
  <2> QED
    BY <1>4, <2>1, PhaseOutside
<1>7. PICK r \in {"FAILED", "TIMEOUT"} :
         /\ outcome' = [outcome EXCEPT ![n] = r]
         /\ r = "FAILED" => k = n
  BY DEF SubscribeSendFail, SubscribeTimedOut, Return, SlotInv
<1>8. PICK m \in Ids :
         /\ m = n \/ (r = "TIMEOUT" /\ Phases[m] # "new")
         /\ Phases' = [Phases EXCEPT ![n] = "ended", ![m] = "ended"]
  <2>1. CASE k = n
    <3>1. Phases' = [Phases EXCEPT ![n] = "ended"]
      BY <1>1, <1>4, <2>1, PhaseCleared DEF Ids
    <3>2. Phases' = [Phases EXCEPT ![n] = "ended", ![n] = "ended"]
      BY <1>4, <3>1, PhasesType
    <3> QED
      BY <1>4, <3>2
  <2>2. CASE k = 0 /\ k # n
    <3>1. Phases' = Phases
      BY <1>1, <2>2, PhaseCleared DEF Ids
    <3> QED
      BY <1>4, <1>6, <2>2, <3>1, PhasesType
  <2>3. CASE k # 0 /\ k # n
    <3>1. k \in Ids /\ Phases[k] # "new" /\ Phases' = [Phases EXCEPT ![k] = "ended"]
      BY <1>1, <2>3, PhaseCleared, PhaseInTable
    <3>2. Phases' = [Phases EXCEPT ![n] = "ended", ![k] = "ended"]
      BY <1>4, <1>6, <2>3, <3>1, PhasesType
    <3> QED
      BY <1>7, <2>3, <3>1, <3>2
  <2> QED
    BY <2>1, <2>2, <2>3
<1>9. Service!Fail(n, m, r)
  BY <1>1, <1>3, <1>4, <1>5, <1>7, <1>8 DEF Service!Fail
<1> QED
  BY <1>4, <1>9 DEF ServiceStep, Service!Next

\* A call returns what its response said.
LEMMA WakeService ==
    ASSUME IInv, CInv, NEW t \in Threads, SubscribeWake(t)
    PROVE  ServiceStep
<1> DEFINE n == frame[t].sid
           r == frame[t].ret
<1>1. Active(t) /\ frame[t].ready /\ stream_state_mtx # Recv
  BY ThreadsAssumption DEF SubscribeWake, MtxFree, Active
<1>2. /\ outcome' = [outcome EXCEPT ![n] = r] /\ r \in Results
      /\ UNCHANGED <<slotVars, next_stream_id, recvVars, closed>>
  BY DEF SubscribeWake, Return, IInv, TypeOK, Frames
<1>3. EventStreams = {} /\ EventStreams' = {}
  BY <1>1, <1>2, NoEvent DEF recvVars, EventStreams
<1>4. /\ n \in Ids /\ outcome[n] = "none"
      /\ Phases[n] \in {"open", "ended"}
      /\ r # "OK" => Phases[n] = "ended"
  BY <1>1, PhaseAnswered DEF CInv, CallInv, Reporting
<1>5. Phases' = Phases
  BY <1>2, PhasesKept
<1>6. CASE r = "OK"
  <2>1. Service!Succeed(n)
    BY <1>2, <1>3, <1>4, <1>5, <1>6 DEF Service!Succeed
  <2> QED
    BY <1>4, <2>1 DEF ServiceStep, Service!Next
<1>7. CASE r # "OK"
  <2>1. Phases' = [Phases EXCEPT ![n] = "ended", ![n] = "ended"]
    BY <1>4, <1>5, <1>7, PhasesType
  <2>2. Service!Fail(n, n, r)
    BY <1>2, <1>3, <1>4, <1>7, <2>1 DEF Service!Fail
  <2>3. r \in {"FAILED", "TIMEOUT"}
    BY <1>2, <1>7 DEF Results
  <2> QED
    BY <1>4, <2>2, <2>3 DEF ServiceStep, Service!Next
<1> QED
  BY <1>6, <1>7

\* Closing a handle that validates clears the slot of its open stream.
LEMMA ValidClose ==
    ASSUME IInv, LInv, HInv, NEW h \in handles, close_subscription(h),
           validate_handle(h)
    PROVE  /\ h # ZeroHandle
           /\ stream_state_id[h.low - 1] = h.sid
           /\ stream_state_handler[h.low - 1].fn = "sub"
           /\ clear_stream_index(h.low - 1)
<1>1. /\ h # ZeroHandle /\ handle_index(h) = h.low - 1
      /\ stream_state_id[h.low - 1] = h.sid
      /\ stream_state_handler[h.low - 1] = SubHandler(h.sid)
  BY ValidHandle
<1>2. clear_stream_index(handle_index(h))
  BY DEF close_subscription
<1>3. SubHandler(h.sid).fn = "sub"
  BY DEF SubHandler
<1>4. stream_state_handler[h.low - 1].fn = "sub"
  BY <1>1, <1>3
<1> QED
  BY <1>1, <1>2, <1>4

\* A thread closes a handle, valid or stale: either way its stream has ended.
LEMMA CloseService ==
    ASSUME IInv, CInv, LInv, HInv, NEW t \in Threads, NEW h \in handles,
           CloseSubscription(t, h)
    PROVE  ServiceStep
<1> DEFINE n == h.sid
           i == h.low - 1
<1>1. /\ close_subscription(h) /\ closed' = closed \cup ({n} \ {0})
      /\ UNCHANGED <<threadVars, recvVars, outcome>>
      /\ stream_state_mtx # Recv
  BY ThreadsAssumption DEF CloseSubscription, MtxFree
<1>2. /\ EventStreams = {} /\ EventStreams' = {} /\ next_stream_id' = next_stream_id
      /\ rpc' = rpc /\ stream_id' = stream_id
  BY <1>1, NoEvent DEF recvVars, threadVars, EventStreams
<1>3. CASE h = ZeroHandle
  <2>1. ~validate_handle(h)
    BY <1>3, ValidHandle
  <2>2. UNCHANGED slotVars
    BY <1>1, <2>1 DEF close_subscription
  <2>3. closed' = closed
    BY <1>1, <1>3 DEF ZeroHandle
  <2> QED
    BY <1>1, <1>2, <2>2, <2>3, QuietService
<1>4. CASE h # ZeroHandle
  <2>1. i \in Slots /\ Settled(n, {i}) /\ HandleTicket(h)
    BY <1>4 DEF LInv, HandleInv, HInv, TicketInv
  <2>2. n \in Ids /\ n < next_stream_id /\ n # 0
    <3>1. n \in 1..(next_stream_id - 1) /\ next_stream_id \in Nat
      BY <2>1 DEF Settled, IInv, TypeOK
    <3> QED
      BY <2>1, <3>1, SettledId
  <2>3. closed' = closed \cup {n}
    BY <1>1, <2>2
  <2>4. /\ Phases[n] \in {"open", "ended"}
        /\ Phases' = [Phases EXCEPT ![n] = "ended"]
    <3>1. CASE validate_handle(h)
      <4>1. /\ stream_state_id[i] = n /\ stream_state_handler[i].fn = "sub"
            /\ clear_stream_index(i)
        BY <1>1, <3>1, ValidClose
      <4> QED
        BY <1>2, <2>1, <2>2, <4>1, PhaseInTable, PhaseCleared
    <3>2. CASE ~validate_handle(h)
      <4>1. UNCHANGED slotVars
        BY <1>1, <3>2 DEF close_subscription
      <4>2. handle_index(h) = i /\ i < MaxStreams
        BY <2>1, BoundsAssumption DEF handle_index, Slots
      <4>3. stream_state_id[i] # n
        BY <3>2, <4>2, <2>1 DEF validate_handle, HandleTicket, Ticket
      <4>4. \A j \in Slots : stream_state_id[j] # n
        BY <2>1, <4>3 DEF Settled
      <4>5. Phases[n] = "ended"
        BY <2>2, <4>4, PhaseOutside
      <4>6. Phases' = Phases
        BY <1>2, <4>1, PhasesKept
      <4> QED
        BY <2>2, <4>5, <4>6, PhasesType
    <3> QED
      BY <3>1, <3>2
  <2>5. Service!Close(n)
    BY <1>1, <1>2, <2>3, <2>4 DEF Service!Close, Service!Move
  <2> QED
    BY <2>2, <2>5 DEF ServiceStep, Service!Next
<1> QED
  BY <1>3, <1>4

\* A callback closes a handle: an open stream ends, or nothing happens.
LEMMA CallbackCloseService ==
    ASSUME IInv, LInv, HInv, NEW h \in handles, CallbackClose(h)
    PROVE  ServiceStep
<1> DEFINE n == h.sid
           i == h.low - 1
<1>1. /\ close_subscription(h)
      /\ UNCHANGED <<threadVars, recvVars, outcome, closed>>
  BY DEF CallbackClose
<1>2. /\ EventStreams' = EventStreams /\ next_stream_id' = next_stream_id
      /\ rpc' = rpc /\ stream_id' = stream_id
  BY <1>1 DEF recvVars, threadVars, EventStreams
<1>3. CASE ~validate_handle(h)
  <2>1. UNCHANGED slotVars
    BY <1>1, <1>3 DEF close_subscription
  <2> QED
    BY <1>1, <1>2, <2>1, QuietService
<1>4. CASE validate_handle(h)
  <2>1. /\ h # ZeroHandle /\ stream_state_id[i] = n
        /\ stream_state_handler[i].fn = "sub" /\ clear_stream_index(i)
    BY <1>1, <1>4, ValidClose
  <2>2. i \in Slots /\ n \in Ids /\ n # 0
    <3>1. i \in Slots /\ Settled(n, {i})
      BY <2>1 DEF LInv, HandleInv
    <3> QED
      BY <3>1, SettledId DEF Ids
  <2>3. Phases[n] = "open" /\ Phases' = [Phases EXCEPT ![n] = "ended"]
    BY <1>2, <2>1, <2>2, PhaseInTable, PhaseCleared
  <2>4. Service!End(n)
    BY <1>1, <1>2, <2>3 DEF Service!End, Service!Move
  <2> QED
    BY <2>2, <2>4 DEF ServiceStep, Service!Next
<1> QED
  BY <1>3, <1>4

\* A response is handled: the stream opens, or it ends.
LEMMA RespondService ==
    ASSUME IInv, CInv, NEW i \in Slots, NEW t \in Threads, Responds(i, t),
           stream_state_id[i] = stream_id, stream_state_handler[i].fn = "null",
           UNCHANGED next_stream_id
    PROVE  ServiceStep
<1>1. /\ stream_id \in Ids /\ stream_id # 0 /\ outcome[stream_id] = "none"
      /\ UNCHANGED <<outcome, closed>>
  <2>1. stream_id \in Ids /\ frame[t].sid = stream_id /\ Active(t)
    BY DEF Responds, Awaits, Active
  <2> QED
    BY <2>1 DEF Responds, CInv, CallInv, Ids
<1>2. EventStreams = {} /\ EventStreams' = {}
  BY DEF Responds, EventStreams
<1>3. Phases[stream_id] = "pending"
  BY <1>1, PhaseInTable
<1>4. CASE clear_stream_index(i)
  <2>1. Phases' = [Phases EXCEPT ![stream_id] = "ended"]
    BY <1>1, <1>4, PhaseCleared
  <2>2. Service!End(stream_id)
    BY <1>1, <1>2, <1>3, <2>1 DEF Service!End, Service!Move
  <2> QED
    BY <1>1, <2>2 DEF ServiceStep, Service!Next
<1>5. CASE Converts(i)
  <2>1. Phases' = [Phases EXCEPT ![stream_id] = "open"]
    BY <1>1, <1>5, PhaseConverted
  <2>2. Service!Open(stream_id)
    BY <1>1, <1>2, <1>3, <2>1 DEF Service!Open, Service!Move
  <2> QED
    BY <1>1, <2>2 DEF ServiceStep, Service!Next
<1> QED
  BY <1>4, <1>5 DEF Responds

\* An event enters the callback of an open stream.
LEMMA EventCallService ==
    ASSUME IInv, CInv, NEW i \in Slots, NEW m \in Messages, DispatchEventCall(i, m)
    PROVE  ServiceStep
<1>1. /\ rpc = "dispatch" /\ rpc' = "event" /\ stream_id' = stream_id
      /\ stream_state_id[i] = stream_id /\ stream_state_handler[i].fn = "sub"
      /\ UNCHANGED <<slotVars, next_stream_id, outcome, closed>>
  BY DEF DispatchEventCall, Dispatching, get_stream_index_from_id, EnterCallback,
         threadVars
<1>2. EventStreams = {} /\ EventStreams' = {stream_id}
  BY <1>1 DEF EventStreams
<1>3. stream_id \in Ids /\ stream_id # 0
  BY <1>1 DEF CInv, SubInv, Ids
<1>4. Phases[stream_id] = "open" /\ Phases' = Phases
  BY <1>1, <1>3, PhaseInTable, PhasesKept
<1>5. Service!Begin(stream_id)
  BY <1>1, <1>2, <1>4 DEF Service!Begin
<1> QED
  BY <1>3, <1>5 DEF ServiceStep, Service!Next

\* An event is done with, in the callback or without it: the stream may end.
LEMMA EventService ==
    ASSUME IInv, CInv, NEW i \in Slots, NEW m, NEW r, EventDone(i, m, r),
           UNCHANGED <<threadVars, outcome, closed>>, rpc' = "poll",
           \/ rpc = "event" /\ stream_state_id[i] \in {0, stream_id}
           \/ /\ rpc = "dispatch" /\ stream_state_id[i] = stream_id
              /\ stream_state_handler[i].fn = "sub"
    PROVE  ServiceStep
<1>1. next_stream_id' = next_stream_id /\ EventStreams' = {}
  BY DEF threadVars, EventStreams
<1>2. stream_id \in Ids /\ stream_id # 0
  BY DEF CInv, SubInv, EventInv, Ids
<1>3. \/ Phases' = Phases
      \/ /\ stream_state_id[i] = stream_id
         /\ Phases' = [Phases EXCEPT ![stream_id] = "ended"]
  <2>1. CASE clear_stream_index(i)
    <3>1. stream_state_id[i] \in {0, stream_id} /\ 0 \notin Ids
      BY DEF Ids
    <3>2. CASE stream_state_id[i] = 0
      BY <1>1, <2>1, <3>1, <3>2, PhaseCleared
    <3>3. CASE stream_state_id[i] = stream_id
      BY <1>1, <1>2, <2>1, <3>3, PhaseCleared
    <3> QED
      BY <3>1, <3>2, <3>3
  <2>2. CASE UNCHANGED slotVars
    BY <1>1, <2>2, PhasesKept
  <2> QED
    BY <2>1, <2>2, EventAdvance
<1>4. CASE rpc = "event"
  <2>1. EventStreams = {stream_id}
    BY <1>4 DEF EventStreams
  <2>2. Service!Finish(stream_id)
    BY <1>1, <1>3, <2>1 DEF Service!Finish, Service!Move
  <2> QED
    BY <1>2, <2>2 DEF ServiceStep, Service!Next
<1>5. CASE /\ rpc = "dispatch" /\ stream_state_id[i] = stream_id
           /\ stream_state_handler[i].fn = "sub"
  <2>1. EventStreams = {} /\ Phases[stream_id] = "open"
    BY <1>2, <1>5, PhaseInTable DEF EventStreams
  <2>2. CASE Phases' = Phases
    BY <1>1, <2>1, <2>2 DEF ServiceStep, Service!vars
  <2>3. CASE Phases' = [Phases EXCEPT ![stream_id] = "ended"]
    <3>1. Service!End(stream_id)
      BY <1>1, <2>1, <2>3 DEF Service!End, Service!Move
    <3> QED
      BY <1>2, <3>1 DEF ServiceStep, Service!Next
  <2> QED
    BY <1>3, <2>2, <2>3
<1> QED
  BY <1>4, <1>5

\* Only the thread itself touches the table while it sends its request.
LEMMA NextSlotInv == IInv /\ SlotInv /\ [Next]_vars => SlotInv'
<1> SUFFICES ASSUME IInv, SlotInv, [Next]_vars, NEW t \in Threads, pc'[t] = "send"
             PROVE  stream_state_id'[frame'[t].index] = frame'[t].sid
  BY DEF SlotInv
<1>1. CASE pc[t] = "send"
  <2>1. /\ stream_state_mtx = t /\ stream_state_mtx \notin {NoThread, Recv}
        /\ \A u \in Threads : pc[u] = "send" => u = t
    BY <1>1, ThreadsAssumption DEF IInv, LockInv
  <2>2. ASSUME NEW u \in Threads, ThreadNext(u)
        PROVE  UNCHANGED slotVars /\ frame'[t] = frame[t]
    <3>1. CASE u # t
      BY <1>1, <2>1, <2>2, <3>1
         DEF ThreadNext, SubscribeBegin, SubscribeClaim, SubscribeNoMem,
             SubscribeSend, SubscribeSendFail, SubscribeWake, SubscribeExpire,
             SubscribeTimedOut, CloseSubscription, MtxFree, IInv, TypeOK
    <3>2. CASE u = t
      BY <1>1, <2>1, <2>2, <3>2
         DEF ThreadNext, SubscribeBegin, SubscribeClaim, SubscribeNoMem,
             SubscribeSend, SubscribeSendFail, SubscribeWake, SubscribeExpire,
             SubscribeTimedOut, CloseSubscription, MtxFree, Return, IInv, TypeOK
    <3> QED
      BY <3>1, <3>2
  <2>3. CASE RecvNext
    <3>1. UNCHANGED <<slotVars, threadVars>>
      BY <2>1, <2>3
         DEF RecvNext, ReadPacket, ReadFail, Exit, DispatchDrop, DispatchResponse,
             DispatchResponseCall, DispatchEvent, DispatchEventCall, Dispatching,
             CallbackClose, CallbackSubscribe, CallbackReturn, ResponseReturn,
             EventReturn, MtxFree, vars
    <3> QED
      BY <1>1, <3>1 DEF threadVars, slotVars, SlotInv
  <2>4. CASE Quiescent \/ UNCHANGED vars
    BY <1>1, <2>4 DEF Quiescent, vars, threadVars, slotVars, SlotInv
  <2> QED
    BY <1>1, <2>2, <2>3, <2>4 DEF Next, SlotInv, slotVars
<1>2. CASE pc[t] # "send"
  <2>1. SubscribeClaim(t)
    <3>1. ASSUME NEW u \in Threads, ThreadNext(u)
          PROVE  SubscribeClaim(t)
      BY <1>2, <3>1
         DEF ThreadNext, SubscribeBegin, SubscribeClaim, SubscribeNoMem,
             SubscribeSend, SubscribeSendFail, SubscribeWake, SubscribeExpire,
             SubscribeTimedOut, CloseSubscription, Return, threadVars, IInv, TypeOK
    <3>2. ASSUME RecvNext \/ Quiescent \/ UNCHANGED vars
          PROVE  pc' = pc
      BY <3>2
         DEF RecvNext, ReadPacket, ReadFail, Exit, DispatchDrop, DispatchResponse,
             DispatchResponseCall, DispatchEvent, DispatchEventCall, EnterCallback,
             CallbackClose, CallbackSubscribe, CallbackReturn, ResponseReturn,
             EventReturn, Quiescent, vars, threadVars
    <3> QED
      BY <1>2, <3>1, <3>2 DEF Next
  <2>2. PICK i \in Slots :
           /\ frame'[t] = NewFrame(frame[t].kind, i,
                                   NextGen(stream_state_generation[i]),
                                   next_stream_id)
           /\ stream_state_id'[i] = next_stream_id
    BY <2>1, ClaimAdvance
  <2> QED
    BY <2>2 DEF NewFrame
<1> QED
  BY <1>1, <1>2

\* Every step of every thread, with any packet, is a step of the service.
LEMMA NextService ==
    IInv /\ CInv /\ LInv /\ HInv /\ SlotInv /\ [Next]_vars => ServiceStep
<1> SUFFICES ASSUME IInv, CInv, LInv, HInv, SlotInv, [Next]_vars
             PROVE  ServiceStep
  OBVIOUS
<1>1. ASSUME NEW t \in Threads, ThreadNext(t) PROVE ServiceStep
  <2>1. CASE \/ \E k \in Kinds : SubscribeBegin(t, k)
             \/ SubscribeNoMem(t) \/ SubscribeSend(t) \/ SubscribeExpire(t)
    <3>1. UNCHANGED <<slotVars, next_stream_id, recvVars, outcome, closed>>
      BY <2>1 DEF SubscribeBegin, SubscribeNoMem, SubscribeSend, SubscribeExpire,
                  appVars
    <3> QED
      BY <3>1, QuietService DEF recvVars
  <2> QED
    BY <1>1, <2>1, ClaimService, GiveUpService, WakeService, CloseService
       DEF ThreadNext
<1>2. CASE \/ ReadPacket \/ ReadFail \/ Exit \/ DispatchDrop
           \/ CallbackSubscribe \/ Quiescent \/ UNCHANGED vars
  <2>1. /\ UNCHANGED <<slotVars, next_stream_id, outcome, closed>>
        /\ rpc' = "event" <=> rpc = "event"
        /\ rpc = "event" => stream_id' = stream_id
    BY <1>2 DEF ReadPacket, ReadFail, Exit, DispatchDrop, Poll, CallbackSubscribe,
                Quiescent, vars, threadVars, recvVars, appVars
  <2> QED
    BY <2>1, QuietService
<1>3. ASSUME NEW i \in Slots, NEW m \in Messages, DispatchResponseCall(i, m)
      PROVE  ServiceStep
  <2>1. /\ UNCHANGED <<slotVars, next_stream_id, outcome, closed>>
        /\ rpc = "dispatch" /\ rpc' = "response"
    BY <1>3 DEF DispatchResponseCall, Dispatching, EnterCallback, threadVars
  <2> QED
    BY <2>1, QuietService
<1>4. ASSUME NEW i \in Slots, NEW m \in Messages, DispatchResponse(i, m)
      PROVE  ServiceStep
  <2>1. /\ stream_state_handler[i].fn = "null" /\ UNCHANGED next_stream_id
        /\ stream_state_id[i] = stream_id /\ \E t \in Threads : Responds(i, t)
    BY <1>4, DispatchResponseAdvance DEF DispatchResponse, Dispatching
  <2> QED
    BY <2>1, RespondService
<1>5. ASSUME NEW r \in {"OK", "FAILED"}, ResponseReturn(r)
      PROVE  ServiceStep
  <2>1. /\ stream_state_id[cur.index] = stream_id
        /\ stream_state_handler[cur.index].fn = "null" /\ UNCHANGED next_stream_id
    BY <1>5 DEF ResponseReturn, HInv, CurInv, PendingHandler
  <2> QED
    BY <1>5, <2>1, ResponseReturnAdvance, RespondService
<1>6. ASSUME NEW i \in Slots, NEW m \in Messages, DispatchEvent(i, m)
      PROVE  ServiceStep
  BY <1>6, EventService DEF DispatchEvent, Dispatching, get_stream_index_from_id, Poll
<1>7. ASSUME NEW r \in {"OK", "FAILED"}, EventReturn(r)
      PROVE  ServiceStep
  <2>1. cur.index \in Slots /\ stream_state_id[cur.index] \in {0, stream_id}
    BY <1>7 DEF EventReturn, HInv, CurInv, IInv, TypeOK
  <2> QED
    BY <1>7, <2>1, EventService DEF EventReturn, Poll
<1> QED
  BY <1>1, <1>2, <1>3, <1>4, <1>5, <1>6, <1>7, EventCallService,
     CallbackCloseService DEF Next, RecvNext, CallbackReturn

\* A client that has just connected has no stream.
LEMMA InitService == Init => SlotInv /\ Service!Init
<1> SUFFICES ASSUME Init PROVE SlotInv /\ Service!Init
  OBVIOUS
<1>1. SlotInv /\ EventStreams = {}
  BY DEF Init, SlotInv, EventStreams
<1>2. ASSUME NEW n \in Ids
      PROVE  Phases[n] = "new"
  BY PhaseOutside DEF Init, Ids
<1>3. Phases = [n \in Ids |-> "new"]
  BY <1>2, PhasesType
<1> QED
  BY <1>1, <1>3 DEF Service!Init, Init

\* The client implements the stream service: what happens to a stream does not
\* depend on the slots, generations and stale handles of client.c, except that
\* a deadline that passes can end one other stream.
THEOREM ImplementsService == Spec /\ []NoWrap => IsStreamService
<1>1. IInv /\ CInv /\ LInv /\ HInv /\ SlotInv /\ [Next]_vars
         => [Service!Next]_(Service!vars)
  BY NextService DEF ServiceStep
<1> QED
  BY <1>1, Invariance, CallbackInvariance, StreamInvariance, HandleInvariance,
     InitService, NextSlotInv, PTL DEF Spec, IsStreamService, Service!Spec
=============================================================================
