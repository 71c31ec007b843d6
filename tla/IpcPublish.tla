----------------------------- MODULE IpcPublish -----------------------------
(***************************************************************************)
(* The publish commands that encode their payload to base64                *)
(* (src/src/ipc/client/b64_encode_mem.c).  They share one static buffer    *)
(* and hold its mutex for the whole call, which in turn takes the mutex of *)
(* the stream table.  Subscription callbacks run with the second mutex     *)
(* held (see IpcClient) and may publish as well.                           *)
(*                                                                         *)
(* The client is connected, and the stream table is abstracted away: a     *)
(* call sends, waits, and returns.                                         *)
(***************************************************************************)
EXTENDS TLAPS

CONSTANTS
    Threads,  \* application threads
    Recv,     \* the receive thread
    Nobody    \* the owner of a free mutex, an empty buffer

ASSUME PublishAssumption ==
    /\ Recv \notin Threads
    /\ Nobody \notin Threads \cup {Recv}

VARIABLES
    stream_state_mtx,    \* owner of the mutex of the stream table
    ipc_b64_encode_mtx,  \* owner of the mutex of the buffer
    ipc_b64_encode_mem,  \* whose payload the buffer holds
    pc,                  \* thread -> where it is in a publish
    ready,               \* threads whose call has its response
    rpc,                 \* where the receive thread is
    sent                 \* history: <<thread, payload>> of the packets sent

vars == <<stream_state_mtx, ipc_b64_encode_mtx, ipc_b64_encode_mem, pc, ready,
          rpc, sent>>
recvVars == <<stream_state_mtx, rpc>>
memVars  == <<ipc_b64_encode_mtx, ipc_b64_encode_mem>>

Init ==
    /\ stream_state_mtx = Nobody
    /\ ipc_b64_encode_mtx = Nobody
    /\ ipc_b64_encode_mem = Nobody
    /\ pc = [t \in Threads |-> "idle"]
    /\ ready = {}
    /\ rpc = "poll"
    /\ sent = {}

MtxFree == stream_state_mtx = Nobody

-----------------------------------------------------------------------------
(* ggipc_publish_to_topic_binary and ggipc_publish_to_iot_core *)

PublishBegin(t) ==
    /\ pc[t] = "idle"
    /\ pc' = [pc EXCEPT ![t] = "lock"]
    /\ UNCHANGED <<recvVars, memVars, ready, sent>>

\* Mutant: the mutex only protects the encoding.
Encode_Unlocked(t) ==
    /\ pc[t] = "lock" /\ ipc_b64_encode_mtx = Nobody
    /\ ipc_b64_encode_mem' = t
    /\ pc' = [pc EXCEPT ![t] = "call"]
    /\ UNCHANGED <<recvVars, ipc_b64_encode_mtx, ready, sent>>

\* The mutex is locked and the payload encoded into the buffer.
Encode(t) ==
    /\ pc[t] = "lock" /\ ipc_b64_encode_mtx = Nobody
    /\ ipc_b64_encode_mtx' = t
    /\ ipc_b64_encode_mem' = t
    /\ pc' = [pc EXCEPT ![t] = "call"]
    /\ UNCHANGED <<recvVars, ready, sent>>

\* The payload does not fit: the scope guard unlocks the mutex again.
EncodeFail(t) ==
    /\ pc[t] = "lock" /\ ipc_b64_encode_mtx = Nobody
    /\ pc' = [pc EXCEPT ![t] = "idle"]
    /\ UNCHANGED <<recvVars, memVars, ready, sent>>

\* ggipc_call, as in IpcClient: with the stream mutex a slot is claimed and the
\* packet built from the buffer and written; the wait releases the mutex.
CallSend(t) ==
    /\ pc[t] = "call" /\ MtxFree
    /\ sent' = sent \cup {<<t, ipc_b64_encode_mem>>}
    /\ pc' = [pc EXCEPT ![t] = "wait"]
    /\ UNCHANGED <<recvVars, memVars, ready>>

\* The call returns, and the scope guard unlocks the buffer.
Return(t) ==
    /\ pc' = [pc EXCEPT ![t] = "idle"]
    /\ ready' = ready \ {t}
    /\ ipc_b64_encode_mtx' = Nobody
    /\ UNCHANGED <<recvVars, ipc_b64_encode_mem, sent>>

\* There is no free slot, or the packet cannot be encoded or written.
CallFail(t) ==
    /\ pc[t] = "call" /\ MtxFree
    /\ Return(t)

CallWake(t) ==
    /\ pc[t] = "wait" /\ MtxFree
    /\ t \in ready
    /\ Return(t)

\* The deadline passes while no response is there.
CallExpire(t) ==
    /\ pc[t] = "wait"
    /\ t \notin ready
    /\ pc' = [pc EXCEPT ![t] = "expired"]
    /\ UNCHANGED <<recvVars, memVars, ready, sent>>

\* Mutant: the buffer stays locked after a timeout.
CallTimedOut_KeepsLock(t) ==
    /\ pc[t] = "expired" /\ MtxFree
    /\ pc' = [pc EXCEPT ![t] = "idle"]
    /\ ready' = ready \ {t}
    /\ UNCHANGED <<recvVars, memVars, sent>>

\* The mutex of the stream table has to be locked before the wait returns.
CallTimedOut(t) ==
    /\ pc[t] = "expired" /\ MtxFree
    /\ Return(t)

-----------------------------------------------------------------------------
(* The receive thread. *)

\* A response reaches a call.  The commands pass no result callback.
Response(t) ==
    /\ rpc = "poll" /\ MtxFree
    /\ pc[t] \in {"wait", "expired"} /\ t \notin ready
    /\ ready' = ready \cup {t}
    /\ UNCHANGED <<recvVars, memVars, pc, sent>>

\* An event reaches a subscription: its callback runs with the mutex held.
Event ==
    /\ rpc = "poll" /\ MtxFree
    /\ stream_state_mtx' = Recv
    /\ rpc' = "callback"
    /\ UNCHANGED <<memVars, pc, ready, sent>>

\* The callback publishes: it first has to lock the buffer.
CallbackPublish ==
    /\ rpc = "callback"
    /\ rpc' = "lock"
    /\ UNCHANGED <<stream_state_mtx, memVars, pc, ready, sent>>

\* It has locked the buffer and encoded its payload; ggipc_call returns INVALID
\* on the receive thread, and the buffer is unlocked.
CallbackInvalid ==
    /\ rpc = "lock" /\ ipc_b64_encode_mtx = Nobody
    /\ ipc_b64_encode_mem' = Recv
    /\ rpc' = "published"
    /\ UNCHANGED <<stream_state_mtx, ipc_b64_encode_mtx, pc, ready, sent>>

CallbackReturn ==
    /\ rpc \in {"callback", "published"}
    /\ rpc' = "poll"
    /\ stream_state_mtx' = Nobody
    /\ UNCHANGED <<memVars, pc, ready, sent>>

-----------------------------------------------------------------------------

ThreadNext(t) ==
    \/ PublishBegin(t)
    \/ Encode(t)
    \/ EncodeFail(t)
    \/ CallSend(t)
    \/ CallFail(t)
    \/ CallWake(t)
    \/ CallExpire(t)
    \/ CallTimedOut(t)

RecvNext ==
    \/ \E t \in Threads : Response(t)
    \/ Event
    \/ CallbackPublish
    \/ CallbackInvalid
    \/ CallbackReturn

Next == (\E t \in Threads : ThreadNext(t)) \/ RecvNext

Spec == Init /\ [][Next]_vars

\* As in IpcClient: a mutex that is released again and again is eventually
\* obtained, deadlines pass, and a user callback that is not blocked returns.
Fairness ==
    /\ \A t \in Threads :
         /\ SF_vars(Encode(t) \/ EncodeFail(t))
         /\ SF_vars(CallSend(t) \/ CallFail(t))
         /\ SF_vars(CallWake(t))
         /\ WF_vars(CallExpire(t))
         /\ SF_vars(CallTimedOut(t))
    /\ SF_vars(CallbackInvalid)
    /\ WF_vars(CallbackReturn)

FairSpec == Spec /\ Fairness

-----------------------------------------------------------------------------
(* Properties. *)

\* The variables have their types; between steps the receive thread does not
\* hold the mutex of the buffer.
TypeOK ==
    /\ stream_state_mtx \in {Recv, Nobody}
    /\ ipc_b64_encode_mtx \in Threads \cup {Nobody}
    /\ ipc_b64_encode_mem \in Threads \cup {Recv, Nobody}
    /\ pc \in [Threads -> {"idle", "lock", "call", "wait", "expired"}]
    /\ ready \subseteq Threads
    /\ rpc \in {"poll", "callback", "lock", "published"}
    /\ sent \subseteq Threads \X (Threads \cup {Recv, Nobody})

\* Every packet carries the payload of the publish that sent it, although all
\* publishes encode into one static buffer that the call reads only later.
PayloadsIntact == \A p \in sent : p[2] = p[1]

\* As long as no subscription callback publishes, every publish returns,
\* whether or not the server answers.
PublishReturns ==
    [](rpc # "lock") => \A t \in Threads : pc[t] = "lock" ~> pc[t] = "idle"

\* A publish from a subscription callback returns (client_raw.h: "GG_ERR_INVALID
\* if called from subscription callback").
CallbackPublishReturns == rpc = "lock" ~> rpc = "published"

-----------------------------------------------------------------------------
(* Proof that payloads stay intact. *)

\* The buffer is locked exactly by the publish whose payload it holds, from
\* the encoding to the return.
BufferInv ==
    \A t \in Threads :
        /\ (ipc_b64_encode_mtx = t) <=> (pc[t] \in {"call", "wait", "expired"})
        /\ ipc_b64_encode_mtx = t => ipc_b64_encode_mem = t

PInv == TypeOK /\ BufferInv /\ PayloadsIntact

\* Each step of a publish, of a callback and of the receive thread preserves
\* the invariant.
LEMMA PublishStep == PInv /\ [Next]_vars => PInv'
<1> SUFFICES ASSUME PInv, [Next]_vars PROVE PInv'
  OBVIOUS
<1> USE PublishAssumption DEF PInv, TypeOK, BufferInv, PayloadsIntact, recvVars, memVars
<1>1. ASSUME NEW t \in Threads, ThreadNext(t)
      PROVE  PInv'
  <2>1. CASE PublishBegin(t)
    BY <2>1 DEF PublishBegin
  <2>2. CASE Encode(t)
    BY <2>2 DEF Encode
  <2>3. CASE EncodeFail(t)
    BY <2>3 DEF EncodeFail
  <2>4. CASE CallSend(t)
    BY <2>4 DEF CallSend
  <2>5. CASE CallFail(t)
    BY <2>5 DEF CallFail, Return
  <2>6. CASE CallWake(t)
    BY <2>6 DEF CallWake, Return
  <2>7. CASE CallExpire(t)
    BY <2>7 DEF CallExpire
  <2>8. CASE CallTimedOut(t)
    BY <2>8 DEF CallTimedOut, Return
  <2> QED
    BY <1>1, <2>1, <2>2, <2>3, <2>4, <2>5, <2>6, <2>7, <2>8 DEF ThreadNext
<1>2. CASE RecvNext
  BY <1>2 DEF RecvNext, Response, Event, CallbackPublish, CallbackInvalid,
              CallbackReturn
<1>3. CASE UNCHANGED vars
  BY <1>3 DEF vars
<1> QED
  BY <1>1, <1>2, <1>3 DEF Next

\* For any number of threads, and with callbacks that publish too, every
\* packet carries the payload of the publish that sent it.
THEOREM PayloadsStayIntact == Spec => []PayloadsIntact
<1>1. Init => PInv
  BY PublishAssumption DEF Init, PInv, TypeOK, BufferInv, PayloadsIntact
<1>2. PInv => PayloadsIntact
  BY DEF PInv
<1> QED
  BY <1>1, <1>2, PublishStep, PTL DEF Spec
=============================================================================
