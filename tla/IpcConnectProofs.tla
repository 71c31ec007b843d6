-------------------------- MODULE IpcConnectProofs --------------------------
(***************************************************************************)
(* Proofs about connecting, for any number of threads and of sockets and   *)
(* any server, for programs that connect through the guard of the Rust     *)
(* bindings or one at a time of their own accord: the static buffers have  *)
(* one user at a time, no socket is leaked, and the receive thread ends    *)
(* the process only after a failure.                                       *)
(***************************************************************************)
EXTENDS IpcConnect, FiniteSetTheorems, TLAPS

Guarded == "none" \notin Guards

FdType == Conns \cup {NoFd}

TypeInv ==
    /\ guard \in Guards
    /\ ipc_conn_fd \in FdType
    /\ pc \in [Threads ->
                {"idle", "open", "connect", "timeouts", "send", "ack", "register",
                 "publish", "call"}]
    /\ conn \in [Threads -> FdType]
    /\ opened \in 0..MaxConns
    /\ fds \subseteq Conns
    /\ epoll \subseteq Conns
    /\ inbox \in [Conns -> {"none", "ack", "packet", "bad"}]
    /\ rpc \in {"none", "poll", "read", "exited"}
    /\ rfd \in FdType

\* There is one connect at a time, and none once there is a connection.  The
\* Rust guard is up from the first connect on.
ConnectInv ==
    /\ \A t, u \in Threads : Connecting(t) /\ Connecting(u) => t = u
    /\ \A t \in Threads : Connecting(t) => ~connected
    /\ \A t \in Threads : guard = "rust" /\ Connecting(t) => CONNECTED
    /\ guard = "rust" /\ connected => CONNECTED

\* A connect owns a socket from opening it to publishing it.
SocketInv ==
    \A t \in Threads :
        (conn[t] # NoFd) <=>
            (pc[t] \in {"connect", "timeouts", "send", "ack", "register", "publish"})

\* Calls send on the connection, one at a time.
CallInv ==
    /\ \A t \in Threads : pc[t] = "call" => connected
    /\ \A t, u \in Threads : pc[t] = "call" /\ pc[u] = "call" => t = u

\* Only the connection is registered with epoll, or the socket that is about to
\* become the connection.
EpollInv ==
    \A c \in epoll :
      c = ipc_conn_fd \/ \E t \in Threads : pc[t] = "publish" /\ conn[t] = c

\* What the receive thread can find on a registered socket: an answer to a call
\* on the connection, or something that the server should not have sent.
InboxInv ==
    /\ \A c \in asked : c = ipc_conn_fd /\ c # NoFd
    /\ \A c \in Conns : inbox[c] = "bad" => fault
    /\ \A c \in Conns : inbox[c] = "packet" => fault \/ c = ipc_conn_fd
    /\ \A c \in epoll : inbox[c] # "ack"
    /\ \A t \in Threads : pc[t] \in {"register", "publish"} => inbox[conn[t]] # "ack"

\* The receive thread reads when a connection is there or is about to be, and
\* without a failure what it was told of is there.
RecvInv ==
    /\ rpc = "read" => connected \/ \E t \in Threads : pc[t] = "publish"
    /\ rpc = "read" => fault \/ HasPacket(rfd)
    /\ NoSpuriousExit

KInv ==
    /\ TypeInv /\ ConnectInv /\ SocketInv /\ CallInv /\ EpollInv /\ InboxInv /\ RecvInv
    /\ NoSocketLeak

-----------------------------------------------------------------------------

\* NoFd is not the number of a socket.
LEMMA NoFdNotConn == NoFd \notin Conns
  BY ConnectAssumption DEF NoFd, Conns

\* The invariant holds before anything has run.
LEMMA InitK == Init => KInv
<1> SUFFICES ASSUME Init PROVE KInv
  OBVIOUS
<1>1. TypeInv
  BY ConnectAssumption DEF Init, TypeInv, FdType
<1>2. ConnectInv /\ SocketInv /\ CallInv /\ EpollInv /\ InboxInv /\ RecvInv
  BY DEF Init, ConnectInv, SocketInv, CallInv, EpollInv, InboxInv, RecvInv, Connecting,
         connected, NoSpuriousExit
<1>3. NoSocketLeak
  BY DEF Init, NoSocketLeak
<1> QED
  BY <1>1, <1>2, <1>3 DEF KInv

\* gg_sdk_init runs: nothing is connected that was not.
LEMMA SdkInitK ==
    ASSUME Guarded, KInv, SdkInit \/ SdkInitFail
    PROVE  KInv'
<1> USE DEF KInv
<1>1. TypeInv'
  BY NoFdNotConn, ConnectAssumption DEF SdkInit, SdkInitFail, TypeInv, FdType,
       Conns, NoFd, globalVars, sockVars, recvVars, history
<1>2. ConnectInv' /\ CallInv'
  BY DEF SdkInit, SdkInitFail, ConnectInv, CallInv, Connecting, connected,
       globalVars
<1>3. SocketInv'
  BY DEF SdkInit, SdkInitFail, SocketInv
<1>4. EpollInv'
  BY DEF SdkInit, SdkInitFail, EpollInv, globalVars
<1>5. InboxInv'
  BY DEF SdkInit, SdkInitFail, InboxInv, globalVars, sockVars, history
<1>6. RecvInv'
  BY DEF SdkInit, SdkInitFail, RecvInv, NoSpuriousExit
<1>7. NoSocketLeak'
  BY DEF SdkInit, SdkInitFail, NoSocketLeak, Connecting, globalVars, sockVars
<1> QED
  BY <1>1, <1>2, <1>3, <1>4, <1>5, <1>6, <1>7

\* A connect begins: the guard has seen to it that there is no other.
LEMMA BeginK ==
    ASSUME Guarded, KInv, NEW t \in Threads, ConnectBegin(t) \/ RustConnectBegin(t)
    PROVE  KInv'
<1> USE DEF KInv
<1>1. TypeInv'
  BY NoFdNotConn, ConnectAssumption DEF ConnectBegin, RustConnectBegin, Begin,
       TypeInv, FdType, Conns, NoFd, globalVars, sockVars, recvVars, history
<1>2. ConnectInv' /\ CallInv'
  BY ConnectAssumption DEF ConnectBegin, RustConnectBegin, Begin, TypeInv,
       ConnectInv, CallInv, Connecting, connected, Guarded
<1>3. SocketInv'
  BY DEF ConnectBegin, RustConnectBegin, Begin, TypeInv, SocketInv
<1>4. EpollInv'
  BY DEF ConnectBegin, RustConnectBegin, Begin, TypeInv, EpollInv
<1>5. InboxInv'
  BY DEF ConnectBegin, RustConnectBegin, Begin, TypeInv, InboxInv, sockVars, history
<1>6. RecvInv'
  BY DEF ConnectBegin, RustConnectBegin, Begin, TypeInv, RecvInv, NoSpuriousExit,
       HasPacket, sockVars, recvVars, history
<1>7. NoSocketLeak'
  BY DEF ConnectBegin, RustConnectBegin, Begin, TypeInv, NoSocketLeak, Connecting,
       sockVars
<1> QED
  BY <1>1, <1>2, <1>3, <1>4, <1>5, <1>6, <1>7

\* The Rust guard refuses.
LEMMA RefuseK ==
    ASSUME Guarded, KInv, NEW t \in Threads, RustConnectRefuse(t)
    PROVE  KInv'
<1> USE DEF KInv
<1>1. TypeInv'
  BY DEF RustConnectRefuse, TypeInv, globalVars, sockVars, recvVars
<1>2. ConnectInv' /\ CallInv'
  BY DEF RustConnectRefuse, ConnectInv, CallInv, Connecting, connected, globalVars
<1>3. SocketInv'
  BY DEF RustConnectRefuse, SocketInv
<1>4. EpollInv'
  BY DEF RustConnectRefuse, EpollInv, globalVars
<1>5. InboxInv'
  BY DEF RustConnectRefuse, InboxInv, globalVars, sockVars
<1>6. RecvInv'
  BY DEF RustConnectRefuse, RecvInv, NoSpuriousExit, HasPacket, connected,
       globalVars, sockVars, recvVars
<1>7. NoSocketLeak'
  BY DEF RustConnectRefuse, NoSocketLeak, Connecting, globalVars, sockVars
<1> QED
  BY <1>1, <1>2, <1>3, <1>4, <1>5, <1>6, <1>7

\* The socket is opened.
LEMMA OpenK ==
    ASSUME Guarded, KInv, NEW t \in Threads, ConnectOpen(t)
    PROVE  KInv'
<1> USE DEF KInv
<1>1. TypeInv'
  BY ConnectAssumption DEF ConnectOpen, TypeInv, FdType, Conns, globalVars, recvVars
<1>2. ConnectInv' /\ CallInv'
  BY DEF ConnectOpen, ConnectInv, CallInv, Connecting, connected, globalVars
<1>3. SocketInv'
  BY NoFdNotConn, ConnectAssumption DEF ConnectOpen, TypeInv, SocketInv, Conns
<1>4. EpollInv'
  BY DEF ConnectOpen, EpollInv, globalVars
<1>5. InboxInv'
  BY DEF ConnectOpen, InboxInv, globalVars, history
<1>6. RecvInv'
  BY DEF ConnectOpen, RecvInv, NoSpuriousExit, HasPacket, connected, globalVars,
       recvVars, history
<1>7. NoSocketLeak'
  BY NoFdNotConn DEF ConnectOpen, TypeInv, SocketInv, NoSocketLeak, Connecting,
       globalVars
<1> QED
  BY <1>1, <1>2, <1>3, <1>4, <1>5, <1>6, <1>7

\* A connect fails: its socket is closed and nobody else has it.
LEMMA FailK ==
    ASSUME Guarded, KInv, NEW t \in Threads, Running, Fail(t),
           pc[t] \in {"open", "connect", "timeouts", "send", "ack", "register"}
    PROVE  KInv'
<1> USE DEF KInv
<1>1. TypeInv'
  BY NoFdNotConn, ConnectAssumption DEF Fail, Running, TypeInv, FdType, Conns, NoFd,
       globalVars, sockVars, recvVars, history
<1>2. ConnectInv' /\ CallInv'
  BY DEF Fail, ConnectInv, CallInv, Connecting, connected
<1>3. SocketInv'
  BY DEF Fail, TypeInv, SocketInv
<1>4. EpollInv'
  BY DEF Fail, EpollInv
<1>5. InboxInv'
  BY DEF Fail, TypeInv, InboxInv, history
<1>6. RecvInv'
  BY DEF Fail, RecvInv, NoSpuriousExit, HasPacket, connected, recvVars, history
<1>7. NoSocketLeak'
  BY DEF Fail, NoSocketLeak, Connecting
<1> QED
  BY <1>1, <1>2, <1>3, <1>4, <1>5, <1>6, <1>7

\* connect(2) succeeds, the timeouts are set, or the connect packet is sent:
\* nothing is registered, so the receive thread does not read.
LEMMA SendK ==
    ASSUME Guarded, KInv, NEW t \in Threads,
           ServerAccept(t) \/ ConnectTimeouts(t) \/ ConnectSend(t)
    PROVE  KInv'
<1> USE DEF KInv
<1>1. PICK where \in {"timeouts", "send", "ack"} :
        /\ pc' = [pc EXCEPT ![t] = where] /\ pc[t] \in {"connect", "timeouts", "send"}
        /\ UNCHANGED <<globalVars, conn, sockVars, recvVars, history>>
  BY DEF ServerAccept, ConnectTimeouts, ConnectSend
<1>2. /\ \A u \in Threads : u # t => pc'[u] = pc[u]
      /\ pc'[t] = where /\ Connecting(t) /\ Connecting(t)'
  BY <1>1 DEF TypeInv, Connecting
<1>3. \A u \in Threads : Connecting(u)' <=> Connecting(u)
  BY <1>2 DEF Connecting
<1>4. TypeInv'
  BY <1>1 DEF TypeInv, globalVars, sockVars, recvVars
<1>5. ConnectInv'
  BY <1>1, <1>3 DEF ConnectInv, connected, globalVars
<1>6. CallInv' /\ SocketInv'
  BY <1>1, <1>2 DEF CallInv, SocketInv, connected, globalVars
<1>7. EpollInv'
  BY <1>1, <1>2 DEF EpollInv, globalVars
<1>8. InboxInv'
  BY <1>1, <1>2 DEF InboxInv, globalVars, sockVars, history
<1>9. RecvInv'
  BY <1>1, <1>2 DEF RecvInv, NoSpuriousExit, HasPacket, connected, globalVars,
       sockVars, recvVars, history
<1>10. NoSocketLeak'
  BY <1>1, <1>3 DEF NoSocketLeak, Running, globalVars, sockVars, recvVars
<1> QED
  BY <1>4, <1>5, <1>6, <1>7, <1>8, <1>9, <1>10

\* The ack is read.
LEMMA AckK ==
    ASSUME Guarded, KInv, NEW t \in Threads, ConnectAck(t)
    PROVE  KInv'
<1> USE DEF KInv
<1>1. TypeInv'
  BY NoFdNotConn, ConnectAssumption DEF ConnectAck, TypeInv, FdType, Conns, NoFd,
       globalVars, sockVars, recvVars, history
<1>2. ConnectInv' /\ CallInv'
  BY DEF ConnectAck, ConnectInv, CallInv, Connecting, connected, globalVars
<1>3. SocketInv'
  BY DEF ConnectAck, SocketInv
<1>4. EpollInv'
  BY DEF ConnectAck, EpollInv, globalVars
<1>5. InboxInv'
  BY DEF ConnectAck, TypeInv, SocketInv, InboxInv, FdType, globalVars, history
<1>6. RecvInv'
  BY DEF ConnectAck, RecvInv, NoSpuriousExit, HasPacket, connected, globalVars,
       recvVars, history
<1>7. NoSocketLeak'
  BY DEF ConnectAck, NoSocketLeak, Connecting, globalVars
<1> QED
  BY <1>1, <1>2, <1>3, <1>4, <1>5, <1>6, <1>7

\* The socket is registered.
LEMMA RegisterK ==
    ASSUME Guarded, KInv, NEW t \in Threads, ConnectRegister(t)
    PROVE  KInv'
<1> USE DEF KInv
<1>1. TypeInv'
  BY DEF ConnectRegister, TypeInv, SocketInv, FdType, sockVars, recvVars
<1>2. ConnectInv' /\ CallInv'
  BY DEF ConnectRegister, ConnectInv, CallInv, Connecting, connected
<1>3. SocketInv'
  BY DEF ConnectRegister, SocketInv
<1>4. EpollInv'
  BY DEF ConnectRegister, TypeInv, EpollInv
<1>5. InboxInv'
  BY DEF ConnectRegister, InboxInv, sockVars, history
<1>6. RecvInv'
  BY DEF ConnectRegister, RecvInv, NoSpuriousExit, HasPacket, connected, sockVars,
       recvVars, history
<1>7. NoSocketLeak'
  BY DEF ConnectRegister, NoSocketLeak, Connecting, sockVars
<1> QED
  BY <1>1, <1>2, <1>3, <1>4, <1>5, <1>6, <1>7

\* The connection is published, and the connect is over.
LEMMA PublishK ==
    ASSUME Guarded, KInv, NEW t \in Threads, ConnectPublish(t)
    PROVE  KInv'
<1> USE DEF KInv
<1>1. TypeInv'
  BY DEF ConnectPublish, TypeInv, FdType, sockVars, recvVars
<1>2. ConnectInv' /\ CallInv'
  BY DEF ConnectPublish, TypeInv, ConnectInv, CallInv, Connecting
<1>3. SocketInv'
  BY DEF ConnectPublish, TypeInv, SocketInv
<1>4. EpollInv'
  BY NoFdNotConn DEF ConnectPublish, TypeInv, ConnectInv, EpollInv, Connecting,
       connected
<1>5. InboxInv'
  BY NoFdNotConn DEF ConnectPublish, TypeInv, ConnectInv, InboxInv, Connecting,
       connected, sockVars, history
<1>6. RecvInv'
  BY DEF ConnectPublish, SocketInv, RecvInv, NoSpuriousExit, HasPacket, connected,
       sockVars, recvVars, history
<1>7. NoSocketLeak'
  <2>1. ~connected /\ NoFd \notin fds \cup epoll
    BY NoFdNotConn, ConnectAssumption
       DEF ConnectPublish, ConnectInv, Connecting, TypeInv
  <2>2. ASSUME Running, NEW c \in fds \cup epoll PROVE c = conn[t]
    <3>1. PICK u \in Threads : Connecting(u) /\ c = conn[u]
      BY <2>1, <2>2 DEF NoSocketLeak, connected
    <3> QED
      BY <3>1 DEF ConnectPublish, ConnectInv, Connecting
  <2> QED
    BY <2>2 DEF ConnectPublish, NoSocketLeak, Running, globalVars,
           sockVars
<1> QED
  BY <1>1, <1>2, <1>3, <1>4, <1>5, <1>6, <1>7

\* A call begins or sends.
LEMMA CallK ==
    ASSUME Guarded, KInv, NEW t \in Threads, CallBegin(t) \/ CallSend(t)
    PROVE  KInv'
<1> USE DEF KInv
<1>1. TypeInv'
  BY NoFdNotConn, ConnectAssumption DEF CallBegin, CallSend, TypeInv, FdType, Conns,
       NoFd, globalVars, sockVars, recvVars, history
<1>2. ConnectInv' /\ CallInv'
  BY DEF CallBegin, CallSend, TypeInv, ConnectInv, CallInv, Connecting, connected,
       globalVars
<1>3. SocketInv'
  BY DEF CallBegin, CallSend, TypeInv, SocketInv
<1>4. EpollInv'
  BY DEF CallBegin, CallSend, TypeInv, EpollInv, globalVars
<1>5. InboxInv'
  BY DEF CallBegin, CallSend, TypeInv, CallInv, InboxInv, connected, globalVars,
       sockVars, history
<1>6. RecvInv'
  BY DEF CallBegin, CallSend, TypeInv, RecvInv, NoSpuriousExit, HasPacket,
       connected, globalVars, sockVars, recvVars, history
<1>7. NoSocketLeak'
  BY DEF CallBegin, CallSend, TypeInv, NoSocketLeak, Connecting, globalVars,
       sockVars
<1> QED
  BY <1>1, <1>2, <1>3, <1>4, <1>5, <1>6, <1>7

\* The server answers the connect packet.
LEMMA ServerAckK ==
    ASSUME Guarded, KInv, NEW t \in Threads, ServerAck(t)
    PROVE  KInv'
<1> USE DEF KInv
<1>1. TypeInv'
  BY NoFdNotConn, ConnectAssumption DEF ServerAck, TypeInv, FdType, Conns, NoFd,
       globalVars, sockVars, recvVars, history
<1>2. ConnectInv' /\ CallInv'
  BY DEF ServerAck, ConnectInv, CallInv, Connecting, connected, globalVars
<1>3. SocketInv'
  BY DEF ServerAck, SocketInv
<1>4. EpollInv'
  BY DEF ServerAck, EpollInv, globalVars
<1>5. InboxInv'
  BY DEF ServerAck, ConnectInv, SocketInv, EpollInv, InboxInv, Connecting,
       connected, globalVars, history
<1>6. RecvInv'
  BY DEF ServerAck, RecvInv, NoSpuriousExit, HasPacket, connected, globalVars,
       recvVars, history
<1>7. NoSocketLeak'
  BY DEF ServerAck, NoSocketLeak, Connecting, globalVars
<1> QED
  BY <1>1, <1>2, <1>3, <1>4, <1>5, <1>6, <1>7

\* The server sends a packet.
LEMMA ServerPacketK ==
    ASSUME Guarded, KInv, NEW c \in Conns, ServerPacket(c)
    PROVE  KInv'
<1> USE DEF KInv
<1>1. TypeInv'
  BY DEF ServerPacket, TypeInv, globalVars, recvVars
<1>2. ConnectInv' /\ CallInv'
  BY DEF ServerPacket, ConnectInv, CallInv, Connecting, connected, globalVars
<1>3. SocketInv'
  BY DEF ServerPacket, SocketInv
<1>4. EpollInv'
  BY DEF ServerPacket, EpollInv, globalVars
<1>5. InboxInv'
  <2>1. fault' \/ c = ipc_conn_fd
    BY DEF ServerPacket, InboxInv
  <2>2. fault => fault'
    BY DEF ServerPacket
  <2>3. /\ inbox' = [inbox EXCEPT ![c] = "packet"] /\ asked' = asked \ {c}
        /\ UNCHANGED <<ipc_conn_fd, epoll, pc, conn>>
    BY DEF ServerPacket, globalVars, sockVars, history
  <2> QED
    BY <2>1, <2>2, <2>3 DEF TypeInv, InboxInv
<1>6. RecvInv'
  BY NoFdNotConn, ConnectAssumption DEF ServerPacket, TypeInv, ConnectInv,
       SocketInv, EpollInv, InboxInv, RecvInv, NoSpuriousExit, HasPacket,
       Connecting, connected, FdType, Running, globalVars, sockVars, recvVars,
       history
<1>7. NoSocketLeak'
  BY DEF ServerPacket, NoSocketLeak, Connecting, globalVars
<1> QED
  BY <1>1, <1>2, <1>3, <1>4, <1>5, <1>6, <1>7

\* The server closes a connection.
LEMMA ServerCloseK ==
    ASSUME Guarded, KInv, NEW c \in Conns, ServerClose(c)
    PROVE  KInv'
<1> USE DEF KInv
<1>1. TypeInv'
  BY DEF ServerClose, TypeInv, globalVars, recvVars
<1>2. ConnectInv' /\ CallInv'
  BY DEF ServerClose, ConnectInv, CallInv, Connecting, connected, globalVars
<1>3. SocketInv'
  BY DEF ServerClose, SocketInv
<1>4. EpollInv'
  BY DEF ServerClose, EpollInv, globalVars
<1>5. InboxInv'
  BY DEF ServerClose, InboxInv, globalVars
<1>6. RecvInv'
  BY DEF ServerClose, RecvInv, NoSpuriousExit, connected, globalVars, recvVars
<1>7. NoSocketLeak'
  BY DEF ServerClose, NoSocketLeak, Connecting, globalVars
<1> QED
  BY <1>1, <1>2, <1>3, <1>4, <1>5, <1>6, <1>7

\* The receive thread is told of a socket.
LEMMA DataReadyK ==
    ASSUME Guarded, KInv, NEW c \in Conns, DataReady(c)
    PROVE  KInv'
<1> USE DEF KInv
<1>1. TypeInv'
  BY DEF DataReady, TypeInv, globalVars, sockVars
<1>2. ConnectInv' /\ CallInv'
  BY DEF DataReady, ConnectInv, CallInv, Connecting, connected, globalVars
<1>3. SocketInv'
  BY DEF DataReady, SocketInv
<1>4. EpollInv'
  BY DEF DataReady, EpollInv, globalVars
<1>5. InboxInv'
  BY DEF DataReady, InboxInv, globalVars, sockVars, history
<1>6. RecvInv'
  BY NoFdNotConn DEF DataReady, TypeInv, EpollInv, InboxInv, RecvInv,
       NoSpuriousExit, HasPacket, connected, globalVars, sockVars, history
<1>7. NoSocketLeak'
  BY DEF DataReady, NoSocketLeak, Connecting, Running, globalVars, sockVars
<1> QED
  BY <1>1, <1>2, <1>3, <1>4, <1>5, <1>6, <1>7

\* The receive thread reads, and fails only after a failure.
LEMMA RecvK ==
    ASSUME Guarded, KInv, RecvPacket \/ RecvFail
    PROVE  KInv'
<1> USE DEF KInv
<1>1. TypeInv'
  BY NoFdNotConn, ConnectAssumption DEF RecvPacket, RecvFail, TypeInv, FdType,
       Conns, NoFd, globalVars, sockVars, recvVars, history
<1>2. ConnectInv' /\ CallInv'
  BY DEF RecvPacket, RecvFail, ConnectInv, CallInv, Connecting, connected,
       globalVars
<1>3. SocketInv'
  BY DEF RecvPacket, RecvFail, SocketInv
<1>4. EpollInv'
  BY DEF RecvPacket, RecvFail, EpollInv, globalVars
<1>5. InboxInv'
  BY DEF RecvPacket, RecvFail, TypeInv, SocketInv, InboxInv, FdType, globalVars,
       history
<1>6. RecvInv'
  BY DEF RecvPacket, RecvFail, RecvInv, NoSpuriousExit, history
<1>7. NoSocketLeak'
  BY DEF RecvPacket, RecvFail, NoSocketLeak, Connecting, Running, globalVars
<1> QED
  BY <1>1, <1>2, <1>3, <1>4, <1>5, <1>6, <1>7

-----------------------------------------------------------------------------

\* Nothing changes.
LEMMA StutterK ==
    ASSUME KInv, UNCHANGED vars
    PROVE  KInv'
  BY DEF vars, KInv, TypeInv, ConnectInv, SocketInv, CallInv, EpollInv, InboxInv,
         RecvInv, NoSpuriousExit, NoSocketLeak, HasPacket, Connecting, connected,
         Running

\* Every step of a thread, of the server and of the receive thread preserves
\* the invariant.
LEMMA NextK == Guarded /\ KInv /\ [Next]_vars => KInv'
<1> SUFFICES ASSUME Guarded, KInv, [Next]_vars PROVE KInv'
  OBVIOUS
<1>1. ASSUME NEW t \in Threads, ConnectStep(t) PROVE KInv'
  BY <1>1, OpenK, FailK, SendK, AckK, RegisterK, PublishK
     DEF ConnectStep, ConnectOpenFail, ConnectSendFail, ConnectAckFail,
         ConnectRegisterFail, ConnectTimeoutsFail
<1>2. ASSUME NEW t \in Threads, ServerAccept(t) \/ ServerRefuse(t) PROVE KInv'
  BY <1>2, SendK, FailK DEF ServerRefuse
<1>3. ASSUME NEW c \in Conns, ServerPacket(c) \/ ServerClose(c) \/ DataReady(c)
      PROVE  KInv'
  BY <1>3, ServerPacketK, ServerCloseK, DataReadyK
<1>4. CASE SdkInit \/ SdkInitFail \/ RecvPacket \/ RecvFail
  BY <1>4, SdkInitK, RecvK
<1>5. CASE Quiescent \/ UNCHANGED vars
  BY <1>5, StutterK DEF Quiescent
<1>6. ASSUME NEW t \in Threads,
             \/ ConnectBegin(t) \/ RustConnectBegin(t) \/ RustConnectRefuse(t)
             \/ CallBegin(t) \/ CallSend(t) \/ ServerAck(t)
      PROVE  KInv'
  BY <1>6, BeginK, RefuseK, CallK, ServerAckK
<1> QED
  BY <1>1, <1>2, <1>3, <1>4, <1>5, <1>6 DEF Next

\* Connects, the connection, the registered socket and the receive thread in
\* client.c always agree: the inductive invariant.
THEOREM ConnectInvariance ==
    ASSUME Guarded
    PROVE  Spec => []KInv
<1>1. KInv /\ [Next]_vars => KInv'
  BY NextK
<1> QED
  BY <1>1, InitK, PTL DEF Spec

\* ipc_recv_mem, which no lock protects, is used by one connect or by the
\* receive thread, and never by both.
THEOREM RecvBufferHasOneUser ==
    ASSUME Guarded
    PROVE  Spec => []RecvBufferExclusive
<1>1. KInv => RecvBufferExclusive
  <2> SUFFICES ASSUME KInv PROVE RecvBufferExclusive
    OBVIOUS
  <2> DEFINE A == {t \in Threads : pc[t] = "ack"}
  <2>1. CASE A = {}
    BY <2>1, FS_EmptySet DEF RecvBufferExclusive
  <2>2. ASSUME NEW t \in A PROVE RecvBufferExclusive
    <3>1. A = {t} /\ Cardinality({t}) = 1
      BY <2>2, FS_Singleton DEF KInv, ConnectInv, Connecting
    <3>2. rpc # "read"
      BY <2>2 DEF KInv, RecvInv, ConnectInv, Connecting
    <3> QED
      BY <3>1, <3>2 DEF RecvBufferExclusive
  <2> QED
    BY <2>1, <2>2
<1> QED
  BY <1>1, ConnectInvariance, PTL

\* ipc_send_mem is used by one connect or by one call at a time, although only
\* calls lock the mutex.
THEOREM SendBufferHasOneUser ==
    ASSUME Guarded
    PROVE  Spec => []SendBufferExclusive
<1>1. KInv => SendBufferExclusive
  BY DEF KInv, ConnectInv, CallInv, Connecting, SendBufferExclusive
<1> QED
  BY <1>1, ConnectInvariance, PTL

\* No error path of connect leaks its socket or leaves it registered.
THEOREM SocketsAreOwned ==
    ASSUME Guarded
    PROVE  Spec => []NoSocketLeak
<1>1. KInv => NoSocketLeak
  BY DEF KInv
<1> QED
  BY <1>1, ConnectInvariance, PTL

\* The receive thread ends the process only after a failure, although it may be
\* told of the socket before ipc_conn_fd is set.
THEOREM ExitHasACause ==
    ASSUME Guarded
    PROVE  Spec => []NoSpuriousExit
<1>1. KInv => NoSpuriousExit
  BY DEF KInv, RecvInv
<1> QED
  BY <1>1, ConnectInvariance, PTL
=============================================================================
