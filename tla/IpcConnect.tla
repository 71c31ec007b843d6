----------------------------- MODULE IpcConnect -----------------------------
(***************************************************************************)
(* Start-up and connection of the GG-IPC client: gg_sdk_init, which        *)
(* creates the epoll instance and the receive thread; ggipc_connect, step  *)
(* by step, with its error paths; the use that the receive thread and the  *)
(* calls make of the connection and of the static packet buffers; and the  *)
(* guard that the Rust bindings put in front of connect.                   *)
(*                                                                         *)
(* The stream table is abstracted away (see IpcClient): a call only sends. *)
(***************************************************************************)
EXTENDS Integers, FiniteSets

CONSTANTS
    Threads,   \* application threads
    MaxConns,  \* bound: sockets that are opened
    Guards     \* what may keep a second connect out: see guard

ASSUME ConnectAssumption ==
    /\ MaxConns \in Nat
    /\ Guards \subseteq {"rust", "caller", "none"}

VARIABLES
    guard,        \* the program connects through the guard of the Rust
                  \* bindings, one at a time of its own accord, or as it likes
    inited,       \* gg_sdk_init has run: epoll_fd >= 0
    ipc_conn_fd,  \* the connection, or NoFd
    CONNECTED,    \* the Rust guard
    pc,           \* thread -> where it is in connect, or in a send
    conn,         \* thread -> the socket its connect has opened, or NoFd
    opened,       \* number of sockets opened so far
    fds,          \* sockets that are open
    epoll,        \* sockets that are registered with epoll
    inbox,        \* socket -> what the receiver finds there
    asked,        \* sockets on which a request awaits its answer
    rpc,          \* where the receive thread is
    rfd,          \* the socket it reads from
    fault,        \* history: the server, or a system call, has failed
    refused       \* history: why the Rust guard refused a connect

vars == <<guard, inited, ipc_conn_fd, CONNECTED, pc, conn, opened, fds, epoll, inbox,
          asked, rpc, rfd, fault, refused>>
sockVars   == <<opened, fds, inbox, asked>>
recvVars   == <<rpc, rfd>>
globalVars == <<guard, inited, ipc_conn_fd, CONNECTED, epoll>>
history    == <<fault, refused>>

NoFd  == -1
Conns == 1..MaxConns

\* A connect is between its start and its return.
Connecting(t) ==
    pc[t] \in {"open", "connect", "timeouts", "send", "ack", "register", "publish"}

\* connect(2) has returned and ggipc_connect has not.
Accepted(t) == Connecting(t) /\ pc[t] \notin {"open", "connect"}

connected == ipc_conn_fd # NoFd
Running   == rpc # "exited"

Init ==
    /\ guard \in Guards
    /\ inited = FALSE
    /\ ipc_conn_fd = NoFd
    /\ CONNECTED = FALSE
    /\ pc = [t \in Threads |-> "idle"]
    /\ conn = [t \in Threads |-> NoFd]
    /\ opened = 0
    /\ fds = {}
    /\ epoll = {}
    /\ inbox = [c \in Conns |-> "none"]
    /\ asked = {}
    /\ rpc = "none"
    /\ rfd = NoFd
    /\ fault = FALSE
    /\ refused = "no"

-----------------------------------------------------------------------------
(* gg_sdk_init *)

\* The init function of the client creates the epoll instance and the receive
\* thread.  The list of init functions is emptied: a second run does nothing.
SdkInit ==
    /\ Running /\ ~inited
    /\ inited' = TRUE
    /\ rpc' = "poll"
    /\ UNCHANGED <<guard, ipc_conn_fd, CONNECTED, epoll, pc, conn, sockVars, rfd, history>>

\* An init function fails: the process ends.
SdkInitFail ==
    /\ Running /\ ~inited
    /\ rpc' = "exited"
    /\ fault' = TRUE
    /\ UNCHANGED <<globalVars, pc, conn, sockVars, rfd, refused>>

-----------------------------------------------------------------------------
(* ggipc_connect *)

\* The caller sees to it that there is no connection, which debug builds
\* assert.  Nothing else in the C code keeps a second connect out.
Begin(t) ==
    /\ Running /\ pc[t] = "idle" /\ ~connected
    /\ pc' = [pc EXCEPT ![t] = "open"]
    /\ UNCHANGED <<guard, inited, ipc_conn_fd, epoll, conn, sockVars, recvVars, history>>

ConnectBegin(t) ==
    /\ guard = "caller" => \A u \in Threads : ~Connecting(u)
    /\ guard # "rust"
    /\ Begin(t)
    /\ UNCHANGED CONNECTED

\* Mutant: the guard looks at the connection and not at its own flag.
RustConnectBegin_Unconnected(t) ==
    /\ guard = "rust" /\ inited /\ ~connected
    /\ CONNECTED' = TRUE
    /\ Begin(t)

\* The Rust guard swaps CONNECTED to true and goes on if it was false.  It does
\* not reset it when the attempt fails.  Only Sdk::init yields an Sdk.
RustConnectBegin(t) ==
    /\ guard = "rust" /\ inited /\ ~CONNECTED
    /\ CONNECTED' = TRUE
    /\ Begin(t)

\* The Rust guard finds CONNECTED true, and refuses.
RustConnectRefuse(t) ==
    /\ Running /\ pc[t] = "idle"
    /\ guard = "rust" /\ CONNECTED
    /\ refused' = IF connected THEN "connected"
                  ELSE IF \E u \in Threads : Connecting(u) THEN "connecting"
                  ELSE "neither"
    /\ UNCHANGED <<globalVars, pc, conn, sockVars, recvVars, fault>>

\* gg_connect creates the socket and calls connect(2), which has no timeout yet.
ConnectOpen(t) ==
    /\ Running /\ pc[t] = "open" /\ opened < MaxConns
    /\ opened' = opened + 1
    /\ fds' = fds \cup {opened + 1}
    /\ conn' = [conn EXCEPT ![t] = opened + 1]
    /\ pc' = [pc EXCEPT ![t] = "connect"]
    /\ UNCHANGED <<globalVars, inbox, asked, recvVars, history>>

\* Mutant: the socket of a connect that failed is not closed.
Fail_NoClose(t) ==
    /\ pc' = [pc EXCEPT ![t] = "idle"]
    /\ conn' = [conn EXCEPT ![t] = NoFd]
    /\ UNCHANGED <<globalVars, opened, fds, inbox, asked, recvVars, history>>

\* An error return: the cleanup closes the socket, if there is one.
Fail(t) ==
    /\ pc' = [pc EXCEPT ![t] = "idle"]
    /\ conn' = [conn EXCEPT ![t] = NoFd]
    /\ fds' = fds \ {conn[t]}
    /\ epoll' = epoll \ {conn[t]}
    /\ UNCHANGED <<guard, inited, ipc_conn_fd, CONNECTED, opened, inbox, asked,
                   recvVars, history>>

\* A missing environment variable, a path that is too long, or no socket.
ConnectOpenFail(t) ==
    /\ Running /\ pc[t] = "open"
    /\ Fail(t)

\* gg_connect sets the receive and send timeouts, and returns the socket.
ConnectTimeouts(t) ==
    /\ Running /\ pc[t] = "timeouts"
    /\ pc' = [pc EXCEPT ![t] = "send"]
    /\ UNCHANGED <<globalVars, conn, sockVars, recvVars, history>>

ConnectTimeoutsFail(t) ==
    /\ Running /\ pc[t] = "timeouts"
    /\ Fail(t)

\* Mutant: the socket is registered before the ack has been read.
ConnectSend_Registered(t) ==
    /\ Running /\ pc[t] = "send"
    /\ pc' = [pc EXCEPT ![t] = "ack"]
    /\ epoll' = epoll \cup {conn[t]}
    /\ UNCHANGED <<guard, inited, ipc_conn_fd, CONNECTED, conn, sockVars, recvVars, history>>

\* The connect packet has been built in ipc_send_mem and written.
ConnectSend(t) ==
    /\ Running /\ pc[t] = "send"
    /\ pc' = [pc EXCEPT ![t] = "ack"]
    /\ UNCHANGED <<globalVars, conn, sockVars, recvVars, history>>

ConnectSendFail(t) ==
    /\ Running /\ pc[t] = "send"
    /\ Fail(t)

\* The ack has been read into ipc_recv_mem, and its headers are accepted.
ConnectAck(t) ==
    /\ Running /\ pc[t] = "ack"
    /\ inbox[conn[t]] = "ack"
    /\ inbox' = [inbox EXCEPT ![conn[t]] = "none"]
    /\ pc' = [pc EXCEPT ![t] = "register"]
    /\ UNCHANGED <<globalVars, conn, opened, fds, asked, recvVars, history>>

\* Mutant: there is no receive timeout on the socket.
ConnectAckFail_NoTimeout(t) ==
    /\ Running /\ pc[t] = "ack"
    /\ inbox[conn[t]] # "none"
    /\ Fail(t)

\* The answer is not an accepting ack, the server has closed the connection, or
\* the receive timeout of the socket has passed.
ConnectAckFail(t) ==
    /\ Running /\ pc[t] = "ack"
    /\ Fail(t)

\* The socket is added to epoll.  From here on the receive thread may be told
\* that it is readable.
ConnectRegister(t) ==
    /\ Running /\ pc[t] = "register" /\ inited
    /\ epoll' = epoll \cup {conn[t]}
    /\ pc' = [pc EXCEPT ![t] = "publish"]
    /\ UNCHANGED <<guard, inited, ipc_conn_fd, CONNECTED, conn, sockVars, recvVars, history>>

\* epoll_ctl fails, as it does when gg_sdk_init has not run.
ConnectRegisterFail(t) ==
    /\ Running /\ pc[t] = "register"
    /\ Fail(t)

\* The connection becomes visible to calls and to the receive thread.
ConnectPublish(t) ==
    /\ Running /\ pc[t] = "publish"
    /\ ipc_conn_fd' = conn[t]
    /\ conn' = [conn EXCEPT ![t] = NoFd]
    /\ pc' = [pc EXCEPT ![t] = "idle"]
    /\ UNCHANGED <<guard, inited, CONNECTED, epoll, sockVars, recvVars, history>>

-----------------------------------------------------------------------------
(* Calls, which build their packet in ipc_send_mem with the mutex held. *)

CallBegin(t) ==
    /\ Running /\ pc[t] = "idle" /\ connected
    /\ \A u \in Threads : pc[u] # "call"
    /\ pc' = [pc EXCEPT ![t] = "call"]
    /\ UNCHANGED <<globalVars, conn, sockVars, recvVars, history>>

CallSend(t) ==
    /\ Running /\ pc[t] = "call"
    /\ pc' = [pc EXCEPT ![t] = "idle"]
    /\ asked' = asked \cup {ipc_conn_fd}
    /\ UNCHANGED <<globalVars, conn, opened, fds, inbox, recvVars, history>>

-----------------------------------------------------------------------------
(* The server (not part of this repository). *)

\* Its backlog has room: connect(2) succeeds.  It blocks while the backlog is full.
ServerAccept(t) ==
    /\ Running /\ pc[t] = "connect"
    /\ pc' = [pc EXCEPT ![t] = "timeouts"]
    /\ UNCHANGED <<globalVars, conn, sockVars, recvVars, history>>

\* It does not listen, or stops listening: connect(2) fails.
ServerRefuse(t) ==
    /\ Running /\ pc[t] = "connect"
    /\ Fail(t)

\* It answers the connect packet that thread t has sent.
ServerAck(t) ==
    /\ Running /\ pc[t] = "ack" /\ inbox[conn[t]] = "none"
    /\ inbox' = [inbox EXCEPT ![conn[t]] = "ack"]
    /\ UNCHANGED <<globalVars, pc, conn, opened, fds, asked, recvVars, history>>

\* It sends a packet on a connection that it has accepted.  One that nobody
\* asked for is against the protocol.
ServerPacket(c) ==
    /\ Running /\ c \in epoll /\ inbox[c] = "none"
    /\ inbox' = [inbox EXCEPT ![c] = "packet"]
    /\ asked' = asked \ {c}
    /\ fault' = (fault \/ c \notin asked)
    /\ UNCHANGED <<globalVars, pc, conn, opened, fds, recvVars, refused>>

\* It closes a connection, or sends what is not a packet.
ServerClose(c) ==
    /\ Running /\ c \in fds /\ inbox[c] # "bad"
    /\ \A t \in Threads : pc[t] = "connect" => conn[t] # c
    /\ inbox' = [inbox EXCEPT ![c] = "bad"]
    /\ fault' = TRUE
    /\ UNCHANGED <<globalVars, pc, conn, opened, fds, asked, recvVars, refused>>

-----------------------------------------------------------------------------
(* The receive thread. *)

\* epoll reports socket c; data_ready_callback ignores which one it was and
\* reads from ipc_conn_fd, into ipc_recv_mem.
DataReady(c) ==
    /\ rpc = "poll"
    /\ c \in epoll /\ inbox[c] # "none"
    /\ rpc' = "read"
    /\ rfd' = ipc_conn_fd
    /\ UNCHANGED <<globalVars, pc, conn, sockVars, history>>

HasPacket(c) == c # NoFd /\ inbox[c] = "packet"

\* The packet is read and dispatched.
RecvPacket ==
    /\ rpc = "read" /\ HasPacket(rfd)
    /\ inbox' = [inbox EXCEPT ![rfd] = "none"]
    /\ rpc' = "poll"
    /\ rfd' = NoFd
    /\ UNCHANGED <<globalVars, pc, conn, opened, fds, asked, history>>

\* The read fails: there is no socket, the connection has ended, or nothing
\* comes before the receive timeout.  The socket is closed and the process
\* ends.
RecvFail ==
    /\ rpc = "read"
    /\ ~HasPacket(rfd)
    /\ fds' = fds \ {rfd}
    /\ rpc' = "exited"
    /\ UNCHANGED <<globalVars, pc, conn, opened, inbox, asked, rfd, history>>

-----------------------------------------------------------------------------

Quiescent ==
    /\ rpc = "exited" \/ \A t \in Threads : ~Connecting(t) /\ pc[t] # "call"
    /\ UNCHANGED vars

ConnectStep(t) ==
    \/ ConnectOpen(t) \/ ConnectOpenFail(t)
    \/ ConnectTimeouts(t) \/ ConnectTimeoutsFail(t)
    \/ ConnectSend(t) \/ ConnectSendFail(t)
    \/ ConnectAck(t) \/ ConnectAckFail(t)
    \/ ConnectRegister(t) \/ ConnectRegisterFail(t)
    \/ ConnectPublish(t)

Next ==
    \/ SdkInit
    \/ SdkInitFail
    \/ \E t \in Threads :
         \/ ConnectBegin(t)
         \/ RustConnectBegin(t)
         \/ RustConnectRefuse(t)
         \/ ConnectStep(t)
         \/ CallBegin(t)
         \/ CallSend(t)
         \/ ServerAccept(t) \/ ServerRefuse(t) \/ ServerAck(t)
    \/ \E c \in Conns : ServerPacket(c) \/ ServerClose(c) \/ DataReady(c)
    \/ RecvPacket
    \/ RecvFail
    \/ Quiescent

Spec == Init /\ [][Next]_vars

\* A thread that is connecting is scheduled; the timeouts of the socket end a send
\* and a wait for the ack.  Nothing is assumed of the server, so connect(2), which
\* ServerAccept or ServerRefuse ends, may block forever.
FairSpec == Spec /\ \A t \in Threads : WF_vars(ConnectStep(t))

-----------------------------------------------------------------------------
(* Properties. *)

\* ipc_recv_mem is used by one connect or by the receive thread, never by two
\* at a time (client.c: "Used while connecting or by receiving thread which
\* are mutually exclusive"), although it is not protected by a lock.
RecvBufferExclusive ==
    Cardinality({t \in Threads : pc[t] = "ack"}) + (IF rpc = "read" THEN 1 ELSE 0) <= 1

\* ipc_send_mem is used by one connect or by one call at a time, although only
\* calls lock the mutex (client.c: "After connected, requires holding
\* stream_state_mtx").
SendBufferExclusive ==
    \A t, u \in Threads :
        (pc[t] \in {"send", "call"} /\ pc[u] \in {"send", "call"}) => t = u

\* Every socket that is open or registered is the connection, or is owned by a
\* connect that has not returned: no error path leaks one.
NoSocketLeak ==
    Running => fds \cup epoll \subseteq
                  {ipc_conn_fd} \cup {conn[t] : t \in {u \in Threads : Connecting(u)}}

\* The receive thread ends the process only after a failure of the server or of
\* the system, although the socket is registered before it is published.
NoSpuriousExit == rpc = "exited" => fault

\* The Rust guard refuses a connect only when connected or connecting (ipc.rs:
\* "Returns error if connected or connecting, or if connection fails").
RefusedOnlyWhenBusy == refused # "neither"

\* Once connect(2) has returned, ggipc_connect returns, whatever the server does:
\* no send and no wait for the ack blocks forever.
ConnectReturns == \A t \in Threads : Accepted(t) ~> ~Connecting(t) \/ ~Running
=============================================================================
