--------------------------- MODULE Subscriptions ---------------------------
(***************************************************************************)
(* Who owns a subscription in the C++ and Rust interfaces                  *)
(* (src/cpp/include/gg/ipc/subscription.hpp, src/cpp/src/ipc/              *)
(* subscribe_to_*.cpp, src/rust/src/ipc.rs).  A variable of type           *)
(* Subscription holds a handle or nothing.  The thread that receives runs  *)
(* callbacks; it has the lock of the streams meanwhile, so that closing a  *)
(* subscription on another thread waits for it.  The C functions that      *)
(* subscribe and close are external here (see IpcClient).                  *)
(***************************************************************************)
EXTENDS Integers

CONSTANTS
  CppVars,      \* C++ variables of type Subscription
  RustVars,     \* Rust variables of type Subscription
  MaxHandles,   \* bound: subscriptions that are made
  Nothing       \* no variable

Vars == CppVars \cup RustVars
NoHandle == 0
NoPending == [var |-> Nothing, handle |-> NoHandle]

VARIABLES
  made,       \* handles given out so far: 1..made
  active,     \* handles whose subscription is open
  handle,     \* [Vars -> the handle that a variable holds]
  pending,    \* the variable that a call under way will store its handle in, with
              \* that handle
  locked,     \* the Subscription that the running callback is given
  running,    \* the handle whose callback runs, NoHandle if none does
  given_up,   \* history: handles that the program let go of without closing
  shared      \* history: handles that a callback kept or closed, or the server closed

subVars == <<made, active, handle, pending, locked, running, given_up, shared>>

SubsInit ==
  /\ made = 0
  /\ active = {}
  /\ handle = [v \in Vars |-> NoHandle]
  /\ pending = NoPending
  /\ locked = NoHandle
  /\ running = NoHandle
  /\ given_up = {}
  /\ shared = {}

\* ggipc_close_subscription: closes nothing if the handle is stale.  The caller
\* waits while a callback runs, unless it is the callback.
MayClose(h) == h # NoHandle => running = NoHandle

\* The thread of the application is not in a call, and no callback has the lock.
MayCall == pending = NoPending /\ running = NoHandle

Closed(h) == active \ {h}

holds_subscription(h) == h # NoHandle

-----------------------------------------------------------------------------
\* C++.
\* Client::subscribe_to_*: the C function has succeeded; callbacks run from now
\* on.  If it fails, nothing changes.
CppSubscribe(v) ==
  /\ MayCall
  /\ made < MaxHandles
  /\ made' = made + 1
  /\ active' = active \cup {made + 1}
  /\ pending' = [var |-> v, handle |-> made + 1]
  /\ UNCHANGED <<handle, locked, running, given_up, shared>>

\* Client::subscribe_to_* stores the handle with reset().
CppStore(v) ==
  /\ pending.var = v
  /\ MayClose(handle[v])
  /\ active' = Closed(handle[v])
  /\ handle' = [handle EXCEPT ![v] = pending.handle]
  /\ pending' = NoPending
  /\ UNCHANGED <<made, locked, running, given_up, shared>>

\* Client::subscribe_to_* without a Subscription: open for good.
CppSubscribeForever ==
  /\ MayCall
  /\ made < MaxHandles
  /\ made' = made + 1
  /\ active' = active \cup {made + 1}
  /\ given_up' = given_up \cup {made + 1}
  /\ UNCHANGED <<pending, handle, locked, running, shared>>

MoveConstruct(v, w) ==           \* Subscription v { std::move(w) }
  /\ pending = NoPending
  /\ v # w
  /\ handle[v] = NoHandle
  /\ handle' = [handle EXCEPT ![v] = handle[w], ![w] = NoHandle]
  /\ UNCHANGED <<made, active, pending, locked, running, given_up, shared>>

\* v = std::move(w).  There is no operator==, so != compares what the operator
\* bool of both returns.
MoveAssign(v, w) ==
  /\ pending = NoPending
  /\ IF holds_subscription(handle[v]) # holds_subscription(handle[w])
       THEN /\ MayClose(handle[v])
            /\ active' = Closed(handle[v])
            /\ handle' = [handle EXCEPT ![v] = handle[w], ![w] = NoHandle]
       ELSE UNCHANGED <<active, handle>>
  /\ UNCHANGED <<made, pending, locked, running, given_up, shared>>

Swap(v, w) ==
  /\ pending = NoPending
  /\ handle' = [handle EXCEPT ![v] = handle[w], ![w] = handle[v]]
  /\ UNCHANGED <<made, active, pending, locked, running, given_up, shared>>

\* close(), and the destructor; the variable is empty afterwards.
Close(v) ==
  /\ pending = NoPending
  /\ MayClose(handle[v])
  /\ active' = Closed(handle[v])
  /\ handle' = [handle EXCEPT ![v] = NoHandle]
  /\ UNCHANGED <<made, pending, locked, running, given_up, shared>>

\* v.reset(w.release()).
ResetTo(v, w) ==
  /\ pending = NoPending
  /\ v # w
  /\ MayClose(handle[v])
  /\ active' = Closed(handle[v])
  /\ handle' = [handle EXCEPT ![v] = handle[w], ![w] = NoHandle]
  /\ UNCHANGED <<made, pending, locked, running, given_up, shared>>

Release(v) ==                    \* the caller of release() drops the handle
  /\ pending = NoPending
  /\ given_up' = given_up \cup ({handle[v]} \ {NoHandle})
  /\ handle' = [handle EXCEPT ![v] = NoHandle]
  /\ UNCHANGED <<pending, made, active, locked, running, shared>>

\* A Rust handle never leaves the Rust variables.
OfRust(h) ==
  \E v \in RustVars : handle[v] = h \/ pending = [var |-> v, handle |-> h]

\* A callback gets its own copy of the handle; a Rust closure gets none.
CallbackBegin(h) ==
  /\ running = NoHandle
  /\ h \in active
  /\ running' = h
  /\ locked' = IF OfRust(h) THEN NoHandle ELSE h
  /\ UNCHANGED <<pending, made, active, handle, given_up, shared>>

CallbackClose ==
  /\ running # NoHandle
  /\ active' = Closed(locked)
  /\ shared' = shared \cup ({locked} \ {NoHandle})
  /\ locked' = NoHandle
  /\ UNCHANGED <<pending, made, handle, running, given_up>>

\* The callback moves its argument to a variable that is empty, as MoveAssign.
CallbackKeep(v) ==
  /\ running # NoHandle
  /\ pending.var # v
  /\ holds_subscription(locked)
  /\ ~holds_subscription(handle[v])
  /\ handle' = [handle EXCEPT ![v] = locked]
  /\ shared' = shared \cup {locked}
  /\ locked' = NoHandle
  /\ UNCHANGED <<pending, made, active, running, given_up>>

\* Mutant: the argument is destroyed, not released.
CallbackReturn_Closes ==
  /\ running # NoHandle
  /\ running' = NoHandle
  /\ locked' = NoHandle
  /\ active' = Closed(locked)
  /\ UNCHANGED <<pending, made, handle, given_up, shared>>

CallbackReturn ==                \* locked.release()
  /\ running # NoHandle
  /\ running' = NoHandle
  /\ locked' = NoHandle
  /\ UNCHANGED <<pending, made, active, handle, given_up, shared>>

\* An exception destroys the argument, and with it the subscription.
CallbackThrow ==
  /\ running # NoHandle
  /\ running' = NoHandle
  /\ active' = Closed(locked)
  /\ locked' = NoHandle
  /\ shared' = shared \cup ({locked} \ {NoHandle})
  /\ UNCHANGED <<pending, made, handle, given_up>>

-----------------------------------------------------------------------------
\* Rust.  Callbacks do not get the handle.  Assignment drops the old value after
\* the new one has been made.
RustSubscribe(v) ==
  /\ MayCall
  /\ made < MaxHandles
  /\ made' = made + 1
  /\ active' = active \cup {made + 1}
  /\ pending' = [var |-> v, handle |-> made + 1]
  /\ UNCHANGED <<handle, locked, running, given_up, shared>>

RustStore(v) ==
  /\ pending.var = v
  /\ MayClose(handle[v])
  /\ active' = Closed(handle[v])
  /\ handle' = [handle EXCEPT ![v] = pending.handle]
  /\ pending' = NoPending
  /\ UNCHANGED <<made, locked, running, given_up, shared>>

RustDrop(v) ==
  /\ pending = NoPending
  /\ MayClose(handle[v])
  /\ active' = Closed(handle[v])
  /\ handle' = [handle EXCEPT ![v] = NoHandle]
  /\ UNCHANGED <<made, pending, locked, running, given_up, shared>>

\* The server ends a stream.
ServerCloses(h) ==
  /\ running = NoHandle
  /\ h \in active
  /\ active' = Closed(h)
  /\ shared' = shared \cup {h}
  /\ UNCHANGED <<pending, made, handle, locked, running, given_up>>

SubsNext ==
  \/ \E v \in CppVars :
       CppSubscribe(v) \/ CppStore(v) \/ Close(v) \/ Release(v) \/ CallbackKeep(v)
  \/ \E v, w \in CppVars :
       MoveConstruct(v, w) \/ MoveAssign(v, w) \/ Swap(v, w) \/ ResetTo(v, w)
  \/ CppSubscribeForever
  \/ \E h \in active : CallbackBegin(h) \/ ServerCloses(h)
  \/ CallbackClose \/ CallbackReturn \/ CallbackThrow
  \/ \E v \in RustVars : RustSubscribe(v) \/ RustStore(v) \/ RustDrop(v)

-----------------------------------------------------------------------------
\* Every subscription that is open is held by a variable that can close it, or
\* the program let go of it on purpose; no two variables hold the same handle
\* unless a callback passed its copy on; and what a variable holds is open until
\* the variable, the server, or a copy in a callback closes it: moving,
\* swapping, subscribing and returning from a callback never lose, share or
\* close a subscription.
SubscriptionOwned ==
  /\ \A h \in active \ given_up : h = pending.handle \/ \E v \in Vars : handle[v] = h
  /\ \A v, w \in Vars : v # w /\ handle[v] = handle[w] =>
       handle[v] \in shared \cup {NoHandle}
  /\ \A v \in Vars : handle[v] \in active \cup shared \cup {NoHandle}
=============================================================================
