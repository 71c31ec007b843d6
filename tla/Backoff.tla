------------------------------ MODULE Backoff ------------------------------
(***************************************************************************)
(* gg_backoff (src/src/backoff.c) with gg_sleep_ms (src/src/sleep.c):      *)
(* retries with a delay drawn below a maximum that doubles.  The callers   *)
(* choose base_ms and max_ms freely; only base_ms = 0 is refused.          *)
(***************************************************************************)
EXTENDS Integers

CONSTANTS
  UintMax,      \* UINT32_MAX
  Bases,        \* base_ms
  Maxima,       \* max_ms
  Attempts,     \* max_attempts; 0: no limit
  MaxFailures   \* bound: failures of fn in one call without a limit

ASSUME BackoffAssumption ==
  /\ UintMax \in Nat
  /\ Bases \cup Maxima \cup Attempts \subseteq 0..UintMax

VARIABLES
  backoff,    \* "idle", "try", "sleep", "done"; "trap", "exit": the process ended
  params,     \* base_ms, max_ms, max_attempts
  failed,     \* calls of fn that failed
  window,     \* current_max_ms
  slept,      \* the last delay
  retval      \* what gg_backoff returned

backoffVars == <<backoff, params, failed, window, slept, retval>>

BackoffInit ==
  /\ backoff = "idle"
  /\ params = [base |-> 1, max |-> 1, attempts |-> 0]
  /\ failed = 0
  /\ window = 1
  /\ slept = 0
  /\ retval = "none"

\* A base of zero (and a NULL fn) is refused, after an assertion.
BackoffCall(base, max, attempts) ==
  /\ backoff = "idle"
  /\ params' = [base |-> base, max |-> max, attempts |-> attempts]
  /\ window' = base
  /\ IF base = 0
       THEN backoff' = "done" /\ retval' = "UNSUPPORTED"
       ELSE backoff' = "try" /\ UNCHANGED retval
  /\ UNCHANGED <<failed, slept>>

TrySucceeds ==
  /\ backoff = "try"
  /\ backoff' = "done"
  /\ retval' = "OK"
  /\ UNCHANGED <<params, failed, window, slept>>

TryFails ==
  /\ backoff = "try"
  /\ params.attempts = 0 => failed < MaxFailures
  /\ failed' = failed + 1
  /\ IF params.attempts # 0 /\ failed + 1 = params.attempts
       THEN backoff' = "done" /\ retval' = "FAILURE"
       ELSE backoff' = "sleep" /\ UNCHANGED retval
  /\ UNCHANGED <<params, window, slept>>

NextWindow_NoHalf(w, max) ==                                    \* Mutant.
  IF w <= max THEN (2 * w) % (UintMax + 1) ELSE max

NextWindow(w, max) ==
  IF w <= max \div 2 THEN (2 * w) % (UintMax + 1) ELSE max

\* The delay is rand % window.
Sleep(delay) ==
  /\ backoff = "sleep"
  /\ backoff' = "try"
  /\ slept' = delay
  /\ window' = NextWindow(window, params.max)
  /\ UNCHANGED <<params, failed, retval>>

\* rand % 0 is undefined: some processors trap, on others it is rand.
Modulo(delay) ==
  IF window # 0 THEN delay < window /\ Sleep(delay)
  ELSE \/ Sleep(delay)
       \/ /\ backoff = "sleep"
          /\ backoff' = "trap"
          /\ UNCHANGED <<params, failed, window, slept, retval>>

SleepFails ==     \* backoff_sleep ends the process
  /\ backoff = "sleep" /\ window # 0
  /\ backoff' = "exit"
  /\ UNCHANGED <<params, failed, window, slept, retval>>

BackoffReturn ==  \* to the caller, or the process is started again
  /\ backoff \in {"done", "trap", "exit"}
  /\ backoff' = "idle"
  /\ params' = [base |-> 1, max |-> 1, attempts |-> 0]
  /\ failed' = 0
  /\ window' = 1
  /\ slept' = 0
  /\ retval' = "none"

BackoffNext ==
  \/ \E b \in Bases, m \in Maxima, a \in Attempts : BackoffCall(b, m, a)
  \/ TrySucceeds
  \/ TryFails
  \/ \E delay \in 0..UintMax : Modulo(delay)
  \/ SleepFails
  \/ BackoffReturn

Least(a, b) == IF a <= b THEN a ELSE b

\* What the n-th delay is drawn below.
FullWindow(n) ==
  IF n = 1 THEN params.base ELSE Least(params.max, params.base * 2^(n - 1))

\* The first delay of gg_backoff is drawn below base_ms, whatever max_ms is, and
\* the n-th below base_ms doubled n - 1 times and capped at max_ms: the 32-bit
\* arithmetic never lets that window wrap.  It is empty, and the modulo undefined,
\* only from the second delay on and only if the caller passed max_ms = 0.  fn is
\* called at most max_attempts times, and gg_backoff gives up only after that many
\* calls; it refuses base_ms = 0, and nothing else, without a call.
FullJitter ==
  /\ backoff = "sleep" => window = FullWindow(failed)
  /\ backoff = "try" /\ failed > 0 =>
       slept < FullWindow(failed) \/ (failed > 1 /\ params.max = 0)
  /\ backoff = "trap" => failed > 1 /\ params.max = 0
  /\ params.attempts # 0 => failed <= params.attempts
  /\ retval = "FAILURE" => failed = params.attempts
  /\ retval = "UNSUPPORTED" <=> backoff = "done" /\ params.base = 0
=============================================================================
