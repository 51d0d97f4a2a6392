---------------------------- MODULE CommandWatchdog ----------------------------
(***************************************************************************)
(* kinova::CommandWatchdog: the staleness watchdog every control mode that  *)
(* takes a stream of commands owns.  arm() and bump() are the publishing    *)
(* thread's, reset() and tick() the real-time thread's; tick() loads the    *)
(* counter first and the timeout after it, so it is two operators here.     *)
(* Time is counted in cycles.                                               *)
(***************************************************************************)
EXTENDS Naturals

CONSTANT MaxStale   \* stale_s_ is not counted further: no timeout is longer

VARIABLES
  count,      \* count_, the commands published so far
  timeout,    \* timeout_s_, 0 for a disarmed watchdog
  last_seen,  \* last_seen_
  stale_s,    \* stale_s_, in cycles
  fresh       \* fresh_

watchdog == <<count, timeout, last_seen, stale_s, fresh>>

WatchdogType ==
  /\ count \in Nat /\ last_seen \in 0..count
  /\ timeout \in 0..MaxStale /\ stale_s \in 0..MaxStale
  /\ fresh \in BOOLEAN /\ (fresh => stale_s = 0)

WatchdogInit(t) == count = 0 /\ timeout = t /\ last_seen = 0 /\ stale_s = 0 /\ fresh = FALSE

Arm(t) ==
  /\ timeout' = t
  /\ UNCHANGED <<count, last_seen, stale_s, fresh>>

Bump ==
  /\ count' = count + 1
  /\ UNCHANGED <<timeout, last_seen, stale_s, fresh>>

\* Adopt the count without treating it as fresh.
Reset ==
  /\ last_seen' = count /\ stale_s' = 0 /\ fresh' = FALSE
  /\ UNCHANGED <<count, timeout>>

\* tick() up to the load of the timeout.
Tick ==
  /\ fresh' = (count # last_seen)
  /\ last_seen' = count
  /\ stale_s' = IF count # last_seen THEN 0
                ELSE IF stale_s < MaxStale THEN stale_s + 1 ELSE MaxStale
  /\ UNCHANGED <<count, timeout>>

\* What tick() returns.
Stale == timeout > 0 /\ stale_s >= timeout
=============================================================================
