---------------------------- MODULE ThrottleGuard ----------------------------
(***************************************************************************)
(* Limiting the requests of one client to one route (throttle.guard.ts): a *)
(* counter in Redis that the first request of a window gives its expiry,   *)
(* with a second command.  The client of RedisService is never null, so    *)
(* that the counter in memory is not used.                                 *)
(***************************************************************************)
EXTENDS Naturals, FiniteSets

CONSTANTS
  Requests,     \* requests, each sent once
  Limit,        \* @Throttle limit
  Window,       \* @Throttle windowMs, in ticks
  MaxTime,      \* bound: ticks in a behaviour
  MaxFailures   \* bound: EXPIRE commands that fail

VARIABLES
  now,          \* the time
  count,        \* the counter, 0 if there is none
  resetAt,      \* when the counter expires, 0 for never
  pc,           \* by request: "new", "expire", "allowed", "denied" or "failed"
  at,           \* history: by request, when it was allowed
  failures      \* history and bound: EXPIRE commands that failed

vars == <<now, count, resetAt, pc, at, failures>>

TypeOK ==
  /\ now \in 1..MaxTime /\ count \in Nat /\ resetAt \in Nat
  /\ pc \in [Requests -> {"new", "expire", "allowed", "denied", "failed"}]
  /\ at \in [Requests -> 0..MaxTime] /\ failures \in 0..MaxFailures

Init ==
  /\ now = 1 /\ count = 0 /\ resetAt = 0
  /\ pc = [r \in Requests |-> "new"] /\ at = [r \in Requests |-> 0] /\ failures = 0

Expired == resetAt # 0 /\ now >= resetAt
Stored == IF Expired THEN 0 ELSE count

(* Mutant: the request after the last is let in. *)
Within_OneMore(n) == n <= Limit + 1
Within(n) == n <= Limit

Answer(r, n) ==
  /\ pc' = [pc EXCEPT ![r] = IF Within(n) THEN "allowed" ELSE "denied"]
  /\ at' = [at EXCEPT ![r] = IF Within(n) THEN now ELSE 0]

(* INCR creates the counter if there is none. *)
Increment(r) ==
  /\ pc[r] = "new"
  /\ count' = Stored + 1
  /\ resetAt' = IF Expired THEN 0 ELSE resetAt
  /\ IF Stored = 0 THEN pc' = [pc EXCEPT ![r] = "expire"] /\ UNCHANGED at
                   ELSE Answer(r, Stored + 1)
  /\ UNCHANGED <<now, failures>>

(* EXPIRE, which does nothing without a counter. *)
Expire(r) ==
  /\ pc[r] = "expire"
  /\ resetAt' = IF Stored = 0 THEN 0 ELSE now + Window
  /\ count' = Stored
  /\ Answer(r, 1)
  /\ UNCHANGED <<now, failures>>

(* The request fails with the command. *)
ExpireFails(r) ==
  /\ pc[r] = "expire" /\ failures < MaxFailures
  /\ pc' = [pc EXCEPT ![r] = "failed"]
  /\ failures' = failures + 1
  /\ UNCHANGED <<now, count, resetAt, at>>

Tick ==
  /\ now < MaxTime
  /\ now' = now + 1
  /\ UNCHANGED <<count, resetAt, pc, at, failures>>

Next == Tick \/ \E r \in Requests : Increment(r) \/ Expire(r) \/ ExpireFails(r)

Spec == Init /\ [][Next]_vars

-----------------------------------------------------------------------------
(* Properties                                                              *)

(* Two windows may meet, but no time as long as a window lets in more than *)
(* two of them; and a client is not kept out for ever: the counter has its *)
(* expiry, or a request is about to give it, unless that command failed.   *)
WindowHolds ==
  /\ \A t \in 0..MaxTime :
       Cardinality({r \in Requests : pc[r] = "allowed" /\ t < at[r] /\ at[r] <= t + Window})
         <= 2 * Limit
  /\ count > 0 /\ resetAt = 0 => failures > 0 \/ \E r \in Requests : pc[r] = "expire"

=============================================================================
