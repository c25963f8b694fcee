----------------------------- MODULE RateLimiter -----------------------------
(***************************************************************************)
(* Limiting the calls to a platform (rate-limiter.service.ts): a sliding   *)
(* window of calls in a sorted set, checked and added to by a script that  *)
(* a real Redis runs as one step and MockRedis (redis.service.ts), which   *)
(* stands in for it where no REDIS_URL is set, as several.                 *)
(***************************************************************************)
EXTENDS Naturals, FiniteSets

CONSTANTS
  Calls,       \* calls, each made once
  Limit,       \* tokensPerInterval
  Interval,    \* interval, in ticks
  MaxTime      \* bound: ticks in a behaviour

VARIABLES
  mock,        \* the client is MockRedis
  now,         \* the time
  members,     \* the sorted set: calls by their scores
  pc,          \* by call: where its check is
  read,        \* by call: Date.now() as it read it, and the count
  at,          \* history: by call, when it was let through
  disturbed    \* history: calls that time or another call overtook

vars == <<mock, now, members, pc, read, at, disturbed>>

TypeOK ==
  /\ mock \in BOOLEAN /\ now \in 1..MaxTime
  /\ members \subseteq [call : Calls, score : 1..MaxTime]
  /\ pc \in [Calls -> {"new", "script", "count", "add", "allowed", "denied"}]
  /\ read \in [Calls -> 0..MaxTime] /\ at \in [Calls -> 0..MaxTime]
  /\ disturbed \subseteq Calls

Init ==
  /\ mock \in BOOLEAN /\ now = 1 /\ members = {}
  /\ pc = [c \in Calls |-> "new"] /\ read = [c \in Calls |-> 0] /\ at = [c \in Calls |-> 0]
  /\ disturbed = {}

Busy == {c \in Calls : pc[c] \in {"script", "count", "add"}}

(* checkRateLimit reads the time. *)
CheckRateLimit(c) ==
  /\ pc[c] = "new"
  /\ pc' = [pc EXCEPT ![c] = "script"]
  /\ read' = [read EXCEPT ![c] = now]
  /\ UNCHANGED <<mock, now, members, at, disturbed>>

(* Mutant: a call at the very start of the window is dropped too early. *)
InWindow_Early(c) == {m \in members : m.score > read[c] - Interval + 1}

(* ZREMRANGEBYSCORE; what is left is counted. *)
InWindow(c) == {m \in members : m.score + Interval > read[c]}

Let(c) ==
  /\ pc' = [pc EXCEPT ![c] = "allowed"]
  /\ at' = [at EXCEPT ![c] = now]
Deny(c) == pc' = [pc EXCEPT ![c] = "denied"] /\ UNCHANGED at

(* The script, by a real Redis. *)
Script(c) ==
  /\ ~mock /\ pc[c] = "script"
  /\ IF Cardinality(InWindow(c)) >= Limit THEN members' = InWindow(c) /\ Deny(c)
     ELSE members' = InWindow(c) \cup {[call |-> c, score |-> read[c]]} /\ Let(c)
  /\ UNCHANGED <<mock, now, read, disturbed>>

(* MockRedis.eval awaits each of its commands; a call that another one     *)
(* precedes between its count and its addition is overtaken.               *)
MockRemove(c) ==
  /\ mock /\ pc[c] = "script"
  /\ members' = InWindow(c)
  /\ pc' = [pc EXCEPT ![c] = "count"]
  /\ UNCHANGED <<mock, now, read, at, disturbed>>

MockCount(c) ==
  /\ pc[c] = "count"
  /\ IF Cardinality(members) >= Limit THEN Deny(c) ELSE pc' = [pc EXCEPT ![c] = "add"] /\ UNCHANGED at
  /\ UNCHANGED <<mock, now, members, read, disturbed>>

MockAdd(c) ==
  /\ pc[c] = "add"
  /\ members' = members \cup {[call |-> c, score |-> read[c]]}
  /\ Let(c)
  /\ disturbed' = disturbed \cup {d \in Calls \ {c} : pc[d] = "add"}
  /\ UNCHANGED <<mock, now, read>>

Tick ==
  /\ now < MaxTime
  /\ now' = now + 1
  /\ disturbed' = disturbed \cup Busy
  /\ UNCHANGED <<mock, members, pc, read, at>>

Next ==
  \/ Tick
  \/ \E c \in Calls : CheckRateLimit(c) \/ Script(c) \/ MockRemove(c) \/ MockCount(c) \/ MockAdd(c)

Spec == Init /\ [][Next]_vars

-----------------------------------------------------------------------------
(* Properties                                                              *)

(* No interval lets through more calls than the limit, but for one more    *)
(* for each call whose check took time, and, with MockRedis, for each that *)
(* was overtaken ("prevent concurrent race conditions").                   *)
LimitHolds ==
  \A t \in 0..MaxTime :
    Cardinality({c \in Calls : pc[c] = "allowed" /\ t < at[c] /\ at[c] <= t + Interval})
      <= Limit + Cardinality(disturbed)

=============================================================================
