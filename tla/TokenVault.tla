----------------------------- MODULE TokenVault -----------------------------
(***************************************************************************)
(* The access token of one connected account (token-vault.service.ts):     *)
(* callers that find it expired refresh it at the platform behind a lock   *)
(* in Redis, or wait for the caller that does; meanwhile the user may      *)
(* disconnect the account, link it again, or deny a new authorization.     *)
(*                                                                         *)
(* Time passes in units of five seconds: the three durations of the code   *)
(* are whole numbers of them. Callers may run in different processes.      *)
(***************************************************************************)
EXTENDS Naturals, FiniteSets

CONSTANTS
  Callers,          \* concurrent calls of requireValidAccessToken
  LockTTL,          \* REFRESH_LOCK_TTL_SECONDS
  MaxWait,          \* REFRESH_LOCK_MAX_WAIT_MS
  CallTimeout,      \* OAUTH_HTTP_TIMEOUT_MS
  Rotating,         \* the platform spends a refresh token and returns another
  MaxTokens,        \* bound: tokens issued
  Faults,           \* the kinds of fault and of user intervention considered
  MaxDisturbances   \* bound: how many of them a behaviour has

ASSUME DurationsAssumption ==
  LockTTL \in Nat \ {0} /\ MaxWait \in Nat \ {0} /\ CallTimeout \in Nat \ {0}
ASSUME VaultBoundsAssumption ==
  Rotating \in BOOLEAN /\ MaxTokens \in Nat \ {0} /\ MaxDisturbances \in Nat
ASSUME VaultFaultsAssumption ==
  Faults \subseteq {"refuse", "answer", "update", "mark", "expiry", "redis",
                    "crash", "disconnect", "link", "deny"}

VARIABLES
  row,            \* the ConnectedAccount: status, tokens, expiresAt
  expired,        \* the expiry dates that have passed
  issued,         \* the platform's tokens are numbered 1..issued
  accepted,       \* refresh tokens the platform accepts
  lock,           \* remaining life of token-refresh:<id>; 0 when it is free
  caller,         \* the calls in progress
  torn,           \* history: a call that may have spent the stored refresh
                  \* token ended without a word, and no token came since
  stale,          \* history: calls that read a token another call was using,
                  \* or that another call has used since
  cause,          \* history: what has given reason to ask for reauthorization
  disturbances    \* bound: disturbances so far

vars == <<row, expired, issued, accepted, lock, caller, torn, stale, cause, disturbances>>
history == <<torn, stale, cause>>

(* Tokens and dates are numbers, 0 for the cleared token and the null date. *)
(* A date has the number of the token that came with it.                   *)
Credentials == [access : Nat, refresh : Nat, expiry : Nat]
AccountStatuses == {"CONNECTED", "REAUTHORIZATION_REQUIRED", "DISCONNECTED"}
Account == [status : AccountStatuses, cred : Credentials]

(* A call: the account as its caller had read it, the credentials the      *)
(* platform answered with, and the token it returns (0: it throws).        *)
Call == [pc : {"idle", "start", "lock", "call", "persist", "fail", "release", "wait", "done"},
         snap : Account, new : Credentials, token : Nat, owner : BOOLEAN, timer : Nat]

Cleared == [access |-> 0, refresh |-> 0, expiry |-> 0]
Fresh(n) == [access |-> n, refresh |-> n, expiry |-> n]
Idle == [pc |-> "idle", snap |-> [status |-> "DISCONNECTED", cred |-> Cleared],
         new |-> Cleared, token |-> 0, owner |-> FALSE, timer |-> 0]

IsExpired(cred) == cred.expiry \in expired

TypeOK ==
  /\ row \in Account
  /\ expired \subseteq 1..MaxTokens
  /\ issued \in 0..MaxTokens
  /\ accepted \subseteq 1..MaxTokens
  /\ lock \in 0..LockTTL
  /\ caller \in [Callers -> Call]
  /\ torn \in BOOLEAN
  /\ stale \subseteq Callers
  /\ cause \subseteq {"trouble", "race"}
  /\ disturbances \in 0..MaxDisturbances

(* A linked account, its access token expired or not. *)
Init ==
  /\ row = [status |-> "CONNECTED", cred |-> Fresh(1)]
  /\ expired \in {{}, {1}}
  /\ issued = 1
  /\ accepted = {1}
  /\ lock = 0
  /\ caller = [c \in Callers |-> Idle]
  /\ torn = FALSE
  /\ stale = {}
  /\ cause = {}
  /\ disturbances = 0

Disturb(kind) == /\ kind \in Faults
                 /\ disturbances < MaxDisturbances
                 /\ disturbances' = disturbances + 1
Undisturbed == UNCHANGED disturbances

-----------------------------------------------------------------------------
(* requireValidAccessToken                                                 *)

CallerOnly == UNCHANGED <<row, expired, issued, accepted, lock, history>>

Goto(c, pc) == caller' = [caller EXCEPT ![c].pc = pc]
Return(c, token) ==
  caller' = [caller EXCEPT ![c] = [Idle EXCEPT !.pc = "done", !.token = token,
                                               !.snap = caller[c].snap]]
Throw(c) == Return(c, 0)

(* No call holds a token it has not stored, or a failure it has not told. *)
Settled == \A c \in Callers : caller[c].pc \notin {"persist", "fail"}

(* The caller reads the account, some time before it needs the token. *)
ReadAccount(c) ==
  /\ caller[c].pc = "idle"
  /\ caller' = [caller EXCEPT ![c] = [Idle EXCEPT !.pc = "start", !.snap = row]]
  /\ stale' = IF Settled /\ ~torn THEN stale \ {c} ELSE stale \cup {c}
  /\ UNCHANGED <<row, expired, issued, accepted, lock, torn, cause>> /\ Undisturbed

(* assertUsable, and the token itself when it has not expired. *)
Start(c) ==
  /\ caller[c].pc = "start"
  /\ \/ caller[c].snap.status # "CONNECTED" /\ Throw(c)
     \/ /\ caller[c].snap.status = "CONNECTED"
        /\ IF IsExpired(caller[c].snap.cred) THEN Goto(c, "lock")
           ELSE Return(c, caller[c].snap.cred.access)
  /\ CallerOnly /\ Undisturbed

(* SET key 1 EX ttl NX. *)
AcquireLock(c) ==
  /\ caller[c].pc = "lock" /\ lock = 0
  /\ lock' = LockTTL
  /\ caller' = [caller EXCEPT ![c].pc = "call", ![c].owner = TRUE, ![c].timer = CallTimeout]
  /\ UNCHANGED <<row, expired, issued, accepted, history>> /\ Undisturbed

LockTaken(c) ==
  /\ caller[c].pc = "lock" /\ lock # 0
  /\ caller' = [caller EXCEPT ![c].pc = "wait", ![c].timer = MaxWait]
  /\ CallerOnly /\ Undisturbed

RedisFails(c) ==
  /\ caller[c].pc \in {"lock", "release"}
  /\ Throw(c)
  /\ CallerOnly /\ Disturb("redis")

-----------------------------------------------------------------------------
(* waitForRefreshedToken                                                   *)

(* A mutant: whatever date the stored token has. *)
Answered_AnyDate(c) == row.status # "REAUTHORIZATION_REQUIRED" /\ row.cred.access # 0

(* A poll finds a token to hand out: it has not expired, or its date is    *)
(* another than the one that had expired.                                  *)
Answered(c) ==
  /\ row.status # "REAUTHORIZATION_REQUIRED" /\ row.cred.access # 0
  /\ \/ ~IsExpired(row.cred)
     \/ row.cred.expiry # 0 /\ row.cred.expiry # caller[c].snap.cred.expiry

Poll(c) ==
  /\ caller[c].pc = "wait" /\ Answered(c)
  /\ Return(c, row.cred.access)
  /\ CallerOnly /\ Undisturbed

(* A poll finds that reauthorization is required, or no token to decrypt. *)
PollThrows(c) ==
  /\ caller[c].pc = "wait"
  /\ row.status = "REAUTHORIZATION_REQUIRED" \/ row.cred.access = 0
  /\ Throw(c)
  /\ CallerOnly /\ Undisturbed

(* Mutants: the call keeps waiting; the call reports a failed refresh. *)
TakeOver_Waits(c) ==
  /\ caller[c].pc = "wait" /\ caller[c].timer = 0
  /\ caller' = [caller EXCEPT ![c].timer = MaxWait]
  /\ CallerOnly /\ Undisturbed
TakeOver_Fails(c) ==
  /\ caller[c].pc = "wait" /\ caller[c].timer = 0
  /\ Goto(c, "fail")
  /\ CallerOnly /\ Undisturbed

(* The wait timed out: refresh, without the lock. *)
TakeOver(c) ==
  /\ caller[c].pc = "wait" /\ caller[c].timer = 0
  /\ caller' = [caller EXCEPT ![c].pc = "call", ![c].timer = CallTimeout]
  /\ CallerOnly /\ Undisturbed

-----------------------------------------------------------------------------
(* refreshAndPersist                                                       *)

(* The platform accepts the refresh token of the snapshot. The answer may  *)
(* come without a new expiry date, which then stays what it was.           *)
Refresh(c, expiry) ==
  LET old == caller[c].snap.cred
      n == issued + 1
  IN /\ caller[c].pc = "call" /\ old.refresh \in accepted
     /\ issued < MaxTokens /\ issued' = n
     /\ accepted' = IF Rotating THEN (accepted \ {old.refresh}) \cup {n} ELSE accepted
     /\ caller' = [caller EXCEPT ![c].pc = "persist",
                     ![c].new = [access |-> n, expiry |-> expiry,
                                 refresh |-> IF Rotating THEN n ELSE old.refresh]]
     /\ stale' = stale \cup {d \in Callers \ {c} : caller[d].pc \in {"start", "lock", "wait", "call"}}
     /\ UNCHANGED <<row, expired, lock, torn, cause>>

Refreshed(c) == Refresh(c, issued + 1) /\ Undisturbed
RefreshedUndated(c) == Refresh(c, caller[c].snap.cred.expiry) /\ Disturb("expiry")

(* The refresh token was spent before. *)
RefreshRejected(c) ==
  /\ caller[c].pc = "call" /\ caller[c].snap.cred.refresh \notin accepted
  /\ Goto(c, "fail")
  /\ cause' = IF c \in stale THEN cause \cup {"race"} ELSE cause
  /\ UNCHANGED <<row, expired, issued, accepted, lock, torn, stale>> /\ Undisturbed

Trouble == cause' = cause \cup {"trouble"} /\ UNCHANGED <<torn, stale>>

(* The platform refuses, or cannot be reached. *)
RefreshRefused(c) ==
  /\ caller[c].pc = "call"
  /\ Goto(c, "fail") /\ Trouble
  /\ UNCHANGED <<row, expired, issued, accepted, lock>> /\ Disturb("refuse")

(* The platform rotates the refresh token and its answer is lost. *)
RefreshAnswerLost(c) ==
  /\ caller[c].pc = "call" /\ caller[c].snap.cred.refresh \in accepted
  /\ accepted' = IF Rotating THEN accepted \ {caller[c].snap.cred.refresh} ELSE accepted
  /\ Goto(c, "fail") /\ Trouble
  /\ UNCHANGED <<row, expired, issued, lock>> /\ Disturb("answer")

(* No answer within the timeout of the call. *)
TimedOut(c) ==
  /\ caller[c].pc = "call" /\ caller[c].timer = 0
  /\ Goto(c, "fail") /\ Trouble
  /\ UNCHANGED <<row, expired, issued, accepted, lock>> /\ Undisturbed

(* The outcome of a refresh; the call that holds the lock releases it. *)
Finish(c, token) ==
  caller' = [caller EXCEPT ![c].pc = IF caller[c].owner THEN "release" ELSE "done",
                           ![c].token = token]

(* A mutant: the new refresh token is not stored. *)
Persist_OldRefresh(c) ==
  /\ caller[c].pc = "persist"
  /\ row' = [status |-> "CONNECTED",
             cred |-> [caller[c].new EXCEPT !.refresh = caller[c].snap.cred.refresh]]
  /\ Finish(c, caller[c].new.access) /\ torn' = FALSE
  /\ UNCHANGED <<expired, issued, accepted, lock, stale, cause>> /\ Undisturbed

(* Whatever the account has become, it is CONNECTED with the new tokens. *)
Persist(c) ==
  /\ caller[c].pc = "persist"
  /\ row' = [status |-> "CONNECTED", cred |-> caller[c].new]
  /\ Finish(c, caller[c].new.access) /\ torn' = FALSE
  /\ UNCHANGED <<expired, issued, accepted, lock, stale, cause>> /\ Undisturbed

PersistFails(c) ==
  /\ caller[c].pc = "persist"
  /\ Goto(c, "fail") /\ Trouble
  /\ UNCHANGED <<row, expired, issued, accepted, lock>> /\ Disturb("update")

(* Whatever the account has become, it needs reauthorization. *)
MarkRefreshFailed(c) ==
  /\ caller[c].pc = "fail"
  /\ row' = [row EXCEPT !.status = "REAUTHORIZATION_REQUIRED"]
  /\ Finish(c, 0)
  /\ UNCHANGED <<expired, issued, accepted, lock, history>> /\ Undisturbed

MarkFails(c) ==
  /\ caller[c].pc = "fail"
  /\ Finish(c, 0) /\ torn' = TRUE
  /\ UNCHANGED <<row, expired, issued, accepted, lock, stale, cause>> /\ Disturb("mark")

(* DEL key, whoever set it. *)
ReleaseLock(c) ==
  /\ caller[c].pc = "release"
  /\ lock' = 0
  /\ Goto(c, "done")
  /\ UNCHANGED <<row, expired, issued, accepted, history>> /\ Undisturbed

(* The caller has its token, or its error. *)
Done(c) ==
  /\ caller[c].pc = "done"
  /\ caller' = [caller EXCEPT ![c] = Idle]
  /\ CallerOnly /\ Undisturbed


-----------------------------------------------------------------------------
(* The world around the calls                                              *)

(* The process of a call stops; the lock it may hold stays. *)
Crash(c) ==
  /\ caller[c].pc \notin {"idle", "done"}
  /\ caller' = [caller EXCEPT ![c] = Idle]
  /\ torn' = (torn \/ caller[c].pc \in {"persist", "fail"})
  /\ UNCHANGED <<row, expired, issued, accepted, lock, stale, cause>> /\ Disturb("crash")

(* AccountsService.disconnect *)
Disconnect ==
  /\ row' = [status |-> "DISCONNECTED", cred |-> Cleared]
  /\ UNCHANGED <<expired, issued, accepted, lock, caller, history>>
  /\ Disturb("disconnect")

(* AccountsService.completeLinking: a grant of its own, with new tokens. *)
Link ==
  /\ issued < MaxTokens /\ issued' = issued + 1
  /\ row' = [status |-> "CONNECTED", cred |-> Fresh(issued + 1)]
  /\ accepted' = accepted \cup {issued + 1} /\ torn' = FALSE
  /\ UNCHANGED <<expired, lock, caller, stale, cause>>
  /\ Disturb("link")

(* AccountsService.handleDeniedFlow: the user denied a new authorization. *)
DenyReauthorization ==
  /\ row' = [row EXCEPT !.status = "REAUTHORIZATION_REQUIRED"]
  /\ Trouble
  /\ UNCHANGED <<expired, issued, accepted, lock, caller>>
  /\ Disturb("deny")

(* The date of a token passes. *)
Expire(n) ==
  /\ n \in 1..issued /\ n \notin expired
  /\ expired' = expired \cup {n}
  /\ UNCHANGED <<row, issued, accepted, lock, caller, history>> /\ Undisturbed

Countdown(n) == IF n > 0 THEN n - 1 ELSE 0
Timed(c) == caller[c].pc \in {"wait", "call"}

(* Five seconds pass. A call to the platform does not outlive its timeout. *)
Tick ==
  /\ \A c \in Callers : ~(caller[c].pc = "call" /\ caller[c].timer = 0)
  /\ lock > 0 \/ \E c \in Callers : Timed(c) /\ caller[c].timer > 0
  /\ lock' = Countdown(lock)
  /\ caller' = [c \in Callers |-> IF Timed(c)
                                  THEN [caller[c] EXCEPT !.timer = Countdown(caller[c].timer)]
                                  ELSE caller[c]]
  /\ UNCHANGED <<row, expired, issued, accepted, history>> /\ Undisturbed

(* The steps a call takes by itself, and those that something goes wrong in. *)
CallStep(c) ==
  \/ Start(c) \/ AcquireLock(c) \/ LockTaken(c)
  \/ Poll(c) \/ PollThrows(c) \/ TakeOver(c)
  \/ Refreshed(c) \/ RefreshRejected(c) \/ TimedOut(c)
  \/ Persist(c) \/ MarkRefreshFailed(c) \/ ReleaseLock(c)
CallFault(c) ==
  \/ RedisFails(c) \/ RefreshedUndated(c) \/ RefreshRefused(c)
  \/ RefreshAnswerLost(c) \/ PersistFails(c) \/ MarkFails(c) \/ Crash(c)

Next ==
  \/ \E c \in Callers : ReadAccount(c) \/ CallStep(c) \/ CallFault(c) \/ Done(c)
  \/ \E n \in 1..MaxTokens : Expire(n)
  \/ Disconnect \/ Link \/ DenyReauthorization \/ Tick

Spec == Init /\ [][Next]_vars

(* A process runs the calls it has begun, and time passes. *)
Fairness == WF_vars(Tick) /\ \A c \in Callers : WF_vars(CallStep(c))
FairSpec == Spec /\ Fairness

-----------------------------------------------------------------------------
(* Properties                                                              *)

(* The user is asked to authorize again only when there was a reason: the  *)
(* platform or the database failed, or the user denied an authorization;   *)
(* or, where refresh tokens rotate, a call refreshed with a token that     *)
(* another call was using when it was read, or has used since, or one that *)
(* a call that ended without a word may have spent                         *)
(* (requireValidAccessToken, refreshAndPersist, markRefreshFailed).        *)
Reason == "trouble" \in cause \/ (Rotating /\ "race" \in cause)
ReauthHasCause == row.status = "REAUTHORIZATION_REQUIRED" => Reason

(* Two calls racing for the refresh material are no reason: only one       *)
(* caller refreshes per account (token-vault.service.ts:66-68).            *)
RefreshIsSingleFlight == row.status = "REAUTHORIZATION_REQUIRED" => "trouble" \in cause

(* An account that no call is working on and that is CONNECTED has a       *)
(* refresh token the platform accepts, however refreshes, takeovers, links *)
(* and disconnections were interleaved (refreshAndPersist,                 *)
(* markRefreshFailed): a spent token is never left or put back, except by  *)
(* a call whose process stopped, or whose report of a failure failed, and  *)
(* then only until the next refresh or link.                               *)
ConnectedIsRefreshable ==
  Settled /\ ~torn /\ row.status = "CONNECTED" => row.cred.refresh \in accepted

(* A call that found its access token expired never returns that token,    *)
(* whether it refreshed it or waited for another call                      *)
(* (requireValidAccessToken, waitForRefreshedToken).                       *)
HandsOutRenewed ==
  [][\A c \in Callers :
       caller[c].pc \in {"wait", "call", "persist", "release"} /\ caller'[c].token # 0
       => caller'[c].token # caller[c].snap.cred.access]_vars

(* Every call of requireValidAccessToken ends, also one that waits for a   *)
(* call whose process stopped with the lock (waitForRefreshedToken).       *)
EveryCallEnds ==
  \A c \in Callers : (caller[c].pc # "idle") ~> (caller[c].pc \in {"idle", "done"})

=============================================================================
