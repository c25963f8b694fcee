-------------------------- MODULE TokenVaultProofs --------------------------
(***************************************************************************)
(* Theorems about TokenVault, for any number of calls, of tokens and of    *)
(* disturbances, and for any durations.                                    *)
(***************************************************************************)
EXTENDS TokenVault, TLAPS

-----------------------------------------------------------------------------
(* Types                                                                   *)

(* The constant credentials and the idle call are well typed. *)
LEMMA ConstantTypes ==
  /\ Cleared \in Credentials
  /\ \A n \in Nat : Fresh(n) \in Credentials
  /\ Idle \in Call
<1>1. Cleared \in Credentials /\ \A n \in Nat : Fresh(n) \in Credentials
  BY DEF Cleared, Fresh, Credentials
<1>2. [status |-> "DISCONNECTED", cred |-> Cleared] \in Account
  BY <1>1 DEF Account, AccountStatuses
<1> QED BY <1>1, <1>2 DEF Idle, Call

(* Where a step may take a call, with the token it returns. *)
LEMMA MoveTypes ==
  ASSUME TypeOK, NEW c \in Callers, NEW token \in Nat, NEW timer \in Nat,
         NEW pc \in {"lock", "call", "persist", "fail", "release", "wait", "done"},
         NEW owner \in BOOLEAN
  PROVE  /\ Goto(c, pc) => caller' \in [Callers -> Call]
         /\ Return(c, token) => caller' \in [Callers -> Call]
         /\ Finish(c, token) => caller' \in [Callers -> Call]
         /\ [caller EXCEPT ![c].pc = pc, ![c].owner = owner, ![c].timer = timer]
              \in [Callers -> Call]
         /\ [caller EXCEPT ![c].pc = pc, ![c].timer = timer] \in [Callers -> Call]
<1>1. caller \in [Callers -> Call] /\ caller[c] \in Call
  BY DEF TypeOK
<1>2. Goto(c, pc) => caller' \in [Callers -> Call]
  BY <1>1 DEF Goto, Call
<1>3. [Idle EXCEPT !.pc = "done", !.token = token, !.snap = caller[c].snap] \in Call
  BY <1>1, ConstantTypes DEF Call
<1>4. Return(c, token) => caller' \in [Callers -> Call]
  BY <1>1, <1>3 DEF Return
<1>5. Finish(c, token) => caller' \in [Callers -> Call]
  <2> DEFINE next == IF caller[c].owner THEN "release" ELSE "done"
             r == [caller[c] EXCEPT !.pc = next, !.token = token]
  <2>1. next \in {"release", "done"}
    OBVIOUS
  <2>2. r \in Call
    <3> HIDE DEF next
    <3> QED BY <1>1, <2>1 DEF Call
  <2>3. Finish(c, token) => caller' = [caller EXCEPT ![c] = r]
    BY <1>1 DEF Finish
  <2> HIDE DEF r
  <2> QED BY <1>1, <2>2, <2>3
<1>6. [caller[c] EXCEPT !.pc = pc, !.owner = owner, !.timer = timer] \in Call
  BY <1>1 DEF Call
<1>7. [caller[c] EXCEPT !.pc = pc, !.timer = timer] \in Call
  BY <1>1 DEF Call
<1>8. /\ [caller EXCEPT ![c].pc = pc, ![c].owner = owner, ![c].timer = timer]
           = [caller EXCEPT ![c] = [caller[c] EXCEPT !.pc = pc, !.owner = owner, !.timer = timer]]
      /\ [caller EXCEPT ![c].pc = pc, ![c].timer = timer]
           = [caller EXCEPT ![c] = [caller[c] EXCEPT !.pc = pc, !.timer = timer]]
  BY <1>1 DEF Call
<1>9. \A r \in Call : [caller EXCEPT ![c] = r] \in [Callers -> Call]
  BY <1>1
<1> QED BY <1>2, <1>4, <1>5, <1>6, <1>7, <1>8, <1>9

(* A disturbance is counted within its bound. *)
LEMMA DisturbType ==
  ASSUME TypeOK, NEW kind, Disturb(kind)
  PROVE  disturbances' \in 0..MaxDisturbances
BY VaultBoundsAssumption DEF TypeOK, Disturb

(* The first steps of a call, and its waiting, keep every type. *)
LEMMA CallType ==
  ASSUME TypeOK, NEW c \in Callers,
         \/ ReadAccount(c) \/ Start(c) \/ AcquireLock(c) \/ LockTaken(c) \/ RedisFails(c)
         \/ Poll(c) \/ PollThrows(c) \/ TakeOver(c) \/ Done(c) \/ Crash(c)
  PROVE  TypeOK'
<1> USE DEF CallerOnly, Undisturbed, history, Trouble
<1>t. /\ caller \in [Callers -> Call] /\ caller[c] \in Call /\ row \in Account
      /\ caller[c].snap.cred.access \in Nat /\ row.cred.access \in Nat
  BY DEF TypeOK, Call, Account, Credentials
<1>d. LockTTL \in 0..LockTTL /\ MaxWait \in Nat /\ CallTimeout \in Nat
  BY DurationsAssumption
<1>1. CASE ReadAccount(c)
  <2>1. [Idle EXCEPT !.pc = "start", !.snap = row] \in Call
    BY <1>t, ConstantTypes DEF Call
  <2> QED BY <1>1, <1>t, <2>1 DEF ReadAccount, TypeOK
<1>2. CASE Start(c)
  <2>1. caller' \in [Callers -> Call]
    BY <1>2, <1>t, MoveTypes DEF Start, Throw
  <2> QED BY <1>2, <2>1 DEF Start, TypeOK
<1>3. CASE AcquireLock(c)
  <2>1. caller' \in [Callers -> Call]
    BY <1>3, <1>d, MoveTypes DEF AcquireLock
  <2> QED BY <1>3, <1>d, <2>1 DEF AcquireLock, TypeOK
<1>4. CASE LockTaken(c)
  <2>1. caller' \in [Callers -> Call]
    BY <1>4, <1>d, MoveTypes DEF LockTaken
  <2> QED BY <1>4, <2>1 DEF LockTaken, TypeOK
<1>5. CASE RedisFails(c)
  <2>1. caller' \in [Callers -> Call]
    BY <1>5, MoveTypes DEF RedisFails, Throw
  <2> QED BY <1>5, <2>1, DisturbType DEF RedisFails, TypeOK
<1>6. CASE Poll(c)
  <2>1. caller' \in [Callers -> Call]
    BY <1>6, <1>t, MoveTypes DEF Poll
  <2> QED BY <1>6, <2>1 DEF Poll, TypeOK
<1>7. CASE PollThrows(c)
  <2>1. caller' \in [Callers -> Call]
    BY <1>7, MoveTypes DEF PollThrows, Throw
  <2> QED BY <1>7, <2>1 DEF PollThrows, TypeOK
<1>8. CASE TakeOver(c)
  <2>1. caller' \in [Callers -> Call]
    BY <1>8, <1>d, MoveTypes DEF TakeOver
  <2> QED BY <1>8, <2>1 DEF TakeOver, TypeOK
<1>9. CASE Done(c)
  BY <1>9, <1>t, ConstantTypes DEF Done, TypeOK
<1>10. CASE Crash(c)
  BY <1>10, <1>t, ConstantTypes, DisturbType DEF Crash, TypeOK
<1> QED BY <1>1, <1>2, <1>3, <1>4, <1>5, <1>6, <1>7, <1>8, <1>9, <1>10

(* The steps of a refresh keep every type. *)
LEMMA RefreshType ==
  ASSUME TypeOK, NEW c \in Callers,
         \/ Refreshed(c) \/ RefreshedUndated(c) \/ RefreshRejected(c) \/ RefreshRefused(c)
         \/ RefreshAnswerLost(c) \/ TimedOut(c) \/ Persist(c) \/ PersistFails(c)
         \/ MarkRefreshFailed(c) \/ MarkFails(c) \/ ReleaseLock(c)
  PROVE  TypeOK'
<1> USE DEF CallerOnly, Undisturbed, history, Trouble
<1>t. /\ caller \in [Callers -> Call] /\ caller[c] \in Call /\ row \in Account
      /\ caller[c].snap.cred \in Credentials /\ caller[c].new \in Credentials
      /\ caller[c].snap.cred.expiry \in Nat /\ caller[c].snap.cred.refresh \in Nat
      /\ caller[c].new.access \in Nat /\ issued + 1 \in Nat
  BY VaultBoundsAssumption DEF TypeOK, Call, Account, Credentials
<1>1. ASSUME NEW expiry \in Nat, Refresh(c, expiry)
      PROVE  /\ row' \in Account /\ expired' \subseteq 1..MaxTokens /\ issued' \in 0..MaxTokens
             /\ accepted' \subseteq 1..MaxTokens /\ lock' \in 0..LockTTL
             /\ caller' \in [Callers -> Call] /\ torn' \in BOOLEAN /\ stale' \subseteq Callers
             /\ cause' \subseteq {"trouble", "race"}
  <2> DEFINE new == [access |-> issued + 1, expiry |-> expiry,
                     refresh |-> IF Rotating THEN issued + 1 ELSE caller[c].snap.cred.refresh]
  <2>1. new \in Credentials
    BY <1>t DEF Credentials
  <2>2. [caller[c] EXCEPT !.pc = "persist", !.new = new] \in Call
    BY <1>t, <2>1 DEF Call
  <2>3. caller' \in [Callers -> Call]
    BY <1>1, <1>t, <2>2 DEF Refresh
  <2>4. issued' \in 1..MaxTokens /\ accepted' \subseteq accepted \cup {issued'}
    BY <1>1, VaultBoundsAssumption DEF Refresh, TypeOK
  <2> QED BY <1>1, <2>3, <2>4 DEF Refresh, TypeOK
<1>2. CASE Refreshed(c)
  BY <1>2, <1>1, <1>t DEF Refreshed, TypeOK
<1>3. CASE RefreshedUndated(c)
  BY <1>3, <1>1, <1>t, DisturbType DEF RefreshedUndated, TypeOK
<1>4. CASE RefreshRejected(c)
  <2>1. caller' \in [Callers -> Call]
    BY <1>4, MoveTypes DEF RefreshRejected
  <2> QED BY <1>4, <2>1 DEF RefreshRejected, TypeOK
<1>5. CASE RefreshRefused(c)
  <2>1. caller' \in [Callers -> Call]
    BY <1>5, MoveTypes DEF RefreshRefused
  <2> QED BY <1>5, <2>1, DisturbType DEF RefreshRefused, TypeOK
<1>6. CASE RefreshAnswerLost(c)
  <2>1. caller' \in [Callers -> Call]
    BY <1>6, MoveTypes DEF RefreshAnswerLost
  <2> QED BY <1>6, <2>1, DisturbType DEF RefreshAnswerLost, TypeOK
<1>7. CASE TimedOut(c)
  <2>1. caller' \in [Callers -> Call]
    BY <1>7, MoveTypes DEF TimedOut
  <2> QED BY <1>7, <2>1 DEF TimedOut, TypeOK
<1>8. CASE Persist(c)
  <2>1. caller' \in [Callers -> Call]
    BY <1>8, <1>t, MoveTypes DEF Persist
  <2> QED BY <1>8, <1>t, <2>1 DEF Persist, TypeOK, Account, AccountStatuses
<1>9. CASE PersistFails(c)
  <2>1. caller' \in [Callers -> Call]
    BY <1>9, MoveTypes DEF PersistFails
  <2> QED BY <1>9, <2>1, DisturbType DEF PersistFails, TypeOK
<1>10. CASE MarkRefreshFailed(c)
  <2>1. caller' \in [Callers -> Call]
    BY <1>10, MoveTypes DEF MarkRefreshFailed
  <2> QED BY <1>10, <1>t, <2>1 DEF MarkRefreshFailed, TypeOK, Account, AccountStatuses
<1>11. CASE MarkFails(c)
  <2>1. caller' \in [Callers -> Call]
    BY <1>11, MoveTypes DEF MarkFails
  <2> QED BY <1>11, <2>1, DisturbType DEF MarkFails, TypeOK
<1>12. CASE ReleaseLock(c)
  <2>1. caller' \in [Callers -> Call]
    BY <1>12, MoveTypes DEF ReleaseLock
  <2> QED BY <1>12, <2>1, DurationsAssumption DEF ReleaseLock, TypeOK
<1> QED BY <1>2, <1>3, <1>4, <1>5, <1>6, <1>7, <1>8, <1>9, <1>10, <1>11, <1>12

(* What happens around the calls keeps every type. *)
LEMMA WorldType ==
  ASSUME TypeOK,
         \/ \E n \in 1..MaxTokens : Expire(n)
         \/ Disconnect \/ Link \/ DenyReauthorization \/ Tick
  PROVE  TypeOK'
<1> USE DEF Undisturbed, history, Trouble
<1>1. ASSUME NEW n \in 1..MaxTokens, Expire(n) PROVE TypeOK'
  BY <1>1 DEF Expire, TypeOK
<1>2. CASE Disconnect
  BY <1>2, ConstantTypes, DisturbType DEF Disconnect, TypeOK, Account, AccountStatuses
<1>3. CASE Link
  <2>1. issued + 1 \in Nat /\ issued + 1 \in 1..MaxTokens
    BY <1>3, VaultBoundsAssumption DEF Link, TypeOK
  <2>2. row' \in Account
    BY <1>3, <2>1, ConstantTypes DEF Link, Account, AccountStatuses
  <2>3. torn' \in BOOLEAN
    BY <1>3 DEF Link
  <2> QED BY <1>3, <2>1, <2>2, <2>3, DisturbType DEF Link, TypeOK
<1>4. CASE DenyReauthorization
  BY <1>4, DisturbType DEF DenyReauthorization, TypeOK, Account, AccountStatuses
<1>5. CASE Tick
  <2>1. ASSUME NEW c \in Callers
        PROVE [caller[c] EXCEPT !.timer = Countdown(caller[c].timer)] \in Call
    BY DEF TypeOK, Call, Countdown
  <2>2. caller' \in [Callers -> Call]
    BY <1>5, <2>1 DEF Tick, TypeOK
  <2>3. lock' \in 0..LockTTL
    BY <1>5, DurationsAssumption DEF Tick, Countdown, TypeOK
  <2> QED BY <1>5, <2>2, <2>3 DEF Tick, TypeOK
<1> QED BY <1>1, <1>2, <1>3, <1>4, <1>5

(* Every step keeps every type. *)
LEMMA TypeStep == TypeOK /\ [Next]_vars => TypeOK'
<1> SUFFICES ASSUME TypeOK, [Next]_vars PROVE TypeOK'
  OBVIOUS
<1>1. CASE UNCHANGED vars
  BY <1>1 DEF vars, TypeOK
<1>2. ASSUME NEW c \in Callers, ReadAccount(c) \/ CallStep(c) \/ CallFault(c) \/ Done(c)
      PROVE TypeOK'
  BY <1>2, CallType, RefreshType DEF CallStep, CallFault
<1>3. ASSUME \/ \E n \in 1..MaxTokens : Expire(n)
             \/ Disconnect \/ Link \/ DenyReauthorization \/ Tick
      PROVE TypeOK'
  BY <1>3, WorldType
<1> QED BY <1>1, <1>2, <1>3 DEF Next

(* A linked account and idle calls are well typed. *)
LEMMA TypeInit == Init => TypeOK
<1> SUFFICES ASSUME Init PROVE TypeOK
  OBVIOUS
<1>1. row \in Account
  BY ConstantTypes DEF Init, Account, AccountStatuses
<1>2. caller \in [Callers -> Call]
  BY ConstantTypes DEF Init
<1>3. /\ 1 \in 1..MaxTokens /\ 1 \in 0..MaxTokens /\ 0 \in 0..MaxDisturbances
      /\ 0 \in 0..LockTTL
  BY VaultBoundsAssumption, DurationsAssumption
<1>4. expired \subseteq 1..MaxTokens /\ accepted \subseteq 1..MaxTokens
  BY <1>3 DEF Init
<1> QED BY <1>1, <1>2, <1>3, <1>4 DEF Init, TypeOK

(* Every variable keeps its type; in particular the status TOKEN_EXPIRED,  *)
(* which getStatus derives, is never stored.                               *)
THEOREM TypeCorrect == Spec => []TypeOK
BY TypeInit, TypeStep, PTL DEF Spec

-----------------------------------------------------------------------------
(* A connected account stays refreshable                                   *)

(* A renewed refresh token that a call has not stored yet is accepted by   *)
(* the platform, and where tokens rotate nobody else has it: no other call *)
(* can spend it.                                                           *)
Unspent ==
  /\ accepted \subseteq 1..issued
  /\ row.cred.refresh \in 0..issued
  /\ \A d \in Callers : caller[d].snap.cred.refresh \in 0..issued
  /\ \A c \in Callers : caller[c].pc = "persist" => caller[c].new.refresh \in accepted
  /\ Rotating => \A c \in Callers : caller[c].pc = "persist" =>
       /\ row.cred.refresh # caller[c].new.refresh
       /\ \A d \in Callers :
            /\ caller[d].snap.cred.refresh # caller[c].new.refresh
            /\ d # c /\ caller[d].pc = "persist" => caller[d].new.refresh # caller[c].new.refresh

RefreshableInv == TypeOK /\ Unspent /\ ConnectedIsRefreshable

(* A step changes one call only. *)
OneCall(c) == \A d \in Callers \ {c} : caller'[d] = caller[d]

(* The tokens stored and accepted stay, and no call gets a renewed one. *)
LEMMA QuietStep ==
  ASSUME RefreshableInv, TypeOK', NEW c \in Callers, OneCall(c),
         issued' = issued, accepted' = accepted, row'.cred = row.cred,
         row'.status = "CONNECTED" => row.status = "CONNECTED",
         torn => torn', caller'[c].pc # "persist",
         caller'[c].snap.cred.refresh \in {caller[c].snap.cred.refresh, row.cred.refresh, 0},
         caller[c].pc \in {"persist", "fail"}
           => caller'[c].pc = "fail" \/ row'.status # "CONNECTED" \/ torn'
  PROVE  RefreshableInv'
<1>1. Unspent'
  <2>1. \A d \in Callers : caller'[d].pc = "persist" => d # c /\ caller'[d] = caller[d]
    BY DEF OneCall
  <2>2. \A d \in Callers : \/ caller'[d].snap = caller[d].snap
                          \/ d = c
    BY DEF OneCall
  <2>3. 0 \notin accepted /\ 0 \in 0..issued
    BY DEF RefreshableInv, Unspent, TypeOK
  <2>4. accepted' \subseteq 1..issued' /\ row'.cred.refresh \in 0..issued'
    BY DEF RefreshableInv, Unspent
  <2>5. \A d \in Callers : caller'[d].snap.cred.refresh \in 0..issued'
    BY <2>2, <2>3 DEF RefreshableInv, Unspent
  <2>6. \A d \in Callers : caller'[d].pc = "persist" => caller'[d].new.refresh \in accepted'
    BY <2>1 DEF RefreshableInv, Unspent
  <2>7. ASSUME Rotating, NEW d \in Callers, caller'[d].pc = "persist"
       PROVE  /\ row'.cred.refresh # caller'[d].new.refresh
              /\ \A e \in Callers :
                   /\ caller'[e].snap.cred.refresh # caller'[d].new.refresh
                   /\ e # d /\ caller'[e].pc = "persist"
                        => caller'[e].new.refresh # caller'[d].new.refresh
    <3>1. caller'[d] = caller[d] /\ caller[d].pc = "persist" /\ caller[d].new.refresh # 0
      BY <2>1, <2>3, <2>6, <2>7
    <3>2. row.cred.refresh # caller[d].new.refresh
      BY <2>7, <3>1 DEF RefreshableInv, Unspent
    <3>3. \A e \in Callers : caller[e].snap.cred.refresh # caller[d].new.refresh
      BY <2>7, <3>1 DEF RefreshableInv, Unspent
    <3>4. \A e \in Callers : caller'[e].snap.cred.refresh # caller'[d].new.refresh
      BY <2>2, <3>1, <3>2, <3>3
    <3>5. \A e \in Callers : e # d /\ caller'[e].pc = "persist"
                            => caller'[e].new.refresh # caller'[d].new.refresh
      BY <2>1, <2>7, <3>1 DEF RefreshableInv, Unspent
    <3> QED BY <3>1, <3>2, <3>4, <3>5
  <2> QED BY <2>4, <2>5, <2>6, <2>7 DEF Unspent
<1>2. ConnectedIsRefreshable'
  BY DEF RefreshableInv, ConnectedIsRefreshable, Settled, OneCall
<1> QED BY <1>1, <1>2 DEF RefreshableInv

(* What the steps of one call do to the others and to itself. *)
LEMMA CallShape ==
  ASSUME TypeOK, NEW c \in Callers, NEW token, NEW pc
  PROVE  /\ Goto(c, pc) => /\ OneCall(c) /\ caller'[c].pc = pc
                           /\ caller'[c].snap = caller[c].snap /\ caller'[c].new = caller[c].new
         /\ Return(c, token) => /\ OneCall(c) /\ caller'[c].pc = "done"
                                /\ caller'[c].snap = caller[c].snap
         /\ Finish(c, token) => /\ OneCall(c) /\ caller'[c].pc \in {"release", "done"}
                                /\ caller'[c].snap = caller[c].snap
<1>1. caller \in [Callers -> Call] /\ caller[c] \in Call
  BY DEF TypeOK
<1>2. Goto(c, pc) => /\ OneCall(c) /\ caller'[c].pc = pc
                     /\ caller'[c].snap = caller[c].snap /\ caller'[c].new = caller[c].new
  BY <1>1 DEF Goto, OneCall, Call
<1>3. Return(c, token) => /\ OneCall(c) /\ caller'[c].pc = "done"
                          /\ caller'[c].snap = caller[c].snap
  BY <1>1 DEF Return, OneCall, Call, Idle
<1>4. Finish(c, token) => /\ OneCall(c) /\ caller'[c].pc \in {"release", "done"}
                          /\ caller'[c].snap = caller[c].snap
  BY <1>1 DEF Finish, OneCall, Call
<1> QED BY <1>2, <1>3, <1>4

(* The steps that store and spend no token. *)
LEMMA QuietCall ==
  ASSUME RefreshableInv, TypeOK', NEW c \in Callers,
         \/ ReadAccount(c) \/ Start(c) \/ AcquireLock(c) \/ LockTaken(c) \/ RedisFails(c)
         \/ Poll(c) \/ PollThrows(c) \/ TakeOver(c) \/ Done(c) \/ Crash(c)
         \/ RefreshRejected(c) \/ RefreshRefused(c) \/ TimedOut(c) \/ PersistFails(c)
         \/ MarkRefreshFailed(c) \/ MarkFails(c) \/ ReleaseLock(c)
  PROVE  RefreshableInv'
<1> USE DEF CallerOnly, history, Trouble
<1>t. TypeOK /\ caller \in [Callers -> Call] /\ caller[c] \in Call /\ row \in Account
  BY DEF RefreshableInv, TypeOK
<1>1. CASE ReadAccount(c)
  <2>1. OneCall(c) /\ caller'[c].pc = "start" /\ caller'[c].snap = row /\ caller[c].pc = "idle"
    BY <1>1, <1>t DEF ReadAccount, OneCall, Idle
  <2> QED BY <1>1, <2>1, QuietStep DEF ReadAccount
<1>2. CASE Start(c)
  <2>1. /\ OneCall(c) /\ caller'[c].pc \in {"lock", "done"} /\ caller[c].pc = "start"
        /\ caller'[c].snap = caller[c].snap
    BY <1>2, <1>t, CallShape DEF Start, Throw
  <2> QED BY <1>2, <2>1, QuietStep DEF Start
<1>3. CASE AcquireLock(c) \/ LockTaken(c) \/ TakeOver(c)
  <2>1. /\ OneCall(c) /\ caller'[c].pc \in {"call", "wait"} /\ caller[c].pc \in {"lock", "wait"}
        /\ caller'[c].snap = caller[c].snap
    BY <1>3, <1>t DEF AcquireLock, LockTaken, TakeOver, OneCall, Call
  <2> QED BY <1>3, <2>1, QuietStep DEF AcquireLock, LockTaken, TakeOver
<1>4. CASE RedisFails(c) \/ Poll(c) \/ PollThrows(c)
  <2>1. /\ OneCall(c) /\ caller'[c].pc = "done" /\ caller[c].pc \in {"lock", "release", "wait"}
        /\ caller'[c].snap = caller[c].snap
    BY <1>4, <1>t, CallShape DEF RedisFails, Poll, PollThrows, Throw
  <2> QED BY <1>4, <2>1, QuietStep DEF RedisFails, Poll, PollThrows
<1>5. CASE Done(c) \/ Crash(c)
  <2>1. /\ OneCall(c) /\ caller'[c].pc = "idle" /\ caller'[c].snap.cred.refresh = 0
    BY <1>5, <1>t DEF Done, Crash, OneCall, Idle, Cleared
  <2>2. /\ UNCHANGED <<row, issued, accepted>> /\ (torn => torn')
        /\ caller[c].pc \in {"persist", "fail"} => torn'
    <3>1. CASE Done(c)
      BY <3>1 DEF Done
    <3>2. CASE Crash(c)
      <4>1. torn' = (torn \/ caller[c].pc \in {"persist", "fail"}) /\ UNCHANGED <<row, issued, accepted>>
        BY <3>2 DEF Crash
      <4> QED BY <4>1, Zenon
    <3> QED BY <1>5, <3>1, <3>2
  <2> QED BY <2>1, <2>2, QuietStep
<1>6. CASE RefreshRejected(c) \/ RefreshRefused(c) \/ TimedOut(c) \/ PersistFails(c)
  <2>1. OneCall(c) /\ caller'[c].pc = "fail" /\ caller'[c].snap = caller[c].snap
    BY <1>6, <1>t, CallShape DEF RefreshRejected, RefreshRefused, TimedOut, PersistFails
  <2> QED BY <1>6, <2>1, QuietStep DEF RefreshRejected, RefreshRefused, TimedOut, PersistFails
<1>7. CASE MarkRefreshFailed(c)
  <2>1. /\ OneCall(c) /\ caller'[c].pc \in {"release", "done"}
        /\ caller'[c].snap = caller[c].snap
    BY <1>7, <1>t, CallShape DEF MarkRefreshFailed
  <2>2. row'.status = "REAUTHORIZATION_REQUIRED" /\ row'.cred = row.cred
    BY <1>7, <1>t DEF MarkRefreshFailed, Account
  <2> QED BY <1>7, <2>1, <2>2, QuietStep DEF MarkRefreshFailed
<1>8. CASE ReleaseLock(c)
  <2>1. /\ OneCall(c) /\ caller'[c].pc = "done" /\ caller[c].pc = "release"
        /\ caller'[c].snap = caller[c].snap
    BY <1>8, <1>t, CallShape DEF ReleaseLock
  <2> QED BY <1>8, <2>1, QuietStep DEF ReleaseLock
<1>9. CASE MarkFails(c)
  <2>1. /\ OneCall(c) /\ caller'[c].pc \in {"release", "done"}
        /\ caller'[c].snap = caller[c].snap
    BY <1>9, <1>t, CallShape DEF MarkFails
  <2>2. UNCHANGED <<row, issued, accepted>> /\ torn'
    BY <1>9 DEF MarkFails
  <2> QED BY <2>1, <2>2, QuietStep
<1> QED BY <1>1, <1>2, <1>3, <1>4, <1>5, <1>6, <1>7, <1>8, <1>9

(* The platform renews the tokens of a call. *)
LEMMA RefreshKeeps ==
  ASSUME RefreshableInv, TypeOK', NEW c \in Callers, NEW expiry, Refresh(c, expiry)
  PROVE  RefreshableInv'
<1> DEFINE old == caller[c].snap.cred.refresh
           new == IF Rotating THEN issued + 1 ELSE old
<1>1. /\ OneCall(c) /\ caller[c].pc = "call" /\ caller'[c].pc = "persist"
      /\ caller'[c].snap = caller[c].snap /\ caller'[c].new.refresh = new
  BY DEF Refresh, OneCall, RefreshableInv, TypeOK, Call
<1>2. /\ issued \in Nat /\ issued' = issued + 1 /\ old \in accepted /\ row' = row
      /\ accepted' = IF Rotating THEN (accepted \ {old}) \cup {issued + 1} ELSE accepted
  BY VaultBoundsAssumption DEF Refresh, RefreshableInv, TypeOK
<1>3. \A d \in Callers : caller'[d].snap = caller[d].snap
  BY <1>1 DEF OneCall
<1>4. accepted' \subseteq 1..issued' /\ row'.cred.refresh \in 0..issued'
  BY <1>2 DEF RefreshableInv, Unspent
<1>5. \A d \in Callers : caller'[d].snap.cred.refresh \in 0..issued
  BY <1>3 DEF RefreshableInv, Unspent
<1>6. \A d \in Callers : caller'[d].pc = "persist" =>
        /\ caller'[d].new.refresh \in accepted'
        /\ Rotating => caller'[d].new.refresh \in 1..issued'
        /\ Rotating /\ d # c => caller'[d].new.refresh \in 1..issued
  <2> SUFFICES ASSUME NEW d \in Callers, caller'[d].pc = "persist"
               PROVE /\ caller'[d].new.refresh \in accepted'
                     /\ Rotating => caller'[d].new.refresh \in 1..issued'
                     /\ Rotating /\ d # c => caller'[d].new.refresh \in 1..issued
    OBVIOUS
  <2>1. CASE d = c
    BY <1>1, <1>2, <2>1
  <2>2. CASE d # c
    <3>1. caller'[d] = caller[d] /\ caller[d].new.refresh \in accepted
      BY <1>1, <2>2 DEF OneCall, RefreshableInv, Unspent
    <3>2. caller[d].new.refresh \in 1..issued
      BY <3>1 DEF RefreshableInv, Unspent
    <3>3. Rotating => caller[d].new.refresh # old
      BY <3>1 DEF RefreshableInv, Unspent
    <3> QED BY <1>2, <2>2, <3>1, <3>2, <3>3
  <2> QED BY <2>1, <2>2
<1>7. Rotating => \A d \in Callers : caller'[d].pc = "persist" =>
        /\ row'.cred.refresh # caller'[d].new.refresh
        /\ \A e \in Callers :
             /\ caller'[e].snap.cred.refresh # caller'[d].new.refresh
             /\ e # d /\ caller'[e].pc = "persist" => caller'[e].new.refresh # caller'[d].new.refresh
  <2> SUFFICES ASSUME Rotating, NEW d \in Callers, caller'[d].pc = "persist"
               PROVE /\ row'.cred.refresh # caller'[d].new.refresh
                     /\ \A e \in Callers :
                          /\ caller'[e].snap.cred.refresh # caller'[d].new.refresh
                          /\ e # d /\ caller'[e].pc = "persist"
                               => caller'[e].new.refresh # caller'[d].new.refresh
    OBVIOUS
  <2>1. CASE d = c
    <3>1. caller'[d].new.refresh = issued + 1
      BY <1>1, <2>1
    <3>2. row.cred.refresh \in 0..issued
      BY DEF RefreshableInv, Unspent
    <3> QED BY <1>2, <1>5, <1>6, <2>1, <3>1, <3>2
  <2>2. CASE d # c
    <3>1. caller'[d] = caller[d]
      BY <1>1, <2>2 DEF OneCall
    <3>2. caller'[d].new.refresh \in 1..issued
      BY <1>6, <2>2
    <3>3. \A e \in Callers : e = c \/ caller'[e] = caller[e]
      BY <1>1 DEF OneCall
    <3> QED BY <1>1, <1>2, <1>3, <3>1, <3>2, <3>3 DEF RefreshableInv, Unspent
  <2> QED BY <2>1, <2>2
<1>8. Unspent'
  BY <1>2, <1>4, <1>5, <1>6, <1>7 DEF Unspent
<1>9. ConnectedIsRefreshable'
  BY <1>1 DEF ConnectedIsRefreshable, Settled
<1> QED BY <1>8, <1>9 DEF RefreshableInv

(* A refresh token is spent and the answer is lost. *)
LEMMA LostKeeps ==
  ASSUME RefreshableInv, TypeOK', NEW c \in Callers, RefreshAnswerLost(c)
  PROVE  RefreshableInv'
<1>1. /\ OneCall(c) /\ caller'[c].pc = "fail" /\ caller'[c].snap = caller[c].snap
  BY CallShape DEF RefreshAnswerLost, RefreshableInv
<1>2. /\ issued' = issued /\ row' = row
      /\ accepted' = IF Rotating THEN accepted \ {caller[c].snap.cred.refresh} ELSE accepted
  BY DEF RefreshAnswerLost
<1>3. \A d \in Callers : caller'[d].snap = caller[d].snap
  BY <1>1 DEF OneCall
<1>o. \A d \in Callers : caller'[d].pc = "persist" => d # c
  BY <1>1
<1>u. /\ accepted \subseteq 1..issued /\ row.cred.refresh \in 0..issued
      /\ \A d \in Callers : caller[d].snap.cred.refresh \in 0..issued
      /\ \A d \in Callers : caller[d].pc = "persist" => caller[d].new.refresh \in accepted
  BY DEF RefreshableInv, Unspent
<1>r. ASSUME Rotating, NEW d \in Callers, caller[d].pc = "persist"
      PROVE  /\ row.cred.refresh # caller[d].new.refresh
             /\ \A e \in Callers :
                  /\ caller[e].snap.cred.refresh # caller[d].new.refresh
                  /\ e # d /\ caller[e].pc = "persist" => caller[e].new.refresh # caller[d].new.refresh
  BY <1>r DEF RefreshableInv, Unspent
<1>4. accepted' \subseteq accepted /\ accepted' \subseteq 1..issued
  BY <1>2, <1>u
<1>5. ASSUME NEW d \in Callers, caller'[d].pc = "persist"
      PROVE  /\ caller[d].pc = "persist" /\ caller[d].new.refresh \in accepted
             /\ caller'[d].new.refresh = caller[d].new.refresh
  <2>1. caller'[d] = caller[d]
    BY <1>1, <1>o, <1>5 DEF OneCall
  <2>2. caller[d].pc = "persist"
    BY <1>5, <2>1
  <2>3. caller'[d].new.refresh = caller[d].new.refresh
    BY <2>1
  <2> QED BY <1>u, <2>2, <2>3
<1>6. ASSUME NEW d \in Callers, caller'[d].pc = "persist"
      PROVE  caller'[d].new.refresh \in accepted'
  <2>1. caller[d].new.refresh \in accepted
    BY <1>5, <1>6
  <2>2. Rotating => caller[c].snap.cred.refresh # caller[d].new.refresh
    BY <1>5, <1>6, <1>r
  <2> QED BY <1>2, <1>5, <1>6, <2>1, <2>2
<1>7. ASSUME Rotating, NEW d \in Callers, caller'[d].pc = "persist"
      PROVE  /\ row'.cred.refresh # caller'[d].new.refresh
             /\ \A e \in Callers :
                  /\ caller'[e].snap.cred.refresh # caller'[d].new.refresh
                  /\ e # d /\ caller'[e].pc = "persist"
                       => caller'[e].new.refresh # caller'[d].new.refresh
  <2>1. row.cred.refresh # caller[d].new.refresh /\ row'.cred.refresh = row.cred.refresh
    BY <1>2, <1>5, <1>7, <1>r
  <2>2. ASSUME NEW e \in Callers
        PROVE  caller'[e].snap.cred.refresh # caller'[d].new.refresh
    <3>1. caller[e].snap.cred.refresh # caller[d].new.refresh
      BY <1>5, <1>7, <1>r
    <3>2. caller'[e].snap.cred.refresh = caller[e].snap.cred.refresh
      BY <1>3, Zenon
    <3>3. caller'[d].new.refresh = caller[d].new.refresh
      BY <1>5, <1>7
    <3> QED BY <3>1, <3>2, <3>3
  <2>3. ASSUME NEW e \in Callers, e # d, caller'[e].pc = "persist"
        PROVE  caller'[e].new.refresh # caller'[d].new.refresh
    BY <1>5, <1>7, <1>r, <2>3
  <2> QED BY <1>5, <1>7, <2>1, <2>2, <2>3
<1>8. ASSUME NEW d \in Callers
      PROVE  caller'[d].snap.cred.refresh \in 0..issued
  <2>1. caller'[d].snap.cred.refresh = caller[d].snap.cred.refresh
    BY <1>3, Zenon
  <2> QED BY <1>u, <2>1
<1>9. row'.cred.refresh \in 0..issued /\ issued' = issued
  BY <1>2, <1>u
<1>10. Unspent'
  BY <1>4, <1>6, <1>7, <1>8, <1>9 DEF Unspent
<1>11. ConnectedIsRefreshable'
  BY <1>1 DEF ConnectedIsRefreshable, Settled
<1> QED BY <1>10, <1>11 DEF RefreshableInv

(* A call stores the tokens it was given. *)
LEMMA PersistKeeps ==
  ASSUME RefreshableInv, TypeOK', NEW c \in Callers, Persist(c)
  PROVE  RefreshableInv'
<1>1. /\ OneCall(c) /\ caller'[c].pc \in {"release", "done"}
      /\ caller'[c].snap = caller[c].snap
  BY CallShape DEF Persist, RefreshableInv
<1>2. /\ caller[c].pc = "persist" /\ issued' = issued /\ accepted' = accepted
      /\ row'.cred.refresh = caller[c].new.refresh
      /\ caller[c].new.refresh \in accepted /\ accepted \subseteq 1..issued
  BY DEF Persist, RefreshableInv, Unspent
<1>3. \A d \in Callers : caller'[d].snap = caller[d].snap
  BY <1>1 DEF OneCall
<1>o. \A d \in Callers : caller'[d].pc = "persist" => d # c
  BY <1>1
<1>u. /\ accepted \subseteq 1..issued /\ row.cred.refresh \in 0..issued
      /\ \A d \in Callers : caller[d].snap.cred.refresh \in 0..issued
      /\ \A d \in Callers : caller[d].pc = "persist" => caller[d].new.refresh \in accepted
  BY DEF RefreshableInv, Unspent
<1>r. ASSUME Rotating, NEW d \in Callers, caller[d].pc = "persist"
      PROVE  /\ row.cred.refresh # caller[d].new.refresh
             /\ \A e \in Callers :
                  /\ caller[e].snap.cred.refresh # caller[d].new.refresh
                  /\ e # d /\ caller[e].pc = "persist" => caller[e].new.refresh # caller[d].new.refresh
  BY <1>r DEF RefreshableInv, Unspent
<1>4. row'.cred.refresh \in 1..issued
  BY <1>2
<1>5. ASSUME NEW d \in Callers, caller'[d].pc = "persist"
      PROVE  /\ d # c /\ caller[d].pc = "persist" /\ caller[d].new.refresh \in accepted
             /\ caller'[d].new.refresh = caller[d].new.refresh
  <2>1. d # c /\ caller'[d] = caller[d]
    BY <1>1, <1>o, <1>5 DEF OneCall
  <2>2. caller[d].pc = "persist"
    BY <1>5, <2>1
  <2>3. caller'[d].new.refresh = caller[d].new.refresh
    BY <2>1
  <2> QED BY <1>u, <2>1, <2>2, <2>3
<1>6. ASSUME NEW d \in Callers, caller'[d].pc = "persist"
      PROVE  caller'[d].new.refresh \in accepted'
  <2>1. caller[d].new.refresh \in accepted
    BY <1>5, <1>6
  <2> QED BY <1>2, <1>5, <1>6, <2>1
<1>7. ASSUME Rotating, NEW d \in Callers, caller'[d].pc = "persist"
      PROVE  /\ row'.cred.refresh # caller'[d].new.refresh
             /\ \A e \in Callers :
                  /\ caller'[e].snap.cred.refresh # caller'[d].new.refresh
                  /\ e # d /\ caller'[e].pc = "persist"
                       => caller'[e].new.refresh # caller'[d].new.refresh
  <2>1. caller[c].new.refresh # caller[d].new.refresh
    BY <1>2, <1>5, <1>7, <1>r
  <2>2. ASSUME NEW e \in Callers
        PROVE  caller'[e].snap.cred.refresh # caller'[d].new.refresh
    <3>1. caller[e].snap.cred.refresh # caller[d].new.refresh
      BY <1>5, <1>7, <1>r
    <3>2. caller'[e].snap.cred.refresh = caller[e].snap.cred.refresh
      BY <1>3, Zenon
    <3>3. caller'[d].new.refresh = caller[d].new.refresh
      BY <1>5, <1>7
    <3> QED BY <3>1, <3>2, <3>3
  <2>3. ASSUME NEW e \in Callers, e # d, caller'[e].pc = "persist"
        PROVE  caller'[e].new.refresh # caller'[d].new.refresh
    BY <1>5, <1>7, <1>r, <2>3
  <2> QED BY <1>2, <1>5, <1>7, <2>1, <2>2, <2>3
<1>8. ASSUME NEW d \in Callers
      PROVE  caller'[d].snap.cred.refresh \in 0..issued
  <2>1. caller'[d].snap.cred.refresh = caller[d].snap.cred.refresh
    BY <1>3, Zenon
  <2> QED BY <1>u, <2>1
<1>9. issued' = issued /\ accepted' \subseteq 1..issued /\ row'.cred.refresh \in 0..issued
  BY <1>2, <1>4
<1>10. Unspent'
  BY <1>6, <1>7, <1>8, <1>9 DEF Unspent
<1>11. ConnectedIsRefreshable'
  BY <1>2 DEF ConnectedIsRefreshable
<1> QED BY <1>10, <1>11 DEF RefreshableInv

(* Links, disconnections, denials, dates and time. *)
LEMMA WorldKeeps ==
  ASSUME RefreshableInv, TypeOK',
         \/ \E n \in 1..MaxTokens : Expire(n)
         \/ Disconnect \/ Link \/ DenyReauthorization \/ Tick
  PROVE  RefreshableInv'
<1>t. issued \in Nat /\ caller \in [Callers -> Call] /\ row \in Account
  BY VaultBoundsAssumption DEF RefreshableInv, TypeOK
<1>1. CASE \E n \in 1..MaxTokens : Expire(n)
  BY <1>1 DEF Expire, history, RefreshableInv, Unspent, ConnectedIsRefreshable, Settled
<1>2. CASE Disconnect
  <2>1. row'.cred.refresh = 0 /\ row'.status = "DISCONNECTED"
    BY <1>2 DEF Disconnect, Cleared
  <2>2. UNCHANGED <<issued, accepted, caller>>
    BY <1>2 DEF Disconnect
  <2>3. Unspent'
    BY <1>t, <2>1, <2>2 DEF RefreshableInv, Unspent
  <2> QED BY <2>1, <2>3 DEF RefreshableInv, ConnectedIsRefreshable
<1>3. CASE Link
  <2>1. /\ row'.cred.refresh = issued + 1 /\ issued' = issued + 1 /\ caller' = caller
        /\ accepted' = accepted \cup {issued + 1}
    BY <1>3 DEF Link, Fresh
  <2>2. accepted' \subseteq 1..issued' /\ row'.cred.refresh \in 0..issued'
    <3>1. accepted \subseteq 1..issued
      BY DEF RefreshableInv, Unspent
    <3> QED BY <1>t, <2>1, <3>1
  <2>3. \A c \in Callers : caller[c].snap.cred.refresh \in 0..issued'
    <3>1. \A c \in Callers : caller[c].snap.cred.refresh \in 0..issued
      BY DEF RefreshableInv, Unspent
    <3> QED BY <1>t, <2>1, <3>1
  <2>4. \A c \in Callers : caller[c].pc = "persist" => caller[c].new.refresh \in 1..issued
    BY DEF RefreshableInv, Unspent
  <2>5. \A c \in Callers : caller[c].pc = "persist" => caller[c].new.refresh # row'.cred.refresh
    BY <1>t, <2>1, <2>4
  <2>6. Unspent'
    BY <2>1, <2>2, <2>3, <2>5 DEF RefreshableInv, Unspent
  <2> QED BY <2>1, <2>6 DEF RefreshableInv, ConnectedIsRefreshable
<1>4. CASE DenyReauthorization
  <2>1. /\ row'.cred = row.cred /\ row'.status = "REAUTHORIZATION_REQUIRED"
        /\ UNCHANGED <<issued, accepted, caller>>
    BY <1>4, <1>t DEF DenyReauthorization, Account
  <2> QED BY <2>1 DEF RefreshableInv, Unspent, ConnectedIsRefreshable
<1>5. CASE Tick
  <2>1. \A c \in Callers : /\ caller'[c].pc = caller[c].pc /\ caller'[c].snap = caller[c].snap
                          /\ caller'[c].new = caller[c].new
    BY <1>5, <1>t DEF Tick, Call
  <2>2. UNCHANGED <<row, issued, accepted, torn>>
    BY <1>5 DEF Tick, history
  <2>3. Unspent'
    BY <2>1, <2>2 DEF RefreshableInv, Unspent
  <2>4. ConnectedIsRefreshable'
    BY <2>1, <2>2 DEF RefreshableInv, ConnectedIsRefreshable, Settled
  <2> QED BY <2>3, <2>4 DEF RefreshableInv
<1> QED BY <1>1, <1>2, <1>3, <1>4, <1>5

(* Every step keeps a connected account refreshable. *)
LEMMA RefreshableInit == Init => RefreshableInv
<1> SUFFICES ASSUME Init PROVE RefreshableInv
  OBVIOUS
<1>1. row.cred.refresh = 1 /\ issued = 1 /\ accepted = {1}
  BY DEF Init, Fresh
<1>2. \A c \in Callers : caller[c].pc = "idle" /\ caller[c].snap.cred.refresh = 0
  BY DEF Init, Idle, Cleared
<1>3. Unspent
  BY <1>1, <1>2 DEF Unspent
<1>4. ConnectedIsRefreshable
  BY <1>1 DEF ConnectedIsRefreshable
<1> QED BY <1>3, <1>4, TypeInit DEF RefreshableInv

LEMMA RefreshableStep == RefreshableInv /\ [Next]_vars => RefreshableInv'
<1> SUFFICES ASSUME RefreshableInv, [Next]_vars PROVE RefreshableInv'
  OBVIOUS
<1>t. TypeOK'
  BY TypeStep DEF RefreshableInv
<1>1. CASE UNCHANGED vars
  BY <1>1, <1>t DEF vars, RefreshableInv, Unspent, ConnectedIsRefreshable, Settled
<1>2. ASSUME NEW c \in Callers, ReadAccount(c) \/ CallStep(c) \/ CallFault(c) \/ Done(c)
      PROVE RefreshableInv'
  <2>1. CASE Refreshed(c) \/ RefreshedUndated(c)
    BY <1>t, <2>1, RefreshKeeps DEF Refreshed, RefreshedUndated
  <2> QED BY <1>t, <1>2, <2>1, LostKeeps, PersistKeeps, QuietCall DEF CallStep, CallFault
<1>3. CASE \/ \E n \in 1..MaxTokens : Expire(n)
           \/ Disconnect \/ Link \/ DenyReauthorization \/ Tick
  BY <1>t, <1>3, WorldKeeps
<1> QED BY <1>1, <1>2, <1>3 DEF Next

(* However refreshes, takeovers, links, disconnections and crashes         *)
(* interleave, an account that is CONNECTED and that no call is working on *)
(* has a refresh token the platform accepts (token-vault.service.ts,       *)
(* refreshAndPersist), but for what a call left that ended without a word, *)
(* which lasts until the next refresh or link.                             *)
THEOREM Refreshable == Spec => []ConnectedIsRefreshable
<1>1. RefreshableInv => ConnectedIsRefreshable
  BY DEF RefreshableInv
<1> QED BY <1>1, RefreshableInit, RefreshableStep, PTL DEF Spec

-----------------------------------------------------------------------------
(* Reauthorization is asked for with a reason                              *)

(* A call refreshes with a token the platform accepts, unless tokens       *)
(* rotate and it was overtaken or something went wrong; it fails only for  *)
(* a reason. Where tokens do not rotate, none is ever spent.               *)
Usable(c, cred) ==
  cred.refresh \in accepted \/ (Rotating /\ (c \in stale \/ "trouble" \in cause))
RowReusable ==
  /\ ReauthHasCause
  /\ ~Rotating /\ row.status = "CONNECTED" => row.cred.refresh \in accepted
CallReusable(c) ==
  /\ caller[c].pc = "start" /\ caller[c].snap.status = "CONNECTED"
       => Usable(c, caller[c].snap.cred)
  /\ caller[c].pc \in {"lock", "wait", "call"} => Usable(c, caller[c].snap.cred)
  /\ caller[c].pc = "fail" => Reason
ReusableInv == RefreshableInv /\ RowReusable /\ \A c \in Callers : CallReusable(c)

(* What has given a reason once, and has made a call stale, stays; and a   *)
(* refresh token that is spent makes the calls stale that rely on it.      *)
Spends(c) ==
  /\ cause \subseteq cause'
  /\ \A d \in Callers \ {c} : d \in stale => d \in stale'
  /\ \/ accepted \subseteq accepted'
     \/ Rotating /\ "trouble" \in cause'
     \/ /\ Rotating
        /\ \A d \in Callers \ {c} :
             caller[d].pc \in {"start", "lock", "wait", "call"} => d \in stale'

(* A step of one call leaves the others with what they rely on.            *)
LEMMA OneCallStep ==
  ASSUME ReusableInv, RefreshableInv', NEW c \in Callers, OneCall(c), Spends(c),
         RowReusable', CallReusable(c)'
  PROVE  ReusableInv'
<1>1. ASSUME NEW d \in Callers, d # c PROVE CallReusable(d)'
  <2>1. caller'[d] = caller[d] /\ CallReusable(d)
    BY <1>1 DEF OneCall, ReusableInv
  <2>2. caller[d].pc \in {"start", "lock", "wait", "call"} /\ Usable(d, caller[d].snap.cred)
          => Usable(d, caller[d].snap.cred)'
    BY <1>1, <2>1 DEF Usable, Spends
  <2>3. Reason => Reason'
    BY DEF Reason, Spends
  <2> QED BY <2>1, <2>2, <2>3 DEF CallReusable
<1> QED BY <1>1 DEF ReusableInv

(* A call up to its request, its waiting and its end. *)
LEMMA ReusableCall ==
  ASSUME ReusableInv, RefreshableInv', NEW c \in Callers,
         \/ ReadAccount(c) \/ Start(c) \/ AcquireLock(c) \/ LockTaken(c) \/ RedisFails(c)
         \/ Poll(c) \/ PollThrows(c) \/ TakeOver(c) \/ Done(c) \/ Crash(c)
         \/ MarkFails(c) \/ ReleaseLock(c)
  PROVE  ReusableInv'
<1> USE DEF CallerOnly, history
<1>t. /\ TypeOK /\ caller \in [Callers -> Call] /\ caller[c] \in Call
      /\ RowReusable /\ CallReusable(c)
  BY DEF ReusableInv, RefreshableInv, TypeOK
<1>u. UNCHANGED <<row, accepted, cause>> /\ (stale' = stale \/ ReadAccount(c))
  BY DEF ReadAccount, Start, AcquireLock, LockTaken, RedisFails, Poll, PollThrows, TakeOver,
         Done, Crash, MarkFails, ReleaseLock
<1>s. Spends(c)
  BY <1>u DEF Spends, ReadAccount
<1>r. RowReusable'
  BY <1>t, <1>u DEF RowReusable, ReauthHasCause, Reason
<1>1. CASE ReadAccount(c)
  <2>1. OneCall(c) /\ caller'[c].pc = "start" /\ caller'[c].snap = row
    BY <1>1, <1>t DEF ReadAccount, OneCall, Idle
  <2>2. row.status = "CONNECTED" => row.cred.refresh \in accepted \/ (Rotating /\ c \in stale')
    <3>1. (Settled /\ ~torn) \/ c \in stale'
      BY <1>1 DEF ReadAccount
    <3> QED BY <1>t, <3>1 DEF RowReusable, ReusableInv, RefreshableInv, ConnectedIsRefreshable
  <2>3. CallReusable(c)'
    BY <1>u, <2>1, <2>2 DEF CallReusable, Usable
  <2> QED BY <1>r, <1>s, <2>1, <2>3, OneCallStep
<1>2. CASE Start(c)
  <2>1. CASE caller[c].snap.status # "CONNECTED" /\ Throw(c)
    <3>1. OneCall(c) /\ caller'[c].pc = "done"
      BY <1>t, <2>1, CallShape DEF Throw
    <3> QED BY <1>r, <1>s, <3>1, OneCallStep DEF CallReusable
  <2>2. CASE caller[c].snap.status = "CONNECTED" /\ Goto(c, "lock")
    <3>1. OneCall(c) /\ caller'[c].pc = "lock" /\ caller'[c].snap = caller[c].snap
      BY <1>t, <2>2, CallShape
    <3>2. stale' = stale
      BY <1>2 DEF Start
    <3>3. CallReusable(c)'
      BY <1>2, <1>t, <1>u, <2>2, <3>1, <3>2 DEF CallReusable, Usable, Start
    <3> QED BY <1>r, <1>s, <3>1, <3>3, OneCallStep
  <2>3. CASE Return(c, caller[c].snap.cred.access)
    <3>1. OneCall(c) /\ caller'[c].pc = "done"
      BY <1>t, <2>3, CallShape
    <3> QED BY <1>r, <1>s, <3>1, OneCallStep DEF CallReusable
  <2> QED BY <1>2, <2>1, <2>2, <2>3 DEF Start
<1>3. CASE AcquireLock(c) \/ LockTaken(c) \/ TakeOver(c)
  <2>1. /\ OneCall(c) /\ caller'[c].pc \in {"call", "wait"} /\ caller[c].pc \in {"lock", "wait"}
        /\ caller'[c].snap = caller[c].snap
    BY <1>3, <1>t DEF AcquireLock, LockTaken, TakeOver, OneCall, Call
  <2>2. stale' = stale
    BY <1>3 DEF AcquireLock, LockTaken, TakeOver
  <2>3. CallReusable(c)'
    BY <1>t, <1>u, <2>1, <2>2 DEF CallReusable, Usable
  <2> QED BY <1>r, <1>s, <2>1, <2>3, OneCallStep
<1>4. CASE RedisFails(c) \/ Poll(c) \/ PollThrows(c)
  <2>1. OneCall(c) /\ caller'[c].pc = "done"
    BY <1>4, <1>t, CallShape DEF RedisFails, Poll, PollThrows, Throw
  <2> QED BY <1>r, <1>s, <2>1, OneCallStep DEF CallReusable
<1>5. CASE Done(c) \/ Crash(c)
  <2>1. OneCall(c) /\ caller'[c].pc = "idle"
    BY <1>5, <1>t DEF Done, Crash, OneCall, Idle
  <2> QED BY <1>r, <1>s, <2>1, OneCallStep DEF CallReusable
<1>6. CASE MarkFails(c) \/ ReleaseLock(c)
  <2>1. OneCall(c) /\ caller'[c].pc \in {"release", "done"}
    BY <1>6, <1>t, CallShape DEF MarkFails, ReleaseLock
  <2> QED BY <1>r, <1>s, <2>1, OneCallStep DEF CallReusable
<1> QED BY <1>1, <1>2, <1>3, <1>4, <1>5, <1>6

(* The outcomes of a request, and what is made of them. *)
LEMMA ReusableRefresh ==
  ASSUME ReusableInv, RefreshableInv', NEW c \in Callers,
         \/ Refreshed(c) \/ RefreshedUndated(c) \/ RefreshRejected(c) \/ RefreshRefused(c)
         \/ RefreshAnswerLost(c) \/ TimedOut(c) \/ Persist(c) \/ PersistFails(c)
         \/ MarkRefreshFailed(c)
  PROVE  ReusableInv'
<1> USE DEF history, Trouble
<1>t. /\ TypeOK /\ caller \in [Callers -> Call] /\ caller[c] \in Call /\ row \in Account
      /\ RowReusable /\ CallReusable(c)
  BY DEF ReusableInv, RefreshableInv, TypeOK
<1>1. ASSUME NEW expiry, Refresh(c, expiry) PROVE ReusableInv'
  <2>1. OneCall(c) /\ caller'[c].pc = "persist"
    BY <1>1, <1>t DEF Refresh, OneCall, Call
  <2>2. /\ UNCHANGED <<row, cause>> /\ stale \subseteq stale'
        /\ \A d \in Callers \ {c} :
             caller[d].pc \in {"start", "lock", "wait", "call"} => d \in stale'
        /\ ~Rotating => accepted' = accepted
    BY <1>1 DEF Refresh
  <2>3. RowReusable' /\ CallReusable(c)' /\ Spends(c)
    BY <1>t, <2>1, <2>2 DEF RowReusable, ReauthHasCause, Reason, CallReusable, Spends
  <2> QED BY <2>1, <2>3, OneCallStep
<1>2. CASE Refreshed(c) \/ RefreshedUndated(c)
  BY <1>1, <1>2 DEF Refreshed, RefreshedUndated
<1>3. CASE RefreshRejected(c)
  <2>1. OneCall(c) /\ caller'[c].pc = "fail"
    BY <1>3, <1>t, CallShape DEF RefreshRejected
  <2>2. /\ row' = row /\ accepted' = accepted /\ stale' = stale
        /\ cause' = IF c \in stale THEN cause \cup {"race"} ELSE cause
    BY <1>3 DEF RefreshRejected
  <2>3. Rotating /\ (c \in stale \/ "trouble" \in cause)
    BY <1>3, <1>t DEF RefreshRejected, CallReusable, Usable
  <2>4. RowReusable' /\ CallReusable(c)' /\ Spends(c)
    BY <1>t, <2>1, <2>2, <2>3 DEF RowReusable, ReauthHasCause, Reason, CallReusable, Spends
  <2> QED BY <2>1, <2>4, OneCallStep
<1>4. CASE RefreshRefused(c) \/ RefreshAnswerLost(c) \/ TimedOut(c) \/ PersistFails(c)
  <2>1. OneCall(c) /\ caller'[c].pc = "fail"
    BY <1>4, <1>t, CallShape DEF RefreshRefused, RefreshAnswerLost, TimedOut, PersistFails
  <2>2. row' = row /\ stale' = stale /\ cause' = cause \cup {"trouble"}
    BY <1>4 DEF RefreshRefused, RefreshAnswerLost, TimedOut, PersistFails
  <2>3. accepted' = accepted \/ Rotating
    BY <1>4 DEF RefreshRefused, RefreshAnswerLost, TimedOut, PersistFails
  <2>4. RowReusable' /\ CallReusable(c)' /\ Spends(c)
    BY <1>t, <2>1, <2>2, <2>3 DEF RowReusable, ReauthHasCause, Reason, CallReusable, Spends
  <2> QED BY <2>1, <2>4, OneCallStep
<1>5. CASE Persist(c)
  <2>1. OneCall(c) /\ caller'[c].pc \in {"release", "done"}
    BY <1>5, <1>t, CallShape DEF Persist
  <2>2. /\ row'.status = "CONNECTED" /\ row'.cred.refresh = caller[c].new.refresh
        /\ caller[c].pc = "persist" /\ UNCHANGED <<accepted, stale, cause>>
    BY <1>5 DEF Persist
  <2>3. caller[c].new.refresh \in accepted
    BY <2>2 DEF ReusableInv, RefreshableInv, Unspent
  <2>4. RowReusable' /\ CallReusable(c)' /\ Spends(c)
    BY <2>1, <2>2, <2>3 DEF RowReusable, ReauthHasCause, CallReusable, Spends
  <2> QED BY <2>1, <2>4, OneCallStep
<1>6. CASE MarkRefreshFailed(c)
  <2>1. OneCall(c) /\ caller'[c].pc \in {"release", "done"}
    BY <1>6, <1>t, CallShape DEF MarkRefreshFailed
  <2>2. row'.status = "REAUTHORIZATION_REQUIRED" /\ Reason /\ UNCHANGED <<accepted, stale, cause>>
    BY <1>6, <1>t DEF MarkRefreshFailed, Account, CallReusable
  <2>3. RowReusable' /\ CallReusable(c)' /\ Spends(c)
    BY <2>1, <2>2 DEF RowReusable, ReauthHasCause, Reason, CallReusable, Spends
  <2> QED BY <2>1, <2>3, OneCallStep
<1> QED BY <1>2, <1>3, <1>4, <1>5, <1>6

(* Links, disconnections, denials, dates and time. *)
LEMMA ReusableWorld ==
  ASSUME ReusableInv, RefreshableInv',
         \/ \E n \in 1..MaxTokens : Expire(n)
         \/ Disconnect \/ Link \/ DenyReauthorization \/ Tick
  PROVE  ReusableInv'
<1> USE DEF history, Trouble
<1>t. caller \in [Callers -> Call] /\ row \in Account
  BY DEF ReusableInv, RefreshableInv, TypeOK
<1>1. accepted \subseteq accepted' /\ cause \subseteq cause' /\ stale' = stale
  BY DEF Expire, Disconnect, Link, DenyReauthorization, Tick
<1>2. RowReusable'
  <2>1. CASE Tick \/ \E n \in 1..MaxTokens : Expire(n)
    BY <2>1 DEF ReusableInv, RowReusable, ReauthHasCause, Reason, Tick, Expire
  <2>2. CASE Disconnect
    BY <2>2 DEF RowReusable, ReauthHasCause, Disconnect
  <2>3. CASE Link
    <3>1. row'.status = "CONNECTED" /\ row'.cred.refresh = issued + 1 /\ issued + 1 \in accepted'
      BY <2>3 DEF Link, Fresh
    <3> QED BY <3>1 DEF RowReusable, ReauthHasCause
  <2>4. CASE DenyReauthorization
    BY <1>t, <2>4 DEF RowReusable, ReauthHasCause, Reason, DenyReauthorization, Account
  <2> QED BY <2>1, <2>2, <2>3, <2>4
<1>3. ASSUME NEW c \in Callers PROVE CallReusable(c)'
  <2>1. caller'[c].pc = caller[c].pc /\ caller'[c].snap = caller[c].snap
    BY <1>t DEF Expire, Disconnect, Link, DenyReauthorization, Tick, Call
  <2>2. CallReusable(c)
    BY DEF ReusableInv
  <2> QED BY <1>1, <2>1, <2>2 DEF CallReusable, Usable, Reason
<1> QED BY <1>2, <1>3 DEF ReusableInv

(* The user is asked to authorize again only when the platform, the        *)
(* database or the user gave a reason, whatever the calls, their processes *)
(* and Redis do; and, where refresh tokens rotate, also when a call        *)
(* refreshed with a token that another call was using when it was read, or *)
(* has used since, or may have spent without a word: neither the lock nor  *)
(* its absence matters (token-vault.service.ts, requireValidAccessToken).  *)
THEOREM CauseOfReauth == Spec => []ReauthHasCause
<1>1. Init => ReusableInv
  BY RefreshableInit
     DEF Init, Fresh, Idle, ReusableInv, RowReusable, CallReusable, ReauthHasCause
<1>2. ReusableInv /\ [Next]_vars => ReusableInv'
  <2> SUFFICES ASSUME ReusableInv, [Next]_vars PROVE ReusableInv'
    OBVIOUS
  <2>t. RefreshableInv'
    BY RefreshableStep DEF ReusableInv
  <2>1. CASE UNCHANGED vars
    BY <2>1, <2>t DEF vars, ReusableInv, RowReusable, CallReusable, Usable, ReauthHasCause, Reason
  <2>2. ASSUME NEW c \in Callers, ReadAccount(c) \/ CallStep(c) \/ CallFault(c) \/ Done(c)
        PROVE ReusableInv'
    BY <2>t, <2>2, ReusableCall, ReusableRefresh DEF CallStep, CallFault
  <2>3. CASE \/ \E n \in 1..MaxTokens : Expire(n)
             \/ Disconnect \/ Link \/ DenyReauthorization \/ Tick
    BY <2>t, <2>3, ReusableWorld
  <2> QED BY <2>1, <2>2, <2>3 DEF Next
<1>3. ReusableInv => ReauthHasCause
  BY DEF ReusableInv, RowReusable
<1> QED BY <1>1, <1>2, <1>3, PTL DEF Spec

-----------------------------------------------------------------------------
(* A call never returns the token it found expired                         *)

(* The same access token always has the same date: a waiting call that     *)
(* finds the token it came with also finds the date it came with, which    *)
(* has passed. A renewed token is one that nobody has seen before.         *)
AtWork == {"lock", "wait", "call", "persist", "fail", "release"}
SameDate(c) ==
  row.cred.access # 0 /\ row.cred.access = caller[c].snap.cred.access
    => row.cred.expiry = caller[c].snap.cred.expiry
WorksOnExpired(c) ==
  /\ caller[c].pc = "start" => caller[c].token = 0
  /\ caller[c].pc \in AtWork =>
       /\ IsExpired(caller[c].snap.cred)
       /\ \/ caller[c].token = 0
          \/ caller[c].pc = "release" /\ caller[c].token # caller[c].snap.cred.access
Unseen(c) ==
  caller[c].pc = "persist" =>
    /\ caller[c].new.access \in 1..issued /\ caller[c].new.access # row.cred.access
    /\ \A d \in Callers : /\ caller[c].new.access # caller[d].snap.cred.access
                          /\ d # c /\ caller[d].pc = "persist"
                               => caller[c].new.access # caller[d].new.access

RenewedInv ==
  /\ TypeOK
  /\ row.cred.access \in 0..issued
  /\ \A c \in Callers : /\ caller[c].snap.cred.access \in 0..issued
                        /\ SameDate(c) /\ WorksOnExpired(c) /\ Unseen(c)

(* What one step gives the calls, and what HandsOutRenewed says of it. *)
GivesRenewed ==
  \A c \in Callers :
    caller[c].pc \in {"wait", "call", "persist", "release"} /\ caller'[c].token # 0
    => caller'[c].token # caller[c].snap.cred.access

(* A call that is left alone returns nothing it had not returned before. *)
LEMMA OthersGiveRenewed ==
  ASSUME RenewedInv, NEW c \in Callers, OneCall(c),
         caller[c].pc \in {"wait", "call", "persist", "release"} /\ caller'[c].token # 0
           => caller'[c].token # caller[c].snap.cred.access
  PROVE  GivesRenewed
BY DEF GivesRenewed, RenewedInv, WorksOnExpired, AtWork, OneCall

(* Steps of one call that renew nothing and leave the account's tokens. *)
LEMMA RenewedQuiet ==
  ASSUME RenewedInv, TypeOK', NEW c \in Callers, OneCall(c),
         issued' = issued, expired' = expired, row'.cred = row.cred,
         caller'[c].pc # "persist",
         \/ caller'[c].snap = caller[c].snap
         \/ caller'[c].snap = row
         \/ caller'[c].snap.cred.access = 0,
         caller'[c].pc = "start" => caller'[c].token = 0,
         caller'[c].pc \in AtWork =>
           /\ caller'[c].snap = caller[c].snap
           /\ IsExpired(caller[c].snap.cred)
           /\ \/ caller'[c].token = 0
              \/ caller'[c].pc = "release" /\ caller'[c].token # caller[c].snap.cred.access
  PROVE  RenewedInv'
<1>1. row'.cred.access \in 0..issued'
  BY DEF RenewedInv
<1>t. issued \in Nat /\ 0 \in 0..issued
  BY VaultBoundsAssumption DEF RenewedInv, TypeOK
<1>2. ASSUME NEW d \in Callers
      PROVE  caller'[d].snap.cred.access \in 0..issued' /\ SameDate(d)'
  <2>1. CASE caller'[d].snap = caller[d].snap
    BY <2>1 DEF RenewedInv, SameDate
  <2>2. CASE d = c /\ caller'[c].snap = row
    BY <2>2 DEF RenewedInv, SameDate
  <2>3. CASE d = c /\ caller'[c].snap.cred.access = 0
    BY <2>3, <1>t DEF RenewedInv, SameDate
  <2> QED BY <2>1, <2>2, <2>3 DEF OneCall
<1>3. ASSUME NEW d \in Callers
      PROVE  WorksOnExpired(d)'
  <2>1. CASE d = c
    BY <2>1 DEF WorksOnExpired, IsExpired
  <2>2. CASE d # c
    BY <2>2 DEF RenewedInv, WorksOnExpired, IsExpired, OneCall
  <2> QED BY <2>1, <2>2
<1>4. ASSUME NEW d \in Callers
      PROVE  Unseen(d)'
  <2> SUFFICES ASSUME caller'[d].pc = "persist" PROVE Unseen(d)'
    BY DEF Unseen
  <2>1. d # c /\ caller'[d] = caller[d]
    BY DEF OneCall
  <2>2. /\ caller[d].new.access \in 1..issued /\ caller[d].new.access # row.cred.access
        /\ \A e \in Callers : /\ caller[d].new.access # caller[e].snap.cred.access
                              /\ e # d /\ caller[e].pc = "persist"
                                   => caller[d].new.access # caller[e].new.access
    BY <2>1 DEF RenewedInv, Unseen
  <2>3. caller[d].new.access # 0
    BY <2>2
  <2>4. ASSUME NEW e \in Callers
        PROVE  /\ caller'[d].new.access # caller'[e].snap.cred.access
               /\ e # d /\ caller'[e].pc = "persist"
                    => caller'[d].new.access # caller'[e].new.access
    BY <2>1, <2>2, <2>3 DEF OneCall
  <2> QED BY <2>1, <2>2, <2>4 DEF Unseen
<1> QED BY <1>1, <1>2, <1>3, <1>4 DEF RenewedInv

(* The token a step leaves a call with. *)
LEMMA TokenShape ==
  ASSUME TypeOK, NEW c \in Callers, NEW token, NEW pc
  PROVE  /\ Goto(c, pc) => caller'[c].token = caller[c].token
         /\ Return(c, token) => caller'[c].token = token
         /\ Finish(c, token) => caller'[c].token = token
<1>1. caller \in [Callers -> Call] /\ caller[c] \in Call
  BY DEF TypeOK
<1>2. Goto(c, pc) => caller'[c].token = caller[c].token
  BY <1>1 DEF Goto, Call
<1>3. Return(c, token) => caller'[c].token = token
  BY <1>1 DEF Return, Call, Idle
<1>4. Finish(c, token) => caller'[c].token = token
  BY <1>1 DEF Finish, Call
<1> QED BY <1>2, <1>3, <1>4

(* The steps of a call that renew nothing. *)
LEMMA RenewedCall ==
  ASSUME RenewedInv, TypeOK', NEW c \in Callers,
         \/ ReadAccount(c) \/ Start(c) \/ AcquireLock(c) \/ LockTaken(c) \/ RedisFails(c)
         \/ Poll(c) \/ PollThrows(c) \/ TakeOver(c) \/ Done(c) \/ Crash(c)
         \/ RefreshRejected(c) \/ RefreshRefused(c) \/ RefreshAnswerLost(c) \/ TimedOut(c)
         \/ PersistFails(c) \/ MarkRefreshFailed(c) \/ MarkFails(c) \/ ReleaseLock(c)
  PROVE  RenewedInv' /\ GivesRenewed
<1> USE DEF CallerOnly, history
<1>t. TypeOK /\ caller \in [Callers -> Call] /\ caller[c] \in Call /\ row \in Account
  BY DEF RenewedInv, TypeOK
<1>w. WorksOnExpired(c) /\ SameDate(c)
  BY DEF RenewedInv
<1>i. Idle.pc = "idle" /\ Idle.token = 0 /\ Idle.snap.cred.access = 0
  BY DEF Idle, Cleared
<1>1. CASE ReadAccount(c)
  <2>1. /\ OneCall(c) /\ caller'[c].pc = "start" /\ caller'[c].snap = row /\ caller[c].pc = "idle"
        /\ caller'[c].token = 0
    BY <1>1, <1>t DEF ReadAccount, OneCall, Idle
  <2>2. RenewedInv'
    BY <1>1, <2>1, RenewedQuiet DEF ReadAccount, AtWork
  <2> QED BY <2>1, <2>2, OthersGiveRenewed
<1>2. CASE Start(c)
  <2>1. /\ OneCall(c) /\ caller[c].pc = "start" /\ caller'[c].snap = caller[c].snap
        /\ \/ caller'[c].pc = "done"
           \/ /\ caller'[c].pc = "lock" /\ IsExpired(caller[c].snap.cred)
              /\ caller'[c].token = caller[c].token
    BY <1>2, <1>t, CallShape, TokenShape DEF Start, Throw
  <2>2. RenewedInv'
    BY <1>2, <1>w, <2>1, RenewedQuiet DEF Start, AtWork, WorksOnExpired
  <2> QED BY <2>1, <2>2, OthersGiveRenewed
<1>3. CASE AcquireLock(c) \/ LockTaken(c) \/ TakeOver(c)
  <2>1. /\ OneCall(c) /\ caller'[c].pc \in {"call", "wait"} /\ caller[c].pc \in {"lock", "wait"}
        /\ caller'[c].snap = caller[c].snap /\ caller'[c].token = caller[c].token
    BY <1>3, <1>t DEF AcquireLock, LockTaken, TakeOver, OneCall, Call
  <2>2. IsExpired(caller[c].snap.cred) /\ caller'[c].token = 0
    BY <1>w, <2>1 DEF WorksOnExpired, AtWork
  <2>3. RenewedInv'
    BY <1>3, <2>1, <2>2, RenewedQuiet DEF AcquireLock, LockTaken, TakeOver
  <2> QED BY <2>1, <2>2, <2>3, OthersGiveRenewed
<1>4. CASE RedisFails(c) \/ PollThrows(c)
  <2>1. /\ OneCall(c) /\ caller'[c].pc = "done" /\ caller'[c].snap = caller[c].snap
        /\ caller'[c].token = 0
    BY <1>4, <1>t, CallShape, TokenShape DEF RedisFails, PollThrows, Throw
  <2>2. RenewedInv'
    BY <1>4, <2>1, RenewedQuiet DEF RedisFails, PollThrows, AtWork
  <2> QED BY <2>1, <2>2, OthersGiveRenewed
<1>5. CASE Poll(c)
  <2>1. /\ OneCall(c) /\ caller'[c].pc = "done" /\ caller'[c].snap = caller[c].snap
        /\ caller'[c].token = row.cred.access /\ caller[c].pc = "wait"
    BY <1>5, <1>t, CallShape, TokenShape DEF Poll
  <2>2. RenewedInv'
    BY <1>5, <2>1, RenewedQuiet DEF Poll, AtWork
  <2>3. row.cred.access # caller[c].snap.cred.access
    <3>1. IsExpired(caller[c].snap.cred)
      BY <1>w, <2>1 DEF WorksOnExpired, AtWork
    <3> QED BY <1>5, <1>w, <3>1 DEF Poll, Answered, SameDate, IsExpired
  <2> QED BY <2>1, <2>2, <2>3, OthersGiveRenewed
<1>6. CASE Done(c) \/ Crash(c)
  <2>1. OneCall(c) /\ caller'[c] = Idle
    BY <1>6, <1>t DEF Done, Crash, OneCall
  <2>2. RenewedInv'
    BY <1>6, <1>i, <2>1, RenewedQuiet DEF Done, Crash, AtWork
  <2> QED BY <1>i, <2>1, <2>2, OthersGiveRenewed
<1>7. CASE RefreshRejected(c) \/ RefreshRefused(c) \/ RefreshAnswerLost(c) \/ TimedOut(c)
           \/ PersistFails(c)
  <2>1. /\ OneCall(c) /\ caller'[c].pc = "fail" /\ caller'[c].snap = caller[c].snap
        /\ caller'[c].token = caller[c].token /\ caller[c].pc \in {"call", "persist"}
    BY <1>7, <1>t, CallShape, TokenShape
       DEF RefreshRejected, RefreshRefused, RefreshAnswerLost, TimedOut, PersistFails
  <2>2. IsExpired(caller[c].snap.cred) /\ caller'[c].token = 0
    BY <1>w, <2>1 DEF WorksOnExpired, AtWork
  <2>3. RenewedInv'
    BY <1>7, <2>1, <2>2, RenewedQuiet
       DEF RefreshRejected, RefreshRefused, RefreshAnswerLost, TimedOut, PersistFails
  <2> QED BY <2>1, <2>2, <2>3, OthersGiveRenewed
<1>8. CASE MarkRefreshFailed(c) \/ MarkFails(c)
  <2>1. /\ OneCall(c) /\ caller'[c].pc \in {"release", "done"} /\ caller[c].pc = "fail"
        /\ caller'[c].snap = caller[c].snap /\ caller'[c].token = 0
    BY <1>8, <1>t, CallShape, TokenShape DEF MarkRefreshFailed, MarkFails
  <2>2. row'.cred = row.cred
    BY <1>8, <1>t DEF MarkRefreshFailed, MarkFails, Account
  <2>3. IsExpired(caller[c].snap.cred)
    BY <1>w, <2>1 DEF WorksOnExpired, AtWork
  <2>4. RenewedInv'
    BY <1>8, <2>1, <2>2, <2>3, RenewedQuiet DEF MarkRefreshFailed, MarkFails
  <2> QED BY <2>1, <2>4, OthersGiveRenewed
<1>9. CASE ReleaseLock(c)
  <2>1. /\ OneCall(c) /\ caller'[c].pc = "done" /\ caller[c].pc = "release"
        /\ caller'[c].snap = caller[c].snap /\ caller'[c].token = caller[c].token
    BY <1>9, <1>t, CallShape, TokenShape DEF ReleaseLock
  <2>2. RenewedInv'
    BY <1>9, <2>1, RenewedQuiet DEF ReleaseLock, AtWork
  <2>3. caller[c].token = 0 \/ caller[c].token # caller[c].snap.cred.access
    BY <1>w, <2>1 DEF WorksOnExpired, AtWork
  <2> QED BY <2>1, <2>2, <2>3, OthersGiveRenewed
<1> QED BY <1>1, <1>2, <1>3, <1>4, <1>5, <1>6, <1>7, <1>8, <1>9

(* A renewed token is a new one, whether its date is new or the old one.   *)
LEMMA RenewedRefresh ==
  ASSUME RenewedInv, TypeOK', NEW c \in Callers, NEW expiry, Refresh(c, expiry)
  PROVE  RenewedInv' /\ GivesRenewed
<1>t. TypeOK /\ caller \in [Callers -> Call] /\ caller[c] \in Call /\ issued \in Nat
  BY VaultBoundsAssumption DEF RenewedInv, TypeOK
<1>1. /\ OneCall(c) /\ caller[c].pc = "call" /\ caller'[c].pc = "persist"
      /\ caller'[c].snap = caller[c].snap /\ caller'[c].token = caller[c].token
      /\ caller'[c].new.access = issued + 1
  BY <1>t DEF Refresh, OneCall, Call
<1>2. row' = row /\ expired' = expired /\ issued' = issued + 1
  BY DEF Refresh
<1>3. \A d \in Callers : caller'[d].snap = caller[d].snap
  BY <1>1 DEF OneCall
<1>4. row'.cred.access \in 0..issued
  BY <1>2 DEF RenewedInv
<1>5. \A d \in Callers : caller'[d].snap.cred.access \in 0..issued /\ SameDate(d)'
  BY <1>2, <1>3 DEF RenewedInv, SameDate
<1>6. IsExpired(caller[c].snap.cred) /\ caller'[c].token = 0
  BY <1>1 DEF RenewedInv, WorksOnExpired, AtWork
<1>7. \A d \in Callers : WorksOnExpired(d)'
  <2>1. WorksOnExpired(c)'
    BY <1>1, <1>2, <1>6 DEF WorksOnExpired, IsExpired
  <2>2. \A d \in Callers \ {c} : WorksOnExpired(d)'
    BY <1>1, <1>2 DEF RenewedInv, WorksOnExpired, IsExpired, OneCall
  <2> QED BY <2>1, <2>2
<1>8. \A d \in Callers \ {c} : caller'[d].pc = "persist" => caller'[d].new.access \in 1..issued
  BY <1>1 DEF RenewedInv, Unseen, OneCall
<1>9. ASSUME NEW d \in Callers, caller'[d].pc = "persist"
      PROVE  Unseen(d)'
  <2>1. CASE d = c
    <3>1. caller'[c].new.access \in 1..issued' /\ caller'[c].new.access # row'.cred.access
      BY <1>1, <1>2, <1>4, <1>t
    <3>2. \A e \in Callers : caller'[c].new.access # caller'[e].snap.cred.access
      BY <1>1, <1>5, <1>t
    <3>3. \A e \in Callers : e # c /\ caller'[e].pc = "persist"
                             => caller'[c].new.access # caller'[e].new.access
      BY <1>1, <1>8, <1>t
    <3> QED BY <2>1, <3>1, <3>2, <3>3 DEF Unseen
  <2>2. CASE d # c
    <3>1. caller'[d] = caller[d]
      BY <1>1, <2>2 DEF OneCall
    <3>2. /\ caller[d].new.access \in 1..issued /\ caller[d].new.access # row.cred.access
          /\ \A e \in Callers : /\ caller[d].new.access # caller[e].snap.cred.access
                                /\ e # d /\ caller[e].pc = "persist"
                                     => caller[d].new.access # caller[e].new.access
      BY <1>9, <3>1 DEF RenewedInv, Unseen
    <3>3. caller'[d].new.access # caller'[c].new.access
      BY <1>1, <1>t, <3>1, <3>2
    <3>4. \A e \in Callers : e # d /\ caller'[e].pc = "persist"
                             => caller'[d].new.access # caller'[e].new.access
      BY <1>1, <3>1, <3>2, <3>3 DEF OneCall
    <3>5. caller'[d].new.access \in 1..issued'
      BY <1>2, <1>t, <3>1, <3>2
    <3> QED BY <1>2, <1>3, <3>1, <3>2, <3>4, <3>5 DEF Unseen
  <2> QED BY <2>1, <2>2
<1>10. \A d \in Callers : Unseen(d)'
  BY <1>9 DEF Unseen
<1>11. \A n \in 0..issued : n \in 0..issued'
  BY <1>2, <1>t
<1>12. RenewedInv'
  BY <1>4, <1>5, <1>7, <1>10, <1>11 DEF RenewedInv
<1> QED BY <1>1, <1>6, <1>12, OthersGiveRenewed

(* The renewed tokens are stored, and handed out by the call that renewed. *)
LEMMA RenewedPersist ==
  ASSUME RenewedInv, TypeOK', NEW c \in Callers, Persist(c)
  PROVE  RenewedInv' /\ GivesRenewed
<1>t. TypeOK /\ caller \in [Callers -> Call] /\ caller[c] \in Call /\ issued \in Nat
  BY VaultBoundsAssumption DEF RenewedInv, TypeOK
<1>1. /\ OneCall(c) /\ caller[c].pc = "persist" /\ caller'[c].pc \in {"release", "done"}
      /\ caller'[c].snap = caller[c].snap /\ caller'[c].token = caller[c].new.access
  BY <1>t, CallShape, TokenShape DEF Persist
<1>2. row'.cred = caller[c].new /\ expired' = expired /\ issued' = issued
  BY DEF Persist
<1>3. /\ caller[c].new.access \in 1..issued
      /\ \A d \in Callers : /\ caller[c].new.access # caller[d].snap.cred.access
                            /\ d # c /\ caller[d].pc = "persist"
                                 => caller[c].new.access # caller[d].new.access
  BY <1>1 DEF RenewedInv, Unseen
<1>4. \A d \in Callers : caller'[d].snap = caller[d].snap
  BY <1>1 DEF OneCall
<1>5. row'.cred.access \in 0..issued'
  BY <1>2, <1>3, <1>t
<1>6. \A d \in Callers : caller'[d].snap.cred.access \in 0..issued' /\ SameDate(d)'
  BY <1>2, <1>3, <1>4 DEF RenewedInv, SameDate
<1>7. IsExpired(caller[c].snap.cred)
  BY <1>1 DEF RenewedInv, WorksOnExpired, AtWork
<1>8. \A d \in Callers : WorksOnExpired(d)'
  <2>1. WorksOnExpired(c)'
    BY <1>1, <1>2, <1>3, <1>7 DEF WorksOnExpired, IsExpired, AtWork
  <2>2. \A d \in Callers \ {c} : WorksOnExpired(d)'
    BY <1>1, <1>2 DEF RenewedInv, WorksOnExpired, IsExpired, OneCall
  <2> QED BY <2>1, <2>2
<1>9. ASSUME NEW d \in Callers, caller'[d].pc = "persist"
      PROVE  Unseen(d)'
  <2>1. d # c /\ caller'[d] = caller[d]
    BY <1>1, <1>9 DEF OneCall
  <2>2. /\ caller[d].new.access \in 1..issued
        /\ \A e \in Callers : /\ caller[d].new.access # caller[e].snap.cred.access
                              /\ e # d /\ caller[e].pc = "persist"
                                   => caller[d].new.access # caller[e].new.access
    BY <1>9, <2>1 DEF RenewedInv, Unseen
  <2>3. caller[d].new.access # row'.cred.access
    BY <1>1, <1>2, <2>1, <2>2
  <2>4. \A e \in Callers : e # d /\ caller'[e].pc = "persist"
                           => caller'[d].new.access # caller'[e].new.access
    BY <1>1, <2>1, <2>2 DEF OneCall
  <2> QED BY <1>2, <1>4, <2>1, <2>2, <2>3, <2>4 DEF Unseen
<1>10. \A d \in Callers : Unseen(d)'
  BY <1>9 DEF Unseen
<1>11. RenewedInv'
  BY <1>5, <1>6, <1>8, <1>10 DEF RenewedInv
<1> QED BY <1>1, <1>3, <1>11, OthersGiveRenewed

(* The world around the calls: dates pass, and a new link brings tokens    *)
(* that no call has.                                                       *)
LEMMA RenewedWorld ==
  ASSUME RenewedInv, TypeOK',
         \/ \E n \in 1..MaxTokens : Expire(n)
         \/ Disconnect \/ Link \/ DenyReauthorization \/ Tick
  PROVE  RenewedInv' /\ GivesRenewed
<1>t. TypeOK /\ caller \in [Callers -> Call] /\ issued \in Nat /\ row \in Account
  BY VaultBoundsAssumption DEF RenewedInv, TypeOK
<1>1. /\ expired \subseteq expired' /\ issued' \in {issued, issued + 1}
      /\ \/ row'.cred = row.cred /\ issued' = issued
         \/ row'.cred.access = 0 /\ issued' = issued
         \/ row'.cred.access = issued + 1 /\ issued' = issued + 1
  BY <1>t DEF Expire, Disconnect, Link, DenyReauthorization, Tick, Cleared, Fresh, Account
<1>2. \A d \in Callers : /\ caller'[d].pc = caller[d].pc /\ caller'[d].snap = caller[d].snap
                        /\ caller'[d].new = caller[d].new /\ caller'[d].token = caller[d].token
  <2>1. CASE Tick
    BY <1>t, <2>1 DEF Tick, Call
  <2>2. CASE caller' = caller
    BY <2>2
  <2> QED BY <2>1, <2>2 DEF Expire, Disconnect, Link, DenyReauthorization
<1>3. row'.cred.access \in 0..issued'
  BY <1>1, <1>t DEF RenewedInv
<1>4. \A d \in Callers : caller[d].snap.cred.access \in 0..issued
  BY DEF RenewedInv
<1>5. ASSUME NEW d \in Callers
      PROVE  caller'[d].snap.cred.access \in 0..issued' /\ SameDate(d)' /\ WorksOnExpired(d)'
  <2>1. caller'[d].snap.cred.access \in 0..issued'
    BY <1>1, <1>2, <1>4, <1>t
  <2>2. SameDate(d)'
    <3>1. CASE row'.cred = row.cred
      BY <1>2, <3>1 DEF RenewedInv, SameDate
    <3>2. CASE row'.cred.access = 0
      BY <3>2 DEF SameDate
    <3>3. CASE row'.cred.access = issued + 1
      BY <1>2, <1>4, <1>t, <3>3 DEF SameDate
    <3> QED BY <1>1, <3>1, <3>2, <3>3
  <2>3. WorksOnExpired(d)'
    BY <1>1, <1>2 DEF RenewedInv, WorksOnExpired, IsExpired
  <2> QED BY <2>1, <2>2, <2>3
<1>6. ASSUME NEW d \in Callers, caller'[d].pc = "persist"
      PROVE  Unseen(d)'
  <2>1. /\ caller[d].new.access \in 1..issued /\ caller[d].new.access # row.cred.access
        /\ \A e \in Callers : /\ caller[d].new.access # caller[e].snap.cred.access
                              /\ e # d /\ caller[e].pc = "persist"
                                   => caller[d].new.access # caller[e].new.access
    BY <1>2, <1>6 DEF RenewedInv, Unseen
  <2>2. caller[d].new.access \in 1..issued' /\ caller[d].new.access # row'.cred.access
    BY <1>1, <1>t, <2>1
  <2> QED BY <1>2, <2>1, <2>2 DEF Unseen
<1>7. \A d \in Callers : Unseen(d)'
  BY <1>6 DEF Unseen
<1>8. RenewedInv'
  BY <1>3, <1>5, <1>7 DEF RenewedInv
<1>9. GivesRenewed
  BY <1>2 DEF GivesRenewed, RenewedInv, WorksOnExpired, AtWork
<1> QED BY <1>8, <1>9

(* Every step keeps the invariant and gives calls renewed tokens only. *)
LEMMA RenewedStep == RenewedInv /\ [Next]_vars => RenewedInv' /\ [GivesRenewed]_vars
<1> SUFFICES ASSUME RenewedInv, [Next]_vars PROVE RenewedInv' /\ [GivesRenewed]_vars
  OBVIOUS
<1>1. CASE UNCHANGED vars
  BY <1>1 DEF vars, RenewedInv, TypeOK, SameDate, WorksOnExpired, Unseen, IsExpired
<1>2. CASE Next
  <2>1. TypeOK'
    BY TypeStep DEF RenewedInv
  <2>2. ASSUME NEW c \in Callers, ReadAccount(c) \/ CallStep(c) \/ CallFault(c) \/ Done(c)
        PROVE  RenewedInv' /\ GivesRenewed
    BY <2>1, <2>2, RenewedCall, RenewedRefresh, RenewedPersist
       DEF CallStep, CallFault, Refreshed, RefreshedUndated
  <2>3. ASSUME \/ \E n \in 1..MaxTokens : Expire(n)
               \/ Disconnect \/ Link \/ DenyReauthorization \/ Tick
        PROVE  RenewedInv' /\ GivesRenewed
    BY <2>1, <2>3, RenewedWorld
  <2> QED BY <1>2, <2>2, <2>3 DEF Next
<1> QED BY <1>1, <1>2

(* A call that found its access token expired never returns that token:    *)
(* neither a waiting call, which compares dates, not tokens, nor one that  *)
(* refreshed while the account was linked again, whatever fails and        *)
(* whatever the platform says of the new date (requireValidAccessToken,    *)
(* waitForRefreshedToken).                                                 *)
THEOREM OnlyRenewedTokens == Spec => HandsOutRenewed
<1>1. Init => RenewedInv
  <2> SUFFICES ASSUME Init PROVE RenewedInv
    OBVIOUS
  <2>1. \A c \in Callers : caller[c].pc = "idle" /\ caller[c].snap.cred.access = 0
    BY DEF Init, Idle, Cleared
  <2>2. row.cred.access = 1 /\ issued = 1
    BY DEF Init, Fresh
  <2> QED BY <2>1, <2>2, TypeInit DEF RenewedInv, SameDate, WorksOnExpired, Unseen, AtWork
<1>2. RenewedInv /\ [Next]_vars => RenewedInv' /\ [GivesRenewed]_vars
  BY RenewedStep
<1>3. [GivesRenewed]_vars
        <=> [\A c \in Callers :
               caller[c].pc \in {"wait", "call", "persist", "release"} /\ caller'[c].token # 0
               => caller'[c].token # caller[c].snap.cred.access]_vars
  BY DEF GivesRenewed
<1> QED BY <1>1, <1>2, <1>3, PTL DEF Spec, HandsOutRenewed

=============================================================================
