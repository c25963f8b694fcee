--------------------------- MODULE AccountLinking ---------------------------
(***************************************************************************)
(* Linking an advertising account: the OAuth flow that accounts.service.ts *)
(* starts, the callback that the platform sends the browser to, with the   *)
(* state token it consumes and the code it exchanges, and the disconnect.  *)
(* One user at one platform, on which the user may start several flows.    *)
(*                                                                         *)
(* What a link does next, the import, is in CampaignImport; refreshing the *)
(* tokens is in TokenVault.                                                *)
(***************************************************************************)
EXTENDS Naturals, FiniteSets

CONSTANTS
  Platforms,   \* those considered of the six
  Flows,       \* the authorizations started; also names their codes and tokens
  Callbacks,   \* callback requests that can be in progress at the same time
  AdAccounts,  \* ad accounts to choose from
  None,        \* nothing
  Actions,     \* the faults considered
  MaxActions   \* bound: faults and disconnects in a behaviour

VARIABLES
  platform,    \* the platform of this behaviour
  account,     \* the user's ConnectedAccount row
  state,       \* by flow: its state token in Redis
  payload,     \* by flow: the payload of the state token
  code,        \* by flow: its authorization code at the platform
  callback,    \* the callback requests in progress
  used,        \* history: by flow, the callbacks that consumed its state
  shared,      \* history: flows whose state two overlapping callbacks read
  latest,      \* history: the last refresh token obtained, and not forgotten
  overtaken,   \* history: a row was written by what had been read before a change
  actions      \* bound: faults and disconnects so far

vars == <<platform, account, state, payload, code, callback, used, shared, latest,
          overtaken, actions>>
history == <<used, shared, latest, overtaken>>

NoAccount == [status |-> "none", access |-> None, refresh |-> None, bound |-> None]
NoPayload == [bound |-> None, verifier |-> FALSE]
Idle == [pc |-> "idle"]
Exists == account.status # "none"

TypeOK ==
  /\ platform \in Platforms
  /\ account.status \in {"none", "CONNECTED", "REAUTHORIZATION_REQUIRED", "DISCONNECTED"}
  /\ {account.access, account.refresh, latest} \subseteq Flows \cup {None}
  /\ account.bound \in AdAccounts \cup {None}
  /\ state \in [Flows -> {"none", "live", "gone"}]
  /\ payload \in [Flows -> [bound : AdAccounts \cup {None}, verifier : BOOLEAN]]
  /\ code \in [Flows -> {"none", "issued", "spent"}]
  /\ \A c \in Callbacks : callback[c].pc \in
       {"idle", "get", "delete", "exchange", "find", "upsert", "findDenied", "mark"}
  /\ used \in [Flows -> Nat] /\ shared \subseteq Flows /\ overtaken \in BOOLEAN
  /\ actions \in 0..MaxActions

Init ==
  /\ platform \in Platforms
  /\ account = NoAccount
  /\ state = [f \in Flows |-> "none"] /\ payload = [f \in Flows |-> NoPayload]
  /\ code = [f \in Flows |-> "none"]
  /\ callback = [c \in Callbacks |-> Idle]
  /\ used = [f \in Flows |-> 0] /\ shared = {} /\ latest = None /\ overtaken = FALSE
  /\ actions = 0

Act(kind) == kind \in Actions /\ actions < MaxActions /\ actions' = actions + 1

-----------------------------------------------------------------------------
(* Starting a flow                                                         *)

(* X needs the verifier of its code challenge again at the exchange. *)
PrepareAuthSession == platform = "X"
BuildAuthUrl(verifier) == platform = "X" => verifier

StatePayload(a) == [bound |-> a, verifier |-> PrepareAuthSession]

(* The state token is created before the URL is built; getConfig throws    *)
(* before either if the environment does not configure the platform.       *)
StartFlow(f, a) ==
  /\ state[f] = "none" /\ BuildAuthUrl(PrepareAuthSession)
  /\ state' = [state EXCEPT ![f] = "live"]
  /\ payload' = [payload EXCEPT ![f] = StatePayload(a)]
  /\ UNCHANGED <<platform, account, code, callback, history, actions>>

Connect(f) == \E a \in AdAccounts \cup {None} : StartFlow(f, a)
Reconnect(f) == Exists /\ StartFlow(f, None)

(* The state token's time to live. *)
Expire(f) ==
  /\ state[f] = "live"
  /\ state' = [state EXCEPT ![f] = "gone"]
  /\ UNCHANGED <<platform, account, payload, code, callback, history, actions>>

(* The user consents at the platform. *)
Consent(f) ==
  /\ state[f] # "none" /\ code[f] = "none"
  /\ code' = [code EXCEPT ![f] = "issued"]
  /\ UNCHANGED <<platform, account, state, payload, callback, history, actions>>

-----------------------------------------------------------------------------
(* The callback                                                            *)

(* The browser may follow the platform's redirect more than once, and the  *)
(* user may refuse at any time.                                            *)
OauthCallback(c, f, kind) ==
  /\ callback[c] = Idle /\ state[f] # "none"
  /\ kind = "code" => code[f] # "none"
  /\ callback' = [callback EXCEPT ![c] = [pc |-> "get", flow |-> f, kind |-> kind]]
  /\ UNCHANGED <<platform, account, state, payload, code, history, actions>>

Goto(c, pc) == callback' = [callback EXCEPT ![c].pc = pc]
End(c) == callback' = [callback EXCEPT ![c] = Idle]

(* consume: get. *)
GetState(c) ==
  LET f == callback[c].flow IN
  /\ callback[c].pc = "get"
  /\ IF state[f] # "live" THEN End(c) /\ UNCHANGED shared
     ELSE /\ Goto(c, "delete")
          /\ shared' = IF \E d \in Callbacks : callback[d].pc = "delete" /\ callback[d].flow = f
                       THEN shared \cup {f} ELSE shared
  /\ UNCHANGED <<platform, account, state, payload, code, used, latest, overtaken, actions>>

(* Mutant: the state of a denied flow stays. *)
Remaining_Denied(c) == IF callback[c].kind = "code" THEN "gone" ELSE "live"
Remaining(c) == "gone"

(* consume: delete. *)
DeleteState(c) ==
  LET f == callback[c].flow IN
  /\ callback[c].pc = "delete"
  /\ state' = [state EXCEPT ![f] = Remaining(c)]
  /\ used' = [used EXCEPT ![f] = @ + 1]
  /\ Goto(c, IF callback[c].kind = "code" THEN "exchange" ELSE "findDenied")
  /\ UNCHANGED <<platform, account, payload, code, shared, latest, overtaken, actions>>

(* The code is good once, and comes with a refresh token or without one.   *)
ExchangeCode(c) ==
  LET f == callback[c].flow IN
  /\ callback[c].pc = "exchange" /\ code[f] = "issued"
  /\ platform = "X" => payload[f].verifier
  /\ code' = [code EXCEPT ![f] = "spent"]
  /\ \E refresh \in {f, None} :
       callback' = [callback EXCEPT ![c] =
         [pc |-> "find", flow |-> f, kind |-> "code", refresh |-> refresh]]
  /\ UNCHANGED <<platform, account, state, payload, history, actions>>

(* The platform refuses, cannot be reached, or answers after the timeout. *)
ExchangeFails(c) ==
  LET f == callback[c].flow IN
  /\ callback[c].pc = "exchange"
  /\ \/ code[f] = "spent" /\ UNCHANGED <<code, actions>>
     \/ code[f] = "issued" /\ Act("exchange")
        /\ code' \in {code, [code EXCEPT ![f] = "spent"]}
  /\ End(c)
  /\ UNCHANGED <<platform, account, state, payload, history>>

(* findUnique, for the refresh token the row has. *)
FindExisting(c) ==
  /\ callback[c].pc = "find"
  /\ callback' = [callback EXCEPT ![c] =
       [pc |-> "upsert", flow |-> callback[c].flow, kind |-> "code",
        refresh |-> callback[c].refresh, existing |-> account.refresh]]
  /\ UNCHANGED <<platform, account, state, payload, code, history, actions>>

NewRefresh(c) ==
  IF callback[c].refresh # None THEN callback[c].refresh
  ELSE IF Exists THEN callback[c].existing ELSE None

(* upsert: the tokens, and the ad account if one was chosen. *)
Upsert(c) ==
  LET f == callback[c].flow IN
  /\ callback[c].pc = "upsert"
  /\ account' = [status |-> "CONNECTED", access |-> f, refresh |-> NewRefresh(c),
                 bound |-> IF payload[f].bound = None THEN account.bound ELSE payload[f].bound]
  /\ latest' = IF callback[c].refresh # None THEN callback[c].refresh ELSE latest
  /\ overtaken' = \/ overtaken /\ callback[c].refresh = None
                  \/ callback[c].refresh = None /\ callback[c].existing # account.refresh
  /\ End(c)
  /\ UNCHANGED <<platform, state, payload, code, used, shared, actions>>

(* The row of a flow that was denied. *)
FindDenied(c) ==
  /\ callback[c].pc = "findDenied"
  /\ IF Exists THEN Goto(c, "mark") ELSE End(c)
  /\ UNCHANGED <<platform, account, state, payload, code, history, actions>>

MarkReauthRequired(c) ==
  /\ callback[c].pc = "mark"
  /\ account' = [account EXCEPT !.status = "REAUTHORIZATION_REQUIRED"]
  /\ End(c)
  /\ UNCHANGED <<platform, state, payload, code, history, actions>>

(* Redis or the database fails, or the process stops: the browser is sent  *)
(* to the failure page, or to none.                                        *)
CallbackFails(c) ==
  /\ callback[c] # Idle /\ Act("fail")
  /\ End(c)
  /\ UNCHANGED <<platform, account, state, payload, code, history>>

-----------------------------------------------------------------------------
(* disconnect; the rows of the platform are paused next (CampaignImport).  *)

(* Mutant: the refresh token stays in the row. *)
Cleared_Access == [account EXCEPT !.status = "DISCONNECTED", !.access = None]
Cleared == [account EXCEPT !.status = "DISCONNECTED", !.access = None, !.refresh = None]

Disconnect ==
  /\ Exists /\ Act("disconnect")
  /\ account' = Cleared
  /\ latest' = None /\ overtaken' = FALSE
  /\ UNCHANGED <<platform, state, payload, code, callback, used, shared>>

-----------------------------------------------------------------------------
CallbackStep(c) ==
  \/ GetState(c) \/ DeleteState(c) \/ ExchangeCode(c) \/ ExchangeFails(c) \/ FindExisting(c)
  \/ Upsert(c) \/ FindDenied(c) \/ MarkReauthRequired(c) \/ CallbackFails(c)

Next ==
  \/ \E f \in Flows : Connect(f) \/ Reconnect(f) \/ Expire(f) \/ Consent(f)
  \/ \E c \in Callbacks, f \in Flows, kind \in {"code", "error"} : OauthCallback(c, f, kind)
  \/ \E c \in Callbacks : CallbackStep(c)
  \/ Disconnect

Spec == Init /\ [][Next]_vars

-----------------------------------------------------------------------------
(* Properties                                                              *)

(* The state token is consumed by one callback (consume: "was already      *)
(* used"), unless another read it before the first had deleted it.         *)
StateIsConsumedOnce == \A f \in Flows \ shared : used[f] <= 1

(* The row's refresh token is the last that a linking obtained: a linking  *)
(* that obtains none keeps it, and a disconnect forgets it, unless the row *)
(* changed between the linking's findUnique and its upsert.                *)
RefreshTokenIsLatest == ~overtaken => account.refresh = latest

=============================================================================
