--------------------------- MODULE PlatformCalls ---------------------------
(***************************************************************************)
(* What the six platform adapters (adapters/*.adapter.ts) tell a platform  *)
(* about one campaign, and what the connectors read back when the campaign *)
(* is imported (accounts/connectors/*-connector.ts).  A platform keeps the *)
(* fields it is given under the names they are given by, and reports them  *)
(* so; amounts are counted in hundredths of the field's unit.              *)
(***************************************************************************)
EXTENDS Integers

CONSTANTS
  Platforms,     \* those considered of the six
  AdAccounts,    \* the ad accounts the user has at the platform
  Placeholder,   \* the account the LinkedIn adapter falls back to
  None,          \* no account, no field
  Budgets,       \* budgets, in hundredths of the currency's unit
  Actions,       \* the faults and interventions considered
  MaxActions,    \* bound: faults and interventions in a behaviour
  MaxCalls       \* bound: adapter calls and imports in a behaviour

VARIABLES
  platform,      \* the platform of this behaviour
  currency,      \* the currency of the ad accounts
  bound,         \* ConnectedAccount.platformAccountId
  data,          \* PlatformCampaign.platformData: the account by its key
  row,           \* the row and its campaign: known id, status, budget
  remote,        \* the campaign at the platform
  call,          \* the adapter call in progress
  told,          \* history: what calls that succeeded told the platform
  reading,       \* history: what the last import read, and what was so
  calls,         \* bound: calls and imports so far
  actions        \* bound: faults and interventions so far

vars == <<platform, currency, bound, data, row, remote, call, told, reading, calls, actions>>
setting == <<platform, currency, bound>>

DataKeys == {"customerId", "adAccountId", "accountId", "advertiserId"}
Delivered == {"ACTIVE", "PAUSED"}

(* A field: its name at the platform, and a word or an amount. *)
Word(name, word) == [name |-> name, word |-> word]
Amount(name, hundredths) == [name |-> name, amount |-> hundredths]
Units(name, budget) == Amount(name, budget)
Minor(name, budget) == Amount(name, 100 * budget)
Micros(name, budget) == Amount(name, 1000000 * budget)

Absent == [account |-> None]
Idle == [pc |-> "idle"]
Unread == [status |-> None]
Exists == remote # Absent

-----------------------------------------------------------------------------
(* Meta                                                                    *)

MetaKeys == {"adAccountId", "accountId"}
MetaCreate(b) == [status |-> Word("status", "PAUSED"), budget |-> Minor("daily_budget", b)]
MetaUpdate(b) == Minor("daily_budget", b)
MetaCommand(s) == Word("status", s)

(* Google: the campaign is created without a budget, and its mutation has  *)
(* none either: the budget has a request of its own.                       *)
GoogleKeys == {"customerId", "adAccountId", "accountId"}
GoogleCreate == [status |-> Word("status", "PAUSED"), budget |-> None]
GoogleCommand(s) == Word("status", IF s = "PAUSED" THEN "PAUSED" ELSE "ENABLED")

(* LinkedIn: the amount as the user typed it. *)
LinkedinAccount(given) == IF given = None THEN Placeholder ELSE given
LinkedinCreate(b) == [status |-> Word("status", "PAUSED"), budget |-> Units("dailyBudget", b)]
LinkedinUpdate(b) == Units("dailyBudget", b)
LinkedinCommand(s) == Word("status", s)

XKeys == {"accountId", "adAccountId"}
XCreate(b) == [status |-> Word("entity_status", "PAUSED"),
               budget |-> Micros("daily_budget_amount_local_micro", b)]
XUpdate(b) == Micros("daily_budget_amount_local_micro", b)
XCommand(s) == Word("entity_status", s)

SnapchatKeys == {"adAccountId", "accountId"}
SnapchatCreate(b) == [status |-> Word("status", "PAUSED"),
                      budget |-> Micros("daily_budget_micro", b)]
SnapchatUpdate(b) == Micros("daily_budget_micro", b)
SnapchatCommand(s) == Word("status", s)

TiktokKeys == {"advertiserId", "accountId", "adAccountId"}
TiktokCreate(b) == [status |-> Word("operation_status", "DISABLE"), budget |-> Units("budget", b)]
TiktokUpdate(b) == Units("budget", b)
TiktokCommand(s) == Word("operation_status", IF s = "PAUSED" THEN "DISABLE" ELSE "ENABLE")

(* The account a request of createCampaign or updateCampaign is for: the   *)
(* one given under a key that the adapter knows.                           *)
AccountKeys ==
  CASE platform = "META" -> MetaKeys [] platform = "GOOGLE" -> GoogleKeys
    [] platform = "X" -> XKeys [] platform = "SNAPCHAT" -> SnapchatKeys
    [] platform = "TIKTOK" -> TiktokKeys [] OTHER -> {"accountId", "adAccountId"}
Given == IF \E k \in AccountKeys : data[k] # None
         THEN data[CHOOSE k \in AccountKeys : data[k] # None] ELSE None

(* AdapterFactory: the adapter of the platform. *)
CreateRequest(b) ==
  CASE platform = "META" -> MetaCreate(b) [] platform = "GOOGLE" -> GoogleCreate
    [] platform = "LINKEDIN" -> LinkedinCreate(b) [] platform = "X" -> XCreate(b)
    [] platform = "SNAPCHAT" -> SnapchatCreate(b) [] OTHER -> TiktokCreate(b)
BudgetRequest(b) ==
  CASE platform = "META" -> MetaUpdate(b) [] platform = "GOOGLE" -> None
    [] platform = "LINKEDIN" -> LinkedinUpdate(b) [] platform = "X" -> XUpdate(b)
    [] platform = "SNAPCHAT" -> SnapchatUpdate(b) [] OTHER -> TiktokUpdate(b)
Command(s) ==
  CASE platform = "META" -> MetaCommand(s) [] platform = "GOOGLE" -> GoogleCommand(s)
    [] platform = "LINKEDIN" -> LinkedinCommand(s) [] platform = "X" -> XCommand(s)
    [] platform = "SNAPCHAT" -> SnapchatCommand(s) [] OTHER -> TiktokCommand(s)

(* These name the ad account in every request, the others the campaign only. *)
NamesAccount == platform \in {"GOOGLE", "X", "TIKTOK"}

-----------------------------------------------------------------------------
(* Reading a campaign                                                      *)

(* A field is found by its name, or is undefined. *)
ReadWord(name) == IF remote.status.name = name THEN remote.status.word ELSE "UNKNOWN"
ReadAmount(name) ==
  IF remote.budget # None /\ remote.budget.name = name THEN remote.budget.amount ELSE None

(* fromMinorUnits, fromMicroUnits: to hundredths of the currency's unit. *)
MinorPerUnit(code) == IF code = "JPY" THEN 1 ELSE 100
FromMinorUnits(amount, code) == IF amount = None THEN None ELSE amount \div MinorPerUnit(code)
FromMicroUnits(amount) == IF amount = None THEN None ELSE amount \div 1000000

(* The currency is unknown when its request fails. *)
MetaCurrency(failed) == IF failed THEN "unknown" ELSE currency
MetaImported(code) == [status |-> ReadWord("status"),
                       budget |-> FromMinorUnits(ReadAmount("daily_budget"), code)]
GoogleImported == [status |-> ReadWord("status"),
                   budget |-> FromMicroUnits(ReadAmount("amountMicros"))]
LinkedinImported == [status |-> ReadWord("status"),
                     budget |-> FromMinorUnits(ReadAmount("dailyBudget"), "USD")]
XImported == [status |-> ReadWord("status"),
              budget |-> FromMicroUnits(ReadAmount("daily_funding_amount_in_micro_currency"))]
SnapchatImported_Minor == [status |-> ReadWord("status"),
                           budget |-> FromMinorUnits(ReadAmount("daily_budget_micro"), "USD")]
SnapchatImported == [status |-> ReadWord("status"),
                     budget |-> FromMicroUnits(ReadAmount("daily_budget_micro"))]
TiktokImported == [status |-> ReadWord("status"), budget |-> ReadAmount("budget")]

Imported(failed) ==
  CASE platform = "META" -> MetaImported(MetaCurrency(failed))
    [] platform = "GOOGLE" -> GoogleImported [] platform = "LINKEDIN" -> LinkedinImported
    [] platform = "X" -> XImported [] platform = "SNAPCHAT" -> SnapchatImported
    [] OTHER -> TiktokImported

(* CampaignImportService. *)
MapStatus(word) == IF word = "PAUSED" THEN "PAUSED" ELSE "ACTIVE"
NormalizeBudget(b) == IF b = None THEN 0 ELSE b

-----------------------------------------------------------------------------
TypeOK ==
  /\ platform \in Platforms /\ currency \in {"USD", "JPY"}
  /\ bound \in AdAccounts \cup {None}
  /\ data \in [DataKeys -> AdAccounts \cup {None}]
  /\ row \in [known : BOOLEAN, status : Delivered, budget : Nat]
  /\ remote = Absent \/ remote.account \in AdAccounts
  /\ call.pc \in {"idle", "budget", "send"}
  /\ told.status \in Delivered \cup {None} /\ told.budget \in Budgets \cup {None}
  /\ calls \in 0..MaxCalls /\ actions \in 0..MaxActions

(* A row whose campaign is still to be created; the account stands under   *)
(* one of the keys, or is missing.                                         *)
Init ==
  /\ platform \in Platforms /\ currency \in {"USD", "JPY"}
  /\ bound \in AdAccounts \cup {None}
  /\ \E key \in DataKeys, a \in AdAccounts \cup {None} :
       data = [k \in DataKeys |-> IF k = key THEN a ELSE None]
  /\ \E b \in Budgets : row = [known |-> FALSE, status |-> "ACTIVE", budget |-> b]
  /\ remote = Absent /\ call = Idle
  /\ told = [status |-> None, budget |-> None] /\ reading = Unread
  /\ calls = 0 /\ actions = 0

Act(kind) == kind \in Actions /\ actions < MaxActions /\ actions' = actions + 1
Count == call = Idle /\ calls < MaxCalls /\ calls' = calls + 1

(* A call is sent, and what it is about is uncertain until it is answered. *)
Send(c, aspects) ==
  /\ call' = c
  /\ told' = [x \in DOMAIN told |-> IF x \in aspects THEN None ELSE told[x]]
  /\ UNCHANGED <<setting, data, remote, reading, actions>>

(* createCampaign throws without an account, but for LinkedIn.  A second   *)
(* creation after a lost answer is in CampaignCreation.                    *)
SendCreate ==
  LET account == IF platform = "LINKEDIN" THEN LinkedinAccount(Given) ELSE Given IN
  /\ Count /\ ~row.known /\ ~Exists /\ account # None
  /\ Send([pc |-> "send", kind |-> "create", account |-> account, status |-> "PAUSED",
           budget |-> row.budget], {"status", "budget"})
  /\ UNCHANGED row

(* updateCampaign with the budget of the UACM campaign.  Google's adapter  *)
(* updates the budget first.                                               *)
SendUpdate(b) ==
  /\ Count /\ row.known /\ (NamesAccount => Given # None)
  /\ row' = [row EXCEPT !.budget = b]
  /\ Send([pc |-> IF platform = "GOOGLE" THEN "budget" ELSE "send", kind |-> "update",
           account |-> Given, budget |-> b], {"budget"})

(* pauseCampaign and resumeCampaign name the account that is connected. *)
SendCommand(s) ==
  /\ Count /\ row.known /\ (NamesAccount => bound # None)
  /\ Send([pc |-> "send", kind |-> "command", account |-> bound, status |-> s], {"status"})
  /\ UNCHANGED row

-----------------------------------------------------------------------------
(* The platform                                                            *)

(* GoogleAdapter.updateBudget: a campaign budget is created, and no        *)
(* campaign is told to use it.                                             *)
GoogleBudget ==
  /\ call.pc = "budget"
  /\ call' = [call EXCEPT !.pc = "send"]
  /\ UNCHANGED <<setting, data, row, remote, told, reading, calls, actions>>

(* A platform that is told the account finds no campaign in another one.   *)
Obeys ==
  IF call.kind = "create" THEN call.account \in AdAccounts
  ELSE Exists /\ (NamesAccount => call.account = remote.account)

(* The budget that a creation tells; Google's tells none. *)
Tells == IF CreateRequest(call.budget).budget = None THEN None ELSE call.budget

Effect ==
  CASE call.kind = "create" ->
         [account |-> call.account, status |-> CreateRequest(call.budget).status,
          budget |-> CreateRequest(call.budget).budget, meant |-> Tells]
    [] call.kind = "update" ->
         IF BudgetRequest(call.budget) = None THEN remote
         ELSE [remote EXCEPT !.budget = BudgetRequest(call.budget), !.meant = call.budget]
    [] OTHER -> [remote EXCEPT !.status = Command(call.status)]

(* What a call that returns has told the platform. *)
Returned ==
  /\ told' = CASE call.kind = "create" -> [status |-> call.status, budget |-> Tells]
              [] call.kind = "update" -> [told EXCEPT !.budget = call.budget]
              [] OTHER -> [told EXCEPT !.status = call.status]
  /\ row' = [row EXCEPT !.known = TRUE]

Answered ==
  /\ call.pc = "send" /\ Obeys
  /\ remote' = Effect
  /\ Returned
  /\ call' = Idle
  /\ UNCHANGED <<setting, data, reading, calls, actions>>

(* Mutant: a refusal of any platform passes for an answer. *)
Refused_Ignored ==
  /\ call.pc # "idle" /\ Act("refuse")
  /\ IF call.kind # "create" THEN Returned ELSE UNCHANGED <<row, told>>
  /\ call' = Idle
  /\ UNCHANGED <<setting, data, remote, reading, calls>>

(* A refusal is an HTTP error, but for TikTok, whose answer says it in a   *)
(* code that only the connector looks at: a creation misses the id, and an *)
(* update or a command returns.                                            *)
Refused ==
  /\ call.pc # "idle"
  /\ \/ call.pc = "send" /\ ~Obeys /\ UNCHANGED actions
     \/ Act("refuse")
  /\ IF platform = "TIKTOK" /\ call.kind # "create" THEN Returned ELSE UNCHANGED <<row, told>>
  /\ call' = Idle
  /\ UNCHANGED <<setting, data, remote, reading, calls>>

(* OAuthExchangeService.request gives up after its timeout, whatever the   *)
(* platform has done.                                                      *)
TimedOut ==
  /\ call.pc # "idle" /\ Act("timeout")
  /\ \/ call.pc = "send" /\ Obeys /\ remote' = Effect
     \/ UNCHANGED remote
  /\ call' = Idle
  /\ UNCHANGED <<setting, data, row, told, reading, calls>>

(* The user at the platform's own console. *)
Console(s) ==
  /\ Exists /\ Act("console")
  /\ remote' = [remote EXCEPT !.status = Command(s)]
  /\ told' = [told EXCEPT !.status = None]
  /\ UNCHANGED <<setting, data, row, call, reading, calls>>

(* The row is deleted; nothing is told to the platform. *)
RemoveRow ==
  /\ row.known /\ call = Idle /\ Act("remove")
  /\ row' = [row EXCEPT !.known = FALSE]
  /\ UNCHANGED <<setting, data, remote, call, told, reading, calls>>

(* An import updates the status of a row it knows, and creates one with    *)
(* the budget otherwise; the row's data becomes that of the import.        *)
Import ==
  /\ Count /\ Exists
  /\ \E failed \in BOOLEAN :
       LET c == Imported(failed) IN
       /\ failed => platform = "META"
       /\ row' = [known |-> TRUE, status |-> MapStatus(c.status),
                  budget |-> IF row.known THEN row.budget ELSE NormalizeBudget(c.budget)]
       /\ reading' = [status |-> MapStatus(c.status), budget |-> NormalizeBudget(c.budget),
                      word |-> remote.status, meant |-> remote.meant, failed |-> failed]
  /\ data' = [k \in DataKeys |-> None]
  /\ UNCHANGED <<setting, remote, call, told, actions>>

Next ==
  \/ SendCreate \/ Import \/ GoogleBudget \/ Answered \/ Refused \/ TimedOut \/ RemoveRow
  \/ \E b \in Budgets : SendUpdate(b)
  \/ \E s \in Delivered : SendCommand(s) \/ Console(s)

Spec == Init /\ [][Next]_vars

-----------------------------------------------------------------------------
(* Properties                                                              *)

(* The platforms' words for what they do with a campaign. *)
Means(field) == IF field.word \in {"PAUSED", "DISABLE"} THEN "PAUSED" ELSE "ACTIVE"

(* What a call that returned told the platform is so at the platform:      *)
(* "updates the budget of an existing campaign on the ad platform"         *)
(* (AdsPlatformAdapter).                                                   *)
CallsTakeEffect ==
  /\ told.status # None => Means(remote.status) = told.status
  /\ told.budget # None => remote.meant = told.budget

(* A campaign is paused or running, and has the budget, as the last call   *)
(* that returned told it, whatever calls timed out or were refused; but    *)
(* for Google's budgets and TikTok's refusals.                             *)
CallsTakeEffectElsewhere ==
  platform # "TIKTOK" =>
    /\ told.status # None => Means(remote.status) = told.status
    /\ told.budget # None /\ platform # "GOOGLE" => remote.meant = told.budget

(* What the connectors read under another name or in another unit than the *)
(* adapters wrote.                                                         *)
Misread ==
  CASE platform = "X" -> {"status", "budget"}
    [] platform = "TIKTOK" -> {"status"}
    [] platform \in {"GOOGLE", "LINKEDIN"} -> {"budget"}
    [] platform = "META" /\ currency = "JPY" -> {"budget"}
    [] OTHER -> {}

(* An import reads the status and the budget that the adapter wrote. *)
ImportReadsWhatWasWritten ==
  reading # Unread =>
    /\ "status" \notin Misread => reading.status = Means(reading.word)
    /\ "budget" \notin Misread => reading.budget = reading.meant

=============================================================================
