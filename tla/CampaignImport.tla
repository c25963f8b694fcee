--------------------------- MODULE CampaignImport ---------------------------
(***************************************************************************)
(* Importing the campaigns that exist at an advertising platform: the      *)
(* request published after a linking or made by "import now", the worker   *)
(* and the runner (campaign-import.worker.ts, campaign-import.runner.ts),  *)
(* and the upsert by find and create (campaign-import.service.ts).  Around *)
(* it goes on what the rows and the platform are also subject to: a        *)
(* creation that has its campaign but not saved its id, a pause or resume  *)
(* on its way, a disconnect, a removal, and the user at the platform's own *)
(* console.                                                                *)
(***************************************************************************)
EXTENDS Naturals

CONSTANTS
  Campaigns,         \* the ids of campaigns at the platform
  PlatformAccounts,  \* the ad accounts the user has there
  AccountOf,         \* the ad account of a campaign
  MaxRows,           \* PlatformCampaign rows that can come to exist
  Imports,           \* runs in progress at the same time
  None,              \* no campaign, no ad account
  Actions,           \* the faults and interventions considered
  MaxRequests,       \* bound: linkings and imports asked for
  MaxActions         \* bound: faults and interventions in a behaviour

ASSUME RowsAssumption == MaxRows \in Nat
ASSUME AccountsAssumption == AccountOf \in [Campaigns -> PlatformAccounts]
ASSUME NoneAssumption == None \notin Campaigns /\ None \notin PlatformAccounts
ASSUME ActionsAssumption ==
  Actions \subseteq {"read", "write", "platform", "publish", "crash", "disconnect",
                     "remove", "console", "control", "create"}
ASSUME BoundsAssumption == MaxRequests \in Nat /\ MaxActions \in Nat

VARIABLES
  platform,   \* what the platform does with a campaign
  row,        \* the user's PlatformCampaign rows of this platform
  unsaved,    \* by row: the campaign a creation has made and not saved the id of
  control,    \* by row: the status a pause or resume is bringing to the platform
  account,    \* ConnectedAccount: whether its token is usable
  bound,      \* ConnectedAccount.platformAccountId
  pausing,    \* a disconnect has still to pause the rows
  queue,      \* import requests in the queue, by the ad account they name
  run,        \* the imports in progress
  chosen,     \* history: the ad account the user chose last
  misbound,   \* history: an import that began before that choice finished after it
  early,      \* history: campaigns imported before the creation saved their id
  doubled,    \* history: campaigns with overlapping creations of their row
  drift,      \* history: campaigns whose row need not agree with the platform
  removed,    \* history: campaigns whose row was removed
  requests,   \* bound: requests so far
  actions     \* bound: faults and interventions so far

connection == <<account, bound, pausing, chosen>>
history == <<misbound, early, doubled, drift, removed>>
vars == <<platform, row, unsaved, control, connection, queue, run, history,
          requests, actions>>

Rows == 1..MaxRows
AdAccounts == PlatformAccounts \cup {None}
Delivered == {"ACTIVE", "PAUSED"}

Row == [status : {"PENDING", "ACTIVE", "PAUSED", "ERROR", "absent", "removed"},
        ext : Campaigns \cup {None}]
Absent == [status |-> "absent", ext |-> None]
Present(r) == row[r].status \notin {"absent", "removed"}
RowsOf(c) == {r \in Rows : Present(r) /\ row[r].ext = c}

(* A run: who asked for it, the ad accounts it has still to list, the      *)
(* campaigns of the last listing it has still to import with the status    *)
(* they had, the one it is at, and what has happened since it read it.     *)
Run == [pc : {"idle", "load", "list", "find", "update", "create", "finish"},
        message : BOOLEAN, only : AdAccounts, accounts : SUBSET PlatformAccounts,
        bound : AdAccounts, relinked : BOOLEAN,
        listing : [Campaigns -> Delivered \cup {"absent"}], fresh : SUBSET Campaigns,
        campaign : Campaigns \cup {None}, found : Rows \cup {0}, overtaken : BOOLEAN,
        seen : SUBSET Campaigns, failed : SUBSET Campaigns]

NothingListed == [c \in Campaigns |-> "absent"]
NoRun == [pc |-> "idle", message |-> FALSE, only |-> None, accounts |-> {},
          bound |-> None, relinked |-> FALSE, listing |-> NothingListed,
          fresh |-> {}, campaign |-> None, found |-> 0,
          overtaken |-> FALSE, seen |-> {}, failed |-> {}]

TypeOK ==
  /\ platform \in [Campaigns -> Delivered \cup {"absent"}]
  /\ row \in [Rows -> Row]
  /\ unsaved \in [Rows -> Campaigns \cup {None}]
  /\ control \in [Rows -> Delivered \cup {"none"}]
  /\ account \in {"usable", "unusable"}
  /\ bound \in AdAccounts /\ chosen \in AdAccounts
  /\ pausing \in BOOLEAN /\ misbound \in BOOLEAN
  /\ queue \in [AdAccounts -> Nat]
  /\ run \in [Imports -> Run]
  /\ early \subseteq Campaigns /\ doubled \subseteq Campaigns
  /\ drift \subseteq Campaigns /\ removed \subseteq Campaigns
  /\ requests \in 0..MaxRequests /\ actions \in 0..MaxActions

(* One campaign of the user is being created, and may have got as far as   *)
(* the platform; none is imported yet.                                     *)
Init ==
  /\ platform \in [Campaigns -> Delivered \cup {"absent"}]
  /\ row = [r \in Rows |-> IF r = 1 THEN [status |-> "PENDING", ext |-> None] ELSE Absent]
  /\ \E c \in Campaigns \cup {None} :
       /\ c # None => platform[c] = "PAUSED"
       /\ unsaved = [r \in Rows |-> IF r = 1 THEN c ELSE None]
  /\ control = [r \in Rows |-> "none"]
  /\ account = "usable"
  /\ bound = None /\ chosen = None /\ pausing = FALSE /\ misbound = FALSE
  /\ queue = [a \in AdAccounts |-> 0]
  /\ run = [i \in Imports |-> NoRun]
  /\ early = {} /\ doubled = {} /\ drift = {} /\ removed = {}
  /\ requests = 0 /\ actions = 0

Act(kind) == kind \in Actions /\ actions < MaxActions /\ actions' = actions + 1

-----------------------------------------------------------------------------
(* Requests for an import                                                  *)

Ask == requests < MaxRequests /\ requests' = requests + 1

(* completeLinking: the upsert of the account, then the import request,    *)
(* whose publish may fail and is then only logged.                         *)
Link(a) ==
  /\ Ask
  /\ account' = "usable"
  /\ bound' = IF a = None THEN bound ELSE a
  /\ chosen' = IF a = None THEN chosen ELSE a
  /\ misbound' = (misbound /\ a = None)
  /\ run' = [i \in Imports |-> [run[i] EXCEPT
               !.relinked = run[i].relinked \/ (a # None /\ run[i].pc \notin {"idle", "load"})]]
  /\ \/ queue' = [queue EXCEPT ![a] = @ + 1] /\ UNCHANGED actions
     \/ Act("publish") /\ UNCHANGED queue
  /\ UNCHANGED <<platform, row, unsaved, control, pausing, early, doubled, drift, removed>>

Begin(i, message, a) ==
  /\ run[i].pc = "idle"
  /\ run' = [run EXCEPT ![i] = [NoRun EXCEPT !.pc = "load", !.message = message, !.only = a]]
  /\ UNCHANGED <<platform, row, unsaved, control, connection, history, actions>>

Deliver(i, a) ==
  /\ queue[a] > 0
  /\ Begin(i, TRUE, a)
  /\ queue' = [queue EXCEPT ![a] = @ - 1]
  /\ UNCHANGED requests

ImportNow(i) == Ask /\ Begin(i, FALSE, None) /\ UNCHANGED queue

-----------------------------------------------------------------------------
(* CampaignImportRunner.run                                                *)

RunOnly == UNCHANGED <<platform, row, unsaved, control, connection, queue, history, requests>>
Undisturbed == UNCHANGED actions

(* The last step of a run: an error is logged and the message              *)
(* acknowledged, or the request answered.                                  *)
End(i) == run' = [run EXCEPT ![i] = NoRun]

Load(i) ==
  /\ run[i].pc = "load"
  /\ IF account = "usable"
     THEN run' = [run EXCEPT ![i] = [run[i] EXCEPT
                    !.pc = "list", !.bound = bound, !.relinked = FALSE,
                    !.accounts = IF run[i].only = None THEN PlatformAccounts ELSE {run[i].only}]]
     ELSE End(i)
  /\ RunOnly /\ Undisturbed

(* What follows a listing of which `listing' is left to import. *)
After(accounts, listing) ==
  IF \E c \in Campaigns : listing[c] # "absent" THEN "find"
  ELSE IF accounts # {} THEN "list" ELSE "finish"

Pending(c) == \E r \in Rows : row[r].ext = c /\ control[r] # "none"

ListCampaigns(i, a) ==
  LET listed == {c \in Campaigns : AccountOf[c] = a /\ platform[c] # "absent"}
      listing == [c \in Campaigns |-> IF c \in listed THEN platform[c] ELSE "absent"] IN
  /\ run[i].pc = "list" /\ a \in run[i].accounts
  /\ run' = [run EXCEPT ![i] = [run[i] EXCEPT
               !.accounts = run[i].accounts \ {a}, !.listing = listing,
               !.fresh = {c \in listed : ~Pending(c)}, !.seen = run[i].seen \cup listed,
               !.pc = After(run[i].accounts \ {a}, listing)]]
  /\ RunOnly /\ Undisturbed

Redelivered(i) == IF run[i].message THEN [queue EXCEPT ![run[i].only] = @ + 1] ELSE queue

(* A query before or after the campaigns, or the platform, fails. *)
RunFails(i) ==
  /\ \/ run[i].pc = "load" /\ Act("read")
     \/ run[i].pc \in {"load", "list"} /\ Act("platform")
     \/ run[i].pc = "finish" /\ Act("write")
  /\ End(i)
  /\ RunOnly

(* Mutant: the first account comes before the one chosen. *)
FinishedBound_First(i, first) == first

(* lastSyncedAt, and the ad account unless the run has read one. *)
FinishedBound(i, first) == IF run[i].bound # None THEN run[i].bound ELSE first

(* The process may stop before the acknowledgement. *)
Finish(i, first) ==
  /\ run[i].pc = "finish"
  /\ IF run[i].only = None THEN first \in PlatformAccounts ELSE first = run[i].only
  /\ bound' = FinishedBound(i, first)
  /\ misbound' = (misbound \/ run[i].relinked)
  /\ End(i)
  /\ \/ UNCHANGED <<queue, actions>>
     \/ Act("crash") /\ queue' = Redelivered(i)
  /\ UNCHANGED <<platform, row, unsaved, control, account, pausing, chosen,
                 early, doubled, drift, removed, requests>>

(* The process stops; the broker delivers the request again. *)
Crash(i) ==
  /\ run[i].pc # "idle" /\ Act("crash")
  /\ run' = [run EXCEPT ![i] = NoRun]
  /\ queue' = Redelivered(i)
  /\ UNCHANGED <<platform, row, unsaved, control, connection, history, requests>>

-----------------------------------------------------------------------------
(* CampaignImportService.importCampaigns, one campaign after the other     *)

(* Run i goes on after campaign c; `runs' are the runs as c left them. *)
Continue(i, c, runs) ==
  LET listing == [runs[i].listing EXCEPT ![c] = "absent"] IN
  run' = [runs EXCEPT ![i] = [runs[i] EXCEPT
            !.listing = listing, !.fresh = runs[i].fresh \ {c},
            !.campaign = None, !.found = 0, !.overtaken = FALSE,
            !.pc = After(runs[i].accounts, listing)]]

(* Mutant: only rows of a campaign that is running are looked for. *)
Matches_Active(c) == {r \in RowsOf(c) : row[r].status = "ACTIVE"}

(* findFirst, by the platform, its id of the campaign and the user. *)
Matches(c) == RowsOf(c)

FindExisting(i, c) ==
  /\ run[i].pc = "find" /\ run[i].listing[c] # "absent"
  /\ \/ /\ Matches(c) = {}
        /\ run' = [run EXCEPT ![i] = [run[i] EXCEPT !.pc = "create", !.campaign = c]]
     \/ \E r \in Matches(c) :
          run' = [run EXCEPT ![i] = [run[i] EXCEPT !.pc = "update", !.campaign = c, !.found = r]]
  /\ RunOnly /\ Undisturbed

(* Mutant: the platform's spelling of PAUSED is missed. *)
MapStatus_Active(s) == "ACTIVE"

(* Any other status of the platform counts as ACTIVE. *)
MapStatus(s) == IF s = "PAUSED" THEN "PAUSED" ELSE "ACTIVE"

(* What the row then says is the platform's word if nothing has changed    *)
(* since the listing.                                                      *)
Drift(i) == drift' = IF run[i].campaign \in run[i].fresh THEN drift \ {run[i].campaign}
                     ELSE drift \cup {run[i].campaign}

Update(i) ==
  LET c == run[i].campaign  r == run[i].found IN
  /\ run[i].pc = "update" /\ Present(r)
  /\ row' = [row EXCEPT ![r].status = MapStatus(run[i].listing[c])]
  /\ Drift(i)
  /\ Continue(i, c, run)
  /\ UNCHANGED <<platform, unsaved, control, connection, queue, misbound, early,
                 doubled, removed, requests, actions>>

Unused(r) == row[r].status = "absent" /\ \A s \in Rows : s < r => row[s].status # "absent"

(* Whoever is about to create the row of c is overtaken by the one made. *)
Overtake(c) == [i \in Imports |-> [run[i] EXCEPT
                  !.overtaken = run[i].overtaken
                                \/ (run[i].pc = "create" /\ run[i].campaign = c)]]

(* The transaction: a UACM campaign with its one row. *)
Create(i, r) ==
  LET c == run[i].campaign IN
  /\ run[i].pc = "create" /\ Unused(r)
  /\ row' = [row EXCEPT ![r] = [status |-> MapStatus(run[i].listing[c]), ext |-> c]]
  /\ doubled' = IF run[i].overtaken THEN doubled \cup {c} ELSE doubled
  /\ early' = IF \E s \in Rows : unsaved[s] = c THEN early \cup {c} ELSE early
  /\ Drift(i)
  /\ Continue(i, c, Overtake(c))
  /\ UNCHANGED <<platform, unsaved, control, connection, queue, misbound, removed,
                 requests, actions>>

(* A query for campaign c fails, or its row is gone. *)
CampaignFails(i, c) ==
  \/ run[i].pc = "find" /\ run[i].listing[c] # "absent" /\ Act("read")
  \/ run[i].pc \in {"update", "create"} /\ run[i].campaign = c /\ Act("write")
  \/ /\ run[i].pc = "update" /\ run[i].campaign = c /\ ~Present(run[i].found)
     /\ Undisturbed

Failed(i, c) == [run EXCEPT ![i] = [run[i] EXCEPT !.failed = run[i].failed \cup {c}]]

(* Mutant: a campaign that fails ends the loop over its ad account. *)
Skip_Breaks(i, c) ==
  /\ CampaignFails(i, c)
  /\ Continue(i, c, [Failed(i, c) EXCEPT ![i].listing = NothingListed])
  /\ RunOnly

(* The campaign counts as failed, and the loop goes on. *)
Skip(i, c) ==
  /\ CampaignFails(i, c)
  /\ Continue(i, c, Failed(i, c))
  /\ RunOnly

-----------------------------------------------------------------------------
(* What else happens to the rows and to the platform                       *)

Stale(c) == run' = [i \in Imports |-> [run[i] EXCEPT !.fresh = run[i].fresh \ {c}]]

(* The creation worker: the campaign at the platform, then its id, with    *)
(* which the row becomes ACTIVE; every adapter creates the campaign paused *)
(* and nothing resumes it.  CampaignCreation has the whole story.          *)
CreateAtPlatform(r, c) ==
  /\ Present(r) /\ row[r].ext = None /\ unsaved[r] = None
  /\ account = "usable" /\ platform[c] = "absent" /\ Act("create")
  /\ platform' = [platform EXCEPT ![c] = "PAUSED"]
  /\ unsaved' = [unsaved EXCEPT ![r] = c]
  /\ UNCHANGED <<row, control, connection, queue, run, history, requests>>

SaveId(r) ==
  LET c == unsaved[r] IN
  /\ c # None
  /\ unsaved' = [unsaved EXCEPT ![r] = None]
  /\ IF Present(r)
     THEN /\ row' = [row EXCEPT ![r] = [status |-> "ACTIVE", ext |-> c]]
          /\ doubled' = IF c \in early THEN doubled \cup {c} ELSE doubled
          /\ drift' = IF platform[c] = "ACTIVE" THEN drift ELSE drift \cup {c}
          /\ run' = Overtake(c)
     ELSE UNCHANGED <<row, doubled, drift, run>>
  /\ UNCHANGED <<platform, control, connection, queue, misbound, early, removed,
                 requests, actions>>

LoseId(r) ==
  /\ unsaved[r] # None /\ Act("crash")
  /\ unsaved' = [unsaved EXCEPT ![r] = None]
  /\ UNCHANGED <<platform, row, control, connection, queue, run, history, requests>>

(* A pause or resume: the row at once, the platform later, or ERROR when   *)
(* the worker finds no usable account.  CampaignPauseResume has the whole. *)
Control(r, to) ==
  /\ Present(r) /\ row[r].status \in Delivered \ {to} /\ row[r].ext # None
  /\ control[r] = "none" /\ Act("control")
  /\ row' = [row EXCEPT ![r].status = to]
  /\ control' = [control EXCEPT ![r] = to]
  /\ Stale(row[r].ext)
  /\ UNCHANGED <<platform, unsaved, connection, queue, history, requests>>

ControlArrives(r) ==
  LET c == row[r].ext IN
  /\ control[r] # "none"
  /\ control' = [control EXCEPT ![r] = "none"]
  /\ IF ~Present(r) THEN UNCHANGED <<platform, row, run, drift>>
     ELSE IF account = "usable"
     THEN /\ platform' = [platform EXCEPT ![c] = control[r]]
          /\ Stale(c)
          /\ UNCHANGED <<row, drift>>
     ELSE /\ row' = [row EXCEPT ![r].status = "ERROR"]
          /\ drift' = drift \cup {c}
          /\ UNCHANGED <<platform, run>>
  /\ UNCHANGED <<unsaved, connection, queue, misbound, early, doubled, removed,
                 requests, actions>>

(* The user pauses or starts a campaign at the platform's console. *)
Console(c) ==
  /\ platform[c] # "absent" /\ Act("console")
  /\ \E s \in Delivered \ {platform[c]} : platform' = [platform EXCEPT ![c] = s]
  /\ drift' = drift \cup {c}
  /\ Stale(c)
  /\ UNCHANGED <<row, unsaved, control, connection, queue, misbound, early, doubled,
                 removed, requests>>

(* disconnect: the account, then all rows of the platform. *)
Disconnect ==
  /\ account = "usable" /\ ~pausing /\ Act("disconnect")
  /\ account' = "unusable" /\ pausing' = TRUE
  /\ UNCHANGED <<platform, row, unsaved, control, bound, chosen, queue, run, history, requests>>

DisconnectPauses ==
  /\ pausing
  /\ pausing' = FALSE
  /\ row' = [r \in Rows |-> IF Present(r) THEN [row[r] EXCEPT !.status = "PAUSED"] ELSE row[r]]
  /\ drift' = Campaigns
  /\ UNCHANGED <<platform, unsaved, control, account, bound, chosen, queue, run,
                 misbound, early, doubled, removed, requests, actions>>

(* Deleting the UACM campaign of a row. *)
Remove(r) ==
  /\ Present(r) /\ Act("remove")
  /\ row' = [row EXCEPT ![r].status = "removed"]
  /\ removed' = removed \cup ({row[r].ext} \ {None})
  /\ UNCHANGED <<platform, unsaved, control, connection, queue, run, misbound, early,
                 doubled, drift, requests>>

-----------------------------------------------------------------------------
RunStep(i) ==
  \/ Load(i) \/ Update(i)
  \/ \E a \in PlatformAccounts : ListCampaigns(i, a) \/ Finish(i, a)
  \/ \E c \in Campaigns : FindExisting(i, c) \/ Skip(i, c)
  \/ \E r \in Rows : Create(i, r)

Next ==
  \/ \E a \in AdAccounts : Link(a)
  \/ \E i \in Imports : ImportNow(i) \/ RunStep(i) \/ RunFails(i) \/ Crash(i)
  \/ \E i \in Imports, a \in AdAccounts : Deliver(i, a)
  \/ \E r \in Rows : SaveId(r) \/ LoseId(r) \/ ControlArrives(r) \/ Remove(r)
  \/ \E r \in Rows, c \in Campaigns : CreateAtPlatform(r, c)
  \/ \E r \in Rows, s \in Delivered : Control(r, s)
  \/ \E c \in Campaigns : Console(c)
  \/ Disconnect \/ DisconnectPauses

Spec == Init /\ [][Next]_vars

-----------------------------------------------------------------------------
(* Properties                                                              *)

(* "Re-imports update instead of duplicating" (campaign-import.service.ts):*)
(* a campaign of the platform has one row, unless two creations of its row *)
(* overlapped: two imports, or an import and a creation that had not saved *)
(* the id.                                                                 *)
OneRowPerCampaign ==
  \A c \in Campaigns \ doubled : \A r, s \in RowsOf(c) : r = s

(* The row of a campaign says what the platform does with it, but for a    *)
(* pause or resume on its way, after its creation (the row is ACTIVE, the  *)
(* campaign paused), after a change at the platform's console, after a     *)
(* disconnect, and after an import that overlapped a change; the next      *)
(* import that overlaps none sets it right.                                *)
RowSaysWhatIs ==
  \A c \in Campaigns \ (drift \cup doubled) : \A r \in RowsOf(c) :
    control[r] = "none" => row[r].status = platform[c]

(* An import does not change the ad account the user chose, unless the     *)
(* user chose it while the import was in progress (runner, last update).   *)
ChosenAccountIsKept == chosen # None /\ ~misbound => bound = chosen

(* A run that reaches its end has a row for every campaign it listed, but  *)
(* for those that failed and those removed since: one failure does not     *)
(* keep the others out.                                                    *)
ImportIsComplete ==
  [][\A i \in Imports : run[i].pc = "finish" /\ run'[i].pc # "finish"
       => \A c \in run[i].seen \ (run[i].failed \cup removed) : RowsOf(c) # {}]_vars

(* Why they hold: the parts of an inductive invariant.                     *)
(* Only a row with an id is controlled, only one without gets an id. *)
Stages ==
  \A r \in Rows :
    /\ row[r].ext = None => control[r] = "none"
    /\ unsaved[r] # None => row[r].ext = None
    /\ row[r].status = "absent" => row[r].ext = None /\ unsaved[r] = None

(* A run knows the campaign it is at, and the row it has found. *)
AtCampaign ==
  \A i \in Imports : run[i].pc \in {"update", "create"} =>
    /\ run[i].campaign \in Campaigns /\ run[i].listing[run[i].campaign] # "absent"
    /\ run[i].pc = "update" => /\ run[i].found \in Rows
                               /\ row[run[i].found].ext = run[i].campaign

BaseInv == TypeOK /\ Stages /\ AtCampaign

(* What has a row, an unsaved id or a place in a listing is at the platform. *)
KnownExists ==
  /\ \A r \in Rows : unsaved[r] # None => platform[unsaved[r]] # "absent"
  /\ \A r \in Rows : row[r].ext # None => platform[row[r].ext] # "absent"
  /\ \A i \in Imports, c \in Campaigns :
       run[i].listing[c] # "absent" => platform[c] # "absent"

(* Whoever is about to create a row, or to save an id, and was not         *)
(* overtaken, will be the first.                                           *)
FirstToCreate ==
  \A i \in Imports : run[i].pc = "create" /\ ~run[i].overtaken => RowsOf(run[i].campaign) = {}
FirstToSave ==
  /\ \A r, s \in Rows : unsaved[r] = unsaved[s] /\ unsaved[r] # None => r = s
  /\ \A r \in Rows : unsaved[r] \in Campaigns \ early => RowsOf(unsaved[r]) = {}

RowInv == BaseInv /\ KnownExists /\ FirstToCreate /\ FirstToSave /\ OneRowPerCampaign

(* A fresh listing is what is, and nothing is on its way. *)
FreshIsTrue ==
  \A i \in Imports : \A c \in run[i].fresh :
    run[i].listing[c] # "absent" => run[i].listing[c] = platform[c] /\ ~Pending(c)

(* A row says what a control will bring about. *)
ControlIsShown ==
  \A r \in Rows : Present(r) /\ control[r] # "none" /\ row[r].ext \notin drift \cup doubled
    => row[r].status = control[r]

TruthInv == RowInv /\ FreshIsTrue /\ ControlIsShown /\ RowSaysWhatIs

(* A run that the user has not overtaken holds the account chosen. *)
Working(i) == run[i].pc \in {"list", "find", "update", "create", "finish"}

ChosenInv ==
  /\ BaseInv /\ ChosenAccountIsKept
  /\ \A i \in Imports : Working(i) /\ ~run[i].relinked /\ chosen # None /\ ~misbound
                        => run[i].bound = chosen

(* What a run has listed it has still to import, or has imported, unless   *)
(* that failed or the row was removed; it lists and ends with nothing left *)
(* to import.                                                              *)
NothingLeft(i) == \A c \in Campaigns : run[i].listing[c] = "absent"
Accounted(i, c) == \/ c \in run[i].failed \cup removed
                   \/ run[i].listing[c] # "absent"
                   \/ RowsOf(c) # {}
CompleteInv ==
  /\ BaseInv
  /\ \A i \in Imports : /\ run[i].pc \in {"load", "list", "finish"} => NothingLeft(i)
                        /\ \A c \in run[i].seen : Accounted(i, c)

=============================================================================
