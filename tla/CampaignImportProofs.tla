------------------------ MODULE CampaignImportProofs ------------------------
(***************************************************************************)
(* Theorems about CampaignImport, for any number of campaigns, rows and    *)
(* imports, and for every set of faults and interventions.                 *)
(***************************************************************************)
EXTENDS CampaignImport, TLAPS

-----------------------------------------------------------------------------
(* Types                                                                   *)

(* A run not in progress is a run. *)
LEMMA NoRunType == NoRun \in Run
BY DEF NoRun, Run, NothingListed, AdAccounts, Delivered

LEMMA RunType == ASSUME TypeOK, NEW i \in Imports PROVE run[i] \in Run
BY DEF TypeOK

(* What follows a listing is a place of the runner. *)
LEMMA AfterPlace ==
  ASSUME NEW accounts, NEW listing
  PROVE  After(accounts, listing) \in {"find", "list", "finish"}
BY DEF After

(* Going on to the next campaign keeps the type of the runs. *)
LEMMA ContinueType ==
  ASSUME NEW i \in Imports, NEW c \in Campaigns, NEW runs \in [Imports -> Run],
         Continue(i, c, runs)
  PROVE  run' \in [Imports -> Run]
<1> DEFINE listing == [runs[i].listing EXCEPT ![c] = "absent"]
           pc == After(runs[i].accounts, listing)
<1>1. runs[i] \in Run
  OBVIOUS
<1>2. listing \in [Campaigns -> Delivered \cup {"absent"}]
  BY <1>1 DEF Run
<1>3. pc \in {"find", "list", "finish"}
  BY AfterPlace
<1>4. runs[i].fresh \ {c} \in SUBSET Campaigns
  BY <1>1 DEF Run
<1>5. run' = [runs EXCEPT ![i] = [runs[i] EXCEPT
            !.listing = listing, !.fresh = runs[i].fresh \ {c},
            !.campaign = None, !.found = 0, !.overtaken = FALSE, !.pc = pc]]
  BY DEF Continue
<1> HIDE DEF listing, pc
<1>6. [runs[i] EXCEPT !.listing = listing, !.fresh = runs[i].fresh \ {c},
            !.campaign = None, !.found = 0, !.overtaken = FALSE, !.pc = pc] \in Run
  BY <1>1, <1>2, <1>3, <1>4 DEF Run
<1> QED BY <1>5, <1>6

(* So does marking those that are overtaken, and those with a listing that *)
(* is out of date.                                                         *)
LEMMA OvertakeType ==
  ASSUME TypeOK, NEW c
  PROVE  Overtake(c) \in [Imports -> Run]
<1>1. ASSUME NEW x \in Run, NEW o \in BOOLEAN PROVE [x EXCEPT !.overtaken = o] \in Run
  BY DEF Run
<1>2. ASSUME NEW i \in Imports
      PROVE  (run[i].overtaken \/ (run[i].pc = "create" /\ run[i].campaign = c)) \in BOOLEAN
  BY RunType DEF Run
<1>3. ASSUME NEW i \in Imports PROVE Overtake(c)[i] \in Run
  <2> DEFINE o == run[i].overtaken \/ (run[i].pc = "create" /\ run[i].campaign = c)
  <2>1. Overtake(c)[i] = [run[i] EXCEPT !.overtaken = o]
    BY DEF Overtake
  <2>2. o \in BOOLEAN
    BY <1>2
  <2> HIDE DEF o
  <2> QED BY RunType, <1>1, <2>1, <2>2
<1>4. Overtake(c) = [i \in Imports |-> Overtake(c)[i]]
  BY DEF Overtake
<1> QED BY <1>3, <1>4

LEMMA StaleType ==
  ASSUME TypeOK, NEW c, Stale(c)
  PROVE  run' \in [Imports -> Run]
<1>1. ASSUME NEW x \in Run PROVE [x EXCEPT !.fresh = x.fresh \ {c}] \in Run
  BY DEF Run
<1> QED BY <1>1, RunType DEF Stale

(* A campaign that a listing holds is followed by the next one. *)
LEMMA SkipType ==
  ASSUME TypeOK, NEW i \in Imports, NEW c \in Campaigns, Skip(i, c)
  PROVE  run' \in [Imports -> Run]
<1>1. ASSUME NEW x \in Run PROVE [x EXCEPT !.failed = x.failed \cup {c}] \in Run
  BY DEF Run
<1>2. Failed(i, c) \in [Imports -> Run]
  BY <1>1, RunType DEF TypeOK, Failed
<1>3. Continue(i, c, Failed(i, c))
  BY DEF Skip
<1> QED BY <1>2, <1>3, ContinueType

(* Counting a fault or an intervention keeps the bound. *)
LEMMA ActType ==
  ASSUME TypeOK, NEW kind, Act(kind) \/ UNCHANGED actions
  PROVE  actions' \in 0..MaxActions
BY BoundsAssumption DEF Act, TypeOK

LEMMA AskType ==
  ASSUME TypeOK, Ask \/ UNCHANGED requests
  PROVE  requests' \in 0..MaxRequests
BY BoundsAssumption DEF Ask, TypeOK

-----------------------------------------------------------------------------
(* The steps of the types: one action at a time, each variable it changes. *)

LEMMA LinkType ==
  ASSUME TypeOK, NEW a \in AdAccounts, Link(a)
  PROVE  TypeOK'
<1>1. ASSUME NEW x \in Run, NEW b \in BOOLEAN PROVE [x EXCEPT !.relinked = b] \in Run
  BY DEF Run
<1>2. ASSUME NEW i \in Imports
      PROVE  (run[i].relinked \/ (a # None /\ run[i].pc \notin {"idle", "load"})) \in BOOLEAN
  BY RunType DEF Run
<1>3. run' \in [Imports -> Run]
  <2>1. ASSUME NEW i \in Imports PROVE run'[i] \in Run
    <3> DEFINE b == run[i].relinked \/ (a # None /\ run[i].pc \notin {"idle", "load"})
    <3>1. run'[i] = [run[i] EXCEPT !.relinked = b]
      BY DEF Link
    <3>2. b \in BOOLEAN
      BY <1>2
    <3> HIDE DEF b
    <3> QED BY RunType, <1>1, <3>1, <3>2
  <2> QED BY <2>1 DEF Link
<1>4. queue' \in [AdAccounts -> Nat]
  BY DEF TypeOK, Link
<1>5. misbound' \in BOOLEAN
  BY DEF TypeOK, Link
<1>6. bound' \in AdAccounts /\ chosen' \in AdAccounts
  BY DEF TypeOK, Link
<1>7. actions' \in 0..MaxActions /\ requests' \in 0..MaxRequests
  BY ActType, AskType DEF Link
<1> QED BY <1>3, <1>4, <1>5, <1>6, <1>7 DEF TypeOK, Link

LEMMA BeginType ==
  ASSUME TypeOK, NEW i \in Imports, NEW a \in AdAccounts, NEW m \in BOOLEAN, Begin(i, m, a)
  PROVE  run' \in [Imports -> Run]
<1>1. [NoRun EXCEPT !.pc = "load", !.message = m, !.only = a] \in Run
  BY NoRunType DEF Run
<1> QED BY <1>1 DEF Begin, TypeOK

LEMMA EndType ==
  ASSUME TypeOK, NEW i \in Imports, End(i)
  PROVE  run' \in [Imports -> Run]
BY NoRunType DEF End, TypeOK

(* Reading keeps the types of the runs. *)
LEMMA LoadType ==
  ASSUME TypeOK, NEW i \in Imports, Load(i)
  PROVE  run' \in [Imports -> Run]
<1>1. CASE End(i)
  BY <1>1, EndType
<1>2. CASE ~End(i)
  <2> DEFINE accounts == IF run[i].only = None THEN PlatformAccounts ELSE {run[i].only}
  <2>1. run' = [run EXCEPT ![i] = [run[i] EXCEPT
                  !.pc = "list", !.bound = bound, !.relinked = FALSE, !.accounts = accounts]]
    BY <1>2 DEF Load
  <2>2. accounts \in SUBSET PlatformAccounts
    BY RunType DEF Run, AdAccounts
  <2>3. bound \in AdAccounts
    BY DEF TypeOK
  <2> HIDE DEF accounts
  <2>4. ASSUME NEW x \in Run
        PROVE  [x EXCEPT !.pc = "list", !.bound = bound, !.relinked = FALSE,
                  !.accounts = accounts] \in Run
    BY <2>2, <2>3 DEF Run
  <2> QED BY RunType, <2>1, <2>4 DEF TypeOK
<1> QED BY <1>1, <1>2

LEMMA ListType ==
  ASSUME TypeOK, NEW i \in Imports, NEW a \in PlatformAccounts, ListCampaigns(i, a)
  PROVE  run' \in [Imports -> Run]
<1> DEFINE listed == {c \in Campaigns : AccountOf[c] = a /\ platform[c] # "absent"}
           listing == [c \in Campaigns |-> IF c \in listed THEN platform[c] ELSE "absent"]
           fresh == {c \in listed : ~Pending(c)}
           seen == run[i].seen \cup listed
           accounts == run[i].accounts \ {a}
           pc == After(accounts, listing)
<1>1. run' = [run EXCEPT ![i] = [run[i] EXCEPT !.accounts = accounts, !.listing = listing,
                !.fresh = fresh, !.seen = seen, !.pc = pc]]
  BY DEF ListCampaigns
<1>2. listing \in [Campaigns -> Delivered \cup {"absent"}]
  BY DEF TypeOK
<1>3. fresh \in SUBSET Campaigns
  OBVIOUS
<1>4. seen \in SUBSET Campaigns /\ accounts \in SUBSET PlatformAccounts
  BY RunType DEF Run
<1>5. pc \in {"find", "list", "finish"}
  BY AfterPlace
<1> HIDE DEF listing, fresh, seen, accounts, pc
<1>6. ASSUME NEW x \in Run
      PROVE  [x EXCEPT !.accounts = accounts, !.listing = listing, !.fresh = fresh,
                !.seen = seen, !.pc = pc] \in Run
  BY <1>2, <1>3, <1>4, <1>5 DEF Run
<1> QED BY RunType, <1>1, <1>6 DEF TypeOK

LEMMA FindType ==
  ASSUME TypeOK, NEW i \in Imports, NEW c \in Campaigns, FindExisting(i, c)
  PROVE  run' \in [Imports -> Run]
<1>1. ASSUME NEW x \in Run
      PROVE  [x EXCEPT !.pc = "create", !.campaign = c] \in Run
  BY DEF Run
<1>2. ASSUME NEW x \in Run, NEW r \in Rows
      PROVE  [x EXCEPT !.pc = "update", !.campaign = c, !.found = r] \in Run
  BY DEF Run
<1>3. CASE run' = [run EXCEPT ![i] = [run[i] EXCEPT !.pc = "create", !.campaign = c]]
  BY RunType, <1>1, <1>3 DEF TypeOK
<1>4. ASSUME NEW r \in Rows,
             run' = [run EXCEPT ![i] = [run[i] EXCEPT !.pc = "update", !.campaign = c, !.found = r]]
      PROVE  run' \in [Imports -> Run]
  BY RunType, <1>2, <1>4 DEF TypeOK
<1> QED BY <1>3, <1>4 DEF FindExisting, Matches, RowsOf

(* A step of a run that only reads. *)
LEMMA ReadingType ==
  ASSUME TypeOK, NEW i \in Imports,
         \/ Load(i) \/ \E a \in PlatformAccounts : ListCampaigns(i, a)
         \/ \E c \in Campaigns : FindExisting(i, c) \/ Skip(i, c)
         \/ RunFails(i)
  PROVE  TypeOK'
<1>1. run' \in [Imports -> Run]
  BY LoadType, ListType, FindType, SkipType, EndType DEF RunFails
<1>2. RunOnly
  BY DEF Load, ListCampaigns, FindExisting, Skip, RunFails
<1>3. actions' \in 0..MaxActions
  <2>1. \/ Act("read") \/ Act("platform") \/ Act("write") \/ UNCHANGED actions
    BY DEF Load, ListCampaigns, FindExisting, Skip, RunFails, CampaignFails, Undisturbed
  <2> QED BY <2>1, ActType
<1> QED BY <1>1, <1>2, <1>3 DEF RunOnly, TypeOK, connection, history

LEMMA RequestType ==
  ASSUME TypeOK, NEW i \in Imports,
         ImportNow(i) \/ \E a \in AdAccounts : Deliver(i, a)
  PROVE  TypeOK'
<1>1. CASE ImportNow(i)
  <2>1. run' \in [Imports -> Run]
    BY <1>1, BeginType DEF ImportNow, AdAccounts
  <2>2. requests' \in 0..MaxRequests
    BY <1>1, AskType DEF ImportNow
  <2> QED BY <1>1, <2>1, <2>2 DEF ImportNow, Begin, TypeOK, connection, history
<1>2. ASSUME NEW a \in AdAccounts, Deliver(i, a) PROVE TypeOK'
  <2>1. run' \in [Imports -> Run]
    BY <1>2, BeginType DEF Deliver
  <2>2. queue' \in [AdAccounts -> Nat]
    BY <1>2 DEF Deliver, TypeOK
  <2> QED BY <1>2, <2>1, <2>2 DEF Deliver, Begin, TypeOK, connection, history
<1> QED BY <1>1, <1>2

LEMMA RedeliveredType ==
  ASSUME TypeOK, NEW i \in Imports
  PROVE  Redelivered(i) \in [AdAccounts -> Nat]
<1>1. run[i].only \in AdAccounts
  BY RunType DEF Run
<1> QED BY <1>1 DEF Redelivered, TypeOK

LEMMA EndingType ==
  ASSUME TypeOK, NEW i \in Imports,
         Crash(i) \/ \E a \in PlatformAccounts : Finish(i, a)
  PROVE  TypeOK'
<1>1. run' \in [Imports -> Run]
  BY EndType DEF Crash, Finish, End
<1>2. queue' \in [AdAccounts -> Nat] /\ actions' \in 0..MaxActions
  BY RedeliveredType, ActType DEF Crash, Finish, TypeOK
<1>3. CASE Crash(i)
  BY <1>1, <1>2, <1>3 DEF Crash, TypeOK, connection, history
<1>4. ASSUME NEW a \in PlatformAccounts, Finish(i, a) PROVE TypeOK'
  <2>1. run[i].bound \in AdAccounts /\ run[i].relinked \in BOOLEAN
    BY RunType DEF Run
  <2>2. bound' \in AdAccounts
    BY <1>4, <2>1 DEF Finish, FinishedBound, AdAccounts
  <2>3. misbound' \in BOOLEAN
    BY <1>4 DEF Finish, TypeOK
  <2> QED BY <1>1, <1>2, <1>4, <2>2, <2>3 DEF Finish, TypeOK
<1> QED BY <1>3, <1>4

(* A row with a status and a campaign is a row. *)
LEMMA RowType ==
  ASSUME NEW s \in {"PENDING", "ACTIVE", "PAUSED", "ERROR", "absent", "removed"},
         NEW c \in Campaigns \cup {None}
  PROVE  [status |-> s, ext |-> c] \in Row
BY DEF Row

LEMMA StatusType ==
  ASSUME TypeOK, NEW r \in Rows,
         NEW s \in {"PENDING", "ACTIVE", "PAUSED", "ERROR", "absent", "removed"}
  PROVE  [row EXCEPT ![r].status = s] \in [Rows -> Row]
<1>1. ASSUME NEW x \in Row PROVE [x EXCEPT !.status = s] \in Row
  BY DEF Row
<1> QED BY <1>1 DEF TypeOK

LEMMA MapStatusType == \A s : MapStatus(s) \in Delivered
BY DEF MapStatus, Delivered

(* The writes of an import. *)
LEMMA UpdateType ==
  ASSUME TypeOK, AtCampaign, NEW i \in Imports, Update(i)
  PROVE  TypeOK'
<1>1. run[i].campaign \in Campaigns /\ run[i].found \in Rows
  BY DEF Update, AtCampaign
<1>2. run' \in [Imports -> Run]
  BY <1>1, ContinueType DEF Update, TypeOK
<1>3. row' \in [Rows -> Row]
  BY <1>1, StatusType, MapStatusType DEF Update, Delivered
<1>4. drift' \subseteq Campaigns
  BY <1>1 DEF Update, Drift, TypeOK
<1> QED BY <1>2, <1>3, <1>4 DEF Update, TypeOK, connection

LEMMA CreateType ==
  ASSUME TypeOK, AtCampaign, NEW i \in Imports, NEW r \in Rows, Create(i, r)
  PROVE  TypeOK'
<1>1. run[i].campaign \in Campaigns
  BY DEF Create, AtCampaign
<1>2. run' \in [Imports -> Run]
  BY <1>1, OvertakeType, ContinueType DEF Create
<1>3. row' \in [Rows -> Row]
  BY <1>1, RowType, MapStatusType DEF Create, Delivered, TypeOK
<1>4. drift' \subseteq Campaigns
  BY <1>1 DEF Create, Drift, TypeOK
<1>5. doubled' \subseteq Campaigns /\ early' \subseteq Campaigns
  BY <1>1 DEF Create, TypeOK
<1> QED BY <1>2, <1>3, <1>4, <1>5 DEF Create, TypeOK, connection

(* The faults and interventions. *)
LEMMA SavingType ==
  ASSUME TypeOK, NEW r \in Rows, SaveId(r) \/ LoseId(r)
  PROVE  TypeOK'
<1>1. unsaved' \in [Rows -> Campaigns \cup {None}]
  BY DEF SaveId, LoseId, TypeOK
<1>2. CASE LoseId(r)
  <2>1. actions' \in 0..MaxActions
    BY <1>2, ActType DEF LoseId
  <2> QED BY <1>1, <1>2, <2>1 DEF LoseId, TypeOK, connection, history
<1>3. CASE SaveId(r)
  <2>1. unsaved[r] \in Campaigns
    BY <1>3 DEF SaveId, TypeOK
  <2>2. row' \in [Rows -> Row]
    BY <1>3, <2>1, RowType DEF SaveId, TypeOK
  <2>3. doubled' \subseteq Campaigns /\ drift' \subseteq Campaigns
    BY <1>3, <2>1 DEF SaveId, TypeOK
  <2>4. run' \in [Imports -> Run]
    BY <1>3, OvertakeType DEF SaveId, TypeOK
  <2> QED BY <1>1, <1>3, <2>2, <2>3, <2>4 DEF SaveId, TypeOK, connection
<1> QED BY <1>2, <1>3

LEMMA CreateAtPlatformType ==
  ASSUME TypeOK, NEW r \in Rows, NEW c \in Campaigns, CreateAtPlatform(r, c)
  PROVE  TypeOK'
<1>1. actions' \in 0..MaxActions
  BY ActType DEF CreateAtPlatform
<1>2. /\ platform' \in [Campaigns -> Delivered \cup {"absent"}]
      /\ unsaved' \in [Rows -> Campaigns \cup {None}]
  BY DEF CreateAtPlatform, TypeOK, Delivered
<1> QED BY <1>1, <1>2 DEF CreateAtPlatform, TypeOK, connection, history

LEMMA ControlType ==
  ASSUME TypeOK, NEW r \in Rows, NEW to \in Delivered, Control(r, to)
  PROVE  TypeOK'
<1>1. actions' \in 0..MaxActions /\ run' \in [Imports -> Run]
  BY ActType, StaleType DEF Control
<1>2. row' \in [Rows -> Row]
  BY StatusType DEF Control, Delivered
<1>3. control' \in [Rows -> Delivered \cup {"none"}]
  BY DEF Control, TypeOK
<1> QED BY <1>1, <1>2, <1>3 DEF Control, TypeOK, connection, history

LEMMA ControlArrivesType ==
  ASSUME TypeOK, Stages, NEW r \in Rows, ControlArrives(r)
  PROVE  TypeOK'
<1>1. row[r].ext \in Campaigns /\ control[r] \in Delivered
  BY DEF Stages, TypeOK, Row, ControlArrives
<1>2. control' \in [Rows -> Delivered \cup {"none"}]
  BY DEF ControlArrives, TypeOK
<1>3. run' \in [Imports -> Run]
  BY StaleType, <1>1 DEF ControlArrives, TypeOK
<1>4. row' \in [Rows -> Row]
  BY StatusType DEF ControlArrives, TypeOK
<1>5. /\ platform' \in [Campaigns -> Delivered \cup {"absent"}]
      /\ drift' \subseteq Campaigns
  BY <1>1 DEF ControlArrives, TypeOK
<1> QED BY <1>2, <1>3, <1>4, <1>5 DEF ControlArrives, TypeOK, connection

LEMMA ConsoleType ==
  ASSUME TypeOK, NEW c \in Campaigns, Console(c)
  PROVE  TypeOK'
<1>1. actions' \in 0..MaxActions /\ run' \in [Imports -> Run]
  BY ActType, StaleType DEF Console
<1>2. /\ platform' \in [Campaigns -> Delivered \cup {"absent"}]
      /\ drift' \subseteq Campaigns
  BY DEF Console, TypeOK
<1> QED BY <1>1, <1>2 DEF Console, TypeOK, connection

LEMMA DisconnectType ==
  ASSUME TypeOK, Disconnect \/ DisconnectPauses
  PROVE  TypeOK'
<1>1. CASE Disconnect
  <2>1. actions' \in 0..MaxActions
    BY <1>1, ActType DEF Disconnect
  <2> QED BY <1>1, <2>1 DEF Disconnect, TypeOK, history
<1>2. CASE DisconnectPauses
  <2>1. ASSUME NEW x \in Row PROVE [x EXCEPT !.status = "PAUSED"] \in Row
    BY DEF Row
  <2>2. row' \in [Rows -> Row]
    BY <1>2, <2>1 DEF DisconnectPauses, TypeOK
  <2> QED BY <1>2, <2>2 DEF DisconnectPauses, TypeOK
<1> QED BY <1>1, <1>2

LEMMA RemoveType ==
  ASSUME TypeOK, NEW r \in Rows, Remove(r)
  PROVE  TypeOK'
<1>1. actions' \in 0..MaxActions /\ row' \in [Rows -> Row]
  BY ActType, StatusType DEF Remove
<1>2. removed' \subseteq Campaigns
  BY DEF Remove, TypeOK, Row
<1> QED BY <1>1, <1>2 DEF Remove, TypeOK, connection

LEMMA TypeStep == BaseInv /\ [Next]_vars => TypeOK'
<1> SUFFICES ASSUME BaseInv, [Next]_vars PROVE TypeOK'
  OBVIOUS
<1>1. TypeOK /\ Stages /\ AtCampaign
  BY DEF BaseInv
<1>2. CASE UNCHANGED vars
  BY <1>1, <1>2 DEF vars, TypeOK, connection, history
<1>3. ASSUME NEW i \in Imports, RunStep(i) PROVE TypeOK'
  BY <1>1, <1>3, ReadingType, EndingType, UpdateType, CreateType DEF RunStep
<1>4. CASE Next
  BY <1>1, <1>3, <1>4, LinkType, RequestType, ReadingType, EndingType, SavingType,
     CreateAtPlatformType, ControlType, ControlArrivesType, ConsoleType, DisconnectType,
     RemoveType DEF Next
<1> QED BY <1>2, <1>4

-----------------------------------------------------------------------------
(* What a step does to a run                                               *)

(* Run j is at the same place, and at the same campaign there. *)
SamePlace(runs, j) ==
  /\ runs[j].pc = run[j].pc /\ runs[j].campaign = run[j].campaign
  /\ runs[j].found = run[j].found /\ runs[j].listing = run[j].listing

SameAccount(runs, j) ==
  runs[j].bound = run[j].bound /\ runs[j].relinked = run[j].relinked

LEMMA ContinueOthers ==
  ASSUME NEW i \in Imports, NEW c \in Campaigns, NEW runs \in [Imports -> Run],
         Continue(i, c, runs), NEW k \in Imports, k # i
  PROVE  run'[k] = runs[k]
BY DEF Continue

LEMMA ContinuePlace ==
  ASSUME NEW i \in Imports, NEW c \in Campaigns, NEW runs \in [Imports -> Run],
         Continue(i, c, runs)
  PROVE  run'[i].pc \in {"find", "list", "finish"}
<1> DEFINE listing == [runs[i].listing EXCEPT ![c] = "absent"]
           pc == After(runs[i].accounts, listing)
<1>1. run' = [runs EXCEPT ![i] = [runs[i] EXCEPT
            !.listing = listing, !.fresh = runs[i].fresh \ {c},
            !.campaign = None, !.found = 0, !.overtaken = FALSE, !.pc = pc]]
  BY DEF Continue
<1>2. pc \in {"find", "list", "finish"}
  BY AfterPlace
<1>3. runs[i] \in Run
  OBVIOUS
<1> HIDE DEF pc
<1> QED BY <1>1, <1>2, <1>3 DEF Run

LEMMA ContinueListing ==
  ASSUME NEW i \in Imports, NEW c \in Campaigns, NEW runs \in [Imports -> Run],
         Continue(i, c, runs)
  PROVE  /\ run'[i].listing = [runs[i].listing EXCEPT ![c] = "absent"]
         /\ run'[i].fresh = runs[i].fresh \ {c}
<1>1. runs[i] \in Run
  OBVIOUS
<1> QED BY <1>1 DEF Run, Continue

LEMMA ContinueAccount ==
  ASSUME NEW i \in Imports, NEW c \in Campaigns, NEW runs \in [Imports -> Run],
         Continue(i, c, runs)
  PROVE  run'[i].bound = runs[i].bound /\ run'[i].relinked = runs[i].relinked
<1>1. runs[i] \in Run
  OBVIOUS
<1> QED BY <1>1 DEF Run, Continue

LEMMA OvertakeShape ==
  ASSUME TypeOK, NEW c, NEW j \in Imports
  PROVE  /\ SamePlace(Overtake(c), j) /\ SameAccount(Overtake(c), j)
         /\ Overtake(c)[j].fresh = run[j].fresh
         /\ run[j].overtaken => Overtake(c)[j].overtaken
         /\ run[j].pc = "create" /\ run[j].campaign = c => Overtake(c)[j].overtaken
<1>1. run[j] \in Run
  BY RunType
<1> QED BY <1>1 DEF Overtake, SamePlace, SameAccount, Run

LEMMA StaleShape ==
  ASSUME TypeOK, NEW c, Stale(c), NEW j \in Imports
  PROVE  /\ SamePlace(run', j) /\ SameAccount(run', j)
         /\ run'[j].fresh = run[j].fresh \ {c} /\ run'[j].overtaken = run[j].overtaken
<1>1. run[j] \in Run
  BY RunType
<1> QED BY <1>1 DEF Stale, SamePlace, SameAccount, Run

LEMMA LinkShape ==
  ASSUME TypeOK, NEW a \in AdAccounts, Link(a), NEW j \in Imports
  PROVE  /\ SamePlace(run', j) /\ run'[j].bound = run[j].bound
         /\ run'[j].fresh = run[j].fresh /\ run'[j].overtaken = run[j].overtaken
         /\ run'[j].relinked = (run[j].relinked \/ (a # None /\ run[j].pc \notin {"idle", "load"}))
<1>1. run[j] \in Run
  BY RunType
<1> QED BY <1>1 DEF Link, SamePlace, Run

LEMMA FailedShape ==
  ASSUME TypeOK, NEW i \in Imports, NEW c \in Campaigns, NEW j \in Imports
  PROVE  /\ Failed(i, c) \in [Imports -> Run]
         /\ SamePlace(Failed(i, c), j) /\ SameAccount(Failed(i, c), j)
         /\ Failed(i, c)[j].fresh = run[j].fresh
         /\ Failed(i, c)[j].overtaken = run[j].overtaken
<1>1. ASSUME NEW x \in Run PROVE [x EXCEPT !.failed = x.failed \cup {c}] \in Run
  BY DEF Run
<1>2. Failed(i, c) \in [Imports -> Run]
  BY <1>1, RunType DEF TypeOK, Failed
<1>3. run[j] \in Run /\ run \in [Imports -> Run]
  BY RunType DEF TypeOK
<1> QED BY <1>2, <1>3 DEF Failed, SamePlace, SameAccount, Run

(* A run is at a campaign by finding it, or was there before the step.     *)
LEMMA PlaceStep ==
  ASSUME BaseInv, Next, NEW j \in Imports, run'[j].pc \in {"update", "create"}
  PROVE  \/ SamePlace(run', j) /\ (run[j].overtaken => run'[j].overtaken)
         \/ \E c \in Campaigns : FindExisting(j, c)
<1> DEFINE Kept == SamePlace(run', j) /\ (run[j].overtaken => run'[j].overtaken)
           Goal == Kept \/ \E c \in Campaigns : FindExisting(j, c)
<1>1. TypeOK /\ AtCampaign /\ run \in [Imports -> Run]
  BY DEF BaseInv, TypeOK
<1>2. UNCHANGED run => Kept
  BY DEF SamePlace
<1>3. ASSUME NEW i \in Imports, NEW c \in Campaigns, NEW runs \in [Imports -> Run],
             Continue(i, c, runs), SamePlace(runs, j), run[j].overtaken => runs[j].overtaken
      PROVE  Kept
  <2>1. Continue(i, c, runs)
    BY <1>3
  <2>2. j # i
    BY <2>1, ContinuePlace
  <2>3. run'[j] = runs[j]
    BY <2>1, <2>2, ContinueOthers
  <2> QED BY <1>3, <2>3 DEF SamePlace
<1>4. ASSUME NEW i \in Imports, run'[i].pc \notin {"update", "create"},
             \A k \in Imports \ {i} : run'[k] = run[k]
      PROVE  Kept
  BY <1>4 DEF SamePlace
<1>5. ASSUME NEW i \in Imports, NEW a \in AdAccounts, Begin(i, TRUE, a) \/ Begin(i, FALSE, a)
      PROVE  Kept
  <2>1. ASSUME NEW m \in BOOLEAN, Begin(i, m, a) PROVE Kept
    <3> DEFINE new == [NoRun EXCEPT !.pc = "load", !.message = m, !.only = a]
    <3>1. run' = [run EXCEPT ![i] = new]
      BY <2>1 DEF Begin
    <3>2. new.pc = "load"
      BY DEF NoRun
    <3> HIDE DEF new
    <3> QED BY <1>1, <1>4, <3>1, <3>2
  <2> QED BY <1>5, <2>1
<1>6. ASSUME NEW i \in Imports, End(i) PROVE Kept
  BY <1>1, <1>4, <1>6 DEF End, NoRun
<1>7. ASSUME NEW i \in Imports, Load(i) PROVE Kept
  <2>1. CASE End(i)
    BY <1>6, <2>1
  <2>2. CASE ~End(i)
    <3> DEFINE accounts == IF run[i].only = None THEN PlatformAccounts ELSE {run[i].only}
               new == [run[i] EXCEPT !.pc = "list", !.bound = bound, !.relinked = FALSE,
                         !.accounts = accounts]
    <3>1. run' = [run EXCEPT ![i] = new]
      BY <1>7, <2>2 DEF Load
    <3>2. new.pc = "list"
      BY <1>1, RunType DEF Run
    <3> HIDE DEF new
    <3> QED BY <1>1, <1>4, <3>1, <3>2
  <2> QED BY <2>1, <2>2
<1>8. ASSUME NEW i \in Imports, NEW a \in PlatformAccounts, ListCampaigns(i, a) PROVE Kept
  <2> DEFINE listed == {c \in Campaigns : AccountOf[c] = a /\ platform[c] # "absent"}
             listing == [c \in Campaigns |-> IF c \in listed THEN platform[c] ELSE "absent"]
             fresh == {c \in listed : ~Pending(c)}
             seen == run[i].seen \cup listed
             accounts == run[i].accounts \ {a}
             pc == After(accounts, listing)
  <2>1. run' = [run EXCEPT ![i] = [run[i] EXCEPT !.accounts = accounts, !.listing = listing,
                  !.fresh = fresh, !.seen = seen, !.pc = pc]]
    BY <1>8 DEF ListCampaigns
  <2>2. pc \in {"find", "list", "finish"}
    BY AfterPlace
  <2>3. run[i] \in Run
    BY <1>1, RunType
  <2> HIDE DEF listing, fresh, seen, accounts, pc
  <2>4. run'[i].pc = pc
    BY <1>1, <2>1, <2>3 DEF Run
  <2>5. \A k \in Imports \ {i} : run'[k] = run[k]
    BY <1>1, <2>1
  <2> QED BY <1>4, <2>2, <2>4, <2>5
<1>9. ASSUME NEW i \in Imports, NEW c \in Campaigns, FindExisting(i, c) PROVE Goal
  <2>1. CASE i = j
    BY <1>9, <2>1
  <2>2. CASE i # j
    BY <1>1, <1>9, <2>2 DEF FindExisting, SamePlace
  <2> QED BY <2>1, <2>2
<1>10. ASSUME NEW i \in Imports, Update(i) PROVE Kept
  <2>1. run[i].campaign \in Campaigns /\ Continue(i, run[i].campaign, run)
    BY <1>1, <1>10 DEF Update, AtCampaign
  <2> QED BY <1>1, <1>3, <2>1 DEF SamePlace
<1>11. ASSUME NEW i \in Imports, NEW r \in Rows, Create(i, r) PROVE Kept
  <2> DEFINE c == run[i].campaign
  <2>1. c \in Campaigns /\ Continue(i, c, Overtake(c))
    BY <1>1, <1>11 DEF Create, AtCampaign
  <2> QED BY <1>1, <1>3, <2>1, OvertakeType, OvertakeShape
<1>12. ASSUME NEW i \in Imports, NEW c \in Campaigns, Skip(i, c) PROVE Kept
  <2>1. Continue(i, c, Failed(i, c))
    BY <1>12 DEF Skip
  <2> QED BY <1>1, <1>3, <2>1, FailedShape
<1>13. ASSUME NEW i \in Imports, RunStep(i) PROVE Goal
  BY <1>6, <1>7, <1>8, <1>9, <1>10, <1>11, <1>12, <1>13 DEF RunStep, Finish
<1>14. ASSUME NEW r \in Rows, SaveId(r) PROVE Kept
  BY <1>1, <1>2, <1>14, OvertakeShape DEF SaveId
<1>15. ASSUME NEW i \in Imports, Crash(i) \/ RunFails(i) PROVE Kept
  BY <1>6, <1>15 DEF Crash, RunFails, End
<1>16. ASSUME NEW c, Stale(c) PROVE Kept
  BY <1>1, <1>16, StaleShape
<1>17. ASSUME NEW a \in AdAccounts, Link(a) PROVE Kept
  BY <1>1, <1>17, LinkShape
<1>18. ASSUME NEW i \in Imports, ImportNow(i) PROVE Kept
  BY <1>5, <1>18 DEF ImportNow, AdAccounts
<1>19. ASSUME NEW i \in Imports, NEW a \in AdAccounts, Deliver(i, a) PROVE Kept
  BY <1>5, <1>19 DEF Deliver
<1>20. ASSUME NEW r \in Rows, \/ ControlArrives(r) \/ LoseId(r) \/ Remove(r)
                              \/ \E c \in Campaigns : CreateAtPlatform(r, c)
                              \/ \E to \in Delivered : Control(r, to)
       PROVE  Kept
  BY <1>2, <1>16, <1>20 DEF ControlArrives, LoseId, Remove, CreateAtPlatform, Control
<1>21. ASSUME \/ Disconnect \/ DisconnectPauses \/ \E c \in Campaigns : Console(c)
       PROVE  Kept
  BY <1>2, <1>16, <1>21 DEF Disconnect, DisconnectPauses, Console
<1> QED BY <1>13, <1>14, <1>15, <1>17, <1>18, <1>19, <1>20, <1>21 DEF Next

-----------------------------------------------------------------------------
(* The base invariant                                                      *)

RowsKept == UNCHANGED <<platform, row, unsaved, control>>
HistoryKept == UNCHANGED <<early, doubled, drift>>

(* The steps of a run that write no row, and the requests. *)
LEMMA Reading ==
  ASSUME NEW i \in Imports,
         \/ ImportNow(i) \/ RunFails(i) \/ Crash(i) \/ Load(i)
         \/ \E a \in AdAccounts : Deliver(i, a) \/ Link(a)
         \/ \E a \in PlatformAccounts : ListCampaigns(i, a) \/ Finish(i, a)
         \/ \E c \in Campaigns : FindExisting(i, c) \/ Skip(i, c)
  PROVE  RowsKept /\ HistoryKept
BY DEF ImportNow, RunFails, Crash, Load, Deliver, Link, ListCampaigns, Finish, FindExisting,
       Skip, Begin, RunOnly, history, RowsKept, HistoryKept

(* The steps that write the rows, the platform or what goes with them. *)
Writing ==
  \/ \E i \in Imports : Update(i) \/ \E r \in Rows : Create(i, r)
  \/ \E r \in Rows : SaveId(r) \/ LoseId(r) \/ ControlArrives(r) \/ Remove(r)
  \/ \E r \in Rows, c \in Campaigns : CreateAtPlatform(r, c)
  \/ \E r \in Rows, s \in Delivered : Control(r, s)
  \/ \E c \in Campaigns : Console(c)
  \/ DisconnectPauses

LEMMA Kinds == Next => (RowsKept /\ HistoryKept) \/ Writing
<1> SUFFICES ASSUME Next PROVE (RowsKept /\ HistoryKept) \/ Writing
  OBVIOUS
<1>1. ASSUME NEW a \in AdAccounts, Link(a) PROVE RowsKept /\ HistoryKept
  BY <1>1 DEF Link, RowsKept, HistoryKept
<1>2. CASE Disconnect
  BY <1>2 DEF Disconnect, RowsKept, HistoryKept, history
<1>3. ASSUME NEW i \in Imports, RunStep(i) PROVE (RowsKept /\ HistoryKept) \/ Writing
  <2>1. CASE \/ Load(i) \/ \E a \in PlatformAccounts : ListCampaigns(i, a) \/ Finish(i, a)
             \/ \E c \in Campaigns : FindExisting(i, c) \/ Skip(i, c)
    BY <2>1, Reading
  <2>2. CASE Update(i) \/ \E r \in Rows : Create(i, r)
    BY <2>2 DEF Writing
  <2> QED BY <1>3, <2>1, <2>2 DEF RunStep
<1>4. ASSUME NEW i \in Imports,
             ImportNow(i) \/ RunFails(i) \/ Crash(i) \/ \E a \in AdAccounts : Deliver(i, a)
      PROVE  RowsKept /\ HistoryKept
  BY <1>4, Reading
<1>5. CASE \/ \E r \in Rows : SaveId(r) \/ LoseId(r) \/ ControlArrives(r) \/ Remove(r)
           \/ \E r \in Rows, c \in Campaigns : CreateAtPlatform(r, c)
           \/ \E r \in Rows, s \in Delivered : Control(r, s)
           \/ \E c \in Campaigns : Console(c)
           \/ DisconnectPauses
  BY <1>5 DEF Writing
<1> QED BY <1>1, <1>2, <1>3, <1>4, <1>5 DEF Next

(* The stages of a row. *)
LEMMA StagesStep == BaseInv /\ Next => Stages'
<1> SUFFICES ASSUME BaseInv, Next PROVE Stages'
  OBVIOUS
<1>1. TypeOK /\ Stages /\ AtCampaign
  BY DEF BaseInv
<1>2. row \in [Rows -> Row] /\ \A r \in Rows : row[r] \in Row
  BY <1>1 DEF TypeOK
<1>3. CASE RowsKept
  BY <1>1, <1>3 DEF RowsKept, Stages
<1>4. ASSUME NEW q \in Rows, NEW s \in Delivered \cup {"ERROR", "removed"},
             row' = [row EXCEPT ![q].status = s]
      PROVE  \A r \in Rows : row'[r].ext = row[r].ext
                             /\ (row'[r].status = "absent" => row[r].status = "absent")
  BY <1>2, <1>4 DEF Row, Delivered
<1>5. ASSUME NEW i \in Imports, Update(i) PROVE Stages'
  <2>1. run[i].found \in Rows /\ MapStatus(run[i].listing[run[i].campaign]) \in Delivered
    BY <1>1, <1>5, MapStatusType DEF Update, AtCampaign
  <2>2. \A r \in Rows : row'[r].ext = row[r].ext
                        /\ (row'[r].status = "absent" => row[r].status = "absent")
    BY <1>4, <1>5, <2>1 DEF Update
  <2> QED BY <1>1, <1>5, <2>2 DEF Update, Stages
<1>6. ASSUME NEW i \in Imports, NEW q \in Rows, Create(i, q) PROVE Stages'
  <2> DEFINE new == [status |-> MapStatus(run[i].listing[run[i].campaign]), ext |-> run[i].campaign]
  <2>1. row' = [row EXCEPT ![q] = new] /\ UNCHANGED <<unsaved, control>>
    BY <1>6 DEF Create
  <2>2. new.ext # None /\ new.status # "absent"
    BY <1>1, <1>6, MapStatusType, NoneAssumption DEF Create, AtCampaign, Delivered
  <2>3. control[q] = "none" /\ unsaved[q] = None
    BY <1>1, <1>6 DEF Create, Unused, Stages
  <2> HIDE DEF new
  <2> QED BY <1>1, <1>2, <2>1, <2>2, <2>3 DEF Stages
<1>7. ASSUME NEW q \in Rows, SaveId(q) PROVE Stages'
  <2>1. unsaved[q] # None /\ row[q].ext = None /\ control[q] = "none"
    BY <1>1, <1>7 DEF SaveId, Stages
  <2>2. unsaved' = [unsaved EXCEPT ![q] = None] /\ unsaved \in [Rows -> Campaigns \cup {None}]
    BY <1>1, <1>7 DEF SaveId, TypeOK
  <2>3. UNCHANGED control
    BY <1>7 DEF SaveId
  <2> DEFINE new == [status |-> "ACTIVE", ext |-> unsaved[q]]
  <2>4. CASE row' = [row EXCEPT ![q] = new]
    <3>1. new.ext = unsaved[q] /\ new.status = "ACTIVE"
      OBVIOUS
    <3> HIDE DEF new
    <3> QED BY <1>1, <1>2, <2>1, <2>2, <2>3, <2>4, <3>1 DEF Stages
  <2>5. CASE UNCHANGED row
    BY <1>1, <2>2, <2>3, <2>5 DEF Stages
  <2> QED BY <1>7, <2>4, <2>5 DEF SaveId
<1>8. ASSUME NEW q \in Rows, LoseId(q) PROVE Stages'
  BY <1>1, <1>8 DEF LoseId, Stages, TypeOK
<1>9. ASSUME NEW q \in Rows, ControlArrives(q) PROVE Stages'
  <2>1. \A r \in Rows : row'[r].ext = row[r].ext
                        /\ (row'[r].status = "absent" => row[r].status = "absent")
    BY <1>4, <1>9 DEF ControlArrives
  <2> QED BY <1>1, <1>9, <2>1 DEF ControlArrives, Stages, TypeOK
<1>10. ASSUME NEW q \in Rows, Remove(q) PROVE Stages'
  <2>1. \A r \in Rows : row'[r].ext = row[r].ext
                        /\ (row'[r].status = "absent" => row[r].status = "absent")
    BY <1>4, <1>10 DEF Remove
  <2> QED BY <1>1, <1>10, <2>1 DEF Remove, Stages
<1>11. ASSUME NEW q \in Rows, NEW c \in Campaigns, CreateAtPlatform(q, c) PROVE Stages'
  BY <1>1, <1>11 DEF CreateAtPlatform, Stages, TypeOK, Present
<1>12. ASSUME NEW q \in Rows, NEW s \in Delivered, Control(q, s) PROVE Stages'
  <2>1. \A r \in Rows : row'[r].ext = row[r].ext
                        /\ (row'[r].status = "absent" => row[r].status = "absent")
    BY <1>4, <1>12 DEF Control
  <2> QED BY <1>1, <1>12, <2>1 DEF Control, Stages, TypeOK
<1>13. ASSUME NEW c \in Campaigns, Console(c) PROVE Stages'
  BY <1>1, <1>13 DEF Console, Stages
<1>14. CASE DisconnectPauses
  <2>1. \A r \in Rows : row'[r].ext = row[r].ext
                        /\ (row'[r].status = "absent" => row[r].status = "absent")
    BY <1>2, <1>14 DEF DisconnectPauses, Row
  <2> QED BY <1>1, <1>14, <2>1 DEF DisconnectPauses, Stages
<1> QED BY <1>3, <1>5, <1>6, <1>7, <1>8, <1>9, <1>10, <1>11, <1>12, <1>13, <1>14, Kinds DEF Writing

(* Only a creation of a row and the saving of an id give a row a campaign. *)
RowsAhead == \A r \in Rows : row'[r].ext = row[r].ext /\ (Present(r)' => Present(r))

LEMMA RowsStep ==
  BaseInv /\ Next =>
    \/ RowsAhead
    \/ \E i \in Imports, q \in Rows : Create(i, q)
    \/ \E q \in Rows : SaveId(q)
<1> SUFFICES ASSUME BaseInv, Next
             PROVE  \/ RowsAhead
                    \/ \E i \in Imports, q \in Rows : Create(i, q)
                    \/ \E q \in Rows : SaveId(q)
  OBVIOUS
<1>1. TypeOK /\ Stages /\ AtCampaign
  BY DEF BaseInv
<1>2. row \in [Rows -> Row] /\ \A r \in Rows : row[r] \in Row
  BY <1>1 DEF TypeOK
<1>3. UNCHANGED row => RowsAhead
  BY DEF RowsAhead, Present
<1>4. ASSUME NEW q \in Rows, NEW s, Present(q), row' = [row EXCEPT ![q].status = s]
      PROVE  RowsAhead
  <2>1. \A r \in Rows : row'[r].ext = row[r].ext /\ (r # q => row'[r] = row[r])
    BY <1>2, <1>4 DEF Row
  <2> QED BY <1>4, <2>1 DEF RowsAhead, Present
<1>5. ASSUME NEW i \in Imports, Update(i) PROVE RowsAhead
  <2>1. run[i].found \in Rows
    BY <1>1, <1>5 DEF Update, AtCampaign
  <2> QED BY <1>4, <1>5, <2>1 DEF Update
<1>6. ASSUME NEW q \in Rows, ControlArrives(q) \/ Remove(q) \/ LoseId(q)
      PROVE  RowsAhead
  BY <1>3, <1>4, <1>6 DEF ControlArrives, Remove, LoseId
<1>7. ASSUME NEW q \in Rows, NEW s \in Delivered, Control(q, s) PROVE RowsAhead
  BY <1>4, <1>7 DEF Control
<1>8. CASE DisconnectPauses
  <2>1. \A r \in Rows : row'[r].ext = row[r].ext /\ (~Present(r) => row'[r] = row[r])
    BY <1>2, <1>8 DEF DisconnectPauses, Row
  <2> QED BY <2>1 DEF RowsAhead, Present
<1>9. CASE RowsKept \/ \E c \in Campaigns : Console(c) \/ \E r \in Rows : CreateAtPlatform(r, c)
  BY <1>3, <1>9 DEF RowsKept, Console, CreateAtPlatform
<1> QED BY <1>5, <1>6, <1>7, <1>8, <1>9, Kinds DEF Writing

(* Whatever the step, a row keeps the campaign it has. *)
LEMMA ExtKept ==
  ASSUME BaseInv, Next, NEW r \in Rows, row[r].ext # None
  PROVE  row'[r].ext = row[r].ext
<1>1. TypeOK /\ Stages
  BY DEF BaseInv
<1>2. ASSUME NEW i \in Imports, NEW q \in Rows, Create(i, q) PROVE row'[r].ext = row[r].ext
  <2>1. q # r
    BY <1>1, <1>2 DEF Create, Unused, Stages
  <2> QED BY <1>1, <1>2, <2>1 DEF Create, TypeOK
<1>3. ASSUME NEW q \in Rows, SaveId(q) PROVE row'[r].ext = row[r].ext
  <2>1. q # r
    BY <1>1, <1>3 DEF SaveId, Stages
  <2> QED BY <1>1, <1>3, <2>1 DEF SaveId, TypeOK
<1> QED BY <1>2, <1>3, RowsStep DEF RowsAhead

(* The place of a run. *)
LEMMA AtCampaignStep == BaseInv /\ Next => AtCampaign'
<1> SUFFICES ASSUME BaseInv, Next, NEW j \in Imports, run'[j].pc \in {"update", "create"}
             PROVE  /\ run'[j].campaign \in Campaigns
                    /\ run'[j].listing[run'[j].campaign] # "absent"
                    /\ run'[j].pc = "update" => /\ run'[j].found \in Rows
                                                /\ row'[run'[j].found].ext = run'[j].campaign
  BY DEF AtCampaign
<1>1. TypeOK /\ AtCampaign
  BY DEF BaseInv
<1>2. CASE SamePlace(run', j)
  <2>1. /\ run[j].campaign \in Campaigns
        /\ run[j].listing[run[j].campaign] # "absent"
        /\ run[j].pc = "update" => /\ run[j].found \in Rows
                                   /\ row[run[j].found].ext = run[j].campaign
    BY <1>1, <1>2 DEF SamePlace, AtCampaign
  <2>2. run[j].pc = "update" => row'[run[j].found].ext = run[j].campaign
    BY <2>1, ExtKept, NoneAssumption
  <2> QED BY <1>2, <2>1, <2>2 DEF SamePlace
<1>3. ASSUME NEW c \in Campaigns, FindExisting(j, c)
      PROVE  /\ run'[j].campaign = c /\ run'[j].listing = run[j].listing
             /\ run'[j].pc = "update" => run'[j].found \in Matches(c)
  <2>1. run[j] \in Run /\ run \in [Imports -> Run]
    BY <1>1, RunType DEF TypeOK
  <2>2. CASE run' = [run EXCEPT ![j] = [run[j] EXCEPT !.pc = "create", !.campaign = c]]
    BY <2>1, <2>2 DEF Run
  <2>3. ASSUME NEW r \in Matches(c),
               run' = [run EXCEPT ![j] = [run[j] EXCEPT !.pc = "update", !.campaign = c, !.found = r]]
        PROVE  run'[j].campaign = c /\ run'[j].listing = run[j].listing /\ run'[j].found = r
    BY <2>1, <2>3 DEF Run
  <2> QED BY <1>3, <2>2, <2>3 DEF FindExisting
<1>4. ASSUME NEW c \in Campaigns, FindExisting(j, c)
      PROVE  /\ run'[j].campaign \in Campaigns
             /\ run'[j].listing[run'[j].campaign] # "absent"
             /\ run'[j].pc = "update" => /\ run'[j].found \in Rows
                                         /\ row'[run'[j].found].ext = run'[j].campaign
  <2>1. run[j].listing[c] # "absent" /\ UNCHANGED row
    BY <1>4 DEF FindExisting, RunOnly
  <2> QED BY <1>3, <1>4, <2>1 DEF Matches, RowsOf
<1> QED BY <1>2, <1>4, PlaceStep

LEMMA BaseInit == Init => BaseInv
<1> SUFFICES ASSUME Init PROVE BaseInv
  OBVIOUS
<1>1. /\ platform \in [Campaigns -> Delivered \cup {"absent"}]
      /\ unsaved \in [Rows -> Campaigns \cup {None}]
      /\ control \in [Rows -> Delivered \cup {"none"}]
  BY DEF Init
<1>2. row \in [Rows -> Row]
  BY RowType DEF Init, Absent
<1>3. run \in [Imports -> Run]
  BY NoRunType DEF Init
<1>4. requests \in 0..MaxRequests /\ actions \in 0..MaxActions
  BY BoundsAssumption DEF Init
<1>5. TypeOK
  BY <1>1, <1>2, <1>3, <1>4 DEF Init, TypeOK, AdAccounts
<1>6. Stages
  BY DEF Init, Stages, Absent
<1>7. AtCampaign
  BY DEF Init, AtCampaign, NoRun
<1> QED BY <1>5, <1>6, <1>7 DEF BaseInv

LEMMA BaseStep == BaseInv /\ [Next]_vars => BaseInv'
<1>1. ASSUME BaseInv, UNCHANGED vars PROVE BaseInv'
  <2>1. UNCHANGED <<platform, row, unsaved, control, account, bound, pausing, chosen, queue, run,
                    misbound, early, doubled, drift, removed, requests, actions>>
    BY <1>1 DEF vars, connection, history
  <2> QED BY <1>1, <2>1, TypeStep DEF BaseInv, Stages, AtCampaign
<1> QED BY <1>1, TypeStep, StagesStep, AtCampaignStep DEF BaseInv

(* Every variable keeps its type. *)
THEOREM TypeCorrect == Spec => []TypeOK
<1>1. BaseInv => TypeOK
  BY DEF BaseInv
<1> QED BY <1>1, BaseInit, BaseStep, PTL DEF Spec

-----------------------------------------------------------------------------
(* The ad account the user chose                                           *)

(* A run in progress holds the account it has held, or has just read it.   *)
LEMMA AccountStep ==
  ASSUME BaseInv, Next, NEW j \in Imports, Working(j)'
  PROVE  \/ Working(j) /\ SameAccount(run', j)
         \/ Load(j) /\ run'[j].bound = bound
         \/ \E a \in AdAccounts : Link(a)
<1> DEFINE Kept == Working(j) /\ SameAccount(run', j)
           Read == Load(j) /\ run'[j].bound = bound
           Goal == Kept \/ Read \/ \E a \in AdAccounts : Link(a)
<1>1. TypeOK /\ AtCampaign /\ run \in [Imports -> Run]
  BY DEF BaseInv, TypeOK
<1>2. run'[j].pc \in {"list", "find", "update", "create", "finish"}
  BY DEF Working
<1>3. run'[j] = run[j] => Kept
  BY DEF Working, SameAccount
<1>4. ASSUME NEW i \in Imports, run'[i].pc \in {"idle", "load"},
             \A k \in Imports \ {i} : run'[k] = run[k]
      PROVE  Kept
  <2>1. i # j
    BY <1>2, <1>4
  <2> QED BY <1>3, <1>4, <2>1
<1>5. ASSUME NEW i \in Imports, End(i) PROVE Kept
  <2>1. NoRun.pc = "idle"
    BY DEF NoRun
  <2> QED BY <1>1, <1>4, <1>5, <2>1 DEF End
<1>6. ASSUME NEW i \in Imports, NEW a \in AdAccounts, NEW m \in BOOLEAN, Begin(i, m, a) PROVE Kept
  <2> DEFINE new == [NoRun EXCEPT !.pc = "load", !.message = m, !.only = a]
  <2>1. new.pc = "load"
    BY DEF NoRun
  <2>2. run' = [run EXCEPT ![i] = new]
    BY <1>6 DEF Begin
  <2> HIDE DEF new
  <2> QED BY <1>1, <1>4, <2>1, <2>2
<1>7. ASSUME NEW i \in Imports, Load(i) PROVE Goal
  <2>1. CASE i = j /\ ~End(i)
    <3> DEFINE accounts == IF run[i].only = None THEN PlatformAccounts ELSE {run[i].only}
    <3>1. run' = [run EXCEPT ![i] = [run[i] EXCEPT !.pc = "list", !.bound = bound,
                    !.relinked = FALSE, !.accounts = accounts]]
      BY <1>7, <2>1 DEF Load
    <3>2. run[i] \in Run
      BY <1>1, RunType
    <3> HIDE DEF accounts
    <3>3. run'[i].bound = bound
      BY <1>1, <3>1, <3>2 DEF Run
    <3> QED BY <1>7, <2>1, <3>3
  <2>2. CASE i # j
    BY <1>1, <1>3, <1>7, <2>2 DEF Load, End
  <2> QED BY <1>5, <2>1, <2>2
<1>8. ASSUME NEW i \in Imports, NEW c \in Campaigns, NEW runs \in [Imports -> Run],
             Continue(i, c, runs), SameAccount(runs, j), run[j].pc = runs[j].pc, Working(i)
      PROVE  Kept
  <2>1. Continue(i, c, runs)
    BY <1>8
  <2>2. CASE i = j
    <3>1. run'[i].bound = runs[i].bound /\ run'[i].relinked = runs[i].relinked
      BY <2>1, ContinueAccount
    <3>2. SameAccount(runs, j) /\ Working(i)
      BY <1>8
    <3> QED BY <2>2, <3>1, <3>2 DEF SameAccount
  <2>3. CASE i # j
    <3>1. run'[j] = runs[j]
      BY <2>1, <2>3, ContinueOthers
    <3>2. SameAccount(runs, j) /\ run[j].pc = runs[j].pc
      BY <1>8
    <3> QED BY <1>2, <3>1, <3>2 DEF SameAccount, Working
  <2> QED BY <2>2, <2>3
<1>9. ASSUME NEW i \in Imports, NEW a \in PlatformAccounts, ListCampaigns(i, a) PROVE Kept
  <2> DEFINE listed == {c \in Campaigns : AccountOf[c] = a /\ platform[c] # "absent"}
             listing == [c \in Campaigns |-> IF c \in listed THEN platform[c] ELSE "absent"]
             fresh == {c \in listed : ~Pending(c)}
             seen == run[i].seen \cup listed
             accounts == run[i].accounts \ {a}
             pc == After(accounts, listing)
  <2>1. run' = [run EXCEPT ![i] = [run[i] EXCEPT !.accounts = accounts, !.listing = listing,
                  !.fresh = fresh, !.seen = seen, !.pc = pc]]
    BY <1>9 DEF ListCampaigns
  <2>2. run[i] \in Run /\ Working(i)
    BY <1>1, <1>9, RunType DEF ListCampaigns, Working
  <2> HIDE DEF listing, fresh, seen, accounts, pc
  <2>3. SameAccount(run', i)
    BY <1>1, <2>1, <2>2 DEF Run, SameAccount
  <2>4. i # j => run'[j] = run[j]
    BY <1>1, <2>1
  <2> QED BY <1>3, <2>2, <2>3, <2>4
<1>10. ASSUME NEW i \in Imports, NEW c \in Campaigns, FindExisting(i, c) PROVE Kept
  <2>1. run[i] \in Run /\ Working(i)
    BY <1>1, <1>10, RunType DEF FindExisting, Working
  <2>2. SameAccount(run', i)
    <3>1. CASE run' = [run EXCEPT ![i] = [run[i] EXCEPT !.pc = "create", !.campaign = c]]
      BY <1>1, <2>1, <3>1 DEF SameAccount, Run
    <3>2. ASSUME NEW r,
                 run' = [run EXCEPT ![i] = [run[i] EXCEPT !.pc = "update", !.campaign = c, !.found = r]]
          PROVE  SameAccount(run', i)
      BY <1>1, <2>1, <3>2 DEF SameAccount, Run
    <3> QED BY <1>10, <3>1, <3>2 DEF FindExisting
  <2>3. i # j => run'[j] = run[j]
    BY <1>1, <1>10 DEF FindExisting
  <2> QED BY <1>3, <2>1, <2>2, <2>3
<1>11. ASSUME NEW i \in Imports, Update(i) PROVE Kept
  <2>1. run[i].campaign \in Campaigns /\ Continue(i, run[i].campaign, run) /\ Working(i)
    BY <1>1, <1>11 DEF Update, AtCampaign, Working
  <2> QED BY <1>1, <1>8, <2>1 DEF SameAccount
<1>12. ASSUME NEW i \in Imports, NEW r \in Rows, Create(i, r) PROVE Kept
  <2> DEFINE c == run[i].campaign
  <2>1. c \in Campaigns /\ Continue(i, c, Overtake(c)) /\ Working(i)
    BY <1>1, <1>12 DEF Create, AtCampaign, Working
  <2>2. SameAccount(Overtake(c), j) /\ Overtake(c)[j].pc = run[j].pc
    BY <1>1, OvertakeShape DEF SamePlace
  <2>3. Overtake(c) \in [Imports -> Run]
    BY <1>1, OvertakeType
  <2> QED BY <1>8, <2>1, <2>2, <2>3
<1>13. ASSUME NEW i \in Imports, NEW c \in Campaigns, Skip(i, c) PROVE Kept
  <2>1. Continue(i, c, Failed(i, c)) /\ Working(i)
    BY <1>13 DEF Skip, CampaignFails, Working
  <2>2. SameAccount(Failed(i, c), j) /\ Failed(i, c)[j].pc = run[j].pc
    BY <1>1, FailedShape DEF SamePlace
  <2>3. Failed(i, c) \in [Imports -> Run]
    BY <1>1, FailedShape
  <2> QED BY <1>8, <2>1, <2>2, <2>3
<1>14. ASSUME NEW i \in Imports, RunStep(i) PROVE Goal
  BY <1>5, <1>7, <1>9, <1>10, <1>11, <1>12, <1>13, <1>14 DEF RunStep, Finish
<1>15. ASSUME NEW r \in Rows, SaveId(r) PROVE Kept
  <2>1. CASE UNCHANGED run
    BY <1>3, <2>1
  <2>2. CASE run' = Overtake(unsaved[r])
    <3>1. SameAccount(run', j) /\ run'[j].pc = run[j].pc
      BY <1>1, <2>2, OvertakeShape DEF SamePlace
    <3> QED BY <1>2, <3>1 DEF Working
  <2> QED BY <1>15, <2>1, <2>2 DEF SaveId
<1>16. ASSUME NEW i \in Imports, Crash(i) \/ RunFails(i) PROVE Kept
  BY <1>5, <1>16 DEF Crash, RunFails, End
<1>17. ASSUME NEW c, Stale(c) PROVE Kept
  <2>1. SameAccount(run', j) /\ run'[j].pc = run[j].pc
    BY <1>1, <1>17, StaleShape DEF SamePlace
  <2> QED BY <1>2, <2>1 DEF Working
<1>18. ASSUME NEW i \in Imports, ImportNow(i) \/ \E a \in AdAccounts : Deliver(i, a) PROVE Kept
  BY <1>6, <1>18 DEF ImportNow, Deliver, AdAccounts
<1>19. ASSUME NEW r \in Rows, \/ ControlArrives(r) \/ LoseId(r) \/ Remove(r)
                              \/ \E c \in Campaigns : CreateAtPlatform(r, c)
                              \/ \E to \in Delivered : Control(r, to)
       PROVE  Kept
  BY <1>3, <1>17, <1>19 DEF ControlArrives, LoseId, Remove, CreateAtPlatform, Control
<1>20. ASSUME \/ Disconnect \/ DisconnectPauses \/ \E c \in Campaigns : Console(c)
       PROVE  Kept
  BY <1>3, <1>17, <1>20 DEF Disconnect, DisconnectPauses, Console
<1> QED BY <1>14, <1>15, <1>16, <1>18, <1>19, <1>20 DEF Next

(* Only a linking and the end of an import change the account.             *)
LEMMA ConnectionStep ==
  ASSUME Next
  PROVE  \/ UNCHANGED <<bound, chosen, misbound>>
         \/ \E a \in AdAccounts : Link(a)
         \/ \E i \in Imports, a \in PlatformAccounts : Finish(i, a)
<1> DEFINE Kept == UNCHANGED <<bound, chosen, misbound>>
           Goal == \/ Kept
                   \/ \E a \in AdAccounts : Link(a)
                   \/ \E i \in Imports, a \in PlatformAccounts : Finish(i, a)
<1>1. ASSUME NEW i \in Imports, RunStep(i) PROVE Goal
  <2>1. CASE \/ Load(i) \/ \E a \in PlatformAccounts : ListCampaigns(i, a)
             \/ \E c \in Campaigns : FindExisting(i, c) \/ Skip(i, c)
    BY <2>1 DEF Load, ListCampaigns, FindExisting, Skip, RunOnly, connection, history
  <2>2. CASE Update(i) \/ \E r \in Rows : Create(i, r)
    BY <2>2 DEF Update, Create, connection
  <2> QED BY <1>1, <2>1, <2>2 DEF RunStep
<1>2. ASSUME NEW i \in Imports, \/ ImportNow(i) \/ RunFails(i) \/ Crash(i)
                                \/ \E a \in AdAccounts : Deliver(i, a)
      PROVE  Kept
  BY <1>2 DEF ImportNow, RunFails, Crash, Deliver, Begin, RunOnly, connection, history
<1>3. ASSUME NEW r \in Rows, SaveId(r) \/ LoseId(r) \/ ControlArrives(r) \/ Remove(r) PROVE Kept
  BY <1>3 DEF SaveId, LoseId, ControlArrives, Remove, connection, history
<1>4. CASE \/ \E r \in Rows, c \in Campaigns : CreateAtPlatform(r, c)
           \/ \E r \in Rows, s \in Delivered : Control(r, s)
           \/ \E c \in Campaigns : Console(c)
           \/ Disconnect \/ DisconnectPauses
  BY <1>4 DEF CreateAtPlatform, Control, Console, Disconnect, DisconnectPauses, connection, history
<1> QED BY <1>1, <1>2, <1>3, <1>4 DEF Next

LEMMA ChosenStep == ChosenInv /\ [Next]_vars => ChosenInv'
<1> DEFINE Holds(i) == Working(i) /\ ~run[i].relinked /\ chosen # None /\ ~misbound
                       => run[i].bound = chosen
<1> SUFFICES ASSUME ChosenInv, [Next]_vars PROVE ChosenInv'
  OBVIOUS
<1>1. BaseInv /\ ChosenAccountIsKept /\ \A i \in Imports : Holds(i)
  BY DEF ChosenInv
<1>2. TypeOK
  BY <1>1 DEF BaseInv
<1>3. CASE UNCHANGED vars
  BY <1>1, <1>3, BaseStep DEF vars, connection, history, ChosenInv, ChosenAccountIsKept, Working
<1>4. ASSUME Next, NEW a \in AdAccounts, Link(a)
      PROVE  ChosenAccountIsKept' /\ \A j \in Imports : Holds(j)'
  <2>1. ChosenAccountIsKept'
    BY <1>1, <1>4 DEF Link, ChosenAccountIsKept
  <2>2. ASSUME NEW j \in Imports PROVE Holds(j)'
    <3>1. /\ run'[j].pc = run[j].pc /\ run'[j].bound = run[j].bound
          /\ run'[j].relinked = (run[j].relinked \/ (a # None /\ run[j].pc \notin {"idle", "load"}))
      BY <1>2, <1>4, LinkShape DEF SamePlace
    <3>2. CASE a = None
      <4>1. UNCHANGED <<chosen, misbound>>
        BY <1>4, <3>2, <1>2 DEF Link, TypeOK
      <4>2. Working(j)' => Working(j)
        BY <3>1 DEF Working
      <4>3. ~run'[j].relinked => ~run[j].relinked
        BY <3>1
      <4> QED BY <1>1, <3>1, <4>1, <4>2, <4>3
    <3>3. CASE a # None
      <4>1. Working(j)' => run'[j].relinked
        BY <3>1, <3>3 DEF Working
      <4> QED BY <4>1
    <3> QED BY <3>2, <3>3
  <2> QED BY <2>1, <2>2
<1>5. ASSUME Next, ~\E a \in AdAccounts : Link(a)
      PROVE  ChosenAccountIsKept' /\ \A j \in Imports : Holds(j)'
  <2>1. ASSUME NEW i \in Imports, NEW f \in PlatformAccounts, Finish(i, f)
        PROVE  UNCHANGED chosen /\ (misbound' <=> misbound \/ run[i].relinked)
               /\ bound' = FinishedBound(i, f) /\ Working(i)
    BY <2>1 DEF Finish, Working
  <2>2. UNCHANGED chosen /\ (~misbound' => ~misbound)
    BY <1>5, <2>1, ConnectionStep
  <2>3. ChosenAccountIsKept'
    <3>1. CASE UNCHANGED <<bound, chosen, misbound>>
      BY <1>1, <3>1 DEF ChosenAccountIsKept
    <3>2. ASSUME NEW i \in Imports, NEW f \in PlatformAccounts, Finish(i, f), chosen # None,
                 ~misbound'
          PROVE  bound' = chosen
      <4>1. ~misbound /\ ~run[i].relinked /\ Working(i) /\ bound' = FinishedBound(i, f)
        BY <2>1, <3>2
      <4>2. run[i].bound = chosen
        BY <1>1, <3>2, <4>1
      <4> QED BY <3>2, <4>1, <4>2 DEF FinishedBound
    <3> QED BY <1>5, <2>2, <3>1, <3>2, ConnectionStep DEF ChosenAccountIsKept
  <2>4. ASSUME NEW j \in Imports, Working(j)', ~run'[j].relinked, chosen' # None, ~misbound'
        PROVE  run'[j].bound = chosen'
    <3>1. CASE Working(j) /\ SameAccount(run', j)
      <4>1. ~run[j].relinked /\ run'[j].bound = run[j].bound
        BY <2>4, <3>1 DEF SameAccount
      <4> QED BY <1>1, <2>2, <2>4, <3>1, <4>1
    <3>2. CASE Load(j) /\ run'[j].bound = bound
      BY <1>1, <2>2, <2>4, <3>2 DEF ChosenAccountIsKept
    <3> QED BY <1>1, <1>5, <2>4, <3>1, <3>2, AccountStep
  <2> QED BY <2>3, <2>4
<1> QED BY <1>1, <1>3, <1>4, <1>5, BaseStep DEF ChosenInv

(* An import does not change the ad account the user chose, unless the     *)
(* user chose it while the import was in progress.                         *)
THEOREM ChosenKept == Spec => []ChosenAccountIsKept
<1>1. Init => ChosenInv
  BY BaseInit DEF Init, ChosenInv, ChosenAccountIsKept
<1>2. ChosenInv => ChosenAccountIsKept
  BY DEF ChosenInv
<1> QED BY <1>1, <1>2, ChosenStep, PTL DEF Spec

-----------------------------------------------------------------------------
(* One row per campaign                                                    *)

(* What a run still has to import comes from its last listing. *)
Less(x, j) ==
  /\ \A c \in Campaigns : x.listing[c] # "absent" => x.listing[c] = run[j].listing[c]
  /\ x.fresh \subseteq run[j].fresh

LEMMA ListingStep ==
  ASSUME BaseInv, Next, NEW j \in Imports
  PROVE  Less(run'[j], j) \/ \E a \in PlatformAccounts : ListCampaigns(j, a)
<1> DEFINE Kept == Less(run'[j], j)
           Goal == Kept \/ \E a \in PlatformAccounts : ListCampaigns(j, a)
<1>1. TypeOK /\ AtCampaign /\ run \in [Imports -> Run]
  BY DEF BaseInv, TypeOK
<1>2. ASSUME run'[j].listing = run[j].listing, run'[j].fresh = run[j].fresh PROVE Kept
  BY <1>2 DEF Less
<1>3. run'[j] = run[j] => Kept
  BY <1>2
<1>4. \A x : x.listing = NothingListed /\ x.fresh = {} => \A k \in Imports : Less(x, k)
  BY DEF Less, NothingListed
<1>5. ASSUME NEW i \in Imports, End(i) PROVE Kept
  <2>1. NoRun.listing = NothingListed /\ NoRun.fresh = {}
    BY DEF NoRun
  <2>2. Less(NoRun, j)
    BY <1>4, <2>1
  <2>3. run'[j] = IF i = j THEN NoRun ELSE run[j]
    BY <1>1, <1>5 DEF End
  <2> QED BY <1>3, <2>2, <2>3
<1>6. ASSUME NEW i \in Imports, NEW a \in AdAccounts, NEW m \in BOOLEAN, Begin(i, m, a) PROVE Kept
  <2> DEFINE new == [NoRun EXCEPT !.pc = "load", !.message = m, !.only = a]
  <2>1. new.listing = NothingListed /\ new.fresh = {}
    BY DEF NoRun
  <2>2. run' = [run EXCEPT ![i] = new]
    BY <1>6 DEF Begin
  <2> HIDE DEF new
  <2>3. Less(new, j)
    BY <1>4, <2>1
  <2>4. run'[j] = IF i = j THEN new ELSE run[j]
    BY <1>1, <2>2
  <2> QED BY <1>3, <2>3, <2>4
<1>7. ASSUME NEW i \in Imports, Load(i) PROVE Kept
  <2>1. CASE ~End(i)
    <3> DEFINE accounts == IF run[i].only = None THEN PlatformAccounts ELSE {run[i].only}
    <3>1. run' = [run EXCEPT ![i] = [run[i] EXCEPT !.pc = "list", !.bound = bound,
                    !.relinked = FALSE, !.accounts = accounts]]
      BY <1>7, <2>1 DEF Load
    <3>2. run[i] \in Run
      BY <1>1, RunType
    <3> HIDE DEF accounts
    <3>3. run'[i].listing = run[i].listing /\ run'[i].fresh = run[i].fresh
      BY <1>1, <3>1, <3>2 DEF Run
    <3>4. i # j => run'[j] = run[j]
      BY <1>1, <3>1
    <3> QED BY <1>2, <1>3, <3>3, <3>4
  <2> QED BY <1>5, <2>1
<1>8. ASSUME NEW i \in Imports, NEW c \in Campaigns, NEW runs \in [Imports -> Run],
             Continue(i, c, runs), runs[j].listing = run[j].listing, runs[j].fresh = run[j].fresh
      PROVE  Kept
  <2>1. Continue(i, c, runs)
    BY <1>8
  <2>2. runs[j].listing = run[j].listing /\ runs[j].fresh = run[j].fresh
    BY <1>8
  <2>3. CASE i = j
    <3>1. /\ run'[j].listing = [run[j].listing EXCEPT ![c] = "absent"]
          /\ run'[j].fresh = run[j].fresh \ {c}
      BY <2>1, <2>2, <2>3, ContinueListing
    <3>2. run[j].listing \in [Campaigns -> Delivered \cup {"absent"}]
      BY <1>1, RunType DEF Run
    <3> QED BY <3>1, <3>2 DEF Less
  <2>4. CASE i # j
    <3>1. run'[j] = runs[j]
      BY <2>1, <2>4, ContinueOthers
    <3> QED BY <1>2, <2>2, <3>1
  <2> QED BY <2>3, <2>4
<1>9. ASSUME NEW i \in Imports, NEW a \in PlatformAccounts, ListCampaigns(i, a) PROVE Goal
  <2>1. CASE i = j
    BY <1>9, <2>1
  <2>2. CASE i # j
    BY <1>1, <1>3, <1>9, <2>2 DEF ListCampaigns
  <2> QED BY <2>1, <2>2
<1>10. ASSUME NEW i \in Imports, NEW c \in Campaigns, FindExisting(i, c) PROVE Kept
  <2>1. run[i] \in Run
    BY <1>1, RunType
  <2>2. run'[i].listing = run[i].listing /\ run'[i].fresh = run[i].fresh
    <3>1. CASE run' = [run EXCEPT ![i] = [run[i] EXCEPT !.pc = "create", !.campaign = c]]
      BY <1>1, <2>1, <3>1 DEF Run
    <3>2. ASSUME NEW r,
                 run' = [run EXCEPT ![i] = [run[i] EXCEPT !.pc = "update", !.campaign = c, !.found = r]]
          PROVE  run'[i].listing = run[i].listing /\ run'[i].fresh = run[i].fresh
      BY <1>1, <2>1, <3>2 DEF Run
    <3> QED BY <1>10, <3>1, <3>2 DEF FindExisting
  <2>3. i # j => run'[j] = run[j]
    BY <1>1, <1>10 DEF FindExisting
  <2> QED BY <1>2, <1>3, <2>2, <2>3
<1>11. ASSUME NEW i \in Imports, Update(i) PROVE Kept
  <2>1. run[i].campaign \in Campaigns /\ Continue(i, run[i].campaign, run)
    BY <1>1, <1>11 DEF Update, AtCampaign
  <2> QED BY <1>1, <1>8, <2>1
<1>12. ASSUME NEW i \in Imports, NEW r \in Rows, Create(i, r) PROVE Kept
  <2> DEFINE c == run[i].campaign
  <2>1. c \in Campaigns /\ Continue(i, c, Overtake(c))
    BY <1>1, <1>12 DEF Create, AtCampaign
  <2>2. Overtake(c)[j].listing = run[j].listing /\ Overtake(c)[j].fresh = run[j].fresh
    BY <1>1, OvertakeShape DEF SamePlace
  <2>3. Overtake(c) \in [Imports -> Run]
    BY <1>1, OvertakeType
  <2> QED BY <1>8, <2>1, <2>2, <2>3
<1>13. ASSUME NEW i \in Imports, NEW c \in Campaigns, Skip(i, c) PROVE Kept
  <2>1. Continue(i, c, Failed(i, c))
    BY <1>13 DEF Skip
  <2>2. Failed(i, c)[j].listing = run[j].listing /\ Failed(i, c)[j].fresh = run[j].fresh
    BY <1>1, FailedShape DEF SamePlace
  <2>3. Failed(i, c) \in [Imports -> Run]
    BY <1>1, FailedShape
  <2> QED BY <1>8, <2>1, <2>2, <2>3
<1>14. ASSUME NEW i \in Imports, RunStep(i) PROVE Goal
  BY <1>5, <1>7, <1>9, <1>10, <1>11, <1>12, <1>13, <1>14 DEF RunStep, Finish
<1>15. ASSUME NEW r \in Rows, SaveId(r) PROVE Kept
  <2>1. CASE run' = Overtake(unsaved[r])
    <3>1. run'[j].listing = run[j].listing /\ run'[j].fresh = run[j].fresh
      BY <1>1, <2>1, OvertakeShape DEF SamePlace
    <3> QED BY <1>2, <3>1
  <2> QED BY <1>3, <1>15, <2>1 DEF SaveId
<1>16. ASSUME NEW i \in Imports, Crash(i) \/ RunFails(i) PROVE Kept
  BY <1>5, <1>16 DEF Crash, RunFails, End
<1>17. ASSUME NEW c, Stale(c) PROVE Kept
  <2>1. run'[j].listing = run[j].listing /\ run'[j].fresh = run[j].fresh \ {c}
    BY <1>1, <1>17, StaleShape DEF SamePlace
  <2> QED BY <2>1 DEF Less
<1>18. ASSUME NEW a \in AdAccounts, Link(a) PROVE Kept
  <2>1. run'[j].listing = run[j].listing /\ run'[j].fresh = run[j].fresh
    BY <1>1, <1>18, LinkShape DEF SamePlace
  <2> QED BY <1>2, <2>1
<1>19. ASSUME NEW i \in Imports, ImportNow(i) \/ \E a \in AdAccounts : Deliver(i, a) PROVE Kept
  BY <1>6, <1>19 DEF ImportNow, Deliver, AdAccounts
<1>20. ASSUME NEW r \in Rows, \/ ControlArrives(r) \/ LoseId(r) \/ Remove(r)
                              \/ \E c \in Campaigns : CreateAtPlatform(r, c)
                              \/ \E to \in Delivered : Control(r, to)
       PROVE  Kept
  BY <1>3, <1>17, <1>20 DEF ControlArrives, LoseId, Remove, CreateAtPlatform, Control
<1>21. ASSUME \/ Disconnect \/ DisconnectPauses \/ \E c \in Campaigns : Console(c)
       PROVE  Kept
  BY <1>3, <1>17, <1>21 DEF Disconnect, DisconnectPauses, Console
<1> QED BY <1>14, <1>15, <1>16, <1>18, <1>19, <1>20, <1>21 DEF Next

(* What is at the platform stays there. *)
LEMMA PlatformStep ==
  ASSUME BaseInv, Next, NEW c \in Campaigns, platform[c] # "absent"
  PROVE  platform'[c] # "absent"
<1>1. TypeOK
  BY DEF BaseInv
<1>2. UNCHANGED platform => platform'[c] # "absent"
  OBVIOUS
<1>3. ASSUME NEW d, NEW s \in Delivered, platform' = [platform EXCEPT ![d] = s]
      PROVE  platform'[c] # "absent"
  BY <1>1, <1>3 DEF TypeOK, Delivered
<1>4. ASSUME NEW r \in Rows, NEW d \in Campaigns, CreateAtPlatform(r, d) PROVE platform'[c] # "absent"
  BY <1>3, <1>4 DEF CreateAtPlatform, Delivered
<1>5. ASSUME NEW r \in Rows, ControlArrives(r) PROVE platform'[c] # "absent"
  <2>1. control[r] \in Delivered
    BY <1>1, <1>5 DEF ControlArrives, TypeOK
  <2> QED BY <1>2, <1>3, <1>5, <2>1 DEF ControlArrives
<1>6. ASSUME NEW d \in Campaigns, Console(d) PROVE platform'[c] # "absent"
  BY <1>3, <1>6 DEF Console
<1>7. CASE \/ \E i \in Imports : Update(i) \/ \E r \in Rows : Create(i, r)
           \/ \E r \in Rows : SaveId(r) \/ LoseId(r) \/ Remove(r)
           \/ \E r \in Rows, s \in Delivered : Control(r, s)
           \/ DisconnectPauses \/ RowsKept
  BY <1>2, <1>7 DEF Update, Create, SaveId, LoseId, Remove, Control, DisconnectPauses, RowsKept
<1> QED BY <1>4, <1>5, <1>6, <1>7, Kinds DEF Writing

(* An id is to be saved by the creation that has made the campaign.        *)
LEMMA UnsavedStep ==
  ASSUME BaseInv, Next, NEW r \in Rows
  PROVE  \/ unsaved'[r] = unsaved[r] \/ unsaved'[r] = None
         \/ \E c \in Campaigns : CreateAtPlatform(r, c)
<1>1. unsaved \in [Rows -> Campaigns \cup {None}]
  BY DEF BaseInv, TypeOK
<1>2. ASSUME NEW q \in Rows, NEW c \in Campaigns, CreateAtPlatform(q, c), q # r
      PROVE  unsaved'[r] = unsaved[r]
  BY <1>1, <1>2 DEF CreateAtPlatform
<1>3. ASSUME NEW q \in Rows, SaveId(q) \/ LoseId(q)
      PROVE  unsaved'[r] = unsaved[r] \/ unsaved'[r] = None
  BY <1>1, <1>3 DEF SaveId, LoseId
<1>4. CASE \/ \E i \in Imports : Update(i) \/ \E q \in Rows : Create(i, q)
           \/ \E q \in Rows : ControlArrives(q) \/ Remove(q)
           \/ \E q \in Rows, s \in Delivered : Control(q, s)
           \/ \E c \in Campaigns : Console(c)
           \/ DisconnectPauses \/ RowsKept
  BY <1>4 DEF Update, Create, ControlArrives, Remove, Control, Console, DisconnectPauses, RowsKept
<1> QED BY <1>2, <1>3, <1>4, Kinds DEF Writing

(* What may go on in the history of a campaign only grows.                 *)
LEMMA HistoryStep ==
  ASSUME Next
  PROVE  early \subseteq early' /\ doubled \subseteq doubled'
<1>1. CASE HistoryKept
  BY <1>1 DEF HistoryKept
<1>2. CASE Writing
  BY <1>2 DEF Writing, Update, Create, SaveId, LoseId, ControlArrives, Remove, CreateAtPlatform,
              Control, Console, DisconnectPauses, history
<1> QED BY <1>1, <1>2, Kinds

(* A listing tells what is at the platform, and what is on its way. *)
LEMMA Listed ==
  ASSUME BaseInv, NEW i \in Imports, NEW a \in PlatformAccounts, ListCampaigns(i, a)
  PROVE  /\ \A c \in Campaigns : run'[i].listing[c] # "absent" => run'[i].listing[c] = platform[c]
         /\ \A c \in run'[i].fresh : ~Pending(c)
<1> DEFINE listed == {c \in Campaigns : AccountOf[c] = a /\ platform[c] # "absent"}
           listing == [c \in Campaigns |-> IF c \in listed THEN platform[c] ELSE "absent"]
           fresh == {c \in listed : ~Pending(c)}
           seen == run[i].seen \cup listed
           accounts == run[i].accounts \ {a}
           pc == After(accounts, listing)
<1>1. run' = [run EXCEPT ![i] = [run[i] EXCEPT !.accounts = accounts, !.listing = listing,
                !.fresh = fresh, !.seen = seen, !.pc = pc]]
  BY DEF ListCampaigns
<1>2. run[i] \in Run /\ run \in [Imports -> Run]
  BY RunType DEF BaseInv, TypeOK
<1>3. \A c \in Campaigns : listing[c] # "absent" => listing[c] = platform[c]
  OBVIOUS
<1>4. \A c \in fresh : ~Pending(c)
  OBVIOUS
<1> HIDE DEF listing, fresh, seen, accounts, pc
<1>5. run'[i].listing = listing /\ run'[i].fresh = fresh
  BY <1>1, <1>2 DEF Run
<1> QED BY <1>3, <1>4, <1>5

LEMMA KnownStep == BaseInv /\ KnownExists /\ Next => KnownExists'
<1> SUFFICES ASSUME BaseInv, KnownExists, Next PROVE KnownExists'
  OBVIOUS
<1>1. /\ unsaved \in [Rows -> Campaigns \cup {None}] /\ row \in [Rows -> Row]
      /\ platform \in [Campaigns -> Delivered \cup {"absent"}]
  BY DEF BaseInv, TypeOK
<1>2. ASSUME NEW r \in Rows, unsaved'[r] # None
      PROVE  platform'[unsaved'[r]] # "absent"
  <2>1. CASE unsaved'[r] = unsaved[r]
    BY <1>1, <1>2, <2>1, PlatformStep DEF KnownExists
  <2>2. ASSUME NEW c \in Campaigns, CreateAtPlatform(r, c)
        PROVE  platform'[unsaved'[r]] # "absent"
    BY <1>1, <2>2 DEF CreateAtPlatform
  <2> QED BY <1>2, <2>1, <2>2, UnsavedStep
<1>3. ASSUME NEW r \in Rows, row'[r].ext # None
      PROVE  platform'[row'[r].ext] # "absent"
  <2>1. CASE row'[r].ext = row[r].ext
    <3>1. row[r].ext \in Campaigns
      BY <1>1, <1>3, <2>1 DEF Row
    <3> QED BY <1>3, <2>1, <3>1, PlatformStep DEF KnownExists
  <2>2. ASSUME NEW i \in Imports, NEW q \in Rows, Create(i, q) PROVE platform'[row'[r].ext] # "absent"
    <3>1. CASE q = r
      <4>1. run[i].campaign \in Campaigns /\ run[i].listing[run[i].campaign] # "absent"
        BY <2>2 DEF Create, BaseInv, AtCampaign
      <4>2. row'[r].ext = run[i].campaign
        BY <1>1, <2>2, <3>1 DEF Create
      <4> QED BY <4>1, <4>2, PlatformStep DEF KnownExists
    <3>2. CASE q # r
      BY <1>1, <2>1, <2>2, <3>2 DEF Create
    <3> QED BY <3>1, <3>2
  <2>3. ASSUME NEW q \in Rows, SaveId(q) PROVE platform'[row'[r].ext] # "absent"
    <3>1. CASE q = r /\ row' # row
      <4>1. unsaved[q] \in Campaigns /\ row'[r].ext = unsaved[q]
        BY <1>1, <2>3, <3>1 DEF SaveId
      <4> QED BY <4>1, <2>3, PlatformStep, NoneAssumption DEF KnownExists
    <3>2. CASE q # r \/ row' = row
      BY <1>1, <2>1, <2>3, <3>2 DEF SaveId
    <3> QED BY <3>1, <3>2
  <2> QED BY <2>1, <2>2, <2>3, RowsStep DEF RowsAhead
<1>4. ASSUME NEW j \in Imports, NEW c \in Campaigns, run'[j].listing[c] # "absent"
      PROVE  platform'[c] # "absent"
  <2>1. run[j].listing[c] # "absent" \/ platform[c] # "absent"
    BY <1>4, ListingStep, Listed DEF Less
  <2> QED BY <2>1, PlatformStep DEF KnownExists
<1> QED BY <1>2, <1>3, <1>4 DEF KnownExists

(* The rows of a campaign grow by one, created or saved. *)
LEMMA RowsOfStep ==
  ASSUME BaseInv, Next, NEW c \in Campaigns
  PROVE  \/ RowsOf(c)' \subseteq RowsOf(c)
         \/ \E i \in Imports, q \in Rows :
              Create(i, q) /\ run[i].campaign = c /\ RowsOf(c)' \subseteq RowsOf(c) \cup {q}
         \/ \E q \in Rows :
              /\ SaveId(q) /\ Present(q) /\ unsaved[q] = c
              /\ RowsOf(c)' \subseteq RowsOf(c) \cup {q}
<1>1. row \in [Rows -> Row]
  BY DEF BaseInv, TypeOK
<1>2. RowsAhead => RowsOf(c)' \subseteq RowsOf(c)
  BY DEF RowsAhead, RowsOf
<1>3. ASSUME NEW q \in Rows, NEW x, row' = [row EXCEPT ![q] = x]
      PROVE  /\ RowsOf(c)' \subseteq RowsOf(c) \cup {q}
             /\ x.ext # c => RowsOf(c)' \subseteq RowsOf(c)
  BY <1>1, <1>3 DEF RowsOf, Present
<1>4. ASSUME NEW i \in Imports, NEW q \in Rows, Create(i, q)
      PROVE  /\ RowsOf(c)' \subseteq RowsOf(c) \cup {q}
             /\ run[i].campaign # c => RowsOf(c)' \subseteq RowsOf(c)
  <2> DEFINE new == [status |-> MapStatus(run[i].listing[run[i].campaign]), ext |-> run[i].campaign]
  <2>1. row' = [row EXCEPT ![q] = new]
    BY <1>4 DEF Create
  <2>2. new.ext = run[i].campaign
    OBVIOUS
  <2> HIDE DEF new
  <2> QED BY <1>3, <2>1, <2>2
<1>5. ASSUME NEW q \in Rows, SaveId(q), Present(q)
      PROVE  /\ RowsOf(c)' \subseteq RowsOf(c) \cup {q}
             /\ unsaved[q] # c => RowsOf(c)' \subseteq RowsOf(c)
  <2> DEFINE new == [status |-> "ACTIVE", ext |-> unsaved[q]]
  <2>1. row' = [row EXCEPT ![q] = new]
    BY <1>5 DEF SaveId
  <2>2. new.ext = unsaved[q]
    OBVIOUS
  <2> HIDE DEF new
  <2> QED BY <1>3, <2>1, <2>2
<1>6. ASSUME NEW q \in Rows, SaveId(q), ~Present(q) PROVE RowsOf(c)' \subseteq RowsOf(c)
  BY <1>6 DEF SaveId, RowsOf, Present
<1> QED BY <1>2, <1>4, <1>5, <1>6, RowsStep

(* An import that creates a row leaves none behind that is not overtaken.  *)
LEMMA CreateOvertakes ==
  ASSUME BaseInv, NEW i \in Imports, NEW q \in Rows, Create(i, q), NEW j \in Imports,
         run'[j].pc = "create", run[j].pc = "create", run[j].campaign = run[i].campaign
  PROVE  run'[j].overtaken
<1> DEFINE c == run[i].campaign
<1>1. TypeOK /\ c \in Campaigns /\ Continue(i, c, Overtake(c))
  BY DEF BaseInv, AtCampaign, Create
<1>2. Overtake(c) \in [Imports -> Run]
  BY <1>1, OvertakeType
<1>3. i # j
  BY <1>1, <1>2, ContinuePlace
<1>4. run'[j] = Overtake(c)[j]
  BY <1>1, <1>2, <1>3, ContinueOthers
<1> QED BY <1>1, <1>4, OvertakeShape

(* No row has campaign c after the step. *)
NoRowAhead(c) == \A r \in Rows : ~(Present(r)' /\ row'[r].ext = c)

LEMMA NoRowsStay ==
  ASSUME BaseInv, Next, NEW c \in Campaigns, RowsOf(c) = {},
         \A i \in Imports, q \in Rows : ~(Create(i, q) /\ run[i].campaign = c),
         \A q \in Rows : ~(SaveId(q) /\ Present(q) /\ unsaved[q] = c)
  PROVE  NoRowAhead(c)
<1>1. RowsOf(c)' \subseteq RowsOf(c)
  BY RowsOfStep
<1> QED BY <1>1 DEF RowsOf, NoRowAhead

LEMMA FirstToCreateStep ==
  BaseInv /\ FirstToCreate /\ Next => FirstToCreate'
<1> SUFFICES ASSUME BaseInv, FirstToCreate, Next, NEW j \in Imports,
                    run'[j].pc = "create", ~run'[j].overtaken
             PROVE  NoRowAhead(run'[j].campaign)
  BY DEF FirstToCreate, RowsOf, NoRowAhead
<1>1. TypeOK /\ AtCampaign
  BY DEF BaseInv
<1>2. CASE SamePlace(run', j) /\ (run[j].overtaken => run'[j].overtaken)
  <2> PICK c : c = run[j].campaign
    OBVIOUS
  <2>1. run[j].pc = "create" /\ run'[j].campaign = c /\ ~run[j].overtaken
    BY <1>2 DEF SamePlace
  <2>2. c \in Campaigns /\ RowsOf(c) = {}
    BY <1>1, <2>1 DEF AtCampaign, FirstToCreate
  <2>3. ASSUME NEW i \in Imports, NEW q \in Rows, Create(i, q), run[i].campaign = c PROVE FALSE
    BY <2>1, <2>3, CreateOvertakes
  <2>4. ASSUME NEW q \in Rows, SaveId(q), Present(q), unsaved[q] = c PROVE FALSE
    <3>1. run' = Overtake(c)
      BY <2>4 DEF SaveId
    <3>2. run'[j].overtaken
      BY <1>1, <2>1, <3>1, OvertakeShape
    <3> QED BY <3>2
  <2>5. NoRowAhead(c)
    BY <2>2, <2>3, <2>4, NoRowsStay
  <2> QED BY <2>1, <2>5
<1>3. ASSUME NEW c \in Campaigns, FindExisting(j, c) PROVE NoRowAhead(run'[j].campaign)
  <2>1. run[j] \in Run /\ run \in [Imports -> Run]
    BY <1>1, RunType DEF TypeOK
  <2>2. RowsOf(c) = {} /\ run'[j].campaign = c
    <3>1. CASE Matches(c) = {} /\ run' = [run EXCEPT ![j] = [run[j] EXCEPT !.pc = "create", !.campaign = c]]
      BY <2>1, <3>1 DEF Run, Matches
    <3>2. ASSUME NEW r,
                 run' = [run EXCEPT ![j] = [run[j] EXCEPT !.pc = "update", !.campaign = c, !.found = r]]
          PROVE  run'[j].pc = "update"
      BY <2>1, <3>2 DEF Run
    <3> QED BY <1>3, <3>1, <3>2 DEF FindExisting
  <2>3. UNCHANGED row
    BY <1>3 DEF FindExisting, RunOnly
  <2> QED BY <2>2, <2>3 DEF RowsOf, Present, NoRowAhead
<1> QED BY <1>2, <1>3, PlaceStep

LEMMA FirstToSaveStep ==
  BaseInv /\ KnownExists /\ FirstToSave /\ Next => FirstToSave'
<1> SUFFICES ASSUME BaseInv, KnownExists, FirstToSave, Next PROVE FirstToSave'
  OBVIOUS
<1>1. /\ unsaved \in [Rows -> Campaigns \cup {None}] /\ row \in [Rows -> Row]
      /\ unsaved' \in [Rows -> Campaigns \cup {None}]
  BY TypeStep DEF BaseInv, TypeOK
<1>2. ASSUME NEW r \in Rows, NEW c \in Campaigns, CreateAtPlatform(r, c)
      PROVE  /\ \A s \in Rows : unsaved[s] # c
             /\ RowsOf(c) = {} /\ UNCHANGED row
             /\ \A s \in Rows : unsaved'[s] = IF s = r THEN c ELSE unsaved[s]
  <2>1. platform[c] = "absent"
    BY <1>2 DEF CreateAtPlatform
  <2>2. (\A s \in Rows : unsaved[s] # c) /\ RowsOf(c) = {}
    BY <2>1, NoneAssumption DEF KnownExists, RowsOf
  <2> QED BY <1>1, <1>2, <2>2 DEF CreateAtPlatform
<1>3. ASSUME NEW r \in Rows, NEW s \in Rows, unsaved'[r] = unsaved'[s], unsaved'[r] # None
      PROVE  r = s
  <2>1. CASE unsaved'[r] = unsaved[r] /\ unsaved'[s] = unsaved[s]
    BY <1>3, <2>1 DEF FirstToSave
  <2>2. ASSUME NEW q \in Rows, NEW c \in Campaigns, CreateAtPlatform(q, c) PROVE r = s
    BY <1>2, <1>3, <2>2 DEF FirstToSave
  <2> QED BY <1>3, <2>1, <2>2, UnsavedStep
<1>4. ASSUME NEW r \in Rows, unsaved'[r] \in Campaigns \ early'
      PROVE  NoRowAhead(unsaved'[r])
  <2> PICK d : d = unsaved'[r]
    OBVIOUS
  <2>1. d \in Campaigns /\ d # None /\ d \notin early /\ d \notin early'
    BY <1>4, HistoryStep, NoneAssumption
  <2>2. ASSUME NEW c \in Campaigns, CreateAtPlatform(r, c) PROVE NoRowAhead(d)
    <3>1. d = c /\ RowsOf(c) = {} /\ UNCHANGED row
      BY <1>2, <2>2
    <3> QED BY <3>1 DEF RowsOf, Present, NoRowAhead
  <2>3. CASE unsaved'[r] = unsaved[r]
    <3>1. RowsOf(d) = {}
      BY <2>1, <2>3 DEF FirstToSave
    <3>2. ASSUME NEW i \in Imports, NEW q \in Rows, Create(i, q), run[i].campaign = d PROVE FALSE
      BY <2>1, <2>3, <3>2 DEF Create
    <3>3. ASSUME NEW q \in Rows, SaveId(q), unsaved[q] = d PROVE FALSE
      <4>1. q = r
        BY <2>1, <2>3, <3>3 DEF FirstToSave
      <4>2. unsaved'[q] = None
        BY <1>1, <3>3 DEF SaveId
      <4> QED BY <2>1, <4>1, <4>2
    <3> QED BY <2>1, <3>1, <3>2, <3>3, NoRowsStay
  <2> QED BY <2>1, <2>2, <2>3, UnsavedStep
<1> QED BY <1>3, <1>4 DEF FirstToSave, RowsOf, NoRowAhead

LEMMA OneRowStep ==
  BaseInv /\ FirstToCreate /\ FirstToSave /\ OneRowPerCampaign /\ Next => OneRowPerCampaign'
<1> SUFFICES ASSUME BaseInv, FirstToCreate, FirstToSave, OneRowPerCampaign, Next,
                    NEW c \in Campaigns, c \notin doubled',
                    NEW r \in RowsOf(c)', NEW s \in RowsOf(c)'
             PROVE  r = s
  BY DEF OneRowPerCampaign
<1>1. c \notin doubled
  BY HistoryStep
<1>2. CASE RowsOf(c)' \subseteq RowsOf(c)
  BY <1>1, <1>2 DEF OneRowPerCampaign
<1>3. ASSUME NEW i \in Imports, NEW q \in Rows, Create(i, q), run[i].campaign = c,
             RowsOf(c)' \subseteq RowsOf(c) \cup {q}
      PROVE  r = s
  <2>1. ~run[i].overtaken /\ run[i].pc = "create"
    BY <1>3 DEF Create
  <2>2. RowsOf(c) = {}
    BY <1>3, <2>1 DEF FirstToCreate
  <2> QED BY <1>3, <2>2
<1>4. ASSUME NEW q \in Rows, SaveId(q), Present(q), unsaved[q] = c,
             RowsOf(c)' \subseteq RowsOf(c) \cup {q}
      PROVE  r = s
  <2>1. c \notin early
    BY <1>4 DEF SaveId
  <2>2. RowsOf(c) = {}
    BY <1>4, <2>1 DEF FirstToSave
  <2> QED BY <1>4, <2>2
<1> QED BY <1>2, <1>3, <1>4, RowsOfStep

LEMMA RowInit == Init => RowInv
<1> SUFFICES ASSUME Init PROVE RowInv
  OBVIOUS
<1>1. \A r \in Rows : row[r].ext = None
  BY DEF Init, Absent
<1>2. \A c \in Campaigns : RowsOf(c) = {}
  BY <1>1, NoneAssumption DEF RowsOf
<1>3. KnownExists
  <2>1. \A r \in Rows : unsaved[r] # None => platform[unsaved[r]] # "absent"
    BY DEF Init
  <2>2. \A i \in Imports, c \in Campaigns : run[i].listing[c] = "absent"
    BY DEF Init, NoRun, NothingListed
  <2> QED BY <1>1, <2>1, <2>2 DEF KnownExists
<1>4. FirstToCreate
  BY DEF Init, FirstToCreate, NoRun
<1>5. FirstToSave
  BY <1>2 DEF Init, FirstToSave
<1>6. OneRowPerCampaign
  BY <1>2 DEF OneRowPerCampaign
<1> QED BY <1>3, <1>4, <1>5, <1>6, BaseInit DEF RowInv

LEMMA RowStep == RowInv /\ [Next]_vars => RowInv'
<1>1. ASSUME RowInv, UNCHANGED vars PROVE RowInv'
  <2>1. UNCHANGED <<platform, row, unsaved, run, early, doubled>>
    BY <1>1 DEF vars, connection, history
  <2> QED BY <1>1, <2>1, BaseStep DEF RowInv, KnownExists, FirstToCreate, FirstToSave,
                                     OneRowPerCampaign, RowsOf, Present
<1> QED BY <1>1, BaseStep, KnownStep, FirstToCreateStep, FirstToSaveStep, OneRowStep DEF RowInv

(* A campaign of the platform has one row, unless two creations of its row *)
(* overlapped.                                                             *)
THEOREM OneRow == Spec => []OneRowPerCampaign
<1>1. RowInv => OneRowPerCampaign
  BY DEF RowInv
<1> QED BY <1>1, RowInit, RowStep, PTL DEF Spec

-----------------------------------------------------------------------------
(* Rows and the platform                                                   *)

(* Who changes what the platform does with a campaign. *)
LEMMA ChangeStep ==
  ASSUME BaseInv, Next, NEW c \in Campaigns
  PROVE  \/ platform'[c] = platform[c]
         \/ Console(c)
         \/ \E r \in Rows : CreateAtPlatform(r, c)
         \/ \E r \in Rows :
              /\ ControlArrives(r) /\ Present(r) /\ row[r].ext = c
              /\ platform'[c] = control[r]
<1>1. platform \in [Campaigns -> Delivered \cup {"absent"}]
  BY DEF BaseInv, TypeOK
<1>2. ASSUME NEW r \in Rows, NEW d \in Campaigns, CreateAtPlatform(r, d), d # c
      PROVE  platform'[c] = platform[c]
  BY <1>1, <1>2 DEF CreateAtPlatform
<1>3. ASSUME NEW d \in Campaigns, Console(d), d # c PROVE platform'[c] = platform[c]
  BY <1>1, <1>3 DEF Console
<1>4. ASSUME NEW r \in Rows, ControlArrives(r), ~(Present(r) /\ row[r].ext = c /\ platform'[c] = control[r])
      PROVE  platform'[c] = platform[c]
  BY <1>1, <1>4 DEF ControlArrives
<1>5. CASE \/ \E i \in Imports : Update(i) \/ \E r \in Rows : Create(i, r)
           \/ \E r \in Rows : SaveId(r) \/ LoseId(r) \/ Remove(r)
           \/ \E r \in Rows, s \in Delivered : Control(r, s)
           \/ DisconnectPauses \/ RowsKept
  BY <1>5 DEF Update, Create, SaveId, LoseId, Remove, Control, DisconnectPauses, RowsKept
<1> QED BY <1>2, <1>3, <1>4, <1>5, Kinds DEF Writing

(* Who sets a row on its way to another status.                            *)
LEMMA ControlStep ==
  ASSUME BaseInv, Next, NEW r \in Rows
  PROVE  \/ control'[r] = control[r] \/ control'[r] = "none"
         \/ \E s \in Delivered : Control(r, s)
<1>1. control \in [Rows -> Delivered \cup {"none"}]
  BY DEF BaseInv, TypeOK
<1>2. ASSUME NEW q \in Rows, NEW s \in Delivered, Control(q, s), q # r
      PROVE  control'[r] = control[r]
  BY <1>1, <1>2 DEF Control
<1>3. ASSUME NEW q \in Rows, ControlArrives(q)
      PROVE  control'[r] = control[r] \/ control'[r] = "none"
  BY <1>1, <1>3 DEF ControlArrives
<1>4. CASE \/ \E i \in Imports : Update(i) \/ \E q \in Rows : Create(i, q)
           \/ \E q \in Rows : SaveId(q) \/ LoseId(q) \/ Remove(q)
           \/ \E q \in Rows, c \in Campaigns : CreateAtPlatform(q, c)
           \/ \E c \in Campaigns : Console(c)
           \/ DisconnectPauses \/ RowsKept
  BY <1>4 DEF Update, Create, SaveId, LoseId, Remove, CreateAtPlatform, Console,
              DisconnectPauses, RowsKept
<1> QED BY <1>2, <1>3, <1>4, Kinds DEF Writing

(* A fresh listing stays true. *)
LEMMA FreshStep == RowInv /\ FreshIsTrue /\ Next => FreshIsTrue'
<1> SUFFICES ASSUME RowInv, FreshIsTrue, Next, NEW i \in Imports, NEW c \in run'[i].fresh,
                    run'[i].listing[c] # "absent"
             PROVE  run'[i].listing[c] = platform'[c] /\ ~Pending(c)'
  BY DEF FreshIsTrue
<1>1. BaseInv /\ KnownExists /\ TypeOK /\ Stages
  BY DEF RowInv, BaseInv
<1>2. c \in Campaigns
  <2>1. run'[i] \in Run
    BY <1>1, TypeStep DEF TypeOK
  <2> QED BY <2>1 DEF Run
<1>3. \A d : Stale(d) => d # c
  BY <1>1, StaleShape
<1>4. CASE Less(run'[i], i)
  <2>1. c \in run[i].fresh /\ run'[i].listing[c] = run[i].listing[c]
    BY <1>2, <1>4 DEF Less
  <2>2. run[i].listing[c] = platform[c] /\ ~Pending(c) /\ platform[c] # "absent"
    BY <1>1, <1>2, <2>1 DEF FreshIsTrue, KnownExists
  <2>3. platform'[c] = platform[c]
    <3>1. ~Console(c)
      BY <1>3 DEF Console
    <3>2. ASSUME NEW r \in Rows, CreateAtPlatform(r, c) PROVE FALSE
      BY <2>2, <3>2 DEF CreateAtPlatform
    <3>3. ASSUME NEW r \in Rows, ControlArrives(r), row[r].ext = c PROVE FALSE
      BY <2>2, <3>3 DEF ControlArrives, Pending
    <3> QED BY <1>1, <1>2, <3>1, <3>2, <3>3, ChangeStep
  <2>4. ASSUME NEW r \in Rows, row'[r].ext = c, control'[r] # "none" PROVE FALSE
    <3>1. ASSUME NEW s \in Delivered, Control(r, s) PROVE FALSE
      <4>1. row[r].ext # None /\ Stale(row[r].ext)
        BY <3>1 DEF Control
      <4>2. row'[r].ext = row[r].ext
        BY <1>1, <4>1, ExtKept
      <4> QED BY <1>3, <2>4, <4>1, <4>2
    <3>2. control[r] # "none"
      BY <1>1, <2>4, <3>1, ControlStep
    <3>3. row[r].ext # None
      BY <1>1, <3>2 DEF Stages
    <3>4. row[r].ext = c
      BY <1>1, <2>4, <3>3, ExtKept
    <3> QED BY <2>2, <3>2, <3>4 DEF Pending
  <2> QED BY <2>1, <2>2, <2>3, <2>4 DEF Pending
<1>5. ASSUME NEW a \in PlatformAccounts, ListCampaigns(i, a)
      PROVE  run'[i].listing[c] = platform'[c] /\ ~Pending(c)'
  <2>1. UNCHANGED <<platform, row, control>>
    BY <1>5 DEF ListCampaigns, RunOnly
  <2>2. run'[i].listing[c] = platform[c] /\ ~Pending(c)
    BY <1>1, <1>2, <1>5, Listed
  <2> QED BY <2>1, <2>2 DEF Pending
<1> QED BY <1>1, <1>4, <1>5, ListingStep

(* A row says where its campaign is, or is going to be. *)
Agrees(r) == row[r].status = IF control[r] = "none" THEN platform[row[r].ext] ELSE control[r]
AllAgree == \A c \in Campaigns \ (drift \cup doubled) : \A r \in RowsOf(c) : Agrees(r)

LEMMA AgreeTogether == BaseInv => (AllAgree <=> ControlIsShown /\ RowSaysWhatIs)
<1> SUFFICES ASSUME BaseInv PROVE AllAgree <=> ControlIsShown /\ RowSaysWhatIs
  OBVIOUS
<1>1. \A r \in Rows : row[r].ext \in Campaigns \cup {None}
  BY DEF BaseInv, TypeOK, Row
<1>2. \A r \in Rows : control[r] # "none" => row[r].ext \in Campaigns
  BY <1>1 DEF BaseInv, Stages
<1>3. ASSUME AllAgree PROVE ControlIsShown
  BY <1>2, <1>3 DEF AllAgree, ControlIsShown, Agrees, RowsOf
<1>4. ASSUME AllAgree PROVE RowSaysWhatIs
  BY <1>4 DEF AllAgree, RowSaysWhatIs, Agrees, RowsOf
<1>5. ASSUME ControlIsShown, RowSaysWhatIs PROVE AllAgree
  BY <1>5 DEF AllAgree, ControlIsShown, RowSaysWhatIs, Agrees, RowsOf
<1> QED BY <1>3, <1>4, <1>5

(* A row that neither a step nor the platform touches still says it.       *)
LEMMA AgreeKept ==
  ASSUME BaseInv, AllAgree, NEW c \in Campaigns, NEW r \in Rows,
         Present(r), row[r].ext = c, c \notin drift, c \notin doubled,
         row'[r] = row[r], control'[r] = control[r], platform'[c] = platform[c]
  PROVE  Agrees(r)'
<1>1. r \in RowsOf(c)
  BY DEF RowsOf
<1>2. Agrees(r)
  BY <1>1 DEF AllAgree
<1> QED BY <1>2 DEF Agrees

(* An import sets a row right, if its listing is fresh.                    *)
LEMMA FreshWrite ==
  ASSUME RowInv, FreshIsTrue, NEW i \in Imports, run[i].pc \in {"update", "create"},
         run[i].campaign \in run[i].fresh
  PROVE  /\ MapStatus(run[i].listing[run[i].campaign]) = platform[run[i].campaign]
         /\ \A r \in Rows : row[r].ext = run[i].campaign => control[r] = "none"
<1> DEFINE c == run[i].campaign
<1>1. c \in Campaigns /\ run[i].listing[c] # "absent"
  BY DEF RowInv, BaseInv, AtCampaign
<1>2. run[i].listing[c] = platform[c] /\ ~Pending(c)
  BY <1>1 DEF FreshIsTrue
<1>3. run[i].listing[c] \in Delivered
  BY <1>1, RunType DEF RowInv, BaseInv, Run
<1>4. MapStatus(run[i].listing[c]) = run[i].listing[c]
  BY <1>3 DEF MapStatus, Delivered
<1> QED BY <1>2, <1>4 DEF Pending

LEMMA AgreeUpdate ==
  ASSUME RowInv, FreshIsTrue, AllAgree, NEW i \in Imports, Update(i)
  PROVE  AllAgree'
<1> SUFFICES ASSUME NEW c \in Campaigns, c \notin drift', c \notin doubled', NEW r \in Rows,
                    Present(r)', row'[r].ext = c
             PROVE  Agrees(r)'
  BY DEF AllAgree, RowsOf
<1> PICK d, f : d = run[i].campaign /\ f = run[i].found
  OBVIOUS
<1>1. /\ BaseInv /\ OneRowPerCampaign /\ d \in Campaigns /\ f \in Rows /\ row[f].ext = d
      /\ row \in [Rows -> Row] /\ \A q \in Rows : row[q] \in Row
  BY DEF RowInv, BaseInv, AtCampaign, Update, TypeOK
<1>2. /\ row' = [row EXCEPT ![f].status = MapStatus(run[i].listing[d])] /\ Present(f)
      /\ UNCHANGED <<platform, control, doubled>>
      /\ drift' = IF d \in run[i].fresh THEN drift \ {d} ELSE drift \cup {d}
  BY DEF Update, Drift
<1>3. row'[r].ext = row[r].ext /\ (r # f => row'[r] = row[r])
  BY <1>1, <1>2 DEF Row
<1>4. CASE c = d
  <2>1. r \in RowsOf(d) /\ f \in RowsOf(d)
    BY <1>1, <1>2, <1>3, <1>4 DEF RowsOf, Present
  <2>2. r = f
    BY <1>1, <1>2, <1>4, <2>1 DEF OneRowPerCampaign
  <2>3. d \in run[i].fresh
    BY <1>2, <1>4
  <2>4. MapStatus(run[i].listing[d]) = platform[d] /\ control[f] = "none"
    BY <1>1, <2>3, FreshWrite DEF Update
  <2>5. row'[f].status = platform[d]
    BY <1>1, <1>2, <2>4 DEF Row
  <2> QED BY <1>2, <1>4, <2>2, <2>4, <2>5 DEF Agrees
<1>5. CASE c # d
  BY <1>1, <1>2, <1>3, <1>5, AgreeKept DEF Present
<1> QED BY <1>4, <1>5

LEMMA AgreeCreate ==
  ASSUME RowInv, FreshIsTrue, AllAgree, NEW i \in Imports, NEW q \in Rows, Create(i, q)
  PROVE  AllAgree'
<1> SUFFICES ASSUME NEW c \in Campaigns, c \notin drift', c \notin doubled', NEW r \in Rows,
                    Present(r)', row'[r].ext = c
             PROVE  Agrees(r)'
  BY DEF AllAgree, RowsOf
<1> PICK d, s : d = run[i].campaign /\ s = MapStatus(run[i].listing[run[i].campaign])
  OBVIOUS
<1>1. /\ BaseInv /\ FirstToCreate /\ d \in Campaigns /\ row \in [Rows -> Row] /\ Stages
      /\ run[i].pc = "create"
  BY DEF RowInv, BaseInv, AtCampaign, Create, TypeOK
<1>2. /\ row' = [row EXCEPT ![q] = [status |-> s, ext |-> d]]
      /\ UNCHANGED <<platform, control>>
      /\ doubled' = IF run[i].overtaken THEN doubled \cup {d} ELSE doubled
      /\ drift' = IF d \in run[i].fresh THEN drift \ {d} ELSE drift \cup {d}
  BY DEF Create, Drift
<1>3. row'[q].ext = d /\ row'[q].status = s /\ (r # q => row'[r] = row[r])
  BY <1>1, <1>2
<1>4. CASE c = d
  <2>1. ~run[i].overtaken /\ d \in run[i].fresh
    BY <1>2, <1>4
  <2>2. RowsOf(d) = {}
    BY <1>1, <2>1 DEF FirstToCreate
  <2>3. r = q
    BY <1>3, <1>4, <2>2 DEF RowsOf, Present
  <2>4. s = platform[d]
    BY <1>1, <2>1, FreshWrite
  <2>5. control[q] = "none"
    BY <1>1 DEF Create, Unused, Stages
  <2> QED BY <1>2, <1>3, <1>4, <2>3, <2>4, <2>5 DEF Agrees
<1>5. CASE c # d
  <2>1. r # q /\ row'[r] = row[r]
    BY <1>3, <1>5
  <2> QED BY <1>1, <1>2, <1>5, <2>1, AgreeKept DEF Present
<1> QED BY <1>4, <1>5

LEMMA AgreeSave ==
  ASSUME RowInv, AllAgree, NEW q \in Rows, SaveId(q)
  PROVE  AllAgree'
<1> SUFFICES ASSUME NEW c \in Campaigns, c \notin drift', c \notin doubled', NEW r \in Rows,
                    Present(r)', row'[r].ext = c
             PROVE  Agrees(r)'
  BY DEF AllAgree, RowsOf
<1> PICK d : d = unsaved[q]
  OBVIOUS
<1>1. /\ BaseInv /\ FirstToSave /\ d \in Campaigns /\ row \in [Rows -> Row] /\ Stages
  BY DEF RowInv, BaseInv, SaveId, TypeOK
<1>2. UNCHANGED <<platform, control>>
  BY DEF SaveId
<1>3. CASE UNCHANGED <<row, doubled, drift>>
  BY <1>1, <1>2, <1>3, AgreeKept DEF Present
<1>4. CASE /\ row' = [row EXCEPT ![q] = [status |-> "ACTIVE", ext |-> d]]
           /\ doubled' = IF d \in early THEN doubled \cup {d} ELSE doubled
           /\ drift' = IF platform[d] = "ACTIVE" THEN drift ELSE drift \cup {d}
  <2>1. row'[q].ext = d /\ row'[q].status = "ACTIVE" /\ (r # q => row'[r] = row[r])
    BY <1>1, <1>4
  <2>2. CASE c = d
    <3>1. d \notin early /\ platform[d] = "ACTIVE"
      BY <1>4, <2>2
    <3>2. RowsOf(d) = {}
      BY <1>1, <3>1 DEF FirstToSave
    <3>3. r = q
      BY <2>1, <2>2, <3>2 DEF RowsOf, Present
    <3>4. control[q] = "none"
      BY <1>1, NoneAssumption DEF Stages
    <3> QED BY <1>2, <2>1, <2>2, <3>1, <3>3, <3>4 DEF Agrees
  <2>3. CASE c # d
    <3>1. r # q /\ row'[r] = row[r] /\ c \notin doubled /\ c \notin drift
      BY <1>4, <2>1, <2>3
    <3> QED BY <1>1, <1>2, <3>1, AgreeKept DEF Present
  <2> QED BY <2>2, <2>3
<1> QED BY <1>3, <1>4 DEF SaveId

LEMMA AgreeControl ==
  ASSUME RowInv, AllAgree, NEW q \in Rows, NEW to \in Delivered, Control(q, to)
  PROVE  AllAgree'
<1> SUFFICES ASSUME NEW c \in Campaigns, c \notin drift', c \notin doubled', NEW r \in Rows,
                    Present(r)', row'[r].ext = c
             PROVE  Agrees(r)'
  BY DEF AllAgree, RowsOf
<1>1. /\ BaseInv /\ row \in [Rows -> Row] /\ control \in [Rows -> Delivered \cup {"none"}]
      /\ \A s \in Rows : row[s] \in Row
  BY DEF RowInv, BaseInv, TypeOK
<1>2. /\ row' = [row EXCEPT ![q].status = to] /\ control' = [control EXCEPT ![q] = to]
      /\ UNCHANGED <<platform, drift, doubled>>
  BY DEF Control, history
<1>3. CASE r = q
  <2>1. row'[r].status = to /\ control'[r] = to /\ to # "none"
    BY <1>1, <1>2, <1>3 DEF Row, Delivered
  <2> QED BY <2>1 DEF Agrees
<1>4. CASE r # q
  <2>1. row'[r] = row[r] /\ control'[r] = control[r]
    BY <1>1, <1>2, <1>4
  <2> QED BY <1>1, <1>2, <2>1, AgreeKept DEF Present
<1> QED BY <1>3, <1>4

LEMMA AgreeArrives ==
  ASSUME RowInv, AllAgree, NEW q \in Rows, ControlArrives(q)
  PROVE  AllAgree'
<1> SUFFICES ASSUME NEW c \in Campaigns, c \notin drift', c \notin doubled', NEW r \in Rows,
                    Present(r)', row'[r].ext = c
             PROVE  Agrees(r)'
  BY DEF AllAgree, RowsOf
<1>1. /\ BaseInv /\ OneRowPerCampaign /\ Stages
      /\ row \in [Rows -> Row] /\ control \in [Rows -> Delivered \cup {"none"}]
      /\ \A s \in Rows : row[s] \in Row
      /\ platform \in [Campaigns -> Delivered \cup {"absent"}]
  BY DEF RowInv, BaseInv, TypeOK
<1> PICK d : d = row[q].ext
  OBVIOUS
<1>2. control' = [control EXCEPT ![q] = "none"] /\ UNCHANGED doubled /\ control[q] # "none"
  BY DEF ControlArrives
<1>3. d \in Campaigns
  BY <1>1, <1>2 DEF Stages, Row
<1>4. CASE ~Present(q)
  <2>1. UNCHANGED <<platform, row, drift>>
    BY <1>4 DEF ControlArrives
  <2>2. r # q
    BY <1>4, <2>1 DEF Present
  <2>3. control'[r] = control[r]
    BY <1>1, <1>2, <2>2
  <2> QED BY <1>1, <1>2, <2>1, <2>3, AgreeKept DEF Present
<1>5. CASE Present(q) /\ account = "usable"
  <2>1. platform' = [platform EXCEPT ![d] = control[q]] /\ UNCHANGED <<row, drift>>
    BY <1>5 DEF ControlArrives
  <2>2. CASE c = d
    <3>1. q \in RowsOf(d) /\ r \in RowsOf(d)
      BY <1>5, <2>1, <2>2 DEF RowsOf, Present
    <3>2. r = q
      <4>1. d \in Campaigns \ doubled
        BY <1>2, <1>3, <2>2
      <4>2. OneRowPerCampaign
        BY <1>1
      <4> QED BY <3>1, <4>1, <4>2 DEF OneRowPerCampaign
    <3>3. Agrees(q)
      BY <1>2, <1>3, <2>1, <2>2, <3>1 DEF AllAgree
    <3>4. row[q].status = control[q]
      BY <1>2, <3>3 DEF Agrees
    <3>5. control'[q] = "none" /\ platform'[d] = control[q]
      BY <1>1, <1>2, <1>3, <2>1
    <3> QED BY <2>1, <3>2, <3>4, <3>5 DEF Agrees
  <2>3. CASE c # d
    <3>1. r # q /\ platform'[c] = platform[c]
      BY <1>1, <2>1, <2>3
    <3>2. control'[r] = control[r]
      BY <1>1, <1>2, <3>1
    <3> QED BY <1>1, <1>2, <2>1, <3>1, <3>2, AgreeKept DEF Present
  <2> QED BY <2>2, <2>3
<1>6. CASE Present(q) /\ account # "usable"
  <2>1. /\ row' = [row EXCEPT ![q].status = "ERROR"] /\ drift' = drift \cup {d}
        /\ UNCHANGED platform
    BY <1>6 DEF ControlArrives
  <2>2. row'[q].ext = d
    BY <1>1, <2>1 DEF Row
  <2>3. r # q
    BY <2>1, <2>2
  <2>4. row'[r] = row[r] /\ control'[r] = control[r]
    BY <1>1, <1>2, <2>1, <2>3
  <2> QED BY <1>1, <1>2, <2>1, <2>4, AgreeKept DEF Present
<1> QED BY <1>4, <1>5, <1>6

(* The steps that leave all rows but one that goes, and what is on its way. *)
LEMMA AgreeOther ==
  ASSUME RowInv, AllAgree, Next,
         \/ RowsKept /\ HistoryKept
         \/ \E r \in Rows : LoseId(r) \/ Remove(r) \/ \E c \in Campaigns : CreateAtPlatform(r, c)
         \/ \E c \in Campaigns : Console(c)
         \/ DisconnectPauses
  PROVE  AllAgree'
<1> SUFFICES ASSUME NEW c \in Campaigns, c \notin drift', c \notin doubled', NEW r \in Rows,
                    Present(r)', row'[r].ext = c
             PROVE  Agrees(r)'
  BY DEF AllAgree, RowsOf
<1>1. /\ BaseInv /\ KnownExists /\ row \in [Rows -> Row]
      /\ platform \in [Campaigns -> Delivered \cup {"absent"}]
  BY DEF RowInv, BaseInv, TypeOK
<1>2. CASE RowsKept /\ HistoryKept
  BY <1>1, <1>2, AgreeKept DEF RowsKept, HistoryKept, Present
<1>3. ASSUME NEW q \in Rows, LoseId(q) PROVE Agrees(r)'
  BY <1>1, <1>3, AgreeKept DEF LoseId, history, Present
<1>4. ASSUME NEW q \in Rows, Remove(q) PROVE Agrees(r)'
  <2>1. row' = [row EXCEPT ![q].status = "removed"]
    BY <1>4 DEF Remove
  <2>2. row[q] \in Row
    BY <1>1
  <2>3. row'[q].status = "removed"
    BY <1>1, <2>1, <2>2 DEF Row
  <2>4. r # q
    BY <2>3 DEF Present
  <2>5. row'[r] = row[r]
    BY <1>1, <2>1, <2>4
  <2> QED BY <1>1, <1>4, <2>5, AgreeKept DEF Remove, Present
<1>5. ASSUME NEW q \in Rows, NEW d \in Campaigns, CreateAtPlatform(q, d) PROVE Agrees(r)'
  <2>1. platform[d] = "absent" /\ platform' = [platform EXCEPT ![d] = "PAUSED"]
        /\ UNCHANGED <<row, control, drift, doubled>>
    BY <1>5 DEF CreateAtPlatform, history
  <2>2. c # d
    BY <1>1, <2>1, NoneAssumption DEF KnownExists
  <2>3. platform'[c] = platform[c]
    BY <1>1, <2>1, <2>2
  <2> QED BY <1>1, <2>1, <2>3, AgreeKept DEF Present
<1>6. ASSUME NEW d \in Campaigns, Console(d) PROVE Agrees(r)'
  <2>1. c # d
    BY <1>6 DEF Console
  <2>2. platform'[c] = platform[c]
    BY <1>1, <1>6, <2>1 DEF Console
  <2>3. c \notin drift /\ UNCHANGED <<row, control, doubled>>
    BY <1>6 DEF Console
  <2> QED BY <1>1, <2>2, <2>3, AgreeKept DEF Present
<1>7. CASE DisconnectPauses
  BY <1>7 DEF DisconnectPauses
<1> QED BY <1>2, <1>3, <1>4, <1>5, <1>6, <1>7

LEMMA TruthStep == TruthInv /\ [Next]_vars => TruthInv'
<1> SUFFICES ASSUME TruthInv, [Next]_vars PROVE TruthInv'
  OBVIOUS
<1>1. RowInv /\ BaseInv /\ FreshIsTrue /\ AllAgree
  BY AgreeTogether DEF TruthInv, RowInv
<1>2. RowInv' /\ BaseInv'
  BY <1>1, RowStep DEF RowInv
<1>3. CASE UNCHANGED vars
  <2>1. UNCHANGED <<platform, row, unsaved, control, run, early, doubled, drift>>
    BY <1>3 DEF vars, history
  <2> QED BY <1>2, <2>1 DEF TruthInv, FreshIsTrue, ControlIsShown, RowSaysWhatIs,
                            Pending, Present, RowsOf
<1>4. CASE Next
  <2>1. FreshIsTrue'
    BY <1>1, <1>4, FreshStep
  <2>2. AllAgree'
    BY <1>1, <1>4, Kinds, AgreeUpdate, AgreeCreate, AgreeSave, AgreeControl, AgreeArrives,
       AgreeOther DEF Writing
  <2>3. BaseInv' => (AllAgree' <=> ControlIsShown' /\ RowSaysWhatIs')
    BY AgreeTogether, PTL
  <2> QED BY <1>2, <2>1, <2>2, <2>3 DEF TruthInv
<1> QED BY <1>3, <1>4

LEMMA TruthInit == Init => TruthInv
<1> SUFFICES ASSUME Init PROVE TruthInv
  OBVIOUS
<1>1. \A r \in Rows : row[r].ext = None /\ control[r] = "none"
  BY DEF Init, Absent
<1>2. FreshIsTrue
  BY DEF Init, FreshIsTrue, NoRun
<1>3. ControlIsShown /\ RowSaysWhatIs
  BY <1>1, NoneAssumption DEF ControlIsShown, RowSaysWhatIs, RowsOf
<1> QED BY <1>2, <1>3, RowInit DEF TruthInv

(* The row of a campaign says what the platform does with it, but for the  *)
(* exceptions that RowSaysWhatIs names.                                    *)
THEOREM Truth == Spec => []RowSaysWhatIs
<1>1. TruthInv => RowSaysWhatIs
  BY DEF TruthInv
<1> QED BY <1>1, TruthInit, TruthStep, PTL DEF Spec

-----------------------------------------------------------------------------
(* What was listed is imported                                             *)

(* Only the removal of a row takes it away, ...                            *)
LEMMA PresentStays ==
  ASSUME BaseInv, Next, NEW r \in Rows, Present(r)
  PROVE  Present(r)' \/ Remove(r)
<1>1. TypeOK /\ AtCampaign /\ row \in [Rows -> Row]
  BY DEF BaseInv, TypeOK
<1>2. UNCHANGED row => Present(r)'
  BY DEF Present
<1>3. ASSUME NEW q \in Rows, NEW s \in Delivered \cup {"ERROR"}, row' = [row EXCEPT ![q].status = s]
      PROVE  Present(r)'
  BY <1>1, <1>3 DEF Present, Row, Delivered
<1>4. ASSUME NEW i \in Imports, Update(i) PROVE Present(r)'
  <2>1. run[i].found \in Rows
    BY <1>1, <1>4 DEF Update, AtCampaign
  <2> QED BY <1>3, <1>4, <2>1, MapStatusType DEF Update
<1>5. ASSUME NEW i \in Imports, NEW q \in Rows, Create(i, q) PROVE Present(r)'
  <2>1. q # r
    BY <1>5 DEF Create, Unused, Present
  <2>2. row'[r] = row[r]
    BY <1>1, <1>5, <2>1 DEF Create
  <2> QED BY <2>2 DEF Present
<1>6. ASSUME NEW q \in Rows, SaveId(q) PROVE Present(r)'
  BY <1>1, <1>6 DEF SaveId, Present
<1>7. ASSUME NEW q \in Rows, ControlArrives(q) \/ LoseId(q) PROVE Present(r)'
  BY <1>2, <1>3, <1>7 DEF ControlArrives, LoseId
<1>8. ASSUME NEW q \in Rows, NEW s \in Delivered, Control(q, s) PROVE Present(r)'
  <2>1. row' = [row EXCEPT ![q].status = s]
    BY <1>8 DEF Control
  <2> QED BY <1>3, <2>1
<1>9. ASSUME NEW q \in Rows, Remove(q), q # r PROVE Present(r)'
  BY <1>1, <1>9 DEF Remove, Present
<1>10. CASE DisconnectPauses
  BY <1>1, <1>10 DEF DisconnectPauses, Present, Row
<1>11. CASE RowsKept \/ \E c \in Campaigns : Console(c) \/ \E q \in Rows : CreateAtPlatform(q, c)
  BY <1>2, <1>11 DEF RowsKept, Console, CreateAtPlatform
<1> QED BY <1>4, <1>5, <1>6, <1>7, <1>8, <1>9, <1>10, <1>11, Kinds DEF Writing

(* ... which is remembered: a campaign that has a row keeps one, or its    *)
(* row was removed.                                                        *)
LEMMA RowsRemain ==
  ASSUME BaseInv, Next, NEW c \in Campaigns, RowsOf(c) # {} \/ c \in removed
  PROVE  RowsOf(c)' # {} \/ c \in removed'
<1>1. removed \subseteq removed'
  <2>1. ASSUME NEW i \in Imports, RunStep(i) PROVE UNCHANGED removed
    <3>1. RunOnly => UNCHANGED removed
      BY DEF RunOnly, history
    <3>2. CASE \/ Load(i) \/ \E d \in Campaigns : FindExisting(i, d) \/ Skip(i, d)
               \/ \E a \in PlatformAccounts : ListCampaigns(i, a)
      <4>1. RunOnly
        BY <3>2 DEF Load, FindExisting, Skip, ListCampaigns
      <4> QED BY <3>1, <4>1
    <3>3. CASE \/ Update(i) \/ \E q \in Rows : Create(i, q)
               \/ \E a \in PlatformAccounts : Finish(i, a)
      BY <3>3 DEF Update, Create, Finish
    <3> QED BY <2>1, <3>2, <3>3 DEF RunStep
  <2>2. ASSUME NEW i \in Imports, \/ ImportNow(i) \/ RunFails(i) \/ Crash(i)
                                 \/ \E a \in AdAccounts : Deliver(i, a)
        PROVE  UNCHANGED removed
    BY <2>2 DEF ImportNow, RunFails, Crash, Deliver, Begin, RunOnly, history
  <2>3. ASSUME NEW q \in Rows, \/ SaveId(q) \/ LoseId(q) \/ ControlArrives(q)
                              \/ \E d \in Campaigns : CreateAtPlatform(q, d)
                              \/ \E to \in Delivered : Control(q, to)
        PROVE  UNCHANGED removed
    BY <2>3 DEF SaveId, LoseId, ControlArrives, CreateAtPlatform, Control, history
  <2>4. ASSUME NEW q \in Rows, Remove(q) PROVE removed \subseteq removed'
    BY <2>4 DEF Remove
  <2>5. CASE Disconnect \/ DisconnectPauses \/ \E d \in Campaigns : Console(d)
    BY <2>5 DEF Disconnect, DisconnectPauses, Console, history
  <2>6. ASSUME NEW a \in AdAccounts, Link(a) PROVE UNCHANGED removed
    BY <2>6 DEF Link
  <2> QED BY <2>1, <2>2, <2>3, <2>4, <2>5, <2>6 DEF Next
<1>2. ASSUME NEW r \in RowsOf(c) PROVE RowsOf(c)' # {} \/ c \in removed'
  <2>1. r \in Rows /\ Present(r) /\ row[r].ext = c /\ c # None
    BY NoneAssumption DEF RowsOf
  <2>2. CASE Remove(r)
    BY <2>1, <2>2 DEF Remove
  <2>3. CASE Present(r)'
    <3>1. row'[r].ext = c
      BY <2>1, ExtKept
    <3> QED BY <2>1, <2>3, <3>1 DEF RowsOf
  <2> QED BY <2>1, <2>2, <2>3, PresentStays
<1> QED BY <1>1, <1>2

(* The campaigns a run has seen, still has to import, and has failed to.   *)
SameLists(x, y) == x.listing = y.listing /\ x.seen = y.seen /\ x.failed = y.failed

LEMMA ContinueLists ==
  ASSUME NEW i \in Imports, NEW c \in Campaigns, NEW runs \in [Imports -> Run],
         Continue(i, c, runs)
  PROVE  /\ run'[i].listing = [runs[i].listing EXCEPT ![c] = "absent"]
         /\ run'[i].seen = runs[i].seen /\ run'[i].failed = runs[i].failed
         /\ run'[i].pc \in {"load", "list", "finish"} =>
              \A d \in Campaigns : run'[i].listing[d] = "absent"
<1> DEFINE listing == [runs[i].listing EXCEPT ![c] = "absent"]
           pc == After(runs[i].accounts, listing)
           fresh == runs[i].fresh \ {c}
<1>1. run' = [runs EXCEPT ![i] = [runs[i] EXCEPT
            !.listing = listing, !.fresh = fresh, !.campaign = None, !.found = 0,
            !.overtaken = FALSE, !.pc = pc]]
  BY DEF Continue
<1>2. pc \in {"load", "list", "finish"} => \A d \in Campaigns : listing[d] = "absent"
  BY DEF After
<1>3. runs[i] \in Run
  OBVIOUS
<1> HIDE DEF listing, pc, fresh
<1>4. run'[i].listing = listing /\ run'[i].pc = pc
      /\ run'[i].seen = runs[i].seen /\ run'[i].failed = runs[i].failed
  BY <1>1, <1>3 DEF Run
<1> QED BY <1>2, <1>4 DEF listing

LEMMA OvertakeLists ==
  ASSUME TypeOK, NEW c, NEW j \in Imports
  PROVE  SameLists(Overtake(c)[j], run[j]) /\ Overtake(c)[j].pc = run[j].pc
<1>1. run[j] \in Run
  BY RunType
<1> QED BY <1>1 DEF Overtake, SameLists, Run

LEMMA StaleLists ==
  ASSUME TypeOK, NEW c, Stale(c), NEW j \in Imports
  PROVE  SameLists(run'[j], run[j]) /\ run'[j].pc = run[j].pc
<1>1. run[j] \in Run
  BY RunType
<1> QED BY <1>1 DEF Stale, SameLists, Run

LEMMA LinkLists ==
  ASSUME TypeOK, NEW a \in AdAccounts, Link(a), NEW j \in Imports
  PROVE  SameLists(run'[j], run[j]) /\ run'[j].pc = run[j].pc
<1>1. run[j] \in Run
  BY RunType
<1> QED BY <1>1 DEF Link, SameLists, Run

LEMMA FailedLists ==
  ASSUME TypeOK, NEW i \in Imports, NEW c \in Campaigns, NEW j \in Imports
  PROVE  /\ Failed(i, c)[j].listing = run[j].listing /\ Failed(i, c)[j].seen = run[j].seen
         /\ Failed(i, c)[j].pc = run[j].pc
         /\ Failed(i, c)[j].failed = run[j].failed \/ i = j
         /\ run[j].failed \subseteq Failed(i, c)[j].failed
         /\ c \in Failed(i, c)[i].failed
<1>1. run[j] \in Run /\ run[i] \in Run /\ run \in [Imports -> Run]
  BY RunType DEF TypeOK
<1>2. CASE i = j
  BY <1>1, <1>2 DEF Failed, Run
<1>3. CASE i # j
  <2>1. Failed(i, c)[j] = run[j] /\ Failed(i, c)[i].failed = run[i].failed \cup {c}
    BY <1>1, <1>3 DEF Failed, Run
  <2> QED BY <2>1
<1> QED BY <1>2, <1>3

(* What a step does to the lists of a run: nothing, or the run is new or   *)
(* ends, or it lists an ad account, or it is done with a campaign.         *)
Keeps(j) == /\ SameLists(run'[j], run[j])
            /\ run'[j].pc \in {"load", "list", "finish"} => run[j].pc \in {"load", "list", "finish"}
Empties(j) == run'[j].listing = NothingListed /\ run'[j].seen = {}
FinishesWith(j, c) ==
  /\ run'[j].listing = [run[j].listing EXCEPT ![c] = "absent"]
  /\ run'[j].seen = run[j].seen
  /\ run[j].failed \subseteq run'[j].failed
  /\ c \in run'[j].failed \/ RowsOf(c)' # {}
  /\ run'[j].pc \in {"load", "list", "finish"} =>
       \A d \in Campaigns : run'[j].listing[d] = "absent"

LEMMA ListsStep ==
  ASSUME BaseInv, Next, NEW j \in Imports
  PROVE  \/ Keeps(j) \/ Empties(j)
         \/ \E a \in PlatformAccounts : ListCampaigns(j, a)
         \/ \E c \in Campaigns : FinishesWith(j, c)
<1> DEFINE Done == \E c \in Campaigns : FinishesWith(j, c)
           Goal == Keeps(j) \/ Empties(j) \/ Done
                     \/ \E a \in PlatformAccounts : ListCampaigns(j, a)
<1>1. TypeOK /\ AtCampaign /\ run \in [Imports -> Run] /\ row \in [Rows -> Row]
  BY DEF BaseInv, TypeOK
<1>2. run'[j] = run[j] => Keeps(j)
  BY DEF Keeps, SameLists
<1>3. ASSUME SameLists(run'[j], run[j]), run'[j].pc = run[j].pc PROVE Keeps(j)
  BY <1>3 DEF Keeps
<1>4. ASSUME NEW i \in Imports, End(i) PROVE Keeps(j) \/ Empties(j)
  <2>1. NoRun.listing = NothingListed /\ NoRun.seen = {}
    BY DEF NoRun
  <2>2. run'[j] = IF i = j THEN NoRun ELSE run[j]
    BY <1>1, <1>4 DEF End
  <2> QED BY <1>2, <2>1, <2>2 DEF Empties
<1>5. ASSUME NEW i \in Imports, NEW a \in AdAccounts, NEW m \in BOOLEAN, Begin(i, m, a)
      PROVE  Keeps(j) \/ Empties(j)
  <2> DEFINE new == [NoRun EXCEPT !.pc = "load", !.message = m, !.only = a]
  <2>1. new.listing = NothingListed /\ new.seen = {}
    BY DEF NoRun
  <2>2. run' = [run EXCEPT ![i] = new]
    BY <1>5 DEF Begin
  <2> HIDE DEF new
  <2>3. run'[j] = IF i = j THEN new ELSE run[j]
    BY <1>1, <2>2
  <2> QED BY <1>2, <2>1, <2>3 DEF Empties
<1>6. ASSUME NEW i \in Imports, Load(i) PROVE Keeps(j) \/ Empties(j)
  <2>1. CASE ~End(i)
    <3> DEFINE accounts == IF run[i].only = None THEN PlatformAccounts ELSE {run[i].only}
    <3>1. run' = [run EXCEPT ![i] = [run[i] EXCEPT !.pc = "list", !.bound = bound,
                    !.relinked = FALSE, !.accounts = accounts]]
      BY <1>6, <2>1 DEF Load
    <3>2. run[i] \in Run /\ run[i].pc = "load"
      BY <1>1, <1>6, RunType DEF Load
    <3> HIDE DEF accounts
    <3>3. SameLists(run'[i], run[i])
      BY <1>1, <3>1, <3>2 DEF Run, SameLists
    <3>4. i # j => run'[j] = run[j]
      BY <1>1, <3>1
    <3> QED BY <1>2, <3>2, <3>3, <3>4 DEF Keeps
  <2> QED BY <1>4, <2>1
<1>7. ASSUME NEW i \in Imports, NEW c \in Campaigns, NEW runs \in [Imports -> Run],
             Continue(i, c, runs), runs[j].listing = run[j].listing, runs[j].seen = run[j].seen,
             runs[j].failed = run[j].failed \/ i = j, runs[j].pc = run[j].pc,
             run[j].failed \subseteq runs[j].failed, c \in runs[i].failed \/ RowsOf(c)' # {}
      PROVE  Keeps(j) \/ Done
  <2>0. Continue(i, c, runs)
    BY <1>7
  <2>1. CASE i = j
    <3>1. /\ run'[j].listing = [runs[j].listing EXCEPT ![c] = "absent"]
          /\ run'[j].seen = runs[j].seen /\ run'[j].failed = runs[j].failed
          /\ run'[j].pc \in {"load", "list", "finish"} =>
               \A d \in Campaigns : run'[j].listing[d] = "absent"
      BY <2>0, <2>1, ContinueLists
    <3> QED BY <1>7, <2>1, <3>1 DEF FinishesWith
  <2>2. CASE i # j
    <3>1. run'[j] = runs[j]
      BY <2>0, <2>2, ContinueOthers
    <3> QED BY <1>7, <2>2, <3>1 DEF Keeps, SameLists
  <2> QED BY <2>1, <2>2
<1>8. ASSUME NEW i \in Imports, NEW a \in PlatformAccounts, ListCampaigns(i, a) PROVE Goal
  <2>1. CASE i # j
    <3>1. run'[j] = run[j]
      BY <1>1, <1>8, <2>1 DEF ListCampaigns
    <3> QED BY <1>2, <3>1
  <2> QED BY <1>8, <2>1
<1>9. ASSUME NEW i \in Imports, NEW c \in Campaigns, FindExisting(i, c) PROVE Keeps(j)
  <2>1. run[i] \in Run
    BY <1>1, RunType
  <2>2. SameLists(run'[i], run[i]) /\ run'[i].pc \in {"update", "create"}
    <3>1. CASE run' = [run EXCEPT ![i] = [run[i] EXCEPT !.pc = "create", !.campaign = c]]
      BY <1>1, <2>1, <3>1 DEF Run, SameLists
    <3>2. ASSUME NEW r,
                 run' = [run EXCEPT ![i] = [run[i] EXCEPT !.pc = "update", !.campaign = c, !.found = r]]
          PROVE  SameLists(run'[i], run[i]) /\ run'[i].pc \in {"update", "create"}
      BY <1>1, <2>1, <3>2 DEF Run, SameLists
    <3> QED BY <1>9, <3>1, <3>2 DEF FindExisting
  <2>3. CASE i # j
    <3>1. run'[j] = run[j]
      BY <1>1, <1>9, <2>3 DEF FindExisting
    <3> QED BY <1>2, <3>1
  <2> QED BY <2>2, <2>3 DEF Keeps
<1>10. ASSUME NEW i \in Imports, Update(i) PROVE Keeps(j) \/ Done
  <2>1. PICK c \in Campaigns, r \in Rows : c = run[i].campaign /\ r = run[i].found
    BY <1>1, <1>10 DEF Update, AtCampaign
  <2>2. /\ Continue(i, c, run) /\ row[r].ext = c
        /\ row' = [row EXCEPT ![r].status = MapStatus(run[i].listing[c])]
    BY <1>1, <1>10, <2>1 DEF Update, AtCampaign
  <2>3. RowsOf(c)' # {}
    <3>1. row'[r].ext = c /\ row'[r].status \in Delivered
      BY <1>1, <2>2, MapStatusType DEF Row
    <3> QED BY <3>1 DEF RowsOf, Present, Delivered
  <2> QED BY <1>1, <1>7, <2>2, <2>3
<1>11. ASSUME NEW i \in Imports, NEW r \in Rows, Create(i, r) PROVE Keeps(j) \/ Done
  <2>1. PICK c \in Campaigns : c = run[i].campaign
    BY <1>1, <1>11 DEF Create, AtCampaign
  <2>2. /\ Continue(i, c, Overtake(c))
        /\ row' = [row EXCEPT ![r] = [status |-> MapStatus(run[i].listing[c]), ext |-> c]]
    BY <1>11, <2>1 DEF Create
  <2>3. RowsOf(c)' # {}
    <3>1. row'[r].ext = c /\ row'[r].status \in Delivered
      BY <1>1, <2>2, MapStatusType
    <3> QED BY <3>1 DEF RowsOf, Present, Delivered
  <2>4. Overtake(c) \in [Imports -> Run]
    BY <1>1, OvertakeType
  <2>5. SameLists(Overtake(c)[j], run[j]) /\ Overtake(c)[j].pc = run[j].pc
    BY <1>1, OvertakeLists
  <2>6. /\ Overtake(c)[j].listing = run[j].listing /\ Overtake(c)[j].seen = run[j].seen
        /\ Overtake(c)[j].failed = run[j].failed
    BY <2>5 DEF SameLists
  <2> QED BY <1>7, <2>2, <2>3, <2>4, <2>5, <2>6
<1>12. ASSUME NEW i \in Imports, NEW c \in Campaigns, Skip(i, c) PROVE Keeps(j) \/ Done
  <2>1. Continue(i, c, Failed(i, c)) /\ Failed(i, c) \in [Imports -> Run]
    BY <1>1, <1>12, FailedShape DEF Skip
  <2>2. /\ Failed(i, c)[j].listing = run[j].listing /\ Failed(i, c)[j].seen = run[j].seen
        /\ Failed(i, c)[j].pc = run[j].pc /\ run[j].failed \subseteq Failed(i, c)[j].failed
        /\ Failed(i, c)[j].failed = run[j].failed \/ i = j
        /\ c \in Failed(i, c)[i].failed
    BY <1>1, FailedLists
  <2> QED BY <1>7, <2>1, <2>2
<1>13. ASSUME NEW i \in Imports, RunStep(i) PROVE Goal
  BY <1>4, <1>6, <1>8, <1>9, <1>10, <1>11, <1>12, <1>13 DEF RunStep, Finish
<1>14. ASSUME NEW r \in Rows, SaveId(r) PROVE Keeps(j)
  <2>1. CASE run' = Overtake(unsaved[r])
    BY <1>1, <1>3, <2>1, OvertakeLists
  <2> QED BY <1>2, <1>14, <2>1 DEF SaveId
<1>15. ASSUME NEW i \in Imports, Crash(i) \/ RunFails(i) PROVE Keeps(j) \/ Empties(j)
  BY <1>4, <1>15 DEF Crash, RunFails, End
<1>16. ASSUME NEW c, Stale(c) PROVE Keeps(j)
  BY <1>1, <1>3, <1>16, StaleLists
<1>17. ASSUME NEW a \in AdAccounts, Link(a) PROVE Keeps(j)
  BY <1>1, <1>3, <1>17, LinkLists
<1>18. ASSUME NEW i \in Imports, ImportNow(i) \/ \E a \in AdAccounts : Deliver(i, a)
       PROVE  Keeps(j) \/ Empties(j)
  BY <1>5, <1>18 DEF ImportNow, Deliver, AdAccounts
<1>19. ASSUME NEW r \in Rows, \/ ControlArrives(r) \/ LoseId(r) \/ Remove(r)
                              \/ \E c \in Campaigns : CreateAtPlatform(r, c)
                              \/ \E to \in Delivered : Control(r, to)
       PROVE  Keeps(j)
  BY <1>2, <1>16, <1>19 DEF ControlArrives, LoseId, Remove, CreateAtPlatform, Control
<1>20. ASSUME \/ Disconnect \/ DisconnectPauses \/ \E c \in Campaigns : Console(c)
       PROVE  Keeps(j)
  BY <1>2, <1>16, <1>20 DEF Disconnect, DisconnectPauses, Console
<1> QED BY <1>13, <1>14, <1>15, <1>17, <1>18, <1>19, <1>20 DEF Next

(* A new listing is seen and left to import.                               *)
LEMMA ListingAccounted ==
  ASSUME TypeOK, NEW i \in Imports, NEW a \in PlatformAccounts, ListCampaigns(i, a)
  PROVE  /\ run'[i].failed = run[i].failed
         /\ \A c \in run'[i].seen : c \in run[i].seen \/ run'[i].listing[c] # "absent"
         /\ run'[i].pc \in {"load", "list", "finish"} =>
              \A c \in Campaigns : run'[i].listing[c] = "absent"
<1> DEFINE listed == {c \in Campaigns : AccountOf[c] = a /\ platform[c] # "absent"}
           listing == [c \in Campaigns |-> IF c \in listed THEN platform[c] ELSE "absent"]
           fresh == {c \in listed : ~Pending(c)}
           seen == run[i].seen \cup listed
           accounts == run[i].accounts \ {a}
           pc == After(accounts, listing)
<1>1. run' = [run EXCEPT ![i] = [run[i] EXCEPT !.accounts = accounts, !.listing = listing,
                !.fresh = fresh, !.seen = seen, !.pc = pc]]
  BY DEF ListCampaigns
<1>2. \A c \in listed : listing[c] # "absent"
  OBVIOUS
<1>3. pc \in {"load", "list", "finish"} => \A c \in Campaigns : listing[c] = "absent"
  <2> HIDE DEF listing, accounts
  <2> QED BY DEF After
<1>4. run[i] \in Run /\ run \in [Imports -> Run]
  BY RunType DEF TypeOK
<1> HIDE DEF listing, fresh, accounts, pc, listed
<1>5. /\ run'[i].failed = run[i].failed /\ run'[i].seen = seen
      /\ run'[i].listing = listing /\ run'[i].pc = pc
  BY <1>1, <1>4 DEF Run
<1> QED BY <1>2, <1>3, <1>5

LEMMA CompleteStep == CompleteInv /\ [Next]_vars => CompleteInv'
<1>1. ASSUME CompleteInv, UNCHANGED vars PROVE CompleteInv'
  <2>1. UNCHANGED <<row, run, removed>>
    BY <1>1 DEF vars, history
  <2> QED BY <1>1, <2>1, BaseStep
          DEF CompleteInv, NothingLeft, Accounted, RowsOf, Present
<1>2. ASSUME CompleteInv, Next PROVE CompleteInv'
  <2>1. BaseInv /\ TypeOK
    BY <1>2 DEF CompleteInv, BaseInv
  <2>2. ASSUME NEW j \in Imports
        PROVE  /\ run'[j].pc \in {"load", "list", "finish"} =>
                    \A d \in Campaigns : run'[j].listing[d] = "absent"
               /\ \A c \in run'[j].seen : \/ c \in run'[j].failed \cup removed'
                                          \/ run'[j].listing[c] # "absent"
                                          \/ RowsOf(c)' # {}
    <3>1. /\ run[j].pc \in {"load", "list", "finish"} =>
               \A d \in Campaigns : run[j].listing[d] = "absent"
          /\ \A c \in run[j].seen : \/ c \in run[j].failed \cup removed
                                    \/ run[j].listing[c] # "absent"
                                    \/ RowsOf(c) # {}
      BY <1>2 DEF CompleteInv, NothingLeft, Accounted
    <3>2. run[j].seen \subseteq Campaigns
          /\ run[j].listing \in [Campaigns -> Delivered \cup {"absent"}]
      BY <2>1, RunType DEF Run
    <3>3. \A c \in Campaigns : RowsOf(c) # {} \/ c \in removed => RowsOf(c)' # {} \/ c \in removed'
      BY <1>2, <2>1, RowsRemain
    <3>4. \A c \in run[j].seen : \/ c \in run[j].failed \cup removed'
                                 \/ run[j].listing[c] # "absent"
                                 \/ RowsOf(c)' # {}
      BY <3>1, <3>2, <3>3
    <3>5. CASE Keeps(j)
      BY <3>1, <3>4, <3>5 DEF Keeps, SameLists
    <3>6. CASE Empties(j)
      BY <3>6 DEF Empties, NothingListed
    <3>7. ASSUME NEW a \in PlatformAccounts, ListCampaigns(j, a)
          PROVE  /\ run'[j].pc \in {"load", "list", "finish"} =>
                      \A d \in Campaigns : run'[j].listing[d] = "absent"
                 /\ \A c \in run'[j].seen : \/ c \in run'[j].failed \cup removed'
                                            \/ run'[j].listing[c] # "absent"
                                            \/ RowsOf(c)' # {}
      <4>1. \A d \in Campaigns : run[j].listing[d] = "absent"
        BY <3>1, <3>7 DEF ListCampaigns
      <4>2. \A c \in run[j].seen : c \in run[j].failed \cup removed' \/ RowsOf(c)' # {}
        BY <3>2, <3>4, <4>1
      <4> QED BY <2>1, <3>7, <4>2, ListingAccounted
    <3>8. ASSUME NEW c \in Campaigns, FinishesWith(j, c)
          PROVE  /\ run'[j].pc \in {"load", "list", "finish"} =>
                      \A d \in Campaigns : run'[j].listing[d] = "absent"
                 /\ \A d \in run'[j].seen : \/ d \in run'[j].failed \cup removed'
                                            \/ run'[j].listing[d] # "absent"
                                            \/ RowsOf(d)' # {}
      BY <3>2, <3>4, <3>8 DEF FinishesWith
    <3> QED BY <1>2, <2>1, <3>5, <3>6, <3>7, <3>8, ListsStep
  <2>3. BaseInv'
    BY <1>2, <2>1, BaseStep
  <2> QED BY <2>2, <2>3 DEF CompleteInv, NothingLeft, Accounted
<1> QED BY <1>1, <1>2

(* A run that reaches its end has a row for every campaign it listed, but  *)
(* for those that failed and those removed since.                          *)
THEOREM Complete == Spec => ImportIsComplete
<1>1. Init => CompleteInv
  BY BaseInit DEF Init, CompleteInv, NothingLeft, NoRun, NothingListed
<1>2. CompleteInv /\ [Next]_vars
        => [\A i \in Imports : run[i].pc = "finish" /\ run'[i].pc # "finish"
              => \A c \in run[i].seen \ (run[i].failed \cup removed) : RowsOf(c) # {}]_vars
  <2> SUFFICES ASSUME CompleteInv, NEW i \in Imports, run[i].pc = "finish",
                      NEW c \in run[i].seen \ (run[i].failed \cup removed)
               PROVE  RowsOf(c) # {}
    OBVIOUS
  <2>1. run[i].seen \subseteq Campaigns
    BY RunType DEF CompleteInv, BaseInv, Run
  <2>2. run[i].listing[c] = "absent"
    BY <2>1 DEF CompleteInv, NothingLeft
  <2> QED BY <2>2 DEF CompleteInv, Accounted
<1> QED BY <1>1, <1>2, CompleteStep, PTL DEF Spec, ImportIsComplete

=============================================================================
