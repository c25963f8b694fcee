-------------------------- MODULE CampaignRequests --------------------------
(***************************************************************************)
(* The requests on the collection of campaigns (campaigns.controller.ts,   *)
(* campaigns.service.ts): creation under an Idempotency-Key, listing by    *)
(* pages, reading, changing the dates, and deletion.                       *)
(* One action is one call to the database, so requests interleave as in    *)
(* the API.  What follows a creation is CampaignCreation's, what follows a *)
(* change CampaignUpdate's.                                                *)
(***************************************************************************)
EXTENDS Integers, FiniteSets, SequencesExt

CONSTANTS
  Users, Keys, None,     \* None: no key is given
  Existing,              \* whose campaigns are there at first, in order of creation
  Dates,                 \* of a campaign's start and end
  Limit,                 \* of a page
  MaxRequests,           \* bound: requests in a behaviour
  Faults,                \* "fail", "lost", "crash": what may go wrong
  MaxFaults              \* bound: how often it does

VARIABLES
  campaigns,             \* UacmCampaign, in order of creation
  records,               \* IdempotencyRecord: the keys that are reserved
  request,               \* the request each of RequestIds stands for
  lost,                  \* for each key: campaigns that were created by a call that failed
  faults                 \* bound

vars == <<campaigns, records, request, lost, faults>>

NoDate == -1
Campaign(user, key, start, end) ==
  [user |-> user, key |-> key, start |-> start, end |-> end, there |-> TRUE, startAlone |-> FALSE]
There(user) == {i \in DOMAIN campaigns : campaigns[i].there /\ campaigns[i].user = user}
RequestIds == 1..MaxRequests
Unsent == [pc |-> "unsent"]
Done == [pc |-> "done"]

Init ==
  /\ campaigns = [i \in DOMAIN Existing |-> Campaign(Existing[i], None, 0, 1)]
  /\ records = {} /\ request = [r \in RequestIds |-> Unsent]
  /\ lost = [k \in Keys |-> 0] /\ faults = 0

Fault(kind) == kind \in Faults /\ faults < MaxFaults /\ faults' = faults + 1
To(r, pc) == request' = [request EXCEPT ![r].pc = pc]
End(r) == request' = [request EXCEPT ![r] = Done]
Send(r, what) ==
  /\ request[r] = Unsent /\ \A q \in 1..(r - 1) : request[q] # Unsent
  /\ request' = [request EXCEPT ![r] = what]

-----------------------------------------------------------------------------
(* POST campaigns                                                          *)

(* Mutant: without another date there is nothing to compare. *)
IsAfter_Loose(value, related) == related = NoDate \/ value > related

IsAfter(value, related) == related # NoDate /\ value > related

(* CreateCampaignDto: a request whose dates do not pass ends with 400.     *)
SendCreate(r, user, key, start, end) ==
  /\ Send(r, IF IsAfter(end, start)
               THEN [pc |-> IF key = None THEN "create" ELSE "check",
                     user |-> user, key |-> key, start |-> start, end |-> end]
               ELSE Done)
  /\ UNCHANGED <<campaigns, records, lost, faults>>

Conflict(r) == End(r)

(* checkAndMarkProcessed: findUnique, then create; whatever goes wrong     *)
(* with the latter counts as a key that is taken.                          *)
CheckKey(r) ==
  /\ request[r].pc = "check"
  /\ IF request[r].key \in records THEN Conflict(r) ELSE To(r, "mark")
  /\ UNCHANGED <<campaigns, records, lost, faults>>

(* Mutant: the key is upserted, so the second to reserve it succeeds too.  *)
MarkKey_Upserts(r) ==
  /\ request[r].pc = "mark"
  /\ To(r, "create")
  /\ records' = records \cup {request[r].key}
  /\ UNCHANGED <<campaigns, lost, faults>>

MarkKey(r) ==
  /\ request[r].pc = "mark"
  /\ IF request[r].key \in records THEN Conflict(r) ELSE To(r, "create")
  /\ records' = records \cup {request[r].key}
  /\ UNCHANGED <<campaigns, lost, faults>>

MarkFails(r) ==
  /\ request[r].pc = "mark"
  /\ \/ Fault("fail") /\ UNCHANGED records
     \/ Fault("lost") /\ records' = records \cup {request[r].key}
  /\ Conflict(r)
  /\ UNCHANGED <<campaigns, lost>>

Row(r) == Campaign(request[r].user, request[r].key, request[r].start, request[r].end)

Create(r) ==
  /\ request[r].pc = "create"
  /\ campaigns' = Append(campaigns, Row(r))
  /\ End(r)
  /\ UNCHANGED <<records, lost, faults>>

(* The error is thrown on, once the key is free again. *)
CreateFails(r) ==
  /\ request[r].pc = "create"
  /\ \/ Fault("fail") /\ UNCHANGED <<campaigns, lost>>
     \/ /\ Fault("lost") /\ campaigns' = Append(campaigns, Row(r))
        /\ lost' = [k \in Keys |-> IF k = request[r].key THEN lost[k] + 1 ELSE lost[k]]
  /\ IF request[r].key = None THEN End(r) ELSE To(r, "release")
  /\ UNCHANGED <<records>>

Release(r) ==
  /\ request[r].pc = "release"
  /\ End(r)
  /\ \/ records' = records \ {request[r].key} /\ UNCHANGED faults
     \/ Fault("fail") /\ UNCHANGED records
  /\ UNCHANGED <<campaigns, lost>>

-----------------------------------------------------------------------------
(* GET campaigns                                                           *)

SendWalk(r, user, sortBy) ==
  /\ Send(r, [pc |-> "list", user |-> user, sortBy |-> sortBy, page |-> 1, items |-> <<>>,
              total |-> NoDate, read |-> FALSE, seen |-> {}, there |-> There(user),
              from |-> Len(campaigns), known |-> 0, torn |-> FALSE])
  /\ UNCHANGED <<campaigns, records, lost, faults>>

(* Mutant: the pages are counted from nought. *)
Skip_FromNought(page) == page * Limit

Skip(page) == (page - 1) * Limit

TotalPages(total) == IF total = 0 THEN 1 ELSE (total + Limit - 1) \div Limit

(* Newest first, or by the start: what starts alike comes in any order.    *)
Before(sortBy, i, j) ==
  IF sortBy = "createdAt" THEN i > j ELSE campaigns[i].start >= campaigns[j].start
Orders(user, sortBy) ==
  {s \in SetToSeqs(There(user)) : \A m, n \in DOMAIN s : m < n => Before(sortBy, s[m], s[n])}

(* findMany and count run side by side: a creation may come in between,    *)
(* which `torn` remembers.                                                 *)
Torn(r, first) ==
  IF first THEN request[r].torn ELSE request[r].torn \/ request[r].known # Len(campaigns)
ReadPage(r) ==
  /\ request[r].pc = "list" /\ ~request[r].read
  /\ \E order \in Orders(request[r].user, request[r].sortBy) :
       LET first == Skip(request[r].page) IN
       request' = [request EXCEPT ![r].read = TRUE, ![r].known = Len(campaigns),
                     ![r].torn = Torn(r, request[r].total = NoDate),
                     ![r].items = SubSeq(order, first + 1, Min({first + Limit, Len(order)}))]
  /\ UNCHANGED <<campaigns, records, lost, faults>>

Count(r) ==
  /\ request[r].pc = "list" /\ request[r].total = NoDate
  /\ request' = [request EXCEPT ![r].total = Cardinality(There(request[r].user)),
                   ![r].known = Len(campaigns), ![r].torn = Torn(r, ~request[r].read)]
  /\ UNCHANGED <<campaigns, records, lost, faults>>

(* Whoever reads the list asks for the next page, up to the last one.      *)
Listed(r) ==
  /\ request[r].pc = "list" /\ request[r].read /\ request[r].total # NoDate
  /\ LET seen == request[r].seen \cup Range(request[r].items)
         last == request[r].page >= TotalPages(request[r].total) IN
     request' = [request EXCEPT ![r].seen = seen, ![r].pc = IF last THEN "walked" ELSE "list",
                   ![r].page = @ + 1, ![r].known = 0, ![r].items = <<>>, ![r].read = FALSE,
                   ![r].total = NoDate]
  /\ UNCHANGED <<campaigns, records, lost, faults>>

-----------------------------------------------------------------------------
(* PATCH and DELETE campaigns/:id                                          *)

(* UpdateCampaignDto, then findOwnedOrThrow: each date may be left out.    *)
SendUpdate(r, user, i, start, end) ==
  /\ Send(r, IF end # NoDate /\ ~IsAfter(end, start) THEN Done
             ELSE IF i \in There(user)
               THEN [pc |-> "update", id |-> i, start |-> start, end |-> end]
             ELSE Done)
  /\ UNCHANGED <<campaigns, records, lost, faults>>

(* The update and the deletion of a campaign that has gone meanwhile throw. *)
Gone(r) == ~campaigns[request[r].id].there
Moved(c, start, end) ==
  [c EXCEPT !.start = IF start = NoDate THEN @ ELSE start, !.end = IF end = NoDate THEN @ ELSE end,
            !.startAlone = IF start = NoDate THEN @ ELSE end = NoDate]

Update(r) ==
  /\ request[r].pc = "update"
  /\ End(r)
  /\ IF Gone(r) THEN UNCHANGED campaigns
     ELSE campaigns' = [campaigns EXCEPT ![request[r].id] =
                          Moved(@, request[r].start, request[r].end)]
  /\ UNCHANGED <<records, lost, faults>>

SendDelete(r, user, i) ==
  /\ Send(r, IF i \in There(user) THEN [pc |-> "remove", id |-> i] ELSE Done)
  /\ UNCHANGED <<campaigns, records, lost, faults>>

Delete(r) ==
  /\ request[r].pc = "remove"
  /\ End(r)
  /\ campaigns' = [campaigns EXCEPT ![request[r].id].there = FALSE]
  /\ UNCHANGED <<records, lost, faults>>

(* The process ends, and its requests with it. *)
Crash ==
  /\ Fault("crash")
  /\ request' = [r \in RequestIds |->
                   IF request[r].pc \in {"unsent", "done", "walked"} THEN request[r] ELSE Done]
  /\ UNCHANGED <<campaigns, records, lost>>

RequestStep(r) ==
  \/ CheckKey(r) \/ MarkKey(r) \/ MarkFails(r) \/ Create(r) \/ CreateFails(r) \/ Release(r)
  \/ ReadPage(r) \/ Count(r) \/ Listed(r) \/ Update(r) \/ Delete(r)

SendAny(r) ==
  \E user \in Users :
    \/ \E key \in Keys \cup {None}, start, end \in Dates : SendCreate(r, user, key, start, end)
    \/ \E sortBy \in {"createdAt", "startDate"} : SendWalk(r, user, sortBy)
    \/ \E i \in DOMAIN campaigns :
         \/ SendDelete(r, user, i)
         \/ \E start, end \in Dates \cup {NoDate} : SendUpdate(r, user, i, start, end)

Next ==
  \/ \E r \in RequestIds : SendAny(r) \/ RequestStep(r)
  \/ Crash

Spec == Init /\ [][Next]_vars

-----------------------------------------------------------------------------
(* Properties                                                              *)

(* "a second call with the same key is rejected with 409 instead of        *)
(* creating a duplicate campaign" (campaigns.service.ts:57): whatever the  *)
(* order of the requests and of their failures, a key creates one campaign *)
(* more than those the service could not know were created.                *)
OneCampaignPerKey ==
  \A k \in Keys :
    Cardinality({i \in DOMAIN campaigns : campaigns[i].key = k}) <= 1 + lost[k]

(* A campaign ends after it starts, whatever changes its owner made to the *)
(* dates, but for a start that is moved alone: nothing compares that one.  *)
DatesStayOrdered ==
  \A i \in DOMAIN campaigns : campaigns[i].end > campaigns[i].start \/ campaigns[i].startAlone

(* Was a campaign deleted that a walk could have seen?                     *)
Deleted(r) ==
  \E i \in request[r].there \cup ((request[r].from + 1)..Len(campaigns)) :
    campaigns[i].user = request[r].user /\ ~campaigns[i].there

(* Whoever reads the pages one after the other while campaigns are created *)
(* sees each of his that was there all the time, and no one else's.  One   *)
(* may be missed when something was deleted, when the pages are sorted by  *)
(* what may be equal, or when a page and its count are torn apart.         *)
WalkIsComplete ==
  \A r \in RequestIds : request[r].pc = "walked" =>
    /\ \A i \in request[r].seen : campaigns[i].user = request[r].user
    /\ request[r].sortBy = "createdAt" /\ ~request[r].torn /\ ~Deleted(r) =>
         request[r].there \subseteq request[r].seen

=============================================================================
