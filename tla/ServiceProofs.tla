---------------------------- MODULE ServiceProofs ----------------------------
(***************************************************************************)
(* Theorems about Services.  Each of its components keeps an invariant of  *)
(* its own, and a behaviour of Services is one of each of its components;  *)
(* so the last section has the theorems, and the sections before it a      *)
(* lemma for each, about the component alone.                              *)
(***************************************************************************)
EXTENDS Services, FiniteSetTheorems, SequenceTheorems, TLAPS

(* The cardinality the instance counts with is the cardinality.            *)
LEMMA SameCardinality ==
  \A S : Crud!Cardinality(S) = Cardinality(S)
BY DEF Crud!Cardinality, Cardinality

-----------------------------------------------------------------------------
(* Requests on campaigns: types                                            *)

Creating == {"check", "mark", "create", "release"}
CreateRequest ==
  {q \in [pc : Creating, user : Users, key : Keys \cup {None}, start : Int, end : Int] :
     q.end > q.start}
UpdateRequest ==
  {q \in [pc : {"update"}, id : Nat, start : Int, end : Int] :
     q.end = Crud!NoDate \/ (q.start # Crud!NoDate /\ q.end > q.start)}

(* A request, as far as its steps depend on it: creations have dates that  *)
(* are in order, and so have updates that move the end.                    *)
RequestOK(q) ==
  /\ q = [x \in DOMAIN q |-> q[x]] /\ "pc" \in DOMAIN q
  /\ q.pc \in Creating \cup {"unsent", "done", "list", "walked", "update", "remove"}
  /\ q.pc \in Creating => q \in CreateRequest
  /\ q.pc = "update" => q \in UpdateRequest
RequestsOK ==
  /\ asked = [r \in Crud!RequestIds |-> asked[r]]
  /\ \A r \in Crud!RequestIds : RequestOK(asked[r])

Rows == [user : Owners, key : Keys \cup {None}, start : Int, end : Int,
         there : BOOLEAN, startAlone : BOOLEAN]
Ordered(row) == row.end > row.start \/ row.startAlone

CrudType ==
  /\ campaigns \in Seq(Rows)
  /\ \A i \in DOMAIN campaigns : Ordered(campaigns[i])
  /\ lost \in [Keys -> Nat]
  /\ RequestsOK

(* One request changes, to one that is well formed. *)
LEMMA ChangedOK ==
  ASSUME RequestsOK, NEW r \in Crud!RequestIds, NEW q, RequestOK(q),
         asked' = [asked EXCEPT ![r] = q]
  PROVE  RequestsOK' /\ asked'[r] = q /\ \A d \in Crud!RequestIds \ {r} : asked'[d] = asked[d]
<1>1. \A d \in Crud!RequestIds : asked'[d] = IF d = r THEN q ELSE asked[d]
  BY DEF RequestsOK
<1>2. asked' = [d \in Crud!RequestIds |-> asked'[d]]
  BY DEF RequestsOK
<1> QED BY <1>1, <1>2 DEF RequestsOK

(* A request that was not sent, or is answered, is well formed. *)
LEMMA EndedOK == RequestOK(Crud!Done) /\ RequestOK(Crud!Unsent)
BY DEF RequestOK, Crud!Done, Crud!Unsent, Creating

(* The end of a request, and a creation that goes on. *)
LEMMA EndOK ==
  ASSUME RequestsOK, NEW r \in Crud!RequestIds, Crud!End(r)
  PROVE  /\ RequestsOK' /\ asked'[r].pc = "done"
         /\ \A d \in Crud!RequestIds \ {r} : asked'[d] = asked[d]
<1>1. asked' = [asked EXCEPT ![r] = Crud!Done]
  BY DEF Crud!End
<1>2. /\ RequestsOK' /\ asked'[r] = Crud!Done
      /\ \A d \in Crud!RequestIds \ {r} : asked'[d] = asked[d]
  BY <1>1, ChangedOK, EndedOK
<1> QED BY <1>2 DEF Crud!Done

LEMMA ToOK ==
  ASSUME RequestsOK, NEW r \in Crud!RequestIds, NEW pc \in Creating, Crud!To(r, pc),
         asked[r].pc \in Creating
  PROVE  /\ RequestsOK' /\ asked'[r].pc = pc /\ asked'[r].key = asked[r].key
         /\ \A d \in Crud!RequestIds \ {r} : asked'[d] = asked[d]
<1> DEFINE q == [asked[r] EXCEPT !.pc = pc]
<1>1. asked[r] \in CreateRequest
  BY DEF RequestsOK, RequestOK
<1>2. q \in CreateRequest /\ q.pc = pc /\ q.key = asked[r].key
  BY <1>1 DEF CreateRequest
<1>3. RequestOK(q)
  BY <1>2 DEF RequestOK, CreateRequest, Creating
<1>4. asked' = [asked EXCEPT ![r] = q]
  BY DEF Crud!To
<1> HIDE DEF q
<1> QED BY <1>2, <1>3, <1>4, ChangedOK

(* Sending a request: one that was not sent becomes one that is well       *)
(* formed, or is answered at once.                                         *)
LEMMA SendOK ==
  ASSUME CrudType, CrudConstants, NEW r \in Crud!RequestIds, Crud!SendAny(r)
  PROVE  /\ RequestsOK' /\ UNCHANGED <<campaigns, records, lost>>
         /\ asked'[r].pc \in {"create", "check", "done", "list", "update", "remove"}
         /\ asked'[r].pc = "create" => asked'[r].key \notin Keys
         /\ \A d \in Crud!RequestIds \ {r} : asked'[d] = asked[d]
<1> DEFINE Good(q) == /\ RequestOK(q)
                      /\ q.pc \in {"create", "check", "done", "list", "update", "remove"}
                      /\ q.pc = "create" => q.key \notin Keys
<1>d. Good(Crud!Done)
  BY EndedOK DEF Crud!Done
<1>1. ASSUME NEW q, Good(q), Crud!Send(r, q), UNCHANGED <<campaigns, records, lost>>
      PROVE  /\ RequestsOK' /\ UNCHANGED <<campaigns, records, lost>>
             /\ asked'[r].pc \in {"create", "check", "done", "list", "update", "remove"}
             /\ asked'[r].pc = "create" => asked'[r].key \notin Keys
             /\ \A d \in Crud!RequestIds \ {r} : asked'[d] = asked[d]
  <2>1. asked' = [asked EXCEPT ![r] = q]
    BY <1>1 DEF Crud!Send
  <2>2. RequestsOK' /\ asked'[r] = q /\ \A d \in Crud!RequestIds \ {r} : asked'[d] = asked[d]
    BY <1>1, <2>1, ChangedOK DEF CrudType
  <2> QED BY <1>1, <2>2
<1>2. ASSUME NEW user \in Users, NEW key \in Keys \cup {None}, NEW start \in Dates, NEW end \in Dates,
             Crud!SendCreate(r, user, key, start, end)
      PROVE  \E q : Good(q) /\ Crud!Send(r, q) /\ UNCHANGED <<campaigns, records, lost>>
  <2> DEFINE q == [pc |-> IF key = None THEN "create" ELSE "check",
                   user |-> user, key |-> key, start |-> start, end |-> end]
  <2>1. CASE Crud!IsAfter(end, start)
    <3>1. start \in Int /\ end \in Int /\ end > start
      BY <2>1 DEF CrudConstants, Crud!IsAfter
    <3>2. q \in CreateRequest
      BY <3>1 DEF CreateRequest, Creating
    <3>3. Good(q)
      BY <3>2 DEF RequestOK, Creating, CrudConstants
    <3>4. Crud!Send(r, q) /\ UNCHANGED <<campaigns, records, lost>>
      BY <1>2, <2>1 DEF Crud!SendCreate
    <3> HIDE DEF q, Good
    <3> QED BY <3>3, <3>4
  <2>2. CASE ~Crud!IsAfter(end, start)
    <3>1. Crud!Send(r, Crud!Done) /\ UNCHANGED <<campaigns, records, lost>>
      BY <1>2, <2>2 DEF Crud!SendCreate
    <3> HIDE DEF Good
    <3> QED BY <1>d, <3>1
  <2> QED BY <2>1, <2>2
<1>3. ASSUME NEW user \in Users, NEW sortBy, Crud!SendWalk(r, user, sortBy)
      PROVE  \E q : Good(q) /\ Crud!Send(r, q) /\ UNCHANGED <<campaigns, records, lost>>
  <2> DEFINE q == [pc |-> "list", user |-> user, sortBy |-> sortBy, page |-> 1, items |-> <<>>,
                   total |-> Crud!NoDate, read |-> FALSE, seen |-> {}, there |-> Crud!There(user),
                   from |-> Len(campaigns), known |-> 0, torn |-> FALSE]
  <2>1. Good(q)
    BY DEF RequestOK, Creating
  <2>2. Crud!Send(r, q) /\ UNCHANGED <<campaigns, records, lost>>
    BY <1>3 DEF Crud!SendWalk
  <2> HIDE DEF q, Good
  <2> QED BY <2>1, <2>2
<1>4. ASSUME NEW user \in Users, NEW i \in DOMAIN campaigns, Crud!SendDelete(r, user, i)
      PROVE  \E q : Good(q) /\ Crud!Send(r, q) /\ UNCHANGED <<campaigns, records, lost>>
  <2> DEFINE q == [pc |-> "remove", id |-> i]
  <2>1. Good(q)
    BY DEF RequestOK, Creating
  <2>2. Crud!Send(r, q) \/ Crud!Send(r, Crud!Done)
    BY <1>4 DEF Crud!SendDelete
  <2>3. UNCHANGED <<campaigns, records, lost>>
    BY <1>4 DEF Crud!SendDelete
  <2> HIDE DEF q, Good
  <2> QED BY <1>d, <2>1, <2>2, <2>3
<1>5. ASSUME NEW user \in Users, NEW i \in DOMAIN campaigns,
             NEW start \in Dates \cup {Crud!NoDate}, NEW end \in Dates \cup {Crud!NoDate},
             Crud!SendUpdate(r, user, i, start, end)
      PROVE  \E q : Good(q) /\ Crud!Send(r, q) /\ UNCHANGED <<campaigns, records, lost>>
  <2> DEFINE q == [pc |-> "update", id |-> i, start |-> start, end |-> end]
  <2>1. start \in Int /\ end \in Int /\ i \in Nat
    BY DEF CrudConstants, Crud!NoDate, CrudType
  <2>2. end = Crud!NoDate \/ Crud!IsAfter(end, start) => Good(q)
    <3>1. ASSUME end = Crud!NoDate \/ Crud!IsAfter(end, start)
          PROVE  q \in UpdateRequest
      BY <2>1, <3>1 DEF UpdateRequest, Crud!IsAfter
    <3> QED BY <3>1 DEF RequestOK, Creating
  <2>3. \/ Crud!Send(r, Crud!Done)
        \/ Crud!Send(r, q) /\ (end = Crud!NoDate \/ Crud!IsAfter(end, start))
    BY <1>5 DEF Crud!SendUpdate
  <2>4. UNCHANGED <<campaigns, records, lost>>
    BY <1>5 DEF Crud!SendUpdate
  <2> HIDE DEF q, Good
  <2> QED BY <1>d, <2>2, <2>3, <2>4
<1>6. \E q : Good(q) /\ Crud!Send(r, q) /\ UNCHANGED <<campaigns, records, lost>>
  BY <1>2, <1>3, <1>4, <1>5 DEF Crud!SendAny
<1> QED BY <1>1, <1>6

(* A new campaign, and an old one of which some dates were moved.          *)
LEMMA RowOK ==
  ASSUME CrudType, NEW r \in Crud!RequestIds, asked[r].pc = "create"
  PROVE  Crud!Row(r) \in Rows /\ Ordered(Crud!Row(r)) /\ Crud!Row(r).key = asked[r].key
<1>1. asked[r] \in CreateRequest
  BY DEF CrudType, RequestsOK, RequestOK, Creating
<1> QED BY <1>1 DEF CreateRequest, Crud!Row, Crud!Campaign, Rows, Ordered, Owners

LEMMA MovedOK ==
  ASSUME NEW q \in UpdateRequest, NEW row \in Rows, Ordered(row)
  PROVE  /\ Crud!Moved(row, q.start, q.end) \in Rows /\ Ordered(Crud!Moved(row, q.start, q.end))
         /\ Crud!Moved(row, q.start, q.end).key = row.key
<1>1. CASE q.start = Crud!NoDate /\ q.end = Crud!NoDate
  BY <1>1 DEF Crud!Moved, Rows, Ordered
<1>2. CASE q.start # Crud!NoDate /\ q.end = Crud!NoDate
  BY <1>2 DEF Crud!Moved, Rows, Ordered, UpdateRequest
<1>3. CASE q.end # Crud!NoDate
  BY <1>3 DEF Crud!Moved, Rows, Ordered, UpdateRequest
<1> QED BY <1>1, <1>2, <1>3

(* Rows that change keep their number, their keys and the order of dates.  *)
SameKeys ==
  /\ DOMAIN campaigns' = DOMAIN campaigns
  /\ \A i \in DOMAIN campaigns : campaigns'[i].key = campaigns[i].key
RowsOK == campaigns \in Seq(Rows) /\ \A i \in DOMAIN campaigns : Ordered(campaigns[i])

LEMMA ChangedRowOK ==
  ASSUME RowsOK, NEW i, NEW row, i \in DOMAIN campaigns => row \in Rows /\ Ordered(row)
                                                          /\ row.key = campaigns[i].key,
         campaigns' = [campaigns EXCEPT ![i] = row]
  PROVE  RowsOK' /\ SameKeys
<1>1. DOMAIN campaigns = 1..Len(campaigns) /\ Len(campaigns) \in Nat
  BY DEF RowsOK
<1>2. campaigns = [j \in 1..Len(campaigns) |-> campaigns[j]] /\ \A j \in 1..Len(campaigns) : campaigns[j] \in Rows
  BY DEF RowsOK
<1>3. /\ DOMAIN campaigns' = 1..Len(campaigns)
      /\ \A j \in 1..Len(campaigns) : campaigns'[j] = IF j = i THEN row ELSE campaigns[j]
      /\ campaigns' = [j \in 1..Len(campaigns) |-> campaigns'[j]]
  BY <1>1, <1>2
<1>4. \A j \in 1..Len(campaigns) : /\ campaigns'[j] \in Rows /\ Ordered(campaigns'[j])
                                   /\ campaigns'[j].key = campaigns[j].key
  BY <1>1, <1>2, <1>3 DEF RowsOK
<1>6. campaigns' \in Seq(Rows)
  <2>1. CASE i \in 1..Len(campaigns)
    BY <1>1, <2>1, ExceptSeq DEF RowsOK
  <2>2. CASE i \notin 1..Len(campaigns)
    <3>1. campaigns' = campaigns
      BY <1>2, <2>2
    <3> QED BY <3>1 DEF RowsOK
  <2> QED BY <2>1, <2>2
<1>7. \A j \in DOMAIN campaigns' : Ordered(campaigns'[j])
  BY <1>3, <1>4
<1> QED BY <1>1, <1>3, <1>4, <1>6, <1>7 DEF RowsOK, SameKeys

(* A creation adds one row. *)
Adds(row) ==
  /\ DOMAIN campaigns' = 1..(Len(campaigns) + 1)
  /\ \A i \in DOMAIN campaigns : campaigns'[i] = campaigns[i]
  /\ campaigns'[Len(campaigns) + 1] = row

LEMMA AddedRowOK ==
  ASSUME RowsOK, NEW row \in Rows, Ordered(row), campaigns' = Append(campaigns, row)
  PROVE  RowsOK' /\ Adds(row)
<1>1. campaigns \in Seq(Rows) /\ Len(campaigns) \in Nat /\ DOMAIN campaigns = 1..Len(campaigns)
  BY DEF RowsOK
<1>2. campaigns' \in Seq(Rows)
  BY <1>1
<1>3. Len(campaigns') = Len(campaigns) + 1 /\ DOMAIN campaigns' = 1..Len(campaigns')
  BY <1>1
<1>4. \A i \in DOMAIN campaigns : campaigns'[i] = campaigns[i]
  BY <1>1
<1>5. campaigns'[Len(campaigns) + 1] = row
  BY <1>1
<1>6. \A i \in DOMAIN campaigns' : Ordered(campaigns'[i])
  BY <1>1, <1>3, <1>4, <1>5 DEF RowsOK
<1> QED BY <1>2, <1>3, <1>4, <1>5, <1>6 DEF RowsOK, Adds

(* What a creation's step leaves: of other requests nothing changes, the   *)
(* key of this one stays until it ends.                                    *)
LEMMA KeyStepType ==
  ASSUME CrudType, NEW r \in Crud!RequestIds,
         \/ Crud!CheckKey(r) \/ Crud!MarkKey(r) \/ Crud!MarkFails(r)
         \/ Crud!Create(r) \/ Crud!CreateFails(r) \/ Crud!Release(r)
  PROVE  /\ CrudType' /\ asked[r].pc \in Creating
         /\ asked'[r].pc = "done" \/ (asked'[r].pc \in Creating /\ asked'[r].key = asked[r].key)
         /\ \A d \in Crud!RequestIds \ {r} : asked'[d] = asked[d]
<1> USE DEF Crud!Conflict
<1>t. RequestsOK /\ RowsOK
  BY DEF CrudType, RowsOK
<1>p. asked[r].pc \in Creating
  BY DEF Crud!CheckKey, Crud!MarkKey, Crud!MarkFails, Crud!Create, Crud!CreateFails, Crud!Release,
         Creating
<1>1. Crud!End(r) \/ \E pc \in Creating : Crud!To(r, pc)
  BY DEF Crud!CheckKey, Crud!MarkKey, Crud!MarkFails, Crud!Create, Crud!CreateFails, Crud!Release,
         Creating
<1>2. /\ RequestsOK'
      /\ asked'[r].pc = "done" \/ (asked'[r].pc \in Creating /\ asked'[r].key = asked[r].key)
      /\ \A d \in Crud!RequestIds \ {r} : asked'[d] = asked[d]
  BY <1>t, <1>p, <1>1, EndOK, ToOK
<1>3. \/ campaigns' = campaigns
      \/ asked[r].pc = "create" /\ campaigns' = Append(campaigns, Crud!Row(r))
  BY DEF Crud!CheckKey, Crud!MarkKey, Crud!MarkFails, Crud!Create, Crud!CreateFails, Crud!Release
<1>4. RowsOK'
  <2>1. CASE campaigns' = campaigns
    BY <1>t, <2>1 DEF RowsOK
  <2>2. CASE asked[r].pc = "create" /\ campaigns' = Append(campaigns, Crud!Row(r))
    BY <1>t, <2>2, RowOK, AddedRowOK
  <2> QED BY <1>3, <2>1, <2>2
<1>5. lost' = lost \/ lost' = [k \in Keys |-> IF k = asked[r].key THEN lost[k] + 1 ELSE lost[k]]
  BY DEF Crud!CheckKey, Crud!MarkKey, Crud!MarkFails, Crud!Create, Crud!CreateFails, Crud!Release
<1>6. lost' \in [Keys -> Nat]
  BY <1>5 DEF CrudType
<1> QED BY <1>p, <1>2, <1>4, <1>6 DEF CrudType, RowsOK

(* The steps of the readers, of the updates and of the deletions.          *)
LEMMA OtherStepType ==
  ASSUME CrudType, NEW r \in Crud!RequestIds,
         \/ Crud!ReadPage(r) \/ Crud!Count(r) \/ Crud!Listed(r) \/ Crud!Update(r) \/ Crud!Delete(r)
  PROVE  /\ CrudType' /\ SameKeys /\ UNCHANGED <<records, lost>>
         /\ asked'[r].pc \in {"done", "list", "walked"}
         /\ \A d \in Crud!RequestIds \ {r} : asked'[d] = asked[d]
<1>t. RequestsOK /\ RowsOK /\ RequestOK(asked[r])
  BY DEF CrudType, RowsOK, RequestsOK
<1>1. CASE Crud!ReadPage(r) \/ Crud!Count(r) \/ Crud!Listed(r)
  <2> DEFINE Walking(q) == /\ q = [x \in DOMAIN q |-> q[x]] /\ "pc" \in DOMAIN q
                           /\ q.pc \in {"list", "walked"}
  <2>1. ASSUME NEW q, Walking(q), asked' = [asked EXCEPT ![r] = q]
        PROVE  /\ RequestsOK' /\ asked'[r].pc \in {"done", "list", "walked"}
               /\ \A d \in Crud!RequestIds \ {r} : asked'[d] = asked[d]
    <3>1. RequestOK(q)
      BY <2>1 DEF RequestOK, Creating
    <3> QED BY <1>t, <2>1, <3>1, ChangedOK
  <2>2. Walking(asked[r])
    BY <1>t, <1>1 DEF RequestOK, Crud!ReadPage, Crud!Count, Crud!Listed
  <2>3. ASSUME Crud!ReadPage(r)
        PROVE  \E q : Walking(q) /\ asked' = [asked EXCEPT ![r] = q]
    <3>1. PICK torn, items :
            asked' = [asked EXCEPT ![r].read = TRUE, ![r].known = Len(campaigns),
                                       ![r].torn = torn, ![r].items = items]
      BY <2>3 DEF Crud!ReadPage
    <3> DEFINE q == [asked[r] EXCEPT !.read = TRUE, !.known = Len(campaigns),
                                       !.torn = torn, !.items = items]
    <3>2. Walking(q)
      BY <2>2
    <3>3. asked' = [asked EXCEPT ![r] = q]
      BY <1>t, <3>1 DEF RequestsOK
    <3> HIDE DEF q, Walking
    <3> QED BY <3>2, <3>3
  <2>4. ASSUME Crud!Count(r)
        PROVE  \E q : Walking(q) /\ asked' = [asked EXCEPT ![r] = q]
    <3>1. PICK total, torn :
            asked' = [asked EXCEPT ![r].total = total, ![r].known = Len(campaigns), ![r].torn = torn]
      BY <2>4 DEF Crud!Count
    <3> DEFINE q == [asked[r] EXCEPT !.total = total, !.known = Len(campaigns), !.torn = torn]
    <3>2. Walking(q)
      BY <2>2
    <3>3. asked' = [asked EXCEPT ![r] = q]
      BY <1>t, <3>1 DEF RequestsOK
    <3> HIDE DEF q, Walking
    <3> QED BY <3>2, <3>3
  <2>5. ASSUME Crud!Listed(r)
        PROVE  \E q : Walking(q) /\ asked' = [asked EXCEPT ![r] = q]
    <3> DEFINE seen == asked[r].seen \cup Crud!Range(asked[r].items)
               last == asked[r].page >= Crud!TotalPages(asked[r].total)
               pc == IF last THEN "walked" ELSE "list"
               q == [asked[r] EXCEPT !.seen = seen, !.pc = pc, !.page = @ + 1, !.known = 0,
                                       !.items = <<>>, !.read = FALSE, !.total = Crud!NoDate]
    <3>1. asked' = [asked EXCEPT ![r].seen = seen, ![r].pc = pc,
                        ![r].page = @ + 1, ![r].known = 0, ![r].items = <<>>, ![r].read = FALSE,
                        ![r].total = Crud!NoDate]
      BY <2>5 DEF Crud!Listed
    <3>2. Walking(q)
      <4>1. pc \in {"list", "walked"}
        OBVIOUS
      <4> HIDE DEF pc, seen
      <4> QED BY <2>2, <4>1
    <3>3. asked' = [asked EXCEPT ![r] = q]
      <4> HIDE DEF pc, seen
      <4> QED BY <1>t, <3>1 DEF RequestsOK
    <3> HIDE DEF q, Walking
    <3> QED BY <3>2, <3>3
  <2>6. UNCHANGED <<campaigns, records, lost>>
    BY <1>1 DEF Crud!ReadPage, Crud!Count, Crud!Listed
  <2>7. SameKeys /\ RowsOK'
    BY <1>t, <2>6 DEF SameKeys, RowsOK
  <2>8. /\ RequestsOK' /\ asked'[r].pc \in {"done", "list", "walked"}
        /\ \A d \in Crud!RequestIds \ {r} : asked'[d] = asked[d]
    <3> HIDE DEF Walking
    <3> QED BY <1>1, <2>1, <2>3, <2>4, <2>5
  <2> QED BY <2>6, <2>7, <2>8 DEF CrudType, RowsOK
<1>2. CASE Crud!Update(r) \/ Crud!Delete(r)
  <2>1. Crud!End(r) /\ UNCHANGED <<records, lost>>
    BY <1>2 DEF Crud!Update, Crud!Delete
  <2>2. /\ RequestsOK' /\ asked'[r].pc = "done"
        /\ \A d \in Crud!RequestIds \ {r} : asked'[d] = asked[d]
    BY <1>t, <2>1, EndOK
  <2>3. RowsOK' /\ SameKeys
    <3>1. CASE campaigns' = campaigns
      BY <1>t, <3>1 DEF RowsOK, SameKeys
    <3>2. CASE Crud!Update(r) /\ campaigns' # campaigns
      <4> DEFINE i == asked[r].id
                 row == Crud!Moved(campaigns[i], asked[r].start, asked[r].end)
      <4>1. asked[r] \in UpdateRequest
        BY <1>t, <3>2 DEF RequestOK, Crud!Update
      <4>2. campaigns' = [campaigns EXCEPT ![i] = row]
        BY <3>2 DEF Crud!Update
      <4>3. i \in DOMAIN campaigns => campaigns[i] \in Rows /\ Ordered(campaigns[i])
        BY <1>t DEF RowsOK
      <4>4. i \in DOMAIN campaigns => row \in Rows /\ Ordered(row) /\ row.key = campaigns[i].key
        BY <4>1, <4>3, MovedOK
      <4> HIDE DEF row, i
      <4> QED BY <1>t, <4>2, <4>4, ChangedRowOK
    <3>3. CASE Crud!Delete(r)
      <4> DEFINE i == asked[r].id
                 row == [campaigns[i] EXCEPT !.there = FALSE]
      <4>1. campaigns' = [campaigns EXCEPT ![i] = row]
        BY <3>3 DEF Crud!Delete
      <4>2. i \in DOMAIN campaigns => campaigns[i] \in Rows /\ Ordered(campaigns[i])
        BY <1>t DEF RowsOK
      <4>3. i \in DOMAIN campaigns => row \in Rows /\ Ordered(row) /\ row.key = campaigns[i].key
        BY <4>2 DEF Rows, Ordered
      <4> HIDE DEF row, i
      <4> QED BY <1>t, <4>1, <4>3, ChangedRowOK
    <3> QED BY <1>2, <3>1, <3>2, <3>3
  <2> QED BY <2>1, <2>2, <2>3 DEF CrudType, RowsOK
<1> QED BY <1>1, <1>2

(* A crash ends the requests that are in progress. *)
LEMMA CrashType ==
  ASSUME CrudType, Crud!Crash
  PROVE  /\ CrudType' /\ UNCHANGED <<campaigns, records, lost>>
         /\ \A r \in Crud!RequestIds : asked'[r].pc \notin Creating
<1>1. \A r \in Crud!RequestIds :
        \/ asked'[r] = asked[r] /\ asked[r].pc \in {"unsent", "done", "walked"}
        \/ asked'[r] = Crud!Done
  BY DEF Crud!Crash
<1>2. asked' = [r \in Crud!RequestIds |-> asked'[r]]
  BY DEF Crud!Crash
<1>3. ASSUME NEW r \in Crud!RequestIds
      PROVE  RequestOK(asked'[r]) /\ asked'[r].pc \notin Creating
  <2>1. CASE asked'[r] = asked[r] /\ asked[r].pc \in {"unsent", "done", "walked"}
    BY <2>1 DEF CrudType, RequestsOK, Creating
  <2>2. CASE asked'[r] = Crud!Done
    BY <2>2, EndedOK DEF Crud!Done, Creating
  <2> QED BY <1>1, <2>1, <2>2
<1>4. UNCHANGED <<campaigns, records, lost>>
  BY DEF Crud!Crash
<1> QED BY <1>2, <1>3, <1>4 DEF CrudType, RequestsOK

(* Every step keeps the types and the order of the dates. *)
LEMMA CrudTypeStep == ASSUME CrudConstants PROVE CrudType /\ [Crud!Next]_Crud!vars => CrudType'
<1> SUFFICES ASSUME CrudType, [Crud!Next]_Crud!vars PROVE CrudType'
  OBVIOUS
<1>1. CASE UNCHANGED Crud!vars
  BY <1>1 DEF Crud!vars, CrudType, RequestsOK
<1>2. ASSUME NEW r \in Crud!RequestIds, Crud!SendAny(r) PROVE CrudType'
  BY <1>2, SendOK DEF CrudType
<1>3. ASSUME NEW r \in Crud!RequestIds, Crud!RequestStep(r) PROVE CrudType'
  BY <1>3, KeyStepType, OtherStepType DEF Crud!RequestStep
<1>4. CASE Crud!Crash
  BY <1>4, CrashType
<1> QED BY <1>1, <1>2, <1>3, <1>4 DEF Crud!Next

(* The campaigns that were there at first, and nobody's request. *)
LEMMA CrudTypeInit == ASSUME CrudConstants PROVE Crud!Init => CrudType
<1> SUFFICES ASSUME Crud!Init PROVE CrudType
  OBVIOUS
<1>1. /\ DOMAIN Existing = 1..Len(Existing) /\ Len(Existing) \in Nat
      /\ \A i \in DOMAIN Existing : Existing[i] \in Owners
  BY DEF CrudConstants
<1>2. \A i \in 1..Len(Existing) : Crud!Campaign(Existing[i], None, 0, 1) \in Rows
  BY <1>1 DEF Crud!Campaign, Rows
<1>3. campaigns = [i \in 1..Len(Existing) |-> Crud!Campaign(Existing[i], None, 0, 1)]
  BY <1>1 DEF Crud!Init
<1>4. campaigns \in [1..Len(Existing) -> Rows]
  BY <1>2, <1>3
<1>5. campaigns \in Seq(Rows)
  BY <1>1, <1>4
<1>6. \A i \in DOMAIN campaigns : Ordered(campaigns[i])
  BY <1>3 DEF Ordered, Crud!Campaign
<1>7. RequestsOK
  BY EndedOK DEF Crud!Init, RequestsOK
<1>8. lost \in [Keys -> Nat]
  BY DEF Crud!Init
<1> QED BY <1>5, <1>6, <1>7, <1>8 DEF CrudType

(* So dates stay in order. *)
LEMMA CrudDates ==
  ASSUME CrudConstants PROVE Crud!Spec => []Crud!DatesStayOrdered
<1>1. CrudType => Crud!DatesStayOrdered
  BY DEF CrudType, Crud!DatesStayOrdered, Ordered
<1> QED BY <1>1, CrudTypeInit, CrudTypeStep, PTL DEF Crud!Spec

-----------------------------------------------------------------------------
(* Requests on campaigns: a key creates one campaign                       *)

(* The requests that have reserved a key, and the campaigns it created.    *)
(* While a request holds the key, or no one does and it is free, all of    *)
(* the campaigns are some that the service could not know were created.    *)
Holders(k) == {r \in Crud!RequestIds : asked[r].pc \in {"create", "release"} /\ asked[r].key = k}
Made(k) == {i \in DOMAIN campaigns : campaigns[i].key = k}

KeyInv(k) ==
  /\ \A r, q \in Holders(k) : r = q
  /\ Holders(k) # {} => k \in records
  /\ Holders(k) # {} \/ k \notin records => Cardinality(Made(k)) <= lost[k]
  /\ Cardinality(Made(k)) <= 1 + lost[k]
CrudInv == CrudType /\ \A k \in Keys : KeyInv(k)

(* The number of campaigns a key created, and the one more of a creation.  *)
LEMMA MadeCount ==
  ASSUME RowsOK, NEW k
  PROVE  /\ Cardinality(Made(k)) \in Nat
         /\ SameKeys => Made(k)' = Made(k)
         /\ \A row : Adds(row) => Cardinality(Made(k)')
              = IF row.key = k THEN Cardinality(Made(k)) + 1 ELSE Cardinality(Made(k))
<1>1. DOMAIN campaigns = 1..Len(campaigns) /\ Len(campaigns) \in Nat
  BY DEF RowsOK
<1>2. IsFiniteSet(Made(k))
  <2>1. IsFiniteSet(1..Len(campaigns))
    BY <1>1, FS_Interval
  <2> QED BY <1>1, <2>1, FS_Subset DEF Made
<1>3. SameKeys => Made(k)' = Made(k)
  BY DEF SameKeys, Made
<1>4. ASSUME NEW row, Adds(row)
      PROVE  Cardinality(Made(k)')
               = IF row.key = k THEN Cardinality(Made(k)) + 1 ELSE Cardinality(Made(k))
  <2>1. Len(campaigns) + 1 \notin Made(k)
    BY <1>1 DEF Made
  <2>2. CASE row.key = k
    <3>1. Made(k)' = Made(k) \cup {Len(campaigns) + 1}
      BY <1>1, <1>4, <2>2 DEF Made, Adds
    <3> QED BY <1>2, <2>1, <2>2, <3>1, FS_AddElement
  <2>3. CASE row.key # k
    <3>1. Made(k)' = Made(k)
      BY <1>1, <1>4, <2>3 DEF Made, Adds
    <3> QED BY <2>3, <3>1
  <2> QED BY <2>2, <2>3
<1> QED BY <1>2, <1>3, <1>4, FS_CardinalityType

(* Steps that reserve nothing and create nothing under a key. *)
LEMMA KeyQuiet ==
  ASSUME NEW k, KeyInv(k), Holders(k)' \subseteq Holders(k), records \subseteq records',
         Made(k)' = Made(k), lost'[k] = lost[k]
  PROVE  KeyInv(k)'
BY DEF KeyInv

(* The request that changes may leave the holders of a key, or stay.       *)
LEMMA HoldersShrink ==
  ASSUME NEW k, NEW r \in Crud!RequestIds,
         \A d \in Crud!RequestIds \ {r} : asked'[d] = asked[d],
         asked'[r].pc \in {"create", "release"} /\ asked'[r].key = k => r \in Holders(k)
  PROVE  Holders(k)' \subseteq Holders(k)
BY DEF Holders, Crud!RequestIds

(* A step of a creation, for the key it has and for the others. *)
LEMMA KeyStepKeeps ==
  ASSUME CrudInv, CrudType', NEW r \in Crud!RequestIds, NEW k \in Keys,
         \/ Crud!CheckKey(r) \/ Crud!MarkKey(r) \/ Crud!MarkFails(r)
         \/ Crud!Create(r) \/ Crud!CreateFails(r) \/ Crud!Release(r)
  PROVE  KeyInv(k)'
<1> USE DEF Crud!Conflict
<1>t. CrudType /\ RowsOK /\ KeyInv(k) /\ lost[k] \in Nat /\ RequestsOK
  BY DEF CrudInv, CrudType, RowsOK
<1>r. /\ asked[r].pc \in Creating
      /\ asked'[r].pc = "done" \/ (asked'[r].pc \in Creating /\ asked'[r].key = asked[r].key)
      /\ \A d \in Crud!RequestIds \ {r} : asked'[d] = asked[d]
  BY <1>t, KeyStepType
<1>c. Cardinality(Made(k)) \in Nat /\ (SameKeys => Made(k)' = Made(k))
  BY <1>t, MadeCount
<1>s. campaigns' = campaigns => SameKeys
  BY DEF SameKeys
<1>a. ASSUME asked[r].pc = "create", campaigns' = Append(campaigns, Crud!Row(r))
      PROVE  Cardinality(Made(k)')
               = IF asked[r].key = k THEN Cardinality(Made(k)) + 1 ELSE Cardinality(Made(k))
  <2>1. Crud!Row(r) \in Rows /\ Ordered(Crud!Row(r)) /\ Crud!Row(r).key = asked[r].key
    BY <1>t, <1>a, RowOK
  <2>2. Adds(Crud!Row(r))
    BY <1>t, <1>a, <2>1, AddedRowOK
  <2> QED BY <1>t, <2>1, <2>2, MadeCount
<1>1. CASE Crud!CheckKey(r) \/ Crud!MarkFails(r) \/ (Crud!MarkKey(r) /\ asked[r].key \in records)
  <2>1. asked'[r].pc \notin {"create", "release"}
    BY <1>1, <1>t, EndOK, ToOK DEF Crud!CheckKey, Crud!MarkFails, Crud!MarkKey, Creating
  <2>2. Holders(k)' \subseteq Holders(k)
    BY <1>r, <2>1, HoldersShrink
  <2>3. records \subseteq records' /\ lost' = lost /\ campaigns' = campaigns
    BY <1>1 DEF Crud!CheckKey, Crud!MarkFails, Crud!MarkKey
  <2> QED BY <1>t, <1>c, <1>s, <2>2, <2>3, KeyQuiet
<1>2. CASE Crud!MarkKey(r) /\ asked[r].key \notin records
  <2>1. records' = records \cup {asked[r].key} /\ lost' = lost /\ campaigns' = campaigns
    BY <1>2 DEF Crud!MarkKey
  <2>2. CASE asked[r].key # k
    <3>1. asked'[r].pc = "done" \/ asked'[r].key # k
      BY <1>r, <2>2
    <3>2. Holders(k)' \subseteq Holders(k)
      BY <1>r, <3>1, HoldersShrink
    <3> QED BY <1>t, <1>c, <1>s, <2>1, <3>2, KeyQuiet
  <2>3. CASE asked[r].key = k
    <3>1. Holders(k) = {} /\ Cardinality(Made(k)) <= lost[k]
      BY <1>t, <1>2, <2>3 DEF KeyInv
    <3>2. Holders(k)' \subseteq {r}
      BY <1>r, <3>1 DEF Holders, Crud!RequestIds
    <3>3. Made(k)' = Made(k) /\ k \in records'
      BY <1>c, <1>s, <2>1, <2>3
    <3> QED BY <1>t, <2>1, <3>1, <3>2, <3>3 DEF KeyInv
  <2> QED BY <2>2, <2>3
<1>3. CASE Crud!Create(r) \/ Crud!CreateFails(r)
  <2>1. records' = records /\ asked[r].pc = "create"
    BY <1>3 DEF Crud!Create, Crud!CreateFails
  <2>2. CASE asked[r].key # k
    <3>1. asked'[r].pc = "done" \/ asked'[r].key # k
      BY <1>r, <2>2
    <3>2. Holders(k)' \subseteq Holders(k)
      BY <1>r, <3>1, HoldersShrink
    <3>3. lost'[k] = lost[k]
      BY <1>3, <1>t, <2>2 DEF Crud!Create, Crud!CreateFails, CrudType
    <3>4. campaigns' = campaigns \/ campaigns' = Append(campaigns, Crud!Row(r))
      BY <1>3 DEF Crud!Create, Crud!CreateFails
    <3>5. Cardinality(Made(k)') = Cardinality(Made(k))
      BY <1>a, <1>c, <1>s, <2>1, <2>2, <3>4
    <3> QED BY <1>t, <2>1, <3>2, <3>3, <3>5 DEF KeyInv
  <2>3. CASE asked[r].key = k
    <3>1. r \in Holders(k)
      BY <2>1, <2>3 DEF Holders
    <3>2. Cardinality(Made(k)) <= lost[k] /\ k \in records /\ \A q \in Holders(k) : q = r
      BY <1>t, <3>1 DEF KeyInv
    <3>3. Holders(k)' \subseteq Holders(k)
      BY <1>r, <3>1, HoldersShrink
    <3>4. CASE Crud!Create(r)
      <4>1. asked'[r].pc = "done" /\ lost' = lost
        BY <1>t, <3>4, EndOK DEF Crud!Create
      <4>2. Holders(k)' = {}
        <5>1. r \notin Holders(k)'
          BY <4>1 DEF Holders
        <5> QED BY <3>2, <3>3, <5>1
      <4>3. Cardinality(Made(k)') = Cardinality(Made(k)) + 1
        BY <1>a, <2>1, <2>3, <3>4 DEF Crud!Create
      <4> QED BY <1>t, <1>c, <2>1, <3>2, <4>1, <4>2, <4>3 DEF KeyInv
    <3>5. CASE Crud!CreateFails(r)
      <4>1. \/ campaigns' = campaigns /\ lost' = lost
            \/ /\ campaigns' = Append(campaigns, Crud!Row(r))
               /\ lost'[k] = lost[k] + 1
        BY <1>t, <2>3, <3>5 DEF Crud!CreateFails, CrudType
      <4>2. Cardinality(Made(k)') <= lost'[k]
        BY <1>a, <1>c, <1>s, <1>t, <2>1, <2>3, <3>2, <4>1
      <4>3. lost'[k] \in Nat /\ Cardinality(Made(k)') \in Nat
        BY <1>a, <1>c, <1>s, <1>t, <2>1, <2>3, <4>1
      <4> QED BY <2>1, <3>2, <3>3, <4>2, <4>3 DEF KeyInv
    <3> QED BY <1>3, <3>4, <3>5
  <2> QED BY <2>2, <2>3
<1>4. CASE Crud!Release(r)
  <2>1. /\ asked'[r].pc = "done" /\ asked[r].pc = "release" /\ campaigns' = campaigns /\ lost' = lost
    BY <1>4, <1>t, EndOK DEF Crud!Release
  <2>2. Holders(k)' \subseteq Holders(k)
    BY <1>r, <2>1, HoldersShrink
  <2>3. CASE k \in records => k \in records'
    <3>1. Made(k)' = Made(k)
      BY <1>c, <1>s, <2>1
    <3> QED BY <1>t, <2>1, <2>2, <2>3, <3>1 DEF KeyInv
  <2>4. CASE k \in records /\ k \notin records'
    <3>1. asked[r].key = k
      BY <1>4, <2>4 DEF Crud!Release
    <3>2. r \in Holders(k)
      BY <2>1, <3>1 DEF Holders
    <3>3. Cardinality(Made(k)) <= lost[k] /\ \A q \in Holders(k) : q = r
      BY <1>t, <3>2 DEF KeyInv
    <3>4. Holders(k)' = {}
      <4>1. r \notin Holders(k)'
        BY <2>1 DEF Holders
      <4> QED BY <2>2, <3>3, <4>1
    <3> QED BY <1>c, <1>s, <1>t, <2>1, <3>3, <3>4 DEF KeyInv
  <2> QED BY <2>3, <2>4
<1> QED BY <1>1, <1>2, <1>3, <1>4

(* Every step keeps what is so of each key. *)
LEMMA KeyStep == ASSUME CrudConstants PROVE CrudInv /\ [Crud!Next]_Crud!vars => CrudInv'
<1> SUFFICES ASSUME CrudInv, [Crud!Next]_Crud!vars PROVE CrudInv'
  OBVIOUS
<1>t. CrudType /\ RowsOK /\ CrudType'
  BY CrudTypeStep DEF CrudInv, CrudType, RowsOK
<1>q. ASSUME \A k \in Keys : Holders(k)' \subseteq Holders(k), SameKeys, UNCHANGED <<records, lost>>
      PROVE  \A k \in Keys : KeyInv(k)'
  BY <1>q, <1>t, MadeCount, KeyQuiet DEF CrudInv
<1>s. campaigns' = campaigns => SameKeys
  BY DEF SameKeys
<1> SUFFICES \A k \in Keys : KeyInv(k)'
  BY <1>t DEF CrudInv
<1>1. CASE UNCHANGED Crud!vars
  BY <1>1, <1>q, <1>s DEF Crud!vars, Holders
<1>2. ASSUME NEW r \in Crud!RequestIds, Crud!SendAny(r) PROVE \A k \in Keys : KeyInv(k)'
  <2>1. /\ UNCHANGED <<campaigns, records, lost>>
        /\ asked'[r].pc \in {"create", "check", "done", "list", "update", "remove"}
        /\ asked'[r].pc = "create" => asked'[r].key \notin Keys
        /\ \A d \in Crud!RequestIds \ {r} : asked'[d] = asked[d]
    BY <1>2, <1>t, SendOK
  <2>2. \A k \in Keys : Holders(k)' \subseteq Holders(k)
    BY <2>1, HoldersShrink
  <2> QED BY <1>q, <1>s, <2>1, <2>2
<1>3. ASSUME NEW r \in Crud!RequestIds, Crud!RequestStep(r) PROVE \A k \in Keys : KeyInv(k)'
  <2>1. CASE \/ Crud!ReadPage(r) \/ Crud!Count(r) \/ Crud!Listed(r) \/ Crud!Update(r) \/ Crud!Delete(r)
    <3>1. /\ SameKeys /\ UNCHANGED <<records, lost>>
          /\ asked'[r].pc \in {"done", "list", "walked"}
          /\ \A d \in Crud!RequestIds \ {r} : asked'[d] = asked[d]
      BY <1>t, <2>1, OtherStepType
    <3>2. \A k \in Keys : Holders(k)' \subseteq Holders(k)
      BY <3>1, HoldersShrink
    <3> QED BY <1>q, <3>1, <3>2
  <2>2. CASE \/ Crud!CheckKey(r) \/ Crud!MarkKey(r) \/ Crud!MarkFails(r)
             \/ Crud!Create(r) \/ Crud!CreateFails(r) \/ Crud!Release(r)
    BY <1>t, <2>2, KeyStepKeeps
  <2> QED BY <1>3, <2>1, <2>2 DEF Crud!RequestStep
<1>4. CASE Crud!Crash
  <2>1. /\ UNCHANGED <<campaigns, records, lost>>
        /\ \A r \in Crud!RequestIds : asked'[r].pc \notin Creating
    BY <1>4, <1>t, CrashType
  <2>2. \A k \in Keys : Holders(k)' = {}
    BY <2>1 DEF Holders, Creating
  <2> QED BY <1>q, <1>s, <2>1, <2>2
<1> QED BY <1>1, <1>2, <1>3, <1>4 DEF Crud!Next

(* So a key creates one campaign, and those that were lost. *)
LEMMA CrudKeys ==
  ASSUME CrudConstants PROVE Crud!Spec => []Crud!OneCampaignPerKey
<1>1. Crud!Init => CrudInv
  <2> SUFFICES ASSUME Crud!Init PROVE CrudInv
    OBVIOUS
  <2>1. ASSUME NEW k \in Keys PROVE KeyInv(k)
    <3>1. Holders(k) = {}
      BY DEF Holders, Crud!Init, Crud!Unsent
    <3>2. Made(k) = {}
      BY DEF Made, Crud!Init, Crud!Campaign, CrudConstants
    <3>3. lost[k] = 0
      BY DEF Crud!Init
    <3> QED BY <3>1, <3>2, <3>3, FS_EmptySet DEF KeyInv
  <2> QED BY <2>1, CrudTypeInit DEF CrudInv
<1>2. CrudInv => Crud!OneCampaignPerKey
  BY SameCardinality DEF CrudInv, KeyInv, Made, Crud!OneCampaignPerKey
<1> QED BY <1>1, <1>2, KeyStep, PTL DEF Crud!Spec

-----------------------------------------------------------------------------
(* Requests on campaigns: a walk over the pages is complete                *)

WalkRecord ==
  [pc : {"list", "walked"}, user : Users, sortBy : {"createdAt", "startDate"}, page : Nat \ {0},
   items : Seq(Nat), total : Nat \cup {Crud!NoDate}, read : BOOLEAN, seen : SUBSET Nat,
   there : SUBSET Nat, from : Nat, known : Nat, torn : BOOLEAN]

(* The rows of a user that come before row i when the newest come first;   *)
(* what a walk has still to see, and what the page at hand leaves of that. *)
Newer(user, i) == {j \in Crud!There(user) : j > i}
Left(q) == q.there \ q.seen
Beyond(q) == Left(q) \ Crud!Range(q.items)

(* What a walk knows of the rows.  No row comes back, so those that were   *)
(* there when it began are in `there`.                                     *)
WalkRows(q) ==
  /\ q.from <= Len(campaigns) /\ q.known <= Len(campaigns)
  /\ q.there \subseteq 1..q.from
  /\ \A i \in q.seen \cup q.there \cup Crud!Range(q.items) :
       i \in DOMAIN campaigns /\ campaigns[i].user = q.user
  /\ \A i \in 1..q.from : i \in Crud!There(q.user) => i \in q.there

(* The walks that are promised to be complete. *)
Gap(q) ==
  \E i \in q.there \cup ((q.from + 1)..Len(campaigns)) :
    campaigns[i].user = q.user /\ ~campaigns[i].there
Counts(q) == q.sortBy = "createdAt" /\ ~q.torn /\ ~Gap(q)

(* Before each row that a walk has still to see there are as many rows as  *)
(* its pages skip; a count that is still right is no less than the number  *)
(* of rows, and with the page at hand it says whether a page is left.      *)
Ahead(q) ==
  /\ q.pc = "list" => \A i \in Left(q) : Cardinality(Newer(q.user, i)) >= Crud!Skip(q.page)
  /\ q.read => \A i \in Beyond(q) : Cardinality(Newer(q.user, i)) >= Crud!Skip(q.page + 1)
  /\ q.total # Crud!NoDate /\ q.known = Len(campaigns) =>
       Cardinality(Crud!There(q.user)) <= q.total
  /\ q.read /\ q.total # Crud!NoDate /\ Beyond(q) # {} => q.total > Crud!Skip(q.page + 1)
  /\ q.pc = "walked" => Left(q) = {}

WalkOK(q) == q \in WalkRecord /\ WalkRows(q) /\ (Counts(q) => Ahead(q))
WalkInv == \A r \in Crud!RequestIds : asked[r].pc \in {"list", "walked"} => WalkOK(asked[r])

(* The lesser of two numbers. *)
LEMMA MinOfTwo ==
  ASSUME NEW a \in Nat, NEW b \in Nat
  PROVE  /\ Crud!Min({a, b}) \in Nat /\ Crud!Min({a, b}) <= a /\ Crud!Min({a, b}) <= b
         /\ \A c \in Nat : c <= a /\ c <= b => c <= Crud!Min({a, b})
<1>1. \E x \in {a, b} : \A y \in {a, b} : x <= y
  OBVIOUS
<1>2. Crud!Min({a, b}) \in {a, b} /\ \A y \in {a, b} : Crud!Min({a, b}) <= y
  BY <1>1 DEF Crud!Min
<1> QED BY <1>2

(* A sequence that lists a set, the greatest first: a member's place says  *)
(* how many are greater.                                                   *)
LEMMA OrderPlaces ==
  ASSUME NEW S \in SUBSET Nat, IsFiniteSet(S), NEW s \in Crud!SetToSeqs(S),
         \A m, n \in DOMAIN s : m < n => s[m] > s[n], NEW i \in S
  PROVE  \E m \in 1..Cardinality(S) : s[m] = i /\ Cardinality({j \in S : j > i}) = m - 1
<1> DEFINE n == Cardinality(S)
           T == {j \in S : j > i}
<1>1. n \in Nat
  BY FS_CardinalityType
<1>2. s \in [1..n -> S] /\ \A a, b \in 1..n : a # b => s[a] # s[b]
  BY SameCardinality DEF Crud!SetToSeqs
<1>3. s \in Injection(1..n, S)
  BY <1>2 DEF Injection, IsInjective
<1>4. Cardinality(1..n) = n
  BY <1>1, FS_Interval
<1>5. s \in Surjection(1..n, S)
  BY <1>3, <1>4, FS_Injection
<1>6. PICK m \in 1..n : s[m] = i
  BY <1>5 DEF Surjection
<1> DEFINE t == [k \in 1..(m - 1) |-> s[k]]
<1> HIDE DEF n
<1>7. t \in [1..(m - 1) -> T]
  <2>1. ASSUME NEW k \in 1..(m - 1) PROVE s[k] \in T
    BY <1>1, <1>2, <1>6
  <2> QED BY <2>1
<1>8. \A a, b \in 1..(m - 1) : a # b => t[a] # t[b]
  BY <1>1, <1>2, <1>6
<1>9. ASSUME NEW j \in T PROVE \E k \in 1..(m - 1) : t[k] = j
  <2>1. PICK k \in 1..n : s[k] = j
    BY <1>5 DEF Surjection
  <2>2. j \in Nat /\ i \in Nat /\ j > i
    OBVIOUS
  <2>3. ~(k > m)
    BY <1>1, <1>2, <1>6, <2>1, <2>2
  <2>4. k # m
    BY <1>6, <2>1, <2>2
  <2>5. k \in 1..(m - 1)
    BY <1>1, <2>3, <2>4
  <2> QED BY <2>1, <2>5
<1>10. t \in Bijection(1..(m - 1), T)
  <2> HIDE DEF t, T
  <2> QED BY <1>7, <1>8, <1>9 DEF Bijection, Injection, IsInjective, Surjection
<1>11. IsFiniteSet(1..(m - 1)) /\ Cardinality(1..(m - 1)) = m - 1
  BY <1>1, FS_Interval
<1>12. Cardinality(T) = m - 1
  <2>1. ExistsBijection(1..(m - 1), T)
    BY <1>10 DEF ExistsBijection
  <2> QED BY <1>11, <2>1, FS_Bijection
<1> QED BY <1>6, <1>12 DEF n

(* What a page has of a sequence. *)
LEMMA PageItems ==
  ASSUME NEW S, NEW n \in Nat, NEW s \in [1..n -> S], NEW a \in Nat \ {0}, NEW last \in Nat,
         last <= n, NEW items, items = SubSeq(s, a, last)
  PROVE  /\ items \in Seq(S)
         /\ \A m \in 1..n : a <= m /\ m <= last => s[m] \in Crud!Range(items)
<1>1. \A k \in a..last : s[k] \in S
  OBVIOUS
<1>2. /\ items \in Seq(S)
      /\ Len(items) = IF a <= last THEN last - a + 1 ELSE 0
      /\ \A k \in 1..(last - a + 1) : items[k] = s[a + k - 1]
  BY <1>1, SubSeqProperties
<1>3. ASSUME NEW m \in 1..n, a <= m, m <= last PROVE s[m] \in Crud!Range(items)
  <2> DEFINE k == m - a + 1
  <2>1. k \in 1..(last - a + 1) /\ a + k - 1 = m /\ a <= last
    BY <1>3
  <2> HIDE DEF k
  <2>2. items[k] = s[m] /\ k \in DOMAIN items
    BY <1>2, <2>1
  <2> QED BY <2>2 DEF Crud!Range
<1> QED BY <1>2, <1>3

(* A page of such a sequence: what of the set is not on it, and has as     *)
(* many before it as are skipped, has a page more before it.               *)
LEMMA PageCovers ==
  ASSUME NEW S \in SUBSET Nat, IsFiniteSet(S), NEW s \in Crud!SetToSeqs(S),
         \A m, n \in DOMAIN s : m < n => s[m] > s[n],
         NEW first \in Nat, NEW size \in Nat, NEW items,
         items = SubSeq(s, first + 1, Crud!Min({first + size, Len(s)})), NEW i \in S,
         NEW N, N = {j \in S : j > i}, Cardinality(N) >= first, i \notin Crud!Range(items)
  PROVE  Cardinality(N) >= first + size
<1> DEFINE n == Cardinality(S)
           last == Crud!Min({first + size, Len(s)})
<1>1. n \in Nat
  BY FS_CardinalityType
<1>2. s \in [1..n -> S]
  BY SameCardinality DEF Crud!SetToSeqs
<1>3. s \in Seq(S) /\ Len(s) = n
  BY <1>1, <1>2
<1>4. PICK m \in 1..n : s[m] = i /\ Cardinality(N) = m - 1
  BY OrderPlaces
<1>5. m >= first + 1
  BY <1>1, <1>4
<1>6. SUFFICES ASSUME m <= first + size PROVE FALSE
  BY <1>1, <1>4
<1>7. last \in Nat /\ m <= last /\ last <= n
  <2>1. first + size \in Nat /\ Len(s) \in Nat /\ m \in Nat /\ m <= Len(s)
    BY <1>1, <1>3
  <2> QED BY <1>3, <1>6, <2>1, MinOfTwo
<1>p. items = SubSeq(s, first + 1, last)
  OBVIOUS
<1> HIDE DEF last, n
<1>8. m <= last => s[m] \in Crud!Range(items)
  <2>1. first + 1 \in Nat \ {0}
    OBVIOUS
  <2>2. \A k \in 1..n : first + 1 <= k /\ k <= last => s[k] \in Crud!Range(items)
    BY <1>1, <1>2, <1>7, <1>p, <2>1, PageItems
  <2> QED BY <1>5, <2>2
<1> QED BY <1>4, <1>7, <1>8

(* And the page is of the set. *)
LEMMA PageWithin ==
  ASSUME NEW S \in SUBSET Nat, IsFiniteSet(S), NEW s \in Crud!SetToSeqs(S),
         NEW first \in Nat, NEW size \in Nat, NEW items,
         items = SubSeq(s, first + 1, Crud!Min({first + size, Len(s)}))
  PROVE  items \in Seq(S)
<1> DEFINE n == Cardinality(S)
           last == Crud!Min({first + size, Len(s)})
<1>1. n \in Nat
  BY FS_CardinalityType
<1>2. s \in [1..n -> S]
  BY SameCardinality DEF Crud!SetToSeqs
<1>3. s \in Seq(S) /\ Len(s) = n
  BY <1>1, <1>2
<1>4. last \in Nat /\ last <= n
  <2>1. first + size \in Nat /\ Len(s) \in Nat
    BY <1>1, <1>3
  <2> QED BY <1>3, <2>1, MinOfTwo
<1>p. items = SubSeq(s, first + 1, last)
  OBVIOUS
<1> HIDE DEF last, n
<1>5. first + 1 \in Nat \ {0}
  OBVIOUS
<1> QED BY <1>1, <1>2, <1>4, <1>5, <1>p, PageItems

(* The members of a sequence. *)
LEMMA Members ==
  ASSUME NEW S, NEW s \in Seq(S)
  PROVE  Crud!Range(s) \subseteq S /\ (S \subseteq Nat => s \in Seq(Nat))
<1>1. Len(s) \in Nat /\ DOMAIN s = 1..Len(s) /\ \A k \in DOMAIN s : s[k] \in S
  OBVIOUS
<1>2. Crud!Range(s) \subseteq S
  BY <1>1 DEF Crud!Range
<1>3. ASSUME S \subseteq Nat PROVE s \in Seq(Nat)
  <2>1. s = [k \in 1..Len(s) |-> s[k]]
    OBVIOUS
  <2>2. s \in [1..Len(s) -> Nat]
    BY <1>1, <1>3, <2>1
  <2> QED BY <1>1, <2>2
<1> QED BY <1>2, <1>3

(* Sets of rows are finite, and those that are within others no larger.    *)
LEMMA RowSets ==
  ASSUME NEW n \in Nat, NEW T \in SUBSET (1..n)
  PROVE  /\ IsFiniteSet(T) /\ Cardinality(T) \in Nat
         /\ \A U \in SUBSET T : Cardinality(U) \in Nat /\ Cardinality(U) <= Cardinality(T)
<1>1. IsFiniteSet(T)
  <2>1. IsFiniteSet(1..n)
    BY FS_Interval
  <2> QED BY <2>1, FS_Subset
<1>2. ASSUME NEW U \in SUBSET T
      PROVE  Cardinality(U) \in Nat /\ Cardinality(U) <= Cardinality(T)
  BY <1>1, FS_Subset, FS_CardinalityType
<1> QED BY <1>1, <1>2, FS_CardinalityType

LEMMA RowNumbers ==
  ASSUME CrudType
  PROVE  DOMAIN campaigns = 1..Len(campaigns) /\ Len(campaigns) \in Nat
BY DEF CrudType

(* Rows are added at the end, stay their user's, and do not come back.     *)
RowsMove ==
  /\ DOMAIN campaigns \subseteq DOMAIN campaigns'
  /\ \A i \in DOMAIN campaigns :
       /\ campaigns'[i].user = campaigns[i].user
       /\ campaigns'[i].there => campaigns[i].there

LEMMA RowsMoveOn ==
  ASSUME CrudConstants, CrudType, [Crud!Next]_Crud!vars
  PROVE  RowsMove
<1>r. campaigns \in Seq(Rows) /\ \A i \in DOMAIN campaigns : campaigns[i] \in Rows
  BY DEF CrudType
<1>1. CASE campaigns' = campaigns
  BY <1>1 DEF RowsMove
<1>2. ASSUME NEW row, campaigns' = Append(campaigns, row) PROVE RowsMove
  BY <1>r, <1>2 DEF RowsMove
<1>3. ASSUME NEW i, NEW row, campaigns' = [campaigns EXCEPT ![i] = row],
             i \in DOMAIN campaigns =>
               row.user = campaigns[i].user /\ (row.there => campaigns[i].there)
      PROVE  RowsMove
  BY <1>r, <1>3 DEF RowsMove
<1>4. ASSUME NEW r, Crud!Update(r) PROVE RowsMove
  <2> DEFINE i == asked[r].id
             row == Crud!Moved(campaigns[i], asked[r].start, asked[r].end)
  <2>1. CASE campaigns' = [campaigns EXCEPT ![i] = row]
    <3>1. i \in DOMAIN campaigns =>
            row.user = campaigns[i].user /\ (row.there => campaigns[i].there)
      BY <1>r DEF Crud!Moved, Rows
    <3> HIDE DEF row, i
    <3> QED BY <1>3, <2>1, <3>1
  <2> QED BY <1>1, <1>4, <2>1 DEF Crud!Update
<1>5. ASSUME NEW r, Crud!Delete(r) PROVE RowsMove
  <2> DEFINE i == asked[r].id
             row == [campaigns[i] EXCEPT !.there = FALSE]
  <2>1. campaigns' = [campaigns EXCEPT ![i] = row]
    BY <1>5 DEF Crud!Delete
  <2>2. i \in DOMAIN campaigns =>
          row.user = campaigns[i].user /\ (row.there => campaigns[i].there)
    BY <1>r DEF Rows
  <2> HIDE DEF row, i
  <2> QED BY <1>3, <2>1, <2>2
<1>6. ASSUME NEW r, Crud!SendAny(r) PROVE RowsMove
  <2>1. campaigns' = campaigns
    BY <1>6 DEF Crud!SendAny, Crud!SendCreate, Crud!SendWalk, Crud!SendDelete, Crud!SendUpdate
  <2> QED BY <1>1, <2>1
<1>7. ASSUME NEW r, Crud!RequestStep(r) PROVE RowsMove
  <2>1. \/ campaigns' = campaigns \/ campaigns' = Append(campaigns, Crud!Row(r))
        \/ Crud!Update(r) \/ Crud!Delete(r)
    BY <1>7 DEF Crud!RequestStep, Crud!CheckKey, Crud!MarkKey, Crud!MarkFails, Crud!Create,
                Crud!CreateFails, Crud!Release, Crud!ReadPage, Crud!Count, Crud!Listed
  <2> QED BY <1>1, <1>2, <1>4, <1>5, <2>1
<1> QED BY <1>1, <1>6, <1>7 DEF Crud!Next, Crud!Crash, Crud!vars

(* Whatever the rows do, a walk that does not step keeps what it knows.    *)
LEMMA KeptRows ==
  ASSUME CrudType, CrudType', RowsMove, NEW q \in WalkRecord, WalkRows(q)
  PROVE  /\ WalkRows(q)' /\ (Counts(q)' => Counts(q))
         /\ Counts(q)' => Crud!There(q.user) \subseteq Crud!There(q.user)'
         /\ Len(campaigns') = Len(campaigns) =>
              Crud!There(q.user)' \subseteq Crud!There(q.user)
<1>1. /\ DOMAIN campaigns = 1..Len(campaigns) /\ Len(campaigns) \in Nat
      /\ DOMAIN campaigns' = 1..Len(campaigns') /\ Len(campaigns') \in Nat
  BY DEF CrudType
<1>2. Len(campaigns) <= Len(campaigns')
  <2>1. Len(campaigns) # 0 => Len(campaigns) \in DOMAIN campaigns'
    BY <1>1 DEF RowsMove
  <2> QED BY <1>1, <2>1
<1>3. q.from \in Nat /\ q.known \in Nat /\ q.from <= Len(campaigns) /\ q.known <= Len(campaigns)
  BY DEF WalkRecord, WalkRows
<1>4. WalkRows(q)'
  <2>1. q.from <= Len(campaigns') /\ q.known <= Len(campaigns')
    BY <1>1, <1>2, <1>3
  <2>2. \A i \in q.seen \cup q.there \cup Crud!Range(q.items) :
          i \in DOMAIN campaigns' /\ campaigns'[i].user = q.user
    BY DEF WalkRows, RowsMove
  <2>3. \A i \in 1..q.from : i \in Crud!There(q.user)' => i \in q.there
    <3>1. \A i \in 1..q.from : i \in DOMAIN campaigns
      BY <1>1, <1>3
    <3> QED BY <3>1 DEF WalkRows, RowsMove, Crud!There
  <2>4. q.there \subseteq 1..q.from
    BY DEF WalkRows
  <2> QED BY <2>1, <2>2, <2>3, <2>4 DEF WalkRows
<1>5. Gap(q) => Gap(q)'
  <2>1. \A i \in q.there \cup ((q.from + 1)..Len(campaigns)) :
          i \in DOMAIN campaigns /\ i \in q.there \cup ((q.from + 1)..Len(campaigns'))
    BY <1>1, <1>2, <1>3 DEF WalkRows
  <2> QED BY <2>1 DEF Gap, RowsMove
<1>6. ASSUME ~Gap(q)', NEW i \in Crud!There(q.user) PROVE i \in Crud!There(q.user)'
  <2>1. i \in DOMAIN campaigns /\ campaigns[i].user = q.user /\ campaigns[i].there
    BY <1>6 DEF Crud!There
  <2>2. i \in DOMAIN campaigns' /\ campaigns'[i].user = q.user
    BY <2>1 DEF RowsMove
  <2>3. i \in q.there \/ i \in (q.from + 1)..Len(campaigns')
    BY <1>1, <1>2, <1>3, <1>6, <2>1 DEF WalkRows
  <2>4. campaigns'[i].there
    BY <1>6, <2>2, <2>3 DEF Gap
  <2> QED BY <2>2, <2>4 DEF Crud!There
<1>7. Len(campaigns') = Len(campaigns) => Crud!There(q.user)' \subseteq Crud!There(q.user)
  BY <1>1 DEF RowsMove, Crud!There
<1> QED BY <1>4, <1>5, <1>6, <1>7 DEF Counts

LEMMA KeptWalk ==
  ASSUME CrudType, CrudType', RowsMove, NEW q, WalkOK(q)
  PROVE  WalkOK(q)'
<1>1. q \in WalkRecord /\ WalkRows(q)
  BY DEF WalkOK
<1>2. /\ DOMAIN campaigns = 1..Len(campaigns) /\ Len(campaigns) \in Nat
      /\ DOMAIN campaigns' = 1..Len(campaigns') /\ Len(campaigns') \in Nat
  BY DEF CrudType
<1>3. WalkRows(q)' /\ (Counts(q)' => Counts(q))
  BY <1>1, KeptRows
<1>4. ASSUME Counts(q)' PROVE Ahead(q)'
  <2>1. Ahead(q)
    BY <1>3, <1>4 DEF WalkOK
  <2> DEFINE T == Crud!There(q.user)
             T2 == Crud!There(q.user)'
  <2>2. T \subseteq T2 /\ (Len(campaigns') = Len(campaigns) => T2 \subseteq T)
    BY <1>1, <1>4, KeptRows
  <2>3. T \in SUBSET (1..Len(campaigns)) /\ T2 \in SUBSET (1..Len(campaigns'))
    BY <1>2 DEF Crud!There
  <2>4. ASSUME NEW i
        PROVE  /\ Cardinality(Newer(q.user, i)) \in Nat
               /\ Cardinality(Newer(q.user, i)') \in Nat
               /\ Cardinality(Newer(q.user, i)) <= Cardinality(Newer(q.user, i)')
    <3> DEFINE N == Newer(q.user, i)
               N2 == Newer(q.user, i)'
    <3>1. N \in SUBSET N2 /\ N2 \in SUBSET (1..Len(campaigns'))
      BY <2>2, <2>3 DEF Newer
    <3> HIDE DEF N, N2
    <3>2. Cardinality(N) \in Nat /\ Cardinality(N2) \in Nat /\ Cardinality(N) <= Cardinality(N2)
      BY <1>2, <3>1, RowSets
    <3> QED BY <3>2 DEF N, N2
  <2>5. Crud!Skip(q.page) \in Int /\ Crud!Skip(q.page + 1) \in Int
    BY <1>1, ServicesAssumption DEF WalkRecord, Crud!Skip, CrudConstants
  <2>6. ASSUME q.total # Crud!NoDate, q.known = Len(campaigns')
        PROVE  Cardinality(T2) <= q.total
    <3>1. q.known = Len(campaigns) /\ Len(campaigns') = Len(campaigns)
      <4>1. q.known <= Len(campaigns) /\ Len(campaigns) <= Len(campaigns')
        <5>1. Len(campaigns) # 0 => Len(campaigns) \in DOMAIN campaigns'
          BY <1>2 DEF RowsMove
        <5> QED BY <1>1, <1>2, <5>1 DEF WalkRows
      <4>2. q.known \in Nat
        BY <1>1 DEF WalkRecord
      <4>3. Len(campaigns) \in Nat /\ Len(campaigns') \in Nat /\ q.known = Len(campaigns')
        BY <1>2, <2>6
      <4> HIDE DEF T, T2
      <4> QED BY <4>1, <4>2, <4>3
    <3>2. T2 = T
      BY <2>2, <3>1
    <3> QED BY <2>1, <2>6, <3>1, <3>2 DEF Ahead
  <2>7. /\ q.pc = "list" =>
             \A i \in Left(q) : Cardinality(Newer(q.user, i)') >= Crud!Skip(q.page)
        /\ q.read =>
             \A i \in Beyond(q) : Cardinality(Newer(q.user, i)') >= Crud!Skip(q.page + 1)
    BY <2>1, <2>4, <2>5 DEF Ahead
  <2> QED BY <2>1, <2>6, <2>7 DEF Ahead
<1> QED BY <1>1, <1>3, <1>4 DEF WalkOK

(* What a walk becomes, where the rows stay. *)
LEMMA WalkBecomes ==
  ASSUME CrudType, NEW r \in Crud!RequestIds, NEW q, WalkOK(q),
         asked' = [asked EXCEPT ![r] = q], campaigns' = campaigns
  PROVE  WalkOK(asked[r])'
<1>1. asked'[r] = q
  BY DEF CrudType, RequestsOK
<1>2. WalkRows(q) => WalkRows(q)'
  BY DEF WalkRows, Crud!There
<1>3. Counts(q)' => Counts(q)
  BY DEF Counts, Gap
<1>4. Ahead(q) => Ahead(q)'
  BY DEF Ahead, Newer, Crud!There
<1>5. WalkOK(q)'
  BY <1>2, <1>3, <1>4 DEF WalkOK
<1> QED BY <1>1, <1>5 DEF WalkOK, WalkRows, Counts, Gap, Ahead, Left, Beyond

(* A walk begins with nothing seen. *)
LEMMA WalkBegins ==
  ASSUME CrudType, CrudConstants, NEW user \in Users, NEW sortBy \in {"createdAt", "startDate"},
         NEW q,
         q = [pc |-> "list", user |-> user, sortBy |-> sortBy, page |-> 1, items |-> <<>>,
              total |-> Crud!NoDate, read |-> FALSE, seen |-> {}, there |-> Crud!There(user),
              from |-> Len(campaigns), known |-> 0, torn |-> FALSE]
  PROVE  WalkOK(q)
<1>1. DOMAIN campaigns = 1..Len(campaigns) /\ Len(campaigns) \in Nat
  BY RowNumbers
<1>2. Crud!There(user) \in SUBSET (1..Len(campaigns))
  BY <1>1 DEF Crud!There
<1>3. Crud!Range(q.items) = {}
  BY DEF Crud!Range
<1>4. q \in WalkRecord
  <2>1. Crud!There(user) \in SUBSET Nat
    BY <1>1, <1>2
  <2> QED BY <1>1, <2>1 DEF WalkRecord
<1>5. WalkRows(q)
  BY <1>1, <1>2, <1>3 DEF WalkRows, Crud!There
<1>6. Ahead(q)
  <2>1. Crud!Skip(q.page) = 0
    BY DEF Crud!Skip, CrudConstants
  <2>2. ASSUME NEW i PROVE Cardinality(Newer(user, i)) >= 0
    <3>1. Newer(user, i) \in SUBSET (1..Len(campaigns))
      BY <1>2 DEF Newer
    <3>2. Cardinality(Newer(user, i)) \in Nat
      BY <1>1, <3>1, RowSets
    <3> QED BY <3>2
  <2>3. q.user = user /\ q.pc = "list" /\ ~q.read /\ q.total = Crud!NoDate
    OBVIOUS
  <2> QED BY <2>1, <2>2, <2>3 DEF Ahead
<1> QED BY <1>4, <1>5, <1>6 DEF WalkOK

(* What a page reads is of the user's rows, and what a walk counts on      *)
(* leaves none before the page out.                                        *)
LEMMA PageReads ==
  ASSUME CrudType, CrudConstants, NEW user, NEW sortBy, NEW page \in Nat \ {0},
         NEW order \in Crud!Orders(user, sortBy), NEW items,
         items = SubSeq(order, Crud!Skip(page) + 1,
                        Crud!Min({Crud!Skip(page) + PageLimit, Len(order)}))
  PROVE  /\ items \in Seq(Crud!There(user))
         /\ sortBy = "createdAt" =>
              \A i \in Crud!There(user) \ Crud!Range(items) :
                Cardinality(Newer(user, i)) >= Crud!Skip(page)
                  => Cardinality(Newer(user, i)) >= Crud!Skip(page + 1)
<1> DEFINE T == Crud!There(user)
           first == Crud!Skip(page)
<1>1. DOMAIN campaigns = 1..Len(campaigns) /\ Len(campaigns) \in Nat
  BY RowNumbers
<1>2. T \in SUBSET (1..Len(campaigns))
  BY <1>1 DEF Crud!There
<1>3. T \in SUBSET Nat /\ IsFiniteSet(T)
  <2>1. T \in SUBSET Nat
    BY <1>1, <1>2
  <2>2. IsFiniteSet(T)
    BY <1>1, <1>2, RowSets
  <2> QED BY <2>1, <2>2
<1>4. order \in Crud!SetToSeqs(T) /\ \A m, n \in DOMAIN order :
        m < n => Crud!Before(sortBy, order[m], order[n])
  BY DEF Crud!Orders
<1>5. first \in Nat /\ PageLimit \in Nat /\ Crud!Skip(page + 1) = first + PageLimit
  BY DEF Crud!Skip, CrudConstants
<1> HIDE DEF T, first
<1>6. items = SubSeq(order, first + 1, Crud!Min({first + PageLimit, Len(order)}))
  BY DEF first
<1>7. items \in Seq(T)
  BY <1>3, <1>4, <1>5, <1>6, PageWithin
<1>8. ASSUME sortBy = "createdAt", NEW i \in T \ Crud!Range(items),
             Cardinality(Newer(user, i)) >= first
      PROVE  Cardinality(Newer(user, i)) >= first + PageLimit
  <2>1. Newer(user, i) = {j \in T : j > i}
    BY DEF Newer, T
  <2>2. \A m, n \in DOMAIN order : m < n => order[m] > order[n]
    BY <1>4, <1>8 DEF Crud!Before
  <2> DEFINE N == Newer(user, i)
  <2>3. Cardinality(N) >= first /\ i \in T /\ i \notin Crud!Range(items)
    BY <1>8
  <2> HIDE DEF N
  <2>4. N = {j \in T : j > i}
    BY <2>1 DEF N
  <2>5. order \in Crud!SetToSeqs(T)
    BY <1>4
  <2>6. Cardinality(N) >= first + PageLimit
    BY <1>3, <1>5, <1>6, <2>2, <2>3, <2>4, <2>5, PageCovers
  <2> QED BY <2>6 DEF N
<1> QED BY <1>5, <1>7, <1>8 DEF T, first

(* A row with so many before it is one of more. *)
LEMMA OneMore ==
  ASSUME CrudType, NEW user, NEW i \in Crud!There(user), NEW s \in Int,
         Cardinality(Newer(user, i)) >= s
  PROVE  Cardinality(Crud!There(user)) > s /\ Cardinality(Crud!There(user)) \in Nat
<1> DEFINE T == Crud!There(user)
           N == Newer(user, i)
<1>1. DOMAIN campaigns = 1..Len(campaigns) /\ Len(campaigns) \in Nat
  BY RowNumbers
<1>2. T \in SUBSET (1..Len(campaigns))
  BY <1>1 DEF Crud!There
<1>3. N \in SUBSET T /\ i \notin N /\ i \in T
  BY <1>1, <1>2 DEF Newer
<1>4. N \cup {i} \in SUBSET T
  BY <1>3
<1>5. Cardinality(N) >= s
  OBVIOUS
<1> HIDE DEF T, N
<1>6. IsFiniteSet(N) /\ Cardinality(N) \in Nat
  BY <1>1, <1>2, <1>3, RowSets, FS_Subset
<1>7. Cardinality(N \cup {i}) = Cardinality(N) + 1
  BY <1>3, <1>6, FS_AddElement
<1>8. Cardinality(N \cup {i}) <= Cardinality(T) /\ Cardinality(T) \in Nat
  BY <1>1, <1>2, <1>4, RowSets
<1>9. Cardinality(T) > s /\ Cardinality(T) \in Nat
  BY <1>5, <1>6, <1>7, <1>8
<1> QED BY <1>9 DEF T

(* What a walk that counts has still to see is there. *)
LEMMA LeftThere ==
  ASSUME NEW q, WalkRows(q), Counts(q), NEW i \in Left(q)
  PROVE  i \in Crud!There(q.user)
BY DEF WalkRows, Counts, Gap, Left, Crud!There

(* A page is read. *)
LEMMA WalkReads ==
  ASSUME CrudType, CrudConstants, NEW q, WalkOK(q), q.pc = "list",
         NEW order \in Crud!Orders(q.user, q.sortBy), NEW items,
         items = SubSeq(order, Crud!Skip(q.page) + 1,
                        Crud!Min({Crud!Skip(q.page) + PageLimit, Len(order)})),
         NEW torn \in BOOLEAN,
         ~torn => ~q.torn /\ (q.total # Crud!NoDate => q.known = Len(campaigns)),
         NEW q2, q2 = [q EXCEPT !.read = TRUE, !.known = Len(campaigns), !.torn = torn,
                                !.items = items]
  PROVE  WalkOK(q2)
<1>1. DOMAIN campaigns = 1..Len(campaigns) /\ Len(campaigns) \in Nat
  BY RowNumbers
<1>2. q \in WalkRecord /\ WalkRows(q)
  BY DEF WalkOK
<1>3. q.page \in Nat \ {0}
  BY <1>2 DEF WalkRecord
<1> DEFINE T == Crud!There(q.user)
<1>4. items \in Seq(T)
  BY <1>3, PageReads
<1>5. T \in SUBSET (1..Len(campaigns)) /\ \A i \in T : campaigns[i].user = q.user
  BY <1>1 DEF Crud!There
<1>6. Crud!Range(items) \subseteq T
  <2> HIDE DEF T
  <2> QED BY <1>4, Members
<1>7. items \in Seq(Nat)
  <2>1. T \subseteq Nat
    BY <1>1, <1>5
  <2> HIDE DEF T
  <2> QED BY <1>4, <2>1, Members
<1>8. /\ q2.user = q.user /\ q2.sortBy = q.sortBy /\ q2.page = q.page /\ q2.total = q.total
      /\ q2.seen = q.seen /\ q2.there = q.there /\ q2.from = q.from /\ q2.pc = q.pc
      /\ q2.items = items /\ q2.read /\ q2.known = Len(campaigns) /\ q2.torn = torn
      /\ q2 \in WalkRecord
  BY <1>1, <1>2, <1>7 DEF WalkRecord
<1>9. WalkRows(q2)
  <2>1. \A i \in q.seen \cup q.there \cup Crud!Range(items) :
          i \in DOMAIN campaigns /\ campaigns[i].user = q.user
    BY <1>1, <1>2, <1>5, <1>6 DEF WalkRows
  <2>2. /\ q.from <= Len(campaigns) /\ Len(campaigns) <= Len(campaigns)
        /\ q.there \subseteq 1..q.from
        /\ \A i \in 1..q.from : i \in T => i \in q.there
    BY <1>1, <1>2 DEF WalkRows
  <2> HIDE DEF T
  <2> QED BY <1>8, <2>1, <2>2 DEF WalkRows, T
<1>10. ASSUME Counts(q2) PROVE Ahead(q2)
  <2>1. Counts(q) /\ (q.total # Crud!NoDate => q.known = Len(campaigns))
    BY <1>8, <1>10 DEF Counts, Gap
  <2>2. Ahead(q) /\ q.sortBy = "createdAt"
    BY <2>1 DEF WalkOK, Counts
  <2>3. Left(q2) = Left(q) /\ Beyond(q2) = Left(q) \ Crud!Range(items)
    BY <1>8 DEF Left, Beyond
  <2>4. ASSUME NEW i \in Beyond(q2)
        PROVE  i \in T /\ Cardinality(Newer(q.user, i)) >= Crud!Skip(q.page + 1)
    <3>1. i \in Left(q) /\ i \notin Crud!Range(items)
      BY <2>3
    <3>2. i \in T
      BY <1>2, <2>1, <3>1, LeftThere
    <3>3. Cardinality(Newer(q.user, i)) >= Crud!Skip(q.page)
      BY <2>2, <3>1 DEF Ahead
    <3>4. Cardinality(Newer(q.user, i)) >= Crud!Skip(q.page + 1)
      <4> HIDE DEF T
      <4> QED BY <1>3, <2>2, <3>1, <3>2, <3>3, PageReads DEF T
    <3> QED BY <3>2, <3>4
  <2>5. q.total # Crud!NoDate => Cardinality(T) <= q.total
    BY <2>1, <2>2 DEF Ahead
  <2>6. ASSUME q.total # Crud!NoDate, NEW i \in Beyond(q2)
        PROVE  q.total > Crud!Skip(q.page + 1)
    <3>1. Crud!Skip(q.page + 1) \in Int /\ q.total \in Int
      BY <1>2, <1>3 DEF Crud!Skip, CrudConstants, WalkRecord, Crud!NoDate
    <3>2. Cardinality(T) > Crud!Skip(q.page + 1) /\ Cardinality(T) \in Nat
      BY <2>4, <2>6, <3>1, OneMore
    <3> QED BY <2>5, <2>6, <3>1, <3>2
  <2>7. q.pc = "list" => \A i \in Left(q) : Cardinality(Newer(q.user, i)) >= Crud!Skip(q.page)
    BY <2>2 DEF Ahead
  <2> HIDE DEF T
  <2> QED BY <1>8, <2>3, <2>4, <2>5, <2>6, <2>7 DEF Ahead, T
<1> QED BY <1>8, <1>9, <1>10 DEF WalkOK

(* The rows are counted. *)
LEMMA WalkCounts ==
  ASSUME CrudType, CrudConstants, NEW q, WalkOK(q), q.pc = "list",
         NEW torn \in BOOLEAN, ~torn => ~q.torn,
         NEW q2, q2 = [q EXCEPT !.total = Crud!Cardinality(Crud!There(q.user)),
                                !.known = Len(campaigns), !.torn = torn]
  PROVE  WalkOK(q2)
<1>1. DOMAIN campaigns = 1..Len(campaigns) /\ Len(campaigns) \in Nat
  BY RowNumbers
<1>2. q \in WalkRecord /\ WalkRows(q)
  BY DEF WalkOK
<1> DEFINE total == Cardinality(Crud!There(q.user))
<1>3. total \in Nat /\ total = Crud!Cardinality(Crud!There(q.user))
  <2>1. Crud!There(q.user) \in SUBSET (1..Len(campaigns))
    BY <1>1 DEF Crud!There
  <2> QED BY <1>1, <2>1, RowSets, SameCardinality
<1> HIDE DEF total
<1>4. /\ q2.user = q.user /\ q2.sortBy = q.sortBy /\ q2.page = q.page /\ q2.items = q.items
      /\ q2.seen = q.seen /\ q2.there = q.there /\ q2.from = q.from /\ q2.pc = q.pc
      /\ q2.total = total /\ q2.read = q.read /\ q2.known = Len(campaigns) /\ q2.torn = torn
      /\ q2 \in WalkRecord
  BY <1>1, <1>2, <1>3 DEF WalkRecord
<1>5. WalkRows(q2)
  BY <1>1, <1>2, <1>4 DEF WalkRows
<1>6. ASSUME Counts(q2) PROVE Ahead(q2)
  <2>1. Counts(q) /\ Ahead(q)
    BY <1>4, <1>6 DEF Counts, Gap, WalkOK
  <2>2. Left(q2) = Left(q) /\ Beyond(q2) = Beyond(q) /\ Beyond(q) \subseteq Left(q)
    BY <1>4 DEF Left, Beyond
  <2>3. ASSUME q.read, NEW i \in Beyond(q) PROVE total > Crud!Skip(q.page + 1)
    <3>1. Crud!Skip(q.page + 1) \in Int
      BY <1>2 DEF Crud!Skip, CrudConstants, WalkRecord
    <3>2. i \in Crud!There(q.user)
      BY <1>2, <2>1, <2>2, <2>3, LeftThere
    <3>3. Cardinality(Newer(q.user, i)) >= Crud!Skip(q.page + 1)
      BY <2>1, <2>3 DEF Ahead
    <3> QED BY <3>1, <3>2, <3>3, OneMore DEF total
  <2>4. Cardinality(Crud!There(q2.user)) <= q2.total
    <3>1. total <= total
      BY <1>3
    <3> QED BY <1>4, <3>1 DEF total
  <2> QED BY <1>4, <2>1, <2>2, <2>3, <2>4 DEF Ahead
<1> QED BY <1>4, <1>5, <1>6 DEF WalkOK

(* The pages there are: at least as many as hold so many rows. *)
LEMMA PagesEnough ==
  ASSUME CrudConstants, NEW page \in Nat \ {0}, NEW total \in Nat, total > Crud!Skip(page + 1)
  PROVE  ~(page >= Crud!TotalPages(total))
<1>1. PageLimit \in Nat \ {0} /\ Crud!Skip(page + 1) = page * PageLimit
  BY DEF CrudConstants, Crud!Skip
<1> DEFINE d == (total + PageLimit - 1) \div PageLimit
<1>2. page * PageLimit \in Nat
  BY <1>1
<1>3. total # 0
  BY <1>1, <1>2
<1>4. d \in Int /\ (d + 1) * PageLimit > total + PageLimit - 1
  BY <1>1
<1>5. d >= page + 1
  <2>1. SUFFICES ASSUME d <= page PROVE FALSE
    BY <1>4
  <2>2. (d + 1) * PageLimit <= (page + 1) * PageLimit
    BY <1>1, <1>4, <2>1
  <2>3. (page + 1) * PageLimit = page * PageLimit + PageLimit
    BY <1>1
  <2> HIDE DEF d
  <2> QED BY <1>1, <1>2, <1>4, <2>2, <2>3
<1> QED BY <1>3, <1>4, <1>5 DEF Crud!TotalPages

(* The page at hand has been seen, and the next one is asked for. *)
LEMMA WalkLists ==
  ASSUME CrudType, CrudConstants, NEW q, WalkOK(q), q.pc = "list", q.read, q.total # Crud!NoDate,
         NEW pc, pc = IF q.page >= Crud!TotalPages(q.total) THEN "walked" ELSE "list", NEW q2,
         q2 = [q EXCEPT !.seen = q.seen \cup Crud!Range(q.items), !.pc = pc, !.page = q.page + 1,
                        !.known = 0, !.items = <<>>, !.read = FALSE, !.total = Crud!NoDate]
  PROVE  WalkOK(q2)
<1>1. DOMAIN campaigns = 1..Len(campaigns) /\ Len(campaigns) \in Nat
  BY RowNumbers
<1>2. q \in WalkRecord /\ WalkRows(q)
  BY DEF WalkOK
<1>3. q.page \in Nat \ {0} /\ q.total \in Nat /\ q.seen \subseteq Nat /\ q.items \in Seq(Nat)
  BY <1>2 DEF WalkRecord
<1> DEFINE seen == q.seen \cup Crud!Range(q.items)
<1>4. seen \subseteq Nat /\ <<>> \in Seq(Nat) /\ Crud!Range(<<>>) = {}
  <2>1. Crud!Range(q.items) \subseteq Nat
    BY <1>3, Members
  <2>2. Crud!Range(<<>>) = {}
    BY DEF Crud!Range
  <2> QED BY <1>3, <2>1, <2>2
<1> HIDE DEF seen
<1>5. /\ q2.user = q.user /\ q2.sortBy = q.sortBy /\ q2.page = q.page + 1 /\ q2.items = <<>>
      /\ q2.seen = seen /\ q2.there = q.there /\ q2.from = q.from /\ q2.pc = pc
      /\ q2.total = Crud!NoDate /\ ~q2.read /\ q2.known = 0 /\ q2.torn = q.torn
      /\ q2 \in WalkRecord
  <2>1. q2 = [q EXCEPT !.seen = seen, !.pc = pc, !.page = q.page + 1, !.known = 0,
                       !.items = <<>>, !.read = FALSE, !.total = Crud!NoDate]
    BY DEF seen
  <2>2. pc \in {"list", "walked"} /\ q.page + 1 \in Nat \ {0} /\ seen \in SUBSET Nat
    BY <1>3, <1>4
  <2> DEFINE q1 == [q EXCEPT !.seen = seen, !.pc = pc, !.page = q.page + 1]
  <2>3. /\ q1.user = q.user /\ q1.sortBy = q.sortBy /\ q1.page = q.page + 1 /\ q1.seen = seen
        /\ q1.there = q.there /\ q1.from = q.from /\ q1.pc = pc /\ q1.torn = q.torn
        /\ q1 \in WalkRecord
    BY <1>2, <2>2 DEF WalkRecord
  <2>4. q2 = [q1 EXCEPT !.known = 0, !.items = <<>>, !.read = FALSE, !.total = Crud!NoDate]
    BY <1>2, <2>1 DEF WalkRecord
  <2> HIDE DEF q1
  <2>5. q2 \in WalkRecord
    <3>1. 0 \in Nat /\ FALSE \in BOOLEAN /\ Crud!NoDate \in Nat \cup {Crud!NoDate}
      OBVIOUS
    <3> QED BY <1>4, <2>3, <2>4, <3>1 DEF WalkRecord
  <2>6. q2.items = <<>> /\ q2.total = Crud!NoDate /\ q2.known = 0
    BY <2>3, <2>4 DEF WalkRecord
  <2>7. ~q2.read
    BY <2>3, <2>4 DEF WalkRecord
  <2>8. /\ q2.user = q1.user /\ q2.sortBy = q1.sortBy /\ q2.page = q1.page /\ q2.seen = q1.seen
        /\ q2.there = q1.there /\ q2.from = q1.from /\ q2.pc = q1.pc /\ q2.torn = q1.torn
    BY <2>3, <2>4 DEF WalkRecord
  <2> QED BY <2>3, <2>5, <2>6, <2>7, <2>8
<1>6. WalkRows(q2)
  BY <1>1, <1>2, <1>4, <1>5 DEF WalkRows, seen
<1>7. ASSUME Counts(q2) PROVE Ahead(q2)
  <2>1. Ahead(q)
    BY <1>5, <1>7 DEF Counts, Gap, WalkOK
  <2>2. Left(q2) = Beyond(q)
    BY <1>5 DEF Left, Beyond, seen
  <2>3. \A i \in Beyond(q) : Cardinality(Newer(q.user, i)) >= Crud!Skip(q.page + 1)
    BY <2>1 DEF Ahead
  <2>4. ASSUME pc = "walked" PROVE Beyond(q) = {}
    <3>1. SUFFICES ASSUME Beyond(q) # {} PROVE FALSE
      OBVIOUS
    <3>2. q.total > Crud!Skip(q.page + 1)
      BY <2>1, <3>1 DEF Ahead
    <3> QED BY <1>3, <2>4, <3>2, PagesEnough
  <2> QED BY <1>5, <2>2, <2>3, <2>4 DEF Ahead
<1> QED BY <1>5, <1>6, <1>7 DEF WalkOK

(* The requests that are walks after a step were walks before it, but for  *)
(* the one that begins.                                                    *)
LEMMA WalkSent ==
  ASSUME CrudType, CrudConstants, NEW r \in Crud!RequestIds, Crud!SendAny(r),
         asked'[r].pc \in {"list", "walked"}
  PROVE  WalkOK(asked[r])'
<1>r. asked = [d \in Crud!RequestIds |-> asked[d]]
  BY DEF CrudType, RequestsOK
<1>s. ASSUME NEW q, Crud!Send(r, q) PROVE asked' = [asked EXCEPT ![r] = q] /\ asked'[r] = q
  BY <1>r, <1>s DEF Crud!Send
<1>d. Crud!Done.pc = "done"
  BY DEF Crud!Done
<1>1. ASSUME NEW user, NEW key, NEW start, NEW end, Crud!SendCreate(r, user, key, start, end)
      PROVE  FALSE
  <2> DEFINE q == [pc |-> IF key = None THEN "create" ELSE "check",
                   user |-> user, key |-> key, start |-> start, end |-> end]
  <2>1. Crud!Send(r, q) \/ Crud!Send(r, Crud!Done)
    BY <1>1 DEF Crud!SendCreate
  <2>2. q.pc \in {"create", "check"}
    OBVIOUS
  <2> HIDE DEF q
  <2> QED BY <1>s, <1>d, <2>1, <2>2
<1>2. ASSUME NEW user, NEW i, Crud!SendDelete(r, user, i) PROVE FALSE
  <2> DEFINE q == [pc |-> "remove", id |-> i]
  <2>1. Crud!Send(r, q) \/ Crud!Send(r, Crud!Done)
    BY <1>2 DEF Crud!SendDelete
  <2>2. q.pc = "remove"
    OBVIOUS
  <2> HIDE DEF q
  <2> QED BY <1>s, <1>d, <2>1, <2>2
<1>3. ASSUME NEW user, NEW i, NEW start, NEW end, Crud!SendUpdate(r, user, i, start, end)
      PROVE  FALSE
  <2> DEFINE q == [pc |-> "update", id |-> i, start |-> start, end |-> end]
  <2>1. Crud!Send(r, q) \/ Crud!Send(r, Crud!Done)
    BY <1>3 DEF Crud!SendUpdate
  <2>2. q.pc = "update"
    OBVIOUS
  <2> HIDE DEF q
  <2> QED BY <1>s, <1>d, <2>1, <2>2
<1>4. PICK user \in Users, sortBy \in {"createdAt", "startDate"} : Crud!SendWalk(r, user, sortBy)
  BY <1>1, <1>2, <1>3 DEF Crud!SendAny
<1> DEFINE q == [pc |-> "list", user |-> user, sortBy |-> sortBy, page |-> 1, items |-> <<>>,
                 total |-> Crud!NoDate, read |-> FALSE, seen |-> {}, there |-> Crud!There(user),
                 from |-> Len(campaigns), known |-> 0, torn |-> FALSE]
<1>5. WalkOK(q)
  BY WalkBegins
<1>6. Crud!Send(r, q) /\ campaigns' = campaigns
  BY <1>4 DEF Crud!SendWalk
<1> HIDE DEF q
<1>7. asked' = [asked EXCEPT ![r] = q]
  BY <1>6 DEF Crud!Send
<1> QED BY <1>5, <1>6, <1>7, WalkBecomes

LEMMA WalkGoesOn ==
  ASSUME CrudType, CrudConstants, WalkInv, NEW r \in Crud!RequestIds,
         Crud!ReadPage(r) \/ Crud!Count(r) \/ Crud!Listed(r)
  PROVE  WalkOK(asked[r])'
<1>r. asked = [d \in Crud!RequestIds |-> asked[d]]
  BY DEF CrudType, RequestsOK
<1>c. campaigns' = campaigns
  BY DEF Crud!ReadPage, Crud!Count, Crud!Listed
<1>q. asked[r].pc = "list" /\ WalkOK(asked[r]) /\ asked[r] \in WalkRecord
  BY DEF Crud!ReadPage, Crud!Count, Crud!Listed, WalkInv, WalkOK
<1>b. asked[r].torn \in BOOLEAN /\ asked[r].page \in Nat
  BY <1>q DEF WalkRecord
<1>1. CASE Crud!ReadPage(r)
  <2> DEFINE torn == Crud!Torn(r, asked[r].total = Crud!NoDate)
  <2>1. PICK order \in Crud!Orders(asked[r].user, asked[r].sortBy) :
          asked' = [asked EXCEPT ![r].read = TRUE, ![r].known = Len(campaigns), ![r].torn = torn,
                      ![r].items = SubSeq(order, Crud!Skip(asked[r].page) + 1,
                        Crud!Min({Crud!Skip(asked[r].page) + PageLimit, Len(order)}))]
    BY <1>1 DEF Crud!ReadPage
  <2> DEFINE items == SubSeq(order, Crud!Skip(asked[r].page) + 1,
                        Crud!Min({Crud!Skip(asked[r].page) + PageLimit, Len(order)}))
             q2 == [asked[r] EXCEPT !.read = TRUE, !.known = Len(campaigns), !.torn = torn,
                                    !.items = items]
  <2>2. /\ torn \in BOOLEAN
        /\ ~torn => /\ ~asked[r].torn
                    /\ asked[r].total # Crud!NoDate => asked[r].known = Len(campaigns)
    BY <1>b DEF Crud!Torn
  <2>3. asked' = [asked EXCEPT ![r] = q2]
    <3> HIDE DEF torn, items
    <3> QED BY <1>r, <2>1 DEF items
  <2>4. WalkOK(q2)
    <3> HIDE DEF torn
    <3> QED BY <1>q, <2>2, WalkReads
  <2> HIDE DEF q2
  <2> QED BY <1>c, <2>3, <2>4, WalkBecomes
<1>2. CASE Crud!Count(r)
  <2> DEFINE torn == Crud!Torn(r, ~asked[r].read)
             q2 == [asked[r] EXCEPT !.total = Crud!Cardinality(Crud!There(asked[r].user)),
                                    !.known = Len(campaigns), !.torn = torn]
  <2>1. asked' = [asked EXCEPT ![r].total = Crud!Cardinality(Crud!There(asked[r].user)),
                                    ![r].known = Len(campaigns), ![r].torn = torn]
    BY <1>2 DEF Crud!Count
  <2>2. torn \in BOOLEAN /\ (~torn => ~asked[r].torn)
    BY <1>b DEF Crud!Torn
  <2>3. asked' = [asked EXCEPT ![r] = q2]
    <3> HIDE DEF torn
    <3> QED BY <1>r, <2>1
  <2>4. WalkOK(q2)
    <3> HIDE DEF torn
    <3> QED BY <1>q, <2>2, WalkCounts
  <2> HIDE DEF q2
  <2> QED BY <1>c, <2>3, <2>4, WalkBecomes
<1>3. CASE Crud!Listed(r)
  <2> DEFINE pc == IF asked[r].page >= Crud!TotalPages(asked[r].total) THEN "walked" ELSE "list"
             seen == asked[r].seen \cup Crud!Range(asked[r].items)
             q2 == [asked[r] EXCEPT !.seen = seen, !.pc = pc, !.page = asked[r].page + 1,
                                    !.known = 0, !.items = <<>>, !.read = FALSE,
                                    !.total = Crud!NoDate]
  <2>1. /\ asked[r].read /\ asked[r].total # Crud!NoDate
        /\ asked' = [asked EXCEPT ![r].seen = seen, ![r].pc = pc, ![r].page = @ + 1,
                                  ![r].known = 0, ![r].items = <<>>, ![r].read = FALSE,
                                  ![r].total = Crud!NoDate]
    BY <1>3 DEF Crud!Listed
  <2>2. asked' = [asked EXCEPT ![r] = q2]
    <3> HIDE DEF pc, seen
    <3> QED BY <1>q, <1>r, <2>1 DEF WalkRecord
  <2>3. WalkOK(q2)
    BY <1>q, <2>1, WalkLists
  <2> HIDE DEF q2
  <2> QED BY <1>c, <2>2, <2>3, WalkBecomes
<1> QED BY <1>1, <1>2, <1>3

LEMMA WalkStep ==
  ASSUME CrudConstants
  PROVE  CrudType /\ WalkInv /\ [Crud!Next]_Crud!vars => CrudType' /\ WalkInv'
<1> SUFFICES ASSUME CrudType, WalkInv, [Crud!Next]_Crud!vars PROVE CrudType' /\ WalkInv'
  OBVIOUS
<1>1. CrudType' /\ RowsMove
  BY CrudTypeStep, RowsMoveOn
<1>2. ASSUME NEW r \in Crud!RequestIds, asked'[r] = asked[r], asked'[r].pc \in {"list", "walked"}
      PROVE  WalkOK(asked[r])'
  <2>1. PICK q : q = asked[r]
    OBVIOUS
  <2>2. WalkOK(q)
    BY <1>2, <2>1 DEF WalkInv
  <2>3. WalkOK(q)'
    BY <1>1, <2>2, KeptWalk
  <2> QED BY <1>2, <2>1, <2>3 DEF WalkOK, WalkRows, Counts, Gap, Ahead, Left, Beyond
<1>3. ASSUME NEW r \in Crud!RequestIds, Crud!SendAny(r), NEW d \in Crud!RequestIds,
             asked'[d].pc \in {"list", "walked"}
      PROVE  WalkOK(asked[d])'
  BY <1>2, <1>3, SendOK, WalkSent
<1>4. ASSUME NEW r \in Crud!RequestIds, Crud!RequestStep(r), NEW d \in Crud!RequestIds,
             asked'[d].pc \in {"list", "walked"}
      PROVE  WalkOK(asked[d])'
  <2>1. CASE \/ Crud!CheckKey(r) \/ Crud!MarkKey(r) \/ Crud!MarkFails(r)
             \/ Crud!Create(r) \/ Crud!CreateFails(r) \/ Crud!Release(r)
    BY <1>2, <1>4, <2>1, KeyStepType DEF Creating
  <2>2. CASE Crud!ReadPage(r) \/ Crud!Count(r) \/ Crud!Listed(r)
    BY <1>2, <1>4, <2>2, OtherStepType, WalkGoesOn
  <2>3. CASE Crud!Update(r) \/ Crud!Delete(r)
    <3>1. Crud!End(r)
      BY <2>3 DEF Crud!Update, Crud!Delete
    <3> QED BY <1>2, <1>4, <3>1, EndOK DEF CrudType
  <2> QED BY <1>4, <2>1, <2>2, <2>3 DEF Crud!RequestStep
<1>5. ASSUME Crud!Crash, NEW d \in Crud!RequestIds, asked'[d].pc \in {"list", "walked"}
      PROVE  WalkOK(asked[d])'
  BY <1>2, <1>5 DEF Crud!Crash, Crud!Done
<1>6. ASSUME UNCHANGED Crud!vars, NEW d \in Crud!RequestIds, asked'[d].pc \in {"list", "walked"}
      PROVE  WalkOK(asked[d])'
  BY <1>2, <1>6 DEF Crud!vars
<1>7. WalkInv'
  BY <1>3, <1>4, <1>5, <1>6 DEF Crud!Next, WalkInv
<1> QED BY <1>1, <1>7

(* So a walk that ends has seen the rows that were there. *)
LEMMA CrudWalks ==
  ASSUME CrudConstants PROVE Crud!Spec => []Crud!WalkIsComplete
<1>1. Crud!Init => WalkInv
  BY DEF Crud!Init, Crud!Unsent, WalkInv
<1>2. CrudType /\ WalkInv => Crud!WalkIsComplete
  <2> SUFFICES ASSUME WalkInv, NEW r \in Crud!RequestIds, asked[r].pc = "walked"
               PROVE  /\ \A i \in asked[r].seen : campaigns[i].user = asked[r].user
                      /\ asked[r].sortBy = "createdAt" /\ ~asked[r].torn /\ ~Crud!Deleted(r) =>
                           asked[r].there \subseteq asked[r].seen
    BY DEF Crud!WalkIsComplete
  <2>1. WalkOK(asked[r])
    BY DEF WalkInv
  <2>2. Crud!Deleted(r) <=> Gap(asked[r])
    BY DEF Crud!Deleted, Gap
  <2>3. Counts(asked[r]) => Left(asked[r]) = {}
    BY <2>1 DEF WalkOK, Ahead
  <2> QED BY <2>1, <2>2, <2>3 DEF WalkOK, WalkRows, Counts, Left
<1> QED BY <1>1, <1>2, CrudTypeInit, WalkStep, PTL DEF Crud!Spec

-----------------------------------------------------------------------------
(* Linking an account                                                      *)

Refreshes == Flows \cup {None}
CallbackRecord ==
  [pc : {"idle"}]
  \cup [pc : {"get", "delete", "exchange", "findDenied", "mark"}, flow : Flows, kind : {"code", "error"}]
  \cup [pc : {"find"}, flow : Flows, kind : {"code"}, refresh : Refreshes]
  \cup [pc : {"upsert"}, flow : Flows, kind : {"code"}, refresh : Refreshes, existing : Refreshes]
LinkedAccount ==
  [status : {"none", "CONNECTED", "REAUTHORIZATION_REQUIRED", "DISCONNECTED"},
   access : Refreshes, refresh : Refreshes, bound : AdAccounts \cup {None}]

LinkType ==
  /\ linked \in LinkedAccount
  /\ state \in [Flows -> {"none", "live", "gone"}]
  /\ payload \in [Flows -> [bound : AdAccounts \cup {None}, verifier : BOOLEAN]]
  /\ callback \in [Callbacks -> CallbackRecord]
  /\ consumed \in [Flows -> Nat]
  /\ overtaken \in BOOLEAN

(* The callbacks that have read a state and not deleted it yet.            *)
Reading(f) == {c \in Callbacks : callback[c].pc = "delete" /\ callback[c].flow = f}

(* Until a state is deleted it was not used, nor was it if a callback is   *)
(* about to delete it; that callback is the only one, unless two overlap.  *)
StateInv(f) ==
  f \notin shared =>
    /\ state[f] # "gone" \/ Reading(f) # {} => consumed[f] = 0
    /\ \A c, d \in Reading(f) : c = d
    /\ Reading(f) # {} => state[f] # "none"
    /\ consumed[f] <= 1

(* A row that does not exist has no refresh token. *)
RowInv ==
  /\ linked.status = "none" => linked.refresh = None
  /\ ~overtaken => linked.refresh = latest

LinkInv == LinkType /\ RowInv /\ \A f \in Flows : StateInv(f)

(* A callback ends, goes on, or has been found what it asked for.          *)
LEMMA CallbackTypes ==
  ASSUME LinkType, NEW c \in Callbacks
  PROVE  /\ Linking!End(c) => /\ callback' \in [Callbacks -> CallbackRecord] /\ callback'[c].pc = "idle"
                              /\ \A d \in Callbacks \ {c} : callback'[d] = callback[d]
         /\ \A pc \in {"delete", "exchange", "findDenied", "mark"} :
              /\ Linking!Goto(c, pc) /\ callback[c].pc \in {"get", "delete", "findDenied"}
              => /\ callback' \in [Callbacks -> CallbackRecord]
                 /\ callback'[c].pc = pc /\ callback'[c].flow = callback[c].flow
                 /\ \A d \in Callbacks \ {c} : callback'[d] = callback[d]
         /\ \A q \in CallbackRecord : callback' = [callback EXCEPT ![c] = q]
              => /\ callback' \in [Callbacks -> CallbackRecord] /\ callback'[c] = q
                 /\ \A d \in Callbacks \ {c} : callback'[d] = callback[d]
<1>1. callback \in [Callbacks -> CallbackRecord] /\ callback[c] \in CallbackRecord
  BY DEF LinkType
<1>2. ASSUME NEW q \in CallbackRecord, callback' = [callback EXCEPT ![c] = q]
      PROVE  /\ callback' \in [Callbacks -> CallbackRecord] /\ callback'[c] = q
             /\ \A d \in Callbacks \ {c} : callback'[d] = callback[d]
  BY <1>1, <1>2
<1>3. ASSUME Linking!End(c)
      PROVE  /\ callback' \in [Callbacks -> CallbackRecord] /\ callback'[c].pc = "idle"
             /\ \A d \in Callbacks \ {c} : callback'[d] = callback[d]
  <2>1. Linking!Idle \in CallbackRecord /\ Linking!Idle.pc = "idle"
    BY DEF Linking!Idle, CallbackRecord
  <2>2. callback' = [callback EXCEPT ![c] = Linking!Idle]
    BY <1>3 DEF Linking!End
  <2> QED BY <1>2, <2>1, <2>2
<1>4. ASSUME NEW pc \in {"delete", "exchange", "findDenied", "mark"}, Linking!Goto(c, pc),
             callback[c].pc \in {"get", "delete", "findDenied"}
      PROVE  /\ callback' \in [Callbacks -> CallbackRecord]
             /\ callback'[c].pc = pc /\ callback'[c].flow = callback[c].flow
             /\ \A d \in Callbacks \ {c} : callback'[d] = callback[d]
  <2> DEFINE q == [callback[c] EXCEPT !.pc = pc]
  <2>1. q \in CallbackRecord /\ q.pc = pc /\ q.flow = callback[c].flow
    BY <1>1, <1>4 DEF CallbackRecord
  <2>2. callback' = [callback EXCEPT ![c] = q]
    BY <1>1, <1>4 DEF Linking!Goto
  <2> HIDE DEF q
  <2> QED BY <1>2, <2>1, <2>2
<1> QED BY <1>2, <1>3, <1>4

(* Steps that start no reading and use no state, and delete none.          *)
LEMMA StateQuiet ==
  ASSUME NEW f, StateInv(f), Reading(f)' \subseteq Reading(f), consumed'[f] = consumed[f],
         shared \subseteq shared',
         \/ state'[f] = state[f]
         \/ state[f] = "none" /\ state'[f] = "live"
         \/ state[f] = "live" /\ state'[f] = "gone"
  PROVE  StateInv(f)'
BY DEF StateInv

(* A callback that changes, and is not one that is about to delete a state *)
(* unless it was, is no new reader.                                        *)
LEMMA ReadersShrink ==
  ASSUME NEW c \in Callbacks, \A d \in Callbacks \ {c} : callback'[d] = callback[d],
         callback'[c].pc # "delete"
  PROVE  \A f : Reading(f)' \subseteq Reading(f) \ {c}
BY DEF Reading

(* Flows that start, expire or get a code, and browsers that come back.    *)
LEMMA FlowStep ==
  ASSUME LinkInv, NEW f \in Flows,
         \/ Linking!Connect(f) \/ Linking!Reconnect(f) \/ Linking!Expire(f) \/ Linking!Consent(f)
         \/ \E c \in Callbacks, kind \in {"code", "error"} : Linking!OauthCallback(c, f, kind)
  PROVE  LinkInv'
<1> USE DEF Linking!history
<1>t. LinkType /\ RowInv
  BY DEF LinkInv
<1>1. CASE Linking!Connect(f) \/ Linking!Reconnect(f)
  <2>1. PICK a \in AdAccounts \cup {None} : Linking!StartFlow(f, a)
    BY <1>1 DEF Linking!Connect, Linking!Reconnect
  <2>2. Linking!StatePayload(a) \in [bound : AdAccounts \cup {None}, verifier : BOOLEAN]
    BY DEF Linking!StatePayload, Linking!PrepareAuthSession
  <2>3. LinkType'
    BY <1>t, <2>1, <2>2 DEF LinkType, Linking!StartFlow
  <2>4. RowInv'
    BY <1>t, <2>1 DEF RowInv, Linking!StartFlow
  <2>5. ASSUME NEW g \in Flows PROVE StateInv(g)'
    <3>1. state'[g] = state[g] \/ (state[g] = "none" /\ state'[g] = "live")
      BY <1>t, <2>1 DEF LinkType, Linking!StartFlow
    <3>2. Reading(g)' = Reading(g) /\ UNCHANGED <<consumed, shared>>
      BY <2>1 DEF Reading, Linking!StartFlow
    <3> QED BY <3>1, <3>2, StateQuiet DEF LinkInv
  <2> QED BY <2>3, <2>4, <2>5 DEF LinkInv
<1>2. CASE Linking!Expire(f) \/ Linking!Consent(f)
  <2>1. LinkType'
    BY <1>t, <1>2 DEF LinkType, Linking!Expire, Linking!Consent
  <2>2. RowInv'
    BY <1>t, <1>2 DEF RowInv, Linking!Expire, Linking!Consent
  <2>3. ASSUME NEW g \in Flows PROVE StateInv(g)'
    <3>1. state'[g] = state[g] \/ (state[g] = "live" /\ state'[g] = "gone")
      BY <1>t, <1>2 DEF LinkType, Linking!Expire, Linking!Consent
    <3>2. Reading(g)' = Reading(g) /\ UNCHANGED <<consumed, shared>>
      BY <1>2 DEF Reading, Linking!Expire, Linking!Consent
    <3> QED BY <3>1, <3>2, StateQuiet DEF LinkInv
  <2> QED BY <2>1, <2>2, <2>3 DEF LinkInv
<1>3. ASSUME NEW c \in Callbacks, NEW kind \in {"code", "error"}, Linking!OauthCallback(c, f, kind)
      PROVE  LinkInv'
  <2> DEFINE q == [pc |-> "get", flow |-> f, kind |-> kind]
  <2>1. q \in CallbackRecord /\ q.pc = "get"
    BY DEF CallbackRecord
  <2>2. callback' = [callback EXCEPT ![c] = q]
    BY <1>3 DEF Linking!OauthCallback
  <2> HIDE DEF q
  <2>3. /\ callback' \in [Callbacks -> CallbackRecord] /\ callback'[c] = q
        /\ \A d \in Callbacks \ {c} : callback'[d] = callback[d]
    BY <1>t, <2>1, <2>2, CallbackTypes
  <2>4. UNCHANGED <<linked, state, payload, consumed, shared, latest, overtaken>>
    BY <1>3 DEF Linking!OauthCallback
  <2>5. \A g \in Flows : StateInv(g)'
    BY <2>1, <2>3, <2>4, ReadersShrink, StateQuiet DEF LinkInv
  <2> QED BY <1>t, <2>3, <2>4, <2>5 DEF LinkInv, LinkType, RowInv
<1> QED BY <1>1, <1>2, <1>3

(* The two steps of consume. *)
LEMMA ConsumeStep ==
  ASSUME LinkInv, NEW c \in Callbacks, Linking!GetState(c) \/ Linking!DeleteState(c)
  PROVE  LinkInv'
<1>t. LinkType /\ RowInv /\ callback[c] \in CallbackRecord
  BY DEF LinkInv, LinkType
<1>f. PICK f \in Flows : f = callback[c].flow
  BY <1>t DEF CallbackRecord, Linking!GetState, Linking!DeleteState
<1>1. CASE Linking!GetState(c)
  <2>1. UNCHANGED <<linked, state, payload, consumed, latest, overtaken>>
    BY <1>1 DEF Linking!GetState
  <2>2. CASE state[f] # "live"
    <3>1. Linking!End(c) /\ UNCHANGED shared
      BY <1>1, <1>f, <2>2 DEF Linking!GetState
    <3>2. /\ callback' \in [Callbacks -> CallbackRecord] /\ callback'[c].pc = "idle"
          /\ \A d \in Callbacks \ {c} : callback'[d] = callback[d]
      BY <1>t, <3>1, CallbackTypes
    <3>3. \A g \in Flows : StateInv(g)'
      BY <2>1, <3>1, <3>2, ReadersShrink, StateQuiet DEF LinkInv
    <3> QED BY <1>t, <2>1, <3>2, <3>3 DEF LinkInv, LinkType, RowInv
  <2>3. CASE state[f] = "live"
    <3>1. /\ callback' \in [Callbacks -> CallbackRecord]
          /\ callback'[c].pc = "delete" /\ callback'[c].flow = f
          /\ \A d \in Callbacks \ {c} : callback'[d] = callback[d]
      <4>1. Linking!Goto(c, "delete") /\ callback[c].pc = "get"
        BY <1>1, <1>f, <2>3 DEF Linking!GetState
      <4> QED BY <1>t, <1>f, <4>1, CallbackTypes
    <3>2. shared' = IF Reading(f) # {} THEN shared \cup {f} ELSE shared
      BY <1>1, <1>f, <2>3 DEF Linking!GetState, Reading
    <3>3. ASSUME NEW g \in Flows PROVE StateInv(g)'
      <4>1. CASE g # f
        <5>1. Reading(g)' \subseteq Reading(g)
          BY <3>1, <4>1 DEF Reading
        <5> QED BY <2>1, <3>2, <5>1, StateQuiet DEF LinkInv
      <4>2. CASE g = f /\ Reading(f) # {}
        BY <3>2, <4>2 DEF StateInv
      <4>3. CASE g = f /\ Reading(f) = {}
        <5>1. Reading(f)' \subseteq {c}
          BY <3>1, <4>3 DEF Reading
        <5>2. f \notin shared => consumed[f] = 0
          BY <1>f, <2>3 DEF LinkInv, StateInv
        <5> QED BY <2>1, <2>3, <3>2, <4>3, <5>1, <5>2 DEF StateInv
      <4> QED BY <4>1, <4>2, <4>3
    <3> QED BY <1>t, <2>1, <3>1, <3>3 DEF LinkInv, LinkType, RowInv
  <2> QED BY <2>2, <2>3
<1>2. CASE Linking!DeleteState(c)
  <2>1. /\ UNCHANGED <<linked, payload, shared, latest, overtaken>> /\ callback[c].pc = "delete"
        /\ state' = [state EXCEPT ![f] = "gone"] /\ consumed' = [consumed EXCEPT ![f] = @ + 1]
    BY <1>2, <1>f DEF Linking!DeleteState, Linking!Remaining
  <2>2. /\ callback' \in [Callbacks -> CallbackRecord]
        /\ callback'[c].pc # "delete"
        /\ \A d \in Callbacks \ {c} : callback'[d] = callback[d]
    <3>1. \E pc \in {"exchange", "findDenied"} : Linking!Goto(c, pc)
      BY <1>2 DEF Linking!DeleteState
    <3> QED BY <1>t, <2>1, <3>1, CallbackTypes
  <2>3. c \in Reading(f)
    BY <1>f, <2>1 DEF Reading
  <2>4. ASSUME NEW g \in Flows PROVE StateInv(g)'
    <3>1. Reading(g)' \subseteq Reading(g) \ {c}
      BY <2>2, ReadersShrink
    <3>2. CASE g # f
      <4>1. state'[g] = state[g] /\ consumed'[g] = consumed[g]
        BY <1>t, <2>1, <3>2 DEF LinkType
      <4> QED BY <2>1, <3>1, <4>1, StateQuiet DEF LinkInv
    <3>3. CASE g = f /\ f \notin shared
      <4>1. consumed[f] = 0 /\ \A d \in Reading(f) : d = c
        BY <2>3, <3>3 DEF LinkInv, StateInv
      <4>2. Reading(f)' = {}
        BY <3>1, <3>3, <4>1
      <4>3. state'[f] = "gone" /\ consumed'[f] = 1
        BY <1>t, <2>1, <3>3, <4>1 DEF LinkType
      <4> QED BY <3>3, <4>2, <4>3 DEF StateInv
    <3>4. CASE g = f /\ f \in shared
      BY <2>1, <3>4 DEF StateInv
    <3> QED BY <3>2, <3>3, <3>4
  <2>5. state' \in [Flows -> {"none", "live", "gone"}] /\ consumed' \in [Flows -> Nat]
    BY <1>t, <1>f, <2>1 DEF LinkType
  <2> QED BY <1>t, <2>1, <2>2, <2>4, <2>5 DEF LinkInv, LinkType, RowInv
<1> QED BY <1>1, <1>2

(* What follows the consumption, or cuts a callback short. *)
LEMMA AfterConsume ==
  ASSUME LinkInv, NEW c \in Callbacks,
         \/ Linking!ExchangeCode(c) \/ Linking!ExchangeFails(c) \/ Linking!FindExisting(c)
         \/ Linking!Upsert(c) \/ Linking!FindDenied(c) \/ Linking!MarkReauthRequired(c)
         \/ Linking!CallbackFails(c)
  PROVE  LinkInv'
<1> USE DEF Linking!history
<1>t. /\ LinkType /\ RowInv /\ callback[c] \in CallbackRecord /\ linked \in LinkedAccount
      /\ payload \in [Flows -> [bound : AdAccounts \cup {None}, verifier : BOOLEAN]]
  BY DEF LinkInv, LinkType
<1>s. UNCHANGED <<state, payload, consumed, shared>>
  BY DEF Linking!ExchangeCode, Linking!ExchangeFails, Linking!FindExisting, Linking!Upsert,
         Linking!FindDenied, Linking!MarkReauthRequired, Linking!CallbackFails
<1>c. /\ callback' \in [Callbacks -> CallbackRecord] /\ callback'[c].pc # "delete"
      /\ \A d \in Callbacks \ {c} : callback'[d] = callback[d]
  <2>1. CASE Linking!ExchangeCode(c)
    <3>1. callback[c].flow \in Flows
      BY <1>t, <2>1 DEF CallbackRecord, Linking!ExchangeCode
    <3>2. PICK refresh \in {callback[c].flow, None} : callback' = [callback EXCEPT ![c] =
            [pc |-> "find", flow |-> callback[c].flow, kind |-> "code", refresh |-> refresh]]
      BY <2>1 DEF Linking!ExchangeCode
    <3> DEFINE q == [pc |-> "find", flow |-> callback[c].flow, kind |-> "code", refresh |-> refresh]
    <3>3. q \in CallbackRecord /\ q.pc # "delete"
      BY <3>1 DEF CallbackRecord, Refreshes
    <3> HIDE DEF q
    <3>4. callback' = [callback EXCEPT ![c] = q]
      BY <3>2 DEF q
    <3> QED BY <1>t, <3>3, <3>4, CallbackTypes
  <2>2. CASE Linking!FindExisting(c)
    <3> DEFINE q == [pc |-> "upsert", flow |-> callback[c].flow, kind |-> "code",
                     refresh |-> callback[c].refresh, existing |-> linked.refresh]
    <3>1. callback[c].flow \in Flows /\ callback[c].refresh \in Refreshes /\ linked.refresh \in Refreshes
      BY <1>t, <2>2 DEF CallbackRecord, LinkedAccount, Linking!FindExisting
    <3>2. q \in CallbackRecord /\ q.pc # "delete"
      BY <3>1 DEF CallbackRecord
    <3>3. callback' = [callback EXCEPT ![c] = q]
      BY <2>2 DEF Linking!FindExisting
    <3> HIDE DEF q
    <3> QED BY <1>t, <3>2, <3>3, CallbackTypes
  <2>3. CASE Linking!FindDenied(c)
    <3>1. callback[c].pc = "findDenied" /\ (Linking!End(c) \/ Linking!Goto(c, "mark"))
      BY <2>3 DEF Linking!FindDenied
    <3> QED BY <1>t, <3>1, CallbackTypes
  <2>4. CASE Linking!ExchangeFails(c) \/ Linking!Upsert(c) \/ Linking!MarkReauthRequired(c)
             \/ Linking!CallbackFails(c)
    <3>1. Linking!End(c)
      BY <2>4 DEF Linking!ExchangeFails, Linking!Upsert, Linking!MarkReauthRequired, Linking!CallbackFails
    <3> QED BY <1>t, <3>1, CallbackTypes
  <2> QED BY <2>1, <2>2, <2>3, <2>4
<1>r. linked' \in LinkedAccount /\ overtaken' \in BOOLEAN /\ RowInv'
  <2>1. CASE UNCHANGED <<linked, latest, overtaken>>
    BY <1>t, <2>1 DEF LinkType, RowInv
  <2>2. CASE Linking!MarkReauthRequired(c)
    <3>1. /\ linked' = [linked EXCEPT !.status = "REAUTHORIZATION_REQUIRED"]
          /\ UNCHANGED <<latest, overtaken>>
      BY <2>2 DEF Linking!MarkReauthRequired
    <3> QED BY <1>t, <3>1 DEF LinkType, RowInv, LinkedAccount
  <2>3. CASE Linking!Upsert(c)
    <3> DEFINE f == callback[c].flow
               fresh == callback[c].refresh
               existing == callback[c].existing
    <3>1. f \in Flows /\ fresh \in Refreshes /\ existing \in Refreshes
      BY <1>t, <2>3 DEF CallbackRecord, Linking!Upsert
    <3>2. /\ linked'.status = "CONNECTED" /\ linked'.refresh = Linking!NewRefresh(c)
          /\ latest' = IF fresh # None THEN fresh ELSE latest
          /\ overtaken' = \/ overtaken /\ fresh = None
                          \/ fresh = None /\ existing # linked.refresh
      BY <2>3 DEF Linking!Upsert
    <3>3. Linking!NewRefresh(c) \in Refreshes
      BY <3>1 DEF Linking!NewRefresh, Refreshes
    <3>4. linked' \in LinkedAccount
      <4>1. payload[f].bound \in AdAccounts \cup {None} /\ linked.bound \in AdAccounts \cup {None}
        BY <1>t, <3>1 DEF LinkedAccount
      <4>2. linked' = [status |-> "CONNECTED", access |-> f, refresh |-> Linking!NewRefresh(c),
                        bound |-> IF payload[f].bound = None THEN linked.bound ELSE payload[f].bound]
        BY <2>3 DEF Linking!Upsert
      <4> HIDE DEF f
      <4> QED BY <3>1, <3>3, <4>1, <4>2 DEF LinkedAccount, Refreshes
    <3>5. ~overtaken' => linked'.refresh = latest'
      <4>1. CASE fresh # None
        BY <3>2, <4>1 DEF Linking!NewRefresh
      <4>2. CASE fresh = None
        <5>1. overtaken' = (overtaken \/ existing # linked.refresh) /\ latest' = latest
          BY <3>2, <4>2
        <5>2. ASSUME ~overtaken' PROVE linked.refresh = latest /\ existing = linked.refresh
          BY <1>t, <5>1, <5>2 DEF RowInv
        <5>3. Linking!NewRefresh(c) = IF linked.status # "none" THEN existing ELSE None
          BY <4>2 DEF Linking!NewRefresh, Linking!Exists
        <5> QED BY <1>t, <3>2, <5>1, <5>2, <5>3 DEF RowInv
      <4> QED BY <4>1, <4>2
    <3>6. overtaken' \in BOOLEAN
      BY <3>2
    <3> QED BY <3>2, <3>4, <3>5, <3>6 DEF RowInv
  <2> QED BY <2>1, <2>2, <2>3
        DEF Linking!ExchangeCode, Linking!ExchangeFails, Linking!FindExisting, Linking!FindDenied,
            Linking!CallbackFails
<1>1. \A g \in Flows : StateInv(g)'
  BY <1>s, <1>c, ReadersShrink, StateQuiet DEF LinkInv
<1> QED BY <1>t, <1>s, <1>c, <1>r, <1>1 DEF LinkInv, LinkType

(* Every step keeps the invariant. *)
LEMMA LinkStep == LinkInv /\ [Linking!Next]_Linking!vars => LinkInv'
<1> SUFFICES ASSUME LinkInv, [Linking!Next]_Linking!vars PROVE LinkInv'
  OBVIOUS
<1>1. CASE UNCHANGED Linking!vars
  BY <1>1 DEF Linking!vars, LinkInv, LinkType, RowInv, StateInv, Reading
<1>2. CASE Linking!Disconnect
  <2>1. /\ UNCHANGED <<state, payload, callback, consumed, shared>> /\ latest' = None /\ overtaken' = FALSE
        /\ linked' = [linked EXCEPT !.status = "DISCONNECTED", !.access = None, !.refresh = None]
    BY <1>2 DEF Linking!Disconnect, Linking!Cleared
  <2>2. linked' \in LinkedAccount /\ linked'.refresh = None
    BY <2>1 DEF LinkInv, LinkType, LinkedAccount, Refreshes
  <2>3. RowInv'
    BY <2>1, <2>2 DEF RowInv
  <2>4. LinkType'
    BY <2>1, <2>2 DEF LinkInv, LinkType
  <2>5. \A f \in Flows : StateInv(f)'
    BY <2>1 DEF LinkInv, StateInv, Reading
  <2> QED BY <2>3, <2>4, <2>5 DEF LinkInv
<1> QED BY <1>1, <1>2, FlowStep, ConsumeStep, AfterConsume DEF Linking!Next, Linking!CallbackStep

LEMMA LinkInit == Linking!Init => LinkInv
<1> SUFFICES ASSUME Linking!Init PROVE LinkInv
  OBVIOUS
<1>1. LinkType
  BY DEF Linking!Init, Linking!NoAccount, Linking!NoPayload, Linking!Idle, LinkType, LinkedAccount,
         CallbackRecord, Refreshes
<1>2. RowInv
  BY DEF Linking!Init, Linking!NoAccount, RowInv
<1>3. ASSUME NEW f \in Flows PROVE StateInv(f)
  <2>1. Reading(f) = {}
    BY DEF Reading, Linking!Init, Linking!Idle
  <2> QED BY <2>1 DEF Linking!Init, StateInv
<1> QED BY <1>1, <1>2, <1>3 DEF LinkInv

(* So a state is consumed once. *)
LEMMA LinkingStates ==
  Linking!Spec => []Linking!StateIsConsumedOnce
<1>1. LinkInv => Linking!StateIsConsumedOnce
  BY DEF LinkInv, StateInv, Linking!StateIsConsumedOnce
<1> QED BY <1>1, LinkInit, LinkStep, PTL DEF Linking!Spec

(* So the row holds the last refresh token. *)
LEMMA LinkingTokens ==
  Linking!Spec => []Linking!RefreshTokenIsLatest
<1>1. LinkInv => Linking!RefreshTokenIsLatest
  BY DEF LinkInv, RowInv, Linking!RefreshTokenIsLatest
<1> QED BY <1>1, LinkInit, LinkStep, PTL DEF Linking!Spec

-----------------------------------------------------------------------------
(* Listing an ad account: what was there all the time is listed            *)

(* The place of a campaign in a platform's order. *)
Place(S, c) == Cardinality({d \in S : d <= c})

Cursors == {"META", "SNAPCHAT", "X"}
Offsets == {"LINKEDIN", "TIKTOK"}

(* A cursor has what lies up to it behind it, all listed.  An offset has   *)
(* passed over as many campaigns as it says, and of those that it did not  *)
(* list each took a place that a removed one had left.                     *)
Overlooked == {d \in throughout \ listed : Place(atPlatform, d) <= offset}
PagesInv ==
  /\ atPlatform \subseteq 1..LastListed /\ throughout \subseteq atPlatform
  /\ pagesAsked \in Nat /\ cursor \in Nat /\ offset \in Nat /\ shifts \in Nat
  /\ listing = "page" =>
       /\ lister \in Cursors => \A d \in throughout : d <= cursor => d \in listed
       /\ lister \in Offsets => Cardinality(Overlooked) <= shifts
       /\ lister = "TIKTOK" => offset = PageSize * pagesAsked
  /\ Pages!ListingIsComplete

(* The cardinality the instance counts with is the cardinality.            *)
LEMMA SamePagesCardinality ==
  \A S : Pages!Cardinality(S) = Cardinality(S)
BY DEF Pages!Cardinality, Cardinality

LEMMA Ordinals ==
  ASSUME PagesConstants, NEW S \in SUBSET (1..LastListed)
  PROVE  /\ IsFiniteSet(S) /\ Cardinality(S) \in Nat
         /\ \A T \in SUBSET S :
              IsFiniteSet(T) /\ Cardinality(T) \in Nat /\ Cardinality(T) <= Cardinality(S)
<1>1. LastListed \in Nat
  BY DEF PagesConstants
<1>2. ASSUME NEW T \in SUBSET S
      PROVE  IsFiniteSet(T) /\ Cardinality(T) \in Nat /\ Cardinality(T) <= Cardinality(S)
  BY <1>1, RowSets, FS_Subset
<1> QED BY <1>1, <1>2, RowSets

(* Places rise with the order, by one for each campaign.                   *)
LEMMA PlaceOrder ==
  ASSUME PagesConstants, NEW S \in SUBSET (1..LastListed), NEW c \in Int, NEW e \in Int, c <= e
  PROVE  /\ Place(S, c) \in 0..Cardinality(S) /\ Place(S, c) <= Place(S, e)
         /\ c < e /\ e \in S => Place(S, c) < Place(S, e)
         /\ c \in S => Place(S, c) >= 1
<1> DEFINE A == {d \in S : d <= c}
           B == {d \in S : d <= e}
<1>1. A \in SUBSET B /\ B \in SUBSET S /\ A \in SUBSET S
  <2>1. \A d \in S : d \in Int
    BY DEF PagesConstants
  <2>2. \A d \in S : d <= c => d <= e
    BY <2>1
  <2> QED BY <2>2
<1>2. c \in S => c \in A
  OBVIOUS
<1>3. c < e /\ e \in S => e \in B /\ e \notin A
  OBVIOUS
<1>4. Place(S, c) = Cardinality(A) /\ Place(S, e) = Cardinality(B)
  BY DEF Place
<1> HIDE DEF A, B
<1>5. B \in SUBSET (1..LastListed)
  BY <1>1
<1>6. /\ Cardinality(A) \in Nat /\ Cardinality(B) \in Nat /\ Cardinality(S) \in Nat
      /\ Cardinality(A) <= Cardinality(S) /\ Cardinality(A) <= Cardinality(B)
      /\ IsFiniteSet(A) /\ IsFiniteSet(B)
  BY <1>1, <1>5, Ordinals
<1>7. c < e /\ e \in S => Cardinality(A) < Cardinality(B)
  <2> SUFFICES ASSUME e \in B, e \notin A PROVE Cardinality(A) < Cardinality(B)
    BY <1>3
  <2>1. Cardinality(A) # Cardinality(B)
    BY <1>1, <1>6, FS_Subset
  <2> QED BY <1>6, <2>1
<1>8. c \in S => Cardinality(A) # 0
  BY <1>2, <1>6, FS_EmptySet
<1> QED BY <1>4, <1>6, <1>7, <1>8

LEMMA PlaceType ==
  ASSUME PagesConstants, NEW S \in SUBSET (1..LastListed), NEW c \in Int
  PROVE  /\ Place(S, c) \in 0..Cardinality(S) /\ Place(S, c) \in Nat
         /\ c \in S => Place(S, c) >= 1
<1>1. c <= c
  OBVIOUS
<1>2. Place(S, c) \in 0..Cardinality(S) /\ (c \in S => Place(S, c) >= 1)
  BY <1>1, PlaceOrder
<1>3. Cardinality(S) \in Nat
  BY Ordinals
<1> QED BY <1>2, <1>3

(* Every place is taken. *)
LEMMA PlaceTaken ==
  ASSUME PagesConstants, NEW S \in SUBSET (1..LastListed), NEW k \in 1..Cardinality(S)
  PROVE  \E c \in S : Place(S, c) = k
<1> DEFINE n == Cardinality(S)
           f == [c \in S |-> Place(S, c)]
<1>1. n \in Nat /\ IsFiniteSet(S)
  BY Ordinals
<1>2. S \subseteq Int
  BY DEF PagesConstants
<1>3. ASSUME NEW c \in S PROVE Place(S, c) \in 1..n
  <2>1. Place(S, c) \in 0..n /\ Place(S, c) >= 1
    BY <1>2, PlaceOrder
  <2> QED BY <1>1, <2>1
<1>4. ASSUME NEW c \in S, NEW e \in S, c # e PROVE Place(S, c) # Place(S, e)
  <2>1. c \in Int /\ e \in Int
    BY <1>2
  <2>2. CASE c < e
    <3>1. Place(S, c) < Place(S, e) /\ Place(S, c) \in 0..n /\ Place(S, e) \in 0..n
      BY <2>1, <2>2, PlaceOrder
    <3> QED BY <1>1, <3>1
  <2>3. CASE e < c
    <3>1. Place(S, e) < Place(S, c) /\ Place(S, c) \in 0..n /\ Place(S, e) \in 0..n
      BY <2>1, <2>3, PlaceOrder
    <3> QED BY <1>1, <3>1
  <2> QED BY <1>4, <2>1, <2>2, <2>3
<1> HIDE DEF n
<1>5. f \in Injection(S, 1..n)
  BY <1>3, <1>4 DEF Injection, IsInjective
<1>6. IsFiniteSet(1..n) /\ Cardinality(1..n) = n
  BY <1>1, FS_Interval
<1>7. f \in Surjection(S, 1..n)
  BY <1>5, <1>6, FS_Injection DEF n
<1>8. PICK c \in S : f[c] = k
  BY <1>7 DEF Surjection, n
<1> QED BY <1>8

(* So there is a last campaign. *)
LEMMA Greatest ==
  ASSUME PagesConstants, NEW S \in SUBSET (1..LastListed), S # {}
  PROVE  \E c \in S : \A d \in S : d <= c
<1>1. Cardinality(S) \in Nat \ {0}
  BY Ordinals, FS_EmptySet
<1>2. PICK c \in S : Place(S, c) = Cardinality(S)
  BY <1>1, PlaceTaken
<1>3. ASSUME NEW d \in S, d > c PROVE FALSE
  <2>1. c \in Int /\ d \in Int /\ c < d
    BY <1>3 DEF PagesConstants
  <2>2. Place(S, c) < Place(S, d) /\ Place(S, d) \in 0..Cardinality(S)
    BY <2>1, PlaceOrder
  <2> QED BY <1>1, <1>2, <2>2
<1>4. S \subseteq Int
  BY DEF PagesConstants
<1> QED BY <1>3, <1>4

(* A page that is not the last one is full. *)
LEMMA FullPage ==
  ASSUME PagesConstants, NEW S \in SUBSET (1..LastListed), NEW n \in Nat, NEW size \in Nat,
         NEW d \in S, Place(S, d) > n + size, NEW page,
         page = {c \in S : n < Place(S, c) /\ Place(S, c) <= n + size}
  PROVE  Cardinality(page) >= size
<1> DEFINE f == [k \in 1..size |-> CHOOSE c \in S : Place(S, c) = n + k]
<1>1. Cardinality(S) \in Nat /\ page \in SUBSET S
  BY Ordinals
<1>2. Place(S, d) \in 0..Cardinality(S)
  <2>1. d \in Int
    BY DEF PagesConstants
  <2> QED BY <2>1, PlaceOrder
<1>3. ASSUME NEW k \in 1..size PROVE f[k] \in S /\ Place(S, f[k]) = n + k
  <2>1. n + k \in 1..Cardinality(S)
    BY <1>1, <1>2
  <2>2. \E c \in S : Place(S, c) = n + k
    BY <2>1, PlaceTaken
  <2> QED BY <2>2
<1>4. DOMAIN f = 1..size /\ f = [k \in 1..size |-> f[k]]
  OBVIOUS
<1> HIDE DEF f
<1>5. \A k \in 1..size : f[k] \in page
  BY <1>3
<1>6. \A k, l \in 1..size : f[k] = f[l] => k = l
  BY <1>3
<1>7. f \in Injection(1..size, page)
  BY <1>4, <1>5, <1>6 DEF Injection, IsInjective
<1>8. IsFiniteSet(page) /\ Cardinality(page) \in Nat
  BY <1>1, Ordinals
<1>9. Cardinality(1..size) = size
  BY FS_Interval
<1> QED BY <1>7, <1>8, <1>9, FS_Injection

(* What a removal does to the places, and that a new campaign lowers none. *)
LEMMA PlaceRemoved ==
  ASSUME PagesConstants, NEW S \in SUBSET (1..LastListed), NEW x \in S, NEW c \in Int
  PROVE  Place(S \ {x}, c) = IF x <= c THEN Place(S, c) - 1 ELSE Place(S, c)
<1> DEFINE A == {d \in S : d <= c}
           B == {d \in S \ {x} : d <= c}
<1>1. A \in SUBSET S /\ B = A \ {x} /\ (x \in A <=> x <= c)
  OBVIOUS
<1>2. Place(S, c) = Cardinality(A) /\ Place(S \ {x}, c) = Cardinality(B)
  BY DEF Place
<1> HIDE DEF A, B
<1>3. IsFiniteSet(A)
  BY <1>1, Ordinals
<1>4. Cardinality(A \ {x}) = IF x \in A THEN Cardinality(A) - 1 ELSE Cardinality(A)
  BY <1>3, FS_RemoveElement
<1> QED BY <1>1, <1>2, <1>4

LEMMA PlaceAdded ==
  ASSUME PagesConstants, NEW S \in SUBSET (1..LastListed), NEW x \in 1..LastListed, NEW c \in Int
  PROVE  Place(S, c) <= Place(S \cup {x}, c)
<1> DEFINE A == {d \in S : d <= c}
           B == {d \in S \cup {x} : d <= c}
<1>1. A \in SUBSET B /\ B \in SUBSET (1..LastListed)
  OBVIOUS
<1>2. Place(S, c) = Cardinality(A) /\ Place(S \cup {x}, c) = Cardinality(B)
  BY DEF Place
<1> HIDE DEF A, B
<1> QED BY <1>1, <1>2, Ordinals

(* One round of the loop: what it leaves is enough for what follows.       *)
LEMMA RoundKeeps ==
  ASSUME PagesInv, listing = "page", NEW found \in SUBSET atPlatform, NEW start2 \in Nat,
         NEW finished \in BOOLEAN, Pages!Round(found, start2, finished),
         UNCHANGED <<lister, atPlatform, throughout, shifts>>, Pages!Highest(found) \in Nat,
         lister \in Cursors =>
           \A d \in throughout : d <= Pages!Highest(found) => d \in listed \cup found,
         lister \in Offsets =>
           Cardinality({d \in throughout \ (listed \cup found) : Place(atPlatform, d) <= start2})
             <= shifts,
         lister = "TIKTOK" => start2 = PageSize * (pagesAsked + 1),
         finished => Cardinality(throughout \ (listed \cup found)) <= shifts
  PROVE  PagesInv'
<1>1. /\ listed' = listed \cup found /\ cursor' = Pages!Highest(found) /\ offset' = start2
      /\ pagesAsked' = pagesAsked + 1
      /\ listing' = IF finished \/ pagesAsked + 1 = MaxPages THEN "done" ELSE "page"
  BY DEF Pages!Round
<1>2. /\ atPlatform' \subseteq 1..LastListed /\ throughout' \subseteq atPlatform'
      /\ pagesAsked' \in Nat /\ cursor' \in Nat /\ offset' \in Nat /\ shifts' \in Nat
  BY <1>1 DEF PagesInv
<1>3. Overlooked' = {d \in throughout \ (listed \cup found) : Place(atPlatform, d) <= start2}
  BY <1>1 DEF Overlooked, Place
<1>4. /\ lister' \in Cursors => \A d \in throughout' : d <= cursor' => d \in listed'
      /\ lister' \in Offsets => Cardinality(Overlooked') <= shifts'
      /\ lister' = "TIKTOK" => offset' = PageSize * pagesAsked'
  BY <1>1, <1>3
<1>5. Pages!ListingIsComplete'
  <2> SUFFICES ASSUME listing' = "done", pagesAsked' < MaxPages
               PROVE  Cardinality(throughout' \ listed') <= shifts'
    BY SamePagesCardinality DEF Pages!ListingIsComplete
  <2>1. finished
    BY <1>1, <1>2
  <2> QED BY <1>1, <2>1
<1> QED BY <1>2, <1>4, <1>5 DEF PagesInv

(* The end of a list, for those that ask after a campaign. *)
LEMMA CursorRound ==
  ASSUME PagesConstants, PagesInv, listing = "page", lister \in Cursors, NEW next \in BOOLEAN,
         Pages!Remain(Pages!Highest(Pages!PageAfter(cursor))) => next,
         Pages!Round(Pages!PageAfter(cursor), offset, ~next),
         UNCHANGED <<lister, atPlatform, throughout, shifts>>
  PROVE  PagesInv'
<1> DEFINE found == Pages!PageAfter(cursor)
           high == Pages!Highest(found)
<1>t. /\ atPlatform \in SUBSET (1..LastListed) /\ throughout \subseteq atPlatform
      /\ cursor \in Nat /\ offset \in Nat /\ shifts \in Nat
      /\ \A d \in throughout : d <= cursor => d \in listed
  BY DEF PagesInv
<1>p. \A c : Pages!Position(c) = Place(atPlatform, c)
  BY SamePagesCardinality DEF Pages!Position, Place
<1>1. found = {d \in atPlatform : cursor < d /\
                 Place(atPlatform, d) <= Place(atPlatform, cursor) + PageSize}
  BY <1>p DEF Pages!PageAfter
<1>2. found \in SUBSET atPlatform
  BY <1>1
<1>3. \/ found = {} /\ high = cursor
      \/ high \in found /\ \A d \in found : d <= high
  <2>1. CASE found = {}
    BY <2>1 DEF Pages!Highest
  <2>2. CASE found # {}
    <3>1. \E c \in found : \A d \in found : d <= c
      BY <1>t, <1>2, <2>2, Greatest
    <3> HIDE DEF found
    <3> QED BY <2>2, <3>1 DEF Pages!Highest
  <2> QED BY <2>1, <2>2
<1> HIDE DEF found, high
<1>4. \A d \in atPlatform : d \in Int
  BY <1>t DEF PagesConstants
<1>5. high \in Nat
  <2>1. \A d \in found : d \in Nat
    BY <1>t, <1>2 DEF PagesConstants
  <2> QED BY <1>t, <1>3, <2>1
<1>6. ASSUME NEW d \in throughout, d <= high PROVE d \in listed \cup found
  <2>1. CASE d <= cursor
    BY <1>t, <2>1
  <2>2. CASE ~(d <= cursor)
    <3>1. d \in atPlatform /\ d \in Int /\ cursor < d
      BY <1>t, <1>4, <2>2
    <3>2. high \in found
      BY <1>3, <1>6, <2>2
    <3>3. Place(atPlatform, d) <= Place(atPlatform, high)
      BY <1>t, <1>5, <1>6, <3>1, PlaceOrder
    <3>4. Place(atPlatform, high) <= Place(atPlatform, cursor) + PageSize
      BY <1>1, <3>2
    <3>5. /\ Place(atPlatform, d) \in Int /\ Place(atPlatform, high) \in Int
          /\ Place(atPlatform, cursor) \in Int /\ PageSize \in Int
      BY <1>t, <1>5, <3>1, PlaceOrder DEF PagesConstants
    <3> QED BY <1>1, <3>1, <3>3, <3>4, <3>5
  <2> QED BY <2>1, <2>2
<1>7. ASSUME ~next PROVE Cardinality(throughout \ (listed \cup found)) <= shifts
  <2>1. \A d \in atPlatform : ~(d > high)
    BY <1>7 DEF Pages!Remain, high, found
  <2>2. \A d \in throughout : d <= high
    BY <1>t, <1>4, <1>5, <2>1
  <2>3. throughout \ (listed \cup found) = {}
    BY <1>6, <2>2
  <2> QED BY <1>t, <2>3, FS_EmptySet
<1>8. lister \notin Offsets /\ lister # "TIKTOK"
  BY DEF Cursors, Offsets
<1>9. Pages!Highest(found) \in Nat /\ Pages!Round(found, offset, ~next)
  BY <1>5 DEF high, found
<1> QED BY <1>t, <1>2, <1>6, <1>7, <1>8, <1>9, RoundKeeps DEF high

(* The end of a list, for those that ask at an offset. *)
LEMMA OffsetRound ==
  ASSUME PagesConstants, PagesInv, listing = "page", lister \in Offsets, NEW found,
         found = Pages!PageAt(offset), NEW finished \in BOOLEAN,
         Pages!Round(found, offset + PageSize, finished),
         UNCHANGED <<lister, atPlatform, throughout, shifts>>,
         finished => \A d \in atPlatform : Place(atPlatform, d) <= offset + PageSize
  PROVE  PagesInv'
<1>t. /\ atPlatform \in SUBSET (1..LastListed) /\ throughout \subseteq atPlatform
      /\ cursor \in Nat /\ offset \in Nat /\ shifts \in Nat /\ PageSize \in Nat
      /\ Cardinality(Overlooked) <= shifts
  BY DEF PagesInv, PagesConstants
<1>1. found = {d \in atPlatform : offset < Place(atPlatform, d) /\
                 Place(atPlatform, d) <= offset + PageSize}
  BY SamePagesCardinality DEF Pages!PageAt, Pages!Position, Place
<1> DEFINE rest == throughout \ (listed \cup found)
           over == {d \in rest : Place(atPlatform, d) <= offset + PageSize}
<1>2. over \in SUBSET Overlooked
  <2>1. \A d \in atPlatform : d \in Int
    BY <1>t DEF PagesConstants
  <2>2. \A d \in atPlatform : Place(atPlatform, d) \in Int
    BY <1>t, <2>1, PlaceOrder
  <2>3. ASSUME NEW d \in over PROVE d \in Overlooked
    <3>1. d \in throughout /\ d \notin listed /\ d \notin found /\ d \in atPlatform
      BY <1>t
    <3>2. Place(atPlatform, d) <= offset + PageSize /\ Place(atPlatform, d) \in Int
      BY <2>2, <3>1
    <3> HIDE DEF over
    <3>3. Place(atPlatform, d) <= offset
      BY <1>t, <1>1, <3>1, <3>2
    <3> QED BY <3>1, <3>3 DEF Overlooked
  <2> QED BY <2>3
<1>3. Overlooked \in SUBSET (1..LastListed)
  BY <1>t DEF Overlooked
<1>4. Cardinality(over) <= shifts
  <2> HIDE DEF over
  <2>1. Cardinality(over) \in Nat /\ Cardinality(Overlooked) \in Nat
        /\ Cardinality(over) <= Cardinality(Overlooked)
    BY <1>2, <1>3, Ordinals
  <2> QED BY <1>t, <2>1
<1>5. finished => over = rest
  BY <1>t
<1>6. Pages!Highest(found) \in Nat
  <2>1. CASE found = {}
    BY <1>t, <2>1 DEF Pages!Highest
  <2>2. CASE found # {}
    <3>1. found \in SUBSET (1..LastListed)
      BY <1>t, <1>1
    <3>2. \E c \in found : \A d \in found : d <= c
      BY <2>2, <3>1, Greatest
    <3>3. Pages!Highest(found) \in found
      BY <2>2, <3>2 DEF Pages!Highest
    <3> QED BY <3>1, <3>3 DEF PagesConstants
  <2> QED BY <2>1, <2>2
<1>7. found \in SUBSET atPlatform /\ offset + PageSize \in Nat
  BY <1>t, <1>1
<1>8. lister \notin Cursors
  BY DEF Cursors, Offsets
<1>9. lister = "TIKTOK" => offset + PageSize = PageSize * (pagesAsked + 1)
  BY <1>t DEF PagesInv
<1>10. finished => Cardinality(throughout \ (listed \cup found)) <= shifts
  BY <1>4, <1>5
<1>11. Cardinality({d \in throughout \ (listed \cup found) :
                     Place(atPlatform, d) <= offset + PageSize}) <= shifts
  BY <1>4
<1> HIDE DEF rest, over
<1> QED BY <1>6, <1>7, <1>8, <1>9, <1>10, <1>11, RoundKeeps

(* A page of a platform, whichever it is. *)
LEMMA PageKeeps ==
  ASSUME PagesConstants, PagesInv, Pages!Page
  PROVE  PagesInv'
<1>u. listing = "page" /\ UNCHANGED <<lister, atPlatform, throughout, shifts>>
  BY DEF Pages!Page
<1>t. /\ atPlatform \in SUBSET (1..LastListed) /\ throughout \subseteq atPlatform
      /\ pagesAsked \in Nat /\ cursor \in Nat /\ offset \in Nat /\ shifts \in Nat
      /\ PageSize \in Nat \ {0}
  BY DEF PagesInv, PagesConstants
<1>n. \A d \in atPlatform : d \in Nat /\ Place(atPlatform, d) \in 0..Cardinality(atPlatform)
  <2>1. \A d \in atPlatform : d \in Nat
    BY <1>t DEF PagesConstants
  <2> QED BY <1>t, <2>1, PlaceOrder
<1>s. ASSUME NEW found, found = Pages!PageAt(offset), Pages!ShortPage(found)
      PROVE  \A d \in atPlatform : Place(atPlatform, d) <= offset + PageSize
  <2>1. found = {d \in atPlatform : offset < Place(atPlatform, d) /\
                   Place(atPlatform, d) <= offset + PageSize}
    BY <1>s, SamePagesCardinality DEF Pages!PageAt, Pages!Position, Place
  <2>2. Cardinality(found) < PageSize
    BY <1>s, SamePagesCardinality DEF Pages!ShortPage
  <2>3. found \in SUBSET atPlatform
    BY <2>1
  <2>4. Cardinality(found) \in Nat
    BY <1>t, <2>3, Ordinals
  <2>5. ASSUME NEW d \in atPlatform, Place(atPlatform, d) > offset + PageSize PROVE FALSE
    <3>1. Cardinality(found) >= PageSize
      BY <1>t, <2>1, <2>5, FullPage
    <3> QED BY <1>t, <2>2, <2>4, <3>1
  <2> QED BY <1>t, <1>n, <2>5
<1>1. CASE Pages!MetaPage \/ Pages!SnapchatPage \/ Pages!XPage
  <2>1. lister \in Cursors
    BY <1>1 DEF Pages!MetaPage, Pages!SnapchatPage, Pages!XPage, Cursors
  <2>2. \E next \in BOOLEAN :
          /\ Pages!Remain(Pages!Highest(Pages!PageAfter(cursor))) => next
          /\ Pages!Round(Pages!PageAfter(cursor), offset, ~next)
    <3>1. CASE Pages!XPage
      <4> DEFINE next == Pages!Remain(Pages!Highest(Pages!PageAfter(cursor)))
      <4>1. next \in BOOLEAN
        BY DEF Pages!Remain
      <4>2. Pages!Round(Pages!PageAfter(cursor), offset, ~next)
        BY <3>1 DEF Pages!XPage
      <4> QED BY <4>1, <4>2
    <3> QED BY <1>1, <3>1 DEF Pages!MetaPage, Pages!SnapchatPage
  <2> QED BY <1>u, <2>1, <2>2, CursorRound
<1>2. CASE Pages!LinkedinPage
  <2>1. lister \in Offsets
    BY <1>2 DEF Pages!LinkedinPage, Offsets
  <2>2. PICK found : found = Pages!PageAt(offset)
    OBVIOUS
  <2>3. Pages!ShortPage(found) \in BOOLEAN
    BY DEF Pages!ShortPage
  <2>4. Pages!Round(found, offset + PageSize, Pages!ShortPage(found))
    BY <1>2, <2>2 DEF Pages!LinkedinPage
  <2>5. Pages!ShortPage(found) =>
          \A d \in atPlatform : Place(atPlatform, d) <= offset + PageSize
    BY <1>s, <2>2
  <2> QED BY <1>u, <2>1, <2>2, <2>3, <2>4, <2>5, OffsetRound
<1>3. CASE Pages!TiktokPage
  <2>1. lister \in Offsets /\ lister = "TIKTOK"
    BY <1>3 DEF Pages!TiktokPage, Offsets
  <2>2. offset = PageSize * pagesAsked /\ offset + PageSize = PageSize * (pagesAsked + 1)
    BY <1>u, <1>t, <2>1 DEF PagesInv
  <2>3. PICK found : found = Pages!PageAt(offset)
    OBVIOUS
  <2>4. Pages!LastPage(found) \in BOOLEAN
    <3>1. (pagesAsked + 1 >= Pages!TotalPages) \in BOOLEAN /\ Pages!ShortPage(found) \in BOOLEAN
      BY DEF Pages!ShortPage
    <3> QED BY <3>1 DEF Pages!LastPage
  <2>5. Pages!Round(found, offset + PageSize, Pages!LastPage(found))
    BY <1>3, <2>2, <2>3 DEF Pages!TiktokPage
  <2>6. ASSUME pagesAsked + 1 >= Pages!TotalPages
        PROVE  \A d \in atPlatform : Place(atPlatform, d) <= offset + PageSize
    <3> DEFINE n == Cardinality(atPlatform)
               pages == (n + PageSize - 1) \div PageSize
    <3>1. n \in Nat
      BY <1>t, Ordinals
    <3>2. pages <= pagesAsked + 1
      BY <2>6, SamePagesCardinality DEF Pages!TotalPages
    <3> HIDE DEF n
    <3>3. pages \in Int /\ n <= PageSize * pages
      BY <1>t, <3>1
    <3> HIDE DEF pages
    <3>4. PageSize * pages <= PageSize * (pagesAsked + 1)
      BY <1>t, <3>2, <3>3
    <3>5. n <= offset + PageSize
      BY <1>t, <2>2, <3>1, <3>3, <3>4
    <3>6. ASSUME NEW d \in atPlatform PROVE Place(atPlatform, d) \in 0..n
      BY <1>n DEF n
    <3> QED BY <1>t, <3>1, <3>5, <3>6
  <2>7. Pages!LastPage(found) =>
          \A d \in atPlatform : Place(atPlatform, d) <= offset + PageSize
    BY <1>s, <2>3, <2>6 DEF Pages!LastPage
  <2> QED BY <1>u, <2>1, <2>3, <2>4, <2>5, <2>7, OffsetRound
<1>4. CASE Pages!GoogleStream
  <2>1. lister \notin Cursors /\ lister \notin Offsets /\ lister # "TIKTOK"
    BY <1>4 DEF Pages!GoogleStream, Cursors, Offsets
  <2>2. Pages!Round(atPlatform, offset, TRUE)
    BY <1>4 DEF Pages!GoogleStream
  <2>3. Pages!Highest(atPlatform) \in Nat
    <3>1. CASE atPlatform = {}
      BY <1>t, <3>1 DEF Pages!Highest
    <3>2. CASE atPlatform # {}
      <4>1. \E c \in atPlatform : \A d \in atPlatform : d <= c
        BY <1>t, <3>2, Greatest
      <4>2. Pages!Highest(atPlatform) \in atPlatform
        BY <3>2, <4>1 DEF Pages!Highest
      <4> QED BY <1>n, <4>2
    <3> QED BY <3>1, <3>2
  <2>4. throughout \ (listed \cup atPlatform) = {}
    BY <1>t
  <2>5. Cardinality(throughout \ (listed \cup atPlatform)) <= shifts
    BY <1>t, <2>4, FS_EmptySet
  <2> QED BY <1>u, <1>t, <2>1, <2>2, <2>3, <2>5, RoundKeeps
<1> QED BY <1>1, <1>2, <1>3, <1>4 DEF Pages!Page

(* A campaign that comes in raises places, and was not there all the time. *)
LEMMA AddKeeps ==
  ASSUME PagesConstants, PagesInv, NEW x \in 1..LastListed, Pages!Add(x)
  PROVE  PagesInv'
<1>1. /\ listing = "page" /\ atPlatform' = atPlatform \cup {x}
      /\ UNCHANGED <<lister, listing, pagesAsked, cursor, offset, listed, throughout, shifts>>
  BY DEF Pages!Add, Pages!Change
<1>t. /\ atPlatform \in SUBSET (1..LastListed) /\ throughout \subseteq atPlatform
      /\ offset \in Nat /\ shifts \in Nat
  BY DEF PagesInv
<1>2. Overlooked' \in SUBSET Overlooked
  <2>1. ASSUME NEW d \in throughout, Place(atPlatform \cup {x}, d) <= offset
        PROVE  Place(atPlatform, d) <= offset
    <3>1. d \in Int /\ atPlatform \cup {x} \in SUBSET (1..LastListed)
      BY <1>t DEF PagesConstants
    <3>2. /\ Place(atPlatform, d) <= Place(atPlatform \cup {x}, d)
          /\ Place(atPlatform, d) \in 0..Cardinality(atPlatform)
          /\ Place(atPlatform \cup {x}, d) \in 0..Cardinality(atPlatform \cup {x})
      BY <1>t, <3>1, PlaceAdded, PlaceOrder
    <3> QED BY <1>t, <2>1, <3>2
  <2>2. Overlooked' = {d \in throughout \ listed : Place(atPlatform \cup {x}, d) <= offset}
    BY <1>1 DEF Overlooked, Place
  <2> QED BY <2>1, <2>2 DEF Overlooked
<1>3. Cardinality(Overlooked') <= Cardinality(Overlooked) /\ Cardinality(Overlooked') \in Nat
      /\ Cardinality(Overlooked) \in Nat
  <2>1. Overlooked \in SUBSET (1..LastListed)
    BY <1>t DEF Overlooked
  <2> QED BY <1>2, <2>1, Ordinals
<1>4. lister \in Offsets => Cardinality(Overlooked') <= shifts
  BY <1>1, <1>3, <1>t DEF PagesInv
<1>5. Pages!ListingIsComplete'
  BY <1>1 DEF Pages!ListingIsComplete
<1> QED BY <1>1, <1>4, <1>5 DEF PagesInv

(* One that goes from what was passed over moves one of those that follow. *)
LEMMA RemoveKeeps ==
  ASSUME PagesConstants, PagesInv, NEW x \in 1..LastListed, Pages!Remove(x)
  PROVE  PagesInv'
<1>1. /\ listing = "page" /\ x \in atPlatform
      /\ atPlatform' = atPlatform \ {x} /\ throughout' = throughout \ {x}
      /\ shifts' = IF Place(atPlatform, x) <= offset THEN shifts + 1 ELSE shifts
      /\ UNCHANGED <<lister, listing, pagesAsked, cursor, offset, listed>>
  BY SamePagesCardinality DEF Pages!Remove, Pages!Change, Pages!Position, Place
<1>t. /\ atPlatform \in SUBSET (1..LastListed) /\ throughout \subseteq atPlatform
      /\ offset \in Nat /\ shifts \in Nat
  BY DEF PagesInv
<1>n. \A d \in atPlatform : d \in Int /\ Place(atPlatform, d) \in Nat
  <2>1. \A d \in atPlatform : d \in Int
    BY <1>t DEF PagesConstants
  <2> QED BY <1>t, <2>1, PlaceType
<1>2. Overlooked' = {d \in (throughout \ {x}) \ listed : Place(atPlatform \ {x}, d) <= offset}
  BY <1>1 DEF Overlooked, Place
<1>3. \A d \in atPlatform :
        Place(atPlatform \ {x}, d) = IF x <= d THEN Place(atPlatform, d) - 1 ELSE Place(atPlatform, d)
  BY <1>1, <1>t, <1>n, PlaceRemoved
<1>o. Overlooked \in SUBSET (1..LastListed)
  BY <1>t DEF Overlooked
<1>c. IsFiniteSet(Overlooked) /\ Cardinality(Overlooked) \in Nat
  BY <1>o, Ordinals
<1>4. CASE Place(atPlatform, x) > offset
  <2>1. ASSUME NEW d \in Overlooked' PROVE d \in Overlooked
    <3>1. d \in throughout \ listed /\ d \in atPlatform /\ Place(atPlatform \ {x}, d) <= offset
      BY <1>2, <1>t
    <3>2. CASE x <= d
      <4>1. x # d
        BY <1>2
      <4>2. Place(atPlatform, x) < Place(atPlatform, d)
        BY <1>1, <1>t, <1>n, <3>1, <3>2, <4>1, PlaceOrder
      <4>3. Place(atPlatform, d) - 1 <= offset
        BY <1>3, <3>1, <3>2
      <4> QED BY <1>1, <1>4, <1>n, <1>t, <3>1, <4>2, <4>3
    <3>3. CASE ~(x <= d)
      BY <1>3, <3>1, <3>3 DEF Overlooked
    <3> QED BY <3>2, <3>3
  <2>2. Overlooked' \in SUBSET Overlooked
    BY <2>1
  <2>3. Cardinality(Overlooked') <= Cardinality(Overlooked) /\ Cardinality(Overlooked') \in Nat
    BY <1>o, <2>2, Ordinals
  <2>4. shifts' = shifts
    BY <1>1, <1>4, <1>n, <1>t
  <2>5. lister \in Offsets => Cardinality(Overlooked') <= shifts'
    BY <1>1, <1>c, <1>t, <2>3, <2>4 DEF PagesInv
  <2>6. Pages!ListingIsComplete'
    BY <1>1 DEF Pages!ListingIsComplete
  <2> QED BY <1>1, <1>t, <2>4, <2>5, <2>6 DEF PagesInv
<1>5. CASE Place(atPlatform, x) <= offset
  <2> DEFINE Slides == {d \in atPlatform : Place(atPlatform, d) = offset + 1}
  <2>1. \E y : Slides \subseteq {y}
    <3>1. ASSUME NEW d \in Slides, NEW e \in Slides, d # e PROVE FALSE
      <4>1. d < e \/ e < d
        BY <1>n, <3>1
      <4>2. \A a, b \in atPlatform : a < b => Place(atPlatform, a) < Place(atPlatform, b)
        BY <1>n, <1>t, PlaceOrder
      <4>3. d \in atPlatform /\ e \in atPlatform
        OBVIOUS
      <4>4. Place(atPlatform, d) < Place(atPlatform, e) \/ Place(atPlatform, e) < Place(atPlatform, d)
        BY <4>1, <4>2, <4>3
      <4> QED BY <1>t, <4>4
    <3> QED BY <3>1
  <2>2. PICK y : Slides \subseteq {y}
    BY <2>1
  <2>3. ASSUME NEW d \in Overlooked' PROVE d \in Overlooked \cup {y}
    <3>1. d \in throughout \ listed /\ d \in atPlatform /\ Place(atPlatform \ {x}, d) <= offset
      BY <1>2, <1>t
    <3>2. Place(atPlatform, d) <= offset + 1 /\ Place(atPlatform, d) \in Nat
      BY <1>3, <1>n, <1>t, <3>1
    <3>3. Place(atPlatform, d) <= offset \/ Place(atPlatform, d) = offset + 1
      BY <1>t, <3>2
    <3> QED BY <2>2, <3>1, <3>3 DEF Overlooked
  <2>4. /\ IsFiniteSet(Overlooked \cup {y})
        /\ Cardinality(Overlooked \cup {y}) \in Nat
        /\ Cardinality(Overlooked \cup {y}) <= Cardinality(Overlooked) + 1
    <3>1. Cardinality(Overlooked \cup {y})
            = IF y \in Overlooked THEN Cardinality(Overlooked) ELSE Cardinality(Overlooked) + 1
      BY <1>c, FS_AddElement
    <3>2. IsFiniteSet(Overlooked \cup {y})
      BY <1>c, FS_AddElement
    <3> QED BY <1>c, <3>1, <3>2
  <2>5. Overlooked' \in SUBSET (Overlooked \cup {y})
    BY <2>3
  <2>6. /\ Cardinality(Overlooked') <= Cardinality(Overlooked \cup {y})
        /\ Cardinality(Overlooked') \in Nat
    BY <2>4, <2>5, FS_Subset, FS_CardinalityType
  <2>7. shifts' = shifts + 1
    BY <1>1, <1>5
  <2>8. lister \in Offsets => Cardinality(Overlooked') <= shifts'
    BY <1>1, <1>c, <1>t, <2>4, <2>6, <2>7 DEF PagesInv
  <2>9. Pages!ListingIsComplete'
    BY <1>1 DEF Pages!ListingIsComplete
  <2> QED BY <1>1, <1>t, <2>7, <2>8, <2>9 DEF PagesInv
<1> QED BY <1>1, <1>4, <1>5, <1>n, <1>t

LEMMA PagesStep ==
  ASSUME PagesConstants PROVE PagesInv /\ [Pages!Next]_Pages!vars => PagesInv'
<1> SUFFICES ASSUME PagesInv, [Pages!Next]_Pages!vars PROVE PagesInv'
  OBVIOUS
<1>1. CASE Pages!Page
  BY <1>1, PageKeeps
<1>2. CASE Pages!Fail
  BY <1>2 DEF Pages!Fail, PagesInv, Overlooked, Place, Pages!ListingIsComplete
<1>3. ASSUME NEW x \in 1..LastListed, Pages!Add(x) \/ Pages!Remove(x) PROVE PagesInv'
  BY <1>3, AddKeeps, RemoveKeeps
<1>4. CASE UNCHANGED Pages!vars
  BY <1>4 DEF Pages!vars, PagesInv, Overlooked, Place, Pages!ListingIsComplete
<1> QED BY <1>1, <1>2, <1>3, <1>4 DEF Pages!Next, Pages!Ids

(* So a listing that ends is complete. *)
LEMMA PagesKeep ==
  ASSUME PagesConstants PROVE Pages!Spec => []Pages!ListingIsComplete
<1>1. Pages!Init => PagesInv
  <2> SUFFICES ASSUME Pages!Init PROVE PagesInv
    OBVIOUS
  <2>1. /\ atPlatform \in SUBSET (1..LastListed) /\ throughout = atPlatform /\ listing = "page"
        /\ pagesAsked = 0 /\ cursor = 0 /\ offset = 0 /\ shifts = 0
    BY DEF Pages!Init, Pages!Ids
  <2>2. \A d \in atPlatform : d \in Nat /\ d > 0 /\ Place(atPlatform, d) >= 1
    <3>1. \A d \in atPlatform : d \in Nat /\ d > 0
      BY <2>1 DEF PagesConstants
    <3> QED BY <2>1, <3>1, PlaceOrder
  <2>3. \A d \in atPlatform : Place(atPlatform, d) \in 0..Cardinality(atPlatform)
    BY <2>1, <2>2, PlaceOrder
  <2>4. Overlooked = {}
    <3>1. ASSUME NEW d \in atPlatform, Place(atPlatform, d) <= 0 PROVE FALSE
      BY <2>2, <2>3, <3>1
    <3> QED BY <2>1, <3>1 DEF Overlooked
  <2>5. Cardinality(Overlooked) <= shifts
    BY <2>1, <2>4, FS_EmptySet
  <2>6. \A d \in throughout : ~(d <= cursor)
    BY <2>1, <2>2
  <2> QED BY <2>1, <2>5, <2>6 DEF PagesInv, PagesConstants, Pages!ListingIsComplete
<1>2. PagesInv => Pages!ListingIsComplete
  BY DEF PagesInv
<1> QED BY <1>1, <1>2, PagesStep, PTL DEF Pages!Spec

-----------------------------------------------------------------------------
(* Calling a platform: what was told is so                                 *)

Known == [known : BOOLEAN, status : {"ACTIVE", "PAUSED"}, budget : Nat]
Told == [status : {"ACTIVE", "PAUSED", None}, budget : Nat \cup {None}]

(* The calls that an adapter makes. *)
Creations == [pc : {"send"}, kind : {"create"}, account : Held \cup {Placeholder},
              status : {"PAUSED"}, budget : Budgets]
Updates == [pc : {"budget", "send"}, kind : {"update"}, account : Held \cup {None},
            budget : Budgets]
Commands == [pc : {"send"}, kind : {"command"}, account : Held \cup {None},
             status : {"ACTIVE", "PAUSED"}]

(* A campaign at a platform has the words and the fields of its adapter,   *)
(* and no budget that was not meant.                                       *)
Words == {Adapters!Command("ACTIVE"), Adapters!Command("PAUSED")}
Campaign(c) ==
  /\ c = [account |-> c.account, status |-> c.status, budget |-> c.budget, meant |-> c.meant]
  /\ c.account \in Held /\ c.status \in Words
  /\ c.budget = Adapters!BudgetRequest(c.meant)
  /\ adapter # "GOOGLE" => c.meant \in Budgets

(* While a call is on its way, what it is about is told by none. *)
Uncertain ==
  /\ calling \in Creations \cup Commands => told.status = None
  /\ calling \in Creations \cup Updates => told.budget = None

CallsType ==
  /\ adapter \in Adapted /\ currency \in {"USD", "JPY"}
  /\ connected \in Held \cup {None}
  /\ platformData \in [Adapters!DataKeys -> Held \cup {None}]
  /\ adapted \in Known /\ (~Adapters!Exists => adapted.budget \in Budgets)
  /\ told \in Told
  /\ calling = Adapters!Idle \/ calling \in Creations \cup Updates \cup Commands
  /\ remote = Adapters!Absent \/ Campaign(remote)

(* What was told is so, and there is a campaign of which it is. *)
TellInv ==
  adapter # "TIKTOK" =>
    /\ told.status # None => Adapters!Exists /\ Adapters!Means(remote.status) = told.status
    /\ told.budget # None /\ adapter # "GOOGLE" => Adapters!Exists /\ remote.meant = told.budget

CallsInv == CallsType /\ Uncertain /\ TellInv /\ Adapters!ImportReadsWhatWasWritten

(* AdapterFactory and ConnectorFactory: each platform has its own words. *)
LEMMA AdapterOf ==
  /\ adapter = "META" =>
       /\ \A s : Adapters!Command(s) = Adapters!MetaCommand(s)
       /\ \A b : Adapters!CreateRequest(b) = Adapters!MetaCreate(b) /\ Adapters!BudgetRequest(b) = Adapters!MetaUpdate(b)
       /\ \A f : Adapters!Imported(f) = Adapters!MetaImported(Adapters!MetaCurrency(f))
  /\ adapter = "GOOGLE" =>
       /\ \A s : Adapters!Command(s) = Adapters!GoogleCommand(s)
       /\ \A b : Adapters!CreateRequest(b) = Adapters!GoogleCreate /\ Adapters!BudgetRequest(b) = None
       /\ \A f : Adapters!Imported(f) = Adapters!GoogleImported
  /\ adapter = "LINKEDIN" =>
       /\ \A s : Adapters!Command(s) = Adapters!LinkedinCommand(s)
       /\ \A b : Adapters!CreateRequest(b) = Adapters!LinkedinCreate(b) /\ Adapters!BudgetRequest(b) = Adapters!LinkedinUpdate(b)
       /\ \A f : Adapters!Imported(f) = Adapters!LinkedinImported
  /\ adapter = "X" =>
       /\ \A s : Adapters!Command(s) = Adapters!XCommand(s)
       /\ \A b : Adapters!CreateRequest(b) = Adapters!XCreate(b) /\ Adapters!BudgetRequest(b) = Adapters!XUpdate(b)
       /\ \A f : Adapters!Imported(f) = Adapters!XImported
  /\ adapter = "SNAPCHAT" =>
       /\ \A s : Adapters!Command(s) = Adapters!SnapchatCommand(s)
       /\ \A b : Adapters!CreateRequest(b) = Adapters!SnapchatCreate(b) /\ Adapters!BudgetRequest(b) = Adapters!SnapchatUpdate(b)
       /\ \A f : Adapters!Imported(f) = Adapters!SnapchatImported
  /\ adapter = "TIKTOK" =>
       /\ \A s : Adapters!Command(s) = Adapters!TiktokCommand(s)
       /\ \A b : Adapters!CreateRequest(b) = Adapters!TiktokCreate(b) /\ Adapters!BudgetRequest(b) = Adapters!TiktokUpdate(b)
       /\ \A f : Adapters!Imported(f) = Adapters!TiktokImported
BY Zenon
DEF Adapters!Command, Adapters!CreateRequest, Adapters!BudgetRequest, Adapters!Imported

LEMMA SameAdapter ==
  ASSUME UNCHANGED adapter
  PROVE  /\ \A s : Adapters!Command(s)' = Adapters!Command(s)
         /\ \A b : Adapters!BudgetRequest(b)' = Adapters!BudgetRequest(b)
         /\ currency' = currency => Adapters!Misread' = Adapters!Misread
BY Zenon DEF Adapters!Command, Adapters!BudgetRequest, Adapters!Misread

(* What the connectors misread. *)
LEMMA MisreadOf ==
  /\ adapter = "META" /\ currency = "JPY" => "budget" \in Adapters!Misread
  /\ adapter \in {"GOOGLE", "LINKEDIN"} => "budget" \in Adapters!Misread
  /\ adapter = "X" => "status" \in Adapters!Misread /\ "budget" \in Adapters!Misread
  /\ adapter = "TIKTOK" => "status" \in Adapters!Misread
BY Zenon DEF Adapters!Misread

(* What a call does at the platform, and what it has told when it returns. *)
LEMMA EffectOf ==
  /\ calling.kind = "create" =>
       Adapters!Effect =
         [account |-> calling.account, status |-> Adapters!CreateRequest(calling.budget).status,
          budget |-> Adapters!CreateRequest(calling.budget).budget, meant |-> Adapters!Tells]
  /\ calling.kind = "update" =>
       Adapters!Effect =
         IF Adapters!BudgetRequest(calling.budget) = None THEN remote
         ELSE [remote EXCEPT !.budget = Adapters!BudgetRequest(calling.budget),
                             !.meant = calling.budget]
  /\ calling.kind = "command" =>
       Adapters!Effect = [remote EXCEPT !.status = Adapters!Command(calling.status)]
BY Zenon DEF Adapters!Effect

LEMMA ReturnedOf ==
  ASSUME Adapters!Returned
  PROVE  /\ adapted' = [adapted EXCEPT !.known = TRUE]
         /\ calling.kind = "create" =>
              told' = [status |-> calling.status, budget |-> Adapters!Tells]
         /\ calling.kind = "update" => told' = [told EXCEPT !.budget = calling.budget]
         /\ calling.kind = "command" => told' = [told EXCEPT !.status = calling.status]
BY Zenon DEF Adapters!Returned

IsField(f, name, amount) ==
  f # None /\ f.name = name /\ f.amount = amount /\ amount \in Nat /\ amount # None

(* Amounts are hundredths of a unit in some fields, and millionths in      *)
(* others; a field is not None, and what was written in millionths, or in  *)
(* hundredths of a currency that has them, comes back.                     *)
LEMMA AmountsBack ==
  ASSUME AdapterConstants, NEW n \in Nat, NEW name \in BudgetNames
  PROVE  /\ IsField(Adapters!Units(name, n), name, n)
         /\ IsField(Adapters!Minor(name, n), name, 100 * n)
         /\ IsField(Adapters!Micros(name, n), name, Adapters!Micros(name, n).amount)
         /\ Adapters!FromMinorUnits(n, "USD") \in Nat
         /\ \A unit : Adapters!FromMinorUnits(100 * n, unit) = IF unit = "JPY" THEN 100 * n ELSE n
         /\ Adapters!FromMicroUnits(Adapters!Micros(name, n).amount) = n
<1>1. None \notin Int /\ \A a \in Int : None # [name |-> name, amount |-> a]
  <2>1. \A a \in Int : [name |-> name, amount |-> a] \in [name : BudgetNames, amount : Int]
    OBVIOUS
  <2> QED BY <2>1 DEF AdapterConstants
<1>2. /\ 100 * n \in Nat /\ 1000000 * n \in Nat /\ n \div 100 \in Nat
      /\ (100 * n) \div 100 = n /\ (1000000 * n) \div 1000000 = n /\ (100 * n) \div 1 = 100 * n
  BY SMT
<1>3. n # None /\ 100 * n # None /\ 1000000 * n # None
  BY <1>1, <1>2, SMT
<1>4. /\ IsField(Adapters!Units(name, n), name, n)
      /\ IsField(Adapters!Minor(name, n), name, 100 * n)
      /\ IsField(Adapters!Micros(name, n), name, 1000000 * n)
  BY <1>1, <1>2, <1>3, SMT
  DEF IsField, Adapters!Units, Adapters!Minor, Adapters!Micros, Adapters!Amount
<1>5. Adapters!FromMinorUnits(n, "USD") \in Nat
  BY <1>2, <1>3, SMT DEF Adapters!FromMinorUnits, Adapters!MinorPerUnit
<1>6. ASSUME NEW unit
      PROVE  Adapters!FromMinorUnits(100 * n, unit) = IF unit = "JPY" THEN 100 * n ELSE n
  BY <1>2, <1>3, SMT DEF Adapters!FromMinorUnits, Adapters!MinorPerUnit
<1>7. Adapters!Micros(name, n).amount = 1000000 * n
  BY <1>4, SMT DEF IsField
<1>8. Adapters!FromMicroUnits(Adapters!Micros(name, n).amount) = n
  BY <1>2, <1>3, <1>7, SMT DEF Adapters!FromMicroUnits
<1> QED BY <1>4, <1>5, <1>6, <1>7, <1>8, SMT

(* Six adapters, each with words of its own for the two statuses. *)
LEMMA WordsMean ==
  ASSUME AdapterConstants, adapter \in Adapted
  PROVE  /\ \A s \in {"ACTIVE", "PAUSED"} :
              Adapters!Command(s) \in Words /\ Adapters!Means(Adapters!Command(s)) = s
         /\ \A b : Adapters!CreateRequest(b).status = Adapters!Command("PAUSED")
<1>1. adapter \in {"META", "GOOGLE", "LINKEDIN", "X", "SNAPCHAT", "TIKTOK"}
  BY DEF AdapterConstants
<1>2. ASSUME NEW s \in {"ACTIVE", "PAUSED"}
      PROVE  Adapters!Means(Adapters!Command(s)) = s
  BY <1>1, AdapterOf DEF Adapters!Means, Adapters!Word, Adapters!MetaCommand,
     Adapters!GoogleCommand, Adapters!LinkedinCommand, Adapters!XCommand,
     Adapters!SnapchatCommand, Adapters!TiktokCommand
<1>3. ASSUME NEW b
      PROVE  Adapters!CreateRequest(b).status = Adapters!Command("PAUSED")
  BY <1>1, AdapterOf DEF Adapters!Word, Adapters!MetaCommand,
     Adapters!GoogleCommand, Adapters!LinkedinCommand, Adapters!XCommand,
     Adapters!SnapchatCommand, Adapters!TiktokCommand, Adapters!MetaCreate,
     Adapters!GoogleCreate, Adapters!LinkedinCreate, Adapters!XCreate,
     Adapters!SnapchatCreate, Adapters!TiktokCreate
<1> QED BY <1>2, <1>3 DEF Words

(* The budget of a creation has the field that an update changes; Google's *)
(* adapter has none in either.                                             *)
LEMMA BudgetFields ==
  ASSUME AdapterConstants, adapter \in Adapted, NEW b \in Budgets
  PROVE  /\ adapter = "GOOGLE" => /\ Adapters!CreateRequest(b).budget = None
                                  /\ \A m : Adapters!BudgetRequest(m) = None
         /\ adapter # "GOOGLE" => /\ Adapters!CreateRequest(b).budget = Adapters!BudgetRequest(b)
                                  /\ Adapters!BudgetRequest(b) # None
<1>1. adapter \in {"META", "GOOGLE", "LINKEDIN", "X", "SNAPCHAT", "TIKTOK"} /\ b \in Nat
  BY DEF AdapterConstants
<1>2. adapter = "GOOGLE" => /\ Adapters!CreateRequest(b).budget = None
                            /\ \A m : Adapters!BudgetRequest(m) = None
  BY AdapterOf DEF Adapters!GoogleCreate
<1>3. adapter # "GOOGLE" => Adapters!CreateRequest(b).budget = Adapters!BudgetRequest(b)
  BY <1>1, AdapterOf DEF Adapters!MetaCreate,
     Adapters!LinkedinCreate, Adapters!XCreate, Adapters!SnapchatCreate, Adapters!TiktokCreate,
     Adapters!MetaUpdate, Adapters!LinkedinUpdate, Adapters!XUpdate, Adapters!SnapchatUpdate,
     Adapters!TiktokUpdate
<1>4. ASSUME NEW name \in BudgetNames
      PROVE  /\ Adapters!Units(name, b) # None /\ Adapters!Minor(name, b) # None
             /\ Adapters!Micros(name, b) # None
  BY <1>1, AmountsBack DEF IsField
<1>5. adapter # "GOOGLE" => Adapters!BudgetRequest(b) # None
  BY <1>1, <1>4, AdapterOf DEF BudgetNames, Adapters!MetaUpdate, Adapters!LinkedinUpdate,
     Adapters!XUpdate, Adapters!SnapchatUpdate, Adapters!TiktokUpdate
<1> QED BY <1>2, <1>3, <1>5

(* A read of a field under another name, or in another unit, is what       *)
(* Misread says; in the currencies that have them, hundredths and          *)
(* millionths come back as they were.                                      *)
LEMMA ReadBack ==
  ASSUME AdapterConstants, CallsType, Adapters!Exists, NEW failed \in BOOLEAN,
         failed => adapter = "META"
  PROVE  LET c == Adapters!Imported(failed) IN
         /\ "status" \notin Adapters!Misread
              => Adapters!MapStatus(c.status) = Adapters!Means(remote.status)
         /\ "budget" \notin Adapters!Misread => Adapters!NormalizeBudget(c.budget) = remote.meant
         /\ Adapters!NormalizeBudget(c.budget) \in Nat
<1> DEFINE c == Adapters!Imported(failed)
           m == remote.meant
           Is(word) == remote.status = [name |-> "status", word |-> word]
<1>1. adapter \in {"META", "GOOGLE", "LINKEDIN", "X", "SNAPCHAT", "TIKTOK"}
  BY DEF AdapterConstants, CallsType
<1>2. remote.status \in Words /\ remote.budget = Adapters!BudgetRequest(m)
  BY DEF CallsType, Campaign, Adapters!Exists
<1>3. adapter # "GOOGLE" => m \in Nat
  BY DEF AdapterConstants, CallsType, Campaign, Adapters!Exists
<1>4. ASSUME NEW word \in {"ACTIVE", "PAUSED", "ENABLED"}, Is(word)
      PROVE  /\ Adapters!ReadWord("status") = word
             /\ Adapters!MapStatus(word) = Adapters!Means(remote.status)
  BY <1>4 DEF Adapters!ReadWord, Adapters!MapStatus, Adapters!Means
<1>5. Adapters!NormalizeBudget(None) = 0 /\ \A n \in Nat : Adapters!NormalizeBudget(n) = n
  <2>1. None \notin Nat
    BY DEF AdapterConstants
  <2> QED BY <2>1 DEF Adapters!NormalizeBudget
<1>m. CASE adapter = "META"
  <2> DEFINE f == Adapters!Minor("daily_budget", m)
  <2>0. /\ IsField(f, "daily_budget", 100 * m)
        /\ \A unit : Adapters!FromMinorUnits(100 * m, unit) = IF unit = "JPY" THEN 100 * m ELSE m
    BY <1>m, <1>3, AmountsBack DEF BudgetNames
  <2>1. remote.budget = f
    BY <1>m, <1>2, AdapterOf DEF Adapters!MetaUpdate
  <2>2. Is("ACTIVE") \/ Is("PAUSED")
    BY <1>m, <1>2, AdapterOf DEF Words, Adapters!MetaCommand, Adapters!Word
  <2>3. c = Adapters!MetaImported(Adapters!MetaCurrency(failed))
    BY <1>m, AdapterOf
  <2>4. Adapters!MapStatus(c.status) = Adapters!Means(remote.status)
    BY <1>4, <2>2, <2>3 DEF Adapters!MetaImported
  <2>5. Adapters!ReadAmount("daily_budget") = 100 * m /\ 100 * m \in Nat
    BY <2>0, <2>1 DEF IsField, Adapters!ReadAmount
  <2>6. c.budget = IF Adapters!MetaCurrency(failed) = "JPY" THEN 100 * m ELSE m
    BY <2>0, <2>3, <2>5 DEF Adapters!MetaImported
  <2>7. Adapters!MetaCurrency(failed) = "JPY" => currency = "JPY"
    BY DEF Adapters!MetaCurrency
  <2> QED BY <1>3, <1>5, <1>m, <2>4, <2>5, <2>6, <2>7, MisreadOf
<1>g. CASE adapter = "GOOGLE"
  <2>1. remote.budget = None
    BY <1>g, <1>2, AdapterOf
  <2>2. Is("ENABLED") \/ Is("PAUSED")
    BY <1>g, <1>2, AdapterOf DEF Words, Adapters!GoogleCommand, Adapters!Word
  <2>3. c = Adapters!GoogleImported
    BY <1>g, AdapterOf
  <2>4. Adapters!MapStatus(c.status) = Adapters!Means(remote.status) /\ c.budget = None
    BY <1>4, <2>1, <2>2, <2>3
    DEF Adapters!GoogleImported, Adapters!ReadAmount, Adapters!FromMicroUnits
  <2> QED BY <1>5, <1>g, <2>4, MisreadOf
<1>l. CASE adapter = "LINKEDIN"
  <2> DEFINE f == Adapters!Units("dailyBudget", m)
  <2>0. IsField(f, "dailyBudget", m) /\ Adapters!FromMinorUnits(m, "USD") \in Nat
    BY <1>l, <1>3, AmountsBack DEF BudgetNames
  <2>1. remote.budget = f
    BY <1>l, <1>2, AdapterOf DEF Adapters!LinkedinUpdate
  <2>2. Is("ACTIVE") \/ Is("PAUSED")
    BY <1>l, <1>2, AdapterOf DEF Words, Adapters!LinkedinCommand, Adapters!Word
  <2>3. c = Adapters!LinkedinImported
    BY <1>l, AdapterOf
  <2>4. Adapters!ReadAmount("dailyBudget") = m
    BY <2>0, <2>1 DEF IsField, Adapters!ReadAmount
  <2>5. Adapters!MapStatus(c.status) = Adapters!Means(remote.status) /\ c.budget \in Nat
    BY <1>4, <2>0, <2>2, <2>3, <2>4 DEF Adapters!LinkedinImported
  <2> QED BY <1>5, <1>l, <2>5, MisreadOf
<1>x. CASE adapter = "X"
  <2> DEFINE f == Adapters!Micros("daily_budget_amount_local_micro", m)
  <2>1. remote.budget = f /\ f.name = "daily_budget_amount_local_micro"
    <3>1. IsField(f, "daily_budget_amount_local_micro", f.amount)
      BY <1>x, <1>3, AmountsBack DEF BudgetNames
    <3>2. remote.budget = f
      BY <1>x, <1>2, AdapterOf DEF Adapters!XUpdate
    <3> QED BY <3>1, <3>2 DEF IsField
  <2>2. c = Adapters!XImported
    BY <1>x, AdapterOf
  <2>3. Adapters!ReadAmount("daily_funding_amount_in_micro_currency") = None
    BY <2>1 DEF Adapters!ReadAmount
  <2>4. c.budget = None
    BY <2>2, <2>3 DEF Adapters!XImported, Adapters!FromMicroUnits
  <2> QED BY <1>5, <1>x, <2>4, MisreadOf
<1>s. CASE adapter = "SNAPCHAT"
  <2> DEFINE f == Adapters!Micros("daily_budget_micro", m)
  <2>0. IsField(f, "daily_budget_micro", f.amount) /\ Adapters!FromMicroUnits(f.amount) = m
    BY <1>s, <1>3, AmountsBack DEF BudgetNames
  <2>1. remote.budget = f
    BY <1>s, <1>2, AdapterOf DEF Adapters!SnapchatUpdate
  <2>2. Is("ACTIVE") \/ Is("PAUSED")
    BY <1>s, <1>2, AdapterOf DEF Words, Adapters!SnapchatCommand, Adapters!Word
  <2>3. c = Adapters!SnapchatImported
    BY <1>s, AdapterOf
  <2>4. Adapters!ReadAmount("daily_budget_micro") = f.amount
    BY <2>0, <2>1 DEF IsField, Adapters!ReadAmount
  <2>5. Adapters!MapStatus(c.status) = Adapters!Means(remote.status) /\ c.budget = m
    BY <1>4, <2>0, <2>2, <2>3, <2>4 DEF Adapters!SnapchatImported
  <2> QED BY <1>3, <1>5, <1>s, <2>5
<1>t. CASE adapter = "TIKTOK"
  <2>0. IsField(Adapters!Units("budget", m), "budget", m)
    BY <1>t, <1>3, AmountsBack DEF BudgetNames
  <2>1. remote.budget = Adapters!Units("budget", m)
    BY <1>t, <1>2, AdapterOf DEF Adapters!TiktokUpdate
  <2>2. c = Adapters!TiktokImported
    BY <1>t, AdapterOf
  <2>3. c.budget = m
    BY <2>0, <2>1, <2>2 DEF IsField, Adapters!TiktokImported, Adapters!ReadAmount
  <2> QED BY <1>3, <1>5, <1>t, <2>3, MisreadOf
<1> QED BY <1>1, <1>m, <1>g, <1>l, <1>x, <1>s, <1>t

(* Steps that leave the campaign at the platform, and what was told, alone. *)
LEMMA CallsQuiet ==
  ASSUME UNCHANGED <<adapter, remote, told>>, TellInv
  PROVE  TellInv'
BY DEF TellInv, Adapters!Exists, Adapters!Absent, Adapters!Means

(* The platform: what it is told has the words and fields of the adapter. *)
LEMMA EffectTells ==
  ASSUME AdapterConstants, CallsType, calling # Adapters!Idle, Adapters!Obeys,
         remote' = Adapters!Effect, UNCHANGED adapter
  PROVE  /\ Campaign(remote') /\ Adapters!Exists'
         /\ calling \in Creations \cup Commands =>
              Adapters!Means(remote'.status) = calling.status
         /\ calling \in Updates => remote'.status = remote.status /\ Adapters!Exists
         /\ calling \in Creations => remote'.meant = Adapters!Tells
         /\ calling \in Updates /\ adapter # "GOOGLE" => remote'.meant = calling.budget
         /\ calling \in Commands => remote'.meant = remote.meant /\ Adapters!Exists
<1>1. calling \in Creations \cup Updates \cup Commands /\ None \notin Held
  BY DEF CallsType, AdapterConstants
<1>2. /\ \A s \in {"ACTIVE", "PAUSED"} :
           Adapters!Command(s) \in Words /\ Adapters!Means(Adapters!Command(s)) = s
      /\ \A b : Adapters!CreateRequest(b).status = Adapters!Command("PAUSED")
  BY WordsMean DEF CallsType
<1>e. Words' = Words /\ \A b : Adapters!BudgetRequest(b)' = Adapters!BudgetRequest(b)
  BY SameAdapter DEF Words
<1>f. ASSUME NEW c, Campaign(c), remote' = c
      PROVE  Campaign(remote') /\ Adapters!Exists'
  <2>1. Campaign(remote')
    BY <1>f
  <2>2. remote'.account # None
    BY <1>1, <2>1 DEF Campaign
  <2> QED BY <2>1, <2>2 DEF Adapters!Exists, Adapters!Absent
<1>c. CASE calling \in Creations
  <2>1. /\ calling.kind = "create" /\ calling.account \in Held /\ calling.budget \in Budgets
        /\ calling.status = "PAUSED" /\ calling \notin Updates /\ calling \notin Commands
    BY <1>c DEF Creations, Updates, Commands, Adapters!Obeys
  <2> DEFINE R == Adapters!CreateRequest(calling.budget)
  <2>2. remote' = [account |-> calling.account, status |-> R.status, budget |-> R.budget,
                   meant |-> Adapters!Tells]
    BY <2>1, EffectOf
  <2>3. R.budget = Adapters!BudgetRequest(Adapters!Tells)
        /\ (adapter # "GOOGLE" => Adapters!Tells \in Budgets)
    <3>1. CASE adapter = "GOOGLE"
      BY <3>1, <2>1, BudgetFields DEF CallsType
    <3>2. CASE adapter # "GOOGLE"
      <4>1. R.budget = Adapters!BudgetRequest(calling.budget) /\ R.budget # None
        BY <3>2, <2>1, BudgetFields DEF CallsType
      <4>2. Adapters!Tells = calling.budget
        BY <4>1 DEF Adapters!Tells
      <4> QED BY <2>1, <4>1, <4>2
    <3> QED BY <3>1, <3>2
  <2>4. Campaign(remote')
    BY <2>1, <2>2, <2>3, <1>2 DEF Campaign
  <2>5. Adapters!Means(remote'.status) = calling.status /\ remote'.meant = Adapters!Tells
    BY <2>1, <2>2, <1>2
  <2> QED BY <2>1, <2>4, <2>5, <1>f
<1>u. CASE calling \in Updates
  <2>1. /\ calling.kind = "update" /\ calling.budget \in Budgets
        /\ calling \notin Creations /\ calling \notin Commands
    BY <1>u DEF Creations, Updates, Commands
  <2>2. Adapters!Exists /\ Campaign(remote)
    BY <2>1 DEF Adapters!Obeys, CallsType, Adapters!Exists
  <2> DEFINE R == Adapters!BudgetRequest(calling.budget)
  <2>3. CASE adapter = "GOOGLE"
    <3>1. R = None
      BY <2>3, <2>1, BudgetFields DEF CallsType
    <3>2. remote' = remote
      BY <2>1, <3>1, EffectOf
    <3> QED BY <2>1, <2>2, <2>3, <3>2, <1>f
  <2>4. CASE adapter # "GOOGLE"
    <3>1. R # None
      BY <2>4, <2>1, BudgetFields DEF CallsType
    <3>2. remote' = [remote EXCEPT !.budget = R, !.meant = calling.budget]
      BY <2>1, <3>1, EffectOf
    <3>3. remote' = [account |-> remote.account, status |-> remote.status, budget |-> R,
                     meant |-> calling.budget]
      BY <2>2, <3>2 DEF Campaign
    <3>4. Campaign(remote')
      BY <2>1, <2>2, <3>3 DEF Campaign
    <3> QED BY <2>1, <2>2, <3>3, <3>4, <1>f
  <2> QED BY <2>3, <2>4
<1>m. CASE calling \in Commands
  <2>1. /\ calling.kind = "command" /\ calling.status \in {"ACTIVE", "PAUSED"}
        /\ calling \notin Creations /\ calling \notin Updates
    BY <1>m DEF Creations, Updates, Commands
  <2>2. Adapters!Exists /\ Campaign(remote)
    BY <2>1 DEF Adapters!Obeys, CallsType, Adapters!Exists
  <2>3. remote' = [remote EXCEPT !.status = Adapters!Command(calling.status)]
    BY <2>1, EffectOf
  <2>4. remote' = [account |-> remote.account, status |-> Adapters!Command(calling.status),
                   budget |-> remote.budget, meant |-> remote.meant]
    BY <2>2, <2>3 DEF Campaign
  <2>5. Campaign(remote')
    BY <2>1, <2>2, <2>4, <1>2 DEF Campaign
  <2>6. Adapters!Means(remote'.status) = calling.status
    BY <2>1, <2>4, <1>2
  <2> QED BY <2>1, <2>2, <2>4, <2>5, <2>6, <1>f
<1> QED BY <1>1, <1>c, <1>u, <1>m

(* What an import has read is of the past. *)
LEMMA ReadingKept ==
  ASSUME UNCHANGED <<adapter, currency, imported>>, Adapters!ImportReadsWhatWasWritten
  PROVE  Adapters!ImportReadsWhatWasWritten'
BY SameAdapter DEF Adapters!ImportReadsWhatWasWritten, Adapters!Unread, Adapters!Means

(* A call that is sent is one of the adapter's, and nothing is told of     *)
(* what it is about.                                                       *)
LEMMA Sending ==
  ASSUME AdapterConstants, CallsInv, NEW c \in Creations \cup Updates \cup Commands,
         NEW aspects, Adapters!Send(c, aspects),
         c \in Creations \cup Commands => "status" \in aspects,
         c \in Creations \cup Updates => "budget" \in aspects,
         adapted' \in Known, ~Adapters!Exists => adapted'.budget \in Budgets
  PROVE  CallsInv'
<1> USE DEF CallsInv
<1>1. UNCHANGED <<adapter, currency, connected, platformData, remote, imported>> /\ calling' = c
  BY DEF Adapters!Send, Adapters!setting
<1>2. /\ told' = [status |-> IF "status" \in aspects THEN None ELSE told.status,
                  budget |-> IF "budget" \in aspects THEN None ELSE told.budget]
      /\ told' \in Told
  <2>1. DOMAIN told = {"status", "budget"} /\ told.status \in {"ACTIVE", "PAUSED", None}
        /\ told.budget \in Nat \cup {None}
    BY DEF CallsType, Told
  <2>2. told' = [x \in {"status", "budget"} |-> IF x \in aspects THEN None ELSE told[x]]
    BY <2>1 DEF Adapters!Send
  <2> QED BY <2>1, <2>2 DEF Told
<1>3. CallsType'
  BY <1>1, <1>2, SameAdapter DEF CallsType, Campaign, Words, Adapters!Exists, Adapters!Absent, Adapters!DataKeys
<1>4. Uncertain'
  BY <1>1, <1>2, SameAdapter DEF Uncertain
<1>5. TellInv'
  BY <1>1, <1>2 DEF TellInv, Adapters!Exists, Adapters!Absent, Adapters!Means
<1> QED BY <1>1, <1>3, <1>4, <1>5, ReadingKept

(* The account a request is for is one of the user's, or none. *)
LEMMA GivenAccount ==
  ASSUME CallsType
  PROVE  Adapters!Given \in Held \cup {None}
<1>1. CASE \E k \in Adapters!AccountKeys : platformData[k] # None
  <2>1. (CHOOSE k \in Adapters!AccountKeys : platformData[k] # None) \in Adapters!AccountKeys
    BY <1>1
  <2>2. Adapters!AccountKeys \subseteq Adapters!DataKeys
    BY Zenon DEF Adapters!AccountKeys, Adapters!MetaKeys, Adapters!GoogleKeys, Adapters!XKeys,
       Adapters!SnapchatKeys, Adapters!TiktokKeys, Adapters!DataKeys
  <2> QED BY <1>1, <2>1, <2>2 DEF CallsType, Adapters!Given
<1>2. CASE ~\E k \in Adapters!AccountKeys : platformData[k] # None
  BY <1>2 DEF Adapters!Given
<1> QED BY <1>1, <1>2

LEMMA SendsKeep ==
  ASSUME AdapterConstants, CallsInv,
         \/ Adapters!SendCreate
         \/ \E b \in Budgets : Adapters!SendUpdate(b)
         \/ \E s \in Adapters!Delivered : Adapters!SendCommand(s)
  PROVE  CallsInv'
<1> USE DEF CallsInv
<1>1. Adapters!Given \in Held \cup {None} /\ adapted \in Known
  BY GivenAccount DEF CallsType
<1>c. CASE Adapters!SendCreate
  <2> DEFINE account == IF adapter = "LINKEDIN" THEN Adapters!LinkedinAccount(Adapters!Given)
                        ELSE Adapters!Given
             c == [pc |-> "send", kind |-> "create", account |-> account, status |-> "PAUSED",
                   budget |-> adapted.budget]
  <2>1. /\ ~Adapters!Exists /\ account # None /\ adapted' = adapted
        /\ Adapters!Send(c, {"status", "budget"})
    BY <1>c DEF Adapters!SendCreate
  <2>2. account \in Held \cup {Placeholder} /\ adapted.budget \in Budgets
    BY <1>1, <2>1 DEF Adapters!LinkedinAccount, CallsType
  <2>3. c \in Creations
    BY <2>2 DEF Creations
  <2> HIDE DEF c
  <2> QED BY <1>1, <2>1, <2>2, <2>3, Sending
<1>u. ASSUME NEW b \in Budgets, Adapters!SendUpdate(b)
      PROVE  CallsInv'
  <2> DEFINE c == [pc |-> IF adapter = "GOOGLE" THEN "budget" ELSE "send", kind |-> "update",
                   account |-> Adapters!Given, budget |-> b]
  <2>1. adapted' = [adapted EXCEPT !.budget = b] /\ Adapters!Send(c, {"budget"})
    BY <1>u DEF Adapters!SendUpdate
  <2>2. adapted' \in Known /\ adapted'.budget \in Budgets
    BY <1>1, <2>1 DEF Known, AdapterConstants
  <2>3. c \in Updates /\ c \notin Creations /\ c \notin Commands
    BY <1>1 DEF Creations, Updates, Commands
  <2> HIDE DEF c
  <2> QED BY <2>1, <2>2, <2>3, Sending
<1>m. ASSUME NEW s \in {"ACTIVE", "PAUSED"}, Adapters!SendCommand(s)
      PROVE  CallsInv'
  <2> DEFINE c == [pc |-> "send", kind |-> "command", account |-> connected, status |-> s]
  <2>1. adapted' = adapted /\ Adapters!Send(c, {"status"}) /\ connected \in Held \cup {None}
    BY <1>m DEF Adapters!SendCommand, CallsType
  <2>2. c \in Commands /\ c \notin Creations /\ c \notin Updates
    BY <2>1 DEF Creations, Updates, Commands
  <2>3. ~Adapters!Exists => adapted'.budget \in Budgets
    BY <2>1 DEF CallsType
  <2> HIDE DEF c
  <2> QED BY <1>1, <2>1, <2>2, <2>3, Sending
<1> QED BY <1>c, <1>u, <1>m DEF Adapters!Delivered

(* A call that ends leaves no other on its way. *)
LEMMA EndedCall ==
  /\ Adapters!Idle \notin Creations \cup Updates \cup Commands
  /\ \A c \in Creations \cup Updates \cup Commands : c.pc # "idle" /\ c # Adapters!Idle
  /\ Adapters!Idle.pc = "idle"
BY DEF Adapters!Idle, Creations, Updates, Commands

(* What a call that returned has told is what it was about. *)
LEMMA ReturnedTells ==
  ASSUME AdapterConstants, CallsType, calling # Adapters!Idle, Adapters!Returned
  PROVE  /\ adapted' \in Known /\ adapted'.budget = adapted.budget /\ told' \in Told
         /\ calling \in Creations =>
              told'.status = calling.status /\ told'.budget = Adapters!Tells
         /\ calling \in Updates => told'.status = told.status /\ told'.budget = calling.budget
         /\ calling \in Commands => told'.status = calling.status /\ told'.budget = told.budget
<1>1. /\ calling \in Creations \cup Updates \cup Commands
      /\ adapted \in Known /\ told \in Told /\ Budgets \subseteq Nat
  BY DEF CallsType, AdapterConstants
<1>2. adapted' \in Known /\ adapted'.budget = adapted.budget
  BY <1>1, ReturnedOf DEF Known
<1>c. CASE calling \in Creations
  <2>1. calling.kind = "create" /\ calling.status = "PAUSED" /\ calling.budget \in Nat
        /\ calling \notin Updates /\ calling \notin Commands
    BY <1>1, <1>c DEF Creations, Updates, Commands
  <2>2. told' = [status |-> calling.status, budget |-> Adapters!Tells]
    BY <2>1, ReturnedOf
  <2>3. Adapters!Tells \in Nat \cup {None}
    BY <2>1 DEF Adapters!Tells
  <2> QED BY <1>2, <2>1, <2>2, <2>3 DEF Told
<1>u. CASE calling \in Updates
  <2>1. calling.kind = "update" /\ calling.budget \in Nat
        /\ calling \notin Creations /\ calling \notin Commands
    BY <1>1, <1>u DEF Creations, Updates, Commands
  <2>2. told' = [told EXCEPT !.budget = calling.budget]
    BY <2>1, ReturnedOf
  <2> QED BY <1>1, <1>2, <2>1, <2>2 DEF Told
<1>m. CASE calling \in Commands
  <2>1. calling.kind = "command" /\ calling.status \in {"ACTIVE", "PAUSED"}
        /\ calling \notin Creations /\ calling \notin Updates
    BY <1>1, <1>m DEF Creations, Updates, Commands
  <2>2. told' = [told EXCEPT !.status = calling.status]
    BY <2>1, ReturnedOf
  <2> QED BY <1>1, <1>2, <2>1, <2>2 DEF Told
<1> QED BY <1>1, <1>c, <1>u, <1>m

LEMMA AnsweredKeeps ==
  ASSUME AdapterConstants, CallsInv, Adapters!Answered
  PROVE  CallsInv'
<1> USE DEF CallsInv
<1>1. /\ UNCHANGED <<adapter, currency, connected, platformData, imported>>
      /\ Adapters!Obeys /\ remote' = Adapters!Effect /\ Adapters!Returned
      /\ calling' = Adapters!Idle /\ calling # Adapters!Idle
  BY EndedCall DEF Adapters!Answered, Adapters!setting
<1>2. calling \in Creations \cup Updates \cup Commands
  BY <1>1 DEF CallsType
<1>3. /\ Campaign(remote') /\ Adapters!Exists'
      /\ calling \in Creations \cup Commands =>
           Adapters!Means(remote'.status) = calling.status
      /\ calling \in Updates => remote'.status = remote.status
      /\ calling \in Creations => remote'.meant = Adapters!Tells
      /\ calling \in Updates /\ adapter # "GOOGLE" => remote'.meant = calling.budget
      /\ calling \in Commands => remote'.meant = remote.meant
  BY <1>1, EffectTells
<1>4. /\ adapted' \in Known /\ told' \in Told
      /\ calling \in Creations =>
           told'.status = calling.status /\ told'.budget = Adapters!Tells
      /\ calling \in Updates => told'.status = told.status /\ told'.budget = calling.budget
      /\ calling \in Commands => told'.status = calling.status /\ told'.budget = told.budget
  BY <1>1, ReturnedTells
<1>5. CallsType'
  <2>1. Campaign(remote)'
    BY <1>1, <1>3, SameAdapter DEF Campaign, Words
  <2> QED BY <1>1, <1>3, <1>4, <2>1, SameAdapter DEF CallsType, Adapters!DataKeys, Adapters!Idle
<1>6. Uncertain'
  BY <1>1, EndedCall DEF Uncertain, Adapters!Idle
<1>7. TellInv'
  BY <1>1, <1>2, <1>3, <1>4 DEF TellInv, Adapters!Means
<1> QED BY <1>1, <1>5, <1>6, <1>7, ReadingKept

(* TikTok's refusals alone are taken for answers. *)
LEMMA RefusedKeeps ==
  ASSUME AdapterConstants, CallsInv, Adapters!Refused
  PROVE  CallsInv'
<1> USE DEF CallsInv
<1>1. /\ UNCHANGED <<adapter, currency, connected, platformData, imported, remote>>
      /\ calling' = Adapters!Idle /\ calling # Adapters!Idle
      /\ \/ adapter = "TIKTOK" /\ Adapters!Returned
         \/ UNCHANGED <<adapted, told>>
  BY EndedCall DEF Adapters!Refused, Adapters!setting
<1>2. adapted' \in Known /\ adapted'.budget = adapted.budget /\ told' \in Told
  BY <1>1, ReturnedTells DEF CallsType
<1>3. CallsType'
  BY <1>1, <1>2, SameAdapter DEF CallsType, Campaign, Words, Adapters!Exists, Adapters!Absent, Adapters!Idle, Adapters!DataKeys
<1>4. Uncertain'
  BY <1>1, EndedCall, SameAdapter DEF Uncertain, Adapters!Idle
<1>5. TellInv'
  BY <1>1, CallsQuiet DEF TellInv
<1> QED BY <1>1, <1>3, <1>4, <1>5, ReadingKept

(* A call that nobody waited for is uncertain, whatever it did. *)
LEMMA TimedOutKeeps ==
  ASSUME AdapterConstants, CallsInv, Adapters!TimedOut
  PROVE  CallsInv'
<1> USE DEF CallsInv
<1>1. /\ UNCHANGED <<adapter, currency, connected, platformData, imported, adapted, told>>
      /\ calling' = Adapters!Idle /\ calling # Adapters!Idle
      /\ (Adapters!Obeys /\ remote' = Adapters!Effect) \/ UNCHANGED remote
  BY EndedCall DEF Adapters!TimedOut, Adapters!setting
<1>2. Uncertain'
  BY <1>1, EndedCall DEF Uncertain, Adapters!Idle
<1>3. CASE UNCHANGED remote
  <2>1. CallsType'
    BY <1>1, <1>3, SameAdapter DEF CallsType, Campaign, Words, Adapters!Exists, Adapters!Absent,
       Adapters!Idle, Adapters!DataKeys
  <2> QED BY <1>1, <1>2, <1>3, <2>1, CallsQuiet, ReadingKept
<1>4. CASE Adapters!Obeys /\ remote' = Adapters!Effect
  <2>1. /\ Campaign(remote') /\ Adapters!Exists'
        /\ calling \in Updates => remote'.status = remote.status
        /\ calling \in Commands => remote'.meant = remote.meant
    BY <1>1, <1>4, EffectTells
  <2>2. Campaign(remote)'
    BY <1>1, <2>1, SameAdapter DEF Campaign, Words
  <2>3. CallsType'
    BY <1>1, <2>1, <2>2, SameAdapter DEF CallsType, Adapters!DataKeys, Adapters!Idle
  <2>4. TellInv'
    BY <1>1, <2>1 DEF CallsType, Uncertain, TellInv, Adapters!Means
  <2> QED BY <1>1, <1>2, <2>3, <2>4, ReadingKept
<1> QED BY <1>1, <1>3, <1>4

LEMMA OthersKeep ==
  ASSUME AdapterConstants, CallsInv,
         \/ Adapters!GoogleBudget \/ Adapters!RemoveRow
         \/ \E s \in Adapters!Delivered : Adapters!Console(s)
  PROVE  CallsInv'
<1> USE DEF CallsInv
<1>g. CASE Adapters!GoogleBudget
  <2>1. /\ UNCHANGED <<adapter, currency, connected, platformData, imported, adapted, remote, told>>
        /\ calling.pc = "budget" /\ calling' = [calling EXCEPT !.pc = "send"]
    BY <1>g DEF Adapters!GoogleBudget, Adapters!setting
  <2>2. calling \in Updates /\ calling' \in Updates
        /\ calling' \notin Creations /\ calling' \notin Commands
    BY <2>1 DEF CallsType, Creations, Updates, Commands, Adapters!Idle
  <2>3. CallsType'
    BY <2>1, <2>2, SameAdapter DEF CallsType, Campaign, Words, Adapters!Exists, Adapters!Absent, Adapters!DataKeys
  <2>4. Uncertain'
    BY <2>1, <2>2, SameAdapter DEF Uncertain
  <2> QED BY <2>1, <2>3, <2>4, CallsQuiet, ReadingKept
<1>r. CASE Adapters!RemoveRow
  <2>1. /\ UNCHANGED <<adapter, currency, connected, platformData, imported, calling, remote, told>>
        /\ adapted' = [adapted EXCEPT !.known = FALSE]
    BY <1>r DEF Adapters!RemoveRow, Adapters!setting
  <2>2. adapted' \in Known /\ adapted'.budget = adapted.budget
    BY <2>1 DEF CallsType, Known
  <2>3. CallsType'
    BY <2>1, <2>2, SameAdapter DEF CallsType, Campaign, Words, Adapters!Exists, Adapters!Absent, Adapters!Idle, Adapters!DataKeys
  <2>4. Uncertain'
    BY <2>1, SameAdapter DEF Uncertain
  <2> QED BY <2>1, <2>3, <2>4, CallsQuiet, ReadingKept
<1>c. ASSUME NEW s \in {"ACTIVE", "PAUSED"}, Adapters!Console(s)
      PROVE  CallsInv'
  <2>1. /\ UNCHANGED <<adapter, currency, connected, platformData, imported, calling, adapted>>
        /\ Adapters!Exists /\ remote' = [remote EXCEPT !.status = Adapters!Command(s)]
        /\ told' = [told EXCEPT !.status = None]
    BY <1>c DEF Adapters!Console, Adapters!setting
  <2>2. told \in Told /\ Campaign(remote) /\ None \notin Held
    BY <2>1 DEF CallsType, Adapters!Exists, AdapterConstants
  <2>3. told' \in Told /\ told'.status = None /\ told'.budget = told.budget
    BY <2>1, <2>2 DEF Told
  <2>4. remote' = [account |-> remote.account, status |-> Adapters!Command(s),
                   budget |-> remote.budget, meant |-> remote.meant]
    BY <2>1, <2>2 DEF Campaign
  <2>5. Campaign(remote') /\ remote'.meant = remote.meant
    BY <2>2, <2>4, WordsMean, SameAdapter DEF Campaign, CallsType
  <2>6. Campaign(remote)' /\ Adapters!Exists'
    BY <2>1, <2>2, <2>5, SameAdapter DEF Campaign, Words,
       Adapters!Exists, Adapters!Absent
  <2>7. CallsType'
    BY <2>1, <2>3, <2>6, SameAdapter DEF CallsType, Adapters!DataKeys, Adapters!Idle
  <2>8. Uncertain' /\ TellInv'
    BY <2>1, <2>3, <2>5, <2>6 DEF Uncertain, TellInv
  <2> QED BY <2>1, <2>7, <2>8, ReadingKept
<1> QED BY <1>g, <1>r, <1>c DEF Adapters!Delivered

(* What an import reads is so when it reads it. *)
LEMMA ImportKeeps ==
  ASSUME AdapterConstants, CallsInv, Adapters!Import
  PROVE  CallsInv'
<1> USE DEF CallsInv
<1>1. PICK failed \in BOOLEAN :
        LET c == Adapters!Imported(failed) IN
        /\ failed => adapter = "META"
        /\ adapted' = [known |-> TRUE, status |-> Adapters!MapStatus(c.status),
                       budget |-> IF adapted.known THEN adapted.budget
                                  ELSE Adapters!NormalizeBudget(c.budget)]
        /\ imported' = [status |-> Adapters!MapStatus(c.status),
                        budget |-> Adapters!NormalizeBudget(c.budget),
                        word |-> remote.status, meant |-> remote.meant, failed |-> failed]
  BY DEF Adapters!Import
<1> DEFINE c == Adapters!Imported(failed)
           status == Adapters!MapStatus(c.status)
           budget == Adapters!NormalizeBudget(c.budget)
<1>2. /\ UNCHANGED <<adapter, currency, connected, calling, remote, told>> /\ Adapters!Exists
      /\ platformData' = [k \in Adapters!DataKeys |-> None]
  BY DEF Adapters!Import, Adapters!setting
<1>3. /\ "status" \notin Adapters!Misread => status = Adapters!Means(remote.status)
      /\ "budget" \notin Adapters!Misread => budget = remote.meant
      /\ budget \in Nat /\ status \in {"ACTIVE", "PAUSED"}
  BY <1>1, <1>2, ReadBack DEF Adapters!MapStatus
<1>4. imported'.status = status /\ imported'.budget = budget
      /\ imported'.word = remote.status /\ imported'.meant = remote.meant
  BY <1>1
<1>5. adapted' \in Known
  BY <1>1, <1>3 DEF CallsType, Known
<1> HIDE DEF c, status, budget
<1>6. Adapters!ImportReadsWhatWasWritten'
  BY <1>2, <1>3, <1>4, SameAdapter DEF Adapters!ImportReadsWhatWasWritten, Adapters!Means
<1>7. Adapters!Exists'
  BY <1>2 DEF Adapters!Exists, Adapters!Absent
<1>8. platformData' \in [Adapters!DataKeys -> Held \cup {None}]
  BY <1>2
<1>9. CallsType'
  BY <1>2, <1>5, <1>7, <1>8, SameAdapter DEF CallsType, Campaign, Words, Adapters!Idle, Adapters!Absent, Adapters!DataKeys
<1> QED BY <1>2, <1>6, <1>9, CallsQuiet DEF Uncertain

LEMMA CallsStep ==
  ASSUME AdapterConstants, CallsInv, [Adapters!Next]_Adapters!vars
  PROVE  CallsInv'
<1>1. CASE Adapters!Next
  BY <1>1, SendsKeep, AnsweredKeeps, RefusedKeeps, TimedOutKeeps, OthersKeep, ImportKeeps
  DEF Adapters!Next
<1>2. CASE UNCHANGED Adapters!vars
  BY <1>2, CallsQuiet, ReadingKept, SameAdapter DEF Adapters!vars, CallsInv, CallsType, Uncertain, Campaign,
     Words, Adapters!Exists, Adapters!Absent, Adapters!Idle, Adapters!Command,
     Adapters!BudgetRequest, Adapters!DataKeys
<1> QED BY <1>1, <1>2

(* So what calls that returned have told is so, and imports read it back. *)
LEMMA CallsKeep ==
  ASSUME AdapterConstants
  PROVE  Adapters!Spec => [](/\ Adapters!CallsTakeEffectElsewhere
                             /\ Adapters!ImportReadsWhatWasWritten)
<1>1. Adapters!Init => CallsInv
  <2> SUFFICES ASSUME Adapters!Init PROVE CallsInv
    OBVIOUS
  <2>1. platformData \in [Adapters!DataKeys -> Held \cup {None}]
    BY DEF Adapters!Init
  <2>2. adapted \in Known /\ adapted.budget \in Budgets
    BY DEF Adapters!Init, Known, AdapterConstants
  <2>3. told \in Told /\ told.status = None /\ told.budget = None
    BY DEF Adapters!Init, Told
  <2>4. CallsType
    BY <2>1, <2>2, <2>3 DEF Adapters!Init, CallsType
  <2>5. TellInv /\ Uncertain
    BY <2>3 DEF TellInv, Uncertain
  <2> QED BY <2>4, <2>5 DEF CallsInv, Adapters!Init, Adapters!ImportReadsWhatWasWritten
<1>2. CallsInv /\ [Adapters!Next]_Adapters!vars => CallsInv'
  BY CallsStep
<1>3. CallsInv => Adapters!CallsTakeEffectElsewhere /\ Adapters!ImportReadsWhatWasWritten
  BY DEF CallsInv, TellInv, Adapters!CallsTakeEffectElsewhere
<1> QED BY <1>1, <1>2, <1>3, PTL DEF Adapters!Spec

-----------------------------------------------------------------------------
(* Limiting the calls to a platform                                        *)

(* Calls that nothing overtook and that were let through, and those of     *)
(* them within an interval.                                                *)
Kept == {c \in Calls \ disturbed : phase[c] = "allowed"}
KeptWithin(t) == {c \in Kept : t < at[c] /\ at[c] <= t + Interval}

(* Such a call is in the sorted set as long as it counts, with the time it *)
(* was let through at: so no interval has more of them than the limit, as  *)
(* the set was smaller than that when the last of them was added to it.    *)
LimiterType ==
  /\ Limiter!TypeOK /\ IsFiniteSet(members)
  /\ \A c \in Calls : phase[c] \in {"count", "add"} => mock
  /\ \A c \in Limiter!Busy : 1 <= read[c] /\ read[c] <= now /\ (c \notin disturbed => read[c] = now)
KeptInv ==
  /\ \A c \in Kept : /\ at[c] <= now
                     /\ at[c] + Interval > now => [call |-> c, score |-> at[c]] \in members
  /\ \A c \in Calls \ disturbed : phase[c] = "add" => Cardinality(members) < CallLimit
  /\ \A t \in Nat : Cardinality(KeptWithin(t)) <= CallLimit
LimiterInv == LimiterType /\ KeptInv

LEMMA SameLimiterCardinality ==
  \A S : Limiter!Cardinality(S) = Cardinality(S)
BY DEF Limiter!Cardinality, Cardinality

(* Calls that each have a member of a set are not more than its members.   *)
LEMMA MembersBound ==
  ASSUME NEW S, NEW M, IsFiniteSet(M), NEW score,
         \A c \in S : [call |-> c, score |-> score[c]] \in M
  PROVE  IsFiniteSet(S) /\ Cardinality(S) <= Cardinality(M)
<1> DEFINE f == [c \in S |-> [call |-> c, score |-> score[c]]]
<1>1. f \in Injection(S, M)
  BY DEF Injection, IsInjective
<1> QED BY <1>1, FS_Injection

(* The steps keep the types. *)
LEMMA LimiterTypeStep ==
  ASSUME LimiterConstants PROVE LimiterType /\ [Limiter!Next]_Limiter!vars => LimiterType'
<1> SUFFICES ASSUME LimiterType, [Limiter!Next]_Limiter!vars PROVE LimiterType'
  OBVIOUS
<1> USE DEF Limiter!TypeOK, Limiter!Busy
<1>t. now \in 1..MaxTime /\ MaxTime \in Nat
  BY DEF LimiterType, LimiterConstants
<1>w. ASSUME NEW c \in Calls
      PROVE  /\ Limiter!InWindow(c) \subseteq members
             /\ IsFiniteSet(Limiter!InWindow(c))
             /\ \A m : IsFiniteSet(members \cup {m}) /\ IsFiniteSet(Limiter!InWindow(c) \cup {m})
  <2>1. Limiter!InWindow(c) \subseteq members
    BY DEF Limiter!InWindow
  <2>2. IsFiniteSet(Limiter!InWindow(c))
    BY <2>1, FS_Subset DEF LimiterType
  <2> QED BY <2>1, <2>2, FS_AddElement DEF LimiterType
<1>r. /\ members \subseteq [call : Calls, score : 1..MaxTime]
      /\ \A c \in Calls, n \in 1..MaxTime : [call |-> c, score |-> n] \in [call : Calls, score : 1..MaxTime]
  BY DEF LimiterType
<1>1. CASE UNCHANGED Limiter!vars
  BY <1>1 DEF Limiter!vars, LimiterType
<1>2. CASE Limiter!Tick
  BY <1>2, <1>t DEF Limiter!Tick, LimiterType
<1>3. ASSUME NEW c \in Calls, Limiter!CheckRateLimit(c) PROVE LimiterType'
  BY <1>3, <1>t DEF Limiter!CheckRateLimit, LimiterType
<1>4. ASSUME NEW c \in Calls, Limiter!Script(c) PROVE LimiterType'
  <2>1. PICK set \in {Limiter!InWindow(c), Limiter!InWindow(c) \cup {[call |-> c, score |-> read[c]]}} :
          members' = set
    BY <1>4 DEF Limiter!Script
  <2>2. read[c] \in 1..MaxTime
    BY <1>4, <1>t DEF Limiter!Script, LimiterType
  <2>3. members' \subseteq [call : Calls, score : 1..MaxTime] /\ IsFiniteSet(members')
    BY <1>r, <1>w, <2>1, <2>2
  <2>4. /\ phase' \in [Calls -> {"new", "script", "count", "add", "allowed", "denied"}]
        /\ at' \in [Calls -> 0..MaxTime]
        /\ \A d \in Calls : phase'[d] = phase[d] \/ phase'[d] \in {"allowed", "denied"}
    BY <1>4, <1>t DEF Limiter!Script, Limiter!Let, Limiter!Deny, LimiterType
  <2> QED BY <1>4, <2>3, <2>4 DEF Limiter!Script, LimiterType
<1>5. ASSUME NEW c \in Calls, Limiter!MockRemove(c) PROVE LimiterType'
  BY <1>5, <1>t, <1>w DEF Limiter!MockRemove, LimiterType
<1>6. ASSUME NEW c \in Calls, Limiter!MockCount(c) PROVE LimiterType'
  BY <1>6, <1>t DEF Limiter!MockCount, Limiter!Deny, LimiterType
<1>7. ASSUME NEW c \in Calls, Limiter!MockAdd(c) PROVE LimiterType'
  <2>1. read[c] \in 1..MaxTime
    BY <1>7, <1>t DEF Limiter!MockAdd, LimiterType
  <2>2. members' \subseteq [call : Calls, score : 1..MaxTime] /\ IsFiniteSet(members')
    BY <1>7, <1>r, <1>w, <2>1 DEF Limiter!MockAdd
  <2>3. /\ phase' \in [Calls -> {"new", "script", "count", "add", "allowed", "denied"}]
        /\ at' \in [Calls -> 0..MaxTime] /\ disturbed' \subseteq Calls /\ disturbed \subseteq disturbed'
        /\ \A d \in Calls : phase'[d] = phase[d] \/ phase'[d] = "allowed"
    BY <1>7, <1>t DEF Limiter!MockAdd, Limiter!Let, LimiterType
  <2> QED BY <1>7, <2>2, <2>3 DEF Limiter!MockAdd, LimiterType
<1> QED BY <1>1, <1>2, <1>3, <1>4, <1>5, <1>6, <1>7 DEF Limiter!Next

(* Steps that let no call through, and forget only what is past.           *)
LEMMA KeptQuiet ==
  ASSUME LimiterConstants, LimiterInv, LimiterType', Kept' = Kept, \A c \in Kept : at'[c] = at[c],
         now <= now', now' \in Nat,
         \A m \in members : m.score + Interval > now' => m \in members',
         \A c \in Calls \ disturbed' : phase'[c] = "add" => Cardinality(members') < CallLimit
  PROVE  KeptInv'
<1>t. now \in Nat /\ Interval \in Nat /\ \A c \in Kept : at[c] \in Nat /\ at[c] <= now
  <2>1. now \in 1..MaxTime /\ at \in [Calls -> 0..MaxTime]
    BY DEF LimiterInv, LimiterType, Limiter!TypeOK
  <2>2. \A c \in Kept : c \in Calls /\ at[c] <= now
    BY DEF LimiterInv, KeptInv, Kept
  <2> QED BY <2>1, <2>2 DEF LimiterConstants
<1>1. ASSUME NEW c \in Kept'
      PROVE  /\ at'[c] <= now'
             /\ at'[c] + Interval > now' => [call |-> c, score |-> at'[c]] \in members'
  <2>1. c \in Kept /\ at'[c] = at[c] /\ at[c] <= now'
    BY <1>1, <1>t
  <2>2. ASSUME at[c] + Interval > now'
        PROVE  [call |-> c, score |-> at[c]] \in members'
    <3>1. at[c] + Interval > now
      BY <1>t, <2>1, <2>2
    <3> DEFINE m == [call |-> c, score |-> at[c]]
    <3>2. m \in members
      BY <2>1, <3>1 DEF LimiterInv, KeptInv
    <3>3. m.score + Interval > now'
      BY <2>2
    <3> HIDE DEF m
    <3>4. m \in members'
      BY <3>2, <3>3
    <3> QED BY <3>4 DEF m
  <2> QED BY <2>1, <2>2
<1>2. \A t \in Nat : KeptWithin(t)' = KeptWithin(t)
  BY DEF KeptWithin
<1>3. \A t \in Nat : Cardinality(KeptWithin(t)') <= CallLimit
  BY <1>2 DEF LimiterInv, KeptInv
<1> QED BY <1>1, <1>3 DEF KeptInv

(* A call is let through that nothing overtook: before, there was room for *)
(* it among the calls that count.                                          *)
LEMMA KeptMore ==
  ASSUME LimiterConstants, LimiterInv, LimiterType', NEW c \in Calls \ disturbed,
         Kept' = Kept \cup {c}, at' = [at EXCEPT ![c] = now], now' = now,
         NEW room, room \subseteq members, Cardinality(room) < CallLimit,
         \A m \in members : m.score + Interval > now => m \in room,
         members' = room \cup {[call |-> c, score |-> now]},
         \A d \in Calls \ disturbed' : phase'[d] # "add"
  PROVE  KeptInv'
<1>t. /\ now \in Nat /\ Interval \in Nat /\ CallLimit \in Nat /\ at \in [Calls -> 0..MaxTime]
      /\ \A d \in Kept : d \in Calls /\ at[d] \in Nat /\ at[d] <= now
  <2>1. now \in 1..MaxTime /\ at \in [Calls -> 0..MaxTime]
    BY DEF LimiterInv, LimiterType, Limiter!TypeOK
  <2>2. \A d \in Kept : d \in Calls /\ at[d] <= now
    BY DEF LimiterInv, KeptInv, Kept
  <2> QED BY <2>1, <2>2 DEF LimiterConstants
<1>a. /\ at'[c] = now /\ \A d \in Calls \ {c} : at'[d] = at[d]
  BY <1>t
<1>f. IsFiniteSet(room) /\ Cardinality(room) \in Nat
  BY FS_Subset, FS_CardinalityType DEF LimiterInv, LimiterType
<1>m. ASSUME NEW d \in Kept, at[d] + Interval > now
      PROVE  [call |-> d, score |-> at[d]] \in room
  <2> DEFINE m == [call |-> d, score |-> at[d]]
  <2>1. m \in members /\ m.score + Interval > now
    BY <1>m DEF LimiterInv, KeptInv
  <2> HIDE DEF m
  <2>2. m \in room
    BY <2>1
  <2> QED BY <2>2 DEF m
<1>1. ASSUME NEW d \in Kept'
      PROVE  /\ at'[d] <= now'
             /\ at'[d] + Interval > now' => [call |-> d, score |-> at'[d]] \in members'
  <2>1. CASE d = c
    BY <1>a, <1>t, <2>1
  <2>2. CASE d # c
    <3>1. d \in Kept /\ at'[d] = at[d]
      BY <1>1, <1>a, <1>t, <2>2
    <3> QED BY <1>m, <1>t, <3>1
  <2> QED BY <2>1, <2>2
<1>2. ASSUME NEW t \in Nat
      PROVE  Cardinality(KeptWithin(t)') <= CallLimit
  <2>1. KeptWithin(t)' \subseteq KeptWithin(t) \cup {c}
    BY <1>a, <1>t DEF KeptWithin
  <2>2. CASE c \notin KeptWithin(t)'
    <3>1. KeptWithin(t)' \subseteq KeptWithin(t)
      BY <2>1, <2>2
    <3>2. IsFiniteSet(KeptWithin(t))
      BY FS_Subset DEF LimiterConstants, KeptWithin, Kept
    <3>3. Cardinality(KeptWithin(t)') <= Cardinality(KeptWithin(t)) /\ Cardinality(KeptWithin(t)) <= CallLimit
      BY <3>1, <3>2, FS_Subset DEF LimiterInv, KeptInv
    <3>4. Cardinality(KeptWithin(t)') \in Nat /\ Cardinality(KeptWithin(t)) \in Nat
      BY <3>1, <3>2, FS_Subset, FS_CardinalityType
    <3> QED BY <1>t, <3>3, <3>4
  <2>3. CASE c \in KeptWithin(t)'
    <3>1. t < now /\ now <= t + Interval
      BY <1>a, <2>3 DEF KeptWithin
    <3>2. \A d \in KeptWithin(t) : [call |-> d, score |-> at[d]] \in room
      BY <1>m, <1>t, <3>1 DEF KeptWithin
    <3>3. IsFiniteSet(KeptWithin(t)) /\ Cardinality(KeptWithin(t)) <= Cardinality(room)
      BY <1>f, <3>2, MembersBound
    <3>4. /\ Cardinality(KeptWithin(t) \cup {c}) <= Cardinality(KeptWithin(t)) + 1
          /\ IsFiniteSet(KeptWithin(t) \cup {c}) /\ Cardinality(KeptWithin(t)) \in Nat
      <4>1. Cardinality(KeptWithin(t)) \in Nat
        BY <3>3, FS_CardinalityType
      <4>2. /\ IsFiniteSet(KeptWithin(t) \cup {c})
            /\ Cardinality(KeptWithin(t) \cup {c})
                 = IF c \in KeptWithin(t) THEN Cardinality(KeptWithin(t)) ELSE Cardinality(KeptWithin(t)) + 1
        BY <3>3, FS_AddElement
      <4> QED BY <4>1, <4>2
    <3>5. /\ Cardinality(KeptWithin(t)') <= Cardinality(KeptWithin(t) \cup {c})
          /\ Cardinality(KeptWithin(t)') \in Nat /\ Cardinality(KeptWithin(t) \cup {c}) \in Nat
      BY <2>1, <3>4, FS_Subset, FS_CardinalityType
    <3> QED BY <1>f, <1>t, <3>3, <3>4, <3>5
  <2> QED BY <2>2, <2>3
<1> QED BY <1>1, <1>2 DEF KeptInv

(* Every step keeps the limit. *)
LEMMA LimiterStep ==
  ASSUME LimiterConstants PROVE LimiterInv /\ [Limiter!Next]_Limiter!vars => LimiterInv'
<1> SUFFICES ASSUME LimiterInv, [Limiter!Next]_Limiter!vars PROVE KeptInv'
  BY LimiterTypeStep DEF LimiterInv
<1>t. /\ LimiterType /\ LimiterType' /\ Limiter!TypeOK /\ now \in Nat /\ Interval \in Nat
      /\ \A m \in members : m.score \in Nat
  BY LimiterTypeStep DEF LimiterInv, LimiterType, Limiter!TypeOK, LimiterConstants
<1>w. ASSUME NEW c \in Calls, c \in Limiter!Busy
      PROVE  /\ Limiter!InWindow(c) \subseteq members
             /\ \A m \in members : m.score + Interval > now => m \in Limiter!InWindow(c)
  <2>1. read[c] \in Nat /\ read[c] <= now
    BY <1>t, <1>w DEF LimiterType, Limiter!TypeOK
  <2> QED BY <1>t, <2>1 DEF Limiter!InWindow
<1>k. ASSUME \A d \in Calls : phase'[d] = "allowed" <=> phase[d] = "allowed",
             disturbed \subseteq disturbed', disturbed' \subseteq disturbed \cup Limiter!Busy
      PROVE  Kept' = Kept
  BY <1>k DEF Kept, Limiter!Busy
<1>1. CASE UNCHANGED Limiter!vars
  BY <1>1 DEF Limiter!vars, LimiterInv, KeptInv, Kept, KeptWithin
<1>2. CASE Limiter!Tick
  <2>1. Kept' = Kept
    BY <1>2, <1>k DEF Limiter!Tick
  <2>2. \A c \in Calls \ disturbed' : phase'[c] # "add"
    BY <1>2 DEF Limiter!Tick, Limiter!Busy
  <2>3. now' \in Nat /\ now <= now' /\ UNCHANGED <<at, members>>
    BY <1>2, <1>t DEF Limiter!Tick
  <2> QED BY <1>t, <2>1, <2>2, <2>3, KeptQuiet
<1>3. ASSUME NEW c \in Calls, Limiter!CheckRateLimit(c) PROVE KeptInv'
  <2>1. /\ UNCHANGED <<now, members, at, disturbed>> /\ phase[c] = "new"
        /\ phase'[c] = "script" /\ \A d \in Calls \ {c} : phase'[d] = phase[d]
    BY <1>3, <1>t DEF Limiter!CheckRateLimit, Limiter!TypeOK
  <2>2. Kept' = Kept
    BY <1>k, <2>1
  <2>3. \A d \in Calls \ disturbed' : phase'[d] = "add" => Cardinality(members') < CallLimit
    BY <2>1 DEF LimiterInv, KeptInv
  <2> QED BY <1>t, <2>1, <2>2, <2>3, KeptQuiet
<1>4. ASSUME NEW c \in Calls, Limiter!MockRemove(c) PROVE KeptInv'
  <2>1. /\ UNCHANGED <<now, at, disturbed>> /\ phase[c] = "script" /\ members' = Limiter!InWindow(c)
        /\ phase'[c] = "count" /\ \A d \in Calls \ {c} : phase'[d] = phase[d]
    BY <1>4, <1>t DEF Limiter!MockRemove, Limiter!TypeOK
  <2>2. Kept' = Kept
    BY <1>k, <2>1
  <2>3. /\ members' \subseteq members
        /\ \A m \in members : m.score + Interval > now => m \in members'
    BY <1>w, <2>1 DEF Limiter!Busy
  <2>4. /\ Cardinality(members') <= Cardinality(members)
        /\ Cardinality(members') \in Nat /\ Cardinality(members) \in Nat
    BY <1>t, <2>3, FS_Subset, FS_CardinalityType DEF LimiterType
  <2>5. \A d \in Calls \ disturbed' : phase'[d] = "add" => Cardinality(members') < CallLimit
    BY <2>1, <2>4 DEF LimiterInv, KeptInv, LimiterConstants
  <2> QED BY <1>t, <2>1, <2>2, <2>3, <2>5, KeptQuiet
<1>5. ASSUME NEW c \in Calls, Limiter!MockCount(c) PROVE KeptInv'
  <2>1. /\ UNCHANGED <<now, members, at, disturbed>> /\ phase[c] = "count"
        /\ \/ phase'[c] = "denied"
           \/ phase'[c] = "add" /\ ~(Cardinality(members) >= CallLimit)
        /\ \A d \in Calls \ {c} : phase'[d] = phase[d]
    BY <1>5, <1>t, SameLimiterCardinality DEF Limiter!MockCount, Limiter!Deny, Limiter!TypeOK
  <2>2. Kept' = Kept
    BY <1>k, <2>1
  <2>3. Cardinality(members) \in Nat
    BY <1>t, FS_CardinalityType DEF LimiterType
  <2>4. \A d \in Calls \ disturbed' : phase'[d] = "add" => Cardinality(members') < CallLimit
    BY <2>1, <2>3 DEF LimiterInv, KeptInv, LimiterConstants
  <2> QED BY <1>t, <2>1, <2>2, <2>4, KeptQuiet
<1>6. ASSUME NEW c \in Calls, Limiter!Script(c) PROVE KeptInv'
  <2>1. UNCHANGED <<now, disturbed>> /\ phase[c] = "script" /\ ~mock
    BY <1>6 DEF Limiter!Script
  <2>2. \A d \in Calls : d # c => phase'[d] = phase[d]
    BY <1>6, <1>t DEF Limiter!Script, Limiter!Let, Limiter!Deny, Limiter!TypeOK
  <2>3. phase'[c] \in {"allowed", "denied"} /\ \A d \in Calls \ disturbed' : phase'[d] # "add"
    BY <1>6, <1>t, <2>1, <2>2 DEF Limiter!Script, Limiter!Let, Limiter!Deny, Limiter!TypeOK, LimiterType
  <2>4. /\ Limiter!InWindow(c) \subseteq members
        /\ \A m \in members : m.score + Interval > now => m \in Limiter!InWindow(c)
    BY <1>w, <2>1 DEF Limiter!Busy
  <2>5. CASE Limiter!Cardinality(Limiter!InWindow(c)) >= CallLimit
    <3>1. members' = Limiter!InWindow(c) /\ phase' = [phase EXCEPT ![c] = "denied"] /\ UNCHANGED at
      BY <1>6, <2>5 DEF Limiter!Script, Limiter!Deny
    <3>2. Kept' = Kept
      BY <1>k, <1>t, <2>1, <3>1 DEF Limiter!TypeOK
    <3> QED BY <1>t, <2>1, <2>3, <2>4, <3>1, <3>2, KeptQuiet
  <2>6. CASE ~(Limiter!Cardinality(Limiter!InWindow(c)) >= CallLimit)
    <3>1. /\ members' = Limiter!InWindow(c) \cup {[call |-> c, score |-> read[c]]}
          /\ phase' = [phase EXCEPT ![c] = "allowed"] /\ at' = [at EXCEPT ![c] = now]
      BY <1>6, <2>6 DEF Limiter!Script, Limiter!Let
    <3>2. CASE c \in disturbed
      <4>1. Kept' = Kept /\ \A d \in Kept : at'[d] = at[d]
        BY <1>t, <2>1, <3>1, <3>2 DEF Kept, Limiter!TypeOK
      <4> QED BY <1>t, <2>1, <2>3, <2>4, <3>1, <4>1, KeptQuiet
    <3>3. CASE c \notin disturbed
      <4>1. read[c] = now
        BY <1>t, <2>1, <3>3 DEF LimiterType, Limiter!Busy
      <4>2. Kept' = Kept \cup {c}
        BY <1>t, <2>1, <3>1, <3>3 DEF Kept, Limiter!TypeOK
      <4>3. IsFiniteSet(Limiter!InWindow(c)) /\ Cardinality(Limiter!InWindow(c)) \in Nat
        BY <1>t, <2>4, FS_Subset, FS_CardinalityType DEF LimiterType
      <4>4. Cardinality(Limiter!InWindow(c)) < CallLimit
        BY <2>6, <4>3, SameLimiterCardinality DEF LimiterConstants
      <4> QED BY <1>t, <2>1, <2>3, <2>4, <3>1, <3>3, <4>1, <4>2, <4>4, KeptMore
    <3> QED BY <3>2, <3>3
  <2> QED BY <2>5, <2>6
<1>7. ASSUME NEW c \in Calls, Limiter!MockAdd(c) PROVE KeptInv'
  <2>1. /\ now' = now /\ phase[c] = "add" /\ members' = members \cup {[call |-> c, score |-> read[c]]}
        /\ phase' = [phase EXCEPT ![c] = "allowed"] /\ at' = [at EXCEPT ![c] = now]
        /\ disturbed' = disturbed \cup {d \in Calls \ {c} : phase[d] = "add"}
    BY <1>7 DEF Limiter!MockAdd, Limiter!Let
  <2>2. \A d \in Calls \ disturbed' : phase'[d] # "add"
    BY <1>t, <2>1 DEF Limiter!TypeOK
  <2>3. CASE c \in disturbed
    <3>1. Kept' = Kept /\ \A d \in Kept : at'[d] = at[d]
      BY <1>t, <2>1, <2>3 DEF Kept, Limiter!TypeOK
    <3> QED BY <1>t, <2>1, <2>2, <3>1, KeptQuiet
  <2>4. CASE c \notin disturbed
    <3>1. read[c] = now
      BY <1>t, <2>1, <2>4 DEF LimiterType, Limiter!Busy
    <3>2. Kept' = Kept \cup {c}
      BY <1>t, <2>1, <2>4 DEF Kept, Limiter!TypeOK
    <3>3. Cardinality(members) < CallLimit
      BY <2>1, <2>4 DEF LimiterInv, KeptInv
    <3> QED BY <1>t, <2>1, <2>2, <2>4, <3>1, <3>2, <3>3, KeptMore
  <2> QED BY <2>3, <2>4
<1> QED BY <1>1, <1>2, <1>3, <1>4, <1>5, <1>6, <1>7 DEF Limiter!Next

(* So no interval has more calls than it may. *)
LEMMA LimiterKeeps ==
  ASSUME LimiterConstants PROVE Limiter!Spec => []Limiter!LimitHolds
<1>1. Limiter!Init => LimiterInv
  <2> SUFFICES ASSUME Limiter!Init PROVE LimiterInv
    OBVIOUS
  <2>1. LimiterType
    BY FS_EmptySet DEF Limiter!Init, LimiterType, Limiter!TypeOK, Limiter!Busy, LimiterConstants
  <2>2. Kept = {} /\ \A t : KeptWithin(t) = {}
    BY DEF Limiter!Init, Kept, KeptWithin
  <2>3. \A c \in Calls : phase[c] # "add"
    BY DEF Limiter!Init
  <2> QED BY <2>1, <2>2, <2>3, FS_EmptySet DEF LimiterInv, KeptInv, LimiterConstants
<1>2. LimiterInv => Limiter!LimitHolds
  <2> SUFFICES ASSUME LimiterInv, NEW t \in 0..MaxTime
               PROVE  Cardinality({c \in Calls : phase[c] = "allowed" /\ t < at[c] /\ at[c] <= t + Interval})
                        <= CallLimit + Cardinality(disturbed)
    BY SameLimiterCardinality DEF Limiter!LimitHolds
  <2> DEFINE A == {c \in Calls : phase[c] = "allowed" /\ t < at[c] /\ at[c] <= t + Interval}
  <2>1. A \subseteq KeptWithin(t) \cup disturbed
    BY DEF KeptWithin, Kept
  <2>2. IsFiniteSet(KeptWithin(t)) /\ IsFiniteSet(disturbed)
    <3>1. KeptWithin(t) \subseteq Calls /\ disturbed \subseteq Calls
      BY DEF KeptWithin, Kept, LimiterInv, LimiterType, Limiter!TypeOK
    <3> QED BY <3>1, FS_Subset DEF LimiterConstants
  <2> HIDE DEF A
  <2>3. /\ Cardinality(A) <= Cardinality(KeptWithin(t) \cup disturbed)
        /\ Cardinality(A) \in Nat /\ Cardinality(KeptWithin(t) \cup disturbed) \in Nat
    BY <2>1, <2>2, FS_Union, FS_Subset, FS_CardinalityType
  <2>4. /\ Cardinality(KeptWithin(t) \cup disturbed)
             = Cardinality(KeptWithin(t)) + Cardinality(disturbed) - Cardinality(KeptWithin(t) \cap disturbed)
        /\ Cardinality(KeptWithin(t) \cap disturbed) \in Nat
        /\ Cardinality(KeptWithin(t)) \in Nat /\ Cardinality(disturbed) \in Nat
    BY <2>2, FS_Union, FS_Intersection, FS_CardinalityType
  <2>5. t \in Nat /\ Cardinality(KeptWithin(t)) <= CallLimit /\ CallLimit \in Nat
    BY DEF LimiterInv, KeptInv, LimiterConstants
  <2>6. Cardinality(A) <= CallLimit + Cardinality(disturbed)
    BY <2>3, <2>4, <2>5
  <2> QED BY <2>6 DEF A
<1> QED BY <1>1, <1>2, LimiterStep, PTL DEF Limiter!Spec

-----------------------------------------------------------------------------
(* Limiting the requests of a client                                       *)

LEMMA SameThrottleCardinality ==
  \A S : Throttle!Cardinality(S) = Cardinality(S)
BY DEF Throttle!Cardinality, Cardinality

(* The requests let in since time s, and those let in before s in the time *)
(* of a window after t.                                                    *)
Admitted == {r \in Incoming : stage[r] = "allowed"}
Expiring == {r \in Incoming : stage[r] = "expire"}
Since(s) == {r \in Admitted : passed[r] >= s}
Before(s, t) == {r \in Admitted : t < passed[r] /\ passed[r] <= t + Window /\ passed[r] < s}

(* s is when the counter was created last: it has counted what was let in  *)
(* since, it does not expire before a window has gone by, and at most one  *)
(* earlier counter had to do with any window that reaches s.               *)
CountedSince(s) ==
  /\ Cardinality(Since(s)) + Cardinality(Expiring) <= RequestLimit
  /\ Cardinality(Since(s)) + Cardinality(Expiring) <= count
  /\ resetAt # 0 => resetAt >= s + Window /\ \A r \in Admitted : passed[r] < resetAt
  /\ \A t \in Nat : Cardinality(Before(s, t)) <= 2 * RequestLimit
  /\ \A t \in Nat : t + Window >= s => Cardinality(Before(s, t)) <= RequestLimit

(* One request at a time is about to give the counter its expiry, and the  *)
(* counter has one otherwise, unless the command failed.                   *)
ExpiryInv ==
  /\ \A r, q \in Expiring : r = q
  /\ Expiring # {} => count > 0 /\ resetAt = 0
  /\ count > 0 /\ resetAt = 0 => failedExpires > 0 \/ Expiring # {}
  /\ count = 0 => Admitted = {} /\ resetAt = 0

ThrottleInv ==
  /\ Throttle!TypeOK /\ ExpiryInv
  /\ \A r \in Admitted : passed[r] <= clock
  /\ \E s \in 1..clock : CountedSince(s)

(* The sets that are counted are finite. *)
LEMMA CountedFinite ==
  ASSUME ThrottleConstants
  PROVE  /\ \A S \in SUBSET Incoming : IsFiniteSet(S) /\ Cardinality(S) \in Nat
         /\ \A S, T \in SUBSET Incoming : S \subseteq T => Cardinality(S) <= Cardinality(T)
         /\ \A S, T \in SUBSET Incoming : Cardinality(S \cup T) <= Cardinality(S) + Cardinality(T)
<1>1. \A S \in SUBSET Incoming : IsFiniteSet(S) /\ Cardinality(S) \in Nat
  BY FS_Subset, FS_CardinalityType DEF ThrottleConstants
<1>2. ASSUME NEW S \in SUBSET Incoming, NEW T \in SUBSET Incoming, S \subseteq T
      PROVE  Cardinality(S) <= Cardinality(T)
  BY <1>1, <1>2, FS_Subset
<1>3. ASSUME NEW S \in SUBSET Incoming, NEW T \in SUBSET Incoming
      PROVE  Cardinality(S \cup T) <= Cardinality(S) + Cardinality(T)
  <2>1. IsFiniteSet(S) /\ IsFiniteSet(T)
    BY <1>1
  <2>2. Cardinality(S \cup T) = Cardinality(S) + Cardinality(T) - Cardinality(S \cap T)
    BY <2>1, FS_Union
  <2>3. Cardinality(S) \in Nat /\ Cardinality(T) \in Nat /\ Cardinality(S \cap T) \in Nat
    BY <1>1
  <2> QED BY <2>2, <2>3
<1> QED BY <1>1, <1>2, <1>3

(* A step that creates no counter, keeps the time of its creation: it lets *)
(* in at most the request r, now, if its increment is within the limit.    *)
LEMMA CounterKept ==
  ASSUME ThrottleConstants, ThrottleInv, clock' = clock, NEW s \in 1..clock, CountedSince(s),
         NEW r \in Incoming, stage[r] # "allowed",
         stage' = [stage EXCEPT ![r] = stage'[r]], passed' = [passed EXCEPT ![r] = passed'[r]],
         stage'[r] = "allowed" => passed'[r] = clock,
         Cardinality(Since(s)') + Cardinality(Expiring') <= RequestLimit,
         Cardinality(Since(s)') + Cardinality(Expiring') <= count',
         resetAt' # 0 => resetAt' >= s + Window /\ \A q \in Admitted' : passed'[q] < resetAt'
  PROVE  /\ \A q \in Admitted' : passed'[q] <= clock'
         /\ \E x \in 1..clock' : CountedSince(x)'
<1>t. /\ stage \in [Incoming -> {"new", "expire", "allowed", "denied", "failed"}]
      /\ passed \in [Incoming -> 0..MaxTime] /\ clock \in 1..MaxTime
  BY DEF ThrottleInv, Throttle!TypeOK
<1>1. \A q \in Incoming \ {r} : stage'[q] = stage[q] /\ passed'[q] = passed[q]
  BY <1>t
<1>2. \A q \in Admitted' : passed'[q] <= clock'
  BY <1>t, <1>1 DEF Admitted, ThrottleInv
<1>3. \A t \in Nat : Before(s, t)' = Before(s, t)
  BY <1>t, <1>1 DEF Before, Admitted
<1>4. CountedSince(s)'
  BY <1>3 DEF CountedSince
<1> QED BY <1>2, <1>4

(* What one request does to the two counts. *)
LEMMA CountsAfter ==
  ASSUME ThrottleConstants, Throttle!TypeOK, NEW s \in 1..clock, NEW r \in Incoming,
         stage[r] \in {"new", "expire"}, clock' = clock,
         stage' = [stage EXCEPT ![r] = stage'[r]], passed' = [passed EXCEPT ![r] = passed'[r]],
         stage'[r] # "new", stage'[r] = "allowed" => passed'[r] = clock
  PROVE  /\ Cardinality(Since(s)') = Cardinality(Since(s)) + IF stage'[r] = "allowed" THEN 1 ELSE 0
         /\ Expiring' = (Expiring \ {r}) \cup IF stage'[r] = "expire" THEN {r} ELSE {}
<1>t. stage \in [Incoming -> {"new", "expire", "allowed", "denied", "failed"}]
      /\ passed \in [Incoming -> 0..MaxTime] /\ clock \in 1..MaxTime
  BY DEF Throttle!TypeOK
<1>1. \A q \in Incoming \ {r} : stage'[q] = stage[q] /\ passed'[q] = passed[q]
  BY <1>t
<1>2. r \notin Since(s) /\ IsFiniteSet(Since(s)) /\ Cardinality(Since(s)) \in Nat
  <2>1. Since(s) \in SUBSET Incoming
    BY DEF Since, Admitted
  <2> QED BY <2>1, CountedFinite DEF Since, Admitted
<1>3. CASE stage'[r] = "allowed"
  <2>1. Since(s)' = Since(s) \cup {r}
    BY <1>t, <1>1, <1>3 DEF Since, Admitted
  <2>2. Cardinality(Since(s) \cup {r}) = Cardinality(Since(s)) + 1
    BY <1>2, FS_AddElement
  <2>3. Expiring' = Expiring \ {r}
    BY <1>t, <1>1, <1>3 DEF Expiring
  <2> QED BY <1>3, <2>1, <2>2, <2>3
<1>4. CASE stage'[r] # "allowed"
  <2>1. Since(s)' = Since(s)
    BY <1>t, <1>1, <1>4 DEF Since, Admitted
  <2>2. Expiring' = (Expiring \ {r}) \cup IF stage'[r] = "expire" THEN {r} ELSE {}
    BY <1>t, <1>1, <1>4 DEF Expiring
  <2> QED BY <1>2, <1>4, <2>1, <2>2
<1> QED BY <1>3, <1>4

(* A counter is created: the earlier one, if there was one, has expired,   *)
(* and what a window that reaches back over now let in, it counted.        *)
LEMMA CounterCreated ==
  ASSUME ThrottleConstants, ThrottleInv, Throttle!TypeOK', NEW r \in Incoming,
         Throttle!Increment(r), Throttle!Stored = 0
  PROVE  ThrottleInv'
<1>t. /\ stage \in [Incoming -> {"new", "expire", "allowed", "denied", "failed"}]
      /\ passed \in [Incoming -> 0..MaxTime] /\ clock \in 1..MaxTime
      /\ count \in Nat /\ resetAt \in Nat /\ RequestLimit \in Nat \ {0} /\ Window \in Nat \ {0}
  BY DEF ThrottleInv, Throttle!TypeOK, ThrottleConstants
<1>1. /\ stage[r] = "new" /\ stage' = [stage EXCEPT ![r] = "expire"] /\ count' = 1 /\ resetAt' = 0
      /\ UNCHANGED <<clock, passed, failedExpires>>
  <2>1. ~Throttle!Expired => count = 0
    BY DEF Throttle!Stored
  <2>2. ~Throttle!Expired => resetAt = 0
    BY <2>1 DEF ThrottleInv, ExpiryInv
  <2> QED BY <2>2 DEF Throttle!Increment
<1>2. \A q \in Incoming \ {r} : stage'[q] = stage[q]
  BY <1>t, <1>1
<1>3. Expiring = {}
  BY <1>t DEF ThrottleInv, ExpiryInv, Throttle!Stored, Throttle!Expired
<1>4. Expiring' = {r} /\ Admitted' = Admitted
  BY <1>t, <1>1, <1>2, <1>3 DEF Expiring, Admitted
<1>5. PICK s \in 1..clock : CountedSince(s)
  BY DEF ThrottleInv
<1>7. \A q \in Admitted : passed[q] < clock /\ s + Window <= clock
  <2> SUFFICES ASSUME NEW q \in Admitted PROVE passed[q] < clock /\ s + Window <= clock
    OBVIOUS
  <2>1. count # 0
    BY DEF ThrottleInv, ExpiryInv
  <2>2. resetAt # 0 /\ clock >= resetAt
    BY <2>1 DEF Throttle!Stored, Throttle!Expired
  <2>3. passed[q] < resetAt /\ resetAt >= s + Window
    BY <1>5, <2>2 DEF CountedSince
  <2>4. passed[q] \in Nat /\ clock \in Nat /\ s \in Nat
    BY <1>t DEF Admitted, ThrottleConstants
  <2> QED BY <1>t, <2>2, <2>3, <2>4
<1>8. ASSUME NEW t \in Nat
      PROVE  /\ Cardinality(Before(clock, t)) <= 2 * RequestLimit
             /\ t + Window >= clock => Cardinality(Before(clock, t)) <= RequestLimit
  <2> DEFINE Late == {q \in Before(clock, t) : passed[q] >= s}
  <2>s. /\ Before(clock, t) \in SUBSET Incoming /\ Late \in SUBSET Incoming
        /\ Before(s, t) \in SUBSET Incoming /\ Since(s) \in SUBSET Incoming
    BY DEF Before, Since, Admitted
  <2>1. Late \subseteq Since(s)
    BY DEF Before, Since
  <2>2. Before(clock, t) = Before(s, t) \cup Late
    BY <1>t, <1>5 DEF Before, Admitted
  <2>3. t + Window < s => Before(clock, t) = Before(s, t)
    BY <1>t, <1>5 DEF Before, Admitted
  <2>4. t + Window >= clock /\ Admitted # {} => Before(clock, t) = Late
    BY <1>t, <1>5, <1>7 DEF Before, Admitted
  <2> HIDE DEF Late
  <2>5. Cardinality(Late) <= RequestLimit
    <3>1. Cardinality(Late) <= Cardinality(Since(s))
      BY <2>s, <2>1, CountedFinite
    <3>2. Cardinality(Since(s)) \in Nat /\ Cardinality(Late) \in Nat /\ Cardinality(Expiring) \in Nat
      BY <2>s, <1>3, CountedFinite, FS_EmptySet
    <3> QED BY <1>t, <1>5, <3>1, <3>2 DEF CountedSince
  <2>6. /\ Cardinality(Before(clock, t)) <= Cardinality(Before(s, t)) + Cardinality(Late)
        /\ Cardinality(Before(s, t)) \in Nat /\ Cardinality(Late) \in Nat
        /\ Cardinality(Before(clock, t)) \in Nat
    BY <2>s, <2>2, CountedFinite
  <2>7. /\ Cardinality(Before(s, t)) <= 2 * RequestLimit
        /\ t + Window >= s => Cardinality(Before(s, t)) <= RequestLimit
    BY <1>5 DEF CountedSince
  <2>8. Admitted = {} => Before(clock, t) = {}
    BY DEF Before
  <2>9. Cardinality({}) = 0
    BY FS_EmptySet
  <2>10. Cardinality(Before(clock, t)) <= 2 * RequestLimit
    <3>1. CASE t + Window < s
      BY <2>3, <2>7, <3>1
    <3>2. CASE t + Window >= s
      BY <1>t, <2>5, <2>6, <2>7, <3>2
    <3> QED BY <1>t, <3>1, <3>2
  <2>11. t + Window >= clock => Cardinality(Before(clock, t)) <= RequestLimit
    <3>1. CASE Admitted = {}
      BY <1>t, <2>8, <2>9, <3>1
    <3>2. CASE Admitted # {}
      BY <2>4, <2>5, <3>2
    <3> QED BY <3>1, <3>2
  <2> QED BY <2>10, <2>11
<1>9. Since(clock) = {}
  BY <1>t, <1>7 DEF Since, Admitted
<1>10. Cardinality(Since(clock)) = 0 /\ Cardinality({r}) = 1
  BY <1>9, FS_EmptySet, FS_Singleton
<1>11. PICK n \in 1..clock : n = clock
  BY <1>t
<1>12. \A t : Before(n, t)' = Before(clock, t) /\ Since(n)' = Since(clock)
  BY <1>1, <1>4, <1>11 DEF Before, Since
<1>13. CountedSince(n)'
  BY <1>t, <1>1, <1>4, <1>8, <1>10, <1>11, <1>12 DEF CountedSince
<1>14. ExpiryInv'
  BY <1>1, <1>4 DEF ExpiryInv
<1>15. \A q \in Admitted' : passed'[q] <= clock'
  BY <1>1, <1>4 DEF ThrottleInv
<1> QED BY <1>1, <1>11, <1>13, <1>14, <1>15 DEF ThrottleInv

(* A request that finds a counter is counted and answered. *)
LEMMA CounterRaised ==
  ASSUME ThrottleConstants, ThrottleInv, Throttle!TypeOK', NEW r \in Incoming,
         Throttle!Increment(r), Throttle!Stored # 0
  PROVE  ThrottleInv'
<1>t. /\ stage \in [Incoming -> {"new", "expire", "allowed", "denied", "failed"}]
      /\ passed \in [Incoming -> 0..MaxTime] /\ clock \in 1..MaxTime
      /\ count \in Nat /\ resetAt \in Nat /\ RequestLimit \in Nat \ {0} /\ Window \in Nat \ {0}
  BY DEF ThrottleInv, Throttle!TypeOK, ThrottleConstants
<1>1. Throttle!Stored = count /\ ~Throttle!Expired /\ count # 0
  BY DEF Throttle!Stored
<1>2. /\ stage[r] = "new" /\ count' = count + 1 /\ resetAt' = resetAt
      /\ Throttle!Answer(r, count + 1) /\ UNCHANGED <<clock, failedExpires>>
  BY <1>1 DEF Throttle!Increment
<1>3. /\ stage' = [stage EXCEPT ![r] = stage'[r]] /\ passed' = [passed EXCEPT ![r] = passed'[r]]
      /\ stage'[r] \in {"allowed", "denied"}
      /\ stage'[r] = "allowed" => passed'[r] = clock /\ count + 1 <= RequestLimit
  BY <1>t, <1>2 DEF Throttle!Answer, Throttle!Within
<1>4. PICK s \in 1..clock : CountedSince(s)
  BY DEF ThrottleInv
<1>5. /\ Cardinality(Since(s)') = Cardinality(Since(s)) + IF stage'[r] = "allowed" THEN 1 ELSE 0
      /\ Expiring' = Expiring
  <2>1. r \notin Expiring
    BY <1>2 DEF Expiring
  <2> QED BY <1>2, <1>3, <2>1, CountsAfter DEF ThrottleInv
<1>6. Cardinality(Since(s)) \in Nat /\ Cardinality(Expiring) \in Nat
  <2>1. Since(s) \in SUBSET Incoming /\ Expiring \in SUBSET Incoming
    BY DEF Since, Admitted, Expiring
  <2> QED BY <2>1, CountedFinite
<1>7. /\ Cardinality(Since(s)') + Cardinality(Expiring') <= RequestLimit
      /\ Cardinality(Since(s)') + Cardinality(Expiring') <= count'
  <2>1. /\ Cardinality(Since(s)) + Cardinality(Expiring) <= RequestLimit
        /\ Cardinality(Since(s)) + Cardinality(Expiring) <= count
    BY <1>4 DEF CountedSince
  <2>2. CASE stage'[r] = "allowed"
    BY <1>t, <1>2, <1>3, <1>5, <1>6, <2>1, <2>2
  <2>3. CASE stage'[r] # "allowed"
    BY <1>t, <1>2, <1>5, <1>6, <2>1, <2>3
  <2> QED BY <2>2, <2>3
<1>8. resetAt' # 0 => resetAt' >= s + Window /\ \A q \in Admitted' : passed'[q] < resetAt'
  <2>1. resetAt # 0 => clock < resetAt
    BY <1>t, <1>1 DEF Throttle!Expired
  <2>2. resetAt # 0 => resetAt >= s + Window /\ \A q \in Admitted : passed[q] < resetAt
    BY <1>4 DEF CountedSince
  <2>3. \A q \in Admitted' : (q \in Admitted /\ passed'[q] = passed[q]) \/ passed'[q] = clock
    BY <1>t, <1>3 DEF Admitted
  <2> QED BY <1>2, <2>1, <2>2, <2>3
<1>9. (\A q \in Admitted' : passed'[q] <= clock') /\ \E x \in 1..clock' : CountedSince(x)'
  <2>1. stage[r] # "allowed"
    BY <1>2
  <2> QED BY <1>2, <1>3, <1>4, <1>7, <1>8, <2>1, CounterKept
<1>10. ExpiryInv'
  BY <1>t, <1>1, <1>2, <1>5 DEF ThrottleInv, ExpiryInv
<1> QED BY <1>9, <1>10 DEF ThrottleInv

(* The counter gets its expiry, or the command fails. *)
LEMMA ExpirySet ==
  ASSUME ThrottleConstants, ThrottleInv, Throttle!TypeOK', NEW r \in Incoming,
         Throttle!Expire(r) \/ Throttle!ExpireFails(r)
  PROVE  ThrottleInv'
<1>t. /\ stage \in [Incoming -> {"new", "expire", "allowed", "denied", "failed"}]
      /\ passed \in [Incoming -> 0..MaxTime] /\ clock \in 1..MaxTime /\ failedExpires \in Nat
      /\ count \in Nat /\ resetAt \in Nat /\ RequestLimit \in Nat \ {0} /\ Window \in Nat \ {0}
  BY DEF ThrottleInv, Throttle!TypeOK, ThrottleConstants
<1>1. stage[r] = "expire" /\ clock' = clock
  BY DEF Throttle!Expire, Throttle!ExpireFails
<1>2. Expiring = {r}
  BY <1>1 DEF ThrottleInv, ExpiryInv, Expiring
<1>3. count > 0 /\ resetAt = 0 /\ Throttle!Stored = count
  BY <1>2 DEF ThrottleInv, ExpiryInv, Throttle!Stored, Throttle!Expired
<1>4. PICK s \in 1..clock : CountedSince(s)
  BY DEF ThrottleInv
<1>5. /\ stage' = [stage EXCEPT ![r] = stage'[r]] /\ passed' = [passed EXCEPT ![r] = passed'[r]]
      /\ stage'[r] \in {"allowed", "failed"}
      /\ stage'[r] = "allowed" => passed'[r] = clock
      /\ count' = count
      /\ \/ stage'[r] = "allowed" /\ resetAt' = clock + Window
         \/ stage'[r] = "failed" /\ resetAt' = resetAt /\ failedExpires' > 0
  <2>1. CASE Throttle!Expire(r)
    <3>1. Throttle!Within(1)
      BY <1>t DEF Throttle!Within
    <3> QED BY <1>t, <1>3, <2>1, <3>1 DEF Throttle!Expire, Throttle!Answer
  <2>2. CASE Throttle!ExpireFails(r)
    BY <1>t, <2>2 DEF Throttle!ExpireFails
  <2> QED BY <2>1, <2>2
<1>6. /\ Cardinality(Since(s)') = Cardinality(Since(s)) + IF stage'[r] = "allowed" THEN 1 ELSE 0
      /\ Expiring' = {}
  <2>1. stage[r] \in {"new", "expire"} /\ stage'[r] # "new" /\ stage'[r] # "expire"
    BY <1>1, <1>5
  <2> QED BY <1>1, <1>2, <1>5, <2>1, CountsAfter DEF ThrottleInv
<1>7. Cardinality(Since(s)) \in Nat /\ Cardinality(Expiring) = 1 /\ Cardinality(Expiring') = 0
  <2>1. Since(s) \in SUBSET Incoming
    BY DEF Since, Admitted
  <2> QED BY <2>1, <1>2, <1>6, CountedFinite, FS_Singleton, FS_EmptySet
<1>8. /\ Cardinality(Since(s)') + Cardinality(Expiring') <= RequestLimit
      /\ Cardinality(Since(s)') + Cardinality(Expiring') <= count'
  <2>1. /\ Cardinality(Since(s)) + Cardinality(Expiring) <= RequestLimit
        /\ Cardinality(Since(s)) + Cardinality(Expiring) <= count
    BY <1>4 DEF CountedSince
  <2> QED BY <1>t, <1>5, <1>6, <1>7, <2>1
<1>9. resetAt' # 0 => resetAt' >= s + Window /\ \A q \in Admitted' : passed'[q] < resetAt'
  <2>1. \A q \in Admitted : passed[q] <= clock /\ passed[q] \in Nat
    BY <1>t DEF ThrottleInv, Admitted, ThrottleConstants
  <2>2. \A q \in Admitted' : (q \in Admitted /\ passed'[q] = passed[q]) \/ passed'[q] = clock
    BY <1>t, <1>5 DEF Admitted
  <2> QED BY <1>t, <1>3, <1>5, <2>1, <2>2
<1>10. (\A q \in Admitted' : passed'[q] <= clock') /\ \E x \in 1..clock' : CountedSince(x)'
  <2>1. stage[r] # "allowed"
    BY <1>1
  <2> QED BY <1>1, <1>4, <1>5, <1>8, <1>9, <2>1, CounterKept
<1>11. ExpiryInv'
  BY <1>t, <1>3, <1>5, <1>6 DEF ThrottleInv, ExpiryInv
<1> QED BY <1>10, <1>11 DEF ThrottleInv

LEMMA ThrottleStep ==
  ASSUME ThrottleConstants
  PROVE  ThrottleInv /\ [Throttle!Next]_Throttle!vars => ThrottleInv'
<1> SUFFICES ASSUME ThrottleInv, [Throttle!Next]_Throttle!vars PROVE ThrottleInv'
  OBVIOUS
<1>1. CASE UNCHANGED Throttle!vars
  BY <1>1 DEF Throttle!vars, ThrottleInv, Throttle!TypeOK, ExpiryInv, CountedSince, Since, Before,
              Admitted, Expiring
<1>2. CASE Throttle!Tick
  <2>1. clock' = clock + 1 /\ clock < MaxTime /\ UNCHANGED <<count, resetAt, stage, passed, failedExpires>>
    BY <1>2 DEF Throttle!Tick
  <2>2. Throttle!TypeOK'
    BY <2>1 DEF ThrottleInv, Throttle!TypeOK, ThrottleConstants
  <2>3. ExpiryInv'
    BY <2>1 DEF ThrottleInv, ExpiryInv, Admitted, Expiring
  <2>4. clock \in Nat /\ \A q \in Admitted : passed[q] \in Nat
    BY DEF ThrottleInv, Throttle!TypeOK, Admitted, ThrottleConstants
  <2>5. \A q \in Admitted' : passed'[q] <= clock'
    BY <2>1, <2>4 DEF ThrottleInv, Admitted
  <2>6. PICK s \in 1..clock : CountedSince(s)
    BY DEF ThrottleInv
  <2>7. CountedSince(s)'
    BY <2>1, <2>6 DEF CountedSince, Since, Before, Admitted, Expiring
  <2>8. s \in 1..clock'
    BY <2>1, <2>4
  <2> QED BY <2>2, <2>3, <2>5, <2>7, <2>8 DEF ThrottleInv
<1>3. ASSUME NEW r \in Incoming, Throttle!Increment(r) \/ Throttle!Expire(r) \/ Throttle!ExpireFails(r)
      PROVE  ThrottleInv'
  <2>t. Throttle!TypeOK /\ clock \in Nat /\ MaxTime \in Nat
    BY DEF ThrottleInv, Throttle!TypeOK, ThrottleConstants
  <2>1. Throttle!TypeOK'
    <3>1. Throttle!Stored \in Nat
      BY <2>t DEF Throttle!Stored, Throttle!TypeOK
    <3>2. ASSUME NEW n, Throttle!Answer(r, n)
          PROVE  /\ stage' \in [Incoming -> {"new", "expire", "allowed", "denied", "failed"}]
                 /\ passed' \in [Incoming -> 0..MaxTime]
      BY <2>t, <3>2 DEF Throttle!Answer, Throttle!TypeOK
    <3>3. CASE Throttle!Increment(r)
      <4>1. CASE Throttle!Stored = 0
        BY <2>t, <3>1, <3>3, <4>1 DEF Throttle!Increment, Throttle!TypeOK
      <4>2. CASE Throttle!Stored # 0
        BY <2>t, <3>1, <3>2, <3>3, <4>2 DEF Throttle!Increment, Throttle!TypeOK
      <4> QED BY <4>1, <4>2
    <3>4. CASE Throttle!Expire(r)
      BY <2>t, <3>1, <3>2, <3>4 DEF Throttle!Expire, Throttle!TypeOK, ThrottleConstants
    <3>5. CASE Throttle!ExpireFails(r)
      BY <2>t, <3>5 DEF Throttle!ExpireFails, Throttle!TypeOK, ThrottleConstants
    <3> QED BY <1>3, <3>3, <3>4, <3>5
  <2> QED BY <1>3, <2>1, CounterCreated, CounterRaised, ExpirySet
<1> QED BY <1>1, <1>2, <1>3 DEF Throttle!Next

(* So no window has more requests than it may. *)
LEMMA ThrottleKeeps ==
  ASSUME ThrottleConstants PROVE Throttle!Spec => []Throttle!WindowHolds
<1>1. Throttle!Init => ThrottleInv
  <2> SUFFICES ASSUME Throttle!Init PROVE ThrottleInv
    OBVIOUS
  <2>1. Admitted = {} /\ Expiring = {}
    BY DEF Throttle!Init, Admitted, Expiring
  <2>2. \A t : Since(1) = {} /\ Before(1, t) = {}
    BY <2>1 DEF Since, Before
  <2>3. CountedSince(1)
    <3>1. Cardinality({}) = 0
      BY FS_EmptySet
    <3>2. count = 0 /\ resetAt = 0 /\ RequestLimit \in Nat
      BY DEF Throttle!Init, ThrottleConstants
    <3>3. Cardinality(Since(1)) = 0 /\ Cardinality(Expiring) = 0
      BY <2>1, <2>2, <3>1
    <3>4. \A t \in Nat : Cardinality(Before(1, t)) = 0
      BY <2>2, <3>1
    <3> QED BY <3>2, <3>3, <3>4 DEF CountedSince
  <2>4. 1 \in 1..clock
    BY DEF Throttle!Init
  <2> QED BY <2>1, <2>3, <2>4
        DEF Throttle!Init, ThrottleInv, Throttle!TypeOK, ExpiryInv, ThrottleConstants
<1>2. ThrottleInv => Throttle!WindowHolds
  <2> SUFFICES ASSUME ThrottleInv PROVE Throttle!WindowHolds
    OBVIOUS
  <2>t. clock \in Nat /\ RequestLimit \in Nat /\ Window \in Nat /\ \A q \in Admitted : passed[q] \in Nat
    BY DEF ThrottleInv, Throttle!TypeOK, Admitted, ThrottleConstants
  <2>1. ASSUME NEW t \in 0..MaxTime
        PROVE  Cardinality({r \in Incoming : stage[r] = "allowed" /\ t < passed[r] /\ passed[r] <= t + Window}) <= 2 * RequestLimit
    <3> DEFINE A == {r \in Incoming : stage[r] = "allowed" /\ t < passed[r] /\ passed[r] <= t + Window}
    <3>1. PICK s \in 1..clock : CountedSince(s)
      BY DEF ThrottleInv
    <3>t. t \in Nat /\ s \in Nat
      BY <2>t, <3>1 DEF ThrottleConstants
    <3>s. /\ A \in SUBSET Incoming /\ Before(s, t) \in SUBSET Incoming
          /\ Since(s) \in SUBSET Incoming /\ Expiring \in SUBSET Incoming
      BY DEF Before, Since, Admitted, Expiring
    <3>2. A \subseteq Before(s, t) \cup Since(s)
      BY <2>t, <3>t DEF Before, Since, Admitted
    <3>3. t + Window < s => A \subseteq Before(s, t)
      BY <2>t, <3>t DEF Before, Admitted
    <3> HIDE DEF A
    <3>4. /\ Cardinality(A) \in Nat /\ Cardinality(Before(s, t)) \in Nat
          /\ Cardinality(Since(s)) \in Nat /\ Cardinality(Expiring) \in Nat
          /\ Cardinality(Before(s, t) \cup Since(s)) \in Nat
      BY <3>s, CountedFinite
    <3>5. /\ Cardinality(A) <= Cardinality(Before(s, t) \cup Since(s))
          /\ Cardinality(Before(s, t) \cup Since(s)) <= Cardinality(Before(s, t)) + Cardinality(Since(s))
          /\ t + Window < s => Cardinality(A) <= Cardinality(Before(s, t))
      BY <3>s, <3>2, <3>3, CountedFinite
    <3>6. /\ Cardinality(Since(s)) + Cardinality(Expiring) <= RequestLimit
          /\ Cardinality(Before(s, t)) <= 2 * RequestLimit
          /\ t + Window >= s => Cardinality(Before(s, t)) <= RequestLimit
      BY <3>1, <3>t DEF CountedSince
    <3>7. Cardinality(A) <= 2 * RequestLimit
      <4>1. CASE t + Window < s
        BY <2>t, <3>4, <3>5, <3>6, <4>1
      <4>2. CASE t + Window >= s
        BY <2>t, <3>4, <3>5, <3>6, <4>2
      <4> QED BY <2>t, <3>t, <4>1, <4>2
    <3> QED BY <3>7 DEF A
  <2>2. count > 0 /\ resetAt = 0 => failedExpires > 0 \/ \E r \in Incoming : stage[r] = "expire"
    BY DEF ThrottleInv, ExpiryInv, Expiring
  <2> QED BY <2>1, <2>2, SameThrottleCardinality DEF Throttle!WindowHolds
<1> QED BY <1>1, <1>2, ThrottleStep, PTL DEF Throttle!Spec

-----------------------------------------------------------------------------
(* The store in memory: it has the rows of a database                      *)

(* Tables whose ids are those of their rows alone; tables that refer.      *)
Serial == {"token", "row", "record"}
Pairs == {<<"user", "token">>, <<"campaign", "row">>, <<"workspace", "member">>}

Entry(r) == r = [n |-> r.n, id |-> r.id, key |-> r.key, ref |-> r.ref, up |-> r.up, mark |-> r.mark]

(* Rows are numbered as far as rows were created, and each has an id of    *)
(* its own.                                                                *)
Sound(t, T, c) ==
  /\ \A r \in T : Entry(r) /\ r.n \in 1..c
  /\ \A r, s \in T : r.n = s.n \/ r.id = s.id => r = s
  /\ t \in Serial => \A r \in T : r.id = r.n

(* What rows refer to, by number and by id, and what they are referred by. *)
Links(T) == {<<r.up, r.ref>> : r \in T}
Names(T) == {<<r.n, r.id>> : r \in T}

Clean(t) == troubles \cap Store!Affects[t] = {}
Same(t) == ideal[t] = store[t] /\ Sound(t, store[t], created)

(* A table and one that refers to it: where nothing sets them apart, rows  *)
(* refer to rows that are there, and by the id as they do by the number.   *)
Paired(p, c) ==
  /\ Clean(p) => Same(p)
  /\ Clean(c) => Same(c) /\ Links(store[c]) \subseteq Names(store[p])

(* What was looked for and not found is not there yet.                     *)
Recordable == \A c \in Checkers, r \in store["record"] : check[c] # Store!NoKey => r.key # check[c]
Recorded == Clean("record") => Same("record") /\ Recordable

StoreShape ==
  /\ created \in Nat
  /\ store = [t \in Store!Tables |-> store[t]] /\ ideal = [t \in Store!Tables |-> ideal[t]]
  /\ check = [c \in Checkers |-> check[c]]
StoreInv ==
  /\ StoreShape /\ Recorded
  /\ \A pc \in Pairs : Paired(pc[1], pc[2])

-----------------------------------------------------------------------------
(* Sets of rows *)

LEMMA SoundMore ==
  ASSUME NEW t, NEW T, NEW c \in Nat, NEW d \in Nat, c <= d, Sound(t, T, c)
  PROVE  Sound(t, T, d)
BY DEF Sound

LEMMA SoundLess ==
  ASSUME NEW t, NEW T, NEW c, NEW S \in SUBSET T, Sound(t, T, c)
  PROVE  Sound(t, S, c) /\ Links(S) \subseteq Links(T)
BY DEF Sound, Links

LEMMA SoundInsert ==
  ASSUME NEW t, NEW T, NEW c \in Nat, NEW d \in Nat, c <= d, Sound(t, T, c),
         NEW r, Entry(r), r.n \in c + 1 .. d,
         t \in Serial => r.id = r.n,
         t \notin Serial => \A s \in T : s.id # r.id
  PROVE  Sound(t, T \cup {r}, d)
<1>1. \A s \in T : s.n # r.n /\ s.id # r.id /\ s.n \in 1..d
  BY DEF Sound
<1>2. r.n \in 1..d
  OBVIOUS
<1> QED BY <1>1, <1>2 DEF Sound

LEMMA NamesInsert ==
  ASSUME NEW T, NEW r
  PROVE  /\ Links(T \cup {r}) = Links(T) \cup {<<r.up, r.ref>>}
         /\ Names(T \cup {r}) = Names(T) \cup {<<r.n, r.id>>}
BY DEF Links, Names

(* Marking rows changes nothing else about them. *)
LEMMA Marking ==
  ASSUME NEW t, NEW T, NEW c, NEW W \in SUBSET T, NEW mark, Sound(t, T, c)
  PROVE  LET N == Store!Mark(T, W, mark) IN
         Sound(t, N, c) /\ Links(N) = Links(T) /\ Names(N) = Names(T)
<1> DEFINE N == Store!Mark(T, W, mark)
           M(r) == [r EXCEPT !.mark = mark]
           R(r) == IF r \in W THEN M(r) ELSE r
<1>1. \A r \in T : M(r) = [n |-> r.n, id |-> r.id, key |-> r.key, ref |-> r.ref, up |-> r.up,
                           mark |-> mark]
  BY DEF Sound, Entry
<1>2. \A r \in T : /\ Entry(R(r)) /\ R(r).n = r.n /\ R(r).id = r.id
                   /\ R(r).ref = r.ref /\ R(r).up = r.up
  BY <1>1 DEF Entry, Sound
<1>3. N = {R(r) : r \in T}
  BY DEF Store!Mark
<1> HIDE DEF N, R
<1>4. Links(N) = Links(T) /\ Names(N) = Names(T)
  <2>1. Links(N) = {<<R(r).up, R(r).ref>> : r \in T} /\ Names(N) = {<<R(r).n, R(r).id>> : r \in T}
    BY <1>3 DEF Links, Names
  <2> QED BY <1>2, <2>1 DEF Links, Names
<1>5. Sound(t, N, c)
  BY <1>2, <1>3 DEF Sound
<1> QED BY <1>4, <1>5 DEF N

(* Rows that refer to a row by its id are those that do by its number. *)
LEMMA Children ==
  ASSUME NEW p, NEW P, NEW C, NEW c, Sound(p, P, c), Links(C) \subseteq Names(P), NEW r \in P
  PROVE  /\ \A s \in C : s.ref = r.id <=> s.up = r.n
         /\ Links({s \in C : s.up # r.n}) \subseteq Names(P \ {r})
<1>1. ASSUME NEW s \in C PROVE \E q \in P : q.n = s.up /\ q.id = s.ref
  <2>1. <<s.up, s.ref>> \in {<<q.n, q.id>> : q \in P}
    BY DEF Links, Names
  <2>2. PICK q \in P : <<s.up, s.ref>> = <<q.n, q.id>>
    BY <2>1, Zenon
  <2> QED BY <2>2
<1>2. \A q \in P : q.n = r.n \/ q.id = r.id => q = r
  BY DEF Sound
<1>3. \A s \in C : s.ref = r.id <=> s.up = r.n
  BY <1>1, <1>2
<1>4. \A s \in C : s.up # r.n => <<s.up, s.ref>> \in Names(P \ {r})
  BY <1>1, <1>2 DEF Names
<1> QED BY <1>3, <1>4 DEF Links

(* A row found by its id is the row that has it. *)
LEMMA FoundById ==
  ASSUME NEW t, Same(t), NEW r \in ideal[t]
  PROVE  Store!First(Store!ById(t, r.id)) = {r} /\ r \in store[t]
<1>1. r \in store[t] /\ r.n \in Int
  BY DEF Same, Sound
<1>2. Store!ById(t, r.id) = {r}
  BY <1>1 DEF Store!ById, Same, Sound
<1>3. \A s \in {r} : s.n <= s.n /\ (\A q \in {r} : s.n <= q.n) /\ s = r
  BY <1>1
<1>4. (CHOOSE s \in {r} : \A q \in {r} : s.n <= q.n) = r
  BY <1>3
<1> QED BY <1>1, <1>2, <1>4 DEF Store!First

-----------------------------------------------------------------------------
(* Tables after a step *)

(* More troubles, more rows. *)
Grows == created \in Nat /\ created' \in Nat /\ created <= created' /\ troubles \subseteq troubles'
Rests(t) == store'[t] = store[t] /\ ideal'[t] = ideal[t]

LEMMA CleanLater ==
  ASSUME Grows, NEW t PROVE Clean(t)' => Clean(t)
BY DEF Grows, Clean

LEMMA CleanPairs ==
  ASSUME NEW pc \in Pairs
  PROVE  /\ Clean(pc[2]) => Clean(pc[1])
         /\ pc[1] \in Store!Tables \ Serial /\ pc[2] \in Store!Tables
         /\ pc[1] # pc[2] /\ pc[1] # "record" /\ pc[2] # "record"
<1>1. ASSUME NEW p \in STRING, NEW c \in STRING, Store!Affects[p] \subseteq Store!Affects[c]
      PROVE  Clean(c) => Clean(p)
  BY <1>1 DEF Clean
<1>2. /\ Store!Affects["user"] \subseteq Store!Affects["token"]
      /\ Store!Affects["campaign"] \subseteq Store!Affects["row"]
      /\ Store!Affects["workspace"] \subseteq Store!Affects["member"]
  BY DEF Store!Affects
<1>3. /\ Clean("token") => Clean("user")
      /\ Clean("row") => Clean("campaign")
      /\ Clean("member") => Clean("workspace")
  BY <1>2 DEF Clean
<1> QED BY <1>3 DEF Pairs, Store!Tables, Serial

LEMMA SameRests ==
  ASSUME Grows, NEW t, Same(t), Rests(t) PROVE Same(t)'
BY SoundMore DEF Grows, Same, Rests

LEMMA PairRests ==
  ASSUME Grows, NEW p, NEW c, Paired(p, c), Rests(p), Rests(c) PROVE Paired(p, c)'
<1>1. (Clean(p)' => Same(p)') /\ (Clean(c)' => Same(c)')
  BY CleanLater, SameRests DEF Paired
<1>2. Clean(c)' => Links(store'[c]) \subseteq Names(store'[p])
  BY CleanLater DEF Paired, Rests
<1> QED BY <1>1, <1>2 DEF Paired

LEMMA RecordsRest ==
  ASSUME Grows, Recorded, Rests("record"), check' = check PROVE Recorded'
<1>1. Clean("record")' => Same("record")'
  BY CleanLater, SameRests DEF Recorded
<1>2. Clean("record")' => Recordable'
  BY CleanLater DEF Recorded, Rests, Recordable
<1> QED BY <1>1, <1>2 DEF Recorded

(* A row is inserted. *)
LEMMA SameInsert ==
  ASSUME Grows, NEW t, Same(t), NEW r, Entry(r), r.n \in created + 1 .. created',
         t \in Serial => r.id = r.n,
         t \notin Serial => Store!ById(t, r.id) = {},
         store'[t] = store[t] \cup {r}, ideal'[t] = ideal[t] \cup {r}
  PROVE  Same(t)'
<1>1. t \notin Serial => \A s \in store[t] : s.id # r.id
  BY DEF Store!ById
<1>2. Sound(t, store[t] \cup {r}, created')
  BY <1>1, SoundInsert DEF Same, Grows
<1> QED BY <1>2 DEF Same

LEMMA ParentInserted ==
  ASSUME Grows, NEW p, NEW c, Paired(p, c), Clean(c) => Clean(p), p \notin Serial,
         NEW r, Entry(r), r.n \in created + 1 .. created',
         Clean(p)' => Store!ById(p, r.id) = {},
         store'[p] = store[p] \cup {r}, ideal'[p] = ideal[p] \cup {r}, Rests(c)
  PROVE  Paired(p, c)'
<1>1. Clean(p)' => Same(p)'
  BY CleanLater, SameInsert DEF Paired
<1>2. Clean(c)' => Same(c)'
  BY CleanLater, SameRests DEF Paired
<1>3. ASSUME Clean(c)' PROVE Links(store'[c]) \subseteq Names(store'[p])
  <2>1. Links(store[c]) \subseteq Names(store[p])
    BY <1>3, CleanLater DEF Paired
  <2>2. Names(store'[p]) = Names(store[p]) \cup {<<r.n, r.id>>}
    BY NamesInsert, Zenon
  <2> QED BY <2>1, <2>2 DEF Rests
<1> QED BY <1>1, <1>2, <1>3 DEF Paired

LEMMA ChildInserted ==
  ASSUME Grows, NEW p, NEW c, Paired(p, c), Clean(c) => Clean(p),
         NEW q \in ideal[p],
         NEW r, Entry(r), r.n \in created + 1 .. created', r.up = q.n, r.ref = q.id,
         c \in Serial => r.id = r.n,
         Clean(c)' /\ c \notin Serial => Store!ById(c, r.id) = {},
         store'[c] = store[c] \cup {r}, Clean(c)' => ideal'[c] = ideal[c] \cup {r}, Rests(p)
  PROVE  Paired(p, c)'
<1>1. Clean(p)' => Same(p)'
  BY CleanLater, SameRests DEF Paired
<1>2. Clean(c)' => Same(c)'
  BY CleanLater, SameInsert DEF Paired
<1>3. ASSUME Clean(c)' PROVE Links(store'[c]) \subseteq Names(store'[p])
  <2>1. Clean(c) /\ q \in store[p]
    BY <1>3, CleanLater DEF Paired, Same
  <2> QED BY <2>1, NamesInsert DEF Paired, Rests, Names
<1> QED BY <1>1, <1>2, <1>3 DEF Paired

LEMMA BothInserted ==
  ASSUME Grows, NEW p, NEW c, Paired(p, c), Clean(c) => Clean(p), p \notin Serial,
         NEW q, Entry(q), q.n \in created + 1 .. created',
         Clean(p)' => Store!ById(p, q.id) = {},
         store'[p] = store[p] \cup {q}, ideal'[p] = ideal[p] \cup {q},
         NEW r, Entry(r), r.n \in created + 1 .. created', r.up = q.n, r.ref = q.id,
         c \in Serial => r.id = r.n,
         Clean(c)' /\ c \notin Serial => Store!ById(c, r.id) = {},
         store'[c] = store[c] \cup {r}, ideal'[c] = ideal[c] \cup {r}
  PROVE  Paired(p, c)'
<1>1. Clean(p)' => Same(p)'
  BY CleanLater, SameInsert DEF Paired
<1>2. Clean(c)' => Same(c)'
  BY CleanLater, SameInsert DEF Paired
<1>3. ASSUME Clean(c)' PROVE Links(store'[c]) \subseteq Names(store'[p])
  <2>1. Links(store[c]) \subseteq Names(store[p])
    BY <1>3, CleanLater DEF Paired
  <2>2. /\ Names(store[p] \cup {q}) = Names(store[p]) \cup {<<q.n, q.id>>}
        /\ Links(store[c] \cup {r}) = Links(store[c]) \cup {<<r.up, r.ref>>}
    BY NamesInsert, Zenon
  <2>3. /\ Names(store'[p]) = Names(store[p]) \cup {<<q.n, q.id>>}
        /\ Links(store'[c]) = Links(store[c]) \cup {<<q.n, q.id>>}
    BY <2>2
  <2> QED BY <2>1, <2>2, <2>3
<1> QED BY <1>1, <1>2, <1>3 DEF Paired

(* The same rows are marked in both. *)
MarksSame(t, W, V, mark) ==
  /\ store'[t] = Store!Mark(store[t], W, mark)
  /\ ideal'[t] = Store!Mark(ideal[t], V, mark)

LEMMA SameMarked ==
  ASSUME Grows, NEW t, Same(t), NEW W \in SUBSET store[t], NEW mark, MarksSame(t, W, W, mark)
  PROVE  Same(t)' /\ Links(store'[t]) = Links(store[t]) /\ Names(store'[t]) = Names(store[t])
<1>1. Sound(t, store'[t], created) /\ Links(store'[t]) = Links(store[t])
      /\ Names(store'[t]) = Names(store[t])
  BY Marking DEF Same, MarksSame
<1>2. ideal'[t] = store'[t]
  BY DEF Same, MarksSame
<1> QED BY <1>1, <1>2, SoundMore DEF Same, Grows

LEMMA ParentMarked ==
  ASSUME Grows, NEW p, NEW c, Paired(p, c), Clean(c) => Clean(p), NEW W, NEW V, NEW mark,
         MarksSame(p, W, V, mark), Same(p) => W = V /\ V \subseteq store[p], Rests(c)
  PROVE  Paired(p, c)'
<1>1. Clean(p)' => Same(p)' /\ Names(store'[p]) = Names(store[p])
  BY CleanLater, SameMarked DEF Paired
<1>2. Clean(c)' => Same(c)' /\ Links(store'[c]) = Links(store[c])
  BY CleanLater, SameRests DEF Paired, Rests
<1>3. Clean(c)' => Clean(p)
  BY CleanLater
<1>4. Clean(c)' => Links(store'[c]) \subseteq Names(store'[p])
  <2>1. Clean(p) => Names(store'[p]) = Names(store[p])
    BY SameMarked DEF Paired
  <2> QED BY <1>2, <1>3, <2>1, CleanLater DEF Paired
<1> QED BY <1>1, <1>2, <1>4 DEF Paired

LEMMA ChildMarked ==
  ASSUME Grows, NEW p, NEW c, Paired(p, c), NEW W, NEW V, NEW mark,
         MarksSame(c, W, V, mark), Clean(c) => W = V /\ V \subseteq store[c], Rests(p)
  PROVE  Paired(p, c)'
<1>1. Clean(c)' => Same(c)' /\ Links(store'[c]) = Links(store[c])
  BY CleanLater, SameMarked DEF Paired
<1>2. Clean(p)' => Same(p)'
  BY CleanLater, SameRests DEF Paired, Rests
<1>3. Clean(c)' => Links(store'[c]) \subseteq Names(store'[p])
  BY <1>1, CleanLater DEF Paired, Rests
<1> QED BY <1>1, <1>2, <1>3 DEF Paired

(* The same rows are removed from both. *)
LEMMA SameRemoved ==
  ASSUME Grows, NEW t, Same(t), store'[t] \subseteq store[t], ideal'[t] = store'[t]
  PROVE  Same(t)' /\ Links(store'[t]) \subseteq Links(store[t])
BY SoundLess, SoundMore DEF Grows, Same

LEMMA ParentRemoved ==
  ASSUME Grows, NEW p, NEW c, Paired(p, c), Clean(c) => Clean(p), NEW r \in ideal[p],
         store'[p] = store[p] \ Store!First(Store!ById(p, r.id)), ideal'[p] = ideal[p] \ {r},
         store'[c] = store[c] \ Store!ByRef(c, r.id), ideal'[c] = {s \in ideal[c] : s.up # r.n}
  PROVE  Paired(p, c)'
<1>1. ASSUME Clean(p) PROVE Same(p) /\ r \in store[p] /\ store'[p] = store[p] \ {r}
  BY <1>1, FoundById DEF Paired
<1>2. Clean(p)' => Same(p)'
  BY <1>1, CleanLater, SameRemoved DEF Same
<1>3. ASSUME Clean(c)'
      PROVE  Same(c)' /\ Links(store'[c]) \subseteq Names(store'[p])
  <2>1. Clean(c) /\ Same(c) /\ Links(store[c]) \subseteq Names(store[p])
    BY <1>3, CleanLater DEF Paired
  <2>2. Same(p) /\ r \in store[p] /\ store'[p] = store[p] \ {r}
    BY <1>1, <2>1
  <2>3. /\ \A s \in store[c] : s.ref = r.id <=> s.up = r.n
        /\ Links({s \in store[c] : s.up # r.n}) \subseteq Names(store[p] \ {r})
    BY <2>1, <2>2, Children DEF Same
  <2>4. store'[c] = {s \in store[c] : s.up # r.n} /\ ideal'[c] = store'[c]
    BY <2>1, <2>3 DEF Same, Store!ByRef
  <2> QED BY <2>1, <2>2, <2>3, <2>4, SameRemoved
<1> QED BY <1>2, <1>3 DEF Paired

LEMMA ChildRemoved ==
  ASSUME Grows, NEW p, NEW c, Paired(p, c), NEW r \in ideal[c],
         store'[c] = store[c] \ Store!First(Store!ById(c, r.id)), ideal'[c] = ideal[c] \ {r}, Rests(p)
  PROVE  Paired(p, c)'
<1>1. Clean(p)' => Same(p)'
  BY CleanLater, SameRests DEF Paired
<1>2. ASSUME Clean(c)' PROVE Same(c)' /\ Links(store'[c]) \subseteq Names(store'[p])
  <2>1. Clean(c) /\ Same(c) /\ Links(store[c]) \subseteq Names(store[p])
    BY <1>2, CleanLater DEF Paired
  <2>2. store'[c] = store[c] \ {r} /\ ideal'[c] = store'[c]
    BY <2>1, FoundById DEF Same
  <2> QED BY <2>1, <2>2, SameRemoved DEF Rests
<1> QED BY <1>1, <1>2 DEF Paired

-----------------------------------------------------------------------------
(* Each operation *)

Timeless == created' = created /\ troubles' = troubles
OtherPairs(pc) == \A d \in Pairs \ {pc} : Rests(d[1]) /\ Rests(d[2])

(* A step about one table and one that refers to it leaves the others.     *)
LEMMA OnePair ==
  ASSUME StoreInv, Grows, StoreShape', NEW pc \in Pairs, Paired(pc[1], pc[2])',
         OtherPairs(pc), Rests("record"), check' = check
  PROVE  StoreInv'
<1>1. \A d \in Pairs : Paired(d[1], d[2])'
  BY PairRests DEF StoreInv, OtherPairs
<1>2. Recorded'
  BY RecordsRest DEF StoreInv
<1> QED BY <1>1, <1>2 DEF StoreInv

LEMMA TablesOf ==
  /\ Store!Tables = {"user", "token", "campaign", "row", "record", "workspace", "member"}
  /\ StoreShape => DOMAIN store = Store!Tables /\ DOMAIN ideal = Store!Tables
BY DEF Store!Tables, StoreShape

LEMMA StoreInitInv == Store!Init => StoreInv
<1> SUFFICES ASSUME Store!Init PROVE StoreInv
  OBVIOUS
<1>1. StoreShape
  BY DEF Store!Init, StoreShape
<1>2. \A t \in Store!Tables : store[t] = {} /\ ideal[t] = {}
  BY DEF Store!Init
<1>3. \A t \in Store!Tables : Same(t) /\ Links(store[t]) = {}
  BY <1>2 DEF Same, Sound, Links
<1>4. \A pc \in Pairs : Paired(pc[1], pc[2])
  BY <1>3, CleanPairs DEF Paired
<1>5. Recorded
  BY <1>2, <1>3, TablesOf DEF Recorded, Recordable
<1> QED BY <1>1, <1>4, <1>5 DEF StoreInv

(* A row is written or removed that has the id, and nothing else.          *)
LEMMA ParentUpdated ==
  ASSUME StoreInv, NEW pc \in Pairs, NEW r \in ideal[pc[1]], NEW mark,
         Store!UpdateById(pc[1], r, mark), Timeless, check' = check
  PROVE  StoreInv'
<1> DEFINE p == pc[1]
           c == pc[2]
<1>1. /\ p \in Store!Tables /\ c \in Store!Tables /\ p # c /\ p # "record" /\ c # "record"
      /\ Clean(c) => Clean(p)
  BY CleanPairs
<1>2. Grows
  BY DEF Grows, Timeless, StoreInv, StoreShape
<1>3. MarksSame(p, Store!First(Store!ById(p, r.id)), {r}, mark)
  BY <1>1 DEF Store!UpdateById, MarksSame, StoreInv, StoreShape
<1>4. \A t \in Store!Tables \ {p} : Rests(t)
  BY DEF Store!UpdateById, Rests, StoreInv, StoreShape
<1>5. Same(p) => Store!First(Store!ById(p, r.id)) = {r} /\ {r} \subseteq store[p]
  BY FoundById
<1>6. Paired(p, c)
  BY DEF StoreInv
<1> HIDE DEF p, c
<1>7. Paired(p, c)'
  BY <1>1, <1>2, <1>3, <1>4, <1>5, <1>6, ParentMarked
<1>8. StoreShape'
  BY <1>2 DEF Store!UpdateById, StoreInv, StoreShape, Timeless, Grows
<1>9. OtherPairs(pc) /\ Rests("record")
  BY <1>1, <1>4, TablesOf DEF OtherPairs, Pairs, p
<1> QED BY <1>2, <1>7, <1>8, <1>9, OnePair DEF p, c

LEMMA ChildUpdated ==
  ASSUME StoreInv, NEW pc \in Pairs, NEW r \in ideal[pc[2]], NEW mark,
         Store!UpdateById(pc[2], r, mark), Timeless, check' = check
  PROVE  StoreInv'
<1> DEFINE p == pc[1]
           c == pc[2]
<1>1. /\ p \in Store!Tables /\ c \in Store!Tables /\ p # c /\ p # "record" /\ c # "record"
      /\ Clean(c) => Clean(p)
  BY CleanPairs
<1>2. Grows
  BY DEF Grows, Timeless, StoreInv, StoreShape
<1>3. MarksSame(c, Store!First(Store!ById(c, r.id)), {r}, mark)
  BY <1>1 DEF Store!UpdateById, MarksSame, StoreInv, StoreShape
<1>4. \A t \in Store!Tables \ {c} : Rests(t)
  BY DEF Store!UpdateById, Rests, StoreInv, StoreShape
<1>5. Same(c) => Store!First(Store!ById(c, r.id)) = {r} /\ {r} \subseteq store[c]
  BY FoundById
<1>6. Paired(p, c)
  BY DEF StoreInv
<1> HIDE DEF p, c
<1>7. Paired(p, c)'
  <2>1. Clean(c) => Same(c)
    BY <1>6 DEF Paired
  <2> QED BY <1>1, <1>2, <1>3, <1>4, <1>5, <1>6, <2>1, ChildMarked
<1>8. StoreShape'
  BY <1>2 DEF Store!UpdateById, StoreInv, StoreShape, Timeless, Grows
<1>9. OtherPairs(pc) /\ Rests("record")
  BY <1>1, <1>4, TablesOf DEF OtherPairs, Pairs, c
<1> QED BY <1>2, <1>7, <1>8, <1>9, OnePair DEF p, c

(* The others, one by one. *)
LEMMA RowsCreated ==
  ASSUME StoreInv, NEW k \in Nat, Store!Creates(k), troubles \subseteq troubles'
  PROVE  Grows /\ created' = created + k /\ created + 1 \in Nat
BY DEF Store!Creates, StoreInv, StoreShape, Grows

(* A row that is not known to have an id of its own is a trouble.          *)
LEMMA Clashes ==
  ASSUME NEW t \in Store!Tables, NEW id, t \in Store!Affects[t],
         Store!Clash(t, id) \subseteq troubles', Clean(t)'
  PROVE  Store!ById(t, id) = {}
BY DEF Store!Clash, Clean

LEMMA AffectsOf ==
  /\ "user" \in Store!Affects["user"] /\ "campaign" \in Store!Affects["campaign"]
  /\ "workspace" \in Store!Affects["workspace"] /\ "member" \in Store!Affects["member"]
  /\ "overlap" \in Store!Affects["record"]
BY DEF Store!Affects

LEMMA PairOf ==
  /\ <<"user", "token">> \in Pairs /\ <<"campaign", "row">> \in Pairs
  /\ <<"workspace", "member">> \in Pairs
  /\ <<"user", "token">>[1] = "user" /\ <<"user", "token">>[2] = "token"
  /\ <<"campaign", "row">>[1] = "campaign" /\ <<"campaign", "row">>[2] = "row"
  /\ <<"workspace", "member">>[1] = "workspace" /\ <<"workspace", "member">>[2] = "member"
BY DEF Pairs

LEMMA PairedOf ==
  /\ StoreInv => /\ Paired("user", "token") /\ Paired("campaign", "row")
                 /\ Paired("workspace", "member")
  /\ Clean("token") => Clean("user")
  /\ Clean("row") => Clean("campaign")
  /\ Clean("member") => Clean("workspace")
<1>1. ASSUME StoreInv
      PROVE  Paired("user", "token") /\ Paired("campaign", "row") /\ Paired("workspace", "member")
  BY <1>1, PairOf DEF StoreInv
<1> QED BY <1>1, PairOf, CleanPairs

(* All tables but those of a pair. *)
LEMMA RestOf ==
  /\ (\A t \in Store!Tables \ {"user", "token"} : Rests(t))
       => OtherPairs(<<"user", "token">>) /\ Rests("record")
  /\ (\A t \in Store!Tables \ {"campaign", "row"} : Rests(t))
       => OtherPairs(<<"campaign", "row">>) /\ Rests("record")
  /\ (\A t \in Store!Tables \ {"workspace", "member"} : Rests(t))
       => OtherPairs(<<"workspace", "member">>) /\ Rests("record")
BY TablesOf DEF OtherPairs, Pairs

LEMMA UserCreateKeeps ==
  ASSUME StoreInv, NEW e, Store!UserCreate(e) PROVE StoreInv'
<1> DEFINE r == Store!Row(Store!Stamp(0), e, 0, 0, "new")
<1>1. Grows /\ created' = created + 1 /\ created + 1 \in Nat
  BY RowsCreated DEF Store!UserCreate
<1>2. Entry(r) /\ r.n = created + 1 /\ r.n \in created + 1 .. created'
  BY <1>1, SMT DEF Entry, Store!Row
<1>3. /\ store' = [store EXCEPT !["user"] = @ \cup {r}]
      /\ ideal' = [ideal EXCEPT !["user"] = @ \cup {r}]
      /\ Store!Clash("user", r.id) \subseteq troubles' /\ check' = check
  BY DEF Store!UserCreate, Store!Push, Store!Insert
<1> HIDE DEF r
<1>4. /\ store'["user"] = store["user"] \cup {r} /\ ideal'["user"] = ideal["user"] \cup {r}
      /\ \A t \in Store!Tables \ {"user"} : Rests(t)
      /\ StoreShape'
  BY <1>1, <1>3, TablesOf DEF StoreInv, StoreShape, Rests, Grows
<1>5. Clean("user")' => Store!ById("user", r.id) = {}
  BY <1>3, Clashes, TablesOf, AffectsOf
<1>6. Paired("user", "token")'
  BY <1>1, <1>2, <1>4, <1>5, PairedOf, ParentInserted, TablesOf DEF Serial
<1> QED BY <1>1, <1>3, <1>4, <1>6, OnePair, PairOf, RestOf

LEMMA TokenCreateKeeps ==
  ASSUME StoreInv, NEW u \in ideal["user"], Store!TokenCreate(u) PROVE StoreInv'
<1> DEFINE r == Store!Row(created + 1, created + 1, u.id, u.n, "live")
<1>1. Grows /\ created' = created + 1 /\ created + 1 \in Nat
  BY RowsCreated DEF Store!TokenCreate, Store!Quiet
<1>2. /\ Entry(r) /\ r.n = created + 1 /\ r.n \in created + 1 .. created'
      /\ r.id = r.n /\ r.up = u.n /\ r.ref = u.id
  BY <1>1, SMT DEF Entry, Store!Row
<1>3. /\ store' = [store EXCEPT !["token"] = @ \cup {r}]
      /\ ideal' = [ideal EXCEPT !["token"] = @ \cup {r}] /\ check' = check
  BY DEF Store!TokenCreate, Store!Push, Store!Insert, Store!Quiet
<1> HIDE DEF r
<1>4. /\ store'["token"] = store["token"] \cup {r} /\ ideal'["token"] = ideal["token"] \cup {r}
      /\ \A t \in Store!Tables \ {"token"} : Rests(t)
      /\ StoreShape'
  BY <1>1, <1>3, TablesOf DEF StoreInv, StoreShape, Rests, Grows
<1>5. "token" \in Serial /\ Rests("user")
  BY <1>4, TablesOf DEF Serial
<1>6. Paired("user", "token")'
  BY <1>1, <1>2, <1>4, <1>5, PairedOf, ChildInserted
<1> QED BY <1>1, <1>3, <1>4, <1>6, OnePair, PairOf, RestOf

LEMMA TokenUpdateManyKeeps ==
  ASSUME StoreInv, NEW u \in ideal["user"], Store!TokenUpdateMany(u) PROVE StoreInv'
<1> DEFINE W == Store!ByRef("token", u.id)
           V == {t \in ideal["token"] : t.up = u.n}
<1>1. Grows /\ check' = check
  BY DEF Store!TokenUpdateMany, Store!Quiet, Store!Untimed, StoreInv, StoreShape, Grows
<1>2. /\ MarksSame("token", W, V, "revoked") /\ StoreShape'
      /\ \A t \in Store!Tables \ {"token"} : Rests(t)
  BY <1>1, TablesOf
     DEF Store!TokenUpdateMany, StoreInv, StoreShape, Rests, Grows, MarksSame, Store!Quiet
<1>3. ASSUME Clean("token") PROVE W = V /\ V \subseteq store["token"]
  <2>1. /\ Same("user") /\ Same("token") /\ Links(store["token"]) \subseteq Names(store["user"])
    BY <1>3, PairedOf DEF Paired
  <2>2. Sound("user", store["user"], created) /\ u \in store["user"]
    BY <2>1 DEF Same
  <2>3. /\ \A s \in store["token"] : s.ref = u.id <=> s.up = u.n
        /\ Links({s \in store["token"] : s.up # u.n}) \subseteq Names(store["user"] \ {u})
    <3> DEFINE P == store["user"]
               C == store["token"]
    <3>1. Sound("user", P, created) /\ u \in P /\ Links(C) \subseteq Names(P)
      BY <2>1, <2>2
    <3> HIDE DEF P, C
    <3>2. /\ \A s \in C : s.ref = u.id <=> s.up = u.n
          /\ Links({s \in C : s.up # u.n}) \subseteq Names(P \ {u})
      BY <3>1, Children
    <3> QED BY <3>2 DEF P, C
  <2> QED BY <2>1, <2>3 DEF Same, Store!ByRef
<1> HIDE DEF W, V
<1>4. Paired("user", "token")'
  BY <1>1, <1>2, <1>3, PairedOf, ChildMarked, TablesOf
<1> QED BY <1>1, <1>2, <1>4, OnePair, PairOf, RestOf

LEMMA CampaignCreateKeeps ==
  ASSUME StoreInv, Store!CampaignCreate PROVE StoreInv'
<1> DEFINE q == Store!Row(Store!Stamp(0), created + 1, 0, 0, "PENDING")
           r == [Store!Row(created + 2, created + 2, q.id, q.n, "PENDING") EXCEPT !.n = created + 2]
<1>1. Grows /\ created' = created + 2 /\ created + 1 \in Nat
  BY RowsCreated DEF Store!CampaignCreate
<1>2. /\ Entry(q) /\ q.n \in created + 1 .. created'
      /\ Entry(r) /\ r.n \in created + 1 .. created' /\ r.id = r.n /\ r.up = q.n /\ r.ref = q.id
  <2>1. q = [n |-> created + 1, id |-> Store!Stamp(0), key |-> created + 1, ref |-> 0, up |-> 0,
             mark |-> "PENDING"]
    BY DEF Store!Row
  <2>2. Entry(q) /\ q.n = created + 1
    BY <2>1, SMT DEF Entry
  <2> HIDE DEF q
  <2>3. r = [n |-> created + 2, id |-> created + 2, key |-> created + 2, ref |-> q.id, up |-> q.n,
             mark |-> "PENDING"]
    BY SMT DEF Store!Row
  <2>4. Entry(r) /\ r.n = created + 2 /\ r.id = r.n /\ r.up = q.n /\ r.ref = q.id
    BY <2>3, SMT DEF Entry
  <2> QED BY <1>1, <2>2, <2>4, SMT DEF Grows
<1>3. /\ store' = [store EXCEPT !["campaign"] = @ \cup {q}, !["row"] = @ \cup {r}]
      /\ ideal' = [ideal EXCEPT !["campaign"] = @ \cup {q}, !["row"] = @ \cup {r}]
      /\ Store!Clash("campaign", q.id) \subseteq troubles' /\ check' = check
  BY DEF Store!CampaignCreate
<1> HIDE DEF q, r
<1>4. /\ store'["campaign"] = store["campaign"] \cup {q}
      /\ ideal'["campaign"] = ideal["campaign"] \cup {q}
      /\ store'["row"] = store["row"] \cup {r} /\ ideal'["row"] = ideal["row"] \cup {r}
      /\ \A t \in Store!Tables \ {"campaign", "row"} : Rests(t)
      /\ StoreShape'
  BY <1>1, <1>3, TablesOf DEF StoreInv, StoreShape, Rests, Grows
<1>5. Clean("campaign")' => Store!ById("campaign", q.id) = {}
  BY <1>3, Clashes, TablesOf, AffectsOf
<1>6. Paired("campaign", "row")'
  <2>1. "campaign" \notin Serial /\ "row" \in Serial
    BY DEF Serial
  <2> QED BY <1>1, <1>2, <1>4, <1>5, <2>1, PairedOf, BothInserted
<1> QED BY <1>1, <1>3, <1>4, <1>6, OnePair, PairOf, RestOf

LEMMA WorkspaceCreateKeeps ==
  ASSUME StoreInv, NEW s, NEW u, NEW d, Store!WorkspaceCreate(s, u, d) PROVE StoreInv'
<1> DEFINE q == Store!Row(Store!Stamp(d), s, 0, 0, "USD")
           r == [Store!Row(Store!Stamp(d), <<q.id, u.id>>, q.id, q.n, "OWNER")
                   EXCEPT !.n = created + 2]
<1>1. Grows /\ created' = created + 2 /\ created + 1 \in Nat
  BY RowsCreated DEF Store!WorkspaceCreate
<1>2. /\ Entry(q) /\ q.n \in created + 1 .. created'
      /\ Entry(r) /\ r.n \in created + 1 .. created' /\ r.up = q.n /\ r.ref = q.id
  <2>1. q = [n |-> created + 1, id |-> Store!Stamp(d), key |-> s, ref |-> 0, up |-> 0,
             mark |-> "USD"]
    BY DEF Store!Row
  <2>2. Entry(q) /\ q.n = created + 1
    BY <2>1, SMT DEF Entry
  <2> HIDE DEF q
  <2>3. r = [n |-> created + 2, id |-> Store!Stamp(d), key |-> <<q.id, u.id>>, ref |-> q.id,
             up |-> q.n, mark |-> "OWNER"]
    BY SMT DEF Store!Row
  <2>4. Entry(r) /\ r.n = created + 2 /\ r.up = q.n /\ r.ref = q.id
    BY <2>3, SMT DEF Entry
  <2> QED BY <1>1, <2>2, <2>4, SMT DEF Grows
<1>3. /\ store' = [store EXCEPT !["workspace"] = @ \cup {q}, !["member"] = @ \cup {r}]
      /\ ideal' = [ideal EXCEPT !["workspace"] = @ \cup {q}, !["member"] = @ \cup {r}]
      /\ Store!Clash("workspace", q.id) \subseteq troubles'
      /\ Store!Clash("member", r.id) \subseteq troubles' /\ check' = check
  BY DEF Store!WorkspaceCreate
<1> HIDE DEF q, r
<1>4. /\ store'["workspace"] = store["workspace"] \cup {q}
      /\ ideal'["workspace"] = ideal["workspace"] \cup {q}
      /\ store'["member"] = store["member"] \cup {r} /\ ideal'["member"] = ideal["member"] \cup {r}
      /\ \A t \in Store!Tables \ {"workspace", "member"} : Rests(t)
      /\ StoreShape'
  BY <1>1, <1>3, TablesOf DEF StoreInv, StoreShape, Rests, Grows
<1>5. /\ Clean("workspace")' => Store!ById("workspace", q.id) = {}
      /\ Clean("member")' => Store!ById("member", r.id) = {}
  BY <1>3, Clashes, TablesOf, AffectsOf
<1>6. Paired("workspace", "member")'
  <2>1. "workspace" \notin Serial /\ "member" \notin Serial
    BY DEF Serial
  <2> QED BY <1>1, <1>2, <1>4, <1>5, <2>1, PairedOf, BothInserted
<1> QED BY <1>1, <1>3, <1>4, <1>6, OnePair, PairOf, RestOf

LEMMA MemberCreateKeeps ==
  ASSUME StoreInv, NEW w \in ideal["workspace"], NEW u, NEW d, Store!MemberCreate(w, u, d)
  PROVE  StoreInv'
<1> DEFINE r == Store!Row(Store!Stamp(d), <<w.id, u.id>>, w.id, w.n, "ADMIN")
<1>1. Grows /\ created' = created + 1 /\ created + 1 \in Nat
  BY RowsCreated DEF Store!MemberCreate
<1>2. Entry(r) /\ r.n \in created + 1 .. created' /\ r.up = w.n /\ r.ref = w.id
  BY <1>1, SMT DEF Entry, Store!Row
<1>3. /\ store' = [store EXCEPT !["member"] = @ \cup {r}] /\ ~Store!Taken("member", r.key)
      /\ ideal' = IF \E m \in ideal["member"] : m.up = w.n /\ m.key = r.key
                    THEN ideal ELSE [ideal EXCEPT !["member"] = @ \cup {r}]
      /\ Store!Clash("member", r.id) \subseteq troubles' /\ check' = check
  BY DEF Store!MemberCreate, Store!Push, Store!Insert
<1> HIDE DEF r
<1>4. /\ store'["member"] = store["member"] \cup {r}
      /\ \A t \in Store!Tables \ {"member"} : Rests(t)
      /\ StoreShape'
  BY <1>1, <1>3, TablesOf DEF StoreInv, StoreShape, Rests, Grows
<1>5. Clean("member")' => Store!ById("member", r.id) = {}
  BY <1>3, Clashes, TablesOf, AffectsOf
<1>6. ASSUME Clean("member")' PROVE ideal'["member"] = ideal["member"] \cup {r}
  <2>1. ideal["member"] = store["member"]
    BY <1>1, <1>6, CleanLater, PairedOf DEF Paired, Same
  <2>2. ideal' = [ideal EXCEPT !["member"] = @ \cup {r}]
    BY <1>3, <2>1 DEF Store!Taken
  <2> QED BY <2>2, TablesOf DEF StoreInv
<1>7. Paired("workspace", "member")'
  <2>1. "member" \notin Serial /\ Rests("workspace")
    BY <1>4, TablesOf DEF Serial
  <2> QED BY <1>1, <1>2, <1>4, <1>5, <1>6, <2>1, PairedOf, ChildInserted
<1> QED BY <1>1, <1>3, <1>4, <1>7, OnePair, PairOf, RestOf

(* A campaign with its rows, or a workspace with its members.              *)
LEMMA DeletedKeeps ==
  ASSUME StoreInv, NEW pc \in Pairs, NEW r \in ideal[pc[1]],
         Store!DeleteById(pc[1], pc[2], r), Timeless, check' = check
  PROVE  StoreInv'
<1> DEFINE p == pc[1]
           c == pc[2]
<1>1. /\ p \in Store!Tables /\ c \in Store!Tables /\ p # c /\ p # "record" /\ c # "record"
      /\ Clean(c) => Clean(p)
  BY CleanPairs
<1>2. Grows
  BY DEF Grows, Timeless, StoreInv, StoreShape
<1>3. Paired(p, c)
  BY DEF StoreInv
<1>4. /\ store' = [store EXCEPT ![p] = @ \ Store!First(Store!ById(p, r.id)),
                                ![c] = @ \ Store!ByRef(c, r.id)]
      /\ ideal' = [ideal EXCEPT ![p] = @ \ {r}, ![c] = {s \in @ : s.up # r.n}]
  BY DEF Store!DeleteById
<1>5. r \in ideal[p]
  OBVIOUS
<1> HIDE DEF p, c
<1>6. /\ store'[p] = store[p] \ Store!First(Store!ById(p, r.id)) /\ ideal'[p] = ideal[p] \ {r}
      /\ store'[c] = store[c] \ Store!ByRef(c, r.id)
      /\ ideal'[c] = {s \in ideal[c] : s.up # r.n}
      /\ \A t \in Store!Tables \ {p, c} : Rests(t)
      /\ StoreShape'
  BY <1>1, <1>2, <1>4 DEF Rests, StoreInv, StoreShape, Grows
<1>7. Paired(p, c)'
  BY <1>1, <1>2, <1>3, <1>5, <1>6, ParentRemoved
<1>8. OtherPairs(pc) /\ Rests("record")
  BY <1>1, <1>6, TablesOf DEF OtherPairs, Pairs, p, c
<1> QED BY <1>2, <1>6, <1>7, <1>8, OnePair DEF p, c

LEMMA MemberDeleteKeeps ==
  ASSUME StoreInv, NEW m \in ideal["member"], Store!MemberDelete(m) PROVE StoreInv'
<1>1. Grows /\ check' = check
  BY DEF Store!MemberDelete, Store!Quiet, Store!Untimed, StoreInv, StoreShape, Grows
<1>2. /\ store'["member"] = store["member"] \ Store!First(Store!ById("member", m.id))
      /\ ideal'["member"] = ideal["member"] \ {m}
      /\ \A t \in Store!Tables \ {"member"} : Rests(t)
      /\ StoreShape'
  BY <1>1, TablesOf DEF Store!MemberDelete, Store!Quiet, Rests, StoreInv, StoreShape, Grows
<1>3. Paired("workspace", "member")'
  BY <1>1, <1>2, PairedOf, ChildRemoved, TablesOf
<1> QED BY <1>1, <1>2, <1>3, OnePair, PairOf, RestOf

LEMMA WriteRowKeeps ==
  ASSUME StoreInv, NEW n, Store!WriteRow(n) PROVE StoreInv'
<1> DEFINE W == {r \in store["row"] : r.n = n}
           V == {r \in ideal["row"] : r.n = n}
<1>1. Grows /\ check' = check
  BY DEF Store!WriteRow, Store!Untimed, StoreInv, StoreShape, Grows
<1>2. /\ \A t \in Store!Tables \ {"row"} : Rests(t)
      /\ StoreShape'
      /\ MarksSame("row", W, V, "PAUSED") \/ Rests("row")
  BY <1>1, TablesOf DEF Store!WriteRow, Rests, StoreInv, StoreShape, Grows, MarksSame
<1>3. Clean("row") => W = V /\ V \subseteq store["row"]
  BY PairedOf DEF Paired, Same
<1> HIDE DEF W, V
<1>4. Paired("campaign", "row")'
  <2>1. CASE MarksSame("row", W, V, "PAUSED")
    BY <1>1, <1>2, <1>3, <2>1, PairedOf, ChildMarked, TablesOf
  <2>2. CASE Rests("row")
    BY <1>1, <1>2, <2>2, PairedOf, PairRests, TablesOf
  <2> QED BY <1>2, <2>1, <2>2
<1> QED BY <1>1, <1>2, <1>4, OnePair, PairOf, RestOf

(* Nothing is written. *)
LEMMA NothingWritten ==
  ASSUME StoreInv, Grows, store' = store, ideal' = ideal, check' = check
  PROVE  StoreInv'
<1>1. \A t : Rests(t)
  BY DEF Rests
<1>2. StoreShape'
  BY DEF Grows, StoreInv, StoreShape
<1>3. \A pc \in Pairs : Paired(pc[1], pc[2])'
  BY <1>1, PairRests DEF StoreInv
<1> QED BY <1>1, <1>2, <1>3, RecordsRest DEF StoreInv

(* Only idempotency records, or what is known of them, changed.            *)
LEMMA OnlyRecords ==
  ASSUME StoreInv, Grows, StoreShape', Recorded', \A t \in Store!Tables \ {"record"} : Rests(t)
  PROVE  StoreInv'
<1>1. ASSUME NEW pc \in Pairs PROVE Paired(pc[1], pc[2])'
  <2>1. Rests(pc[1]) /\ Rests(pc[2])
    BY CleanPairs
  <2> QED BY <2>1, PairRests DEF StoreInv
<1> QED BY <1>1 DEF StoreInv

LEMMA LookKeeps ==
  ASSUME StoreInv, NEW c \in Checkers, NEW k, Store!Look(c, k) PROVE StoreInv'
<1>1. Grows /\ store' = store /\ ideal' = ideal /\ check' = [check EXCEPT ![c] = k]
      /\ ~Store!Taken("record", k) /\ created' = created
  BY DEF Store!Look, Store!Untimed, StoreInv, StoreShape, Grows
<1>2. StoreShape'
  BY <1>1 DEF StoreInv, StoreShape
<1>3. \A t : Rests(t)
  BY <1>1 DEF Rests
<1>4. Recordable => Recordable'
  BY <1>1 DEF Recordable, Store!Taken, StoreInv, StoreShape
<1>5. Recorded'
  BY <1>1, <1>3, <1>4, CleanLater, SameRests DEF Recorded, StoreInv
<1> QED BY <1>1, <1>2, <1>3, <1>5, OnlyRecords

LEMMA RecordCreateKeeps ==
  ASSUME StoreInv, NEW c \in Checkers, Store!RecordCreate(c) PROVE StoreInv'
<1> DEFINE r == Store!Row(created + 1, check[c], 0, 0, millis)
<1>1. Grows /\ created' = created + 1 /\ created + 1 \in Nat
  BY RowsCreated DEF Store!RecordCreate
<1>2. Entry(r) /\ r.n \in created + 1 .. created' /\ r.id = r.n /\ r.key = check[c]
  BY <1>1, SMT DEF Entry, Store!Row
<1>3. /\ store' = [store EXCEPT !["record"] = @ \cup {r}] /\ check[c] # Store!NoKey
      /\ ideal' = IF \E s \in ideal["record"] : s.key = check[c]
                    THEN ideal ELSE [ideal EXCEPT !["record"] = @ \cup {r}]
      /\ check' = [check EXCEPT ![c] = Store!NoKey]
      /\ (\E d \in Checkers \ {c} : check[d] = check[c]) => "overlap" \in troubles'
  BY DEF Store!RecordCreate, Store!Push, Store!Insert
<1> HIDE DEF r
<1>4. /\ store'["record"] = store["record"] \cup {r}
      /\ \A t \in Store!Tables \ {"record"} : Rests(t)
      /\ StoreShape'
  BY <1>1, <1>3, TablesOf DEF StoreInv, StoreShape, Rests, Grows
<1>5. ASSUME Clean("record")' PROVE Same("record")' /\ Recordable'
  <2>1. Same("record") /\ Recordable
    BY <1>1, <1>5, CleanLater DEF StoreInv, Recorded
  <2>2. \A s \in ideal["record"] : s.key # check[c]
    BY <1>3, <2>1 DEF Same, Recordable
  <2>3. ideal'["record"] = ideal["record"] \cup {r}
    BY <1>3, <2>2, TablesOf DEF StoreInv
  <2>4. Same("record")'
    BY <1>1, <1>2, <1>4, <2>1, <2>3, SameInsert DEF Serial
  <2>5. \A d \in Checkers \ {c} : check[d] # check[c]
    BY <1>3, <1>5, AffectsOf DEF Clean
  <2>6. /\ check'[c] = Store!NoKey /\ \A d \in Checkers \ {c} : check'[d] = check[d]
    BY <1>3 DEF StoreInv, StoreShape
  <2>7. Recordable'
    BY <1>2, <1>4, <2>1, <2>5, <2>6 DEF Recordable
  <2> QED BY <2>4, <2>7
<1> QED BY <1>1, <1>4, <1>5, OnlyRecords DEF Recorded

LEMMA RecordDeleteManyKeeps ==
  ASSUME StoreInv, NEW keys, NEW before, Store!RecordDeleteMany(keys, before) PROVE StoreInv'
<1>1. Grows /\ check' = check
  BY DEF Store!RecordDeleteMany, Store!Quiet, Store!Untimed, StoreInv, StoreShape, Grows
<1>2. /\ store'["record"] = {r \in store["record"] : r.key \notin keys /\ r.mark >= before}
      /\ ideal'["record"] = {r \in ideal["record"] : r.key \notin keys /\ r.mark >= before}
      /\ \A t \in Store!Tables \ {"record"} : Rests(t)
      /\ StoreShape'
  BY <1>1, TablesOf DEF Store!RecordDeleteMany, Store!Quiet, Rests, StoreInv, StoreShape, Grows
<1>3. ASSUME Clean("record")' PROVE Same("record")' /\ Recordable'
  <2>1. Same("record") /\ Recordable
    BY <1>1, <1>3, CleanLater DEF StoreInv, Recorded
  <2>2. store'["record"] \subseteq store["record"] /\ ideal'["record"] = store'["record"]
    BY <1>2, <2>1 DEF Same
  <2> QED BY <1>1, <2>1, <2>2, SameRemoved DEF Recordable
<1> QED BY <1>1, <1>2, <1>3, OnlyRecords DEF Recorded

LEMMA StoreStepInv ==
  ASSUME StoreInv, Store!Next PROVE StoreInv'
<1>1. ASSUME Store!Tick \/ Store!Throw PROVE StoreInv'
  BY <1>1, NothingWritten
     DEF Store!Tick, Store!Throw, Store!Quiet, Store!Untimed, Grows, StoreInv, StoreShape
<1>2. ASSUME Store!Cleanup \/ \E k \in IdemKeys : Store!Forget(k) PROVE StoreInv'
  BY <1>2, RecordDeleteManyKeeps DEF Store!Cleanup, Store!Forget
<1>3. ASSUME NEW u \in ideal["user"], Store!UserUpdate(u) PROVE StoreInv'
  BY <1>3, ParentUpdated, PairOf DEF Store!UserUpdate, Store!Untimed, Store!Quiet, Timeless
<1>4. ASSUME NEW t \in ideal["token"], Store!TokenUpdate(t) PROVE StoreInv'
  BY <1>4, ChildUpdated, PairOf DEF Store!TokenUpdate, Store!Untimed, Store!Quiet, Timeless
<1>5. ASSUME NEW c \in ideal["campaign"], Store!CampaignUpdate(c) PROVE StoreInv'
  BY <1>5, ParentUpdated, PairOf DEF Store!CampaignUpdate, Store!Untimed, Store!Quiet, Timeless
<1>6. ASSUME NEW c \in ideal["campaign"], Store!Begin(c) PROVE StoreInv'
  BY <1>6, ParentUpdated, PairOf DEF Store!Begin, Store!Untimed, Timeless
<1>7. ASSUME NEW c \in ideal["campaign"], Store!CampaignDelete(c) PROVE StoreInv'
  BY <1>7, DeletedKeeps, PairOf DEF Store!CampaignDelete, Store!Untimed, Store!Quiet, Timeless
<1>8. ASSUME NEW r \in ideal["row"], Store!RowUpdate(r) PROVE StoreInv'
  BY <1>8, ChildUpdated, PairOf DEF Store!RowUpdate, Store!Untimed, Store!Quiet, Timeless
<1>9. ASSUME NEW w \in ideal["workspace"], Store!WorkspaceUpdate(w) PROVE StoreInv'
  BY <1>9, ParentUpdated, PairOf DEF Store!WorkspaceUpdate, Store!Untimed, Store!Quiet, Timeless
<1>10. ASSUME NEW w \in ideal["workspace"], Store!WorkspaceDelete(w) PROVE StoreInv'
  BY <1>10, DeletedKeeps, PairOf DEF Store!WorkspaceDelete, Store!Untimed, Store!Quiet, Timeless
<1>11. ASSUME NEW m \in ideal["member"], Store!MemberUpdate(m) PROVE StoreInv'
  BY <1>11, ChildUpdated, PairOf DEF Store!MemberUpdate, Store!Untimed, Store!Quiet, Timeless
<1> QED
  BY <1>1, <1>2, <1>3, <1>4, <1>5, <1>6, <1>7, <1>8, <1>9, <1>10, <1>11,
     UserCreateKeeps, TokenCreateKeeps, TokenUpdateManyKeeps, CampaignCreateKeeps, WriteRowKeeps,
     WorkspaceCreateKeeps, MemberCreateKeeps, MemberDeleteKeeps, LookKeeps, RecordCreateKeeps
  DEF Store!Next

LEMMA StoreKeeps ==
  Store!Spec => []Store!StoreAgrees
<1>1. StoreInv /\ [Store!Next]_Store!vars => StoreInv'
  <2> SUFFICES ASSUME StoreInv, [Store!Next]_Store!vars PROVE StoreInv'
    OBVIOUS
  <2>1. CASE UNCHANGED Store!vars
    BY <2>1, NothingWritten DEF Store!vars, Grows, StoreInv, StoreShape
  <2> QED BY <2>1, StoreStepInv
<1>2. StoreInv => Store!StoreAgrees
  <2> SUFFICES ASSUME StoreInv, NEW t \in Store!Tables, Clean(t) PROVE store[t] = ideal[t]
    BY DEF Store!StoreAgrees, Clean
  <2>1. t = "record" \/ \E pc \in Pairs : t = pc[1] \/ t = pc[2]
    BY TablesOf, PairOf
  <2> QED BY <2>1 DEF StoreInv, Recorded, Paired, Same
<1> QED BY <1>1, <1>2, StoreInitInv, PTL DEF Store!Spec

-----------------------------------------------------------------------------
(* The form: what was submitted, and what can be corrected                 *)

FormAmounts == [units : Nat, decimals : Seq(0..9), plain : BOOLEAN]
Lists == [Form!Texts -> Nat]
Values ==
  [name : Form!Texts, budget : FormAmounts, targets : SUBSET Form!Targets, headlines : Lists,
   descriptions : Lists, customerId : Form!Texts, adAccountId : Form!Texts]

(* Some platform stays a target: a toggle can leave no error to correct.   *)
FormInv ==
  /\ form \in Values /\ form.targets # {} /\ submitted \in BOOLEAN
  /\ Form!FormIsCorrigible /\ Form!SubmissionIsExact

(* What the schema finds wrong, field by field. *)
LEMMA InvalidOf ==
  ASSUME NEW v \in Values
  PROVE  /\ Form!Invalid(v) \subseteq {"name", "budget", "targets", "headlines", "descriptions",
                                       "customerId", "adAccountId"}
         /\ "name" \in Form!Invalid(v) <=> v.name # "fit"
         /\ "budget" \in Form!Invalid(v) <=> ~Form!BudgetFits(v.budget)
         /\ "targets" \in Form!Invalid(v) <=> v.targets = {}
         /\ "headlines" \in Form!Invalid(v) <=> ~Form!HeadlinesFit(v.headlines)
         /\ "descriptions" \in Form!Invalid(v) <=> ~Form!DescriptionsFit(v.descriptions)
         /\ "customerId" \in Form!Invalid(v) <=> v.customerId = "bad"
         /\ "adAccountId" \in Form!Invalid(v) <=> v.adAccountId = "bad"
BY DEF Form!Invalid, Values

(* Values that differ in one field differ in no other error. *)
LEMMA EditedErrors ==
  ASSUME NEW v \in Values, NEW w \in Values,
         NEW field \in {"name", "budget", "headlines", "descriptions", "customerId", "adAccountId"},
         v.targets # {} /\ w.targets # {},
         field # "name" => w.name = v.name,
         field # "budget" => w.budget = v.budget,
         field # "headlines" => w.headlines = v.headlines,
         field # "descriptions" => w.descriptions = v.descriptions,
         field # "customerId" => w.customerId = v.customerId,
         field # "adAccountId" => w.adAccountId = v.adAccountId
  PROVE  (Form!Invalid(v) \ {field}) \cup (Form!Invalid(w) \cap {field}) = Form!Invalid(w)
<1> DEFINE I == Form!Invalid(v)
           J == Form!Invalid(w)
<1>1. /\ I \subseteq {"name", "budget", "targets", "headlines", "descriptions", "customerId",
                      "adAccountId"}
      /\ J \subseteq {"name", "budget", "targets", "headlines", "descriptions", "customerId",
                      "adAccountId"}
      /\ "targets" \notin I /\ "targets" \notin J
      /\ field # "name" => ("name" \in I <=> "name" \in J)
      /\ field # "budget" => ("budget" \in I <=> "budget" \in J)
      /\ field # "headlines" => ("headlines" \in I <=> "headlines" \in J)
      /\ field # "descriptions" => ("descriptions" \in I <=> "descriptions" \in J)
      /\ field # "customerId" => ("customerId" \in I <=> "customerId" \in J)
      /\ field # "adAccountId" => ("adAccountId" \in I <=> "adAccountId" \in J)
  BY InvalidOf
<1> HIDE DEF I, J
<1>2. (I \ {field}) \cup (J \cap {field}) = J
  BY <1>1
<1> QED BY <1>2 DEF I, J

(* What is typed for a budget has digits. *)
LEMMA FormAmountsOk ==
  ASSUME FormConstants
  PROVE  /\ Amounts \subseteq FormAmounts /\ Form!DefaultAmount \in FormAmounts
         /\ Form!Texts = {"none", "fit", "bad"}
BY DEF FormConstants, FormAmounts, Form!DefaultAmount, Form!Texts

LEMMA FormInitInv == FormConstants /\ Form!Init => FormInv
<1> SUFFICES ASSUME FormConstants, Form!Init PROVE FormInv OBVIOUS
<1>1. Form!DefaultAmount \in FormAmounts /\ Form!Some(MinHeadlines) \in Lists
      /\ Form!Some(MinDescriptions) \in Lists
  BY FormAmountsOk DEF Form!Some, Lists, FormConstants
<1>2. form \in Values /\ form.targets # {}
  BY <1>1 DEF Form!Init, Form!DefaultValues, Values, Form!Texts, Form!Targets
<1>3. Form!Count(Form!Some(MinHeadlines)) = MinHeadlines
      /\ Form!Count(Form!Some(MinDescriptions)) = MinDescriptions
  BY DEF Form!Count, Form!Some, Form!Texts, FormConstants
<1>4. Form!FormIsCorrigible
  BY <1>3 DEF Form!FormIsCorrigible, Form!Init, Form!DefaultValues, FormConstants
<1> QED BY <1>2, <1>4 DEF FormInv, Form!Init, Form!SubmissionIsExact

(* The edit of a field keeps what holds. *)
LEMMA Edited ==
  ASSUME FormConstants, FormInv, NEW value,
         NEW field \in {"name", "budget", "headlines", "descriptions", "customerId", "adAccountId"},
         Form!Edit(field, value),
         field \in {"name", "customerId", "adAccountId"} => value \in Form!Texts,
         field = "budget" => value \in FormAmounts,
         field = "headlines" =>
           value \in Lists /\ Form!Count(value) \in MinHeadlines..MaxHeadlines,
         field = "descriptions" =>
           value \in Lists /\ Form!Count(value) \in MinDescriptions..MaxDescriptions
  PROVE  FormInv'
<1>1. form \in Values /\ form' = [form EXCEPT ![field] = value]
  BY DEF FormInv, Form!Edit
<1>2. form' \in Values /\ form'.targets = form.targets
  BY <1>1 DEF Values
<1>3. /\ field # "name" => form'.name = form.name
      /\ field # "budget" => form'.budget = form.budget
      /\ field # "headlines" => form'.headlines = form.headlines
      /\ field # "descriptions" => form'.descriptions = form.descriptions
      /\ field # "customerId" => form'.customerId = form.customerId
      /\ field # "adAccountId" => form'.adAccountId = form.adAccountId
      /\ field = "headlines" => form'.headlines = value
      /\ field = "descriptions" => form'.descriptions = value
  BY <1>1 DEF Values
<1>4. submitted => errors = Form!Invalid(form)
  BY DEF FormInv, Form!FormIsCorrigible
<1>5. /\ submitted' = submitted /\ submission' = submission
      /\ submitted => errors' = (errors \ {field}) \cup (Form!Invalid(form') \cap {field})
  BY DEF Form!Edit
<1>6. submitted' => errors' = Form!Invalid(form')
  <2>1. form.targets # {} /\ form'.targets # {}
    BY <1>2 DEF FormInv
  <2>2. (Form!Invalid(form) \ {field}) \cup (Form!Invalid(form') \cap {field}) = Form!Invalid(form')
    <3> DEFINE v == form
               w == form'
    <3>1. /\ v \in Values /\ w \in Values /\ v.targets # {} /\ w.targets # {}
          /\ field # "name" => w.name = v.name
          /\ field # "budget" => w.budget = v.budget
          /\ field # "headlines" => w.headlines = v.headlines
          /\ field # "descriptions" => w.descriptions = v.descriptions
          /\ field # "customerId" => w.customerId = v.customerId
          /\ field # "adAccountId" => w.adAccountId = v.adAccountId
      BY <1>1, <1>2, <1>3, <2>1
    <3> HIDE DEF v, w
    <3>2. (Form!Invalid(v) \ {field}) \cup (Form!Invalid(w) \cap {field}) = Form!Invalid(w)
      BY <3>1, EditedErrors
    <3> QED BY <3>2 DEF v, w
  <2> QED BY <1>4, <1>5, <2>2
<1>7. Form!Count(form'.headlines) \in MinHeadlines..MaxHeadlines
      /\ Form!Count(form'.descriptions) \in MinDescriptions..MaxDescriptions
  BY <1>3 DEF FormInv, Form!FormIsCorrigible
<1> QED BY <1>2, <1>5, <1>6, <1>7 DEF FormInv, Form!FormIsCorrigible, Form!SubmissionIsExact

(* A text more, less, or of another kind. *)
LEMMA ListEdits ==
  ASSUME NEW list \in Lists, NEW t \in Form!Texts
  PROVE  /\ Form!More(list, t) \in Lists
         /\ Form!Count(Form!More(list, t)) = Form!Count(list) + 1
         /\ list[t] > 0 => /\ Form!Less(list, t) \in Lists
                           /\ Form!Count(Form!Less(list, t)) = Form!Count(list) - 1
         /\ Form!Count(list) \in Nat
BY DEF Lists, Form!Texts, Form!More, Form!Less, Form!Count

(* A text that was typed over is as long a list as before. *)
LEMMA ListMoves ==
  ASSUME NEW list \in Lists, NEW from \in Form!Texts, NEW to \in Form!Texts, list[from] > 0
  PROVE  LET moved == Form!More(Form!Less(list, from), to) IN
         moved \in Lists /\ Form!Count(moved) = Form!Count(list)
<1>1. Form!Less(list, from) \in Lists /\ Form!Count(Form!Less(list, from)) = Form!Count(list) - 1
      /\ Form!Count(list) \in Nat
  BY ListEdits
<1> QED BY <1>1, ListEdits

(* A budget that fits has at most two decimals, so nothing is lost.        *)
LEMMA Converted ==
  ASSUME NEW a \in FormAmounts, Form!BudgetFits(a)
  PROVE  /\ Form!DollarsToMicros(a) = 10000 * Form!Hundredths(a)
         /\ LET f == Form!FormatMicros(Form!DollarsToMicros(a)) IN
            100 * f[1] + f[2] = Form!Hundredths(a)
<1> DEFINE d == Form!Digit(a.decimals, 1)
           e == Form!Digit(a.decimals, 2)
           u == a.units
<1>1. /\ d \in 0..9 /\ e \in 0..9 /\ u \in Nat /\ Form!Digit(a.decimals, 3) = 0
  BY DEF FormAmounts, Form!Digit, Form!BudgetFits
<1> HIDE DEF d, e, u
<1>2. Form!DollarsToMicros(a) = 1000000 * u + (100000 * d + 10000 * e + 1000 * 0)
  BY <1>1, SMT DEF Form!DollarsToMicros, Form!Fraction, d, e, u
<1>3. Form!Hundredths(a) = 100 * u + 10 * d + e
  BY <1>1, SMT DEF Form!Hundredths, d, e, u
<1>4. Form!DollarsToMicros(a) = 10000 * Form!Hundredths(a)
  BY <1>1, <1>2, <1>3, SMT
<1>5. (10000 * (100 * u + 10 * d + e)) \div 1000000 = u
  BY <1>1, SMT
<1>6. (10000 * (100 * u + 10 * d + e)) % 1000000 = 10000 * (10 * d + e)
  BY <1>1, SMT
<1>7. (10000 * (10 * d + e)) \div 10000 = 10 * d + e
  BY <1>1, SMT
<1>8. Form!FormatMicros(Form!DollarsToMicros(a)) = <<u, 10 * d + e>>
  BY <1>3, <1>4, <1>5, <1>6, <1>7, SMT DEF Form!FormatMicros
<1> QED BY <1>1, <1>3, <1>4, <1>8, SMT

LEMMA SameFormCardinality ==
  \A S : Form!Cardinality(S) = Cardinality(S)
BY DEF Form!Cardinality, Cardinality

LEMMA FormStepInv ==
  ASSUME FormConstants, FormInv, Form!Next PROVE FormInv'
<1>1. /\ form \in Values /\ submitted \in BOOLEAN
      /\ Form!Count(form.headlines) \in MinHeadlines..MaxHeadlines
      /\ Form!Count(form.descriptions) \in MinDescriptions..MaxDescriptions
      /\ form.headlines \in Lists /\ form.descriptions \in Lists
  BY DEF FormInv, Form!FormIsCorrigible, Values
<1>2. /\ MinHeadlines \in Nat /\ MaxHeadlines \in Nat
      /\ MinDescriptions \in Nat /\ MaxDescriptions \in Nat
  BY DEF FormConstants
<1>3. ASSUME Form!Submit PROVE FormInv'
  <2>1. ASSUME Form!Invalid(form) = {} PROVE Form!SubmissionIsExact'
    <3>1. Form!BudgetFits(form.budget) /\ Form!HeadlinesFit(form.headlines)
          /\ form.budget \in FormAmounts
      BY <1>1, <2>1, InvalidOf, Zenon DEF Values
    <3>2. submission' = {Form!OnSubmit(form)}
      BY <1>3, <2>1 DEF Form!Submit
    <3> DEFINE r == Form!OnSubmit(form)
    <3>3. r.micros = Form!DollarsToMicros(form.budget) /\ r.typed = form.budget
          /\ r.formatted = Form!FormatMicros(Form!DollarsToMicros(form.budget))
          /\ r.overrides = Form!Overrides(form)
      BY DEF Form!OnSubmit
    <3>4. Form!Overrides(form).google # <<>> => Form!Overrides(form).google[2] = form.headlines
      BY DEF Form!Overrides
    <3> HIDE DEF r
    <3>5. /\ r.micros = 10000 * Form!Hundredths(r.typed)
          /\ 100 * r.formatted[1] + r.formatted[2] = Form!Hundredths(r.typed)
          /\ r.overrides.google # <<>> => Form!HeadlinesFit(r.overrides.google[2])
      BY <3>1, <3>3, <3>4, Converted
    <3> QED BY <3>2, <3>5 DEF Form!SubmissionIsExact, r
  <2>2. ASSUME Form!Invalid(form) # {} PROVE Form!SubmissionIsExact'
    BY <1>3, <2>2 DEF Form!Submit, FormInv, Form!SubmissionIsExact
  <2>3. form' = form /\ submitted' = TRUE /\ errors' = Form!Invalid(form)
    BY <1>3 DEF Form!Submit
  <2> QED BY <2>1, <2>2, <2>3 DEF FormInv, Form!FormIsCorrigible
<1>4. ASSUME NEW t, Form!OpenTab(t) PROVE FormInv'
  BY <1>4 DEF Form!OpenTab, FormInv, Form!FormIsCorrigible, Form!SubmissionIsExact
<1>5. ASSUME NEW a \in Amounts, Form!TypeBudget(a) PROVE FormInv'
  BY <1>5, Edited, FormAmountsOk DEF Form!TypeBudget
<1>6. ASSUME NEW p \in Form!Targets, Form!TogglePlatform(p) PROVE FormInv'
  <2>1. \E T \in SUBSET Form!Targets : T # {} /\ form' = [form EXCEPT !.targets = T]
    <3>1. CASE p \in form.targets
      <4>1. form.targets \ {p} # {}
        <5>1. form.targets = {p} => Cardinality(form.targets) = 1
          BY FS_Singleton
        <5>2. form.targets # {p}
          BY <1>6, <3>1, <5>1, SameFormCardinality DEF Form!TogglePlatform
        <5> QED BY <3>1, <5>2
      <4> QED BY <1>1, <1>6, <3>1, <4>1 DEF Form!TogglePlatform, Values
    <3>2. CASE p \notin form.targets
      BY <1>1, <1>6, <3>2 DEF Form!TogglePlatform, Values
    <3> QED BY <3>1, <3>2
  <2>2. PICK T \in SUBSET Form!Targets : T # {} /\ form' = [form EXCEPT !.targets = T]
    BY <2>1
  <2>3. /\ form' \in Values /\ form'.targets # {}
        /\ form'.name = form.name /\ form'.budget = form.budget
        /\ form'.headlines = form.headlines /\ form'.descriptions = form.descriptions
        /\ form'.customerId = form.customerId /\ form'.adAccountId = form.adAccountId
    BY <1>1, <2>2 DEF Values
  <2>4. Form!Invalid(form') = Form!Invalid(form)
    <3>1. (Form!Invalid(form) \ {"name"}) \cup (Form!Invalid(form') \cap {"name"}) = Form!Invalid(form')
      BY <1>1, <2>3, EditedErrors, Zenon DEF FormInv
    <3>2. "name" \in Form!Invalid(form') <=> "name" \in Form!Invalid(form)
      BY <1>1, <2>3, InvalidOf, Zenon
    <3> QED BY <3>1, <3>2
  <2>5. submitted' = submitted /\ errors' = errors /\ submission' = submission
    BY <1>6 DEF Form!TogglePlatform
  <2> QED BY <1>1, <2>3, <2>4, <2>5 DEF FormInv, Form!FormIsCorrigible, Form!SubmissionIsExact
<1>7. ASSUME NEW t \in Form!Texts,
             Form!TypeName(t) \/ Form!TypeCustomerId(t) \/ Form!TypeAdAccountId(t)
      PROVE  FormInv'
  <2>1. CASE Form!TypeName(t) BY <2>1, Edited DEF Form!TypeName
  <2>2. CASE Form!TypeCustomerId(t) BY <2>2, Edited DEF Form!TypeCustomerId
  <2>3. CASE Form!TypeAdAccountId(t) BY <2>3, Edited DEF Form!TypeAdAccountId
  <2> QED BY <1>7, <2>1, <2>2, <2>3
<1>8. ASSUME Form!AppendHeadline PROVE FormInv'
  <2>1. Form!More(form.headlines, "none") \in Lists
        /\ Form!Count(Form!More(form.headlines, "none")) \in MinHeadlines..MaxHeadlines
    <3>1. "none" \in Form!Texts /\ Form!Count(form.headlines) < MaxHeadlines
      BY <1>8 DEF Form!AppendHeadline, Form!Texts
    <3>2. /\ Form!More(form.headlines, "none") \in Lists /\ Form!Count(form.headlines) \in Nat
          /\ Form!Count(Form!More(form.headlines, "none")) = Form!Count(form.headlines) + 1
      BY <1>1, <3>1, ListEdits
    <3> QED BY <1>1, <1>2, <3>1, <3>2
  <2> QED BY <1>8, <2>1, Edited DEF Form!AppendHeadline
<1>9. ASSUME Form!AppendDescription PROVE FormInv'
  <2>1. Form!More(form.descriptions, "none") \in Lists
        /\ Form!Count(Form!More(form.descriptions, "none")) \in MinDescriptions..MaxDescriptions
    <3>1. "none" \in Form!Texts /\ Form!Count(form.descriptions) < MaxDescriptions
      BY <1>9 DEF Form!AppendDescription, Form!Texts
    <3>2. /\ Form!More(form.descriptions, "none") \in Lists /\ Form!Count(form.descriptions) \in Nat
          /\ Form!Count(Form!More(form.descriptions, "none")) = Form!Count(form.descriptions) + 1
      BY <1>1, <3>1, ListEdits
    <3> QED BY <1>1, <1>2, <3>1, <3>2
  <2> QED BY <1>9, <2>1, Edited DEF Form!AppendDescription
<1>10. ASSUME NEW t \in Form!Texts, Form!RemoveHeadline(t) PROVE FormInv'
  <2>1. Form!Less(form.headlines, t) \in Lists
        /\ Form!Count(Form!Less(form.headlines, t)) \in MinHeadlines..MaxHeadlines
    BY <1>1, <1>2, <1>10, ListEdits DEF Form!RemoveHeadline
  <2> QED BY <1>10, <2>1, Edited DEF Form!RemoveHeadline
<1>11. ASSUME NEW t \in Form!Texts, Form!RemoveDescription(t) PROVE FormInv'
  <2>1. Form!Less(form.descriptions, t) \in Lists
        /\ Form!Count(Form!Less(form.descriptions, t)) \in MinDescriptions..MaxDescriptions
    BY <1>1, <1>2, <1>11, ListEdits DEF Form!RemoveDescription
  <2> QED BY <1>11, <2>1, Edited DEF Form!RemoveDescription
<1>12. ASSUME NEW from \in Form!Texts, NEW to \in Form!Texts,
              Form!TypeHeadline(from, to) \/ Form!TypeDescription(from, to)
       PROVE  FormInv'
  <2>1. CASE Form!TypeHeadline(from, to)
    <3>1. LET moved == Form!More(Form!Less(form.headlines, from), to) IN
          moved \in Lists /\ Form!Count(moved) \in MinHeadlines..MaxHeadlines
      BY <1>1, <2>1, ListMoves DEF Form!TypeHeadline
    <3> QED BY <2>1, <3>1, Edited DEF Form!TypeHeadline
  <2>2. CASE Form!TypeDescription(from, to)
    <3>1. LET moved == Form!More(Form!Less(form.descriptions, from), to) IN
          moved \in Lists /\ Form!Count(moved) \in MinDescriptions..MaxDescriptions
      BY <1>1, <2>2, ListMoves DEF Form!TypeDescription
    <3> QED BY <2>2, <3>1, Edited DEF Form!TypeDescription
  <2> QED BY <1>12, <2>1, <2>2
<1> QED BY <1>3, <1>4, <1>5, <1>6, <1>7, <1>8, <1>9, <1>10, <1>11, <1>12 DEF Form!Next

(* The form's properties follow from its invariant. *)
LEMMA FormKeeps ==
  ASSUME FormConstants
  PROVE  Form!Spec => [](Form!SubmissionIsExact /\ Form!FormIsCorrigible)
<1>1. FormInv /\ [Form!Next]_Form!vars => FormInv'
  <2> SUFFICES ASSUME FormInv, [Form!Next]_Form!vars PROVE FormInv'
    OBVIOUS
  <2>1. CASE UNCHANGED Form!vars
    BY <2>1 DEF Form!vars, FormInv, Form!FormIsCorrigible, Form!SubmissionIsExact
  <2> QED BY <2>1, FormStepInv
<1>2. FormInv => Form!SubmissionIsExact /\ Form!FormIsCorrigible
  BY DEF FormInv
<1> QED BY <1>1, <1>2, FormInitInv, PTL DEF Form!Spec

-----------------------------------------------------------------------------
(* Insights: sums                                                          *)

(* A set of numbers has a least one: induction, by the smallest number for *)
(* which something is otherwise.                                           *)
LEMMA Least ==
  ASSUME NEW T, T \subseteq Nat, T # {}
  PROVE  \E n \in T : \A m \in T : n <= m
<1> DEFINE R == {p \in Nat \X Nat : p[1] < p[2]}
<1>1. IsWellFoundedOn(R, Nat)
  BY NatLessThanWellFounded DEF OpToRel
<1> HIDE DEF R
<1>2. PICK n \in T : \A m \in T : <<m, n>> \notin R
  BY <1>1, WFMin
<1>3. \A m \in Nat : m < n => <<m, n>> \in R
  BY DEF R
<1>4. \A m \in T : ~(m < n)
  BY <1>2, <1>3, Zenon
<1>5. \A m \in T : m \in Nat /\ n \in Nat
  OBVIOUS
<1> QED BY <1>4, <1>5

(* What MapThenSumSet computes, of the numbers v over the set D: it adds   *)
(* up the subsets, each from the one without its chosen element.           *)
Chosen(s) == CHOOSE x \in s : TRUE
Step(it, v, s) == IF s = {} THEN 0 ELSE v[Chosen(s)] + it[s \ {Chosen(s)}]
Sums(it, v, D) == it = [s \in SUBSET D |-> Step(it, v, s)]
SumOf(v, D) == (CHOOSE it : Sums(it, v, D))[D]

LEMMA Smaller ==
  ASSUME NEW s, s # {}, IsFiniteSet(s)
  PROVE  /\ Chosen(s) \in s /\ IsFiniteSet(s \ {Chosen(s)})
         /\ Cardinality(s) \in Nat \ {0} /\ Cardinality(s \ {Chosen(s)}) = Cardinality(s) - 1
<1>1. Chosen(s) \in s
  BY DEF Chosen
<1> QED BY <1>1, FS_RemoveElement, FS_CardinalityType, FS_EmptySet

(* There is one function that adds up, by induction on the size of the     *)
(* subsets it is defined for.                                              *)
LEMMA SumsExist ==
  ASSUME NEW D, IsFiniteSet(D), NEW v
  PROVE  \E it : Sums(it, v, D)
<1> DEFINE Small(k) == {s \in SUBSET D : Cardinality(s) <= k}
           Upto(it, k) == it = [s \in Small(k) |-> Step(it, v, s)]
           Not == {k \in Nat : \A it : ~Upto(it, k)}
<1>1. \A s \in SUBSET D : IsFiniteSet(s) /\ Cardinality(s) \in Nat
  BY FS_Subset, FS_CardinalityType
<1>2. 0 \notin Not
  <2> DEFINE it == [s \in Small(0) |-> 0]
  <2>1. \A s \in Small(0) : s = {}
    BY <1>1, FS_EmptySet
  <2>2. [s \in Small(0) |-> Step(it, v, s)] = it
    BY <2>1 DEF Step
  <2> QED BY <2>2
<1>3. ASSUME NEW k \in Nat, k \notin Not PROVE k + 1 \notin Not
  <2>1. PICK f : Upto(f, k)
    BY <1>3
  <2> DEFINE g == [s \in Small(k + 1) |-> Step(f, v, s)]
  <2>2. \A s \in Small(k) : s \in Small(k + 1) /\ g[s] = f[s]
    BY <1>1, <2>1
  <2>3. \A s \in Small(k + 1) : s # {} => s \ {Chosen(s)} \in Small(k)
    BY <1>1, Smaller
  <2>4. \A s \in Small(k + 1) : Step(g, v, s) = Step(f, v, s)
    <3> HIDE DEF g, Small
    <3> QED BY <2>2, <2>3 DEF Step
  <2>5. g = [s \in Small(k + 1) |-> Step(g, v, s)]
    BY <2>4
  <2> QED BY <2>5
<1>4. Not = {}
  <2> SUFFICES ASSUME Not # {} PROVE FALSE
    OBVIOUS
  <2>1. PICK n \in Not : \A m \in Not : n <= m
    BY Least
  <2>2. n # 0 /\ n - 1 \in Nat /\ n - 1 \notin Not
    BY <1>2, <2>1
  <2> HIDE DEF Not
  <2>3. (n - 1) + 1 \notin Not
    BY <1>3, <2>2
  <2>4. (n - 1) + 1 = n
    BY <2>1, <2>2 DEF Not
  <2> QED BY <2>1, <2>3, <2>4
<1>5. Small(Cardinality(D)) = SUBSET D
  BY <1>1, FS_Subset, FS_CardinalityType
<1>6. PICK it : Upto(it, Cardinality(D))
  BY <1>4, FS_CardinalityType
<1> QED BY <1>5, <1>6 DEF Sums

LEMMA SumsOnce ==
  ASSUME NEW D, IsFiniteSet(D), NEW v, NEW w, \A x \in D : v[x] = w[x],
         NEW f, NEW g, Sums(f, v, D), Sums(g, w, D)
  PROVE  f = g
<1> DEFINE Bad == {s \in SUBSET D : f[s] # g[s]}
           Sizes == {Cardinality(s) : s \in Bad}
<1>1. \A s \in SUBSET D : IsFiniteSet(s) /\ Cardinality(s) \in Nat
  BY FS_Subset, FS_CardinalityType
<1>2. Bad = {}
  <2> SUFFICES ASSUME Bad # {} PROVE FALSE
    OBVIOUS
  <2>0. Sizes \subseteq Nat /\ Sizes # {}
    BY <1>1
  <2>1. PICK n \in Sizes : \A m \in Sizes : n <= m
    BY <2>0, Least, Zenon
  <2>2. PICK s \in Bad : n = Cardinality(s)
    OBVIOUS
  <2>3. f[s] = Step(f, v, s) /\ g[s] = Step(g, w, s)
    BY DEF Sums
  <2>4. s # {}
    BY <2>3 DEF Step
  <2> DEFINE t == s \ {Chosen(s)}
  <2>5. Chosen(s) \in D /\ t \in SUBSET D /\ Cardinality(t) < n /\ n \in Nat /\ Cardinality(t) \in Nat
    BY <1>1, <2>2, <2>4, Smaller
  <2>6. f[t] = g[t]
    BY <2>1, <2>5
  <2> QED BY <2>3, <2>4, <2>5, <2>6 DEF Step
<1> QED BY <1>2 DEF Sums

LEMMA SumNat ==
  ASSUME NEW D, IsFiniteSet(D), NEW v, \A x \in D : v[x] \in Nat
  PROVE  SumOf(v, D) \in Nat
<1>1. PICK f : Sums(f, v, D) /\ f[D] = SumOf(v, D)
  BY SumsExist DEF SumOf
<1> DEFINE Bad == {s \in SUBSET D : f[s] \notin Nat}
           Sizes == {Cardinality(s) : s \in Bad}
<1>2. \A s \in SUBSET D : IsFiniteSet(s) /\ Cardinality(s) \in Nat
  BY FS_Subset, FS_CardinalityType
<1>3. Bad = {}
  <2> SUFFICES ASSUME Bad # {} PROVE FALSE
    OBVIOUS
  <2>0. Sizes \subseteq Nat /\ Sizes # {}
    BY <1>2
  <2>1. PICK n \in Sizes : \A m \in Sizes : n <= m
    BY <2>0, Least, Zenon
  <2>2. PICK s \in Bad : n = Cardinality(s)
    OBVIOUS
  <2>3. f[s] = Step(f, v, s)
    BY <1>1 DEF Sums
  <2>4. s # {}
    BY <2>3 DEF Step
  <2> DEFINE t == s \ {Chosen(s)}
  <2>5. Chosen(s) \in D /\ t \in SUBSET D /\ Cardinality(t) < n /\ n \in Nat /\ Cardinality(t) \in Nat
    BY <1>2, <2>2, <2>4, Smaller
  <2>6. f[t] \in Nat
    BY <2>1, <2>5
  <2> QED BY <2>3, <2>4, <2>5, <2>6 DEF Step
<1> QED BY <1>1, <1>3

LEMMA SumSame ==
  ASSUME NEW D, IsFiniteSet(D), NEW v, NEW w, \A x \in D : v[x] = w[x]
  PROVE  SumOf(v, D) = SumOf(w, D)
BY SumsExist, SumsOnce DEF SumOf

LEMMA SumSmall ==
  ASSUME NEW v, NEW x PROVE SumOf(v, {}) = 0 /\ (v[x] \in Nat => SumOf(v, {x}) = v[x])
<1>1. IsFiniteSet({x}) /\ IsFiniteSet({})
  BY FS_Singleton, FS_EmptySet
<1>2. PICK f : Sums(f, v, {x}) /\ f[{x}] = SumOf(v, {x})
  BY <1>1, SumsExist DEF SumOf
<1>3. PICK g : Sums(g, v, {}) /\ g[{}] = SumOf(v, {})
  BY <1>1, SumsExist DEF SumOf
<1>4. Chosen({x}) = x /\ {x} \ {x} = {}
  BY DEF Chosen
<1>5. f[{}] = 0 /\ g[{}] = 0 /\ f[{x}] = v[x] + f[{}]
  BY <1>2, <1>3, <1>4 DEF Sums, Step
<1> QED BY <1>2, <1>3, <1>5

(* The sums of the model, in these terms.                                  *)
LEMMA SeenSum ==
  ASSUME NEW a, NEW f, IsFiniteSet(DOMAIN a.seen)
  PROVE  Metrics!Sum(a, f) = SumOf([i \in DOMAIN a.seen |-> a.seen[i][f]], DOMAIN a.seen)
<1> DEFINE D == DOMAIN a.seen
           v == [i \in D |-> a.seen[i][f]]
           B(it) == [s \in SUBSET D |->
                       IF s = {} THEN 0
                       ELSE a.seen[CHOOSE x \in s : TRUE][f] + it[s \ {CHOOSE x \in s : TRUE}]]
<1>1. Metrics!Sum(a, f) = (CHOOSE it : it = B(it))[D]
  BY DEF Metrics!Sum, Metrics!SumOver, Metrics!MapThenSumSet, Metrics!MapThenFoldSet
<1>2. ASSUME NEW it PROVE it = B(it) <=> Sums(it, v, D)
  <2>1. ASSUME NEW s \in SUBSET D, s # {}
        PROVE  v[CHOOSE x \in s : TRUE] = a.seen[CHOOSE x \in s : TRUE][f]
    BY <2>1
  <2>2. B(it) = [s \in SUBSET D |-> Step(it, v, s)]
    BY <2>1 DEF Step, Chosen
  <2> QED BY <2>2 DEF Sums
<1>3. \E it : it = B(it)
  <2> HIDE DEF B, v
  <2>1. \E it : Sums(it, v, D)
    BY SumsExist
  <2> QED BY <1>2, <2>1
<1> DEFINE c == CHOOSE it : it = B(it)
<1>4. c = B(c)
  BY <1>3
<1> HIDE DEF B, v
<1>5. Sums(c, v, D)
  BY <1>2, <1>4
<1>6. c[D] = SumOf(v, D)
  BY <1>5, SumsExist, SumsOnce DEF SumOf
<1> QED BY <1>1, <1>6 DEF v

(* A total of metrics is one of what they were made of: the parts by name. *)
LEMMA PartsSums ==
  ASSUME NEW parts
  PROVE  LET a == [seen |-> parts] IN
         /\ Metrics!SumOver(parts, LAMBDA m : m.impressions) = Metrics!Sum(a, "impressions")
         /\ Metrics!SumOver(parts, LAMBDA m : m.clicks) = Metrics!Sum(a, "clicks")
         /\ Metrics!SumOver(parts, LAMBDA m : m.spend) = Metrics!Sum(a, "spend")
         /\ Metrics!SumOver(parts, LAMBDA m : m.conversions) = Metrics!Sum(a, "conversions")
BY DEF Metrics!Sum, Metrics!SumOver, Metrics!MapThenSumSet, Metrics!MapThenFoldSet

LEMMA ValuesSum ==
  ASSUME NEW parts, IsFiniteSet(DOMAIN parts)
  PROVE  Metrics!SumOver(parts, LAMBDA v : v) = SumOf(parts, DOMAIN parts)
BY SumSame DEF Metrics!SumOver, Metrics!MapThenSumSet, Metrics!MapThenFoldSet, SumOf, Sums, Step, Chosen

-----------------------------------------------------------------------------
(* Insights: division                                                      *)

LEMMA Divided ==
  ASSUME NEW n \in Int, NEW d \in Nat \ {0}
  PROVE  d * (n \div d) <= n /\ n < d * (n \div d) + d /\ n \div d \in Int
BY SMT

LEMMA TimesOver ==
  ASSUME NEW a \in Nat, NEW b \in Nat \ {0} PROVE (a * b) \div b = a
BY SMT

(* A rounded quotient is within a half. *)
LEMMA Rounded ==
  ASSUME NEW s \in Nat, NEW c \in Nat \ {0}
  PROVE  2 * (10 * Metrics!RoundDiv(s, 10 * c) * c - s) \in (-10 * c)..(10 * c)
<1> DEFINE d == 2 * (10 * c)
           q == (2 * s + 10 * c) \div d
<1>1. d \in Nat \ {0} /\ 2 * s + 10 * c \in Int
  BY SMT
<1>2. d * q <= 2 * s + 10 * c /\ 2 * s + 10 * c < d * q + d /\ q \in Int
  BY <1>1, Divided
<1>3. 2 * (10 * q * c) = d * q
  BY <1>2, SMT
<1>4. q = Metrics!RoundDiv(s, 10 * c)
  BY DEF Metrics!RoundDiv
<1> HIDE DEF d, q
<1>5. 2 * (10 * q * c - s) = d * q - 2 * s /\ d = 20 * c
  BY <1>2, <1>3, SMT DEF d
<1>6. 2 * (10 * q * c - s) \in (-10 * c)..(10 * c)
  BY <1>2, <1>5, SMT
<1> QED BY <1>4, <1>6

LEMMA RoundedCents ==
  ASSUME NEW s \in Nat PROVE 2 * (10 * Metrics!RoundDiv(s, 10) - s) \in -9..10
BY SMT DEF Metrics!RoundDiv

-----------------------------------------------------------------------------
(* Insights: what the adapters make of an answer                           *)

Asked == {"META", "GOOGLE", "TIKTOK", "LINKEDIN", "X", "SNAPCHAT"}
Delivered ==
  {d \in [impressions : Nat, clicks : Nat, spend : Nat, conversions : Nat, value : Nat] :
     d.conversions = 0 => d.value = 0}
Quotients == Nat \X Nat
Unified ==
  [impressions : Nat, clicks : Nat, spend : Nat, conversions : Nat, ctr : Quotients,
   cpc : Quotients, roas : SUBSET Quotients]
Returns(p, d) == IF p \in {"META", "GOOGLE", "LINKEDIN"} /\ d.spend > 0 THEN d.value ELSE 0

(* Metrics say what was delivered, and a return of the value that was.     *)
Says(m, d) ==
  /\ m \in Unified
  /\ m.impressions = d.impressions /\ m.clicks = d.clicks
  /\ m.spend = d.spend /\ m.conversions = d.conversions
Makes(m, p, d) == Says(m, d) /\ Metrics!ConversionValue(m) = Returns(p, d)

LEMMA ValuedOf ==
  ASSUME NEW d, NEW raw, NEW f
  PROVE  LET v == Metrics!Valued(d, raw, f) IN
         /\ d.conversions = 0 => v = raw
         /\ d.conversions # 0 => DOMAIN v = DOMAIN raw \cup {f} /\ v[f] = d.value
         /\ \A g \in DOMAIN raw : g # f => g \in DOMAIN v /\ v[g] = raw[g]
         /\ \A g : g \notin DOMAIN raw /\ g # f => g \notin DOMAIN v
BY DEF Metrics!Valued

LEMMA OverOf ==
  ASSUME NEW a \in Nat, NEW b \in Nat PROVE Metrics!Over(a, b) \in Quotients
BY DEF Metrics!Over, Quotients

(* What is returned is the value, if the adapter says a return at all.     *)
LEMMA ReturnsSum ==
  ASSUME NEW m, IsFiniteSet(m.roas), m.spend > 0
  PROVE  Metrics!ConversionValue(m) =
           SumOf([r \in m.roas |-> (r[1] * m.spend) \div r[2]], m.roas)
<1> DEFINE D == m.roas
           v == [r \in D |-> (r[1] * m.spend) \div r[2]]
           B(it) == [s \in SUBSET D |->
                       IF s = {} THEN 0
                       ELSE ((CHOOSE x \in s : TRUE)[1] * m.spend) \div (CHOOSE x \in s : TRUE)[2]
                              + it[s \ {CHOOSE x \in s : TRUE}]]
<1>1. Metrics!ConversionValue(m) = (CHOOSE it : it = B(it))[D]
  BY DEF Metrics!ConversionValue, Metrics!MapThenSumSet, Metrics!MapThenFoldSet
<1>2. ASSUME NEW it PROVE it = B(it) <=> Sums(it, v, D)
  <2>1. ASSUME NEW s \in SUBSET D, s # {}
        PROVE  v[CHOOSE x \in s : TRUE]
                 = ((CHOOSE x \in s : TRUE)[1] * m.spend) \div (CHOOSE x \in s : TRUE)[2]
    BY <2>1
  <2>2. B(it) = [s \in SUBSET D |-> Step(it, v, s)]
    BY <2>1 DEF Step, Chosen
  <2> QED BY <2>2 DEF Sums
<1>3. \E it : it = B(it)
  <2> HIDE DEF B, v
  <2>1. \E it : Sums(it, v, D)
    BY SumsExist
  <2> QED BY <1>2, <2>1
<1> DEFINE c == CHOOSE it : it = B(it)
<1>4. c = B(c)
  BY <1>3
<1> HIDE DEF B, v
<1>5. Sums(c, v, D)
  BY <1>2, <1>4
<1>6. c[D] = SumOf(v, D)
  BY <1>5, SumsExist, SumsOnce DEF SumOf
<1> QED BY <1>1, <1>6 DEF v

LEMMA NoReturn ==
  ASSUME NEW m, m.roas = {} PROVE Metrics!ConversionValue(m) = 0
<1>1. CASE m.spend > 0
  BY <1>1, ReturnsSum, SumSmall, FS_EmptySet
<1>2. CASE ~(m.spend > 0)
  BY <1>2 DEF Metrics!ConversionValue
<1> QED BY <1>1, <1>2

LEMMA OneReturn ==
  ASSUME NEW m, NEW a \in Nat, m.spend \in Nat \ {0}, m.roas = {<<a, m.spend>>}
  PROVE  Metrics!ConversionValue(m) = a
<1> DEFINE r == <<a, m.spend>>
           v == [q \in {r} |-> (q[1] * m.spend) \div q[2]]
<1>1. Metrics!ConversionValue(m) = SumOf(v, {r})
  <2>0. m.spend > 0
    BY SMT
  <2>1. m.roas = {r} /\ IsFiniteSet(m.roas) /\ m.spend > 0
    BY <2>0, FS_Singleton, Zenon
  <2>2. Metrics!ConversionValue(m)
          = SumOf([q \in m.roas |-> (q[1] * m.spend) \div q[2]], m.roas)
    BY <2>1, ReturnsSum, Zenon
  <2> HIDE DEF r
  <2> QED BY <2>1, <2>2
<1>2. v[r] = a
  BY TimesOver
<1> HIDE DEF v, r
<1> QED BY <1>1, <1>2, SumSmall

(* Spend in micros comes back.                                             *)
LEMMA MicrosBack ==
  ASSUME NEW n \in Nat PROVE Metrics!FromMicros(Metrics!Micros(n)) = n
BY SMT DEF Metrics!FromMicros, Metrics!Micros

LEMMA DeliveredOf ==
  ASSUME NEW d \in Delivered
  PROVE  /\ d.impressions \in Nat /\ d.clicks \in Nat /\ d.spend \in Nat
         /\ d.conversions \in Nat /\ d.value \in Nat /\ (d.conversions = 0 => d.value = 0)
         /\ Metrics!Over(d.clicks, d.impressions) \in Quotients
         /\ Metrics!Over(d.spend, d.clicks) \in Quotients
         /\ <<0, 1>> \in Quotients
<1>1. /\ d.impressions \in Nat /\ d.clicks \in Nat /\ d.spend \in Nat
      /\ d.conversions \in Nat /\ d.value \in Nat /\ (d.conversions = 0 => d.value = 0)
  BY DEF Delivered
<1> QED BY <1>1, OverOf DEF Quotients

(* Metrics of what was delivered, and how they make it.                    *)
LEMMA MetricsOf ==
  ASSUME NEW d \in Delivered, NEW p, NEW ctr \in Quotients, NEW cpc \in Quotients, NEW roas,
         \/ roas = {} /\ Returns(p, d) = 0
         \/ roas = {<<d.value, d.spend>>} /\ d.spend > 0 /\ Returns(p, d) = d.value
  PROVE  Makes(Metrics!Metrics(d.impressions, d.clicks, d.spend, d.conversions, ctr, cpc, roas), p, d)
<1> DEFINE m == Metrics!Metrics(d.impressions, d.clicks, d.spend, d.conversions, ctr, cpc, roas)
<1>1. m = [impressions |-> d.impressions, clicks |-> d.clicks, spend |-> d.spend,
           conversions |-> d.conversions, ctr |-> ctr, cpc |-> cpc, roas |-> roas]
  BY DEF Metrics!Metrics
<1>2. /\ d.impressions \in Nat /\ d.clicks \in Nat /\ d.spend \in Nat
      /\ d.conversions \in Nat /\ d.value \in Nat
  BY DeliveredOf
<1>3. roas \in SUBSET Quotients
  BY <1>2 DEF Quotients
<1> HIDE DEF m
<1>4. Says(m, d)
  BY <1>1, <1>2, <1>3 DEF Says, Unified
<1>5. m.roas = roas /\ m.spend = d.spend
  BY <1>1
<1>6. CASE roas = {} /\ Returns(p, d) = 0
  BY <1>4, <1>5, <1>6, NoReturn DEF Makes, m
<1>7. CASE roas = {<<d.value, d.spend>>} /\ d.spend > 0 /\ Returns(p, d) = d.value
  BY <1>2, <1>4, <1>5, <1>7, OneReturn DEF Makes, m
<1> QED BY <1>6, <1>7

LEMMA XMakes ==
  ASSUME NEW d \in Delivered, d # Metrics!Nothing
  PROVE  Makes(Metrics!TransformToUnifiedMetrics("X", Metrics!RawMetrics("X", d)), "X", d)
<1> DEFINE raw == [impressions |-> d.impressions,
                   clicks |-> d.clicks,
                   billed_charge_local_micro |-> Metrics!Micros(d.spend),
                   conversion_purchases |-> d.conversions]
<1>1. /\ Metrics!Field(raw, "impressions") = d.impressions
      /\ Metrics!Field(raw, "clicks") = d.clicks
      /\ Metrics!Field(raw, "billed_charge_local_micro") = Metrics!Micros(d.spend)
      /\ Metrics!Field(raw, "conversion_purchases") = d.conversions
  BY DEF Metrics!Field
<1>2. Metrics!RawMetrics("X", d) = raw
  BY Zenon DEF Metrics!RawMetrics
<1> HIDE DEF raw
<1>3. Metrics!TransformToUnifiedMetrics("X", raw) = Metrics!XMetrics(raw)
  BY Zenon DEF Metrics!TransformToUnifiedMetrics
<1>4. Metrics!XMetrics(raw) =
        Metrics!Metrics(d.impressions, d.clicks, d.spend, d.conversions,
                        Metrics!Over(d.clicks, d.impressions), Metrics!Over(d.spend, d.clicks), {})
  BY <1>1, MicrosBack, DeliveredOf DEF Metrics!XMetrics
<1>5. Returns("X", d) = 0
  BY DEF Returns
<1> QED BY <1>2, <1>3, <1>4, <1>5, DeliveredOf, MetricsOf

LEMMA SnapchatMakes ==
  ASSUME NEW d \in Delivered, d # Metrics!Nothing
  PROVE  Makes(Metrics!TransformToUnifiedMetrics("SNAPCHAT", Metrics!RawMetrics("SNAPCHAT", d)), "SNAPCHAT", d)
<1> DEFINE raw == [impressions |-> d.impressions,
                   swipes |-> d.clicks,
                   spend |-> Metrics!Micros(d.spend),
                   conversion_purchases |-> d.conversions]
<1>1. /\ Metrics!Field(raw, "impressions") = d.impressions
      /\ Metrics!Field(raw, "swipes") = d.clicks
      /\ Metrics!Field(raw, "spend") = Metrics!Micros(d.spend)
      /\ Metrics!Field(raw, "conversion_purchases") = d.conversions
  BY DEF Metrics!Field
<1>2. Metrics!RawMetrics("SNAPCHAT", d) = raw
  BY Zenon DEF Metrics!RawMetrics
<1> HIDE DEF raw
<1>3. Metrics!TransformToUnifiedMetrics("SNAPCHAT", raw) = Metrics!SnapchatMetrics(raw)
  BY Zenon DEF Metrics!TransformToUnifiedMetrics
<1>4. Metrics!SnapchatMetrics(raw) =
        Metrics!Metrics(d.impressions, d.clicks, d.spend, d.conversions,
                        Metrics!Over(d.clicks, d.impressions), Metrics!Over(d.spend, d.clicks), {})
  BY <1>1, MicrosBack, DeliveredOf DEF Metrics!SnapchatMetrics
<1>5. Returns("SNAPCHAT", d) = 0
  BY DEF Returns
<1> QED BY <1>2, <1>3, <1>4, <1>5, DeliveredOf, MetricsOf

LEMMA TiktokMakes ==
  ASSUME NEW d \in Delivered, d # Metrics!Nothing
  PROVE  Makes(Metrics!TransformToUnifiedMetrics("TIKTOK", Metrics!RawMetrics("TIKTOK", d)), "TIKTOK", d)
<1> DEFINE raw == [impressions |-> d.impressions,
                   clicks |-> d.clicks,
                   spend |-> d.spend,
                   conversion |-> d.conversions]
<1>1. /\ Metrics!Field(raw, "impressions") = d.impressions
      /\ Metrics!Field(raw, "clicks") = d.clicks
      /\ Metrics!Field(raw, "spend") = d.spend
      /\ Metrics!Field(raw, "conversion") = d.conversions
  BY DEF Metrics!Field
<1>2. Metrics!RawMetrics("TIKTOK", d) = raw
  BY Zenon DEF Metrics!RawMetrics
<1> HIDE DEF raw
<1>3. Metrics!TransformToUnifiedMetrics("TIKTOK", raw) = Metrics!TiktokMetrics(raw)
  BY Zenon DEF Metrics!TransformToUnifiedMetrics
<1>4. Metrics!TiktokMetrics(raw) =
        Metrics!Metrics(d.impressions, d.clicks, d.spend, d.conversions,
                        Metrics!Over(d.clicks, d.impressions), Metrics!Over(d.spend, d.clicks), {})
  BY <1>1, DeliveredOf DEF Metrics!TiktokMetrics
<1>5. Returns("TIKTOK", d) = 0
  BY DEF Returns
<1> QED BY <1>2, <1>3, <1>4, <1>5, DeliveredOf, MetricsOf

LEMMA MetaMakes ==
  ASSUME NEW d \in Delivered, d # Metrics!Nothing
  PROVE  Makes(Metrics!TransformToUnifiedMetrics("META", Metrics!RawMetrics("META", d)), "META", d)
<1> DEFINE base == [impressions |-> d.impressions,
                    clicks |-> d.clicks,
                    spend |-> d.spend,
                    purchases |-> d.conversions,
                    ctr |-> Metrics!Over(d.clicks, d.impressions),
                    cpc |-> Metrics!Over(d.spend, d.clicks)]
           raw == Metrics!Valued(d, base, "purchase_value")
<1>1. Metrics!RawMetrics("META", d) = raw
  BY Zenon DEF Metrics!RawMetrics
<1>2. DOMAIN base = {"impressions", "clicks", "spend", "purchases", "ctr", "cpc"}
  OBVIOUS
<1>3. /\ d.conversions = 0 => raw = base
      /\ d.conversions # 0 => "purchase_value" \in DOMAIN raw /\ raw["purchase_value"] = d.value
      /\ \A g \in DOMAIN base : g # "purchase_value" => g \in DOMAIN raw /\ raw[g] = base[g]
      /\ \A g : g \notin DOMAIN base /\ g # "purchase_value" => g \notin DOMAIN raw
  <2> HIDE DEF base
  <2> QED BY DEF Metrics!Valued
<1> HIDE DEF raw
<1>4. /\ Metrics!Field(raw, "impressions") = d.impressions
      /\ Metrics!Field(raw, "clicks") = d.clicks
      /\ Metrics!Field(raw, "spend") = d.spend
      /\ Metrics!Field(raw, "purchases") = d.conversions
      /\ Metrics!Ratio(raw, "ctr", <<0, 1>>) = Metrics!Over(d.clicks, d.impressions)
      /\ Metrics!Ratio(raw, "cpc", <<0, 1>>) = Metrics!Over(d.spend, d.clicks)
  BY <1>2, <1>3 DEF Metrics!Field, Metrics!Ratio
<1> DEFINE roas == Metrics!Roas(raw, "purchase_value", d.spend)
<1>5. \/ roas = {} /\ Returns("META", d) = 0
      \/ roas = {<<d.value, d.spend>>} /\ d.spend > 0 /\ Returns("META", d) = d.value
  BY <1>2, <1>3, DeliveredOf DEF Metrics!Roas, Returns
<1> HIDE DEF base, roas
<1>6. Metrics!TransformToUnifiedMetrics("META", raw) = Metrics!MetaMetrics(raw)
  BY Zenon DEF Metrics!TransformToUnifiedMetrics
<1>7. Metrics!MetaMetrics(raw) =
        Metrics!Metrics(d.impressions, d.clicks, d.spend, d.conversions, Metrics!Over(d.clicks, d.impressions), Metrics!Over(d.spend, d.clicks), roas)
  BY <1>4, DeliveredOf DEF Metrics!MetaMetrics, roas
<1> QED BY <1>1, <1>5, <1>6, <1>7, DeliveredOf, MetricsOf

LEMMA GoogleMakes ==
  ASSUME NEW d \in Delivered, d # Metrics!Nothing
  PROVE  Makes(Metrics!TransformToUnifiedMetrics("GOOGLE", Metrics!RawMetrics("GOOGLE", d)), "GOOGLE", d)
<1> DEFINE base == [impressions |-> d.impressions,
                    clicks |-> d.clicks,
                    cost_micros |-> Metrics!Micros(d.spend),
                    conversions |-> d.conversions,
                    ctr |-> Metrics!Over(d.clicks, d.impressions),
                    average_cpc |-> Metrics!Over(Metrics!Micros(d.spend), d.clicks)]
           raw == Metrics!Valued(d, base, "conversions_value")
<1>1. Metrics!RawMetrics("GOOGLE", d) = raw
  BY Zenon DEF Metrics!RawMetrics
<1>2. DOMAIN base = {"impressions", "clicks", "cost_micros", "conversions", "ctr", "average_cpc"}
  OBVIOUS
<1>3. /\ d.conversions = 0 => raw = base
      /\ d.conversions # 0 => "conversions_value" \in DOMAIN raw /\ raw["conversions_value"] = d.value
      /\ \A g \in DOMAIN base : g # "conversions_value" => g \in DOMAIN raw /\ raw[g] = base[g]
      /\ \A g : g \notin DOMAIN base /\ g # "conversions_value" => g \notin DOMAIN raw
  <2> HIDE DEF base
  <2> QED BY DEF Metrics!Valued
<1> HIDE DEF raw
<1>4. /\ Metrics!Field(raw, "impressions") = d.impressions
      /\ Metrics!Field(raw, "clicks") = d.clicks
      /\ Metrics!Field(raw, "cost_micros") = Metrics!Micros(d.spend)
      /\ Metrics!Field(raw, "conversions") = d.conversions
      /\ Metrics!Ratio(raw, "ctr", <<0, 1>>) = Metrics!Over(d.clicks, d.impressions)
      /\ Metrics!Ratio(raw, "cpc_micros", <<0, 1>>) = <<0, 1>>
  BY <1>2, <1>3 DEF Metrics!Field, Metrics!Ratio
<1> DEFINE roas == Metrics!Roas(raw, "conversions_value", d.spend)
<1>5. \/ roas = {} /\ Returns("GOOGLE", d) = 0
      \/ roas = {<<d.value, d.spend>>} /\ d.spend > 0 /\ Returns("GOOGLE", d) = d.value
  BY <1>2, <1>3, DeliveredOf DEF Metrics!Roas, Returns
<1> HIDE DEF base, roas
<1>6. Metrics!TransformToUnifiedMetrics("GOOGLE", raw) = Metrics!GoogleMetrics(raw)
  BY Zenon DEF Metrics!TransformToUnifiedMetrics
<1>7. Metrics!GoogleMetrics(raw) =
        Metrics!Metrics(d.impressions, d.clicks, d.spend, d.conversions, Metrics!Over(d.clicks, d.impressions), <<0, 1>>, roas)
  BY <1>4, MicrosBack, DeliveredOf DEF Metrics!GoogleMetrics, roas
<1> QED BY <1>1, <1>5, <1>6, <1>7, DeliveredOf, MetricsOf

LEMMA LinkedinMakes ==
  ASSUME NEW d \in Delivered, d # Metrics!Nothing
  PROVE  Makes(Metrics!TransformToUnifiedMetrics("LINKEDIN", Metrics!RawMetrics("LINKEDIN", d)), "LINKEDIN", d)
<1> DEFINE base == [impressions |-> d.impressions,
                    clicks |-> d.clicks,
                    costInLocalCurrency |-> d.spend,
                    conversions |-> d.conversions]
           raw == Metrics!Valued(d, base, "conversionValueInLocalCurrency")
<1>1. Metrics!RawMetrics("LINKEDIN", d) = raw
  BY Zenon DEF Metrics!RawMetrics
<1>2. DOMAIN base = {"impressions", "clicks", "costInLocalCurrency", "conversions"}
  OBVIOUS
<1>3. /\ d.conversions = 0 => raw = base
      /\ d.conversions # 0 => "conversionValueInLocalCurrency" \in DOMAIN raw /\ raw["conversionValueInLocalCurrency"] = d.value
      /\ \A g \in DOMAIN base : g # "conversionValueInLocalCurrency" => g \in DOMAIN raw /\ raw[g] = base[g]
      /\ \A g : g \notin DOMAIN base /\ g # "conversionValueInLocalCurrency" => g \notin DOMAIN raw
  <2> HIDE DEF base
  <2> QED BY DEF Metrics!Valued
<1> HIDE DEF raw
<1>4. /\ Metrics!Field(raw, "impressions") = d.impressions
      /\ Metrics!Field(raw, "clicks") = d.clicks
      /\ Metrics!Field(raw, "costInLocalCurrency") = d.spend
      /\ Metrics!Field(raw, "conversions") = d.conversions
  BY <1>2, <1>3 DEF Metrics!Field, Metrics!Ratio
<1> DEFINE roas == IF Metrics!Field(raw, "conversionValueInLocalCurrency") # 0 THEN Metrics!Roas(raw, "conversionValueInLocalCurrency", d.spend) ELSE {}
<1>5. \/ roas = {} /\ Returns("LINKEDIN", d) = 0
      \/ roas = {<<d.value, d.spend>>} /\ d.spend > 0 /\ Returns("LINKEDIN", d) = d.value
  BY <1>2, <1>3, DeliveredOf DEF Metrics!Roas, Returns, Metrics!Field
<1> HIDE DEF base, roas
<1>6. Metrics!TransformToUnifiedMetrics("LINKEDIN", raw) = Metrics!LinkedinMetrics(raw)
  BY Zenon DEF Metrics!TransformToUnifiedMetrics
<1>7. Metrics!LinkedinMetrics(raw) =
        Metrics!Metrics(d.impressions, d.clicks, d.spend, d.conversions, Metrics!Over(d.clicks, d.impressions), Metrics!Over(d.spend, d.clicks), roas)
  BY <1>4, DeliveredOf DEF Metrics!LinkedinMetrics, roas
<1> QED BY <1>1, <1>5, <1>6, <1>7, DeliveredOf, MetricsOf

(* Before anything was delivered, and where nothing is counted.            *)
LEMMA NothingIsDelivered ==
  /\ Metrics!Nothing \in Delivered
  /\ Metrics!Nothing.impressions = 0 /\ Metrics!Nothing.clicks = 0 /\ Metrics!Nothing.spend = 0
  /\ Metrics!Nothing.conversions = 0 /\ Metrics!Nothing.value = 0
BY DEF Metrics!Nothing, Delivered

LEMMA ZeroMakes ==
  ASSUME NEW p
  PROVE  Makes(Metrics!ZeroMetrics, p, Metrics!Nothing)
<1> DEFINE n == Metrics!Nothing
<1>1. Metrics!ZeroMetrics = Metrics!Metrics(n.impressions, n.clicks, n.spend, n.conversions,
                                            <<0, 1>>, <<0, 1>>, {})
  BY NothingIsDelivered DEF Metrics!ZeroMetrics
<1>2. Returns(p, n) = 0 /\ <<0, 1>> \in Quotients
  BY NothingIsDelivered DEF Returns, Quotients
<1> QED BY <1>1, <1>2, NothingIsDelivered, MetricsOf

LEMMA NothingMade ==
  ASSUME NEW p \in Asked
  PROVE  Makes(Metrics!TransformToUnifiedMetrics(p, Metrics!RawMetrics(p, Metrics!Nothing)),
               p, Metrics!Nothing)
<1> DEFINE raw == [metrics |-> 0]
<1>1. Metrics!RawMetrics(p, Metrics!Nothing) = raw
  BY DEF Metrics!RawMetrics
<1>2. DOMAIN raw = {"metrics"}
  OBVIOUS
<1>3. \A f : f # "metrics" =>
        /\ Metrics!Field(raw, f) = 0 /\ Metrics!Ratio(raw, f, <<0, 1>>) = <<0, 1>>
        /\ \A n : Metrics!Roas(raw, f, n) = {}
  BY <1>2 DEF Metrics!Field, Metrics!Ratio, Metrics!Roas
<1>4. Metrics!Over(0, 0) = <<0, 1>> /\ Metrics!FromMicros(0) = 0
  BY DEF Metrics!Over, Metrics!FromMicros
<1> HIDE DEF raw
<1>5. /\ Metrics!MetaMetrics(raw) = Metrics!ZeroMetrics
      /\ Metrics!LinkedinMetrics(raw) = Metrics!ZeroMetrics
      /\ Metrics!TiktokMetrics(raw) = Metrics!ZeroMetrics
  BY <1>3, <1>4 DEF Metrics!MetaMetrics, Metrics!LinkedinMetrics, Metrics!TiktokMetrics,
       Metrics!ZeroMetrics
<1>6. /\ Metrics!GoogleMetrics(raw) = Metrics!ZeroMetrics
      /\ Metrics!XMetrics(raw) = Metrics!ZeroMetrics
      /\ Metrics!SnapchatMetrics(raw) = Metrics!ZeroMetrics
  BY <1>3, <1>4 DEF Metrics!GoogleMetrics, Metrics!XMetrics, Metrics!SnapchatMetrics,
       Metrics!ZeroMetrics
<1>7. /\ Metrics!TransformToUnifiedMetrics("META", raw) = Metrics!MetaMetrics(raw)
      /\ Metrics!TransformToUnifiedMetrics("GOOGLE", raw) = Metrics!GoogleMetrics(raw)
      /\ Metrics!TransformToUnifiedMetrics("LINKEDIN", raw) = Metrics!LinkedinMetrics(raw)
      /\ Metrics!TransformToUnifiedMetrics("X", raw) = Metrics!XMetrics(raw)
      /\ Metrics!TransformToUnifiedMetrics("SNAPCHAT", raw) = Metrics!SnapchatMetrics(raw)
      /\ Metrics!TransformToUnifiedMetrics("TIKTOK", raw) = Metrics!TiktokMetrics(raw)
  BY Zenon DEF Metrics!TransformToUnifiedMetrics
<1>8. Metrics!TransformToUnifiedMetrics(p, raw) = Metrics!ZeroMetrics
  BY <1>5, <1>6, <1>7, Zenon DEF Asked
<1> QED BY <1>1, <1>8, ZeroMakes

(* Whatever the platform, the adapter makes what was delivered of it.      *)
LEMMA AdapterMakes ==
  ASSUME NEW p \in Asked, NEW d \in Delivered
  PROVE  Makes(Metrics!TransformToUnifiedMetrics(p, Metrics!RawMetrics(p, d)), p, d)
<1>1. CASE d = Metrics!Nothing
  BY <1>1, NothingMade, Zenon
<1>2. CASE d # Metrics!Nothing
  BY <1>2, MetaMakes, GoogleMakes, LinkedinMakes, XMakes, SnapchatMakes, TiktokMakes, Zenon
     DEF Asked
<1> QED BY <1>1, <1>2

-----------------------------------------------------------------------------
(* Insights: the totals                                                    *)

LEMMA ConversionSum ==
  ASSUME NEW parts, IsFiniteSet(DOMAIN parts)
  PROVE  Metrics!SumOver(parts, Metrics!ConversionValue)
           = SumOf([i \in DOMAIN parts |-> Metrics!ConversionValue(parts[i])], DOMAIN parts)
<1> DEFINE D == DOMAIN parts
           v == [i \in D |-> Metrics!ConversionValue(parts[i])]
           B(it) == [s \in SUBSET D |->
                       IF s = {} THEN 0
                       ELSE Metrics!ConversionValue(parts[CHOOSE x \in s : TRUE])
                              + it[s \ {CHOOSE x \in s : TRUE}]]
<1>1. Metrics!SumOver(parts, Metrics!ConversionValue) = (CHOOSE it : it = B(it))[D]
  BY DEF Metrics!SumOver, Metrics!MapThenSumSet, Metrics!MapThenFoldSet
<1>2. ASSUME NEW it PROVE it = B(it) <=> Sums(it, v, D)
  <2>1. ASSUME NEW s \in SUBSET D, s # {}
        PROVE  v[CHOOSE x \in s : TRUE] = Metrics!ConversionValue(parts[CHOOSE x \in s : TRUE])
    BY <2>1
  <2>2. B(it) = [s \in SUBSET D |-> Step(it, v, s)]
    BY <2>1 DEF Step, Chosen
  <2> QED BY <2>2 DEF Sums
<1>3. \E it : it = B(it)
  <2> HIDE DEF B, v
  <2>1. \E it : Sums(it, v, D)
    BY SumsExist
  <2> QED BY <1>2, <2>1
<1> DEFINE c == CHOOSE it : it = B(it)
<1>4. c = B(c)
  BY <1>3
<1> HIDE DEF B, v
<1>5. Sums(c, v, D)
  BY <1>2, <1>4
<1>6. c[D] = SumOf(v, D)
  BY <1>5, SumsExist, SumsOnce DEF SumOf
<1> QED BY <1>1, <1>6 DEF v

(* The parts of an answer make what was seen of their platforms.           *)
Matches(a) ==
  /\ DOMAIN a.byPlatform = DOMAIN a.seen /\ IsFiniteSet(DOMAIN a.seen)
  /\ \A i \in DOMAIN a.seen :
       a.seen[i] \in Delivered /\ Makes(a.byPlatform[i], a.rows[i].platform, a.seen[i])
  /\ a.total = Metrics!Total(a.byPlatform)

LEMMA FieldSums ==
  ASSUME NEW a, Matches(a), NEW f \in {"impressions", "clicks", "spend", "conversions"}
  PROVE  Metrics!Sum([seen |-> a.byPlatform], f) = Metrics!Sum(a, f) /\ Metrics!Sum(a, f) \in Nat
<1> DEFINE D == DOMAIN a.seen
           v == [i \in D |-> a.seen[i][f]]
           w == [i \in D |-> a.byPlatform[i][f]]
           b == [seen |-> a.byPlatform]
<1>1. b.seen = a.byPlatform /\ DOMAIN b.seen = D /\ IsFiniteSet(D)
  BY DEF Matches
<1>2. \A i \in D : v[i] \in Nat /\ w[i] = v[i]
  BY DEF Matches, Makes, Says, Delivered
<1>3. Metrics!Sum(a, f) = SumOf(v, D)
  BY <1>1, SeenSum
<1>4. Metrics!Sum(b, f) = SumOf([i \in DOMAIN b.seen |-> b.seen[i][f]], DOMAIN b.seen)
  <2> HIDE DEF b
  <2> QED BY <1>1, SeenSum
<1>5. Metrics!Sum(b, f) = SumOf(w, D)
  <2> HIDE DEF b
  <2> QED BY <1>1, <1>4
<1> HIDE DEF v, w, D, b
<1>6. SumOf(v, D) \in Nat /\ SumOf(v, D) = SumOf(w, D)
  BY <1>1, <1>2, SumNat, SumSame
<1> QED BY <1>3, <1>5, <1>6 DEF b

LEMMA ValueSums ==
  ASSUME NEW a, Matches(a)
  PROVE  Metrics!SumOver(a.byPlatform, Metrics!ConversionValue) = Metrics!Values(a)
<1> DEFINE D == DOMAIN a.seen
           v == [i \in D |-> IF a.rows[i].platform \in {"META", "GOOGLE", "LINKEDIN"}
                                /\ a.seen[i].spend > 0
                               THEN a.seen[i].value ELSE 0]
           w == [i \in D |-> Metrics!ConversionValue(a.byPlatform[i])]
<1>1. DOMAIN a.byPlatform = D /\ IsFiniteSet(D)
  BY DEF Matches
<1>2. \A i \in D : w[i] = v[i]
  BY DEF Matches, Makes, Returns
<1>3. DOMAIN v = D
  OBVIOUS
<1>4. Metrics!Values(a) = Metrics!SumOver(v, LAMBDA x : x)
  BY DEF Metrics!Values
<1>5. Metrics!SumOver(a.byPlatform, Metrics!ConversionValue) = SumOf(w, D)
  BY <1>1, ConversionSum
<1> HIDE DEF v, w, D
<1>6. Metrics!SumOver(v, LAMBDA x : x) = SumOf(v, D)
  BY <1>1, <1>3, ValuesSum
<1> QED BY <1>1, <1>2, <1>4, <1>5, <1>6, SumSame

LEMMA AnswerAddsUp ==
  ASSUME NEW a, Matches(a)
  PROVE  /\ \A f \in {"impressions", "clicks", "conversions"} : a.total[f] = Metrics!Sum(a, f)
         /\ 2 * (10 * a.total.spend - Metrics!Sum(a, "spend")) \in -9..10
         /\ Metrics!Sum(a, "clicks") > 0 =>
              2 * (10 * a.total.cpc * Metrics!Sum(a, "clicks") - Metrics!Sum(a, "spend")) \in
                (-10 * Metrics!Sum(a, "clicks"))..(10 * Metrics!Sum(a, "clicks"))
         /\ \A r \in a.total.roas :
              r = Metrics!RoundDiv(10 * Metrics!Values(a), a.total.spend)
<1> DEFINE parts == a.byPlatform
           i == Metrics!Sum(a, "impressions")
           c == Metrics!Sum(a, "clicks")
           s == Metrics!Sum(a, "spend")
           n == Metrics!Sum(a, "conversions")
           v == Metrics!Values(a)
<1>1. /\ Metrics!SumOver(parts, LAMBDA m : m.impressions) = i
      /\ Metrics!SumOver(parts, LAMBDA m : m.clicks) = c
      /\ Metrics!SumOver(parts, LAMBDA m : m.spend) = s
      /\ Metrics!SumOver(parts, LAMBDA m : m.conversions) = n
      /\ i \in Nat /\ c \in Nat /\ s \in Nat /\ n \in Nat
  BY PartsSums, FieldSums
<1>2. Metrics!SumOver(parts, Metrics!ConversionValue) = v
  BY ValueSums
<1>3. a.total = Metrics!Total(parts)
  BY DEF Matches
<1> DEFINE im == Metrics!SumOver(parts, LAMBDA m : m.impressions)
           cl == Metrics!SumOver(parts, LAMBDA m : m.clicks)
           sp == Metrics!SumOver(parts, LAMBDA m : m.spend)
           co == Metrics!SumOver(parts, LAMBDA m : m.conversions)
           va == Metrics!SumOver(parts, Metrics!ConversionValue)
           T(i_, c_, s_, n_, v_) ==
             [impressions |-> i_, clicks |-> c_, spend |-> Metrics!RoundDiv(s_, 10),
              conversions |-> n_,
              ctr |-> IF i_ > 0 THEN Metrics!RoundDiv(10000 * c_, i_) ELSE 0,
              cpc |-> IF c_ > 0 THEN Metrics!RoundDiv(s_, 10 * c_) ELSE 0,
              roas |-> IF Metrics!RoundDiv(s_, 10) > 0 /\ v_ > 0
                         THEN {Metrics!RoundDiv(10 * v_, Metrics!RoundDiv(s_, 10))} ELSE {}]
<1>a. Metrics!Total(parts) = T(im, cl, sp, co, va)
  BY Zenon DEF Metrics!Total
<1>b. im = i /\ cl = c /\ sp = s /\ co = n /\ va = v
  BY <1>1, <1>2, Zenon
<1> HIDE DEF i, c, s, n, v, im, cl, sp, co, va
<1>4. Metrics!Total(parts) = T(i, c, s, n, v)
  <2> HIDE DEF T
  <2> QED BY <1>a, <1>b, Zenon
<1> HIDE DEF parts
<1>5. \A f \in {"impressions", "clicks", "conversions"} : a.total[f] = Metrics!Sum(a, f)
  BY <1>3, <1>4 DEF i, c, n
<1>6. 2 * (10 * a.total.spend - s) \in -9..10
  BY <1>1, <1>3, <1>4, RoundedCents
<1>7. c > 0 => 2 * (10 * a.total.cpc * c - s) \in (-10 * c)..(10 * c)
  <2> SUFFICES ASSUME c > 0
               PROVE  2 * (10 * a.total.cpc * c - s) \in (-10 * c)..(10 * c)
    OBVIOUS
  <2>1. a.total.cpc = Metrics!RoundDiv(s, 10 * c)
    BY <1>3, <1>4
  <2>2. c \in Nat \ {0}
    BY <1>1, SMT
  <2>3. 2 * (10 * Metrics!RoundDiv(s, 10 * c) * c - s) \in (-10 * c)..(10 * c)
    BY <1>1, <2>2, Rounded
  <2> QED BY <2>1, <2>3, Zenon
<1>8. \A r \in a.total.roas : r = Metrics!RoundDiv(10 * v, a.total.spend)
  BY <1>3, <1>4
<1> QED BY <1>5, <1>6, <1>7, <1>8 DEF c, s, v

-----------------------------------------------------------------------------
(* Insights: the invariant                                                 *)

RowsOf(D) == Seq([platform : D, saved : BOOLEAN])

LEMMA RowOf ==
  ASSUME NEW D, NEW rs \in RowsOf(D)
  PROVE  /\ Len(rs) \in Nat /\ DOMAIN rs = 1..Len(rs)
         /\ \A i \in 1..Len(rs) : rs[i] \in [platform : D, saved : BOOLEAN] /\ rs[i].platform \in D
<1> DEFINE R == [platform : D, saved : BOOLEAN]
<1>1. \A r \in R : r.platform \in D
  OBVIOUS
<1>2. rs \in Seq(R)
  BY DEF RowsOf
<1> HIDE DEF R
<1>3. Len(rs) \in Nat /\ DOMAIN rs = 1..Len(rs) /\ \A i \in 1..Len(rs) : rs[i] \in R
  BY <1>2
<1> QED BY <1>1, <1>3 DEF R

(* Metrics, for a platform, of what it had delivered by then: no more than *)
(* it has delivered now.                                                   *)
Fits(m, of, p, tr) ==
  of \in Delivered /\ Makes(m, p, of) /\ of.impressions <= tr[p].impressions

Reported(ls, tr) == \A p \in DOMAIN tr : \A log \in ls[p] : Fits(log.metrics, log.of, p, tr)

(* The first rows, with what was seen of each: of a platform without a log *)
(* it is no older than the start.                                          *)
Gathered(rs, ls, parts, seen, start, tr) ==
  /\ rs \in RowsOf(DOMAIN tr)
  /\ parts \in Seq(Unified) /\ seen \in Seq(Delivered)
  /\ Len(parts) = Len(seen) /\ Len(parts) <= Len(rs)
  /\ \A p \in DOMAIN tr :
       start[p].impressions \in Nat /\ start[p].impressions <= tr[p].impressions
  /\ \A i \in 1..Len(parts) :
       /\ Fits(parts[i], seen[i], rs[i].platform, tr)
       /\ ls[rs[i].platform] = {} /\ seen[i] # Metrics!Nothing =>
            start[rs[i].platform].impressions <= seen[i].impressions

Gathering(r, tr) ==
  /\ r = [at |-> "asking", rows |-> r.rows, logs |-> r.logs, parts |-> r.parts,
          seen |-> r.seen, start |-> r.start]
  /\ Gathered(r.rows, r.logs, r.parts, r.seen, r.start, tr)
  /\ Reported(r.logs, tr)

Answered(a, tr) ==
  /\ Gathered(a.rows, a.logs, a.byPlatform, a.seen, a.start, tr)
  /\ Len(a.seen) = Len(a.rows) /\ a.total = Metrics!Total(a.byPlatform)

InsightInv ==
  /\ DOMAIN truth \subseteq Asked /\ DOMAIN accounts = DOMAIN truth
  /\ truth \in [DOMAIN truth -> Delivered]
  /\ rows \in RowsOf(DOMAIN truth)
  /\ logs = [p \in DOMAIN truth |-> logs[p]] /\ Reported(logs, truth)
  /\ answering = Metrics!Idle \/ Gathering(answering, truth)
  /\ \A a \in answer : Answered(a, truth)

(* Platforms go on delivering: what fitted fits.                           *)
Further(tr, then) ==
  /\ DOMAIN then = DOMAIN tr
  /\ \A p \in DOMAIN tr : tr[p] \in Delivered /\ then[p] \in Delivered
                          /\ tr[p].impressions <= then[p].impressions

LEMMA FitsStill ==
  ASSUME NEW tr, NEW then, Further(tr, then), NEW p \in DOMAIN tr, NEW m, NEW of,
         Fits(m, of, p, tr)
  PROVE  Fits(m, of, p, then)
BY DeliveredOf DEF Fits, Further

LEMMA GatheredStill ==
  ASSUME NEW tr, NEW then, Further(tr, then), NEW rs, NEW ls, NEW parts, NEW seen, NEW start,
         Gathered(rs, ls, parts, seen, start, tr)
  PROVE  Gathered(rs, ls, parts, seen, start, then)
<1>1. DOMAIN then = DOMAIN tr
  BY DEF Further
<1>2. \A p \in DOMAIN tr : start[p].impressions <= then[p].impressions
  BY DeliveredOf DEF Further, Gathered
<1>3. \A i \in 1..Len(parts) : rs[i].platform \in DOMAIN tr
  <2>1. Len(parts) <= Len(rs) /\ Len(parts) \in Nat /\ rs \in RowsOf(DOMAIN tr)
    BY DEF Gathered
  <2> QED BY <2>1, RowOf
<1>4. \A i \in 1..Len(parts) : Fits(parts[i], seen[i], rs[i].platform, then)
  BY <1>3, FitsStill DEF Gathered
<1> QED BY <1>1, <1>2, <1>4 DEF Gathered

LEMMA FurtherInv ==
  ASSUME InsightInv, Further(truth, truth'), truth' \in [DOMAIN truth' -> Delivered],
         UNCHANGED <<rows, accounts, logs, answering, answer>>
  PROVE  InsightInv'
<1>1. DOMAIN truth' = DOMAIN truth
  BY DEF Further
<1>2. Reported(logs', truth')
  BY <1>1, FitsStill DEF InsightInv, Reported
<1>3. Gathering(answering, truth) => Gathering(answering', truth')
  <2> SUFFICES ASSUME Gathering(answering, truth) PROVE Gathering(answering, truth')
    OBVIOUS
  <2>1. Gathered(answering.rows, answering.logs, answering.parts, answering.seen,
                 answering.start, truth')
    BY GatheredStill DEF Gathering
  <2>2. Reported(answering.logs, truth')
    BY <1>1, FitsStill DEF Gathering, Reported
  <2> QED BY <2>1, <2>2 DEF Gathering
<1>4. \A a \in answer : Answered(a, truth')
  BY GatheredStill DEF InsightInv, Answered
<1> QED BY <1>1, <1>2, <1>3, <1>4 DEF InsightInv

-----------------------------------------------------------------------------
(* Insights: the steps                                                     *)

LEMMA PushInv ==
  ASSUME InsightInv, Metrics!Asking, NEW m, NEW of, Metrics!Push(m, of),
         UNCHANGED <<truth>>, Fits(m, of, Metrics!Row.platform, truth),
         answering.logs[Metrics!Row.platform] = {} /\ of # Metrics!Nothing =>
           of.impressions = truth[Metrics!Row.platform].impressions
  PROVE  InsightInv'
<1> DEFINE r == answering
           k == Len(r.parts) + 1
           P == Append(r.parts, m)
           S == Append(r.seen, of)
<1>1. Gathering(r, truth) /\ Len(r.parts) < Len(r.rows)
  BY DEF InsightInv, Metrics!Asking, Metrics!Idle
<1>2. answering' = [at |-> "asking", rows |-> r.rows, logs |-> r.logs, parts |-> P,
                    seen |-> S, start |-> r.start]
  <2> HIDE DEF P, S
  <2>1. answering' = [answering EXCEPT !.parts = P, !.seen = S]
    BY DEF Metrics!Push, P, S
  <2>2. answering = [at |-> "asking", rows |-> r.rows, logs |-> r.logs, parts |-> r.parts,
                     seen |-> r.seen, start |-> r.start]
    BY <1>1 DEF Gathering
  <2> HIDE DEF r
  <2>3. [answering EXCEPT !.parts = P, !.seen = S]
          = [[at |-> "asking", rows |-> r.rows, logs |-> r.logs, parts |-> r.parts,
              seen |-> r.seen, start |-> r.start] EXCEPT !.parts = P, !.seen = S]
    BY <2>2, Zenon
  <2> QED BY <2>1, <2>3
<1>3. /\ r.rows \in RowsOf(DOMAIN truth)
      /\ r.parts \in Seq(Unified) /\ r.seen \in Seq(Delivered) /\ Len(r.parts) = Len(r.seen)
      /\ m \in Unified /\ of \in Delivered
  BY <1>1 DEF Gathering, Gathered, Fits, Makes, Says
<1>a. Len(r.rows) \in Nat
  BY <1>3, RowOf
<1>4. /\ P \in Seq(Unified) /\ S \in Seq(Delivered) /\ Len(P) = k /\ Len(S) = k
      /\ k \in Nat \ {0} /\ k <= Len(r.rows)
      /\ P[k] = m /\ S[k] = of
      /\ \A i \in 1..Len(r.parts) : P[i] = r.parts[i] /\ S[i] = r.seen[i]
  BY <1>1, <1>3, <1>a
<1>5. Metrics!Row = r.rows[k]
  BY DEF Metrics!Row
<1> HIDE DEF P, S, r
<1>6. r.rows[k].platform \in DOMAIN truth
  <2>1. k \in 1..Len(r.rows)
    BY <1>4, <1>a
  <2> QED BY <1>3, <2>1, RowOf
<1>7. \A p \in DOMAIN truth :
        r.start[p].impressions \in Nat /\ r.start[p].impressions <= truth[p].impressions
  BY <1>1 DEF Gathering, Gathered
<1>8. ASSUME NEW i \in 1..Len(P)
      PROVE  /\ Fits(P[i], S[i], r.rows[i].platform, truth)
             /\ r.logs[r.rows[i].platform] = {} /\ S[i] # Metrics!Nothing =>
                  r.start[r.rows[i].platform].impressions <= S[i].impressions
  <2>1. CASE i = k
    BY <1>4, <1>5, <1>6, <1>7, <2>1 DEF r
  <2>2. CASE i # k
    <3>1. i \in 1..Len(r.parts)
      BY <1>3, <1>4, <2>2
    <3> QED BY <1>1, <1>4, <3>1 DEF Gathering, Gathered
  <2> QED BY <2>1, <2>2
<1>9. Gathered(r.rows, r.logs, P, S, r.start, truth)
  BY <1>3, <1>4, <1>7, <1>8 DEF Gathered
<1>10. Gathering(answering', truth)
  BY <1>1, <1>2, <1>9 DEF Gathering
<1>11. UNCHANGED <<rows, accounts, truth, logs, answer>>
  BY DEF Metrics!Push
<1> QED BY <1>10, <1>11 DEF InsightInv

LEMMA InsightRow ==
  ASSUME InsightInv, Metrics!Asking
  PROVE  /\ Metrics!Row.platform \in DOMAIN truth /\ Metrics!Row.platform \in Asked
         /\ truth[Metrics!Row.platform] \in Delivered
         /\ Gathering(answering, truth)
<1>1. Gathering(answering, truth) /\ Len(answering.parts) < Len(answering.rows)
  BY DEF InsightInv, Metrics!Asking, Metrics!Idle
<1>2. /\ answering.rows \in RowsOf(DOMAIN truth)
      /\ Len(answering.parts) \in Nat
  BY <1>1 DEF Gathering, Gathered
<1>3. Metrics!Row.platform \in DOMAIN truth
  <2>1. Len(answering.parts) + 1 \in 1..Len(answering.rows)
    BY <1>1, <1>2, RowOf
  <2> QED BY <1>2, <2>1, RowOf DEF Metrics!Row
<1> QED BY <1>1, <1>3 DEF InsightInv

LEMMA UseLogInv == ASSUME InsightInv, Metrics!UseLog PROVE InsightInv'
<1> DEFINE p == Metrics!Row.platform
<1>1. PICK log \in answering.logs[p] : Metrics!Push(log.metrics, log.of)
  BY DEF Metrics!UseLog
<1>2. Metrics!Asking
  BY DEF Metrics!UseLog
<1>3. Fits(log.metrics, log.of, p, truth)
  BY <1>2, InsightRow DEF Gathering, Reported
<1>4. UNCHANGED truth
  BY <1>1 DEF Metrics!Push
<1> QED BY <1>1, <1>2, <1>3, <1>4, PushInv

LEMMA AskPlatformInv == ASSUME InsightInv, Metrics!AskPlatform PROVE InsightInv'
<1> DEFINE p == Metrics!Row.platform
           m == Metrics!TransformToUnifiedMetrics(p, Metrics!RawMetrics(p, truth[p]))
<1>1. Metrics!Push(m, truth[p]) /\ Metrics!Asking
  BY DEF Metrics!AskPlatform, Metrics!Live
<1>2. p \in Asked /\ truth[p] \in Delivered
  BY <1>1, InsightRow
<1>3. Makes(m, p, truth[p])
  BY <1>2, AdapterMakes
<1>4. UNCHANGED truth
  BY <1>1 DEF Metrics!Push
<1> HIDE DEF p, m
<1>5. Fits(m, truth[p], p, truth)
  BY <1>2, <1>3, DeliveredOf DEF Fits
<1> QED BY <1>1, <1>4, <1>5, PushInv DEF p

LEMMA NothingInv ==
  ASSUME InsightInv, Metrics!Asking, Metrics!Push(Metrics!ZeroMetrics, Metrics!Nothing)
  PROVE  InsightInv'
<1> DEFINE p == Metrics!Row.platform
<1>1. truth[p] \in Delivered
  BY InsightRow
<1>2. Fits(Metrics!ZeroMetrics, Metrics!Nothing, p, truth)
  BY <1>1, ZeroMakes, NothingIsDelivered, DeliveredOf DEF Fits
<1>3. UNCHANGED truth
  BY DEF Metrics!Push
<1> QED BY <1>2, <1>3, PushInv

LEMMA GetInsightsInv == ASSUME InsightInv, Metrics!GetInsights PROVE InsightInv'
<1>1. answering' = [at |-> "asking", rows |-> rows, logs |-> logs, parts |-> <<>>,
                    seen |-> <<>>, start |-> truth]
      /\ answer' = {} /\ UNCHANGED <<rows, accounts, truth, logs>>
  BY DEF Metrics!GetInsights
<1>2. Gathered(rows, logs, <<>>, <<>>, truth, truth)
  <2>1. \A p \in DOMAIN truth : truth[p].impressions \in Nat
    BY DeliveredOf DEF InsightInv
  <2>2. Len(rows) \in Nat
    BY DEF InsightInv
  <2> QED BY <2>1, <2>2 DEF InsightInv, Gathered
<1>3. Gathering(answering', truth)
  BY <1>1, <1>2 DEF Gathering, InsightInv
<1> QED BY <1>1, <1>3 DEF InsightInv

LEMMA RespondInv == ASSUME InsightInv, Metrics!Respond PROVE InsightInv'
<1> DEFINE r == answering
           a == [total |-> Metrics!Total(r.parts), byPlatform |-> r.parts, rows |-> r.rows,
                 seen |-> r.seen, start |-> r.start, logs |-> r.logs]
<1>1. /\ answer' = {a} /\ answering' = Metrics!Idle /\ Len(r.parts) = Len(r.rows)
      /\ UNCHANGED <<rows, accounts, truth, logs>>
  BY DEF Metrics!Respond
<1>2. Gathering(r, truth)
  BY DEF InsightInv, Metrics!Respond, Metrics!Idle
<1>3. /\ a.rows = r.rows /\ a.logs = r.logs /\ a.byPlatform = r.parts /\ a.seen = r.seen
      /\ a.start = r.start /\ a.total = Metrics!Total(r.parts)
  OBVIOUS
<1> HIDE DEF a
<1>4. Answered(a, truth)
  BY <1>1, <1>2, <1>3 DEF Answered, Gathering, Gathered
<1> QED BY <1>1, <1>4 DEF InsightInv

LEMMA ServedOf ==
  ASSUME NEW d \in Delivered, NEW kind
  PROVE  LET e == Metrics!Served(d, kind) IN e \in Delivered /\ d.impressions <= e.impressions
<1>1. d = [impressions |-> d.impressions, clicks |-> d.clicks, spend |-> d.spend,
           conversions |-> d.conversions, value |-> d.value]
  BY DEF Delivered
<1>2. CASE kind = "click"
  <2> DEFINE e == [impressions |-> d.impressions + 3, clicks |-> d.clicks + 1,
                   spend |-> d.spend + 7, conversions |-> d.conversions, value |-> d.value]
  <2>1. Metrics!Served(d, kind) = e
    BY <1>1, <1>2 DEF Metrics!Served
  <2>2. e \in Delivered /\ d.impressions <= e.impressions
    BY DeliveredOf DEF Delivered
  <2> QED BY <2>1, <2>2
<1>3. CASE kind # "click"
  <2> DEFINE e == [impressions |-> d.impressions, clicks |-> d.clicks, spend |-> d.spend,
                   conversions |-> d.conversions + 1, value |-> d.value + 50]
  <2>1. Metrics!Served(d, kind) = e
    BY <1>1, <1>3 DEF Metrics!Served
  <2>2. e \in Delivered /\ d.impressions <= e.impressions
    BY DeliveredOf DEF Delivered
  <2> QED BY <2>1, <2>2
<1> QED BY <1>2, <1>3

LEMMA DeliverInv ==
  ASSUME InsightInv, NEW p \in DOMAIN accounts, NEW kind, Metrics!Deliver(p, kind)
  PROVE  InsightInv'
<1> DEFINE d == truth[p]
           e == Metrics!Served(d, kind)
<1>1. truth' = [truth EXCEPT ![p] = e] /\ UNCHANGED <<rows, accounts, logs, answering, answer>>
  BY DEF Metrics!Deliver
<1>2. p \in DOMAIN truth /\ d \in Delivered
  BY DEF InsightInv
<1> HIDE DEF d
<1>3. e \in Delivered /\ d.impressions <= e.impressions
  BY <1>2, ServedOf
<1> HIDE DEF e
<1>4. truth' \in [DOMAIN truth -> Delivered] /\ DOMAIN truth' = DOMAIN truth
  BY <1>1, <1>3 DEF InsightInv
<1>5. \A q \in DOMAIN truth : truth[q] \in Delivered /\ truth'[q] = IF q = p THEN e ELSE truth[q]
  BY <1>1 DEF InsightInv
<1>6. \A q \in DOMAIN truth : truth[q].impressions <= truth[q].impressions
  BY <1>5, DeliveredOf
<1>7. Further(truth, truth')
  BY <1>3, <1>4, <1>5, <1>6 DEF Further, d
<1> QED BY <1>1, <1>4, <1>7, FurtherInv

LEMMA StoreLogInv ==
  ASSUME InsightInv, NEW p \in DOMAIN accounts, Metrics!StoreLog(p)
  PROVE  InsightInv'
<1> DEFINE m == Metrics!TransformToUnifiedMetrics(p, Metrics!RawMetrics(p, truth[p]))
           log == [metrics |-> m, of |-> truth[p]]
<1>1. logs' = [logs EXCEPT ![p] = {log}] /\ UNCHANGED <<rows, accounts, truth, answering, answer>>
  BY DEF Metrics!StoreLog
<1>2. p \in DOMAIN truth /\ p \in Asked /\ truth[p] \in Delivered
  BY DEF InsightInv
<1>3. Makes(m, p, truth[p])
  BY <1>2, AdapterMakes
<1> HIDE DEF m
<1>4. Fits(log.metrics, log.of, p, truth)
  BY <1>2, <1>3, DeliveredOf DEF Fits
<1> HIDE DEF log
<1>5. /\ logs' = [q \in DOMAIN truth |-> logs'[q]]
      /\ \A q \in DOMAIN truth : logs'[q] = IF q = p THEN {log} ELSE logs[q]
  BY <1>1, <1>2 DEF InsightInv
<1>6. Reported(logs', truth')
  BY <1>1, <1>4, <1>5 DEF InsightInv, Reported
<1> QED BY <1>1, <1>5, <1>6 DEF InsightInv

LEMMA SaveIdInv ==
  ASSUME InsightInv, NEW i \in DOMAIN rows, Metrics!SaveId(i)
  PROVE  InsightInv'
<1>1. rows' = [rows EXCEPT ![i].saved = TRUE]
      /\ UNCHANGED <<accounts, truth, logs, answering, answer>>
  BY DEF Metrics!SaveId
<1>2. rows \in RowsOf(DOMAIN truth)
  BY DEF InsightInv
<1>3. rows' \in RowsOf(DOMAIN truth)
  <2> DEFINE R == [platform : DOMAIN truth, saved : BOOLEAN]
             row == [rows[i] EXCEPT !.saved = TRUE]
  <2>1. rows[i] \in R /\ rows \in Seq(R)
    BY <1>2, RowOf DEF RowsOf
  <2>2. row \in R
    BY <2>1
  <2>3. rows' = [rows EXCEPT ![i] = row]
    BY <1>1
  <2> HIDE DEF row, R
  <2>4. rows' \in Seq(R)
    BY <2>1, <2>2, <2>3
  <2> QED BY <2>4 DEF RowsOf, R
<1> QED BY <1>1, <1>3 DEF InsightInv

LEMMA DisconnectInv ==
  ASSUME InsightInv, NEW p \in DOMAIN accounts, Metrics!Disconnect(p)
  PROVE  InsightInv'
BY DEF InsightInv, Metrics!Disconnect

LEMMA InsightNext == ASSUME InsightInv, Metrics!Next PROVE InsightInv'
<1>1. CASE Metrics!GetInsights
  BY <1>1, GetInsightsInv
<1>2. CASE Metrics!UseLog
  BY <1>2, UseLogInv
<1>3. CASE Metrics!AskPlatform
  BY <1>3, AskPlatformInv
<1>4. CASE Metrics!CountNothing
  BY <1>4, NothingInv DEF Metrics!CountNothing, Metrics!Live
<1>5. CASE Metrics!AskFails
  BY <1>5, NothingInv DEF Metrics!AskFails, Metrics!Live
<1>6. CASE Metrics!Respond
  BY <1>6, RespondInv
<1>7. CASE \E i \in DOMAIN rows : Metrics!SaveId(i)
  BY <1>7, SaveIdInv
<1>8. CASE \E p \in DOMAIN accounts :
             \/ Metrics!Disconnect(p) \/ Metrics!StoreLog(p)
             \/ \E kind \in {"click", "sale"} : Metrics!Deliver(p, kind)
  BY <1>8, DisconnectInv, StoreLogInv, DeliverInv
<1> QED BY <1>1, <1>2, <1>3, <1>4, <1>5, <1>6, <1>7, <1>8 DEF Metrics!Next

LEMMA InsightStutter == ASSUME InsightInv, UNCHANGED Metrics!vars PROVE InsightInv'
BY DEF InsightInv, Metrics!vars

LEMMA InsightInit == ASSUME Metrics!Init PROVE InsightInv
<1>1. PICK c \in Campaigns : rows \in {[i \in DOMAIN c |-> [platform |-> c[i], saved |-> s[i]]] :
                                        s \in [DOMAIN c -> BOOLEAN]}
  BY DEF Metrics!Init
<1>2. PICK s \in [DOMAIN c -> BOOLEAN] :
             rows = [i \in DOMAIN c |-> [platform |-> c[i], saved |-> s[i]]]
  BY <1>1
<1>3. c \in Seq(Asked) /\ DOMAIN c = 1..Len(c) /\ Len(c) \in Nat
  BY ServicesAssumption DEF MetricsConstants, Asked
<1> DEFINE P == {rows[i].platform : i \in DOMAIN rows}
<1>4. /\ DOMAIN accounts = P /\ truth = [p \in P |-> Metrics!Nothing]
      /\ logs = [p \in P |-> {}] /\ answering = Metrics!Idle /\ answer = {}
  BY DEF Metrics!Init
<1>5. P \subseteq Asked
  BY <1>2, <1>3
<1>6. rows \in RowsOf(P)
  <2>1. DOMAIN rows = 1..Len(c)
    BY <1>2, <1>3
  <2>2. \A i \in 1..Len(c) : rows[i] \in [platform : P, saved : BOOLEAN]
    BY <1>2, <1>3
  <2>3. rows = [i \in 1..Len(c) |-> rows[i]]
    BY <1>2, <1>3
  <2> HIDE DEF P
  <2> QED BY <1>3, <2>2, <2>3 DEF RowsOf
<1> HIDE DEF P
<1>7. truth \in [DOMAIN truth -> Delivered]
  BY <1>4, NothingIsDelivered
<1>8. logs = [p \in DOMAIN truth |-> logs[p]] /\ Reported(logs, truth)
  BY <1>4 DEF Reported
<1> QED BY <1>4, <1>5, <1>6, <1>7, <1>8 DEF InsightInv

LEMMA InsightHolds == ASSUME InsightInv PROVE Metrics!TotalsAddUp /\ Metrics!AnswerIsRecent
<1>1. ASSUME NEW a \in answer
      PROVE  Gathered(a.rows, a.logs, a.byPlatform, a.seen, a.start, truth)
             /\ Len(a.seen) = Len(a.rows) /\ a.total = Metrics!Total(a.byPlatform)
  BY DEF InsightInv, Answered
<1>2. ASSUME NEW a \in answer PROVE Matches(a)
  <2>1. DOMAIN a.seen = 1..Len(a.seen) /\ DOMAIN a.byPlatform = 1..Len(a.seen)
        /\ Len(a.seen) \in Nat
    BY <1>1 DEF Gathered
  <2>2. IsFiniteSet(1..Len(a.seen))
    BY <2>1, FS_Interval
  <2> QED BY <1>1, <2>1, <2>2 DEF Matches, Gathered, Fits
<1>3. Metrics!TotalsAddUp
  BY <1>2, AnswerAddsUp DEF Metrics!TotalsAddUp
<1>4. Metrics!AnswerIsRecent
  <2> SUFFICES ASSUME NEW a \in answer, NEW i \in DOMAIN a.rows
               PROVE  LET p == a.rows[i].platform IN
                      /\ a.byPlatform[i].impressions <= truth[p].impressions
                      /\ a.logs[p] = {} /\ a.seen[i] # Metrics!Nothing =>
                           a.byPlatform[i].impressions >= a.start[p].impressions
    BY DEF Metrics!AnswerIsRecent
  <2> DEFINE p == a.rows[i].platform
  <2>0. /\ a.rows \in RowsOf(DOMAIN truth) /\ Len(a.byPlatform) = Len(a.rows)
    BY <1>1 DEF Gathered
  <2>1. i \in 1..Len(a.byPlatform) /\ p \in DOMAIN truth
    BY <2>0, RowOf
  <2>2. /\ Fits(a.byPlatform[i], a.seen[i], p, truth)
        /\ a.logs[p] = {} /\ a.seen[i] # Metrics!Nothing =>
             a.start[p].impressions <= a.seen[i].impressions
        /\ a.start[p].impressions \in Nat
    BY <1>1, <2>1 DEF Gathered
  <2>3. a.byPlatform[i].impressions = a.seen[i].impressions /\ a.seen[i].impressions \in Nat
    BY <2>2, DeliveredOf DEF Fits, Makes, Says
  <2> HIDE DEF p
  <2>4. a.byPlatform[i].impressions <= truth[p].impressions
    BY <2>2, <2>3 DEF Fits
  <2>5. a.logs[p] = {} /\ a.seen[i] # Metrics!Nothing =>
          a.byPlatform[i].impressions >= a.start[p].impressions
    BY <2>2, <2>3
  <2> QED BY <2>4, <2>5 DEF p
<1> QED BY <1>3, <1>4

LEMMA InsightsKeep ==
  Metrics!Spec => [](Metrics!TotalsAddUp /\ Metrics!AnswerIsRecent)
<1>1. Metrics!Init => InsightInv
  BY InsightInit
<1>2. InsightInv /\ [Metrics!Next]_Metrics!vars => InsightInv'
  BY InsightNext, InsightStutter
<1>3. InsightInv => Metrics!TotalsAddUp /\ Metrics!AnswerIsRecent
  BY InsightHolds
<1> QED BY <1>1, <1>2, <1>3, PTL DEF Metrics!Spec

-----------------------------------------------------------------------------
(* Services                                                                *)

(* A behaviour of the services is one of each of them. *)
LEMMA Components ==
  ServicesSpec => /\ Crud!Spec /\ Linking!Spec /\ Pages!Spec /\ Adapters!Spec
                  /\ Limiter!Spec /\ Throttle!Spec /\ Store!Spec /\ Form!Spec
                  /\ Metrics!Spec
<1>1. ServicesInit => /\ Crud!Init /\ Linking!Init /\ Pages!Init /\ Adapters!Init
                      /\ Limiter!Init /\ Throttle!Init /\ Store!Init /\ Form!Init
                      /\ Metrics!Init
  BY DEF ServicesInit
<1>2. [ServicesNext]_servicesVars
        => /\ [Crud!Next]_Crud!vars /\ [Linking!Next]_Linking!vars /\ [Pages!Next]_Pages!vars
           /\ [Adapters!Next]_Adapters!vars
           /\ [Limiter!Next]_Limiter!vars /\ [Throttle!Next]_Throttle!vars
           /\ [Store!Next]_Store!vars /\ [Form!Next]_Form!vars /\ [Metrics!Next]_Metrics!vars
  BY DEF ServicesNext, CrudActs, LinkingActs, PagesActs, AdaptersActs, LimiterActs, ThrottleActs,
         StoreActs, FormActs, MetricsActs, servicesVars, apiVars, crudVars, linkingVars, pagesVars,
         adaptersVars, limiterVars, throttleVars, storeVars, formVars, metricsVars,
         Crud!vars, Linking!vars, Pages!vars, Adapters!vars, Limiter!vars, Throttle!vars,
         Store!vars, Form!vars, Metrics!vars
<1> QED BY <1>1, <1>2, PTL
    DEF ServicesSpec, Crud!Spec, Linking!Spec, Pages!Spec, Adapters!Spec, Limiter!Spec,
        Throttle!Spec, Store!Spec, Form!Spec, Metrics!Spec

(* A campaign ends after it starts, for any dates and any number of        *)
(* requests that overlap, unless its start was last moved alone: an update *)
(* that moves the end writes both of the dates it compared, whatever the   *)
(* row has become meanwhile (campaigns.service.ts, update).                *)
THEOREM DatesOrdered == ServicesSpec => []DatesStayOrdered
<1>1. Crud!Spec => []Crud!DatesStayOrdered
  BY ServicesAssumption, CrudDates
<1> QED BY <1>1, Components, PTL DEF DatesStayOrdered

(* "a second call with the same key is rejected with 409 instead of        *)
(* creating a duplicate campaign" (campaigns.service.ts:57), for any       *)
(* number of requests, keys and failures: a key creates one campaign more  *)
(* than those whose creation was reported as failed.                       *)
THEOREM OnePerKey == ServicesSpec => []OneCampaignPerKey
<1>1. Crud!Spec => []Crud!OneCampaignPerKey
  BY ServicesAssumption, CrudKeys
<1> QED BY <1>1, Components, PTL DEF OneCampaignPerKey

(* "GET campaigns" by pages, newest first: a client that reads one page    *)
(* after the other, while campaigns are created and updated, sees each of  *)
(* his campaigns that was there all the time, and no one else's, for any   *)
(* size of a page and any number of rows (campaigns.service.ts, findAll).  *)
(* The number of pages that each answer says is a count of its own, beside *)
(* the page: what the theorem excludes is a row created between the two.   *)
THEOREM WalksComplete == ServicesSpec => []WalkIsComplete
<1>1. Crud!Spec => []Crud!WalkIsComplete
  BY ServicesAssumption, CrudWalks
<1> QED BY <1>1, Components, PTL DEF WalkIsComplete

(* A state token is consumed by one callback, however often the browser    *)
(* comes back, unless two callbacks read it before either had deleted it:  *)
(* consume is a get and a delete (oauth-state.service.ts), and between the *)
(* two there is nothing else that lets it be used twice.                   *)
THEOREM StateConsumedOnce == ServicesSpec => []StateIsConsumedOnce
BY LinkingStates, Components, PTL DEF StateIsConsumedOnce

(* The row holds the last refresh token that a linking obtained, also      *)
(* after linkings that obtained none, and none after a disconnect, unless  *)
(* the row changed between a linking's findUnique and its upsert           *)
(* (accounts.service.ts, completeLinking).                                 *)
THEOREM RefreshTokenLatest == ServicesSpec => []RefreshTokenIsLatest
BY LinkingTokens, Components, PTL DEF RefreshTokenIsLatest

(* A listing that ends before the last page it may ask for misses none of  *)
(* the campaigns that were there all the time, but one for each that was   *)
(* removed from what an offset had passed over, for any number of          *)
(* campaigns, of changes and of campaigns on a page, whether the platform  *)
(* gives a link, a cursor, or nothing but a shorter page to stop at        *)
(* (accounts/connectors, listCampaigns).                                   *)
THEOREM ListingsComplete == ServicesSpec => []ListingIsComplete
<1>1. Pages!Spec => []Pages!ListingIsComplete
  BY ServicesAssumption, PagesKeep
<1> QED BY <1>1, Components, PTL DEF ListingIsComplete

(* "Pauses a campaign on the ad platform", "Updates the budget of an       *)
(* existing campaign on the ad platform" (ads-platform.adapter.ts): what   *)
(* calls that returned have told is so at the platform, for any budgets,   *)
(* accounts and number of calls, whichever others were refused, or timed   *)
(* out and took effect all the same; but for the budgets that Google's     *)
(* adapter never attaches and the refusals that TikTok's takes for         *)
(* answers.  Where the user acted at the platform's console, its status is *)
(* whatever he made it until it is told again.                             *)
THEOREM CallsTold == ServicesSpec => []CallsTakeEffectElsewhere
<1>1. Adapters!Spec => []Adapters!CallsTakeEffectElsewhere
  BY ServicesAssumption, CallsKeep, PTL
<1> QED BY <1>1, Components, PTL DEF CallsTakeEffectElsewhere

(* An import reads the status and the budget that the adapter wrote, for   *)
(* every budget, where adapter and connector use the same names and units: *)
(* hundredths of a dollar and millionths come back as they were            *)
(* (accounts/connectors, fromMinorUnits and fromMicroUnits).               *)
THEOREM ImportsReadBack == ServicesSpec => []ImportReadsWhatWasWritten
<1>1. Adapters!Spec => []Adapters!ImportReadsWhatWasWritten
  BY ServicesAssumption, CallsKeep, PTL
<1> QED BY <1>1, Components, PTL DEF ImportReadsWhatWasWritten

(* No time as long as a window lets in more than two windows' worth of     *)
(* requests, for any limit and window, and the counter has its expiry, or  *)
(* a request is about to give it, unless that command failed               *)
(* (throttle.guard.ts); and no interval lets through more calls to a       *)
(* platform than the limit, but for one more for each call whose check     *)
(* took time, and, with MockRedis, for each that was overtaken             *)
(* (rate-limiter.service.ts).                                              *)
THEOREM LimitsKept == ServicesSpec => []RatesHold
<1>1. Throttle!Spec => []Throttle!WindowHolds
  BY ServicesAssumption, ThrottleKeeps
<1>2. Limiter!Spec => []Limiter!LimitHolds
  BY ServicesAssumption, LimiterKeeps
<1> QED BY <1>1, <1>2, Components, PTL DEF RatesHold

(* MockPrisma, on which the API runs where it has no database, has the     *)
(* rows that a database would have after the same calls, for any number of *)
(* rows and calls: deleting by an id removes what refers to the row, and   *)
(* updating by an id writes the row that was meant.  What it takes is that *)
(* no two rows of a table are given one id in the same millisecond, no     *)
(* transaction throws half way, and no idempotency key is looked for twice *)
(* before it is recorded (prisma.service.ts).                              *)
THEOREM StoresAgree == ServicesSpec => []StoreAgrees
BY StoreKeeps, Components, PTL DEF StoreAgrees

(* "Financial precision conversion: Float string -> BigInt micros"         *)
(* (CreateCampaignForm.tsx): a submitted budget becomes as many millionths *)
(* as were typed, and is shown as it was typed, for every amount the form  *)
(* accepts; and whatever was edited, before or after a submission, no list *)
(* is too short or too long, and the errors shown are those of the values. *)
THEOREM FormsHold == ServicesSpec => []FormHolds
<1>1. Form!Spec => [](Form!SubmissionIsExact /\ Form!FormIsCorrigible)
  BY ServicesAssumption, FormKeeps
<1> QED BY <1>1, Components, PTL DEF FormHolds

(* The totals that campaigns.service.ts answers are those of what the      *)
(* platforms delivered, for campaigns on any of the six, however often,    *)
(* any deliveries before and meanwhile, and any logs, disconnects and      *)
(* failures: what the adapters make of six sets of fields and units, some  *)
(* in micros and some not, adds up, the spend to the cent.  What an answer *)
(* says of a platform is never more than that platform delivered, nor,     *)
(* where no log stands in for it, less than it had at the request.         *)
THEOREM InsightsAddUp == ServicesSpec => []InsightsHold
<1>1. Metrics!Spec => [](Metrics!TotalsAddUp /\ Metrics!AnswerIsRecent)
  BY ServicesAssumption, InsightsKeep
<1> QED BY <1>1, Components, PTL DEF InsightsHold

=============================================================================
