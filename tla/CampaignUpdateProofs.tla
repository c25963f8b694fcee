------------------------- MODULE CampaignUpdateProofs -------------------------
(***************************************************************************)
(* Theorems about CampaignUpdate, for any number of requests, deliveries,  *)
(* retries, updates and disturbances.                                      *)
(***************************************************************************)
EXTENDS CampaignUpdate, FiniteSetTheorems, TLAPS

-----------------------------------------------------------------------------
(* Types                                                                   *)

(* The deliveries TypeOK allows: one that has read knows some fields. *)
Sound == {d \in Delivery : HasRead(d) => d.fields # 0}

(* Deliveries are well typed exactly when all of them are sound. *)
LEMMA SoundIff ==
  handler \in [Handlers -> Sound] <=>
    handler \in [Handlers -> Delivery] /\ \A h \in Handlers : HasRead(handler[h]) => handler[h].fields # 0
BY DEF Sound

(* The same of the next state. *)
LEMMA SoundNext ==
  ASSUME handler' \in [Handlers -> Sound]
  PROVE  /\ handler' \in [Handlers -> Delivery]
         /\ \A h \in Handlers : HasRead(handler[h])' => handler'[h].fields # 0
BY DEF Sound, HasRead

(* The idle delivery is sound, with any message in place of its own, and   *)
(* so is one that has only failed or arrived.                              *)
LEMMA IdleSound ==
  /\ Idle \in Sound
  /\ \A pc \in {"load", "settle", "ack"}, a \in Attempts, t \in BOOLEAN :
       [Idle EXCEPT !.pc = pc, !.attempt = a, !.terminal = t] \in Sound
<1>1. 1 \in Attempts
  BY RetriesAssumption DEF Attempts
<1> QED BY <1>1 DEF Idle, Sound, Delivery, HasRead, Sending

(* Leaving the handler with an error keeps every delivery sound. *)
LEMMA ThrowSound ==
  ASSUME TypeOK, NEW h \in Handlers, NEW t \in BOOLEAN, Throw(h, t)
  PROVE  handler' \in [Handlers -> Sound]
<1>1. handler \in [Handlers -> Sound] /\ handler[h].attempt \in Attempts
  BY SoundIff DEF TypeOK, Delivery
<1>2. [Idle EXCEPT !.pc = "settle", !.attempt = handler[h].attempt, !.terminal = t] \in Sound
  BY <1>1, IdleSound
<1> QED BY <1>1, <1>2 DEF Throw

(* So does moving on: to send something a delivery must have read.         *)
LEMMA GotoSound ==
  ASSUME TypeOK, NEW h \in Handlers, NEW pc \in {"ack"} \cup Sending, Goto(h, pc),
         pc = "ack" \/ HasRead(handler[h])
  PROVE  handler' \in [Handlers -> Sound]
<1>1. handler \in [Handlers -> Sound]
  BY SoundIff DEF TypeOK
<1>2. [handler[h] EXCEPT !.pc = pc] \in Sound
  BY <1>1 DEF Sound, Delivery, HasRead, Sending
<1> QED BY <1>1, <1>2 DEF Goto

(* A call that takes effect ends one delivery and marks the others. *)
LEMMA OvertakingSound ==
  ASSUME TypeOK, NEW h \in Handlers, NEW pc \in {"settle", "ack"},
         Overtaking(h, [Idle EXCEPT !.pc = pc, !.attempt = handler[h].attempt])
  PROVE  handler' \in [Handlers -> Sound]
<1>1. handler \in [Handlers -> Sound] /\ handler[h].attempt \in Attempts
  BY SoundIff DEF TypeOK, Delivery
<1>2. [Idle EXCEPT !.pc = pc, !.attempt = handler[h].attempt] \in Sound
  BY <1>1 DEF Idle, Sound, Delivery, HasRead, Sending
<1>3. \A g \in Handlers : [handler[g] EXCEPT !.overtaken = @ \/ HasRead(handler[g])] \in Sound
  BY <1>1 DEF Sound, Delivery, HasRead, Sending
<1> QED BY <1>2, <1>3 DEF Overtaking

(* One step of a delivery keeps every variable's type. *)
LEMMA HandlerStepType ==
  ASSUME TypeOK, NEW h \in Handlers, HandlerStep(h)
  PROVE  TypeOK'
<1> USE DEF HandlerOnly, Undisturbed, Disturb, row, rest
<1>0. /\ handler \in [Handlers -> Sound]
      /\ handler[h].attempt \in Attempts /\ handler[h].fields \in Nat
  BY SoundIff DEF TypeOK, Delivery
<1>1. CASE LoadRow(h)
  <2>1. handler' \in [Handlers -> Sound]
    <3>1. CASE exists
      <4> DEFINE d == [handler[h] EXCEPT !.pc = "account", !.fields = fields, !.customer = customer]
      <4>1. fields \in Nat /\ fields # 0 /\ customer \in BOOLEAN /\ handler[h] \in Delivery
        BY DEF TypeOK
      <4>2. d \in Delivery
        BY <4>1 DEF Delivery
      <4>3. d.fields # 0
        BY <4>1 DEF Delivery
      <4>4. d \in Sound
        BY <4>2, <4>3 DEF Sound
      <4> QED BY <1>0, <1>1, <3>1, <4>4 DEF LoadRow, Loaded, Found
    <3>2. CASE ~exists
      BY <1>1, <3>2, GotoSound DEF LoadRow
    <3> QED BY <3>1, <3>2
  <2> QED BY <1>1, <2>1, SoundNext DEF LoadRow, TypeOK
<1>2. CASE FindAccount(h)
  <2>1. [handler[h] EXCEPT !.pc = "limit", !.connected = connected] \in Sound
    BY <1>0, <1>2 DEF FindAccount, TypeOK, Sound, Delivery, HasRead, Sending
  <2> QED BY <1>0, <1>2, <2>1, SoundNext DEF FindAccount, TypeOK
<1>3. CASE ReadFails(h)
  <2>1. handler' \in [Handlers -> Sound]
    BY <1>3, ThrowSound DEF ReadFails
  <2> QED BY <1>3, <2>1, SoundNext DEF ReadFails, TypeOK
<1>4. CASE EnforceRateLimit(h)
  <2>1. handler' \in [Handlers -> Sound]
    BY <1>4, GotoSound DEF EnforceRateLimit, HasRead, Sending
  <2> QED BY <1>4, <2>1, SoundNext DEF EnforceRateLimit, TypeOK
<1>5. CASE RateLimitExceeded(h)
  <2>1. handler' \in [Handlers -> Sound]
    BY <1>5, ThrowSound DEF RateLimitExceeded
  <2> QED BY <1>5, <2>1, SoundNext DEF RateLimitExceeded, TypeOK
<1>6. CASE RequireToken(h)
  <2>1. handler' \in [Handlers -> Sound]
    BY <1>6, GotoSound, ThrowSound DEF RequireToken, HasRead, Sending
  <2> QED BY <1>6, <2>1, SoundNext DEF RequireToken, TypeOK
<1>7. CASE RefreshFails(h)
  <2>1. handler' \in [Handlers -> Sound]
    BY <1>7, ThrowSound DEF RefreshFails
  <2>2. connected' \in BOOLEAN
    BY <1>7, Zenon DEF RefreshFails
  <2> QED BY <1>7, <2>1, <2>2, SoundNext DEF RefreshFails, TypeOK
<1>8. CASE Push(h)
  <2>1. handler' \in [Handlers -> Sound]
    BY <1>8, OvertakingSound DEF Push
  <2> QED BY <1>0, <1>8, <2>1, SoundNext DEF Push, Applied, TypeOK, Excuses
<1>9. CASE PushWithoutCustomer(h)
  <2>1. handler' \in [Handlers -> Sound]
    BY <1>9, ThrowSound DEF PushWithoutCustomer
  <2> QED BY <1>9, <2>1, SoundNext DEF PushWithoutCustomer, TypeOK
<1>10. CASE PushRefused(h)
  <2>1. handler' \in [Handlers -> Sound]
    BY <1>10, ThrowSound DEF PushRefused
  <2> QED BY <1>10, <2>1, SoundNext DEF PushRefused, TypeOK
<1>11. CASE PushAnswerLost(h)
  <2>1. handler' \in [Handlers -> Sound]
    BY <1>11, OvertakingSound DEF PushAnswerLost
  <2> QED BY <1>0, <1>11, <2>1, SoundNext DEF PushAnswerLost, Applied, TypeOK, Excuses
<1>12. CASE SettleRetry(h)
  <2>1. handler' \in [Handlers -> Sound]
    BY <1>12, GotoSound DEF SettleRetry
  <2>2. queue' \in [Attempts -> Nat]
    <3>1. handler[h].attempt + 1 \in Attempts
      BY <1>0, <1>12, RetriesAssumption DEF SettleRetry, Exhausted, Attempts
    <3> QED BY <1>12, <3>1 DEF SettleRetry, TypeOK
  <2> QED BY <1>12, <2>1, <2>2, SoundNext DEF SettleRetry, TypeOK
<1>13. CASE SettleDead(h)
  <2>1. handler' \in [Handlers -> Sound]
    BY <1>13, GotoSound DEF SettleDead
  <2> QED BY <1>13, <2>1, SoundNext DEF SettleDead, TypeOK, Excuses
<1>14. CASE Ack(h)
  BY <1>0, <1>14, IdleSound, SoundNext DEF Ack, TypeOK
<1> QED BY <1>1, <1>2, <1>3, <1>4, <1>5, <1>6, <1>7, <1>8, <1>9, <1>10, <1>11, <1>12, <1>13, <1>14
        DEF HandlerStep

(* Every other step keeps them too. *)
LEMMA StepType ==
  ASSUME TypeOK, [Next]_vars
  PROVE  TypeOK'
<1> USE DEF Undisturbed, Disturb, row, rest
<1>0. handler \in [Handlers -> Sound]
  BY SoundIff DEF TypeOK
<1>1. CASE CreationStep
  <2>1. handler' \in [Handlers -> Sound]
    BY <1>0, <1>1 DEF CreationStep, CreationReads, CreationSaves, CreationFails
  <2>2. CASE CreationReads
    BY <2>1, <2>2, SoundNext DEF CreationReads, TypeOK
  <2>3. CASE CreationSaves
    BY <2>1, <2>3, SoundNext DEF CreationSaves, TypeOK
  <2>4. CASE CreationFails
    BY <2>1, <2>4, SoundNext DEF CreationFails, TypeOK
  <2> QED BY <1>1, <2>2, <2>3, <2>4 DEF CreationStep
<1>2. ASSUME NEW q \in Requests, Update(q) PROVE TypeOK'
  <2>1. handler' \in [Handlers -> Sound]
    BY <1>0, <1>2 DEF Update
  <2>2. customer' \in BOOLEAN
    BY <1>2, Zenon DEF Update, TypeOK
  <2>3. fields' \in Nat \ {0} /\ request' \in [Requests -> {"idle", "publish"}] /\ excuse' \subseteq Excuses
    BY <1>2 DEF Update, TypeOK, Excuses
  <2> QED BY <1>2, <2>1, <2>2, <2>3, SoundNext DEF Update, TypeOK
<1>3. ASSUME NEW q \in Requests, Publish(q) PROVE TypeOK'
  <2>1. 1 \in Attempts
    BY RetriesAssumption DEF Attempts
  <2>2. handler' \in [Handlers -> Sound]
    BY <1>0, <1>3 DEF Publish, PublishUpdated, PublishUpdatedFails
  <2>3. CASE PublishUpdated(q)
    BY <2>1, <2>2, <2>3, SoundNext DEF PublishUpdated, TypeOK
  <2>4. CASE PublishUpdatedFails(q)
    BY <2>2, <2>4, SoundNext DEF PublishUpdatedFails, TypeOK, Excuses
  <2> QED BY <1>3, <2>3, <2>4 DEF Publish
<1>4. ASSUME NEW h \in Handlers, NEW a \in Attempts, Deliver(h, a) PROVE TypeOK'
  <2>1. [Idle EXCEPT !.pc = "load", !.attempt = a] \in Sound
    BY DEF Idle, Sound, Delivery, HasRead, Sending
  <2>2. handler' \in [Handlers -> Sound]
    BY <1>0, <1>4, <2>1 DEF Deliver
  <2>3. queue' \in [Attempts -> Nat]
    BY <1>4 DEF Deliver, TypeOK
  <2> QED BY <1>4, <2>2, <2>3, SoundNext DEF Deliver, TypeOK
<1>5. ASSUME NEW h \in Handlers, HandlerStep(h) PROVE TypeOK'
  BY <1>5, HandlerStepType
<1>6. CASE Crash
  <2>1. handler' \in [Handlers -> Sound]
    BY <1>6, IdleSound DEF Crash, Stopped
  <2>2. \A a \in Attempts : Cardinality(InFlight(a)) \in Nat
    <3> SUFFICES ASSUME NEW a \in Attempts PROVE Cardinality(InFlight(a)) \in Nat
      OBVIOUS
    <3>1. IsFiniteSet(InFlight(a))
      BY HandlersAssumption, FS_Subset DEF InFlight
    <3> QED BY <3>1, FS_CardinalityType
  <2>3. queue' \in [Attempts -> Nat]
    BY <1>6, <2>2 DEF Crash, TypeOK
  <2> QED BY <1>6, <2>1, <2>3, SoundNext DEF Crash, Stopped, TypeOK, Excuses
<1>7. CASE UserStep
  <2>1. handler' \in [Handlers -> Sound]
    BY <1>0, <1>7 DEF UserStep, Disconnect, Link, Import, Remove
  <2>2. exists' \in BOOLEAN /\ customer' \in BOOLEAN /\ connected' \in BOOLEAN
    BY <1>7, Zenon DEF UserStep, Disconnect, Link, Import, Remove, TypeOK
  <2> QED BY <1>7, <2>1, <2>2, SoundNext DEF UserStep, Disconnect, Link, Import, Remove, TypeOK
<1>8. CASE UNCHANGED vars
  BY <1>8 DEF vars, TypeOK, HasRead
<1> QED BY <1>1, <1>2, <1>3, <1>4, <1>5, <1>6, <1>7, <1>8 DEF Next, DeliverAny

(* Init is well typed. *)
LEMMA InitType == Init => TypeOK
<1> SUFFICES ASSUME Init PROVE TypeOK
  OBVIOUS
<1>1. handler \in [Handlers -> Sound]
  BY IdleSound DEF Init
<1>2. creation \in [pc : {"waiting", "create", "over"}, fields : Nat]
  BY DEF Init
<1>3. exists \in BOOLEAN /\ saved \in BOOLEAN /\ customer \in BOOLEAN /\ connected \in BOOLEAN
  BY Zenon DEF Init
<1> QED BY <1>1, <1>2, <1>3, SoundIff DEF Init, TypeOK

(* Every variable of CampaignUpdate keeps its type; in particular what is  *)
(* sent to a platform was read from a row that exists.                     *)
THEOREM TypeCorrect == Spec => []TypeOK
BY InitType, StepType, PTL DEF Spec

-----------------------------------------------------------------------------
(* No update disappears                                                    *)

(* Initially nothing is committed but the first fields. *)
LEMMA UpdateInit == Init => UpdateInv
<1> SUFFICES ASSUME Init PROVE UpdateInv
  OBVIOUS
<1>1. TypeOK
  BY InitType
<1>2. \A h \in Handlers : ~HasRead(handler[h]) /\ handler[h].pc = "idle"
  BY DEF Init, Idle, HasRead, Sending
<1>3. Publishing = {} /\ \A a \in Attempts : queue[a] = 0
  BY DEF Init, Publishing
<1> QED
  BY <1>1, <1>2, <1>3 DEF Init, UpdateInv, Committed, NotOlder, CreationIsKnown, QuietBeforeId,
                          UpdateIsOnItsWay, Behind

(* A step of one delivery that sends nothing: what it knows stays true,    *)
(* and if it was bringing the last fields, it still is, or leaves that to  *)
(* a message, or leaves an excuse.                                         *)
LEMMA OneMoves ==
  ASSUME UpdateInv, TypeOK', NEW h \in Handlers, NEW d,
         handler' = [handler EXCEPT ![h] = d], handler[h].pc # "idle",
         UNCHANGED <<exists, fields, saved, copy, creation, request>>,
         HasRead(d) => d.fields <= fields /\ (d.overtaken \/ copy <= d.fields),
         excuse \subseteq excuse',
         (\E a \in Attempts : queue[a] > 0) => (\E a \in Attempts : queue'[a] > 0),
         exists /\ Bringing(handler[h]) =>
           \/ d.pc \in {"load", "settle"}
           \/ HasRead(d) /\ d.fields = fields
           \/ excuse' # {}
           \/ \E a \in Attempts : queue'[a] > 0
  PROVE  UpdateInv'
<1>1. saved
  BY DEF UpdateInv, QuietBeforeId
<1>2. \A g \in Handlers : handler'[g] = IF g = h THEN d ELSE handler[g]
  BY DEF UpdateInv, TypeOK
<1>3. Committed' /\ NotOlder'
  BY <1>2 DEF UpdateInv, Committed, NotOlder, HasRead
<1>4. CreationIsKnown' /\ QuietBeforeId'
  BY <1>1 DEF UpdateInv, CreationIsKnown, QuietBeforeId
<1>5. UpdateIsOnItsWay'
  <2> SUFFICES ASSUME Behind', excuse' = {} PROVE OnItsWay'
    BY DEF UpdateIsOnItsWay
  <2>1. OnItsWay /\ exists
    BY DEF UpdateInv, UpdateIsOnItsWay, Behind
  <2>2. CASE Publishing # {}
    BY <2>2 DEF OnItsWay, Publishing
  <2>3. CASE \E a \in Attempts : queue[a] > 0
    BY <2>3 DEF OnItsWay
  <2>4. ASSUME NEW g \in Handlers, Bringing(handler[g]) PROVE OnItsWay'
    <3>1. CASE g = h
      BY <1>2, <2>1, <2>4, <3>1 DEF OnItsWay, Bringing, HasRead
    <3>2. CASE g # h
      BY <1>2, <2>4, <3>2 DEF OnItsWay, Bringing, HasRead
    <3> QED BY <3>1, <3>2
  <2> QED BY <2>1, <2>2, <2>3, <2>4 DEF OnItsWay
<1> QED BY <1>3, <1>4, <1>5 DEF UpdateInv

(* A delivery that throws goes back to the consumer, which decides. *)
LEMMA Throws ==
  ASSUME UpdateInv, TypeOK', NEW h \in Handlers, NEW t, Throw(h, t), handler[h].pc # "idle",
         UNCHANGED <<exists, fields, saved, copy, creation, request, queue, excuse>>
  PROVE  UpdateInv'
<1> DEFINE d == [Idle EXCEPT !.pc = "settle", !.attempt = handler[h].attempt, !.terminal = t]
<1>1. handler' = [handler EXCEPT ![h] = d]
  BY DEF Throw
<1>2. d.pc = "settle" /\ ~HasRead(d)
  BY DEF Idle, HasRead, Sending
<1> HIDE DEF d
<1>3. (\E a \in Attempts : queue[a] > 0) => (\E a \in Attempts : queue'[a] > 0)
  OBVIOUS
<1>4. d.pc \in {"load", "settle"} /\ excuse \subseteq excuse'
  BY <1>2
<1>5. exists /\ Bringing(handler[h]) =>
        \/ d.pc \in {"load", "settle"}
        \/ HasRead(d) /\ d.fields = fields
        \/ excuse' # {}
        \/ \E a \in Attempts : queue'[a] > 0
  BY <1>4
<1>6. UNCHANGED <<exists, fields, saved, copy, creation, request>>
  OBVIOUS
<1> QED BY <1>1, <1>2, <1>3, <1>4, <1>5, <1>6, OneMoves

(* Fields reach the platform. If they are the last, it has caught up. If   *)
(* not, and nobody has overtaken the delivery, then the platform was       *)
(* behind before, and what was on its way still is.                        *)
LEMMA Sends ==
  ASSUME UpdateInv, TypeOK', NEW h \in Handlers, NEW d, handler[h].pc = "push",
         d.pc \in {"settle", "ack"}, Applied(h), Overtaking(h, d),
         UNCHANGED <<exists, fields, saved, creation, request, queue>>
  PROVE  UpdateInv'
<1>1. saved /\ HasRead(handler[h])
  BY DEF UpdateInv, QuietBeforeId, HasRead, Sending
<1>2. \A g \in Handlers \ {h} :
        /\ handler'[g].pc = handler[g].pc /\ handler'[g].fields = handler[g].fields
        /\ HasRead(handler[g]) => handler'[g].overtaken
  BY DEF Overtaking, UpdateInv, TypeOK, Delivery
<1>3. handler'[h] = d /\ ~HasRead(d)
  BY DEF Overtaking, HasRead, Sending
<1>4. /\ copy' = handler[h].fields /\ handler[h].fields \in Nat /\ copy \in Nat /\ fields \in Nat
      /\ handler[h].fields <= fields
  BY <1>1 DEF Applied, UpdateInv, TypeOK, Delivery, Committed
<1>5. Committed' /\ NotOlder'
  BY <1>2, <1>3, <1>4 DEF UpdateInv, Committed, NotOlder, HasRead
<1>6. CreationIsKnown' /\ QuietBeforeId'
  BY <1>1 DEF UpdateInv, CreationIsKnown, QuietBeforeId
<1>7. UpdateIsOnItsWay'
  <2> SUFFICES ASSUME Behind', excuse' = {} PROVE OnItsWay'
    BY DEF UpdateIsOnItsWay
  <2>1. handler[h].fields # fields /\ excuse = {} /\ ~handler[h].overtaken
    BY <1>4 DEF Behind, Applied
  <2>2. copy <= handler[h].fields
    BY <1>1, <2>1 DEF UpdateInv, NotOlder
  <2>3. OnItsWay /\ exists
    BY <1>1, <1>4, <2>1, <2>2 DEF UpdateInv, UpdateIsOnItsWay, Behind
  <2>4. ~Bringing(handler[h])
    BY <2>1 DEF Bringing
  <2>5. CASE Publishing # {}
    BY <2>5 DEF OnItsWay, Publishing
  <2>6. CASE \E a \in Attempts : queue[a] > 0
    BY <2>6 DEF OnItsWay
  <2>7. ASSUME NEW g \in Handlers, Bringing(handler[g]) PROVE OnItsWay'
    BY <1>2, <2>4, <2>7 DEF OnItsWay, Bringing, HasRead
  <2> QED BY <2>3, <2>5, <2>6, <2>7 DEF OnItsWay
<1> QED BY <1>5, <1>6, <1>7 DEF UpdateInv

(* One step of a delivery preserves the invariant. *)
LEMMA HandlerStepInv ==
  ASSUME UpdateInv, NEW h \in Handlers, HandlerStep(h)
  PROVE  UpdateInv'
<1> USE DEF HandlerOnly, row, rest
<1>0. /\ TypeOK /\ TypeOK'
      /\ handler[h] \in Delivery
      /\ HasRead(handler[h]) =>
           handler[h].fields <= fields /\ (handler[h].overtaken \/ copy <= handler[h].fields)
  BY HandlerStepType DEF UpdateInv, TypeOK, Committed, NotOlder
<1>1. CASE LoadRow(h)
  <2>1. CASE exists
    <3> DEFINE d == [handler[h] EXCEPT !.pc = "account", !.fields = fields, !.customer = customer]
    <3>1. handler' = [handler EXCEPT ![h] = d]
      BY <1>1, <2>1 DEF LoadRow, Loaded, Found
    <3>2. HasRead(d) /\ d.fields = fields
      BY <1>0 DEF HasRead, Delivery
    <3>3. copy <= fields /\ fields \in Nat
      BY <1>0 DEF UpdateInv, Committed, TypeOK
    <3> HIDE DEF d
    <3>4. /\ handler[h].pc # "idle" /\ excuse \subseteq excuse'
          /\ UNCHANGED <<exists, fields, saved, copy, creation, request, queue>>
      BY <1>1 DEF LoadRow
    <3>5. (\E a \in Attempts : queue[a] > 0) => (\E a \in Attempts : queue'[a] > 0)
      BY <3>4
    <3>6. exists /\ Bringing(handler[h]) =>
            \/ d.pc \in {"load", "settle"}
            \/ HasRead(d) /\ d.fields = fields
            \/ excuse' # {}
            \/ \E a \in Attempts : queue'[a] > 0
      BY <3>2
    <3>7. UNCHANGED <<exists, fields, saved, copy, creation, request>>
      BY <3>4
    <3>8. HasRead(d) => d.fields <= fields /\ (d.overtaken \/ copy <= d.fields)
      BY <3>2, <3>3
    <3> QED BY <1>0, <3>1, <3>4, <3>5, <3>6, <3>7, <3>8, OneMoves
  <2>2. CASE ~exists
    <3> DEFINE d == [handler[h] EXCEPT !.pc = "ack"]
    <3>1. handler' = [handler EXCEPT ![h] = d]
      BY <1>1, <2>2 DEF LoadRow, Goto
    <3>2. ~HasRead(d)
      BY <1>0 DEF HasRead, Sending, Delivery
    <3> HIDE DEF d
    <3> QED BY <1>0, <1>1, <2>2, <3>1, <3>2, OneMoves DEF LoadRow
  <2> QED BY <2>1, <2>2
<1>2. CASE FindAccount(h)
  <2> DEFINE d == [handler[h] EXCEPT !.pc = "limit", !.connected = connected]
  <2>1. handler' = [handler EXCEPT ![h] = d]
    BY <1>2 DEF FindAccount
  <2>2. HasRead(handler[h]) /\ HasRead(d) /\ d.fields = handler[h].fields /\ d.overtaken = handler[h].overtaken
    BY <1>0, <1>2 DEF FindAccount, HasRead, Sending, Delivery
  <2>3. Bringing(handler[h]) => d.fields = fields
    BY <1>2, <2>2 DEF FindAccount, Bringing
  <2> HIDE DEF d
  <2> QED BY <1>0, <1>2, <2>1, <2>2, <2>3, OneMoves DEF FindAccount
<1>3. CASE ReadFails(h)
  BY <1>0, <1>3, Throws DEF ReadFails
<1>4. ASSUME NEW pc \in Sending, Goto(h, pc), handler[h].pc \in Sending,
             UNCHANGED <<exists, fields, saved, copy, creation, request, queue, excuse>>
      PROVE  UpdateInv'
  <2> DEFINE d == [handler[h] EXCEPT !.pc = pc]
  <2>1. handler' = [handler EXCEPT ![h] = d]
    BY <1>4 DEF Goto
  <2>2. HasRead(handler[h]) /\ HasRead(d) /\ d.fields = handler[h].fields /\ d.overtaken = handler[h].overtaken
    BY <1>0, <1>4 DEF HasRead, Sending, Delivery
  <2>3. Bringing(handler[h]) => d.fields = fields
    BY <1>4, <2>2 DEF Bringing, Sending
  <2>4. handler[h].pc # "idle"
    BY <1>4 DEF Sending
  <2> HIDE DEF d
  <2> QED BY <1>0, <1>4, <2>1, <2>2, <2>3, <2>4, OneMoves
<1>5. CASE EnforceRateLimit(h)
  BY <1>4, <1>5 DEF EnforceRateLimit, Sending
<1>6. CASE RateLimitExceeded(h)
  BY <1>0, <1>6, Throws DEF RateLimitExceeded
<1>7. CASE RequireToken(h)
  BY <1>0, <1>4, <1>7, Throws DEF RequireToken, Sending
<1>8. CASE RefreshFails(h)
  BY <1>0, <1>8, Throws DEF RefreshFails
<1>9. CASE Push(h)
  <2> DEFINE d == [Idle EXCEPT !.pc = "ack", !.attempt = handler[h].attempt]
  <2>1. d.pc = "ack"
    BY DEF Idle
  <2> HIDE DEF d
  <2>2. Overtaking(h, d)
    BY <1>9 DEF Push, d
  <2> QED BY <1>0, <1>9, <2>1, <2>2, Sends DEF Push
<1>10. CASE PushWithoutCustomer(h)
  BY <1>0, <1>10, Throws DEF PushWithoutCustomer
<1>11. CASE PushRefused(h)
  BY <1>0, <1>11, Throws DEF PushRefused
<1>12. CASE PushAnswerLost(h)
  <2> DEFINE d == [Idle EXCEPT !.pc = "settle", !.attempt = handler[h].attempt]
  <2>1. d.pc = "settle"
    BY DEF Idle
  <2> HIDE DEF d
  <2>2. Overtaking(h, d)
    BY <1>12 DEF PushAnswerLost, d
  <2> QED BY <1>0, <1>12, <2>1, <2>2, Sends DEF PushAnswerLost
<1>13. CASE SettleRetry(h) \/ SettleDead(h)
  <2> DEFINE d == [handler[h] EXCEPT !.pc = "ack"]
  <2>1. handler' = [handler EXCEPT ![h] = d] /\ handler[h].pc # "idle"
    BY <1>13 DEF SettleRetry, SettleDead, Goto
  <2>2. ~HasRead(d)
    BY <1>0 DEF HasRead, Sending, Delivery
  <2> HIDE DEF d
  <2>3. CASE SettleRetry(h)
    <3>1. handler[h].attempt + 1 \in Attempts
      BY <1>0, <2>3, RetriesAssumption DEF SettleRetry, Exhausted, Delivery, Attempts
    <3>2. queue'[handler[h].attempt + 1] > 0
      BY <1>0, <2>3, <3>1 DEF SettleRetry, TypeOK
    <3> QED BY <1>0, <2>1, <2>2, <2>3, <3>1, <3>2, OneMoves DEF SettleRetry
  <2>4. CASE SettleDead(h)
    BY <1>0, <2>1, <2>2, <2>4, OneMoves DEF SettleDead
  <2> QED BY <1>13, <2>3, <2>4
<1>14. CASE Ack(h)
  <2>1. ~HasRead(Idle) /\ ~Bringing(handler[h]) /\ handler[h].pc # "idle"
    BY <1>14 DEF Ack, Idle, HasRead, Bringing, Sending
  <2> QED BY <1>0, <1>14, <2>1, OneMoves DEF Ack
<1> QED BY <1>1, <1>2, <1>3, <1>5, <1>6, <1>7, <1>8, <1>9, <1>10, <1>11, <1>12, <1>13, <1>14
        DEF HandlerStep

(* Every other step preserves it too. *)
LEMMA UpdateStep ==
  ASSUME UpdateInv, [Next]_vars
  PROVE  UpdateInv'
<1> USE DEF row, rest
<1>0. TypeOK /\ TypeOK'
  BY StepType DEF UpdateInv
<1>1. CASE CreationReads
  <2>1. ~saved /\ ~saved'
    BY <1>1 DEF CreationReads, UpdateInv, QuietBeforeId
  <2>2. Committed' /\ NotOlder' /\ QuietBeforeId'
    BY <1>1, <2>1 DEF CreationReads, UpdateInv, Committed, NotOlder, QuietBeforeId, HasRead, Publishing
  <2>3. CreationIsKnown'
    BY <1>0, <1>1 DEF CreationReads, CreationIsKnown, TypeOK
  <2>4. UpdateIsOnItsWay'
    BY <2>1 DEF UpdateIsOnItsWay, Behind
  <2> QED BY <1>0, <2>2, <2>3, <2>4 DEF UpdateInv
<1>2. CASE CreationSaves
  <2>1. ~saved /\ saved'
    BY <1>2 DEF CreationSaves, UpdateInv, QuietBeforeId
  <2>2. \A h \in Handlers : ~HasRead(handler[h])
    BY <2>1 DEF UpdateInv, QuietBeforeId, HasRead, Sending
  <2>3. Committed' /\ NotOlder'
    BY <1>0, <1>2, <2>2
       DEF CreationSaves, UpdateInv, Committed, NotOlder, CreationIsKnown, HasRead, TypeOK
  <2>4. CreationIsKnown' /\ QuietBeforeId'
    BY <1>0, <1>2, <2>1 DEF CreationSaves, CreationIsKnown, QuietBeforeId, TypeOK
  <2>5. UpdateIsOnItsWay'
    BY <1>2 DEF CreationSaves, UpdateInv, CreationIsKnown, UpdateIsOnItsWay, Behind
  <2> QED BY <1>0, <2>3, <2>4, <2>5 DEF UpdateInv
<1>3. CASE CreationFails
  <2>1. ~saved /\ ~saved'
    BY <1>3 DEF CreationFails, UpdateInv, QuietBeforeId
  <2>2. Committed' /\ NotOlder' /\ QuietBeforeId'
    BY <1>3, <2>1 DEF CreationFails, UpdateInv, Committed, NotOlder, QuietBeforeId, HasRead, Publishing
  <2>3. CreationIsKnown'
    BY <1>3 DEF CreationFails, CreationIsKnown
  <2>4. UpdateIsOnItsWay'
    BY <2>1 DEF UpdateIsOnItsWay, Behind
  <2> QED BY <1>0, <2>2, <2>3, <2>4 DEF UpdateInv
<1>4. ASSUME NEW q \in Requests, Update(q) PROVE UpdateInv'
  <2>1. fields \in Nat /\ fields' = fields + 1 /\ copy \in Nat
    BY <1>0, <1>4 DEF Update, TypeOK
  <2>2. Committed' /\ NotOlder'
    <3>1. \A h \in Handlers : HasRead(handler[h]) => handler[h].fields \in Nat
      BY <1>0 DEF TypeOK, Delivery
    <3> QED BY <1>4, <2>1, <3>1 DEF Update, UpdateInv, Committed, NotOlder, HasRead
  <2>3. CreationIsKnown'
    BY <1>0, <1>4, <2>1 DEF Update, UpdateInv, CreationIsKnown, TypeOK
  <2>4. QuietBeforeId'
    <3>1. ~saved => Publishing' = {}
      BY <1>4 DEF Update, UpdateInv, QuietBeforeId, Publishing, TypeOK
    <3> QED BY <1>4, <3>1 DEF Update, UpdateInv, QuietBeforeId
  <2>5. UpdateIsOnItsWay'
    <3>1. saved => q \in Publishing'
      BY <1>0, <1>4 DEF Update, Publishing, TypeOK
    <3> QED BY <1>4, <3>1 DEF Update, UpdateIsOnItsWay, Behind, OnItsWay
  <2> QED BY <1>0, <2>2, <2>3, <2>4, <2>5 DEF UpdateInv
<1>5. ASSUME NEW q \in Requests, Publish(q) PROVE UpdateInv'
  <2>1. request[q] = "publish" /\ UNCHANGED <<exists, fields, saved, copy, creation, handler>>
    BY <1>5 DEF Publish, PublishUpdated, PublishUpdatedFails
  <2>2. saved /\ saved'
    BY <2>1 DEF UpdateInv, QuietBeforeId, Publishing
  <2>3. excuse \subseteq excuse'
    BY <1>5 DEF Publish, PublishUpdated, PublishUpdatedFails
  <2>4. Committed' /\ NotOlder' /\ CreationIsKnown' /\ QuietBeforeId'
    BY <2>1, <2>2, <2>3 DEF UpdateInv, Committed, NotOlder, CreationIsKnown, QuietBeforeId, HasRead
  <2>5. UpdateIsOnItsWay'
    <3>1. CASE PublishUpdated(q)
      <4>1. 1 \in Attempts /\ queue'[1] > 0
        BY <1>0, <3>1, RetriesAssumption DEF PublishUpdated, TypeOK, Attempts
      <4> QED BY <4>1 DEF UpdateIsOnItsWay, OnItsWay
    <3>2. CASE PublishUpdatedFails(q)
      BY <3>2 DEF PublishUpdatedFails, UpdateIsOnItsWay
    <3> QED BY <1>5, <3>1, <3>2 DEF Publish
  <2> QED BY <1>0, <2>4, <2>5 DEF UpdateInv
<1>6. ASSUME NEW h \in Handlers, NEW a \in Attempts, Deliver(h, a) PROVE UpdateInv'
  <2>1. saved /\ saved' /\ UNCHANGED <<exists, fields, copy, creation, request, excuse>>
    BY <1>6 DEF Deliver, UpdateInv, QuietBeforeId, TypeOK
  <2>2. /\ handler'[h].pc = "load"
        /\ \A g \in Handlers \ {h} : handler'[g] = handler[g]
    BY <1>0, <1>6 DEF Deliver, TypeOK, Idle
  <2>3. Committed' /\ NotOlder'
    BY <2>1, <2>2 DEF UpdateInv, Committed, NotOlder, HasRead, Sending
  <2>4. CreationIsKnown' /\ QuietBeforeId'
    BY <2>1 DEF UpdateInv, CreationIsKnown, QuietBeforeId
  <2>5. UpdateIsOnItsWay'
    BY <2>2 DEF UpdateIsOnItsWay, OnItsWay, Bringing
  <2> QED BY <1>0, <2>3, <2>4, <2>5 DEF UpdateInv
<1>7. ASSUME NEW h \in Handlers, HandlerStep(h) PROVE UpdateInv'
  BY <1>7, HandlerStepInv
<1>8. CASE Crash
  <2>1. UNCHANGED <<exists, fields, saved, copy>> /\ excuse \subseteq excuse'
    BY <1>8 DEF Crash, Stopped
  <2>2. \A h \in Handlers : handler'[h] = Idle /\ handler'[h].pc = "idle" /\ ~HasRead(handler'[h])
    BY <1>8 DEF Crash, Stopped, Idle, HasRead, Sending
  <2>3. Committed' /\ NotOlder'
    BY <2>1, <2>2 DEF UpdateInv, Committed, NotOlder, HasRead
  <2>4. CreationIsKnown'
    BY <1>8 DEF Crash, Stopped, UpdateInv, CreationIsKnown
  <2>5. \A a \in Attempts :
          /\ IsFiniteSet(InFlight(a)) /\ Cardinality(InFlight(a)) \in Nat
          /\ InFlight(a) # {} => Cardinality(InFlight(a)) > 0
    <3> SUFFICES ASSUME NEW a \in Attempts
                 PROVE  /\ IsFiniteSet(InFlight(a)) /\ Cardinality(InFlight(a)) \in Nat
                        /\ InFlight(a) # {} => Cardinality(InFlight(a)) > 0
      OBVIOUS
    <3>1. IsFiniteSet(InFlight(a))
      BY HandlersAssumption, FS_Subset DEF InFlight
    <3> QED BY <3>1, FS_CardinalityType, FS_EmptySet
  <2>6. QuietBeforeId'
    <3>1. saved <=> creation'.pc = "over"
      BY <1>8 DEF Crash, Stopped, UpdateInv, QuietBeforeId
    <3>2. ASSUME ~saved
          PROVE  /\ copy = 0 /\ Publishing' = {}
                 /\ \A a \in Attempts : queue'[a] = 0
                 /\ \A h \in Handlers : handler'[h].pc = "idle"
      <4>1. \A a \in Attempts : InFlight(a) = {} /\ queue[a] = 0
        BY <3>2 DEF UpdateInv, QuietBeforeId, InFlight
      <4>2. \A a \in Attempts : queue'[a] = 0
        BY <1>8, <4>1, FS_EmptySet DEF Crash
      <4>3. copy = 0 /\ Publishing' = {}
        BY <1>8, <3>2 DEF Crash, Stopped, UpdateInv, QuietBeforeId, Publishing
      <4> QED BY <2>2, <4>2, <4>3
    <3> QED BY <2>1, <3>1, <3>2 DEF QuietBeforeId
  <2>7. UpdateIsOnItsWay'
    <3> SUFFICES ASSUME Behind', excuse' = {} PROVE OnItsWay'
      BY DEF UpdateIsOnItsWay
    <3>1. OnItsWay
      BY <2>1 DEF UpdateInv, UpdateIsOnItsWay, Behind
    <3>2. Publishing = {}
      BY <1>8 DEF Crash, Stopped
    <3>3. \A a \in Attempts : queue[a] \in Nat /\ queue'[a] = queue[a] + Cardinality(InFlight(a))
      BY <1>0, <1>8 DEF Crash, TypeOK
    <3>4. ASSUME NEW a \in Attempts, queue[a] > 0 PROVE OnItsWay'
      BY <2>5, <3>3, <3>4 DEF OnItsWay
    <3>5. ASSUME NEW h \in Handlers, Bringing(handler[h]) PROVE OnItsWay'
      <4>1. handler[h].attempt \in Attempts /\ h \in InFlight(handler[h].attempt)
        BY <1>0, <3>5 DEF TypeOK, Delivery, InFlight, Bringing, HasRead, Sending
      <4>2. queue'[handler[h].attempt] > 0
        BY <2>5, <3>3, <4>1
      <4> QED BY <4>1, <4>2 DEF OnItsWay
    <3> QED BY <3>1, <3>2, <3>4, <3>5 DEF OnItsWay
  <2> QED BY <1>0, <2>3, <2>4, <2>6, <2>7 DEF UpdateInv
<1>9. CASE UserStep \/ UNCHANGED vars
  <2>1. /\ UNCHANGED <<fields, saved, copy, creation, request, queue, handler, excuse>>
        /\ exists' => exists
    BY <1>9 DEF UserStep, Disconnect, Link, Import, Remove, vars
  <2>2. Committed' /\ NotOlder' /\ CreationIsKnown' /\ QuietBeforeId'
    BY <2>1 DEF UpdateInv, Committed, NotOlder, CreationIsKnown, QuietBeforeId, HasRead, Publishing
  <2>3. OnItsWay' <=> OnItsWay
    BY <2>1 DEF OnItsWay, Publishing, Bringing, HasRead
  <2>4. UpdateIsOnItsWay'
    BY <2>1, <2>3 DEF UpdateInv, UpdateIsOnItsWay, Behind
  <2> QED BY <1>0, <2>2, <2>4 DEF UpdateInv
<1> QED BY <1>1, <1>2, <1>3, <1>4, <1>5, <1>6, <1>7, <1>8, <1>9
        DEF Next, CreationStep, DeliverAny

(* An update of a created campaign is never silently lost: while the       *)
(* platform has other fields than the row, an event is on its way with the *)
(* last ones, or it could not be published, is dead-lettered, met a        *)
(* creation in progress, or an overtaken delivery has sent older fields.   *)
THEOREM OnTheWay == Spec => []UpdateIsOnItsWay
<1>1. UpdateInv => UpdateIsOnItsWay
  BY DEF UpdateInv
<1> QED BY <1>1, UpdateInit, UpdateStep, PTL DEF Spec

(* The platform goes back to older fields only by a delivery that another  *)
(* has overtaken between its reading of the row and its call.              *)
THEOREM ForwardOnly == Spec => NoStepBack
<1> DEFINE Overtaken == \E h \in Handlers : handler[h].pc = "push" /\ handler[h].overtaken
<1>1. ASSUME UpdateInv, [Next]_vars PROVE [copy' < copy => Overtaken]_vars
  <2> SUFFICES ASSUME copy' < copy PROVE Overtaken
    OBVIOUS
  <2>1. copy \in Nat /\ copy' \in Nat
    BY <1>1, StepType DEF UpdateInv, TypeOK
  <2>2. copy' # copy
    BY <2>1
  <2>3. ~CreationSaves
    BY <1>1, <2>1 DEF CreationSaves, UpdateInv, QuietBeforeId
  <2>4. PICK h \in Handlers : handler[h].pc = "push" /\ copy' = handler[h].fields
    BY <1>1, <2>2, <2>3
       DEF Next, vars, row, rest, CreationStep, CreationReads, CreationFails, Update, Publish, PublishUpdated,
           PublishUpdatedFails, DeliverAny, Deliver, HandlerStep, HandlerOnly, LoadRow, FindAccount, ReadFails,
           EnforceRateLimit, RateLimitExceeded, RequireToken, RefreshFails, Push, PushWithoutCustomer,
           PushRefused, PushAnswerLost, Applied, SettleRetry, SettleDead, Ack, Crash, UserStep, Disconnect,
           Link, Import, Remove
  <2>5. HasRead(handler[h])
    BY <2>4 DEF HasRead, Sending
  <2> QED BY <1>1, <2>1, <2>4, <2>5 DEF UpdateInv, NotOlder
<1> QED BY <1>1, UpdateInit, UpdateStep, PTL DEF Spec, NoStepBack

=============================================================================
