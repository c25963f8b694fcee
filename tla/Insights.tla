------------------------------ MODULE Insights ------------------------------
(***************************************************************************)
(* The insights of a campaign: campaigns.service.ts asks each platform the *)
(* campaign is on, one after the other, and adds up what the adapters make *)
(* of the answers.  The platforms go on delivering meanwhile.              *)
(*                                                                         *)
(* Money is in tenths of a cent (1000 micros).  A quotient is a pair of    *)
(* its terms, and only the totals are rounded, as in the code.             *)
(***************************************************************************)
EXTENDS Integers, Sequences, FiniteSetsExt

CONSTANTS
  Campaigns,        \* bound: the platforms a campaign may be on, as sequences
  MaxDeliveries,    \* bound: deliveries of the platforms
  Actions,          \* "save", "store", "disconnect", "fail": what else may happen
  MaxActions,       \* bound: how often it does
  MaxRequests       \* bound: requests for insights

VARIABLES
  rows,             \* the campaign's platform campaigns: <<[platform, saved]>>
  accounts,         \* the user's connected account of each platform
  truth,            \* what each platform has delivered
  logs,             \* the latest metric log of each platform, if there is one
  request,          \* the request: at "idle", or asking for row `next`
  answer,           \* the last answer, if there is one
  deliveries, actions, requests  \* bounds

vars == <<rows, accounts, truth, logs, request, answer, deliveries, actions, requests>>

AccountStates == {"unbound", "connected", "off"}
Nothing == [impressions |-> 0, clicks |-> 0, spend |-> 0, conversions |-> 0, value |-> 0]
Idle == [at |-> "idle"]

Init ==
  /\ \E c \in Campaigns : rows \in
       {[i \in DOMAIN c |-> [platform |-> c[i], saved |-> s[i]]] : s \in [DOMAIN c -> BOOLEAN]}
  /\ accounts \in [{rows[i].platform : i \in DOMAIN rows} -> AccountStates]
  /\ truth = [p \in DOMAIN accounts |-> Nothing]
  /\ logs = [p \in DOMAIN accounts |-> {}]
  /\ request = Idle /\ answer = {}
  /\ deliveries = 0 /\ actions = 0 /\ requests = 0

-----------------------------------------------------------------------------
(* The platforms' answers, and what the adapters make of them              *)

Field(raw, f) == IF f \in DOMAIN raw THEN raw[f] ELSE 0
Over(a, b) == IF b > 0 THEN <<a, b>> ELSE <<0, 1>>
Micros(amount) == 1000 * amount
FromMicros(micros) == micros \div 1000

(* The metrics a platform answers with, in its own fields and units; a     *)
(* value of conversions is there once there are conversions.               *)
Valued(d, raw, f) == IF d.conversions = 0 THEN raw
                     ELSE [g \in DOMAIN raw \cup {f} |-> IF g = f THEN d.value ELSE raw[g]]
RawMetrics(p, d) ==
  IF d = Nothing THEN [metrics |-> 0] ELSE
  CASE p = "META" ->
         Valued(d, [impressions |-> d.impressions, clicks |-> d.clicks, spend |-> d.spend,
                    purchases |-> d.conversions, ctr |-> Over(d.clicks, d.impressions),
                    cpc |-> Over(d.spend, d.clicks)], "purchase_value")
    [] p = "GOOGLE" ->
         Valued(d, [impressions |-> d.impressions, clicks |-> d.clicks,
                    cost_micros |-> Micros(d.spend), conversions |-> d.conversions,
                    ctr |-> Over(d.clicks, d.impressions),
                    average_cpc |-> Over(Micros(d.spend), d.clicks)], "conversions_value")
    [] p = "LINKEDIN" ->
         Valued(d, [impressions |-> d.impressions, clicks |-> d.clicks,
                    costInLocalCurrency |-> d.spend, conversions |-> d.conversions],
                "conversionValueInLocalCurrency")
    [] p = "X" ->
         [impressions |-> d.impressions, clicks |-> d.clicks,
          billed_charge_local_micro |-> Micros(d.spend), conversion_purchases |-> d.conversions]
    [] p = "SNAPCHAT" ->
         [impressions |-> d.impressions, swipes |-> d.clicks, spend |-> Micros(d.spend),
          conversion_purchases |-> d.conversions]
    [] p = "TIKTOK" ->
         [impressions |-> d.impressions, clicks |-> d.clicks, spend |-> d.spend,
          conversion |-> d.conversions]

Metrics(impressions, clicks, spend, conversions, ctr, cpc, roas) ==
  [impressions |-> impressions, clicks |-> clicks, spend |-> spend, conversions |-> conversions,
   ctr |-> ctr, cpc |-> cpc, roas |-> roas]
Ratio(raw, f, else) == IF f \in DOMAIN raw THEN raw[f] ELSE else
Roas(raw, f, spend) == IF f \in DOMAIN raw /\ spend > 0 THEN {<<raw[f], spend>>} ELSE {}

MetaMetrics(raw) ==
  Metrics(Field(raw, "impressions"), Field(raw, "clicks"), Field(raw, "spend"),
          Field(raw, "purchases"), Ratio(raw, "ctr", <<0, 1>>), Ratio(raw, "cpc", <<0, 1>>),
          Roas(raw, "purchase_value", Field(raw, "spend")))

(* The query asks for average_cpc, the adapter reads cpc_micros. *)
GoogleMetrics(raw) ==
  LET spend == FromMicros(Field(raw, "cost_micros")) IN
  Metrics(Field(raw, "impressions"), Field(raw, "clicks"), spend, Field(raw, "conversions"),
          Ratio(raw, "ctr", <<0, 1>>), Ratio(raw, "cpc_micros", <<0, 1>>),
          Roas(raw, "conversions_value", spend))

LinkedinMetrics(raw) ==
  LET spend == Field(raw, "costInLocalCurrency")
      clicks == Field(raw, "clicks") IN
  Metrics(Field(raw, "impressions"), clicks, spend, Field(raw, "conversions"),
          Over(clicks, Field(raw, "impressions")), Over(spend, clicks),
          IF Field(raw, "conversionValueInLocalCurrency") # 0
            THEN Roas(raw, "conversionValueInLocalCurrency", spend) ELSE {})

XMetrics(raw) ==
  LET spend == FromMicros(Field(raw, "billed_charge_local_micro"))
      clicks == Field(raw, "clicks") IN
  Metrics(Field(raw, "impressions"), clicks, spend, Field(raw, "conversion_purchases"),
          Over(clicks, Field(raw, "impressions")), Over(spend, clicks), {})

(* Mutant: the spend is left in micros. *)
SnapchatMetrics_Micros(raw) ==
  Metrics(Field(raw, "impressions"), Field(raw, "swipes"), Field(raw, "spend"),
          Field(raw, "conversion_purchases"), Over(Field(raw, "swipes"), Field(raw, "impressions")),
          Over(Field(raw, "spend"), Field(raw, "swipes")), {})
SnapchatMetrics(raw) ==
  LET spend == FromMicros(Field(raw, "spend"))
      clicks == Field(raw, "swipes") IN
  Metrics(Field(raw, "impressions"), clicks, spend, Field(raw, "conversion_purchases"),
          Over(clicks, Field(raw, "impressions")), Over(spend, clicks), {})

TiktokMetrics(raw) ==
  LET spend == Field(raw, "spend")
      clicks == Field(raw, "clicks") IN
  Metrics(Field(raw, "impressions"), clicks, spend, Field(raw, "conversion"),
          Over(clicks, Field(raw, "impressions")), Over(spend, clicks), {})

TransformToUnifiedMetrics(p, raw) ==
  CASE p = "META" -> MetaMetrics(raw)
    [] p = "GOOGLE" -> GoogleMetrics(raw)
    [] p = "LINKEDIN" -> LinkedinMetrics(raw)
    [] p = "X" -> XMetrics(raw)
    [] p = "SNAPCHAT" -> SnapchatMetrics(raw)
    [] p = "TIKTOK" -> TiktokMetrics(raw)

(* Three platforms' adapters refuse to ask without the account's id. *)
NeedsAccountId(p) == p \in {"GOOGLE", "X", "TIKTOK"}

-----------------------------------------------------------------------------
(* The totals                                                              *)

ZeroMetrics == Metrics(0, 0, 0, 0, <<0, 1>>, <<0, 1>>, {})
RoundDiv(a, b) == (2 * a + b) \div (2 * b)

(* Mutant: the returns are added without their weights. *)
ConversionValue_Unweighted(m) ==
  IF m.spend > 0 THEN MapThenSumSet(LAMBDA r : r[1] \div r[2], m.roas) ELSE 0
ConversionValue(m) ==
  IF m.spend > 0 THEN MapThenSumSet(LAMBDA r : (r[1] * m.spend) \div r[2], m.roas) ELSE 0

SumOver(parts, Of(_)) == MapThenSumSet(LAMBDA i : Of(parts[i]), DOMAIN parts)

(* ctr in ten-thousandths, cpc and spend in cents, roas in hundredths: the *)
(* cpc is of the spend before it is rounded, the roas of the rounded one.  *)
Total(parts) ==
  LET impressions == SumOver(parts, LAMBDA m : m.impressions)
      clicks == SumOver(parts, LAMBDA m : m.clicks)
      spend == SumOver(parts, LAMBDA m : m.spend)
      cents == RoundDiv(spend, 10)
      value == SumOver(parts, ConversionValue) IN
  [impressions |-> impressions, clicks |-> clicks, spend |-> cents,
   conversions |-> SumOver(parts, LAMBDA m : m.conversions),
   ctr |-> IF impressions > 0 THEN RoundDiv(10000 * clicks, impressions) ELSE 0,
   cpc |-> IF clicks > 0 THEN RoundDiv(spend, 10 * clicks) ELSE 0,
   roas |-> IF cents > 0 /\ value > 0 THEN {RoundDiv(10 * value, cents)} ELSE {}]

-----------------------------------------------------------------------------
(* Requests                                                                *)

(* findOwnedOrThrow and metricLog.findMany: the rows and the logs are read *)
(* before any platform is asked.                                           *)
GetInsights ==
  /\ request = Idle /\ requests < MaxRequests /\ requests' = requests + 1
  /\ request' = [at |-> "asking", rows |-> rows, logs |-> logs, parts |-> <<>>,
                 seen |-> <<>>, start |-> truth]
  /\ answer' = {}
  /\ UNCHANGED <<rows, accounts, truth, logs, deliveries, actions>>

Row == request.rows[Len(request.parts) + 1]
Asking == request.at = "asking" /\ Len(request.parts) < Len(request.rows)
Push(metrics, of) ==
  /\ request' = [request EXCEPT !.parts = Append(@, metrics), !.seen = Append(@, of)]
  /\ UNCHANGED <<rows, accounts, truth, logs, answer, deliveries, requests>>

(* A stored log goes before the platform's own answer, however old it is.  *)
UseLog ==
  /\ Asking /\ Row.saved
  /\ \E log \in request.logs[Row.platform] : Push(log.metrics, log.of)
  /\ UNCHANGED actions

Live == Asking /\ (request.logs[Row.platform] = {} \/ ~Row.saved)
Askable(p) == accounts[p] = "connected" \/ (accounts[p] = "unbound" /\ ~NeedsAccountId(p))

AskPlatform ==
  /\ Live /\ Row.saved /\ Askable(Row.platform)
  /\ LET p == Row.platform IN
     Push(TransformToUnifiedMetrics(p, RawMetrics(p, truth[p])), truth[p])
  /\ UNCHANGED actions

(* Nothing to ask, no account to ask with, or an error: it counts nothing. *)
CountNothing ==
  /\ Live /\ ~(Row.saved /\ Askable(Row.platform))
  /\ Push(ZeroMetrics, Nothing)
  /\ UNCHANGED actions

Respond ==
  /\ request.at = "asking" /\ Len(request.parts) = Len(request.rows)
  /\ answer' = {[total |-> Total(request.parts), byPlatform |-> request.parts,
                 rows |-> request.rows, seen |-> request.seen,
                 start |-> request.start, logs |-> request.logs]}
  /\ request' = Idle
  /\ UNCHANGED <<rows, accounts, truth, logs, deliveries, actions, requests>>

-----------------------------------------------------------------------------
(* What else happens                                                       *)

Act(kind) == kind \in Actions /\ actions < MaxActions /\ actions' = actions + 1

(* A platform shows the ad: it is clicked on, and paid for, or it sells.   *)
Served(d, kind) ==
  IF kind = "click"
    THEN [d EXCEPT !.impressions = d.impressions + 3, !.clicks = d.clicks + 1,
                   !.spend = d.spend + 7]
    ELSE [d EXCEPT !.conversions = d.conversions + 1, !.value = d.value + 50]
Deliver(p, kind) ==
  /\ deliveries < MaxDeliveries /\ deliveries' = deliveries + 1
  /\ truth' = [truth EXCEPT ![p] = Served(truth[p], kind)]
  /\ UNCHANGED <<rows, accounts, logs, request, answer, actions, requests>>

AskFails ==
  /\ Act("fail") /\ Live /\ Row.saved /\ Askable(Row.platform)
  /\ Push(ZeroMetrics, Nothing)

(* The worker saves the platform's id (CampaignCreation).                  *)
SaveId(i) ==
  /\ Act("save") /\ ~rows[i].saved
  /\ rows' = [rows EXCEPT ![i].saved = TRUE]
  /\ UNCHANGED <<accounts, truth, logs, request, answer, deliveries, requests>>

Disconnect(p) ==
  /\ Act("disconnect") /\ accounts[p] \in {"connected", "unbound"}
  /\ accounts' = [accounts EXCEPT ![p] = "off"]
  /\ UNCHANGED <<rows, truth, logs, request, answer, deliveries, requests>>

(* Metric logs come from outside: no code of the API writes them.          *)
StoreLog(p) ==
  /\ Act("store") /\ truth[p] # Nothing
  /\ logs' = [logs EXCEPT ![p] =
                {[metrics |-> TransformToUnifiedMetrics(p, RawMetrics(p, truth[p])),
                  of |-> truth[p]]}]
  /\ UNCHANGED <<rows, accounts, truth, request, answer, deliveries, requests>>

Next ==
  \/ GetInsights \/ UseLog \/ AskPlatform \/ CountNothing \/ AskFails \/ Respond
  \/ \E i \in DOMAIN rows : SaveId(i)
  \/ \E p \in DOMAIN accounts :
       \/ Disconnect(p) \/ StoreLog(p)
       \/ \E kind \in {"click", "sale"} : Deliver(p, kind)

Spec == Init /\ [][Next]_vars

-----------------------------------------------------------------------------
(* Properties                                                              *)

Values(a) ==
  SumOver([i \in DOMAIN a.seen |->
             IF a.rows[i].platform \in {"META", "GOOGLE", "LINKEDIN"} /\ a.seen[i].spend > 0
               THEN a.seen[i].value ELSE 0], LAMBDA v : v)
Sum(a, f) == SumOver(a.seen, LAMBDA d : d[f])

(* Whatever fields and units the platforms answer in, the totals are those *)
(* of what they delivered: the spend to the cent, a cost of a click that   *)
(* is the spend over the clicks, a return that is the values over the      *)
(* spend, and one platform that fails takes none of the others with it.    *)
TotalsAddUp ==
  \A a \in answer :
    /\ \A f \in {"impressions", "clicks", "conversions"} : a.total[f] = Sum(a, f)
    /\ 2 * (10 * a.total.spend - Sum(a, "spend")) \in -9..10
    /\ Sum(a, "clicks") > 0 =>
         2 * (10 * a.total.cpc * Sum(a, "clicks") - Sum(a, "spend")) \in
           (-10 * Sum(a, "clicks"))..(10 * Sum(a, "clicks"))
    /\ \A r \in a.total.roas : r = RoundDiv(10 * Values(a), a.total.spend)

(* What an answer says of a platform without a log is no older than the    *)
(* request, and never more than the platform delivered; where it says      *)
(* nothing, the platform was not asked.                                    *)
AnswerIsRecent ==
  \A a \in answer : \A i \in DOMAIN a.rows :
    LET p == a.rows[i].platform IN
    /\ a.byPlatform[i].impressions <= truth[p].impressions
    /\ a.logs[p] = {} /\ a.seen[i] # Nothing =>
         a.byPlatform[i].impressions >= a.start[p].impressions

=============================================================================
