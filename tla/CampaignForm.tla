---------------------------- MODULE CampaignForm ----------------------------
(***************************************************************************)
(* The form that a campaign is typed into (CreateCampaignForm.tsx): what   *)
(* may be typed, added and removed, what a submission checks, and the      *)
(* amounts it converts (shared-types, canonical/currency.ts).  The form    *)
(* keeps its result to itself: it calls no API.                            *)
(*                                                                         *)
(* A text is what its checks tell apart: "none", "fit" or "bad" (too long, *)
(* or of the wrong format).  A list of texts is how many it has of each.   *)
(***************************************************************************)
EXTENDS Integers, Sequences, FiniteSets

CONSTANTS
  Amounts,          \* what is typed for a budget: units, decimals, and if that is all
  MinHeadlines, MaxHeadlines,        \* 3 and 15
  MinDescriptions, MaxDescriptions,  \* 2 and 4
  MaxEdits          \* bound: edits in a behaviour

VARIABLES
  form,             \* the values of the fields
  tab,              \* the tab of overrides that is open
  submitted,        \* formState.isSubmitted
  errors,           \* formState.errors
  result,           \* submissionSuccess, if there is one
  edits             \* bound: edits so far

vars == <<form, tab, submitted, errors, result, edits>>

Texts == {"none", "fit", "bad"}
Targets == {"META", "GOOGLE", "TIKTOK", "SNAPCHAT"}
Count(list) == list["none"] + list["fit"] + list["bad"]
Some(n) == [t \in Texts |-> IF t = "fit" THEN n ELSE 0]

(* useForm's defaultValues: the page gives none of its own. *)
DefaultAmount == [units |-> 25, decimals |-> <<0, 0>>, plain |-> TRUE]
DefaultValues ==
  [name |-> "none", budget |-> DefaultAmount, targets |-> {"META", "GOOGLE"},
   headlines |-> Some(MinHeadlines), descriptions |-> Some(MinDescriptions),
   customerId |-> "fit", adAccountId |-> "fit"]

Init ==
  /\ form = DefaultValues /\ tab = "google" /\ submitted = FALSE
  /\ errors = {} /\ result = {} /\ edits = 0

-----------------------------------------------------------------------------
(* Amounts                                                                 *)

(* dollarsToMicros: the decimals are padded to six digits. *)
Digit(decimals, i) == IF i <= Len(decimals) THEN decimals[i] ELSE 0
Fraction_PadStart(decimals) ==
  IF Len(decimals) = 1 THEN decimals[1]
  ELSE IF Len(decimals) = 2 THEN 10 * decimals[1] + decimals[2] ELSE 0

Fraction(decimals) ==
  100000 * Digit(decimals, 1) + 10000 * Digit(decimals, 2) + 1000 * Digit(decimals, 3)

DollarsToMicros(amount) == 1000000 * amount.units + Fraction(amount.decimals)

(* formatMicros: units and cents. *)
FormatMicros(micros) == <<micros \div 1000000, (micros % 1000000) \div 10000>>

-----------------------------------------------------------------------------
(* The schema                                                              *)

(* A number of at least one, and of at most two decimals. *)
BudgetFits(amount) == amount.units >= 1 /\ amount.plain /\ Len(amount.decimals) <= 2

HeadlinesFit(list) ==
  /\ MinHeadlines <= Count(list) /\ Count(list) <= MaxHeadlines
  /\ list["fit"] = Count(list)
DescriptionsFit(list) ==
  /\ MinDescriptions <= Count(list) /\ Count(list) <= MaxDescriptions
  /\ list["fit"] = Count(list)

(* CreateCampaignFormSchema: Google's texts are checked even where Google  *)
(* is no target.                                                           *)
Invalid(values) ==
  (IF values.name = "fit" THEN {} ELSE {"name"})
    \cup (IF BudgetFits(values.budget) THEN {} ELSE {"budget"})
    \cup (IF values.targets # {} THEN {} ELSE {"targets"})
    \cup (IF HeadlinesFit(values.headlines) THEN {} ELSE {"headlines"})
    \cup (IF DescriptionsFit(values.descriptions) THEN {} ELSE {"descriptions"})
    \cup {f \in {"customerId", "adAccountId"} : values[f] = "bad"}

-----------------------------------------------------------------------------
(* Edits                                                                   *)

(* Once submitted, the form checks a field again whenever it changes.      *)
Edit(field, value) ==
  /\ edits < MaxEdits /\ edits' = edits + 1
  /\ form' = [form EXCEPT ![field] = value]
  /\ errors' = IF submitted THEN (errors \ {field}) \cup (Invalid(form') \cap {field}) ELSE errors
  /\ UNCHANGED <<tab, submitted, result>>

TypeName(t) == Edit("name", t)
TypeBudget(a) == Edit("budget", a)
OpenTab(t) == t # tab /\ tab' = t /\ UNCHANGED <<form, submitted, errors, result, edits>>

(* The last platform stays; setValue checks nothing again. *)
TogglePlatform(p) ==
  /\ edits < MaxEdits /\ edits' = edits + 1
  /\ IF p \in form.targets
       THEN Cardinality(form.targets) > 1 /\ form' = [form EXCEPT !.targets = @ \ {p}]
       ELSE form' = [form EXCEPT !.targets = @ \cup {p}]
  /\ UNCHANGED <<tab, submitted, errors, result>>

(* The fields of a tab that is not open are not there to be typed into.    *)
TypeCustomerId(t) == tab = "google" /\ Edit("customerId", t)
TypeAdAccountId(t) == tab = "meta" /\ Edit("adAccountId", t)

More(list, t) == [list EXCEPT ![t] = @ + 1]
Less(list, t) == [list EXCEPT ![t] = @ - 1]

AppendHeadline ==
  /\ tab = "google" /\ Count(form.headlines) < MaxHeadlines
  /\ Edit("headlines", More(form.headlines, "none"))
TypeHeadline(from, to) ==
  /\ tab = "google" /\ form.headlines[from] > 0
  /\ Edit("headlines", More(Less(form.headlines, from), to))

(* Mutant: the button to remove is always there. *)
RemoveHeadline_Any(t) ==
  /\ tab = "google" /\ form.headlines[t] > 0
  /\ Edit("headlines", Less(form.headlines, t))
RemoveHeadline(t) ==
  /\ tab = "google" /\ form.headlines[t] > 0 /\ Count(form.headlines) > MinHeadlines
  /\ Edit("headlines", Less(form.headlines, t))

AppendDescription ==
  /\ tab = "google" /\ Count(form.descriptions) < MaxDescriptions
  /\ Edit("descriptions", More(form.descriptions, "none"))
TypeDescription(from, to) ==
  /\ tab = "google" /\ form.descriptions[from] > 0
  /\ Edit("descriptions", More(Less(form.descriptions, from), to))
RemoveDescription(t) ==
  /\ tab = "google" /\ form.descriptions[t] > 0 /\ Count(form.descriptions) > MinDescriptions
  /\ Edit("descriptions", Less(form.descriptions, t))

-----------------------------------------------------------------------------
(* Submission                                                              *)

(* The overrides of a platform that is no target are left out. *)
Overrides(values) ==
  [google |-> IF "GOOGLE" \in values.targets
                THEN <<values.customerId, values.headlines, values.descriptions>> ELSE <<>>,
   meta |-> IF "META" \in values.targets THEN <<values.adAccountId>> ELSE <<>>]

OnSubmit(values) ==
  LET micros == DollarsToMicros(values.budget) IN
  [typed |-> values.budget, micros |-> micros, formatted |-> FormatMicros(micros),
   targets |-> values.targets, overrides |-> Overrides(values)]

(* handleSubmit calls onSubmit, or shows what is wrong; the result of an   *)
(* earlier submission stays.                                               *)
Submit ==
  /\ submitted' = TRUE
  /\ errors' = Invalid(form)
  /\ result' = IF Invalid(form) = {} THEN {OnSubmit(form)} ELSE result
  /\ UNCHANGED <<form, tab, edits>>

Next ==
  \/ Submit \/ AppendHeadline \/ AppendDescription
  \/ \E t \in {"google", "meta"} : OpenTab(t)
  \/ \E a \in Amounts : TypeBudget(a)
  \/ \E p \in Targets : TogglePlatform(p)
  \/ \E t \in Texts :
       \/ TypeName(t) \/ TypeCustomerId(t) \/ TypeAdAccountId(t)
       \/ RemoveHeadline(t) \/ RemoveDescription(t)
       \/ \E from \in Texts \ {t} : TypeHeadline(from, t) \/ TypeDescription(from, t)

Spec == Init /\ [][Next]_vars

-----------------------------------------------------------------------------
(* Properties                                                              *)

Hundredths(amount) ==
  100 * amount.units + 10 * Digit(amount.decimals, 1) + Digit(amount.decimals, 2)

(* A submission converts the budget without loss ("Financial precision     *)
(* conversion: Float string -> BigInt micros"), so that it is shown as it  *)
(* was typed; it has the overrides of its targets, and those of Google     *)
(* have the texts that Google asks for.                                    *)
SubmissionIsExact ==
  \A r \in result :
    /\ r.micros = 10000 * Hundredths(r.typed)
    /\ 100 * r.formatted[1] + r.formatted[2] = Hundredths(r.typed)
    /\ r.overrides.google # <<>> => HeadlinesFit(r.overrides.google[2])

(* The user can always correct the form: what is wrong with a list is one  *)
(* of its texts, never how many they are, and the errors shown are those   *)
(* of the values as they are.                                              *)
FormIsCorrigible ==
  /\ Count(form.headlines) \in MinHeadlines..MaxHeadlines
  /\ Count(form.descriptions) \in MinDescriptions..MaxDescriptions
  /\ submitted => errors = Invalid(form)

=============================================================================
