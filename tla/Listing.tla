------------------------------- MODULE Listing -------------------------------
(***************************************************************************)
(* Listing the campaigns of an ad account, page by page, as the connectors *)
(* do (accounts/connectors/*-connector.ts, listCampaigns; they list the ad *)
(* accounts in the same way), while campaigns are created and removed at   *)
(* the platform.  The order in which a platform lists is fixed; where a    *)
(* new campaign comes in it is not known.                                  *)
(***************************************************************************)
EXTENDS Naturals, FiniteSets

CONSTANTS
  Platforms,   \* those considered of the six
  Last,        \* campaigns are numbered 1..Last, in the platform's order
  PageSize,    \* PAGE_SIZE, or the limit that the request names
  MaxPages,    \* MAX_PAGINATION_PAGES
  MaxChanges   \* bound: campaigns created or removed during the listing

VARIABLES
  platform,    \* the platform of this behaviour
  there,       \* the campaigns at the platform
  totals,      \* TikTok says how many pages there are
  pc,          \* "page", "done", or "failed"
  page,        \* pages asked for so far
  after,       \* the last campaign listed, which a cursor or a link stands for
  start,       \* how many campaigns the pages so far have passed over
  listed,      \* the campaigns listed so far
  throughout,  \* history: the campaigns that have been there all the time
  shifts,      \* history: removals of campaigns that were passed over
  changes      \* bound: changes so far

vars == <<platform, there, totals, pc, page, after, start, listed, throughout, shifts, changes>>

Ids == 1..Last
TypeOK ==
  /\ platform \in Platforms /\ totals \in BOOLEAN /\ pc \in {"page", "done", "failed"}
  /\ there \subseteq Ids /\ listed \subseteq Ids /\ throughout \subseteq there
  /\ page \in 0..MaxPages /\ after \in 0..Last
  /\ start \in Nat /\ shifts \in Nat /\ changes \in 0..MaxChanges

Init ==
  /\ platform \in Platforms /\ there \in SUBSET Ids
  /\ totals \in BOOLEAN /\ (totals => platform = "TIKTOK")
  /\ pc = "page" /\ page = 0 /\ after = 0 /\ start = 0
  /\ listed = {} /\ throughout = there /\ shifts = 0 /\ changes = 0

-----------------------------------------------------------------------------
(* What the platforms answer                                               *)

Position(c) == Cardinality({d \in there : d <= c})

(* The page that follows a campaign, and the page at a distance. *)
PageAfter(c) == {d \in there : c < d /\ Position(d) <= Position(c) + PageSize}
PageAt(n) == {d \in there : n < Position(d) /\ Position(d) <= n + PageSize}

Highest(s) == IF s = {} THEN after ELSE CHOOSE c \in s : \A d \in s : d <= c
Remain(c) == \E d \in there : d > c
TotalPages == (Cardinality(there) + PageSize - 1) \div PageSize

-----------------------------------------------------------------------------
(* One round of the loop, by platform                                      *)

Round(found, start2, finished) ==
  /\ listed' = listed \cup found
  /\ after' = Highest(found)
  /\ start' = start2
  /\ page' = page + 1
  /\ pc' = IF finished \/ page + 1 = MaxPages THEN "done" ELSE "page"

(* paging.next is given as long as campaigns remain, and may be given once *)
(* more.                                                                   *)
MetaPage ==
  /\ platform = "META"
  /\ \E next \in BOOLEAN :
       /\ Remain(Highest(PageAfter(after))) => next
       /\ Round(PageAfter(after), start, ~next)

SnapchatPage ==
  /\ platform = "SNAPCHAT"
  /\ \E next \in BOOLEAN :
       /\ Remain(Highest(PageAfter(after))) => next
       /\ Round(PageAfter(after), start, ~next)

(* next_cursor, which is empty on the last page. *)
XPage ==
  /\ platform = "X"
  /\ Round(PageAfter(after), start, ~Remain(Highest(PageAfter(after))))

(* Mutant: a full page is taken for the last one. *)
ShortPage_Full(found) == Cardinality(found) <= PageSize
ShortPage(found) == Cardinality(found) < PageSize

LinkedinPage ==
  /\ platform = "LINKEDIN"
  /\ Round(PageAt(start), start + PageSize, ShortPage(PageAt(start)))

LastPage(found) == IF totals THEN page + 1 >= TotalPages ELSE ShortPage(found)

TiktokPage ==
  /\ platform = "TIKTOK"
  /\ Round(PageAt(PageSize * page), PageSize * (page + 1), LastPage(PageAt(PageSize * page)))

(* searchStream answers once, with everything. *)
GoogleStream ==
  /\ platform = "GOOGLE"
  /\ Round(there, start, TRUE)

Page ==
  /\ pc = "page"
  /\ \/ MetaPage \/ SnapchatPage \/ XPage \/ LinkedinPage \/ TiktokPage \/ GoogleStream
  /\ UNCHANGED <<platform, there, totals, throughout, shifts, changes>>

(* A request that fails ends the listing, and the import. *)
Fail ==
  /\ pc = "page"
  /\ pc' = "failed"
  /\ UNCHANGED <<platform, there, totals, page, after, start, listed, throughout, shifts, changes>>

-----------------------------------------------------------------------------
(* The platform, meanwhile                                                 *)

Change == pc = "page" /\ changes < MaxChanges /\ changes' = changes + 1

Add(c) ==
  /\ Change /\ c \notin there
  /\ there' = there \cup {c}
  /\ UNCHANGED <<platform, totals, pc, page, after, start, listed, throughout, shifts>>

Remove(c) ==
  /\ Change /\ c \in there
  /\ there' = there \ {c} /\ throughout' = throughout \ {c}
  /\ shifts' = IF Position(c) <= start THEN shifts + 1 ELSE shifts
  /\ UNCHANGED <<platform, totals, pc, page, after, start, listed>>

Next == Page \/ Fail \/ \E c \in Ids : Add(c) \/ Remove(c)

Spec == Init /\ [][Next]_vars

-----------------------------------------------------------------------------
(* Properties                                                              *)

(* A listing misses none of the campaigns that were there throughout, but  *)
(* one for each that was removed from the pages LinkedIn or TikTok had     *)
(* passed, and those beyond the last page it may ask for.                  *)
ListingIsComplete ==
  pc = "done" /\ page < MaxPages => Cardinality(throughout \ listed) <= shifts

=============================================================================
