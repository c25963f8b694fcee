------------------------------ MODULE MockStore ------------------------------
(***************************************************************************)
(* The store in memory that PrismaService uses when no DATABASE_URL is set *)
(* (prisma.service.ts, MockPrisma), beside the tables that the database    *)
(* would have after the same calls.                                        *)
(*                                                                         *)
(* A call has a synchronous body and is one step; the services await       *)
(* between calls.  A row has a number, which stands for what the database  *)
(* would tell it by, and the id that the store gives it and finds it by.   *)
(***************************************************************************)
EXTENDS Naturals, FiniteSets

CONSTANTS
  Emails,        \* e-mail addresses; a user has one
  Slugs,         \* slugs of workspaces
  IdemKeys,      \* idempotency keys
  Checkers,      \* concurrent calls of checkAndMarkProcessed
  Draws,         \* Math.floor(Math.random() * 1000)
  MaxRows,       \* bound: rows created
  MaxTime,       \* bound: milliseconds in a behaviour
  MaxUpdates     \* bound: updates in a behaviour

VARIABLES
  now,           \* Date.now()
  created,       \* rows created so far, which are numbered by it
  updates,       \* updates so far
  store,         \* MockPrisma's arrays, by table
  ideal,         \* the tables of a database
  tx,            \* the transaction in progress: the rows still to be written
  check,         \* checkAndMarkProcessed: the key that was not found
  troubles       \* history: where the store need not agree, and why

vars == <<now, created, updates, store, ideal, tx, check, troubles>>

Tables == {"user", "token", "campaign", "row", "record", "workspace", "member"}
NoKey == "none"

(* ref: the id of the row it belongs to; up: that row's number. *)
Row(id, key, ref, up, mark) ==
  [n |-> created + 1, id |-> id, key |-> key, ref |-> ref, up |-> up, mark |-> mark]

Init ==
  /\ now = 1 /\ created = 0 /\ updates = 0
  /\ store = [t \in Tables |-> {}] /\ ideal = [t \in Tables |-> {}]
  /\ tx = {} /\ check = [c \in Checkers |-> NoKey] /\ troubles = {}

-----------------------------------------------------------------------------
(* Rows by what they are found by                                          *)

ById(t, id) == {r \in store[t] : r.id = id}
ByRef(t, id) == {r \in store[t] : r.ref = id}
Taken(t, key) == \E r \in store[t] : r.key = key

(* Array.find and findIndex: the first that was pushed. *)
First(rows) == IF rows = {} THEN {} ELSE {CHOOSE r \in rows : \A s \in rows : r.n <= s.n}

(* Ids have the time in them; some a number drawn below 1000 as well.      *)
Stamp(draw) == 1000 * now + draw
Clash(t, id) == IF ById(t, id) = {} THEN {} ELSE {t}

(* Rows are inserted in both; the database has constraints of its own.     *)
Push(t, r) == [store EXCEPT ![t] = @ \cup {r}]
Insert(t, r) == [ideal EXCEPT ![t] = @ \cup {r}]

Mark(rows, which, mark) ==
  (rows \ which) \cup {[r EXCEPT !.mark = mark] : r \in which}

Creates(count) == created + count <= MaxRows /\ created' = created + count
Updates == updates < MaxUpdates /\ updates' = updates + 1

(* update: the first row with the id is written, the one meant or not.     *)
UpdateById(t, r, mark) ==
  /\ store' = [store EXCEPT ![t] = Mark(@, First(ById(t, r.id)), mark)]
  /\ ideal' = [ideal EXCEPT ![t] = Mark(@, {r}, mark)]

(* delete: the first row with the id, and all that refer to the id.        *)
DeleteById_Leaves(t, below, r) ==
  /\ store' = [store EXCEPT ![t] = @ \ First(ById(t, r.id))]
  /\ ideal' = [ideal EXCEPT ![t] = @ \ {r}, ![below] = {s \in @ : s.up # r.n}]
DeleteById(t, below, r) ==
  /\ store' = [store EXCEPT ![t] = @ \ First(ById(t, r.id)), ![below] = @ \ ByRef(below, r.id)]
  /\ ideal' = [ideal EXCEPT ![t] = @ \ {r}, ![below] = {s \in @ : s.up # r.n}]

Quiet == UNCHANGED <<tx, check, troubles>>
Untimed == UNCHANGED <<now, created>>

-----------------------------------------------------------------------------
(* Users and their refresh tokens                                          *)

UserCreate(email) ==
  LET user == Row(Stamp(0), email, 0, 0, "new") IN
  /\ ~Taken("user", email) /\ Creates(1)
  /\ store' = Push("user", user) /\ ideal' = Insert("user", user)
  /\ troubles' = troubles \cup Clash("user", user.id)
  /\ UNCHANGED <<now, updates, tx, check>>

UserUpdate(u) == Updates /\ UpdateById("user", u, "changed") /\ Untimed /\ Quiet

(* A token's hash is its own; it belongs to a user by the id. *)
TokenCreate(u) ==
  LET token == Row(created + 1, created + 1, u.id, u.n, "live") IN
  /\ Creates(1)
  /\ store' = Push("token", token) /\ ideal' = Insert("token", token)
  /\ UNCHANGED <<now, updates>> /\ Quiet

TokenUpdate(t) ==
  Updates /\ t.mark = "live" /\ UpdateById("token", t, "revoked") /\ Untimed /\ Quiet

(* updateMany: every live token of the user. *)
TokenUpdateMany(u) ==
  /\ Updates
  /\ store' = [store EXCEPT !["token"] = Mark(@, ByRef("token", u.id), "revoked")]
  /\ ideal' = [ideal EXCEPT !["token"] = Mark(@, {t \in @ : t.up = u.n}, "revoked")]
  /\ Untimed /\ Quiet

-----------------------------------------------------------------------------
(* Campaigns and the rows of their platforms                               *)

(* The campaign's id is the time alone; its rows have one drawn at random. *)
CampaignCreate ==
  LET campaign == Row(Stamp(0), created + 1, 0, 0, "PENDING")
      row == [Row(created + 2, created + 2, campaign.id, campaign.n, "PENDING") EXCEPT !.n = created + 2] IN
  /\ Creates(2)
  /\ store' = [store EXCEPT !["campaign"] = @ \cup {campaign}, !["row"] = @ \cup {row}]
  /\ ideal' = [ideal EXCEPT !["campaign"] = @ \cup {campaign}, !["row"] = @ \cup {row}]
  /\ troubles' = troubles \cup Clash("campaign", campaign.id)
  /\ UNCHANGED <<now, updates, tx, check>>

CampaignUpdate(c) == Updates /\ UpdateById("campaign", c, "ACTIVE") /\ Untimed /\ Quiet
CampaignDelete(c) == DeleteById("campaign", "row", c) /\ UNCHANGED updates /\ Untimed /\ Quiet
RowUpdate(r) == Updates /\ UpdateById("row", r, "ACTIVE") /\ Untimed /\ Quiet

(* $transaction calls the function with the store itself: what it writes   *)
(* is written at once, first the campaign and then each of its rows.       *)
Begin(c) ==
  /\ tx = {} /\ Updates
  /\ UpdateById("campaign", c, "PAUSED")
  /\ tx' = {r.n : r \in ByRef("row", c.id)}
  /\ UNCHANGED <<check, troubles>> /\ Untimed

WriteRow(n) ==
  /\ n \in tx
  /\ IF \E r \in store["row"] : r.n = n
       THEN /\ store' = [store EXCEPT !["row"] = Mark(@, {r \in @ : r.n = n}, "PAUSED")]
            /\ ideal' = [ideal EXCEPT !["row"] = Mark(@, {r \in @ : r.n = n}, "PAUSED")]
            /\ tx' = tx \ {n}
       ELSE tx' = {} /\ UNCHANGED <<store, ideal>>
  /\ UNCHANGED <<updates, check, troubles>> /\ Untimed

(* The function throws: a database would roll back, the store does not.    *)
Throw ==
  /\ tx # {}
  /\ tx' = {} /\ troubles' = troubles \cup {"torn"}
  /\ UNCHANGED <<updates, store, ideal, check>> /\ Untimed

-----------------------------------------------------------------------------
(* Idempotency records                                                     *)

(* checkAndMarkProcessed looks for the record, and creates it after that.  *)
Look(c, k) ==
  /\ check[c] = NoKey /\ ~Taken("record", k)
  /\ check' = [check EXCEPT ![c] = k]
  /\ UNCHANGED <<updates, store, ideal, tx, troubles>> /\ Untimed

(* The store pushes a second record where the database would refuse it.    *)
RecordCreate(c) ==
  LET record == Row(created + 1, check[c], 0, 0, now) IN
  /\ check[c] # NoKey /\ Creates(1)
  /\ store' = Push("record", record)
  /\ ideal' = IF \E r \in ideal["record"] : r.key = check[c] THEN ideal ELSE Insert("record", record)
  /\ check' = [check EXCEPT ![c] = NoKey]
  /\ troubles' = troubles \cup
       IF \E d \in Checkers \ {c} : check[d] = check[c] THEN {"overlap"} ELSE {}
  /\ UNCHANGED <<now, updates, tx>>

(* deleteMany: by the key, or all before a date. *)
RecordDeleteMany(keys, before) ==
  /\ store' = [store EXCEPT !["record"] = {r \in @ : r.key \notin keys /\ r.mark >= before}]
  /\ ideal' = [ideal EXCEPT !["record"] = {r \in @ : r.key \notin keys /\ r.mark >= before}]
  /\ UNCHANGED updates /\ Untimed /\ Quiet
Forget(k) == Taken("record", k) /\ RecordDeleteMany({k}, 0)
Cleanup == store["record"] # {} /\ RecordDeleteMany({}, now)

-----------------------------------------------------------------------------
(* Workspaces and their members                                            *)

(* A workspace and its first member, whose id has the time and a draw too. *)
WorkspaceCreate(slug, u, draw) ==
  LET workspace == Row(Stamp(draw), slug, 0, 0, "USD")
      member == [Row(Stamp(draw), <<workspace.id, u.id>>, workspace.id, workspace.n, "OWNER")
                   EXCEPT !.n = created + 2] IN
  /\ ~Taken("workspace", slug) /\ Creates(2)
  /\ store' = [store EXCEPT !["workspace"] = @ \cup {workspace}, !["member"] = @ \cup {member}]
  /\ ideal' = [ideal EXCEPT !["workspace"] = @ \cup {workspace}, !["member"] = @ \cup {member}]
  /\ troubles' = troubles \cup Clash("workspace", workspace.id) \cup Clash("member", member.id)
  /\ UNCHANGED <<now, updates, tx, check>>

WorkspaceUpdate(w) == Updates /\ UpdateById("workspace", w, "EUR") /\ Untimed /\ Quiet
WorkspaceDelete(w) == DeleteById("workspace", "member", w) /\ UNCHANGED updates /\ Untimed /\ Quiet

(* Mutant: a user may become a member twice. *)
MemberCreate_Twice(w, u, draw) ==
  LET member == Row(Stamp(draw), <<w.id, u.id>>, w.id, w.n, "ADMIN") IN
  /\ Creates(1)
  /\ store' = Push("member", member)
  /\ ideal' = IF \E m \in ideal["member"] : m.up = w.n /\ m.key = member.key
                THEN ideal ELSE Insert("member", member)
  /\ troubles' = troubles \cup Clash("member", member.id)
  /\ UNCHANGED <<now, updates, tx, check>>

MemberCreate(w, u, draw) ==
  LET member == Row(Stamp(draw), <<w.id, u.id>>, w.id, w.n, "ADMIN") IN
  /\ ~Taken("member", member.key) /\ Creates(1)
  /\ store' = Push("member", member)
  /\ ideal' = IF \E m \in ideal["member"] : m.up = w.n /\ m.key = member.key
                THEN ideal ELSE Insert("member", member)
  /\ troubles' = troubles \cup Clash("member", member.id)
  /\ UNCHANGED <<now, updates, tx, check>>

MemberUpdate(m) == Updates /\ UpdateById("member", m, "OWNER") /\ Untimed /\ Quiet
MemberDelete(m) ==
  /\ store' = [store EXCEPT !["member"] = @ \ First(ById("member", m.id))]
  /\ ideal' = [ideal EXCEPT !["member"] = @ \ {m}]
  /\ UNCHANGED updates /\ Untimed /\ Quiet

-----------------------------------------------------------------------------
Tick ==
  /\ now < MaxTime
  /\ now' = now + 1
  /\ UNCHANGED <<created, updates, store, ideal>> /\ Quiet

(* A caller means the row that the database would have. *)
Next ==
  \/ Tick \/ CampaignCreate \/ Throw \/ Cleanup
  \/ \E e \in Emails : UserCreate(e)
  \/ \E u \in ideal["user"] :
       \/ UserUpdate(u) \/ TokenCreate(u) \/ TokenUpdateMany(u)
       \/ \E s \in Slugs, d \in Draws : WorkspaceCreate(s, u, d)
       \/ \E w \in ideal["workspace"], d \in Draws : MemberCreate(w, u, d)
  \/ \E t \in ideal["token"] : TokenUpdate(t)
  \/ \E c \in ideal["campaign"] : CampaignUpdate(c) \/ CampaignDelete(c) \/ Begin(c)
  \/ \E r \in ideal["row"] : RowUpdate(r)
  \/ \E n \in tx : WriteRow(n)
  \/ \E k \in IdemKeys : Forget(k) \/ \E c \in Checkers : Look(c, k)
  \/ \E c \in Checkers : RecordCreate(c)
  \/ \E w \in ideal["workspace"] : WorkspaceUpdate(w) \/ WorkspaceDelete(w)
  \/ \E m \in ideal["member"] : MemberUpdate(m) \/ MemberDelete(m)

Spec == Init /\ [][Next]_vars

-----------------------------------------------------------------------------
(* Properties                                                              *)

(* What can set a table of the store apart from the database's. *)
Affects ==
  [user |-> {"user"}, token |-> {"user"},
   campaign |-> {"campaign", "torn"}, row |-> {"campaign", "torn"},
   record |-> {"overlap"}, workspace |-> {"workspace"},
   member |-> {"user", "workspace", "member"}]

(* The store has the rows that the database would have, but where two rows *)
(* were given one id in the same millisecond, a transaction threw, or one  *)
(* idempotency key was looked for twice before it was recorded.            *)
StoreAgrees ==
  \A t \in Tables : troubles \cap Affects[t] = {} => store[t] = ideal[t]

=============================================================================
