\* Two requests at a time, three in all.
SPECIFICATION Spec
CONSTANTS
  Users = {u1, u2, u3}
  Roles = {"OWNER", "ADMIN"}
  Requests = {q1, q2}
  MaxRequests = 3
SYMMETRY ActorSymmetry
INVARIANTS OwnerRemains
PROPERTIES OwnersYieldToOwners OwnersMakeOwners
\* The users may stop asking.
CHECK_DEADLOCK FALSE
