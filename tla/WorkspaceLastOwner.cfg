\* Two users, two requests.
SPECIFICATION Spec
CONSTANTS
  Users = {u1, u2}
  Roles = {"OWNER", "ADMIN"}
  Requests = {q1, q2}
  MaxRequests = 2
SYMMETRY ActorSymmetry
INVARIANT AlwaysAnOwner
\* The users may stop asking.
CHECK_DEADLOCK FALSE
