---------------------------- MODULE MCTokenVault ----------------------------
(* Model values and the durations of the code, in units of five seconds.    *)
EXTENDS TokenVault, TLC

CONSTANTS c1, c2

TwoCallers == {c1, c2}
CallerSymmetry == Permutations(TwoCallers)
NoFaults == {}
SharedFaults == {"refuse", "update", "mark", "redis", "expiry", "crash", "disconnect", "link", "deny"}
RotatingFaults == {"refuse", "answer", "update", "mark", "redis", "expiry", "crash",
                   "disconnect", "link", "deny"}
=============================================================================
