----------------------------- MODULE MCSession -----------------------------
(* Instances of Session for TLC.                                             *)
EXTENDS Session

CONSTANTS d1, d2

\* One phone on a bad day, two phones of which either may be killed, and one whose user
\* taps again before the answer.
OneAndTwoPhones == {
    [phones |-> {d1}, habits |-> {}, faults |-> {"drop", "kill", "auth_fails"},
     attempts |-> 3, drops |-> 2, kills |-> 2],
    [phones |-> {d1, d2}, habits |-> {}, faults |-> {"kill", "auth_fails"},
     attempts |-> 3, drops |-> 0, kills |-> 1],
    [phones |-> {d1}, habits |-> {"impatient"}, faults |-> {"drop", "auth_fails"},
     attempts |-> 2, drops |-> 1, kills |-> 0] }

=============================================================================
