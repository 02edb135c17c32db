---------------------------- MODULE MCPostLikes ----------------------------
(* Instances of PostLikes for TLC.                                          *)
EXTENDS PostLikes

CONSTANTS d1, d2, alice, bob

\* Everyone on a phone of their own.
OwnPhones == [d \in Device |-> IF d = d1 THEN alice ELSE bob]

\* Two users and nothing that fails; one user and everything that may, short of kills; one
\* user whose process is killed and whose connection drops.
NominalAndFaulty == {
    [phones |-> {d1, d2}, habits |-> {}, faults |-> {}, taps |-> 2, drops |-> 0, kills |-> 0],
    [phones |-> {d1}, habits |-> HabitKind, faults |-> FaultKind, taps |-> 3, drops |-> 1, kills |-> 0],
    [phones |-> {d1}, habits |-> {}, faults |-> {"drop", "kill"}, taps |-> 3, drops |-> 1, kills |-> 2] }

Deletion == {[phones |-> {d1}, habits |-> {}, faults |-> {"delete"}, taps |-> 1, drops |-> 0, kills |-> 0]}

=============================================================================
