----------------------------- MODULE MCRecovery -----------------------------
(* Instances of Recovery for TLC: what ends the process, what fails. *)
EXTENDS Recovery

Quiet == [writes |-> 2, sizes |-> {1}, kinds |-> {"machine"}, crashes |-> 1, reuse |-> FALSE, full |-> FALSE,
          partial |-> FALSE, fails |-> 0, merges |-> 0, repairs |-> 0]

MCScenarios == {
  \* records of all sizes, cut anywhere; memtables that fill up during recovery
  [Quiet EXCEPT !.writes = 3, !.sizes = {1, 2, 3}, !.full = TRUE],
  \* two crashes
  [Quiet EXCEPT !.writes = 3, !.crashes = 2, !.kinds = {"machine", "process"}],
  \* merges, files that cannot be written
  [Quiet EXCEPT !.writes = 3, !.merges = 1, !.fails = 1],
  \* appends that fail, of records of several fragments
  [Quiet EXCEPT !.writes = 3, !.sizes = {3}, !.fails = 1, !.kinds = {"machine", "process"}],
  \* reuse_logs, which a machine crash must not meet
  [Quiet EXCEPT !.kinds = {"process"}, !.crashes = 2, !.reuse = TRUE, !.sizes = {1, 3}],
  \* files that cannot be deleted
  [Quiet EXCEPT !.partial = TRUE],
  \* repairs
  [Quiet EXCEPT !.repairs = 2, !.crashes = 2, !.kinds = {"machine", "process"}]}
=============================================================================
