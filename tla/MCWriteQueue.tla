--------------------------- MODULE MCWriteQueue ---------------------------
(* Instances of WriteQueue for TLC: which calls are made, what may fail. *)
EXTENDS WriteQueue

Write(isSync, n) == [sync |-> isSync, count |-> n]
CompactRange == Write(FALSE, 0)

Two == CHOOSE S \in SUBSET Threads : Cardinality(S) = 2

MCScenarios == {
  \* sync and other writes, while the log cannot be synced
  [threads |-> Threads, calls |-> {Write(TRUE, 1), Write(FALSE, 2)}, closes |-> FALSE, faults |-> {"sync"}],
  \* the log, a table, the manifest or a new log cannot be written
  [threads |-> Two, calls |-> {Write(FALSE, 2)}, closes |-> FALSE, faults |-> {"append", "build", "manifest", "newlog"}],
  \* manual compactions, beside writes
  [threads |-> Two, calls |-> {CompactRange, Write(FALSE, 2)}, closes |-> FALSE, faults |-> {}],
  \* the store is closed with work under way
  [threads |-> Two, calls |-> {Write(FALSE, 2)}, closes |-> TRUE, faults |-> {}]}

\* A manual compaction beside writes whose log file cannot be synced.
FailingBesideRange == {
  [threads |-> Two, calls |-> {CompactRange, Write(TRUE, 1)}, closes |-> FALSE, faults |-> {"sync"}]}
=============================================================================
