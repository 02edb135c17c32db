---------------------------- MODULE MCCompaction ----------------------------
(* Instances of Compaction for TLC: what is called, what may fail. *)
EXTENDS Compaction

MCMaxBytes == [l \in 1..(NumLevels - 1) |-> 2 * l]

Puts(keys) == keys \X {"value"}
PutsAndDeletes(keys) == keys \X {"value", "deletion"}

Quiet == [puts |-> PutsAndDeletes({1, 2}), writes |-> 3, snapshots |-> 0, iterators |-> 0,
          seeks |-> 0, ranges |-> {}, gaps |-> FALSE, fails |-> FALSE, target |-> 1]

MCScenarios == {
  \* snapshots, and merges into one file
  [Quiet EXCEPT !.target = 4, !.snapshots = 2],
  \* overlapping files in level 0
  [Quiet EXCEPT !.puts = PutsAndDeletes({1}), !.writes = 5],
  \* merges into many files, an open iterator, files read in vain
  [Quiet EXCEPT !.writes = 4, !.iterators = 1, !.seeks = 1],
  [Quiet EXCEPT !.puts = PutsAndDeletes({1, 2, 3}), !.writes = 4],
  \* calls of CompactRange
  [Quiet EXCEPT !.puts = Puts({1, 3}), !.ranges = {<<1, 3>>, <<1, 1>>}],
  \* tables that cannot be written
  [Quiet EXCEPT !.target = 4, !.fails = TRUE, !.ranges = {<<1, 2>>}]}

\* Snapshots, and merges that cut between the entries of one key.
SplitKeys == {[Quiet EXCEPT !.puts = Puts({1}), !.writes = 6, !.snapshots = 1]}

\* Memtables that fill up while a CompactRange is under way.
FlushedIntoGaps == {[Quiet EXCEPT !.puts = Puts({1, 2, 3}), !.writes = 5, !.ranges = {<<1, 3>>},
                                  !.gaps = TRUE, !.target = 2]}
=============================================================================
