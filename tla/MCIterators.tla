---------------------------- MODULE MCIterators ----------------------------
(* Instances of Iterators for TLC: tables under the memtable. *)
EXTENDS Iterators

Sound(blocks) == [blocks |-> blocks, damaged |-> {}, unreadable |-> {}]
v(k, s) == <<k, s, "value">>
d(k, s) == <<k, s, "deletion">>

Quiet == [tables |-> <<Sound(<< <<v(1, 1)>>, <<v(2, 4), d(2, 3), v(2, 2)>> >>)>>, first |-> 5,
          inserts |-> {<<2, "value">>, <<1, "deletion">>}, writes |-> 2, calls |-> 3]

MCScenarios == {
  \* a table with a value behind a deletion behind a value
  Quiet,
  \* more writes, in several nodes of one key
  [Quiet EXCEPT !.tables = <<Sound(<< <<v(2, 1), v(3, 2)>> >>)>>,
                !.first = 3, !.writes = 3, !.calls = 2, !.inserts = {<<2, "value">>, <<3, "deletion">>}],
  \* two tables whose entries alternate: a deletion in one hides an entry of the other
  [Quiet EXCEPT !.tables = <<Sound(<< <<d(1, 4), d(2, 3)>>, <<v(3, 6)>> >>),
                             Sound(<< <<v(1, 1), v(2, 5), v(2, 2), v(3, 0)>> >>)>>,
                !.first = 7, !.writes = 1, !.calls = 4],
  \* entries that cannot be decoded, blocks that cannot be read
  [Quiet EXCEPT !.tables = <<[blocks |-> << <<v(1, 1)>>, <<v(2, 4), d(2, 3), v(2, 2)>>, <<v(3, 1)>> >>,
                              damaged |-> {<<2, 2>>}, unreadable |-> {3}],
                             Sound(<< <<v(1, 5), v(3, 6)>> >>)>>,
                !.first = 7, !.writes = 1, !.calls = 4],
  [Quiet EXCEPT !.tables = <<[blocks |-> << <<v(1, 1), v(1, 0), v(2, 4), d(2, 3), v(2, 2)>>, <<v(3, 1)>> >>,
                              damaged |-> {<<1, 3>>}, unreadable |-> {}]>>,
                !.writes = 1, !.calls = 4]}
=============================================================================
