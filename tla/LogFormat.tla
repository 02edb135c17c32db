----------------------------- MODULE LogFormat -----------------------------
(***************************************************************************)
(* leveldb's log files (db/log_writer.cc, db/log_reader.cc): a record is   *)
(* cut at the borders of fixed-size blocks into fragments, each with a     *)
(* header of its own, and a block's end too short for a header is filled   *)
(* up.  A file is the fragments appended to it, which of them the end of   *)
(* the process or a failed append has cut off, and its size; a later       *)
(* writer goes on where it ends.                                           *)
(***************************************************************************)
EXTENDS Integers, SequencesExt

CONSTANTS BlockSize, HeaderSize   \* kBlockSize, kHeaderSize, in units
ASSUME BlockAssumption == BlockSize \in Nat /\ HeaderSize \in 1..(BlockSize - 1)

EmptyFile == [fragments |-> <<>>, size |-> 0, torn |-> {}]

\* Where the next header goes, behind the trailer that is filled up.
Start(size) ==
  IF BlockSize - (size % BlockSize) < HeaderSize
  THEN (size \div BlockSize + 1) * BlockSize
  ELSE size

\* The type of the i-th of n fragments.
FragmentType(i, n) ==
  IF n = 1 THEN "full" ELSE IF i = 1 THEN "first" ELSE IF i = n THEN "last" ELSE "middle"

EndOf(fragment) == fragment.at + HeaderSize + fragment.length

\* AddRecord: the fragments of a record of n units in a file of the given size. A record
\* that has room for no more than a header begins with an empty fragment.
FragmentsOf(record, n, size) ==
  LET room == BlockSize - (Start(size) % BlockSize) - HeaderSize
      perBlock == BlockSize - HeaderSize
      count == IF n <= room THEN 1 ELSE 1 + (n - room + perBlock - 1) \div perBlock
      fragment(i) ==
        IF i = 1 THEN [at |-> Start(size), length |-> IF n < room THEN n ELSE room]
        ELSE LET left == n - room - (i - 2) * perBlock
             IN [at |-> (Start(size) \div BlockSize + i - 1) * BlockSize,
                 length |-> IF left < perBlock THEN left ELSE perBlock]
  IN [i \in 1..count |->
        [record |-> record, type |-> FragmentType(i, count), at |-> fragment(i).at,
         length |-> fragment(i).length]]

\* After an append that failed the writer takes the file to be longer by `ahead` units: it
\* counts what it meant to append (block_offset_).
AddRecord(file, record, n, ahead) ==
  LET new == FragmentsOf(record, n, file.size + ahead)
      put == [i \in DOMAIN new |-> [new[i] EXCEPT !.at = @ - ahead]]
  IN [file EXCEPT !.fragments = @ \o put, !.size = EndOf(Last(put))]

\* How many fragments begin before a size. They are in order.
BegunBefore(file, size) == Max({0} \cup {i \in DOMAIN file.fragments : file.fragments[i].at < size})

\* The first `size` units: the last fragment may be cut anywhere, in its header, too.
Truncated(file, size) ==
  LET n == BegunBefore(file, size)
  IN [fragments |-> SubSeq(file.fragments, 1, n), size |-> size,
      torn |-> {i \in 1..n : i \in file.torn \/ EndOf(file.fragments[i]) > size}]

\* The reader comes upon fragment i at the border of a block or at the end of the one before.
Met(file, i) ==
  LET at == file.fragments[i].at
  IN \/ at % BlockSize = 0
     \/ /\ i > 1 /\ EndOf(file.fragments[i - 1]) = at
        /\ file.fragments[i - 1].at \div BlockSize = at \div BlockSize

\* ReadPhysicalRecord returns fragment i if what is before it in its block has not been dropped.
Whole(file, i) ==
  LET f == file.fragments[i]
  IN /\ i \notin file.torn /\ Met(file, i)
     /\ (f.at % BlockSize) + HeaderSize + f.length <= BlockSize

Sound(file) == \A i \in DOMAIN file.fragments : Whole(file, i)

Nothing == [open |-> FALSE]

\* ReadPhysicalRecord and ReadRecord on one more fragment. At a damaged one (truncated, bad
\* length, bad checksum) the rest of its block is dropped, and so is what had been read of
\* a record; parts of a record without its beginning are dropped, too.
ReadFragment(st, f, whole) ==
  IF f.at \div BlockSize = st.skip THEN st
  ELSE IF ~whole THEN [st EXCEPT !.skip = f.at \div BlockSize, !.begun = Nothing]
  ELSE CASE f.type = "full" -> [st EXCEPT !.records = Append(@, f.record), !.begun = Nothing]
         [] f.type = "first" -> [st EXCEPT !.begun = [open |-> TRUE, record |-> f.record]]
         [] f.type = "middle" -> st
         [] f.type = "last" ->
              IF st.begun.open
              THEN [st EXCEPT !.records = Append(@, st.begun.record), !.begun = Nothing]
              ELSE st

NothingRead == [records |-> <<>>, begun |-> Nothing, skip |-> -1]

\* The records a reader of the whole file returns: read[i] is where i fragments have led.
RecordsOf(file) ==
  LET read[i \in 0..Len(file.fragments)] ==
        IF i = 0 THEN NothingRead
        ELSE ReadFragment(read[i - 1], file.fragments[i], Whole(file, i))
  IN read[Len(file.fragments)].records
=============================================================================
