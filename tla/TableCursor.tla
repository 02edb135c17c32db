---------------------------- MODULE TableCursor ----------------------------
(***************************************************************************)
(* How leveldb moves through a sorted table: Block::Iter over the entries  *)
(* of a block (table/block.cc) under a TwoLevelIterator that opens one     *)
(* block at a time (table/two_level_iterator.cc, Table::BlockReader).      *)
(* A table is [blocks, damaged, unreadable]: sequences of entries; the     *)
(* <<block, position>> of entries that cannot be decoded; the blocks that  *)
(* cannot be read.  Every operator is a function of its arguments.         *)
(***************************************************************************)
EXTENDS SkipList, SequencesExt

CONSTANT RestartInterval   \* block_restart_interval
ASSUME RestartAssumption == RestartInterval \in Nat \ {0}

-----------------------------------------------------------------------------
(* Block::Iter: [i, restart, bad]: current_ (0 when invalid), restart_index_ and whether
   status_ is an error *)

Restarts(block) == (Len(block) - 1) \div RestartInterval + 1
RestartPoint(r) == 1 + (r - 1) * RestartInterval

NoEntry(it) == [it EXCEPT !.i = 0, !.restart = 0]
CorruptionError(it) == [NoEntry(it) EXCEPT !.bad = TRUE]

\* ParseNextKey from one position to another, through all entries between them.
ParseTo(t, b, from, to, it) ==
  LET block == t.blocks[b] IN
  IF \E p \in from..to : <<b, p>> \in t.damaged THEN CorruptionError(it)
  ELSE IF to > Len(block) THEN NoEntry(it)
  ELSE [it EXCEPT !.i = to,
                  !.restart = Max({@} \cup {r \in 1..Restarts(block) : RestartPoint(r) < to})]

\* SeekToRestartPoint, then entries up to the given position.
ParseFrom(t, b, r, to, it) == ParseTo(t, b, RestartPoint(r), to, [it EXCEPT !.restart = r])

\* The binary search of Seek for the last restart point before target (or the first of
\* all); 0 if it meets one that cannot be decoded.
LastRestartBefore(t, b, target) ==
  LET e(r) == t.blocks[b][RestartPoint(r)]
      bisect[left \in 1..Restarts(t.blocks[b]), right \in 1..Restarts(t.blocks[b])] ==
        LET mid == (left + right + 1) \div 2 IN
        IF left >= right THEN left
        ELSE IF <<b, RestartPoint(mid)>> \in t.damaged THEN 0
        ELSE IF Before(e(mid), target) THEN bisect[mid, right] ELSE bisect[left, mid - 1]
  IN bisect[1, Restarts(t.blocks[b])]

\* The first position from p on that is not before target, or the one behind the block.
FirstNotBefore(block, p, target) ==
  Min({Len(block) + 1} \cup {q \in p..Len(block) : ~Before(block[q], target)})

BlockSeek(t, b, target, it) ==
  LET r == LastRestartBefore(t, b, target) IN
  IF r = 0 THEN CorruptionError(it)
  ELSE ParseFrom(t, b, r, FirstNotBefore(t.blocks[b], RestartPoint(r), target), it)

\* Prev goes back to a restart point and forward again.
BlockPrev(t, b, it) ==
  LET earlier == {r \in 1..it.restart : RestartPoint(r) < it.i} IN
  IF earlier = {} THEN NoEntry(it) ELSE ParseFrom(t, b, Max(earlier), it.i - 1, it)

BlockMove(t, b, op, target, it) ==
  CASE op = "SeekToFirst" -> ParseFrom(t, b, 1, 1, it)
    [] op = "SeekToLast" -> ParseFrom(t, b, Restarts(t.blocks[b]), Len(t.blocks[b]), it)
    [] op = "Seek" -> BlockSeek(t, b, target, it)
    [] op = "Next" -> ParseTo(t, b, it.i + 1, it.i + 1, it)
    [] op = "Prev" -> BlockPrev(t, b, it)

-----------------------------------------------------------------------------
(* TwoLevelIterator: [index, block, it, saved]: where the index is, the block of data_iter_
   (0 for none) and its iterator, and whether status_ is an error *)

NewCursor == [index |-> 0, block |-> 0, it |-> [i |-> 0, restart |-> 0, bad |-> FALSE],
              saved |-> FALSE]

CursorValid(c) == c.block # 0 /\ c.it.i # 0
CursorEntry(t, c) == IF CursorValid(c) THEN t.blocks[c.block][c.it.i] ELSE None
CursorFailed(c) == c.saved \/ (c.block # 0 /\ c.it.bad)

\* The block that is left passes its error on; one that cannot be read has an error.
SetDataIterator(t, c, b) ==
  [c EXCEPT !.block = b, !.saved = CursorFailed(c),
            !.it = [i |-> 0, restart |-> 0, bad |-> b \in t.unreadable]]

\* InitDataBlock: the index entry's block, unless it is open already.
InitDataBlock(t, c) ==
  IF c.index \notin DOMAIN t.blocks THEN SetDataIterator(t, c, 0)
  ELSE IF c.block = c.index THEN c
  ELSE SetDataIterator(t, c, c.index)

\* A move within the open block, if there is one that can be read.
InBlock(t, c, op, target) ==
  IF c.block = 0 \/ c.block \in t.unreadable THEN c
  ELSE [c EXCEPT !.it = BlockMove(t, c.block, op, target, @)]

AtIndex(t, c, index, op, target) ==
  InBlock(t, InitDataBlock(t, [c EXCEPT !.index = index]), op, target)

\* SkipEmptyDataBlocksForward and -Backward: on to the next block that has an entry.
SkipEmptyDataBlocks(t, c, forward) ==
  LET n == Len(t.blocks)
      rest == IF forward THEN [k \in 1..(n + 1 - c.index) |-> c.index + k]
                         ELSE [k \in 1..c.index |-> c.index - k]
  IN IF CursorValid(c) THEN c
     ELSE IF c.index \notin 1..n THEN SetDataIterator(t, c, 0)
     ELSE FoldLeft(LAMBDA d, k :
                     IF CursorValid(d) THEN d
                     ELSE AtIndex(t, d, k, IF forward THEN "SeekToFirst" ELSE "SeekToLast", None),
                   c, rest)

\* The index entry of a block is its last entry, or one between it and the next block.
IndexOf(t, op, target) ==
  CASE op = "SeekToFirst" -> 1
    [] op = "SeekToLast" -> Len(t.blocks)
    [] op = "Seek" -> FirstNotBefore([b \in DOMAIN t.blocks |-> Last(t.blocks[b])], 1, target)

CursorMove(t, c, op, target) ==
  SkipEmptyDataBlocks(t,
    IF op \in {"Next", "Prev"} THEN InBlock(t, c, op, target)
    ELSE AtIndex(t, c, IndexOf(t, op, target), op, target),
    op \notin {"SeekToLast", "Prev"})
=============================================================================
