----------------------------- MODULE Iterators -----------------------------
(***************************************************************************)
(* A leveldb iterator in use while the database is written (db/db_iter.cc, *)
(* table/merger.cc): DBIter turns the entries of a MergingIterator into    *)
(* the keys of its snapshot; that merges the memtable, in which a writer   *)
(* goes on inserting, with tables that may be damaged.  The reader's steps *)
(* are its calls, the loads of links in the memtable, and what it does     *)
(* between two of them.                                                    *)
(***************************************************************************)
EXTENDS TableCursor

CONSTANTS
  Keys,
  Scenarios   \* [tables; inserts: <<key, type>> of the writes; first: the memtable's first
              \*  sequence number; writes, calls: bounds]

ASSUME ScenarioAssumption ==
  \A s \in Scenarios : s.first \in Nat \ {0} /\ \A w \in s.inserts : w[1] \in Int

VARIABLES
  scenario,
  snapshot,   \* sequence_, None before the iterator is created
  mem,        \* the memtable iterator's node, or None
  cursors,    \* of the tables
  current,    \* the child that is current_: 0 the memtable, else a table; None
  forward,    \* whether MergingIterator::direction_ is kForward
  merge,      \* the merging iterator's move under way: [op, target, todo], or None; todo
              \* are the memtable moves still to be made
  dir,        \* DBIter::direction_
  valid,      \* valid_
  savedKey,   \* saved_key_, and
  savedEntry, \* whose value is in saved_value_; None if cleared
  loop,       \* where DBIter is: [at, skipping], or None when no call is under way
  call,       \* the user's call under way: [op, key, from: the entry shown before]
  used        \* calls and writes so far

iterVars == <<snapshot, mem, cursors, current, forward, merge, dir, valid, savedKey,
              savedEntry, loop, call>>
vars == <<scenario, listVars, iterVars, used>>

Tables == DOMAIN scenario.tables
Children == {0} \cup Tables

Init ==
  /\ scenario \in Scenarios
  /\ ListInit
  /\ snapshot = None /\ mem = None /\ current = None /\ forward = TRUE /\ merge = None
  /\ cursors = [t \in Tables |-> NewCursor]
  /\ dir = "forward" /\ valid = FALSE /\ savedKey = None /\ savedEntry = None
  /\ loop = None /\ call = None
  /\ used = [calls |-> 0, writes |-> 0]

-----------------------------------------------------------------------------
(* The writer *)

\* The reader shares nothing with the writer but the links it loads: between two loads it
\* need not be interrupted.
BetweenLoads == loop = None \/ search # None

\* MemTable::Add of the next sequence number.
Insert(k, type, height) ==
  /\ BetweenLoads /\ used.writes < scenario.writes
  /\ StartInsert(<<k, scenario.first + used.writes, type>>, height)
  /\ used' = [used EXCEPT !.writes = @ + 1]
  /\ UNCHANGED <<scenario, iterVars>>

Link == BetweenLoads /\ LinkLevel /\ UNCHANGED <<scenario, iterVars, used>>
Publish == BetweenLoads /\ SetLastSequence /\ UNCHANGED <<scenario, iterVars, used>>

-----------------------------------------------------------------------------
(* MergingIterator *)

EntryOf(child) ==
  CASE child = None -> None
    [] child = 0 -> IF mem = None THEN None ELSE entry[mem]
    [] OTHER -> CursorEntry(scenario.tables[child], cursors[child])

\* key() and the value of the merging iterator; None when it is not valid.
Key == EntryOf(current)

Moved(t, op, target) == CursorMove(scenario.tables[t], cursors[t], op, target)

\* Of a child that is not current_ when the direction changes: to behind key, or before it.
MovedBehind(t) ==
  LET c == Moved(t, "Seek", Key)
  IN IF CursorEntry(scenario.tables[t], c) = Key
     THEN CursorMove(scenario.tables[t], c, "Next", None) ELSE c

MovedBefore(t) ==
  LET c == Moved(t, "Seek", Key)
  IN CursorMove(scenario.tables[t], c, IF CursorValid(c) THEN "Prev" ELSE "SeekToLast", None)

\* Mutant of TablesMoved: a change of direction moves the current child only.
TablesMovedAlone(op, target) ==
  [t \in Tables |->
     IF op \in {"SeekToFirst", "SeekToLast", "Seek"} \/ t = current
     THEN Moved(t, op, target) ELSE cursors[t]]

\* What a move does to the tables' iterators.
TablesMoved(op, target) ==
  [t \in Tables |->
     CASE op \in {"SeekToFirst", "SeekToLast", "Seek"} \/ t = current -> Moved(t, op, target)
       [] op = "Next" /\ t # current /\ ~forward -> MovedBehind(t)
       [] op = "Prev" /\ t # current /\ forward -> MovedBefore(t)
       [] OTHER -> cursors[t]]

\* The moves of the memtable's iterator that it needs. "before" depends on what the one
\* before it finds. (No other child has an entry equal to key: sequence numbers differ.)
MemMoves(op) ==
  CASE op = "SeekToFirst" -> <<"first">>
    [] op = "SeekToLast" -> <<"last">>
    [] op = "Seek" -> <<"ge">>
    [] op = "Next" -> IF current = 0 THEN <<"next">> ELSE IF forward THEN <<>> ELSE <<"ge">>
    [] op = "Prev" -> IF current = 0 THEN <<"lt">> ELSE IF forward THEN <<"ge", "before">> ELSE <<>>

StartMerge(op, target) ==
  /\ merge' = [op |-> op, todo |-> MemMoves(op),
               target |-> IF op \in {"Next", "Prev"} THEN Key ELSE target]
  /\ cursors' = TablesMoved(op, target)

NoMerge == UNCHANGED <<merge, cursors>>

\* The memtable iterator's next move: Prev looks for the node before its own.
MemMove ==
  /\ merge # None /\ merge.todo # <<>> /\ search = None
  /\ \E kind \in {IF Head(merge.todo) # "before" THEN Head(merge.todo)
                  ELSE IF mem = None THEN "last" ELSE "lt"} :
       StartSearch(kind, IF kind = "lt" THEN entry[mem] ELSE merge.target,
                   IF kind = "next" THEN mem ELSE HeadNode)
  /\ merge' = [merge EXCEPT !.todo = Tail(@)]
  /\ UNCHANGED <<scenario, used, snapshot, mem, cursors, current, forward, dir, valid, savedKey,
                 savedEntry, loop, call>>

Load ==
  /\ LoadLink(mem, mem')
  /\ UNCHANGED <<scenario, used, snapshot, cursors, current, forward, merge, dir, valid,
                 savedKey, savedEntry, loop, call>>

\* FindSmallest, FindLargest: the first or last of the children's entries.
Foremost(up) ==
  LET at == {c \in Children : EntryOf(c) # None} IN
  IF at = {} THEN None
  ELSE CHOOSE c \in at : \A d \in at \ {c} :
         IF up THEN Before(EntryOf(c), EntryOf(d)) ELSE Before(EntryOf(d), EntryOf(c))

EndMerge ==
  /\ merge # None /\ merge.todo = <<>> /\ search = None
  /\ forward' = (merge.op \notin {"Prev", "SeekToLast"})
  /\ current' = Foremost(forward')
  /\ merge' = None
  /\ UNCHANGED <<scenario, used, listVars, snapshot, mem, cursors, dir, valid, savedKey,
                 savedEntry, loop, call>>

-----------------------------------------------------------------------------
(* DBIter *)

\* The entry the user sees between two calls.
Shown == IF ~valid THEN None ELSE IF dir = "forward" THEN Key ELSE savedEntry

\* NewIterator, at the sequence number of the last write that has been published.
NewIterator ==
  /\ snapshot = None
  /\ snapshot' = IF lastSeq = 0 THEN scenario.first - 1 ELSE lastSeq
  /\ UNCHANGED <<scenario, used, listVars, mem, cursors, current, forward, merge, dir, valid,
                 savedKey, savedEntry, loop, call>>

Called(op, k, at, skipping) ==
  /\ snapshot # None /\ call = None /\ used.calls < scenario.calls
  /\ used' = [used EXCEPT !.calls = @ + 1]
  /\ call' = [op |-> op, key |-> k, from |-> Shown]
  /\ loop' = [at |-> at, skipping |-> skipping, type |-> "deletion"]
  /\ UNCHANGED <<scenario, listVars, snapshot, mem, current, forward, valid>>

SeekToFirst ==
  /\ Called("SeekToFirst", None, "next", FALSE)
  /\ dir' = "forward" /\ savedEntry' = None
  /\ StartMerge("SeekToFirst", None)
  /\ UNCHANGED savedKey

SeekToLast ==
  /\ Called("SeekToLast", None, "prev", FALSE)
  /\ dir' = "reverse" /\ savedEntry' = None
  /\ StartMerge("SeekToLast", None)
  /\ UNCHANGED savedKey

Seek(k) ==
  /\ Called("Seek", k, "next", FALSE)
  /\ dir' = "forward" /\ savedEntry' = None
  /\ savedKey' = k
  /\ StartMerge("Seek", <<k, snapshot, "value">>)

\* Going backwards iter_ is just before the entries of this key, which then are skipped.
CallNext ==
  /\ valid /\ Called("Next", None, "next", TRUE)
  /\ dir' = "forward"
  /\ \/ /\ dir = "reverse" /\ current = None
        /\ StartMerge("SeekToFirst", None) /\ UNCHANGED savedKey
     \/ /\ dir = "reverse" /\ current # None
        /\ StartMerge("Next", None) /\ UNCHANGED savedKey
     \/ /\ dir = "forward"
        /\ savedKey' = Key[1] /\ NoMerge
  /\ UNCHANGED savedEntry

\* Going forwards iter_ is at the current entry, and goes back until the key changes.
CallPrev ==
  /\ valid
  /\ \/ /\ dir = "forward" /\ Called("Prev", None, "turn", FALSE)
        /\ savedKey' = Key[1] /\ StartMerge("Prev", None)
     \/ /\ dir = "reverse" /\ Called("Prev", None, "prev", FALSE)
        /\ NoMerge /\ UNCHANGED savedKey
  /\ UNCHANGED <<dir, savedEntry>>

\* DBIter looks at where iter_ stands.
Looking(at) ==
  /\ loop # None /\ loop.at = at /\ merge = None
  /\ UNCHANGED <<scenario, used, listVars, snapshot, mem, current, forward>>

Return == loop' = None /\ call' = None

InSnapshot == Key # None /\ Key[2] <= snapshot

\* FindNextUserEntry: deletions and older entries of a key hide the next ones of that key.
Yields == InSnapshot /\ Key[3] = "value" /\ (loop.skipping => Key[1] > savedKey)

NextFound ==
  /\ Looking("next") /\ (Key = None \/ Yields)
  /\ valid' = (Key # None) /\ savedKey' = None
  /\ Return /\ NoMerge /\ UNCHANGED <<dir, savedEntry>>

SkipNext ==
  /\ Looking("next") /\ Key # None /\ ~Yields
  /\ IF InSnapshot /\ Key[3] = "deletion"
     THEN savedKey' = Key[1] /\ loop' = [loop EXCEPT !.skipping = TRUE]
     ELSE UNCHANGED <<savedKey, loop>>
  /\ StartMerge("Next", None)
  /\ UNCHANGED <<dir, valid, savedEntry, call>>

\* The change of direction in Prev.
TurnFound ==
  /\ Looking("turn")
  /\ \/ /\ Key = None
        /\ valid' = FALSE /\ savedKey' = None /\ savedEntry' = None
        /\ Return /\ UNCHANGED dir
     \/ /\ Key # None /\ Key[1] < savedKey
        /\ dir' = "reverse" /\ loop' = [loop EXCEPT !.at = "prev"]
        /\ UNCHANGED <<valid, savedKey, savedEntry, call>>
  /\ NoMerge

TurnOn ==
  /\ Looking("turn") /\ Key # None /\ Key[1] >= savedKey
  /\ StartMerge("Prev", None)
  /\ UNCHANGED <<dir, valid, savedKey, savedEntry, loop, call>>

\* FindPrevUserEntry: the newest entry of a key comes last; it is known to be the one when
\* an entry of an earlier key follows.
PassedIt == Key = None \/ (InSnapshot /\ loop.type # "deletion" /\ Key[1] < savedKey)

PrevFound ==
  /\ Looking("prev") /\ PassedIt
  /\ IF loop.type = "deletion"
     THEN valid' = FALSE /\ savedKey' = None /\ savedEntry' = None /\ dir' = "forward"
     ELSE valid' = TRUE /\ UNCHANGED <<savedKey, savedEntry, dir>>
  /\ Return /\ NoMerge

SkipPrev ==
  /\ Looking("prev") /\ ~PassedIt
  /\ IF InSnapshot
     THEN /\ loop' = [loop EXCEPT !.type = Key[3]]
          /\ savedKey' = IF Key[3] = "deletion" THEN None ELSE Key[1]
          /\ savedEntry' = IF Key[3] = "deletion" THEN None ELSE Key
     ELSE UNCHANGED <<loop, savedKey, savedEntry>>
  /\ StartMerge("Prev", None)
  /\ UNCHANGED <<dir, valid, call>>

-----------------------------------------------------------------------------
Writer ==
  \/ \E w \in scenario.inserts, h \in 1..MaxHeight : Insert(w[1], w[2], h)
  \/ Link \/ Publish

Reading ==
  \/ MemMove \/ Load \/ EndMerge
  \/ NextFound \/ SkipNext \/ TurnFound \/ TurnOn \/ PrevFound \/ SkipPrev

User == SeekToFirst \/ SeekToLast \/ CallNext \/ CallPrev \/ (\E k \in Keys : Seek(k)) \/ NewIterator

Next == Writer \/ Reading \/ User

Spec == Init /\ [][Next]_vars

-----------------------------------------------------------------------------
(* Properties *)

Entries ==
  Range(entry) \cup UNION {UNION {Range(b) : b \in Range(t.blocks)} : t \in Range(scenario.tables)}

\* The newest entry of each key in the snapshot, unless it is a deletion.
View ==
  IF snapshot = None THEN {}
  ELSE {e \in Entries :
          /\ e[2] <= snapshot /\ e[3] = "value"
          /\ \A d \in Entries : d[1] = e[1] /\ d[2] <= snapshot => d[2] <= e[2]}

\* Whatever is inserted meanwhile, and wherever the links of a half-inserted node lead a
\* search, the iterator moves over exactly the keys of its snapshot, forwards and backwards;
\* if a part of a table cannot be read, status() tells.
Cursor ==
  INSTANCE SnapshotCursor WITH
    view <- View,
    shown <- IF call = None THEN Shown ELSE call.from,
    asked <- IF call = None THEN None ELSE <<call.op, call.key>>,
    failed <- \E t \in Tables : CursorFailed(cursors[t])
CursorSpec == Cursor!Spec
=============================================================================
