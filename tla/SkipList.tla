------------------------------ MODULE SkipList ------------------------------
(***************************************************************************)
(* leveldb's memtable (db/skiplist.h, db/memtable.cc): a list with links   *)
(* of several heights into which one writer links new nodes while a reader *)
(* follows the links without a lock, one load of a link at a time.         *)
(*                                                                         *)
(* A node is named by the sequence number of its entry, the head by 0.     *)
(* A new node's link of a level is set before the node is linked in there. *)
(***************************************************************************)
EXTENDS Integers, Sequences

CONSTANTS
  None,
  MaxHeight   \* kMaxHeight

ASSUME HeightAssumption == MaxHeight \in Nat \ {0}
ASSUME NoNodeAssumption == None \notin Nat \cup [node : Nat, height : Nat, prev : Seq(Nat)]

VARIABLES
  entry,       \* node -> its entry <<key, seq, type>>, which never changes
  next,        \* node -> the links of its levels: next_
  maxHeight,   \* max_height_
  inserting,   \* the insertion under way: [node, height, prev], or None
  lastSeq,     \* the sequence number that new iterators read: LastSequence()
  search       \* the reader's search: [kind, target, at, level], or None

listVars == <<entry, next, maxHeight, inserting, lastSeq, search>>

HeadNode == 0

\* InternalKeyComparator: by user key, then the newest first.
Before(a, b) == a[1] < b[1] \/ (a[1] = b[1] /\ a[2] > b[2])

ListInit ==
  /\ entry = <<>> /\ next = [n \in {HeadNode} |-> [l \in 1..MaxHeight |-> None]]
  /\ maxHeight = 1 /\ inserting = None /\ lastSeq = 0 /\ search = None

-----------------------------------------------------------------------------
(* The writer *)

\* The nodes with a link of a level, the head among them.
Tower(l) == {n \in DOMAIN next : Len(next[n]) >= l}

\* Where FindGreaterOrEqual leaves a level, with nobody else writing: the node before e
\* whose link leads to none before e.
Predecessor(e, l) ==
  CHOOSE n \in Tower(l) :
    /\ n = HeadNode \/ Before(entry[n], e)
    /\ next[n][l] = None \/ ~Before(entry[next[n][l]], e)

\* NewNode: a function of the nodes, with a value for node n.
WithNode(f, n, v) == [m \in DOMAIN f \cup {n} |-> IF m = n THEN v ELSE f[m]]

\* Insert looks for its place, then raises max_height_ if need be: readers may see the
\* new height before the node.
StartInsert(e, height) ==
  /\ inserting = None
  /\ inserting' = [node |-> e[2], height |-> height,
                   prev |-> [l \in 1..height |-> Predecessor(e, l)]]
  /\ entry' = WithNode(entry, e[2], e)
  /\ next' = WithNode(next, e[2], <<>>)
  /\ maxHeight' = IF height > maxHeight THEN height ELSE maxHeight
  /\ UNCHANGED <<lastSeq, search>>

\* Mutant of LinkLevel: the node is linked in before its own link is set.
LinkLevelTooEarly ==
  /\ inserting # None /\ Len(next[inserting.node]) < inserting.height
  /\ LET x == inserting.node
         l == Len(next[x]) + 1
         before == inserting.prev[l]
     IN next' = [next EXCEPT ![x] = Append(@, IF l = 1 THEN None ELSE next[before][l]),
                             ![before] = [@ EXCEPT ![l] = x]]
  /\ UNCHANGED <<entry, maxHeight, inserting, lastSeq, search>>

\* The node is linked in, from the lowest level up.
LinkLevel ==
  /\ inserting # None /\ Len(next[inserting.node]) < inserting.height
  /\ LET x == inserting.node
         l == Len(next[x]) + 1
         before == inserting.prev[l]
     IN next' = [next EXCEPT ![x] = Append(@, next[before][l]),
                             ![before] = [@ EXCEPT ![l] = x]]
  /\ UNCHANGED <<entry, maxHeight, inserting, lastSeq, search>>

\* DBImpl::Write sets the sequence number that readers start from afterwards.
SetLastSequence ==
  /\ inserting # None /\ Len(next[inserting.node]) = inserting.height
  /\ lastSeq' = inserting.node
  /\ inserting' = None
  /\ UNCHANGED <<entry, next, maxHeight, search>>

-----------------------------------------------------------------------------
(* The reader *)

\* A search starts at the height it loads, which may be an old one. Next and SeekToFirst
\* load one link only.
StartSearch(kind, target, from) ==
  /\ search = None
  /\ \E level \in IF kind \in {"next", "first"} THEN {1} ELSE 1..maxHeight :
       search' = [kind |-> kind, target |-> target, at |-> from, level |-> level]
  /\ UNCHANGED <<entry, next, maxHeight, inserting, lastSeq>>

\* KeyIsAfterNode and its likes: whether the search moves on to node n.
GoesOn(kind, target, n) ==
  /\ n # None
  /\ \/ kind = "last"
     \/ kind \in {"ge", "lt"} /\ Before(entry[n], target)

\* FindGreaterOrEqual ("ge"), FindLessThan ("lt"), FindLast ("last"): one load of a link;
\* the last one gives the node, or None.
LoadLink(node, newNode) ==
  /\ search # None
  /\ LET n == next[search.at][search.level]
         goesOn == GoesOn(search.kind, search.target, n)
     IN IF goesOn \/ search.level > 1
        THEN /\ search' = IF goesOn THEN [search EXCEPT !.at = n] ELSE [search EXCEPT !.level = @ - 1]
             /\ newNode = node
        ELSE /\ search' = None
             /\ newNode = IF search.kind \in {"ge", "next", "first"} THEN n
                        ELSE IF search.at = HeadNode THEN None ELSE search.at
  /\ UNCHANGED <<entry, next, maxHeight, inserting, lastSeq>>

-----------------------------------------------------------------------------
(* Properties *)

\* The nodes of a level that come after n.
After(n, l) ==
  {m \in Tower(l) \ {HeadNode} : n = HeadNode \/ Before(entry[n], entry[m])}

\* Whatever is linked, each link of each level leads to the next node of that level, and
\* every write that new iterators count on can be reached at the lowest one.
LevelsLinked ==
  /\ \A l \in 1..MaxHeight : \A n \in Tower(l) :
       \/ next[n][l] = None /\ After(n, l) = {}
       \/ /\ next[n][l] \in After(n, l)
          /\ \A m \in After(n, l) \ {next[n][l]} : Before(entry[next[n][l]], entry[m])
  /\ \A n \in DOMAIN entry : n <= lastSeq => n \in Tower(1)
=============================================================================
