-------------------------- MODULE IteratorsProofs --------------------------
(***************************************************************************)
(* The memtable's skip list in Iterators is linked at every level, however *)
(* a reader's steps and a writer's are interleaved, for every height, set  *)
(* of tables and number of writes.                                         *)
(***************************************************************************)
EXTENDS Iterators, TLAPS, WellFoundedInduction, SequenceTheorems

-----------------------------------------------------------------------------
(* The inductive invariant *)

\* The number of the next write.
NextSeq == scenario.first + used.writes

\* Nodes are numbered as the writes are; only their last link may be missing.
NodesNumbered ==
  /\ used \in [calls : Nat, writes : Nat] /\ scenario \in Scenarios
  /\ DOMAIN entry = scenario.first .. (NextSeq - 1)
  /\ \A n \in DOMAIN entry : entry[n][1] \in Int /\ entry[n][2] = n
  /\ DOMAIN next = {HeadNode} \cup DOMAIN entry
  /\ \A n \in DOMAIN next : next[n] \in Seq({None} \cup DOMAIN entry)
  /\ Len(next[HeadNode]) = MaxHeight
  /\ lastSeq \in 0 .. (NextSeq - 1)

\* An insertion under way knows, of each level to come, the two nodes between which it
\* belongs; every other node has been linked.
InsertionPlaced ==
  /\ \A n \in DOMAIN entry : inserting = None \/ inserting.node # n => Len(next[n]) >= 1
  /\ inserting # None =>
       /\ inserting.node = NextSeq - 1 /\ inserting.node \in DOMAIN entry
       /\ lastSeq < inserting.node
       /\ inserting.height \in 1..MaxHeight
       /\ Len(next[inserting.node]) <= inserting.height
       /\ \A l \in (Len(next[inserting.node]) + 1) .. inserting.height :
            LET before == inserting.prev[l] IN
            /\ before \in Tower(l)
            /\ before = HeadNode \/ Before(entry[before], entry[inserting.node])
            /\ next[before][l] = None
                 \/ Before(entry[inserting.node], entry[next[before][l]])

\* Each link of a level leads to the next node of it.
LevelLinked(l) ==
  \A n \in Tower(l) :
    \/ next[n][l] = None /\ After(n, l) = {}
    \/ /\ next[n][l] \in After(n, l)
       /\ \A m \in After(n, l) \ {next[n][l]} : Before(entry[next[n][l]], entry[m])

ListInv == NodesNumbered /\ InsertionPlaced /\ \A l \in 1..MaxHeight : LevelLinked(l)

-----------------------------------------------------------------------------
(* The order of the nodes *)

\* Every non-empty set of numbers has a least one.
LEMMA LeastNumber ==
  ASSUME NEW T \in SUBSET Nat, T # {}
  PROVE  \E n \in T : \A m \in T : n <= m
<1> DEFINE R == {p \in Nat \X Nat : p[1] < p[2]}
<1>1. IsWellFoundedOn(R, Nat)
  <2>1. OpToRel(<, Nat) = R
    BY DEF OpToRel
  <2>2. QED
    BY <2>1, NatLessThanWellFounded
<1>2. PICK n \in T : \A m \in T : ~(<<m, n>> \in R)
  <2> HIDE DEF R
  <2> QED
    BY <1>1, WFMin
<1>3. \A m \in T : ~(m < n)
  BY <1>2
<1>4. \A m \in T : n <= m
  BY <1>3
<1>5. QED
  BY <1>4

\* Induction, over the set of the numbers that have a property.
LEMMA SetInduction ==
  ASSUME NEW T, 0 \in T, \A n \in Nat : n \in T => n + 1 \in T
  PROVE  Nat \subseteq T
<1>1. SUFFICES ASSUME Nat \ T # {} PROVE FALSE
  OBVIOUS
<1>2. PICK n \in Nat \ T : \A m \in Nat \ T : n <= m
  BY <1>1, LeastNumber
<1>3. n # 0 /\ n - 1 \in Nat /\ n - 1 < n
  BY <1>2
<1>4. n - 1 \in T
  BY <1>2, <1>3
<1>5. QED
  BY <1>2, <1>3, <1>4

\* InternalKeyComparator orders the nodes strictly, and tells every two of them apart.
LEMMA BeforeOrders ==
  ASSUME NodesNumbered
  PROVE  /\ \A a \in DOMAIN entry : ~Before(entry[a], entry[a])
         /\ \A a, b, c \in DOMAIN entry :
              Before(entry[a], entry[b]) /\ Before(entry[b], entry[c])
                => Before(entry[a], entry[c])
         /\ \A a, b \in DOMAIN entry :
              a # b => Before(entry[a], entry[b]) \/ Before(entry[b], entry[a])
         /\ \A a, b \in DOMAIN entry :
              Before(entry[a], entry[b]) => ~Before(entry[b], entry[a])
<1> DEFINE key(a) == entry[a][1]
<1>1. \A a \in DOMAIN entry : key(a) \in Int /\ entry[a][2] = a
  BY DEF NodesNumbered
<1>2. \A a \in DOMAIN entry : a \in Int
  BY ScenarioAssumption DEF NodesNumbered, NextSeq
<1>3. \A a, b \in DOMAIN entry :
        Before(entry[a], entry[b]) <=> key(a) < key(b) \/ (key(a) = key(b) /\ a > b)
  BY <1>1 DEF Before
<1> HIDE DEF key
<1>4. \A a \in DOMAIN entry : key(a) \in Int
  BY <1>1 DEF key
<1>5. QED
  BY <1>2, <1>3, <1>4

\* A node is a positive number, so it is neither the head nor None.
LEMMA NodeFacts ==
  ASSUME NodesNumbered
  PROVE  /\ NextSeq \in Nat \ {0}
         /\ \A n \in DOMAIN entry : n \in Nat \ {0} /\ n < NextSeq /\ n # None
         /\ None # HeadNode /\ HeadNode \notin DOMAIN entry
<1>1. scenario.first \in Nat \ {0} /\ used.writes \in Nat
  BY ScenarioAssumption DEF NodesNumbered
<1>2. QED
  BY <1>1, NoNodeAssumption DEF NodesNumbered, NextSeq, HeadNode

\* Some node of every set of nodes comes last.
LEMMA LastOfNodes ==
  ASSUME NodesNumbered, NEW S \in SUBSET (DOMAIN entry), S # {}
  PROVE  \E g \in S : \A m \in S \ {g} : Before(entry[m], entry[g])
<1> DEFINE HasLast(R) == \E g \in R : \A m \in R \ {g} : Before(entry[m], entry[g])
           UpTo(k) == {n \in DOMAIN entry : n <= k}
           T == {k \in Nat : \A R \in SUBSET UpTo(k) : R # {} => HasLast(R)}
<1>0. \A n \in DOMAIN entry : n \in Nat \ {0} /\ n < NextSeq
  BY NodeFacts
<1>1. 0 \in T
  BY <1>0
<1>2. ASSUME NEW k \in Nat, k \in T
      PROVE  k + 1 \in T
  <2> SUFFICES ASSUME NEW R \in SUBSET UpTo(k + 1), R # {}
               PROVE  HasLast(R)
    OBVIOUS
  <2> DEFINE Q == R \ {k + 1}
  <2>1. Q \in SUBSET UpTo(k)
    BY <1>0
  <2>2. CASE Q = {}
    BY <2>2
  <2>3. CASE Q # {} /\ k + 1 \notin R
    BY <2>1, <2>3, <1>2
  <2>4. CASE Q # {} /\ k + 1 \in R
    <3>1. PICK g \in Q : \A m \in Q \ {g} : Before(entry[m], entry[g])
      BY <2>1, <2>4, <1>2
    <3>2. CASE Before(entry[g], entry[k + 1])
      <4>1. \A m \in R \ {k + 1} : Before(entry[m], entry[k + 1])
        BY <3>1, <3>2, <2>4, BeforeOrders
      <4>2. QED
        BY <4>1, <2>4
    <3>3. CASE Before(entry[k + 1], entry[g])
      <4>1. \A m \in R \ {g} : Before(entry[m], entry[g])
        BY <3>1, <3>3
      <4>2. QED
        BY <4>1, <3>1
    <3>4. QED
      BY <3>1, <3>2, <3>3, <2>4, BeforeOrders
  <2>5. QED
    BY <2>2, <2>3, <2>4
<1>3. Nat \subseteq T
  <2> HIDE DEF T
  <2> QED
    BY <1>1, <1>2, SetInduction
<1>4. NextSeq \in T /\ S \in SUBSET UpTo(NextSeq)
  BY <1>0, <1>3, NodeFacts
<1>5. QED
  BY <1>4

\* What the links of a level lead to.
LEMMA LinkFacts ==
  ASSUME NodesNumbered, NEW l \in 1..MaxHeight
  PROVE  /\ HeadNode \in Tower(l)
         /\ Tower(l) \subseteq {HeadNode} \cup DOMAIN entry
         /\ \A n \in Tower(l) : next[n][l] \in {None} \cup DOMAIN entry
         /\ \A n \in Tower(l) : n # HeadNode => n \in DOMAIN entry
<1>1. HeadNode \in DOMAIN next /\ Len(next[HeadNode]) >= l
  BY HeightAssumption DEF NodesNumbered
<1>2. \A n \in Tower(l) : next[n] \in Seq({None} \cup DOMAIN entry) /\ l \in 1..Len(next[n])
  BY DEF NodesNumbered, Tower
<1>3. \A n \in Tower(l) : next[n][l] \in {None} \cup DOMAIN entry
  BY <1>2, ElementOfSeq
<1>4. QED
  BY <1>1, <1>3 DEF Tower, NodesNumbered

-----------------------------------------------------------------------------
(* The writer's steps *)

\* FindGreaterOrEqual's way of a level ends: between two nodes, where a new one belongs.
LEMMA PredecessorFound ==
  ASSUME NodesNumbered, NEW l \in 1..MaxHeight, LevelLinked(l),
         NEW e, e[1] \in Int, e[2] = NextSeq
  PROVE  LET p == Predecessor(e, l) IN
         /\ p \in Tower(l)
         /\ p = HeadNode \/ Before(entry[p], e)
         /\ next[p][l] = None \/ Before(e, entry[next[p][l]])
<1> DEFINE S == {n \in Tower(l) \ {HeadNode} : Before(entry[n], e)}
           Fits(n) == /\ n = HeadNode \/ Before(entry[n], e)
                      /\ next[n][l] = None \/ ~Before(entry[next[n][l]], e)
<1>1. \E n \in Tower(l) : Fits(n)
  <2>1. CASE S = {}
    <3>1. next[HeadNode][l] = None \/ next[HeadNode][l] \in Tower(l) \ {HeadNode}
      BY LinkFacts DEF LevelLinked, After
    <3>2. Fits(HeadNode)
      BY <3>1, <2>1
    <3>3. QED
      BY <3>2, LinkFacts
  <2>2. CASE S # {}
    <3>1. S \in SUBSET DOMAIN entry
      BY LinkFacts
    <3>2. PICK g \in S : \A m \in S \ {g} : Before(entry[m], entry[g])
      BY <3>1, <2>2, LastOfNodes
    <3>3. CASE next[g][l] \in After(g, l)
      <4> DEFINE r == next[g][l]
      <4>1. r \in Tower(l) \ {HeadNode} /\ Before(entry[g], entry[r])
        BY <3>2, <3>3 DEF After
      <4>2. r \in DOMAIN entry /\ g \in DOMAIN entry
        BY <4>1, <3>1, LinkFacts
      <4>3. r \notin S
        BY <4>1, <4>2, <3>2, BeforeOrders
      <4>4. QED
        BY <4>1, <4>3, <3>2
    <3>4. QED
      BY <3>2, <3>3 DEF LevelLinked
  <2>3. QED
    BY <2>1, <2>2
<1> DEFINE p == Predecessor(e, l)
<1>2. p \in Tower(l) /\ Fits(p)
  BY <1>1 DEF Predecessor
<1>3. next[p][l] # None => Before(e, entry[next[p][l]])
  <2> SUFFICES ASSUME next[p][l] # None PROVE Before(e, entry[next[p][l]])
    OBVIOUS
  <2> DEFINE q == next[p][l]
  <2>1. q \in DOMAIN entry /\ ~Before(entry[q], e)
    BY <1>2, LinkFacts
  <2>2. entry[q][1] \in Int /\ entry[q][2] = q /\ q \in Nat /\ q < NextSeq /\ NextSeq \in Nat
    BY <2>1, NodeFacts DEF NodesNumbered
  <2>3. QED
    BY <2>1, <2>2 DEF Before
<1>4. QED
  BY <1>2, <1>3

\* A node that is about to be linked is in no level yet, and disturbs none.
LEMMA StartKeeps ==
  ASSUME ListInv, NEW w \in scenario.inserts, NEW h \in 1..MaxHeight, Insert(w[1], w[2], h)
  PROVE  ListInv'
<1> DEFINE x == NextSeq
           e == <<w[1], x, w[2]>>
<1>0. /\ NodesNumbered /\ InsertionPlaced
      /\ inserting = None /\ scenario' = scenario /\ lastSeq' = lastSeq
      /\ used' = [used EXCEPT !.writes = @ + 1] /\ used \in [calls : Nat, writes : Nat]
      /\ e[1] \in Int /\ e[2] = x
  BY ScenarioAssumption DEF ListInv, Insert, StartInsert, NodesNumbered, NextSeq
<1>1. NextSeq' = x + 1 /\ used' \in [calls : Nat, writes : Nat]
  <2>1. scenario.first \in Nat
    BY <1>0, ScenarioAssumption DEF NodesNumbered
  <2>2. used'.writes = used.writes + 1 /\ used'.calls = used.calls /\ used.writes \in Nat
    BY <1>0
  <2>3. QED
    BY <1>0, <2>1, <2>2 DEF NextSeq
<1>2. x \in Nat \ {0} /\ x \notin DOMAIN entry /\ x \notin DOMAIN next /\ x # HeadNode
  BY <1>0, NodeFacts DEF NodesNumbered, HeadNode
<1>3. /\ entry' = [n \in DOMAIN entry \cup {x} |-> IF n = x THEN e ELSE entry[n]]
      /\ next' = [n \in DOMAIN next \cup {x} |-> IF n = x THEN <<>> ELSE next[n]]
  BY DEF Insert, StartInsert, WithNode, NextSeq
<1>4. inserting' = [node |-> x, height |-> h, prev |-> [l \in 1..h |-> Predecessor(e, l)]]
  BY DEF Insert, StartInsert, NextSeq
<1>5. inserting' # None
  <2>1. \A l \in 1..h : Predecessor(e, l) \in Nat
    <3> SUFFICES ASSUME NEW l \in 1..h PROVE Predecessor(e, l) \in Nat
      OBVIOUS
    <3>1. l \in 1..MaxHeight
      BY HeightAssumption
    <3>2. Predecessor(e, l) \in Tower(l)
      BY <1>0, <3>1, PredecessorFound DEF ListInv
    <3>3. QED
      BY <1>0, <3>1, <3>2, LinkFacts, NodeFacts DEF HeadNode
  <2>2. [l \in 1..h |-> Predecessor(e, l)] \in Seq(Nat)
    BY <2>1, HeightAssumption
  <2>3. inserting' \in [node : Nat, height : Nat, prev : Seq(Nat)]
    <3>1. x \in Nat /\ h \in Nat
      BY <1>2, HeightAssumption
    <3> HIDE DEF x
    <3>2. QED
      BY <3>1, <1>4, <2>2
  <2>4. QED
    BY <2>3, NoNodeAssumption
<1>6. \A l \in 1..MaxHeight :
        /\ Tower(l)' = Tower(l)
        /\ \A n \in Tower(l) : n \in DOMAIN next /\ n # x
  <2>1. Len(<<>>) = 0
    OBVIOUS
  <2>2. QED
    BY <1>2, <1>3, <2>1 DEF Tower
<1>7. \A n \in DOMAIN entry : entry'[n] = entry[n]
  BY <1>2, <1>3
<1>8. \A n \in DOMAIN next : next'[n] = next[n]
  BY <1>2, <1>3
<1>9. NodesNumbered'
  <2>1. DOMAIN entry' = scenario.first .. x
    BY SMTT(60), <1>0, <1>2, <1>3, ScenarioAssumption DEF NodesNumbered, NextSeq
  <2>2. \A n \in DOMAIN entry' : entry'[n][1] \in Int /\ entry'[n][2] = n
    BY <1>0, <1>3 DEF NodesNumbered
  <2>3. \A n \in DOMAIN next' : next'[n] \in Seq({None} \cup DOMAIN entry')
    <3>1. \A n \in DOMAIN next : next[n] \in Seq({None} \cup DOMAIN entry')
      BY <1>0, <1>3, SMTT(30) DEF NodesNumbered
    <3>2. <<>> \in Seq({None} \cup DOMAIN entry')
      OBVIOUS
    <3>3. QED
      BY <1>3, <3>1, <3>2
  <2>4. DOMAIN next' = {HeadNode} \cup DOMAIN entry'
    BY <1>0, <1>3 DEF NodesNumbered
  <2>5. Len(next'[HeadNode]) = MaxHeight
    BY <1>0, <1>8 DEF NodesNumbered
  <2>6. lastSeq' \in 0 .. (NextSeq' - 1) /\ used' \in [calls : Nat, writes : Nat] /\ scenario' \in Scenarios
    BY <1>0, <1>1, <1>2 DEF NodesNumbered
  <2>7. DOMAIN entry' = scenario'.first .. (NextSeq' - 1)
    BY <2>1, <1>0, <1>1, <1>2
  <2>8. QED
    BY <2>2, <2>3, <2>4, <2>5, <2>6, <2>7 DEF NodesNumbered, HeadNode
<1>10. InsertionPlaced'
  <2>1. \A n \in DOMAIN entry' : n # x => Len(next'[n]) >= 1
    BY <1>0, <1>3, <1>8 DEF InsertionPlaced, NodesNumbered
  <2>2. /\ inserting'.node = NextSeq' - 1 /\ inserting'.node \in DOMAIN entry'
        /\ lastSeq' < inserting'.node
        /\ inserting'.height \in 1..MaxHeight
        /\ Len(next'[inserting'.node]) = 0
    BY <1>0, <1>1, <1>2, <1>3, <1>4 DEF NodesNumbered
  <2>3. ASSUME NEW l \in 1..h
        PROVE  LET before == inserting'.prev[l] IN
               /\ before \in Tower(l)'
               /\ before = HeadNode \/ Before(entry'[before], entry'[inserting'.node])
               /\ next'[before][l] = None
                    \/ Before(entry'[inserting'.node], entry'[next'[before][l]])
    <3> DEFINE p == Predecessor(e, l)
    <3>1. l \in 1..MaxHeight /\ inserting'.prev[l] = p /\ inserting'.node = x
      BY <1>4, HeightAssumption
    <3>2. /\ p \in Tower(l)
          /\ p = HeadNode \/ Before(entry[p], e)
          /\ next[p][l] = None \/ Before(e, entry[next[p][l]])
      BY <3>1, <1>0, PredecessorFound DEF ListInv
    <3>3. /\ p # HeadNode => p \in DOMAIN entry
          /\ p \in DOMAIN next
          /\ next[p][l] \in {None} \cup DOMAIN entry
      BY <3>1, <3>2, <1>0, LinkFacts DEF Tower
    <3>4. entry'[x] = e /\ next'[p] = next[p]
      BY <1>3, <3>3, <1>8
    <3>5. QED
      BY <3>1, <3>2, <3>3, <3>4, <1>6, <1>7
  <2>4. inserting'.node = x /\ inserting'.height = h
    BY <1>4
  <2>5. \A l \in (Len(next'[inserting'.node]) + 1) .. inserting'.height : l \in 1..h
    BY <2>2, <2>4
  <2>6. QED
    BY <2>1, <2>2, <2>3, <2>4, <2>5, <1>5 DEF InsertionPlaced, HeadNode
<1>11. ASSUME NEW l \in 1..MaxHeight
       PROVE  LevelLinked(l)'
  <2>1. \A n \in Tower(l) : next'[n] = next[n] /\ (n # HeadNode => entry'[n] = entry[n])
    BY <1>0, <1>6, <1>7, <1>8, LinkFacts
  <2>2. \A n \in Tower(l) : After(n, l)' = After(n, l) /\ After(n, l) \subseteq Tower(l) \ {HeadNode}
    BY <1>6, <2>1 DEF After, HeadNode
  <2>3. LevelLinked(l)
    BY DEF ListInv
  <2>4. QED
    BY <1>6, <2>1, <2>2, <2>3 DEF LevelLinked
<1>12. QED
  BY <1>9, <1>10, <1>11 DEF ListInv

\* The node of an insertion under way joins one level, between the two it belongs between.
LEMMA LinkKeeps ==
  ASSUME ListInv, Link
  PROVE  ListInv'
<1> PICK x : x = inserting.node
  OBVIOUS
<1> PICK l : l = Len(next[x]) + 1
  OBVIOUS
<1> PICK p : p = inserting.prev[l]
  OBVIOUS
<1> PICK q : q = next[p][l]
  OBVIOUS
<1>0. /\ NodesNumbered /\ InsertionPlaced
      /\ inserting # None /\ inserting' = inserting /\ entry' = entry /\ lastSeq' = lastSeq
      /\ scenario' = scenario /\ used' = used /\ Len(next[x]) < inserting.height
  BY DEF ListInv, Link, LinkLevel
<1>1. /\ x \in DOMAIN entry /\ x \in DOMAIN next /\ x # HeadNode
      /\ next[x] \in Seq({None} \cup DOMAIN entry) /\ Len(next[x]) \in Nat
      /\ l \in 1..MaxHeight /\ l \in 1..inserting.height
      /\ inserting.height \in 1..MaxHeight
  <2>1. x \in DOMAIN entry /\ inserting.height \in 1..MaxHeight
    BY <1>0 DEF InsertionPlaced
  <2>2. x \in DOMAIN next /\ next[x] \in Seq({None} \cup DOMAIN entry) /\ x # HeadNode
    BY <1>0, <2>1, NodeFacts DEF NodesNumbered
  <2>3. Len(next[x]) \in Nat
    BY <2>2
  <2>4. QED
    BY <1>0, <2>1, <2>2, <2>3, HeightAssumption
<1>2. /\ p \in Tower(l)
      /\ p = HeadNode \/ Before(entry[p], entry[x])
      /\ q = None \/ Before(entry[x], entry[q])
  BY <1>0, <1>1 DEF InsertionPlaced
<1>3. x \notin Tower(l) /\ p # x
  BY <1>1, <1>2 DEF Tower
<1>4. next' = [next EXCEPT ![x] = Append(@, q), ![p] = [@ EXCEPT ![l] = x]]
  BY DEF Link, LinkLevel
<1>5. /\ p \in DOMAIN next /\ next[p] \in Seq({None} \cup DOMAIN entry) /\ l \in 1..Len(next[p])
      /\ q \in {None} \cup DOMAIN entry
  <2>1. p \in DOMAIN next /\ Len(next[p]) >= l
    BY <1>2 DEF Tower
  <2>2. next[p] \in Seq({None} \cup DOMAIN entry)
    BY <1>0, <2>1 DEF NodesNumbered
  <2>3. Len(next[p]) \in Nat
    BY <2>2
  <2>4. q \in {None} \cup DOMAIN entry
    BY <1>0, <1>1, <1>2, LinkFacts
  <2>5. QED
    BY <1>1, <2>1, <2>2, <2>3, <2>4
<1>6. /\ DOMAIN next' = DOMAIN next
      /\ next'[x] = Append(next[x], q)
      /\ next'[p] = [next[p] EXCEPT ![l] = x]
      /\ \A n \in DOMAIN next \ {x, p} : next'[n] = next[n]
  BY <1>1, <1>3, <1>4, <1>5
<1>7. /\ next'[x] \in Seq({None} \cup DOMAIN entry) /\ Len(next'[x]) = l
      /\ next'[x][l] = q
  BY <1>1, <1>5, <1>6
<1>8. /\ next'[p] \in Seq({None} \cup DOMAIN entry) /\ Len(next'[p]) = Len(next[p])
      /\ next'[p][l] = x
      /\ \A m \in 1..Len(next[p]) : m # l => next'[p][m] = next[p][m]
  <2>1. x \in {None} \cup DOMAIN entry
    BY <1>1
  <2> DEFINE with == [next[p] EXCEPT ![l] = x]
  <2>2. /\ with \in Seq({None} \cup DOMAIN entry) /\ Len(with) = Len(next[p])
        /\ \A m \in 1..Len(next[p]) : with[m] = IF m = l THEN x ELSE next[p][m]
    BY <1>5, <2>1, ExceptSeq
  <2>3. next'[p] = with
    BY <1>6
  <2> HIDE DEF with
  <2>4. QED
    BY <1>5, <2>2, <2>3
<1>9. \A m \in 1..MaxHeight : \A n \in DOMAIN next :
        n # x => (n \in Tower(m)' <=> n \in Tower(m))
  BY <1>6, <1>8 DEF Tower
<1>10. \A m \in 1..MaxHeight : x \in Tower(m)' <=> x \in Tower(m) \/ m = l
  BY SMTT(60), <1>1, <1>6, <1>7 DEF Tower
<1>11. NodesNumbered'
  <2>1. \A n \in DOMAIN next' : next'[n] \in Seq({None} \cup DOMAIN entry)
    BY <1>0, <1>6, <1>7, <1>8 DEF NodesNumbered
  <2>2. Len(next'[HeadNode]) = MaxHeight
    BY <1>0, <1>1, <1>6, <1>8 DEF NodesNumbered
  <2>3. QED
    BY <1>0, <1>6, <2>1, <2>2 DEF NodesNumbered, NextSeq, HeadNode
<1>12. InsertionPlaced'
  <2>1. \A n \in DOMAIN entry : x # n => Len(next'[n]) >= 1
    BY <1>0, <1>6, <1>8 DEF InsertionPlaced, NodesNumbered
  <2>2. /\ x = NextSeq' - 1 /\ lastSeq' < x /\ Len(next'[x]) <= inserting.height
    BY <1>0, <1>1, <1>7 DEF InsertionPlaced, NextSeq
  <2>3. ASSUME NEW m \in (l + 1) .. inserting.height
        PROVE  LET before == inserting.prev[m] IN
               /\ before \in Tower(m)'
               /\ before = HeadNode \/ Before(entry[before], entry[x])
               /\ next'[before][m] = None \/ Before(entry[x], entry[next'[before][m]])
    <3> DEFINE b == inserting.prev[m]
    <3>1. m \in 1..MaxHeight /\ m # l /\ m \in l .. inserting.height
      <4>1. l \in Nat /\ l >= 1 /\ inserting.height \in Nat /\ inserting.height <= MaxHeight
        BY <1>1, HeightAssumption
      <4>2. QED
        BY <4>1, HeightAssumption
    <3>2. /\ b \in Tower(m)
          /\ b = HeadNode \/ Before(entry[b], entry[x])
          /\ next[b][m] = None \/ Before(entry[x], entry[next[b][m]])
      BY <1>0, <3>1 DEF InsertionPlaced
    <3>3. b \in DOMAIN next /\ b # x
      BY <1>1, <3>1, <3>2 DEF Tower
    <3>4. next'[b][m] = next[b][m]
      <4>1. b = p => m \in 1..Len(next[p])
        BY <1>5, <3>1, <3>2 DEF Tower
      <4>2. QED
        BY ZenonT(60), <4>1, <1>6, <1>8, <3>1, <3>3
    <3>5. QED
      BY <1>9, <3>1, <3>2, <3>3, <3>4
  <2>4. QED
    BY <1>0, <1>1, <1>7, <2>1, <2>2, <2>3 DEF InsertionPlaced, HeadNode
<1>13. ASSUME NEW m \in 1..MaxHeight, m # l
       PROVE  LevelLinked(m)'
  <2>1. \A n \in Tower(m) : next'[n][m] = next[n][m]
    <3>1. x \in Tower(m) => next'[x][m] = next[x][m]
      <4>1. x \in Tower(m) => m \in 1..Len(next[x])
        BY DEF Tower
      <4>2. QED
        BY <4>1, <1>1, <1>5, <1>6
    <3>2. p \in Tower(m) => next'[p][m] = next[p][m]
      <4>1. p \in Tower(m) => m \in 1..Len(next[p])
        BY <1>5 DEF Tower
      <4>2. QED
        BY <4>1, <1>8, <1>13
    <3>3. QED
      BY <3>1, <3>2, <1>6 DEF Tower
  <2>2. Tower(m)' = Tower(m)
    <3>1. Tower(m)' \subseteq DOMAIN next /\ Tower(m) \subseteq DOMAIN next
      BY <1>6 DEF Tower
    <3>2. \A n \in DOMAIN next : n \in Tower(m)' <=> n \in Tower(m)
      BY <1>9, <1>10, <1>13
    <3>3. QED
      BY <3>1, <3>2
  <2>3. \A n \in Tower(m) : After(n, m)' = After(n, m)
    BY <2>2, <1>0 DEF After, HeadNode
  <2>4. LevelLinked(m)
    BY DEF ListInv
  <2>5. QED
    BY <2>1, <2>2, <2>3, <2>4, <1>0 DEF LevelLinked
<1>14. LevelLinked(l)'
  <2>1. Tower(l)' = Tower(l) \cup {x}
    <3>1. Tower(l)' \subseteq DOMAIN next /\ Tower(l) \subseteq DOMAIN next
      BY <1>6 DEF Tower
    <3>2. QED
      BY <3>1, <1>1, <1>9, <1>10
  <2>2. \A n \in Tower(l)' :
          After(n, l)' = {m \in (Tower(l) \cup {x}) \ {HeadNode} :
                            n = HeadNode \/ Before(entry[n], entry[m])}
    BY <2>1, <1>0 DEF After, HeadNode
  <2>3. LevelLinked(l)
    BY <1>1 DEF ListInv
  <2>4. /\ \A n \in Tower(l) : n # HeadNode => n \in DOMAIN entry
        /\ HeadNode \notin DOMAIN entry
    BY <1>0, <1>1, LinkFacts, NodeFacts
  <2>5. SUFFICES ASSUME NEW n \in Tower(l)'
                 PROVE  \/ next'[n][l] = None /\ After(n, l)' = {}
                        \/ /\ next'[n][l] \in After(n, l)'
                           /\ \A m \in After(n, l)' \ {next'[n][l]} :
                                Before(entry[next'[n][l]], entry[m])
    BY <1>0 DEF LevelLinked
  <2>6. CASE n = p
    <3>1. next'[n][l] = x /\ x \in After(n, l)'
      BY <2>6, <1>8, <1>2, <2>2, <1>1
    <3>2. ASSUME NEW m \in After(n, l)', m # x
          PROVE  Before(entry[x], entry[m])
      <4>1. m \in After(p, l)
        BY <3>2, <2>6, <2>2 DEF After
      <4>2. q \in After(p, l) /\ (m # q => Before(entry[q], entry[m]))
        BY <4>1, <2>3, <1>2 DEF LevelLinked
      <4>3. m \in DOMAIN entry /\ q \in DOMAIN entry
        BY <4>1, <4>2, <2>4 DEF After
      <4>4. Before(entry[x], entry[q])
        BY <1>2, <4>3, <1>0, NodeFacts
      <4>5. QED
        BY <4>2, <4>3, <4>4, <1>0, <1>1, BeforeOrders
    <3>3. QED
      BY <3>1, <3>2
  <2>7. CASE n = x
    <3>1. next'[n][l] = q /\ n # HeadNode
      BY <2>7, <1>7, <1>1
    <3>2. ASSUME NEW m \in After(n, l)'
          PROVE  m \in After(p, l) /\ Before(entry[x], entry[m]) /\ m \in DOMAIN entry
      <4>1. m \in (Tower(l) \cup {x}) \ {HeadNode} /\ Before(entry[x], entry[m])
        BY <3>1, <3>2, <2>2, <2>7
      <4>2. m # x
        BY <4>1, <1>0, <1>1, BeforeOrders
      <4>3. m \in DOMAIN entry
        BY <4>1, <4>2, <2>4
      <4>4. p = HeadNode \/ Before(entry[p], entry[m])
        BY <4>1, <4>3, <1>0, <1>1, <1>2, <2>4, BeforeOrders
      <4>5. QED
        BY <4>1, <4>2, <4>3, <4>4 DEF After
    <3>3. CASE q = None
      BY ZenonT(60), <3>1, <3>2, <3>3, <2>3, <1>0, <1>2, <2>4, NodeFacts DEF LevelLinked, After
    <3>4. CASE q # None
      <4>1. q \in After(p, l) /\ \A m \in After(p, l) \ {q} : Before(entry[q], entry[m])
        BY <3>4, <2>3, <1>2 DEF LevelLinked
      <4>2. q \in After(n, l)'
        BY ZenonT(60), <3>4, <4>1, <1>2, <2>2, <2>7 DEF After
      <4>3. QED
        BY <3>1, <3>2, <4>1, <4>2
    <3>5. QED
      BY <3>3, <3>4
  <2>8. CASE n # p /\ n # x
    <3> DEFINE r == next[n][l]
    <3>1. n \in Tower(l) /\ next'[n][l] = r
      BY <2>8, <2>1, <1>6 DEF Tower
    <3>2. \A m \in After(n, l)' : m = x \/ m \in After(n, l)
      BY <2>2 DEF After
    <3>3. ASSUME x \in After(n, l)'
          PROVE  p \in After(n, l)
      <4>1. n = HeadNode \/ (n \in DOMAIN entry /\ Before(entry[n], entry[x]))
        BY <3>1, <3>3, <2>2, <2>4
      <4>2. n \notin After(p, l)
        <5> SUFFICES ASSUME n \in After(p, l) PROVE FALSE
          OBVIOUS
        <5>1. q \in After(p, l) /\ (n # q => Before(entry[q], entry[n])) /\ n # HeadNode
          BY <2>3, <1>2 DEF LevelLinked, After
        <5>2. q \in DOMAIN entry /\ n \in DOMAIN entry
          BY <5>1, <2>4, <3>1 DEF After
        <5>3. Before(entry[x], entry[q])
          BY <5>2, <1>2, <1>0, NodeFacts
        <5>4. Before(entry[x], entry[n])
          BY <5>1, <5>2, <5>3, <1>0, <1>1, BeforeOrders
        <5>5. QED
          BY <4>1, <5>1, <5>2, <5>4, <1>0, <1>1, BeforeOrders
      <4>3. CASE n = HeadNode
        BY <4>3, <2>8, <1>2 DEF After
      <4>4. CASE n # HeadNode
        <5>1. p # HeadNode
          BY <4>2, <4>4, <3>1 DEF After
        <5>2. ~Before(entry[p], entry[n])
          BY <4>2, <4>4, <3>1 DEF After
        <5>3. Before(entry[n], entry[p])
          BY <5>1, <5>2, <4>4, <2>4, <2>8, <3>1, <1>0, <1>2, BeforeOrders
        <5>4. QED
          BY <5>1, <5>3, <1>2 DEF After
      <4>5. QED
        BY <4>3, <4>4
    <3>4. CASE r = None
      <4>1. After(n, l) = {}
        BY <3>1, <3>4, <2>3, <2>4, <1>0, NodeFacts DEF LevelLinked, After
      <4>2. After(n, l)' = {}
        BY <4>1, <3>2, <3>3
      <4>3. QED
        BY <4>2, <3>1, <3>4
    <3>5. CASE r # None
      <4>1. r \in After(n, l) /\ \A m \in After(n, l) \ {r} : Before(entry[r], entry[m])
        BY <3>1, <3>5, <2>3 DEF LevelLinked
      <4>2. r \in After(n, l)'
        BY <4>1, <2>2 DEF After
      <4>3. x \in After(n, l)' => Before(entry[r], entry[x])
        <5> SUFFICES ASSUME x \in After(n, l)' PROVE Before(entry[r], entry[x])
          OBVIOUS
        <5>1. p \in After(n, l) /\ p # HeadNode
          BY <3>3 DEF After
        <5>2. p \in DOMAIN entry /\ r \in DOMAIN entry
          BY <5>1, <4>1, <1>2, <2>4 DEF After
        <5>3. Before(entry[p], entry[x]) /\ (r = p \/ Before(entry[r], entry[p]))
          BY <5>1, <4>1, <1>2
        <5>4. QED
          BY <5>2, <5>3, <1>0, <1>1, BeforeOrders
      <4>4. QED
        BY <4>1, <4>2, <4>3, <3>1, <3>2
    <3>6. QED
      BY <3>4, <3>5
  <2>9. QED
    BY <2>6, <2>7, <2>8
<1>15. QED
  BY <1>11, <1>12, <1>13, <1>14 DEF ListInv

\* The last insertion is counted on once it is linked at all its levels.
LEMMA PublishKeeps ==
  ASSUME ListInv, Publish
  PROVE  ListInv'
<1>0. /\ NodesNumbered /\ InsertionPlaced
      /\ inserting # None /\ inserting' = None /\ entry' = entry /\ next' = next
      /\ lastSeq' = inserting.node /\ scenario' = scenario /\ used' = used
      /\ Len(next[inserting.node]) = inserting.height
  BY DEF ListInv, Publish, SetLastSequence
<1>1. /\ inserting.node = NextSeq - 1 /\ inserting.node \in DOMAIN entry
      /\ inserting.height >= 1
  BY <1>0, HeightAssumption DEF InsertionPlaced
<1>2. inserting.node \in 0 .. (NextSeq - 1)
  BY <1>0, <1>1, NodeFacts
<1>3. NodesNumbered'
  BY <1>0, <1>2 DEF NodesNumbered, NextSeq, HeadNode
<1>4. InsertionPlaced'
  BY <1>0, <1>1 DEF InsertionPlaced
<1>5. ASSUME NEW l \in 1..MaxHeight
      PROVE  LevelLinked(l)'
  BY <1>0 DEF ListInv, LevelLinked, After, Tower, HeadNode
<1>6. QED
  BY <1>3, <1>4, <1>5 DEF ListInv

\* A reader's step, or its user's, changes nothing of the list.
LEMMA ReaderKeeps ==
  ASSUME ListInv, Reading \/ User \/ UNCHANGED vars
  PROVE  ListInv'
<1>1. /\ entry' = entry /\ next' = next /\ inserting' = inserting /\ lastSeq' = lastSeq
      /\ scenario' = scenario
  <2>1. CASE Reading
    <3>1. CASE MemMove \/ Load
      BY <3>1 DEF MemMove, Load, StartSearch, LoadLink
    <3>2. CASE EndMerge \/ NextFound \/ SkipNext \/ TurnFound \/ TurnOn \/ PrevFound \/ SkipPrev
      BY <3>2 DEF EndMerge, NextFound, SkipNext, TurnFound, TurnOn, PrevFound, SkipPrev,
                  Looking, listVars
    <3>3. QED
      BY <2>1, <3>1, <3>2 DEF Reading
  <2>2. CASE User
    BY <2>2 DEF User, SeekToFirst, SeekToLast, CallNext, CallPrev, Seek, NewIterator, Called,
                listVars
  <2>3. QED
    BY <2>1, <2>2 DEF vars, listVars
<1>2. used' \in [calls : Nat, writes : Nat] /\ used'.writes = used.writes
  <2>0. used \in [calls : Nat, writes : Nat]
    BY DEF ListInv, NodesNumbered
  <2>1. used' = used \/ used' = [used EXCEPT !.calls = @ + 1]
    BY DEF Reading, MemMove, Load, EndMerge, NextFound, SkipNext, TurnFound, TurnOn, PrevFound,
           SkipPrev, Looking, User, SeekToFirst, SeekToLast, CallNext, CallPrev, Seek,
           NewIterator, Called, vars
  <2>2. QED
    BY <2>0, <2>1
<1>3. NextSeq' = NextSeq
  BY <1>1, <1>2 DEF NextSeq
<1>4. NodesNumbered'
  BY <1>1, <1>2, <1>3 DEF ListInv, NodesNumbered, HeadNode
<1>5. \A l : Tower(l)' = Tower(l)
  BY <1>1 DEF Tower
<1>6. InsertionPlaced'
  BY <1>1, <1>3, <1>5 DEF ListInv, InsertionPlaced, HeadNode
<1>7. ASSUME NEW l \in 1..MaxHeight
      PROVE  LevelLinked(l)'
  BY <1>1, <1>5 DEF ListInv, LevelLinked, After, HeadNode
<1>8. QED
  BY <1>4, <1>6, <1>7 DEF ListInv

\* The empty list.
LEMMA EmptyList ==
  ASSUME Init
  PROVE  ListInv
<1>1. /\ scenario \in Scenarios /\ used = [calls |-> 0, writes |-> 0] /\ inserting = None
      /\ entry = <<>> /\ lastSeq = 0
      /\ next = [n \in {HeadNode} |-> [l \in 1..MaxHeight |-> None]]
  BY DEF Init, ListInit
<1>2. DOMAIN entry = {} /\ NextSeq = scenario.first /\ scenario.first \in Nat \ {0}
  BY <1>1, ScenarioAssumption DEF NextSeq
<1>3. /\ next[HeadNode] \in Seq({None} \cup DOMAIN entry)
      /\ Len(next[HeadNode]) = MaxHeight
      /\ \A l \in 1..MaxHeight : next[HeadNode][l] = None
  BY <1>1, HeightAssumption
<1>4. NodesNumbered
  <2>1. DOMAIN entry = scenario.first .. (NextSeq - 1) /\ lastSeq \in 0 .. (NextSeq - 1)
    BY <1>1, <1>2
  <2>2. DOMAIN next = {HeadNode} \cup DOMAIN entry
    BY <1>1, <1>2
  <2>3. used \in [calls : Nat, writes : Nat]
    BY <1>1
  <2>4. \A n \in DOMAIN next : next[n] \in Seq({None} \cup DOMAIN entry)
    BY <1>2, <1>3, <2>2
  <2>5. QED
    BY <1>1, <1>2, <1>3, <2>1, <2>2, <2>3, <2>4 DEF NodesNumbered
<1>5. InsertionPlaced
  BY <1>1, <1>2 DEF InsertionPlaced
<1>6. ASSUME NEW l \in 1..MaxHeight
      PROVE  LevelLinked(l)
  BY <1>1, <1>3 DEF LevelLinked, After, Tower
<1>7. QED
  BY <1>4, <1>5, <1>6 DEF ListInv

-----------------------------------------------------------------------------
(* The theorems *)

\* Between any two steps of a reader and the writer (skiplist.h), the list is as ListInv
\* describes it.
THEOREM ListInvariant == Spec => []ListInv
<1>1. ListInv /\ [Next]_vars => ListInv'
  <2> SUFFICES ASSUME ListInv, [Next]_vars PROVE ListInv'
    OBVIOUS
  <2>1. ASSUME NEW w \in scenario.inserts, NEW h \in 1..MaxHeight, Insert(w[1], w[2], h)
        PROVE  ListInv'
    BY <2>1, StartKeeps
  <2>2. CASE Link
    BY <2>2, LinkKeeps
  <2>3. CASE Publish
    BY <2>3, PublishKeeps
  <2>4. CASE Reading \/ User \/ UNCHANGED vars
    BY <2>4, ReaderKeeps
  <2>5. QED
    BY <2>1, <2>2, <2>3, <2>4 DEF Next, Writer
<1>2. QED
  BY EmptyList, <1>1, PTL DEF Spec

\* Each link of each level of the memtable leads to the next node of the level, while nodes
\* are half inserted too, and every write a new iterator counts on is at the lowest level
\* (skiplist.h Insert: the links are set from the lowest level up, each after the node's own).
THEOREM ListLinked == Spec => []LevelsLinked
<1>1. ListInv => LevelsLinked
  <2> SUFFICES ASSUME ListInv PROVE LevelsLinked
    OBVIOUS
  <2>1. ASSUME NEW n \in DOMAIN entry, n <= lastSeq
        PROVE  n \in Tower(1)
    <3>1. n \in Int /\ lastSeq \in Int /\ n \in DOMAIN next
      BY NodeFacts DEF ListInv, NodesNumbered
    <3>2. inserting = None \/ inserting.node # n
      <4>1. inserting # None => lastSeq < inserting.node /\ inserting.node \in DOMAIN entry
        BY DEF ListInv, InsertionPlaced
      <4>2. QED
        BY <4>1, <3>1, <2>1
    <3>3. QED
      BY <3>1, <3>2 DEF ListInv, InsertionPlaced, Tower
  <2>2. QED
    BY <2>1 DEF ListInv, LevelLinked, LevelsLinked
<1>2. QED
  BY ListInvariant, <1>1, PTL
=============================================================================
