-------------------------- MODULE CompactionProofs --------------------------
(***************************************************************************)
(* The types of Compaction, the tables it keeps, the order of its levels   *)
(* and what reads find, for every number of levels, keys, writes,          *)
(* snapshots, iterators and manual compactions.                            *)
(***************************************************************************)
EXTENDS Compaction, TLAPS, WellFoundedInduction, SequenceTheorems, FiniteSetTheorems

-----------------------------------------------------------------------------
(* Sequences of files *)

\* Every non-empty set of numbers has a least one.
LEMMA LeastNumber ==
  ASSUME NEW T \in SUBSET Nat, T # {}
  PROVE  \E n \in T : \A m \in T : n <= m
<1> DEFINE R == {p \in Nat \X Nat : p[1] < p[2]}
<1>1. IsWellFoundedOn(R, Nat)
  <2>1. OpToRel(<, Nat) = R
    BY DEF OpToRel
  <2>2. QED
    BY <2>1, NatLessThanWellFounded
<1>2. PICK n \in T : \A m \in T : ~(<<m, n>> \in R)
  <2> HIDE DEF R
  <2> QED
    BY <1>1, WFMin
<1>3. \A m \in T : ~(m < n)
  BY <1>2
<1>4. \A m \in T : n <= m
  BY <1>3
<1>5. QED
  BY <1>4

\* Induction, over the set of the numbers that have a property.
LEMMA SetInduction ==
  ASSUME NEW T, 0 \in T, \A n \in Nat : n \in T => n + 1 \in T
  PROVE  Nat \subseteq T
<1>1. SUFFICES ASSUME Nat \ T # {} PROVE FALSE
  OBVIOUS
<1>2. PICK n \in Nat \ T : \A m \in Nat \ T : n <= m
  BY <1>1, LeastNumber
<1>3. n # 0 /\ n - 1 \in Nat /\ n - 1 < n
  BY <1>2
<1>4. n - 1 \in T
  BY <1>2, <1>3
<1>5. QED
  BY <1>2, <1>3, <1>4

\* FilesIn's recursive function exists.
LEMMA FilesInExists ==
  ASSUME NEW files, NEW S, Len(files) \in Nat
  PROVE  \E f : f = [i \in 0..Len(files) |->
                       IF i = 0 THEN <<>>
                       ELSE IF files[i] \in S THEN Append(f[i - 1], files[i]) ELSE f[i - 1]]
<1> DEFINE Is(f, n) == f = [i \in 0..n |->
                              IF i = 0 THEN <<>>
                              ELSE IF files[i] \in S THEN Append(f[i - 1], files[i])
                              ELSE f[i - 1]]
           T == {n \in Nat : \E f : Is(f, n)}
<1>1. 0 \in T
  <2>1. Is([i \in 0..0 |-> <<>>], 0)
    OBVIOUS
  <2>2. QED
    BY <2>1
<1>2. ASSUME NEW n \in Nat, n \in T
      PROVE  n + 1 \in T
  <2>1. PICK f : Is(f, n)
    BY <1>2
  <2> DEFINE Val(i, h) == IF i = 0 THEN <<>>
                          ELSE IF files[i] \in S THEN Append(h[i - 1], files[i]) ELSE h[i - 1]
             g == [i \in 0..n + 1 |-> IF i \in 0..n THEN f[i] ELSE Val(i, f)]
  <2>2. \A i \in 0..n + 1 : g[i] = Val(i, g)
    <3> SUFFICES ASSUME NEW i \in 0..n + 1
                 PROVE  g[i] = Val(i, g)
      OBVIOUS
    <3>1. i # 0 => i - 1 \in 0..n /\ g[i - 1] = f[i - 1]
      OBVIOUS
    <3>2. i \in 0..n => f[i] = Val(i, f)
      BY <2>1
    <3>3. g[i] = Val(i, f)
      BY <3>2
    <3>4. QED
      BY <3>1, <3>3
  <2>3. \E h : Is(h, n + 1)
    <3>1. Is(g, n + 1)
      BY <2>2
    <3>2. QED
      BY <3>1
  <2> HIDE DEF Is
  <2>4. QED
    BY <2>3
<1>3. Nat \subseteq T
  <2> HIDE DEF T
  <2> QED
    BY <1>1, <1>2, SetInduction
<1>4. QED
  BY <1>3

\* In the order of R, each before all that follow.
Ascending(s, R) == \A i, j \in DOMAIN s : i < j => <<s[i], s[j]>> \in R

\* Filtering a sequence keeps just the files of a set, and their order.
LEMMA FilesInFacts ==
  ASSUME NEW F, NEW files \in Seq(F), NEW S
  PROVE  /\ FilesIn(files, S) \in Seq(F)
         /\ Range(FilesIn(files, S)) = Range(files) \cap S
         /\ \A R : Ascending(files, R) => Ascending(FilesIn(files, S), R)
<1> DEFINE Unfolded(f) == [i \in 0..Len(files) |->
                              IF i = 0 THEN <<>>
                              ELSE IF files[i] \in S THEN Append(f[i - 1], files[i])
                              ELSE f[i - 1]]
           g == CHOOSE f : f = Unfolded(f)
           First(k) == {files[i] : i \in 1..k} \cap S
           T == {k \in Nat : k <= Len(files) =>
                   /\ g[k] \in Seq(F)
                   /\ Range(g[k]) = First(k)
                   /\ \A R : Ascending(files, R) => Ascending(g[k], R)}
<1>0. Len(files) \in Nat /\ files \in [1..Len(files) -> F] /\ DOMAIN files = 1..Len(files)
  OBVIOUS
<1>1. FilesIn(files, S) = g[Len(files)]
  BY DEF FilesIn
<1>7. g = Unfolded(g)
  <2>1. \E f : f = Unfolded(f)
    <3>1. Len(files) \in Nat
      BY <1>0
    <3>2. QED
      BY ZenonT(60), <3>1, FilesInExists
  <2> HIDE DEF Unfolded
  <2>2. QED
    BY <2>1
<1> HIDE DEF g
<1>8. \A i \in 0..Len(files) :
        g[i] = IF i = 0 THEN <<>>
               ELSE IF files[i] \in S THEN Append(g[i - 1], files[i]) ELSE g[i - 1]
  <2>1. g = [i \in 0..Len(files) |->
               IF i = 0 THEN <<>>
               ELSE IF files[i] \in S THEN Append(g[i - 1], files[i]) ELSE g[i - 1]]
    BY <1>7
  <2>2. QED
    BY <2>1
<1> HIDE DEF Unfolded
<1>2. 0 \in T
  <2>1. g[0] = <<>>
    BY <1>0, <1>8
  <2>2. <<>> \in Seq(F) /\ Range(<<>>) = {} /\ First(0) = {} /\ \A R : Ascending(<<>>, R)
    BY DEF Range, Ascending
  <2>3. QED
    BY <2>1, <2>2
<1>3. ASSUME NEW k \in Nat, k \in T
      PROVE  k + 1 \in T
  <2> SUFFICES ASSUME k + 1 <= Len(files)
               PROVE  /\ g[k + 1] \in Seq(F)
                      /\ Range(g[k + 1]) = First(k + 1)
                      /\ \A R : Ascending(files, R) => Ascending(g[k + 1], R)
    OBVIOUS
  <2>1. /\ g[k] \in Seq(F) /\ Range(g[k]) = First(k)
        /\ \A R : Ascending(files, R) => Ascending(g[k], R)
    BY <1>0, <1>3
  <2>2. g[k + 1] = IF files[k + 1] \in S THEN Append(g[k], files[k + 1]) ELSE g[k]
    BY <1>0, <1>8
  <2>3. {files[i] : i \in 1..k + 1} = {files[i] : i \in 1..k} \cup {files[k + 1]}
    BY <1>0
  <2>4. CASE files[k + 1] \notin S
    <3>1. g[k + 1] = g[k] /\ First(k + 1) = First(k)
      BY <2>2, <2>3, <2>4
    <3>2. QED
      BY <2>1, <3>1
  <2>5. CASE files[k + 1] \in S
    <3> DEFINE s == g[k]
               f == files[k + 1]
    <3>1. g[k + 1] = Append(s, f) /\ f \in F /\ s \in Seq(F)
      BY <1>0, <2>1, <2>2, <2>5
    <3>2. First(k + 1) = First(k) \cup {f}
      BY <2>3, <2>5
    <3> HIDE DEF s, f
    <3>3. /\ Append(s, f) \in Seq(F) /\ DOMAIN Append(s, f) = 1..(Len(s) + 1)
          /\ DOMAIN s = 1..Len(s) /\ Len(s) \in Nat
          /\ \A i \in 1..Len(s) : Append(s, f)[i] = s[i]
          /\ Append(s, f)[Len(s) + 1] = f
      BY <3>1
    <3>4. Range(Append(s, f)) = Range(s) \cup {f}
      <4>1. \A i \in 1..(Len(s) + 1) : i \in 1..Len(s) \/ i = Len(s) + 1
        BY <3>3
      <4>2. QED
        BY <3>3, <4>1 DEF Range
    <3>5. ASSUME NEW R, Ascending(files, R)
          PROVE  Ascending(Append(s, f), R)
      <4>1. Ascending(s, R)
        BY <2>1, <3>5 DEF s
      <4>2. \A i \in 1..Len(s) : <<s[i], f>> \in R
        <5> SUFFICES ASSUME NEW i \in 1..Len(s) PROVE <<s[i], f>> \in R
          OBVIOUS
        <5>1. s[i] \in First(k)
          BY <2>1, <3>3 DEF s, Range
        <5>2. PICK j \in 1..k : s[i] = files[j]
          BY <5>1
        <5>3. j < k + 1 /\ j \in DOMAIN files /\ k + 1 \in DOMAIN files
          BY <1>0
        <5>4. QED
          BY <5>2, <5>3, <3>5 DEF Ascending, f
      <4>3. QED
        BY <3>3, <4>1, <4>2 DEF Ascending
    <3>6. Range(s) = First(k)
      BY <2>1 DEF s
    <3>7. QED
      BY <3>1, <3>2, <3>3, <3>4, <3>5, <3>6
  <2>6. QED
    BY <2>4, <2>5
<1>4. Len(files) \in T
  <2>1. Nat \subseteq T
    <3> HIDE DEF T
    <3> QED
      BY <1>2, <1>3, SetInduction
  <2>2. QED
    BY <1>0, <2>1
<1>5. First(Len(files)) = Range(files) \cap S
  BY <1>0 DEF Range
<1>6. QED
  BY <1>0, <1>1, <1>4, <1>5

-----------------------------------------------------------------------------
(* The edit of a version *)

\* One new file is put into its level.
WithFile(w, a) == [w EXCEPT ![a[1]] = Placed(w[a[1]], a[2])]

\* What is left of a version without the files it loses.
Without(v, deleted) ==
  [l \in Levels |-> FilesIn(v[l], {f \in Range(v[l]) : <<l, f.number>> \notin deleted})]

\* The version with a set of the new files, if f gives those with fewer of them.
Edits(base, added, f) ==
  [s \in SUBSET (DOMAIN added) |->
     IF s = {} THEN base
     ELSE WithFile(f[s \ {CHOOSE x \in s : TRUE}], added[CHOOSE x \in s : TRUE])]

\* FoldSeq's recursive function exists.
LEMMA EditsExist ==
  ASSUME NEW base, NEW added, IsFiniteSet(DOMAIN added)
  PROVE  \E f : f = Edits(base, added, f)
<1> DEFINE D == DOMAIN added
           Small(n) == {s \in SUBSET D : Cardinality(s) <= n}
           Pick(s) == CHOOSE x \in s : TRUE
           Val(s, h) == IF s = {} THEN base ELSE WithFile(h[s \ {Pick(s)}], added[Pick(s)])
           Is(f, n) == f = [s \in Small(n) |-> Val(s, f)]
           T == {n \in Nat : \E f : Is(f, n)}
<1>0. \A s \in SUBSET D :
        /\ IsFiniteSet(s) /\ Cardinality(s) \in Nat
        /\ s = {} <=> Cardinality(s) = 0
        /\ s # {} => /\ Pick(s) \in s /\ s \ {Pick(s)} \in SUBSET D
                     /\ Cardinality(s \ {Pick(s)}) = Cardinality(s) - 1
  <2> SUFFICES ASSUME NEW s \in SUBSET D
               PROVE  /\ IsFiniteSet(s) /\ Cardinality(s) \in Nat
                      /\ s = {} <=> Cardinality(s) = 0
                      /\ s # {} => /\ Pick(s) \in s /\ s \ {Pick(s)} \in SUBSET D
                                   /\ Cardinality(s \ {Pick(s)}) = Cardinality(s) - 1
    OBVIOUS
  <2>1. IsFiniteSet(s)
    BY FS_Subset
  <2>2. Cardinality(s) \in Nat /\ (Cardinality(s) = 0 <=> s = {})
    BY <2>1, FS_CardinalityType, FS_EmptySet
  <2>3. s # {} => Pick(s) \in s
    OBVIOUS
  <2>4. s # {} => Cardinality(s \ {Pick(s)}) = Cardinality(s) - 1
    BY <2>1, <2>3, FS_RemoveElement
  <2>5. QED
    BY <2>1, <2>2, <2>3, <2>4
<1> HIDE DEF Pick
<1>1. 0 \in T
  <2>1. ASSUME NEW s \in Small(0) PROVE s = {}
    <3>1. s \in SUBSET D /\ Cardinality(s) <= 0
      OBVIOUS
    <3>2. Cardinality(s) \in Nat /\ (s = {} <=> Cardinality(s) = 0)
      BY <3>1, <1>0, Zenon
    <3>3. QED
      BY <3>1, <3>2
  <2>2. Is([s \in Small(0) |-> base], 0)
    BY <2>1
  <2> HIDE DEF Is
  <2>3. QED
    BY <2>2
<1>2. ASSUME NEW n \in Nat, n \in T
      PROVE  n + 1 \in T
  <2>1. PICK f : Is(f, n)
    BY <1>2
  <2> DEFINE g == [s \in Small(n + 1) |-> IF s \in Small(n) THEN f[s] ELSE Val(s, f)]
  <2>2. \A s \in Small(n + 1) : g[s] = Val(s, g)
    <3> SUFFICES ASSUME NEW s \in Small(n + 1)
                 PROVE  g[s] = Val(s, g)
      OBVIOUS
    <3>1. s # {} => s \ {Pick(s)} \in Small(n) /\ s \ {Pick(s)} \in Small(n + 1)
      <4> SUFFICES ASSUME s # {}
                   PROVE  s \ {Pick(s)} \in Small(n) /\ s \ {Pick(s)} \in Small(n + 1)
        OBVIOUS
      <4> DEFINE r == s \ {Pick(s)}
      <4>0. s \in SUBSET D /\ s # {}
        OBVIOUS
      <4>1. r \in SUBSET D /\ Cardinality(r) = Cardinality(s) - 1 /\ Cardinality(s) \in Nat
        BY <1>0, <4>0
      <4>2. Cardinality(s) <= n + 1
        OBVIOUS
      <4> HIDE DEF r
      <4>3. r \in Small(n) /\ r \in Small(n + 1)
        BY <4>1, <4>2
      <4>4. QED
        BY <4>3 DEF r
    <3>2. s # {} => g[s \ {Pick(s)}] = f[s \ {Pick(s)}]
      BY <3>1
    <3>3. s \in Small(n) => f[s] = Val(s, f)
      <4> HIDE DEF Val, Small
      <4>1. QED
        BY <2>1
    <3>4. g[s] = Val(s, f)
      <4> HIDE DEF Val
      <4>1. QED
        BY <3>3
    <3> HIDE DEF g
    <3>5. QED
      BY <3>2, <3>4
  <2>3. \E h : Is(h, n + 1)
    <3>1. g = [s \in Small(n + 1) |-> Val(s, g)]
      <4> HIDE DEF Val, Small
      <4>1. QED
        BY <2>2
    <3>2. QED
      BY <3>1
  <2> HIDE DEF Is
  <2>4. QED
    BY <2>3
<1>3. Nat \subseteq T
  <2> HIDE DEF T
  <2> QED
    BY <1>1, <1>2, SetInduction
<1>4. Cardinality(D) \in Nat /\ Small(Cardinality(D)) = SUBSET D
  <2>1. \A s \in SUBSET D : Cardinality(s) <= Cardinality(D)
    BY FS_Subset
  <2>2. QED
    BY <1>0, <2>1
<1>5. \E f : Is(f, Cardinality(D))
  BY <1>3, <1>4
<1>6. \E f : f = [s \in SUBSET D |-> Val(s, f)]
  <2> HIDE DEF Val, Small
  <2> QED
    BY <1>4, <1>5
<1>7. QED
  BY <1>6 DEF Pick, Edits

\* What holds of a version without its deleted files, and goes on to hold with each file
\* that is put in, holds of the edited version. I gives, for the files put in so far, the
\* versions of which it holds.
LEMMA EditedKeeps ==
  ASSUME NEW v, NEW deleted, NEW added, IsFiniteSet(DOMAIN added), NEW I,
         Without(v, deleted) \in I[{}],
         \A s \in SUBSET (DOMAIN added) : \A x \in s : \A w \in I[s \ {x}] :
           WithFile(w, added[x]) \in I[s]
  PROVE  Edited(v, deleted, added) \in I[DOMAIN added]
<1> DEFINE D == DOMAIN added
           base == Without(v, deleted)
           g == CHOOSE f : f = Edits(base, added, f)
<1>1. Edited(v, deleted, added) = g[D]
  BY DEF Edited, Without, WithFile, Edits, FoldSeq, FoldFunction, FoldFunctionOnSet,
         MapThenFoldSet
<1>2. g = Edits(base, added, g)
  BY EditsExist
<1> HIDE DEF g
<1>3. \A s \in SUBSET D :
        g[s] = IF s = {} THEN base
               ELSE WithFile(g[s \ {CHOOSE x \in s : TRUE}], added[CHOOSE x \in s : TRUE])
  <2>1. g = [s \in SUBSET (DOMAIN added) |->
               IF s = {} THEN base
               ELSE WithFile(g[s \ {CHOOSE x \in s : TRUE}], added[CHOOSE x \in s : TRUE])]
    BY <1>2 DEF Edits
  <2> HIDE DEF base
  <2>2. QED
    BY <2>1
<1> DEFINE T == {n \in Nat : \A s \in SUBSET D : Cardinality(s) = n => g[s] \in I[s]}
<1>4. 0 \in T
  <2> SUFFICES ASSUME NEW s \in SUBSET D, Cardinality(s) = 0
               PROVE  g[s] \in I[s]
    OBVIOUS
  <2>1. s = {}
    BY FS_Subset, FS_EmptySet
  <2>2. QED
    BY <1>3, <2>1
<1>5. ASSUME NEW n \in Nat, n \in T
      PROVE  n + 1 \in T
  <2> SUFFICES ASSUME NEW s \in SUBSET D, Cardinality(s) = n + 1
               PROVE  g[s] \in I[s]
    OBVIOUS
  <2> DEFINE x == CHOOSE x \in s : TRUE
  <2>1. IsFiniteSet(s) /\ s # {}
    BY FS_Subset, FS_EmptySet
  <2>2. x \in s
    BY <2>1
  <2>3. g[s] = WithFile(g[s \ {x}], added[x])
    BY <1>3, <2>1
  <2> HIDE DEF x
  <2>4. s \ {x} \in SUBSET D /\ Cardinality(s \ {x}) = n
    <3>1. Cardinality(s \ {x}) = Cardinality(s) - 1
      BY <2>1, <2>2, FS_RemoveElement
    <3>2. QED
      BY <3>1
  <2>5. g[s \ {x}] \in I[s \ {x}]
    BY <1>5, <2>4
  <2>6. QED
    BY <2>2, <2>3, <2>5
<1>6. Nat \subseteq T
  <2> HIDE DEF T
  <2> QED
    BY <1>4, <1>5, SetInduction
<1>7. Cardinality(D) \in Nat
  BY FS_CardinalityType
<1>8. QED
  BY <1>1, <1>6, <1>7

-----------------------------------------------------------------------------
(* The inductive invariant *)

Entry == Keys \X Nat \X {"value", "deletion"}

\* What a memtable or a table holds.
EntrySet == {S \in SUBSET Entry : IsFiniteSet(S)}
File ==
  [number : Nat, entries : EntrySet \ {{}}, smallest : Entry, largest : Entry]

InOrder == {p \in File \X File : BySmallestKey(p[1], p[2])}

\* A version's levels are in order, and no number is that of two files.
VersionSound(v) ==
  /\ v \in [Levels -> Seq(File)]
  /\ \A l \in Levels : Ascending(v[l], InOrder)
  /\ \A l, m \in Levels : \A f \in Range(v[l]), g \in Range(v[m]) :
       f.number = g.number => l = m /\ f = g

MemTables ==
  /\ scenario \in Scenarios /\ lastSequence \in Nat /\ nextFile \in Nat
  /\ mem \in EntrySet /\ (imm # None => imm \in EntrySet)
  /\ \A n \in TablesOf(version) : n < nextFile

\* What is picked to be compacted has a next level.
LevelsBelow ==
  /\ seekFile # None =>
       seekFile[1] \in Nat /\ seekFile[1] + 1 \in Levels
         /\ seekFile[2] \in Range(version[seekFile[1]])
  /\ range.at # "none" =>
       /\ DOMAIN range = {"at", "level", "from", "lo", "hi", "last"}
       /\ range.level \in Nat /\ range.last \in Levels /\ range.level < range.last
  /\ manual # None => range.at = "wait" /\ manual.level = range.level

\* The tables a compaction has written are new, and so is what it is still to write.
MergeSound ==
  /\ bg.at \in {"none", "merge"}
  /\ bg.at = "merge" =>
       /\ DOMAIN bg = {"at", "manual", "level", "inputs", "base", "outputs", "todo"}
       /\ bg.todo \in Seq(EntrySet \ {{}})
       /\ bg.outputs \in Seq(File)
       /\ \A i, j \in DOMAIN bg.outputs :
            bg.outputs[i].number = bg.outputs[j].number => i = j
       /\ \A n \in Pending : n < nextFile /\ n \notin TablesOf(version)

CompactionInv ==
  VersionSound(version) /\ MemTables /\ LevelsBelow /\ MergeSound /\ TablesKept

-----------------------------------------------------------------------------
(* Entries and files *)

\* A finite set has an element that none precedes.
LEMMA FirstExists ==
  ASSUME NEW S, IsFiniteSet(S), S # {}, NEW R,
         \A x \in S : <<x, x>> \notin R,
         \A x, y, z \in S : <<x, y>> \in R /\ <<y, z>> \in R => <<x, z>> \in R
  PROVE  \E e \in S : \A d \in S : <<d, e>> \notin R
<1> DEFINE HasFirst(Q) == \E e \in Q : \A d \in Q : <<d, e>> \notin R
           T == {n \in Nat : \A Q \in SUBSET S : Cardinality(Q) = n + 1 => HasFirst(Q)}
<1>0. \A Q \in SUBSET S : IsFiniteSet(Q) /\ Cardinality(Q) \in Nat /\ (Cardinality(Q) = 0 <=> Q = {})
  BY FS_Subset, FS_CardinalityType, FS_EmptySet
<1>1. 0 \in T
  <2> SUFFICES ASSUME NEW Q \in SUBSET S, Cardinality(Q) = 1
               PROVE  HasFirst(Q)
    OBVIOUS
  <2>1. PICK e : Q = {e}
    BY <1>0, FS_Singleton
  <2>2. QED
    BY <2>1
<1>2. ASSUME NEW n \in Nat, n \in T
      PROVE  n + 1 \in T
  <2> SUFFICES ASSUME NEW Q \in SUBSET S, Cardinality(Q) = n + 2
               PROVE  HasFirst(Q)
    OBVIOUS
  <2>1. Q # {} /\ IsFiniteSet(Q)
    BY <1>0
  <2>2. PICK x \in Q : TRUE
    BY <2>1
  <2>3. Cardinality(Q \ {x}) = n + 1
    <3>1. Cardinality(Q \ {x}) = Cardinality(Q) - 1
      BY <2>1, FS_RemoveElement
    <3>2. QED
      BY <3>1
  <2>4. PICK e \in Q \ {x} : \A d \in Q \ {x} : <<d, e>> \notin R
    BY <1>2, <2>3
  <2>5. CASE <<x, e>> \notin R
    BY <2>4, <2>5
  <2>6. CASE <<x, e>> \in R
    <3>1. \A d \in Q : <<d, x>> \notin R
      BY <2>4, <2>6
    <3>2. QED
      BY <3>1
  <2>7. QED
    BY <2>5, <2>6
<1>3. Nat \subseteq T
  <2> HIDE DEF T
  <2> QED
    BY <1>1, <1>2, SetInduction
<1>4. PICK n \in Nat : Cardinality(S) = n + 1
  <2>1. Cardinality(S) \in Nat /\ Cardinality(S) # 0
    BY <1>0
  <2>2. Cardinality(S) - 1 \in Nat /\ Cardinality(S) = (Cardinality(S) - 1) + 1
    BY <2>1
  <2>3. QED
    BY <2>2
<1>5. n \in T
  BY <1>3
<1>6. HasFirst(S)
  BY <1>4, <1>5
<1>7. QED
  BY <1>6

\* InternalKeyComparator orders entries strictly.
LEMMA BeforeOrders ==
  /\ \A a \in Entry : ~Before(a, a)
  /\ \A a, b, c \in Entry : Before(a, b) /\ Before(b, c) => Before(a, c)
  /\ \A a, b, c \in Entry : Before(a, c) => Before(a, b) \/ Before(b, c)
<1>1. ASSUME NEW a \in Entry PROVE a[1] \in Int /\ a[2] \in Int
  <2>1. a[1] \in Keys /\ a[2] \in Nat
    BY DEF Entry
  <2>2. a[1] \in Int
    BY Zenon, <2>1, ScenarioAssumption
  <2>3. a[2] \in Int
    BY ONLY <2>1
  <2>4. QED
    BY <2>2, <2>3
<1>2. QED
  BY <1>1 DEF Before

\* A table that is built is a file with its first and last entries.
LEMMA TableFacts ==
  ASSUME NEW n \in Nat, NEW S \in EntrySet \ {{}}
  PROVE  Table(n, S) \in File /\ Table(n, S).number = n /\ Table(n, S).entries = S
<1>1. S \in SUBSET Entry /\ IsFiniteSet(S) /\ S # {}
  BY DEF EntrySet
<1>2. \E e \in S : \A d \in S : ~Before(d, e)
  <2> DEFINE R == {p \in S \X S : Before(p[1], p[2])}
  <2>1. \A x, y \in S : <<x, y>> \in R <=> Before(x, y)
    OBVIOUS
  <2> HIDE DEF R
  <2>2. \E e \in S : \A d \in S : <<d, e>> \notin R
    BY SMTT(60), <1>1, <2>1, BeforeOrders, FirstExists
  <2>3. QED
    BY <2>1, <2>2
<1>3. \E e \in S : \A d \in S : ~Before(e, d)
  <2> DEFINE R == {p \in S \X S : Before(p[2], p[1])}
  <2>1. \A x, y \in S : <<x, y>> \in R <=> Before(y, x)
    OBVIOUS
  <2> HIDE DEF R
  <2>2. \E e \in S : \A d \in S : <<d, e>> \notin R
    BY SMTT(60), <1>1, <2>1, BeforeOrders, FirstExists
  <2>3. QED
    BY <2>1, <2>2
<1>4. Table(n, S).smallest \in S /\ Table(n, S).largest \in S
  BY <1>2, <1>3 DEF Table
<1>5. QED
  BY <1>1, <1>4 DEF Table, File

\* Builder's order: strict, and total on files of different numbers.
LEMMA FilesOrder ==
  /\ \A f, g, h \in File : BySmallestKey(f, g) /\ BySmallestKey(g, h) => BySmallestKey(f, h)
  /\ \A f, g \in File : f.number # g.number => BySmallestKey(f, g) \/ BySmallestKey(g, f)
<1>1. \A f \in File : f.smallest \in Entry /\ f.number \in Nat
  BY DEF File
<1>2. ASSUME NEW f \in File, NEW g \in File, NEW h \in File,
             BySmallestKey(f, g), BySmallestKey(g, h)
      PROVE  BySmallestKey(f, h)
  <2> DEFINE a == f.smallest
             b == g.smallest
             c == h.smallest
  <2>1. a \in Entry /\ b \in Entry /\ c \in Entry
    BY <1>1
  <2>2. /\ Before(a, b) \/ (~Before(b, a) /\ f.number < g.number)
        /\ Before(b, c) \/ (~Before(c, b) /\ g.number < h.number)
    BY <1>2 DEF BySmallestKey
  <2>3. f.number < g.number /\ g.number < h.number => f.number < h.number
    BY <1>1
  <2> HIDE DEF a, b, c
  <2>4. Before(a, c) \/ (~Before(c, a) /\ f.number < h.number)
    BY <2>1, <2>2, <2>3, BeforeOrders
  <2>5. QED
    BY <2>4 DEF BySmallestKey, a, b, c
<1>3. ASSUME NEW f \in File, NEW g \in File, f.number # g.number
      PROVE  BySmallestKey(f, g) \/ BySmallestKey(g, f)
  <2>1. f.number < g.number \/ g.number < f.number
    BY <1>1, <1>3
  <2>2. QED
    BY <2>1 DEF BySmallestKey
<1>4. QED
  BY <1>2, <1>3

\* SaveTo puts a file between those that come before it and the others.
LEMMA PlacedFacts ==
  ASSUME NEW files \in Seq(File), Ascending(files, InOrder), NEW f \in File,
         \A g \in Range(files) : g.number # f.number
  PROVE  /\ Placed(files, f) \in Seq(File)
         /\ Range(Placed(files, f)) = Range(files) \cup {f}
         /\ Ascending(Placed(files, f), InOrder)
<1> DEFINE P == {g \in Range(files) : ~BySmallestKey(f, g)}
           Q == {g \in Range(files) : BySmallestKey(f, g)}
           before == FilesIn(files, P)
           after == FilesIn(files, Q)
<1>1. /\ before \in Seq(File) /\ Range(before) = P /\ Ascending(before, InOrder)
      /\ after \in Seq(File) /\ Range(after) = Q /\ Ascending(after, InOrder)
  BY FilesInFacts
<1>2. Range(files) \subseteq File
  BY DEF Range
<1>3. \A g \in P : <<g, f>> \in InOrder
  BY <1>2, FilesOrder DEF InOrder
<1>4. \A g \in Q : <<f, g>> \in InOrder
  BY <1>2 DEF InOrder
<1>5. \A g \in P, h \in Q : <<g, h>> \in InOrder
  BY <1>2, <1>3, <1>4, FilesOrder DEF InOrder
<1>6. Placed(files, f) = before \o <<f>> \o after /\ Range(files) = P \cup Q
  BY DEF Placed
<1> HIDE DEF before, after, P, Q
<1> DEFINE b == Len(before)
           a == Len(after)
           s == before \o <<f>> \o after
<1>7. /\ b \in Nat /\ a \in Nat /\ s \in Seq(File) /\ Len(s) = b + 1 + a /\ DOMAIN s = 1..(b + 1 + a)
      /\ \A i \in 1..b : s[i] = before[i]
      /\ s[b + 1] = f
      /\ \A i \in 1..a : s[b + 1 + i] = after[i]
  BY <1>1
<1>8. /\ \A i \in 1..b : before[i] \in P /\ i \in DOMAIN before
      /\ \A i \in 1..a : after[i] \in Q /\ i \in DOMAIN after
  BY <1>1 DEF Range
<1>9. \A i \in DOMAIN s : \/ i \in 1..b /\ s[i] = before[i]
                          \/ i = b + 1 /\ s[i] = f
                          \/ i - (b + 1) \in 1..a /\ s[i] = after[i - (b + 1)]
  BY <1>7
<1> HIDE DEF s
<1>10. Range(s) = P \cup {f} \cup Q
  <2>1. Range(s) \subseteq P \cup {f} \cup Q
    BY <1>8, <1>9 DEF Range
  <2>2. f \in Range(s)
    BY <1>7 DEF Range
  <2>3. \A g \in P : g \in Range(s)
    <3> SUFFICES ASSUME NEW g \in P PROVE g \in Range(s)
      OBVIOUS
    <3>1. PICK i \in 1..b : g = before[i]
      BY <1>1 DEF Range
    <3>2. i \in DOMAIN s /\ s[i] = g
      BY <1>7, <3>1
    <3>3. QED
      BY <3>2 DEF Range
  <2>4. \A g \in Q : g \in Range(s)
    <3> SUFFICES ASSUME NEW g \in Q PROVE g \in Range(s)
      OBVIOUS
    <3>1. PICK i \in 1..a : g = after[i]
      BY <1>1 DEF Range
    <3>2. b + 1 + i \in DOMAIN s /\ s[b + 1 + i] = g
      BY <1>7, <3>1
    <3>3. QED
      BY <3>2 DEF Range
  <2>5. QED
    BY <2>1, <2>2, <2>3, <2>4
<1>11. Ascending(s, InOrder)
  <2> SUFFICES ASSUME NEW i \in DOMAIN s, NEW j \in DOMAIN s, i < j
               PROVE  <<s[i], s[j]>> \in InOrder
    BY DEF Ascending
  <2>0. i \in Int /\ j \in Int /\ b \in Nat /\ a \in Nat
    BY <1>7
  <2>1. CASE i \in 1..b /\ s[i] = before[i]
    <3>1. CASE j \in 1..b /\ s[j] = before[j]
      BY <1>1, <1>8, <2>1, <3>1 DEF Ascending
    <3>2. CASE j = b + 1 /\ s[j] = f
      BY <1>3, <1>8, <2>1, <3>2
    <3>3. CASE j - (b + 1) \in 1..a /\ s[j] = after[j - (b + 1)]
      BY <1>5, <1>8, <2>1, <3>3
    <3>4. QED
      BY <1>9, <3>1, <3>2, <3>3
  <2>2. CASE i = b + 1 /\ s[i] = f
    <3>1. j - (b + 1) \in 1..a /\ s[j] = after[j - (b + 1)]
      BY <1>9, <2>0, <2>2
    <3>2. QED
      BY <1>4, <1>8, <2>2, <3>1
  <2>3. CASE i - (b + 1) \in 1..a /\ s[i] = after[i - (b + 1)]
    <3>1. j - (b + 1) \in 1..a /\ s[j] = after[j - (b + 1)] /\ i - (b + 1) < j - (b + 1)
      BY <1>9, <2>0, <2>3
    <3>2. QED
      BY <1>1, <1>8, <2>3, <3>1 DEF Ascending
  <2>4. QED
    BY <1>9, <2>1, <2>2, <2>3
<1>12. QED
  BY <1>6, <1>7, <1>10, <1>11 DEF s

\* The files of some of the edits that go to a level.
NewFiles(added, s, l) == {added[i][2] : i \in {x \in s : added[x][1] = l}}

\* Installing an edit keeps a version sound, if the new files have numbers of their own that
\* none of the files that stay has; each level then holds what stays and what is new.
LEMMA InstallFacts ==
  ASSUME NEW v, VersionSound(v), NEW deleted, NEW added, IsFiniteSet(DOMAIN added),
         \A i \in DOMAIN added : added[i][2] \in File,
         \A i, j \in DOMAIN added : added[i][2].number = added[j][2].number => i = j,
         \A i \in DOMAIN added : \A l \in Levels : \A f \in Range(v[l]) :
           <<l, f.number>> \notin deleted => f.number # added[i][2].number
  PROVE  /\ VersionSound(Edited(v, deleted, added))
         /\ \A l \in Levels : Range(Edited(v, deleted, added)[l]) =
              {f \in Range(v[l]) : <<l, f.number>> \notin deleted} \cup NewFiles(added, DOMAIN added, l)
<1> DEFINE base == Without(v, deleted)
           D == DOMAIN added
           Staying(l) == {f \in Range(v[l]) : <<l, f.number>> \notin deleted}
           From(w, s) == \A l \in Levels : Range(w[l]) = Staying(l) \cup NewFiles(added, s, l)
           Good(w, s) == VersionSound(w) /\ From(w, s)
           I == [s \in SUBSET D |-> {w \in [Levels -> Seq(File)] : Good(w, s)}]
<1>1. base \in I[{}]
  <2>1. ASSUME NEW l \in Levels
        PROVE  /\ base[l] \in Seq(File) /\ Ascending(base[l], InOrder)
               /\ Range(base[l]) = Staying(l)
    <3> DEFINE S == {f \in Range(v[l]) : <<l, f.number>> \notin deleted}
    <3>1. base[l] = FilesIn(v[l], S)
      BY DEF Without
    <3>2. v[l] \in Seq(File) /\ Ascending(v[l], InOrder)
      BY DEF VersionSound
    <3> HIDE DEF S, base
    <3>3. /\ base[l] \in Seq(File) /\ Ascending(base[l], InOrder)
          /\ Range(base[l]) = Range(v[l]) \cap S
      BY <3>1, <3>2, FilesInFacts
    <3>4. QED
      BY <3>3 DEF S
  <2>2. base \in [Levels -> Seq(File)]
    <3>1. base = [l \in Levels |-> base[l]]
      BY DEF Without
    <3> HIDE DEF base
    <3>2. QED
      BY <2>1, <3>1
  <2> HIDE DEF base
  <2>3. \A l, m \in Levels : \A f \in Range(base[l]), g \in Range(base[m]) :
          f.number = g.number => l = m /\ f = g
    <3>1. \A l \in Levels : Range(base[l]) \subseteq Range(v[l])
      BY <2>1
    <3>2. \A l, m \in Levels : \A f \in Range(v[l]), g \in Range(v[m]) :
            f.number = g.number => l = m /\ f = g
      BY DEF VersionSound
    <3>3. QED
      BY Zenon, <3>1, <3>2
  <2>4. VersionSound(base)
    BY <2>1, <2>2, <2>3 DEF VersionSound
  <2>5. From(base, {})
    BY <2>1 DEF NewFiles
  <2> HIDE DEF Good
  <2>6. Good(base, {})
    BY <2>4, <2>5 DEF Good
  <2>7. QED
    BY <2>2, <2>6
<1>2. ASSUME NEW s \in SUBSET D, NEW x \in s, NEW w \in I[s \ {x}]
      PROVE  WithFile(w, added[x]) \in I[s]
  <2> DEFINE f == added[x][2]
             at == added[x][1]
             w2 == WithFile(w, added[x])
  <2>1. w \in [Levels -> Seq(File)] /\ VersionSound(w) /\ From(w, s \ {x}) /\ x \in D /\ f \in File
    OBVIOUS
  <2>2. \A l \in Levels : \A g \in Range(w[l]) : g.number # f.number
    <3> SUFFICES ASSUME NEW l \in Levels, NEW g \in Range(w[l])
                 PROVE  g.number # f.number
      OBVIOUS
    <3>1. CASE g \in Staying(l)
      BY <2>1, <3>1
    <3>2. CASE \E i \in s \ {x} : g = added[i][2]
      BY <2>1, <3>2
    <3>3. g \in Staying(l) \/ \E i \in s \ {x} : g = added[i][2]
      BY <2>1 DEF NewFiles
    <3>4. QED
      BY <3>1, <3>2, <3>3
  <2>3. w2 = [l \in Levels |-> IF l = at THEN Placed(w[at], f) ELSE w[l]]
    BY <2>1 DEF WithFile
  <2> HIDE DEF w2, f, at
  <2>4. \A l \in Levels : l # at => w2[l] = w[l]
    BY <2>3
  <2>5. at \in Levels => /\ w2[at] \in Seq(File) /\ Ascending(w2[at], InOrder)
                         /\ Range(w2[at]) = Range(w[at]) \cup {f}
    <3> SUFFICES ASSUME at \in Levels
                 PROVE  /\ w2[at] \in Seq(File) /\ Ascending(w2[at], InOrder)
                        /\ Range(w2[at]) = Range(w[at]) \cup {f}
      OBVIOUS
    <3>1. w2[at] = Placed(w[at], f)
      BY <2>3
    <3>2. w[at] \in Seq(File) /\ Ascending(w[at], InOrder) /\ f \in File
          /\ \A g \in Range(w[at]) : g.number # f.number
      BY <2>1, <2>2 DEF VersionSound
    <3>3. QED
      BY <3>1, <3>2, PlacedFacts
  <2>6. \A l \in Levels : /\ w2[l] \in Seq(File) /\ Ascending(w2[l], InOrder)
                          /\ \A g \in Range(w2[l]) : g \in Range(w[l]) \/ (l = at /\ g = f)
    BY <2>1, <2>4, <2>5 DEF VersionSound
  <2>7. w2 \in [Levels -> Seq(File)]
    <3>1. w2 = [l \in Levels |-> w2[l]]
      BY <2>3
    <3>2. QED
      BY <2>6, <3>1
  <2>8. \A l, m \in Levels : \A g \in Range(w2[l]), h \in Range(w2[m]) :
          g.number = h.number => l = m /\ g = h
    <3> SUFFICES ASSUME NEW l \in Levels, NEW m \in Levels,
                        NEW g \in Range(w2[l]), NEW h \in Range(w2[m]), g.number = h.number
                 PROVE  l = m /\ g = h
      OBVIOUS
    <3>1. g \in Range(w[l]) \/ (l = at /\ g = f)
      BY <2>6
    <3>2. h \in Range(w[m]) \/ (m = at /\ h = f)
      BY <2>6
    <3>3. g \in Range(w[l]) /\ h \in Range(w[m]) => l = m /\ g = h
      BY <2>1 DEF VersionSound
    <3>4. QED
      BY <2>2, <3>1, <3>2, <3>3
  <2>9. VersionSound(w2)
    BY <2>6, <2>7, <2>8 DEF VersionSound
  <2>10. From(w2, s)
    <3> SUFFICES ASSUME NEW l \in Levels
                 PROVE  Range(w2[l]) = Staying(l) \cup NewFiles(added, s, l)
      OBVIOUS
    <3>1. Range(w[l]) = Staying(l) \cup NewFiles(added, s \ {x}, l)
      BY <2>1
    <3> HIDE DEF Staying
    <3>2. NewFiles(added, s, l) = NewFiles(added, s \ {x}, l) \cup (IF l = at THEN {f} ELSE {})
      BY DEF NewFiles, f, at
    <3>3. CASE l = at
      BY <2>5, <3>1, <3>2, <3>3
    <3>4. CASE l # at
      BY <2>4, <3>1, <3>2, <3>4
    <3>5. QED
      BY <3>3, <3>4
  <2> HIDE DEF Good
  <2>11. Good(w2, s)
    BY <2>9, <2>10 DEF Good
  <2>12. QED
    BY <2>7, <2>11 DEF w2
<1>3. Edited(v, deleted, added) \in I[D]
  <2> HIDE DEF I
  <2> QED
    BY <1>1, <1>2, EditedKeeps
<1>4. VersionSound(Edited(v, deleted, added)) /\ From(Edited(v, deleted, added), D)
  BY <1>3
<1>5. QED
  BY <1>4

-----------------------------------------------------------------------------
(* What is picked *)

\* The inputs of a compaction are files of its level and of the next.
InputsOf(v, c) ==
  /\ c.level \in Levels /\ c.level + 1 \in Levels
  /\ c.inputs[1] \in Seq(File) /\ Range(c.inputs[1]) \subseteq Range(v[c.level])
  /\ c.inputs[2] \in Seq(File) /\ Range(c.inputs[2]) \subseteq Range(v[c.level + 1])

\* GetOverlappingInputs gives files of the level.
LEMMA OverlappingFacts ==
  ASSUME NEW v, NEW l, v[l] \in Seq(File), NEW lo, NEW hi
  PROVE  Overlapping(v, l, lo, hi) \in Seq(File)
         /\ Range(Overlapping(v, l, lo, hi)) \subseteq Range(v[l])
<1> DEFINE bounds == IF l = 0 THEN Widened(v[0], lo, hi) ELSE <<lo, hi>>
           S == {f \in Range(v[l]) : Within(bounds, f)}
<1>1. Overlapping(v, l, lo, hi) = FilesIn(v[l], S)
  BY DEF Overlapping
<1> HIDE DEF S
<1>2. QED
  BY <1>1, FilesInFacts

\* SetupOtherInputs adds files of the level and of the next.
LEMMA OtherInputs ==
  ASSUME NEW v \in [Levels -> Seq(File)], NEW level \in Levels, level + 1 \in Levels,
         NEW files \in Seq(File), Range(files) \subseteq Range(v[level]), NEW target
  PROVE  InputsOf(v, WithOtherInputs(v, level, files, target))
<1> DEFINE c == WithOtherInputs(v, level, files, target)
           Upper(s) == s \in Seq(File) /\ Range(s) \subseteq Range(v[level])
           Lower(s) == s \in Seq(File) /\ Range(s) \subseteq Range(v[level + 1])
<1>1. \A lo, hi : Upper(Overlapping(v, level, lo, hi)) /\ Lower(Overlapping(v, level + 1, lo, hi))
  BY OverlappingFacts
<1>2. Upper(files)
  OBVIOUS
<1>3. \E up, low : c.level = level /\ c.inputs = <<up, low>> /\ Upper(up) /\ Lower(low)
  <2> HIDE DEF Upper, Lower
  <2> DEFINE Over(l, r) == Overlapping(v, l, r[1], r[2])
             one == Over(level + 1, KeyRange(files))
             more == Over(level, KeyRange(files \o one))
             two == Over(level + 1, KeyRange(more))
             grown == /\ one # <<>> /\ Len(more) > Len(files)
                      /\ Size(one) + Size(more) < ExpansionFactor * target
                      /\ Len(two) = Len(one)
             up == IF grown THEN more ELSE files
             low == IF grown THEN two ELSE one
  <2>1. c.level = level /\ c.inputs = <<up, low>>
    BY DEF WithOtherInputs
  <2>2. Lower(one) /\ Upper(more) /\ Lower(two)
    BY <1>1
  <2> HIDE DEF one, more, two, grown, c
  <2>3. Upper(up) /\ Lower(low)
    BY <1>2, <2>2
  <2> HIDE DEF up, low
  <2>4. QED
    BY <2>1, <2>3
<1> HIDE DEF c
<1>4. QED
  BY <1>3 DEF InputsOf, c

\* PickCompaction for a file that cost too many seeks.
LEMMA SeeksInputs ==
  ASSUME NEW v \in [Levels -> Seq(File)], NEW level \in Levels, level + 1 \in Levels,
         NEW file \in Range(v[level]), NEW target
  PROVE  InputsOf(v, PickForSeeks(v, level, file, target))
<1> DEFINE files == IF level = 0 THEN Overlapping(v, 0, FirstKey(file), LastKey(file))
                    ELSE <<file>>
<1>1. PickForSeeks(v, level, file, target) = WithOtherInputs(v, level, files, target)
  BY DEF PickForSeeks
<1>2. file \in File /\ v[level] \in Seq(File)
  BY DEF Range
<1>3. files \in Seq(File) /\ Range(files) \subseteq Range(v[level])
  <2>1. CASE level = 0
    BY <1>2, <2>1, OverlappingFacts
  <2>2. CASE level # 0
    BY <1>2, <2>2 DEF Range
  <2>3. QED
    BY <2>1, <2>2
<1> HIDE DEF files
<1>4. QED
  BY <1>1, <1>3, OtherInputs

\* PickCompaction for a full level begins with a file of it, as for one read in vain.
LEMMA SizeStarts ==
  ASSUME NEW v \in [Levels -> Seq(File)], NEW level \in FullestLevels(v), NEW target, NEW p
  PROVE  \E file \in Range(v[level]) :
           PickForSize(v, level, p, target) = PickForSeeks(v, level, file, target)
<1> DEFINE S == {f \in Range(v[level]) : p[level] = None \/ Before(p[level], f.largest)}
           after == FilesIn(v[level], S)
           s == IF after = <<>> THEN v[level] ELSE after
           first == Head(s)
<1>1. v[level] # <<>> /\ v[level] \in Seq(File)
  BY LevelsAssumption DEF FullestLevels, Levels
<1>2. PickForSize(v, level, p, target) = PickForSeeks(v, level, first, target)
  BY DEF PickForSize, PickForSeeks
<1>3. after \in Seq(File) /\ Range(after) \subseteq Range(v[level])
  BY <1>1, FilesInFacts
<1> HIDE DEF after
<1>4. s \in Seq(File) /\ s # <<>> /\ Range(s) \subseteq Range(v[level])
  BY <1>1, <1>3
<1> HIDE DEF s
<1>5. first \in Range(s)
  BY <1>4 DEF Range
<1>6. QED
  BY <1>2, <1>4, <1>5

\* PickCompaction for a full level.
LEMMA SizeInputs ==
  ASSUME NEW v \in [Levels -> Seq(File)], NEW level \in FullestLevels(v), NEW target, NEW p
  PROVE  InputsOf(v, PickForSize(v, level, p, target))
<1>1. level \in Levels /\ level + 1 \in Levels
  BY LevelsAssumption DEF FullestLevels, Levels
<1>2. PICK file \in Range(v[level]) :
        PickForSize(v, level, p, target) = PickForSeeks(v, level, file, target)
  BY SizeStarts
<1>3. QED
  BY <1>1, <1>2, SeeksInputs

\* CompactRange
LEMMA RangeInputs ==
  ASSUME NEW v \in [Levels -> Seq(File)], NEW level \in Levels, level + 1 \in Levels,
         NEW lo, NEW hi, NEW target
  PROVE  InputsOf(v, PickForRange(v, level, lo, hi, target))
<1> DEFINE all == Overlapping(v, level, lo, hi)
           enough == {i \in DOMAIN all : level > 0 /\ Size(SubSeq(all, 1, i)) >= target}
           files == IF enough = {} THEN all ELSE SubSeq(all, 1, Min(enough))
<1>1. PickForRange(v, level, lo, hi, target) = WithOtherInputs(v, level, files, target)
  BY DEF PickForRange
<1>2. all \in Seq(File) /\ Range(all) \subseteq Range(v[level])
  BY OverlappingFacts
<1> HIDE DEF all
<1>3. enough # {} => Min(enough) \in DOMAIN all
  <2> SUFFICES ASSUME enough # {} PROVE Min(enough) \in DOMAIN all
    OBVIOUS
  <2>1. enough \subseteq DOMAIN all /\ DOMAIN all \subseteq Nat
    BY <1>2
  <2> HIDE DEF enough
  <2>2. \E n \in enough : \A m \in enough : n <= m
    BY <2>1, LeastNumber
  <2>3. Min(enough) \in enough
    BY <2>2 DEF Min
  <2>4. QED
    BY <2>1, <2>3
<1>4. ASSUME NEW n \in DOMAIN all
      PROVE  SubSeq(all, 1, n) \in Seq(File) /\ Range(SubSeq(all, 1, n)) \subseteq Range(all)
  BY <1>2 DEF Range
<1> HIDE DEF enough
<1>5. files \in Seq(File) /\ Range(files) \subseteq Range(v[level])
  BY <1>2, <1>3, <1>4
<1> HIDE DEF files
<1>6. QED
  BY <1>1, <1>5, OtherInputs

-----------------------------------------------------------------------------
(* What a compaction writes *)

\* What the loop of DoCompactionWork has written after each entry, if f gives it for the
\* entries before.
Begun == [done |-> <<>>, file |-> {}, bytes |-> 0, index |-> 0, seen |-> FALSE]
Written(c, kept, target, entries, f) ==
  [i \in 0..Len(entries) |->
     IF i = 0 THEN Begun
     ELSE CHOOSE out \in {Put(kept, target, o, entries[i]) :
                          o \in {Stop(c, target, o, entries[i]) : o \in {f[i - 1]}}} : TRUE]

\* Outputs' recursive function exists.
LEMMA WrittenExists ==
  ASSUME NEW c, NEW kept, NEW target, NEW entries, Len(entries) \in Nat
  PROVE  \E f : f = Written(c, kept, target, entries, f)
<1> DEFINE Val(i, h) ==
             IF i = 0 THEN Begun
             ELSE CHOOSE out \in {Put(kept, target, o, entries[i]) :
                                  o \in {Stop(c, target, o, entries[i]) : o \in {h[i - 1]}}} : TRUE
           Is(f, n) == f = [i \in 0..n |-> Val(i, f)]
           T == {n \in Nat : \E f : Is(f, n)}
<1>0. \A i, g, h : g[i - 1] = h[i - 1] => Val(i, g) = Val(i, h)
  OBVIOUS
<1>1. 0 \in T
  <2>1. Is([i \in 0..0 |-> Begun], 0)
    OBVIOUS
  <2> HIDE DEF Is
  <2>2. QED
    BY <2>1
<1>2. ASSUME NEW n \in Nat, n \in T
      PROVE  n + 1 \in T
  <2>1. PICK f : Is(f, n)
    BY <1>2
  <2> DEFINE g == [i \in 0..n + 1 |-> IF i \in 0..n THEN f[i] ELSE Val(i, f)]
  <2>2. \A i \in 0..n + 1 : g[i] = Val(i, g)
    <3> SUFFICES ASSUME NEW i \in 0..n + 1
                 PROVE  g[i] = Val(i, g)
      OBVIOUS
    <3>1. i # 0 => g[i - 1] = f[i - 1]
      <4> HIDE DEF Val
      <4>1. i # 0 => i - 1 \in 0..n
        OBVIOUS
      <4>2. QED
        BY <4>1
    <3>2. i \in 0..n => f[i] = Val(i, f)
      <4> HIDE DEF Val
      <4>1. QED
        BY <2>1
    <3>3. g[i] = Val(i, f)
      <4> HIDE DEF Val
      <4>1. QED
        BY <3>2
    <3>4. i = 0 => Val(i, f) = Val(i, g)
      OBVIOUS
    <3> HIDE DEF Val, g
    <3>5. QED
      BY <1>0, <3>1, <3>3, <3>4
  <2>3. \E h : Is(h, n + 1)
    <3>1. g = [i \in 0..n + 1 |-> Val(i, g)]
      <4> HIDE DEF Val
      <4>1. QED
        BY <2>2
    <3>2. QED
      BY <3>1
  <2> HIDE DEF Is
  <2>4. QED
    BY <2>3
<1>3. Nat \subseteq T
  <2> HIDE DEF T
  <2> QED
    BY <1>1, <1>2, SetInduction
<1>4. \E f : Is(f, Len(entries))
  BY <1>3
<1>5. QED
  BY <1>4 DEF Written

\* The files that are finished, and the entries of the one that is open.
InWork(out) ==
  /\ DOMAIN out = {"done", "file", "bytes", "index", "seen"}
  /\ out.done \in Seq(EntrySet \ {{}}) /\ out.file \in EntrySet

LEMMA FinishFacts ==
  ASSUME NEW out, InWork(out)
  PROVE  InWork(Finish(out))
<1>1. CASE out.file = {}
  BY <1>1 DEF Finish
<1>2. CASE out.file # {}
  <2> DEFINE new == [out EXCEPT !.done = Append(@, out.file), !.file = {}]
  <2>1. Finish(out) = new
    BY <1>2 DEF Finish
  <2>2. DOMAIN new = DOMAIN out /\ new.done = Append(out.done, out.file) /\ new.file = {}
    BY DEF InWork
  <2>3. {} \in EntrySet
    BY FS_EmptySet DEF EntrySet
  <2>4. Append(out.done, out.file) \in Seq(EntrySet \ {{}})
    BY <1>2 DEF InWork
  <2> HIDE DEF new
  <2>5. QED
    BY <2>1, <2>2, <2>3, <2>4 DEF InWork
<1>3. QED
  BY <1>1, <1>2

LEMMA StopFacts ==
  ASSUME NEW out, InWork(out), NEW c, NEW target, NEW e
  PROVE  InWork(Stop(c, target, out, e))
<1> DEFINE passed == Cardinality({i \in DOMAIN c.grandparents :
                                    Before(c.grandparents[i].largest, e)})
           bytes == out.bytes + IF out.seen
                                THEN Size(SubSeq(c.grandparents, out.index + 1, passed)) ELSE 0
           moved == [out EXCEPT !.index = passed, !.seen = TRUE, !.bytes = bytes]
<1>1. Stop(c, target, out, e) = IF bytes > GrandparentFactor * target
                                THEN [Finish(moved) EXCEPT !.bytes = 0] ELSE moved
  BY DEF Stop
<1> HIDE DEF passed, bytes
<1>2. InWork(moved)
  BY DEF InWork
<1>3. InWork(Finish(moved))
  <2> HIDE DEF moved
  <2> QED
    BY <1>2, FinishFacts
<1> HIDE DEF moved
<1> DEFINE done == Finish(moved)
<1>4. InWork([done EXCEPT !.bytes = 0])
  <2>1. InWork(done)
    BY <1>3
  <2> HIDE DEF done
  <2>2. QED
    BY <2>1 DEF InWork
<1>5. QED
  BY <1>1, <1>2, <1>4

LEMMA PutFacts ==
  ASSUME NEW out, InWork(out), NEW kept, kept \subseteq Entry, NEW target, NEW e
  PROVE  InWork(Put(kept, target, out, e))
<1> DEFINE with == [out EXCEPT !.file = @ \cup {e}]
<1>1. Put(kept, target, out, e) =
        IF e \notin kept THEN out
        ELSE IF Cardinality(with.file) >= target THEN Finish(with) ELSE with
  BY DEF Put
<1>2. e \in kept => InWork(with)
  <2> SUFFICES ASSUME e \in kept PROVE InWork(with)
    OBVIOUS
  <2>1. out.file \subseteq Entry /\ IsFiniteSet(out.file) /\ e \in Entry
    BY DEF InWork, EntrySet
  <2>2. IsFiniteSet(out.file \cup {e})
    BY <2>1, FS_AddElement
  <2>3. out.file \cup {e} \in EntrySet
    BY <2>1, <2>2 DEF EntrySet
  <2>4. /\ DOMAIN with = DOMAIN out /\ with.done = out.done
        /\ with.file = out.file \cup {e}
    BY DEF InWork
  <2>5. QED
    BY <2>3, <2>4 DEF InWork
<1> HIDE DEF with
<1>3. QED
  BY <1>1, <1>2, FinishFacts

\* What goes into a compaction is a finite set of entries.
LEMMA InputEntriesFacts ==
  ASSUME NEW v, NEW c, InputsOf(v, c)
  PROVE  /\ InputEntries(c) \subseteq Entry /\ IsFiniteSet(InputEntries(c))
         /\ InputEntries(c) = UNION {f.entries : f \in Range(c.inputs[1]) \cup Range(c.inputs[2])}
<1> DEFINE all == InputEntries(c)
           s == c.inputs[1] \o c.inputs[2]
           sets == {f.entries : f \in Range(s)}
<1>1. s \in Seq(File)
  BY DEF InputsOf
<1>2. all = UNION sets
  BY DEF InputEntries
<1>3. Range(s) = Range(c.inputs[1]) \cup Range(c.inputs[2])
  <2> DEFINE a == c.inputs[1]
             b == c.inputs[2]
  <2>1. a \in Seq(File) /\ b \in Seq(File)
    BY DEF InputsOf
  <2> HIDE DEF a, b
  <2>2. Range(a \o b) = Range(a) \cup Range(b)
    BY <2>1, RangeConcatenation
  <2>3. QED
    BY <2>2 DEF a, b
<1> HIDE DEF s
<1>4. Range(s) \subseteq File /\ sets = {s[i].entries : i \in 1..Len(s)}
  BY <1>1 DEF Range
<1>5. \A S \in sets : S \subseteq Entry /\ IsFiniteSet(S)
  BY <1>4 DEF File, EntrySet
<1>6. IsFiniteSet(sets)
  <2> DEFINE h == [i \in 1..Len(s) |-> s[i].entries]
  <2>1. h \in Surjection(1..Len(s), sets)
    BY <1>4 DEF Surjection
  <2>2. IsFiniteSet(1..Len(s))
    <3>1. Len(s) \in Int
      BY <1>1
    <3>2. QED
      BY <3>1, FS_Interval
  <2> HIDE DEF h, sets
  <2>3. QED
    BY <2>1, <2>2, FS_Surjection
<1>7. all = UNION {f.entries : f \in Range(c.inputs[1]) \cup Range(c.inputs[2])}
  BY <1>2, <1>3
<1> HIDE DEF sets, all
<1>8. IsFiniteSet(UNION sets)
  BY <1>5, <1>6, FS_UNION
<1>9. QED
  BY <1>2, <1>5, <1>7, <1>8 DEF all

\* The loop of DoCompactionWork, entry by entry.
LEMMA OutputsSteps ==
  ASSUME NEW v, NEW c, NEW snapshot, NEW target, Len(Ordered(InputEntries(c))) \in Nat
  PROVE  LET entries == Ordered(InputEntries(c))
             kept == Kept(v, c, snapshot)
         IN \E g : /\ Outputs(v, c, snapshot, target) = Finish(g[Len(entries)]).done
                   /\ \A i \in 0..Len(entries) :
                        g[i] = IF i = 0 THEN Begun
                               ELSE Put(kept, target, Stop(c, target, g[i - 1], entries[i]), entries[i])
<1> DEFINE entries == Ordered(InputEntries(c))
           kept == Kept(v, c, snapshot)
           g == CHOOSE f : f = Written(c, kept, target, entries, f)
<1>1. Outputs(v, c, snapshot, target) = Finish(g[Len(entries)]).done
  BY DEF Outputs, Written, Begun
<1> HIDE DEF kept, entries
<1>2. g = Written(c, kept, target, entries, g)
  BY WrittenExists DEF entries
<1> HIDE DEF g
<1>3. \A i \in 0..Len(entries) :
        g[i] = IF i = 0 THEN Begun
               ELSE Put(kept, target, Stop(c, target, g[i - 1], entries[i]), entries[i])
  <2>1. \A o, e : (CHOOSE out \in {Put(kept, target, p, e) : p \in {Stop(c, target, q, e) : q \in {o}}} :
                    TRUE) = Put(kept, target, Stop(c, target, o, e), e)
    OBVIOUS
  <2>2. g = [i \in 0..Len(entries) |->
               IF i = 0 THEN Begun
               ELSE CHOOSE out \in {Put(kept, target, o, entries[i]) :
                                    o \in {Stop(c, target, o, entries[i]) : o \in {g[i - 1]}}} :
                      TRUE]
    BY <1>2 DEF Written
  <2>3. QED
    BY <2>1, <2>2
<1>4. QED
  BY <1>1, <1>3 DEF entries, kept

\* A compaction writes files of entries.
LEMMA OutputsFacts ==
  ASSUME NEW v, v \in [Levels -> Seq(File)], NEW c, InputsOf(v, c), NEW snapshot, NEW target
  PROVE  Outputs(v, c, snapshot, target) \in Seq(EntrySet \ {{}})
<1> DEFINE all == InputEntries(c)
           entries == Ordered(all)
           kept == Kept(v, c, snapshot)
<1>1. all \subseteq Entry /\ IsFiniteSet(all)
  BY InputEntriesFacts
<1>2. kept \subseteq Entry
  <2>1. kept \subseteq all
    BY DEF Kept
  <2>2. QED
    BY <1>1, <2>1
<1>3. Len(entries) \in Nat
  <2>1. Cardinality(all) \in Nat
    BY <1>1, FS_CardinalityType
  <2>2. DOMAIN entries = 1..Cardinality(all)
    BY DEF Ordered
  <2> HIDE DEF all, entries
  <2>3. Len(entries) = Cardinality(all)
    BY <2>1, <2>2
  <2>4. QED
    BY <2>1, <2>3
<1>4. PICK g : /\ Outputs(v, c, snapshot, target) = Finish(g[Len(entries)]).done
               /\ \A i \in 0..Len(entries) :
                    g[i] = IF i = 0 THEN Begun
                           ELSE Put(kept, target, Stop(c, target, g[i - 1], entries[i]), entries[i])
  BY <1>3, OutputsSteps
<1> HIDE DEF kept, entries
<1> DEFINE T == {n \in Nat : n <= Len(entries) => InWork(g[n])}
<1>5. 0 \in T
  <2>1. g[0] = Begun
    BY <1>3, <1>4
  <2>2. InWork(Begun)
    BY FS_EmptySet DEF InWork, Begun, EntrySet
  <2>3. QED
    BY <2>1, <2>2
<1>6. ASSUME NEW n \in Nat, n \in T
      PROVE  n + 1 \in T
  <2> SUFFICES ASSUME n + 1 <= Len(entries)
               PROVE  InWork(g[n + 1])
    OBVIOUS
  <2> DEFINE e == entries[n + 1]
  <2>1. InWork(g[n])
    BY <1>3, <1>6
  <2>2. g[n + 1] = Put(kept, target, Stop(c, target, g[n], e), e)
    BY <1>3, <1>4
  <2> HIDE DEF e
  <2>3. InWork(Stop(c, target, g[n], e))
    BY <2>1, StopFacts
  <2>4. InWork(Put(kept, target, Stop(c, target, g[n], e), e))
    BY <1>2, <2>3, PutFacts
  <2>5. QED
    BY <2>2, <2>4
<1>7. InWork(g[Len(entries)])
  <2>1. Nat \subseteq T
    <3> HIDE DEF T
    <3> QED
      BY <1>5, <1>6, SetInduction
  <2>2. QED
    BY <1>3, <2>1
<1>8. InWork(Finish(g[Len(entries)]))
  BY <1>7, FinishFacts
<1>9. QED
  BY <1>4, <1>8 DEF InWork

-----------------------------------------------------------------------------
(* The steps *)

LEMMA CompactionInit == Init => CompactionInv
<1> SUFFICES ASSUME Init PROVE CompactionInv
  OBVIOUS
<1>1. VersionSound(version)
  <2>1. version = [l \in Levels |-> <<>>]
    BY DEF Init
  <2>2. <<>> \in Seq(File) /\ DOMAIN <<>> = {} /\ Range(<<>>) = {}
    BY DEF Range
  <2>3. QED
    BY <2>1, <2>2 DEF VersionSound, Ascending
<1>2. TablesOf(version) = {}
  <2>1. \A l \in Levels : Range(version[l]) = {}
    BY DEF Init, Range
  <2>2. QED
    BY <2>1 DEF TablesOf
<1>3. MemTables
  <2>1. {} \in EntrySet
    BY FS_EmptySet DEF EntrySet
  <2>2. QED
    BY <1>2, <2>1 DEF Init, MemTables
<1>4. LevelsBelow
  BY DEF Init, LevelsBelow, Idle
<1>5. MergeSound
  BY DEF Init, MergeSound, Idle
<1>6. TablesKept
  BY <1>2 DEF Init, TablesKept, Referenced, Pending, Idle
<1>7. QED
  BY <1>1, <1>3, <1>4, <1>5, <1>6 DEF CompactionInv

\* What follows if nothing that a part of the invariant speaks of changes.
LEMMA SameLevels ==
  LevelsBelow /\ UNCHANGED <<seekFile, version, range, manual>> => LevelsBelow'
BY DEF LevelsBelow

LEMMA SameMerge ==
  MergeSound /\ UNCHANGED <<bg, nextFile, version>> => MergeSound'
BY DEF MergeSound, Pending, TablesOf

LEMMA SameMemTables ==
  MemTables /\ UNCHANGED <<scenario, memVars, nextFile, version>> => MemTables'
BY DEF MemTables, memVars, TablesOf

LEMMA SameTables ==
  TablesKept /\ UNCHANGED <<version, iterators, bg, tables>> => TablesKept'
BY DEF TablesKept, Referenced, Pending, TablesOf

LEMMA WriteKeeps ==
  ASSUME CompactionInv, NEW p \in scenario.puts, Write(p[1], p[2])
  PROVE  CompactionInv'
<1>1. UNCHANGED <<scenario, imm, version, tables, nextFile, seekFile, iterators, bg, manual, range>>
  BY DEF Write, diskVars, rangeVars
<1>2. mem' \in EntrySet /\ lastSequence' \in Nat
  <2>1. p[1] \in Keys /\ p[2] \in {"value", "deletion"}
    <3>1. p \in Keys \X {"value", "deletion"}
      BY ScenarioAssumption DEF CompactionInv, MemTables
    <3>2. QED
      BY <3>1
  <2>2. mem \in EntrySet /\ lastSequence \in Nat
    BY DEF CompactionInv, MemTables
  <2> DEFINE e == <<p[1], lastSequence + 1, p[2]>>
  <2>3. e \in Entry
    BY <2>1, <2>2 DEF Entry
  <2>4. mem' = mem \cup {e} /\ lastSequence' = lastSequence + 1
    BY DEF Write
  <2> HIDE DEF e
  <2>5. IsFiniteSet(mem \cup {e})
    BY <2>2, FS_AddElement DEF EntrySet
  <2>6. QED
    BY <2>2, <2>3, <2>4, <2>5 DEF EntrySet
<1>3. MemTables'
  BY <1>1, <1>2 DEF CompactionInv, MemTables, TablesOf
<1>4. QED
  BY <1>1, <1>3, SameLevels, SameMerge, SameTables DEF CompactionInv, VersionSound

LEMMA SwitchKeeps ==
  ASSUME CompactionInv, SwitchMemTable \/ RangeSwitches
  PROVE  CompactionInv'
<1>1. UNCHANGED <<scenario, lastSequence, version, tables, nextFile, seekFile, iterators, bg, manual>>
  BY DEF SwitchMemTable, RangeSwitches, diskVars, rangeVars, readVars
<1>2. imm' = mem /\ mem' = {}
  BY DEF SwitchMemTable, RangeSwitches
<1>3. MemTables'
  <2>1. {} \in EntrySet
    BY FS_EmptySet DEF EntrySet
  <2>2. QED
    BY <1>1, <1>2, <2>1 DEF CompactionInv, MemTables, TablesOf
<1>4. LevelsBelow'
  <2>1. CASE SwitchMemTable
    BY <1>1, <2>1, SameLevels DEF CompactionInv, SwitchMemTable, rangeVars
  <2>2. CASE RangeSwitches
    <3>1. range.at = "switch" /\ range' = [range EXCEPT !.at = "flush"]
      BY <2>2 DEF RangeSwitches
    <3>2. QED
      BY <1>1, <3>1 DEF CompactionInv, LevelsBelow
  <2>3. QED
    BY <2>1, <2>2
<1>5. QED
  BY <1>1, <1>3, <1>4, SameMerge, SameTables DEF CompactionInv, VersionSound

LEMMA ReadersKeep ==
  ASSUME CompactionInv,
         \/ GetSnapshot \/ NewIterator \/ FlushFails
         \/ \E s \in snapshots : ReleaseSnapshot(s)
         \/ \E v \in iterators : CloseIterator(v)
  PROVE  CompactionInv'
<1>1. UNCHANGED <<scenario, memVars, diskVars, seekFile, bg, rangeVars>>
  BY DEF GetSnapshot, NewIterator, ReleaseSnapshot, CloseIterator, FlushFails
<1>2. iterators' \subseteq iterators \cup {version}
  BY DEF GetSnapshot, NewIterator, ReleaseSnapshot, CloseIterator, FlushFails, readVars
<1>3. TablesKept'
  <2>1. Pending' = Pending /\ TablesOf(version)' = TablesOf(version) /\ tables' = tables
    BY <1>1 DEF Pending, diskVars, TablesOf
  <2>2. Referenced' \subseteq Referenced \cup {version}
    BY <1>1, <1>2 DEF Referenced
  <2>3. \A v : TablesOf(v)' = TablesOf(v)
    BY DEF TablesOf
  <2>4. TablesKept
    BY DEF CompactionInv
  <2> DEFINE Needed == UNION {TablesOf(v) : v \in Referenced}
  <2>5. (UNION {TablesOf(v) : v \in Referenced})' \subseteq Needed \cup TablesOf(version)
    BY <2>2
  <2>6. QED
    BY <2>1, <2>4, <2>5 DEF TablesKept
<1>4. QED
  BY <1>1, <1>3, SameLevels, SameMerge, SameMemTables
  DEF CompactionInv, VersionSound, diskVars, rangeVars

\* A file that is charged is one of two that are read, and the other comes later.
LEMMA ChargeKeeps ==
  ASSUME CompactionInv, NEW k, NEW s, ChargeSeek(k, s)
  PROVE  CompactionInv'
<1>1. UNCHANGED <<scenario, memVars, diskVars, iterators, bg, rangeVars>>
  BY DEF ChargeSeek, readVars
<1> DEFINE files == FilesFor(version, k, s)
<1>2. \A a \in files : a[1] \in Levels /\ a[2] \in Range(version[a[1]])
  <2> DEFINE at(l) == FindFile(version[l], <<k, s>>)
             covering == {f \in Range(version[0]) : FirstKey(f) <= k /\ k <= LastKey(f)}
             holding == {l \in Levels \ {0} :
                           at(l) \in DOMAIN version[l] /\ FirstKey(version[l][at(l)]) <= k}
  <2>1. files = {<<0, f>> : f \in covering} \cup {<<l, version[l][at(l)]>> : l \in holding}
    BY DEF FilesFor
  <2>2. \A f \in covering : f \in Range(version[0])
    OBVIOUS
  <2>3. \A l \in holding : l \in Levels /\ version[l][at(l)] \in Range(version[l])
    BY DEF Range
  <2>4. 0 \in Levels
    BY LevelsAssumption DEF Levels
  <2> HIDE DEF files, covering, holding, at
  <2>5. QED
    BY <2>1, <2>2, <2>3, <2>4
<1>3. PICK first \in files :
        /\ files # {first} /\ \A f \in files \ {first} : ReadBefore(first, f)
        /\ seekFile' = first
  BY DEF ChargeSeek
<1> HIDE DEF files
<1>4. PICK f \in files : f # first /\ ReadBefore(first, f)
  BY <1>3
<1>5. first[1] \in Nat /\ first[1] + 1 \in Levels
  <2>1. first[1] \in Levels /\ f[1] \in Levels
    BY <1>2
  <2>2. first[1] < f[1] \/ first[1] = 0
    BY <1>4 DEF ReadBefore
  <2>3. QED
    BY <2>1, <2>2, LevelsAssumption DEF Levels
<1>6. LevelsBelow'
  <2>1. UNCHANGED <<version, range, manual>>
    BY <1>1 DEF diskVars, rangeVars
  <2>2. seekFile'[1] \in Nat /\ seekFile'[1] + 1 \in Levels
        /\ seekFile'[2] \in Range(version'[seekFile'[1]])
    BY <1>2, <1>3, <1>5, <2>1
  <2>3. QED
    BY <2>1, <2>2 DEF CompactionInv, LevelsBelow
<1>7. QED
  BY <1>1, <1>6, SameMerge, SameMemTables, SameTables
  DEF CompactionInv, VersionSound, diskVars, rangeVars

\* A set of levels has a deepest one.
LEMMA DeepestLevel ==
  ASSUME NEW S \in SUBSET Levels, S # {}
  PROVE  Max(S) \in S /\ \A l \in S : l <= Max(S)
<1> DEFINE T == {NumLevels - l : l \in S}
<1>1. T \in SUBSET Nat /\ T # {}
  <2>1. ASSUME NEW l \in S PROVE NumLevels - l \in Nat
    <3>1. l \in 0..NumLevels - 1
      BY DEF Levels
    <3>2. QED
      BY <3>1, LevelsAssumption
  <2>2. QED
    BY <2>1
<1>2. PICK n \in T : \A m \in T : n <= m
  <2> HIDE DEF T
  <2> QED
    BY <1>1, LeastNumber
<1>3. PICK d \in S : n = NumLevels - d
  BY <1>2
<1>4. \A l \in S : NumLevels - d <= NumLevels - l /\ l \in Int
  BY <1>2, <1>3 DEF Levels
<1>5. \A l \in S : d >= l
  BY <1>3, <1>4, LevelsAssumption DEF Levels
<1>6. Max(S) \in S /\ \A l \in S : Max(S) >= l
  BY <1>5 DEF Max
<1>7. QED
  BY <1>6 DEF Levels

\* The call of CompactRange goes from level to level.
LEMMA RangeKeeps ==
  ASSUME CompactionInv,
         \/ \E r \in scenario.ranges : CompactRange(r[1], r[2])
         \/ RangeFlushed \/ RangeClaims \/ RangeAborts \/ ManualDone
  PROVE  CompactionInv'
<1>1. UNCHANGED <<scenario, memVars, diskVars, seekFile, iterators, bg>>
  BY DEF CompactRange, RangeFlushed, RangeClaims, RangeAborts, ManualDone, readVars
<1>2. LevelsBelow
  BY DEF CompactionInv
<1>3. UNCHANGED <<seekFile, version>>
  BY <1>1 DEF diskVars
<1>4. LevelsBelow'
  <2>1. ASSUME NEW r \in scenario.ranges, CompactRange(r[1], r[2])
        PROVE  LevelsBelow'
    <3> DEFINE S == {1} \cup {l \in Levels \ {0} : OverlapInLevel(version, l, r[1], r[2])}
    <3>1. S \in SUBSET (Levels \ {0}) /\ S # {}
      BY LevelsAssumption DEF Levels
    <3>2. range' = [at |-> "switch", level |-> 0, from |-> r[1], lo |-> r[1], hi |-> r[2],
                    last |-> Max(S)]
          /\ range.at = "none" /\ manual' = manual
      BY <2>1 DEF CompactRange
    <3> HIDE DEF S
    <3>3. Max(S) \in Levels \ {0}
      BY <3>1, DeepestLevel
    <3>4. 0 < Max(S)
      BY <3>3 DEF Levels
    <3>5. manual = None
      BY <1>2, <3>2 DEF LevelsBelow
    <3>6. QED
      BY <1>2, <1>3, <3>2, <3>3, <3>4, <3>5 DEF LevelsBelow
  <2>2. CASE RangeFlushed
    <3>1. range.at = "flush" /\ range' = [range EXCEPT !.at = "level"] /\ manual' = manual
      BY <2>2 DEF RangeFlushed
    <3>2. QED
      BY <1>2, <1>3, <3>1 DEF LevelsBelow
  <2>3. CASE RangeClaims
    <3>1. /\ range.at = "level" /\ range' = [range EXCEPT !.at = "wait"]
          /\ manual' = [level |-> range.level, lo |-> range.lo, hi |-> range.hi]
      BY <2>3 DEF RangeClaims
    <3>2. QED
      BY <1>2, <1>3, <3>1 DEF LevelsBelow
  <2>4. CASE RangeAborts
    <3>1. range' = Idle /\ manual' = None
      BY <2>4 DEF RangeAborts
    <3>2. QED
      BY <1>2, <1>3, <3>1 DEF LevelsBelow, Idle
  <2>5. CASE ManualDone
    <3>1. /\ manual # None /\ manual' = None
          /\ range' = IF range.level + 1 < range.last
                      THEN [range EXCEPT !.at = "level", !.level = @ + 1, !.lo = range.from]
                      ELSE Idle
      BY <2>5 DEF ManualDone
    <3>2. range.at = "wait"
      BY <1>2, <3>1 DEF LevelsBelow
    <3>3. QED
      BY <1>2, <1>3, <3>1, <3>2 DEF LevelsBelow, Idle
  <2>6. QED
    BY <2>1, <2>2, <2>3, <2>4, <2>5
<1>5. QED
  BY <1>1, <1>4, SameMerge, SameMemTables, SameTables DEF CompactionInv, VersionSound, diskVars

\* File numbers are numbers.
LEMMA FileNumbers ==
  /\ \A s \in Seq(File) : {f.number : f \in Range(s)} \subseteq Nat
  /\ \A v : VersionSound(v) => TablesOf(v) \subseteq Nat
<1>1. ASSUME NEW s \in Seq(File) PROVE {f.number : f \in Range(s)} \subseteq Nat
  <2>1. \A f \in File : f.number \in Nat
    BY DEF File
  <2>2. Range(s) \subseteq File
    BY DEF Range
  <2>3. QED
    BY <2>1, <2>2
<1>2. ASSUME NEW v, VersionSound(v) PROVE TablesOf(v) \subseteq Nat
  <2>1. \A l \in Levels : v[l] \in Seq(File)
    BY <1>2 DEF VersionSound
  <2>2. \A l \in Levels : {f.number : f \in Range(v[l])} \subseteq Nat
    BY <1>1, <2>1
  <2>3. QED
    BY <2>2 DEF TablesOf
<1>3. QED
  BY <1>1, <1>2

\* The tables of an edited version are those of the old one and the new ones.
LEMMA EditedTables ==
  ASSUME NEW v, VersionSound(v), NEW deleted, NEW added, IsFiniteSet(DOMAIN added),
         \A i \in DOMAIN added : added[i][2] \in File,
         \A i, j \in DOMAIN added : added[i][2].number = added[j][2].number => i = j,
         \A i \in DOMAIN added : \A l \in Levels : \A f \in Range(v[l]) :
           <<l, f.number>> \notin deleted => f.number # added[i][2].number
  PROVE  /\ VersionSound(Edited(v, deleted, added))
         /\ TablesOf(Edited(v, deleted, added))
              \subseteq TablesOf(v) \cup {added[i][2].number : i \in DOMAIN added}
<1> DEFINE w == Edited(v, deleted, added)
<1>1. VersionSound(w) /\ \A l \in Levels : Range(w[l]) =
        {f \in Range(v[l]) : <<l, f.number>> \notin deleted} \cup NewFiles(added, DOMAIN added, l)
  BY InstallFacts
<1> HIDE DEF w
<1>2. ASSUME NEW n \in TablesOf(w)
      PROVE  n \in TablesOf(v) \cup {added[i][2].number : i \in DOMAIN added}
  <2>0. PICK l \in Levels : n \in {f.number : f \in Range(w[l])}
    BY DEF TablesOf
  <2>1. PICK f \in Range(w[l]) : n = f.number
    BY <2>0
  <2>2. CASE f \in Range(v[l])
    BY <2>1, <2>2 DEF TablesOf
  <2>3. CASE \E i \in DOMAIN added : f = added[i][2]
    BY <2>1, <2>3
  <2>4. f \in Range(v[l]) \/ \E i \in DOMAIN added : f = added[i][2]
    <3>1. f \in {g \in Range(v[l]) : <<l, g.number>> \notin deleted}
          \/ f \in NewFiles(added, DOMAIN added, l)
      BY <1>1
    <3>2. f \in NewFiles(added, DOMAIN added, l) => \E i \in DOMAIN added : f = added[i][2]
      BY DEF NewFiles
    <3>3. QED
      BY <3>1, <3>2
  <2>5. QED
    BY <2>2, <2>3, <2>4
<1>3. QED
  BY <1>1, <1>2 DEF w

\* An edit with one new file.
LEMMA OneNewFile ==
  ASSUME NEW v, VersionSound(v), NEW deleted, NEW level, NEW file \in File,
         \A l \in Levels : \A f \in Range(v[l]) :
           <<l, f.number>> \notin deleted => f.number # file.number
  PROVE  LET w == Edited(v, deleted, << <<level, file>> >>)
         IN  VersionSound(w) /\ TablesOf(w) \subseteq TablesOf(v) \cup {file.number}
<1> DEFINE added == << <<level, file>> >>
<1>1. DOMAIN added = {1} /\ added[1][2] = file
  OBVIOUS
<1> HIDE DEF added
<1>2. IsFiniteSet(DOMAIN added)
  BY <1>1, FS_Singleton
<1>3. /\ VersionSound(Edited(v, deleted, added))
      /\ TablesOf(Edited(v, deleted, added))
           \subseteq TablesOf(v) \cup {added[i][2].number : i \in DOMAIN added}
  BY <1>1, <1>2, EditedTables
<1>4. QED
  BY <1>1, <1>3 DEF added

\* A flush adds a table with a new number.
LEMMA FlushKeeps ==
  ASSUME CompactionInv, Flush
  PROVE  CompactionInv'
<1>0. VersionSound(version) /\ MemTables /\ LevelsBelow /\ MergeSound /\ TablesKept
  BY DEF CompactionInv
<1> DEFINE file == Table(nextFile, imm)
           level == PickLevelForMemTableOutput(version, FirstKey(file), LastKey(file), scenario.target)
           added == IF imm = {} THEN <<>> ELSE << <<level, file>> >>
           new == IF imm = {} THEN {} ELSE {nextFile}
           all == tables \cup new
<1>1. /\ imm # None /\ imm' = None /\ nextFile' = nextFile + 1
      /\ version' = Edited(version, {}, added) /\ seekFile' = None
      /\ tables' = IF bgError THEN all ELSE all \cap KeptTables(version', Referenced, Pending)
      /\ UNCHANGED <<scenario, mem, lastSequence, iterators, bg, range, manual>>
  BY DEF Flush, Install, rangeVars, readVars
<1>2. nextFile \in Nat /\ imm \in EntrySet /\ \A n \in TablesOf(version) : n < nextFile
  BY <1>0, <1>1 DEF MemTables
<1> HIDE DEF level
<1>3. VersionSound(version') /\ TablesOf(version') \subseteq TablesOf(version) \cup new
  <2>1. CASE imm = {}
    <3>1. DOMAIN added = {} /\ IsFiniteSet(DOMAIN added)
      BY <2>1, FS_EmptySet
    <3> HIDE DEF added
    <3>2. QED
      BY <1>0, <1>1, <3>1, EditedTables
  <2>2. CASE imm # {}
    <3>1. file \in File /\ file.number = nextFile
      BY <1>2, <2>2, TableFacts
    <3>2. \A l \in Levels : \A f \in Range(version[l]) : f.number # file.number
      <4>1. \A l \in Levels : \A f \in Range(version[l]) : f.number \in TablesOf(version)
        BY DEF TablesOf
      <4>2. \A n \in TablesOf(version) : n # nextFile
        BY <1>2
      <4>3. QED
        BY <3>1, <4>1, <4>2
    <3>3. version' = Edited(version, {}, << <<level, file>> >>)
      BY <1>1, <2>2
    <3> HIDE DEF file
    <3>4. VersionSound(version') /\ TablesOf(version') \subseteq TablesOf(version) \cup {file.number}
      BY <1>0, <3>1, <3>2, <3>3, OneNewFile
    <3>5. QED
      BY <2>2, <3>1, <3>4
  <2>3. QED
    BY <2>1, <2>2
<1> HIDE DEF file, added
<1>4. MemTables'
  <2>1. \A n \in TablesOf(version') : n < nextFile + 1
    <3>1. TablesOf(version) \subseteq Nat
      BY <1>0, FileNumbers
    <3>2. QED
      BY <1>2, <1>3, <3>1
  <2>2. QED
    BY <1>0, <1>1, <1>2, <2>1 DEF MemTables
<1>5. LevelsBelow'
  BY <1>0, <1>1 DEF LevelsBelow
<1>6. Pending' = Pending /\ Referenced' = Referenced
  BY <1>1 DEF Pending, Referenced
<1>7. MergeSound'
  <2>1. bg.at = "merge" => \A n \in Pending : n < nextFile' /\ n \notin TablesOf(version')
    <3> SUFFICES ASSUME bg.at = "merge", NEW n \in Pending
                 PROVE  n < nextFile' /\ n \notin TablesOf(version')
      OBVIOUS
    <3>1. n < nextFile /\ n \notin TablesOf(version)
      BY <1>0 DEF MergeSound
    <3>2. n \in Nat
      <4>1. bg.outputs \in Seq(File) /\ Pending = {f.number : f \in Range(bg.outputs)}
        BY <1>0 DEF MergeSound, Pending
      <4>2. QED
        BY <4>1, FileNumbers
    <3>3. n # nextFile /\ n < nextFile + 1
      BY <1>2, <3>1, <3>2
    <3>4. QED
      BY <1>1, <1>3, <3>1, <3>3
  <2>2. QED
    BY <1>0, <1>1, <1>6, <2>1 DEF MergeSound
<1>8. TablesKept'
  <2> DEFINE Others == (UNION {TablesOf(v) : v \in Referenced}) \cup Pending
  <2>1. \A n \in TablesOf(version) \cup Others : n \in tables
    BY <1>0 DEF TablesKept
  <2>2. (UNION {TablesOf(v) : v \in Referenced})' = UNION {TablesOf(v) : v \in Referenced}
    BY <1>6 DEF TablesOf
  <2>3. TablesOf(version') \cup Others \subseteq KeptTables(version', Referenced, Pending)
    BY DEF KeptTables
  <2>4. TablesOf(version') \cup Others \subseteq all
    BY <1>3, <2>1
  <2> HIDE DEF all
  <2>5. TablesOf(version') \cup Others \subseteq tables'
    BY <1>1, <2>3, <2>4
  <2>6. QED
    BY <1>6, <2>2, <2>5 DEF TablesKept
<1>9. QED
  BY <1>3, <1>4, <1>5, <1>7, <1>8 DEF CompactionInv

\* A compaction begins: what it will write are tables of entries.
LEMMA WorkKeeps ==
  ASSUME CompactionInv, NEW c, InputsOf(version, c), NEW m, Work(c, m),
         UNCHANGED <<scenario, memVars, tables, nextFile, iterators, rangeVars>>
  PROVE  CompactionInv'
<1>0. VersionSound(version) /\ MemTables /\ LevelsBelow /\ MergeSound /\ TablesKept
  BY DEF CompactionInv
<1> DEFINE todo == Outputs(version, c, OldestSnapshot, scenario.target)
<1>1. bg' = [at |-> "merge", manual |-> m, level |-> c.level, inputs |-> c.inputs,
             base |-> version, outputs |-> <<>>, todo |-> todo]
      /\ UNCHANGED <<version, seekFile>>
  BY DEF Work
<1>2. todo \in Seq(EntrySet \ {{}})
  BY <1>0, OutputsFacts DEF VersionSound
<1> HIDE DEF todo
<1>3. Pending' = {} /\ Referenced' = iterators \cup {version}
  BY <1>1 DEF Pending, Referenced, Range
<1>4. MergeSound'
  <2>1. bg'.outputs = <<>> /\ bg'.outputs \in Seq(File) /\ DOMAIN bg'.outputs = {}
    BY <1>1
  <2>2. QED
    BY <1>1, <1>2, <1>3, <2>1 DEF MergeSound
<1>5. TablesKept'
  <2>1. UNION {TablesOf(v) : v \in iterators} \subseteq tables /\ TablesOf(version) \subseteq tables
    BY <1>0 DEF TablesKept, Referenced
  <2>2. (UNION {TablesOf(v) : v \in Referenced})' =
          (UNION {TablesOf(v) : v \in iterators}) \cup TablesOf(version)
    BY <1>3 DEF TablesOf
  <2>3. TablesOf(version)' = TablesOf(version)
    BY <1>1 DEF TablesOf
  <2>4. QED
    BY <1>3, <2>1, <2>2, <2>3 DEF TablesKept
<1>6. QED
  BY <1>0, <1>1, <1>4, <1>5, SameLevels, SameMemTables DEF CompactionInv, VersionSound, rangeVars

LEMMA ManualKeeps ==
  ASSUME CompactionInv, CompactManual
  PROVE  CompactionInv'
<1>1. manual # None
      /\ \E c \in {PickForRange(version, manual.level, manual.lo, manual.hi, scenario.target)} :
           Work(c, TRUE)
      /\ UNCHANGED <<scenario, memVars, tables, nextFile, iterators, rangeVars>>
  BY DEF CompactManual, readVars
<1> DEFINE c == PickForRange(version, manual.level, manual.lo, manual.hi, scenario.target)
<1>2. manual.level \in Levels /\ manual.level + 1 \in Levels
  <2>1. manual.level = range.level /\ range.at = "wait"
    BY <1>1 DEF CompactionInv, LevelsBelow
  <2>2. range.level \in Nat /\ range.last \in Levels /\ range.level < range.last
    BY <2>1 DEF CompactionInv, LevelsBelow
  <2>3. QED
    BY <2>1, <2>2, LevelsAssumption DEF Levels
<1>3. InputsOf(version, c)
  BY <1>2, RangeInputs DEF CompactionInv, VersionSound
<1>4. Work(c, TRUE)
  BY <1>1
<1> HIDE DEF c
<1>5. QED
  BY <1>1, <1>3, <1>4, WorkKeeps

\* A file moves to the next level, or a compaction begins.
LEMMA PickedKeeps ==
  ASSUME CompactionInv, CompactPicked
  PROVE  CompactionInv'
<1>0. VersionSound(version) /\ MemTables /\ LevelsBelow /\ MergeSound /\ TablesKept
  BY DEF CompactionInv
<1>1. bg.at = "none" /\ UNCHANGED <<scenario, memVars, tables, nextFile, iterators, rangeVars>>
  BY DEF CompactPicked, readVars
<1>2. PICK c \in Picked :
        IF IsTrivialMove(c, scenario.target)
        THEN /\ Install({<<c.level, c.inputs[1][1].number>>}, << <<c.level + 1, c.inputs[1][1]>> >>)
             /\ pointers' = [pointers EXCEPT ![c.level] = c.pointer]
             /\ UNCHANGED bg
        ELSE Work(c, FALSE)
  BY DEF CompactPicked
<1>3. InputsOf(version, c)
  <2>1. version \in [Levels -> Seq(File)]
    BY <1>0 DEF VersionSound
  <2>2. CASE c \in {PickForSize(version, l, pointers, scenario.target) : l \in FullestLevels(version)}
    BY <2>1, <2>2, SizeInputs
  <2>3. CASE seekFile # None
             /\ c \in {PickForSeeks(version, seekFile[1], seekFile[2], scenario.target)}
    <3>1. seekFile[1] \in Levels /\ seekFile[1] + 1 \in Levels
          /\ seekFile[2] \in Range(version[seekFile[1]])
      <4>1. seekFile[1] \in Nat /\ seekFile[1] + 1 \in Levels
            /\ seekFile[2] \in Range(version[seekFile[1]])
        BY <1>0, <2>3 DEF LevelsBelow
      <4>2. seekFile[1] \in Levels
        <5>1. \A n \in Nat : n + 1 \in Levels => n \in Levels
          BY LevelsAssumption DEF Levels
        <5>2. QED
          BY <4>1, <5>1
      <4>3. QED
        BY <4>1, <4>2
    <3>2. QED
      BY <2>1, <2>3, <3>1, SeeksInputs
  <2>4. QED
    BY <1>2, <2>2, <2>3 DEF Picked
<1>4. CASE ~IsTrivialMove(c, scenario.target)
  <2>1. Work(c, FALSE)
    BY <1>2, <1>4
  <2>2. QED
    BY <1>1, <1>3, <2>1, WorkKeeps
<1>5. CASE IsTrivialMove(c, scenario.target)
  <2> DEFINE file == c.inputs[1][1]
             deleted == {<<c.level, file.number>>}
  <2>1. /\ version' = Edited(version, deleted, << <<c.level + 1, file>> >>)
        /\ seekFile' = None /\ bg' = bg
    BY <1>2, <1>5 DEF Install
  <2>2. file \in File /\ file \in Range(version[c.level]) /\ c.level \in Levels
    <3>1. Len(c.inputs[1]) = 1 /\ c.inputs[1] \in Seq(File)
          /\ Range(c.inputs[1]) \subseteq Range(version[c.level])
      BY <1>3, <1>5 DEF IsTrivialMove, InputsOf
    <3>2. 1 \in DOMAIN c.inputs[1] /\ file \in File
      BY <3>1
    <3>3. QED
      BY <1>3, <3>1, <3>2 DEF InputsOf, Range
  <2>3. file.number \in TablesOf(version)
    BY <2>2 DEF TablesOf
  <2>4. \A l \in Levels : \A f \in Range(version[l]) :
          <<l, f.number>> \notin deleted => f.number # file.number
    <3> SUFFICES ASSUME NEW l \in Levels, NEW f \in Range(version[l]), f.number = file.number
                 PROVE  <<l, f.number>> \in deleted
      OBVIOUS
    <3>1. l = c.level
      BY <1>0, <2>2 DEF VersionSound
    <3>2. QED
      BY <3>1
  <2> HIDE DEF file, deleted
  <2>5. VersionSound(version') /\ TablesOf(version') \subseteq TablesOf(version)
    <3>1. VersionSound(version') /\ TablesOf(version') \subseteq TablesOf(version) \cup {file.number}
      BY <1>0, <2>1, <2>2, <2>4, OneNewFile
    <3>2. QED
      BY <2>3, <3>1
  <2>6. MemTables'
    BY <1>0, <1>1, <2>5 DEF MemTables, memVars
  <2>7. LevelsBelow'
    BY <1>0, <1>1, <2>1 DEF LevelsBelow, rangeVars
  <2>8. MergeSound'
    BY <1>0, <1>1, <2>1 DEF MergeSound
  <2>9. TablesKept'
    <3>1. Pending' = Pending /\ Referenced' = Referenced /\ tables' = tables
      BY <1>1, <2>1 DEF Pending, Referenced
    <3>2. (UNION {TablesOf(v) : v \in Referenced})' = UNION {TablesOf(v) : v \in Referenced}
      BY <3>1 DEF TablesOf
    <3>3. QED
      BY <1>0, <2>5, <3>1, <3>2 DEF TablesKept
  <2>10. QED
    BY <2>5, <2>6, <2>7, <2>8, <2>9 DEF CompactionInv
<1>6. QED
  BY <1>4, <1>5

LEMMA OutputKeeps ==
  ASSUME CompactionInv, WriteOutput
  PROVE  CompactionInv'
<1>0. VersionSound(version) /\ MemTables /\ LevelsBelow /\ MergeSound /\ TablesKept
  BY DEF CompactionInv
<1> DEFINE file == Table(nextFile, Head(bg.todo))
<1>1. /\ bg.at = "merge" /\ bg.todo # <<>>
      /\ bg' = [bg EXCEPT !.outputs = Append(@, file), !.todo = Tail(@)]
      /\ tables' = tables \cup {nextFile} /\ nextFile' = nextFile + 1
      /\ UNCHANGED <<scenario, memVars, version, seekFile, iterators, rangeVars>>
  BY DEF WriteOutput, readVars
<1>2. /\ DOMAIN bg = {"at", "manual", "level", "inputs", "base", "outputs", "todo"}
      /\ bg.todo \in Seq(EntrySet \ {{}}) /\ bg.outputs \in Seq(File)
      /\ \A i, j \in DOMAIN bg.outputs : bg.outputs[i].number = bg.outputs[j].number => i = j
      /\ \A n \in Pending : n < nextFile /\ n \notin TablesOf(version)
      /\ nextFile \in Nat /\ \A n \in TablesOf(version) : n < nextFile
  BY <1>0, <1>1 DEF MergeSound, MemTables
<1>3. Head(bg.todo) \in EntrySet \ {{}} /\ Tail(bg.todo) \in Seq(EntrySet \ {{}})
  BY <1>1, <1>2
<1>4. file \in File /\ file.number = nextFile
  BY <1>2, <1>3, TableFacts
<1> HIDE DEF file
<1> DEFINE s == bg.outputs
           t == Append(s, file)
<1>5. /\ bg'.at = "merge" /\ bg'.outputs = t /\ bg'.todo = Tail(bg.todo)
      /\ bg'.base = bg.base /\ DOMAIN bg' = DOMAIN bg
  BY <1>1, <1>2
<1>6. s \in Seq(File) /\ Len(s) \in Nat /\ DOMAIN s = 1..Len(s)
  BY <1>2
<1> HIDE DEF s
<1>7. /\ t \in Seq(File) /\ DOMAIN t = 1..(Len(s) + 1)
      /\ \A i \in 1..Len(s) : t[i] = s[i]
      /\ t[Len(s) + 1] = file
  BY <1>4, <1>6
<1> HIDE DEF t
<1>8. Pending = {s[i].number : i \in 1..Len(s)} /\ Pending \subseteq Nat
  <2>1. Pending = {f.number : f \in Range(s)}
    BY <1>1 DEF Pending, s
  <2>2. Range(s) = {s[i] : i \in 1..Len(s)}
    BY <1>6 DEF Range
  <2>3. Pending \subseteq Nat
    BY <1>6, <2>1, FileNumbers
  <2>4. QED
    BY <2>1, <2>2, <2>3
<1>9. Pending' = Pending \cup {nextFile}
  <2>1. Pending' = {f.number : f \in Range(t)}
    BY <1>5 DEF Pending
  <2>2. {f.number : f \in Range(t)} = {t[i].number : i \in 1..(Len(s) + 1)}
    <3>1. Range(t) = {t[i] : i \in 1..(Len(s) + 1)}
      BY <1>7 DEF Range
    <3>2. QED
      BY ONLY ZenonT(60), <3>1
  <2>3. {t[i].number : i \in 1..(Len(s) + 1)} = {s[i].number : i \in 1..Len(s)} \cup {nextFile}
    <3>1. \A i \in 1..(Len(s) + 1) : i \in 1..Len(s) \/ i = Len(s) + 1
      BY <1>6
    <3>2. 1..Len(s) \subseteq 1..(Len(s) + 1) /\ Len(s) + 1 \in 1..(Len(s) + 1)
      BY <1>6
    <3>3. \A i \in 1..Len(s) : t[i].number = s[i].number
      BY <1>7
    <3>4. t[Len(s) + 1].number = nextFile
      BY <1>4, <1>7
    <3>5. QED
      BY ONLY <3>1, <3>2, <3>3, <3>4
  <2>4. QED
    BY ONLY ZenonT(60), <1>8, <2>1, <2>2, <2>3
<1>10. \A n \in Pending : n < nextFile
  BY <1>2
<1>11. \A i, j \in DOMAIN t : t[i].number = t[j].number => i = j
  <2> SUFFICES ASSUME NEW i \in DOMAIN t, NEW j \in DOMAIN t, t[i].number = t[j].number
               PROVE  i = j
    OBVIOUS
  <2>1. \A k \in 1..Len(s) : t[k].number \in Pending
    BY <1>7, <1>8
  <2>2. nextFile \notin Pending
    BY <1>2, <1>10
  <2>3. t[Len(s) + 1].number = nextFile
    BY <1>4, <1>7
  <2>4. i \in 1..Len(s) \/ i = Len(s) + 1
    BY <1>6, <1>7
  <2>5. j \in 1..Len(s) \/ j = Len(s) + 1
    BY <1>6, <1>7
  <2>6. i \in 1..Len(s) /\ j \in 1..Len(s) => i = j
    BY <1>2, <1>6, <1>7 DEF s
  <2>7. QED
    BY <2>1, <2>2, <2>3, <2>4, <2>5, <2>6
<1>12. TablesOf(version)' = TablesOf(version) /\ \A n \in TablesOf(version) : n # nextFile
  <2>1. TablesOf(version)' = TablesOf(version)
    BY <1>1 DEF TablesOf
  <2>2. \A n \in TablesOf(version) : n # nextFile
    BY <1>2
  <2>3. QED
    BY <2>1, <2>2
<1>13. \A n \in Pending' : n < nextFile' /\ n \notin TablesOf(version)'
  <2>1. \A n \in Pending : n < nextFile + 1
    BY <1>2, <1>8, <1>10
  <2>2. nextFile < nextFile + 1
    BY <1>2
  <2>3. QED
    BY <1>1, <1>2, <1>9, <1>12, <2>1, <2>2
<1>14. MergeSound'
  BY <1>2, <1>3, <1>5, <1>7, <1>11, <1>13 DEF MergeSound
<1>15. MemTables'
  <2>1. \A n \in TablesOf(version) : n < nextFile + 1
    <3>1. TablesOf(version) \subseteq Nat
      BY <1>0, FileNumbers
    <3>2. QED
      BY <1>2, <3>1
  <2>2. QED
    BY <1>0, <1>1, <1>2, <1>12, <2>1 DEF MemTables, memVars
<1>16. TablesKept'
  <2>1. Referenced' = Referenced
    BY <1>1, <1>5 DEF Referenced
  <2>2. (UNION {TablesOf(v) : v \in Referenced})' = UNION {TablesOf(v) : v \in Referenced}
    BY <2>1 DEF TablesOf
  <2>3. QED
    BY <1>0, <1>1, <1>9, <1>12, <2>2 DEF TablesKept
<1>17. QED
  BY <1>0, <1>1, <1>14, <1>15, <1>16, SameLevels DEF CompactionInv, VersionSound, rangeVars

\* The manual request that a compaction was for ends.
LEMMA GiveBackFacts ==
  ASSUME LevelsBelow, NEW failed, GiveBack(failed)
  PROVE  /\ range'.at # "none" =>
              /\ DOMAIN range' = {"at", "level", "from", "lo", "hi", "last"}
              /\ range'.level \in Nat /\ range'.last \in Levels /\ range'.level < range'.last
         /\ manual' # None => range'.at = "wait" /\ manual'.level = range'.level
<1>1. CASE UNCHANGED rangeVars
  BY <1>1 DEF LevelsBelow, rangeVars
<1>2. CASE manual # None /\ manual' = None /\ range' = Idle
  BY <1>2 DEF Idle
<1>3. CASE /\ manual # None /\ manual' = None
           /\ range' = [range EXCEPT !.at = "level", !.lo = LastKey(Last(bg.inputs[1]))]
  <2>1. range.at = "wait"
    BY <1>3 DEF LevelsBelow
  <2>2. QED
    BY <1>3, <2>1 DEF LevelsBelow
<1>4. QED
  BY <1>1, <1>2, <1>3 DEF GiveBack

LEMMA FailKeeps ==
  ASSUME CompactionInv, CompactionFails
  PROVE  CompactionInv'
<1>1. /\ GiveBack(TRUE) /\ bg' = Idle
      /\ UNCHANGED <<scenario, memVars, version, tables, nextFile, seekFile, iterators>>
  BY DEF CompactionFails, diskVars, readVars
<1>2. LevelsBelow'
  <2>1. LevelsBelow
    BY DEF CompactionInv
  <2>2. QED
    BY <1>1, <2>1, GiveBackFacts DEF LevelsBelow
<1>3. MergeSound'
  BY <1>1 DEF MergeSound, Idle
<1>4. TablesKept'
  <2>1. Pending' = {} /\ Referenced' = iterators
    BY <1>1 DEF Pending, Referenced, Idle
  <2>2. (UNION {TablesOf(v) : v \in Referenced})' = UNION {TablesOf(v) : v \in iterators}
    BY <2>1 DEF TablesOf
  <2>3. TablesOf(version) \subseteq tables /\ UNION {TablesOf(v) : v \in iterators} \subseteq tables
    BY DEF CompactionInv, TablesKept, Referenced
  <2>4. TablesOf(version)' = TablesOf(version)
    BY <1>1 DEF TablesOf
  <2>5. QED
    BY <1>1, <2>1, <2>2, <2>3, <2>4 DEF TablesKept
<1>5. QED
  BY <1>1, <1>2, <1>3, <1>4, SameMemTables DEF CompactionInv, VersionSound

\* The outputs take the place of the inputs.
LEMMA ResultsKeep ==
  ASSUME CompactionInv, InstallCompactionResults
  PROVE  CompactionInv'
<1>0. VersionSound(version) /\ MemTables /\ LevelsBelow /\ MergeSound /\ TablesKept
  BY DEF CompactionInv
<1> DEFINE deleted == {<<bg.level, f.number>> : f \in Range(bg.inputs[1])}
                        \cup {<<bg.level + 1, f.number>> : f \in Range(bg.inputs[2])}
           added == [i \in DOMAIN bg.outputs |-> <<bg.level + 1, bg.outputs[i]>>]
<1>1. /\ bg.at = "merge" /\ version' = Edited(version, deleted, added) /\ seekFile' = None
      /\ tables' = IF bgError THEN tables ELSE tables \cap KeptTables(version', iterators, {})
      /\ GiveBack(FALSE) /\ bg' = Idle
      /\ UNCHANGED <<scenario, memVars, nextFile, iterators>>
  BY DEF InstallCompactionResults, Install, readVars
<1> HIDE DEF deleted
<1>2. /\ bg.outputs \in Seq(File)
      /\ \A i, j \in DOMAIN bg.outputs : bg.outputs[i].number = bg.outputs[j].number => i = j
      /\ \A n \in Pending : n < nextFile /\ n \notin TablesOf(version)
  BY <1>0, <1>1 DEF MergeSound
<1>3. /\ DOMAIN added = DOMAIN bg.outputs
      /\ \A i \in DOMAIN added : added[i][2] = bg.outputs[i]
  OBVIOUS
<1>4. \A i \in DOMAIN added : added[i][2].number \in Pending
  BY <1>1, <1>3 DEF Pending, Range
<1>5. IsFiniteSet(DOMAIN added)
  <2>1. Len(bg.outputs) \in Int /\ DOMAIN bg.outputs = 1..Len(bg.outputs)
    BY <1>2
  <2>2. QED
    BY <1>3, <2>1, FS_Interval
<1>6. \A i \in DOMAIN added : added[i][2] \in File
  BY <1>2, <1>3
<1>7. \A i, j \in DOMAIN added : added[i][2].number = added[j][2].number => i = j
  BY <1>2, <1>3
<1>8. \A i \in DOMAIN added : \A l \in Levels : \A f \in Range(version[l]) :
        f.number # added[i][2].number
  <2>1. \A l \in Levels : \A f \in Range(version[l]) : f.number \in TablesOf(version)
    BY DEF TablesOf
  <2>2. QED
    BY <1>2, <1>4, <2>1
<1> HIDE DEF added
<1>9. /\ VersionSound(version')
      /\ TablesOf(version') \subseteq TablesOf(version) \cup {added[i][2].number : i \in DOMAIN added}
  BY <1>0, <1>1, <1>5, <1>6, <1>7, <1>8, EditedTables
<1>10. TablesOf(version') \subseteq TablesOf(version) \cup Pending
  BY <1>4, <1>9
<1>11. MemTables'
  <2>1. \A n \in TablesOf(version') : n < nextFile
    BY <1>0, <1>2, <1>10 DEF MemTables
  <2>2. QED
    BY <1>0, <1>1, <2>1 DEF MemTables, memVars
<1>12. LevelsBelow'
  BY <1>0, <1>1, GiveBackFacts DEF LevelsBelow
<1>13. MergeSound'
  BY <1>1 DEF MergeSound, Idle
<1>14. TablesKept'
  <2>1. Pending' = {} /\ Referenced' = iterators
    BY <1>1 DEF Pending, Referenced, Idle
  <2> DEFINE Others == UNION {TablesOf(v) : v \in iterators}
  <2>2. (UNION {TablesOf(v) : v \in Referenced})' = Others
    BY <2>1 DEF TablesOf
  <2>3. TablesOf(version) \cup Pending \cup Others \subseteq tables
    BY <1>0 DEF TablesKept, Referenced
  <2>4. TablesOf(version') \cup Others \subseteq KeptTables(version', iterators, {})
    BY DEF KeptTables
  <2>5. TablesOf(version') \cup Others \subseteq tables'
    BY <1>1, <1>10, <2>3, <2>4
  <2>6. QED
    BY <2>1, <2>2, <2>5 DEF TablesKept
<1>15. QED
  BY <1>9, <1>11, <1>12, <1>13, <1>14 DEF CompactionInv

LEMMA CompactionNext == CompactionInv /\ [Next]_vars => CompactionInv'
<1> SUFFICES ASSUME CompactionInv, [Next]_vars PROVE CompactionInv'
  OBVIOUS
<1>1. CASE UNCHANGED vars
  <2>1. UNCHANGED <<scenario, memVars, version, tables, nextFile, seekFile, iterators, bg,
                    range, manual>>
    BY <1>1 DEF vars, diskVars, readVars, rangeVars
  <2>2. QED
    BY <2>1, SameLevels, SameMerge, SameMemTables, SameTables DEF CompactionInv, VersionSound
<1>2. CASE \E p \in scenario.puts : Write(p[1], p[2])
  BY <1>2, WriteKeeps
<1>3. CASE SwitchMemTable
  BY <1>3, SwitchKeeps
<1>4. CASE \/ GetSnapshot \/ NewIterator \/ FlushFails
           \/ \E s \in snapshots : ReleaseSnapshot(s)
           \/ \E v \in iterators : CloseIterator(v)
  BY <1>4, ReadersKeep
<1>5. CASE \E k \in Keys : \E s \in snapshots \cup {lastSequence} : ChargeSeek(k, s)
  BY <1>5, ChargeKeeps
<1>6. CASE \E r \in scenario.ranges : CompactRange(r[1], r[2])
  BY <1>6, RangeKeeps
<1>7. CASE RangeSteps
  BY <1>7, SwitchKeeps, RangeKeeps DEF RangeSteps
<1>8. CASE Background
  BY <1>8, FlushKeeps, PickedKeeps, RangeKeeps, ManualKeeps, OutputKeeps, ResultsKeep
  DEF Background
<1>9. CASE CompactionFails
  BY <1>9, FailKeeps
<1>10. QED
  BY Zenon, <1>1, <1>2, <1>3, <1>4, <1>5, <1>6, <1>7, <1>8, <1>9 DEF Next

\* Sound versions, new tables for what is written, and levels to go to, throughout.
THEOREM CompactionInvariant == Spec => []CompactionInv
<1>1. Init => CompactionInv
  BY CompactionInit
<1>2. CompactionInv /\ [Next]_vars => CompactionInv'
  BY CompactionNext
<1>3. QED
  BY <1>1, <1>2, PTL DEF Spec

LEMMA InvTypes == CompactionInv => TypeOK
<1> SUFFICES ASSUME CompactionInv PROVE TypeOK
  OBVIOUS
<1>1. VersionSound(version) /\ MemTables /\ LevelsBelow
  BY DEF CompactionInv
<1>2. \A l \in Levels : \A i \in 2..Len(version[l]) :
        BySmallestKey(version[l][i - 1], version[l][i])
  <2> SUFFICES ASSUME NEW l \in Levels, NEW i \in 2..Len(version[l])
               PROVE  BySmallestKey(version[l][i - 1], version[l][i])
    OBVIOUS
  <2> DEFINE s == version[l]
  <2>1. s \in Seq(File) /\ Ascending(s, InOrder)
    BY <1>1 DEF VersionSound
  <2> HIDE DEF s
  <2>2. i \in 2..Len(s)
    BY DEF s
  <2>3. i - 1 \in DOMAIN s /\ i \in DOMAIN s /\ i - 1 < i
    BY <2>1, <2>2
  <2>4. <<s[i - 1], s[i]>> \in InOrder
    BY <2>1, <2>3 DEF Ascending
  <2>5. QED
    BY <2>4 DEF InOrder, s
<1>3. \A l \in Levels : \A f \in Files(version, l) : f.entries # {} /\ f.number < nextFile
  <2>1. \A l \in Levels : \A f \in Range(version[l]) : f.number \in TablesOf(version)
    BY DEF TablesOf
  <2>2. \A l \in Levels : Range(version[l]) \subseteq File
    BY <1>1 DEF VersionSound, Range
  <2>3. \A f \in File : f.entries # {}
    BY DEF File
  <2>4. QED
    BY <1>1, <2>1, <2>2, <2>3 DEF MemTables, Files
<1>4. \A l, m \in Levels : l # m => {f.number : f \in Files(version, l)}
                                       \cap {f.number : f \in Files(version, m)} = {}
  BY <1>1 DEF VersionSound, Files
<1>5. seekFile # None => seekFile[1] + 1 \in Levels /\ seekFile[2] \in Files(version, seekFile[1])
  BY <1>1 DEF LevelsBelow, Files
<1>6. range.at = "none" => manual = None
  BY <1>1 DEF LevelsBelow
<1>7. QED
  BY <1>2, <1>3, <1>4, <1>5, <1>6 DEF TypeOK

\* Whatever is flushed, merged, moved or given up: a level's files are in Builder's order, no
\* table is in two levels, and what is to be compacted is there and has a level to go to.
THEOREM CompactionTypes == Spec => []TypeOK
BY CompactionInvariant, InvTypes, PTL

\* However many iterators are open, whatever a flush does during a merge and whatever fails:
\* DeleteObsoleteFiles deletes no table that a version in use or the merge under way needs.
THEOREM CompactionTablesKept == Spec => []TablesKept
<1>1. CompactionInv => TablesKept
  BY DEF CompactionInv
<1>2. QED
  BY <1>1, CompactionInvariant, PTL

-----------------------------------------------------------------------------
(* The keys of files *)

\* A file's first and last entries are what they are called.
Bounded(f) ==
  /\ f.smallest \in f.entries /\ f.largest \in f.entries
  /\ \A e \in f.entries : ~Before(e, f.smallest) /\ ~Before(f.largest, e)

\* One file ends before the other begins.
Apart(f, g) == Before(f.largest, g.smallest) \/ Before(g.largest, f.smallest)

LEMMA EntryTypes == \A a \in Entry : a[1] \in Int /\ a[2] \in Nat
<1> SUFFICES ASSUME NEW a \in Entry PROVE a[1] \in Int /\ a[2] \in Nat
  OBVIOUS
<1>1. a[1] \in Keys /\ a[2] \in Nat
  BY DEF Entry
<1>2. a[1] \in Int
  BY Zenon, <1>1, ScenarioAssumption
<1>3. QED
  BY <1>1, <1>2

LEMMA FileKeys ==
  ASSUME NEW f \in File, Bounded(f)
  PROVE  /\ FirstKey(f) \in Int /\ LastKey(f) \in Int /\ FirstKey(f) <= LastKey(f)
         /\ \A e \in f.entries : e \in Entry /\ FirstKey(f) <= e[1] /\ e[1] <= LastKey(f)
<1>1. f.entries \subseteq Entry /\ f.smallest \in Entry /\ f.largest \in Entry
  BY DEF File, EntrySet
<1>2. \A e \in f.entries : e[1] \in Int /\ e[2] \in Nat
  BY <1>1, EntryTypes
<1>3. QED
  BY <1>1, <1>2 DEF Bounded, Before, FirstKey, LastKey

LEMMA TableBounded ==
  ASSUME NEW n \in Nat, NEW S \in EntrySet \ {{}}
  PROVE  Bounded(Table(n, S))
<1>1. S \in SUBSET Entry /\ IsFiniteSet(S) /\ S # {}
  BY DEF EntrySet
<1>2. \E e \in S : \A d \in S : ~Before(d, e)
  <2> DEFINE R == {p \in S \X S : Before(p[1], p[2])}
  <2>1. \A x, y \in S : <<x, y>> \in R <=> Before(x, y)
    OBVIOUS
  <2> HIDE DEF R
  <2>2. \E e \in S : \A d \in S : <<d, e>> \notin R
    BY SMTT(60), <1>1, <2>1, BeforeOrders, FirstExists
  <2>3. QED
    BY <2>1, <2>2
<1>3. \E e \in S : \A d \in S : ~Before(e, d)
  <2> DEFINE R == {p \in S \X S : Before(p[2], p[1])}
  <2>1. \A x, y \in S : <<x, y>> \in R <=> Before(y, x)
    OBVIOUS
  <2> HIDE DEF R
  <2>2. \E e \in S : \A d \in S : <<d, e>> \notin R
    BY SMTT(60), <1>1, <2>1, BeforeOrders, FirstExists
  <2>3. QED
    BY <2>1, <2>2
<1>4. QED
  BY <1>2, <1>3 DEF Table, Bounded

-----------------------------------------------------------------------------
(* FindFile *)

\* The search of FindFile, when just the first b files end before the target.
LEMMA Search ==
  ASSUME NEW files, NEW target, NEW n \in Nat, n = Len(files), NEW b \in 0..n,
         \A i \in 1..n : Before(files[i].largest, target) <=> i <= b
  PROVE  FindFile(files, target) = b + 1
<1> DEFINE Body(s, left, right) ==
             IF left >= right THEN right
             ELSE IF Before(files[((left + right) \div 2) + 1].largest, target)
                  THEN s[<<((left + right) \div 2) + 1, right>>]
                  ELSE s[<<left, (left + right) \div 2>>]
           Is(s) == s = [r \in (0..n) \X (0..n) |-> Body(s, r[1], r[2])]
           Found(left, right) ==
             IF left >= right THEN right
             ELSE IF b <= left THEN left ELSE IF b >= right THEN right ELSE b
           g == [r \in (0..n) \X (0..n) |-> Found(r[1], r[2])]
           f == CHOOSE s : Is(s)
<1>1. \A left, right \in 0..n : \A mid : left < right /\ mid = (left + right) \div 2 =>
        /\ mid \in left..(right - 1) /\ mid \in 0..n /\ mid + 1 \in 0..n
        /\ Before(files[mid + 1].largest, target) <=> mid + 1 <= b
        /\ mid + 1 <= b => Found(left, right) = Found(mid + 1, right)
        /\ ~(mid + 1 <= b) => Found(left, right) = Found(left, mid)
  <2> SUFFICES ASSUME NEW left \in 0..n, NEW right \in 0..n, left < right,
                      NEW mid, mid = (left + right) \div 2
               PROVE  /\ mid \in left..(right - 1) /\ mid \in 0..n /\ mid + 1 \in 0..n
                      /\ Before(files[mid + 1].largest, target) <=> mid + 1 <= b
                      /\ mid + 1 <= b => Found(left, right) = Found(mid + 1, right)
                      /\ ~(mid + 1 <= b) => Found(left, right) = Found(left, mid)
    BY Zenon
  <2>1. mid \in left..(right - 1)
    OBVIOUS
  <2>2. mid + 1 \in 1..n
    BY <2>1
  <2>3. Before(files[mid + 1].largest, target) <=> mid + 1 <= b
    BY <2>2
  <2>4. QED
    BY <2>1, <2>2, <2>3
<1>2. Is(g)
  <2>1. ASSUME NEW left \in 0..n, NEW right \in 0..n
        PROVE  Found(left, right) = Body(g, left, right)
    <3>1. CASE left >= right
      BY <3>1
    <3>2. CASE left < right
      <4> DEFINE mid == (left + right) \div 2
      <4> HIDE DEF Found, mid
      <4>0. mid = (left + right) \div 2
        BY DEF mid
      <4>1. /\ mid \in left..(right - 1) /\ mid \in 0..n /\ mid + 1 \in 0..n
            /\ Before(files[mid + 1].largest, target) <=> mid + 1 <= b
            /\ mid + 1 <= b => Found(left, right) = Found(mid + 1, right)
            /\ ~(mid + 1 <= b) => Found(left, right) = Found(left, mid)
        BY ONLY Zenon, <1>1, <3>2, <4>0, left \in 0..n, right \in 0..n
      <4>2. ~(left >= right)
        BY <3>2
      <4>3. Body(g, left, right) = IF Before(files[mid + 1].largest, target)
                                   THEN g[<<mid + 1, right>>] ELSE g[<<left, mid>>]
        BY <4>2 DEF mid
      <4> HIDE DEF Body
      <4>4. g[<<mid + 1, right>>] = Found(mid + 1, right) /\ g[<<left, mid>>] = Found(left, mid)
        BY <4>1
      <4>5. QED
        BY <4>1, <4>3, <4>4
    <3>3. QED
      BY <3>1, <3>2
  <2>2. QED
    BY <2>1
<1>3. Is(f)
  <2> HIDE DEF Is, g
  <2> QED
    BY <1>2
<1> HIDE DEF f, g
<1> DEFINE T == {k \in Nat : \A left, right \in 0..n :
                   right - left <= k => f[<<left, right>>] = Found(left, right)}
<1>4. \A left, right \in 0..n : f[<<left, right>>] = Body(f, left, right)
  <2> HIDE DEF Body
  <2> QED
    BY <1>3
<1>5. 0 \in T
  <2> SUFFICES ASSUME NEW left \in 0..n, NEW right \in 0..n, right - left <= 0
               PROVE  f[<<left, right>>] = Found(left, right)
    OBVIOUS
  <2>1. left >= right
    OBVIOUS
  <2>2. QED
    BY <1>4, <2>1
<1>6. ASSUME NEW k \in Nat, k \in T
      PROVE  k + 1 \in T
  <2> SUFFICES ASSUME NEW left \in 0..n, NEW right \in 0..n, right - left <= k + 1
               PROVE  f[<<left, right>>] = Found(left, right)
    OBVIOUS
  <2>1. CASE left >= right
    BY <1>4, <2>1
  <2>2. CASE left < right
    <3> DEFINE mid == (left + right) \div 2
    <3> HIDE DEF Found, mid
    <3>0. mid = (left + right) \div 2
      BY DEF mid
    <3>1. /\ mid \in left..(right - 1) /\ mid \in 0..n /\ mid + 1 \in 0..n
          /\ Before(files[mid + 1].largest, target) <=> mid + 1 <= b
          /\ mid + 1 <= b => Found(left, right) = Found(mid + 1, right)
          /\ ~(mid + 1 <= b) => Found(left, right) = Found(left, mid)
      BY ONLY Zenon, <1>1, <2>2, <3>0, left \in 0..n, right \in 0..n
    <3>2. Body(f, left, right) = IF Before(files[mid + 1].largest, target)
                                 THEN f[<<mid + 1, right>>] ELSE f[<<left, mid>>]
      BY <2>2 DEF mid
    <3> HIDE DEF Body
    <3>3. right - (mid + 1) <= k /\ mid - left <= k
      BY <3>1
    <3>4. f[<<mid + 1, right>>] = Found(mid + 1, right) /\ f[<<left, mid>>] = Found(left, mid)
      BY <1>6, <3>1, <3>3
    <3>5. QED
      BY <1>4, <3>1, <3>2, <3>4
  <2>3. QED
    BY <2>1, <2>2
<1>7. f[<<0, n>>] = Found(0, n)
  <2>1. Nat \subseteq T
    <3> HIDE DEF T
    <3> QED
      BY <1>5, <1>6, SetInduction
  <2>2. n \in T
    <3> HIDE DEF T
    <3> QED
      BY <2>1
  <2>3. 0 \in 0..n /\ n \in 0..n /\ n - 0 <= n
    OBVIOUS
  <2> HIDE DEF Found
  <2>4. QED
    BY <2>2, <2>3
<1>8. FindFile(files, target) = f[<<0, n>>] + 1
  BY DEF FindFile, f
<1>9. Found(0, n) = b
  OBVIOUS
<1>10. QED
  BY <1>7, <1>8, <1>9

\* FindFile finds how many files end before the target, if those are the first ones.
LEMMA FindFileFacts ==
  ASSUME NEW files \in Seq(File), NEW target,
         \A i, j \in 1..Len(files) :
           i < j /\ Before(files[j].largest, target) => Before(files[i].largest, target)
  PROVE  /\ FindFile(files, target) \in 1..(Len(files) + 1)
         /\ \A i \in 1..Len(files) : Before(files[i].largest, target) <=> i < FindFile(files, target)
<1> DEFINE n == Len(files)
           T == {i \in 0..n : i = n \/ ~Before(files[i + 1].largest, target)}
<1>1. n \in Nat
  OBVIOUS
<1>2. n \in T /\ T \in SUBSET Nat
  BY <1>1
<1>3. PICK b \in T : \A i \in T : b <= i
  <2> HIDE DEF T
  <2> QED
    BY <1>2, LeastNumber
<1> HIDE DEF n
<1>4. b \in 0..n /\ (b = n \/ ~Before(files[b + 1].largest, target))
  OBVIOUS
<1>5. \A i \in 0..n : i < b => Before(files[i + 1].largest, target)
  BY <1>1, <1>3
<1>6. \A i \in 1..n : Before(files[i].largest, target) <=> i <= b
  <2> SUFFICES ASSUME NEW i \in 1..n
               PROVE  Before(files[i].largest, target) <=> i <= b
    OBVIOUS
  <2>1. CASE i <= b
    <3>1. i - 1 \in 0..n /\ i - 1 < b /\ (i - 1) + 1 = i
      BY <1>1, <1>4, <2>1
    <3>2. Before(files[(i - 1) + 1].largest, target)
      BY <1>5, <3>1
    <3>3. QED
      BY <2>1, <3>1, <3>2
  <2>2. CASE b < i
    <3>1. b + 1 \in 1..n /\ ~Before(files[b + 1].largest, target)
      BY <1>1, <1>4, <2>2
    <3>2. b + 1 = i \/ b + 1 < i
      BY <1>1, <1>4, <2>2
    <3>3. ~Before(files[i].largest, target)
      BY <3>1, <3>2 DEF n
    <3>4. ~(i <= b)
      BY <1>1, <1>4, <2>2
    <3>5. QED
      BY <3>3, <3>4
  <2>3. i <= b \/ b < i
    BY <1>1, <1>4
  <2>4. QED
    BY <2>1, <2>2, <2>3
<1>7. FindFile(files, target) = b + 1
  BY <1>1, <1>4, <1>6, Search DEF n
<1>8. QED
  BY <1>1, <1>4, <1>6, <1>7 DEF n

-----------------------------------------------------------------------------
(* Levels whose files do not overlap *)

LevelsApart(v) == \A l \in Levels \ {0} : \A f, g \in Range(v[l]) : f # g => Apart(f, g)
FilesOf(v) == UNION {Range(v[l]) : l \in Levels}
AllBounded(v) == \A f \in FilesOf(v) : Bounded(f)
Numbers(v) == \A f \in FilesOf(v) : \A e \in f.entries : e[2] <= MaxSequence

\* Then each file ends before those after it begin.
LEMMA FilesApart ==
  ASSUME NEW files \in Seq(File), Ascending(files, InOrder),
         \A f \in Range(files) : Bounded(f),
         \A f, g \in Range(files) : f # g => Apart(f, g),
         NEW i \in DOMAIN files, NEW j \in DOMAIN files, i < j
  PROVE  Before(files[i].largest, files[j].smallest)
<1> DEFINE f == files[i]
           g == files[j]
<1>1. f \in Range(files) /\ g \in Range(files) /\ f \in File /\ g \in File
  BY DEF Range
<1>2. BySmallestKey(f, g)
  BY DEF Ascending, InOrder
<1>3. /\ f.smallest \in Entry /\ f.largest \in Entry /\ g.smallest \in Entry /\ g.largest \in Entry
      /\ f.number \in Nat
      /\ ~Before(f.largest, f.smallest) /\ ~Before(g.largest, g.smallest)
  BY <1>1 DEF File, Bounded
<1> HIDE DEF f, g
<1>4. f # g
  BY <1>2, <1>3, BeforeOrders DEF BySmallestKey
<1>5. Apart(f, g)
  BY <1>1, <1>4
<1>6. ~Before(g.largest, f.smallest)
  <2> SUFFICES ASSUME Before(g.largest, f.smallest) PROVE FALSE
    OBVIOUS
  <2>1. Before(g.smallest, f.smallest)
    BY <1>3, BeforeOrders
  <2>2. ~Before(f.smallest, g.smallest)
    BY <1>3, <2>1, BeforeOrders
  <2>3. QED
    BY <1>2, <2>1, <2>2 DEF BySmallestKey
<1>7. QED
  BY <1>5, <1>6 DEF Apart, f, g

\* A search that finds no overlap overlooks none.
LEMMA OverlapSound ==
  ASSUME NEW v, VersionSound(v), AllBounded(v), LevelsApart(v), Numbers(v),
         NEW l \in Levels, NEW lo \in Int, NEW hi \in Int, ~OverlapInLevel(v, l, lo, hi),
         NEW f \in Range(v[l])
  PROVE  LastKey(f) < lo \/ hi < FirstKey(f)
<1> DEFINE files == v[l]
           target == <<lo, MaxSequence>>
           at == FindFile(files, target)
<1>1. files \in Seq(File) /\ Ascending(files, InOrder) /\ Range(files) \subseteq FilesOf(v)
  BY DEF VersionSound, FilesOf
<1>2. PICK i \in DOMAIN files : f = files[i]
  BY DEF Range
<1>3. \A g \in Range(files) : g \in File /\ Bounded(g) /\ FirstKey(g) \in Int /\ LastKey(g) \in Int
  BY <1>1, FileKeys DEF AllBounded, Range
<1>4. CASE l = 0
  <2>1. ~\E k \in DOMAIN files : ~(lo > LastKey(files[k])) /\ ~(hi < FirstKey(files[k]))
    BY <1>4 DEF OverlapInLevel
  <2>2. FirstKey(f) \in Int /\ LastKey(f) \in Int
    BY <1>3
  <2>3. lo > LastKey(f) \/ hi < FirstKey(f)
    BY <1>2, <2>1
  <2>4. QED
    BY <2>2, <2>3
<1>5. CASE l # 0
  <2>1. ~(at <= Len(files) /\ ~(hi < FirstKey(files[at])))
    BY <1>5 DEF OverlapInLevel
  <2>2. \A g, h \in Range(files) : g # h => Apart(g, h)
    BY <1>5 DEF LevelsApart
  <2> HIDE DEF files, at, target
  <2>3. Len(files) \in Nat /\ DOMAIN files = 1..Len(files)
        /\ \A k \in DOMAIN files : files[k] \in Range(files)
    BY <1>1 DEF Range
  <2>4. \A k, m \in DOMAIN files : k < m => Before(files[k].largest, files[m].smallest)
    BY <1>1, <1>3, <2>2, FilesApart
  <2>5. \A k \in DOMAIN files :
          /\ files[k].largest \in Entry /\ files[k].smallest \in Entry
          /\ ~Before(files[k].largest, files[k].smallest)
          /\ Before(files[k].largest, target) <=> LastKey(files[k]) < lo
    <3> SUFFICES ASSUME NEW k \in DOMAIN files
                 PROVE  /\ files[k].largest \in Entry /\ files[k].smallest \in Entry
                        /\ ~Before(files[k].largest, files[k].smallest)
                        /\ Before(files[k].largest, target) <=> LastKey(files[k]) < lo
      OBVIOUS
    <3> DEFINE g == files[k]
    <3>1. g \in File /\ Bounded(g) /\ g \in FilesOf(v) /\ LastKey(g) \in Int
      BY <1>1, <1>3, <2>3
    <3> HIDE DEF g
    <3>2. /\ g.largest \in Entry /\ g.smallest \in Entry /\ ~Before(g.largest, g.smallest)
          /\ g.largest[2] <= MaxSequence /\ g.largest[2] \in Nat
      BY <3>1, EntryTypes DEF File, Bounded, Numbers
    <3>3. ~(g.largest[2] > MaxSequence)
      BY <3>2, LevelsAssumption
    <3>4. Before(g.largest, target) <=> LastKey(g) < lo
      BY <3>3 DEF Before, target, LastKey
    <3>5. QED
      BY <3>2, <3>4 DEF g
  <2>6. \A k, m \in DOMAIN files : k < m => /\ LastKey(files[k]) <= FirstKey(files[m])
                                           /\ FirstKey(files[k]) <= FirstKey(files[m])
                                           /\ LastKey(files[k]) <= LastKey(files[m])
    <3> SUFFICES ASSUME NEW k \in DOMAIN files, NEW m \in DOMAIN files, k < m
                 PROVE  /\ LastKey(files[k]) <= FirstKey(files[m])
                        /\ FirstKey(files[k]) <= FirstKey(files[m])
                        /\ LastKey(files[k]) <= LastKey(files[m])
      OBVIOUS
    <3>1. /\ FirstKey(files[k]) \in Int /\ LastKey(files[k]) \in Int
          /\ FirstKey(files[m]) \in Int /\ LastKey(files[m]) \in Int
          /\ FirstKey(files[k]) <= LastKey(files[k]) /\ FirstKey(files[m]) <= LastKey(files[m])
      BY <1>3, <2>3, FileKeys
    <3>2. LastKey(files[k]) <= FirstKey(files[m])
      BY <2>4, <3>1 DEF Before, FirstKey, LastKey
    <3>3. QED
      BY <3>1, <3>2
  <2>7. \A k, m \in 1..Len(files) :
          k < m /\ Before(files[m].largest, target) => Before(files[k].largest, target)
    <3> SUFFICES ASSUME NEW k \in 1..Len(files), NEW m \in 1..Len(files), k < m,
                        Before(files[m].largest, target)
                 PROVE  Before(files[k].largest, target)
      OBVIOUS
    <3>1. LastKey(files[k]) <= LastKey(files[m]) /\ LastKey(files[m]) < lo
      BY <2>3, <2>5, <2>6
    <3>2. LastKey(files[k]) \in Int /\ LastKey(files[m]) \in Int
      BY <1>3, <2>3
    <3>3. QED
      BY <2>3, <2>5, <3>1, <3>2
  <2>8. /\ at \in 1..(Len(files) + 1)
        /\ \A k \in 1..Len(files) : Before(files[k].largest, target) <=> k < at
    BY <1>1, <2>7, FindFileFacts DEF at
  <2>9. CASE i < at
    BY <1>2, <2>3, <2>5, <2>8, <2>9
  <2>10. CASE at <= i
    <3>1. at \in DOMAIN files /\ hi < FirstKey(files[at])
      BY <2>1, <2>3, <2>8, <2>10
    <3>2. at = i \/ at < i
      BY <2>3, <2>8, <2>10
    <3>3. FirstKey(files[at]) \in Int /\ FirstKey(files[i]) \in Int
      BY <1>3, <2>3, <3>1
    <3>4. at < i => FirstKey(files[at]) <= FirstKey(files[i])
      BY <2>6, <3>1
    <3>5. QED
      BY <1>2, <3>1, <3>2, <3>3, <3>4
  <2>11. QED
    BY <2>3, <2>8, <2>9, <2>10
<1>6. QED
  BY <1>4, <1>5

\* A flushed file goes to level 0, or to where no file overlaps it down to its level.
LEMMA PickLevel ==
  ASSUME NEW v, NEW lo, NEW hi, NEW target
  PROVE  LET level == PickLevelForMemTableOutput(v, lo, hi, target)
         IN  /\ level \in Levels
             /\ level # 0 => \A m \in 0..level : ~OverlapInLevel(v, m, lo, hi)
<1> DEFINE S == {l \in 0..MaxMemCompactLevel : \A m \in 1..l :
                   /\ ~OverlapInLevel(v, m, lo, hi)
                   /\ m + 1 < NumLevels =>
                        Size(Overlapping(v, m + 1, lo, hi)) <= GrandparentFactor * target}
           level == PickLevelForMemTableOutput(v, lo, hi, target)
<1>1. level = IF OverlapInLevel(v, 0, lo, hi) THEN 0 ELSE Max(S)
  BY DEF PickLevelForMemTableOutput
<1>2. 0 \in S /\ S \in SUBSET Levels
  BY LevelsAssumption DEF Levels
<1>3. \A l \in S : \A m \in 1..l : ~OverlapInLevel(v, m, lo, hi)
  OBVIOUS
<1> HIDE DEF S, level
<1>4. Max(S) \in S
  BY <1>2, DeepestLevel
<1>5. CASE OverlapInLevel(v, 0, lo, hi)
  BY <1>1, <1>2, <1>5 DEF level
<1>6. CASE ~OverlapInLevel(v, 0, lo, hi)
  <2>1. level = Max(S) /\ level \in Levels
    BY <1>1, <1>2, <1>4, <1>6
  <2>2. \A m \in 0..level : m = 0 \/ m \in 1..level
    BY <2>1 DEF Levels
  <2>3. QED
    BY <1>3, <1>4, <1>6, <2>1, <2>2 DEF level
<1>7. QED
  BY <1>5, <1>6

-----------------------------------------------------------------------------
(* The order in which entries are written *)

\* Sorting a set in which no two entries are at the same place.
LEMMA OrderedFacts ==
  ASSUME NEW S, S \subseteq Entry, IsFiniteSet(S),
         \A d, e \in S : d # e => Before(d, e) \/ Before(e, d)
  PROVE  /\ Len(Ordered(S)) \in Nat /\ DOMAIN Ordered(S) = 1..Len(Ordered(S))
         /\ \A i \in DOMAIN Ordered(S) : Ordered(S)[i] \in S
         /\ \A i, j \in DOMAIN Ordered(S) : i < j => Before(Ordered(S)[i], Ordered(S)[j])
<1> DEFINE n == Cardinality(S)
           Below(e) == {d \in S : Before(d, e)}
           rank == [e \in S |-> Cardinality(Below(e))]
           s == Ordered(S)
<1>1. n \in Nat
  BY FS_CardinalityType
<1>2. ASSUME NEW e \in S
      PROVE  /\ IsFiniteSet(Below(e)) /\ rank[e] = Cardinality(Below(e))
             /\ rank[e] \in 0..(n - 1)
  <2>1. e \notin Below(e)
    BY BeforeOrders
  <2>2. Below(e) \in SUBSET (S \ {e})
    BY <2>1
  <2>3. IsFiniteSet(S \ {e}) /\ Cardinality(S \ {e}) = n - 1
    BY FS_RemoveElement
  <2> HIDE DEF Below, n
  <2>4. IsFiniteSet(Below(e)) /\ Cardinality(Below(e)) <= n - 1 /\ Cardinality(Below(e)) \in Nat
    BY <2>2, <2>3, FS_Subset, FS_CardinalityType
  <2>5. QED
    BY <1>1, <2>4
<1>3. ASSUME NEW d \in S, NEW e \in S, Before(d, e)
      PROVE  rank[d] < rank[e]
  <2>1. Below(d) \in SUBSET Below(e)
    BY <1>3, BeforeOrders
  <2>2. d \in Below(e) /\ d \notin Below(d)
    BY <1>3, BeforeOrders
  <2> HIDE DEF Below, rank
  <2>3. Cardinality(Below(d)) <= Cardinality(Below(e)) /\ Cardinality(Below(d)) # Cardinality(Below(e))
    BY <1>2, <2>1, <2>2, FS_Subset
  <2>4. rank[d] <= rank[e] /\ rank[d] # rank[e] /\ rank[d] \in 0..(n - 1) /\ rank[e] \in 0..(n - 1)
    BY <1>2, <2>3
  <2>5. QED
    BY <1>1, <2>4
<1>4. rank \in Surjection(S, 0..(n - 1))
  <2>1. rank \in [S -> 0..(n - 1)]
    BY <1>2
  <2>2. ASSUME NEW d \in S, NEW e \in S, d # e
        PROVE  rank[d] # rank[e]
    <3> HIDE DEF rank
    <3>1. rank[d] < rank[e] \/ rank[e] < rank[d]
      BY <1>3, <2>2
    <3>2. rank[d] \in 0..(n - 1) /\ rank[e] \in 0..(n - 1)
      BY <1>2
    <3>3. QED
      BY <3>1, <3>2
  <2>3. rank \in Injection(S, 0..(n - 1))
    <3> HIDE DEF rank, n
    <3> QED
      BY <2>1, <2>2 DEF Injection, IsInjective
  <2>4. IsFiniteSet(0..(n - 1)) /\ Cardinality(0..(n - 1)) = n
    <3> HIDE DEF n
    <3>1. 0 \in Int /\ n - 1 \in Int
      BY <1>1
    <3>2. /\ IsFiniteSet(0..(n - 1))
          /\ Cardinality(0..(n - 1)) = IF 0 > n - 1 THEN 0 ELSE (n - 1) - 0 + 1
      BY <3>1, FS_Interval
    <3>3. QED
      BY <1>1, <3>2
  <2> HIDE DEF rank
  <2>5. QED
    BY <2>3, <2>4, FS_Injection
<1>5. s = [i \in 1..n |-> CHOOSE e \in S : Cardinality(Below(e)) = i - 1]
  BY DEF Ordered
<1> HIDE DEF s
<1>6. ASSUME NEW i \in 1..n
      PROVE  s[i] \in S /\ rank[s[i]] = i - 1
  <2>1. i - 1 \in 0..(n - 1)
    BY <1>1
  <2>2. \E e \in S : rank[e] = i - 1
    <3> HIDE DEF rank
    <3> QED
      BY <1>4, <2>1 DEF Surjection
  <2>3. s[i] = CHOOSE e \in S : Cardinality(Below(e)) = i - 1
    BY <1>5
  <2>4. \E e \in S : Cardinality(Below(e)) = i - 1
    BY <2>2
  <2> HIDE DEF Below
  <2>5. s[i] \in S /\ Cardinality(Below(s[i])) = i - 1
    BY <2>3, <2>4
  <2>6. QED
    BY <2>5
<1>7. DOMAIN s = 1..n /\ Len(s) = n
  BY <1>1, <1>5
<1>8. ASSUME NEW i \in 1..n, NEW j \in 1..n, i < j
      PROVE  Before(s[i], s[j])
  <2>1. s[i] \in S /\ s[j] \in S /\ rank[s[i]] = i - 1 /\ rank[s[j]] = j - 1
    BY <1>6
  <2> HIDE DEF rank
  <2>2. rank[s[i]] < rank[s[j]] /\ ~(rank[s[j]] < rank[s[i]]) /\ rank[s[i]] # rank[s[j]]
    BY <1>8, <2>1
  <2>3. s[i] # s[j] /\ ~Before(s[j], s[i])
    BY <1>3, <2>1, <2>2
  <2>4. QED
    BY <2>1, <2>3
<1>9. QED
  BY <1>1, <1>6, <1>7, <1>8 DEF s

\* All of S is before all of T.
Follow(S, T) == \A e \in S : \A d \in T : Before(e, d)

\* What is written: entries of P, one file's before those of the next.
Split(out, P) ==
  /\ InWork(out)
  /\ out.file \subseteq P /\ \A i \in DOMAIN out.done : out.done[i] \subseteq P
  /\ \A i \in DOMAIN out.done : Follow(out.done[i], out.file)
  /\ \A i, j \in DOMAIN out.done : i < j => Follow(out.done[i], out.done[j])

LEMMA FinishSplits ==
  ASSUME NEW out, NEW P, Split(out, P)
  PROVE  Split(Finish(out), P)
<1>1. CASE out.file = {}
  BY <1>1 DEF Finish
<1>2. CASE out.file # {}
  <2> DEFINE new == [out EXCEPT !.done = Append(@, out.file), !.file = {}]
             s == out.done
             t == Append(s, out.file)
             F == EntrySet \ {{}}
  <2>1. Finish(out) = new
    BY <1>2 DEF Finish
  <2>2. InWork(out) /\ InWork(new)
    <3> HIDE DEF new
    <3>1. InWork(out)
      BY DEF Split
    <3>2. QED
      BY <2>1, <3>1, FinishFacts
  <2>3. new.done = t /\ new.file = {}
    BY <2>2 DEF InWork
  <2>4. s \in Seq(F) /\ out.file \in F
    BY <1>2, <2>2 DEF InWork
  <2>5. /\ \A i \in DOMAIN s : s[i] \subseteq P /\ Follow(s[i], out.file)
        /\ \A i, j \in DOMAIN s : i < j => Follow(s[i], s[j])
        /\ out.file \subseteq P
    BY DEF Split
  <2> HIDE DEF new, s, F
  <2>6. /\ DOMAIN t = 1..(Len(s) + 1) /\ DOMAIN s = 1..Len(s) /\ Len(s) \in Nat
        /\ \A i \in DOMAIN s : t[i] = s[i]
        /\ t[Len(s) + 1] = out.file
    BY <2>4
  <2> HIDE DEF t
  <2>7. \A i \in DOMAIN t : i \in DOMAIN s \/ i = Len(s) + 1
    BY <2>6
  <2>8. \A i \in DOMAIN t : t[i] \subseteq P /\ Follow(t[i], {})
    BY <2>5, <2>6, <2>7 DEF Follow
  <2>9. \A i, j \in DOMAIN t : i < j => i \in DOMAIN s
    BY <2>6
  <2>10. \A i, j \in DOMAIN t : i < j => Follow(t[i], t[j])
    BY <2>5, <2>6, <2>7, <2>9
  <2>11. QED
    BY <2>1, <2>2, <2>3, <2>8, <2>10 DEF Split
<1>3. QED
  BY <1>1, <1>2

LEMMA StopSplits ==
  ASSUME NEW out, NEW P, Split(out, P), NEW c, NEW target, NEW e
  PROVE  Split(Stop(c, target, out, e), P)
<1> DEFINE passed == Cardinality({i \in DOMAIN c.grandparents :
                                    Before(c.grandparents[i].largest, e)})
           bytes == out.bytes + IF out.seen
                                THEN Size(SubSeq(c.grandparents, out.index + 1, passed)) ELSE 0
           moved == [out EXCEPT !.index = passed, !.seen = TRUE, !.bytes = bytes]
<1>1. Stop(c, target, out, e) = IF bytes > GrandparentFactor * target
                                THEN [Finish(moved) EXCEPT !.bytes = 0] ELSE moved
  BY DEF Stop
<1> HIDE DEF passed, bytes
<1>2. moved.done = out.done /\ moved.file = out.file /\ DOMAIN moved = DOMAIN out
  BY DEF Split, InWork
<1> HIDE DEF moved
<1>3. Split(moved, P)
  BY <1>2 DEF Split, InWork
<1> DEFINE done == Finish(moved)
           last == [done EXCEPT !.bytes = 0]
<1>4. Split(done, P)
  BY <1>3, FinishSplits
<1> HIDE DEF done
<1>5. last.done = done.done /\ last.file = done.file /\ DOMAIN last = DOMAIN done
  BY <1>4 DEF Split, InWork
<1> HIDE DEF last
<1>6. Split(last, P)
  BY <1>4, <1>5 DEF Split, InWork
<1>7. QED
  BY <1>1, <1>3, <1>6 DEF last, done

LEMMA PutSplits ==
  ASSUME NEW out, NEW P, Split(out, P), NEW kept, kept \subseteq Entry, NEW target, NEW e,
         \A d \in P : Before(d, e)
  PROVE  Split(Put(kept, target, out, e), P \cup {e})
<1> DEFINE with == [out EXCEPT !.file = @ \cup {e}]
<1>1. Put(kept, target, out, e) =
        IF e \notin kept THEN out
        ELSE IF Cardinality(with.file) >= target THEN Finish(with) ELSE with
  BY DEF Put
<1>2. Split(out, P \cup {e})
  BY DEF Split
<1>3. e \in kept => Split(with, P \cup {e})
  <2> SUFFICES ASSUME e \in kept PROVE Split(with, P \cup {e})
    OBVIOUS
  <2>1. out.file \subseteq Entry /\ IsFiniteSet(out.file) /\ e \in Entry
    BY DEF Split, InWork, EntrySet
  <2>2. IsFiniteSet(out.file \cup {e})
    BY <2>1, FS_AddElement
  <2>3. out.file \cup {e} \in EntrySet
    BY <2>1, <2>2 DEF EntrySet
  <2>4. /\ DOMAIN with = DOMAIN out /\ with.done = out.done
        /\ with.file = out.file \cup {e}
    BY DEF Split, InWork
  <2> HIDE DEF with
  <2>5. InWork(with)
    BY <2>3, <2>4 DEF Split, InWork
  <2>6. \A i \in DOMAIN out.done : Follow(out.done[i], out.file \cup {e})
    BY DEF Split, Follow
  <2>7. QED
    BY <2>4, <2>5, <2>6 DEF Split
<1> HIDE DEF with
<1>4. e \in kept => Split(Finish(with), P \cup {e})
  BY <1>3, FinishSplits
<1>5. QED
  BY <1>1, <1>2, <1>3, <1>4

\* A compaction writes its entries in order: each file ends before the next begins.
LEMMA OutputsSplit ==
  ASSUME NEW v, NEW c, InputsOf(v, c), NEW snapshot, NEW target,
         \A d, e \in InputEntries(c) : d # e => Before(d, e) \/ Before(e, d)
  PROVE  LET out == Outputs(v, c, snapshot, target)
         IN  /\ \A i \in DOMAIN out : out[i] \subseteq InputEntries(c)
             /\ \A i, j \in DOMAIN out : i < j => Follow(out[i], out[j])
<1> DEFINE all == InputEntries(c)
           entries == Ordered(all)
           kept == Kept(v, c, snapshot)
           n == Len(entries)
           Past(i) == {entries[j] : j \in 1..i}
<1>1. all \subseteq Entry /\ IsFiniteSet(all)
  BY InputEntriesFacts
<1>2. kept \subseteq Entry
  <2>1. kept \subseteq all
    BY DEF Kept
  <2>2. QED
    BY <1>1, <2>1
<1>3. /\ n \in Nat /\ DOMAIN entries = 1..n
      /\ \A i \in 1..n : entries[i] \in all
      /\ \A i, j \in 1..n : i < j => Before(entries[i], entries[j])
  <2> HIDE DEF all
  <2>1. \A d, e \in all : d # e => Before(d, e) \/ Before(e, d)
    BY DEF all
  <2>2. QED
    BY <1>1, <2>1, OrderedFacts
<1>4. PICK g : /\ Outputs(v, c, snapshot, target) = Finish(g[n]).done
               /\ \A i \in 0..n :
                    g[i] = IF i = 0 THEN Begun
                           ELSE Put(kept, target, Stop(c, target, g[i - 1], entries[i]), entries[i])
  BY <1>3, OutputsSteps
<1> HIDE DEF all, entries, kept, n
<1> DEFINE T == {k \in Nat : k <= n => Split(g[k], Past(k))}
<1>5. 0 \in T
  <2>1. g[0] = Begun
    BY <1>3, <1>4
  <2>2. Split(Begun, Past(0))
    <3>1. DOMAIN Begun.done = {} /\ Begun.file = {}
      BY DEF Begun
    <3>2. InWork(Begun)
      BY FS_EmptySet DEF InWork, Begun, EntrySet
    <3>3. QED
      BY <3>1, <3>2 DEF Split
  <2>3. QED
    BY <2>1, <2>2
<1>6. ASSUME NEW k \in Nat, k \in T
      PROVE  k + 1 \in T
  <2> SUFFICES ASSUME k + 1 <= n
               PROVE  Split(g[k + 1], Past(k + 1))
    OBVIOUS
  <2> DEFINE e == entries[k + 1]
  <2>1. Split(g[k], Past(k))
    BY <1>3, <1>6
  <2>2. g[k + 1] = Put(kept, target, Stop(c, target, g[k], e), e)
    BY <1>3, <1>4
  <2>3. Past(k + 1) = Past(k) \cup {e}
    <3>1. \A i : i \in 1..(k + 1) <=> i \in 1..k \/ i = k + 1
      BY <1>6
    <3> HIDE DEF e
    <3>2. QED
      BY <3>1 DEF e
  <2>4. \A d \in Past(k) : Before(d, e)
    <3> SUFFICES ASSUME NEW j \in 1..k PROVE Before(entries[j], e)
      OBVIOUS
    <3>1. j \in 1..n /\ k + 1 \in 1..n /\ j < k + 1
      BY <1>3, <1>6
    <3>2. QED
      BY <1>3, <3>1
  <2> HIDE DEF e, Past
  <2>5. Split(Stop(c, target, g[k], e), Past(k))
    BY <2>1, StopSplits
  <2>6. Split(Put(kept, target, Stop(c, target, g[k], e), e), Past(k) \cup {e})
    BY <1>2, <2>4, <2>5, PutSplits
  <2>7. QED
    BY <2>2, <2>3, <2>6
<1>7. Split(g[n], Past(n))
  <2>1. Nat \subseteq T
    <3> HIDE DEF T
    <3> QED
      BY <1>5, <1>6, SetInduction
  <2>2. n \in T
    <3> HIDE DEF T
    <3> QED
      BY <1>3, <2>1
  <2>3. n <= n
    BY <1>3
  <2>4. QED
    BY <2>2, <2>3
<1>8. Split(Finish(g[n]), Past(n))
  <2> HIDE DEF Past
  <2> QED
    BY <1>7, FinishSplits
<1>9. Past(n) \subseteq all
  BY <1>3
<1>10. QED
  BY <1>4, <1>8, <1>9 DEF Split, all

-----------------------------------------------------------------------------
(* Ranges of keys *)

\* The least and the greatest of finitely many keys.
LEMMA Extremes ==
  ASSUME NEW S \in SUBSET Int, S # {}, IsFiniteSet(S)
  PROVE  /\ Min(S) \in S /\ \A x \in S : Min(S) <= x
         /\ Max(S) \in S /\ \A x \in S : x <= Max(S)
<1>1. \E e \in S : \A x \in S : e <= x
  <2> DEFINE R == {p \in S \X S : p[1] < p[2]}
  <2>1. \A x, y \in S : <<x, y>> \in R <=> x < y
    OBVIOUS
  <2> HIDE DEF R
  <2>2. \A x, y, z \in S : <<x, y>> \in R /\ <<y, z>> \in R => <<x, z>> \in R
    BY <2>1
  <2>3. \A x \in S : <<x, x>> \notin R
    BY <2>1
  <2>4. PICK e \in S : \A d \in S : <<d, e>> \notin R
    BY <2>2, <2>3, FirstExists
  <2>5. \A d \in S : ~(d < e)
    BY <2>1, <2>4
  <2>6. QED
    BY <2>5
<1>2. \E e \in S : \A x \in S : e >= x
  <2> DEFINE R == {p \in S \X S : p[2] < p[1]}
  <2>1. \A x, y \in S : <<x, y>> \in R <=> y < x
    OBVIOUS
  <2> HIDE DEF R
  <2>2. \A x, y, z \in S : <<x, y>> \in R /\ <<y, z>> \in R => <<x, z>> \in R
    BY <2>1
  <2>3. \A x \in S : <<x, x>> \notin R
    BY <2>1
  <2>4. PICK e \in S : \A d \in S : <<d, e>> \notin R
    BY <2>2, <2>3, FirstExists
  <2>5. \A d \in S : ~(e < d)
    BY <2>1, <2>4
  <2>6. QED
    BY <2>5
<1>3. Min(S) \in S /\ \A x \in S : Min(S) <= x
  BY <1>1 DEF Min
<1>4. Max(S) \in S /\ \A x \in S : Max(S) >= x
  BY <1>2 DEF Max
<1>5. QED
  BY <1>3, <1>4

\* Where finitely many files begin and end.
LEMMA FiniteKeys ==
  ASSUME NEW files \in Seq(File), NEW S \in SUBSET Range(files), \A f \in S : Bounded(f)
  PROVE  /\ {FirstKey(f) : f \in S} \in SUBSET Int /\ IsFiniteSet({FirstKey(f) : f \in S})
         /\ {LastKey(f) : f \in S} \in SUBSET Int /\ IsFiniteSet({LastKey(f) : f \in S})
<1>1. IsFiniteSet(S)
  <2>1. Len(files) \in Int /\ DOMAIN files = 1..Len(files)
    OBVIOUS
  <2>2. IsFiniteSet(1..Len(files))
    BY <2>1, FS_Interval
  <2>3. files \in Surjection(1..Len(files), Range(files))
    BY <2>1 DEF Surjection, Range
  <2>4. IsFiniteSet(Range(files))
    BY <2>2, <2>3, FS_Surjection
  <2>5. QED
    BY <2>4, FS_Subset
<1>2. \A f \in S : FirstKey(f) \in Int /\ LastKey(f) \in Int
  BY FileKeys DEF Range
<1>3. IsFiniteSet({FirstKey(f) : f \in S})
  <2> DEFINE h == [f \in S |-> FirstKey(f)]
             T == {FirstKey(f) : f \in S}
  <2>1. h \in Surjection(S, T)
    BY DEF Surjection
  <2> HIDE DEF h, T
  <2>2. IsFiniteSet(T)
    BY <1>1, <2>1, FS_Surjection
  <2>3. QED
    BY <2>2 DEF T
<1>4. IsFiniteSet({LastKey(f) : f \in S})
  <2> DEFINE h == [f \in S |-> LastKey(f)]
             T == {LastKey(f) : f \in S}
  <2>1. h \in Surjection(S, T)
    BY DEF Surjection
  <2> HIDE DEF h, T
  <2>2. IsFiniteSet(T)
    BY <1>1, <2>1, FS_Surjection
  <2>3. QED
    BY <2>2 DEF T
<1>5. QED
  BY <1>2, <1>3, <1>4

\* GetRange
LEMMA KeyRangeFacts ==
  ASSUME NEW files \in Seq(File), files # <<>>, \A f \in Range(files) : Bounded(f)
  PROVE  LET r == KeyRange(files)
         IN  /\ r \in Int \X Int /\ r[1] <= r[2]
             /\ \A f \in Range(files) : r[1] <= FirstKey(f) /\ LastKey(f) <= r[2]
             /\ \E f \in Range(files) : r[1] = FirstKey(f)
             /\ \E f \in Range(files) : r[2] = LastKey(f)
<1> DEFINE A == {FirstKey(f) : f \in Range(files)}
           B == {LastKey(f) : f \in Range(files)}
           r == KeyRange(files)
<1>1. /\ A \in SUBSET Int /\ IsFiniteSet(A)
      /\ B \in SUBSET Int /\ IsFiniteSet(B)
  BY FiniteKeys
<1>2. files[1] \in Range(files)
  BY DEF Range
<1>3. A # {} /\ B # {}
  BY <1>2
<1>4. r = <<Min(A), Max(B)>>
  BY DEF KeyRange
<1> HIDE DEF r
<1>5. \A f \in Range(files) : FirstKey(f) \in A /\ LastKey(f) \in B
  OBVIOUS
<1>6. (\A a \in A : \E f \in Range(files) : a = FirstKey(f))
      /\ (\A b \in B : \E f \in Range(files) : b = LastKey(f))
  OBVIOUS
<1> HIDE DEF A, B
<1>7. /\ Min(A) \in A /\ \A x \in A : Min(A) <= x
      /\ Max(B) \in B /\ \A x \in B : x <= Max(B)
  BY <1>1, <1>3, Extremes
<1>8. r[1] = Min(A) /\ r[2] = Max(B) /\ r \in Int \X Int
  BY <1>1, <1>4, <1>7
<1>9. r[1] <= r[2]
  <2> DEFINE f == files[1]
  <2>1. /\ FirstKey(f) \in Int /\ LastKey(f) \in Int /\ FirstKey(f) <= LastKey(f)
    BY <1>2, FileKeys DEF Range
  <2> HIDE DEF f
  <2>2. r[1] <= FirstKey(f) /\ LastKey(f) <= r[2]
    BY <1>2, <1>5, <1>7, <1>8 DEF f
  <2>3. QED
    BY <1>8, <2>1, <2>2
<1>10. QED
  BY <1>5, <1>6, <1>7, <1>8, <1>9 DEF r

\* The files that a range of keys meets, and the range with theirs.
Hits(files, r) == {f \in Range(files) : Within(r, f)}
Grown(files, r) ==
  <<Min({r[1]} \cup {FirstKey(f) : f \in Hits(files, r)}),
    Max({r[2]} \cup {LastKey(f) : f \in Hits(files, r)})>>

\* The range, grown again and again, if f gives it for the times before.
Growth(files, base, n, f) == [i \in 0..n |-> IF i = 0 THEN base ELSE Grown(files, f[i - 1])]

LEMMA GrowthExists ==
  ASSUME NEW files, NEW base, NEW n \in Nat
  PROVE  \E f : f = Growth(files, base, n, f)
<1> DEFINE Val(i, h) == IF i = 0 THEN base ELSE Grown(files, h[i - 1])
           Is(f, k) == f = [i \in 0..k |-> Val(i, f)]
           T == {k \in Nat : \E f : Is(f, k)}
<1>1. 0 \in T
  <2>1. Is([i \in 0..0 |-> base], 0)
    OBVIOUS
  <2> HIDE DEF Is
  <2>2. QED
    BY <2>1
<1>2. ASSUME NEW k \in Nat, k \in T
      PROVE  k + 1 \in T
  <2>1. PICK f : Is(f, k)
    BY <1>2
  <2> DEFINE g == [i \in 0..k + 1 |-> IF i \in 0..k THEN f[i] ELSE Val(i, f)]
  <2>2. \A i \in 0..k + 1 : g[i] = Val(i, g)
    <3> SUFFICES ASSUME NEW i \in 0..k + 1
                 PROVE  g[i] = Val(i, g)
      OBVIOUS
    <3>1. i # 0 => i - 1 \in 0..k /\ g[i - 1] = f[i - 1]
      OBVIOUS
    <3>2. i \in 0..k => f[i] = Val(i, f)
      BY <2>1
    <3>3. g[i] = Val(i, f)
      BY <3>2
    <3> HIDE DEF g
    <3>4. QED
      BY <3>1, <3>3
  <2>3. \E h : Is(h, k + 1)
    <3>1. g = [i \in 0..k + 1 |-> Val(i, g)]
      <4> HIDE DEF Val
      <4> QED
        BY <2>2
    <3>2. QED
      BY <3>1
  <2> HIDE DEF Is
  <2>4. QED
    BY <2>3
<1>3. Nat \subseteq T
  <2> HIDE DEF T
  <2> QED
    BY <1>1, <1>2, SetInduction
<1>4. QED
  BY <1>3 DEF Growth

\* What holds of a range after as many steps as it grows, if I gives that for each number of
\* steps: it grows once for each file.
LEMMA WidenedSteps ==
  ASSUME NEW files \in Seq(File), NEW lo, NEW hi, NEW I, <<lo, hi>> \in I[0],
         \A k \in Nat : \A r \in I[k] : Grown(files, r) \in I[k + 1]
  PROVE  Widened(files, lo, hi) \in I[Len(files)]
<1> DEFINE D == DOMAIN files
           base == <<lo, hi>>
           Fold(f) == [s \in SUBSET D |->
                         IF s = {} THEN base ELSE Grown(files, f[s \ {CHOOSE x \in s : TRUE}])]
           g == CHOOSE f : f = Fold(f)
           n == Cardinality(D)
<1>1. Widened(files, lo, hi) = g[D]
  BY DEF Widened, Grown, Hits, FoldSeq, FoldFunction, FoldFunctionOnSet, MapThenFoldSet
<1>2. IsFiniteSet(D) /\ n \in Nat /\ n = Len(files)
  <2>1. Len(files) \in Nat /\ D = 1..Len(files)
    OBVIOUS
  <2> HIDE DEF D
  <2>2. /\ IsFiniteSet(1..Len(files))
        /\ Cardinality(1..Len(files)) = IF 1 > Len(files) THEN 0 ELSE Len(files) - 1 + 1
    BY <2>1, FS_Interval
  <2>3. QED
    BY <2>1, <2>2
<1> HIDE DEF D, base, n
<1>3. \A s \in SUBSET D :
        /\ IsFiniteSet(s) /\ Cardinality(s) \in 0..n /\ (Cardinality(s) = 0 <=> s = {})
        /\ \A x \in s : s \ {x} \in SUBSET D /\ Cardinality(s \ {x}) = Cardinality(s) - 1
  <2> SUFFICES ASSUME NEW s \in SUBSET D
               PROVE  /\ IsFiniteSet(s) /\ Cardinality(s) \in 0..n /\ (Cardinality(s) = 0 <=> s = {})
                      /\ \A x \in s : s \ {x} \in SUBSET D /\ Cardinality(s \ {x}) = Cardinality(s) - 1
    OBVIOUS
  <2>1. IsFiniteSet(s) /\ Cardinality(s) <= n
    BY <1>2, FS_Subset DEF n
  <2>2. Cardinality(s) \in Nat /\ (Cardinality(s) = 0 <=> s = {})
    BY <2>1, FS_CardinalityType, FS_EmptySet
  <2>3. \A x \in s : Cardinality(s \ {x}) = Cardinality(s) - 1
    BY <2>1, FS_RemoveElement
  <2>4. QED
    BY <1>2, <2>1, <2>2, <2>3
<1>4. g = Fold(g)
  <2>1. PICK h : h = [i \in 0..n |-> IF i = 0 THEN base ELSE Grown(files, h[i - 1])]
    <3>1. n \in Nat
      BY <1>2
    <3>2. \E f : f = Growth(files, base, n, f)
      BY <3>1, GrowthExists
    <3>3. QED
      BY <3>2 DEF Growth
  <2> DEFINE f == [s \in SUBSET D |-> h[Cardinality(s)]]
  <2>2. \A s \in SUBSET D :
          f[s] = IF s = {} THEN base ELSE Grown(files, f[s \ {CHOOSE x \in s : TRUE}])
    <3> SUFFICES ASSUME NEW s \in SUBSET D
                 PROVE  f[s] = IF s = {} THEN base
                               ELSE Grown(files, f[s \ {CHOOSE x \in s : TRUE}])
      OBVIOUS
    <3> DEFINE x == CHOOSE x \in s : TRUE
    <3>1. f[s] = h[Cardinality(s)] /\ Cardinality(s) \in 0..n /\ (Cardinality(s) = 0 <=> s = {})
      BY <1>3
    <3>2. h[Cardinality(s)] = IF Cardinality(s) = 0 THEN base ELSE Grown(files, h[Cardinality(s) - 1])
      BY <2>1, <3>1
    <3>3. CASE s = {}
      BY <3>1, <3>2, <3>3
    <3>4. CASE s # {}
      <4>1. x \in s
        BY <3>4
      <4> HIDE DEF x
      <4>2. s \ {x} \in SUBSET D /\ Cardinality(s \ {x}) = Cardinality(s) - 1
        BY <1>3, <4>1
      <4>3. f[s \ {x}] = h[Cardinality(s) - 1]
        BY <4>2
      <4>4. QED
        BY <3>1, <3>2, <3>4, <4>3 DEF x
    <3>5. QED
      BY <3>3, <3>4
  <2>3. f = Fold(f)
    BY <2>2
  <2> HIDE DEF Fold, f
  <2>4. QED
    BY <2>3
<1> HIDE DEF g
<1>5. \A s \in SUBSET D :
        g[s] = IF s = {} THEN base ELSE Grown(files, g[s \ {CHOOSE x \in s : TRUE}])
  BY <1>4
<1> DEFINE T == {k \in Nat : \A s \in SUBSET D : Cardinality(s) = k => g[s] \in I[k]}
<1>6. 0 \in T
  <2> SUFFICES ASSUME NEW s \in SUBSET D, Cardinality(s) = 0 PROVE g[s] \in I[0]
    OBVIOUS
  <2>1. s = {}
    BY <1>3
  <2>2. QED
    BY <1>5, <2>1 DEF base
<1>7. ASSUME NEW k \in Nat, k \in T
      PROVE  k + 1 \in T
  <2> SUFFICES ASSUME NEW s \in SUBSET D, Cardinality(s) = k + 1 PROVE g[s] \in I[k + 1]
    OBVIOUS
  <2> DEFINE x == CHOOSE x \in s : TRUE
  <2>1. s # {}
    BY <1>3
  <2>2. x \in s
    BY <2>1
  <2>3. g[s] = Grown(files, g[s \ {x}])
    BY <1>5, <2>1
  <2> HIDE DEF x
  <2>4. s \ {x} \in SUBSET D /\ Cardinality(s \ {x}) = k
    BY <1>3, <2>2
  <2>5. g[s \ {x}] \in I[k]
    BY <1>7, <2>4
  <2>6. QED
    BY <1>7, <2>3, <2>5
<1>8. Nat \subseteq T
  <2> HIDE DEF T
  <2> QED
    BY <1>6, <1>7, SetInduction
<1>9. QED
  BY <1>1, <1>2, <1>8 DEF n

\* What holds of a range and goes on to hold as it grows, holds of what it grows to.
LEMMA WidenedKeeps ==
  ASSUME NEW files \in Seq(File), NEW lo, NEW hi, NEW I, <<lo, hi>> \in I,
         \A r \in I : Grown(files, r) \in I
  PROVE  Widened(files, lo, hi) \in I
<1> DEFINE J == [k \in Nat |-> I]
<1>1. <<lo, hi>> \in J[0] /\ \A k \in Nat : \A r \in J[k] : Grown(files, r) \in J[k + 1]
  OBVIOUS
<1>2. J[Len(files)] = I
  OBVIOUS
<1> HIDE DEF J
<1>3. QED
  BY <1>1, <1>2, WidenedSteps

-----------------------------------------------------------------------------
(* Files without gaps between them *)

\* No file of S has a key from a to b between its first and its last.
Misses(a, b, S) == \A f \in S : LastKey(f) < a \/ b < FirstKey(f)

\* What S misses is before or after all of it.
Connected(S) ==
  \A a, b \in Int : a <= b /\ Misses(a, b, S) =>
    (\A f \in S : LastKey(f) < a) \/ (\A f \in S : b < FirstKey(f))

\* A range within which the files that it meets and those of X leave no gap.
Covered(files, X, r) ==
  \A a, b \in Int : a <= b /\ Misses(a, b, Hits(files, r) \cup X) => r[2] < a \/ b < r[1]

Bounds == {r \in Int \X Int : r[1] <= r[2]}

LEMMA GrownFacts ==
  ASSUME NEW files \in Seq(File), \A f \in Range(files) : Bounded(f), NEW r \in Bounds, NEW X
  PROVE  /\ Grown(files, r) \in Bounds /\ Grown(files, r)[1] <= r[1] /\ r[2] <= Grown(files, r)[2]
         /\ Covered(files, X, r) => Covered(files, X, Grown(files, r))
<1> DEFINE H == Hits(files, r)
           A == {r[1]} \cup {FirstKey(f) : f \in H}
           B == {r[2]} \cup {LastKey(f) : f \in H}
           q == Grown(files, r)
<1>1. q = <<Min(A), Max(B)>>
  BY DEF Grown
<1>2. r[1] \in Int /\ r[2] \in Int /\ r[1] <= r[2]
  BY DEF Bounds
<1>3. H \in SUBSET Range(files) /\ \A f \in H : Within(r, f)
  BY DEF Hits
<1>4. \A f \in Range(files) : FirstKey(f) \in Int /\ LastKey(f) \in Int /\ FirstKey(f) <= LastKey(f)
  BY FileKeys DEF Range
<1> HIDE DEF H
<1>5. A \in SUBSET Int /\ IsFiniteSet(A) /\ B \in SUBSET Int /\ IsFiniteSet(B)
  <2> DEFINE C == {FirstKey(f) : f \in H}
             D == {LastKey(f) : f \in H}
  <2>1. C \in SUBSET Int /\ IsFiniteSet(C) /\ D \in SUBSET Int /\ IsFiniteSet(D)
    BY <1>3, FiniteKeys
  <2> HIDE DEF C, D
  <2>2. IsFiniteSet(C \cup {r[1]}) /\ IsFiniteSet(D \cup {r[2]})
    BY <2>1, FS_AddElement
  <2>3. A = C \cup {r[1]} /\ B = D \cup {r[2]}
    BY DEF C, D
  <2> HIDE DEF A, B
  <2>4. QED
    BY <1>2, <2>1, <2>2, <2>3
<1>6. r[1] \in A /\ r[2] \in B /\ \A f \in H : FirstKey(f) \in A /\ LastKey(f) \in B
  OBVIOUS
<1>7. \A b \in B : b = r[2] \/ \E f \in H : b = LastKey(f)
  OBVIOUS
<1>8. \A a \in A : a = r[1] \/ \E f \in H : a = FirstKey(f)
  OBVIOUS
<1> HIDE DEF A, B, q
<1>9. /\ Min(A) \in A /\ \A x \in A : Min(A) <= x
      /\ Max(B) \in B /\ \A x \in B : x <= Max(B)
  BY <1>5, <1>6, Extremes
<1>10. q[1] = Min(A) /\ q[2] = Max(B) /\ q \in Int \X Int /\ q[1] <= r[1] /\ r[2] <= q[2]
  BY <1>1, <1>5, <1>6, <1>9
<1>11. q \in Bounds
  BY <1>2, <1>10 DEF Bounds
<1>12. ASSUME Covered(files, X, r)
       PROVE  Covered(files, X, q)
  <2> SUFFICES ASSUME NEW a \in Int, NEW b \in Int, a <= b, Misses(a, b, Hits(files, q) \cup X)
               PROVE  q[2] < a \/ b < q[1]
    BY DEF Covered
  <2>1. H \subseteq Hits(files, q)
    <3> SUFFICES ASSUME NEW f \in H PROVE f \in Hits(files, q)
      OBVIOUS
    <3>1. f \in Range(files) /\ ~(LastKey(f) < r[1]) /\ ~(FirstKey(f) > r[2])
      BY <1>3 DEF Within
    <3>2. FirstKey(f) \in Int /\ LastKey(f) \in Int
      BY <1>4, <3>1
    <3>3. ~(LastKey(f) < q[1]) /\ ~(FirstKey(f) > q[2])
      BY <1>2, <1>10, <3>1, <3>2
    <3>4. QED
      BY <3>1, <3>3 DEF Hits, Within
  <2>2. Misses(a, b, H \cup X)
    BY <2>1 DEF Misses
  <2>3. r[2] < a \/ b < r[1]
    BY <1>12, <2>2 DEF Covered, H
  <2>4. CASE r[2] < a
    <3>1. CASE q[2] = r[2]
      BY <2>4, <3>1
    <3>2. CASE \E f \in H : q[2] = LastKey(f)
      <4>1. PICK f \in H : q[2] = LastKey(f)
        BY <3>2
      <4>2. FirstKey(f) \in Int /\ LastKey(f) \in Int /\ ~(FirstKey(f) > r[2])
        BY <1>3, <1>4 DEF Within
      <4>3. LastKey(f) < a \/ b < FirstKey(f)
        BY <2>2 DEF Misses
      <4>4. QED
        BY <1>2, <2>4, <4>1, <4>2, <4>3
    <3>3. QED
      BY <1>7, <1>9, <1>10, <3>1, <3>2
  <2>5. CASE b < r[1]
    <3>1. CASE q[1] = r[1]
      BY <2>5, <3>1
    <3>2. CASE \E f \in H : q[1] = FirstKey(f)
      <4>1. PICK f \in H : q[1] = FirstKey(f)
        BY <3>2
      <4>2. FirstKey(f) \in Int /\ LastKey(f) \in Int /\ ~(LastKey(f) < r[1])
        BY <1>3, <1>4 DEF Within
      <4>3. LastKey(f) < a \/ b < FirstKey(f)
        BY <2>2 DEF Misses
      <4>4. QED
        BY <1>2, <2>5, <4>1, <4>2, <4>3
    <3>3. QED
      BY <1>8, <1>9, <1>10, <3>1, <3>2
  <2>6. QED
    BY <2>3, <2>4, <2>5
<1>13. QED
  BY <1>10, <1>11, <1>12 DEF q

\* GetOverlappingInputs gives the files that a range meets: above level 0 the range asked
\* for, in level 0 a wider one without further gaps.
LEMMA OverlappingExact ==
  ASSUME NEW v, NEW l, v[l] \in Seq(File), \A f \in Range(v[l]) : Bounded(f),
         NEW lo \in Int, NEW hi \in Int, lo <= hi, NEW X
  PROVE  \E r \in Bounds :
           /\ r[1] <= lo /\ hi <= r[2] /\ (l # 0 => r = <<lo, hi>>)
           /\ Overlapping(v, l, lo, hi) = FilesIn(v[l], Hits(v[l], r))
           /\ Overlapping(v, l, lo, hi) \in Seq(File)
           /\ Range(Overlapping(v, l, lo, hi)) = Hits(v[l], r)
           /\ Covered(v[l], X, <<lo, hi>>) => Covered(v[l], X, r)
<1> DEFINE files == v[l]
           r == IF l = 0 THEN Widened(v[0], lo, hi) ELSE <<lo, hi>>
           I == {q \in Bounds : /\ q[1] <= lo /\ hi <= q[2]
                                /\ Covered(files, X, <<lo, hi>>) => Covered(files, X, q)}
<1>1. Overlapping(v, l, lo, hi) = FilesIn(files, Hits(files, r))
  BY DEF Overlapping, Hits
<1>2. <<lo, hi>> \in I
  BY DEF Bounds
<1>3. r \in I
  <2>1. CASE l # 0
    BY <1>2, <2>1
  <2>2. CASE l = 0
    <3>1. files \in Seq(File) /\ \A f \in Range(files) : Bounded(f)
      OBVIOUS
    <3>2. ASSUME NEW q \in I PROVE Grown(files, q) \in I
      <4> DEFINE p == Grown(files, q)
      <4>1. q \in Bounds /\ q[1] <= lo /\ hi <= q[2]
            /\ (Covered(files, X, <<lo, hi>>) => Covered(files, X, q))
        OBVIOUS
      <4> HIDE DEF files, I
      <4>2. /\ p \in Bounds /\ p[1] <= q[1] /\ q[2] <= p[2]
            /\ Covered(files, X, q) => Covered(files, X, p)
        BY <3>1, <4>1, GrownFacts
      <4> HIDE DEF p
      <4>3. p[1] <= lo /\ hi <= p[2]
        BY <4>1, <4>2 DEF Bounds
      <4>4. QED
        BY <4>1, <4>2, <4>3 DEF I, p
    <3> HIDE DEF I, files
    <3>3. Widened(files, lo, hi) \in I
      BY <1>2, <3>1, <3>2, WidenedKeeps
    <3>4. QED
      BY <2>2, <3>3 DEF files
  <2>3. QED
    BY <2>1, <2>2
<1>4. l # 0 => r = <<lo, hi>>
  OBVIOUS
<1> HIDE DEF r
<1>5. /\ FilesIn(files, Hits(files, r)) \in Seq(File)
      /\ Range(FilesIn(files, Hits(files, r))) = Range(files) \cap Hits(files, r)
  BY FilesInFacts
<1>6. Range(files) \cap Hits(files, r) = Hits(files, r)
  BY DEF Hits
<1>7. r \in Bounds /\ r[1] <= lo /\ hi <= r[2]
      /\ (Covered(files, X, <<lo, hi>>) => Covered(files, X, r))
  BY <1>3
<1>8. QED
  BY <1>1, <1>4, <1>5, <1>6, <1>7

LEMMA OverlappingMet ==
  ASSUME NEW v, NEW l, v[l] \in Seq(File), \A f \in Range(v[l]) : Bounded(f),
         NEW lo \in Int, NEW hi \in Int, lo <= hi
  PROVE  /\ Overlapping(v, l, lo, hi) \in Seq(File)
         /\ \E r \in Bounds : /\ r[1] <= lo /\ hi <= r[2] /\ (l # 0 => r = <<lo, hi>>)
                            /\ Range(Overlapping(v, l, lo, hi)) = Hits(v[l], r)
<1>1. \E r \in Bounds :
        /\ r[1] <= lo /\ hi <= r[2] /\ (l # 0 => r = <<lo, hi>>)
        /\ Overlapping(v, l, lo, hi) = FilesIn(v[l], Hits(v[l], r))
        /\ Overlapping(v, l, lo, hi) \in Seq(File)
        /\ Range(Overlapping(v, l, lo, hi)) = Hits(v[l], r)
        /\ Covered(v[l], {}, <<lo, hi>>) => Covered(v[l], {}, r)
  BY OverlappingExact
<1>2. QED
  BY <1>1

\* A range that is covered, and whose files all meet it, is one without gaps.
LEMMA CoveredConnects ==
  ASSUME NEW files \in Seq(File), \A f \in Range(files) : Bounded(f),
         NEW X \in SUBSET File, \A f \in X : Bounded(f),
         NEW r \in Bounds, \A f \in X : Within(r, f), Covered(files, X, r)
  PROVE  Connected(Hits(files, r) \cup X)
<1> DEFINE S == Hits(files, r) \cup X
<1> SUFFICES ASSUME NEW a \in Int, NEW b \in Int, a <= b, Misses(a, b, S)
             PROVE  (\A f \in S : LastKey(f) < a) \/ (\A f \in S : b < FirstKey(f))
  BY DEF Connected
<1>1. \A f \in S : /\ ~(LastKey(f) < r[1]) /\ ~(FirstKey(f) > r[2])
                   /\ FirstKey(f) \in Int /\ LastKey(f) \in Int
  <2>1. \A f \in S : f \in File /\ Bounded(f) /\ Within(r, f)
    BY DEF Hits, Range
  <2>2. QED
    BY <2>1, FileKeys DEF Within
<1>2. \A f \in S : LastKey(f) < a \/ b < FirstKey(f)
  BY DEF Misses
<1>3. r[2] < a \/ b < r[1]
  BY DEF Covered
<1> HIDE DEF S
<1>4. r[1] \in Int /\ r[2] \in Int
  BY DEF Bounds
<1>5. CASE r[2] < a
  <2>1. \A f \in S : LastKey(f) < a
    BY <1>1, <1>2, <1>4, <1>5
  <2>2. QED
    BY <2>1
<1>6. CASE b < r[1]
  <2>1. \A f \in S : b < FirstKey(f)
    BY <1>1, <1>2, <1>4, <1>6
  <2>2. QED
    BY <2>1
<1>7. QED
  BY <1>3, <1>5, <1>6

\* What overlaps the range of files without gaps leaves no gaps with them.
LEMMA ConnectedGrows ==
  ASSUME NEW v, NEW l, v[l] \in Seq(File), \A f \in Range(v[l]) : Bounded(f),
         NEW lo \in Int, NEW hi \in Int, lo <= hi,
         NEW S \in SUBSET File, \A f \in S : Bounded(f), Connected(S),
         \A f \in S : Within(<<lo, hi>>, f),
         \E f \in S : lo = FirstKey(f), \E f \in S : hi = LastKey(f)
  PROVE  Connected(Range(Overlapping(v, l, lo, hi)) \cup S)
<1>1. Covered(v[l], S, <<lo, hi>>)
  <2> SUFFICES ASSUME NEW a \in Int, NEW b \in Int, a <= b,
                      Misses(a, b, Hits(v[l], <<lo, hi>>) \cup S)
               PROVE  hi < a \/ b < lo
    BY DEF Covered
  <2>1. Misses(a, b, S)
    BY DEF Misses
  <2>2. (\A f \in S : LastKey(f) < a) \/ (\A f \in S : b < FirstKey(f))
    BY <2>1 DEF Connected
  <2>3. QED
    BY <2>2
<1>2. PICK r \in Bounds :
        /\ r[1] <= lo /\ hi <= r[2]
        /\ Range(Overlapping(v, l, lo, hi)) = Hits(v[l], r)
        /\ Covered(v[l], S, r)
  BY <1>1, OverlappingExact
<1>3. \A f \in S : Within(r, f)
  <2> SUFFICES ASSUME NEW f \in S PROVE Within(r, f)
    OBVIOUS
  <2>1. FirstKey(f) \in Int /\ LastKey(f) \in Int
    BY FileKeys
  <2>2. r[1] \in Int /\ r[2] \in Int
    BY DEF Bounds
  <2>3. ~(LastKey(f) < lo) /\ ~(FirstKey(f) > hi)
    BY DEF Within
  <2>4. QED
    BY <1>2, <2>1, <2>2, <2>3 DEF Within
<1>4. Connected(Hits(v[l], r) \cup S)
  BY <1>2, <1>3, CoveredConnects
<1>5. QED
  BY <1>2, <1>4

\* A range reaches all that lies in it.
LEMMA RangeReaches ==
  ASSUME NEW files \in Seq(File), files # <<>>, \A f \in Range(files) : Bounded(f),
         NEW f \in Range(files)
  PROVE  Within(KeyRange(files), f)
<1> DEFINE r == KeyRange(files)
<1>1. r[1] \in Int /\ r[2] \in Int /\ r[1] <= FirstKey(f) /\ LastKey(f) <= r[2]
  BY KeyRangeFacts
<1>2. FirstKey(f) \in Int /\ LastKey(f) \in Int /\ FirstKey(f) <= LastKey(f)
  BY FileKeys DEF Range
<1> HIDE DEF r
<1>3. ~(LastKey(f) < r[1]) /\ ~(FirstKey(f) > r[2])
  BY <1>1, <1>2
<1>4. QED
  BY <1>3 DEF Within, r

\* What overlaps the range of some files leaves no gaps with files that do not.
LEMMA RangeConnects ==
  ASSUME NEW v, NEW l, v[l] \in Seq(File), \A f \in Range(v[l]) : Bounded(f),
         NEW files \in Seq(File), files # <<>>,
         NEW S \in SUBSET File, \A f \in S : Bounded(f), Range(files) \subseteq S, Connected(S),
         \A f \in S : Within(KeyRange(files), f)
  PROVE  Connected(Range(Overlapping(v, l, KeyRange(files)[1], KeyRange(files)[2])) \cup S)
<1> DEFINE r == KeyRange(files)
<1>1. /\ r \in Int \X Int /\ r[1] <= r[2]
      /\ \E f \in Range(files) : r[1] = FirstKey(f)
      /\ \E f \in Range(files) : r[2] = LastKey(f)
  BY KeyRangeFacts
<1>2. \A f \in S : Within(r, f)
  OBVIOUS
<1> HIDE DEF r
<1>3. r[1] \in Int /\ r[2] \in Int
  BY <1>1
<1>4. \A f \in S : Within(<<r[1], r[2]>>, f)
  BY <1>2 DEF Within
<1>5. (\E f \in S : r[1] = FirstKey(f)) /\ (\E f \in S : r[2] = LastKey(f))
  BY <1>1
<1>6. Connected(Range(Overlapping(v, l, r[1], r[2])) \cup S)
  BY <1>1, <1>3, <1>4, <1>5, ConnectedGrows
<1>7. QED
  BY <1>6 DEF r

\* A file on one side of all entries of a set.
Away(g, S) == (\A e \in S : Before(e, g.smallest)) \/ (\A e \in S : Before(g.largest, e))

\* The files of a level that a range of it does not meet are on one side of those that it
\* meets, and of all files of the range.
LEMMA MissedAway ==
  ASSUME NEW files \in Seq(File), \A f \in Range(files) : Bounded(f),
         \A f, g \in Range(files) : f # g => Apart(f, g),
         NEW S \in SUBSET File, \A f \in S : Bounded(f),
         NEW r \in Bounds, \A f \in S : r[1] <= FirstKey(f) /\ LastKey(f) <= r[2],
         NEW g \in Range(files) \ Hits(files, r)
  PROVE  Away(g, UNION {f.entries : f \in S \cup Hits(files, r)})
<1> DEFINE H == Hits(files, r)
           E == UNION {f.entries : f \in S \cup H}
<1>1. g \in File /\ Bounded(g) /\ H \subseteq Range(files) /\ H \subseteq File
  BY DEF Hits, Range
<1>2. /\ FirstKey(g) \in Int /\ LastKey(g) \in Int /\ FirstKey(g) <= LastKey(g)
      /\ r[1] \in Int /\ r[2] \in Int
      /\ g.smallest \in Entry /\ g.largest \in Entry
  BY <1>1, FileKeys DEF Bounds, File
<1>3. LastKey(g) < r[1] \/ r[2] < FirstKey(g)
  BY <1>2 DEF Hits, Within
<1>4. ASSUME NEW f \in S, NEW e \in f.entries
      PROVE  /\ LastKey(g) < r[1] => Before(g.largest, e)
             /\ r[2] < FirstKey(g) => Before(e, g.smallest)
  <2>1. f \in File /\ Bounded(f) /\ r[1] <= FirstKey(f) /\ LastKey(f) <= r[2]
    OBVIOUS
  <2>2. /\ FirstKey(f) \in Int /\ LastKey(f) \in Int
        /\ e \in Entry /\ FirstKey(f) <= e[1] /\ e[1] <= LastKey(f)
    BY <2>1, FileKeys
  <2>3. e[1] \in Int
    BY <2>2, EntryTypes
  <2>4. /\ LastKey(g) < r[1] => LastKey(g) < e[1]
        /\ r[2] < FirstKey(g) => e[1] < FirstKey(g)
    BY <1>2, <2>1, <2>2, <2>3
  <2>5. QED
    BY <2>4 DEF Before, FirstKey, LastKey
<1>5. ASSUME NEW f \in H, NEW e \in f.entries
      PROVE  /\ LastKey(g) < r[1] => Before(g.largest, e)
             /\ r[2] < FirstKey(g) => Before(e, g.smallest)
  <2>1. f \in File /\ Bounded(f) /\ f \in Range(files) /\ f # g
        /\ ~(LastKey(f) < r[1]) /\ ~(FirstKey(f) > r[2])
    BY <1>1 DEF Hits, Within
  <2>2. FirstKey(f) \in Int /\ LastKey(f) \in Int /\ e \in Entry
        /\ f.smallest \in Entry /\ f.largest \in Entry
    BY <2>1, FileKeys DEF File
  <2>3. Before(f.largest, g.smallest) \/ Before(g.largest, f.smallest)
    BY <1>1, <2>1 DEF Apart
  <2>4. Before(f.largest, g.smallest) => LastKey(f) <= FirstKey(g)
    BY <1>2, <2>2 DEF Before, FirstKey, LastKey
  <2>5. Before(g.largest, f.smallest) => LastKey(g) <= FirstKey(f)
    BY <1>2, <2>2 DEF Before, FirstKey, LastKey
  <2>6. ~Before(e, f.smallest) /\ ~Before(f.largest, e)
    BY <2>1 DEF Bounded
  <2>7. CASE LastKey(g) < r[1]
    <3>1. Before(g.largest, f.smallest)
      BY <1>2, <2>1, <2>2, <2>3, <2>4, <2>7
    <3>2. ~(r[2] < FirstKey(g))
      BY <1>2, <2>7 DEF Bounds
    <3>3. QED
      BY <1>2, <2>2, <2>6, <3>1, <3>2, BeforeOrders
  <2>8. CASE r[2] < FirstKey(g)
    <3>1. Before(f.largest, g.smallest)
      BY <1>2, <2>1, <2>2, <2>3, <2>5, <2>8
    <3>2. ~(LastKey(g) < r[1])
      BY <1>2, <2>8 DEF Bounds
    <3>3. QED
      BY <1>2, <2>2, <2>6, <3>1, <3>2, BeforeOrders
  <2>9. QED
    BY <1>3, <2>7, <2>8
<1>6. \A e \in E : \E f \in S \cup H : e \in f.entries
  OBVIOUS
<1> HIDE DEF E, H
<1>7. QED
  <2>1. CASE LastKey(g) < r[1]
    <3>1. \A e \in E : Before(g.largest, e)
      BY <1>4, <1>5, <1>6, <2>1
    <3>2. QED
      BY <3>1 DEF Away, E, H
  <2>2. CASE r[2] < FirstKey(g)
    <3>1. \A e \in E : Before(e, g.smallest)
      BY <1>4, <1>5, <1>6, <2>2
    <3>2. QED
      BY <3>1 DEF Away, E, H
  <2>3. QED
    BY <1>3, <2>1, <2>2

InputFiles(c) == Range(c.inputs[1]) \cup Range(c.inputs[2])

\* The files that a compaction writes to, and leaves, are on one side of all it reads.
OthersAway(v, c) ==
  \A g \in Range(v[c.level + 1]) \ Range(c.inputs[2]) : Away(g, InputEntries(c))

\* A range of files, and what it overlaps in the next level.
LEMMA LowerAway ==
  ASSUME NEW v, VersionSound(v), AllBounded(v), LevelsApart(v),
         NEW level \in Levels, level + 1 \in Levels,
         NEW up \in Seq(File), up # <<>>, Range(up) \subseteq Range(v[level]),
         NEW low, low = Overlapping(v, level + 1, KeyRange(up)[1], KeyRange(up)[2])
  PROVE  /\ low \in Seq(File) /\ Range(low) = Hits(v[level + 1], KeyRange(up))
         /\ \A g \in Range(v[level + 1]) \ Range(low) :
              Away(g, UNION {f.entries : f \in Range(up) \cup Range(low)})
<1> DEFINE r == KeyRange(up)
           files == v[level + 1]
<1>1. /\ files \in Seq(File) /\ v[level] \in Seq(File) /\ level + 1 # 0
      /\ \A f \in Range(files) : Bounded(f)
      /\ \A f \in Range(v[level]) : Bounded(f)
      /\ \A f, g \in Range(files) : f # g => Apart(f, g)
  <2>1. level + 1 # 0
    BY LevelsAssumption DEF Levels
  <2>2. v \in [Levels -> Seq(File)]
    BY DEF VersionSound
  <2>3. \A l \in Levels : \A f \in Range(v[l]) : Bounded(f)
    BY DEF AllBounded, FilesOf
  <2>4. QED
    BY <2>1, <2>2, <2>3 DEF LevelsApart
<1>2. Range(up) \in SUBSET File /\ \A f \in Range(up) : Bounded(f)
  BY <1>1 DEF Range
<1>3. /\ r \in Int \X Int /\ r[1] <= r[2]
      /\ \A f \in Range(up) : r[1] <= FirstKey(f) /\ LastKey(f) <= r[2]
  BY <1>2, KeyRangeFacts
<1> HIDE DEF r
<1>4. r \in Bounds /\ r = <<r[1], r[2]>>
  BY <1>3 DEF Bounds
<1>5. low = Overlapping(v, level + 1, r[1], r[2])
  BY DEF r
<1>6. low \in Seq(File) /\ Range(low) = Hits(files, r)
  <2>1. PICK q \in Bounds : /\ level + 1 # 0 => q = <<r[1], r[2]>>
                            /\ low \in Seq(File) /\ Range(low) = Hits(files, q)
    BY <1>1, <1>3, <1>5, OverlappingMet
  <2>2. q = r
    BY <1>1, <1>4, <2>1
  <2>3. QED
    BY <2>1, <2>2
<1>7. \A g \in Range(files) \ Range(low) :
        Away(g, UNION {f.entries : f \in Range(up) \cup Range(low)})
  <2> SUFFICES ASSUME NEW g \in Range(files) \ Hits(files, r)
               PROVE  Away(g, UNION {f.entries : f \in Range(up) \cup Hits(files, r)})
    BY <1>6
  <2> HIDE DEF files
  <2>1. QED
    BY <1>1, <1>2, <1>3, <1>4, MissedAway
<1>8. QED
  BY <1>6, <1>7 DEF r

LEMMA InputsApart ==
  ASSUME NEW v, VersionSound(v), AllBounded(v), LevelsApart(v),
         NEW level \in Levels, level + 1 \in Levels,
         NEW files \in Seq(File), files # <<>>, Range(files) \subseteq Range(v[level]), NEW target
  PROVE  LET c == WithOtherInputs(v, level, files, target)
         IN  /\ OthersAway(v, c)
             /\ Connected(Range(files)) => Connected(InputFiles(c))
<1> DEFINE c == WithOtherInputs(v, level, files, target)
           Over(l, r) == Overlapping(v, l, r[1], r[2])
           one == Over(level + 1, KeyRange(files))
           both == files \o one
           more == Over(level, KeyRange(both))
           two == Over(level + 1, KeyRange(more))
           grown == /\ one # <<>> /\ Len(more) > Len(files)
                    /\ Size(one) + Size(more) < ExpansionFactor * target
                    /\ Len(two) = Len(one)
           up == IF grown THEN more ELSE files
           low == IF grown THEN two ELSE one
           Lower(s, t) == /\ t \in Seq(File) /\ Range(t) = Hits(v[level + 1], KeyRange(s))
                          /\ \A g \in Range(v[level + 1]) \ Range(t) :
                               Away(g, UNION {f.entries : f \in Range(s) \cup Range(t)})
<1>1. c.level = level /\ c.inputs = <<up, low>>
  BY DEF WithOtherInputs
<1>2. InputsOf(v, c) /\ v \in [Levels -> Seq(File)]
  BY OtherInputs DEF VersionSound
<1> HIDE DEF c
<1>3. /\ v[level] \in Seq(File) /\ v[level + 1] \in Seq(File)
      /\ \A f \in Range(v[level]) : f \in File /\ Bounded(f)
      /\ \A f \in Range(v[level + 1]) : f \in File /\ Bounded(f)
  <2>1. \A l \in Levels : \A f \in Range(v[l]) : Bounded(f)
    BY DEF AllBounded, FilesOf
  <2>2. QED
    BY <1>2, <2>1 DEF Range
<1>4. Lower(files, one)
  BY LowerAway
<1> HIDE DEF one
<1>5. /\ both \in Seq(File) /\ both # <<>> /\ Range(both) = Range(files) \cup Range(one)
      /\ \A f \in Range(both) : f \in File /\ Bounded(f)
  <2>1. both \in Seq(File) /\ both # <<>>
    BY <1>4
  <2>2. Range(both) = Range(files) \cup Range(one)
    BY <1>4, RangeConcatenation
  <2>3. Range(one) \subseteq Range(v[level + 1])
    BY <1>4 DEF Hits
  <2>4. QED
    BY <1>3, <2>1, <2>2, <2>3
<1> DEFINE r == KeyRange(both)
<1>6. /\ r \in Int \X Int /\ r[1] <= r[2]
      /\ \A f \in Range(both) : r[1] <= FirstKey(f) /\ LastKey(f) <= r[2]
      /\ \E f \in Range(both) : r[1] = FirstKey(f)
      /\ \E f \in Range(both) : r[2] = LastKey(f)
  BY <1>5, KeyRangeFacts
<1>7. \A f \in Range(both) : Within(r, f)
  BY <1>5, RangeReaches
<1>8. PICK q \in Bounds : /\ q[1] <= r[1] /\ r[2] <= q[2]
                          /\ more \in Seq(File) /\ Range(more) = Hits(v[level], q)
  BY <1>3, <1>6, OverlappingMet
<1> HIDE DEF r, both
<1>9. Range(files) \subseteq Range(more) /\ Range(more) \subseteq Range(v[level]) /\ more # <<>>
  <2>1. \A f \in Range(files) : f \in Range(more)
    <3> SUFFICES ASSUME NEW f \in Range(files) PROVE f \in Hits(v[level], q)
      BY <1>8
    <3>1. f \in Range(both) /\ f \in Range(v[level])
      BY <1>5
    <3>2. FirstKey(f) \in Int /\ LastKey(f) \in Int
      BY <1>5, <3>1, FileKeys
    <3>3. ~(LastKey(f) < r[1]) /\ ~(FirstKey(f) > r[2])
      BY <1>7, <3>1 DEF Within
    <3>4. ~(LastKey(f) < q[1]) /\ ~(FirstKey(f) > q[2])
      BY <1>6, <1>8, <3>2, <3>3 DEF Bounds
    <3>5. QED
      BY <3>1, <3>4 DEF Hits, Within
  <2>2. files[1] \in Range(files)
    BY DEF Range
  <2>3. Range(more) # {}
    BY <2>1, <2>2
  <2>4. more # <<>>
    BY <2>3 DEF Range
  <2>5. QED
    BY <1>8, <2>1, <2>4 DEF Hits
<1>10. more \in Seq(File)
  BY <1>8
<1> HIDE DEF more
<1>11. Lower(more, two)
  BY <1>9, <1>10, LowerAway
<1> HIDE DEF two
<1>12. Lower(up, low)
  BY <1>4, <1>11
<1>13. OthersAway(v, c)
  <2>1. c.inputs[1] = up /\ c.inputs[2] = low
    BY <1>1
  <2>2. InputEntries(c) = UNION {f.entries : f \in Range(up) \cup Range(low)}
    BY <1>2, <2>1, InputEntriesFacts
  <2> HIDE DEF up, low
  <2>3. QED
    BY <1>1, <1>12, <2>1, <2>2 DEF OthersAway
<1>14. ASSUME Connected(Range(files))
       PROVE  Connected(InputFiles(c))
  <2>1. /\ Range(files) \in SUBSET File /\ \A f \in Range(files) : Bounded(f)
        /\ \A f \in Range(files) : Within(KeyRange(files), f)
    <3>1. Range(files) \in SUBSET File /\ \A f \in Range(files) : Bounded(f)
      BY <1>3
    <3>2. QED
      BY <3>1, RangeReaches
  <2>2. Connected(Range(one) \cup Range(files))
    BY <1>3, <1>14, <2>1, RangeConnects DEF one
  <2>3. Range(both) \in SUBSET File /\ Connected(Range(both))
    <3>1. Range(both) = Range(one) \cup Range(files)
      BY <1>5
    <3>2. QED
      BY <1>5, <2>2, <3>1
  <2>4. Connected(Range(more) \cup Range(both))
    BY <1>3, <1>5, <1>7, <2>3, RangeConnects DEF more, r
  <2> DEFINE S == Range(more) \cup Range(one)
  <2>5. Range(more) \cup Range(both) = S
    BY <1>5, <1>9
  <2>6. S \in SUBSET File /\ \A f \in S : Bounded(f)
    BY <1>3, <1>5, <1>9
  <2>7. Range(one) \subseteq Range(two)
    <3> SUFFICES ASSUME NEW f \in Range(one) PROVE f \in Range(two)
      OBVIOUS
    <3>1. f \in Hits(v[level + 1], KeyRange(files)) /\ f \in File /\ Bounded(f)
      BY <1>4, <1>5
    <3> DEFINE p == KeyRange(files)
               t == KeyRange(more)
    <3>2. /\ p \in Int \X Int
          /\ \E h \in Range(files) : p[1] = FirstKey(h)
          /\ \E h \in Range(files) : p[2] = LastKey(h)
      BY <2>1, KeyRangeFacts
    <3>3. /\ t \in Int \X Int
          /\ \A h \in Range(more) : t[1] <= FirstKey(h) /\ LastKey(h) <= t[2]
      BY <1>9, <1>10, <2>6, KeyRangeFacts
    <3>4. Within(p, f)
      BY <3>1 DEF Hits
    <3> HIDE DEF p, t
    <3>5. t[1] <= p[1] /\ p[2] <= t[2]
      BY <1>9, <3>2, <3>3
    <3>6. FirstKey(f) \in Int /\ LastKey(f) \in Int
      BY <3>1, FileKeys
    <3>7. p[1] \in Int /\ p[2] \in Int /\ t[1] \in Int /\ t[2] \in Int
      BY <3>2, <3>3
    <3>8. ~(LastKey(f) < t[1]) /\ ~(FirstKey(f) > t[2])
      BY <3>4, <3>5, <3>6, <3>7 DEF Within
    <3>9. f \in Hits(v[level + 1], t)
      BY <3>1, <3>8 DEF Hits, Within
    <3>10. QED
      BY <1>11, <3>9 DEF t
  <2>8. \A f \in S : Within(KeyRange(more), f)
    <3>1. \A f \in Range(more) : Within(KeyRange(more), f)
      BY <1>9, <1>10, <2>6, RangeReaches
    <3>2. \A f \in Range(one) : Within(KeyRange(more), f)
      BY <1>11, <2>7 DEF Hits
    <3>3. QED
      BY <3>1, <3>2
  <2>9. Connected(S) /\ Range(more) \subseteq S
    BY <2>4, <2>5
  <2> HIDE DEF S
  <2>10. Connected(Range(two) \cup S)
    BY <1>3, <1>9, <1>10, <2>6, <2>8, <2>9, RangeConnects DEF two
  <2>11. Range(two) \cup S = Range(more) \cup Range(two)
    BY <2>7 DEF S
  <2>12. InputFiles(c) = Range(up) \cup Range(low)
    BY <1>1 DEF InputFiles
  <2> HIDE DEF grown
  <2>13. CASE grown
    BY <2>10, <2>11, <2>12, <2>13
  <2>14. CASE ~grown
    <3>1. Range(one) \cup Range(files) = Range(files) \cup Range(one)
      OBVIOUS
    <3>2. QED
      BY <2>2, <2>12, <2>14, <3>1
  <2>15. QED
    BY <2>13, <2>14
<1>15. QED
  BY <1>13, <1>14 DEF c

\* A file, in level 0 with those that overlap it, is without gaps.
LEMMA FileConnects ==
  ASSUME NEW v, VersionSound(v), AllBounded(v), NEW level \in Levels, NEW file \in Range(v[level])
  PROVE  LET files == IF level = 0 THEN Overlapping(v, 0, FirstKey(file), LastKey(file))
                      ELSE <<file>>
         IN  /\ files \in Seq(File) /\ files # <<>> /\ Range(files) \subseteq Range(v[level])
             /\ Connected(Range(files))
<1> DEFINE files == IF level = 0 THEN Overlapping(v, 0, FirstKey(file), LastKey(file))
                    ELSE <<file>>
           lo == FirstKey(file)
           hi == LastKey(file)
<1>1. /\ v[level] \in Seq(File) /\ file \in File /\ Bounded(file)
      /\ \A f \in Range(v[level]) : Bounded(f)
  BY DEF VersionSound, AllBounded, FilesOf, Range
<1>2. lo \in Int /\ hi \in Int /\ lo <= hi
  BY <1>1, FileKeys
<1>3. Connected({file})
  BY DEF Connected, Misses
<1>4. CASE level # 0
  <2>1. files = <<file>>
    BY <1>4
  <2>2. Range(<<file>>) = {file}
    BY DEF Range
  <2>3. <<file>> \in Seq(File) /\ <<file>> # <<>>
    BY <1>1
  <2> HIDE DEF files
  <2>4. /\ files \in Seq(File) /\ files # <<>>
    BY <2>1, <2>3
  <2>5. Range(files) \subseteq Range(v[level]) /\ Connected(Range(files))
    BY Zenon, <1>3, <2>1, <2>2
  <2>6. QED
    BY <2>4, <2>5 DEF files
<1>5. CASE level = 0
  <2>1. files = Overlapping(v, level, lo, hi)
    BY <1>5
  <2>2. Within(<<lo, hi>>, file)
    BY <1>2 DEF Within
  <2>3. lo = FirstKey(file) /\ hi = LastKey(file)
    OBVIOUS
  <2> HIDE DEF lo, hi, files
  <2>4. PICK r \in Bounds : r[1] <= lo /\ hi <= r[2] /\ Range(files) = Hits(v[level], r)
    BY <1>1, <1>2, <2>1, OverlappingMet
  <2>5. file \in Range(files)
    <3>1. r[1] \in Int /\ r[2] \in Int
      BY DEF Bounds
    <3>2. ~(hi < r[1]) /\ ~(lo > r[2])
      BY <1>2, <2>4, <3>1
    <3>3. QED
      BY <2>3, <2>4, <3>2 DEF Hits, Within
  <2>6. files \in Seq(File) /\ Range(files) \subseteq Range(v[level])
    BY <1>1, <2>1, OverlappingFacts
  <2>7. files # <<>>
    BY <2>5 DEF Range
  <2>8. Connected(Range(files) \cup {file})
    BY <1>1, <1>2, <1>3, <2>1, <2>2, <2>3, ConnectedGrows
  <2>9. Range(files) \cup {file} = Range(files)
    BY <2>5
  <2>10. QED
    BY <2>6, <2>7, <2>8, <2>9 DEF files, lo, hi
<1>6. QED
  BY <1>4, <1>5

LEMMA SeeksApart ==
  ASSUME NEW v, VersionSound(v), AllBounded(v), LevelsApart(v),
         NEW level \in Levels, level + 1 \in Levels, NEW file \in Range(v[level]), NEW target
  PROVE  LET c == PickForSeeks(v, level, file, target)
         IN  OthersAway(v, c) /\ Connected(InputFiles(c))
<1> DEFINE files == IF level = 0 THEN Overlapping(v, 0, FirstKey(file), LastKey(file))
                    ELSE <<file>>
<1>1. PickForSeeks(v, level, file, target) = WithOtherInputs(v, level, files, target)
  BY DEF PickForSeeks
<1>2. /\ files \in Seq(File) /\ files # <<>> /\ Range(files) \subseteq Range(v[level])
      /\ Connected(Range(files))
  BY FileConnects
<1> HIDE DEF files
<1>3. QED
  BY <1>1, <1>2, InputsApart

LEMMA SizeApart ==
  ASSUME NEW v, VersionSound(v), AllBounded(v), LevelsApart(v),
         NEW level \in FullestLevels(v), NEW target, NEW p
  PROVE  LET c == PickForSize(v, level, p, target)
         IN  OthersAway(v, c) /\ Connected(InputFiles(c))
<1>1. level \in Levels /\ level + 1 \in Levels
  BY LevelsAssumption DEF FullestLevels, Levels
<1>2. PICK file \in Range(v[level]) :
        PickForSize(v, level, p, target) = PickForSeeks(v, level, file, target)
  BY SizeStarts DEF VersionSound
<1>3. QED
  BY <1>1, <1>2, SeeksApart

LEMMA RangeApart ==
  ASSUME NEW v, VersionSound(v), AllBounded(v), LevelsApart(v),
         NEW level \in Levels, level + 1 \in Levels, NEW lo, NEW hi, NEW target,
         Overlapping(v, level, lo, hi) # <<>>
  PROVE  OthersAway(v, PickForRange(v, level, lo, hi, target))
<1> DEFINE all == Overlapping(v, level, lo, hi)
           enough == {i \in DOMAIN all : level > 0 /\ Size(SubSeq(all, 1, i)) >= target}
           files == IF enough = {} THEN all ELSE SubSeq(all, 1, Min(enough))
<1>1. PickForRange(v, level, lo, hi, target) = WithOtherInputs(v, level, files, target)
  BY DEF PickForRange
<1>2. all \in Seq(File) /\ Range(all) \subseteq Range(v[level]) /\ all # <<>>
  BY OverlappingFacts DEF VersionSound
<1> HIDE DEF all
<1>3. enough # {} => Min(enough) \in DOMAIN all
  <2> SUFFICES ASSUME enough # {} PROVE Min(enough) \in DOMAIN all
    OBVIOUS
  <2>1. enough \subseteq DOMAIN all /\ DOMAIN all \subseteq Nat
    BY <1>2
  <2> HIDE DEF enough
  <2>2. \E n \in enough : \A m \in enough : n <= m
    BY <2>1, LeastNumber
  <2>3. Min(enough) \in enough
    BY <2>2 DEF Min
  <2>4. QED
    BY <2>1, <2>3
<1>4. ASSUME NEW n \in DOMAIN all
      PROVE  /\ SubSeq(all, 1, n) \in Seq(File) /\ Range(SubSeq(all, 1, n)) \subseteq Range(all)
             /\ SubSeq(all, 1, n) # <<>>
  BY <1>2 DEF Range
<1> HIDE DEF enough
<1>5. files \in Seq(File) /\ Range(files) \subseteq Range(v[level]) /\ files # <<>>
  BY <1>2, <1>3, <1>4
<1> HIDE DEF files
<1>6. QED
  BY <1>1, <1>5, InputsApart

-----------------------------------------------------------------------------
(* Levels without overlaps *)

EntriesOf(v) == UNION {f.entries : f \in FilesOf(v)}
Recorded == mem \cup (IF imm = None THEN {} ELSE imm) \cup EntriesOf(version)

\* Each write has a sequence number of its own.
Numbered ==
  /\ \A e, d \in Recorded : e[2] = d[2] => e = d
  /\ \A e \in Recorded : e[2] <= lastSequence
  /\ lastSequence <= scenario.writes

\* What a compaction writes is in order and made of what it reads; the other files of the
\* level it goes to are on one side of that. A flush meanwhile keeps out of its inputs as
\* they leave no gaps; those of a manual one may, but then no memtable waits to be flushed.
MergeApart ==
  /\ InputsOf(version, bg) /\ OthersAway(version, bg)
  /\ IF bg.manual THEN imm = None /\ (manual # None \/ bgError) ELSE Connected(InputFiles(bg))
  /\ \A i \in DOMAIN bg.outputs :
       Bounded(bg.outputs[i]) /\ bg.outputs[i].entries \subseteq InputEntries(bg)
  /\ \A i \in DOMAIN bg.todo : bg.todo[i] \subseteq InputEntries(bg)
  /\ \A i, j \in DOMAIN bg.outputs :
       i < j => Follow(bg.outputs[i].entries, bg.outputs[j].entries)
  /\ \A i \in DOMAIN bg.outputs, j \in DOMAIN bg.todo : Follow(bg.outputs[i].entries, bg.todo[j])
  /\ \A i, j \in DOMAIN bg.todo : i < j => Follow(bg.todo[i], bg.todo[j])

ApartInv ==
  /\ Numbered /\ AllBounded(version) /\ LevelsApart(version)
  /\ bg.at = "merge" => MergeApart

DisjointInv == CompactionInv /\ (~scenario.gaps => ApartInv)

LEMMA DisjointInit == Init => DisjointInv
<1> SUFFICES ASSUME Init PROVE DisjointInv
  OBVIOUS
<1>1. CompactionInv
  BY CompactionInit
<1>2. /\ scenario \in Scenarios /\ mem = {} /\ imm = None /\ lastSequence = 0
      /\ version = [l \in Levels |-> <<>>] /\ bg.at = "none"
  BY DEF Init, Idle
<1>3. FilesOf(version) = {} /\ \A l \in Levels : Range(version[l]) = {}
  BY <1>2 DEF FilesOf, Range
<1>4. Recorded = {}
  BY <1>2, <1>3 DEF Recorded, EntriesOf
<1>5. lastSequence <= scenario.writes
  <2>1. scenario.writes \in Nat
    BY <1>2, ScenarioAssumption
  <2>2. QED
    BY <1>2, <2>1
<1>6. Numbered
  BY <1>4, <1>5 DEF Numbered
<1>7. QED
  BY <1>1, <1>2, <1>3, <1>6 DEF DisjointInv, ApartInv, AllBounded, LevelsApart

\* What is recorded has numbers that a version may have.
LEMMA RecordedNumbers ==
  ASSUME CompactionInv, Numbered
  PROVE  Recorded \subseteq Entry /\ Numbers(version)
<1>1. /\ VersionSound(version) /\ scenario \in Scenarios /\ lastSequence \in Nat
      /\ mem \in EntrySet /\ (imm # None => imm \in EntrySet)
  BY DEF CompactionInv, MemTables
<1>2. scenario.writes \in Nat /\ scenario.writes <= MaxSequence /\ MaxSequence \in Nat
  BY <1>1, ScenarioAssumption, LevelsAssumption
<1>3. FilesOf(version) \subseteq File
  BY <1>1 DEF VersionSound, FilesOf, Range
<1>4. EntriesOf(version) \subseteq Entry
  BY <1>3 DEF EntriesOf, File, EntrySet
<1>5. Recorded \subseteq Entry
  BY <1>1, <1>4 DEF Recorded, EntrySet
<1>6. ASSUME NEW f \in FilesOf(version), NEW e \in f.entries
      PROVE  e[2] <= MaxSequence
  <2>1. e \in Recorded
    BY DEF Recorded, EntriesOf
  <2>2. e[2] <= lastSequence /\ lastSequence <= scenario.writes
    BY <2>1 DEF Numbered
  <2>3. e[2] \in Nat
    BY <1>5, <2>1, EntryTypes
  <2>4. QED
    BY <1>1, <1>2, <2>2, <2>3
<1>7. QED
  BY <1>5, <1>6 DEF Numbers

LEMMA FewerNumbered ==
  ASSUME Numbered, Recorded' \subseteq Recorded, UNCHANGED <<scenario, lastSequence>>
  PROVE  Numbered'
BY DEF Numbered

\* Steps that change no table.
LEMMA SameApart ==
  ASSUME ApartInv, UNCHANGED <<scenario, memVars, version, bg>>,
         manual # None \/ bgError => manual' # None \/ bgError'
  PROVE  ApartInv'
<1>1. UNCHANGED <<scenario, mem, imm, lastSequence, version, bg>>
  BY DEF memVars
<1>2. Recorded' = Recorded
  BY <1>1 DEF Recorded
<1>3. Numbered'
  BY <1>1, <1>2 DEF ApartInv, Numbered
<1>4. MergeApart => MergeApart'
  BY <1>1 DEF MergeApart
<1>5. QED
  BY <1>1, <1>3, <1>4 DEF ApartInv

\* A write has a number above all others.
LEMMA WriteApart ==
  ASSUME CompactionInv, ApartInv, NEW p \in scenario.puts, Write(p[1], p[2])
  PROVE  ApartInv'
<1> DEFINE e == <<p[1], lastSequence + 1, p[2]>>
<1>1. /\ lastSequence < scenario.writes /\ lastSequence' = lastSequence + 1
      /\ mem' = mem \cup {e}
      /\ UNCHANGED <<scenario, imm, version, bg, bgError, manual>>
  BY DEF Write, diskVars, rangeVars
<1>2. lastSequence \in Nat /\ scenario.writes \in Nat
  BY ScenarioAssumption DEF CompactionInv, MemTables
<1>3. \A d \in Recorded : d[2] \in Nat /\ d[2] <= lastSequence
  BY RecordedNumbers, EntryTypes DEF ApartInv, Numbered
<1>4. e[2] = lastSequence + 1
  OBVIOUS
<1> HIDE DEF e
<1>5. Recorded' = Recorded \cup {e}
  BY <1>1 DEF Recorded
<1>6. Numbered'
  <2>1. \A d \in Recorded : d[2] <= lastSequence + 1 /\ d[2] # e[2]
    BY <1>2, <1>3, <1>4
  <2>2. lastSequence + 1 <= scenario.writes /\ e[2] <= lastSequence + 1
    BY <1>1, <1>2, <1>4
  <2>3. \A a, b \in Recorded : a[2] = b[2] => a = b
    BY DEF ApartInv, Numbered
  <2>4. \A a, b \in Recorded' : a[2] = b[2] => a = b
    BY <1>5, <2>1, <2>3
  <2>5. \A d \in Recorded' : d[2] <= lastSequence'
    BY <1>1, <1>5, <2>1, <2>2
  <2>6. QED
    BY <1>1, <2>2, <2>4, <2>5 DEF Numbered
<1>7. MergeApart => MergeApart'
  BY <1>1 DEF MergeApart
<1>8. QED
  BY <1>1, <1>6, <1>7 DEF ApartInv

\* No memtable is replaced while a manual compaction is under way.
LEMMA SwitchApart ==
  ASSUME CompactionInv, ApartInv, ~scenario.gaps, SwitchMemTable \/ RangeSwitches
  PROVE  ApartInv'
<1>1. /\ imm = None /\ ~bgError /\ imm' = mem /\ mem' = {}
      /\ UNCHANGED <<scenario, lastSequence, version, bg>>
  BY DEF SwitchMemTable, RangeSwitches, diskVars
<1>2. manual = None
  BY DEF SwitchMemTable, RangeSwitches, CompactionInv, LevelsBelow
<1>3. Recorded' \subseteq Recorded
  BY <1>1 DEF Recorded
<1>4. Numbered'
  BY <1>1, <1>3, FewerNumbered DEF ApartInv
<1>5. MergeApart => MergeApart'
  BY <1>1, <1>2 DEF MergeApart
<1>6. QED
  BY <1>1, <1>4, <1>5 DEF ApartInv

\* An edit with one new file puts that in its level.
LEMMA OneFilePlaced ==
  ASSUME NEW v, VersionSound(v), NEW deleted, NEW level, NEW file \in File,
         \A l \in Levels : \A f \in Range(v[l]) :
           <<l, f.number>> \notin deleted => f.number # file.number
  PROVE  LET w == Edited(v, deleted, << <<level, file>> >>)
         IN  \A l \in Levels :
               Range(w[l]) = {f \in Range(v[l]) : <<l, f.number>> \notin deleted}
                               \cup {f \in {file} : l = level}
<1> DEFINE added == << <<level, file>> >>
<1>1. DOMAIN added = {1} /\ added[1][1] = level /\ added[1][2] = file
  OBVIOUS
<1> HIDE DEF added
<1>2. IsFiniteSet(DOMAIN added)
  BY <1>1, FS_Singleton
<1>3. \A l \in Levels : Range(Edited(v, deleted, added)[l]) =
        {f \in Range(v[l]) : <<l, f.number>> \notin deleted} \cup NewFiles(added, DOMAIN added, l)
  BY <1>1, <1>2, InstallFacts
<1>4. \A l \in Levels : NewFiles(added, DOMAIN added, l) = {f \in {file} : l = level}
  BY <1>1 DEF NewFiles
<1>5. QED
  BY <1>3, <1>4 DEF added

\* What a flush adds to each level: to one of them a file, unless the memtable is empty, that
\* all files of that level and, below level 0, of those above are on one side of.
Flushed(l, level, file) == {f \in {file} : imm # {} /\ l = level}

LEMMA FlushPlaces ==
  ASSUME CompactionInv, ApartInv, Flush
  PROVE  LET file == Table(nextFile, imm)
             level == PickLevelForMemTableOutput(version, FirstKey(file), LastKey(file), scenario.target)
         IN  /\ \A l \in Levels : Range(version'[l]) = Range(version[l]) \cup Flushed(l, level, file)
             /\ imm # {} => file \in File /\ Bounded(file) /\ file.entries = imm
             /\ level \in Levels
             /\ imm # {} /\ level # 0 =>
                  \A l \in 0..level : \A f \in Range(version[l]) :
                    LastKey(f) < FirstKey(file) \/ LastKey(file) < FirstKey(f)
<1> DEFINE file == Table(nextFile, imm)
           level == PickLevelForMemTableOutput(version, FirstKey(file), LastKey(file), scenario.target)
           added == IF imm = {} THEN <<>> ELSE << <<level, file>> >>
<1>0. PICK deleted : deleted = {}
  OBVIOUS
<1>1. imm # None /\ version' = Edited(version, deleted, added)
  BY <1>0 DEF Flush, Install
<1>2. /\ VersionSound(version) /\ nextFile \in Nat /\ imm \in EntrySet
      /\ \A n \in TablesOf(version) : n < nextFile
  BY <1>1 DEF CompactionInv, MemTables
<1>3. ASSUME imm # {}
      PROVE  file \in File /\ Bounded(file) /\ file.entries = imm /\ file.number = nextFile
  BY <1>2, <1>3, TableFacts, TableBounded
<1>4. /\ level \in Levels
      /\ level # 0 => \A m \in 0..level : ~OverlapInLevel(version, m, FirstKey(file), LastKey(file))
  BY PickLevel
<1> HIDE DEF level, file
<1>5. ASSUME imm # {}, level # 0, NEW l \in 0..level, NEW f \in Range(version[l])
      PROVE  LastKey(f) < FirstKey(file) \/ LastKey(file) < FirstKey(f)
  <2>1. l \in Levels
    BY <1>4, LevelsAssumption DEF Levels
  <2>2. FirstKey(file) \in Int /\ LastKey(file) \in Int
    BY <1>3, <1>5, FileKeys
  <2>3. AllBounded(version) /\ LevelsApart(version) /\ Numbers(version)
    BY RecordedNumbers DEF ApartInv
  <2>4. ~OverlapInLevel(version, l, FirstKey(file), LastKey(file))
    BY <1>4, <1>5
  <2>5. QED
    BY <1>2, <1>5, <2>1, <2>2, <2>3, <2>4, OverlapSound
<1>6. \A l \in Levels : Range(version'[l]) = Range(version[l]) \cup Flushed(l, level, file)
  <2>1. CASE imm = {}
    <3>1. DOMAIN added = {} /\ IsFiniteSet(DOMAIN added)
      BY <2>1, FS_EmptySet
    <3> HIDE DEF added
    <3>2. \A l \in Levels : Range(version'[l]) =
            {f \in Range(version[l]) : <<l, f.number>> \notin deleted}
              \cup NewFiles(added, DOMAIN added, l)
      BY <1>1, <1>2, <3>1, InstallFacts
    <3>3. \A l \in Levels : NewFiles(added, DOMAIN added, l) = {}
      BY <3>1 DEF NewFiles
    <3>4. QED
      BY <1>0, <2>1, <3>2, <3>3 DEF Flushed
  <2>2. CASE imm # {}
    <3>1. \A l \in Levels : \A f \in Range(version[l]) : f.number # file.number
      <4>1. \A l \in Levels : \A f \in Range(version[l]) : f.number \in TablesOf(version)
        BY DEF TablesOf
      <4>2. \A n \in TablesOf(version) : n # nextFile
        BY <1>2
      <4>3. QED
        BY <1>3, <2>2, <4>1, <4>2
    <3>2. version' = Edited(version, deleted, << <<level, file>> >>)
      BY <1>1, <2>2
    <3>3. file \in File
      BY <1>3, <2>2
    <3>4. \A l \in Levels : Range(version'[l]) =
            {f \in Range(version[l]) : <<l, f.number>> \notin deleted} \cup {f \in {file} : l = level}
      BY <1>2, <3>1, <3>2, <3>3, OneFilePlaced
    <3>5. QED
      BY <1>0, <2>2, <3>4 DEF Flushed
  <2>3. QED
    BY <2>1, <2>2
<1>7. QED
  BY <1>3, <1>4, <1>5, <1>6 DEF file, level

\* Files whose keys do not overlap are on one side of each other.
LEMMA KeysApart ==
  ASSUME NEW f \in File, NEW g \in File, Bounded(f), Bounded(g), LastKey(f) < FirstKey(g)
  PROVE  /\ Before(f.largest, g.smallest)
         /\ \A e \in f.entries : Before(e, g.smallest)
         /\ \A e \in g.entries : Before(f.largest, e)
<1>1. /\ FirstKey(f) \in Int /\ LastKey(f) \in Int /\ FirstKey(g) \in Int /\ LastKey(g) \in Int
      /\ \A e \in f.entries : e \in Entry /\ e[1] <= LastKey(f)
      /\ \A e \in g.entries : e \in Entry /\ FirstKey(g) <= e[1]
  BY FileKeys
<1>2. \A e \in f.entries : e[1] < FirstKey(g)
  BY <1>1, EntryTypes
<1>3. \A e \in g.entries : LastKey(f) < e[1]
  BY <1>1, EntryTypes
<1>4. QED
  BY <1>2, <1>3 DEF Before, FirstKey, LastKey

LEMMA FlushApart ==
  ASSUME CompactionInv, ApartInv, Flush
  PROVE  ApartInv'
<1> DEFINE file == Table(nextFile, imm)
           level == PickLevelForMemTableOutput(version, FirstKey(file), LastKey(file), scenario.target)
<1>1. /\ imm # None /\ imm' = None
      /\ UNCHANGED <<scenario, mem, lastSequence, bg, manual>>
  BY DEF Flush, rangeVars
<1>2. /\ \A l \in Levels : Range(version'[l]) = Range(version[l]) \cup Flushed(l, level, file)
      /\ imm # {} => file \in File /\ Bounded(file) /\ file.entries = imm
      /\ level \in Levels
      /\ imm # {} /\ level # 0 =>
           \A l \in 0..level : \A f \in Range(version[l]) :
             LastKey(f) < FirstKey(file) \/ LastKey(file) < FirstKey(f)
  BY FlushPlaces
<1> HIDE DEF level, file
<1>3. \A f \in FilesOf(version') : f \in FilesOf(version) \/ (f = file /\ imm # {})
  BY <1>2 DEF FilesOf, Flushed
<1>4. /\ version \in [Levels -> Seq(File)]
      /\ \A l \in Levels : \A f \in Range(version[l]) : f \in File /\ Bounded(f)
  <2>1. version \in [Levels -> Seq(File)]
    BY DEF CompactionInv, VersionSound
  <2>2. \A l \in Levels : \A f \in Range(version[l]) : Bounded(f)
    BY DEF ApartInv, AllBounded, FilesOf
  <2>3. QED
    BY <2>1, <2>2 DEF Range
<1>5. Numbered'
  <2>1. EntriesOf(version') \subseteq EntriesOf(version) \cup imm
    BY <1>2, <1>3 DEF EntriesOf
  <2>2. Recorded' \subseteq Recorded
    BY <1>1, <2>1 DEF Recorded
  <2>3. QED
    BY <1>1, <2>2, FewerNumbered DEF ApartInv
<1>6. AllBounded(version')
  BY <1>2, <1>3 DEF ApartInv, AllBounded
<1>7. ASSUME NEW l \in Levels, l # 0, NEW f \in Range(version[l]), l = level, imm # {}
      PROVE  Apart(f, file) /\ Apart(file, f)
  <2>1. l \in 0..level
    BY <1>7, LevelsAssumption DEF Levels
  <2>2. LastKey(f) < FirstKey(file) \/ LastKey(file) < FirstKey(f)
    BY <1>2, <1>7, <2>1
  <2>3. QED
    BY <1>2, <1>4, <1>7, <2>2, KeysApart DEF Apart
<1>8. LevelsApart(version')
  <2> SUFFICES ASSUME NEW l \in Levels \ {0}, NEW f \in Range(version'[l]), NEW g \in Range(version'[l]),
                      f # g
               PROVE  Apart(f, g)
    BY DEF LevelsApart
  <2>1. \A h \in Range(version'[l]) : h \in Range(version[l]) \/ (h = file /\ l = level /\ imm # {})
    BY <1>2 DEF Flushed
  <2>2. CASE f \in Range(version[l]) /\ g \in Range(version[l])
    BY <2>2 DEF ApartInv, LevelsApart
  <2>3. QED
    BY <1>7, <2>1, <2>2
<1>9. ASSUME MergeApart, bg.at = "merge"
      PROVE  MergeApart'
  <2>1. Connected(InputFiles(bg)) /\ ~bg.manual
    BY <1>1, <1>9 DEF MergeApart
  <2>2. InputsOf(version, bg) /\ OthersAway(version, bg)
    BY <1>9 DEF MergeApart
  <2>3. InputsOf(version', bg)
    BY <1>2, <2>2 DEF InputsOf
  <2>4. bg.level \in Levels /\ bg.level + 1 \in Levels /\ bg.level + 1 # 0
    BY <2>2, LevelsAssumption DEF InputsOf, Levels
  <2>5. ASSUME imm # {}, level = bg.level + 1
        PROVE  Away(file, InputEntries(bg))
    <3>1. \A f \in InputFiles(bg) :
            /\ f \in File /\ Bounded(f)
            /\ LastKey(f) < FirstKey(file) \/ LastKey(file) < FirstKey(f)
      <4>1. bg.level \in 0..level /\ bg.level + 1 \in 0..level
        BY <2>4, <2>5, LevelsAssumption DEF Levels
      <4>2. \A f \in InputFiles(bg) : f \in Range(version[bg.level]) \/ f \in Range(version[bg.level + 1])
        BY <2>2 DEF InputsOf, InputFiles
      <4>3. QED
        BY <1>2, <1>4, <2>4, <2>5, <4>1, <4>2
    <3>2. file \in File /\ Bounded(file)
      BY <1>2, <2>5
    <3>3. FirstKey(file) \in Int /\ LastKey(file) \in Int /\ FirstKey(file) <= LastKey(file)
      BY <3>2, FileKeys
    <3>4. Misses(FirstKey(file), LastKey(file), InputFiles(bg))
      BY <3>1 DEF Misses
    <3>5. \/ \A f \in InputFiles(bg) : LastKey(f) < FirstKey(file)
          \/ \A f \in InputFiles(bg) : LastKey(file) < FirstKey(f)
      BY <2>1, <3>3, <3>4 DEF Connected
    <3>6. InputEntries(bg) = UNION {f.entries : f \in InputFiles(bg)}
      BY <2>2, InputEntriesFacts DEF InputFiles
    <3>7. \A e \in InputEntries(bg) : \E f \in InputFiles(bg) : e \in f.entries
      BY <3>6
    <3>8. CASE \A f \in InputFiles(bg) : LastKey(f) < FirstKey(file)
      BY <3>1, <3>2, <3>7, <3>8, KeysApart DEF Away
    <3>9. CASE \A f \in InputFiles(bg) : LastKey(file) < FirstKey(f)
      BY <3>1, <3>2, <3>7, <3>9, KeysApart DEF Away
    <3>10. QED
      BY <3>5, <3>8, <3>9
  <2>6. OthersAway(version', bg)
    <3> SUFFICES ASSUME NEW g \in Range(version'[bg.level + 1]) \ Range(bg.inputs[2])
                 PROVE  Away(g, InputEntries(bg))
      BY DEF OthersAway
    <3>1. g \in Range(version[bg.level + 1]) \/ (g = file /\ bg.level + 1 = level /\ imm # {})
      BY <1>2, <2>4 DEF Flushed
    <3>2. QED
      BY <2>2, <2>5, <3>1 DEF OthersAway
  <2>7. QED
    BY <1>1, <1>9, <2>1, <2>3, <2>6 DEF MergeApart
<1>10. QED
  BY <1>1, <1>5, <1>6, <1>8, <1>9 DEF ApartInv

\* The versions of the other steps hold nothing that was not recorded.
LEMMA FewerRecorded ==
  ASSUME Numbered, UNCHANGED <<scenario, memVars>>,
         EntriesOf(version') \subseteq EntriesOf(version)
  PROVE  Numbered'
<1>1. UNCHANGED <<scenario, mem, imm, lastSequence>>
  BY DEF memVars
<1>2. Recorded' \subseteq Recorded
  BY <1>1 DEF Recorded
<1>3. QED
  BY <1>1, <1>2, FewerNumbered

\* What is read is recorded, so that its entries are in one order.
LEMMA InputsRecorded ==
  ASSUME CompactionInv, Numbered, NEW c, InputsOf(version, c)
  PROVE  /\ InputEntries(c) \subseteq EntriesOf(version)
         /\ \A d, e \in InputEntries(c) : d # e => Before(d, e) \/ Before(e, d)
<1>1. InputEntries(c) \subseteq EntriesOf(version)
  <2>1. InputEntries(c) = UNION {f.entries : f \in Range(c.inputs[1]) \cup Range(c.inputs[2])}
    BY InputEntriesFacts
  <2>2. Range(c.inputs[1]) \cup Range(c.inputs[2]) \subseteq FilesOf(version)
    BY DEF InputsOf, FilesOf
  <2>3. QED
    BY <2>1, <2>2 DEF EntriesOf
<1>2. ASSUME NEW d \in InputEntries(c), NEW e \in InputEntries(c), d # e
      PROVE  Before(d, e) \/ Before(e, d)
  <2>1. d \in Recorded /\ e \in Recorded
    BY <1>1 DEF Recorded
  <2>2. d \in Entry /\ e \in Entry
    BY <2>1, RecordedNumbers
  <2>3. d[2] # e[2]
    BY <1>2, <2>1 DEF Numbered
  <2>4. d[1] \in Int /\ e[1] \in Int /\ d[2] \in Nat /\ e[2] \in Nat
    BY <2>2, EntryTypes
  <2>5. QED
    BY <2>3, <2>4 DEF Before
<1>3. QED
  BY <1>1, <1>2

LEMMA WorkApart ==
  ASSUME CompactionInv, ApartInv, NEW c, InputsOf(version, c), OthersAway(version, c),
         NEW m \in BOOLEAN, Work(c, m), UNCHANGED <<scenario, memVars, bgError, manual>>,
         IF m THEN imm = None /\ manual # None ELSE Connected(InputFiles(c))
  PROVE  ApartInv'
<1> DEFINE todo == Outputs(version, c, OldestSnapshot, scenario.target)
<1>1. bg' = [at |-> "merge", manual |-> m, level |-> c.level, inputs |-> c.inputs,
             base |-> version, outputs |-> <<>>, todo |-> todo]
      /\ version' = version /\ UNCHANGED <<mem, imm, lastSequence>>
  BY DEF Work, memVars
<1>2. /\ \A i \in DOMAIN todo : todo[i] \subseteq InputEntries(c)
      /\ \A i, j \in DOMAIN todo : i < j => Follow(todo[i], todo[j])
  BY InputsRecorded, OutputsSplit DEF ApartInv
<1> HIDE DEF todo
<1>3. /\ bg'.manual = m /\ bg'.level = c.level /\ bg'.inputs = c.inputs
      /\ bg'.outputs = <<>> /\ bg'.todo = todo /\ DOMAIN bg'.outputs = {}
  BY <1>1
<1>4. InputEntries(bg') = InputEntries(c) /\ InputFiles(bg') = InputFiles(c)
  BY <1>3 DEF InputEntries, InputFiles
<1>5. InputsOf(version', bg') /\ OthersAway(version', bg')
  BY <1>1, <1>3, <1>4 DEF InputsOf, OthersAway
<1>6. MergeApart'
  BY <1>1, <1>2, <1>3, <1>4, <1>5 DEF MergeApart
<1>7. Numbered'
  BY <1>1, FewerRecorded DEF ApartInv
<1>8. QED
  BY <1>1, <1>6, <1>7 DEF ApartInv

LEMMA ManualApart ==
  ASSUME CompactionInv, ApartInv, CompactManual
  PROVE  ApartInv'
<1>1. /\ manual # None /\ imm = None
      /\ Overlapping(version, manual.level, manual.lo, manual.hi) # <<>>
      /\ \E c \in {PickForRange(version, manual.level, manual.lo, manual.hi, scenario.target)} :
           Work(c, TRUE)
      /\ UNCHANGED <<scenario, memVars, bgError, manual>>
  BY DEF CompactManual, rangeVars
<1> DEFINE c == PickForRange(version, manual.level, manual.lo, manual.hi, scenario.target)
<1>2. manual.level \in Levels /\ manual.level + 1 \in Levels
  <2>1. manual.level = range.level /\ range.at = "wait"
    BY <1>1 DEF CompactionInv, LevelsBelow
  <2>2. range.level \in Nat /\ range.last \in Levels /\ range.level < range.last
    BY <2>1 DEF CompactionInv, LevelsBelow
  <2>3. QED
    BY <2>1, <2>2, LevelsAssumption DEF Levels
<1>3. InputsOf(version, c)
  BY <1>2, RangeInputs DEF CompactionInv, VersionSound
<1>4. OthersAway(version, c)
  BY <1>1, <1>2, RangeApart DEF CompactionInv, ApartInv
<1>5. Work(c, TRUE)
  BY <1>1
<1> HIDE DEF c
<1>6. QED
  BY <1>1, <1>3, <1>4, <1>5, WorkApart

\* What PickCompaction picks has no gaps, and no other file of the next level in it.
LEMMA PickedFacts ==
  ASSUME CompactionInv, ApartInv, NEW c \in Picked
  PROVE  InputsOf(version, c) /\ OthersAway(version, c) /\ Connected(InputFiles(c))
<1>0. /\ VersionSound(version) /\ LevelsBelow /\ AllBounded(version) /\ LevelsApart(version)
      /\ version \in [Levels -> Seq(File)]
  BY DEF CompactionInv, ApartInv, VersionSound
<1>1. CASE c \in {PickForSize(version, l, pointers, scenario.target) : l \in FullestLevels(version)}
  BY <1>0, <1>1, SizeInputs, SizeApart
<1>2. CASE seekFile # None
             /\ c \in {PickForSeeks(version, seekFile[1], seekFile[2], scenario.target)}
  <2>1. seekFile[1] \in Nat /\ seekFile[1] + 1 \in Levels
        /\ seekFile[2] \in Range(version[seekFile[1]])
    BY <1>0, <1>2 DEF LevelsBelow
  <2>2. seekFile[1] \in Levels
    <3>1. \A n \in Nat : n + 1 \in Levels => n \in Levels
      BY LevelsAssumption DEF Levels
    <3>2. QED
      BY <2>1, <3>1
  <2>3. QED
    BY <1>0, <1>2, <2>1, <2>2, SeeksInputs, SeeksApart
<1>3. QED
  BY <1>1, <1>2 DEF Picked

\* A file that moves to the next level is on one side of all files there.
LEMMA MoveApart ==
  ASSUME CompactionInv, ApartInv, NEW c, InputsOf(version, c), OthersAway(version, c),
         bg.at = "none", IsTrivialMove(c, scenario.target),
         Install({<<c.level, c.inputs[1][1].number>>}, << <<c.level + 1, c.inputs[1][1]>> >>),
         UNCHANGED <<scenario, memVars, bg>>
  PROVE  ApartInv'
<1> DEFINE file == c.inputs[1][1]
           deleted == {<<c.level, file.number>>}
<1>0. /\ VersionSound(version)
      /\ \A l \in Levels : \A f \in Range(version[l]) : f \in File /\ Bounded(f)
  BY DEF CompactionInv, ApartInv, AllBounded, FilesOf, VersionSound, Range
<1>1. version' = Edited(version, deleted, << <<c.level + 1, file>> >>)
  BY DEF Install
<1>2. /\ file \in Range(version[c.level]) /\ c.level \in Levels /\ c.level + 1 \in Levels
      /\ file \in Range(c.inputs[1]) /\ file \in File
  <2>1. Len(c.inputs[1]) = 1 /\ c.inputs[1] \in Seq(File)
        /\ Range(c.inputs[1]) \subseteq Range(version[c.level])
    BY DEF IsTrivialMove, InputsOf
  <2>2. 1 \in DOMAIN c.inputs[1] /\ file \in File
    BY <2>1
  <2>3. file \in Range(c.inputs[1])
    BY <2>2 DEF Range
  <2>4. QED
    BY <2>1, <2>2, <2>3 DEF InputsOf
<1>3. \A l \in Levels : \A f \in Range(version[l]) :
        <<l, f.number>> \notin deleted => f.number # file.number
  <2> SUFFICES ASSUME NEW l \in Levels, NEW f \in Range(version[l]), f.number = file.number
               PROVE  <<l, f.number>> \in deleted
    OBVIOUS
  <2>1. l = c.level
    BY <1>0, <1>2 DEF VersionSound
  <2>2. QED
    BY <2>1
<1>4. \A g \in Range(version[c.level + 1]) : Away(g, InputEntries(c))
  <2>1. Range(c.inputs[2]) = {}
    BY DEF IsTrivialMove, Range
  <2>2. QED
    BY <2>1 DEF OthersAway
<1>5. file.smallest \in InputEntries(c) /\ file.largest \in InputEntries(c)
  <2>1. InputEntries(c) = UNION {f.entries : f \in Range(c.inputs[1]) \cup Range(c.inputs[2])}
    BY InputEntriesFacts
  <2>2. file.entries \subseteq InputEntries(c)
    BY <1>2, <2>1
  <2>3. Bounded(file)
    BY <1>0, <1>2
  <2>4. QED
    BY <2>2, <2>3 DEF Bounded
<1> HIDE DEF file, deleted
<1>6. \A l \in Levels :
        Range(version'[l]) = {f \in Range(version[l]) : <<l, f.number>> \notin deleted}
                               \cup {f \in {file} : l = c.level + 1}
  BY <1>0, <1>1, <1>2, <1>3, OneFilePlaced
<1>7. \A f \in FilesOf(version') : f \in FilesOf(version)
  <2>1. file \in FilesOf(version)
    BY <1>2 DEF FilesOf
  <2>2. \A l \in Levels : \A f \in Range(version'[l]) : f \in Range(version[l]) \/ f = file
    BY <1>6
  <2>3. QED
    BY <2>1, <2>2 DEF FilesOf
<1>8. AllBounded(version') /\ EntriesOf(version') \subseteq EntriesOf(version)
  BY <1>7 DEF ApartInv, AllBounded, EntriesOf
<1>9. LevelsApart(version')
  <2> SUFFICES ASSUME NEW l \in Levels \ {0}, NEW f \in Range(version'[l]), NEW g \in Range(version'[l]),
                      f # g
               PROVE  Apart(f, g)
    BY DEF LevelsApart
  <2>1. \A h \in Range(version'[l]) : h \in Range(version[l]) \/ (h = file /\ l = c.level + 1)
    BY <1>6
  <2>2. CASE f \in Range(version[l]) /\ g \in Range(version[l])
    BY <2>2 DEF ApartInv, LevelsApart
  <2>3. \A h \in Range(version[l]) : l = c.level + 1 => Apart(h, file) /\ Apart(file, h)
    BY <1>4, <1>5 DEF Away, Apart
  <2>4. QED
    BY <2>1, <2>2, <2>3
<1>10. Numbered'
  BY <1>8, FewerRecorded DEF ApartInv
<1>11. QED
  BY <1>8, <1>9, <1>10 DEF ApartInv

LEMMA PickedApart ==
  ASSUME CompactionInv, ApartInv, CompactPicked
  PROVE  ApartInv'
<1>1. bg.at = "none" /\ UNCHANGED <<scenario, memVars, bgError, manual>>
  BY DEF CompactPicked, rangeVars
<1>2. PICK c \in Picked :
        IF IsTrivialMove(c, scenario.target)
        THEN /\ Install({<<c.level, c.inputs[1][1].number>>}, << <<c.level + 1, c.inputs[1][1]>> >>)
             /\ pointers' = [pointers EXCEPT ![c.level] = c.pointer]
             /\ UNCHANGED bg
        ELSE Work(c, FALSE)
  BY DEF CompactPicked
<1>3. InputsOf(version, c) /\ OthersAway(version, c) /\ Connected(InputFiles(c))
  BY PickedFacts
<1>4. CASE IsTrivialMove(c, scenario.target)
  BY <1>1, <1>2, <1>3, <1>4, MoveApart
<1>5. CASE ~IsTrivialMove(c, scenario.target)
  <2>1. Work(c, FALSE)
    BY <1>2, <1>5
  <2>2. QED
    BY <1>1, <1>3, <2>1, WorkApart
<1>6. QED
  BY <1>4, <1>5

\* One more output: the first of what was still to be written.
LEMMA OutputApart ==
  ASSUME CompactionInv, ApartInv, WriteOutput
  PROVE  ApartInv'
<1> DEFINE file == Table(nextFile, Head(bg.todo))
           s == bg.outputs
           u == bg.todo
           t == Append(s, file)
<1>1. /\ bg.at = "merge" /\ u # <<>>
      /\ bg' = [bg EXCEPT !.outputs = Append(@, file), !.todo = Tail(@)]
      /\ UNCHANGED <<scenario, memVars, version, bgError, manual>>
  BY DEF WriteOutput, rangeVars
<1>2. /\ DOMAIN bg = {"at", "manual", "level", "inputs", "base", "outputs", "todo"}
      /\ u \in Seq(EntrySet \ {{}}) /\ s \in Seq(File) /\ nextFile \in Nat
  BY <1>1 DEF CompactionInv, MergeSound, MemTables
<1>3. MergeApart
  BY <1>1 DEF ApartInv
<1>4. u[1] \in EntrySet \ {{}} /\ 1 \in DOMAIN u /\ file = Table(nextFile, u[1])
  BY <1>1, <1>2
<1>5. Bounded(file) /\ file.entries = u[1]
  <2> HIDE DEF file, u
  <2>1. Bounded(Table(nextFile, u[1]))
    BY <1>2, <1>4, TableBounded
  <2>2. Table(nextFile, u[1]).entries = u[1]
    BY <1>2, <1>4, TableFacts
  <2>3. QED
    BY <1>4, <2>1, <2>2
<1>6. /\ bg'.outputs = t /\ bg'.todo = Tail(u) /\ bg'.at = "merge"
      /\ bg'.manual = bg.manual /\ bg'.level = bg.level /\ bg'.inputs = bg.inputs
  BY <1>1, <1>2
<1>7. InputEntries(bg') = InputEntries(bg) /\ InputFiles(bg') = InputFiles(bg)
  BY <1>6 DEF InputEntries, InputFiles
<1>8. InputsOf(version', bg') /\ OthersAway(version', bg')
  BY <1>1, <1>3, <1>6, <1>7 DEF MergeApart, InputsOf, OthersAway
<1> DEFINE E == InputEntries(bg)
<1>9. /\ \A i \in DOMAIN s : Bounded(s[i]) /\ s[i].entries \subseteq E
      /\ \A i \in DOMAIN u : u[i] \subseteq E
      /\ \A i, j \in DOMAIN s : i < j => Follow(s[i].entries, s[j].entries)
      /\ \A i \in DOMAIN s, j \in DOMAIN u : Follow(s[i].entries, u[j])
      /\ \A i, j \in DOMAIN u : i < j => Follow(u[i], u[j])
  BY <1>3 DEF MergeApart
<1>10. IF bg'.manual THEN imm' = None /\ (manual' # None \/ bgError') ELSE Connected(InputFiles(bg'))
  BY <1>1, <1>3, <1>6, <1>7 DEF MergeApart, memVars
<1> HIDE DEF E, file, s, u
<1>11. /\ DOMAIN t = 1..(Len(s) + 1) /\ DOMAIN s = 1..Len(s) /\ Len(s) \in Nat
       /\ \A i \in 1..Len(s) : t[i] = s[i]
       /\ t[Len(s) + 1] = file
  BY <1>2
<1>12. /\ DOMAIN Tail(u) = 1..(Len(u) - 1) /\ Len(u) \in Nat /\ DOMAIN u = 1..Len(u)
       /\ \A i \in DOMAIN Tail(u) : Tail(u)[i] = u[i + 1] /\ i + 1 \in DOMAIN u /\ i \in Nat
  BY <1>1, <1>2
<1> HIDE DEF t
<1>13. \A i \in DOMAIN t : (i \in DOMAIN s /\ t[i] = s[i]) \/ (i = Len(s) + 1 /\ t[i] = file)
  <2>1. \A i \in 1..(Len(s) + 1) : i \in 1..Len(s) \/ i = Len(s) + 1
    BY <1>11
  <2>2. QED
    BY <1>11, <2>1
<1>14. \A i \in DOMAIN t : Bounded(t[i]) /\ t[i].entries \subseteq E
  BY <1>4, <1>5, <1>9, <1>13
<1>15. \A i \in DOMAIN Tail(u) : Tail(u)[i] \subseteq E
  BY <1>9, <1>12
<1>16. \A i, j \in DOMAIN t : i < j => Follow(t[i].entries, t[j].entries)
  <2> SUFFICES ASSUME NEW i \in DOMAIN t, NEW j \in DOMAIN t, i < j
               PROVE  Follow(t[i].entries, t[j].entries)
    OBVIOUS
  <2>1. i \in DOMAIN s /\ t[i] = s[i]
    BY <1>11
  <2>2. CASE j \in DOMAIN s /\ t[j] = s[j]
    BY <1>9, <2>1, <2>2
  <2>3. CASE t[j] = file
    BY <1>4, <1>5, <1>9, <2>1, <2>3
  <2>4. QED
    BY <1>13, <2>2, <2>3
<1>17. \A i \in DOMAIN t, j \in DOMAIN Tail(u) : Follow(t[i].entries, Tail(u)[j])
  <2> SUFFICES ASSUME NEW i \in DOMAIN t, NEW j \in DOMAIN Tail(u)
               PROVE  Follow(t[i].entries, Tail(u)[j])
    OBVIOUS
  <2>1. Tail(u)[j] = u[j + 1] /\ j + 1 \in DOMAIN u /\ 1 < j + 1
    BY <1>12
  <2>2. CASE i \in DOMAIN s /\ t[i] = s[i]
    BY <1>9, <2>1, <2>2
  <2>3. CASE t[i] = file
    BY <1>4, <1>5, <1>9, <2>1, <2>3
  <2>4. QED
    BY <1>13, <2>2, <2>3
<1>18. \A i, j \in DOMAIN Tail(u) : i < j => Follow(Tail(u)[i], Tail(u)[j])
  BY <1>9, <1>12
<1>19. MergeApart'
  BY <1>6, <1>7, <1>8, <1>10, <1>14, <1>15, <1>16, <1>17, <1>18 DEF MergeApart, E
<1>20. Numbered'
  BY <1>1, FewerRecorded DEF ApartInv
<1>21. QED
  BY <1>1, <1>19, <1>20 DEF ApartInv

\* The outputs are in order, and on one side of the files that stay in their level.
LEMMA ResultsApart ==
  ASSUME CompactionInv, ApartInv, InstallCompactionResults
  PROVE  ApartInv'
<1> DEFINE deleted == {<<bg.level, f.number>> : f \in Range(bg.inputs[1])}
                        \cup {<<bg.level + 1, f.number>> : f \in Range(bg.inputs[2])}
           added == [i \in DOMAIN bg.outputs |-> <<bg.level + 1, bg.outputs[i]>>]
           s == bg.outputs
<1>1. /\ bg.at = "merge" /\ version' = Edited(version, deleted, added) /\ bg' = Idle
      /\ UNCHANGED <<scenario, memVars>>
  BY DEF InstallCompactionResults, Install
<1>2. \A g \in Range(bg.inputs[2]) : <<bg.level + 1, g.number>> \in deleted
  OBVIOUS
<1> HIDE DEF deleted
<1>3. /\ s \in Seq(File)
      /\ \A i, j \in DOMAIN s : s[i].number = s[j].number => i = j
      /\ \A n \in Pending : n < nextFile /\ n \notin TablesOf(version)
      /\ VersionSound(version)
  BY <1>1 DEF CompactionInv, MergeSound
<1>4. MergeApart
  BY <1>1 DEF ApartInv
<1>5. InputsOf(version, bg) /\ OthersAway(version, bg)
  BY <1>4 DEF MergeApart
<1>6. /\ DOMAIN added = DOMAIN s
      /\ \A i \in DOMAIN added : added[i][2] = s[i] /\ added[i][1] = bg.level + 1
  OBVIOUS
<1>7. IsFiniteSet(DOMAIN added)
  <2>1. Len(s) \in Int /\ DOMAIN s = 1..Len(s)
    BY <1>3
  <2>2. QED
    BY <1>6, <2>1, FS_Interval
<1>8. \A i \in DOMAIN added : \A l \in Levels : \A f \in Range(version[l]) :
        f.number # added[i][2].number
  <2>1. \A l \in Levels : \A f \in Range(version[l]) : f.number \in TablesOf(version)
    BY DEF TablesOf
  <2>2. \A i \in DOMAIN added : added[i][2].number \in Pending
    BY <1>1, <1>6 DEF Pending, Range
  <2>3. QED
    BY <1>3, <2>1, <2>2
<1> HIDE DEF added
<1>9. \A l \in Levels : Range(version'[l]) =
        {f \in Range(version[l]) : <<l, f.number>> \notin deleted} \cup NewFiles(added, DOMAIN added, l)
  <2>1. \A i \in DOMAIN added : added[i][2] \in File
    BY <1>3, <1>6
  <2>2. \A i, j \in DOMAIN added : added[i][2].number = added[j][2].number => i = j
    BY <1>3, <1>6
  <2>3. QED
    BY <1>1, <1>3, <1>7, <1>8, <2>1, <2>2, InstallFacts
<1>10. ASSUME NEW l \in Levels, NEW f \in Range(version'[l])
       PROVE  \/ f \in Range(version[l]) /\ <<l, f.number>> \notin deleted
              \/ l = bg.level + 1 /\ \E i \in DOMAIN s : f = s[i]
  BY <1>6, <1>9 DEF NewFiles
<1>11. \A i \in DOMAIN s : /\ Bounded(s[i]) /\ s[i].entries \subseteq InputEntries(bg)
                           /\ s[i].smallest \in s[i].entries /\ s[i].largest \in s[i].entries
  BY <1>4 DEF MergeApart, Bounded
<1>12. \A i, j \in DOMAIN s : i < j => Follow(s[i].entries, s[j].entries)
  BY <1>4 DEF MergeApart
<1>13. \A f \in FilesOf(version') : f \in FilesOf(version) \/ \E i \in DOMAIN s : f = s[i]
  BY <1>10 DEF FilesOf
<1>14. AllBounded(version')
  BY <1>11, <1>13 DEF ApartInv, AllBounded
<1>15. Numbered'
  <2>1. InputEntries(bg) \subseteq EntriesOf(version)
    BY <1>5, InputsRecorded DEF ApartInv
  <2>2. EntriesOf(version') \subseteq EntriesOf(version)
    BY <1>11, <1>13, <2>1 DEF EntriesOf
  <2>3. QED
    BY <1>1, <2>2, FewerRecorded DEF ApartInv
<1>16. ASSUME NEW g \in Range(version[bg.level + 1]), <<bg.level + 1, g.number>> \notin deleted,
              NEW i \in DOMAIN s
       PROVE  Apart(g, s[i]) /\ Apart(s[i], g)
  <2>1. g \notin Range(bg.inputs[2])
    BY <1>2, <1>16
  <2>2. Away(g, InputEntries(bg))
    BY <1>5, <2>1 DEF OthersAway
  <2>3. s[i].smallest \in InputEntries(bg) /\ s[i].largest \in InputEntries(bg)
    BY <1>11
  <2>4. QED
    BY <2>2, <2>3 DEF Away, Apart
<1>17. ASSUME NEW i \in DOMAIN s, NEW j \in DOMAIN s, s[i] # s[j]
       PROVE  Apart(s[i], s[j])
  <2>1. i < j \/ j < i
    BY <1>3, <1>17
  <2>2. QED
    BY <1>11, <1>12, <2>1 DEF Follow, Apart
<1>18. LevelsApart(version')
  <2> SUFFICES ASSUME NEW l \in Levels \ {0}, NEW f \in Range(version'[l]), NEW g \in Range(version'[l]),
                      f # g
               PROVE  Apart(f, g)
    BY DEF LevelsApart
  <2> DEFINE Old(h) == h \in Range(version[l]) /\ <<l, h.number>> \notin deleted
             New(h) == l = bg.level + 1 /\ \E i \in DOMAIN s : h = s[i]
  <2>1. (Old(f) \/ New(f)) /\ (Old(g) \/ New(g))
    BY <1>10
  <2>2. CASE Old(f) /\ Old(g)
    BY <2>2 DEF ApartInv, LevelsApart
  <2>3. CASE (Old(f) /\ New(g)) \/ (New(f) /\ Old(g))
    BY <1>16, <2>3
  <2>4. CASE New(f) /\ New(g)
    BY <1>17, <2>4
  <2>5. QED
    BY <2>1, <2>2, <2>3, <2>4
<1>19. QED
  BY <1>1, <1>14, <1>15, <1>18 DEF ApartInv, Idle

LEMMA FailApart ==
  ASSUME ApartInv, CompactionFails
  PROVE  ApartInv'
<1>1. bg' = Idle /\ UNCHANGED <<scenario, memVars, version>>
  BY DEF CompactionFails, diskVars
<1>2. Numbered'
  <2>1. EntriesOf(version)' = EntriesOf(version)
    BY <1>1
  <2>2. QED
    BY <1>1, <2>1, FewerRecorded DEF ApartInv
<1>3. QED
  BY <1>1, <1>2 DEF ApartInv, Idle

LEMMA ApartNext ==
  ASSUME CompactionInv, ApartInv, ~scenario.gaps, [Next]_vars
  PROVE  ApartInv'
<1>1. CASE \/ UNCHANGED vars \/ GetSnapshot \/ NewIterator \/ FlushFails
           \/ \E s \in snapshots : ReleaseSnapshot(s)
           \/ \E v \in iterators : CloseIterator(v)
           \/ \E k \in Keys : \E s \in snapshots \cup {lastSequence} : ChargeSeek(k, s)
           \/ \E r \in scenario.ranges : CompactRange(r[1], r[2])
           \/ RangeFlushed \/ RangeClaims \/ RangeAborts
  <2>1. UNCHANGED <<scenario, memVars, version, bg>>
    BY <1>1 DEF vars, GetSnapshot, NewIterator, FlushFails, ReleaseSnapshot, CloseIterator, ChargeSeek,
                CompactRange, RangeFlushed, RangeClaims, RangeAborts, diskVars
  <2>2. manual # None \/ bgError => manual' # None \/ bgError'
    <3>1. UNCHANGED <<bgError, manual>> \/ FlushFails \/ RangeClaims \/ RangeAborts
      BY <1>1 DEF vars, GetSnapshot, NewIterator, ReleaseSnapshot, CloseIterator, ChargeSeek,
                  CompactRange, RangeFlushed, rangeVars
    <3>2. QED
      BY <3>1 DEF FlushFails, RangeClaims, RangeAborts
  <2>3. QED
    BY <2>1, <2>2, SameApart
<1>2. CASE ManualDone
  <2>1. bg.at = "none" /\ UNCHANGED <<scenario, memVars, version, bg>>
    BY <1>2 DEF ManualDone, diskVars
  <2>2. EntriesOf(version)' = EntriesOf(version)
    BY <2>1
  <2>3. Numbered'
    BY <2>1, <2>2, FewerRecorded DEF ApartInv
  <2>4. QED
    BY <2>1, <2>3 DEF ApartInv
<1>3. CASE \E p \in scenario.puts : Write(p[1], p[2])
  BY <1>3, WriteApart
<1>4. CASE SwitchMemTable \/ RangeSwitches
  BY <1>4, SwitchApart
<1>5. CASE Flush
  BY <1>5, FlushApart
<1>6. CASE CompactPicked
  BY <1>6, PickedApart
<1>7. CASE CompactManual
  BY <1>7, ManualApart
<1>8. CASE WriteOutput
  BY <1>8, OutputApart
<1>9. CASE InstallCompactionResults
  BY <1>9, ResultsApart
<1>10. CASE CompactionFails
  BY <1>10, FailApart
<1>11. QED
  BY Zenon, <1>1, <1>2, <1>3, <1>4, <1>5, <1>6, <1>7, <1>8, <1>9, <1>10 DEF Next, RangeSteps, Background

\* Apart from scenarios with gaps: levels without overlaps, and what keeps them so.
THEOREM DisjointInvariant == Spec => []DisjointInv
<1>1. Init => DisjointInv
  BY DisjointInit
<1>2. DisjointInv /\ [Next]_vars => DisjointInv'
  <2> SUFFICES ASSUME DisjointInv, [Next]_vars PROVE DisjointInv'
    OBVIOUS
  <2>1. CompactionInv'
    BY CompactionNext DEF DisjointInv
  <2>2. scenario' = scenario
    BY DEF Next, vars, RangeSteps, Background, Write, SwitchMemTable, GetSnapshot, NewIterator,
           ReleaseSnapshot, CloseIterator, ChargeSeek, CompactRange, RangeSwitches, RangeFlushed,
           RangeClaims, RangeAborts, Flush, CompactPicked, ManualDone, CompactManual, WriteOutput,
           InstallCompactionResults, FlushFails, CompactionFails
  <2>3. ~scenario.gaps => ApartInv'
    BY ApartNext DEF DisjointInv
  <2>4. QED
    BY <2>1, <2>2, <2>3 DEF DisjointInv
<1>3. QED
  BY <1>1, <1>2, PTL DEF Spec

\* However compactions, flushes during them, manual compactions and failures alternate: no
\* two files of a level above 0 overlap, unless memtables fill up during a CompactRange.
THEOREM LevelsStayDisjoint == Spec => [](~scenario.gaps => LevelsDisjoint)
<1>1. DisjointInv => (~scenario.gaps => LevelsDisjoint)
  <2> SUFFICES ASSUME CompactionInv, ApartInv,
                      NEW l \in Levels \ {0}, NEW i \in 2..Len(version[l])
               PROVE  Before(version[l][i - 1].largest, version[l][i].smallest)
    BY DEF DisjointInv, LevelsDisjoint
  <2> DEFINE s == version[l]
  <2>1. /\ s \in Seq(File) /\ Ascending(s, InOrder)
        /\ \A f \in Range(s) : Bounded(f)
        /\ \A f, g \in Range(s) : f # g => Apart(f, g)
    BY DEF CompactionInv, VersionSound, ApartInv, AllBounded, FilesOf, LevelsApart
  <2>2. i \in 2..Len(s)
    OBVIOUS
  <2> HIDE DEF s
  <2>3. i - 1 \in DOMAIN s /\ i \in DOMAIN s /\ i - 1 < i
    BY <2>1, <2>2
  <2>4. Before(s[i - 1].largest, s[i].smallest)
    BY <2>1, <2>3, FilesApart
  <2>5. QED
    BY <2>4 DEF s
<1>2. QED
  BY <1>1, DisjointInvariant, PTL

-----------------------------------------------------------------------------
(* How far GetOverlappingInputs goes *)

\* A range that grows takes in what it meets, and grows no further than that.
LEMMA GrownTakesIn ==
  ASSUME NEW files \in Seq(File), \A f \in Range(files) : Bounded(f), NEW r \in Int \X Int
  PROVE  LET q == Grown(files, r)
         IN  /\ q \in Int \X Int /\ q[1] <= r[1] /\ r[2] <= q[2]
             /\ \A f \in Hits(files, r) : q[1] <= FirstKey(f) /\ LastKey(f) <= q[2]
             /\ q[1] = r[1] \/ \E f \in Hits(files, r) : q[1] = FirstKey(f)
             /\ q[2] = r[2] \/ \E f \in Hits(files, r) : q[2] = LastKey(f)
<1> DEFINE H == Hits(files, r)
           A == {r[1]} \cup {FirstKey(f) : f \in H}
           B == {r[2]} \cup {LastKey(f) : f \in H}
           q == Grown(files, r)
<1>1. q = <<Min(A), Max(B)>>
  BY DEF Grown
<1>2. r[1] \in Int /\ r[2] \in Int
  OBVIOUS
<1>3. H \in SUBSET Range(files)
  BY DEF Hits
<1> HIDE DEF H
<1>4. A \in SUBSET Int /\ IsFiniteSet(A) /\ B \in SUBSET Int /\ IsFiniteSet(B)
  <2> DEFINE C == {FirstKey(f) : f \in H}
             D == {LastKey(f) : f \in H}
  <2>1. C \in SUBSET Int /\ IsFiniteSet(C) /\ D \in SUBSET Int /\ IsFiniteSet(D)
    BY <1>3, FiniteKeys
  <2> HIDE DEF C, D
  <2>2. IsFiniteSet(C \cup {r[1]}) /\ IsFiniteSet(D \cup {r[2]})
    BY <2>1, FS_AddElement
  <2>3. A = C \cup {r[1]} /\ B = D \cup {r[2]}
    BY DEF C, D
  <2> HIDE DEF A, B
  <2>4. QED
    BY <1>2, <2>1, <2>2, <2>3
<1>5. r[1] \in A /\ r[2] \in B /\ \A f \in H : FirstKey(f) \in A /\ LastKey(f) \in B
  OBVIOUS
<1>6. \A b \in B : b = r[2] \/ \E f \in H : b = LastKey(f)
  OBVIOUS
<1>7. \A a \in A : a = r[1] \/ \E f \in H : a = FirstKey(f)
  OBVIOUS
<1> HIDE DEF A, B, q
<1>8. /\ Min(A) \in A /\ \A x \in A : Min(A) <= x
      /\ Max(B) \in B /\ \A x \in B : x <= Max(B)
  BY <1>4, <1>5, Extremes
<1>9. q[1] = Min(A) /\ q[2] = Max(B) /\ q \in Int \X Int
  BY <1>1, <1>4, <1>8
<1>10. q[1] <= r[1] /\ r[2] <= q[2]
  BY <1>5, <1>8, <1>9
<1>11. \A f \in H : q[1] <= FirstKey(f) /\ LastKey(f) <= q[2]
  BY <1>5, <1>8, <1>9
<1>12. q[1] = r[1] \/ \E f \in H : q[1] = FirstKey(f)
  BY <1>7, <1>8, <1>9
<1>13. q[2] = r[2] \/ \E f \in H : q[2] = LastKey(f)
  BY <1>6, <1>8, <1>9
<1>14. QED
  BY <1>9, <1>10, <1>11, <1>12, <1>13 DEF H, q

\* It grows no more when it meets nothing new: growing once for each file is enough.
LEMMA WidenedEnough ==
  ASSUME NEW files \in Seq(File), \A f \in Range(files) : Bounded(f), NEW lo \in Int, NEW hi \in Int
  PROVE  LET r == Widened(files, lo, hi)
         IN  r \in Int \X Int /\ Grown(files, r) = r
<1> DEFINE n == Len(files)
           I == [k \in Nat |-> {r \in Int \X Int : \/ Grown(files, r) = r
                                                   \/ Cardinality(Hits(files, r)) > k}]
<1>1. n \in Nat /\ IsFiniteSet(Range(files)) /\ Cardinality(Range(files)) <= n
  <2>1. n \in Nat /\ DOMAIN files = 1..n
    OBVIOUS
  <2> HIDE DEF n
  <2>2. IsFiniteSet(1..n) /\ Cardinality(1..n) = IF 1 > n THEN 0 ELSE n - 1 + 1
    BY <2>1, FS_Interval
  <2>3. files \in Surjection(1..n, Range(files))
    BY <2>1 DEF Surjection, Range
  <2>4. IsFiniteSet(Range(files)) /\ Cardinality(Range(files)) <= Cardinality(1..n)
    BY <2>2, <2>3, FS_Surjection
  <2>5. QED
    BY <2>1, <2>2, <2>4
<1> HIDE DEF n
<1>2. \A r : /\ IsFiniteSet(Hits(files, r)) /\ Cardinality(Hits(files, r)) \in Nat
             /\ Cardinality(Hits(files, r)) <= n
             /\ \A f \in Hits(files, r) :
                  f \in File /\ FirstKey(f) \in Int /\ LastKey(f) \in Int
  <2> SUFFICES ASSUME NEW r
               PROVE  /\ IsFiniteSet(Hits(files, r)) /\ Cardinality(Hits(files, r)) \in Nat
                      /\ Cardinality(Hits(files, r)) <= n
                      /\ \A f \in Hits(files, r) :
                           f \in File /\ FirstKey(f) \in Int /\ LastKey(f) \in Int
    OBVIOUS
  <2>1. Hits(files, r) \in SUBSET Range(files)
    BY DEF Hits
  <2>2. /\ IsFiniteSet(Hits(files, r)) /\ Cardinality(Hits(files, r)) <= Cardinality(Range(files))
        /\ Cardinality(Hits(files, r)) \in Nat /\ Cardinality(Range(files)) \in Nat
    BY <1>1, <2>1, FS_Subset, FS_CardinalityType
  <2>3. \A f \in Range(files) : f \in File /\ FirstKey(f) \in Int /\ LastKey(f) \in Int
    BY FileKeys DEF Range
  <2>4. QED
    BY <1>1, <2>1, <2>2, <2>3
<1>3. ASSUME NEW r \in Int \X Int
      PROVE  /\ Grown(files, r) \in Int \X Int
             /\ Hits(files, r) \subseteq Hits(files, Grown(files, r))
             /\ Hits(files, Grown(files, r)) = Hits(files, r) =>
                  Grown(files, Grown(files, r)) = Grown(files, r)
  <2> DEFINE q == Grown(files, r)
             p == Grown(files, q)
             H == Hits(files, r)
  <2>1. /\ q \in Int \X Int /\ q[1] <= r[1] /\ r[2] <= q[2]
        /\ \A f \in H : q[1] <= FirstKey(f) /\ LastKey(f) <= q[2]
    BY GrownTakesIn
  <2> HIDE DEF q
  <2>2. /\ p \in Int \X Int /\ p[1] <= q[1] /\ q[2] <= p[2]
        /\ p[1] = q[1] \/ \E f \in Hits(files, q) : p[1] = FirstKey(f)
        /\ p[2] = q[2] \/ \E f \in Hits(files, q) : p[2] = LastKey(f)
    BY <2>1, GrownTakesIn
  <2>3. H \subseteq Hits(files, q)
    <3> SUFFICES ASSUME NEW f \in H PROVE f \in Hits(files, q)
      OBVIOUS
    <3>1. f \in Range(files) /\ ~(LastKey(f) < r[1]) /\ ~(FirstKey(f) > r[2])
      BY DEF Hits, Within
    <3>2. FirstKey(f) \in Int /\ LastKey(f) \in Int /\ r[1] \in Int /\ r[2] \in Int
      BY <1>2
    <3>3. ~(LastKey(f) < q[1]) /\ ~(FirstKey(f) > q[2])
      BY <2>1, <3>1, <3>2
    <3>4. QED
      BY <3>1, <3>3 DEF Hits, Within
  <2> HIDE DEF p, H
  <2>4. Hits(files, q) = H => p = q
    <3> SUFFICES ASSUME Hits(files, q) = H PROVE p = q
      OBVIOUS
    <3>1. p[1] = q[1]
      BY <2>1, <2>2
    <3>2. p[2] = q[2]
      BY <2>1, <2>2
    <3>3. QED
      BY <2>1, <2>2, <3>1, <3>2
  <2>5. QED
    BY <2>1, <2>3, <2>4 DEF p, q, H
<1>4. <<lo, hi>> \in I[0]
  <2> DEFINE r == <<lo, hi>>
  <2>1. r \in Int \X Int /\ r[1] = lo /\ r[2] = hi
    OBVIOUS
  <2> HIDE DEF r
  <2>2. ASSUME Hits(files, r) = {}
        PROVE  Grown(files, r) = r
    <3>1. Grown(files, r) \in Int \X Int /\ Grown(files, r)[1] = r[1] /\ Grown(files, r)[2] = r[2]
      BY <2>1, <2>2, GrownTakesIn
    <3>2. QED
      BY <2>1, <3>1
  <2>3. Hits(files, r) # {} => Cardinality(Hits(files, r)) > 0
    BY <1>2, FS_EmptySet
  <2>4. QED
    BY <2>1, <2>2, <2>3 DEF r
<1>5. ASSUME NEW k \in Nat, NEW r \in I[k]
      PROVE  Grown(files, r) \in I[k + 1]
  <2> DEFINE q == Grown(files, r)
             H == Hits(files, r)
             J == Hits(files, q)
  <2>1. r \in Int \X Int /\ (Grown(files, r) = r \/ Cardinality(H) > k)
    BY <1>5
  <2>2. q \in Int \X Int /\ H \subseteq J /\ (J = H => Grown(files, q) = q)
    BY <1>3, <2>1
  <2>3. ASSUME J # H, Cardinality(H) > k
        PROVE  Cardinality(J) > k + 1
    <3>1. /\ IsFiniteSet(J) /\ Cardinality(H) \in Nat /\ Cardinality(J) \in Nat
      BY <1>2
    <3>2. H \in SUBSET J
      BY <2>2
    <3> HIDE DEF H, J
    <3>3. Cardinality(H) <= Cardinality(J) /\ Cardinality(H) # Cardinality(J)
      BY <2>3, <3>1, <3>2, FS_Subset
    <3>4. QED
      BY <2>3, <3>1, <3>3
  <2>4. Grown(files, r) = r => Grown(files, q) = q
    OBVIOUS
  <2> HIDE DEF q, H, J
  <2>5. Grown(files, q) = q \/ Cardinality(J) > k + 1
    BY <2>1, <2>2, <2>3, <2>4 DEF q
  <2>6. QED
    BY <2>2, <2>5 DEF q, J
<1> DEFINE w == Widened(files, lo, hi)
<1>6. w \in I[n]
  <2> HIDE DEF I
  <2>1. \A k \in Nat : \A r \in I[k] : Grown(files, r) \in I[k + 1]
    BY <1>5
  <2>2. QED
    BY <1>4, <2>1, WidenedSteps DEF n
<1> HIDE DEF w
<1>7. w \in Int \X Int /\ (Grown(files, w) = w \/ Cardinality(Hits(files, w)) > n)
  BY <1>1, <1>6
<1>8. Grown(files, w) = w
  BY <1>1, <1>2, <1>7
<1>9. QED
  BY <1>7, <1>8 DEF w

\* The keys of one file are all before those of the other.
Clear(f, g) == LastKey(f) < FirstKey(g) \/ LastKey(g) < FirstKey(f)

\* GetOverlappingInputs leaves no file of level 0 that overlaps one that it gives.
LEMMA OverlappingLeaves ==
  ASSUME NEW v, v[0] \in Seq(File), \A f \in Range(v[0]) : Bounded(f), NEW lo \in Int, NEW hi \in Int,
         NEW f \in Range(Overlapping(v, 0, lo, hi)),
         NEW g \in Range(v[0]) \ Range(Overlapping(v, 0, lo, hi))
  PROVE  Clear(f, g)
<1> DEFINE r == Widened(v[0], lo, hi)
           files == v[0]
<1>1. Overlapping(v, 0, lo, hi) = FilesIn(files, Hits(files, r))
  BY DEF Overlapping, Hits
<1>2. r \in Int \X Int /\ Grown(files, r) = r
  BY WidenedEnough
<1> HIDE DEF r
<1>3. Range(FilesIn(files, Hits(files, r))) = Hits(files, r)
  <2>1. Range(FilesIn(files, Hits(files, r))) = Range(files) \cap Hits(files, r)
    BY FilesInFacts
  <2>2. QED
    BY <2>1 DEF Hits
<1>4. f \in Hits(files, r) /\ g \in Range(files) \ Hits(files, r)
  BY <1>1, <1>3
<1>5. r[1] <= FirstKey(f) /\ LastKey(f) <= r[2]
  <2>1. \A h \in Hits(files, r) : Grown(files, r)[1] <= FirstKey(h) /\ LastKey(h) <= Grown(files, r)[2]
    BY <1>2, GrownTakesIn
  <2>2. QED
    BY <1>2, <1>4, <2>1
<1>6. LastKey(g) < r[1] \/ FirstKey(g) > r[2]
  BY <1>4 DEF Hits, Within
<1>7. /\ FirstKey(f) \in Int /\ LastKey(f) \in Int /\ FirstKey(g) \in Int /\ LastKey(g) \in Int
  <2>1. f \in Range(files) /\ g \in Range(files)
    BY <1>4 DEF Hits
  <2>2. QED
    BY <2>1, FileKeys DEF Range
<1>8. QED
  BY <1>2, <1>5, <1>6, <1>7 DEF Clear

-----------------------------------------------------------------------------
(* Keys that no two files share *)

KeysDisjointIn(v) == \A l \in Levels \ {0} : \A f, g \in Range(v[l]) : f # g => Clear(f, g)

\* Above level 0, no two files of a level have entries of one user key. It is so as long as
\* merges keep but one entry of each key.
KeysDisjoint == KeysDisjointIn(version)

\* The inputs are the files given or all of their level that some range meets, and with them
\* the files of the next level that they overlap.
SetUp(v, files, c) ==
  /\ c.inputs[1] # <<>>
  /\ c.inputs[1] = files \/ \E lo, hi \in Int : c.inputs[1] = Overlapping(v, c.level, lo, hi)
  /\ c.inputs[2] = Overlapping(v, c.level + 1, KeyRange(c.inputs[1])[1], KeyRange(c.inputs[1])[2])

LEMMA OtherInputsSetUp ==
  ASSUME NEW v \in [Levels -> Seq(File)], AllBounded(v), NEW level \in Levels, level + 1 \in Levels,
         NEW files \in Seq(File), files # <<>>, Range(files) \subseteq Range(v[level]), NEW target
  PROVE  /\ WithOtherInputs(v, level, files, target).level = level
         /\ SetUp(v, files, WithOtherInputs(v, level, files, target))
<1> DEFINE c == WithOtherInputs(v, level, files, target)
           Over(l, r) == Overlapping(v, l, r[1], r[2])
           one == Over(level + 1, KeyRange(files))
           both == files \o one
           more == Over(level, KeyRange(both))
           two == Over(level + 1, KeyRange(more))
           grown == /\ one # <<>> /\ Len(more) > Len(files)
                    /\ Size(one) + Size(more) < ExpansionFactor * target
                    /\ Len(two) = Len(one)
           up == IF grown THEN more ELSE files
           low == IF grown THEN two ELSE one
<1>1. c.level = level /\ c.inputs = <<up, low>>
  BY DEF WithOtherInputs
<1>2. \A l \in Levels : \A f \in Range(v[l]) : f \in File /\ Bounded(f)
  BY DEF AllBounded, FilesOf, Range
<1>3. one \in Seq(File) /\ Range(one) \subseteq Range(v[level + 1])
  BY OverlappingFacts
<1>4. KeyRange(both) \in Int \X Int
  <2>1. both \in Seq(File) /\ both # <<>> /\ Range(both) = Range(files) \cup Range(one)
    <3> HIDE DEF one
    <3>1. both \in Seq(File) /\ both # <<>>
      BY <1>3
    <3>2. Range(both) = Range(files) \cup Range(one)
      BY <1>3, RangeConcatenation
    <3>3. QED
      BY <3>1, <3>2
  <2>2. \A f \in Range(both) : Bounded(f)
    BY <1>2, <1>3, <2>1
  <2> HIDE DEF both
  <2>3. QED
    BY <2>1, <2>2, KeyRangeFacts
<1>5. more \in Seq(File)
  BY OverlappingFacts
<1>6. grown => more # <<>>
  <2> HIDE DEF one, two, both
  <2> SUFFICES ASSUME Len(more) > Len(files), more = <<>> PROVE FALSE
    OBVIOUS
  <2>1. Len(files) \in Nat /\ Len(files) > 0
    OBVIOUS
  <2>2. Len(more) = 0
    OBVIOUS
  <2>3. QED
    BY <2>1, <2>2
<1>7. \E lo, hi \in Int : more = Overlapping(v, level, lo, hi)
  BY <1>4
<1> HIDE DEF more, both
<1>8. CASE grown
  <2>1. c.inputs[1] = more /\ c.inputs[2] = two
    BY <1>1, <1>8
  <2> HIDE DEF grown
  <2>2. QED
    BY <1>1, <1>6, <1>7, <1>8, <2>1 DEF SetUp
<1>9. CASE ~grown
  <2>1. c.inputs[1] = files /\ c.inputs[2] = one
    BY <1>1, <1>9
  <2>2. QED
    BY <1>1, <2>1 DEF SetUp
<1>10. QED
  BY <1>8, <1>9

\* No other file of its level, or of the next, has a key of a compaction's inputs.
InputsClear(v, c) ==
  /\ \A g \in Range(v[c.level]) \ Range(c.inputs[1]), f \in Range(c.inputs[1]) : Clear(f, g)
  /\ \A g \in Range(v[c.level + 1]) \ Range(c.inputs[2]), f \in InputFiles(c) : Clear(f, g)

LEMMA OtherInputsClear ==
  ASSUME NEW v \in [Levels -> Seq(File)], AllBounded(v), KeysDisjointIn(v),
         NEW level \in Levels, level + 1 \in Levels,
         NEW files \in Seq(File), files # <<>>, Range(files) \subseteq Range(v[level]), NEW target,
         level = 0 => \E lo, hi \in Int : files = Overlapping(v, 0, lo, hi)
  PROVE  InputsClear(v, WithOtherInputs(v, level, files, target))
<1> DEFINE c == WithOtherInputs(v, level, files, target)
           up == c.inputs[1]
           low == c.inputs[2]
           r == KeyRange(up)
<1>1. /\ c.level = level /\ up # <<>>
      /\ up = files \/ \E lo, hi \in Int : up = Overlapping(v, level, lo, hi)
      /\ low = Overlapping(v, level + 1, r[1], r[2])
  <2>1. c.level = level /\ SetUp(v, files, c)
    BY OtherInputsSetUp
  <2> HIDE DEF c
  <2>2. QED
    BY <2>1 DEF SetUp
<1>2. /\ up \in Seq(File) /\ Range(up) \subseteq Range(v[level])
      /\ Range(low) \subseteq Range(v[level + 1])
  BY <1>1, OtherInputs DEF InputsOf
<1> HIDE DEF c
<1>3. \A l \in Levels : v[l] \in Seq(File) /\ \A f \in Range(v[l]) : f \in File /\ Bounded(f)
  BY DEF AllBounded, FilesOf, Range
<1>4. level + 1 # 0
  BY LevelsAssumption DEF Levels
<1>5. /\ r \in Int \X Int /\ r[1] <= r[2]
      /\ \A f \in Range(up) : r[1] <= FirstKey(f) /\ LastKey(f) <= r[2]
  <2>1. \A f \in Range(up) : Bounded(f)
    BY <1>2, <1>3
  <2> HIDE DEF up
  <2>2. QED
    BY <1>1, <1>2, <2>1, KeyRangeFacts
<1> HIDE DEF r
<1>6. ASSUME NEW g \in Range(v[level]) \ Range(up), NEW f \in Range(up)
      PROVE  Clear(f, g)
  <2>1. CASE level = 0
    <3>1. PICK lo \in Int, hi \in Int : up = Overlapping(v, 0, lo, hi)
      BY <1>1, <2>1
    <3>2. v[0] \in Seq(File) /\ \A h \in Range(v[0]) : Bounded(h)
      BY <1>3, <2>1
    <3>3. /\ f \in Range(Overlapping(v, 0, lo, hi))
          /\ g \in Range(v[0]) \ Range(Overlapping(v, 0, lo, hi))
      BY <1>6, <2>1, <3>1
    <3>4. QED
      BY <3>2, <3>3, OverlappingLeaves
  <2>2. CASE level # 0
    BY <1>2, <1>6, <2>2 DEF KeysDisjointIn
  <2>3. QED
    BY <2>1, <2>2
<1>7. ASSUME NEW g \in Range(v[level + 1]) \ Range(low), NEW f \in Range(up) \cup Range(low)
      PROVE  Clear(f, g)
  <2>1. CASE f \in Range(low)
    BY <1>2, <1>4, <1>7, <2>1 DEF KeysDisjointIn
  <2>2. CASE f \in Range(up)
    <3>1. PICK q \in Bounds : /\ level + 1 # 0 => q = r
                              /\ Range(low) = Hits(v[level + 1], q)
      <4>1. r[1] \in Int /\ r[2] \in Int /\ r = <<r[1], r[2]>> /\ r[1] <= r[2]
        BY <1>5
      <4> HIDE DEF low
      <4>2. \E q \in Bounds : /\ q[1] <= r[1] /\ r[2] <= q[2] /\ (level + 1 # 0 => q = <<r[1], r[2]>>)
                              /\ Range(low) = Hits(v[level + 1], q)
        BY <1>1, <1>3, <4>1, OverlappingMet
      <4>3. QED
        BY <4>1, <4>2
    <3>2. LastKey(g) < r[1] \/ FirstKey(g) > r[2]
      BY <1>4, <1>7, <3>1 DEF Hits, Within
    <3>3. g \in File /\ f \in File /\ Bounded(g) /\ Bounded(f)
      BY <1>2, <1>3, <1>7, <2>2
    <3>4. FirstKey(f) \in Int /\ LastKey(f) \in Int /\ FirstKey(g) \in Int /\ LastKey(g) \in Int
      BY <3>3, FileKeys
    <3>5. r[1] <= FirstKey(f) /\ LastKey(f) <= r[2] /\ r[1] \in Int /\ r[2] \in Int
      BY <1>5, <2>2
    <3>6. QED
      BY <3>2, <3>4, <3>5 DEF Clear
  <2>3. QED
    BY <1>7, <2>1, <2>2
<1>8. QED
  BY <1>1, <1>6, <1>7 DEF InputsClear, InputFiles, c

\* A compaction of files that share no key with those it leaves.
Chosen(v, c) == InputsOf(v, c) /\ c.inputs[1] # <<>> /\ InputsClear(v, c)

LEMMA SeeksChosen ==
  ASSUME NEW v, VersionSound(v), AllBounded(v), KeysDisjointIn(v),
         NEW level \in Levels, level + 1 \in Levels, NEW file \in Range(v[level]), NEW target
  PROVE  Chosen(v, PickForSeeks(v, level, file, target))
<1> DEFINE files == IF level = 0 THEN Overlapping(v, 0, FirstKey(file), LastKey(file))
                    ELSE <<file>>
           c == WithOtherInputs(v, level, files, target)
<1>1. PickForSeeks(v, level, file, target) = c
  BY DEF PickForSeeks
<1>2. /\ files \in Seq(File) /\ files # <<>> /\ Range(files) \subseteq Range(v[level])
  BY FileConnects
<1>3. level = 0 => \E lo, hi \in Int : files = Overlapping(v, 0, lo, hi)
  <2>1. file \in File /\ Bounded(file)
    BY DEF VersionSound, AllBounded, FilesOf, Range
  <2>2. FirstKey(file) \in Int /\ LastKey(file) \in Int
    BY <2>1, FileKeys
  <2>3. QED
    BY <2>2
<1>4. v \in [Levels -> Seq(File)]
  BY DEF VersionSound
<1> HIDE DEF files
<1>5. InputsClear(v, c)
  BY <1>2, <1>3, <1>4, OtherInputsClear
<1>6. InputsOf(v, c) /\ SetUp(v, files, c)
  BY <1>2, <1>4, OtherInputs, OtherInputsSetUp
<1> HIDE DEF c
<1>7. QED
  BY <1>1, <1>5, <1>6 DEF Chosen, SetUp

LEMMA RangeChosen ==
  ASSUME NEW v, VersionSound(v), AllBounded(v), KeysDisjointIn(v),
         NEW level \in Levels, level + 1 \in Levels, NEW lo \in Int, NEW hi \in Int, NEW target,
         Overlapping(v, level, lo, hi) # <<>>
  PROVE  Chosen(v, PickForRange(v, level, lo, hi, target))
<1> DEFINE all == Overlapping(v, level, lo, hi)
           enough == {i \in DOMAIN all : level > 0 /\ Size(SubSeq(all, 1, i)) >= target}
           files == IF enough = {} THEN all ELSE SubSeq(all, 1, Min(enough))
           c == WithOtherInputs(v, level, files, target)
<1>1. PickForRange(v, level, lo, hi, target) = c
  BY DEF PickForRange
<1>2. all \in Seq(File) /\ Range(all) \subseteq Range(v[level]) /\ all # <<>>
  BY OverlappingFacts DEF VersionSound
<1>3. level = 0 => \E a, b \in Int : files = Overlapping(v, 0, a, b)
  <2> SUFFICES ASSUME level = 0 PROVE files = Overlapping(v, 0, lo, hi)
    OBVIOUS
  <2>1. enough = {}
    OBVIOUS
  <2>2. QED
    BY <2>1
<1> HIDE DEF all
<1>4. enough # {} => Min(enough) \in DOMAIN all
  <2> SUFFICES ASSUME enough # {} PROVE Min(enough) \in DOMAIN all
    OBVIOUS
  <2>1. enough \subseteq DOMAIN all /\ DOMAIN all \subseteq Nat
    BY <1>2
  <2> HIDE DEF enough
  <2>2. \E n \in enough : \A m \in enough : n <= m
    BY <2>1, LeastNumber
  <2>3. Min(enough) \in enough
    BY <2>2 DEF Min
  <2>4. QED
    BY <2>1, <2>3
<1>5. ASSUME NEW n \in DOMAIN all
      PROVE  /\ SubSeq(all, 1, n) \in Seq(File) /\ Range(SubSeq(all, 1, n)) \subseteq Range(all)
             /\ SubSeq(all, 1, n) # <<>>
  BY <1>2 DEF Range
<1> HIDE DEF enough
<1>6. files \in Seq(File) /\ Range(files) \subseteq Range(v[level]) /\ files # <<>>
  BY <1>2, <1>4, <1>5
<1>7. v \in [Levels -> Seq(File)]
  BY DEF VersionSound
<1> HIDE DEF files
<1>8. InputsClear(v, c)
  BY <1>3, <1>6, <1>7, OtherInputsClear
<1>9. InputsOf(v, c) /\ SetUp(v, files, c)
  BY <1>6, <1>7, OtherInputs, OtherInputsSetUp
<1> HIDE DEF c
<1>10. QED
  BY <1>1, <1>8, <1>9 DEF Chosen, SetUp

LEMMA PickedChosen ==
  ASSUME CompactionInv, AllBounded(version), KeysDisjoint, NEW c \in Picked
  PROVE  Chosen(version, c)
<1>0. /\ VersionSound(version) /\ LevelsBelow /\ AllBounded(version) /\ KeysDisjointIn(version)
      /\ version \in [Levels -> Seq(File)]
  BY DEF CompactionInv, VersionSound, KeysDisjoint
<1>1. CASE c \in {PickForSize(version, l, pointers, scenario.target) : l \in FullestLevels(version)}
  <2>1. PICK level \in FullestLevels(version) :
          c = PickForSize(version, level, pointers, scenario.target)
    BY <1>1
  <2>2. level \in Levels /\ level + 1 \in Levels
    BY LevelsAssumption DEF FullestLevels, Levels
  <2>3. PICK file \in Range(version[level]) :
          c = PickForSeeks(version, level, file, scenario.target)
    BY <1>0, <2>1, SizeStarts
  <2>4. QED
    BY <1>0, <2>2, <2>3, SeeksChosen
<1>2. CASE seekFile # None
             /\ c \in {PickForSeeks(version, seekFile[1], seekFile[2], scenario.target)}
  <2>1. seekFile[1] \in Nat /\ seekFile[1] + 1 \in Levels
        /\ seekFile[2] \in Range(version[seekFile[1]])
    BY <1>0, <1>2 DEF LevelsBelow
  <2>2. seekFile[1] \in Levels
    <3>1. \A n \in Nat : n + 1 \in Levels => n \in Levels
      BY LevelsAssumption DEF Levels
    <3>2. QED
      BY <2>1, <3>1
  <2>3. QED
    BY <1>0, <1>2, <2>1, <2>2, SeeksChosen
<1>3. QED
  BY <1>1, <1>2 DEF Picked

\* The ranges asked for are of keys, and so is what is left of them; a merge has inputs.
RangeTyped ==
  /\ range.at # "none" => range.from \in Int /\ range.lo \in Int /\ range.hi \in Int
  /\ manual # None => manual.lo \in Int /\ manual.hi \in Int
  /\ bg.at = "merge" => bg.inputs[1] # <<>>

LEMMA ManualChosen ==
  ASSUME CompactionInv, AllBounded(version), KeysDisjoint, RangeTyped, CompactManual
  PROVE  \E c : Chosen(version, c) /\ Work(c, TRUE)
<1> DEFINE c == PickForRange(version, manual.level, manual.lo, manual.hi, scenario.target)
<1>1. /\ manual # None /\ Work(c, TRUE)
      /\ Overlapping(version, manual.level, manual.lo, manual.hi) # <<>>
  BY DEF CompactManual
<1>2. manual.level \in Levels /\ manual.level + 1 \in Levels
  <2>1. manual.level = range.level /\ range.at = "wait"
    BY <1>1 DEF CompactionInv, LevelsBelow
  <2>2. range.level \in Nat /\ range.last \in Levels /\ range.level < range.last
    BY <2>1 DEF CompactionInv, LevelsBelow
  <2>3. QED
    BY <2>1, <2>2, LevelsAssumption DEF Levels
<1>3. manual.lo \in Int /\ manual.hi \in Int
  BY <1>1 DEF RangeTyped
<1>4. Chosen(version, c)
  BY <1>1, <1>2, <1>3, RangeChosen DEF CompactionInv, KeysDisjoint
<1>5. QED
  BY <1>1, <1>4

LEMMA RangeTypedNext ==
  ASSUME CompactionInv, ApartInv, KeysDisjoint, RangeTyped, [Next]_vars
  PROVE  RangeTyped'
<1>1. CASE UNCHANGED <<rangeVars, bg>>
  BY <1>1 DEF RangeTyped, rangeVars
<1>2. CASE \E r \in scenario.ranges : CompactRange(r[1], r[2])
  <2>1. PICK r \in scenario.ranges : CompactRange(r[1], r[2])
    BY <1>2
  <2>2. r[1] \in Int /\ r[2] \in Int
    <3>1. scenario \in Scenarios
      BY DEF CompactionInv, MemTables
    <3>2. scenario.ranges \subseteq Keys \X Keys /\ Keys \subseteq Int
      BY <3>1, ScenarioAssumption
    <3>3. r \in Keys \X Keys
      BY <3>2
    <3>4. QED
      BY <3>2, <3>3
  <2>3. /\ range'.from = r[1] /\ range'.lo = r[1] /\ range'.hi = r[2]
        /\ UNCHANGED <<manual, bg>>
    BY <2>1 DEF CompactRange
  <2>4. QED
    BY <2>2, <2>3 DEF RangeTyped
<1>3. CASE RangeSteps
  <2>1. range.at # "none" /\ bg' = bg
    BY <1>3 DEF RangeSteps, RangeSwitches, RangeFlushed, RangeClaims, RangeAborts
  <2>2. DOMAIN range = {"at", "level", "from", "lo", "hi", "last"}
    BY <2>1 DEF CompactionInv, LevelsBelow
  <2>3. CASE RangeAborts
    BY <2>1, <2>3 DEF RangeAborts, RangeTyped, Idle
  <2>4. CASE RangeClaims
    <3>1. /\ manual' = [level |-> range.level, lo |-> range.lo, hi |-> range.hi]
          /\ range' = [range EXCEPT !.at = "wait"]
      BY <2>4 DEF RangeClaims
    <3>2. range'.from = range.from /\ range'.lo = range.lo /\ range'.hi = range.hi
      BY <2>2, <3>1
    <3>3. manual'.lo = range.lo /\ manual'.hi = range.hi
      BY <3>1
    <3>4. QED
      BY <2>1, <3>2, <3>3 DEF RangeTyped
  <2>5. CASE RangeSwitches \/ RangeFlushed
    <3>1. \E a : range' = [range EXCEPT !.at = a]
      BY <2>5 DEF RangeSwitches, RangeFlushed
    <3>2. range'.from = range.from /\ range'.lo = range.lo /\ range'.hi = range.hi
      BY <2>2, <3>1
    <3>3. manual' = manual
      BY <2>5 DEF RangeSwitches, RangeFlushed
    <3>4. QED
      BY <2>1, <3>2, <3>3 DEF RangeTyped
  <2>6. QED
    BY <1>3, <2>3, <2>4, <2>5 DEF RangeSteps
<1>4. CASE CompactPicked
  <2>1. UNCHANGED rangeVars
    BY <1>4 DEF CompactPicked
  <2>2. PICK c \in Picked : bg' = bg \/ Work(c, FALSE)
    BY <1>4 DEF CompactPicked
  <2>3. c.inputs[1] # <<>>
    BY PickedChosen DEF Chosen, ApartInv
  <2>4. bg'.at = "merge" => bg' = bg \/ bg'.inputs[1] # <<>>
    BY <2>2, <2>3 DEF Work
  <2>5. QED
    BY <2>1, <2>4 DEF RangeTyped, rangeVars
<1>5. CASE CompactManual
  <2>1. UNCHANGED rangeVars
    BY <1>5 DEF CompactManual
  <2>2. PICK c : Chosen(version, c) /\ Work(c, TRUE)
    BY <1>5, ManualChosen DEF ApartInv
  <2>3. bg'.inputs[1] # <<>>
    BY <2>2 DEF Work, Chosen
  <2>4. QED
    BY <2>1, <2>3 DEF RangeTyped, rangeVars
<1>6. CASE ManualDone
  <2>1. bg' = bg /\ manual # None /\ manual' = None
    BY <1>6 DEF ManualDone
  <2>2. range' = [range EXCEPT !.at = "level", !.level = @ + 1, !.lo = range.from] \/ range' = Idle
    BY <1>6 DEF ManualDone
  <2>3. range.at = "wait" /\ DOMAIN range = {"at", "level", "from", "lo", "hi", "last"}
    BY <2>1 DEF CompactionInv, LevelsBelow
  <2>4. CASE range' = Idle
    BY <2>1, <2>4 DEF RangeTyped, Idle
  <2>5. CASE range' = [range EXCEPT !.at = "level", !.level = @ + 1, !.lo = range.from]
    <3>1. range'.from = range.from /\ range'.lo = range.from /\ range'.hi = range.hi
      BY <2>3, <2>5
    <3>2. QED
      BY <2>1, <2>3, <3>1 DEF RangeTyped
  <2>6. QED
    BY <2>2, <2>4, <2>5
<1>7. CASE WriteOutput
  <2>1. /\ bg.at = "merge" /\ UNCHANGED rangeVars
        /\ DOMAIN bg = {"at", "manual", "level", "inputs", "base", "outputs", "todo"}
    BY <1>7 DEF WriteOutput, CompactionInv, MergeSound
  <2>2. bg'.inputs = bg.inputs
    BY <1>7, <2>1 DEF WriteOutput
  <2>3. QED
    BY <2>1, <2>2 DEF RangeTyped, rangeVars
<1>8. CASE InstallCompactionResults \/ CompactionFails
  <2>1. /\ bg.at = "merge" /\ bg' = Idle
        /\ GiveBack(FALSE) \/ GiveBack(TRUE)
    BY <1>8 DEF InstallCompactionResults, CompactionFails
  <2>2. CASE UNCHANGED rangeVars
    BY <2>1, <2>2 DEF RangeTyped, rangeVars, Idle
  <2>3. CASE range' = Idle /\ manual' = None
    BY <2>1, <2>3 DEF RangeTyped, Idle
  <2>4. CASE /\ manual # None /\ manual' = None
             /\ range' = [range EXCEPT !.at = "level", !.lo = LastKey(Last(bg.inputs[1]))]
    <3>1. range.at = "wait" /\ DOMAIN range = {"at", "level", "from", "lo", "hi", "last"}
      BY <2>4 DEF CompactionInv, LevelsBelow
    <3>2. range'.from = range.from /\ range'.hi = range.hi /\ range'.lo = LastKey(Last(bg.inputs[1]))
      BY <2>4, <3>1
    <3>3. bg.inputs[1] \in Seq(File) /\ bg.inputs[1] # <<>>
      BY <2>1 DEF RangeTyped, ApartInv, MergeApart, InputsOf
    <3>4. Last(bg.inputs[1]) \in File
      BY <3>3 DEF Last
    <3>5. LastKey(Last(bg.inputs[1])) \in Int
      BY <3>4, EntryTypes DEF File, LastKey
    <3>6. QED
      BY <2>1, <2>4, <3>1, <3>2, <3>5 DEF RangeTyped, Idle
  <2>5. QED
    BY <2>1, <2>2, <2>3, <2>4 DEF GiveBack
<1>9. CASE \/ SwitchMemTable \/ GetSnapshot \/ NewIterator \/ FlushFails \/ Flush
           \/ \E s \in snapshots : ReleaseSnapshot(s)
           \/ \E v \in iterators : CloseIterator(v)
           \/ \E k \in Keys : \E s \in snapshots \cup {lastSequence} : ChargeSeek(k, s)
           \/ \E p \in scenario.puts : Write(p[1], p[2])
  BY <1>1, <1>9 DEF SwitchMemTable, GetSnapshot, NewIterator, FlushFails, Flush, ReleaseSnapshot,
                    CloseIterator, ChargeSeek, Write
<1>10. CASE UNCHANGED vars
  BY <1>1, <1>10 DEF vars
<1>11. QED
  BY Zenon, <1>2, <1>3, <1>4, <1>5, <1>6, <1>7, <1>8, <1>9, <1>10 DEF Next, Background

-----------------------------------------------------------------------------
(* Everything that is kept is written *)

\* An iterator yields every entry.
LEMMA OrderedAll ==
  ASSUME NEW S, S \subseteq Entry, IsFiniteSet(S),
         \A d, e \in S : d # e => Before(d, e) \/ Before(e, d)
  PROVE  \A e \in S : \E i \in DOMAIN Ordered(S) : e = Ordered(S)[i]
<1> DEFINE n == Cardinality(S)
           s == Ordered(S)
<1>1. n \in Nat
  BY FS_CardinalityType
<1>2. DOMAIN s = 1..n /\ s = [i \in 1..n |-> s[i]]
  BY DEF Ordered
<1>3. /\ \A i \in DOMAIN s : s[i] \in S
      /\ \A i, j \in DOMAIN s : i < j => Before(s[i], s[j])
  BY OrderedFacts
<1> HIDE DEF s, n
<1>4. \A i, j \in 1..n : s[i] = s[j] => i = j
  <2> SUFFICES ASSUME NEW i \in 1..n, NEW j \in 1..n, i # j PROVE s[i] # s[j]
    OBVIOUS
  <2>1. i < j \/ j < i
    BY <1>1
  <2>2. s[i] \in Entry /\ s[j] \in Entry
    BY <1>2, <1>3
  <2>3. Before(s[i], s[j]) \/ Before(s[j], s[i])
    BY <1>2, <1>3, <2>1
  <2>4. QED
    BY <2>2, <2>3, BeforeOrders
<1>5. s \in Injection(1..n, S)
  BY <1>2, <1>3, <1>4 DEF Injection, IsInjective
<1>6. Cardinality(1..n) = n
  BY <1>1, FS_Interval
<1>7. s \in Surjection(1..n, S)
  BY <1>5, <1>6, FS_Injection DEF n
<1>8. QED
  BY <1>2, <1>7 DEF Surjection, s

\* What an output file or the files before it hold.
Wrote(out) == (UNION Range(out.done)) \cup out.file

LEMMA FinishWrote ==
  ASSUME NEW out, InWork(out)
  PROVE  Wrote(Finish(out)) = Wrote(out) /\ Finish(out).file = {}
<1>1. CASE out.file = {}
  BY <1>1 DEF Finish
<1>2. CASE out.file # {}
  <2> DEFINE new == [out EXCEPT !.done = Append(@, out.file), !.file = {}]
             s == out.done
             t == Append(s, out.file)
  <2>1. Finish(out) = new
    BY <1>2 DEF Finish
  <2>2. new.done = t /\ new.file = {}
    BY DEF InWork
  <2>3. s \in Seq(EntrySet \ {{}})
    BY DEF InWork
  <2> HIDE DEF new, s
  <2>4. /\ DOMAIN t = 1..(Len(s) + 1) /\ DOMAIN s = 1..Len(s) /\ Len(s) \in Nat
        /\ \A i \in DOMAIN s : t[i] = s[i]
        /\ t[Len(s) + 1] = out.file
    BY <2>3
  <2> HIDE DEF t
  <2>5. Range(t) = Range(s) \cup {out.file}
    <3>1. \A i : i \in DOMAIN t <=> i \in DOMAIN s \/ i = Len(s) + 1
      BY <2>4
    <3>2. \A S : S \in Range(t) <=> \E i \in DOMAIN t : S = t[i]
      BY DEF Range
    <3>3. \A S : S \in Range(s) <=> \E i \in DOMAIN s : S = s[i]
      BY DEF Range
    <3>4. QED
      BY <2>4, <3>1, <3>2, <3>3
  <2>6. Wrote(new) = UNION Range(t)
    BY <2>2 DEF Wrote
  <2>7. Wrote(out) = (UNION Range(s)) \cup out.file
    BY DEF Wrote, s
  <2>8. \A A, x : UNION (A \cup {x}) = (UNION A) \cup x
    OBVIOUS
  <2>9. Wrote(new) = UNION (Range(s) \cup {out.file})
    BY <2>5, <2>6
  <2>10. Wrote(new) = Wrote(out)
    BY <2>7, <2>8, <2>9
  <2>11. QED
    BY <2>1, <2>2, <2>10
<1>3. QED
  BY <1>1, <1>2

LEMMA StopWrote ==
  ASSUME NEW out, InWork(out), NEW c, NEW target, NEW e
  PROVE  Wrote(Stop(c, target, out, e)) = Wrote(out)
<1> DEFINE passed == Cardinality({i \in DOMAIN c.grandparents :
                                    Before(c.grandparents[i].largest, e)})
           bytes == out.bytes + IF out.seen
                                THEN Size(SubSeq(c.grandparents, out.index + 1, passed)) ELSE 0
           moved == [out EXCEPT !.index = passed, !.seen = TRUE, !.bytes = bytes]
<1>1. Stop(c, target, out, e) = IF bytes > GrandparentFactor * target
                                THEN [Finish(moved) EXCEPT !.bytes = 0] ELSE moved
  BY DEF Stop
<1> HIDE DEF passed, bytes
<1>2. moved.done = out.done /\ moved.file = out.file /\ InWork(moved)
  BY DEF InWork
<1> HIDE DEF moved
<1> DEFINE done == Finish(moved)
           last == [done EXCEPT !.bytes = 0]
<1>3. Wrote(moved) = Wrote(out)
  BY <1>2 DEF Wrote
<1>4. Wrote(done) = Wrote(out) /\ InWork(done)
  BY <1>2, <1>3, FinishWrote, FinishFacts
<1> HIDE DEF done
<1>5. last.done = done.done /\ last.file = done.file
  BY <1>4 DEF InWork
<1> HIDE DEF last
<1>6. Wrote(last) = Wrote(out)
  BY <1>4, <1>5 DEF Wrote
<1>7. QED
  BY <1>1, <1>3, <1>6 DEF last, done

LEMMA PutWrote ==
  ASSUME NEW out, InWork(out), NEW kept, kept \subseteq Entry, NEW target, NEW e
  PROVE  Wrote(Put(kept, target, out, e)) = Wrote(out) \cup ({e} \cap kept)
<1> DEFINE with == [out EXCEPT !.file = @ \cup {e}]
<1>1. Put(kept, target, out, e) =
        IF e \notin kept THEN out
        ELSE IF Cardinality(with.file) >= target THEN Finish(with) ELSE with
  BY DEF Put
<1>2. ASSUME e \in kept
      PROVE  InWork(with) /\ Wrote(with) = Wrote(out) \cup {e}
  <2>1. out.file \subseteq Entry /\ IsFiniteSet(out.file) /\ e \in Entry
    BY <1>2 DEF InWork, EntrySet
  <2>2. IsFiniteSet(out.file \cup {e})
    BY <2>1, FS_AddElement
  <2>3. out.file \cup {e} \in EntrySet
    BY <2>1, <2>2 DEF EntrySet
  <2>4. DOMAIN with = DOMAIN out /\ with.done = out.done /\ with.file = out.file \cup {e}
    BY DEF InWork
  <2> HIDE DEF with
  <2>5. InWork(with)
    BY <2>3, <2>4 DEF InWork
  <2> DEFINE U == UNION Range(out.done)
  <2>6. Wrote(with) = U \cup (out.file \cup {e})
    BY Zenon, <2>4 DEF Wrote
  <2>7. Wrote(out) = U \cup out.file
    BY Zenon DEF Wrote
  <2> HIDE DEF U
  <2>8. QED
    BY <2>5, <2>6, <2>7
<1> HIDE DEF with
<1>3. CASE e \in kept
  BY <1>1, <1>2, <1>3, FinishWrote
<1>4. CASE e \notin kept
  BY <1>1, <1>4
<1>5. QED
  BY <1>3, <1>4

\* A compaction writes what it keeps, and nothing else.
LEMMA OutputsAll ==
  ASSUME NEW v, NEW c, InputsOf(v, c), NEW snapshot, NEW target,
         \A d, e \in InputEntries(c) : d # e => Before(d, e) \/ Before(e, d)
  PROVE  UNION Range(Outputs(v, c, snapshot, target)) = Kept(v, c, snapshot)
<1> DEFINE all == InputEntries(c)
           entries == Ordered(all)
           kept == Kept(v, c, snapshot)
           n == Len(entries)
           Past(i) == {entries[j] : j \in 1..i}
<1>1. all \subseteq Entry /\ IsFiniteSet(all)
  BY InputEntriesFacts
<1>2. kept \subseteq all
  BY DEF Kept
<1>3. /\ n \in Nat /\ DOMAIN entries = 1..n
      /\ \A e \in all : \E i \in 1..n : e = entries[i]
  <2> HIDE DEF all
  <2>1. \A d, e \in all : d # e => Before(d, e) \/ Before(e, d)
    BY DEF all
  <2>2. n \in Nat /\ DOMAIN entries = 1..n
    BY <1>1, <2>1, OrderedFacts
  <2>3. \A e \in all : \E i \in DOMAIN entries : e = entries[i]
    BY <1>1, <2>1, OrderedAll
  <2>4. QED
    BY <2>2, <2>3
<1>4. PICK g : /\ Outputs(v, c, snapshot, target) = Finish(g[n]).done
               /\ \A i \in 0..n :
                    g[i] = IF i = 0 THEN Begun
                           ELSE Put(kept, target, Stop(c, target, g[i - 1], entries[i]), entries[i])
  BY <1>3, OutputsSteps
<1> HIDE DEF all, entries, kept, n
<1> DEFINE T == {k \in Nat : k <= n => InWork(g[k]) /\ Wrote(g[k]) = kept \cap Past(k)}
<1>5. 0 \in T
  <2>1. g[0] = Begun
    BY <1>3, <1>4
  <2>2. DOMAIN Begun.done = {} /\ Begun.file = {} /\ InWork(Begun)
    BY FS_EmptySet DEF InWork, Begun, EntrySet
  <2>3. Wrote(Begun) = {} /\ Past(0) = {}
    BY <2>2 DEF Wrote, Range
  <2>4. QED
    BY <2>1, <2>2, <2>3
<1>6. ASSUME NEW k \in Nat, k \in T
      PROVE  k + 1 \in T
  <2> SUFFICES ASSUME k + 1 <= n
               PROVE  InWork(g[k + 1]) /\ Wrote(g[k + 1]) = kept \cap Past(k + 1)
    OBVIOUS
  <2> DEFINE e == entries[k + 1]
             o == Stop(c, target, g[k], e)
  <2>1. InWork(g[k]) /\ Wrote(g[k]) = kept \cap Past(k)
    BY <1>3, <1>6
  <2>2. g[k + 1] = Put(kept, target, o, e)
    BY <1>3, <1>4
  <2>3. Past(k + 1) = Past(k) \cup {e}
    <3>1. \A i : i \in 1..(k + 1) <=> i \in 1..k \/ i = k + 1
      BY <1>6
    <3> HIDE DEF e
    <3>2. QED
      BY <3>1 DEF e
  <2> HIDE DEF e, Past
  <2>4. InWork(o) /\ Wrote(o) = kept \cap Past(k)
    BY <2>1, StopFacts, StopWrote
  <2>5. kept \subseteq Entry
    BY <1>1, <1>2
  <2> HIDE DEF o
  <2>6. InWork(Put(kept, target, o, e)) /\ Wrote(Put(kept, target, o, e)) = Wrote(o) \cup ({e} \cap kept)
    BY <2>4, <2>5, PutFacts, PutWrote
  <2>7. QED
    BY <2>2, <2>3, <2>4, <2>6
<1>7. InWork(g[n]) /\ Wrote(g[n]) = kept \cap Past(n)
  <2>1. Nat \subseteq T
    <3> HIDE DEF T
    <3> QED
      BY <1>5, <1>6, SetInduction
  <2>2. n \in T
    <3> HIDE DEF T
    <3> QED
      BY <1>3, <2>1
  <2>3. n <= n
    BY <1>3
  <2>4. QED
    BY <2>2, <2>3
<1>8. kept \cap Past(n) = kept
  BY <1>2, <1>3
<1>9. Wrote(Finish(g[n])) = kept /\ Finish(g[n]).file = {}
  <2> HIDE DEF Past
  <2> QED
    BY <1>7, <1>8, FinishWrote
<1>10. QED
  BY <1>4, <1>9 DEF Wrote, kept

-----------------------------------------------------------------------------
(* Newer entries above older ones *)

\* Of each user key, what is in S is newer than what is in T.
Newer(S, T) == \A e \in S, d \in T : e[1] = d[1] => e[2] > d[2]

Layered(v) ==
  /\ \A l, m \in Levels : l < m =>
       \A f \in Range(v[l]), g \in Range(v[m]) : Newer(f.entries, g.entries)
  /\ \A f, g \in Range(v[0]) : f.number > g.number => Newer(f.entries, g.entries)

Waiting == IF imm = None THEN {} ELSE imm

\* The memtables are newer than the tables, and mem_ than imm_.
Aged ==
  /\ \A e \in mem : \A d \in Waiting \cup EntriesOf(version) : d[2] < e[2]
  /\ \A e \in Waiting : \A d \in EntriesOf(version) : d[2] < e[2]

\* What a merge leaves in the level it takes files from is newer than those; what it leaves in
\* the next level shares no key with what it merges.
MergeNewer(v, c) ==
  /\ \A g \in Range(v[c.level]) \ Range(c.inputs[1]) : \A f \in Range(c.inputs[1]) :
       Newer(g.entries, f.entries)
  /\ \A g \in Range(v[c.level + 1]) \ Range(c.inputs[2]) : \A f \in InputFiles(c) : Clear(f, g)

AboveInv ==
  /\ RangeTyped /\ Aged /\ Layered(version)
  /\ bg.at = "merge" => MergeNewer(version, bg)

LEMMA LayeredMeans == NewerAbove <=> Layered(version)
BY DEF NewerAbove, Files, Layered, Newer

LEMMA ClearNewer ==
  ASSUME NEW f \in File, NEW g \in File, Bounded(f), Bounded(g), Clear(f, g)
  PROVE  \A e \in f.entries, d \in g.entries : e[1] # d[1]
<1> SUFFICES ASSUME NEW e \in f.entries, NEW d \in g.entries PROVE e[1] # d[1]
  OBVIOUS
<1>1. /\ FirstKey(f) \in Int /\ LastKey(f) \in Int /\ FirstKey(g) \in Int /\ LastKey(g) \in Int
      /\ FirstKey(f) <= e[1] /\ e[1] <= LastKey(f) /\ FirstKey(g) <= d[1] /\ d[1] <= LastKey(g)
      /\ e \in Entry /\ d \in Entry
  BY FileKeys
<1>2. e[1] \in Int /\ d[1] \in Int
  BY <1>1, EntryTypes
<1>3. QED
  BY <1>1, <1>2 DEF Clear

\* What holds of the files of a version.
LEMMA VersionFiles ==
  ASSUME CompactionInv, ApartInv
  PROVE  /\ version \in [Levels -> Seq(File)]
         /\ \A l \in Levels : \A f \in Range(version[l]) :
              /\ f \in File /\ Bounded(f) /\ f.entries \subseteq EntriesOf(version)
              /\ f.entries \subseteq Entry
<1>1. version \in [Levels -> Seq(File)]
  BY DEF CompactionInv, VersionSound
<1>2. \A l \in Levels : \A f \in Range(version[l]) : f \in File
  BY <1>1 DEF Range
<1>3. \A l \in Levels : \A f \in Range(version[l]) : f \in FilesOf(version)
  BY DEF FilesOf
<1>4. \A f \in File : f.entries \subseteq Entry
  BY DEF File, EntrySet
<1>5. QED
  BY <1>1, <1>2, <1>3, <1>4 DEF ApartInv, AllBounded, EntriesOf

LEMMA ChosenNewer ==
  ASSUME CompactionInv, ApartInv, NEW c, Chosen(version, c)
  PROVE  MergeNewer(version, c)
<1>1. \A l \in Levels : \A f \in Range(version[l]) : f \in File /\ Bounded(f)
  BY VersionFiles
<1>2. InputsOf(version, c) /\ InputsClear(version, c)
  BY DEF Chosen
<1>3. ASSUME NEW g \in Range(version[c.level]) \ Range(c.inputs[1]), NEW f \in Range(c.inputs[1])
      PROVE  Newer(g.entries, f.entries)
  <2>1. Clear(f, g) /\ f \in File /\ g \in File /\ Bounded(f) /\ Bounded(g)
    BY <1>1, <1>2, <1>3 DEF InputsOf, InputsClear
  <2>2. QED
    BY <2>1, ClearNewer DEF Newer
<1>4. QED
  BY <1>2, <1>3 DEF MergeNewer, InputsClear

\* Steps that change no entry, no table and no merge but for what it has written.
LEMMA SameAbove ==
  ASSUME AboveInv, RangeTyped', UNCHANGED <<mem, imm, version>>,
         bg'.at = "merge" => bg.at = "merge" /\ bg'.level = bg.level /\ bg'.inputs = bg.inputs
  PROVE  AboveInv'
<1>1. Aged' /\ Layered(version)'
  BY DEF AboveInv, Aged, Waiting, EntriesOf, FilesOf
<1>2. MergeNewer(version, bg) /\ bg'.level = bg.level /\ bg'.inputs = bg.inputs
        => MergeNewer(version, bg)'
  BY DEF MergeNewer, InputFiles
<1>3. QED
  BY <1>1, <1>2 DEF AboveInv

LEMMA WorkAbove ==
  ASSUME CompactionInv, ApartInv, AboveInv, RangeTyped', NEW c, Chosen(version, c), NEW m,
         Work(c, m), UNCHANGED memVars
  PROVE  AboveInv'
<1>1. UNCHANGED <<mem, imm, version>> /\ bg'.level = c.level /\ bg'.inputs = c.inputs
  BY DEF Work, memVars
<1>2. MergeNewer(version, c)
  BY ChosenNewer
<1>3. MergeNewer(version, bg)'
  BY <1>1, <1>2 DEF MergeNewer, InputFiles
<1>4. Aged' /\ Layered(version)'
  BY <1>1 DEF AboveInv, Aged, Waiting, EntriesOf, FilesOf
<1>5. QED
  BY <1>3, <1>4 DEF AboveInv

LEMMA WriteAbove ==
  ASSUME CompactionInv, ApartInv, AboveInv, RangeTyped', NEW p \in scenario.puts, Write(p[1], p[2])
  PROVE  AboveInv'
<1> DEFINE e == <<p[1], lastSequence + 1, p[2]>>
<1>1. mem' = mem \cup {e} /\ UNCHANGED <<imm, version, bg>>
  BY DEF Write, diskVars
<1>2. lastSequence \in Nat
  BY DEF CompactionInv, MemTables
<1>3. \A d \in Recorded : d[2] \in Nat /\ d[2] <= lastSequence
  BY RecordedNumbers, EntryTypes DEF ApartInv, Numbered
<1>4. e[2] = lastSequence + 1
  OBVIOUS
<1> HIDE DEF e
<1>5. \A d \in Waiting \cup EntriesOf(version) : d[2] < e[2]
  BY <1>2, <1>3, <1>4 DEF Recorded, Waiting
<1>6. Waiting' = Waiting /\ EntriesOf(version)' = EntriesOf(version)
  BY <1>1 DEF Waiting
<1>7. Aged'
  BY <1>1, <1>5, <1>6 DEF AboveInv, Aged
<1>8. Layered(version)' /\ (MergeNewer(version, bg) => MergeNewer(version, bg)')
  BY <1>1 DEF AboveInv
<1>9. QED
  BY <1>1, <1>7, <1>8 DEF AboveInv

LEMMA SwitchAbove ==
  ASSUME AboveInv, RangeTyped', SwitchMemTable \/ RangeSwitches
  PROVE  AboveInv'
<1>1. imm = None /\ imm' = mem /\ mem' = {} /\ UNCHANGED <<version, bg>>
  BY DEF SwitchMemTable, RangeSwitches, diskVars
<1>2. Waiting' \subseteq mem /\ EntriesOf(version)' = EntriesOf(version)
  BY <1>1 DEF Waiting
<1>3. Aged'
  BY <1>1, <1>2 DEF AboveInv, Aged
<1>4. Layered(version)' /\ (MergeNewer(version, bg) => MergeNewer(version, bg)')
  BY <1>1 DEF AboveInv
<1>5. QED
  BY <1>1, <1>3, <1>4 DEF AboveInv

LEMMA FlushAbove ==
  ASSUME CompactionInv, ApartInv, AboveInv, RangeTyped', Flush
  PROVE  AboveInv'
<1> DEFINE file == Table(nextFile, imm)
           level == PickLevelForMemTableOutput(version, FirstKey(file), LastKey(file), scenario.target)
<1>1. imm # None /\ imm' = None /\ UNCHANGED <<mem, bg>>
  BY DEF Flush
<1>2. /\ \A l \in Levels : Range(version'[l]) = Range(version[l]) \cup Flushed(l, level, file)
      /\ imm # {} => file \in File /\ Bounded(file) /\ file.entries = imm
      /\ level \in Levels
      /\ imm # {} /\ level # 0 =>
           \A l \in 0..level : \A f \in Range(version[l]) :
             LastKey(f) < FirstKey(file) \/ LastKey(file) < FirstKey(f)
  BY FlushPlaces
<1>3. /\ imm # {} => file.number = nextFile
      /\ \A l \in Levels : \A f \in Range(version[l]) : f.number \in Nat /\ f.number < nextFile
      /\ nextFile \in Nat
  <2>1. /\ nextFile \in Nat /\ imm \in EntrySet /\ \A n \in TablesOf(version) : n < nextFile
    BY <1>1 DEF CompactionInv, MemTables
  <2>2. \A l \in Levels : \A f \in Range(version[l]) : f.number \in TablesOf(version)
    BY DEF TablesOf
  <2>3. \A l \in Levels : \A f \in Range(version[l]) : f.number \in Nat
    BY VersionFiles DEF File
  <2>4. imm # {} => file.number = nextFile
    BY <2>1, TableFacts
  <2>5. QED
    BY <2>1, <2>2, <2>3, <2>4
<1> HIDE DEF level, file
<1>4. \A l \in Levels : \A f \in Range(version[l]) :
        /\ f \in File /\ Bounded(f) /\ f.entries \subseteq EntriesOf(version)
        /\ f.entries \subseteq Entry
  BY VersionFiles
<1>5. EntriesOf(version') \subseteq EntriesOf(version) \cup imm
  <2>1. \A f \in FilesOf(version') : f \in FilesOf(version) \/ (f = file /\ imm # {})
    BY <1>2 DEF FilesOf, Flushed
  <2>2. QED
    BY <1>2, <2>1 DEF EntriesOf
<1>6. Waiting = imm /\ Waiting' = {}
  BY <1>1 DEF Waiting
<1>7. Aged'
  BY <1>1, <1>5, <1>6 DEF AboveInv, Aged
<1>8. ASSUME imm # {}, NEW l \in Levels, NEW f \in Range(version[l])
      PROVE  Newer(file.entries, f.entries)
  <2>1. \A e \in file.entries : \A d \in f.entries : d[2] < e[2]
    BY <1>2, <1>4, <1>6, <1>8 DEF AboveInv, Aged
  <2>2. \A e \in file.entries : \A d \in f.entries : e[2] \in Nat /\ d[2] \in Nat
    <3>1. file.entries \subseteq Entry /\ f.entries \subseteq Entry
      BY <1>2, <1>4, <1>8 DEF File, EntrySet
    <3>2. QED
      BY <3>1, EntryTypes
  <2>3. QED
    BY <2>1, <2>2 DEF Newer
<1>9. ASSUME imm # {}, level # 0, NEW l \in 0..level, NEW f \in Range(version[l])
      PROVE  Clear(f, file) /\ Newer(f.entries, file.entries)
  <2>1. l \in Levels
    BY <1>2, LevelsAssumption DEF Levels
  <2>2. Clear(f, file)
    BY <1>2, <1>9 DEF Clear
  <2>3. QED
    BY <1>2, <1>4, <1>9, <2>1, <2>2, ClearNewer DEF Newer
<1>10. \A l \in Levels : \A f \in Range(version'[l]) :
         f \in Range(version[l]) \/ (f = file /\ l = level /\ imm # {})
  BY <1>2 DEF Flushed
<1>11. Layered(version')
  <2>1. ASSUME NEW l \in Levels, NEW m \in Levels, l < m,
               NEW f \in Range(version'[l]), NEW g \in Range(version'[m])
        PROVE  Newer(f.entries, g.entries)
    <3>1. l \in Nat /\ m \in Nat
      BY LevelsAssumption DEF Levels
    <3>2. CASE f \in Range(version[l]) /\ g \in Range(version[m])
      BY <2>1, <3>2 DEF AboveInv, Layered
    <3>3. CASE f = file /\ l = level /\ imm # {} /\ g \in Range(version[m])
      BY <1>8, <3>3
    <3>4. CASE f \in Range(version[l]) /\ g = file /\ m = level /\ imm # {}
      <4>1. level # 0 /\ l \in 0..level
        BY <2>1, <3>1, <3>4
      <4>2. QED
        BY <1>9, <3>4, <4>1
    <3>5. QED
      BY <1>10, <2>1, <3>1, <3>2, <3>3, <3>4
  <2>2. ASSUME NEW f \in Range(version'[0]), NEW g \in Range(version'[0]), f.number > g.number
        PROVE  Newer(f.entries, g.entries)
    <3>1. 0 \in Levels
      BY LevelsAssumption DEF Levels
    <3>2. CASE f \in Range(version[0]) /\ g \in Range(version[0])
      BY <2>2, <3>2 DEF AboveInv, Layered
    <3>3. CASE f = file /\ imm # {} /\ g \in Range(version[0])
      BY <1>8, <3>1, <3>3
    <3>4. CASE g = file /\ imm # {}
      <4>1. f \in Range(version[0]) \/ f = file
        BY <1>10, <3>1
      <4>2. g.number = nextFile /\ f.number \in Nat /\ f.number <= nextFile
        BY <1>3, <3>1, <3>4, <4>1
      <4>3. QED
        BY <1>3, <2>2, <4>2
    <3>5. QED
      BY <1>10, <3>1, <3>2, <3>3, <3>4
  <2>3. QED
    BY <2>1, <2>2 DEF Layered
<1>12. ASSUME bg.at = "merge"
       PROVE  MergeNewer(version', bg)
  <2>1. MergeNewer(version, bg) /\ InputsOf(version, bg)
    BY <1>12 DEF AboveInv, ApartInv, MergeApart
  <2>2. bg.level \in Levels /\ bg.level + 1 \in Levels
    BY <2>1 DEF InputsOf
  <2>3. ASSUME NEW g \in Range(version'[bg.level]) \ Range(bg.inputs[1]), NEW f \in Range(bg.inputs[1])
        PROVE  Newer(g.entries, f.entries)
    <3>1. CASE g \in Range(version[bg.level])
      BY <2>1, <2>3, <3>1 DEF MergeNewer
    <3>2. CASE g = file /\ imm # {}
      <4>1. f \in Range(version[bg.level])
        BY <2>1, <2>3 DEF InputsOf
      <4>2. QED
        BY <1>8, <2>2, <3>2, <4>1
    <3>3. QED
      BY <1>10, <2>2, <2>3, <3>1, <3>2
  <2>4. ASSUME NEW g \in Range(version'[bg.level + 1]) \ Range(bg.inputs[2]), NEW f \in InputFiles(bg)
        PROVE  Clear(f, g)
    <3>1. CASE g \in Range(version[bg.level + 1])
      BY <2>1, <2>4, <3>1 DEF MergeNewer
    <3>2. CASE g = file /\ bg.level + 1 = level /\ imm # {}
      <4>1. level # 0 /\ bg.level \in 0..level /\ bg.level + 1 \in 0..level
        BY <2>2, <3>2, LevelsAssumption DEF Levels
      <4>2. f \in Range(version[bg.level]) \/ f \in Range(version[bg.level + 1])
        BY <2>1, <2>4 DEF InputsOf, InputFiles
      <4>3. QED
        BY <1>9, <3>2, <4>1, <4>2
    <3>3. QED
      BY <1>10, <2>2, <2>4, <3>1, <3>2
  <2>5. QED
    BY <2>3, <2>4 DEF MergeNewer
<1>13. MergeNewer(version', bg) => MergeNewer(version, bg)'
  BY <1>1 DEF MergeNewer
<1>14. QED
  BY <1>1, <1>7, <1>11, <1>12, <1>13 DEF AboveInv

\* Where a file that is moved goes.
LEMMA MovePlaces ==
  ASSUME CompactionInv, NEW c, InputsOf(version, c), IsTrivialMove(c, scenario.target),
         Install({<<c.level, c.inputs[1][1].number>>}, << <<c.level + 1, c.inputs[1][1]>> >>)
  PROVE  LET file == c.inputs[1][1]
         IN  /\ file \in Range(version[c.level]) /\ Range(c.inputs[1]) = {file}
             /\ Range(c.inputs[2]) = {}
             /\ \A l \in Levels :
                  Range(version'[l]) = {f \in Range(version[l]) : <<l, f.number>> # <<c.level, file.number>>}
                                         \cup {f \in {file} : l = c.level + 1}
<1> DEFINE file == c.inputs[1][1]
           deleted == {<<c.level, file.number>>}
<1>1. version' = Edited(version, deleted, << <<c.level + 1, file>> >>) /\ VersionSound(version)
  BY DEF Install, CompactionInv
<1>2. /\ file \in Range(version[c.level]) /\ c.level \in Levels /\ c.level + 1 \in Levels
      /\ Range(c.inputs[1]) = {file} /\ file \in File
  <2>1. Len(c.inputs[1]) = 1 /\ c.inputs[1] \in Seq(File)
        /\ Range(c.inputs[1]) \subseteq Range(version[c.level])
    BY DEF IsTrivialMove, InputsOf
  <2>2. DOMAIN c.inputs[1] = {1} /\ file \in File
    BY <2>1
  <2>3. Range(c.inputs[1]) = {file}
    BY <2>2 DEF Range
  <2>4. QED
    BY <2>1, <2>2, <2>3 DEF InputsOf
<1>3. \A l \in Levels : \A f \in Range(version[l]) :
        <<l, f.number>> \notin deleted => f.number # file.number
  <2> SUFFICES ASSUME NEW l \in Levels, NEW f \in Range(version[l]), f.number = file.number
               PROVE  <<l, f.number>> \in deleted
    OBVIOUS
  <2>1. l = c.level
    BY <1>1, <1>2 DEF VersionSound
  <2>2. QED
    BY <2>1
<1>4. \A l \in Levels : \A f : <<l, f.number>> \notin deleted <=> <<l, f.number>> # <<c.level, file.number>>
  OBVIOUS
<1>5. Range(c.inputs[2]) = {}
  BY DEF IsTrivialMove, Range
<1> HIDE DEF file, deleted
<1>6. \A l \in Levels :
        Range(version'[l]) = {f \in Range(version[l]) : <<l, f.number>> \notin deleted}
                               \cup {f \in {file} : l = c.level + 1}
  BY <1>1, <1>2, <1>3, OneFilePlaced
<1>7. \A l \in Levels :
        Range(version'[l]) = {f \in Range(version[l]) : <<l, f.number>> # <<c.level, file.number>>}
                               \cup {f \in {file} : l = c.level + 1}
  BY <1>4, <1>6
<1>8. QED
  BY <1>2, <1>5, <1>7 DEF file

\* A version w that a move or merge c of v leaves: what it adds, it adds to the next level,
\* and that comes from its inputs; those are gone from their level.
Merged(v, c, w) ==
  \A l \in Levels : \A f \in Range(w[l]) :
    \/ f \in Range(v[l]) /\ (l = c.level => f \notin Range(c.inputs[1]))
                         /\ (l = c.level + 1 => f \notin Range(c.inputs[2]))
    \/ l = c.level + 1 /\ f.entries \subseteq InputEntries(c)

LEMMA InputFrom ==
  ASSUME NEW v, NEW c, InputsOf(v, c), NEW d \in InputEntries(c)
  PROVE  \/ \E h \in Range(c.inputs[1]) : h \in Range(v[c.level]) /\ d \in h.entries
         \/ \E h \in Range(c.inputs[2]) : h \in Range(v[c.level + 1]) /\ d \in h.entries
<1>1. InputEntries(c) = UNION {f.entries : f \in Range(c.inputs[1]) \cup Range(c.inputs[2])}
  BY InputEntriesFacts
<1>2. \E h \in Range(c.inputs[1]) \cup Range(c.inputs[2]) : d \in h.entries
  BY <1>1
<1>3. QED
  BY <1>2 DEF InputsOf

LEMMA MergedLayered ==
  ASSUME NEW v, NEW c, NEW w, InputsOf(v, c), Layered(v), MergeNewer(v, c), Merged(v, c, w)
  PROVE  Layered(w)
<1>1. c.level \in Nat /\ c.level + 1 # 0 /\ c.level \in Levels /\ c.level + 1 \in Levels
  BY LevelsAssumption DEF InputsOf, Levels
<1>2. ASSUME NEW l \in Levels, NEW m \in Levels, l < m,
             NEW f \in Range(w[l]), NEW g \in Range(w[m])
      PROVE  Newer(f.entries, g.entries)
  <2>1. l \in Nat /\ m \in Nat
    BY LevelsAssumption DEF Levels
  <2> DEFINE Stays(h, n) == h \in Range(v[n]) /\ (n = c.level => h \notin Range(c.inputs[1]))
             Comes(h, n) == n = c.level + 1 /\ h.entries \subseteq InputEntries(c)
  <2>2. (Stays(f, l) \/ Comes(f, l)) /\ (Stays(g, m) \/ Comes(g, m))
    BY Zenon DEF Merged
  <2>3. CASE Stays(f, l) /\ Stays(g, m)
    BY <1>2, <2>3 DEF Layered
  <2>4. CASE Stays(f, l) /\ Comes(g, m)
    <3> SUFFICES ASSUME NEW e \in f.entries, NEW d \in g.entries, e[1] = d[1] PROVE e[2] > d[2]
      BY DEF Newer
    <3>1. d \in InputEntries(c)
      BY <2>4
    <3>2. CASE \E h \in Range(c.inputs[1]) : h \in Range(v[c.level]) /\ d \in h.entries
      <4>1. PICK h \in Range(c.inputs[1]) : h \in Range(v[c.level]) /\ d \in h.entries
        BY <3>2
      <4>2. l < c.level \/ l = c.level
        BY <1>1, <1>2, <2>1, <2>4
      <4>3. Newer(f.entries, h.entries)
        BY <1>1, <2>4, <4>1, <4>2 DEF Layered, MergeNewer
      <4>4. QED
        BY <4>1, <4>3 DEF Newer
    <3>3. CASE \E h \in Range(c.inputs[2]) : h \in Range(v[c.level + 1]) /\ d \in h.entries
      <4>1. PICK h \in Range(v[c.level + 1]) : d \in h.entries
        BY <3>3
      <4>2. Newer(f.entries, h.entries)
        BY <1>1, <1>2, <2>4 DEF Layered
      <4>3. QED
        BY <4>1, <4>2 DEF Newer
    <3>4. QED
      BY <3>1, <3>2, <3>3, InputFrom
  <2>5. CASE Comes(f, l) /\ Stays(g, m)
    <3> SUFFICES ASSUME NEW e \in f.entries, NEW d \in g.entries, e[1] = d[1] PROVE e[2] > d[2]
      BY DEF Newer
    <3>1. e \in InputEntries(c)
      BY <2>5
    <3>2. PICK n \in {c.level, c.level + 1} : \E h \in Range(v[n]) : e \in h.entries
      BY <3>1, InputFrom
    <3>3. PICK h \in Range(v[n]) : e \in h.entries
      BY <3>2
    <3>4. n \in Levels /\ n < m
      BY <1>1, <1>2, <2>1, <2>5, <3>2
    <3>5. Newer(h.entries, g.entries)
      BY <2>5, <3>4 DEF Layered
    <3>6. QED
      BY <3>3, <3>5 DEF Newer
  <2>6. ~(Comes(f, l) /\ Comes(g, m))
    BY <1>2, <2>1
  <2> HIDE DEF Stays, Comes
  <2>7. QED
    BY <2>2, <2>3, <2>4, <2>5, <2>6
<1>3. \A f \in Range(w[0]) : f \in Range(v[0])
  BY <1>1, LevelsAssumption DEF Merged, Levels
<1>4. QED
  BY <1>2, <1>3 DEF Layered

\* Nothing is recorded that was not.
LEMMA MergedEntries ==
  ASSUME NEW v, NEW c, NEW w, InputsOf(v, c), Merged(v, c, w)
  PROVE  EntriesOf(w) \subseteq EntriesOf(v)
<1> SUFFICES ASSUME NEW l \in Levels, NEW f \in Range(w[l]), NEW e \in f.entries
             PROVE  \E m \in Levels : \E h \in Range(v[m]) : e \in h.entries
  BY DEF EntriesOf, FilesOf
<1>1. CASE f \in Range(v[l])
  BY <1>1
<1>2. CASE f.entries \subseteq InputEntries(c)
  BY <1>2, InputFrom DEF InputsOf
<1>3. QED
  BY <1>1, <1>2 DEF Merged

LEMMA MergedAbove ==
  ASSUME AboveInv, RangeTyped', NEW c, InputsOf(version, c), MergeNewer(version, c),
         Merged(version, c, version'), UNCHANGED <<mem, imm>>, bg'.at # "merge"
  PROVE  AboveInv'
<1>1. EntriesOf(version)' \subseteq EntriesOf(version)
  BY MergedEntries
<1>2. Layered(version)'
  BY MergedLayered DEF AboveInv
<1>3. Aged'
  BY <1>1 DEF AboveInv, Aged, Waiting
<1>4. QED
  BY <1>2, <1>3 DEF AboveInv

LEMMA MoveMerged ==
  ASSUME CompactionInv, NEW c, InputsOf(version, c), IsTrivialMove(c, scenario.target),
         Install({<<c.level, c.inputs[1][1].number>>}, << <<c.level + 1, c.inputs[1][1]>> >>)
  PROVE  Merged(version, c, version')
<1> DEFINE file == c.inputs[1][1]
<1>1. /\ file \in Range(version[c.level]) /\ Range(c.inputs[1]) = {file}
      /\ Range(c.inputs[2]) = {}
      /\ \A l \in Levels :
           Range(version'[l]) = {f \in Range(version[l]) : <<l, f.number>> # <<c.level, file.number>>}
                                  \cup {f \in {file} : l = c.level + 1}
  BY MovePlaces
<1> HIDE DEF file
<1>2. file.entries \subseteq InputEntries(c)
  <2>1. InputEntries(c) = UNION {f.entries : f \in Range(c.inputs[1]) \cup Range(c.inputs[2])}
    BY InputEntriesFacts
  <2>2. QED
    BY <1>1, <2>1
<1>3. QED
  BY <1>1, <1>2 DEF Merged

\* What a compaction that ends leaves in each level.
LEMMA ResultPlaces ==
  ASSUME CompactionInv, ApartInv, InstallCompactionResults
  PROVE  \A l \in Levels : \A f :
           f \in Range(version'[l]) <=>
             \/ /\ f \in Range(version[l])
                /\ l = bg.level => f \notin Range(bg.inputs[1])
                /\ l = bg.level + 1 => f \notin Range(bg.inputs[2])
             \/ l = bg.level + 1 /\ f \in Range(bg.outputs)
<1> DEFINE deleted == {<<bg.level, f.number>> : f \in Range(bg.inputs[1])}
                        \cup {<<bg.level + 1, f.number>> : f \in Range(bg.inputs[2])}
           added == [i \in DOMAIN bg.outputs |-> <<bg.level + 1, bg.outputs[i]>>]
           s == bg.outputs
<1>1. bg.at = "merge" /\ version' = Edited(version, deleted, added)
  BY DEF InstallCompactionResults, Install
<1>2. InputsOf(version, bg)
  BY <1>1 DEF ApartInv, MergeApart
<1>3. /\ s \in Seq(File)
      /\ \A i, j \in DOMAIN s : s[i].number = s[j].number => i = j
      /\ \A n \in Pending : n < nextFile /\ n \notin TablesOf(version)
      /\ VersionSound(version)
  BY <1>1 DEF CompactionInv, MergeSound
<1>4. bg.level \in Levels /\ bg.level \in Nat /\ bg.level # bg.level + 1 /\ bg.level + 1 \in Levels
  BY <1>2, LevelsAssumption DEF InputsOf, Levels
<1>5. ASSUME NEW l \in Levels, NEW f \in Range(version[l])
      PROVE  <<l, f.number>> \in deleted <=> \/ l = bg.level /\ f \in Range(bg.inputs[1])
                                             \/ l = bg.level + 1 /\ f \in Range(bg.inputs[2])
  <2>1. <<l, f.number>> \in deleted <=>
          \/ l = bg.level /\ \E h \in Range(bg.inputs[1]) : f.number = h.number
          \/ l = bg.level + 1 /\ \E h \in Range(bg.inputs[2]) : f.number = h.number
    OBVIOUS
  <2>2. \A h \in Range(bg.inputs[1]) : h \in Range(version[bg.level])
    BY <1>2 DEF InputsOf
  <2>3. \A h \in Range(bg.inputs[2]) : h \in Range(version[bg.level + 1])
    BY <1>2 DEF InputsOf
  <2>4. \A m \in Levels : \A h \in Range(version[m]) : f.number = h.number => f = h
    BY <1>3 DEF VersionSound
  <2> HIDE DEF deleted
  <2>5. QED
    BY <1>4, <2>1, <2>2, <2>3, <2>4
<1>6. /\ DOMAIN added = DOMAIN s
      /\ \A i \in DOMAIN added : added[i][2] = s[i] /\ added[i][1] = bg.level + 1
  OBVIOUS
<1> HIDE DEF deleted
<1>7. IsFiniteSet(DOMAIN added)
  <2>1. Len(s) \in Int /\ DOMAIN s = 1..Len(s)
    BY <1>3
  <2>2. QED
    BY <1>6, <2>1, FS_Interval
<1>8. \A i \in DOMAIN added : \A l \in Levels : \A f \in Range(version[l]) :
        f.number # added[i][2].number
  <2>1. \A l \in Levels : \A f \in Range(version[l]) : f.number \in TablesOf(version)
    BY DEF TablesOf
  <2>2. \A i \in DOMAIN added : added[i][2].number \in Pending
    BY <1>1, <1>6 DEF Pending, Range
  <2>3. QED
    BY <1>3, <2>1, <2>2
<1> HIDE DEF added
<1>9. \A l \in Levels : Range(version'[l]) =
        {f \in Range(version[l]) : <<l, f.number>> \notin deleted} \cup NewFiles(added, DOMAIN added, l)
  <2>1. \A i \in DOMAIN added : added[i][2] \in File
    BY <1>3, <1>6
  <2>2. \A i, j \in DOMAIN added : added[i][2].number = added[j][2].number => i = j
    BY <1>3, <1>6
  <2>3. QED
    BY <1>1, <1>3, <1>7, <1>8, <2>1, <2>2, InstallFacts
<1>10. \A l \in Levels : \A f :
         f \in NewFiles(added, DOMAIN added, l) <=> l = bg.level + 1 /\ f \in Range(s)
  <2>1. \A f : f \in Range(s) <=> \E i \in DOMAIN s : f = s[i]
    BY DEF Range
  <2>2. \A l : \A f : f \in NewFiles(added, DOMAIN added, l)
                        <=> \E i \in DOMAIN added : added[i][1] = l /\ f = added[i][2]
    BY DEF NewFiles
  <2>3. QED
    BY <1>6, <2>1, <2>2
<1>11. QED
  BY <1>5, <1>9, <1>10

LEMMA ResultsMerged ==
  ASSUME CompactionInv, ApartInv, InstallCompactionResults
  PROVE  Merged(version, bg, version')
<1>1. \A f \in Range(bg.outputs) : f.entries \subseteq InputEntries(bg)
  BY DEF ApartInv, MergeApart, InstallCompactionResults, Range
<1>2. QED
  BY <1>1, ResultPlaces DEF Merged

LEMMA PickedAbove ==
  ASSUME CompactionInv, ApartInv, KeysDisjoint, AboveInv, RangeTyped', CompactPicked
  PROVE  AboveInv'
<1>1. bg.at = "none" /\ UNCHANGED memVars
  BY DEF CompactPicked
<1>2. PICK c \in Picked :
        IF IsTrivialMove(c, scenario.target)
        THEN /\ Install({<<c.level, c.inputs[1][1].number>>}, << <<c.level + 1, c.inputs[1][1]>> >>)
             /\ pointers' = [pointers EXCEPT ![c.level] = c.pointer]
             /\ UNCHANGED bg
        ELSE Work(c, FALSE)
  BY DEF CompactPicked
<1>3. Chosen(version, c)
  BY PickedChosen DEF ApartInv
<1>4. CASE IsTrivialMove(c, scenario.target)
  <2>1. InputsOf(version, c) /\ MergeNewer(version, c)
    BY <1>3, ChosenNewer DEF Chosen
  <2>2. Merged(version, c, version')
    BY <1>2, <1>4, <2>1, MoveMerged
  <2>3. UNCHANGED <<mem, imm>> /\ bg'.at # "merge"
    BY <1>1, <1>2, <1>4 DEF memVars
  <2>4. QED
    BY <2>1, <2>2, <2>3, MergedAbove
<1>5. CASE ~IsTrivialMove(c, scenario.target)
  BY <1>1, <1>2, <1>3, <1>5, WorkAbove
<1>6. QED
  BY <1>4, <1>5

LEMMA ResultsAbove ==
  ASSUME CompactionInv, ApartInv, AboveInv, RangeTyped', InstallCompactionResults
  PROVE  AboveInv'
<1>1. bg.at = "merge" /\ UNCHANGED <<mem, imm>> /\ bg'.at # "merge"
  BY DEF InstallCompactionResults, memVars, Idle
<1>2. InputsOf(version, bg) /\ MergeNewer(version, bg)
  BY <1>1 DEF AboveInv, ApartInv, MergeApart
<1>3. QED
  BY <1>1, <1>2, ResultsMerged, MergedAbove

LEMMA AboveNext ==
  ASSUME CompactionInv, ApartInv, KeysDisjoint, AboveInv, [Next]_vars
  PROVE  AboveInv'
<1>0. RangeTyped'
  BY RangeTypedNext DEF AboveInv
<1>1. CASE \/ UNCHANGED vars \/ GetSnapshot \/ NewIterator \/ FlushFails \/ ManualDone
           \/ \E s \in snapshots : ReleaseSnapshot(s)
           \/ \E v \in iterators : CloseIterator(v)
           \/ \E k \in Keys : \E s \in snapshots \cup {lastSequence} : ChargeSeek(k, s)
           \/ \E r \in scenario.ranges : CompactRange(r[1], r[2])
           \/ RangeFlushed \/ RangeClaims \/ RangeAborts
  <2>1. UNCHANGED <<mem, imm, version, bg>>
    BY <1>1 DEF vars, GetSnapshot, NewIterator, FlushFails, ManualDone, ReleaseSnapshot, CloseIterator,
                ChargeSeek, CompactRange, RangeFlushed, RangeClaims, RangeAborts, diskVars, memVars
  <2>2. QED
    BY <1>0, <2>1, SameAbove
<1>2. CASE \E p \in scenario.puts : Write(p[1], p[2])
  BY <1>0, <1>2, WriteAbove
<1>3. CASE SwitchMemTable \/ RangeSwitches
  BY <1>0, <1>3, SwitchAbove
<1>4. CASE Flush
  BY <1>0, <1>4, FlushAbove
<1>5. CASE CompactPicked
  BY <1>0, <1>5, PickedAbove
<1>6. CASE CompactManual
  <2>1. PICK c : Chosen(version, c) /\ Work(c, TRUE)
    BY <1>6, ManualChosen DEF AboveInv, ApartInv
  <2>2. UNCHANGED memVars
    BY <1>6 DEF CompactManual
  <2>3. QED
    BY <1>0, <2>1, <2>2, WorkAbove
<1>7. CASE WriteOutput
  <2>1. /\ bg.at = "merge" /\ UNCHANGED <<mem, imm, version>>
        /\ DOMAIN bg = {"at", "manual", "level", "inputs", "base", "outputs", "todo"}
    BY <1>7 DEF WriteOutput, CompactionInv, MergeSound, memVars
  <2>2. bg'.inputs = bg.inputs /\ bg'.level = bg.level
    BY <1>7, <2>1 DEF WriteOutput
  <2>3. QED
    BY <1>0, <2>1, <2>2, SameAbove
<1>8. CASE InstallCompactionResults
  BY <1>0, <1>8, ResultsAbove
<1>9. CASE CompactionFails
  <2>1. UNCHANGED <<mem, imm, version>> /\ bg'.at # "merge"
    BY <1>9 DEF CompactionFails, memVars, diskVars, Idle
  <2>2. QED
    BY <1>0, <2>1, SameAbove
<1>10. QED
  BY Zenon, <1>1, <1>2, <1>3, <1>4, <1>5, <1>6, <1>7, <1>8, <1>9 DEF Next, RangeSteps, Background

-----------------------------------------------------------------------------
(* Without snapshots, no key is in two files of a level *)

\* What the merge under way will install: its outputs and what it is still to write.
Made == (UNION {f.entries : f \in Range(bg.outputs)}) \cup (UNION Range(bg.todo))

SingleInv ==
  scenario.snapshots = 0 =>
    /\ snapshots = {} /\ KeysDisjoint
    /\ bg.at = "merge" => \A e, d \in Made : e[1] = d[1] => e = d

\* What one output takes from what is to be written, the files hold.
LEMMA MadeSame ==
  ASSUME CompactionInv, WriteOutput
  PROVE  Made' = Made
<1> DEFINE file == Table(nextFile, Head(bg.todo))
           s == bg.outputs
           u == bg.todo
           t == Append(s, file)
           w == Tail(u)
<1>1. /\ bg.at = "merge" /\ u # <<>>
      /\ bg' = [bg EXCEPT !.outputs = Append(@, file), !.todo = Tail(@)]
  BY DEF WriteOutput
<1>2. /\ DOMAIN bg = {"at", "manual", "level", "inputs", "base", "outputs", "todo"}
      /\ u \in Seq(EntrySet \ {{}}) /\ s \in Seq(File) /\ nextFile \in Nat
  BY <1>1 DEF CompactionInv, MergeSound, MemTables
<1>3. u[1] \in EntrySet \ {{}} /\ 1 \in DOMAIN u /\ file = Table(nextFile, u[1])
  BY <1>1, <1>2
<1>4. file.entries = u[1]
  <2> HIDE DEF file, u
  <2>1. Table(nextFile, u[1]).entries = u[1]
    BY <1>2, <1>3, TableFacts
  <2>2. QED
    BY <1>3, <2>1
<1>5. bg'.outputs = t /\ bg'.todo = w
  BY <1>1, <1>2
<1>6. Made = (UNION {f.entries : f \in Range(s)}) \cup (UNION Range(u))
  BY DEF Made
<1>7. Made' = (UNION {f.entries : f \in Range(t)}) \cup (UNION Range(w))
  BY <1>5 DEF Made
<1> HIDE DEF file, s, u
<1>8. \A f : f \in Range(t) <=> f \in Range(s) \/ f = file
  <2>1. /\ DOMAIN t = 1..(Len(s) + 1) /\ DOMAIN s = 1..Len(s) /\ Len(s) \in Nat
        /\ \A i \in DOMAIN s : t[i] = s[i]
        /\ t[Len(s) + 1] = file
    BY <1>2
  <2> HIDE DEF t
  <2>2. \A i : i \in DOMAIN t <=> i \in DOMAIN s \/ i = Len(s) + 1
    BY <2>1
  <2>3. (\A f : f \in Range(t) <=> \E i \in DOMAIN t : f = t[i])
        /\ (\A f : f \in Range(s) <=> \E i \in DOMAIN s : f = s[i])
    BY DEF Range
  <2>4. QED
    BY <2>1, <2>2, <2>3
<1>9. \A S : S \in Range(u) <=> S = u[1] \/ S \in Range(w)
  <2>1. /\ DOMAIN w = 1..(Len(u) - 1) /\ Len(u) \in Nat /\ DOMAIN u = 1..Len(u)
        /\ \A i \in DOMAIN w : w[i] = u[i + 1]
    BY <1>1, <1>2
  <2> HIDE DEF w
  <2>2. \A i \in DOMAIN u : i = 1 \/ (i - 1 \in DOMAIN w /\ u[i] = w[i - 1])
    BY <2>1
  <2>3. \A i \in DOMAIN w : i + 1 \in DOMAIN u
    BY <2>1
  <2>4. (\A S : S \in Range(u) <=> \E i \in DOMAIN u : S = u[i])
        /\ (\A S : S \in Range(w) <=> \E i \in DOMAIN w : S = w[i])
    BY DEF Range
  <2>5. QED
    BY <1>3, <2>1, <2>2, <2>3, <2>4
<1> HIDE DEF t, w
<1>10. \A x : x \in Made' <=> x \in Made
  <2>1. \A x : x \in Made' <=> \/ \E f \in Range(t) : x \in f.entries
                               \/ \E S \in Range(w) : x \in S
    BY <1>7
  <2>2. \A x : x \in Made <=> \/ \E f \in Range(s) : x \in f.entries
                              \/ \E S \in Range(u) : x \in S
    BY <1>6
  <2>3. QED
    BY <1>4, <1>8, <1>9, <2>1, <2>2
<1>11. QED
  BY <1>10

\* A merge makes of its inputs what it keeps of them.
LEMMA WorkMakes ==
  ASSUME CompactionInv, ApartInv, NEW c, InputsOf(version, c), NEW m, Work(c, m)
  PROVE  /\ bg'.at = "merge" /\ bg'.level = c.level /\ bg'.inputs = c.inputs /\ version' = version
         /\ Made' = Kept(version, c, OldestSnapshot)
<1> DEFINE todo == Outputs(version, c, OldestSnapshot, scenario.target)
<1>1. bg' = [at |-> "merge", manual |-> m, level |-> c.level, inputs |-> c.inputs,
             base |-> version, outputs |-> <<>>, todo |-> todo]
      /\ version' = version
  BY DEF Work
<1>2. UNION Range(todo) = Kept(version, c, OldestSnapshot)
  BY InputsRecorded, OutputsAll DEF ApartInv
<1> HIDE DEF todo
<1>3. bg'.outputs = <<>> /\ bg'.todo = todo
  BY <1>1
<1>4. Range(bg'.outputs) = {}
  BY <1>3 DEF Range
<1>5. Made' = UNION Range(todo)
  BY <1>3, <1>4 DEF Made
<1>6. QED
  BY <1>1, <1>2, <1>5

\* What is made comes from the inputs.
LEMMA MadeInputs ==
  ASSUME MergeApart
  PROVE  Made \subseteq InputEntries(bg)
<1>1. \A f \in Range(bg.outputs) : f.entries \subseteq InputEntries(bg)
  BY DEF MergeApart, Range
<1>2. \A S \in Range(bg.todo) : S \subseteq InputEntries(bg)
  BY DEF MergeApart, Range
<1>3. QED
  BY <1>1, <1>2 DEF Made

\* Without a snapshot, a merge keeps but the newest entry of each key.
LEMMA WorkSingle ==
  ASSUME CompactionInv, ApartInv, snapshots = {}, NEW c, InputsOf(version, c), NEW m, Work(c, m)
  PROVE  \A e, d \in Made' : e[1] = d[1] => e = d
<1> DEFINE all == InputEntries(c)
<1>1. Made' = Kept(version, c, lastSequence)
  BY WorkMakes DEF OldestSnapshot
<1>2. /\ Made' \subseteq all
      /\ \A e \in Made' : ~\E d \in all : d[1] = e[1] /\ e[2] < d[2] /\ d[2] <= lastSequence
  BY <1>1 DEF Kept
<1>3. all \subseteq Recorded
  BY InputsRecorded DEF ApartInv, Recorded
<1>4. \A e \in Recorded : e[2] <= lastSequence /\ e[2] \in Nat
  BY RecordedNumbers, EntryTypes DEF ApartInv, Numbered
<1> HIDE DEF all
<1>5. \A e, d \in Recorded : e[2] = d[2] => e = d
  BY DEF ApartInv, Numbered
<1>6. SUFFICES ASSUME NEW e \in Made', NEW d \in Made', e[1] = d[1], e # d PROVE FALSE
  OBVIOUS
<1>7. e \in all /\ d \in all /\ e[2] # d[2] /\ e[2] <= lastSequence /\ d[2] <= lastSequence
      /\ e[2] \in Nat /\ d[2] \in Nat
  BY <1>2, <1>3, <1>4, <1>5, <1>6
<1>8. e[2] < d[2] \/ d[2] < e[2]
  BY <1>7
<1>9. QED
  BY <1>2, <1>6, <1>7, <1>8

\* Files that are on one side of each other and share no key have keys on one side too.
LEMMA BesideClear ==
  ASSUME NEW f \in File, NEW g \in File, Before(f.largest, g.smallest), FirstKey(g) # LastKey(f)
  PROVE  LastKey(f) < FirstKey(g)
BY DEF Before, FirstKey, LastKey

\* An output shares no key with a file that the merge leaves in the next level.
LEMMA OutputClear ==
  ASSUME CompactionInv, ApartInv, InputsOf(version, bg), OthersAway(version, bg),
         MergeNewer(version, bg),
         NEW f \in File, Bounded(f), f.entries \subseteq InputEntries(bg),
         NEW g \in Range(version[bg.level + 1]) \ Range(bg.inputs[2])
  PROVE  Clear(f, g)
<1>1. g \in File /\ Bounded(g) /\ g.smallest \in g.entries /\ g.largest \in g.entries
  BY VersionFiles DEF InputsOf, Bounded
<1>2. Away(g, InputEntries(bg))
  BY DEF OthersAway
<1>3. f.smallest \in f.entries /\ f.largest \in f.entries
  BY DEF Bounded
<1>4. Before(f.largest, g.smallest) \/ Before(g.largest, f.smallest)
  BY <1>2, <1>3 DEF Away
<1>5. ASSUME NEW e \in InputEntries(bg), NEW d \in g.entries
      PROVE  e[1] # d[1]
  <2>1. PICK h \in InputFiles(bg) : e \in h.entries
    BY InputFrom DEF InputFiles
  <2>2. h \in File /\ Bounded(h)
    BY VersionFiles DEF InputsOf, InputFiles
  <2>3. Clear(h, g)
    BY DEF MergeNewer
  <2>4. QED
    BY <1>1, <2>1, <2>2, <2>3, ClearNewer
<1>6. FirstKey(g) # LastKey(f) /\ FirstKey(f) # LastKey(g)
  BY <1>1, <1>3, <1>5 DEF FirstKey, LastKey
<1>7. QED
  BY <1>1, <1>4, <1>6, BesideClear DEF Clear

LEMMA ResultsSingle ==
  ASSUME CompactionInv, ApartInv, AboveInv, KeysDisjoint, InstallCompactionResults,
         \A e, d \in Made : e[1] = d[1] => e = d
  PROVE  KeysDisjointIn(version')
<1> DEFINE s == bg.outputs
<1>1. bg.at = "merge"
  BY DEF InstallCompactionResults
<1>2. /\ InputsOf(version, bg) /\ OthersAway(version, bg) /\ MergeNewer(version, bg)
      /\ \A i \in DOMAIN s : Bounded(s[i]) /\ s[i].entries \subseteq InputEntries(bg)
      /\ \A i, j \in DOMAIN s : i < j => Follow(s[i].entries, s[j].entries)
  BY <1>1 DEF ApartInv, MergeApart, AboveInv
<1>3. s \in Seq(File)
  BY <1>1 DEF CompactionInv, MergeSound
<1>4. \A i \in DOMAIN s : s[i].entries \subseteq Made
  BY DEF Made, Range
<1> HIDE DEF s
<1>5. ASSUME NEW i \in DOMAIN s, NEW j \in DOMAIN s, i < j
      PROVE  Clear(s[i], s[j]) /\ Clear(s[j], s[i])
  <2>1. /\ s[i] \in File /\ s[j] \in File /\ s[i].largest \in s[i].entries
        /\ s[j].smallest \in s[j].entries
    BY <1>2, <1>3 DEF Bounded
  <2>2. Before(s[i].largest, s[j].smallest)
    BY <1>2, <1>5, <2>1 DEF Follow
  <2>3. s[i].largest # s[j].smallest
    <3>1. s[i].largest \in Entry /\ s[j].smallest \in Entry
      BY <2>1 DEF File
    <3>2. QED
      BY <2>2, <3>1, BeforeOrders
  <2>4. FirstKey(s[j]) # LastKey(s[i])
    BY <1>4, <2>1, <2>3 DEF FirstKey, LastKey
  <2>5. LastKey(s[i]) < FirstKey(s[j])
    BY <2>1, <2>2, <2>4, BesideClear
  <2>6. QED
    BY <2>5 DEF Clear
<1>6. ASSUME NEW l \in Levels \ {0}, NEW f \in Range(version'[l]), NEW g \in Range(version'[l]), f # g
      PROVE  Clear(f, g)
  <2> DEFINE Stays(h) == h \in Range(version[l]) /\ (l = bg.level + 1 => h \notin Range(bg.inputs[2]))
             Comes(h) == l = bg.level + 1 /\ h \in Range(s)
  <2>1. (Stays(f) \/ Comes(f)) /\ (Stays(g) \/ Comes(g))
    BY ResultPlaces DEF s
  <2>2. CASE Stays(f) /\ Stays(g)
    BY <1>6, <2>2 DEF KeysDisjoint, KeysDisjointIn
  <2>3. ASSUME NEW a, NEW b, Comes(a), Stays(b)
        PROVE  Clear(a, b) /\ Clear(b, a)
    <3>1. a \in File /\ Bounded(a) /\ a.entries \subseteq InputEntries(bg)
      BY <1>2, <1>3, <2>3 DEF Range
    <3>2. Clear(a, b)
      BY <1>2, <2>3, <3>1, OutputClear
    <3>3. QED
      BY <3>2 DEF Clear
  <2>4. CASE Comes(f) /\ Comes(g)
    <3>1. PICK i \in DOMAIN s, j \in DOMAIN s : f = s[i] /\ g = s[j]
      BY <2>4 DEF Range
    <3>2. i < j \/ j < i
      BY <1>3, <1>6, <3>1
    <3>3. QED
      BY <1>5, <3>1, <3>2
  <2> HIDE DEF Stays, Comes
  <2>5. QED
    BY <2>1, <2>2, <2>3, <2>4
<1>7. QED
  BY <1>6 DEF KeysDisjointIn

LEMMA MoveSingle ==
  ASSUME CompactionInv, ApartInv, KeysDisjoint, NEW c, Chosen(version, c),
         IsTrivialMove(c, scenario.target),
         Install({<<c.level, c.inputs[1][1].number>>}, << <<c.level + 1, c.inputs[1][1]>> >>)
  PROVE  KeysDisjointIn(version')
<1> DEFINE file == c.inputs[1][1]
<1>1. InputsOf(version, c) /\ InputsClear(version, c)
  BY DEF Chosen
<1>2. /\ Range(c.inputs[1]) = {file} /\ Range(c.inputs[2]) = {}
      /\ \A l \in Levels :
           Range(version'[l]) = {f \in Range(version[l]) : <<l, f.number>> # <<c.level, file.number>>}
                                  \cup {f \in {file} : l = c.level + 1}
  BY <1>1, MovePlaces
<1> HIDE DEF file
<1>3. \A g \in Range(version[c.level + 1]) : Clear(file, g) /\ Clear(g, file)
  BY <1>1, <1>2 DEF InputsClear, InputFiles, Clear
<1>4. ASSUME NEW l \in Levels \ {0}, NEW f \in Range(version'[l]), NEW g \in Range(version'[l]), f # g
      PROVE  Clear(f, g)
  <2>1. \A h \in Range(version'[l]) : h \in Range(version[l]) \/ (h = file /\ l = c.level + 1)
    BY <1>2
  <2>2. CASE f \in Range(version[l]) /\ g \in Range(version[l])
    BY <1>4, <2>2 DEF KeysDisjoint, KeysDisjointIn
  <2>3. QED
    BY <1>3, <1>4, <2>1, <2>2
<1>5. QED
  BY <1>4 DEF KeysDisjointIn

LEMMA FlushSingle ==
  ASSUME CompactionInv, ApartInv, KeysDisjoint, Flush
  PROVE  KeysDisjointIn(version')
<1> DEFINE file == Table(nextFile, imm)
           level == PickLevelForMemTableOutput(version, FirstKey(file), LastKey(file), scenario.target)
<1>1. /\ \A l \in Levels : Range(version'[l]) = Range(version[l]) \cup Flushed(l, level, file)
      /\ imm # {} /\ level # 0 =>
           \A l \in 0..level : \A f \in Range(version[l]) :
             LastKey(f) < FirstKey(file) \/ LastKey(file) < FirstKey(f)
  BY FlushPlaces
<1> HIDE DEF file, level
<1>2. ASSUME NEW l \in Levels \ {0}, NEW f \in Range(version'[l]), NEW g \in Range(version'[l]), f # g
      PROVE  Clear(f, g)
  <2>1. \A h \in Range(version'[l]) : h \in Range(version[l]) \/ (h = file /\ l = level /\ imm # {})
    BY <1>1 DEF Flushed
  <2>2. CASE f \in Range(version[l]) /\ g \in Range(version[l])
    BY <1>2, <2>2 DEF KeysDisjoint, KeysDisjointIn
  <2>3. imm # {} /\ l = level => \A h \in Range(version[l]) : Clear(h, file) /\ Clear(file, h)
    <3>1. l \in 0..l
      BY LevelsAssumption DEF Levels
    <3>2. QED
      BY <1>1, <3>1 DEF Clear
  <2>4. QED
    BY <1>2, <2>1, <2>2, <2>3
<1>3. QED
  BY <1>2 DEF KeysDisjointIn

LEMMA SingleNext ==
  ASSUME CompactionInv, ApartInv, scenario.snapshots = 0 => AboveInv, SingleInv, [Next]_vars
  PROVE  SingleInv'
<1>0. scenario' = scenario
  BY DEF Next, vars, RangeSteps, Background, Write, SwitchMemTable, GetSnapshot, NewIterator,
         ReleaseSnapshot, CloseIterator, ChargeSeek, CompactRange, RangeSwitches, RangeFlushed,
         RangeClaims, RangeAborts, Flush, CompactPicked, ManualDone, CompactManual, WriteOutput,
         InstallCompactionResults, FlushFails, CompactionFails
<1> SUFFICES ASSUME scenario.snapshots = 0, AboveInv, snapshots = {}, KeysDisjoint,
                    bg.at = "merge" => \A e, d \in Made : e[1] = d[1] => e = d
             PROVE  /\ snapshots' = {} /\ KeysDisjointIn(version')
                    /\ bg'.at = "merge" => (\A e, d \in Made : e[1] = d[1] => e = d)'
  BY <1>0 DEF SingleInv, KeysDisjoint
<1>1. snapshots' = {}
  <2>1. ~GetSnapshot
    BY FS_EmptySet DEF GetSnapshot
  <2>2. ~\E s \in snapshots : ReleaseSnapshot(s)
    OBVIOUS
  <2>3. QED
    BY <2>1, <2>2
       DEF Next, vars, RangeSteps, Background, Write, SwitchMemTable, NewIterator, CloseIterator,
           ChargeSeek, CompactRange, RangeSwitches, RangeFlushed, RangeClaims, RangeAborts, Flush,
           CompactPicked, ManualDone, CompactManual, WriteOutput, InstallCompactionResults,
           FlushFails, CompactionFails, readVars
<1>2. CASE UNCHANGED <<version, bg>>
  BY <1>1, <1>2 DEF KeysDisjoint, Made
<1>3. CASE Flush
  <2>1. bg' = bg
    BY <1>3 DEF Flush
  <2>2. QED
    BY <1>1, <1>3, <2>1, FlushSingle DEF Made
<1>4. CASE CompactPicked
  <2>1. PICK c \in Picked :
          IF IsTrivialMove(c, scenario.target)
          THEN /\ Install({<<c.level, c.inputs[1][1].number>>}, << <<c.level + 1, c.inputs[1][1]>> >>)
               /\ pointers' = [pointers EXCEPT ![c.level] = c.pointer]
               /\ UNCHANGED bg
          ELSE Work(c, FALSE)
    BY <1>4 DEF CompactPicked
  <2>2. Chosen(version, c) /\ bg.at = "none"
    BY <1>4, PickedChosen DEF ApartInv, CompactPicked
  <2>3. CASE IsTrivialMove(c, scenario.target)
    BY <1>1, <2>1, <2>2, <2>3, MoveSingle
  <2>4. CASE ~IsTrivialMove(c, scenario.target)
    <3>1. Work(c, FALSE) /\ InputsOf(version, c)
      BY <2>1, <2>2, <2>4 DEF Chosen
    <3>2. version' = version
      BY <3>1 DEF Work
    <3>3. QED
      BY <1>1, <3>1, <3>2, WorkSingle DEF KeysDisjoint
  <2>5. QED
    BY <2>3, <2>4
<1>5. CASE CompactManual
  <2>1. PICK c : Chosen(version, c) /\ Work(c, TRUE)
    BY <1>5, ManualChosen DEF AboveInv, ApartInv
  <2>2. InputsOf(version, c) /\ version' = version
    BY <2>1 DEF Chosen, Work
  <2>3. QED
    BY <1>1, <2>1, <2>2, WorkSingle DEF KeysDisjoint
<1>6. CASE WriteOutput
  <2>1. version' = version /\ bg.at = "merge"
    BY <1>6 DEF WriteOutput
  <2>2. QED
    BY <1>1, <1>6, <2>1, MadeSame DEF KeysDisjoint
<1>7. CASE InstallCompactionResults
  <2>1. bg.at = "merge" /\ bg'.at # "merge"
    BY <1>7 DEF InstallCompactionResults, Idle
  <2>2. QED
    BY <1>1, <1>7, <2>1, ResultsSingle
<1>8. CASE CompactionFails
  <2>1. version' = version /\ bg'.at # "merge"
    BY <1>8 DEF CompactionFails, diskVars, Idle
  <2>2. QED
    BY <1>1, <2>1 DEF KeysDisjoint
<1>9. CASE \/ UNCHANGED vars \/ SwitchMemTable \/ GetSnapshot \/ NewIterator \/ FlushFails \/ ManualDone
           \/ \E p \in scenario.puts : Write(p[1], p[2])
           \/ \E s \in snapshots : ReleaseSnapshot(s)
           \/ \E v \in iterators : CloseIterator(v)
           \/ \E k \in Keys : \E s \in snapshots \cup {lastSequence} : ChargeSeek(k, s)
           \/ \E r \in scenario.ranges : CompactRange(r[1], r[2])
           \/ RangeSteps
  <2>1. UNCHANGED <<version, bg>>
    BY <1>9 DEF vars, SwitchMemTable, GetSnapshot, NewIterator, FlushFails, ManualDone, Write,
                ReleaseSnapshot, CloseIterator, ChargeSeek, CompactRange, RangeSteps, RangeSwitches,
                RangeFlushed, RangeClaims, RangeAborts, diskVars
  <2>2. QED
    BY <1>2, <2>1
<1>10. QED
  BY Zenon, <1>3, <1>4, <1>5, <1>6, <1>7, <1>8, <1>9 DEF Next, Background

-----------------------------------------------------------------------------
(* What a read finds *)

\* e is the newest entry of key k in S that sequence s is to see, or None.
Shows(S, k, s, e) ==
  /\ e \in S /\ e[1] = k /\ e[2] <= s
  /\ \A d \in S : d[1] = k /\ d[2] <= s => d[2] <= e[2]
Hides(S, k, s) == \A d \in S : ~(d[1] = k /\ d[2] <= s)
Sees(S, k, s, e) == Shows(S, k, s, e) \/ (e = None /\ Hides(S, k, s))

\* What the caller gets of it.
Value(e) == IF e = None \/ e[3] = "deletion" THEN None ELSE e[2]

LEMMA NoEntry == None \notin Entry
BY NoneAssumption DEF Entry

\* Where there is an entry to see there is a newest.
LEMMA ShowsExists ==
  ASSUME NEW S \in SUBSET Entry, NEW k, NEW s \in Nat, ~Hides(S, k, s)
  PROVE  \E e : Shows(S, k, s, e)
<1> DEFINE seen == {e \in S : e[1] = k /\ e[2] <= s}
           ages == {s - e[2] : e \in seen}
<1>1. \A e \in seen : e \in S /\ e[1] = k /\ e[2] \in Nat /\ e[2] <= s
  BY EntryTypes
<1>2. ages \in SUBSET Nat /\ ages # {}
  BY <1>1 DEF Hides
<1>3. \A e \in seen : s - e[2] \in ages
  OBVIOUS
<1> HIDE DEF ages
<1>4. PICK n \in ages : \A m \in ages : n <= m
  BY <1>2, LeastNumber
<1>5. PICK e \in seen : n = s - e[2]
  BY <1>4 DEF ages
<1>6. \A d \in seen : d[2] <= e[2]
  <2> SUFFICES ASSUME NEW d \in seen PROVE d[2] <= e[2]
    OBVIOUS
  <2>1. s - e[2] <= s - d[2]
    BY <1>3, <1>4, <1>5
  <2>2. d[2] \in Nat /\ e[2] \in Nat
    BY <1>1
  <2>3. QED
    BY <2>1, <2>2
<1>7. QED
  BY <1>5, <1>6 DEF Shows

LEMMA NewestSees ==
  ASSUME NEW S \in SUBSET Entry, NEW k, NEW s \in Nat
  PROVE  Sees(S, k, s, Newest(S, k, s))
<1> DEFINE seen == {e \in S : e[1] = k /\ e[2] <= s}
<1>1. CASE Hides(S, k, s)
  <2>1. seen = {}
    BY <1>1 DEF Hides
  <2>2. Newest(S, k, s) = None
    BY <2>1 DEF Newest
  <2>3. QED
    BY <1>1, <2>2 DEF Sees
<1>2. CASE ~Hides(S, k, s)
  <2>1. \E e \in seen : \A d \in seen : d[2] <= e[2]
    BY <1>2, ShowsExists DEF Shows
  <2>2. Newest(S, k, s) = CHOOSE e \in seen : \A d \in seen : d[2] <= e[2]
    BY <2>1 DEF Newest
  <2> HIDE DEF seen
  <2>3. Newest(S, k, s) \in seen /\ \A d \in seen : d[2] <= Newest(S, k, s)[2]
    BY <2>1, <2>2
  <2>4. QED
    BY <2>3 DEF Sees, Shows, seen
<1>3. QED
  BY <1>1, <1>2

LEMMA SeesNone ==
  ASSUME NEW S \in SUBSET Entry, NEW k, NEW s, NEW e, Sees(S, k, s, e)
  PROVE  e = None <=> Hides(S, k, s)
<1>1. ASSUME Shows(S, k, s, e)
      PROVE  e # None /\ ~Hides(S, k, s)
  BY <1>1, NoEntry DEF Shows, Hides
<1>2. QED
  BY <1>1 DEF Sees

\* It is one, as numbers are.
LEMMA SeesOne ==
  ASSUME NEW S \in SUBSET Entry, \A a, b \in S : a[2] = b[2] => a = b,
         NEW k, NEW s, NEW e, NEW d, Sees(S, k, s, e), Sees(S, k, s, d)
  PROVE  e = d
<1>1. CASE Hides(S, k, s)
  BY <1>1, SeesNone
<1>2. CASE ~Hides(S, k, s)
  <2>1. Shows(S, k, s, e) /\ Shows(S, k, s, d)
    BY <1>2 DEF Sees
  <2>2. e \in S /\ d \in S /\ e[2] <= d[2] /\ d[2] <= e[2]
    BY <2>1 DEF Shows
  <2>3. e[2] \in Nat /\ d[2] \in Nat
    BY <2>2, EntryTypes
  <2>4. QED
    BY <2>2, <2>3
<1>3. QED
  BY <1>1, <1>2

\* What is seen of a newer set is seen of it and an older one together.
LEMMA SeesNewer ==
  ASSUME NEW S \in SUBSET Entry, NEW T \in SUBSET Entry, NEW k, NEW s, NEW e, NEW d,
         \A a \in S, b \in T : a[1] = b[1] => b[2] < a[2],
         Sees(S, k, s, e), Sees(T, k, s, d)
  PROVE  Sees(S \cup T, k, s, IF e = None THEN d ELSE e)
<1>1. CASE e = None
  <2>1. Hides(S, k, s)
    BY <1>1, SeesNone
  <2>2. QED
    BY <1>1, <2>1 DEF Sees, Shows, Hides
<1>2. CASE e # None
  <2>1. Shows(S, k, s, e)
    BY <1>2 DEF Sees
  <2>2. \A b \in T : b[1] = k => b[2] <= e[2]
    <3>1. \A b \in T : b[2] \in Nat
      BY EntryTypes
    <3>2. e[2] \in Nat /\ e \in S /\ e[1] = k
      BY <2>1, EntryTypes DEF Shows
    <3>3. \A b \in T : b[1] = k => b[2] < e[2]
      BY <3>2
    <3>4. QED
      BY <3>1, <3>2, <3>3
  <2>3. QED
    BY <1>2, <2>1, <2>2 DEF Sees, Shows
<1>3. QED
  BY <1>1, <1>2

\* The search of a level gives the only file that may have an entry to see.
LEMMA SearchFinds ==
  ASSUME NEW files \in Seq(File), Ascending(files, InOrder),
         \A f \in Range(files) : Bounded(f),
         \A f, g \in Range(files) : f # g => Apart(f, g) /\ Clear(f, g),
         NEW k \in Int, NEW s \in Nat
  PROVE  /\ FindFile(files, <<k, s>>) \in 1..(Len(files) + 1)
         /\ \A j \in DOMAIN files : \A e \in files[j].entries :
              e[1] = k /\ e[2] <= s => j = FindFile(files, <<k, s>>)
<1> DEFINE target == <<k, s>>
           at == FindFile(files, target)
<1>1. /\ DOMAIN files = 1..Len(files) /\ Len(files) \in Nat
      /\ \A i \in DOMAIN files : files[i] \in File /\ files[i] \in Range(files) /\ Bounded(files[i])
  BY DEF Range
<1>2. \A i \in DOMAIN files :
        /\ FirstKey(files[i]) \in Int /\ LastKey(files[i]) \in Int
        /\ FirstKey(files[i]) <= LastKey(files[i])
        /\ files[i].largest \in Entry /\ files[i].smallest \in Entry
        /\ ~Before(files[i].largest, files[i].smallest)
        /\ files[i].largest[2] \in Nat
  BY <1>1, FileKeys, EntryTypes DEF File, Bounded
<1>3. ASSUME NEW i \in DOMAIN files, NEW j \in DOMAIN files, i < j
      PROVE  LastKey(files[i]) < FirstKey(files[j])
  <2>1. Before(files[i].largest, files[j].smallest)
    BY <1>3, FilesApart
  <2>2. files[i] # files[j]
    BY <1>2, <2>1
  <2>3. Clear(files[i], files[j])
    BY <1>1, <2>2
  <2>4. LastKey(files[i]) <= FirstKey(files[j])
    BY <1>2, <2>1 DEF Before, FirstKey, LastKey
  <2>5. QED
    BY <1>2, <2>3, <2>4 DEF Clear
<1>4. \A i \in DOMAIN files :
        Before(files[i].largest, target) <=> \/ LastKey(files[i]) < k
                                             \/ LastKey(files[i]) = k /\ files[i].largest[2] > s
  BY DEF Before, LastKey, target
<1> HIDE DEF target
<1>5. \A i, j \in 1..Len(files) :
        i < j /\ Before(files[j].largest, target) => Before(files[i].largest, target)
  <2> SUFFICES ASSUME NEW i \in 1..Len(files), NEW j \in 1..Len(files), i < j,
                      Before(files[j].largest, target)
               PROVE  Before(files[i].largest, target)
    OBVIOUS
  <2>1. i \in DOMAIN files /\ j \in DOMAIN files
    BY <1>1
  <2>2. LastKey(files[j]) <= k
    BY <1>2, <1>4, <2>1
  <2>3. LastKey(files[i]) < k
    BY <1>2, <1>3, <2>1, <2>2
  <2>4. QED
    BY <1>4, <2>1, <2>3
<1>6. /\ at \in 1..(Len(files) + 1)
      /\ \A i \in 1..Len(files) : Before(files[i].largest, target) <=> i < at
  BY <1>5, FindFileFacts
<1> HIDE DEF at
<1>7. ASSUME NEW j \in DOMAIN files, NEW e \in files[j].entries, e[1] = k, e[2] <= s
      PROVE  j = at
  <2>1. e \in Entry /\ ~Before(files[j].largest, e) /\ e[2] \in Nat
        /\ FirstKey(files[j]) <= k /\ k <= LastKey(files[j])
    BY <1>1, <1>7, FileKeys, EntryTypes DEF Bounded
  <2>2. ~Before(files[j].largest, target)
    <3>1. LastKey(files[j]) = k => files[j].largest[2] <= e[2]
      BY <1>2, <1>7, <2>1 DEF Before, LastKey
    <3>2. QED
      BY <1>2, <1>4, <1>7, <2>1, <3>1
  <2>3. ~(j < at)
    BY <1>1, <1>6, <2>2
  <2>4. ~(at < j)
    <3> SUFFICES ASSUME at < j PROVE FALSE
      OBVIOUS
    <3>1. at \in DOMAIN files
      BY <1>1, <1>6
    <3>2. ~Before(files[at].largest, target)
      BY <1>1, <1>6, <3>1
    <3>3. LastKey(files[at]) < k
      BY <1>2, <1>3, <2>1, <3>1
    <3>4. QED
      BY <1>4, <3>1, <3>2, <3>3
  <2>5. QED
    BY <1>1, <1>6, <2>3, <2>4
<1>8. QED
  BY <1>6, <1>7 DEF at, target

\* What a file of a level shows when the others have nothing of the key to see or are older.
EntriesIn(files) == UNION {f.entries : f \in files}

\* What a read finds in a level is the newest of it.
LEMMA LevelSees ==
  ASSUME NEW v, VersionSound(v), AllBounded(v), LevelsApart(v), KeysDisjointIn(v), Layered(v),
         NEW b \in Nat, \A f \in Range(v[0]) : f.number <= b,
         NEW l \in Levels, NEW k \in Int, NEW s \in Nat
  PROVE  Sees(EntriesIn(Range(v[l])), k, s, InLevel(v, l, k, s))
<1>1. v[l] \in Seq(File) /\ Ascending(v[l], InOrder) /\ Range(v[l]) \subseteq FilesOf(v)
  BY DEF VersionSound, FilesOf
<1>2. \A f \in Range(v[l]) : f \in File /\ Bounded(f) /\ f.entries \in SUBSET Entry
  <2>1. \A f \in Range(v[l]) : f \in File /\ Bounded(f)
    BY <1>1 DEF AllBounded, Range
  <2>2. \A f \in File : f.entries \in SUBSET Entry
    BY DEF File, EntrySet
  <2>3. QED
    BY <2>1, <2>2
<1>3. \A e : e \in EntriesIn(Range(v[l])) <=> \E f \in Range(v[l]) : e \in f.entries
  BY DEF EntriesIn
<1>4. CASE l = 0
  <2> DEFINE has == {f \in Range(v[0]) : Newest(f.entries, k, s) # None}
             best == CHOOSE f \in has : \A g \in has : g.number <= f.number
  <2>1. InLevel(v, l, k, s) = IF has = {} THEN None ELSE Newest(best.entries, k, s)
    BY <1>4 DEF InLevel
  <2>2. \A f \in Range(v[0]) : Sees(f.entries, k, s, Newest(f.entries, k, s))
    BY <1>2, <1>4, NewestSees
  <2>3. \A f \in Range(v[0]) : f \notin has => Hides(f.entries, k, s)
    BY <1>2, <1>4, <2>2, SeesNone
  <2>4. CASE has = {}
    <3>1. Hides(EntriesIn(Range(v[l])), k, s)
      BY <1>3, <1>4, <2>3, <2>4 DEF Hides
    <3>2. QED
      BY <2>1, <2>4, <3>1 DEF Sees
  <2>5. CASE has # {}
    <3> DEFINE ages == {b - f.number : f \in has}
    <3>1. \A f \in has : f \in Range(v[0]) /\ f.number \in Nat /\ f.number <= b
      BY <1>2, <1>4 DEF File
    <3>2. ages \in SUBSET Nat /\ ages # {} /\ \A f \in has : b - f.number \in ages
      BY <2>5, <3>1
    <3>3. \E f \in has : \A g \in has : g.number <= f.number
      <4>1. PICK n \in ages : \A m \in ages : n <= m
        <5> HIDE DEF ages
        <5> QED
          BY <3>2, LeastNumber
      <4>2. PICK f \in has : n = b - f.number
        BY <4>1
      <4>3. ASSUME NEW g \in has PROVE g.number <= f.number
        <5>1. b - f.number <= b - g.number
          BY <3>2, <4>1, <4>2
        <5>2. f.number \in Nat /\ g.number \in Nat
          BY <3>1
        <5>3. QED
          BY <5>1, <5>2
      <4>4. QED
        BY <4>3
    <3> HIDE DEF has, ages
    <3>4. best \in has /\ \A g \in has : g.number <= best.number
      BY <3>3
    <3> HIDE DEF best
    <3> DEFINE e == Newest(best.entries, k, s)
    <3>5. e # None /\ best \in Range(v[0])
      BY <3>4 DEF has
    <3>6. Shows(best.entries, k, s, e)
      BY <2>2, <3>5 DEF Sees
    <3> HIDE DEF e
    <3>7. ASSUME NEW g \in Range(v[0]), NEW d \in g.entries, d[1] = k, d[2] <= s
          PROVE  d[2] <= e[2]
      <4>1. g \in has
        BY <2>3, <3>7 DEF Hides
      <4>2. CASE g = best
        BY <3>6, <3>7, <4>2 DEF Shows
      <4>3. CASE g # best
        <5>1. g.number # best.number
          BY <1>4, <3>5, <4>3 DEF VersionSound
        <5>2. best.number > g.number
          BY <3>1, <3>4, <4>1, <5>1
        <5>3. Newer(best.entries, g.entries)
          BY <3>5, <5>2 DEF Layered
        <5>4. e \in best.entries /\ e[1] = k
          BY <3>6 DEF Shows
        <5>5. e[2] > d[2]
          BY <3>7, <5>3, <5>4 DEF Newer
        <5>6. e[2] \in Nat /\ d[2] \in Nat
          BY <1>2, <1>4, <3>5, <5>4, EntryTypes
        <5>7. QED
          BY <5>5, <5>6
      <4>4. QED
        BY <4>2, <4>3
    <3>8. Shows(EntriesIn(Range(v[l])), k, s, e)
      BY <1>3, <1>4, <3>5, <3>6, <3>7 DEF Shows
    <3>9. QED
      BY <2>1, <2>5, <3>8 DEF Sees, e
  <2>6. QED
    BY <2>4, <2>5
<1>5. CASE l # 0
  <2> DEFINE files == v[l]
             at == FindFile(files, <<k, s>>)
  <2>1. InLevel(v, l, k, s) = IF at > Len(files) THEN None ELSE Newest(files[at].entries, k, s)
    BY <1>5 DEF InLevel
  <2>2. \A f, g \in Range(files) : f # g => Apart(f, g) /\ Clear(f, g)
    BY <1>5 DEF LevelsApart, KeysDisjointIn
  <2>3. files \in Seq(File) /\ Ascending(files, InOrder) /\ \A f \in Range(files) : Bounded(f)
    BY <1>1, <1>2
  <2> HIDE DEF files
  <2>4. /\ at \in 1..(Len(files) + 1) /\ Len(files) \in Nat /\ DOMAIN files = 1..Len(files)
        /\ \A j \in DOMAIN files : \A e \in files[j].entries : e[1] = k /\ e[2] <= s => j = at
    BY <2>2, <2>3, SearchFinds
  <2> HIDE DEF at
  <2>5. \A e : e \in EntriesIn(Range(v[l])) <=> \E j \in DOMAIN files : e \in files[j].entries
    BY <1>3 DEF Range, files
  <2>6. CASE at > Len(files)
    <3>1. Hides(EntriesIn(Range(v[l])), k, s)
      BY <2>4, <2>5, <2>6 DEF Hides
    <3>2. QED
      BY <2>1, <2>6, <3>1 DEF Sees
  <2>7. CASE at <= Len(files)
    <3>1. at \in DOMAIN files /\ files[at].entries \in SUBSET Entry
      <4>1. at \in DOMAIN files
        BY <2>4, <2>7
      <4>2. files[at] \in Range(v[l])
        BY <4>1 DEF Range, files
      <4>3. QED
        BY <1>2, <4>1, <4>2
    <3>2. Sees(files[at].entries, k, s, Newest(files[at].entries, k, s))
      BY <3>1, NewestSees
    <3>3. \A e : e \in EntriesIn(Range(v[l])) /\ e[1] = k /\ e[2] <= s
                   <=> e \in files[at].entries /\ e[1] = k /\ e[2] <= s
      BY <2>4, <2>5, <3>1
    <3>4. InLevel(v, l, k, s) = Newest(files[at].entries, k, s)
      BY <2>1, <2>4, <2>7
    <3>5. QED
      BY <3>2, <3>3, <3>4 DEF Sees, Shows, Hides
  <2>8. QED
    BY <2>4, <2>6, <2>7
<1>6. QED
  BY <1>4, <1>5

\* A version's first level that has an entry to see has the newest: what Get stops at.
LEMMA GetSees ==
  ASSUME NEW v, VersionSound(v), AllBounded(v), LevelsApart(v), KeysDisjointIn(v), Layered(v),
         NEW b \in Nat, \A f \in Range(v[0]) : f.number <= b,
         NEW k \in Int, NEW s \in Nat
  PROVE  Sees(EntriesOf(v), k, s, Get(v, k, s))
<1> DEFINE found == {l \in Levels : v[l] # <<>> /\ InLevel(v, l, k, s) # None}
           In(l) == EntriesIn(Range(v[l]))
<1>1. \A l \in Levels : Sees(In(l), k, s, InLevel(v, l, k, s))
  BY LevelSees
<1>2. \A e : e \in EntriesOf(v) <=> \E l \in Levels : e \in In(l)
  BY DEF EntriesOf, FilesOf, EntriesIn
<1>3. \A l \in Levels : In(l) \in SUBSET Entry
  <2>1. \A l \in Levels : \A f \in Range(v[l]) : f \in File
    BY DEF VersionSound, Range
  <2>2. \A f \in File : f.entries \subseteq Entry
    BY DEF File, EntrySet
  <2>3. QED
    BY <2>1, <2>2 DEF EntriesIn
<1>4. \A l \in Levels : l \notin found => Hides(In(l), k, s)
  <2> SUFFICES ASSUME NEW l \in Levels, l \notin found PROVE Hides(In(l), k, s)
    OBVIOUS
  <2>1. CASE v[l] = <<>>
    <3>1. In(l) = {}
      BY <2>1 DEF EntriesIn, Range
    <3>2. QED
      BY <3>1 DEF Hides
  <2>2. CASE InLevel(v, l, k, s) = None
    BY <1>1, <1>3, <2>2, SeesNone
  <2>3. QED
    BY <2>1, <2>2
<1>5. Get(v, k, s) = IF found = {} THEN None ELSE InLevel(v, Min(found), k, s)
  BY DEF Get
<1>6. CASE found = {}
  <2>1. Hides(EntriesOf(v), k, s)
    BY <1>2, <1>4, <1>6 DEF Hides
  <2>2. QED
    BY <1>5, <1>6, <2>1 DEF Sees
<1>7. CASE found # {}
  <2>1. found \in SUBSET Nat /\ found \subseteq Levels
    BY LevelsAssumption DEF Levels
  <2>2. \A l \in found : InLevel(v, l, k, s) # None
    OBVIOUS
  <2> HIDE DEF found, In
  <2>3. \E n \in found : \A m \in found : n <= m
    BY <1>7, <2>1, LeastNumber
  <2> DEFINE least == Min(found)
             e == InLevel(v, least, k, s)
  <2>4. least \in found /\ \A m \in found : least <= m
    BY <2>3 DEF Min
  <2> HIDE DEF least
  <2>5. least \in Levels /\ e # None /\ Shows(In(least), k, s, e)
    BY <1>1, <2>1, <2>2, <2>4 DEF Sees
  <2> HIDE DEF e
  <2>6. ASSUME NEW l \in Levels, NEW d \in In(l), d[1] = k, d[2] <= s
        PROVE  d[2] <= e[2]
    <3>1. l \in found
      BY <1>4, <2>6 DEF Hides
    <3>2. CASE l = least
      BY <2>5, <2>6, <3>2 DEF Shows
    <3>3. CASE l # least
      <4>1. least < l
        BY <2>1, <2>4, <3>1, <3>3
      <4>2. e \in In(least) /\ e[1] = k
        BY <2>5 DEF Shows
      <4>3. PICK f \in Range(v[least]) : e \in f.entries
        BY <4>2 DEF In, EntriesIn
      <4>4. PICK g \in Range(v[l]) : d \in g.entries
        BY <2>6 DEF In, EntriesIn
      <4>5. e[2] > d[2]
        BY <2>5, <2>6, <4>1, <4>2, <4>3, <4>4 DEF Layered, Newer
      <4>6. e[2] \in Nat /\ d[2] \in Nat
        BY <1>3, <2>5, <2>6, <4>2, EntryTypes
      <4>7. QED
        BY <4>5, <4>6
    <3>4. QED
      BY <3>2, <3>3
  <2>7. Shows(EntriesOf(v), k, s, e)
    BY <1>2, <2>5, <2>6 DEF Shows
  <2>8. QED
    BY <1>5, <1>7, <2>7 DEF Sees, e, least
<1>8. QED
  BY <1>6, <1>7

\* DBImpl::Get gives the newest entry of all that is recorded.
LEMMA ReadSees ==
  ASSUME CompactionInv, ApartInv, AboveInv, KeysDisjoint, NEW k \in Keys, NEW s \in Nat
  PROVE  Sees(Recorded, k, s, Read(k, s))
<1>1. VersionSound(version) /\ AllBounded(version) /\ LevelsApart(version)
      /\ KeysDisjointIn(version) /\ Layered(version)
  BY DEF CompactionInv, ApartInv, AboveInv, KeysDisjoint
<1>2. nextFile \in Nat /\ \A f \in Range(version[0]) : f.number <= nextFile
  <2>1. nextFile \in Nat /\ \A n \in TablesOf(version) : n < nextFile
    BY DEF CompactionInv, MemTables
  <2>2. 0 \in Levels
    BY LevelsAssumption DEF Levels
  <2>3. \A f \in Range(version[0]) : f.number \in Nat /\ f.number \in TablesOf(version)
    BY <2>2, VersionFiles DEF TablesOf, File
  <2>4. QED
    BY <2>1, <2>3
<1>3. k \in Int
  BY ScenarioAssumption
<1>4. Sees(EntriesOf(version), k, s, Get(version, k, s))
  BY <1>1, <1>2, <1>3, GetSees
<1>5. /\ mem \in SUBSET Entry /\ Waiting \in SUBSET Entry /\ EntriesOf(version) \in SUBSET Entry
      /\ Recorded = mem \cup (Waiting \cup EntriesOf(version))
  <2>1. Recorded = mem \cup (Waiting \cup EntriesOf(version))
    BY DEF Recorded, Waiting
  <2>2. Recorded \subseteq Entry
    BY RecordedNumbers DEF ApartInv
  <2>3. QED
    BY <2>1, <2>2
<1> DEFINE ofImm == Newest(Waiting, k, s)
           ofMem == Newest(mem, k, s)
           below == IF ofImm = None THEN Get(version, k, s) ELSE ofImm
<1>6. Sees(mem, k, s, ofMem) /\ Sees(Waiting, k, s, ofImm)
  BY <1>5, NewestSees
<1>7. Sees(Waiting \cup EntriesOf(version), k, s, below)
  <2>1. \A a \in Waiting, d \in EntriesOf(version) : a[1] = d[1] => d[2] < a[2]
    BY DEF AboveInv, Aged
  <2>2. QED
    BY <1>4, <1>5, <1>6, <2>1, SeesNewer
<1>8. Sees(mem \cup (Waiting \cup EntriesOf(version)), k, s, IF ofMem = None THEN below ELSE ofMem)
  <2>1. \A a \in mem, d \in Waiting \cup EntriesOf(version) : a[1] = d[1] => d[2] < a[2]
    BY DEF AboveInv, Aged
  <2>2. Waiting \cup EntriesOf(version) \in SUBSET Entry
    BY <1>5
  <2> HIDE DEF below, ofMem
  <2>3. QED
    BY <1>5, <1>6, <1>7, <2>1, <2>2, SeesNewer
<1>9. Read(k, s) = IF ofMem = None THEN below ELSE ofMem
  <2>1. imm = None => ofImm = None
    <3>1. Newest({}, k, s) = None
      BY DEF Newest
    <3>2. QED
      BY <3>1 DEF Waiting
  <2>2. imm # None => ofImm = Newest(imm, k, s)
    BY DEF Waiting
  <2>3. Read(k, s) = IF Newest(mem, k, s) # None THEN Newest(mem, k, s)
                     ELSE IF imm # None /\ Newest(imm, k, s) # None THEN Newest(imm, k, s)
                     ELSE Get(version, k, s)
    BY DEF Read
  <2> HIDE DEF ofImm
  <2>4. QED
    BY <2>1, <2>2, <2>3
<1>10. QED
  BY <1>5, <1>8, <1>9

-----------------------------------------------------------------------------
(* What readers were promised *)

Readers == snapshots \cup {lastSequence}

\* What a merge drops, no reader misses: there is a newer entry that all see, or it is a
\* deletion, and all that stays of its key is newer.
MergeShows ==
  \A e \in InputEntries(bg) \ Made :
    \/ \E d \in InputEntries(bg) : d[1] = e[1] /\ e[2] < d[2] /\ \A s \in Readers : d[2] <= s
    \/ /\ e[3] = "deletion"
       /\ \A d \in Made : d[1] = e[1] => d[2] > e[2]
       /\ \A l \in (bg.level + 2)..(NumLevels - 1) : \A f \in Range(version[l]) :
            \A d \in f.entries : d[1] = e[1] => d[2] > e[2]

\* All that a reader of sequence s may see of key k in S comes to x.
Tells(S, k, s, x) == \A e : Sees(S, k, s, e) => Value(e) = x

Promises ==
  /\ snapshots \in SUBSET Nat /\ \A s \in snapshots : s <= lastSequence
  /\ DOMAIN latest = Keys /\ DOMAIN frozen = snapshots
  /\ \A k \in Keys : Tells(Recorded, k, lastSequence, latest[k])
  /\ \A s \in snapshots : \A k \in Keys : Tells(Recorded, k, s, frozen[s][k])

ReadInv == Promises /\ (bg.at = "merge" => MergeShows)

LEMMA SamePromises ==
  ASSUME Promises, UNCHANGED <<snapshots, lastSequence, promised>>,
         \A k \in Keys : \A s \in Readers : \A x : Tells(Recorded, k, s, x) => Tells(Recorded', k, s, x)
  PROVE  Promises'
<1>1. UNCHANGED <<snapshots, lastSequence, latest, frozen>>
  BY DEF promised
<1>2. \A k \in Keys : Tells(Recorded', k, lastSequence, latest[k])
  BY DEF Promises, Readers
<1>3. \A s \in snapshots : \A k \in Keys : Tells(Recorded', k, s, frozen[s][k])
  BY DEF Promises, Readers
<1>4. QED
  BY <1>1, <1>2, <1>3 DEF Promises

LEMMA SameRecorded ==
  ASSUME Promises, UNCHANGED <<snapshots, lastSequence, promised>>, Recorded' = Recorded
  PROVE  Promises'
BY SamePromises

\* A merge under way stays as it is, and its readers at least see what they saw.
LEMMA SameShows ==
  ASSUME CompactionInv, ApartInv, bg.at = "merge", Promises, MergeShows, Made' = Made, bg'.level = bg.level, bg'.inputs = bg.inputs,
         version' = version,
         snapshots' \subseteq Readers, lastSequence' = lastSequence \/ lastSequence' = lastSequence + 1
  PROVE  MergeShows'
<1>1. InputEntries(bg)' = InputEntries(bg)
  BY DEF InputEntries
<1>2. \A n \in Nat : (\A s \in Readers : n <= s) => (\A s \in Readers' : n <= s)
  BY DEF Readers, CompactionInv, MemTables
<1>3. ASSUME NEW e \in InputEntries(bg) \ Made
      PROVE  \/ \E d \in InputEntries(bg) : d[1] = e[1] /\ e[2] < d[2] /\ \A s \in Readers' : d[2] <= s
             \/ /\ e[3] = "deletion"
                /\ \A d \in Made : d[1] = e[1] => d[2] > e[2]
                /\ \A l \in (bg.level + 2)..(NumLevels - 1) : \A f \in Range(version[l]) :
                     \A d \in f.entries : d[1] = e[1] => d[2] > e[2]
  <2>1. \A d \in InputEntries(bg) : d[2] \in Nat
    BY InputEntriesFacts, EntryTypes DEF ApartInv, MergeApart
  <2>2. \A d \in InputEntries(bg) : (\A s \in Readers : d[2] <= s) => (\A s \in Readers' : d[2] <= s)
    BY <1>2, <2>1
  <2>3. QED
    BY <1>3, <2>2 DEF MergeShows
<1>4. QED
  BY <1>1, <1>3 DEF MergeShows

LEMMA WriteTells ==
  ASSUME CompactionInv, ApartInv, Promises, NEW p \in scenario.puts, Write(p[1], p[2])
  PROVE  Promises'
<1> DEFINE x == <<p[1], lastSequence + 1, p[2]>>
           new == IF p[2] = "value" THEN lastSequence + 1 ELSE None
<1>1. /\ lastSequence' = lastSequence + 1 /\ mem' = mem \cup {x}
      /\ latest' = [latest EXCEPT ![p[1]] = new] /\ frozen' = frozen
      /\ UNCHANGED <<imm, version, snapshots>>
  BY DEF Write, Promise!Write, diskVars
<1>2. lastSequence \in Nat
  BY DEF CompactionInv, MemTables
<1>3. \A d \in Recorded : d[2] \in Nat /\ d[2] <= lastSequence
  BY RecordedNumbers, EntryTypes DEF ApartInv, Numbered
<1>4. /\ p[1] \in Keys /\ p[2] \in {"value", "deletion"}
  <2>1. scenario \in Scenarios
    BY DEF CompactionInv, MemTables
  <2>2. scenario.puts \subseteq Keys \X {"value", "deletion"}
    BY Zenon, <2>1, ScenarioAssumption
  <2>3. QED
    BY <2>2
<1>5. x[1] = p[1] /\ x[2] = lastSequence + 1 /\ x[3] = p[2] /\ x \in Entry
  BY <1>2, <1>4 DEF Entry
<1>6. Value(x) = new
  <2>1. x # None
    BY <1>5, NoEntry
  <2> HIDE DEF x
  <2>2. QED
    BY <1>4, <1>5, <2>1 DEF Value
<1> HIDE DEF x, new
<1>7. Recorded' = Recorded \cup {x}
  BY <1>1 DEF Recorded
<1>8. \A k : \A s \in snapshots : \A e : Sees(Recorded', k, s, e) => Sees(Recorded, k, s, e)
  <2>1. \A s \in snapshots : ~(x[2] <= s)
    BY <1>2, <1>5 DEF Promises
  <2>2. QED
    BY <1>7, <2>1 DEF Sees, Shows, Hides
<1>9. ASSUME NEW k \in Keys, NEW e, Sees(Recorded', k, lastSequence + 1, e)
      PROVE  Value(e) = latest'[k]
  <2>1. CASE k = p[1]
    <3>1. Shows(Recorded', k, lastSequence + 1, e)
      <4>1. ~Hides(Recorded', k, lastSequence + 1)
        BY <1>2, <1>5, <1>7, <2>1 DEF Hides
      <4>2. QED
        BY <1>9, <4>1 DEF Sees
    <3>2. x[2] <= e[2]
      BY <1>2, <1>5, <1>7, <2>1, <3>1 DEF Shows
    <3>3. e = x
      BY <1>2, <1>3, <1>5, <1>7, <3>1, <3>2 DEF Shows
    <3>4. latest'[k] = new
      BY <1>1, <1>4, <2>1 DEF Promises
    <3>5. QED
      BY <1>6, <3>3, <3>4
  <2>2. CASE k # p[1]
    <3>1. latest'[k] = latest[k]
      BY <1>1, <1>9, <2>2 DEF Promises
    <3>2. \A d \in Recorded : d[2] <= lastSequence + 1
      BY <1>2, <1>3
    <3>3. Sees(Recorded, k, lastSequence, e)
      BY <1>3, <1>5, <1>7, <1>9, <2>2, <3>2 DEF Sees, Shows, Hides
    <3>4. QED
      BY <1>9, <3>1, <3>3 DEF Promises, Tells
  <2>3. QED
    BY <2>1, <2>2
<1>10. \A k \in Keys : Tells(Recorded', k, lastSequence', latest'[k])
  BY <1>1, <1>9 DEF Tells
<1>11. \A s \in snapshots : \A k \in Keys : Tells(Recorded', k, s, frozen[s][k])
  BY <1>8 DEF Promises, Tells
<1>12. DOMAIN latest' = Keys /\ \A s \in snapshots : s <= lastSequence'
  BY <1>1, <1>2 DEF Promises
<1>13. QED
  BY <1>1, <1>10, <1>11, <1>12 DEF Promises

LEMMA SnapshotTells ==
  ASSUME CompactionInv, Promises,
         GetSnapshot \/ \E s \in snapshots : ReleaseSnapshot(s)
  PROVE  Promises'
<1>1. UNCHANGED <<mem, imm, version, lastSequence>> /\ lastSequence \in Nat
  BY DEF GetSnapshot, ReleaseSnapshot, memVars, diskVars, CompactionInv, MemTables
<1>2. Recorded' = Recorded
  BY <1>1 DEF Recorded
<1>3. CASE GetSnapshot
  <2>1. /\ snapshots' = snapshots \cup {lastSequence} /\ latest' = latest
        /\ frozen' = [t \in DOMAIN frozen \cup {lastSequence} |->
                        IF t = lastSequence THEN latest ELSE frozen[t]]
    BY <1>3 DEF GetSnapshot, Promise!Take
  <2>2. /\ DOMAIN frozen' = snapshots'
        /\ \A s \in snapshots' : frozen'[s] = IF s = lastSequence THEN latest ELSE frozen[s]
    BY <2>1 DEF Promises
  <2>3. \A s \in snapshots' : \A k \in Keys : Tells(Recorded', k, s, frozen'[s][k])
    BY <1>2, <2>1, <2>2 DEF Promises
  <2>4. snapshots' \in SUBSET Nat /\ \A s \in snapshots' : s <= lastSequence
    BY <1>1, <2>1 DEF Promises
  <2>5. QED
    BY <1>1, <1>2, <2>1, <2>2, <2>3, <2>4 DEF Promises
<1>4. CASE \E s \in snapshots : ReleaseSnapshot(s)
  <2>1. PICK s \in snapshots : /\ snapshots' = snapshots \ {s} /\ latest' = latest
                               /\ frozen' = [t \in DOMAIN frozen \ {s} |-> frozen[t]]
    BY <1>4 DEF ReleaseSnapshot, Promise!Release
  <2>2. DOMAIN frozen' = snapshots' /\ \A t \in snapshots' : frozen'[t] = frozen[t]
    BY <2>1 DEF Promises
  <2>3. QED
    BY <1>1, <1>2, <2>1, <2>2 DEF Promises
<1>5. QED
  BY <1>3, <1>4

LEMMA SwitchTells ==
  ASSUME CompactionInv, None \notin SUBSET Entry, Promises, SwitchMemTable \/ RangeSwitches
  PROVE  Promises'
<1>1. /\ imm = None /\ imm' = mem /\ mem' = {}
      /\ UNCHANGED <<version, snapshots, lastSequence, promised>>
  BY DEF SwitchMemTable, RangeSwitches, readVars, diskVars
<1>2. mem # None
  BY DEF CompactionInv, MemTables, EntrySet
<1>3. Recorded' = Recorded
  BY <1>1, <1>2 DEF Recorded
<1>4. QED
  BY <1>1, <1>3, SameRecorded

LEMMA FlushTells ==
  ASSUME CompactionInv, ApartInv, Promises, Flush
  PROVE  Promises'
<1> DEFINE file == Table(nextFile, imm)
           level == PickLevelForMemTableOutput(version, FirstKey(file), LastKey(file), scenario.target)
<1>1. /\ imm # None /\ imm' = None /\ UNCHANGED <<mem, lastSequence, snapshots, promised>>
  BY DEF Flush, readVars
<1>2. /\ \A l \in Levels : Range(version'[l]) = Range(version[l]) \cup Flushed(l, level, file)
      /\ imm # {} => file.entries = imm
      /\ level \in Levels
  BY FlushPlaces
<1> HIDE DEF file, level
<1>3. \A e : e \in EntriesOf(version') <=> \E l \in Levels : \E f \in Range(version'[l]) : e \in f.entries
  BY DEF EntriesOf, FilesOf
<1>4. \A e : e \in EntriesOf(version) <=> \E l \in Levels : \E f \in Range(version[l]) : e \in f.entries
  BY DEF EntriesOf, FilesOf
<1>5. \A e : e \in EntriesOf(version') <=> e \in EntriesOf(version) \cup imm
  <2>1. CASE imm = {}
    BY <1>2, <1>3, <1>4, <2>1 DEF Flushed
  <2>2. CASE imm # {}
    <3>1. \A l \in Levels : \A f : f \in Range(version'[l])
                                     <=> f \in Range(version[l]) \/ (f = file /\ l = level)
      BY <1>2, <2>2 DEF Flushed
    <3>2. QED
      BY <1>2, <1>3, <1>4, <2>2, <3>1
  <2>3. QED
    BY <2>1, <2>2
<1>6. Recorded' = Recorded
  BY <1>1, <1>5 DEF Recorded
<1>7. QED
  BY <1>1, <1>6, SameRecorded

LEMMA MoveTells ==
  ASSUME CompactionInv, Promises, NEW c, InputsOf(version, c), IsTrivialMove(c, scenario.target),
         Install({<<c.level, c.inputs[1][1].number>>}, << <<c.level + 1, c.inputs[1][1]>> >>),
         UNCHANGED <<memVars, readVars>>
  PROVE  Promises'
<1> DEFINE file == c.inputs[1][1]
<1>1. /\ file \in Range(version[c.level])
      /\ \A l \in Levels :
           Range(version'[l]) = {f \in Range(version[l]) : <<l, f.number>> # <<c.level, file.number>>}
                                  \cup {f \in {file} : l = c.level + 1}
  BY MovePlaces
<1>2. c.level \in Levels /\ c.level + 1 \in Levels
  BY DEF InputsOf
<1> HIDE DEF file
<1>3. \A l \in Levels : \A f \in Range(version[l]) :
        <<l, f.number>> = <<c.level, file.number>> => f = file
  BY <1>1, <1>2 DEF CompactionInv, VersionSound
<1>4. \A f : f \in FilesOf(version') <=> f \in FilesOf(version)
  <2>1. \A f \in FilesOf(version') : f \in FilesOf(version)
    BY <1>1, <1>2 DEF FilesOf
  <2>2. file \in FilesOf(version')
    BY <1>1, <1>2 DEF FilesOf
  <2>3. \A f \in FilesOf(version) : f \in FilesOf(version')
    <3> SUFFICES ASSUME NEW l \in Levels, NEW f \in Range(version[l]) PROVE f \in FilesOf(version')
      BY DEF FilesOf
    <3>1. CASE f = file
      BY <2>2, <3>1
    <3>2. CASE f # file
      <4>1. f \in Range(version'[l])
        BY <1>1, <1>3, <3>2
      <4>2. QED
        BY <4>1 DEF FilesOf
    <3>3. QED
      BY <3>1, <3>2
  <2>4. QED
    BY <2>1, <2>3
<1>5. FilesOf(version)' = FilesOf(version)
  BY <1>4
<1>6. Recorded' = Recorded
  BY <1>5 DEF Recorded, EntriesOf, memVars
<1>7. UNCHANGED <<snapshots, lastSequence, promised>>
  BY DEF readVars, memVars
<1>8. QED
  BY <1>6, <1>7, SameRecorded

\* A table that is flushed meanwhile is newer than what the merge reads.
LEMMA FlushShows ==
  ASSUME CompactionInv, ApartInv, AboveInv, bg.at = "merge", MergeShows, Flush
  PROVE  MergeShows'
<1> DEFINE file == Table(nextFile, imm)
           level == PickLevelForMemTableOutput(version, FirstKey(file), LastKey(file), scenario.target)
<1>1. /\ imm # None /\ UNCHANGED <<lastSequence, snapshots, bg>>
  BY DEF Flush, readVars
<1>2. /\ \A l \in Levels : Range(version'[l]) = Range(version[l]) \cup Flushed(l, level, file)
      /\ imm # {} => file.entries = imm
  BY FlushPlaces
<1> HIDE DEF file, level
<1>3. Made' = Made /\ InputEntries(bg)' = InputEntries(bg) /\ Readers' = Readers
  BY <1>1 DEF Made, InputEntries, Readers
<1>4. \A d \in imm, e \in InputEntries(bg) : d[2] > e[2]
  <2>1. InputEntries(bg) \subseteq EntriesOf(version)
    BY InputsRecorded DEF ApartInv, MergeApart
  <2>2. \A d \in imm : \A e \in EntriesOf(version) : e[2] < d[2]
    BY <1>1 DEF AboveInv, Aged, Waiting
  <2>3. \A d \in imm, e \in EntriesOf(version) : e[2] \in Nat /\ d[2] \in Nat
    BY <1>1, RecordedNumbers, EntryTypes DEF ApartInv, Recorded
  <2>4. QED
    BY <2>1, <2>2, <2>3
<1>5. ASSUME NEW e \in InputEntries(bg),
             NEW l \in (bg.level + 2)..(NumLevels - 1), NEW f \in Range(version'[l]), NEW d \in f.entries,
             d[1] = e[1],
             \A g \in Range(version[l]) : \A b \in g.entries : b[1] = e[1] => b[2] > e[2]
      PROVE  d[2] > e[2]
  <2>1. l \in Levels
    BY LevelsAssumption DEF ApartInv, MergeApart, InputsOf, Levels
  <2>2. f \in Range(version[l]) \/ (imm # {} /\ f = file)
    BY <1>2, <2>1 DEF Flushed
  <2>3. QED
    BY <1>2, <1>4, <1>5, <2>2
<1>6. ASSUME NEW e \in InputEntries(bg) \ Made
      PROVE  \/ \E d \in InputEntries(bg) : d[1] = e[1] /\ e[2] < d[2] /\ \A s \in Readers : d[2] <= s
             \/ /\ e[3] = "deletion"
                /\ \A d \in Made : d[1] = e[1] => d[2] > e[2]
                /\ \A l \in (bg.level + 2)..(NumLevels - 1) : \A f \in Range(version'[l]) :
                     \A d \in f.entries : d[1] = e[1] => d[2] > e[2]
  BY <1>5, <1>6 DEF MergeShows
<1>7. QED
  BY <1>1, <1>3, <1>6 DEF MergeShows

\* No reader is older than the oldest snapshot.
LEMMA OldestFirst ==
  ASSUME CompactionInv, Promises
  PROVE  OldestSnapshot \in Nat /\ \A s \in Readers : OldestSnapshot <= s
<1>1. lastSequence \in Nat /\ snapshots \in SUBSET Nat /\ \A s \in snapshots : s <= lastSequence
  BY DEF CompactionInv, MemTables, Promises
<1>2. CASE snapshots = {}
  BY <1>1, <1>2 DEF OldestSnapshot, Readers
<1>3. CASE snapshots # {}
  <2>1. \E n \in snapshots : \A m \in snapshots : n <= m
    BY <1>1, <1>3, LeastNumber
  <2>2. Min(snapshots) \in snapshots /\ \A m \in snapshots : Min(snapshots) <= m
    BY <2>1 DEF Min
  <2>3. OldestSnapshot = Min(snapshots)
    BY <1>3 DEF OldestSnapshot
  <2> HIDE DEF OldestSnapshot
  <2>4. OldestSnapshot \in Nat /\ OldestSnapshot <= lastSequence
    BY <1>1, <2>2, <2>3
  <2>5. QED
    BY <2>2, <2>3, <2>4 DEF Readers
<1>4. QED
  BY <1>2, <1>3

\* What a merge that begins is to drop.
LEMMA WorkShows ==
  ASSUME CompactionInv, ApartInv, Promises, NEW c, InputsOf(version, c), NEW m, Work(c, m),
         UNCHANGED <<snapshots, lastSequence>>
  PROVE  MergeShows'
<1> DEFINE all == InputEntries(c)
           kept == Kept(version, c, OldestSnapshot)
<1>1. bg'.level = c.level /\ bg'.inputs = c.inputs /\ version' = version /\ Made' = kept
  BY WorkMakes
<1>2. InputEntries(bg)' = all /\ Readers' = Readers
  BY <1>1 DEF InputEntries, Readers
<1>3. all \subseteq Recorded
  BY InputsRecorded DEF ApartInv, Recorded
<1>4. /\ \A e \in all : e[1] \in Int /\ e[2] \in Nat
      /\ \A e, d \in all : e[2] = d[2] => e = d
  BY <1>3, RecordedNumbers, EntryTypes DEF ApartInv, Numbered
<1>5. OldestSnapshot \in Nat /\ \A s \in Readers : s \in Nat /\ OldestSnapshot <= s
  BY OldestFirst DEF Promises, Readers, CompactionInv, MemTables
<1> DEFINE hidden(e) == \E d \in all : d[1] = e[1] /\ e[2] < d[2] /\ d[2] <= OldestSnapshot
           obsolete(e) == /\ e[3] = "deletion" /\ e[2] <= OldestSnapshot
                          /\ IsBaseLevelForKey(version, c.level, e[1])
<1>6. kept = {e \in all : ~hidden(e) /\ ~obsolete(e)}
  BY DEF Kept
<1>7. ASSUME NEW e \in all, hidden(e)
      PROVE  \E d \in all : d[1] = e[1] /\ e[2] < d[2] /\ \A s \in Readers : d[2] <= s
  <2>1. PICK d \in all : d[1] = e[1] /\ e[2] < d[2] /\ d[2] <= OldestSnapshot
    BY <1>7
  <2>2. \A s \in Readers : d[2] <= s
    BY <1>4, <1>5, <2>1
  <2>3. QED
    BY <2>1, <2>2
<1>8. ASSUME NEW e \in all, obsolete(e), NEW d \in kept, d[1] = e[1]
      PROVE  d[2] > e[2]
  <2>1. d \in all /\ ~hidden(d) /\ ~obsolete(d)
    BY <1>6, <1>8
  <2>2. d[2] # e[2]
    BY <1>4, <1>8, <2>1
  <2>3. ~(d[2] < e[2])
    BY <1>8, <2>1
  <2>4. QED
    BY <1>4, <2>1, <2>2, <2>3
<1>9. ASSUME NEW e \in all, obsolete(e), NEW l \in (c.level + 2)..(NumLevels - 1),
             NEW f \in Range(version[l]), NEW d \in f.entries
      PROVE  d[1] # e[1]
  <2>1. l \in Levels
    BY LevelsAssumption DEF InputsOf, Levels
  <2>2. ~(FirstKey(f) <= e[1] /\ e[1] <= LastKey(f))
    BY <1>9 DEF IsBaseLevelForKey
  <2>3. f \in File /\ Bounded(f)
    BY <2>1, VersionFiles
  <2>4. FirstKey(f) <= d[1] /\ d[1] <= LastKey(f)
    BY <2>3, FileKeys
  <2>5. QED
    BY <2>2, <2>4
<1>10. ASSUME NEW e \in all \ kept
       PROVE  \/ \E d \in all : d[1] = e[1] /\ e[2] < d[2] /\ \A s \in Readers : d[2] <= s
              \/ /\ e[3] = "deletion"
                 /\ \A d \in kept : d[1] = e[1] => d[2] > e[2]
                 /\ \A l \in (c.level + 2)..(NumLevels - 1) : \A f \in Range(version[l]) :
                      \A d \in f.entries : d[1] = e[1] => d[2] > e[2]
  <2>1. hidden(e) \/ obsolete(e)
    BY <1>6
  <2>2. CASE hidden(e)
    BY <1>7, <2>2
  <2>3. CASE obsolete(e)
    BY <1>8, <1>9, <2>3
  <2>4. QED
    BY <2>1, <2>2, <2>3
<1> HIDE DEF kept, all
<1>11. QED
  BY <1>1, <1>2, <1>10 DEF MergeShows

\* What is gone when a merge ends was read and not kept.
LEMMA ResultsGone ==
  ASSUME CompactionInv, ApartInv, InstallCompactionResults
  PROVE  /\ Recorded' \subseteq Recorded
         /\ Recorded \ Recorded' \subseteq InputEntries(bg) \ Made
<1>1. bg.at = "merge" /\ bg.todo = <<>> /\ UNCHANGED <<mem, imm>>
  BY DEF InstallCompactionResults, memVars
<1>2. InputsOf(version, bg)
  BY <1>1 DEF ApartInv, MergeApart
<1>3. Recorded' \subseteq Recorded
  <2>1. EntriesOf(version') \subseteq EntriesOf(version)
    BY <1>2, ResultsMerged, MergedEntries
  <2>2. QED
    BY <1>1, <2>1 DEF Recorded
<1>4. Made \subseteq Recorded'
  <2>1. Range(bg.todo) = {}
    BY <1>1 DEF Range
  <2>2. Made = UNION {f.entries : f \in Range(bg.outputs)}
    BY <2>1 DEF Made
  <2>3. \A f \in Range(bg.outputs) : f \in Range(version'[bg.level + 1])
    BY <1>2, ResultPlaces DEF InputsOf
  <2>4. \A f \in Range(bg.outputs) : f \in FilesOf(version')
    BY <1>2, <2>3 DEF FilesOf, InputsOf
  <2>5. QED
    BY <2>2, <2>4 DEF Recorded, EntriesOf
<1>5. ASSUME NEW e \in Recorded, e \notin Recorded'
      PROVE  e \in InputEntries(bg)
  <2>1. e \in EntriesOf(version) /\ e \notin EntriesOf(version')
    BY <1>1, <1>5 DEF Recorded
  <2>2. PICK l \in Levels : \E f \in Range(version[l]) : e \in f.entries
    BY <2>1 DEF EntriesOf, FilesOf
  <2>3. PICK f \in Range(version[l]) : e \in f.entries
    BY <2>2
  <2>4. f \notin Range(version'[l])
    BY <2>1, <2>3 DEF EntriesOf, FilesOf
  <2>5. f \in Range(bg.inputs[1]) \cup Range(bg.inputs[2])
    BY <2>4, ResultPlaces
  <2>6. InputEntries(bg) = UNION {h.entries : h \in Range(bg.inputs[1]) \cup Range(bg.inputs[2])}
    BY <1>2, InputEntriesFacts
  <2>7. QED
    BY <2>3, <2>5, <2>6
<1>6. QED
  BY <1>3, <1>4, <1>5

\* All that stays of the key of a deletion that a merge drops is newer.
LEMMA DeletionDropped ==
  ASSUME CompactionInv, ApartInv, AboveInv, InstallCompactionResults,
         NEW e \in InputEntries(bg),
         \A d \in Made : d[1] = e[1] => d[2] > e[2],
         \A l \in (bg.level + 2)..(NumLevels - 1) : \A f \in Range(version[l]) :
           \A d \in f.entries : d[1] = e[1] => d[2] > e[2]
  PROVE  \A d \in Recorded' : d[1] = e[1] => d[2] > e[2]
<1>1. bg.at = "merge" /\ UNCHANGED <<mem, imm>>
  BY DEF InstallCompactionResults, memVars
<1>2. /\ InputsOf(version, bg) /\ MergeNewer(version, bg) /\ Layered(version)
      /\ bg.level \in Levels /\ bg.level + 1 \in Levels
  BY <1>1 DEF ApartInv, MergeApart, AboveInv, InputsOf
<1>3. PICK n \in {bg.level, bg.level + 1} : \E h \in Range(version[n]) :
        /\ e \in h.entries
        /\ n = bg.level => h \in Range(bg.inputs[1])
        /\ n = bg.level + 1 => h \in Range(bg.inputs[2])
  <2>1. bg.level # bg.level + 1
    BY <1>2, LevelsAssumption DEF Levels
  <2>2. QED
    BY <1>2, <2>1, InputFrom
<1>4. PICK h \in Range(version[n]) :
        /\ e \in h.entries
        /\ n = bg.level => h \in Range(bg.inputs[1])
        /\ n = bg.level + 1 => h \in Range(bg.inputs[2])
  BY <1>3
<1>5. n \in Levels /\ h \in InputFiles(bg)
  BY <1>2, <1>3, <1>4 DEF InputFiles
<1>6. e \in EntriesOf(version)
  BY <1>4, <1>5 DEF EntriesOf, FilesOf
<1>7. ASSUME NEW d \in mem \cup Waiting PROVE d[2] > e[2]
  <2>1. e[2] < d[2]
    BY <1>6, <1>7 DEF AboveInv, Aged
  <2>2. QED
    BY <2>1
<1>8. ASSUME NEW l \in Levels, NEW f \in Range(version'[l]), NEW d \in f.entries, d[1] = e[1]
      PROVE  d[2] > e[2]
  <2>1. CASE f \in Range(bg.outputs)
    BY <1>8, <2>1 DEF Made
  <2>2. CASE f \notin Range(bg.outputs)
    <3>1. /\ f \in Range(version[l])
          /\ l = bg.level => f \notin Range(bg.inputs[1])
          /\ l = bg.level + 1 => f \notin Range(bg.inputs[2])
      BY <1>8, <2>2, ResultPlaces
    <3>2. CASE l < n
      <4>1. Newer(f.entries, h.entries)
        BY <1>2, <1>5, <3>1, <3>2 DEF Layered
      <4>2. QED
        BY <1>4, <1>8, <4>1 DEF Newer
    <3>3. CASE l = bg.level /\ n = bg.level
      <4>1. Newer(f.entries, h.entries)
        BY <1>2, <1>4, <3>1, <3>3 DEF MergeNewer
      <4>2. QED
        BY <1>4, <1>8, <4>1 DEF Newer
    <3>4. CASE l = bg.level + 1
      <4>1. Clear(h, f)
        BY <1>2, <1>5, <3>1, <3>4 DEF MergeNewer
      <4>2. h \in File /\ Bounded(h) /\ f \in File /\ Bounded(f)
        BY <1>5, <3>1, VersionFiles
      <4>3. QED
        BY <1>4, <1>8, <4>1, <4>2, ClearNewer
    <3>5. CASE l \in (bg.level + 2)..(NumLevels - 1)
      BY <1>8, <3>1, <3>5
    <3>6. \/ l < n \/ (l = bg.level /\ n = bg.level) \/ l = bg.level + 1
          \/ l \in (bg.level + 2)..(NumLevels - 1)
      BY <1>2, <1>3, LevelsAssumption DEF Levels
    <3>7. QED
      BY <3>2, <3>3, <3>4, <3>5, <3>6
  <2>3. QED
    BY <2>1, <2>2
<1>9. QED
  BY <1>1, <1>7, <1>8 DEF Recorded, Waiting, EntriesOf, FilesOf

LEMMA ResultsTells ==
  ASSUME CompactionInv, ApartInv, AboveInv, ReadInv, InstallCompactionResults
  PROVE  Promises'
<1> DEFINE S == Recorded
           T == Recorded'
<1>1. bg.at = "merge" /\ UNCHANGED <<snapshots, lastSequence, promised>>
  BY DEF InstallCompactionResults, memVars, readVars
<1>2. Promises /\ MergeShows
  BY <1>1 DEF ReadInv
<1>3. T \subseteq S /\ S \ T \subseteq InputEntries(bg) \ Made
  BY ResultsGone
<1>4. S \subseteq Entry /\ \A a, b \in S : a[2] = b[2] => a = b
  BY RecordedNumbers DEF ApartInv, Numbered
<1>5. InputEntries(bg) \subseteq S
  BY <1>1, InputsRecorded DEF ApartInv, MergeApart, Recorded
<1>6. ASSUME NEW e \in S \ T
      PROVE  \/ \E d \in S : d[1] = e[1] /\ e[2] < d[2] /\ \A s \in Readers : d[2] <= s
             \/ e[3] = "deletion" /\ \A d \in T : d[1] = e[1] => d[2] > e[2]
  <2>1. e \in InputEntries(bg) \ Made
    BY <1>3, <1>6
  <2>2. CASE \E d \in InputEntries(bg) : d[1] = e[1] /\ e[2] < d[2] /\ \A s \in Readers : d[2] <= s
    BY <1>5, <2>2
  <2>3. CASE /\ e[3] = "deletion"
             /\ \A d \in Made : d[1] = e[1] => d[2] > e[2]
             /\ \A l \in (bg.level + 2)..(NumLevels - 1) : \A f \in Range(version[l]) :
                  \A d \in f.entries : d[1] = e[1] => d[2] > e[2]
    BY <2>1, <2>3, DeletionDropped
  <2>4. QED
    BY <1>2, <2>1, <2>2, <2>3 DEF MergeShows
<1>7. \A s \in Readers : s \in Nat
  BY <1>2 DEF Readers, Promises, CompactionInv, MemTables
<1> HIDE DEF S, T
<1>8. ASSUME NEW k \in Keys, NEW s \in Readers, NEW x, Tells(S, k, s, x), NEW e, Sees(T, k, s, e)
      PROVE  Value(e) = x
  <2>1. CASE Hides(S, k, s)
    <3>1. Hides(T, k, s)
      BY <1>3, <2>1 DEF Hides
    <3>2. e = None
      BY <1>3, <1>4, <1>8, <3>1, SeesNone
    <3>3. Sees(S, k, s, e)
      BY <2>1, <3>2 DEF Sees
    <3>4. QED
      BY <1>8, <3>3 DEF Tells
  <2>2. CASE ~Hides(S, k, s)
    <3>1. PICK f : Shows(S, k, s, f)
      BY <1>4, <1>7, <2>2, ShowsExists
    <3>2. Value(f) = x
      BY <1>8, <3>1 DEF Tells, Sees
    <3>3. CASE f \in T
      <4>1. Sees(T, k, s, f)
        BY <1>3, <3>1, <3>3 DEF Shows, Sees
      <4>2. e = f
        BY <1>3, <1>4, <1>8, <4>1, SeesOne
      <4>3. QED
        BY <3>2, <4>2
    <3>4. CASE f \notin T
      <4>1. f \in S \ T /\ f[1] = k /\ \A d \in S : d[1] = k /\ d[2] <= s => d[2] <= f[2]
        BY <3>1, <3>4 DEF Shows
      <4>2. \A d \in S : d[2] \in Nat
        BY <1>4, EntryTypes
      <4>3. ~\E d \in S : d[1] = f[1] /\ f[2] < d[2] /\ \A t \in Readers : d[2] <= t
        <5> SUFFICES ASSUME NEW d \in S, d[1] = f[1], f[2] < d[2], d[2] <= s PROVE FALSE
          OBVIOUS
        <5>1. d[2] <= f[2]
          BY <4>1
        <5>2. QED
          BY <4>1, <4>2, <5>1
      <4>4. f[3] = "deletion" /\ \A d \in T : d[1] = f[1] => d[2] > f[2]
        BY <1>6, <4>1, <4>3
      <4>5. Hides(T, k, s)
        <5> SUFFICES ASSUME NEW d \in T, d[1] = k, d[2] <= s PROVE FALSE
          BY DEF Hides
        <5>1. d \in S /\ d[2] <= f[2] /\ d[2] > f[2]
          BY <1>3, <4>1, <4>4
        <5>2. QED
          BY <4>1, <4>2, <5>1
      <4>6. e = None
        BY <1>3, <1>4, <1>8, <4>5, SeesNone
      <4>7. QED
        BY <3>2, <4>4, <4>6 DEF Value
    <3>5. QED
      BY <3>3, <3>4
  <2>3. QED
    BY <2>1, <2>2
<1>9. \A k \in Keys : \A s \in Readers : \A x : Tells(S, k, s, x) => Tells(T, k, s, x)
  BY <1>8 DEF Tells
<1>10. QED
  BY <1>1, <1>2, <1>9, SamePromises DEF S, T

LEMMA WorkReads ==
  ASSUME CompactionInv, ApartInv, ReadInv, NEW c, InputsOf(version, c), NEW m, Work(c, m),
         UNCHANGED <<memVars, readVars>>
  PROVE  ReadInv'
<1>1. version' = version /\ UNCHANGED <<mem, imm, lastSequence, snapshots, promised>>
  BY DEF Work, memVars, readVars
<1>2. Recorded' = Recorded
  BY <1>1 DEF Recorded
<1>3. Promises'
  BY <1>1, <1>2, SameRecorded DEF ReadInv
<1>4. MergeShows'
  BY <1>1, WorkShows DEF ReadInv
<1>5. QED
  BY <1>3, <1>4 DEF ReadInv

LEMMA ReadNext ==
  ASSUME CompactionInv, ApartInv, KeysDisjoint, AboveInv, None \notin SUBSET Entry, ReadInv,
         [Next]_vars
  PROVE  ReadInv'
<1>0. Promises
  BY DEF ReadInv
<1>1. CASE \/ UNCHANGED vars \/ NewIterator \/ FlushFails \/ ManualDone
           \/ \E v \in iterators : CloseIterator(v)
           \/ \E k \in Keys : \E s \in snapshots \cup {lastSequence} : ChargeSeek(k, s)
           \/ \E r \in scenario.ranges : CompactRange(r[1], r[2])
           \/ RangeFlushed \/ RangeClaims \/ RangeAborts
  <2>1. UNCHANGED <<mem, imm, version, bg, snapshots, lastSequence, promised>>
    BY <1>1 DEF vars, NewIterator, FlushFails, ManualDone, CloseIterator, ChargeSeek, CompactRange,
                RangeFlushed, RangeClaims, RangeAborts, diskVars, memVars, readVars
  <2>2. Recorded' = Recorded /\ Made' = Made /\ bg' = bg /\ snapshots' \subseteq Readers
    BY <2>1 DEF Recorded, Made, Readers
  <2>3. Promises'
    BY <1>0, <2>1, <2>2, SameRecorded
  <2>4. bg.at = "merge" => MergeShows'
    BY <1>0, <2>1, <2>2, SameShows DEF ReadInv
  <2>5. QED
    BY <2>2, <2>3, <2>4 DEF ReadInv
<1>2. CASE \/ \E p \in scenario.puts : Write(p[1], p[2])
           \/ GetSnapshot \/ (\E s \in snapshots : ReleaseSnapshot(s))
           \/ SwitchMemTable \/ RangeSwitches
  <2>1. /\ version' = version /\ bg' = bg /\ snapshots' \subseteq Readers
        /\ lastSequence' = lastSequence \/ lastSequence' = lastSequence + 1
    BY <1>2 DEF Write, GetSnapshot, ReleaseSnapshot, SwitchMemTable, RangeSwitches, diskVars, memVars,
                readVars, Readers
  <2>2. Made' = Made
    BY <2>1 DEF Made
  <2>3. Promises'
    BY <1>0, <1>2, WriteTells, SnapshotTells, SwitchTells
  <2>4. bg.at = "merge" => MergeShows'
    BY <1>0, <2>1, <2>2, SameShows DEF ReadInv
  <2>5. QED
    BY <2>1, <2>3, <2>4 DEF ReadInv
<1>3. CASE Flush
  <2>1. bg' = bg
    BY <1>3 DEF Flush
  <2>2. Promises'
    BY <1>0, <1>3, FlushTells
  <2>3. bg.at = "merge" => MergeShows'
    BY <1>3, FlushShows DEF ReadInv
  <2>4. QED
    BY <2>1, <2>2, <2>3 DEF ReadInv
<1>4. CASE CompactPicked
  <2>1. PICK c \in Picked :
          IF IsTrivialMove(c, scenario.target)
          THEN /\ Install({<<c.level, c.inputs[1][1].number>>}, << <<c.level + 1, c.inputs[1][1]>> >>)
               /\ pointers' = [pointers EXCEPT ![c.level] = c.pointer]
               /\ UNCHANGED bg
          ELSE Work(c, FALSE)
    BY <1>4 DEF CompactPicked
  <2>2. bg.at = "none" /\ UNCHANGED <<memVars, readVars>>
    BY <1>4 DEF CompactPicked
  <2>3. InputsOf(version, c)
    BY PickedChosen DEF Chosen, ApartInv
  <2>4. CASE IsTrivialMove(c, scenario.target)
    <3>1. Promises'
      BY <1>0, <2>1, <2>2, <2>3, <2>4, MoveTells
    <3>2. bg'.at # "merge"
      BY <2>1, <2>2, <2>4
    <3>3. QED
      BY <3>1, <3>2 DEF ReadInv
  <2>5. CASE ~IsTrivialMove(c, scenario.target)
    BY <2>1, <2>2, <2>3, <2>5, WorkReads
  <2>6. QED
    BY <2>4, <2>5
<1>5. CASE CompactManual
  <2>1. PICK c : Chosen(version, c) /\ Work(c, TRUE)
    BY <1>5, ManualChosen DEF AboveInv, ApartInv
  <2>2. UNCHANGED <<memVars, readVars>>
    BY <1>5 DEF CompactManual
  <2>3. QED
    BY <2>1, <2>2, WorkReads DEF Chosen
<1>6. CASE WriteOutput
  <2>1. /\ bg.at = "merge" /\ UNCHANGED <<mem, imm, version, snapshots, lastSequence, promised>>
        /\ DOMAIN bg = {"at", "manual", "level", "inputs", "base", "outputs", "todo"}
    BY <1>6 DEF WriteOutput, CompactionInv, MergeSound, memVars, readVars
  <2>2. bg'.inputs = bg.inputs /\ bg'.level = bg.level
    BY <1>6, <2>1 DEF WriteOutput
  <2>3. Recorded' = Recorded /\ Made' = Made /\ snapshots' \subseteq Readers
    BY <1>6, <2>1, MadeSame DEF Recorded, Readers
  <2>4. Promises'
    BY <1>0, <2>1, <2>3, SameRecorded
  <2>5. MergeShows'
    BY <1>0, <2>1, <2>2, <2>3, SameShows DEF ReadInv
  <2>6. QED
    BY <2>4, <2>5 DEF ReadInv
<1>7. CASE InstallCompactionResults
  <2>1. bg'.at # "merge"
    BY <1>7 DEF InstallCompactionResults, Idle
  <2>2. QED
    BY <1>7, <2>1, ResultsTells DEF ReadInv
<1>8. CASE CompactionFails
  <2>1. /\ UNCHANGED <<mem, imm, version, snapshots, lastSequence, promised>> /\ bg'.at # "merge"
    BY <1>8 DEF CompactionFails, memVars, diskVars, readVars, Idle
  <2>2. Recorded' = Recorded
    BY <2>1 DEF Recorded
  <2>3. QED
    BY <1>0, <2>1, <2>2, SameRecorded DEF ReadInv
<1>9. QED
  BY Zenon, <1>1, <1>2, <1>3, <1>4, <1>5, <1>6, <1>7, <1>8 DEF Next, RangeSteps, Background

\* What was promised is what reads find.
LEMMA PromisesKept ==
  ASSUME CompactionInv, ApartInv, AboveInv, KeysDisjoint, Promises
  PROVE  ReadsKept
<1>1. /\ lastSequence \in Nat /\ snapshots \in SUBSET Nat
      /\ \A k \in Keys : Tells(Recorded, k, lastSequence, latest[k])
      /\ \A s \in snapshots : \A k \in Keys : Tells(Recorded, k, s, frozen[s][k])
  BY DEF CompactionInv, MemTables, Promises
<1>2. \A k \in Keys : \A s \in Nat : Sees(Recorded, k, s, Read(k, s))
  BY ReadSees
<1>3. \A k \in Keys : Value(Read(k, lastSequence)) = latest[k]
  BY <1>1, <1>2 DEF Tells
<1>4. \A s \in snapshots : \A k \in Keys : Value(Read(k, s)) = frozen[s][k]
  BY <1>1, <1>2 DEF Tells
<1>5. QED
  BY <1>3, <1>4 DEF ReadsKept, Value

-----------------------------------------------------------------------------
(* Theorems about levels and reads *)

LEMMA SameScenario == [Next]_vars => scenario' = scenario
BY DEF Next, vars, RangeSteps, Background, Write, SwitchMemTable, GetSnapshot, NewIterator,
       ReleaseSnapshot, CloseIterator, ChargeSeek, CompactRange, RangeSwitches, RangeFlushed,
       RangeClaims, RangeAborts, Flush, CompactPicked, ManualDone, CompactManual, WriteOutput,
       InstallCompactionResults, FlushFails, CompactionFails

LEMMA ReadInit == Init => AboveInv /\ SingleInv /\ ReadInv
<1> SUFFICES ASSUME Init PROVE AboveInv /\ SingleInv /\ ReadInv
  OBVIOUS
<1>1. /\ mem = {} /\ imm = None /\ lastSequence = 0 /\ version = [l \in Levels |-> <<>>]
      /\ bg.at = "none" /\ range.at = "none" /\ manual = None /\ snapshots = {}
      /\ latest = [k \in Keys |-> None] /\ frozen = <<>>
  BY DEF Init, Idle, Promise!Init
<1>2. FilesOf(version) = {} /\ \A l \in Levels : Range(version[l]) = {}
  BY <1>1 DEF FilesOf, Range
<1>3. Recorded = {} /\ EntriesOf(version) = {} /\ Waiting = {}
  BY <1>1, <1>2 DEF Recorded, EntriesOf, Waiting
<1>4. 0 \in Levels
  BY LevelsAssumption DEF Levels
<1>5. AboveInv
  BY <1>1, <1>2, <1>3, <1>4 DEF AboveInv, RangeTyped, Aged, Layered
<1>6. SingleInv
  BY <1>1, <1>2 DEF SingleInv, KeysDisjoint, KeysDisjointIn
<1>7. \A k, s : Tells(Recorded, k, s, None)
  BY <1>3 DEF Tells, Sees, Shows, Value
<1>8. Promises
  BY <1>1, <1>7 DEF Promises
<1>9. QED
  BY <1>1, <1>5, <1>6, <1>8 DEF ReadInv

\* Apart from scenarios with gaps, and without snapshots: what keeps the levels in order.
SingleLayers == ~scenario.gaps => SingleInv /\ (scenario.snapshots = 0 => AboveInv)

THEOREM LayersInvariant == Spec => []SingleLayers
<1>1. Init => SingleLayers
  BY ReadInit DEF SingleLayers
<1>2. DisjointInv /\ SingleLayers /\ [Next]_vars => SingleLayers'
  <2> SUFFICES ASSUME DisjointInv, SingleLayers, [Next]_vars PROVE SingleLayers'
    OBVIOUS
  <2>1. scenario' = scenario
    BY SameScenario
  <2>2. ASSUME ~scenario.gaps PROVE SingleInv'
    BY <2>2, SingleNext DEF DisjointInv, SingleLayers
  <2>3. ASSUME ~scenario.gaps, scenario.snapshots = 0 PROVE AboveInv'
    BY <2>3, AboveNext DEF DisjointInv, SingleLayers, SingleInv
  <2>4. QED
    BY <2>1, <2>2, <2>3 DEF SingleLayers
<1>3. QED
  BY <1>1, <1>2, DisjointInvariant, PTL DEF Spec

\* While nobody takes a snapshot, no user key is in two files of a level above 0, and of each
\* user key what is in a level is newer than what is in a deeper one, unless memtables fill
\* up during a CompactRange: whatever is flushed, moved, merged, or fails meanwhile.
THEOREM NewerStaysAbove ==
  Spec => [](~scenario.gaps /\ scenario.snapshots = 0 => KeysDisjoint /\ NewerAbove)
<1>1. SingleLayers => (~scenario.gaps /\ scenario.snapshots = 0 => KeysDisjoint /\ NewerAbove)
  BY LayeredMeans DEF SingleLayers, SingleInv, AboveInv
<1>2. QED
  BY <1>1, LayersInvariant, PTL

\* With snapshots a merge may leave the entries of one user key in two files of a level, and
\* a later one takes one of them deeper (the run StaleRead). As long as that does not happen,
\* what is in a level is newer than what is in a deeper one.
LayersWithSnapshots == ~scenario.gaps => AboveInv

THEOREM NewerAboveIfKeysDisjoint == Spec /\ []KeysDisjoint => [](~scenario.gaps => NewerAbove)
<1>1. Init => LayersWithSnapshots
  BY ReadInit DEF LayersWithSnapshots
<1>2. DisjointInv /\ KeysDisjoint /\ LayersWithSnapshots /\ [Next]_vars => LayersWithSnapshots'
  BY SameScenario, AboveNext DEF DisjointInv, LayersWithSnapshots
<1>3. LayersWithSnapshots => (~scenario.gaps => NewerAbove)
  BY LayeredMeans DEF LayersWithSnapshots, AboveInv
<1>4. QED
  BY <1>1, <1>2, <1>3, DisjointInvariant, PTL DEF Spec

\* Get returns the last write of each user key, and of a snapshot what was the last write
\* when it was taken, as long as no user key is in two files of a level above 0 and unless
\* memtables fill up during a CompactRange: no flush, move or merge changes what a read finds.
\* (None is no set of entries, which TLC knows of a model value.)
KeptWithSnapshots == ~scenario.gaps => AboveInv /\ ReadInv

THEOREM ReadsKeptIfKeysDisjoint ==
  ASSUME None \notin SUBSET Entry
  PROVE  Spec /\ []KeysDisjoint => [](~scenario.gaps => ReadsKept)
<1>1. Init => KeptWithSnapshots
  BY ReadInit DEF KeptWithSnapshots
<1>2. DisjointInv /\ KeysDisjoint /\ KeptWithSnapshots /\ [Next]_vars => KeptWithSnapshots'
  BY SameScenario, AboveNext, ReadNext DEF DisjointInv, KeptWithSnapshots
<1>3. DisjointInv /\ KeysDisjoint /\ KeptWithSnapshots => (~scenario.gaps => ReadsKept)
  BY PromisesKept DEF DisjointInv, KeptWithSnapshots, ReadInv
<1>4. QED
  BY <1>1, <1>2, <1>3, DisjointInvariant, PTL DEF Spec

\* Get returns the last write of each user key while nobody takes a snapshot, unless
\* memtables fill up during a CompactRange.
KeptWithoutSnapshots == ~scenario.gaps /\ scenario.snapshots = 0 => ReadInv

THEOREM ReadsStayKept ==
  ASSUME None \notin SUBSET Entry
  PROVE  Spec => [](~scenario.gaps /\ scenario.snapshots = 0 => ReadsKept)
<1>1. Init => KeptWithoutSnapshots
  BY ReadInit DEF KeptWithoutSnapshots
<1>2. DisjointInv /\ SingleLayers /\ KeptWithoutSnapshots /\ [Next]_vars => KeptWithoutSnapshots'
  BY SameScenario, ReadNext DEF DisjointInv, SingleLayers, SingleInv, KeptWithoutSnapshots
<1>3. DisjointInv /\ SingleLayers /\ KeptWithoutSnapshots
        => (~scenario.gaps /\ scenario.snapshots = 0 => ReadsKept)
  BY PromisesKept DEF DisjointInv, SingleLayers, SingleInv, KeptWithoutSnapshots, ReadInv
<1>4. QED
  BY <1>1, <1>2, <1>3, DisjointInvariant, LayersInvariant, PTL DEF Spec
=============================================================================
