------------------------------ MODULE Versions ------------------------------
(***************************************************************************)
(* leveldb's versions (db/version_set.cc): the table files of each level,  *)
(* the searches in them and the choice of what a compaction merges. An     *)
(* entry is <<user key, sequence, kind>>, a file [number, entries, smallest, largest] *)
(* with as many bytes as entries, a version a function from levels to sequences of *)
(* files. Every operator is a function of its arguments.                   *)
(***************************************************************************)
EXTENDS Integers, Sequences, FiniteSets, FiniteSetsExt, SequencesExt

CONSTANTS
  None,
  MaxSequence,        \* kMaxSequenceNumber
  NumLevels,          \* config::kNumLevels
  MaxMemCompactLevel, \* config::kMaxMemCompactLevel
  CompactionTrigger,  \* config::kL0_CompactionTrigger
  MaxBytes,           \* MaxBytesForLevel, a function of the levels above 0
  GrandparentFactor,  \* of MaxGrandParentOverlapBytes: 10
  ExpansionFactor     \* of ExpandedCompactionByteSizeLimit: 25

Levels == 0..(NumLevels - 1)

ASSUME LevelsAssumption ==
  /\ NumLevels \in Nat /\ MaxMemCompactLevel \in Nat /\ MaxMemCompactLevel + 1 < NumLevels
  /\ CompactionTrigger > 0 /\ \A l \in Levels \ {0} : MaxBytes[l] > 0
  /\ MaxSequence \in Nat

-----------------------------------------------------------------------------
(* Entries and files *)

\* InternalKeyComparator: by user key, then the newest first.
Before(a, b) == a[1] < b[1] \/ (a[1] = b[1] /\ a[2] > b[2])

\* S in the order an iterator yields it.
Ordered(S) ==
  [i \in 1..Cardinality(S) |-> CHOOSE e \in S : Cardinality({d \in S : Before(d, e)}) = i - 1]

\* A table of entries S and its FileMetaData.
Table(n, S) ==
  [number |-> n, entries |-> S,
   smallest |-> CHOOSE e \in S : \A d \in S : ~Before(d, e),
   largest |-> CHOOSE e \in S : \A d \in S : ~Before(e, d)]

\* The files of a sequence that are in S, in their order.
FilesIn(files, S) ==
  LET among[i \in 0..Len(files)] ==
        IF i = 0 THEN <<>>
        ELSE IF files[i] \in S THEN Append(among[i - 1], files[i]) ELSE among[i - 1]
  IN among[Len(files)]

FirstKey(f) == f.smallest[1]
LastKey(f) == f.largest[1]

Size(files) == FoldSeq(LAMBDA f, sum : sum + Cardinality(f.entries), 0, files)

\* The entry a reader of sequence s finds for key k among S, or None.
Newest(S, k, s) ==
  LET seen == {e \in S : e[1] = k /\ e[2] <= s}
  IN IF seen = {} THEN None ELSE CHOOSE e \in seen : \A d \in seen : d[2] <= e[2]

-----------------------------------------------------------------------------
(* Searches *)

\* FindFile: binary search for the first file whose largest key is not before target;
\* 1 + Len(files) if there is none.
FindFile(files, target) ==
  LET search[r \in (0..Len(files)) \X (0..Len(files))] ==
        LET left == r[1]
            right == r[2]
            mid == (left + right) \div 2
        IN IF left >= right THEN right
           ELSE IF Before(files[mid + 1].largest, target) THEN search[<<mid + 1, right>>]
           ELSE search[<<left, mid>>]
  IN search[<<0, Len(files)>>] + 1

\* OverlapInLevel: level 0 is scanned, the others searched.
OverlapInLevel(v, level, lo, hi) ==
  LET files == v[level]
      at == FindFile(files, <<lo, MaxSequence>>)
  IN IF level = 0
     THEN \E i \in DOMAIN files : ~(lo > LastKey(files[i])) /\ ~(hi < FirstKey(files[i]))
     ELSE at <= Len(files) /\ ~(hi < FirstKey(files[at]))

\* ForEachOverlapping: the files <<level, file>> that may hold k, of level 0 all that cover
\* it, of each other level at most one.
FilesFor(v, k, s) ==
  LET at(l) == FindFile(v[l], <<k, s>>)
      covering == {f \in Range(v[0]) : FirstKey(f) <= k /\ k <= LastKey(f)}
      holding == {l \in Levels \ {0} : at(l) \in DOMAIN v[l] /\ FirstKey(v[l][at(l)]) <= k}
  IN {<<0, f>> : f \in covering} \cup {<<l, v[l][at(l)]>> : l \in holding}

\* The order it goes through them: the newest of level 0 first.
ReadBefore(a, b) == a[1] < b[1] \/ (a[1] = 0 /\ b[1] = 0 /\ a[2].number > b[2].number)

\* Version::Get: the entry found in the first level that has one, of level 0 in the newest
\* of its files that have one.
InLevel(v, l, k, s) ==
  IF l = 0
  THEN LET has == {f \in Range(v[0]) : Newest(f.entries, k, s) # None}
       IN IF has = {} THEN None
          ELSE Newest((CHOOSE f \in has : \A g \in has : g.number <= f.number).entries, k, s)
  ELSE LET at == FindFile(v[l], <<k, s>>)
       IN IF at > Len(v[l]) THEN None ELSE Newest(v[l][at].entries, k, s)

Get(v, k, s) ==
  LET found == {l \in Levels : v[l] # <<>> /\ InLevel(v, l, k, s) # None}
  IN IF found = {} THEN None ELSE InLevel(v, Min(found), k, s)

\* GetOverlappingInputs: in level 0 the range grows by the files that overlap it.
Within(r, f) == ~(LastKey(f) < r[1]) /\ ~(FirstKey(f) > r[2])

Widened(files, lo, hi) ==
  LET grow(r) == LET hit == {f \in Range(files) : Within(r, f)}
                 IN <<Min({r[1]} \cup {FirstKey(f) : f \in hit}),
                      Max({r[2]} \cup {LastKey(f) : f \in hit})>>
  IN FoldSeq(LAMBDA f, r : grow(r), <<lo, hi>>, files)

Overlapping(v, level, lo, hi) ==
  LET range == IF level = 0 THEN Widened(v[0], lo, hi) ELSE <<lo, hi>>
  IN FilesIn(v[level], {f \in Range(v[level]) : Within(range, f)})

\* Mutant of PickLevelForMemTableOutput: the level the file goes to is not looked at.
PickLevelUnseen(v, lo, hi, target) ==
  IF OverlapInLevel(v, 0, lo, hi) THEN 0
  ELSE Max({l \in 0..MaxMemCompactLevel : \A m \in 1..l :
              /\ m < l => ~OverlapInLevel(v, m, lo, hi)
              /\ m + 1 < NumLevels =>
                   Size(Overlapping(v, m + 1, lo, hi)) <= GrandparentFactor * target})

\* PickLevelForMemTableOutput: as deep as nothing overlaps, within bounds.
PickLevelForMemTableOutput(v, lo, hi, target) ==
  IF OverlapInLevel(v, 0, lo, hi) THEN 0
  ELSE Max({l \in 0..MaxMemCompactLevel : \A m \in 1..l :
              /\ ~OverlapInLevel(v, m, lo, hi)
              /\ m + 1 < NumLevels =>
                   Size(Overlapping(v, m + 1, lo, hi)) <= GrandparentFactor * target})

-----------------------------------------------------------------------------
(* VersionSet::Builder *)

BySmallestKey(f, g) ==
  \/ Before(f.smallest, g.smallest)
  \/ ~Before(g.smallest, f.smallest) /\ f.number < g.number

Placed(files, f) ==
  FilesIn(files, {g \in Range(files) : ~BySmallestKey(f, g)}) \o <<f>>
    \o FilesIn(files, {g \in Range(files) : BySmallestKey(f, g)})

\* Apply and SaveTo: v without the files <<level, number>> of deleted, with those
\* <<level, file>> of added.
Edited(v, deleted, added) ==
  LET kept == [l \in Levels |->
                 FilesIn(v[l], {f \in Range(v[l]) : <<l, f.number>> \notin deleted})]
  IN FoldSeq(LAMBDA a, w : [w EXCEPT ![a[1]] = Placed(w[a[1]], a[2])], kept, added)

-----------------------------------------------------------------------------
(* Choosing a compaction *)

\* Finalize, in hundredths: how full a level is, and the fullest one.
Score(v, l) ==
  IF l = 0 THEN (100 * Len(v[0])) \div CompactionTrigger ELSE (100 * Size(v[l])) \div MaxBytes[l]
FullestLevels(v) ==
  {l \in 0..(NumLevels - 2) :
     /\ v[l] # <<>> /\ Score(v, l) >= 100
     /\ \A m \in 0..(NumLevels - 2) :
          Score(v, m) < Score(v, l) \/ (Score(v, m) = Score(v, l) /\ l <= m)}

KeyRange(files) == <<Min({FirstKey(f) : f \in Range(files)}), Max({LastKey(f) : f \in Range(files)})>>
LargestOf(files) ==
  CHOOSE e \in {f.largest : f \in Range(files)} : \A f \in Range(files) : ~Before(e, f.largest)

\* SetupOtherInputs: the files of the next level that inputs0 overlaps, then more of this
\* level if that adds none of the next.
WithOtherInputs(v, level, inputs0, target) ==
  LET Over(l, r) == Overlapping(v, l, r[1], r[2])
      inputs1 == Over(level + 1, KeyRange(inputs0))
      expanded0 == Over(level, KeyRange(inputs0 \o inputs1))
      expanded1 == Over(level + 1, KeyRange(expanded0))
      expands ==
        /\ inputs1 # <<>> /\ Len(expanded0) > Len(inputs0)
        /\ Size(inputs1) + Size(expanded0) < ExpansionFactor * target
        /\ Len(expanded1) = Len(inputs1)
      upper == IF expands THEN expanded0 ELSE inputs0
      lower == IF expands THEN expanded1 ELSE inputs1
  IN [level |-> level, inputs |-> <<upper, lower>>,
      grandparents |-> IF level + 2 < NumLevels
                       THEN Over(level + 2, KeyRange(upper \o lower)) ELSE <<>>,
      pointer |-> LargestOf(upper)]

\* Mutant of PickForSize: one file of level 0 goes without those it overlaps.
PickOneForSize(v, level, pointers, target) ==
  LET after == FilesIn(v[level], {f \in Range(v[level]) :
                 pointers[level] = None \/ Before(pointers[level], f.largest)})
  IN WithOtherInputs(v, level, <<Head(IF after = <<>> THEN v[level] ELSE after)>>, target)

\* PickCompaction for a full level: from the first file after its compaction pointer.
PickForSize(v, level, pointers, target) ==
  LET after == FilesIn(v[level], {f \in Range(v[level]) :
                 pointers[level] = None \/ Before(pointers[level], f.largest)})
      first == Head(IF after = <<>> THEN v[level] ELSE after)
  IN WithOtherInputs(v, level,
       IF level = 0 THEN Overlapping(v, 0, FirstKey(first), LastKey(first)) ELSE <<first>>, target)

\* PickCompaction for a file that cost too many seeks.
PickForSeeks(v, level, file, target) ==
  WithOtherInputs(v, level,
    IF level = 0 THEN Overlapping(v, 0, FirstKey(file), LastKey(file)) ELSE <<file>>, target)

\* CompactRange: above level 0 not more files than make up one file's size.
PickForRange(v, level, lo, hi, target) ==
  LET inputs == Overlapping(v, level, lo, hi)
      enough == {i \in DOMAIN inputs : level > 0 /\ Size(SubSeq(inputs, 1, i)) >= target}
  IN WithOtherInputs(v, level,
       IF enough = {} THEN inputs ELSE SubSeq(inputs, 1, Min(enough)), target)

IsTrivialMove(c, target) ==
  /\ Len(c.inputs[1]) = 1 /\ c.inputs[2] = <<>>
  /\ Size(c.grandparents) <= GrandparentFactor * target

-----------------------------------------------------------------------------
(* What a compaction writes *)

InputEntries(c) == UNION {f.entries : f \in Range(c.inputs[1] \o c.inputs[2])}

\* IsBaseLevelForKey: no file of a deeper level may hold key k.
IsBaseLevelForKey(v, level, k) ==
  \A l \in (level + 2)..(NumLevels - 1) :
    \A f \in Range(v[l]) : ~(FirstKey(f) <= k /\ k <= LastKey(f))

\* The loop of DoCompactionWork: entries hidden by newer ones from every snapshot go, and
\* deletions with nothing left to delete.
Kept(v, c, snapshot) ==
  LET all == InputEntries(c)
      hidden(e) == \E d \in all : d[1] = e[1] /\ e[2] < d[2] /\ d[2] <= snapshot
      obsolete(e) == /\ e[3] = "deletion" /\ e[2] <= snapshot
                     /\ IsBaseLevelForKey(v, c.level, e[1])
  IN {e \in all : ~hidden(e) /\ ~obsolete(e)}

\* FinishCompactionOutputFile, if a file is open.
Finish(out) == IF out.file = {} THEN out ELSE [out EXCEPT !.done = Append(@, out.file), !.file = {}]

\* ShouldStopBefore: the file ends before an entry that has passed enough grandparents.
Stop(c, target, out, e) ==
  LET passed == Cardinality({i \in DOMAIN c.grandparents : Before(c.grandparents[i].largest, e)})
      bytes == out.bytes + IF out.seen THEN Size(SubSeq(c.grandparents, out.index + 1, passed)) ELSE 0
      moved == [out EXCEPT !.index = passed, !.seen = TRUE, !.bytes = bytes]
  IN IF bytes > GrandparentFactor * target THEN [Finish(moved) EXCEPT !.bytes = 0] ELSE moved

\* An entry that is kept goes to the file, which ends when it is big enough.
Put(kept, target, out, e) ==
  IF e \notin kept THEN out
  ELSE LET with == [out EXCEPT !.file = @ \cup {e}]
       IN IF Cardinality(with.file) >= target THEN Finish(with) ELSE with

\* The files that the loop of DoCompactionWork writes.
Outputs(v, c, snapshot, target) ==
  LET entries == Ordered(InputEntries(c))
      kept == Kept(v, c, snapshot)
      after[i \in 0..Len(entries)] ==
        IF i = 0 THEN [done |-> <<>>, file |-> {}, bytes |-> 0, index |-> 0, seen |-> FALSE]
        ELSE CHOOSE out \in {Put(kept, target, o, entries[i]) :
                             o \in {Stop(c, target, o, entries[i]) : o \in {after[i - 1]}}} : TRUE
  IN Finish(after[Len(entries)]).done
=====
