----------------------------- MODULE Compaction -----------------------------
(***************************************************************************)
(* leveldb's tables in use (db/db_impl.cc): writers fill the memtable,     *)
(* readers hold snapshots and iterators, and the background thread flushes *)
(* memtables and merges files from level to level. A batch enters the      *)
(* memtable in one step (WriteQueue has its steps); a step of the          *)
(* background thread ends where it locks mutex_ again.                     *)
(***************************************************************************)
EXTENDS Versions

CONSTANTS
  Keys,       \* the user keys, 1..n
  Scenarios   \* [puts: the <<key, kind>> written; ranges: the <<lo, hi>> compacted, once
              \*  each; writes, snapshots, iterators, seeks: bounds; gaps: whether memtables
              \*  fill up during a CompactRange; fails: whether tables may fail; target:
              \*  TargetFileSize]

\* A sequence number has 56 bits: no database is written to so often that they run out.
ASSUME ScenarioAssumption ==
  /\ Keys \subseteq Int
  /\ \A s \in Scenarios : /\ s.puts \subseteq Keys \X {"value", "deletion"}
                         /\ s.ranges \subseteq Keys \X Keys
                         /\ s.writes \in Nat /\ s.writes <= MaxSequence

\* No entry is taken for none found.
ASSUME NoneAssumption == None \notin Keys \X Nat \X {"value", "deletion"}

VARIABLES
  scenario,
  mem, imm,          \* the entries of mem_ and imm_
  version,           \* versions_->current()
  pointers,          \* compact_pointer_
  seekFile,          \* file_to_compact_ and its level in the current version
  lastSequence, nextFile,
  snapshots,         \* snapshots_, by their sequence numbers
  iterators,         \* versions referenced by open iterators
  bg,                \* the compaction under way
  bgError,
  manual, range,     \* manual_compaction_; the call of CompactRange, or Idle
  tables,            \* the numbers of the table files there are
  latest, frozen,    \* what readers were promised (SnapshotStore)
  used               \* reads charged and ranges requested, for the scenario's bounds

Promise == INSTANCE SnapshotStore WITH NoValue <- None

promised == <<latest, frozen>>
readVars == <<snapshots, iterators, promised>>
memVars == <<mem, imm, lastSequence>>
rangeVars == <<manual, range>>
diskVars == <<version, pointers, tables, nextFile>>
vars == <<scenario, memVars, diskVars, seekFile, readVars, bg, bgError, rangeVars, used>>

Idle == [at |-> "none"]

Init ==
  /\ scenario \in Scenarios
  /\ mem = {} /\ imm = None /\ lastSequence = 0
  /\ version = [l \in Levels |-> <<>>] /\ pointers = [l \in Levels |-> None]
  /\ seekFile = None /\ nextFile = 1 /\ tables = {}
  /\ snapshots = {} /\ iterators = {} /\ Promise!Init
  /\ bg = Idle /\ bgError = FALSE
  /\ manual = None /\ range = Idle
  /\ used = [seeks |-> 0, ranges |-> {}]

-----------------------------------------------------------------------------
(* Callers *)

Write(k, kind) ==
  /\ lastSequence < scenario.writes /\ ~bgError
  /\ lastSequence' = lastSequence + 1
  /\ mem' = mem \cup {<<k, lastSequence + 1, kind>>}
  /\ Promise!Write(k, IF kind = "value" THEN lastSequence + 1 ELSE None)
  /\ UNCHANGED <<scenario, imm, diskVars, seekFile, snapshots, iterators, bg, bgError, rangeVars, used>>

\* The memtable is full: it is replaced once the previous one is in a table.
SwitchMemTable ==
  /\ imm = None /\ mem # {} /\ ~bgError
  /\ manual # None => scenario.gaps
  /\ imm' = mem /\ mem' = {}
  /\ UNCHANGED <<scenario, lastSequence, diskVars, seekFile, readVars, bg, bgError, rangeVars, used>>

GetSnapshot ==
  /\ Cardinality(snapshots) < scenario.snapshots
  /\ snapshots' = snapshots \cup {lastSequence}
  /\ Promise!Take(lastSequence)
  /\ UNCHANGED <<scenario, memVars, diskVars, seekFile, iterators, bg, bgError, rangeVars, used>>

ReleaseSnapshot(s) ==
  /\ snapshots' = snapshots \ {s}
  /\ Promise!Release(s)
  /\ UNCHANGED <<scenario, memVars, diskVars, seekFile, iterators, bg, bgError, rangeVars, used>>

NewIterator ==
  /\ Cardinality(iterators) < scenario.iterators
  /\ iterators' = iterators \cup {version}
  /\ UNCHANGED <<scenario, memVars, diskVars, seekFile, snapshots, promised, bg, bgError, rangeVars, used>>

CloseIterator(v) ==
  /\ iterators' = iterators \ {v}
  /\ UNCHANGED <<scenario, memVars, diskVars, seekFile, snapshots, promised, bg, bgError, rangeVars, used>>

\* A file that too many reads found nothing in is to be compacted (UpdateStats): Get
\* charges the first file it read when it read a second one, RecordReadSample the first of
\* two that may hold the key.
ChargeSeek(k, s) ==
  /\ used.seeks < scenario.seeks /\ seekFile = None
  /\ LET files == FilesFor(version, k, s)
     IN \E first \in files :
          /\ files # {first} /\ \A f \in files \ {first} : ReadBefore(first, f)
          /\ seekFile' = first
  /\ used' = [used EXCEPT !.seeks = @ + 1]
  /\ UNCHANGED <<scenario, memVars, diskVars, readVars, bg, bgError, rangeVars>>

\* CompactRange: the deepest level with files in the range, then the memtable.
CompactRange(lo, hi) ==
  /\ <<lo, hi>> \notin used.ranges /\ range.at = "none"
  /\ used' = [used EXCEPT !.ranges = @ \cup {<<lo, hi>>}]
  /\ range' = [at |-> "switch", level |-> 0, from |-> lo, lo |-> lo, hi |-> hi,
               last |-> Max({1} \cup {l \in Levels \ {0} : OverlapInLevel(version, l, lo, hi)})]
  /\ UNCHANGED <<scenario, memVars, diskVars, seekFile, readVars, bg, bgError, manual>>

\* TEST_CompactMemTable: an empty memtable is replaced too.
RangeSwitches ==
  /\ range.at = "switch"
  /\ imm = None /\ ~bgError
  /\ imm' = mem /\ mem' = {}
  /\ range' = [range EXCEPT !.at = "flush"]
  /\ UNCHANGED <<scenario, lastSequence, diskVars, seekFile, readVars, bg, bgError, manual, used>>

RangeFlushed ==
  /\ range.at = "flush" /\ imm = None
  /\ range' = [range EXCEPT !.at = "level"]
  /\ UNCHANGED <<scenario, memVars, diskVars, seekFile, readVars, bg, bgError, manual, used>>

\* TEST_CompactRange claims manual_compaction_, again for each part of a level.
RangeClaims ==
  /\ range.at = "level" /\ manual = None /\ ~bgError
  /\ manual' = [level |-> range.level, lo |-> range.lo, hi |-> range.hi]
  /\ range' = [range EXCEPT !.at = "wait"]
  /\ UNCHANGED <<scenario, memVars, diskVars, seekFile, readVars, bg, bgError, used>>

\* An error ends the call at whatever it waits for.
RangeAborts ==
  /\ range.at # "none" /\ bgError
  /\ range' = Idle /\ manual' = None
  /\ UNCHANGED <<scenario, memVars, diskVars, seekFile, readVars, bg, bgError, used>>

-----------------------------------------------------------------------------
(* The background thread *)

\* The versions referenced besides the current one: by iterators, by the compaction.
Referenced == iterators \cup (IF bg.at = "none" THEN {} ELSE {bg.base})
TablesOf(v) == UNION {{f.number : f \in Range(v[l])} : l \in Levels}

\* Mutant of KeptTables: the outputs of a merge are not pending.
KeptWithoutPending(v, refs, pending) == TablesOf(v) \cup UNION {TablesOf(w) : w \in refs}

\* DeleteObsoleteFiles, for tables: what is pending or in a referenced version stays.
KeptTables(v, refs, pending) ==
  TablesOf(v) \cup (UNION {TablesOf(w) : w \in refs}) \cup pending

Pending == IF bg.at = "none" THEN {} ELSE {f.number : f \in Range(bg.outputs)}

\* Mutant of Install: the new version keeps the file to be compacted for its seeks.
InstallWithSeekFile(deleted, added) ==
  /\ version' = Edited(version, deleted, added)
  /\ UNCHANGED seekFile

\* LogAndApply installs the edited version.
Install(deleted, added) ==
  /\ version' = Edited(version, deleted, added)
  /\ seekFile' = None

\* CompactMemTable, on its own or while DoCompactionWork still has output to write, then
\* also after an error. A memtable without entries gives no table.
Flush ==
  /\ imm # None
  /\ IF bg.at = "none" THEN ~bgError ELSE bg.todo # <<>>
  /\ LET file == Table(nextFile, imm)
         level == PickLevelForMemTableOutput(version, FirstKey(file), LastKey(file), scenario.target)
     IN Install({}, IF imm = {} THEN <<>> ELSE << <<level, file>> >>)
  /\ imm' = None /\ nextFile' = nextFile + 1
  /\ tables' = LET all == tables \cup IF imm = {} THEN {} ELSE {nextFile}
               IN IF bgError THEN all ELSE all \cap KeptTables(version', Referenced, Pending)
  /\ UNCHANGED <<scenario, mem, lastSequence, pointers, readVars, bg, bgError, rangeVars, used>>

\* The table or the manifest cannot be written: a compaction under way goes on.
FlushFails ==
  /\ scenario.fails /\ imm # None /\ ~bgError
  /\ bg.at = "merge" => bg.todo # <<>>
  /\ bgError' = TRUE
  /\ UNCHANGED <<scenario, memVars, diskVars, seekFile, readVars, bg, rangeVars, used>>

LevelTooFull == FullestLevels(version) # {}

\* Mutant of OldestSnapshot: snapshots are not looked at.
SnapshotOfNow == lastSequence

\* smallest_snapshot
OldestSnapshot == IF snapshots = {} THEN lastSequence ELSE Min(snapshots)

\* DoCompactionWork begins: what will be written depends on the inputs, on the oldest
\* snapshot of now and on the version of now alone.
Work(c, isManual) ==
  /\ bg' = [at |-> "merge", manual |-> isManual, level |-> c.level, inputs |-> c.inputs,
            base |-> version, outputs |-> <<>>,
            todo |-> Outputs(version, c, OldestSnapshot, scenario.target)]
  /\ pointers' = [pointers EXCEPT ![c.level] = c.pointer]
  /\ UNCHANGED <<version, seekFile>>

\* PickCompaction: for a full level if there is one, else for a file read in vain.
Picked ==
  IF LevelTooFull
  THEN {PickForSize(version, l, pointers, scenario.target) : l \in FullestLevels(version)}
  ELSE IF seekFile # None
       THEN {PickForSeeks(version, seekFile[1], seekFile[2], scenario.target)} ELSE {}

\* BackgroundCompaction without a memtable to flush and without a manual request.
CompactPicked ==
  /\ bg.at = "none" /\ imm = None /\ manual = None /\ ~bgError
  /\ \E c \in Picked :
       IF IsTrivialMove(c, scenario.target)
       THEN /\ Install({<<c.level, c.inputs[1][1].number>>}, << <<c.level + 1, c.inputs[1][1]>> >>)
            /\ pointers' = [pointers EXCEPT ![c.level] = c.pointer]
            /\ UNCHANGED bg
       ELSE Work(c, FALSE)
  /\ UNCHANGED <<scenario, memVars, tables, nextFile, readVars, bgError, rangeVars, used>>

\* A manual request with nothing (left) to do: the call goes on to the next level.
ManualDone ==
  /\ bg.at = "none" /\ imm = None /\ manual # None /\ ~bgError
  /\ Overlapping(version, manual.level, manual.lo, manual.hi) = <<>>
  /\ manual' = None
  /\ range' = IF range.level + 1 < range.last
              THEN [range EXCEPT !.at = "level", !.level = @ + 1, !.lo = range.from]
              ELSE Idle
  /\ UNCHANGED <<scenario, memVars, diskVars, seekFile, readVars, bg, bgError, used>>

CompactManual ==
  /\ bg.at = "none" /\ imm = None /\ manual # None /\ ~bgError
  /\ Overlapping(version, manual.level, manual.lo, manual.hi) # <<>>
  /\ \E c \in {PickForRange(version, manual.level, manual.lo, manual.hi, scenario.target)} : Work(c, TRUE)
  /\ UNCHANGED <<scenario, memVars, tables, nextFile, readVars, bgError, rangeVars, used>>

\* One output file is built, synced and opened.
WriteOutput ==
  /\ bg.at = "merge" /\ bg.todo # <<>>
  /\ bg' = [bg EXCEPT !.outputs = Append(@, Table(nextFile, Head(bg.todo))),
                      !.todo = Tail(@)]
  /\ tables' = tables \cup {nextFile}
  /\ nextFile' = nextFile + 1
  /\ UNCHANGED <<scenario, memVars, version, pointers, seekFile, readVars, bgError, rangeVars, used>>

\* The manual request ends, for now: what is left of the level begins where this part ended.
\* (If its caller withdrew it after an error, the process dies here of a null pointer.)
GiveBack(failed) ==
  IF ~bg.manual THEN UNCHANGED rangeVars
  ELSE /\ manual # None /\ manual' = None
       /\ range' = IF failed THEN Idle
                   ELSE [range EXCEPT !.at = "level", !.lo = LastKey(Last(bg.inputs[1]))]

InstallCompactionResults ==
  /\ bg.at = "merge" /\ bg.todo = <<>>
  /\ Install({<<bg.level, f.number>> : f \in Range(bg.inputs[1])}
               \cup {<<bg.level + 1, f.number>> : f \in Range(bg.inputs[2])},
             [i \in DOMAIN bg.outputs |-> <<bg.level + 1, bg.outputs[i]>>])
  /\ tables' = IF bgError THEN tables ELSE tables \cap KeptTables(version', iterators, {})
  /\ GiveBack(FALSE)
  /\ bg' = Idle
  /\ UNCHANGED <<scenario, memVars, pointers, nextFile, readVars, bgError, used>>

\* A table or the manifest cannot be written: the outputs stay, as after any error, and no
\* background work is scheduled any more.
CompactionFails ==
  /\ bg.at = "merge" /\ scenario.fails
  /\ bgError' = TRUE
  /\ GiveBack(TRUE)
  /\ bg' = Idle
  /\ UNCHANGED <<scenario, memVars, diskVars, seekFile, readVars, used>>

Background ==
  \/ Flush \/ CompactPicked \/ ManualDone \/ CompactManual \/ WriteOutput
  \/ InstallCompactionResults

RangeSteps == RangeSwitches \/ RangeFlushed \/ RangeClaims \/ RangeAborts

Next ==
  \/ \E p \in scenario.puts : Write(p[1], p[2])
  \/ SwitchMemTable \/ GetSnapshot \/ NewIterator
  \/ \E s \in snapshots : ReleaseSnapshot(s)
  \/ \E v \in iterators : CloseIterator(v)
  \/ \E k \in Keys : \E s \in snapshots \cup {lastSequence} : ChargeSeek(k, s)
  \/ \E r \in scenario.ranges : CompactRange(r[1], r[2])
  \/ RangeSteps \/ Background \/ FlushFails \/ CompactionFails

Spec == Init /\ [][Next]_vars
-----------------------------------------------------------------------------
(* Properties *)

Files(v, l) == Range(v[l])

\* Of type correctness: every level's files are in order and have numbers of their own, and
\* a file to be compacted for its seeks is in its level and has a next level to go to.
TypeOK ==
  /\ \A l \in Levels : \A i \in 2..Len(version[l]) :
       BySmallestKey(version[l][i - 1], version[l][i])
  /\ \A l \in Levels : \A f \in Files(version, l) : f.entries # {} /\ f.number < nextFile
  /\ \A l, m \in Levels : l # m => {f.number : f \in Files(version, l)}
                                     \cap {f.number : f \in Files(version, m)} = {}
  /\ seekFile # None => seekFile[1] + 1 \in Levels /\ seekFile[2] \in Files(version, seekFile[1])
  /\ range.at = "none" => manual = None

\* Files of one level above 0 do not overlap, which the binary search of FindFile needs:
\* neither a merge nor a flush during it puts a file over another (Builder::SaveTo).
LevelsDisjoint ==
  \A l \in Levels \ {0} : \A i \in 2..Len(version[l]) :
    Before(version[l][i - 1].largest, version[l][i].smallest)

\* Of one user key, what is in a level is newer than what is in a deeper one, and of level 0
\* newer in files of higher number: a read may stop at what it finds first (Version::Get).
NewerAbove ==
  /\ \A l, m \in Levels : l < m =>
       \A f \in Files(version, l), g \in Files(version, m) :
         \A e \in f.entries, d \in g.entries : e[1] = d[1] => e[2] > d[2]
  /\ \A f, g \in Files(version, 0) : f.number > g.number =>
       \A e \in f.entries, d \in g.entries : e[1] = d[1] => e[2] > d[2]

\* No table is deleted that the current version, an open iterator or the compaction under
\* way still needs (DeleteObsoleteFiles, pending_outputs_, AddLiveFiles).
TablesKept ==
  \A n \in TablesOf(version) \cup (UNION {TablesOf(v) : v \in Referenced}) \cup Pending : n \in tables

\* DBImpl::Get at sequence s
Read(k, s) ==
  IF Newest(mem, k, s) # None THEN Newest(mem, k, s)
  ELSE IF imm # None /\ Newest(imm, k, s) # None THEN Newest(imm, k, s)
  ELSE Get(version, k, s)

\* Reads find the last write, and a snapshot shows the same for as long as it is open: no
\* flush, merge or move of a file, and no entry they drop, changes what Get returns.
ReadsKept ==
  LET value(e) == IF e = None \/ e[3] = "deletion" THEN None ELSE e[2]
  IN /\ \A k \in Keys : value(Read(k, lastSequence)) = latest[k]
     /\ \A s \in snapshots, k \in Keys : value(Read(k, s)) = frozen[s][k]
=============================================================================
