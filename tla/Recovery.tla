------------------------------ MODULE Recovery ------------------------------
(***************************************************************************)
(* leveldb's files across crashes: what DB::Open, the writers, the         *)
(* background thread and RepairDB create, sync, rename and delete, in that *)
(* order (db/db_impl.cc, db/version_set.cc, db/repair.cc), and what the    *)
(* next Open makes of the files a crash leaves.  Keys and levels are left  *)
(* to Compaction, the threads to WriteQueue.                               *)
(*                                                                         *)
(* The file system is assumed to journal: changes of the directory become  *)
(* durable in order, any sync makes those before it durable, and of what   *)
(* was appended to a file since its last sync a crash leaves a prefix.     *)
(***************************************************************************)
EXTENDS LogFormat, FiniteSets

CONSTANTS
  None,
  Scenarios   \* [writes, over all lives of the process; sizes: of log records; kinds,
              \*  crashes: the kinds and bound of crashes; full: memtables may be full;
              \*  reuse: reuse_logs; partial: deletions may fail; fails, merges, repairs: bounds]

\* The background work under way: a flush, or a merge of its input tables into another.
Jobs == [at : {"build", "log", "sync", "delete"}, inputs : SUBSET Nat, out : Nat]

ASSUME NoneAssumption == None \notin Nat \cup Jobs
\* With reuse_logs, what a manifest was given is never synced again when it is reused, and a
\* repair that finds no log and no table writes a manifest that gives its own number again.
\* RepairDB reads logs without checking checksums: what it makes of what follows a fragment
\* that was cut is not modelled.
ASSUME ScenariosAssumption ==
    \A s \in Scenarios : /\ s.repairs \in Nat /\ s.sizes \subseteq Nat
                         /\ s.reuse \in BOOLEAN
                         /\ s.reuse => "machine" \notin s.kinds
                         /\ s.reuse \/ s.fails > 0 => s.repairs = 0

VARIABLES
  scenario,
  dirs,       \* the directory after each change since the last sync; the last is current
  log,        \* the contents of log files, by number; .synced units are durable
  manifest,   \* of manifests: the versions their edits lead to; .synced are durable
  table,      \* the entries of the tables that have been finished
  at,         \* where the process is
  vs,         \* VersionSet: [tables, log, seq, next, number, logged]
  logNumber,  \* logfile_number_
  ahead,      \* by how much block_offset_ is ahead of the end of the log
  mem, imm,   \* the entries of mem_, and of imm_ if there is one: it has some
  todo,       \* logs still to be replayed or converted; files found
  fresh,      \* save_manifest
  writer,     \* the write under way
  job,        \* the background work under way, one of Jobs
  bgError,
  promised,   \* acknowledged writes that must survive, which of them were synced, and with
              \* which of them the log was sound
  created,    \* whether an Open has succeeded, and a sync since then; a repair is unfinished
  used        \* writes, crashes, failures, merges and repairs so far

memory == <<at, vs, logNumber, ahead, mem, imm, todo, fresh, writer, job, bgError>>
disk == <<dirs, log, manifest, table>>
ghosts == <<promised, created>>
vars == <<scenario, disk, memory, ghosts, used>>

EmptyDir == [logs |-> {}, manifests |-> {}, tables |-> {}, current |-> None]
Dir == Last(dirs)
NoVersion == [tables |-> {}, log |-> 0, seq |-> 0, next |-> 2, number |-> 0, logged |-> FALSE]

\* f with x at n, whether or not n was there.
With(f, n, x) == [m \in DOMAIN f \cup {n} |-> IF m = n THEN x ELSE f[m]]

\* What a directory change leaves, and what a sync makes durable.
Changed(d) == Append(dirs, d)
Synced == <<Dir>>

\* SetCurrentFile: a temporary file is written, synced and renamed to CURRENT.
SetCurrentFile(n) == dirs' = <<Dir, [Dir EXCEPT !.current = n]>>

\* What a record of a manifest says once all before it are applied.
State(v) == [tables |-> v.tables, log |-> v.log, seq |-> v.seq, next |-> v.next]

\* Entries carry their sequence number and the number of the write.
EntriesOf(n) == Range(RecordsOf(log[n].file))
NewLog(n) == log' = With(log, n, [file |-> EmptyFile, synced |-> 0])

ForgetMemory ==
  /\ vs' = NoVersion /\ logNumber' = 0 /\ ahead' = 0 /\ mem' = {} /\ imm' = {} /\ todo' = <<>>
  /\ fresh' = FALSE /\ writer' = None /\ job' = None /\ bgError' = FALSE

Init ==
  /\ scenario \in Scenarios
  /\ dirs = <<EmptyDir>> /\ log = <<>> /\ manifest = <<>> /\ table = <<>>
  /\ at = "down" /\ vs = NoVersion /\ logNumber = 0 /\ ahead = 0 /\ mem = {} /\ imm = {}
  /\ todo = <<>>
  /\ fresh = FALSE /\ writer = None /\ job = None /\ bgError = FALSE
  /\ promised = {} /\ created = "no"
  /\ used = [writes |-> 0, crashes |-> 0, fails |-> 0, merges |-> 0, repairs |-> 0]

-----------------------------------------------------------------------------
(* Files in use *)

\* Mutant of Keeps: the manifest in use counts as an old one.
KeepsNewerManifests(v, pending, f) ==
  CASE f[1] = "log" -> f[2] >= v.log
    [] f[1] = "manifest" -> f[2] > v.number
    [] f[1] = "table" -> f[2] \in v.tables \cup pending

\* What DeleteObsoleteFiles keeps.
Keeps(v, pending, f) ==
  CASE f[1] = "log" -> f[2] >= v.log
    [] f[1] = "manifest" -> f[2] >= v.number
    [] f[1] = "table" -> f[2] \in v.tables \cup pending

Files(d) ==
  ({"log"} \X d.logs) \cup ({"manifest"} \X d.manifests) \cup ({"table"} \X d.tables)

Without(d, files) ==
  [d EXCEPT !.logs = {n \in @ : <<"log", n>> \notin files},
            !.manifests = {n \in @ : <<"manifest", n>> \notin files},
            !.tables = {n \in @ : <<"table", n>> \notin files}]

\* Errors of DeleteFile are ignored, and a crash may come between two of them. After a
\* background error nothing is deleted.
DeleteObsoleteFiles ==
  IF bgError THEN UNCHANGED dirs
  ELSE LET obsolete == {f \in Files(Dir) : ~Keeps(vs, {}, f)} IN
       \E deleted \in (IF scenario.partial THEN SUBSET obsolete ELSE {obsolete}) :
         dirs' = IF deleted = {} THEN dirs ELSE Changed(Without(Dir, deleted))

-----------------------------------------------------------------------------
(* DB::Open *)

\* An unfinished repair is to be repeated: Open would trust the old manifest.
Opening(from) == at = from /\ created # "repair" /\ UNCHANGED <<scenario, ghosts, used>>

\* NewDB: the first manifest is written and closed, not synced.
NewDB ==
  /\ Opening("down") /\ Dir.current = None
  /\ manifest' = With(manifest, 1, [edits |-> <<State(NoVersion)>>, synced |-> 0])
  /\ dirs' = Changed([Dir EXCEPT !.manifests = @ \cup {1}])
  /\ at' = "newdb"
  /\ UNCHANGED <<log, table, vs, logNumber, ahead, mem, imm, todo, fresh, writer,
                 job, bgError>>

NameFirstManifest ==
  /\ Opening("newdb")
  /\ SetCurrentFile(1)
  /\ at' = "read"
  /\ UNCHANGED <<log, manifest, table, vs, logNumber, ahead, mem, imm, todo, fresh,
                 writer, job, bgError>>

Ascending(S) == {t \in SetToSeqs(S) : \A i \in 2..Len(t) : t[i - 1] < t[i]}
Readable(n) == n \in Dir.manifests /\ manifest[n].edits # <<>>

\* The number after the one reserved for a new manifest.
FirstFree(n) == n + 1

\* VersionSet::Recover and the search for logs: the version of the manifest, whose tables
\* must all be there, and the logs it does not cover, oldest first. The manifest may be
\* appended to if reuse_logs is set and it is not too large.
ReadManifest ==
  /\ Opening("down") \/ Opening("read")
  /\ Dir.current # None
  /\ IF ~Readable(Dir.current) THEN at' = "corrupt" /\ UNCHANGED <<vs, todo, fresh>>
     ELSE LET s == Last(manifest[Dir.current].edits) IN
          IF ~(s.tables \subseteq Dir.tables) THEN at' = "corrupt" /\ UNCHANGED <<vs, todo, fresh>>
          ELSE /\ at' = "replay"
               /\ \E reused \in (IF scenario.reuse THEN BOOLEAN ELSE {FALSE}) :
                    /\ vs' = [tables |-> s.tables, log |-> s.log, seq |-> s.seq,
                              next |-> FirstFree(s.next), logged |-> reused,
                              number |-> IF reused THEN Dir.current ELSE s.next]
                    /\ fresh' = ~reused
               /\ todo' \in Ascending({n \in Dir.logs : n >= s.log})
  /\ UNCHANGED <<disk, logNumber, ahead, mem, imm, writer, job, bgError>>

MaxSeq(entries, seq) == Max({seq} \cup {e[1] : e \in entries})

\* Mutant of SeqAfter: the sequence number stays the manifest's.
SeqAfterManifestOnly(entries, seq) == seq

\* max_sequence, once logs have been replayed
SeqAfter(entries, seq) == MaxSeq(entries, seq)

\* RecoverLogFile: the records of log n go to tables, one more when the memtable is full;
\* the last log stays in use if reuse_logs is set and no table was needed. Tables are synced
\* before they are used. The log's own number is marked as used afterwards.
ReplayRecords(n, records, full) ==
  LET rest == Range(SubSeq(records, full + 1, Len(records)))
      keep == scenario.reuse /\ Len(todo) = 1 /\ full = 0
      first == IF full > 0 THEN {vs.next} ELSE {}
      second == IF keep \/ rest = {} THEN {} ELSE {vs.next + Cardinality(first)}
      new == first \cup second
      next == vs.next + Cardinality(new)
  IN /\ table' = [k \in DOMAIN table \cup new |->
                    IF k \in first THEN Range(SubSeq(records, 1, full))
                    ELSE IF k \in second THEN rest ELSE table[k]]
     /\ dirs' = IF new = {} THEN dirs ELSE <<[Dir EXCEPT !.tables = @ \cup new]>>
     /\ vs' = [vs EXCEPT !.tables = @ \cup new, !.seq = SeqAfter(Range(records), @),
                         !.next = Max({next, n + 1})]
     /\ fresh' = (fresh \/ new # {})
     /\ IF keep THEN mem' = rest /\ logNumber' = n ELSE UNCHANGED <<mem, logNumber>>

ReplayLog ==
  /\ Opening("replay") /\ todo # <<>>
  /\ \E records \in {RecordsOf(log[Head(todo)].file)} :
     \E full \in (IF scenario.full THEN 0..(Len(records) - 1) ELSE {0}) \cup {0} :
       ReplayRecords(Head(todo), records, full)
  /\ todo' = Tail(todo)
  /\ UNCHANGED <<log, manifest, at, ahead, imm, writer, job, bgError>>

\* A new log, unless the last one stays in use.
CreateLog ==
  /\ Opening("replay") /\ todo = <<>>
  /\ IF logNumber # 0 THEN UNCHANGED <<log, dirs, vs, logNumber>>
     ELSE /\ NewLog(vs.next)
          /\ dirs' = Changed([Dir EXCEPT !.logs = @ \cup {vs.next}])
          /\ vs' = [vs EXCEPT !.next = @ + 1]
          /\ logNumber' = vs.next
  /\ at' = IF fresh THEN "save" ELSE "delete"
  /\ UNCHANGED <<manifest, table, ahead, mem, imm, todo, fresh, writer, job, bgError>>

\* LogAndApply of the edit that names the log in use as the oldest one needed: the record
\* goes to a new manifest, or to the one that is reused.
SaveManifest ==
  /\ Opening("save")
  /\ \E v \in {[vs EXCEPT !.log = logNumber]} :
       /\ vs' = v
       /\ IF v.logged
          THEN /\ manifest' = [manifest EXCEPT ![v.number].edits = Append(@, State(v))]
               /\ UNCHANGED dirs
          ELSE /\ manifest' = With(manifest, v.number, [edits |-> <<State(v)>>, synced |-> 0])
               /\ dirs' = Changed([Dir EXCEPT !.manifests = @ \cup {v.number}])
  /\ at' = "sync"
  /\ UNCHANGED <<log, table, logNumber, ahead, mem, imm, todo, fresh, writer, job, bgError>>

\* Mutant of SyncManifest: the directory is synced, the manifest is not.
SyncDirectoryOnly ==
  /\ Opening("sync")
  /\ dirs' = Synced
  /\ at' = IF vs.logged THEN "delete" ELSE "name"
  /\ UNCHANGED <<log, manifest, table, vs, logNumber, ahead, mem, imm, todo, fresh,
                 writer, job, bgError>>

\* The directory is synced with the manifest.
SyncManifest ==
  /\ Opening("sync")
  /\ manifest' = [manifest EXCEPT ![vs.number].synced = Len(manifest[vs.number].edits)]
  /\ dirs' = Synced
  /\ at' = IF vs.logged THEN "delete" ELSE "name"
  /\ UNCHANGED <<log, table, vs, logNumber, ahead, mem, imm, todo, fresh, writer,
                 job, bgError>>

NameManifest ==
  /\ Opening("name")
  /\ SetCurrentFile(vs.number)
  /\ vs' = [vs EXCEPT !.logged = TRUE]
  /\ at' = "delete"
  /\ UNCHANGED <<log, manifest, table, logNumber, ahead, mem, imm, todo, fresh,
                 writer, job, bgError>>

OpenReturns ==
  /\ at = "delete"
  /\ DeleteObsoleteFiles
  /\ at' = "open" /\ created' = IF created = "synced" THEN created ELSE "opened"
  /\ UNCHANGED <<scenario, log, manifest, table, vs, logNumber, ahead, mem, imm, todo, fresh,
                 writer, job, bgError, promised, used>>

MayFail == used.fails < scenario.fails /\ used' = [used EXCEPT !.fails = @ + 1]

\* The manifest cannot be written or named: Open fails, and a new manifest is deleted.
OpenFails ==
  /\ at \in {"sync", "name"} /\ MayFail
  /\ dirs' = IF vs.logged THEN dirs ELSE Changed([Dir EXCEPT !.manifests = @ \ {vs.number}])
  /\ at' = "down" /\ ForgetMemory
  /\ UNCHANGED <<scenario, log, manifest, table, ghosts>>

-----------------------------------------------------------------------------
(* Writers *)

Running == at = "open" /\ UNCHANGED <<scenario, at, todo, fresh>>

NewEntry == <<vs.seq + 1, used.writes + 1>>
MayWrite == Running /\ ~bgError /\ writer = None /\ used.writes < scenario.writes

\* The record of a write is appended to the log.
AppendRecord(n) ==
  /\ MayWrite
  /\ used' = [used EXCEPT !.writes = @ + 1]
  /\ writer' = [entry |-> NewEntry, from |-> log[logNumber].file.size]
  /\ log' = [log EXCEPT ![logNumber].file = AddRecord(@, NewEntry, n, ahead)]
  /\ UNCHANGED <<dirs, manifest, table, vs, logNumber, ahead, mem, imm, job, bgError,
                 promised, created>>

\* The size of a file when the writer comes to fragment j of those that `whole` adds to it.
SizeBefore(file, whole, j) ==
  IF j = Len(file.fragments) + 1 THEN file.size ELSE EndOf(whole.fragments[j - 1])

\* Fragment j cannot be appended, or in part: AddRecord stops, with block_offset_ behind the
\* fragment it meant to write. The write is not applied, though its number is used; the log
\* stays in use, and this is not recorded as a background error.
AppendFails(n) ==
  /\ MayWrite /\ used.fails < scenario.fails
  /\ used' = [used EXCEPT !.writes = @ + 1, !.fails = @ + 1]
  /\ \E file \in {log[logNumber].file} : \E whole \in {AddRecord(file, NewEntry, n, ahead)} :
     \E j \in Len(file.fragments) + 1..Len(whole.fragments) :
     \E size \in SizeBefore(file, whole, j)..EndOf(whole.fragments[j]) :
       /\ log' = [log EXCEPT ![logNumber].file = Truncated(whole, size)]
       /\ ahead' = ahead + EndOf(whole.fragments[j]) - size
  /\ vs' = [vs EXCEPT !.seq = @ + 1]
  /\ UNCHANGED <<dirs, manifest, table, logNumber, mem, imm, writer, job, bgError, promised,
                 created>>

\* Mutant of SyncLog: the file's data is left to the operating system.
SyncNothing == UNCHANGED <<log, dirs>>

\* WritableFile::Sync on the log
SyncLog ==
  /\ log' = [log EXCEPT ![logNumber].synced = log[logNumber].file.size]
  /\ dirs' = Synced

\* The log is synced if the caller asked for it, then the write is applied and acknowledged.
EndWrite(sync) ==
  /\ Running /\ writer # None
  /\ IF sync THEN SyncLog ELSE UNCHANGED <<log, dirs>>
  /\ mem' = mem \cup {writer.entry}
  /\ vs' = [vs EXCEPT !.seq = @ + 1]
  /\ created' = IF sync THEN "synced" ELSE created
  /\ promised' = promised \cup {[write |-> writer.entry[2], synced |-> sync,
                                     sound |-> Sound(log[logNumber].file)]}
  /\ writer' = None
  /\ UNCHANGED <<manifest, table, logNumber, ahead, imm, job, bgError, used>>

\* The sync fails: the state of the log is unknown, and later writes are refused. The
\* write is not applied, though its number is used.
SyncFails ==
  /\ Running /\ writer # None /\ MayFail
  /\ bgError' = TRUE /\ writer' = None
  /\ vs' = [vs EXCEPT !.seq = @ + 1]
  /\ UNCHANGED <<disk, logNumber, ahead, mem, imm, job, promised, created>>

\* MakeRoomForWrite: a new log for a new memtable.
SwitchMemTable ==
  /\ Running /\ ~bgError /\ writer = None /\ imm = {} /\ mem # {}
  /\ NewLog(vs.next)
  /\ dirs' = Changed([Dir EXCEPT !.logs = @ \cup {vs.next}])
  /\ logNumber' = vs.next /\ ahead' = 0 /\ vs' = [vs EXCEPT !.next = @ + 1]
  /\ imm' = mem /\ mem' = {}
  /\ UNCHANGED <<manifest, table, writer, job, bgError, promised, used, created>>

-----------------------------------------------------------------------------
(* The background thread *)

\* The oldest log needed once the job is done: a flush makes the earlier ones superfluous.
FlushedLog(j) == IF j.inputs = {} THEN logNumber ELSE vs.log

\* Tables are created anew: what was in files of their numbers is gone.
TablesWithout(S) == [n \in DOMAIN table \ S |-> table[n]]

\* Mutant of StartTable: the number of the table is given again.
StartTableKeepNumber(inputs) ==
  /\ Running /\ job = None /\ ~bgError
  /\ job' = [at |-> "build", inputs |-> inputs, out |-> vs.next]
  /\ table' = TablesWithout({vs.next})
  /\ dirs' = Changed([Dir EXCEPT !.tables = @ \cup {vs.next}])
  /\ UNCHANGED <<log, manifest, vs, logNumber, ahead, mem, imm, writer, bgError,
                 promised, created>>

StartTable(inputs) ==
  /\ Running /\ job = None /\ ~bgError
  /\ job' = [at |-> "build", inputs |-> inputs, out |-> vs.next]
  /\ vs' = [vs EXCEPT !.next = @ + 1]
  /\ table' = TablesWithout({vs.next})
  /\ dirs' = Changed([Dir EXCEPT !.tables = @ \cup {vs.next}])
  /\ UNCHANGED <<log, manifest, logNumber, ahead, mem, imm, writer, bgError,
                 promised, created>>

\* CompactMemTable: a table of the full memtable is begun.
StartFlush == imm # {} /\ StartTable({}) /\ UNCHANGED used

\* DoCompactionWork: one of several tables' entries.
StartMerge ==
  /\ imm = {} /\ used.merges < scenario.merges
  /\ used' = [used EXCEPT !.merges = @ + 1]
  /\ \E inputs \in SUBSET vs.tables : Cardinality(inputs) = 2 /\ StartTable(inputs)

Working(from) == Running /\ job # None /\ job.at = from

\* The table, of the full memtable's entries or those of its inputs, is finished, synced
\* and closed.
FinishTable ==
  /\ Working("build")
  /\ table' = With(table, job.out,
                   IF job.inputs = {} THEN imm ELSE UNION {table[n] : n \in job.inputs})
  /\ dirs' = Synced
  /\ job' = [job EXCEPT !.at = "log"]
  /\ UNCHANGED <<log, manifest, vs, logNumber, ahead, mem, imm, writer, bgError,
                 promised, used, created>>

\* The version the job leads to.
Edited(j) == [vs EXCEPT !.tables = (@ \ j.inputs) \cup {j.out}, !.log = FlushedLog(j)]

\* LogAndApply appends the edit to the manifest, syncs it and installs the version, with
\* mutex_ unlocked up to there.
LogEdit ==
  /\ Working("log")
  /\ manifest' = [manifest EXCEPT ![vs.number].edits = Append(@, State(Edited(job)))]
  /\ job' = [job EXCEPT !.at = "sync"]
  /\ UNCHANGED <<dirs, log, table, vs, logNumber, ahead, mem, imm, writer, bgError,
                 promised, used, created>>

InstallEdit ==
  /\ Working("sync")
  /\ manifest' = [manifest EXCEPT ![vs.number].synced = Len(manifest[vs.number].edits)]
  /\ dirs' = Synced
  /\ vs' = Edited(job)
  /\ created' = "synced"
  /\ imm' = IF job.inputs = {} THEN {} ELSE imm
  /\ job' = [job EXCEPT !.at = "delete"]
  /\ UNCHANGED <<log, table, logNumber, ahead, mem, writer, bgError, promised, used>>

JobDone ==
  /\ Working("delete")
  /\ DeleteObsoleteFiles
  /\ job' = None
  /\ UNCHANGED <<log, manifest, table, vs, logNumber, ahead, mem, imm, writer,
                 bgError, promised, used, created>>

\* The table cannot be written, and a flush deletes it; or the manifest cannot, and nobody
\* knows what is in it.
JobFails ==
  /\ Running /\ job # None /\ job.at \in {"build", "sync"} /\ MayFail
  /\ bgError' = TRUE /\ job' = None
  /\ dirs' = IF job.at = "build" /\ job.inputs = {}
             THEN Changed([Dir EXCEPT !.tables = @ \ {job.out}]) ELSE dirs
  /\ UNCHANGED <<log, manifest, table, vs, logNumber, ahead, mem, imm, writer,
                 promised, created>>

-----------------------------------------------------------------------------
(* The end of the process *)

Crashed ==
  /\ at # "down" /\ used.crashes < scenario.crashes
  /\ used' = [used EXCEPT !.crashes = @ + 1]
  /\ at' = "down" /\ ForgetMemory
  /\ UNCHANGED scenario

\* The process ends, also by closing the database. A record under way may be cut anywhere:
\* it is appended in parts, of a fragment its header and its payload.
ProcessEnds ==
  /\ "process" \in scenario.kinds /\ Crashed
  /\ IF writer = None THEN UNCHANGED log
     ELSE \E size \in writer.from..log[logNumber].file.size :
            log' = [log EXCEPT ![logNumber].file = Truncated(@, size)]
  /\ UNCHANGED <<dirs, manifest, table, promised, created>>

\* How much a crash may leave of a log: where it was synced, or up to a fragment's end or
\* short of it.
LogSizes(n) ==
  {k \in {log[n].synced, log[n].file.size}
      \cup UNION {{EndOf(f), EndOf(f) - 1} : f \in Range(log[n].file.fragments)} :
     log[n].synced <= k /\ k <= log[n].file.size}

\* One choice for every file.
Outcomes(files, of(_)) ==
  {c \in [files -> UNION {of(n) : n \in files}] : \A n \in files : c[n] \in of(n)}

\* The machine stops: what was not synced may be lost, each file's part from its end.
MachineCrashes ==
  /\ "machine" \in scenario.kinds /\ Crashed
  /\ \E i \in DOMAIN dirs :
       /\ dirs' = <<dirs[i]>>
       /\ \E size \in Outcomes(dirs[i].logs, LogSizes) :
            log' = [n \in dirs[i].logs |-> [file |-> Truncated(log[n].file, size[n]), synced |-> size[n]]]
       /\ \E count \in Outcomes(dirs[i].manifests,
                               LAMBDA n : manifest[n].synced..Len(manifest[n].edits)) :
            manifest' = [n \in dirs[i].manifests |->
                           [edits |-> SubSeq(manifest[n].edits, 1, count[n]), synced |-> count[n]]]
       /\ table' = TablesWithout(DOMAIN table \ dirs[i].tables)
  /\ promised' = {p \in promised : p.synced}
  /\ created' = IF created \in {"synced", "repair"} THEN created ELSE "no"

-----------------------------------------------------------------------------
(* RepairDB *)

Repairing(from) ==
  /\ at = from
  /\ UNCHANGED <<scenario, promised, used, logNumber, ahead, mem, imm, fresh, writer,
                 job, bgError>>

\* FindFiles: the logs and tables there are, in whatever order the directory lists them.
StartRepair ==
  /\ at \in {"down", "corrupt"} /\ dirs # <<EmptyDir>> /\ used.repairs < scenario.repairs
  /\ used' = [used EXCEPT !.repairs = @ + 1]
  /\ todo' \in SetToSeqs(Dir.logs)
  /\ vs' = [NoVersion EXCEPT !.tables = Dir.tables,
                             !.next = 1 + Max({0} \cup Dir.logs \cup Dir.tables)]
  /\ at' = "convert" /\ created' = "repair"
  /\ UNCHANGED <<scenario, disk, promised, logNumber, ahead, mem, imm, fresh, writer,
                 job, bgError>>

\* ConvertLogToTable: what can be read of a log becomes a synced table, if it is anything.
ConvertLogToTable ==
  /\ Repairing("convert") /\ todo # <<>>
  /\ \E entries \in {EntriesOf(Head(todo))} :
       IF entries = {} THEN vs' = [vs EXCEPT !.next = @ + 1] /\ UNCHANGED <<table, dirs>>
       ELSE /\ table' = With(table, vs.next, entries)
            /\ dirs' = <<[Dir EXCEPT !.tables = @ \cup {vs.next}]>>
            /\ vs' = [vs EXCEPT !.tables = @ \cup {vs.next}, !.next = @ + 1]
  /\ at' = "archive"
  /\ UNCHANGED <<log, manifest, todo, created>>

\* ArchiveFile
ArchiveLog ==
  /\ Repairing("archive")
  /\ dirs' = Changed(Without(Dir, {<<"log", Head(todo)>>}))
  /\ todo' = Tail(todo)
  /\ at' = "convert"
  /\ UNCHANGED <<log, manifest, table, vs, created>>

\* ExtractMetaData: a table that cannot be read is archived.
ExtractMetaData ==
  /\ Repairing("convert") /\ todo = <<>>
  /\ \E bad \in {vs.tables \ DOMAIN table} :
       /\ dirs' = IF bad = {} THEN dirs ELSE Changed(Without(Dir, {"table"} \X bad))
       /\ vs' = [vs EXCEPT !.tables = @ \ bad]
  /\ at' = "describe"
  /\ UNCHANGED <<log, manifest, table, todo, created>>

\* WriteDescriptor: the earlier manifests make way for one with all tables, which is not
\* synced; CURRENT is to name it.
WriteDescriptor ==
  /\ Repairing("describe")
  /\ \E seq \in {MaxSeq(UNION {table[n] : n \in vs.tables}, 0)} :
       manifest' = With(manifest, 1, [edits |-> <<State([vs EXCEPT !.seq = seq])>>, synced |-> 0])
  /\ dirs' = Append(Changed([Dir EXCEPT !.manifests = {}]), [Dir EXCEPT !.manifests = {1}])
  /\ at' = "install"
  /\ UNCHANGED <<log, table, vs, todo, created>>

InstallDescriptor ==
  /\ Repairing("install")
  /\ SetCurrentFile(1)
  /\ at' = "down" /\ vs' = NoVersion /\ created' = "no"
  /\ UNCHANGED <<log, manifest, table, todo>>

-----------------------------------------------------------------------------
Next ==
  \/ NewDB \/ NameFirstManifest \/ ReadManifest \/ ReplayLog \/ CreateLog
  \/ SaveManifest \/ SyncManifest \/ NameManifest \/ OpenReturns \/ OpenFails
  \/ \E n \in scenario.sizes : AppendRecord(n) \/ AppendFails(n)
  \/ \E sync \in BOOLEAN : EndWrite(sync)
  \/ SyncFails \/ SwitchMemTable
  \/ StartFlush \/ StartMerge \/ FinishTable \/ LogEdit \/ InstallEdit \/ JobDone \/ JobFails
  \/ ProcessEnds \/ MachineCrashes
  \/ StartRepair \/ ConvertLogToTable \/ ArchiveLog \/ ExtractMetaData
  \/ WriteDescriptor \/ InstallDescriptor

Spec == Init /\ [][Next]_vars

-----------------------------------------------------------------------------
(* Properties *)

\* What reads find.
Visible == mem \cup imm \cup UNION {table[n] : n \in vs.tables}

\* Of type correctness: what the open database works with is in the directory.
TypeOK ==
  /\ at = "open" =>
       /\ Dir.current = vs.number /\ vs.number \in Dir.manifests
       /\ logNumber \in Dir.logs /\ vs.log <= logNumber /\ logNumber < vs.next
       /\ vs.tables \subseteq Dir.tables /\ \A n \in vs.tables : n < vs.next
  /\ writer # None \/ job # None => at = "open"

\* Every table in use has been finished, and its number is given to no other file, whatever
\* numbers the logs, tables and manifests of earlier lives have.
TablesFinished == at = "open" => vs.tables \subseteq DOMAIN table

Lost(p) == \A e \in Visible : e[2] # p.write

\* No acknowledged write is lost when the process ends, and none that was synced when the
\* machine crashes, at whatever step of a write, a flush, a merge, an Open or a repair
\* (options.h, WriteOptions::sync): none at all without reuse_logs as long as nothing failed,
\* and otherwise none that went to a log in which every fragment could be read.
AckedKept ==
  at = "open" =>
    \A p \in promised : Lost(p) => ~p.sound /\ (scenario.reuse \/ used.fails > 0)

\* A database that has been opened can always be opened again, unless the machine crashes
\* before anything in it was synced: the first manifest is not (NewDB).
CanReopen == created \in {"opened", "synced"} => at # "corrupt"

\* After any crash, sequence numbers go on behind those of all entries that survived, and
\* no two entries share one. A repair may bring back obsolete files, whose numbers were
\* given again since.
SequencesFresh ==
  at = "open" => /\ \A e \in Visible : e[1] <= vs.seq
                 /\ used.repairs = 0 => \A d, e \in Visible : d[1] = e[1] => d = e
=============================================================================
