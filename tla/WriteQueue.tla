----------------------------- MODULE WriteQueue -----------------------------
(***************************************************************************)
(* leveldb's write path (db/db_impl.cc): callers queue in DBImpl::Write,   *)
(* the one at the front writes the batches of a whole group to the log and *)
(* to the memtable without the mutex, and the background thread moves full *)
(* memtables into tables and merges level 0. A step is one critical        *)
(* section of mutex_, or the unlocked work between two of them.            *)
(***************************************************************************)
EXTENDS Naturals, Sequences, FiniteSets, SequencesExt

CONSTANTS Threads, None,
  MaxCalls,        \* bound: calls made in a behaviour
  Scenarios,       \* who calls what, and what may fail: [threads, calls, closes, faults]
  BufferSize,      \* options_.write_buffer_size, in entries
  SmallBatch, MaxGroup,                          \* BuildBatchGroup's limits, in entries
  CompactionTrigger, SlowdownTrigger, StopTrigger  \* config::kL0_*

ASSUME TriggersAssumption ==
  /\ {CompactionTrigger, SlowdownTrigger, StopTrigger} \subseteq Nat \ {0}
  /\ CompactionTrigger <= SlowdownTrigger /\ SlowdownTrigger <= StopTrigger

ASSUME ThreadsAssumption == IsFiniteSet(Threads)
ASSUME ScenariosAssumption ==
  \A s \in Scenarios : \A r \in s.calls : r.sync \in BOOLEAN /\ r.count \in Nat

\* None stands for a null pointer, and for a Writer that has no answer yet.
ASSUME NoneAssumption == None \notin BOOLEAN \cup Threads

VARIABLES
  scenario,
  pc, req, status,       \* of each thread: where it is, its call, its Writer's status
  asleep,                \* threads blocked in a condition variable's Wait
  writers,               \* writers_
  todo,                  \* the entries of the group under way: <<sequence, call>>
  leaders,               \* how many writers the front writer's group has
  mem, imm,              \* the entries of mem_; {} for a null imm_, or {its entries}
  tables, level0,        \* the entries in tables, the number of level-0 tables
  lastSequence,
  logNumber, minLog, nextFile,   \* logfile_number_, versions_->LogNumber(), NextFileNumber
  logs, synced,          \* records in log files: <<file, entry>>; those Sync has covered
  bg,                    \* the background thread: [at, nested, manual, inputs, log]
  scheduled,             \* bg_compaction_scheduled_
  bgError, shuttingDown,
  manual, manualDone,    \* manual_compaction_, and the requests that are done
  faults,                \* the failures that may still happen
  calls, acked           \* calls made; those answered OK: <<call, sync>>

threadVars == <<pc, req, status, asleep>>
storeVars == <<mem, imm, tables, level0, lastSequence>>
logVars == <<logNumber, minLog, nextFile, logs, synced>>
bgVars == <<bg, scheduled, bgError, shuttingDown>>
manualVars == <<manual, manualDone>>
vars == <<scenario, threadVars, writers, todo, leaders, storeVars, logVars, bgVars,
          manualVars, faults, calls, acked>>

NoCall == [id |-> 0, sync |-> FALSE, count |-> 0, delayed |-> FALSE]
NotRunning == [at |-> "none", nested |-> FALSE, manual |-> FALSE, inputs |-> 0, log |-> 0]

Init ==
  /\ scenario \in Scenarios
  /\ pc = [t \in Threads |-> "idle"]
  /\ req = [t \in Threads |-> NoCall]
  /\ status = [t \in Threads |-> None]
  /\ asleep = {} /\ writers = <<>> /\ todo = <<>> /\ leaders = 0
  /\ mem = {} /\ imm = {} /\ tables = {} /\ level0 = 0 /\ lastSequence = 0
  /\ logNumber = 3 /\ minLog = 3 /\ nextFile = 4 /\ logs = {} /\ synced = {}
  /\ bg = NotRunning /\ scheduled = FALSE /\ bgError = FALSE /\ shuttingDown = FALSE
  /\ manual = None /\ manualDone = {}
  /\ faults = scenario.faults /\ calls = 0 /\ acked = {}

-----------------------------------------------------------------------------
(* Helpers: condition variables, scheduling, leaving the queue *)

Fails(kind) == kind \in faults /\ faults' = faults \ {kind}
Works == UNCHANGED faults

\* The threads bg_cv_.SignalAll() wakes: those that wait for background work.
AfterSignalAll(sleepers) ==
  {t \in sleepers : pc[t] \notin {"room", "flush", "manual", "close"}}

\* versions_->NeedsCompaction() with n level-0 tables
NeedsCompaction(n) == n >= CompactionTrigger

\* Env::Schedule puts an item into the queue of the background thread, which takes it.
Schedule == bg' = [NotRunning EXCEPT !.at = "queued"]
ItemReady == bg.at = "queued"

\* MaybeScheduleCompaction, from a state whose imm_, manual_compaction_, level 0 and
\* bg_error_ are given.
MaybeScheduleCompaction(i, m, n, error, isScheduled, work) ==
  IF ~isScheduled /\ ~shuttingDown /\ ~error /\ (i # {} \/ m # None \/ NeedsCompaction(n))
  THEN scheduled' = TRUE /\ Schedule
  ELSE scheduled' = isScheduled /\ bg' = work

\* What the caller does when its Write returns: a call of CompactRange goes on.
AfterWrite(t, ok) ==
  IF req[t].count > 0 THEN "idle" ELSE IF ok THEN "flush" ELSE "manual"

\* Mutant of LeaveQueue: the new front writer is not signalled.
LeaveSilently(t, q, n, ok, sleepers) ==
  LET others == {q[i] : i \in 2..n} IN
  /\ writers' = SubSeq(q, n + 1, Len(q))
  /\ status' = [u \in Threads |-> IF u \in others THEN ok ELSE IF u = t THEN None ELSE status[u]]
  /\ pc' = [pc EXCEPT ![t] = AfterWrite(t, ok)]
  /\ acked' = IF ok /\ req[t].count > 0 THEN acked \cup {<<req[t].id, req[t].sync>>} ELSE acked
  /\ asleep' = sleepers \ others

\* The first n writers of queue q leave with status ok: the front one, t, returns,
\* the others and the new front are signalled.
LeaveQueue(t, q, n, ok, sleepers) ==
  LET others == {q[i] : i \in 2..n}
      left == SubSeq(q, n + 1, Len(q))
  IN /\ writers' = left
     /\ status' = [u \in Threads |-> IF u \in others THEN ok ELSE IF u = t THEN None ELSE status[u]]
     /\ pc' = [pc EXCEPT ![t] = AfterWrite(t, ok)]
     /\ acked' = IF ok /\ req[t].count > 0 THEN acked \cup {<<req[t].id, req[t].sync>>} ELSE acked
     /\ asleep' = sleepers \ (others \cup (IF left = <<>> THEN {} ELSE {left[1]}))

-----------------------------------------------------------------------------
(* DBImpl::Write *)

Bytes(q, n) == FoldLeft(LAMBDA sum, t : sum + req[t].count, 0, SubSeq(q, 1, n))

GroupLimit(t) ==
  IF req[t].count <= SmallBatch THEN req[t].count + SmallBatch ELSE MaxGroup

\* Mutant of MayJoin: a sync write may join a group that is not synced.
MayJoinAnySync(q, i) == req[q[i]].count = 0 \/ Bytes(q, i) <= GroupLimit(q[1])

\* BuildBatchGroup, of the i-th writer of q: the front one can answer for it, too.
MayJoin(q, i) ==
  /\ req[q[i]].sync => req[q[1]].sync
  /\ req[q[i]].count = 0 \/ Bytes(q, i) <= GroupLimit(q[1])

GroupEntries(q, n) ==
  LET ids == FlattenSeq([i \in 1..n |-> [j \in 1..req[q[i]].count |-> req[q[i]].id]])
  IN [k \in DOMAIN ids |-> <<lastSequence + k, ids[k]>>]

\* The front writer has room: it takes its group and unlocks, or, without a batch, leaves.
WriteGroup(t, q) ==
  IF req[t].count = 0
  THEN /\ LeaveQueue(t, q, 1, TRUE, asleep \ {t})
       /\ UNCHANGED <<todo, leaders>>
  ELSE /\ \E n \in 1..Len(q) :
            /\ \A i \in 2..n : MayJoin(q, i)
            /\ n < Len(q) => ~MayJoin(q, n + 1)
            /\ leaders' = n
            /\ todo' = GroupEntries(q, n)
       /\ writers' = q
       /\ pc' = [pc EXCEPT ![t] = "append"]
       /\ asleep' = asleep \ {t}
       /\ UNCHANGED <<status, acked>>

Forced(t) == req[t].count = 0
Waits(t, q, where) ==
  /\ writers' = q
  /\ pc' = [pc EXCEPT ![t] = where]
  /\ asleep' = asleep \cup {t}
  /\ UNCHANGED <<status, acked, todo, leaders>>

SlowsDown(t) == ~Forced(t) /\ ~req[t].delayed /\ level0 >= SlowdownTrigger
HasRoom(t) == ~Forced(t) /\ Cardinality(mem) <= BufferSize

\* MakeRoomForWrite, run by the front writer t of queue q up to where it unlocks.
RoomError(t, q) ==
  /\ bgError
  /\ LeaveQueue(t, q, 1, FALSE, asleep \ {t})
  /\ UNCHANGED <<req, storeVars, logVars, bgVars, todo, leaders, faults>>

RoomDelay(t, q) ==
  /\ ~bgError /\ SlowsDown(t)
  /\ req' = [req EXCEPT ![t].delayed = TRUE]
  /\ writers' = q
  /\ pc' = [pc EXCEPT ![t] = "room"]
  /\ asleep' = asleep \ {t}
  /\ UNCHANGED <<status, acked, storeVars, logVars, bgVars, todo, leaders, faults>>

RoomThere(t, q) ==
  /\ ~bgError /\ ~SlowsDown(t) /\ HasRoom(t)
  /\ WriteGroup(t, q)
  /\ UNCHANGED <<req, storeVars, logVars, bgVars, faults>>

RoomWait(t, q) ==
  /\ ~bgError /\ ~SlowsDown(t) /\ ~HasRoom(t)
  /\ imm # {} \/ level0 >= StopTrigger
  /\ Waits(t, q, "room")
  /\ UNCHANGED <<req, storeVars, logVars, bgVars, faults>>

\* Mutant of MaySwitch: the memtable is replaced though the previous one is not in a table.
SwitchTooEarly(t) == ~bgError /\ ~SlowsDown(t) /\ ~HasRoom(t) /\ level0 < StopTrigger

MaySwitch(t) ==
  ~bgError /\ ~SlowsDown(t) /\ ~HasRoom(t) /\ imm = {} /\ level0 < StopTrigger

RoomSwitch(t, q) ==
  /\ MaySwitch(t)
  /\ nextFile' = nextFile + 1 /\ logNumber' = nextFile
  /\ imm' = {mem} /\ mem' = {}
  /\ MaybeScheduleCompaction({mem}, manual, level0, bgError, scheduled, bg)
  /\ WriteGroup(t, q)
  /\ Works
  /\ UNCHANGED <<req, minLog, logs, synced, tables, level0, lastSequence, bgError,
                 shuttingDown>>

\* NewWritableFile fails: the number is given back.
RoomNoLog(t, q) ==
  /\ MaySwitch(t)
  /\ Fails("newlog")
  /\ LeaveQueue(t, q, 1, FALSE, asleep \ {t})
  /\ UNCHANGED <<req, storeVars, logVars, bgVars, todo, leaders>>

Room(t, q) ==
  \/ RoomError(t, q) \/ RoomDelay(t, q) \/ RoomThere(t, q)
  \/ RoomWait(t, q) \/ RoomSwitch(t, q) \/ RoomNoLog(t, q)

-----------------------------------------------------------------------------
(* The callers' threads *)

\* A caller prepares its Writer; a CompactRange begins with a write without a batch.
Call(t, r) ==
  /\ t \in scenario.threads /\ pc[t] = "idle" /\ calls < MaxCalls /\ ~shuttingDown
  /\ calls' = calls + 1
  /\ req' = [req EXCEPT ![t] = [id |-> calls + 1, sync |-> r.sync, count |-> r.count,
                                 delayed |-> FALSE]]
  /\ pc' = [pc EXCEPT ![t] = "enter"]
  /\ UNCHANGED <<scenario, status, asleep, writers, todo, leaders, storeVars, logVars,
                 bgVars, manualVars, faults, acked>>

\* Write up to its first unlock: at the front it makes room, else it waits for its turn.
Enter(t) ==
  /\ pc[t] = "enter"
  /\ LET q == Append(writers, t) IN
       IF writers = <<>> THEN Room(t, q)
       ELSE /\ Waits(t, q, "queue")
            /\ UNCHANGED <<req, storeVars, logVars, bgVars, faults>>
  /\ UNCHANGED <<scenario, manualVars, calls>>

\* A writer wakes up: it was answered by its leader, is at the front, or waits again.
WakeUp(t) ==
  /\ pc[t] = "queue" /\ t \notin asleep
  /\ \/ /\ status[t] # None
        /\ status' = [status EXCEPT ![t] = None]
        /\ pc' = [pc EXCEPT ![t] = AfterWrite(t, status[t])]
        /\ acked' = IF status[t] /\ req[t].count > 0 THEN acked \cup {<<req[t].id, req[t].sync>>} ELSE acked
        /\ UNCHANGED <<req, asleep, writers, todo, leaders, storeVars, logVars, bgVars, faults>>
     \/ status[t] = None /\ t = Head(writers) /\ Room(t, writers)
     \/ /\ status[t] = None /\ t # Head(writers)
        /\ Waits(t, writers, "queue")
        /\ UNCHANGED <<req, storeVars, logVars, bgVars, faults>>
  /\ UNCHANGED <<scenario, manualVars, calls>>

\* The front writer goes on in MakeRoomForWrite, after its delay or bg_cv_'s signal.
GoOn(t) ==
  /\ pc[t] = "room" /\ t \notin asleep
  /\ Room(t, writers)
  /\ UNCHANGED <<scenario, manualVars, calls>>

\* The front writer is back with its group written, or not; its numbers are used up
\* in both cases.
EndGroup(t, ok, sleepers) ==
  /\ lastSequence' = lastSequence + Len(todo)
  /\ todo' = <<>> /\ leaders' = 0
  /\ LeaveQueue(t, writers, leaders, ok, sleepers)
  /\ UNCHANGED req

Unlocked == UNCHANGED <<status, asleep, req, writers, todo, leaders, lastSequence, acked>>
EnvOfGroup == UNCHANGED <<scenario, imm, tables, level0, logNumber, minLog, nextFile, bg,
                          scheduled, shuttingDown, manualVars, calls>>

AppendRecord(t) ==
  /\ pc[t] = "append"
  /\ \/ /\ Works /\ Unlocked
        /\ logs' = logs \cup {<<logNumber, e>> : e \in Range(todo)}
        /\ pc' = [pc EXCEPT ![t] = IF req[t].sync THEN "sync" ELSE "insert"]
     \/ /\ Fails("append")
        /\ EndGroup(t, FALSE, asleep)
        /\ UNCHANGED logs
  /\ UNCHANGED <<mem, synced, bgError>> /\ EnvOfGroup

\* Sync covers every record of the current file; its failure is a background error.
SyncLog(t) ==
  /\ pc[t] = "sync"
  /\ \/ /\ Works /\ Unlocked
        /\ synced' = synced \cup {r[2] : r \in {l \in logs : l[1] = logNumber}}
        /\ pc' = [pc EXCEPT ![t] = "insert"]
        /\ UNCHANGED bgError
     \/ /\ Fails("sync")
        /\ bgError' = TRUE
        /\ EndGroup(t, FALSE, AfterSignalAll(asleep))
        /\ UNCHANGED synced
  /\ UNCHANGED <<mem, logs>> /\ EnvOfGroup

\* InsertInto puts the entries into mem_ one at a time, in their order.
InsertEntry(t) ==
  /\ pc[t] = "insert"
  /\ \E e \in Range(todo) \ mem :
       /\ \A f \in Range(todo) \ mem : e[1] <= f[1]
       /\ mem' = mem \cup {e}
  /\ Unlocked
  /\ UNCHANGED <<pc, logs, synced, bgError, faults>> /\ EnvOfGroup

Publish(t) ==
  /\ pc[t] = "insert" /\ Range(todo) \subseteq mem
  /\ EndGroup(t, TRUE, asleep)
  /\ UNCHANGED <<mem, logs, synced, bgError, faults>> /\ EnvOfGroup

\* TEST_CompactMemTable waits until the memtable is in a table, or for an error.
AwaitFlush(t) ==
  /\ pc[t] = "flush" /\ t \notin asleep
  /\ IF imm # {} /\ ~bgError
     THEN asleep' = asleep \cup {t} /\ UNCHANGED pc
     ELSE pc' = [pc EXCEPT ![t] = "manual"] /\ UNCHANGED asleep
  /\ UNCHANGED <<scenario, req, status, writers, todo, leaders, storeVars, logVars, bgVars,
                 manualVars, faults, calls, acked>>

\* One round of TEST_CompactRange's loop: claim manual_compaction_ if it is free, wait
\* while it is not, leave when done or on an error, withdrawing a claim not served.
AwaitManual(t) ==
  /\ pc[t] = "manual" /\ t \notin asleep
  /\ \/ /\ t \in manualDone \/ bgError
        /\ pc' = [pc EXCEPT ![t] = "idle"]
        /\ manual' = IF manual = t THEN None ELSE manual
        /\ manualDone' = manualDone \ {t}
        /\ UNCHANGED <<asleep, bg, scheduled>>
     \/ /\ t \notin manualDone /\ ~bgError
        /\ asleep' = asleep \cup {t}
        /\ IF manual = None
           THEN manual' = t /\ MaybeScheduleCompaction(imm, t, level0, bgError, scheduled, bg)
           ELSE UNCHANGED <<manual, bg, scheduled>>
        /\ UNCHANGED <<pc, manualDone>>
  /\ UNCHANGED <<scenario, req, status, writers, todo, leaders, storeVars, logVars, bgError,
                 shuttingDown, faults, calls, acked>>

\* ~DBImpl, which its caller runs after every other call: it waits for the background work.
Close(t) ==
  /\ scenario.closes /\ t \in scenario.threads
  /\ \A u \in Threads : pc[u] = "idle"
  /\ shuttingDown' = TRUE
  /\ pc' = [pc EXCEPT ![t] = "close"]
  /\ UNCHANGED <<scenario, req, status, asleep, writers, todo, leaders, storeVars, logVars, bg,
                 scheduled, bgError, manualVars, faults, calls, acked>>

AwaitClose(t) ==
  /\ pc[t] = "close" /\ t \notin asleep
  /\ IF scheduled
     THEN asleep' = asleep \cup {t} /\ UNCHANGED pc
     ELSE pc' = [pc EXCEPT ![t] = "closed"] /\ UNCHANGED asleep
  /\ UNCHANGED <<scenario, req, status, writers, todo, leaders, storeVars, logVars, bgVars,
                 manualVars, faults, calls, acked>>

-----------------------------------------------------------------------------
(* The background thread *)

CallerVars == <<scenario, pc, req, status, writers, todo, leaders, mem, lastSequence,
                logNumber, nextFile, synced, shuttingDown, calls, acked>>

\* Mutants of EndCall: the flag is not cleared; nobody is woken.
EndStillScheduled(i, m, n, error) ==
  /\ MaybeScheduleCompaction(i, m, n, error, TRUE, NotRunning)
  /\ asleep' = AfterSignalAll(asleep)

EndSilently(i, m, n, error) ==
  /\ MaybeScheduleCompaction(i, m, n, error, FALSE, NotRunning)
  /\ UNCHANGED asleep

\* BackgroundCall ends: more work is scheduled if there is any, and everybody is woken.
EndCall(i, m, n, error) ==
  /\ MaybeScheduleCompaction(i, m, n, error, FALSE, NotRunning)
  /\ asleep' = AfterSignalAll(asleep)

\* BackgroundCompaction ends: the manual request is done when there was nothing to do or
\* an error, and is given back in every case. A request withdrawn meanwhile is a null
\* pointer: the background thread ends there, and with it the process.
EndCompaction(n, error, failed, nothing) ==
  /\ bg.manual => manual # None
  /\ manual' = IF bg.manual THEN None ELSE manual
  /\ manualDone' = IF bg.manual /\ (failed \/ nothing) THEN manualDone \cup {manual} ELSE manualDone
  /\ EndCall(imm, manual', n, error)

\* BGThread runs the item; BackgroundCall goes on to a flush or to a compaction.
RunItem ==
  /\ ItemReady
  /\ LET isManual == manual # None
         nothing == IF isManual THEN level0 = 0 ELSE ~NeedsCompaction(level0)
     IN \/ /\ shuttingDown \/ bgError
           /\ EndCall(imm, manual, level0, bgError)
           /\ UNCHANGED manualVars
        \/ /\ ~shuttingDown /\ ~bgError /\ imm # {}
           /\ bg' = [bg EXCEPT !.at = "build"]
           /\ UNCHANGED <<asleep, scheduled, manualVars>>
        \/ /\ ~shuttingDown /\ ~bgError /\ imm = {} /\ nothing
           /\ manual' = None
           /\ manualDone' = IF isManual THEN manualDone \cup {manual} ELSE manualDone
           /\ EndCall(imm, None, level0, bgError)
        \/ /\ ~shuttingDown /\ ~bgError /\ imm = {} /\ ~nothing
           /\ \E n \in 1..level0, at \in {"merge", "install"} :
                /\ at = "install" => ~isManual /\ n = 1   \* IsTrivialMove
                /\ bg' = [bg EXCEPT !.at = at, !.manual = isManual, !.inputs = n]
           /\ UNCHANGED <<asleep, scheduled, manualVars>>
  /\ UNCHANGED <<CallerVars, imm, tables, level0, minLog, logs, bgError, faults>>

\* Mutant of KeptLogs: the current log goes too.
KeptNewerLogs(first) == IF bgError THEN logs ELSE {r \in logs : r[1] > first}

\* DeleteObsoleteFiles, for log files: none is deleted after a background error.
KeptLogs(first) == IF bgError THEN logs ELSE {r \in logs : r[1] >= first}

\* Mutant of EndFlush: it gives the manual request back, as a compaction does.
EndFlushAndRequest(i, n, error) ==
  /\ IF bg.nested
     THEN /\ bg' = [bg EXCEPT !.at = "merge", !.nested = FALSE]
          /\ asleep' = AfterSignalAll(asleep)
          /\ UNCHANGED scheduled
     ELSE EndCall(i, None, n, error)
  /\ manual' = None
  /\ UNCHANGED manualDone

\* CompactMemTable ends, on its own or within DoCompactionWork.
EndFlush(i, n, error) ==
  /\ IF bg.nested
     THEN /\ bg' = [bg EXCEPT !.at = "merge", !.nested = FALSE]
          /\ asleep' = AfterSignalAll(asleep)
          /\ UNCHANGED scheduled
     ELSE EndCall(i, manual, n, error)
  /\ UNCHANGED manualVars

FlushFails ==
  /\ bgError' = TRUE
  /\ EndFlush(imm, level0, TRUE)
  /\ UNCHANGED <<imm, tables, level0, minLog, logs>>

\* BuildTable is done; the logs before the current one will not be needed.
FlushBuilt ==
  /\ bg.at = "build"
  /\ \/ (Fails("build") \/ (Works /\ shuttingDown)) /\ FlushFails
     \/ /\ Works /\ ~shuttingDown
        /\ bg' = [bg EXCEPT !.at = "apply", !.log = logNumber]
        /\ UNCHANGED <<asleep, scheduled, manualVars, imm, tables, level0, minLog, logs, bgError>>
  /\ UNCHANGED CallerVars

\* LogAndApply has written the manifest; a memtable without overlap goes below level 0.
FlushInstalled ==
  /\ bg.at = "apply"
  /\ \/ Fails("manifest") /\ FlushFails
     \/ /\ Works
        /\ tables' = tables \cup (UNION imm)
        /\ level0' \in IF imm = {{}} THEN {level0} ELSE {level0, level0 + 1}
        /\ imm' = {} /\ minLog' = bg.log
        /\ logs' = KeptLogs(bg.log)
        /\ EndFlush({}, level0', bgError)
        /\ UNCHANGED bgError
  /\ UNCHANGED CallerVars

\* DoCompactionWork sees has_imm_ and flushes the memtable first.
MergeYields ==
  /\ bg.at = "merge" /\ imm # {} /\ ~shuttingDown
  /\ bg' = [bg EXCEPT !.at = "build", !.nested = TRUE]
  /\ UNCHANGED <<CallerVars, asleep, scheduled, manualVars, imm, tables, level0, minLog, logs,
                 bgError, faults>>

MergeFails ==
  /\ bgError' = TRUE
  /\ EndCompaction(level0, TRUE, TRUE, FALSE)
  /\ UNCHANGED <<level0, logs>>

MergeDone ==
  /\ bg.at = "merge"
  /\ \/ (Fails("build") \/ (Works /\ shuttingDown)) /\ MergeFails
     \/ /\ Works /\ ~shuttingDown
        /\ bg' = [bg EXCEPT !.at = "install"]
        /\ UNCHANGED <<asleep, scheduled, manualVars, level0, logs, bgError>>
  /\ UNCHANGED <<CallerVars, imm, tables, minLog>>

MergeInstalled ==
  /\ bg.at = "install"
  /\ \/ Fails("manifest") /\ MergeFails
     \/ /\ Works
        /\ level0' = level0 - bg.inputs
        /\ logs' = KeptLogs(minLog)
        /\ EndCompaction(level0', bgError, FALSE, FALSE)
        /\ UNCHANGED bgError
  /\ UNCHANGED <<CallerVars, imm, tables, minLog>>

Background ==
  RunItem \/ FlushBuilt \/ FlushInstalled \/ MergeYields \/ MergeDone \/ MergeInstalled

ThreadStep(t) ==
  \/ Enter(t) \/ WakeUp(t) \/ GoOn(t)
  \/ AppendRecord(t) \/ SyncLog(t) \/ InsertEntry(t) \/ Publish(t)
  \/ AwaitFlush(t) \/ AwaitManual(t) \/ AwaitClose(t)

Next ==
  \/ \E t \in Threads, r \in scenario.calls : Call(t, r)
  \/ \E t \in Threads : ThreadStep(t) \/ Close(t)
  \/ Background

\* A thread that may run does run in the end; callers need not call.
Fairness == WF_vars(Background) /\ \A t \in Threads : WF_vars(ThreadStep(t))

Spec == Init /\ [][Next]_vars /\ Fairness

-----------------------------------------------------------------------------
(* Properties *)

Stored == mem \cup (UNION imm) \cup tables
Visible == {e \in Stored : e[1] <= lastSequence}

\* Of type correctness: the front group's bookkeeping and the work item's.
TypeOK ==
  /\ leaders <= Len(writers) /\ (todo = <<>>) = (leaders = 0)
  /\ asleep \subseteq {t \in Threads : pc[t] \in {"queue", "room", "flush", "manual", "close"}}
  /\ bg.at \in {"none", "queued", "build", "apply", "merge", "install"}
  /\ scheduled = (bg.at # "none")
  /\ minLog <= logNumber /\ logNumber < nextFile
  /\ level0 >= bg.inputs

\* A caller waits only while somebody will wake it: the front writer is never left asleep
\* for its turn, and nobody waits for background work that is not scheduled, unless for an
\* error to be seen (Write, MakeRoomForWrite, MaybeScheduleCompaction).
NoLostWakeUp ==
  /\ \A t \in asleep : pc[t] = "queue" => status[t] = None /\ t # Head(writers)
  /\ (\E t \in asleep : pc[t] # "queue") => scheduled

\* What a reader can see is in a table or in a log file that recovery would read: the log
\* of a memtable is not given up before its table is in the manifest (CompactMemTable,
\* MakeRoomForWrite, DeleteObsoleteFiles).
VisibleRecoverable ==
  Visible \subseteq tables \cup {r[2] : r \in {l \in logs : l[1] >= minLog}}

\* What a sync write put into the store was covered by a Sync of its log file, or is in a
\* table, when the write is answered, also if another thread wrote it (BuildBatchGroup).
AckedSynced ==
  \A e \in Stored : <<e[2], TRUE>> \in acked => e \in synced \cup tables

\* The compaction of a manual request finds it still there when it ends, to mark it as
\* done or to narrow it, while no background error is known: flushes, other requests and
\* other callers leave it alone (BackgroundCompaction, TEST_CompactRange).
ManualKept == bg.manual /\ ~bgError => manual # None

\* That it finds it there in any case: CompactRange may run beside other calls (db.h:42).
ManualAlwaysThere == bg.manual => manual # None

\* Every call returns, the destructor too: no writer, flush or manual compaction waits for
\* ever, also when the log, a table or the manifest cannot be written.
CallsReturn ==
  \A t \in Threads : (pc[t] \notin {"idle", "closed"}) ~> (pc[t] \in {"idle", "closed"})

\* The threads whose Write has not returned, and their calls.
Waiting == {t \in Threads : pc[t] \in {"enter", "queue", "room", "append", "sync", "insert"}}
Pending == {<<req[t].id, req[t].count>> : t \in Waiting}

Store == INSTANCE BatchStore WITH
  Sizes <- UNION {{r.count : r \in s.calls} : s \in Scenarios},
  pending <- Pending, history <- Visible, last <- lastSequence,
  acked <- {a[1] : a \in acked}

\* Readers see whole batches, in one order that never changes, from before their write is
\* answered; a write that failed is never seen while the process runs.
StoreSpec == Store!Spec

=============================================================================
