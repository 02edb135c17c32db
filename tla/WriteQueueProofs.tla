-------------------------- MODULE WriteQueueProofs --------------------------
(***************************************************************************)
(* For every number of threads, every stream of calls and failures and     *)
(* every limit, three inductive invariants of leveldb's write path and     *)
(* what they show. WriteInv: a visible entry is in a log file that is      *)
(* kept, or in a table. WaitInv: who waits is woken, the bookkeeping of    *)
(* the group under way and of the background thread is right, and a manual *)
(* compaction's request stays while it is being served. BatchInv: the      *)
(* queue does what BatchStore promises of DB::Write, and what an answered  *)
(* sync write put into the store is in a synced log file, or in a table.   *)
(***************************************************************************)
EXTENDS WriteQueue, TLAPS, WellFoundedInduction, SequenceTheorems, FiniteSetTheorems

\* Where the front writer is, once it makes room; and where it holds a group.
Writing == {"append", "sync", "insert"}
Leading == Writing \cup {"room"}

\* One thread leads at most, the front writer; a waiting one is in the queue.
QueueInv ==
  /\ writers \in Seq(Threads)
  /\ DOMAIN pc = Threads /\ DOMAIN status = Threads
  /\ \A t \in Threads : pc[t] \in Leading => writers # <<>> /\ t = Head(writers)
  /\ \A t \in Threads : pc[t] = "queue" /\ status[t] = None =>
       \E i \in 1..Len(writers) : writers[i] = t
  /\ \A t \in Threads : pc[t] \in Writing => leaders \in 1..Len(writers)

\* The entries of the current log file, and those recovery would read.
CurrentLog == {r[2] : r \in {l \in logs : l[1] = logNumber}}
NeededLogs == {r[2] : r \in {l \in logs : l[1] >= minLog}}

WorkItem ==
  [at : {"none", "queued", "build", "apply", "merge", "install"},
   nested : BOOLEAN, manual : BOOLEAN, inputs : Int, log : Nat]

LogTypes ==
  /\ logNumber \in Nat /\ minLog \in Nat /\ nextFile \in Nat
  /\ minLog <= logNumber /\ logNumber < nextFile
  /\ bg \in WorkItem
  /\ bg.log <= logNumber
  /\ level0 \in Int

\* The memtable is in the current log file, the one being flushed in a log file that is
\* needed, and the group under way is logged before it is inserted.
Logged ==
  /\ mem \subseteq CurrentLog
  /\ UNION imm \subseteq NeededLogs
  /\ \A t \in Threads : pc[t] \in {"sync", "insert"} => Range(todo) \subseteq CurrentLog

WriteInv == QueueInv /\ LogTypes /\ Logged

-----------------------------------------------------------------------------
\* The n writers a leader answers for leave the front of the queue; the others keep
\* their order, and none of them leads.
LEMMA LeaveFacts ==
  ASSUME NEW t \in Threads, NEW q \in Seq(Threads), NEW n \in 1..Len(q), q[1] = t,
         NEW ok \in BOOLEAN, NEW sleepers, LeaveQueue(t, q, n, ok, sleepers),
         DOMAIN pc = Threads, DOMAIN status = Threads,
         \A u \in Threads \ {t} : pc[u] \notin Leading,
         \A u \in Threads \ {t} : pc[u] = "queue" /\ status[u] = None =>
           \E i \in 1..Len(q) : q[i] = u
  PROVE  /\ QueueInv'
         /\ \A u \in Threads : pc'[u] \notin Leading
<1>1. /\ writers' = SubSeq(q, n + 1, Len(q)) /\ writers' \in Seq(Threads)
      /\ Len(writers') = Len(q) - n
      /\ \A i \in 1..Len(q) - n : writers'[i] = q[n + i]
  BY DEF LeaveQueue
<1>2. /\ DOMAIN pc' = Threads /\ pc'[t] \in {"idle", "flush", "manual"}
      /\ \A u \in Threads \ {t} : pc'[u] = pc[u]
  BY DEF LeaveQueue, AfterWrite
<1>3. /\ DOMAIN status' = Threads
      /\ \A u \in Threads \ {t} : status'[u] = None =>
           status[u] = None /\ \A i \in 2..n : q[i] # u
  BY NoneAssumption DEF LeaveQueue
<1>4. \A u \in Threads : pc'[u] \notin Leading
  BY <1>2 DEF Leading, Writing
<1>5. ASSUME NEW u \in Threads, pc'[u] = "queue", status'[u] = None
      PROVE  \E i \in 1..Len(writers') : writers'[i] = u
  <2>1. u # t /\ pc[u] = "queue" /\ status[u] = None /\ \A i \in 2..n : q[i] # u
    BY <1>2, <1>3, <1>5
  <2>2. PICK i \in 1..Len(q) : q[i] = u
    BY <2>1
  <2>3. i \in n + 1..Len(q)
    BY <2>1, <2>2
  <2>4. i - n \in 1..Len(writers') /\ writers'[i - n] = u
    BY SMTT(60), <1>1, <2>2, <2>3
  <2>5. QED
    BY <2>4
<1>6. QED
  BY <1>1, <1>2, <1>3, <1>4, <1>5 DEF QueueInv, Leading

\* The front writer of a queue stays where it is, as its only leader.
LEMMA StayFacts ==
  ASSUME NEW t \in Threads, NEW q \in Seq(Threads), q # <<>>, q[1] = t,
         DOMAIN pc = Threads, DOMAIN status = Threads,
         \A u \in Threads \ {t} : pc[u] \notin Leading,
         \A u \in Threads \ {t} : pc[u] = "queue" /\ status[u] = None =>
           \E i \in 1..Len(q) : q[i] = u,
         writers' = q, status' = status,
         NEW where \in {"room", "append"}, pc' = [pc EXCEPT ![t] = where],
         where = "append" => leaders' \in 1..Len(q)
  PROVE  /\ QueueInv'
         /\ \A u \in Threads : pc'[u] \notin {"sync", "insert"}
BY DEF QueueInv, Leading, Writing

\* What MakeRoomForWrite and BuildBatchGroup do with the queue.
LEMMA RoomKeepsQueue ==
  ASSUME NEW t \in Threads, NEW q \in Seq(Threads), q # <<>>, q[1] = t,
         DOMAIN pc = Threads, DOMAIN status = Threads,
         \A u \in Threads \ {t} : pc[u] \notin Leading,
         \A u \in Threads \ {t} : pc[u] = "queue" /\ status[u] = None =>
           \E i \in 1..Len(q) : q[i] = u,
         Room(t, q)
  PROVE  /\ QueueInv'
         /\ \A u \in Threads : pc'[u] \notin {"sync", "insert"}
<1>1. 1 \in 1..Len(q)
  OBVIOUS
<1>2. ASSUME NEW ok \in BOOLEAN, LeaveQueue(t, q, 1, ok, asleep \ {t})
      PROVE  /\ QueueInv'
             /\ \A u \in Threads : pc'[u] \notin {"sync", "insert"}
  <2>1. /\ QueueInv'
        /\ \A u \in Threads : pc'[u] \notin Leading
    BY <1>1, <1>2, LeaveFacts, SMTT(60)
  <2>2. \A u \in Threads : pc'[u] \notin {"sync", "insert"}
    BY <2>1 DEF Leading, Writing
  <2>3. QED
    BY <2>1, <2>2
<1>3. ASSUME LeaveQueue(t, q, 1, TRUE, asleep \ {t}) \/ LeaveQueue(t, q, 1, FALSE, asleep \ {t})
      PROVE  /\ QueueInv'
             /\ \A u \in Threads : pc'[u] \notin {"sync", "insert"}
  BY <1>2, <1>3
<1>4. ASSUME WriteGroup(t, q)
      PROVE  /\ QueueInv'
             /\ \A u \in Threads : pc'[u] \notin {"sync", "insert"}
  <2>1. CASE req[t].count = 0
    BY <1>3, <1>4, <2>1 DEF WriteGroup
  <2>2. CASE req[t].count # 0
    BY <1>4, <2>2, StayFacts DEF WriteGroup
  <2>3. QED
    BY <2>1, <2>2
<1>5. CASE RoomError(t, q) \/ RoomNoLog(t, q)
  BY <1>3, <1>5 DEF RoomError, RoomNoLog
<1>6. CASE RoomDelay(t, q)
  BY <1>6, StayFacts DEF RoomDelay
<1>7. CASE RoomWait(t, q)
  BY <1>7, StayFacts DEF RoomWait, Waits
<1>8. CASE RoomThere(t, q) \/ RoomSwitch(t, q)
  BY <1>4, <1>8 DEF RoomThere, RoomSwitch
<1>9. QED
  BY <1>5, <1>6, <1>7, <1>8 DEF Room

\* The front writer's group leaves when it is written, or when that failed.
LEMMA GroupLeaves ==
  ASSUME QueueInv, NEW t \in Threads, pc[t] \in Writing, NEW ok \in BOOLEAN, NEW sleepers,
         EndGroup(t, ok, sleepers)
  PROVE  /\ QueueInv'
         /\ \A u \in Threads : pc'[u] \notin Leading
<1>1. /\ writers \in Seq(Threads) /\ writers # <<>> /\ writers[1] = t
      /\ leaders \in 1..Len(writers)
      /\ \A u \in Threads \ {t} : pc[u] \notin Leading
  BY DEF QueueInv, Leading
<1>2. LeaveQueue(t, writers, leaders, ok, sleepers)
  BY DEF EndGroup
<1>3. QED
  BY <1>1, <1>2, LeaveFacts DEF QueueInv

\* A step that moves one thread between states outside the queue leaves the queue alone.
LEMMA OutsideQueue ==
  ASSUME QueueInv, NEW t \in Threads, UNCHANGED <<writers, status, leaders>>,
         NEW where \in {"idle", "enter", "manual", "close", "closed"},
         pc' = [pc EXCEPT ![t] = where]
  PROVE  QueueInv'
BY DEF QueueInv, Leading, Writing

LEMMA QueueStep ==
  ASSUME QueueInv, [Next]_vars
  PROVE  QueueInv'
<1> USE DEF QueueInv
<1>1. ASSUME NEW t \in Threads, NEW r \in scenario.calls, Call(t, r)
      PROVE  QueueInv'
  BY <1>1, OutsideQueue DEF Call
<1>2. ASSUME NEW t \in Threads, Enter(t)
      PROVE  QueueInv'
  <2>1. CASE writers = <<>>
    <3>1. /\ Append(writers, t) \in Seq(Threads) /\ Append(writers, t) # <<>>
          /\ Append(writers, t)[1] = t
      BY <2>1
    <3>2. /\ \A u \in Threads : pc[u] \notin Leading
          /\ \A u \in Threads : ~(pc[u] = "queue" /\ status[u] = None)
      BY <2>1
    <3>3. Room(t, Append(writers, t))
      BY <1>2, <2>1 DEF Enter
    <3>4. QED
      BY <3>1, <3>2, <3>3, RoomKeepsQueue
  <2>2. CASE writers # <<>>
    <3>1. /\ writers' = Append(writers, t) /\ status' = status /\ leaders' = leaders
          /\ pc' = [pc EXCEPT ![t] = "queue"]
      BY <1>2, <2>2 DEF Enter, Waits
    <3>2. /\ writers' \in Seq(Threads) /\ writers' # <<>> /\ Head(writers') = Head(writers)
          /\ Len(writers') = Len(writers) + 1
          /\ \A i \in 1..Len(writers) : writers'[i] = writers[i]
          /\ writers'[Len(writers) + 1] = t
      BY <2>2, <3>1
    <3>3. \A u \in Threads \ {t} : pc'[u] = pc[u]
      BY <3>1
    <3>4. ASSUME NEW u \in Threads, pc'[u] = "queue", status'[u] = None
          PROVE  \E i \in 1..Len(writers') : writers'[i] = u
      <4>1. CASE u = t
        BY <3>2, <4>1
      <4>2. CASE u # t
        <5>1. PICK i \in 1..Len(writers) : writers[i] = u
          BY <3>1, <3>3, <3>4, <4>2
        <5>2. i \in 1..Len(writers') /\ writers'[i] = u
          BY <3>2, <5>1
        <5>3. QED
          BY <5>2
      <4>3. QED
        BY <4>1, <4>2
    <3>5. \A u \in Threads : pc'[u] \in Leading => pc[u] \in Leading /\ pc'[u] = pc[u]
      BY <3>1 DEF Leading, Writing
    <3>6. \A u \in Threads : pc'[u] \in Writing => pc[u] \in Writing
      BY <3>1 DEF Writing
    <3>7. DOMAIN pc' = Threads /\ DOMAIN status' = Threads
      BY <3>1
    <3>8. \A u \in Threads : pc'[u] \in Writing => leaders' \in 1..Len(writers')
      BY <3>1, <3>2, <3>6
    <3>9. QED
      BY <3>1, <3>2, <3>4, <3>5, <3>7, <3>8
  <2>3. QED
    BY <2>1, <2>2
<1>3. ASSUME NEW t \in Threads, WakeUp(t)
      PROVE  QueueInv'
  <2>1. CASE status[t] # None
    <3>1. /\ UNCHANGED <<writers, leaders>>
          /\ status' = [status EXCEPT ![t] = None]
          /\ pc' = [pc EXCEPT ![t] = AfterWrite(t, status[t])]
      BY <1>3, <2>1 DEF WakeUp
    <3>2. AfterWrite(t, status[t]) \in {"idle", "flush", "manual"}
      BY DEF AfterWrite
    <3>3. /\ DOMAIN pc' = Threads /\ DOMAIN status' = Threads
          /\ pc'[t] \in {"idle", "flush", "manual"}
          /\ \A u \in Threads \ {t} : pc'[u] = pc[u] /\ status'[u] = status[u]
      BY <3>1, <3>2
    <3>4. QED
      BY <3>1, <3>3 DEF Leading, Writing
  <2>2. CASE status[t] = None /\ t = Head(writers) /\ Room(t, writers)
    <3>1. writers # <<>> /\ writers[1] = t
      BY <1>3, <2>2 DEF WakeUp
    <3>2. \A u \in Threads \ {t} : pc[u] \notin Leading
      BY <3>1
    <3>3. QED
      BY <2>2, <3>1, <3>2, RoomKeepsQueue
  <2>3. CASE status[t] = None /\ t # Head(writers) /\ Waits(t, writers, "queue")
    <3>1. /\ UNCHANGED <<writers, leaders, status>>
          /\ DOMAIN pc' = Threads /\ \A u \in Threads : pc'[u] = pc[u]
      BY <1>3, <2>3 DEF WakeUp, Waits
    <3>2. QED
      BY <3>1
  <2>4. QED
    BY <1>3, <2>1, <2>2, <2>3 DEF WakeUp
<1>4. ASSUME NEW t \in Threads, GoOn(t)
      PROVE  QueueInv'
  <2>1. writers # <<>> /\ writers[1] = t /\ Room(t, writers)
    BY <1>4 DEF GoOn, Leading
  <2>2. \A u \in Threads \ {t} : pc[u] \notin Leading
    BY <2>1
  <2>3. QED
    BY <2>1, <2>2, RoomKeepsQueue
<1>5. ASSUME NEW t \in Threads, AppendRecord(t) \/ SyncLog(t) \/ InsertEntry(t) \/ Publish(t)
      PROVE  QueueInv'
  <2>1. pc[t] \in Writing
    BY <1>5 DEF AppendRecord, SyncLog, InsertEntry, Publish, Writing
  <2>2. ASSUME NEW ok \in BOOLEAN, NEW sleepers, EndGroup(t, ok, sleepers)
        PROVE  QueueInv'
    BY <2>1, <2>2, GroupLeaves
  <2>3. ASSUME NEW where \in {"sync", "insert"}, pc' = [pc EXCEPT ![t] = where],
               UNCHANGED <<writers, status, leaders>>
        PROVE  QueueInv'
    BY <2>1, <2>3 DEF Leading, Writing
  <2>4. CASE AppendRecord(t)
    <3>1. CASE EndGroup(t, FALSE, asleep)
      BY <2>2, <3>1
    <3>2. CASE Unlocked /\ pc' = [pc EXCEPT ![t] = IF req[t].sync THEN "sync" ELSE "insert"]
      <4>1. CASE req[t].sync
        BY <2>3, <3>2, <4>1 DEF Unlocked
      <4>2. CASE ~req[t].sync
        BY <2>3, <3>2, <4>2 DEF Unlocked
      <4>3. QED
        BY <4>1, <4>2
    <3>3. QED
      BY <2>4, <3>1, <3>2 DEF AppendRecord
  <2>5. CASE SyncLog(t)
    <3>1. CASE EndGroup(t, FALSE, AfterSignalAll(asleep))
      BY <2>2, <3>1
    <3>2. CASE Unlocked /\ pc' = [pc EXCEPT ![t] = "insert"]
      BY <2>3, <3>2 DEF Unlocked
    <3>3. QED
      BY <2>5, <3>1, <3>2 DEF SyncLog
  <2>6. CASE InsertEntry(t)
    BY <2>6 DEF InsertEntry, Unlocked
  <2>7. CASE Publish(t)
    BY <2>2, <2>7 DEF Publish
  <2>8. QED
    BY <1>5, <2>4, <2>5, <2>6, <2>7
<1>6. ASSUME NEW t \in Threads, AwaitFlush(t) \/ AwaitManual(t) \/ AwaitClose(t) \/ Close(t)
      PROVE  QueueInv'
  <2>1. UNCHANGED <<writers, status, leaders>>
    BY <1>6 DEF AwaitFlush, AwaitManual, AwaitClose, Close
  <2>2. pc' = pc \/ \E where \in {"idle", "manual", "close", "closed"} :
                      pc' = [pc EXCEPT ![t] = where]
    BY <1>6 DEF AwaitFlush, AwaitManual, AwaitClose, Close
  <2>3. QED
    BY <2>1, <2>2, OutsideQueue
<1>7. CASE Background \/ UNCHANGED vars
  <2>1. UNCHANGED <<pc, status, writers, leaders>>
    BY <1>7 DEF Background, RunItem, FlushBuilt, FlushInstalled, MergeYields, MergeDone,
                MergeInstalled, CallerVars, vars, threadVars
  <2>2. QED
    BY <2>1
<1>8. QED
  BY <1>1, <1>2, <1>3, <1>4, <1>5, <1>6, <1>7 DEF Next, ThreadStep

-----------------------------------------------------------------------------
\* The work items that are made from nothing, or from another one.
LEMMA WorkItemFacts ==
  /\ NotRunning \in WorkItem /\ NotRunning.log = 0
  /\ \A at \in {"none", "queued", "build", "apply", "merge", "install"} :
       \A item \in WorkItem :
         /\ [item EXCEPT !.at = at] \in WorkItem
         /\ [item EXCEPT !.at = at].log = item.log
<1>1. NotRunning \in WorkItem /\ NotRunning.log = 0
  BY DEF NotRunning, WorkItem
<1>2. ASSUME NEW at \in {"none", "queued", "build", "apply", "merge", "install"},
             NEW item \in WorkItem
      PROVE  /\ [item EXCEPT !.at = at] \in WorkItem
             /\ [item EXCEPT !.at = at].log = item.log
  BY DEF WorkItem
<1>3. QED
  BY <1>1, <1>2

\* What makes room for a write leaves the logs alone, or starts a new one with an empty
\* memtable, the old memtable becoming the one to be flushed.
LEMMA RoomKeepsLogged ==
  ASSUME LogTypes, Logged, NEW t, NEW q, Room(t, q),
         \A u \in Threads : pc'[u] \notin {"sync", "insert"}
  PROVE  LogTypes' /\ Logged'
<1> USE DEF LogTypes, Logged
<1>1. CASE RoomSwitch(t, q)
  <2>1. /\ nextFile' = nextFile + 1 /\ logNumber' = nextFile
        /\ imm' = {mem} /\ mem' = {}
        /\ UNCHANGED <<minLog, logs, level0>>
        /\ bg' \in {bg, [NotRunning EXCEPT !.at = "queued"]}
    BY <1>1 DEF RoomSwitch, MaybeScheduleCompaction, Schedule
  <2>2. mem \subseteq NeededLogs
    BY DEF CurrentLog, NeededLogs
  <2>3. LogTypes'
    <3>1. bg' \in WorkItem /\ bg'.log \in {0, bg.log}
      <4>1. CASE bg' = [NotRunning EXCEPT !.at = "queued"]
        BY <4>1, WorkItemFacts
      <4>2. QED
        BY <2>1, <4>1
    <3>2. QED
      BY <2>1, <3>1 DEF WorkItem
  <2>4. mem' \subseteq CurrentLog' /\ UNION imm' \subseteq NeededLogs'
    BY <2>1, <2>2 DEF NeededLogs
  <2>5. QED
    BY <2>3, <2>4
<1>2. CASE ~RoomSwitch(t, q)
  <2>1. UNCHANGED <<logNumber, minLog, nextFile, logs, bg, level0, mem, imm>>
    BY <1>2 DEF Room, RoomError, RoomDelay, RoomThere, RoomWait, RoomNoLog, storeVars,
                logVars, bgVars
  <2>2. QED
    BY <2>1 DEF CurrentLog, NeededLogs
<1>3. QED
  BY <1>1, <1>2

\* The front writer logs its group, then inserts it.
LEMMA LeaderKeepsLogged ==
  ASSUME WriteInv, NEW t \in Threads,
         AppendRecord(t) \/ SyncLog(t) \/ InsertEntry(t) \/ Publish(t)
  PROVE  LogTypes' /\ Logged'
<1> USE DEF WriteInv, LogTypes, Logged
<1>1. /\ UNCHANGED <<logNumber, minLog, nextFile, bg, level0, imm>>
      /\ logs \subseteq logs'
  BY DEF AppendRecord, SyncLog, InsertEntry, Publish, EnvOfGroup
<1>2. LogTypes' /\ CurrentLog \subseteq CurrentLog' /\ NeededLogs \subseteq NeededLogs'
  BY <1>1 DEF CurrentLog, NeededLogs
<1>3. pc[t] \in Writing /\ \A u \in Threads \ {t} : pc[u] \notin Leading
  BY DEF AppendRecord, SyncLog, InsertEntry, Publish, Writing, Leading, QueueInv
<1>4. ASSUME NEW ok \in BOOLEAN, NEW sleepers, EndGroup(t, ok, sleepers), mem' = mem
      PROVE  Logged'
  <2>1. \A u \in Threads : pc'[u] \notin Leading
    BY <1>3, <1>4, GroupLeaves
  <2>2. QED
    BY <1>1, <1>2, <1>4, <2>1 DEF Leading, Writing
<1>5. ASSUME Unlocked, mem' = mem, Range(todo) \subseteq CurrentLog',
             NEW where \in {"sync", "insert"}, pc' = [pc EXCEPT ![t] = where]
      PROVE  Logged'
  <2>1. todo' = todo /\ \A u \in Threads \ {t} : pc'[u] \notin {"sync", "insert"}
    BY <1>3, <1>5 DEF Unlocked, Leading, Writing, QueueInv
  <2>2. QED
    BY <1>1, <1>2, <1>5, <2>1
<1>6. CASE AppendRecord(t)
  <2>1. CASE EndGroup(t, FALSE, asleep)
    BY <1>2, <1>4, <1>6, <2>1 DEF AppendRecord
  <2>2. CASE /\ Unlocked
             /\ logs' = logs \cup {<<logNumber, e>> : e \in Range(todo)}
             /\ pc' = [pc EXCEPT ![t] = IF req[t].sync THEN "sync" ELSE "insert"]
    <3>1. Range(todo) \subseteq CurrentLog'
      <4> SUFFICES ASSUME NEW e \in Range(todo)
                   PROVE  e \in CurrentLog'
        OBVIOUS
      <4>1. <<logNumber, e>> \in logs' /\ logNumber' = logNumber
        BY <1>1, <2>2
      <4>2. QED
        BY <4>1 DEF CurrentLog
    <3>2. mem' = mem
      BY <1>6 DEF AppendRecord
    <3>3. PICK where \in {"sync", "insert"} : pc' = [pc EXCEPT ![t] = where]
      <4>1. CASE req[t].sync
        BY <2>2, <4>1
      <4>2. CASE ~req[t].sync
        BY <2>2, <4>2
      <4>3. QED
        BY <4>1, <4>2
    <3>4. QED
      BY <1>2, <1>5, <2>2, <3>1, <3>2, <3>3
  <2>3. QED
    BY <1>2, <1>6, <2>1, <2>2 DEF AppendRecord
<1>7. CASE SyncLog(t)
  <2>1. CASE EndGroup(t, FALSE, AfterSignalAll(asleep))
    BY <1>2, <1>4, <1>7, <2>1 DEF SyncLog
  <2>2. CASE Unlocked /\ pc' = [pc EXCEPT ![t] = "insert"]
    <3>1. Range(todo) \subseteq CurrentLog' /\ mem' = mem
      BY <1>2, <1>7 DEF SyncLog
    <3>2. QED
      BY <1>2, <1>5, <2>2, <3>1
  <2>3. QED
    BY <1>2, <1>7, <2>1, <2>2 DEF SyncLog
<1>8. CASE InsertEntry(t)
  <2>1. /\ todo' = todo /\ pc' = pc /\ Range(todo) \subseteq CurrentLog
        /\ mem' \subseteq mem \cup Range(todo)
    BY <1>8 DEF InsertEntry, Unlocked
  <2>2. QED
    BY <1>1, <1>2, <2>1
<1>9. CASE Publish(t)
  BY <1>2, <1>4, <1>9 DEF Publish
<1>10. QED
  BY <1>2, <1>6, <1>7, <1>8, <1>9

\* The background thread gives a log file up only when the memtable it covers is in a
\* table of the manifest; a new memtable has a later one.
LEMMA BackgroundKeepsLogged ==
  ASSUME WriteInv, Background
  PROVE  LogTypes' /\ Logged'
<1> USE DEF WriteInv, LogTypes, Logged, WorkItem
<1>1. UNCHANGED <<pc, todo, mem, logNumber, nextFile>>
  BY DEF Background, RunItem, FlushBuilt, FlushInstalled, MergeYields, MergeDone,
         MergeInstalled, CallerVars
<1>2. ASSUME NEW first \in Nat, first <= logNumber, logs' = KeptLogs(first)
      PROVE  CurrentLog \subseteq CurrentLog'
  BY <1>1, <1>2 DEF KeptLogs, CurrentLog
<1>3. ASSUME UNCHANGED <<logs, minLog, imm>>, LogTypes'
      PROVE  Logged'
  BY <1>1, <1>3 DEF CurrentLog, NeededLogs
<1>4. ASSUME NEW i, NEW m, NEW n, NEW error, NEW on, MaybeScheduleCompaction(i, m, n, error, on, NotRunning)
      PROVE  bg' \in {NotRunning, [NotRunning EXCEPT !.at = "queued"]}
  BY <1>4 DEF MaybeScheduleCompaction, Schedule
<1>5. ASSUME bg' \in {NotRunning, [NotRunning EXCEPT !.at = "queued"]}
      PROVE  /\ bg' \in WorkItem
             /\ bg'.log = 0
  BY <1>5, WorkItemFacts
<1>6. ASSUME NEW i, NEW m, NEW n, NEW error, EndCall(i, m, n, error)
      PROVE  /\ bg' \in WorkItem
             /\ bg'.log = 0
  BY <1>4, <1>5, <1>6 DEF EndCall
<1>7. ASSUME NEW i, NEW n, NEW error, EndFlush(i, n, error)
      PROVE  /\ bg' \in WorkItem
             /\ bg'.log \in {0, bg.log}
  BY <1>6, <1>7 DEF EndFlush
<1>8. CASE RunItem
  <2>1. UNCHANGED <<logs, minLog, imm, level0>>
    BY <1>8 DEF RunItem
  <2>2. /\ bg' \in WorkItem
        /\ bg'.log \in {0, bg.log}
    <3>1. CASE \E m : EndCall(imm, m, level0, bgError)
      BY <1>6, <3>1
    <3>2. CASE bg' = [bg EXCEPT !.at = "build"]
      BY <3>2
    <3>3. ASSUME NEW n \in 1..level0, NEW at \in {"merge", "install"},
                 bg' = [bg EXCEPT !.at = at, !.manual = (manual # None), !.inputs = n]
          PROVE  bg' \in WorkItem /\ bg'.log \in {0, bg.log}
      <4>1. PICK isManual \in BOOLEAN : isManual = (manual # None)
        OBVIOUS
      <4>2. bg' = [bg EXCEPT !.at = at, !.manual = isManual, !.inputs = n]
        BY <3>3, <4>1
      <4>3. n \in Int
        OBVIOUS
      <4>4. QED
        BY <4>2, <4>3
    <3>4. QED
      BY <1>8, <3>1, <3>2, <3>3 DEF RunItem
  <2>3. QED
    BY <1>1, <1>3, <2>1, <2>2
<1>9. ASSUME FlushFails
      PROVE  LogTypes' /\ Logged'
  <2>1. /\ bg' \in WorkItem /\ bg'.log \in {0, bg.log}
        /\ UNCHANGED <<logs, minLog, imm, level0>>
    BY <1>7, <1>9 DEF FlushFails
  <2>2. QED
    BY <1>1, <1>3, <2>1
<1>10. CASE FlushBuilt
  <2>1. CASE bg' = [bg EXCEPT !.at = "apply", !.log = logNumber]
               /\ UNCHANGED <<logs, minLog, imm, level0>>
    <3>1. bg' \in WorkItem /\ bg'.log = logNumber
      BY <2>1
    <3>2. QED
      BY <1>1, <1>3, <2>1, <3>1
  <2>2. QED
    BY <1>9, <1>10, <2>1 DEF FlushBuilt
<1>11. CASE FlushInstalled
  <2>1. CASE FlushFails
    BY <1>9, <2>1
  <2>2. CASE /\ imm' = {} /\ minLog' = bg.log /\ logs' = KeptLogs(bg.log)
             /\ level0' \in {level0, level0 + 1}
             /\ EndFlush({}, level0', bgError)
    BY <1>1, <1>2, <1>7, <2>2
  <2>3. CASE ~FlushFails
    <3>1. /\ imm' = {} /\ minLog' = bg.log /\ logs' = KeptLogs(bg.log)
          /\ level0' \in IF imm = {{}} THEN {level0} ELSE {level0, level0 + 1}
          /\ EndFlush({}, level0', bgError)
      BY <1>11, <2>3 DEF FlushInstalled
    <3>2. QED
      BY <2>2, <3>1
  <2>4. QED
    BY <2>1, <2>3
<1>12. CASE MergeYields
  <2>1. bg' = [bg EXCEPT !.at = "build", !.nested = TRUE]
          /\ UNCHANGED <<logs, minLog, imm, level0>>
    BY <1>12 DEF MergeYields
  <2>2. QED
    BY <1>1, <1>3, <2>1
<1>13. ASSUME MergeFails, UNCHANGED <<imm, minLog>>
       PROVE  LogTypes' /\ Logged'
  <2>1. /\ bg' \in WorkItem
        /\ bg'.log = 0
    BY <1>6, <1>13 DEF MergeFails, EndCompaction
  <2>2. QED
    BY <1>1, <1>3, <1>13, <2>1 DEF MergeFails
<1>14. CASE MergeDone
  <2>1. CASE bg' = [bg EXCEPT !.at = "install"] /\ UNCHANGED <<logs, minLog, imm, level0>>
    BY <1>1, <1>3, <2>1
  <2>2. QED
    BY <1>13, <1>14, <2>1 DEF MergeDone
<1>15. CASE MergeInstalled
  <2>1. CASE /\ level0' = level0 - bg.inputs /\ logs' = KeptLogs(minLog)
             /\ EndCompaction(level0', bgError, FALSE, FALSE)
             /\ UNCHANGED <<imm, minLog>>
    <3>1. LogTypes'
      <4>1. /\ bg' \in WorkItem
            /\ bg'.log = 0
        BY <1>6, <2>1 DEF EndCompaction
      <4>2. QED
        BY <1>1, <2>1, <4>1
    <3>2. CurrentLog \subseteq CurrentLog' /\ NeededLogs \subseteq NeededLogs'
      BY <1>1, <2>1 DEF CurrentLog, NeededLogs, KeptLogs
    <3>3. QED
      BY <1>1, <2>1, <3>1, <3>2
  <2>2. QED
    BY <1>13, <1>15, <2>1 DEF MergeInstalled
<1>16. QED
  BY <1>8, <1>10, <1>11, <1>12, <1>14, <1>15 DEF Background

-----------------------------------------------------------------------------
\* Whoever leads, flushes or merges, and whatever fails: the front writer works alone, and
\* memtables and log files correspond.
THEOREM WriteInvariant == Spec => []WriteInv
<1>1. Init => WriteInv
  <2> SUFFICES ASSUME Init PROVE WriteInv
    OBVIOUS
  <2>1. QueueInv
    BY DEF Init, QueueInv, Leading, Writing
  <2>2. LogTypes
    BY WorkItemFacts DEF Init, LogTypes
  <2>3. Logged
    BY DEF Init, Logged
  <2>4. QED
    BY <2>1, <2>2, <2>3 DEF WriteInv
<1>2. WriteInv /\ [Next]_vars => WriteInv'
  <2> SUFFICES ASSUME WriteInv, [Next]_vars PROVE WriteInv'
    OBVIOUS
  <2>1. QueueInv'
    BY QueueStep DEF WriteInv
  <2>2. LogTypes' /\ Logged'
    <3> USE DEF WriteInv
    <3>1. ASSUME NEW t \in Threads, Enter(t) \/ WakeUp(t) \/ GoOn(t)
          PROVE  LogTypes' /\ Logged'
      <4>1. ASSUME NEW q \in Seq(Threads), q # <<>>, q[1] = t, Room(t, q),
                   \A u \in Threads \ {t} : pc[u] \notin Leading,
                   \A u \in Threads \ {t} : pc[u] = "queue" /\ status[u] = None =>
                     \E i \in 1..Len(q) : q[i] = u
            PROVE  LogTypes' /\ Logged'
        <5>1. \A u \in Threads : pc'[u] \notin {"sync", "insert"}
          BY <4>1, RoomKeepsQueue DEF QueueInv
        <5>2. QED
          BY <4>1, <5>1, RoomKeepsLogged
      <4>2. ASSUME Room(t, writers), writers # <<>>, t = Head(writers)
            PROVE  LogTypes' /\ Logged'
        <5>1. writers \in Seq(Threads) /\ writers[1] = t
          BY <4>2 DEF QueueInv
        <5>2. \A u \in Threads \ {t} : pc[u] \notin Leading
          BY <4>2 DEF QueueInv
        <5>3. QED
          BY <4>1, <4>2, <5>1, <5>2 DEF QueueInv
      <4>3. ASSUME UNCHANGED <<logNumber, minLog, nextFile, logs, bg, level0, mem, imm, todo>>,
                   \A u \in Threads : pc'[u] \in {"sync", "insert"} => pc[u] = pc'[u]
            PROVE  LogTypes' /\ Logged'
        BY <4>3 DEF LogTypes, Logged, CurrentLog, NeededLogs
      <4>4. CASE Enter(t)
        <5>1. CASE writers = <<>>
          <6>1. /\ Append(writers, t) \in Seq(Threads) /\ Append(writers, t) # <<>>
                /\ Append(writers, t)[1] = t
            BY <5>1
          <6>2. Room(t, Append(writers, t))
            BY <4>4, <5>1 DEF Enter
          <6>3. \A u \in Threads :
                  pc[u] \notin Leading /\ ~(pc[u] = "queue" /\ status[u] = None)
            BY <5>1 DEF QueueInv
          <6>4. QED
            BY <4>1, <6>1, <6>2, <6>3
        <5>2. CASE writers # <<>>
          BY <4>3, <4>4, <5>2 DEF Enter, Waits, storeVars, logVars, bgVars, QueueInv
        <5>3. QED
          BY <5>1, <5>2
      <4>5. CASE GoOn(t)
        BY <4>2, <4>5 DEF GoOn, QueueInv, Leading
      <4>6. CASE WakeUp(t)
        <5>1. CASE status[t] = None /\ t = Head(writers) /\ Room(t, writers)
          BY <4>2, <4>6, <5>1 DEF WakeUp, QueueInv
        <5>2. CASE status[t] = None /\ t # Head(writers) /\ Waits(t, writers, "queue")
          BY <4>3, <4>6, <5>2 DEF WakeUp, Waits, storeVars, logVars, bgVars, QueueInv
        <5>3. CASE status[t] # None
          <6>1. /\ UNCHANGED <<storeVars, logVars, bgVars, todo>>
                /\ pc' = [pc EXCEPT ![t] = AfterWrite(t, status[t])]
            BY <4>6, <5>3 DEF WakeUp
          <6>2. AfterWrite(t, status[t]) \in {"idle", "flush", "manual"}
            BY DEF AfterWrite
          <6>3. \A u \in Threads : pc'[u] \in {"sync", "insert"} => pc[u] = pc'[u]
            BY <6>1, <6>2 DEF QueueInv
          <6>4. QED
            BY <4>3, <6>1, <6>3 DEF storeVars, logVars, bgVars
        <5>4. QED
          BY <4>6, <5>1, <5>2, <5>3 DEF WakeUp
      <4>7. QED
        BY <3>1, <4>4, <4>5, <4>6
    <3>2. ASSUME NEW t \in Threads,
                 AppendRecord(t) \/ SyncLog(t) \/ InsertEntry(t) \/ Publish(t)
          PROVE  LogTypes' /\ Logged'
      BY <3>2, LeaderKeepsLogged
    <3>3. CASE Background
      BY <3>3, BackgroundKeepsLogged
    <3>4. ASSUME NEW t \in Threads, AwaitManual(t)
          PROVE  LogTypes' /\ Logged'
      <4>1. /\ UNCHANGED <<logNumber, minLog, nextFile, logs, level0, mem, imm, todo>>
            /\ bg' \in {bg, [NotRunning EXCEPT !.at = "queued"]}
        BY <3>4 DEF AwaitManual, MaybeScheduleCompaction, Schedule, storeVars, logVars
      <4>2. \A u \in Threads : pc'[u] \in {"sync", "insert"} => pc[u] = pc'[u]
        BY <3>4 DEF AwaitManual, QueueInv
      <4>3. bg' \in WorkItem /\ bg'.log \in {0, bg.log}
        <5>1. CASE bg' = [NotRunning EXCEPT !.at = "queued"]
          BY <5>1, WorkItemFacts
        <5>2. QED
          BY <4>1, <5>1 DEF LogTypes
      <4>4. LogTypes'
        BY <4>1, <4>3 DEF LogTypes, WorkItem
      <4>5. QED
        BY <4>1, <4>2, <4>4 DEF Logged, CurrentLog, NeededLogs
    <3>5. CASE \/ \E t \in Threads, r \in scenario.calls : Call(t, r)
               \/ \E t \in Threads : AwaitFlush(t) \/ AwaitClose(t) \/ Close(t)
               \/ UNCHANGED vars
      <4>1. UNCHANGED <<logNumber, minLog, nextFile, logs, bg, level0, mem, imm, todo>>
        BY <3>5 DEF Call, AwaitFlush, AwaitClose, Close, vars, storeVars, logVars, bgVars
      <4>2. \A u \in Threads : pc'[u] \in {"sync", "insert"} => pc[u] = pc'[u]
        BY <3>5 DEF Call, AwaitFlush, AwaitClose, Close, vars, threadVars, QueueInv
      <4>3. QED
        BY <4>1, <4>2 DEF LogTypes, Logged, CurrentLog, NeededLogs
    <3>6. QED
      BY <3>1, <3>2, <3>3, <3>4, <3>5 DEF Next, ThreadStep
  <2>3. QED
    BY <2>1, <2>2 DEF WriteInv
<1>3. QED
  BY <1>1, <1>2, PTL DEF Spec

\* A reader sees nothing a restart could lose but for what the operating system had not
\* written: the log file of a memtable outlives it until its table is in the manifest.
THEOREM NothingVisibleIsLost == Spec => []VisibleRecoverable
<1>1. WriteInv => VisibleRecoverable
  <2> SUFFICES ASSUME WriteInv PROVE VisibleRecoverable
    OBVIOUS
  <2>1. CurrentLog \subseteq NeededLogs
    BY DEF WriteInv, LogTypes, CurrentLog, NeededLogs
  <2>2. Stored \subseteq tables \cup NeededLogs
    <3>1. mem \subseteq NeededLogs /\ UNION imm \subseteq NeededLogs
      BY <2>1 DEF WriteInv, Logged
    <3>2. QED
      BY <3>1 DEF Stored
  <2>3. QED
    BY <2>2 DEF VisibleRecoverable, Visible, NeededLogs
<1>2. QED
  BY <1>1, WriteInvariant, PTL

-----------------------------------------------------------------------------
(* Waiting: first what FlattenSeq does, by induction on the number of parts *)

\* A set of numbers has a least one.
LEMMA LeastNumber ==
  ASSUME NEW T \in SUBSET Nat, T # {}
  PROVE  \E n \in T : \A m \in T : n <= m
<1> DEFINE R == {p \in Nat \X Nat : p[1] < p[2]}
<1>1. IsWellFoundedOn(R, Nat)
  <2>1. OpToRel(<, Nat) = R
    BY DEF OpToRel
  <2>2. QED
    BY <2>1, NatLessThanWellFounded
<1>2. PICK n \in T : \A m \in T : ~(<<m, n>> \in R)
  <2> HIDE DEF R
  <2> QED
    BY <1>1, WFMin
<1>3. \A m \in T : ~(m < n)
  BY <1>2
<1>4. \A m \in T : n <= m
  BY <1>3
<1>5. QED
  BY <1>4

\* Induction, over the set of the numbers that have a property.
LEMMA SetInduction ==
  ASSUME NEW T, 0 \in T, \A n \in Nat : n \in T => n + 1 \in T
  PROVE  Nat \subseteq T
<1>1. SUFFICES ASSUME Nat \ T # {} PROVE FALSE
  OBVIOUS
<1>2. PICK n \in Nat \ T : \A m \in Nat \ T : n <= m
  BY <1>1, LeastNumber
<1>3. n # 0 /\ n - 1 \in Nat /\ n - 1 < n
  BY <1>2
<1>4. n - 1 \in T
  BY <1>2, <1>3
<1>5. QED
  BY <1>2, <1>3, <1>4

\* FlattenSeq's recursive function exists.
LEMMA FlattenExists ==
  ASSUME NEW seqs, NEW len \in Nat
  PROVE  \E f : f = [i \in 1..len |-> IF i = 1 THEN seqs[i] ELSE f[i - 1] \o seqs[i]]
<1> DEFINE Is(f, n) == f = [i \in 1..n |-> IF i = 1 THEN seqs[i] ELSE f[i - 1] \o seqs[i]]
           T == {n \in Nat : \E f : Is(f, n)}
<1>1. 0 \in T
  <2>1. Is(<<>>, 0)
    OBVIOUS
  <2>2. QED
    BY <2>1
<1>2. ASSUME NEW n \in Nat, n \in T
      PROVE  n + 1 \in T
  <2>1. PICK f : Is(f, n)
    BY <1>2
  <2> DEFINE g == [i \in 1..n + 1 |->
                     IF i \in 1..n THEN f[i]
                     ELSE IF i = 1 THEN seqs[i] ELSE f[i - 1] \o seqs[i]]
  <2>2. \A i \in 1..n + 1 : g[i] = IF i = 1 THEN seqs[i] ELSE g[i - 1] \o seqs[i]
    <3> SUFFICES ASSUME NEW i \in 1..n + 1
                 PROVE  g[i] = IF i = 1 THEN seqs[i] ELSE g[i - 1] \o seqs[i]
      OBVIOUS
    <3>1. i # 1 => i - 1 \in 1..n /\ g[i - 1] = f[i - 1]
      OBVIOUS
    <3>2. i \in 1..n => f[i] = IF i = 1 THEN seqs[i] ELSE f[i - 1] \o seqs[i]
      BY <2>1
    <3>3. QED
      BY <3>1, <3>2
  <2>3. \E f1 : Is(f1, n + 1)
    <3>1. Is(g, n + 1)
      BY <2>2
    <3>2. QED
      BY <3>1
  <2> HIDE DEF Is
  <2>4. QED
    BY <2>3
<1>3. Nat \subseteq T
  <2> HIDE DEF T
  <2> QED
    BY <1>1, <1>2, SetInduction
<1>4. QED
  BY <1>3

\* FlattenSeq yields a sequence of its parts' members, all of them.
LEMMA FlattenFacts ==
  ASSUME NEW S, NEW seqs \in Seq(Seq(S)), seqs # <<>>
  PROVE  /\ FlattenSeq(seqs) \in Seq(S)
         /\ \A k \in 1..Len(FlattenSeq(seqs)) :
              \E i \in 1..Len(seqs) : \E j \in 1..Len(seqs[i]) : FlattenSeq(seqs)[k] = seqs[i][j]
         /\ \A i \in 1..Len(seqs) : \A j \in 1..Len(seqs[i]) :
              \E k \in 1..Len(FlattenSeq(seqs)) : FlattenSeq(seqs)[k] = seqs[i][j]
<1>1. PICK len \in Nat \ {0} : len = Len(seqs) /\ DOMAIN seqs = 1..len
  OBVIOUS
<1> DEFINE Unfolded(f) == [i \in 1..Len(seqs) |-> IF i = 1 THEN seqs[i] ELSE f[i - 1] \o seqs[i]]
           flatten == CHOOSE f : f = Unfolded(f)
<1>2. FlattenSeq(seqs) = flatten[len]
  BY <1>1 DEF FlattenSeq
<1>3. flatten = Unfolded(flatten)
  <2>1. \E f : f = Unfolded(f)
    BY <1>1, FlattenExists
  <2> HIDE DEF Unfolded
  <2>2. QED
    BY <2>1
<1>4. \A i \in 1..len : flatten[i] = IF i = 1 THEN seqs[i] ELSE flatten[i - 1] \o seqs[i]
  <2> HIDE DEF flatten
  <2>1. flatten = [i \in 1..len |-> IF i = 1 THEN seqs[i] ELSE flatten[i - 1] \o seqs[i]]
    BY <1>1, <1>3
  <2>2. QED
    BY <2>1
<1> HIDE DEF flatten
<1> DEFINE Good(i) ==
             /\ flatten[i] \in Seq(S)
             /\ \A k \in 1..Len(flatten[i]) :
                  \E h \in 1..i : \E j \in 1..Len(seqs[h]) : flatten[i][k] = seqs[h][j]
             /\ \A h \in 1..i : \A j \in 1..Len(seqs[h]) :
                  \E k \in 1..Len(flatten[i]) : flatten[i][k] = seqs[h][j]
           T == {n \in Nat : n + 1 <= len => Good(n + 1)}
<1>5. \A i \in 1..len : seqs[i] \in Seq(S)
  BY <1>1
<1>6. 0 \in T
  <2>1. flatten[1] = seqs[1]
    BY <1>1, <1>4
  <2>2. Good(1)
    BY <1>1, <1>5, <2>1
  <2>3. 0 + 1 = 1
    OBVIOUS
  <2> HIDE DEF Good
  <2>4. QED
    BY <2>2, <2>3
<1>7. ASSUME NEW n \in Nat, n \in T
      PROVE  n + 1 \in T
  <2> SUFFICES ASSUME n + 2 <= len PROVE Good(n + 2)
    <3>1. (n + 1) + 1 = n + 2
      OBVIOUS
    <3> HIDE DEF Good
    <3>2. QED
      BY <3>1
  <2>1. Good(n + 1)
    <3>1. n + 1 <= len
      BY <1>1
    <3> HIDE DEF Good
    <3>2. QED
      BY <1>7, <3>1
  <2>2. n + 2 \in 1..len /\ n + 2 # 1 /\ (n + 2) - 1 = n + 1
    BY <1>1
  <2>3. flatten[n + 2] = flatten[n + 1] \o seqs[n + 2]
    BY <1>4, <2>2
  <2>4. PICK a \in Seq(S) : a = flatten[n + 1]
    BY <2>1
  <2>5. PICK b \in Seq(S) : b = seqs[n + 2]
    BY <1>5, <2>2
  <2>6. /\ flatten[n + 2] \in Seq(S)
        /\ Len(flatten[n + 2]) = Len(a) + Len(b)
        /\ \A k \in 1..Len(a) + Len(b) :
             flatten[n + 2][k] = IF k <= Len(a) THEN a[k] ELSE b[k - Len(a)]
    <3>1. flatten[n + 2] = a \o b
      BY <2>3, <2>4, <2>5
    <3>2. QED
      BY <3>1, ConcatProperties
  <2>7. PICK la \in Nat, lb \in Nat : la = Len(a) /\ lb = Len(b)
    OBVIOUS
  <2>8. /\ Len(flatten[n + 2]) = la + lb
        /\ \A k \in 1..la + lb : flatten[n + 2][k] = IF k <= la THEN a[k] ELSE b[k - la]
    BY <2>6, <2>7
  <2>9. ASSUME NEW h \in 1..n + 2, NEW j \in 1..Len(seqs[h])
        PROVE  \E k \in 1..Len(flatten[n + 2]) : flatten[n + 2][k] = seqs[h][j]
    <3>1. CASE h \in 1..n + 1
      <4>1. PICK k \in 1..la : a[k] = seqs[h][j]
        BY <2>1, <2>4, <2>7, <3>1
      <4>2. k \in 1..la + lb /\ flatten[n + 2][k] = a[k]
        <5>1. k <= la /\ k \in 1..la + lb
          OBVIOUS
        <5>2. QED
          BY <2>8, <5>1
      <4>3. QED
        BY <2>8, <4>1, <4>2
    <3>2. CASE h = n + 2
      <4>1. j \in 1..lb /\ b[j] = seqs[h][j]
        BY <2>5, <2>7, <3>2
      <4>2. la + j \in 1..la + lb /\ flatten[n + 2][la + j] = b[j]
        BY <2>8, <4>1
      <4>3. QED
        BY <2>8, <4>1, <4>2
    <3>3. QED
      BY <3>1, <3>2
  <2>10. ASSUME NEW k \in 1..Len(flatten[n + 2])
        PROVE  \E h \in 1..n + 2 : \E j \in 1..Len(seqs[h]) : flatten[n + 2][k] = seqs[h][j]
    <3>1. CASE k <= Len(a)
      <4>1. PICK h \in 1..n + 1 : \E j \in 1..Len(seqs[h]) : a[k] = seqs[h][j]
        BY SMTT(60), <2>1, <2>4, <3>1
      <4>2. h \in 1..n + 2 /\ flatten[n + 2][k] = a[k]
        BY <2>6, <3>1
      <4>3. QED
        BY <4>1, <4>2
    <3>2. CASE k > Len(a)
      <4>1. k - Len(a) \in 1..Len(b) /\ flatten[n + 2][k] = b[k - Len(a)]
        BY <2>6, <3>2
      <4>2. QED
        BY <2>2, <2>5, <4>1
    <3>3. QED
      BY <2>4, <3>1, <3>2
  <2>11. QED
    BY <2>6, <2>9, <2>10
<1>8. Nat \subseteq T
  <2> HIDE DEF T
  <2> QED
    BY <1>6, <1>7, SetInduction
<1>9. Good(len)
  <2>1. len - 1 \in Nat /\ (len - 1) + 1 = len
    BY <1>1
  <2> HIDE DEF Good
  <2>2. QED
    BY <1>8, <2>1
<1>10. QED
  <2> HIDE DEF T
  <2>1. FlattenSeq(seqs) \in Seq(S)
    BY <1>2, <1>9
  <2>2. \A k \in 1..Len(FlattenSeq(seqs)) :
          \E i \in 1..Len(seqs) : \E j \in 1..Len(seqs[i]) : FlattenSeq(seqs)[k] = seqs[i][j]
    BY <1>1, <1>2, <1>9
  <2>3. \A i \in 1..Len(seqs) : \A j \in 1..Len(seqs[i]) :
          \E k \in 1..Len(FlattenSeq(seqs)) : FlattenSeq(seqs)[k] = seqs[i][j]
    BY <1>1, <1>2, <1>9
  <2>4. QED
    BY <2>1, <2>2, <2>3

-----------------------------------------------------------------------------
(* The inductive invariant *)

States == {"idle", "enter", "queue", "room", "append", "sync", "insert", "flush", "manual",
           "close", "closed"}
MaySleep == {"queue", "room", "flush", "manual", "close"}
Request == [id : Nat, sync : BOOLEAN, count : Nat, delayed : BOOLEAN]

CallTypes ==
  /\ scenario \in Scenarios
  /\ pc \in [Threads -> States] /\ req \in [Threads -> Request]
  /\ status \in [Threads -> BOOLEAN \cup {None}]
  /\ leaders \in Nat /\ calls \in Nat /\ lastSequence \in Nat
  /\ asleep \in SUBSET Threads
  /\ manual \in Threads \cup {None}
  /\ scheduled \in BOOLEAN /\ bgError \in BOOLEAN /\ shuttingDown \in BOOLEAN

\* A thread is in the queue once, and only while its call has no answer.
Members ==
  /\ \A i, j \in 1..Len(writers) : writers[i] = writers[j] => i = j
  /\ \A i \in 1..Len(writers) :
       pc[writers[i]] \in {"queue"} \cup Leading /\ status[writers[i]] = None
  /\ \A t \in Threads : status[t] # None => pc[t] = "queue"

\* There is a group as long as the front writer writes it.
Group ==
  /\ leaders # 0 => writers # <<>> /\ pc[Head(writers)] \in Writing
  /\ todo \in Seq(Nat \X Nat) /\ (todo = <<>>) = (leaders = 0)

Sleepers ==
  /\ \A t \in asleep : pc[t] \in MaySleep
  /\ \A t \in asleep : pc[t] = "queue" => status[t] = None /\ t # Head(writers)
  /\ \A t \in asleep : pc[t] # "queue" => scheduled

\* There is a work item as soon as, and as long as, there is work for it.
Work ==
  /\ scheduled = (bg.at # "none")
  /\ level0 \in Nat /\ bg.inputs \in Nat /\ level0 >= bg.inputs
  /\ ~bgError /\ ~shuttingDown /\ (imm # {} \/ manual # None \/ NeedsCompaction(level0))
       => scheduled
  /\ shuttingDown => \A t \in Threads : pc[t] \in {"idle", "close", "closed"}

\* A request that waits or is served is not done.
Requests == ManualKept /\ (manual # None => manual \notin manualDone)

WaitInv == CallTypes /\ Members /\ Group /\ Sleepers /\ Work /\ Requests

-----------------------------------------------------------------------------
(* Leaving the queue and making room *)

\* What the front writer t of queue q relies on when it makes room: it is awake, leads
\* alone and no group is under way; everybody else in q waits for his turn.
InFront(t, q) ==
  /\ q \in Seq(Threads) /\ q # <<>> /\ q[1] = t
  /\ \A i, j \in 1..Len(q) : q[i] = q[j] => i = j
  /\ \A i \in 2..Len(q) : pc[q[i]] = "queue" /\ status[q[i]] = None
  /\ \A u \in Threads \ {t} : pc[u] = "queue" /\ status[u] = None => \E i \in 1..Len(q) : q[i] = u
  /\ \A u \in Threads : status[u] # None => pc[u] = "queue"
  /\ status[t] = None

\* The writers that leave are awake afterwards, and so is the new front writer.
LEMMA LeaveWakes ==
  ASSUME CallTypes, NEW t \in Threads, NEW q, InFront(t, q), NEW n \in 1..Len(q),
         NEW ok \in BOOLEAN, NEW sleepers \in SUBSET (asleep \ {t}),
         LeaveQueue(t, q, n, ok, sleepers),
         \A u \in sleepers : pc[u] \in MaySleep /\ (pc[u] = "queue" => status[u] = None)
  PROVE  /\ Members'
         /\ pc' \in [Threads -> States] /\ status' \in [Threads -> BOOLEAN \cup {None}]
         /\ pc'[t] \in {"idle", "flush", "manual"} /\ \A u \in Threads \ {t} : pc'[u] = pc[u]
         /\ asleep' \subseteq sleepers
         /\ \A u \in asleep' : pc'[u] = "queue" => status'[u] = None /\ u # Head(writers')
<1> USE DEF CallTypes, InFront
<1>1. PICK len \in Nat \ {0} : len = Len(q) /\ DOMAIN q = 1..len
  OBVIOUS
<1>2. /\ writers' = SubSeq(q, n + 1, len) /\ writers' \in Seq(Threads)
      /\ Len(writers') = len - n
      /\ \A i \in 1..len - n : writers'[i] = q[n + i]
  BY <1>1 DEF LeaveQueue
<1>3. /\ pc' \in [Threads -> States] /\ pc'[t] \in {"idle", "flush", "manual"}
      /\ \A u \in Threads \ {t} : pc'[u] = pc[u]
  BY DEF LeaveQueue, AfterWrite, States
<1>4. /\ status' \in [Threads -> BOOLEAN \cup {None}]
      /\ \A u \in Threads \ {t} : (\A i \in 2..n : q[i] # u) => status'[u] = status[u]
      /\ \A u \in Threads \ {t} : status'[u] = None =>
           status[u] = None /\ \A i \in 2..n : q[i] # u
      /\ status'[t] = None
  <2>1. status' = [u \in Threads |-> IF u \in {q[i] : i \in 2..n} THEN ok
                                   ELSE IF u = t THEN None ELSE status[u]]
    BY DEF LeaveQueue
  <2>2. t \notin {q[i] : i \in 2..n}
    BY <1>1
  <2>3. ok # None
    BY NoneAssumption
  <2>4. status' \in [Threads -> BOOLEAN \cup {None}]
    BY <2>1
  <2>5. QED
    BY <2>1, <2>2, <2>3, <2>4
<1>5. asleep' = sleepers \ ({q[i] : i \in 2..n} \cup
                             (IF writers' = <<>> THEN {} ELSE {writers'[1]}))
  BY <1>1, <1>2 DEF LeaveQueue
<1>6. \A i \in 1..len - n : /\ n + i \in 2..len /\ q[n + i] \in Threads \ {t}
                            /\ \A j \in 2..n : q[j] # q[n + i]
  BY <1>1
<1>7. Members'
  <2>1. ASSUME NEW i \in 1..Len(writers'), NEW j \in 1..Len(writers'), writers'[i] = writers'[j]
        PROVE  i = j
    <3>1. n + i \in 1..len /\ n + j \in 1..len /\ q[n + i] = q[n + j]
      BY <1>2, <2>1
    <3>2. n + i = n + j
      BY <1>1, <3>1
    <3>3. QED
      BY <3>2
  <2>2. ASSUME NEW i \in 1..Len(writers')
        PROVE  pc'[writers'[i]] = "queue" /\ status'[writers'[i]] = None
    <3>1. i \in 1..len - n /\ writers'[i] = q[n + i]
      BY <1>2
    <3>2. pc[q[n + i]] = "queue" /\ status[q[n + i]] = None
      BY <1>1, <1>6, <3>1
    <3>3. q[n + i] \in Threads \ {t} /\ \A j \in 2..n : q[j] # q[n + i]
      BY <1>6, <3>1
    <3>4. pc'[q[n + i]] = pc[q[n + i]] /\ status'[q[n + i]] = status[q[n + i]]
      BY <1>3, <1>4, <3>3
    <3>5. QED
      BY <3>1, <3>2, <3>4
  <2>3. ASSUME NEW u \in Threads, status'[u] # None
        PROVE  pc'[u] = "queue"
    <3>1. u # t
      BY <1>4, <2>3
    <3>2. CASE \E i \in 2..n : q[i] = u
      BY <1>1, <1>3, <3>1, <3>2
    <3>3. CASE \A i \in 2..n : q[i] # u
      BY <1>3, <1>4, <2>3, <3>1, <3>3
    <3>4. QED
      BY <3>2, <3>3
  <2>4. QED
    BY <2>1, <2>2, <2>3 DEF Members
<1>8. ASSUME NEW u \in asleep', pc'[u] = "queue"
      PROVE  status'[u] = None /\ u # Head(writers')
  <2>1. u \in Threads \ {t} /\ u \in sleepers /\ \A i \in 2..n : q[i] # u
    BY <1>5
  <2>2. pc[u] = "queue" /\ status[u] = None
    BY <1>3, <1>8, <2>1
  <2>3. status'[u] = None
    BY <1>4, <2>1, <2>2
  <2>4. PICK i \in 1..len : q[i] = u
    BY <1>1, <2>1, <2>2
  <2>5. i \in n + 1..len
    BY <1>1, <2>1, <2>4
  <2>6. writers' # <<>>
    <3>1. Len(writers') # 0
      BY <1>1, <1>2, <2>5
    <3>2. QED
      BY <3>1
  <2>7. u # writers'[1]
    BY <1>5, <1>8, <2>6
  <2>8. QED
    BY <1>2, <2>3, <2>6, <2>7
<1>9. QED
  BY <1>3, <1>4, <1>5, <1>7, <1>8

\* The entries of a group are numbered from the last sequence number on, and each is
\* of a call of one of its writers; every call with a batch has one, the front one's too.
LEMMA GroupFacts ==
  ASSUME req \in [Threads -> Request], lastSequence \in Nat,
         NEW q \in Seq(Threads), NEW n \in 1..Len(q), req[q[1]].count # 0
  PROVE  /\ FlattenSeq([i \in 1..n |-> [j \in 1..req[q[i]].count |-> req[q[i]].id]]) \in Seq(Nat)
         /\ GroupEntries(q, n) \in Seq(Nat \X Nat) /\ GroupEntries(q, n) # <<>>
         /\ \A k \in 1..Len(GroupEntries(q, n)) :
              /\ GroupEntries(q, n)[k][1] = lastSequence + k
              /\ \E i \in 1..n : GroupEntries(q, n)[k][2] = req[q[i]].id /\ req[q[i]].count # 0
         /\ \A i \in 1..n : req[q[i]].count # 0 =>
              \E k \in 1..Len(GroupEntries(q, n)) : GroupEntries(q, n)[k][2] = req[q[i]].id
<1> DEFINE parts == [i \in 1..n |-> [j \in 1..req[q[i]].count |-> req[q[i]].id]]
           ids == FlattenSeq(parts)
<1>1. \A i \in 1..n : q[i] \in Threads /\ req[q[i]].count \in Nat /\ req[q[i]].id \in Nat
  BY DEF Request
<1>2. \A i \in 1..n : /\ parts[i] \in Seq(Nat) /\ Len(parts[i]) = req[q[i]].count
                      /\ \A j \in 1..Len(parts[i]) : parts[i][j] = req[q[i]].id
  <2> SUFFICES ASSUME NEW i \in 1..n
               PROVE  /\ parts[i] \in Seq(Nat) /\ Len(parts[i]) = req[q[i]].count
                      /\ \A j \in 1..Len(parts[i]) : parts[i][j] = req[q[i]].id
    OBVIOUS
  <2>1. PICK c \in Nat, d \in Nat : c = req[q[i]].count /\ d = req[q[i]].id
    BY <1>1
  <2>2. parts[i] = [j \in 1..c |-> d]
    BY <2>1
  <2>3. QED
    BY <2>1, <2>2
<1>3. parts \in Seq(Seq(Nat)) /\ Len(parts) = n
  <2>1. parts \in [1..n -> Seq(Nat)]
    BY <1>2
  <2> HIDE DEF parts
  <2>2. QED
    BY <2>1
<1> HIDE DEF parts
<1>4. parts # <<>>
  BY <1>3
<1>5. /\ ids \in Seq(Nat)
      /\ \A i \in 1..Len(parts) : \A j \in 1..Len(parts[i]) :
           \E k \in 1..Len(ids) : ids[k] = parts[i][j]
      /\ \A k \in 1..Len(ids) : \E i \in 1..Len(parts) :
           \E j \in 1..Len(parts[i]) : ids[k] = parts[i][j]
  BY ZenonT(60), <1>3, <1>4, FlattenFacts
<1>6. GroupEntries(q, n) = [k \in DOMAIN ids |-> <<lastSequence + k, ids[k]>>]
  BY DEF GroupEntries, parts
<1> HIDE DEF ids
<1>7. PICK len \in Nat : len = Len(ids) /\ DOMAIN ids = 1..len
  BY <1>5
<1>8. /\ GroupEntries(q, n) = [k \in 1..len |-> <<lastSequence + k, ids[k]>>]
      /\ \A k \in 1..len : lastSequence + k \in Nat /\ ids[k] \in Nat
  BY <1>5, <1>6, <1>7
<1>9. GroupEntries(q, n) \in Seq(Nat \X Nat) /\ Len(GroupEntries(q, n)) = len
  <2>1. GroupEntries(q, n) \in [1..len -> Nat \X Nat]
    BY <1>8
  <2>2. QED
    BY <1>7, <2>1
<1>10. ASSUME NEW i \in 1..n, req[q[i]].count # 0
       PROVE  \E k \in 1..len : GroupEntries(q, n)[k][2] = req[q[i]].id
  <2>1. i \in 1..Len(parts) /\ 1 \in 1..Len(parts[i]) /\ parts[i][1] = req[q[i]].id
    BY SMTT(60), <1>1, <1>2, <1>3, <1>10
  <2>2. PICK k \in 1..len : ids[k] = req[q[i]].id
    BY <1>5, <1>7, <2>1
  <2>3. QED
    BY <1>8, <2>2
<1>11. ASSUME NEW k \in 1..len
       PROVE  /\ GroupEntries(q, n)[k][1] = lastSequence + k
              /\ \E i \in 1..n : GroupEntries(q, n)[k][2] = req[q[i]].id /\ req[q[i]].count # 0
  <2>1. PICK i \in 1..Len(parts) : \E j \in 1..Len(parts[i]) : ids[k] = parts[i][j]
    BY <1>5, <1>7
  <2>2. i \in 1..n /\ ids[k] = req[q[i]].id /\ req[q[i]].count # 0
    BY <1>1, <1>2, <1>3, <2>1
  <2>3. QED
    BY <1>8, <2>2
<1>12. GroupEntries(q, n) # <<>>
  <2>1. 1 \in 1..n
    OBVIOUS
  <2>2. len # 0
    BY <1>10, <2>1
  <2>3. QED
    BY <1>9, <2>2
<1>13. QED
  BY <1>5, <1>9, <1>10, <1>11, <1>12 DEF parts, ids

\* Whatever MakeRoomForWrite does, the queue stays in order and nobody is left asleep.
LEMMA RoomKeepsWaiting ==
  ASSUME CallTypes, Work, Requests, NEW t \in Threads, NEW q, InFront(t, q),
         leaders = 0, todo = <<>>, pc[t] \in {"enter", "queue", "room"}, t \notin asleep,
         \A u \in asleep :
           /\ pc[u] \in MaySleep
           /\ pc[u] = "queue" => status[u] = None
           /\ pc[u] # "queue" => scheduled,
         Room(t, q), UNCHANGED <<scenario, manualVars, calls>>
  PROVE  WaitInv'
<1> DEFINE Places ==
             /\ pc' \in [Threads -> States] /\ status' \in [Threads -> BOOLEAN \cup {None}]
             /\ leaders' \in Nat
             /\ Members' /\ Group'
             /\ \A u \in Threads \ {t} : pc'[u] = pc[u]
             /\ asleep' \subseteq asleep \cup {t} /\ (t \in asleep' => pc'[t] = "room")
             /\ \A u \in asleep' : pc'[u] = "queue" => status'[u] = None /\ u # Head(writers')
<1>1. ~shuttingDown
  BY DEF Work
<1>2. PICK len \in Nat \ {0} : len = Len(q) /\ DOMAIN q = 1..len
  BY DEF InFront
<1>3. ASSUME NEW ok \in BOOLEAN, LeaveQueue(t, q, 1, ok, asleep \ {t}), UNCHANGED <<todo, leaders>>
      PROVE  Places
  <2>1. 1 \in 1..Len(q) /\ asleep \ {t} \in SUBSET (asleep \ {t})
    BY <1>2
  <2>2. \A u \in asleep \ {t} : pc[u] \in MaySleep /\ (pc[u] = "queue" => status[u] = None)
    OBVIOUS
  <2>3. /\ Members'
        /\ pc' \in [Threads -> States] /\ status' \in [Threads -> BOOLEAN \cup {None}]
        /\ \A u \in Threads \ {t} : pc'[u] = pc[u]
        /\ asleep' \subseteq asleep \ {t}
        /\ \A u \in asleep' : pc'[u] = "queue" => status'[u] = None /\ u # Head(writers')
    BY <1>3, <2>1, <2>2, LeaveWakes
  <2>4. Group' /\ leaders' \in Nat
    BY <1>3 DEF Group
  <2>5. QED
    BY <2>3, <2>4
<1>4. ASSUME NEW where \in {"room", "append"}, pc' = [pc EXCEPT ![t] = where],
             writers' = q, status' = status, Group', leaders' \in Nat,
             asleep' \subseteq asleep \cup {t}, t \in asleep' => where = "room"
      PROVE  Places
  <2>1. /\ pc' \in [Threads -> States] /\ pc'[t] = where
        /\ \A u \in Threads \ {t} : pc'[u] = pc[u]
    BY <1>4 DEF CallTypes, States
  <2>2. Members'
    <3>1. ASSUME NEW i \in 1..len
          PROVE  pc'[q[i]] \in {"queue"} \cup Leading /\ status[q[i]] = None
      <4>1. CASE i = 1
        BY <2>1, <4>1 DEF InFront, Leading, Writing
      <4>2. CASE i # 1
        <5>1. i \in 2..len /\ q[i] # t /\ q[i] \in Threads
          BY <1>2, <4>2 DEF InFront
        <5>2. QED
          BY <1>2, <2>1, <5>1 DEF InFront
      <4>3. QED
        BY <4>1, <4>2
    <3>2. \A u \in Threads : status[u] # None => pc'[u] = "queue"
      BY <2>1 DEF InFront
    <3>3. QED
      BY <1>2, <1>4, <3>1, <3>2 DEF Members, InFront
  <2>3. \A u \in asleep' : pc'[u] = "queue" => status'[u] = None /\ u # Head(writers')
    <3>1. Head(q) = t
      BY <1>2 DEF InFront
    <3>2. QED
      BY <1>4, <2>1, <3>1
  <2>4. status' \in [Threads -> BOOLEAN \cup {None}]
    BY <1>4 DEF CallTypes
  <2>5. QED
    BY <1>4, <2>1, <2>2, <2>3, <2>4
<1>5. ASSUME WriteGroup(t, q)
      PROVE  Places /\ (t \notin asleep')
  <2>1. CASE req[t].count = 0
    <3>1. LeaveQueue(t, q, 1, TRUE, asleep \ {t}) /\ UNCHANGED <<todo, leaders>>
      BY <1>5, <2>1 DEF WriteGroup
    <3>2. t \notin asleep'
      BY <3>1 DEF LeaveQueue
    <3>3. QED
      BY <1>3, <3>1, <3>2
  <2>2. CASE req[t].count # 0
    <3>1. PICK n \in 1..Len(q) : leaders' = n /\ todo' = GroupEntries(q, n)
      BY <1>5, <2>2 DEF WriteGroup
    <3>2. /\ writers' = q /\ pc' = [pc EXCEPT ![t] = "append"]
          /\ asleep' = asleep \ {t} /\ status' = status
      BY <1>5, <2>2 DEF WriteGroup
    <3>3. leaders' \in Nat /\ leaders' # 0
      BY <1>2, <3>1
    <3>4. todo' \in Seq(Nat \X Nat) /\ todo' # <<>>
      <4>1. req[q[1]].count # 0 /\ q \in Seq(Threads)
        BY <2>2 DEF InFront
      <4>2. QED
        BY <3>1, <4>1, GroupFacts DEF CallTypes
    <3>5. pc'[Head(writers')] \in Writing /\ writers' # <<>>
      BY <3>2 DEF InFront, Writing, CallTypes
    <3>6. Group'
      BY <3>3, <3>4, <3>5 DEF Group
    <3>7. QED
      BY <1>4, <3>2, <3>3, <3>6
  <2>3. QED
    BY <2>1, <2>2
<1>6. ASSUME Places, Work', Requests', req' \in [Threads -> Request], lastSequence' \in Nat,
             bgError' \in BOOLEAN, shuttingDown' \in BOOLEAN, scheduled' \in BOOLEAN,
             scheduled => scheduled', t \in asleep' => scheduled'
      PROVE  WaitInv'
  <2>1. CallTypes'
    BY <1>6 DEF CallTypes, manualVars
  <2>2. Sleepers'
    <3>1. \A u \in asleep' : pc'[u] \in MaySleep
      BY <1>6 DEF MaySleep, CallTypes
    <3>2. \A u \in asleep' : pc'[u] # "queue" => scheduled'
      BY <1>6 DEF CallTypes
    <3>3. QED
      BY <1>6, <3>1, <3>2 DEF Sleepers
  <2>3. QED
    BY <1>6, <2>1, <2>2 DEF WaitInv
<1>7. ASSUME Places, UNCHANGED <<storeVars, logVars, bgVars>>, req' \in [Threads -> Request],
             t \in asleep' => scheduled
      PROVE  WaitInv'
  <2>1. \A u \in Threads : shuttingDown' => pc'[u] \in {"idle", "close", "closed"}
    BY <1>1, <1>7 DEF bgVars
  <2>2. Work' /\ Requests'
    BY <1>7, <2>1 DEF Work, Requests, ManualKept, storeVars, bgVars, manualVars, NeedsCompaction
  <2>3. QED
    BY <1>6, <1>7, <2>2 DEF CallTypes, storeVars, bgVars
<1>8. CASE RoomError(t, q) \/ RoomNoLog(t, q)
  <2>1. /\ LeaveQueue(t, q, 1, FALSE, asleep \ {t}) /\ UNCHANGED <<todo, leaders>>
        /\ UNCHANGED <<storeVars, logVars, bgVars>> /\ UNCHANGED req
    BY <1>8 DEF RoomError, RoomNoLog
  <2>2. t \notin asleep'
    BY <2>1 DEF LeaveQueue
  <2>3. QED
    BY <1>3, <1>7, <2>1, <2>2 DEF CallTypes
<1>9. CASE RoomDelay(t, q)
  <2>1. /\ req' = [req EXCEPT ![t].delayed = TRUE] /\ asleep' = asleep \ {t}
        /\ pc' = [pc EXCEPT ![t] = "room"] /\ writers' = q /\ status' = status
        /\ UNCHANGED <<storeVars, logVars, bgVars, todo, leaders>>
    BY <1>9 DEF RoomDelay
  <2>2. req' \in [Threads -> Request]
    <3>1. req \in [Threads -> Request]
      BY DEF CallTypes
    <3>2. [req[t] EXCEPT !.delayed = TRUE] \in Request
      BY <3>1 DEF Request
    <3>3. QED
      BY <2>1, <3>1, <3>2
  <2>3. Group'
    BY <2>1 DEF Group
  <2>4. Places
    BY <1>4, <2>1, <2>3 DEF CallTypes
  <2>5. QED
    BY <1>7, <2>1, <2>2, <2>4
<1>10. CASE RoomThere(t, q)
  BY <1>5, <1>7, <1>10 DEF RoomThere, CallTypes
<1>11. CASE RoomWait(t, q)
  <2>1. /\ pc' = [pc EXCEPT ![t] = "room"] /\ writers' = q /\ status' = status
        /\ asleep' = asleep \cup {t}
        /\ UNCHANGED <<req, storeVars, logVars, bgVars, todo, leaders>>
    BY <1>11 DEF RoomWait, Waits
  <2>2. scheduled
    <3>1. imm # {} \/ NeedsCompaction(level0)
      BY <1>11, TriggersAssumption DEF RoomWait, NeedsCompaction, Work
    <3>2. ~bgError
      BY <1>11 DEF RoomWait
    <3>3. QED
      BY <1>1, <3>1, <3>2 DEF Work
  <2>3. Group'
    BY <2>1 DEF Group
  <2>4. Places
    BY <1>4, <2>1, <2>3 DEF CallTypes
  <2>5. QED
    BY <1>7, <2>1, <2>2, <2>4 DEF CallTypes
<1>12. CASE RoomSwitch(t, q)
  <2>1. /\ imm' = {mem} /\ WriteGroup(t, q) /\ ~bgError
        /\ MaybeScheduleCompaction({mem}, manual, level0, bgError, scheduled, bg)
        /\ UNCHANGED <<req, level0, lastSequence, bgError, shuttingDown>>
    BY <1>12 DEF RoomSwitch, MaySwitch
  <2>2. /\ scheduled' = TRUE
        /\ (bg' = bg /\ bg.at # "none") \/ bg' = [NotRunning EXCEPT !.at = "queued"]
    <3>1. CASE scheduled
      BY <2>1, <3>1 DEF MaybeScheduleCompaction, Work
    <3>2. CASE ~scheduled
      BY <1>1, <2>1, <3>2 DEF MaybeScheduleCompaction, Schedule
    <3>3. QED
      BY <3>1, <3>2
  <2>3. /\ bg'.at # "none" /\ bg'.inputs \in {0, bg.inputs} /\ (bg'.manual => bg.manual)
    BY <2>2 DEF NotRunning
  <2>4. \A u \in Threads : shuttingDown' => pc'[u] \in {"idle", "close", "closed"}
    BY <1>1, <2>1
  <2>5. Work'
    <3>1. level0' \in Nat /\ bg'.inputs \in Nat /\ level0' >= bg'.inputs
      BY <2>1, <2>3 DEF Work
    <3>2. scheduled' = (bg'.at # "none")
      BY <2>2, <2>3
    <3>3. QED
      BY <2>2, <2>4, <3>1, <3>2 DEF Work
  <2>6. Requests'
    BY <2>1, <2>3 DEF Requests, ManualKept, manualVars
  <2>7. QED
    BY <1>5, <1>6, <2>1, <2>2, <2>5, <2>6 DEF CallTypes
<1>13. QED
  BY <1>8, <1>9, <1>10, <1>11, <1>12 DEF Room

-----------------------------------------------------------------------------
(* The callers' steps *)

\* The writer at the front of the queue, as it makes room or leaves with its group.
LEMMA FrontFacts ==
  ASSUME WaitInv, QueueInv, NEW t \in Threads, writers # <<>>, t = Head(writers)
  PROVE  /\ InFront(t, writers)
         /\ pc[t] \notin Writing => leaders = 0 /\ todo = <<>>
<1> USE DEF WaitInv, QueueInv
<1>1. writers \in Seq(Threads) /\ writers[1] = t /\ 1 \in 1..Len(writers)
  OBVIOUS
<1>2. ASSUME NEW i \in 2..Len(writers)
      PROVE  pc[writers[i]] = "queue" /\ status[writers[i]] = None
  <2>1. i \in 1..Len(writers) /\ i # 1
    OBVIOUS
  <2>2. writers[i] # t /\ writers[i] \in Threads
    BY <1>1, <2>1 DEF Members
  <2>3. pc[writers[i]] \notin Leading
    BY <2>2
  <2>4. QED
    BY <2>1, <2>3 DEF Members
<1>3. status[t] = None
  BY <1>1 DEF Members
<1>4. InFront(t, writers)
  BY <1>1, <1>2, <1>3 DEF InFront, Members
<1>5. pc[t] \notin Writing => leaders = 0 /\ todo = <<>>
  BY DEF Group
<1>6. QED
  BY <1>4, <1>5

\* A writer that finds the queue empty is its front writer.
LEMMA EnterFacts ==
  ASSUME WaitInv, QueueInv, NEW t \in Threads, Enter(t), writers = <<>>
  PROVE  /\ InFront(t, Append(writers, t)) /\ leaders = 0 /\ todo = <<>>
         /\ \A u \in Threads : pc[u] \notin Leading
         /\ Room(t, Append(writers, t)) /\ UNCHANGED <<scenario, manualVars, calls>>
<1> USE DEF WaitInv, QueueInv
<1>1. pc[t] = "enter" /\ status[t] = None
  BY DEF Enter, Members
<1>2. \A u \in Threads : pc[u] \notin Leading /\ ~(pc[u] = "queue" /\ status[u] = None)
  OBVIOUS
<1>3. InFront(t, Append(writers, t))
  <2>1. Append(writers, t) = <<t>>
    OBVIOUS
  <2>2. <<t>> \in Seq(Threads) /\ <<t>> # <<>> /\ <<t>>[1] = t /\ Len(<<t>>) = 1
    OBVIOUS
  <2>3. QED
    BY <1>1, <1>2, <2>1, <2>2 DEF InFront, Members
<1>4. QED
  BY <1>2, <1>3 DEF Group, Enter

\* Write puts its writer at the end of the queue; at the front, it makes room.
LEMMA EnterWaits ==
  ASSUME WaitInv, QueueInv, NEW t \in Threads, Enter(t)
  PROVE  WaitInv'
<1> USE DEF WaitInv, QueueInv
<1>1. pc[t] = "enter" /\ status[t] = None /\ t \notin asleep
  BY DEF Enter, Members, Sleepers, MaySleep
<1>2. CASE writers = <<>>
  <2>1. \A u \in asleep :
          /\ pc[u] \in MaySleep
          /\ pc[u] = "queue" => status[u] = None
          /\ pc[u] # "queue" => scheduled
    BY DEF Sleepers
  <2>2. QED
    BY <1>1, <1>2, <2>1, EnterFacts, RoomKeepsWaiting
<1>3. CASE writers # <<>>
  <2>1. /\ writers' = Append(writers, t) /\ pc' = [pc EXCEPT ![t] = "queue"]
        /\ asleep' = asleep \cup {t}
        /\ UNCHANGED <<scenario, req, status, todo, leaders, calls, manualVars, storeVars, bgVars>>
    BY <1>3 DEF Enter, Waits
  <2>2. PICK len \in Nat \ {0} : len = Len(writers)
    BY <1>3
  <2>3. /\ Len(writers') = len + 1 /\ writers'[len + 1] = t
        /\ \A i \in 1..len : writers'[i] = writers[i] /\ writers[i] \in Threads
        /\ Head(writers') = Head(writers) /\ Head(writers) = writers[1] /\ writers' # <<>>
    BY <1>3, <2>1, <2>2
  <2>4. \A i \in 1..len : writers[i] # t
    BY <1>1, <2>2 DEF Members, Leading, Writing
  <2>5. pc'[t] = "queue" /\ (\A u \in Threads \ {t} : pc'[u] = pc[u]) /\ pc' \in [Threads -> States]
    BY <2>1 DEF CallTypes, States
  <2>6. CallTypes'
    BY <2>1, <2>5 DEF CallTypes, manualVars, storeVars, bgVars
  <2>7. Members'
    <3>1. ASSUME NEW i \in 1..len + 1, NEW j \in 1..len + 1, writers'[i] = writers'[j]
          PROVE  i = j
      <4>1. CASE i \in 1..len /\ j \in 1..len
        BY <2>2, <2>3, <3>1, <4>1 DEF Members
      <4>2. CASE i = len + 1 \/ j = len + 1
        BY <2>3, <2>4, <3>1, <4>2
      <4>3. QED
        BY <4>1, <4>2
    <3>2. ASSUME NEW i \in 1..len + 1
          PROVE  pc'[writers'[i]] \in {"queue"} \cup Leading /\ status[writers'[i]] = None
      <4>1. CASE i \in 1..len
        BY <2>2, <2>3, <2>4, <2>5, <4>1 DEF Members
      <4>2. CASE i = len + 1
        BY <1>1, <2>3, <2>5, <4>2
      <4>3. QED
        BY <4>1, <4>2
    <3>3. \A u \in Threads : status[u] # None => pc'[u] = "queue"
      BY <2>5 DEF Members
    <3>4. QED
      BY <2>1, <2>3, <3>1, <3>2, <3>3 DEF Members
  <2>8. Group'
    <3>1. Head(writers) # t /\ Head(writers) \in Threads
      BY <2>2, <2>3, <2>4
    <3>2. QED
      BY <2>1, <2>3, <2>5, <3>1 DEF Group
  <2>9. Sleepers'
    <3>1. t # Head(writers')
      BY <2>2, <2>3, <2>4
    <3>2. asleep \subseteq Threads /\ t \notin asleep
      BY <1>1 DEF CallTypes
    <3>3. scheduled' = scheduled /\ status' = status
      BY <2>1 DEF bgVars
    <3>4. "queue" \in MaySleep
      BY DEF MaySleep
    <3>5. ASSUME NEW u \in asleep'
          PROVE  /\ pc'[u] \in MaySleep
                 /\ pc'[u] = "queue" => status'[u] = None /\ u # Head(writers')
                 /\ pc'[u] # "queue" => scheduled'
      <4>1. CASE u = t
        BY <1>1, <2>5, <3>1, <3>3, <3>4, <4>1
      <4>2. CASE u # t
        BY <2>1, <2>3, <2>5, <3>2, <3>3, <4>2 DEF Sleepers
      <4>3. QED
        BY <4>1, <4>2
    <3>6. QED
      BY <3>5 DEF Sleepers
  <2>10. Work'
    <3>1. ~shuttingDown
      BY <1>1 DEF Work
    <3>2. QED
      BY <2>1, <3>1 DEF Work, NeedsCompaction, storeVars, bgVars, manualVars
  <2>11. Requests'
    BY <2>1 DEF Requests, ManualKept, bgVars, manualVars
  <2>12. QED
    BY <2>6, <2>7, <2>8, <2>9, <2>10, <2>11
<1>4. QED
  BY <1>2, <1>3

\* The front writer goes on with making room.
LEMMA FrontMakesRoom ==
  ASSUME WaitInv, QueueInv, NEW t \in Threads, writers # <<>>, t = Head(writers),
         pc[t] \in {"queue", "room"}, t \notin asleep,
         Room(t, writers), UNCHANGED <<scenario, manualVars, calls>>
  PROVE  WaitInv'
<1>1. InFront(t, writers) /\ leaders = 0 /\ todo = <<>>
  BY FrontFacts DEF Writing
<1>2. \A u \in asleep :
        /\ pc[u] \in MaySleep
        /\ pc[u] = "queue" => status[u] = None
        /\ pc[u] # "queue" => scheduled
  BY DEF WaitInv, Sleepers
<1>3. QED
  BY <1>1, <1>2, RoomKeepsWaiting DEF WaitInv

\* A step of thread t outside the queue, to a state where it is not asleep or is woken.
LEMMA OutsideWaits ==
  ASSUME WaitInv, QueueInv, NEW t \in Threads,
         pc[t] \notin {"queue"} \cup Leading \/ status[t] # None,
         NEW where \in States \ ({"queue"} \cup Leading), pc' = [pc EXCEPT ![t] = where],
         status' \in {status, [status EXCEPT ![t] = None]},
         status'[t] = None,
         UNCHANGED <<writers, todo, leaders>>
  PROVE  /\ pc' \in [Threads -> States] /\ status' \in [Threads -> BOOLEAN \cup {None}]
         /\ pc'[t] = where /\ \A u \in Threads \ {t} : pc'[u] = pc[u]
         /\ Members' /\ Group'
         /\ \A u \in asleep \ {t} : /\ pc'[u] \in MaySleep
                                    /\ pc'[u] = "queue" => status'[u] = None /\ u # Head(writers')
                                    /\ pc'[u] # "queue" => scheduled
<1> USE DEF WaitInv, QueueInv
<1>1. /\ pc' \in [Threads -> States] /\ status' \in [Threads -> BOOLEAN \cup {None}]
      /\ pc'[t] = where
      /\ \A u \in Threads \ {t} : pc'[u] = pc[u] /\ status'[u] = status[u]
  BY DEF CallTypes
<1>2. \A i \in 1..Len(writers) : writers[i] # t /\ writers[i] \in Threads
  BY DEF Members
<1>3. Members'
  <2>1. \A i \in 1..Len(writers) :
          pc'[writers[i]] \in {"queue"} \cup Leading /\ status'[writers[i]] = None
    BY <1>1, <1>2 DEF Members
  <2>2. \A u \in Threads : status'[u] # None => pc'[u] = "queue"
    BY <1>1 DEF Members
  <2>3. QED
    BY <2>1, <2>2 DEF Members
<1>4. Group'
  <2>1. writers # <<>> => Head(writers) \in Threads \ {t}
    BY <1>2
  <2>2. QED
    BY <1>1, <2>1 DEF Group
<1>5. asleep \subseteq Threads
  BY DEF CallTypes
<1>6. QED
  BY <1>1, <1>3, <1>4, <1>5 DEF Sleepers

\* A writer that wakes up has its answer, is at the front, or waits again.
LEMMA WakeUpWaits ==
  ASSUME WaitInv, QueueInv, NEW t \in Threads, WakeUp(t)
  PROVE  WaitInv'
<1>1. pc[t] = "queue" /\ t \notin asleep /\ UNCHANGED <<scenario, manualVars, calls>>
  BY DEF WakeUp
<1>2. ~shuttingDown
  BY <1>1 DEF WaitInv, Work
<1>3. CASE status[t] # None
  <2>1. /\ status' = [status EXCEPT ![t] = None]
        /\ pc' = [pc EXCEPT ![t] = AfterWrite(t, status[t])]
        /\ UNCHANGED <<req, asleep, writers, todo, leaders, storeVars, bgVars>>
    BY <1>3 DEF WakeUp
  <2>2. AfterWrite(t, status[t]) \in States \ ({"queue"} \cup Leading)
    BY DEF AfterWrite, States, Leading, Writing
  <2>3. status'[t] = None
    BY <2>1 DEF WaitInv, CallTypes
  <2>4. /\ pc' \in [Threads -> States] /\ status' \in [Threads -> BOOLEAN \cup {None}]
        /\ Members' /\ Group'
        /\ \A u \in asleep \ {t} : /\ pc'[u] \in MaySleep
                                   /\ pc'[u] = "queue" => status'[u] = None /\ u # Head(writers')
                                   /\ pc'[u] # "queue" => scheduled
    BY <1>3, <2>1, <2>2, <2>3, OutsideWaits
  <2>5. CallTypes'
    BY <1>1, <2>1, <2>4 DEF WaitInv, CallTypes, manualVars, storeVars, bgVars
  <2>6. Sleepers'
    BY <1>1, <2>1, <2>4 DEF Sleepers, bgVars
  <2>7. Work' /\ Requests'
    BY <1>1, <1>2, <2>1 DEF WaitInv, Work, Requests, ManualKept, NeedsCompaction, storeVars,
                           bgVars, manualVars
  <2>8. QED
    BY <2>4, <2>5, <2>6, <2>7 DEF WaitInv
<1>4. CASE status[t] = None /\ t = Head(writers) /\ Room(t, writers)
  <2>1. writers # <<>>
    BY <1>1, <1>4 DEF QueueInv
  <2>2. QED
    BY <1>1, <1>4, <2>1, FrontMakesRoom
<1>5. CASE /\ status[t] = None /\ t # Head(writers) /\ Waits(t, writers, "queue")
           /\ UNCHANGED <<req, storeVars, logVars, bgVars, faults>>
  <2>1. /\ pc' = pc /\ asleep' = asleep \cup {t} /\ writers' = writers
        /\ UNCHANGED <<req, status, todo, leaders, storeVars, bgVars>>
    BY <1>1, <1>5 DEF Waits, WaitInv, CallTypes
  <2>2. CallTypes' /\ Members' /\ Group'
    BY <1>1, <2>1 DEF WaitInv, CallTypes, Members, Group, manualVars, storeVars, bgVars
  <2>3. Sleepers'
    BY <1>1, <1>5, <2>1 DEF WaitInv, Sleepers, MaySleep, bgVars
  <2>4. Work' /\ Requests'
    BY <1>1, <2>1 DEF WaitInv, Work, Requests, ManualKept, NeedsCompaction, storeVars,
                      bgVars, manualVars
  <2>5. QED
    BY <2>2, <2>3, <2>4 DEF WaitInv
<1>6. QED
  BY <1>3, <1>4, <1>5 DEF WakeUp

\* A call leaves with its group, which is written or failed: the others of the group and
\* the next writer are awake, and a new error wakes who waits for background work.
LEMMA GroupEndWaits ==
  ASSUME WaitInv, QueueInv, NEW t \in Threads, pc[t] \in Writing, NEW ok \in BOOLEAN,
         NEW sleepers \in {asleep, AfterSignalAll(asleep)}, EndGroup(t, ok, sleepers),
         (bgError' = bgError /\ sleepers = asleep) \/ bgError' = TRUE,
         EnvOfGroup
  PROVE  WaitInv'
<1> USE DEF WaitInv
<1>1. writers # <<>> /\ t = Head(writers) /\ leaders \in 1..Len(writers) /\ InFront(t, writers)
  BY FrontFacts DEF QueueInv, Leading
<1>2. ~shuttingDown
  BY DEF Work, Writing
<1>3. t \notin asleep
  BY DEF Sleepers, MaySleep, Writing
<1>4. sleepers \in SUBSET (asleep \ {t}) /\ sleepers \subseteq Threads
  BY <1>3 DEF AfterSignalAll, CallTypes
<1>5. \A u \in sleepers : pc[u] \in MaySleep /\ (pc[u] = "queue" => status[u] = None)
  BY <1>4 DEF Sleepers
<1>6. LeaveQueue(t, writers, leaders, ok, sleepers) /\ todo' = <<>> /\ leaders' = 0
  BY DEF EndGroup
<1>7. /\ Members'
      /\ pc' \in [Threads -> States] /\ status' \in [Threads -> BOOLEAN \cup {None}]
      /\ \A u \in Threads \ {t} : pc'[u] = pc[u]
      /\ asleep' \subseteq sleepers
      /\ \A u \in asleep' : pc'[u] = "queue" => status'[u] = None /\ u # Head(writers')
  BY <1>1, <1>4, <1>5, <1>6, LeaveWakes
<1>8. CallTypes'
  <2>1. lastSequence' \in Nat
    BY DEF EndGroup, CallTypes, Group
  <2>2. asleep' \in SUBSET Threads /\ bgError' \in BOOLEAN /\ leaders' \in Nat
    BY <1>4, <1>6, <1>7 DEF CallTypes
  <2>3. UNCHANGED <<req, scenario, calls, manual, scheduled, shuttingDown>>
    BY DEF EndGroup, EnvOfGroup, manualVars
  <2>4. QED
    BY <1>7, <2>1, <2>2, <2>3 DEF CallTypes
<1>9. Group'
  BY <1>6 DEF Group
<1>10. Sleepers'
  <2>1. scheduled' = scheduled
    BY DEF EnvOfGroup
  <2>2. ASSUME NEW u \in asleep'
        PROVE  pc'[u] \in MaySleep /\ (pc'[u] # "queue" => scheduled')
    <3>1. u \in asleep /\ u \in Threads \ {t}
      BY <1>4, <1>7
    <3>2. QED
      BY <1>7, <2>1, <3>1 DEF Sleepers
  <2>3. QED
    BY <1>7, <2>2 DEF Sleepers
<1>11. Work' /\ Requests'
  BY <1>2 DEF Work, Requests, ManualKept, NeedsCompaction, EnvOfGroup, manualVars
<1>12. QED
  BY <1>7, <1>8, <1>9, <1>10, <1>11

\* The front writer works on its group.
LEMMA LeaderWaits ==
  ASSUME WaitInv, QueueInv, NEW t \in Threads,
         AppendRecord(t) \/ SyncLog(t) \/ InsertEntry(t) \/ Publish(t)
  PROVE  WaitInv'
<1>1. pc[t] \in Writing /\ EnvOfGroup
  BY DEF AppendRecord, SyncLog, InsertEntry, Publish, Writing
<1>2. ASSUME NEW where \in Writing, pc' = [pc EXCEPT ![t] = where],
             Unlocked, UNCHANGED bgError
      PROVE  WaitInv'
  <2> USE DEF WaitInv
  <2>1. /\ pc' \in [Threads -> States] /\ pc'[t] = where
        /\ \A u \in Threads \ {t} : pc'[u] = pc[u]
    BY <1>2 DEF CallTypes, States, Writing
  <2>2. CallTypes'
    BY <1>1, <1>2, <2>1 DEF CallTypes, Unlocked, EnvOfGroup, manualVars
  <2>3. Members'
    <3>1. \A i \in 1..Len(writers) : writers[i] \in Threads
      BY DEF QueueInv
    <3>2. QED
      BY <1>1, <1>2, <2>1, <3>1 DEF Members, Unlocked, Leading, Writing
  <2>4. Group'
    <3>1. writers # <<>> => Head(writers) \in Threads
      BY DEF QueueInv
    <3>2. QED
      BY <1>2, <2>1, <3>1 DEF Group, Unlocked
  <2>5. Sleepers'
    <3>1. t \notin asleep /\ asleep \subseteq Threads
      BY <1>1 DEF Sleepers, CallTypes, MaySleep, Writing
    <3>2. QED
      BY <1>1, <1>2, <2>1, <3>1 DEF Sleepers, Unlocked, EnvOfGroup
  <2>6. ~shuttingDown
    BY <1>1 DEF Work, Writing
  <2>7. Work' /\ Requests'
    BY <1>1, <1>2, <2>6 DEF Work, Requests, ManualKept, NeedsCompaction, EnvOfGroup, manualVars
  <2>8. QED
    BY <2>2, <2>3, <2>4, <2>5, <2>7
<1>3. ASSUME EndGroup(t, FALSE, asleep) \/ EndGroup(t, TRUE, asleep), UNCHANGED bgError
      PROVE  WaitInv'
  BY <1>1, <1>3, GroupEndWaits
<1>4. CASE AppendRecord(t)
  <2>1. CASE Unlocked /\ pc' = [pc EXCEPT ![t] = IF req[t].sync THEN "sync" ELSE "insert"]
    <3>1. (IF req[t].sync THEN "sync" ELSE "insert") \in Writing
      BY DEF Writing
    <3>2. QED
      BY <1>2, <1>4, <2>1, <3>1 DEF AppendRecord
  <2>2. QED
    BY <1>3, <1>4, <2>1 DEF AppendRecord
<1>5. CASE SyncLog(t)
  <2>1. CASE Unlocked /\ pc' = [pc EXCEPT ![t] = "insert"] /\ UNCHANGED bgError
    BY <1>2, <2>1 DEF Writing
  <2>2. CASE EndGroup(t, FALSE, AfterSignalAll(asleep)) /\ bgError' = TRUE
    BY <1>1, <2>2, GroupEndWaits
  <2>3. QED
    BY <1>5, <2>1, <2>2 DEF SyncLog
<1>6. CASE InsertEntry(t)
  <2>1. pc' = [pc EXCEPT ![t] = pc[t]]
    BY <1>6 DEF InsertEntry, WaitInv, CallTypes
  <2>2. QED
    BY <1>1, <1>2, <1>6, <2>1 DEF InsertEntry
<1>7. CASE Publish(t)
  BY <1>3, <1>7 DEF Publish
<1>8. QED
  BY <1>4, <1>5, <1>6, <1>7

\* Whoever waits for a flush, a manual compaction or the end of the background work waits
\* for a work item that is there; a new call does not wait at all.
LEMMA CallersWait ==
  ASSUME WaitInv, QueueInv, NEW t \in Threads,
         \/ AwaitFlush(t) \/ AwaitManual(t) \/ AwaitClose(t) \/ Close(t)
         \/ \E r \in scenario.calls : Call(t, r)
  PROVE  WaitInv'
<1>1. pc[t] \in {"idle", "flush", "manual", "close"} /\ status[t] = None
  BY DEF AwaitFlush, AwaitManual, AwaitClose, Close, Call, WaitInv, Members
<1>2. pc[t] \notin {"queue"} \cup Leading
  BY <1>1 DEF Leading, Writing
<1>3. UNCHANGED <<scenario, status, writers, todo, leaders, storeVars, bgError>>
  BY DEF AwaitFlush, AwaitManual, AwaitClose, Close, Call, bgVars
<1>4. ASSUME NEW where \in States \ ({"queue"} \cup Leading), pc' = [pc EXCEPT ![t] = where]
      PROVE  /\ pc' \in [Threads -> States] /\ status' \in [Threads -> BOOLEAN \cup {None}]
             /\ pc'[t] = where /\ \A u \in Threads \ {t} : pc'[u] = pc[u]
             /\ Members' /\ Group'
             /\ \A u \in asleep \ {t} : /\ pc'[u] \in MaySleep
                                        /\ pc'[u] = "queue" => status'[u] = None /\ u # Head(writers')
                                        /\ pc'[u] # "queue" => scheduled
  BY <1>1, <1>2, <1>3, <1>4, OutsideWaits
\* A step to state "where", of a thread that is awake.
<1>5. ASSUME NEW where \in States \ ({"queue"} \cup Leading), pc' = [pc EXCEPT ![t] = where],
             asleep' = asleep, t \notin asleep, UNCHANGED scheduled,
             req' \in [Threads -> Request], calls' \in Nat,
             manual' \in Threads \cup {None}, shuttingDown' \in BOOLEAN
      PROVE  CallTypes' /\ Members' /\ Group' /\ Sleepers'
  <2>1. CallTypes'
    BY <1>3, <1>4, <1>5 DEF WaitInv, CallTypes, storeVars
  <2>2. Sleepers'
    BY <1>4, <1>5 DEF Sleepers
  <2>3. QED
    BY <1>4, <1>5, <2>1, <2>2
\* A thread falls asleep where it is.
<1>6. ASSUME UNCHANGED <<pc, req, calls, shuttingDown>>, asleep' = asleep \cup {t}, pc[t] \in MaySleep,
             scheduled' = TRUE, manual' \in Threads \cup {None}
      PROVE  CallTypes' /\ Members' /\ Group' /\ Sleepers'
  <2>1. CallTypes' /\ Members' /\ Group'
    BY <1>3, <1>6 DEF WaitInv, CallTypes, Members, Group, storeVars
  <2>2. Sleepers'
    BY <1>2, <1>3, <1>6 DEF WaitInv, Sleepers
  <2>3. QED
    BY <2>1, <2>2
<1>7. CASE AwaitFlush(t)
  <2>1. /\ pc[t] = "flush" /\ t \notin asleep
        /\ UNCHANGED <<scenario, req, bg, scheduled, shuttingDown, manualVars, calls>>
    BY <1>7 DEF AwaitFlush, bgVars
  <2>2. ~shuttingDown
    BY <2>1 DEF WaitInv, Work
  <2>3. Work' /\ Requests'
    BY <1>3, <2>1, <2>2 DEF WaitInv, Work, Requests, ManualKept, NeedsCompaction, storeVars,
                           manualVars
  <2>4. CASE imm # {} /\ ~bgError
    <3>1. scheduled
      BY <2>2, <2>4 DEF WaitInv, Work
    <3>2. /\ pc' = pc /\ asleep' = asleep \cup {t} /\ pc[t] \in MaySleep
          /\ scheduled' = TRUE /\ manual' \in Threads \cup {None}
      BY <1>7, <2>1, <2>4, <3>1 DEF AwaitFlush, MaySleep, manualVars, WaitInv, CallTypes
    <3>3. QED
      BY <1>6, <2>1, <2>3, <3>2 DEF WaitInv
  <2>5. CASE ~(imm # {} /\ ~bgError)
    <3>1. /\ pc' = [pc EXCEPT ![t] = "manual"] /\ asleep' = asleep
          /\ "manual" \in States \ ({"queue"} \cup Leading)
      BY <1>7, <2>5 DEF AwaitFlush, States, Leading, Writing
    <3>2. /\ req' \in [Threads -> Request] /\ calls' \in Nat
          /\ manual' \in Threads \cup {None} /\ shuttingDown' \in BOOLEAN
      BY <2>1 DEF WaitInv, CallTypes, manualVars
    <3>3. QED
      BY <1>5, <2>1, <2>3, <3>1, <3>2 DEF WaitInv
  <2>6. QED
    BY <2>4, <2>5
<1>8. CASE AwaitManual(t)
  <2>1. /\ pc[t] = "manual" /\ t \notin asleep
        /\ UNCHANGED <<scenario, req, shuttingDown, calls>>
    BY <1>8 DEF AwaitManual
  <2>2. ~shuttingDown
    BY <2>1 DEF WaitInv, Work
  <2>3. CASE /\ t \in manualDone \/ bgError
             /\ pc' = [pc EXCEPT ![t] = "idle"]
             /\ manual' = IF manual = t THEN None ELSE manual
             /\ manualDone' = manualDone \ {t}
             /\ UNCHANGED <<asleep, bg, scheduled>>
    <3>1. "idle" \in States \ ({"queue"} \cup Leading)
      BY DEF States, Leading, Writing
    <3>2. /\ req' \in [Threads -> Request] /\ calls' \in Nat
          /\ manual' \in Threads \cup {None} /\ shuttingDown' \in BOOLEAN
      BY <2>1, <2>3 DEF WaitInv, CallTypes
    <3>3. manual' # None => manual' = manual /\ manual # None
      BY <2>3
    <3>4. ~bgError => manual' = manual
      BY <2>3, NoneAssumption DEF WaitInv, Requests
    <3>5. Work' /\ Requests'
      BY <1>3, <2>1, <2>2, <2>3, <3>3, <3>4
        DEF WaitInv, Work, Requests, ManualKept, NeedsCompaction, storeVars
    <3>6. QED
      BY <1>5, <2>1, <2>3, <3>1, <3>2, <3>5 DEF WaitInv
  <2>4. CASE /\ t \notin manualDone /\ ~bgError
             /\ asleep' = asleep \cup {t}
             /\ IF manual = None
                THEN manual' = t /\ MaybeScheduleCompaction(imm, t, level0, bgError, scheduled, bg)
                ELSE UNCHANGED <<manual, bg, scheduled>>
             /\ UNCHANGED <<pc, manualDone>>
    <3>1. t # None
      BY NoneAssumption
    <3>2. scheduled' = TRUE /\ (bg' = bg \/ bg' = [NotRunning EXCEPT !.at = "queued"])
      BY <2>2, <2>4, <3>1 DEF MaybeScheduleCompaction, Schedule, WaitInv, Work
    <3>3. /\ manual' \in Threads /\ manual' \notin manualDone'
      BY <2>4 DEF WaitInv, CallTypes, Requests
    <3>4. bg'.at # "none" /\ bg'.inputs \in Nat /\ bg'.inputs <= level0
      <4>1. CASE bg' = [NotRunning EXCEPT !.at = "queued"]
        BY <4>1 DEF NotRunning, WaitInv, Work
      <4>2. CASE bg' = bg /\ bg.at # "none"
        BY <4>2 DEF WaitInv, Work
      <4>3. CASE bg' = bg /\ bg.at = "none"
        BY <2>2, <2>4, <3>1, <4>3 DEF MaybeScheduleCompaction, Schedule, NotRunning, WaitInv, Work
      <4>4. QED
        BY <3>2, <4>1, <4>2, <4>3
    <3>5. Work'
      BY <1>3, <2>1, <2>2, <3>2, <3>4 DEF WaitInv, Work, NeedsCompaction, storeVars
    <3>6. Requests'
      BY <3>3, NoneAssumption DEF Requests, ManualKept
    <3>7. QED
      BY <1>6, <2>1, <2>4, <3>2, <3>3, <3>5, <3>6 DEF WaitInv, MaySleep
  <2>5. QED
    BY <1>8, <2>3, <2>4 DEF AwaitManual
<1>9. CASE AwaitClose(t)
  <2>1. /\ pc[t] = "close" /\ t \notin asleep
        /\ UNCHANGED <<scenario, req, bg, scheduled, shuttingDown, manualVars, calls>>
    BY <1>9 DEF AwaitClose, bgVars
  <2>2. pc' = pc \/ pc' = [pc EXCEPT ![t] = "closed"]
    BY <1>9 DEF AwaitClose
  <2>3. Work' /\ Requests'
    BY <1>3, <2>1, <2>2 DEF WaitInv, Work, Requests, ManualKept, NeedsCompaction, storeVars,
                           manualVars, CallTypes
  <2>4. CASE scheduled
    <3>1. /\ pc' = pc /\ asleep' = asleep \cup {t} /\ pc[t] \in MaySleep
          /\ scheduled' = TRUE /\ manual' \in Threads \cup {None}
      BY <1>9, <2>1, <2>4 DEF AwaitClose, MaySleep, manualVars, WaitInv, CallTypes
    <3>2. QED
      BY <1>6, <2>1, <2>3, <3>1 DEF WaitInv
  <2>5. CASE ~scheduled
    <3>1. /\ pc' = [pc EXCEPT ![t] = "closed"] /\ asleep' = asleep
          /\ "closed" \in States \ ({"queue"} \cup Leading)
      BY <1>9, <2>5 DEF AwaitClose, States, Leading, Writing
    <3>2. /\ req' \in [Threads -> Request] /\ calls' \in Nat
          /\ manual' \in Threads \cup {None} /\ shuttingDown' \in BOOLEAN
      BY <2>1 DEF WaitInv, CallTypes, manualVars
    <3>3. QED
      BY <1>5, <2>1, <2>3, <3>1, <3>2 DEF WaitInv
  <2>6. QED
    BY <2>4, <2>5
<1>10. CASE Close(t)
  <2>1. /\ \A u \in Threads : pc[u] = "idle"
        /\ shuttingDown' = TRUE /\ pc' = [pc EXCEPT ![t] = "close"]
        /\ UNCHANGED <<req, asleep, bg, scheduled, manualVars, calls>>
    BY <1>10 DEF Close
  <2>2. "close" \in States \ ({"queue"} \cup Leading)
    BY DEF States, Leading, Writing
  <2>3. t \notin asleep
    BY <2>1 DEF WaitInv, Sleepers, MaySleep
  <2>4. /\ req' \in [Threads -> Request] /\ calls' \in Nat
        /\ manual' \in Threads \cup {None} /\ shuttingDown' \in BOOLEAN
    BY <2>1 DEF WaitInv, CallTypes, manualVars
  <2>5. Work' /\ Requests'
    BY <1>3, <2>1 DEF WaitInv, Work, Requests, ManualKept, NeedsCompaction, storeVars,
                     manualVars, CallTypes
  <2>6. QED
    BY <1>5, <2>1, <2>2, <2>3, <2>4, <2>5 DEF WaitInv
<1>11. CASE \E r \in scenario.calls : Call(t, r)
  <2>1. PICK r \in scenario.calls : Call(t, r)
    BY <1>11
  <2>2. /\ pc[t] = "idle" /\ ~shuttingDown /\ calls' = calls + 1
        /\ req' = [req EXCEPT ![t] = [id |-> calls + 1, sync |-> r.sync, count |-> r.count,
                                      delayed |-> FALSE]]
        /\ pc' = [pc EXCEPT ![t] = "enter"]
        /\ UNCHANGED <<asleep, bgVars, manualVars>>
    BY <2>1 DEF Call
  <2>3. r.sync \in BOOLEAN /\ r.count \in Nat
    BY ScenariosAssumption DEF WaitInv, CallTypes
  <2>4. "enter" \in States \ ({"queue"} \cup Leading)
    BY DEF States, Leading, Writing
  <2>5. t \notin asleep
    BY <2>2 DEF WaitInv, Sleepers, MaySleep
  <2>6. /\ req' \in [Threads -> Request] /\ calls' \in Nat
        /\ manual' \in Threads \cup {None} /\ shuttingDown' \in BOOLEAN
    BY <2>2, <2>3 DEF WaitInv, CallTypes, Request, bgVars, manualVars
  <2>7. Work' /\ Requests'
    BY <1>3, <2>2 DEF WaitInv, Work, Requests, ManualKept, NeedsCompaction, storeVars, bgVars,
                     manualVars
  <2>8. QED
    BY <1>5, <2>2, <2>4, <2>5, <2>6, <2>7 DEF WaitInv, bgVars
<1>12. QED
  BY <1>7, <1>8, <1>9, <1>10, <1>11

-----------------------------------------------------------------------------
(* The background thread *)

\* A work item ends with everybody who waits for it awake, and with a new item if there
\* is work left; while it is under way, it keeps the manual request it serves.
LEMMA BackgroundWaits ==
  ASSUME WaitInv, QueueInv, LogTypes, Background
  PROVE  WaitInv'
<1> USE DEF WaitInv
<1>1. UNCHANGED <<scenario, pc, req, status, writers, todo, leaders, lastSequence, shuttingDown, calls>>
  BY DEF Background, RunItem, FlushBuilt, FlushInstalled, MergeYields, MergeDone,
         MergeInstalled, CallerVars
<1>2. Members' /\ Group'
  BY <1>1 DEF Members, Group
<1>3. bg.at # "none" /\ scheduled
  BY DEF Background, RunItem, ItemReady, FlushBuilt, FlushInstalled, MergeYields, MergeDone,
         MergeInstalled, Work
\* Steps that end the item, or wake everybody, or wake nobody.
<1>4. ASSUME asleep' = AfterSignalAll(asleep) \/ (asleep' = asleep /\ scheduled' = TRUE),
             scheduled' \in BOOLEAN, bgError' \in BOOLEAN, manual' \in Threads \cup {None}
      PROVE  CallTypes' /\ Sleepers'
  <2>1. asleep' \subseteq asleep
    BY <1>4 DEF AfterSignalAll
  <2>2. CallTypes'
    BY <1>1, <1>4, <2>1 DEF CallTypes
  <2>3. \A u \in asleep' : pc[u] # "queue" => scheduled'
    <3>1. CASE asleep' = AfterSignalAll(asleep)
      BY <3>1 DEF AfterSignalAll, Sleepers, MaySleep
    <3>2. QED
      BY <1>4, <3>1
  <2>4. Sleepers'
    BY <1>1, <2>1, <2>3 DEF Sleepers
  <2>5. QED
    BY <2>2, <2>4
<1>5. ASSUME NEW i, NEW m, NEW n, NEW error, EndCall(i, m, n, error)
      PROVE  /\ asleep' = AfterSignalAll(asleep) /\ scheduled' \in BOOLEAN
             /\ scheduled' = (bg'.at # "none") /\ bg'.inputs = 0 /\ bg'.manual = FALSE
             /\ ~error /\ ~shuttingDown /\ (i # {} \/ m # None \/ NeedsCompaction(n)) => scheduled'
  <2>1. CASE ~shuttingDown /\ ~error /\ (i # {} \/ m # None \/ NeedsCompaction(n))
    <3>1. scheduled' = TRUE /\ bg' = [NotRunning EXCEPT !.at = "queued"]
      BY <1>5, <2>1 DEF EndCall, MaybeScheduleCompaction, Schedule
    <3>2. bg'.at = "queued" /\ bg'.inputs = 0 /\ bg'.manual = FALSE
      BY <3>1 DEF NotRunning
    <3>3. QED
      BY <1>5, <3>1, <3>2 DEF EndCall
  <2>2. CASE ~(~shuttingDown /\ ~error /\ (i # {} \/ m # None \/ NeedsCompaction(n)))
    <3>1. scheduled' = FALSE /\ bg' = NotRunning
      BY <1>5, <2>2 DEF EndCall, MaybeScheduleCompaction
    <3>2. QED
      BY <1>5, <2>2, <3>1 DEF EndCall, NotRunning
  <2>3. QED
    BY <2>1, <2>2
<1>6. ASSUME EndCall(imm', manual', level0', bgError'), level0' \in Nat, bgError' \in BOOLEAN,
             manual' \in Threads \cup {None}, manual' # None => manual' \notin manualDone'
      PROVE  WaitInv'
  <2>1. /\ asleep' = AfterSignalAll(asleep) /\ scheduled' \in BOOLEAN
        /\ scheduled' = (bg'.at # "none") /\ bg'.inputs = 0 /\ bg'.manual = FALSE
        /\ ~bgError' /\ ~shuttingDown /\ (imm' # {} \/ manual' # None \/ NeedsCompaction(level0'))
             => scheduled'
    BY <1>5, <1>6
  <2>2. /\ asleep' = AfterSignalAll(asleep) /\ scheduled' \in BOOLEAN
        /\ bgError' \in BOOLEAN /\ manual' \in Threads \cup {None}
    BY <1>6, <2>1
  <2>3. CallTypes' /\ Sleepers'
    BY <1>4, <2>2
  <2>4. Work' /\ Requests'
    BY <1>1, <1>6, <2>1 DEF Work, Requests, ManualKept, NeedsCompaction
  <2>5. QED
    BY <1>2, <2>3, <2>4
\* Steps after which the item goes on.
<1>7. ASSUME asleep' = AfterSignalAll(asleep) \/ asleep' = asleep,
             UNCHANGED <<scheduled, manualVars>>, bgError' \in {bgError, TRUE},
             level0' \in Nat, bg'.inputs \in Nat, bg'.inputs <= level0', bg'.at # "none",
             bg'.manual \in {bg.manual, manual # None}
      PROVE  WaitInv'
  <2>1. scheduled' = TRUE
    BY <1>3, <1>7 DEF CallTypes
  <2>2. bgError' \in BOOLEAN /\ manual' \in Threads \cup {None}
    BY <1>7 DEF CallTypes, manualVars
  <2>3. CallTypes' /\ Sleepers'
    BY <1>4, <1>7, <2>1, <2>2
  <2>4. Work'
    BY <1>1, <1>7, <2>1 DEF Work, NeedsCompaction
  <2>5. Requests'
    <3>1. manual' = manual /\ manualDone' = manualDone
      BY <1>7 DEF manualVars
    <3>2. ASSUME bg'.manual, ~bgError'
          PROVE  manual # None
      <4>1. ~bgError
        BY <1>7, <3>2
      <4>2. bg.manual \/ manual # None
        BY <1>7, <3>2
      <4>3. QED
        BY <4>1, <4>2 DEF Requests, ManualKept
    <3>3. QED
      BY <3>1, <3>2 DEF Requests, ManualKept
  <2>6. QED
    BY <1>2, <2>3, <2>4, <2>5
<1>8. level0 \in Nat /\ bg.inputs \in Nat /\ bg.inputs <= level0 /\ bgError \in BOOLEAN
      /\ manual \in Threads \cup {None} /\ (manual # None => manual \notin manualDone)
  BY DEF Work, CallTypes, Requests
<1>9. ASSUME NEW error \in {bgError, TRUE}, bgError' = error, level0' \in {level0, level0 + 1},
             EndFlush(imm', level0', error)
      PROVE  WaitInv'
  <2>1. /\ UNCHANGED manualVars /\ bgError' \in {bgError, TRUE}
        /\ level0' \in Nat /\ level0 <= level0'
    <3>1. level0' \in Nat /\ level0 <= level0'
      BY <1>8, <1>9
    <3>2. UNCHANGED manualVars
      BY <1>9 DEF EndFlush
    <3>3. QED
      BY <1>9, <3>1, <3>2
  <2>2. CASE bg.nested
    <3>1. /\ bg' = [bg EXCEPT !.at = "merge", !.nested = FALSE]
          /\ asleep' = AfterSignalAll(asleep) /\ UNCHANGED scheduled
      BY <1>9, <2>2 DEF EndFlush
    <3>2. bg'.inputs = bg.inputs /\ bg'.manual = bg.manual /\ bg'.at # "none"
      <4>1. bg \in WorkItem
        BY DEF LogTypes
      <4>2. QED
        BY <3>1, <4>1 DEF WorkItem
    <3>3. bg'.inputs \in Nat /\ bg'.inputs <= level0' /\ bg'.manual \in {bg.manual, manual # None}
      BY <1>8, <2>1, <3>2
    <3>4. QED
      BY <1>7, <2>1, <3>1, <3>2, <3>3, Zenon
  <2>3. CASE ~bg.nested
    <3>1. EndCall(imm', manual', level0', bgError')
      BY <1>9, <2>1, <2>3 DEF EndFlush, manualVars
    <3>2. bgError' \in BOOLEAN /\ manual' \in Threads \cup {None}
          /\ (manual' # None => manual' \notin manualDone')
      BY <1>8, <2>1 DEF manualVars
    <3>3. QED
      BY <1>6, <2>1, <3>1, <3>2
  <2>4. QED
    BY <2>2, <2>3
<1>10. ASSUME NEW n \in Nat, NEW error \in {bgError, TRUE}, NEW failed, NEW nothing,
              EndCompaction(n, error, failed, nothing),
              level0' = n, bgError' = error, UNCHANGED imm
       PROVE  WaitInv'
  <2>1. EndCall(imm', manual', level0', bgError')
    BY <1>10 DEF EndCompaction
  <2>2. /\ manual' \in Threads \cup {None} /\ bgError' \in BOOLEAN /\ level0' \in Nat
        /\ manual' # None => manual' \notin manualDone'
    BY <1>8, <1>10 DEF EndCompaction
  <2>3. QED
    BY <1>6, <2>1, <2>2
<1>11. ASSUME MergeFails, UNCHANGED imm
       PROVE  WaitInv'
  <2>1. level0' = level0 /\ bgError' = TRUE /\ EndCompaction(level0, TRUE, TRUE, FALSE)
    BY <1>11 DEF MergeFails
  <2>2. QED
    BY <1>8, <1>10, <1>11, <2>1
<1>12. CASE RunItem
  <2>1. UNCHANGED <<imm, level0, bgError>>
    BY <1>12 DEF RunItem
  <2>2. CASE EndCall(imm, manual, level0, bgError) /\ UNCHANGED manualVars
    BY <1>6, <1>8, <2>1, <2>2 DEF manualVars
  <2>3. CASE manual' = None /\ EndCall(imm, None, level0, bgError)
    BY <1>6, <1>8, <2>1, <2>3
  <2>4. CASE bg' = [bg EXCEPT !.at = "build"] /\ UNCHANGED <<asleep, scheduled, manualVars>>
    <3>1. bg'.inputs = bg.inputs /\ bg'.manual = bg.manual /\ bg'.at # "none"
      BY <2>4 DEF LogTypes, WorkItem
    <3>2. QED
      BY <1>7, <1>8, <2>1, <2>4, <3>1
  <2>5. ASSUME NEW n \in 1..level0, NEW at \in {"merge", "install"},
               bg' = [bg EXCEPT !.at = at, !.manual = (manual # None), !.inputs = n],
               UNCHANGED <<asleep, scheduled, manualVars>>
        PROVE  WaitInv'
    <3>1. bg'.inputs = n /\ bg'.manual = (manual # None) /\ bg'.at # "none"
      BY <2>5 DEF LogTypes, WorkItem
    <3>2. QED
      BY <1>7, <1>8, <2>1, <2>5, <3>1
  <2>6. QED
    BY <1>12, <2>2, <2>3, <2>4, <2>5 DEF RunItem
<1>13. CASE FlushBuilt
  <2>1. CASE FlushFails
    BY <1>9, <2>1 DEF FlushFails
  <2>2. CASE /\ bg' = [bg EXCEPT !.at = "apply", !.log = logNumber]
             /\ UNCHANGED <<asleep, scheduled, manualVars, level0, bgError>>
    <3>1. bg'.inputs = bg.inputs /\ bg'.manual = bg.manual /\ bg'.at # "none"
      BY <2>2 DEF LogTypes, WorkItem
    <3>2. QED
      BY <1>7, <1>8, <2>2, <3>1
  <2>3. QED
    BY <1>13, <2>1, <2>2 DEF FlushBuilt
<1>14. CASE FlushInstalled
  <2>1. CASE FlushFails
    BY <1>9, <2>1 DEF FlushFails
  <2>2. CASE ~FlushFails
    <3>1. /\ level0' \in {level0, level0 + 1} /\ imm' = {} /\ bgError' = bgError
          /\ EndFlush({}, level0', bgError)
      BY <1>14, <2>2 DEF FlushInstalled
    <3>2. QED
      BY <1>9, <3>1
  <2>3. QED
    BY <2>1, <2>2
<1>15. CASE MergeYields
  <2>1. /\ bg' = [bg EXCEPT !.at = "build", !.nested = TRUE]
        /\ UNCHANGED <<asleep, scheduled, manualVars, level0, bgError>>
    BY <1>15 DEF MergeYields
  <2>2. bg'.inputs = bg.inputs /\ bg'.manual = bg.manual /\ bg'.at # "none"
    BY <2>1 DEF LogTypes, WorkItem
  <2>3. QED
    BY <1>7, <1>8, <2>1, <2>2
<1>16. CASE MergeDone
  <2>1. CASE MergeFails
    BY <1>16, <1>11, <2>1 DEF MergeDone
  <2>2. CASE /\ bg' = [bg EXCEPT !.at = "install"]
             /\ UNCHANGED <<asleep, scheduled, manualVars, level0, bgError>>
    <3>1. bg'.inputs = bg.inputs /\ bg'.manual = bg.manual /\ bg'.at # "none"
      BY <2>2 DEF LogTypes, WorkItem
    <3>2. QED
      BY <1>7, <1>8, <2>2, <3>1
  <2>3. QED
    BY <1>16, <2>1, <2>2 DEF MergeDone
<1>17. CASE MergeInstalled
  <2>1. CASE MergeFails
    BY <1>17, <1>11, <2>1 DEF MergeInstalled
  <2>2. CASE ~MergeFails
    <3>1. /\ level0' = level0 - bg.inputs /\ bgError' = bgError /\ UNCHANGED imm
          /\ EndCompaction(level0', bgError, FALSE, FALSE)
      BY <1>17, <2>2 DEF MergeInstalled
    <3>2. level0' \in Nat
      BY <1>8, <3>1
    <3>3. QED
      BY <1>10, <3>1, <3>2
  <2>3. QED
    BY <2>1, <2>2
<1>18. QED
  BY <1>12, <1>13, <1>14, <1>15, <1>16, <1>17 DEF Background

-----------------------------------------------------------------------------
(* The theorems *)

\* In every state: the queue's order, the group under way, who sleeps and why, what is
\* scheduled and what a manual request stands for.
THEOREM WaitInvariant == Spec => []WaitInv
<1>1. Init => WaitInv
  <2> SUFFICES ASSUME Init PROVE WaitInv
    OBVIOUS
  <2> USE DEF Init
  <2>1. NoCall \in Request /\ "idle" \in States /\ manual = None
    BY DEF NoCall, Request, States
  <2>2. CallTypes
    BY <2>1 DEF CallTypes
  <2>3. Members /\ Group /\ Sleepers
    BY DEF Members, Group, Sleepers
  <2>4. ~NeedsCompaction(0)
    BY TriggersAssumption DEF NeedsCompaction
  <2>5. Work /\ Requests
    <3>1. bg.at = "none" /\ bg.manual = FALSE /\ bg.inputs = 0
      BY DEF NotRunning
    <3>2. Requests
      BY <2>1, <3>1 DEF Requests, ManualKept
    <3>3. scheduled = (bg.at # "none")
      BY <3>1
    <3>4. Work
      BY <2>1, <2>4, <3>1, <3>3 DEF Work
    <3>5. QED
      BY <3>2, <3>4
  <2>6. QED
    BY <2>2, <2>3, <2>5 DEF WaitInv
<1>2. WaitInv /\ WriteInv /\ [Next]_vars => WaitInv'
  <2> SUFFICES ASSUME WaitInv, WriteInv, [Next]_vars PROVE WaitInv'
    OBVIOUS
  <2>1. QueueInv /\ LogTypes
    BY DEF WriteInv
  <2>2. CASE Background
    BY <2>1, <2>2, BackgroundWaits
  <2>3. ASSUME NEW t \in Threads, ThreadStep(t) \/ Close(t) \/ \E r \in scenario.calls : Call(t, r)
        PROVE  WaitInv'
    <3>1. CASE Enter(t)
      BY <2>1, <3>1, EnterWaits
    <3>2. CASE WakeUp(t)
      BY <2>1, <3>2, WakeUpWaits
    <3>3. CASE GoOn(t)
      <4>1. /\ pc[t] = "room" /\ t \notin asleep /\ Room(t, writers)
            /\ UNCHANGED <<scenario, manualVars, calls>>
        BY <3>3 DEF GoOn
      <4>2. writers # <<>> /\ t = Head(writers)
        BY <2>1, <4>1 DEF QueueInv, Leading
      <4>3. QED
        BY <2>1, <4>1, <4>2, FrontMakesRoom
    <3>4. CASE AppendRecord(t) \/ SyncLog(t) \/ InsertEntry(t) \/ Publish(t)
      BY <2>1, <3>4, LeaderWaits
    <3>5. CASE AwaitFlush(t) \/ AwaitManual(t) \/ AwaitClose(t) \/ Close(t)
               \/ \E r \in scenario.calls : Call(t, r)
      BY <2>1, <3>5, CallersWait
    <3>6. QED
      BY <2>3, <3>1, <3>2, <3>3, <3>4, <3>5 DEF ThreadStep
  <2>4. CASE UNCHANGED vars
    <3>1. UNCHANGED <<scenario, pc, req, status, asleep, writers, todo, leaders, imm, level0,
                      lastSequence, bg, scheduled, bgError, shuttingDown, manual, manualDone, calls>>
      BY <2>4 DEF vars, threadVars, storeVars, bgVars, manualVars
    <3>2. CallTypes' /\ Members' /\ Group'
      BY <3>1 DEF WaitInv, CallTypes, Members, Group
    <3>3. Sleepers' /\ Work' /\ Requests'
      BY <3>1 DEF WaitInv, Sleepers, Work, Requests, ManualKept, NeedsCompaction
    <3>4. QED
      BY <3>2, <3>3 DEF WaitInv
  <2>5. QED
    BY <2>2, <2>3, <2>4 DEF Next
<1>3. QED
  BY <1>1, <1>2, WriteInvariant, PTL DEF Spec

\* Nobody waits for a wake-up that does not come: neither the front writer for its turn
\* nor anybody for background work that is not scheduled.
THEOREM NobodyForgotten == Spec => []NoLostWakeUp
<1>1. WaitInv => NoLostWakeUp
  BY DEF WaitInv, Sleepers, NoLostWakeUp
<1>2. QED
  BY <1>1, WaitInvariant, PTL

\* The group's and the background thread's bookkeeping is right.
THEOREM WriteTypes == Spec => []TypeOK
<1>1. WaitInv /\ WriteInv => TypeOK
  <2> SUFFICES ASSUME WaitInv, WriteInv PROVE TypeOK
    OBVIOUS
  <2> USE DEF WaitInv, WriteInv
  <2>1. leaders <= Len(writers)
    <3>1. CASE leaders = 0
      BY <3>1 DEF QueueInv
    <3>2. CASE leaders # 0
      <4>1. Head(writers) \in Threads /\ pc[Head(writers)] \in Writing
        BY <3>2 DEF Group, QueueInv
      <4>2. QED
        BY <4>1 DEF QueueInv
    <3>3. QED
      BY <3>1, <3>2
  <2>2. asleep \subseteq {t \in Threads : pc[t] \in {"queue", "room", "flush", "manual", "close"}}
    BY DEF CallTypes, Sleepers, MaySleep
  <2>3. bg.at \in {"none", "queued", "build", "apply", "merge", "install"}
    BY DEF LogTypes, WorkItem
  <2>4. QED
    BY <2>1, <2>2, <2>3 DEF TypeOK, LogTypes, Group, Work
<1>2. QED
  BY <1>1, WaitInvariant, WriteInvariant, PTL

\* As long as no error is known, the compaction that serves a manual request finds it
\* there when it ends.
THEOREM RequestsKept == Spec => []ManualKept
<1>1. WaitInv => ManualKept
  BY DEF WaitInv, Requests
<1>2. QED
  BY <1>1, WaitInvariant, PTL

-----------------------------------------------------------------------------
(* Batches, answers and the refinement *)

Asked == {"enter", "queue", "room", "append", "sync", "insert"}

\* Calls are told apart by their ids; no call is answered twice.
Ids ==
  /\ Stored \subseteq Nat \X Nat /\ \A e \in Stored : e[2] <= calls
  /\ acked \subseteq Nat \X BOOLEAN /\ \A a \in acked : a[1] <= calls
  /\ \A t \in Threads : req[t].id <= calls
  /\ \A t, u \in Waiting : req[t].id = req[u].id => t = u
  /\ \A t \in Waiting : \A a \in acked : a[1] # req[t].id

\* The group under way is what the front writer found in the queue.
GroupNow ==
  leaders # 0 =>
    /\ todo = GroupEntries(writers, leaders)
    /\ req[writers[1]].count # 0
    /\ \A i \in 2..leaders : req[writers[i]].sync => req[writers[1]].sync

\* Only the group that is being inserted is ahead of the last sequence number.
Ahead ==
  \A e \in Stored : e[1] > lastSequence =>
    e \in Range(todo) /\ \E t \in Threads : pc[t] = "insert"

\* A waiting call has its answer OK just when its batch is visible.
Answers ==
  \A t \in Waiting : (\E e \in Visible : e[2] = req[t].id) <=> (status[t] = TRUE /\ req[t].count # 0)

\* What is, or will be, answered OK to a sync write is synced.
AnsweredSynced ==
  \A e \in Stored : \A t \in Waiting :
    e[2] = req[t].id /\ req[t].sync /\ status[t] = TRUE => e \in synced \cup tables
GroupSynced ==
  \A t \in Threads : pc[t] = "insert" /\ req[t].sync => Range(todo) \subseteq synced

BatchInv ==
  Ids /\ GroupNow /\ Ahead /\ Answers /\ AckedSynced /\ AnsweredSynced /\ GroupSynced

-----------------------------------------------------------------------------
(* What the steps of the abstract store need *)

AckedCalls == {a[1] : a \in acked}
Applied == {e[2] : e \in Visible}

\* The store's own FlattenSeq is the one the queue uses.
LEMMA StoreEntries ==
  ASSUME NEW group
  PROVE  Store!Entries(group) =
           FlattenSeq([i \in DOMAIN group |-> [j \in 1..group[i][2] |-> group[i][1]]])
BY DEF Store!Entries, Store!FlattenSeq, FlattenSeq

\* Nothing the store shows changes.
LEMMA StoreStutters ==
  ASSUME calls' = calls, Pending' = Pending, Visible' = Visible, lastSequence' = lastSequence,
         acked' = acked
  PROVE  UNCHANGED Store!vars
BY DEF Store!vars

LEMMA StoreAnswers ==
  ASSUME NEW p \in Pending, Pending' = Pending \ {p}, AckedCalls' = AckedCalls \cup ({p[1]} \cap Applied),
         lastSequence' \in Nat, lastSequence' >= lastSequence, calls' = calls, Visible' = Visible
  PROVE  Store!Next
<1>1. Store!Answer(p)
  BY DEF Store!Answer, Store!Applied, AckedCalls, Applied
<1>2. QED
  BY <1>1 DEF Store!Next

\* While nobody inserts, all there is in the store is visible.
LEMMA AllVisible ==
  ASSUME BatchInv, lastSequence \in Nat, \A t \in Threads : pc[t] # "insert"
  PROVE  /\ Visible = Stored
         /\ \A e \in Stored : e[1] \in Nat /\ e[1] <= lastSequence
<1>1. \A e \in Stored : e[1] \in Nat
  BY DEF BatchInv, Ids
<1>2. \A e \in Stored : ~(e[1] > lastSequence)
  BY DEF BatchInv, Ahead
<1>3. \A e \in Stored : e[1] <= lastSequence
  BY <1>1, <1>2
<1>4. QED
  BY <1>1, <1>3 DEF Visible

-----------------------------------------------------------------------------
(* A step that answers no call *)

LEMMA NothingAnswered ==
  ASSUME BatchInv, WaitInv, Waiting' = Waiting,
         \A t \in Threads : /\ req'[t].id = req[t].id /\ req'[t].count = req[t].count
                            /\ req'[t].sync = req[t].sync,
         \A t \in Waiting : status'[t] = status[t],
         UNCHANGED <<acked, calls, lastSequence>>,
         Stored' = Stored, synced \subseteq synced', tables \subseteq tables'
  PROVE  /\ Ids' /\ Answers' /\ AckedSynced' /\ AnsweredSynced'
         /\ UNCHANGED Store!vars
<1> USE DEF BatchInv
<1>1. Visible' = Visible
  BY DEF Visible
<1>2. Waiting \subseteq Threads
  BY DEF Waiting
<1>3. Ids'
  BY <1>2 DEF Ids
<1>4. Answers'
  BY <1>1, <1>2 DEF Answers
<1>5. AckedSynced' /\ AnsweredSynced'
  BY <1>2 DEF AckedSynced, AnsweredSynced
<1>6. Pending' = Pending
  BY <1>2 DEF Pending
<1>7. QED
  BY <1>1, <1>3, <1>4, <1>5, <1>6, StoreStutters

\* Where a thread that makes a step waits afterwards.
LEMMA WaitingFacts ==
  ASSUME NEW t \in Threads, NEW where, pc' = [pc EXCEPT ![t] = where], DOMAIN pc = Threads
  PROVE  /\ where \in Asked => Waiting' = Waiting \cup {t}
         /\ where \notin Asked => Waiting' = Waiting \ {t}
         /\ \A u \in Threads \ {t} : pc'[u] = pc[u]
         /\ pc'[t] = where
BY DEF Waiting, Asked

-----------------------------------------------------------------------------
(* A step that answers one call *)

\* Thread t's call is answered; whether it is OK, its batch's visibility decides. The
\* others of its group have got the answer that they failed, if any.
LEMMA OneAnswered ==
  ASSUME BatchInv, WaitInv, NEW t \in Waiting, NEW where \in {"idle", "flush", "manual"},
         pc' = [pc EXCEPT ![t] = where], UNCHANGED <<req, calls>>,
         Stored' = Stored, Visible' = Visible, lastSequence' \in Nat, lastSequence' >= lastSequence,
         synced \subseteq synced', tables \subseteq tables',
         \/ status[t] = TRUE /\ req[t].count # 0 /\ acked' = acked \cup {<<req[t].id, req[t].sync>>}
         \/ ~(status[t] = TRUE /\ req[t].count # 0) /\ acked' = acked,
         \A u \in Waiting \ {t} : (status'[u] = TRUE) <=> (status[u] = TRUE)
  PROVE  /\ Ids' /\ Answers' /\ AckedSynced' /\ AnsweredSynced'
         /\ Store!Next
<1> USE DEF BatchInv
<1>1. t \in Threads /\ Waiting \subseteq Threads
  BY DEF Waiting
<1>2. Waiting' = Waiting \ {t}
  BY <1>1, WaitingFacts DEF WaitInv, CallTypes, Asked
<1>3. req[t].id \in Nat /\ req[t].sync \in BOOLEAN /\ req[t].count \in Nat
  BY <1>1 DEF WaitInv, CallTypes, Request
<1>4. Ids'
  <2>1. acked' \subseteq Nat \X BOOLEAN /\ \A a \in acked' : a[1] <= calls
    BY <1>1, <1>3 DEF Ids
  <2>2. ASSUME NEW u \in Waiting', NEW a \in acked'
        PROVE  a[1] # req[u].id
    <3>1. u \in Waiting /\ u # t
      BY <1>2
    <3>2. CASE a \in acked
      BY <3>1, <3>2 DEF Ids
    <3>3. CASE a = <<req[t].id, req[t].sync>>
      BY <3>1, <3>3 DEF Ids
    <3>4. QED
      BY <3>2, <3>3
  <2>3. QED
    BY <1>2, <2>1, <2>2 DEF Ids
<1>5. Answers'
  BY <1>2 DEF Answers
<1>6. AckedSynced'
  <2>1. ASSUME NEW e \in Stored, <<e[2], TRUE>> \in acked'
        PROVE  e \in synced \cup tables
    <3>1. CASE <<e[2], TRUE>> \in acked
      BY <3>1 DEF AckedSynced
    <3>2. CASE <<e[2], TRUE>> \notin acked
      <4>1. status[t] = TRUE /\ acked' = acked \cup {<<req[t].id, req[t].sync>>}
        BY <2>1, <3>2
      <4>2. <<e[2], TRUE>> = <<req[t].id, req[t].sync>>
        BY <2>1, <3>2, <4>1
      <4>3. e[2] = req[t].id /\ req[t].sync
        BY <4>2
      <4>4. QED
        BY <4>1, <4>3 DEF AnsweredSynced
    <3>3. QED
      BY <3>1, <3>2
  <2>2. QED
    BY <2>1 DEF AckedSynced
<1>7. AnsweredSynced'
  BY <1>2 DEF AnsweredSynced
<1>8. Store!Next
  <2> DEFINE p == <<req[t].id, req[t].count>>
  <2>1. p \in Pending /\ p[1] = req[t].id
    BY DEF Pending
  <2>2. Pending' = Pending \ {p}
    <3>1. \A u \in Waiting \ {t} : <<req[u].id, req[u].count>> # p
      BY DEF Ids
    <3>2. QED
      BY <1>2, <3>1 DEF Pending
  <2>3. AckedCalls' = AckedCalls \cup ({req[t].id} \cap Applied)
    <3>1. CASE /\ status[t] = TRUE /\ req[t].count # 0
               /\ acked' = acked \cup {<<req[t].id, req[t].sync>>}
      <4>1. req[t].id \in Applied
        BY <3>1 DEF Answers, Applied
      <4>2. AckedCalls' = AckedCalls \cup {req[t].id}
        <5>1. PICK a : a = <<req[t].id, req[t].sync>>
          OBVIOUS
        <5>2. a[1] = req[t].id
          BY <5>1
        <5>3. acked' = acked \cup {a}
          BY <3>1, <5>1
        <5>4. QED
          BY <5>2, <5>3 DEF AckedCalls
      <4>3. QED
        BY <4>1, <4>2
    <3>2. CASE ~(status[t] = TRUE /\ req[t].count # 0) /\ acked' = acked
      <4>1. req[t].id \notin Applied
        BY <3>2 DEF Answers, Applied
      <4>2. QED
        BY <3>2, <4>1 DEF AckedCalls
    <3>3. QED
      BY <3>1, <3>2
  <2> HIDE DEF p
  <2>4. QED
    BY <2>1, <2>2, <2>3, StoreAnswers
<1>9. QED
  BY <1>4, <1>5, <1>6, <1>7, <1>8

\* What MakeRoomForWrite does: it answers the front writer's call with an error, or OK when
\* it has no batch; or the call goes on, with its group or without.
LEMMA RoomImplements ==
  ASSUME BatchInv, WaitInv, NEW t \in Threads, NEW q, InFront(t, q), leaders = 0, todo = <<>>,
         pc[t] \in {"enter", "queue", "room"}, \A u \in Threads : pc[u] \notin Writing,
         Room(t, q), UNCHANGED calls
  PROVE  /\ BatchInv'
         /\ Store!Next \/ UNCHANGED Store!vars
<1>1. /\ Stored' = Stored /\ lastSequence' = lastSequence /\ lastSequence \in Nat
      /\ synced' = synced /\ tables' = tables
      /\ \A u \in Threads : /\ req'[u].id = req[u].id /\ req'[u].count = req[u].count
                            /\ req'[u].sync = req[u].sync
  <2>1. lastSequence \in Nat /\ req \in [Threads -> Request]
    BY DEF WaitInv, CallTypes
  <2>2. CASE RoomSwitch(t, q)
    <3>1. /\ imm = {} /\ imm' = {mem} /\ mem' = {}
          /\ UNCHANGED <<tables, synced, lastSequence, req>>
      BY <2>2 DEF RoomSwitch, MaySwitch
    <3>2. UNION imm = {} /\ UNION {mem} = mem
      BY <3>1
    <3>3. Stored' = Stored
      BY <3>1, <3>2 DEF Stored
    <3>4. QED
      BY <2>1, <3>1, <3>3
  <2>3. CASE RoomDelay(t, q)
    <3>1. req' = [req EXCEPT ![t].delayed = TRUE] /\ UNCHANGED <<storeVars, logVars>>
      BY <2>3 DEF RoomDelay
    <3>2. \A u \in Threads : /\ req'[u].id = req[u].id /\ req'[u].count = req[u].count
                             /\ req'[u].sync = req[u].sync
      BY <2>1, <3>1 DEF Request
    <3>3. QED
      BY <2>1, <3>1, <3>2 DEF storeVars, logVars, Stored
  <2>4. CASE RoomError(t, q) \/ RoomThere(t, q) \/ RoomWait(t, q) \/ RoomNoLog(t, q)
    <3>1. UNCHANGED <<req, storeVars, logVars>>
      BY <2>4 DEF RoomError, RoomThere, RoomWait, RoomNoLog
    <3>2. QED
      BY <2>1, <3>1 DEF storeVars, logVars, Stored
  <2>5. QED
    BY <2>2, <2>3, <2>4 DEF Room
<1>2. /\ \A u \in Threads : pc[u] # "insert"
      /\ \A e \in Stored : ~(e[1] > lastSequence)
      /\ Visible' = Visible
      /\ t \in Waiting
  <2>1. \A u \in Threads : pc[u] # "insert"
    BY DEF Writing
  <2>2. t \in Waiting
    BY DEF Waiting
  <2>3. QED
    BY <1>1, <2>1, <2>2 DEF BatchInv, Ahead, Visible
<1>3. DOMAIN pc = Threads /\ \A u \in Threads : status[u] # None => pc[u] = "queue"
  BY DEF WaitInv, CallTypes, Members
<1>4. ASSUME GroupNow', NEW where, pc' = [pc EXCEPT ![t] = where], where # "insert"
      PROVE  GroupNow' /\ Ahead' /\ GroupSynced'
  <2>1. \A u \in Threads : pc'[u] # "insert"
    BY <1>2, <1>3, <1>4
  <2>2. Ahead'
    BY <1>1, <1>2 DEF Ahead
  <2>3. QED
    BY <1>4, <2>1, <2>2 DEF GroupSynced
<1>5. ASSUME NEW ok \in BOOLEAN, LeaveQueue(t, q, 1, ok, asleep \ {t}), UNCHANGED <<leaders, req>>,
             ~ok \/ req[t].count = 0
      PROVE  BatchInv' /\ Store!Next
  <2>1. AfterWrite(t, ok) \in {"idle", "flush", "manual"}
    BY DEF AfterWrite
  <2>2. pc' = [pc EXCEPT ![t] = AfterWrite(t, ok)] /\ acked' = acked
    BY <1>5 DEF LeaveQueue
  <2>3. ~(status[t] = TRUE /\ req[t].count # 0)
    BY NoneAssumption DEF InFront
  <2>4. \A u \in Waiting \ {t} : (status'[u] = TRUE) <=> (status[u] = TRUE)
    <3>1. status' = [u \in Threads |-> IF u \in {q[i] : i \in 2..1} THEN ok
                                     ELSE IF u = t THEN None ELSE status[u]]
      BY <1>5 DEF LeaveQueue
    <3>2. {q[i] : i \in 2..1} = {}
      OBVIOUS
    <3>3. QED
      BY <3>1, <3>2 DEF Waiting
  <2>5. GroupNow'
    BY <1>5 DEF GroupNow
  <2>6. /\ Ids' /\ Answers' /\ AckedSynced' /\ AnsweredSynced'
        /\ Store!Next
    <3>1. lastSequence' \in Nat /\ lastSequence' >= lastSequence
      BY <1>1
    <3>2. synced \subseteq synced' /\ tables \subseteq tables'
      BY <1>1
    <3>3. QED
      BY <1>1, <1>2, <1>5, <2>1, <2>2, <2>3, <2>4, <3>1, <3>2, OneAnswered
  <2>7. GroupNow' /\ Ahead' /\ GroupSynced'
    BY <1>4, <2>1, <2>2, <2>5
  <2>8. QED
    BY <2>6, <2>7 DEF BatchInv
<1>6. ASSUME NEW where \in {"room", "append"}, pc' = [pc EXCEPT ![t] = where],
             status' = status, acked' = acked, GroupNow'
      PROVE  BatchInv' /\ UNCHANGED Store!vars
  <2>1. Waiting' = Waiting
    <3>1. where \in Asked
      BY DEF Asked
    <3>2. Waiting' = Waiting \cup {t}
      BY <1>3, <1>6, <3>1, WaitingFacts
    <3>3. QED
      BY <1>2, <3>2
  <2>2. /\ Ids' /\ Answers' /\ AckedSynced' /\ AnsweredSynced'
        /\ UNCHANGED Store!vars
    BY <1>1, <1>6, <2>1, NothingAnswered
  <2>3. GroupNow' /\ Ahead' /\ GroupSynced'
    BY <1>4, <1>6
  <2>4. QED
    BY <2>2, <2>3 DEF BatchInv
<1>7. ASSUME WriteGroup(t, q), UNCHANGED req
      PROVE  /\ BatchInv'
             /\ Store!Next \/ UNCHANGED Store!vars
  <2>1. CASE req[t].count = 0
    <3>1. LeaveQueue(t, q, 1, TRUE, asleep \ {t}) /\ UNCHANGED <<leaders, req>>
      BY <1>7, <2>1 DEF WriteGroup
    <3>2. QED
      BY <1>5, <2>1, <3>1
  <2>2. CASE req[t].count # 0
    <3>1. PICK n \in 1..Len(q) : /\ \A i \in 2..n : MayJoin(q, i)
                                 /\ leaders' = n /\ todo' = GroupEntries(q, n)
      BY <1>7, <2>2 DEF WriteGroup
    <3>2. writers' = q /\ pc' = [pc EXCEPT ![t] = "append"] /\ status' = status /\ acked' = acked
      BY <1>7, <2>2 DEF WriteGroup
    <3>3. GroupNow'
      <4>1. GroupEntries(writers, leaders)' = GroupEntries(q, n)
        BY <1>1, <1>7, <3>1, <3>2 DEF GroupEntries
      <4>2. q[1] = t
        BY DEF InFront
      <4>3. \A i \in 2..n : req[q[i]].sync => req[q[1]].sync
        BY <3>1 DEF MayJoin
      <4>4. QED
        BY <1>7, <2>2, <3>1, <3>2, <4>1, <4>2, <4>3 DEF GroupNow
    <3>4. QED
      BY <1>6, <3>2, <3>3
  <2>3. QED
    BY <2>1, <2>2
<1>8. CASE RoomError(t, q) \/ RoomNoLog(t, q)
  BY <1>5, <1>8 DEF RoomError, RoomNoLog
<1>9. CASE RoomDelay(t, q)
  <2>1. GroupNow'
    BY <1>9 DEF RoomDelay, GroupNow
  <2>2. QED
    BY <1>6, <1>9, <2>1 DEF RoomDelay
<1>10. CASE RoomThere(t, q)
  BY <1>7, <1>10 DEF RoomThere
<1>11. CASE RoomWait(t, q)
  <2>1. GroupNow'
    BY <1>11 DEF RoomWait, Waits, GroupNow
  <2>2. QED
    BY <1>6, <1>11, <2>1 DEF RoomWait, Waits
<1>12. CASE RoomSwitch(t, q)
  BY <1>7, <1>12 DEF RoomSwitch
<1>13. QED
  BY <1>8, <1>9, <1>10, <1>11, <1>12 DEF Room

-----------------------------------------------------------------------------
(* The callers' steps *)

\* The group stays the same as long as its writers' calls and the numbers do.
LEMMA GroupStays ==
  ASSUME GroupNow, UNCHANGED <<leaders, todo, lastSequence>>,
         leaders # 0 =>
           /\ leaders \in 1..Len(writers)
           /\ \A i \in 1..leaders : /\ writers'[i] = writers[i]
                                    /\ req'[writers[i]].id = req[writers[i]].id
                                    /\ req'[writers[i]].count = req[writers[i]].count
                                    /\ req'[writers[i]].sync = req[writers[i]].sync,
         Len(writers) \in Nat
  PROVE  GroupNow'
<1>1. CASE leaders = 0
  BY <1>1 DEF GroupNow
<1>2. CASE leaders # 0
  <2>1. leaders \in 1..Len(writers) /\ 1 \in 1..leaders
    BY <1>2
  <2>2. [i \in 1..leaders' |-> [j \in 1..req'[writers'[i]].count |-> req'[writers'[i]].id]]
        = [i \in 1..leaders |-> [j \in 1..req[writers[i]].count |-> req[writers[i]].id]]
    BY <1>2
  <2>3. GroupEntries(writers, leaders)' = GroupEntries(writers, leaders)
    BY <2>2 DEF GroupEntries
  <2>4. \A i \in 2..leaders : req'[writers'[i]].sync => req'[writers'[1]].sync
    BY <1>2, <2>1 DEF GroupNow
  <2>5. QED
    BY <1>2, <2>1, <2>3, <2>4 DEF GroupNow
<1>3. QED
  BY <1>1, <1>2

\* The members of the group under way, for GroupStays: they are in the queue.
LEMMA GroupMembers ==
  ASSUME WaitInv, QueueInv
  PROVE  /\ Len(writers) \in Nat
         /\ leaders # 0 => leaders \in 1..Len(writers)
         /\ \A i \in 1..Len(writers) :
              /\ writers[i] \in Threads /\ status[writers[i]] = None
              /\ pc[writers[i]] \in {"queue"} \cup Leading
<1> USE DEF WaitInv, QueueInv
<1>1. leaders # 0 => leaders \in 1..Len(writers)
  <2>1. writers # <<>> => Head(writers) \in Threads
    OBVIOUS
  <2>2. QED
    BY <2>1 DEF Group
<1>2. QED
  BY <1>1 DEF Members

\* A new call is told apart from all earlier ones.
LEMMA CallImplements ==
  ASSUME BatchInv, WaitInv, QueueInv, NEW t \in Threads, NEW r \in scenario.calls, Call(t, r)
  PROVE  BatchInv' /\ Store!Next
<1> USE DEF BatchInv
<1>1. /\ pc[t] = "idle" /\ calls' = calls + 1
      /\ req' = [req EXCEPT ![t] = [id |-> calls + 1, sync |-> r.sync, count |-> r.count,
                                    delayed |-> FALSE]]
      /\ pc' = [pc EXCEPT ![t] = "enter"]
      /\ UNCHANGED <<status, writers, todo, leaders, storeVars, logVars, acked>>
  BY DEF Call
<1>2. /\ req'[t].id = calls + 1 /\ req'[t].count = r.count
      /\ \A u \in Threads \ {t} : req'[u] = req[u]
  BY <1>1 DEF WaitInv, CallTypes
<1>3. /\ Waiting' = Waiting \cup {t} /\ t \notin Waiting /\ Waiting \subseteq Threads \ {t}
      /\ \A u \in Threads \ {t} : pc'[u] = pc[u]
      /\ pc'[t] = "enter"
  <2>1. t \notin Waiting /\ Waiting \subseteq Threads \ {t}
    BY <1>1 DEF Waiting
  <2>2. QED
    BY <1>1, <2>1, WaitingFacts DEF WaitInv, CallTypes, Asked
<1>4. Stored' = Stored /\ Visible' = Visible /\ lastSequence' = lastSequence
  BY <1>1 DEF Stored, Visible, storeVars
<1>5. calls \in Nat /\ \A u \in Threads : req[u].id \in Nat
  BY DEF WaitInv, CallTypes, Request
<1>6. Ids'
  <2>1. \A e \in Stored : e[2] \in Nat /\ e[2] <= calls + 1
    BY <1>5 DEF Ids
  <2>2. \A a \in acked : a[1] \in Nat /\ a[1] <= calls /\ a[1] <= calls + 1 /\ a[1] # calls + 1
    BY <1>5 DEF Ids
  <2>3. \A u \in Threads \ {t} : req'[u].id <= calls /\ req'[u].id <= calls + 1 /\ req'[u].id # calls + 1
    BY <1>2, <1>5 DEF Ids
  <2>4. \A u \in Threads : req'[u].id <= calls + 1
    BY <1>2, <1>5, <2>3
  <2>5. \A u, v \in Waiting' : req'[u].id = req'[v].id => u = v
    BY <1>2, <1>3, <2>3 DEF Ids
  <2>6. \A u \in Waiting' : \A a \in acked : a[1] # req'[u].id
    BY <1>2, <1>3, <2>2 DEF Ids
  <2>7. QED
    BY <1>1, <1>4, <2>1, <2>2, <2>4, <2>5, <2>6 DEF Ids
<1>7. status[t] # TRUE /\ status' = status
  BY <1>1, NoneAssumption DEF WaitInv, Members
<1>8. Answers'
  <2>1. \A e \in Visible : e[2] # calls + 1
    <3>1. \A e \in Stored : e[2] \in Nat /\ e[2] <= calls
      BY DEF Ids
    <3>2. QED
      BY <1>5, <3>1 DEF Visible
  <2>2. ASSUME NEW u \in Waiting'
        PROVE  (\E e \in Visible : e[2] = req'[u].id) <=> (status[u] = TRUE /\ req'[u].count # 0)
    <3>1. CASE u = t
      BY <1>2, <1>7, <2>1, <3>1
    <3>2. CASE u # t
      BY <1>2, <1>3, <3>2 DEF Answers
    <3>3. QED
      BY <3>1, <3>2
  <2>3. QED
    BY <1>4, <1>7, <2>2 DEF Answers
<1>9. AckedSynced' /\ AnsweredSynced'
  <2>1. UNCHANGED <<synced, tables, acked>>
    BY <1>1 DEF storeVars, logVars
  <2>2. ASSUME NEW e \in Stored, NEW u \in Waiting', e[2] = req'[u].id, req'[u].sync, status[u] = TRUE
        PROVE  e \in synced \cup tables
    <3>1. u # t
      BY <1>7, <2>2
    <3>2. u \in Waiting /\ req'[u] = req[u]
      BY <1>2, <1>3, <3>1
    <3>3. QED
      BY <2>2, <3>2 DEF AnsweredSynced
  <2>3. QED
    BY <1>4, <1>7, <2>1, <2>2 DEF AckedSynced, AnsweredSynced
<1>10. GroupNow'
  <2>1. \A i \in 1..Len(writers) : writers[i] \in Threads \ {t}
    BY <1>1, GroupMembers DEF Leading, Writing
  <2>2. QED
    BY <1>1, <1>2, <1>4, <2>1, GroupMembers, GroupStays
<1>11. Ahead' /\ GroupSynced'
  <2>1. /\ \A u \in Threads : pc'[u] = "insert" => pc[u] = "insert" /\ req'[u] = req[u]
        /\ \A u \in Threads : pc[u] = "insert" => pc'[u] = "insert"
    BY <1>1, <1>2, <1>3
  <2>2. Ahead'
    BY <1>1, <1>4, <2>1 DEF Ahead
  <2>3. GroupSynced'
    BY <1>1, <2>1 DEF GroupSynced, logVars
  <2>4. QED
    BY <2>2, <2>3
<1>12. Store!Next
  <2>1. Pending' = Pending \cup {<<calls + 1, r.count>>}
    BY <1>2, <1>3 DEF Pending
  <2>2. Store!Begin(r.count)
    BY <1>1, <1>4, <2>1 DEF Store!Begin
  <2>3. r.count \in UNION {{c.count : c \in s.calls} : s \in Scenarios}
    BY DEF WaitInv, CallTypes
  <2>4. QED
    BY <2>2, <2>3 DEF Store!Next
<1>13. QED
  BY <1>6, <1>8, <1>9, <1>10, <1>11, <1>12

\* The front writer, alone, makes room.
LEMMA FrontImplements ==
  ASSUME BatchInv, WaitInv, QueueInv, NEW t \in Threads, writers # <<>>, t = Head(writers),
         pc[t] \in {"queue", "room"}, Room(t, writers), UNCHANGED calls
  PROVE  /\ BatchInv'
         /\ Store!Next \/ UNCHANGED Store!vars
<1>1. InFront(t, writers) /\ leaders = 0 /\ todo = <<>>
  BY FrontFacts DEF Writing
<1>2. \A u \in Threads : pc[u] \notin Writing
  BY DEF QueueInv, Leading, Writing
<1>3. QED
  BY <1>1, <1>2, RoomImplements

\* A writer takes its place in the queue, or its turn, or its answer.
LEMMA WriterImplements ==
  ASSUME BatchInv, WaitInv, QueueInv, NEW t \in Threads, Enter(t) \/ WakeUp(t) \/ GoOn(t)
  PROVE  /\ BatchInv'
         /\ Store!Next \/ UNCHANGED Store!vars
<1> USE DEF BatchInv
<1>1. DOMAIN pc = Threads /\ lastSequence \in Nat /\ req \in [Threads -> Request]
  BY DEF WaitInv, CallTypes
\* The writer falls asleep in the queue.
<1>2. ASSUME UNCHANGED <<req, status, acked, calls, todo, leaders, storeVars, logVars>>,
             pc' = [pc EXCEPT ![t] = "queue"], pc[t] \in {"enter", "queue"},
             \A i \in 1..Len(writers) : writers'[i] = writers[i]
      PROVE  BatchInv' /\ UNCHANGED Store!vars
  <2>1. "queue" \in Asked /\ t \in Waiting
    BY <1>2 DEF Asked, Waiting
  <2>2. Waiting' = Waiting /\ \A u \in Threads \ {t} : pc'[u] = pc[u]
    <3>1. Waiting' = Waiting \cup {t} /\ \A u \in Threads \ {t} : pc'[u] = pc[u]
      BY <1>1, <1>2, <2>1, WaitingFacts
    <3>2. QED
      BY <2>1, <3>1
  <2>3. Stored' = Stored /\ UNCHANGED <<lastSequence, synced, tables>>
    BY <1>2 DEF Stored, storeVars, logVars
  <2>4. /\ Ids' /\ Answers' /\ AckedSynced' /\ AnsweredSynced'
        /\ UNCHANGED Store!vars
    BY <1>2, <2>2, <2>3, NothingAnswered
  <2>5. GroupNow'
    BY <1>2, <2>3, GroupMembers, GroupStays
  <2>6. /\ \A u \in Threads : pc'[u] = "insert" => pc[u] = "insert"
        /\ \A u \in Threads : pc[u] = "insert" => pc'[u] = "insert"
    BY <1>1, <1>2, <2>2
  <2>7. Ahead' /\ GroupSynced'
    BY <1>2, <2>3, <2>6 DEF Ahead, GroupSynced
  <2>8. QED
    BY <2>4, <2>5, <2>7
<1>3. CASE Enter(t)
  <2>1. CASE writers = <<>>
    <3>1. /\ InFront(t, Append(writers, t)) /\ leaders = 0 /\ todo = <<>>
          /\ \A u \in Threads : pc[u] \notin Leading
          /\ Room(t, Append(writers, t)) /\ UNCHANGED calls
      BY <1>3, <2>1, EnterFacts
    <3>2. pc[t] = "enter" /\ \A u \in Threads : pc[u] \notin Writing
      BY <1>3, <3>1 DEF Enter, Leading
    <3>3. QED
      BY <3>1, <3>2, RoomImplements
  <2>2. CASE writers # <<>>
    <3>1. /\ Waits(t, Append(writers, t), "queue") /\ pc[t] = "enter"
          /\ UNCHANGED <<req, storeVars, logVars, calls>>
      BY <1>3, <2>2 DEF Enter
    <3>2. \A i \in 1..Len(writers) : writers'[i] = writers[i]
      BY <3>1 DEF Waits, QueueInv
    <3>3. QED
      BY <1>2, <3>1, <3>2 DEF Waits
  <2>3. QED
    BY <2>1, <2>2
<1>4. CASE GoOn(t)
  <2>1. pc[t] = "room" /\ Room(t, writers) /\ UNCHANGED calls
    BY <1>4 DEF GoOn
  <2>2. writers # <<>> /\ t = Head(writers)
    BY <2>1 DEF QueueInv, Leading
  <2>3. QED
    BY <2>1, <2>2, FrontImplements
<1>5. CASE WakeUp(t)
  <2>1. pc[t] = "queue" /\ t \in Waiting /\ UNCHANGED calls
    BY <1>5 DEF WakeUp, Waiting
  <2>2. CASE status[t] # None
    <3>1. /\ status' = [status EXCEPT ![t] = None]
          /\ pc' = [pc EXCEPT ![t] = AfterWrite(t, status[t])]
          /\ acked' = IF status[t] /\ req[t].count > 0
                      THEN acked \cup {<<req[t].id, req[t].sync>>} ELSE acked
          /\ UNCHANGED <<req, writers, todo, leaders, storeVars, logVars>>
      BY <1>5, <2>2 DEF WakeUp
    <3>2. AfterWrite(t, status[t]) \in {"idle", "flush", "manual"}
      BY DEF AfterWrite
    <3>3. status[t] \in BOOLEAN /\ req[t].count \in Nat
      BY <1>1, <2>2 DEF WaitInv, CallTypes, Request
    <3>4. \/ status[t] = TRUE /\ req[t].count # 0 /\ acked' = acked \cup {<<req[t].id, req[t].sync>>}
          \/ ~(status[t] = TRUE /\ req[t].count # 0) /\ acked' = acked
      BY <3>1, <3>3
    <3>5. \A u \in Waiting \ {t} : status'[u] = status[u]
      BY <3>1 DEF Waiting, WaitInv, CallTypes
    <3>6. Stored' = Stored /\ Visible' = Visible /\ UNCHANGED <<lastSequence, synced, tables>>
      BY <3>1 DEF Stored, Visible, storeVars, logVars
    <3>7. lastSequence' \in Nat /\ lastSequence' >= lastSequence
      BY <1>1, <3>6
    <3>8. /\ Ids' /\ Answers' /\ AckedSynced' /\ AnsweredSynced'
          /\ Store!Next
      BY <2>1, <3>1, <3>2, <3>4, <3>5, <3>6, <3>7, OneAnswered
    <3>9. GroupNow'
      BY <3>1, <3>6, GroupMembers, GroupStays
    <3>10. /\ \A u \in Threads : pc'[u] = "insert" => pc[u] = "insert"
           /\ \A u \in Threads : pc[u] = "insert" => pc'[u] = "insert"
      BY <1>1, <2>1, <3>1, <3>2
    <3>11. Ahead' /\ GroupSynced'
      BY <3>1, <3>6, <3>10 DEF Ahead, GroupSynced
    <3>12. QED
      BY <3>8, <3>9, <3>11
  <2>3. CASE status[t] = None /\ t = Head(writers) /\ Room(t, writers)
    <3>1. writers # <<>>
      BY <2>1, <2>3 DEF QueueInv
    <3>2. QED
      BY <2>1, <2>3, <3>1, FrontImplements
  <2>4. CASE Waits(t, writers, "queue") /\ UNCHANGED <<req, storeVars, logVars, bgVars, faults>>
    BY <1>2, <2>1, <2>4 DEF Waits
  <2>5. QED
    BY <1>5, <2>2, <2>3, <2>4 DEF WakeUp
<1>6. QED
  BY <1>3, <1>4, <1>5

\* Steps that leave every call and what is stored alone.
LEMMA OthersImplement ==
  ASSUME BatchInv, WaitInv, QueueInv, LogTypes,
         \/ Background \/ UNCHANGED vars
         \/ \E t \in Threads : AwaitFlush(t) \/ AwaitManual(t) \/ AwaitClose(t) \/ Close(t)
  PROVE  BatchInv' /\ UNCHANGED Store!vars
<1> USE DEF BatchInv
<1>1. /\ UNCHANGED <<req, status, writers, todo, leaders, lastSequence, synced, calls, acked>>
      /\ Stored' = Stored /\ tables \subseteq tables'
  <2>1. CASE Background
    <3>1. UNCHANGED <<req, status, writers, todo, leaders, lastSequence, synced, calls, acked, mem>>
      BY <2>1 DEF Background, RunItem, FlushBuilt, FlushInstalled, MergeYields, MergeDone,
                  MergeInstalled, CallerVars
    <3>2. UNCHANGED <<imm, tables>> \/ (imm' = {} /\ tables' = tables \cup (UNION imm))
      BY <2>1 DEF Background, RunItem, FlushBuilt, FlushInstalled, FlushFails, MergeYields,
                  MergeDone, MergeInstalled
    <3>3. Stored' = Stored /\ tables \subseteq tables'
      <4>1. CASE imm' = {} /\ tables' = tables \cup (UNION imm)
        BY <3>1, <4>1 DEF Stored
      <4>2. CASE UNCHANGED <<imm, tables>>
        BY <3>1, <4>2 DEF Stored
      <4>3. QED
        BY <3>2, <4>1, <4>2
    <3>4. QED
      BY <3>1, <3>3
  <2>2. CASE ~Background
    <3>1. UNCHANGED <<req, status, writers, todo, leaders, synced, calls, acked, storeVars>>
      BY <2>2 DEF AwaitFlush, AwaitManual, AwaitClose, Close, vars, threadVars, logVars
    <3>2. QED
      BY <3>1 DEF storeVars, Stored
  <2>3. QED
    BY <2>1, <2>2
<1>2. \A u \in Threads : /\ pc[u] \in Asked <=> pc'[u] \in Asked
                         /\ pc[u] = "insert" <=> pc'[u] = "insert"
  <2>1. CASE Background \/ UNCHANGED vars
    BY <2>1 DEF Background, RunItem, FlushBuilt, FlushInstalled, MergeYields, MergeDone,
                MergeInstalled, CallerVars, vars, threadVars
  <2>2. ASSUME NEW t \in Threads, AwaitFlush(t) \/ AwaitManual(t) \/ AwaitClose(t) \/ Close(t)
        PROVE  \A u \in Threads : /\ pc[u] \in Asked <=> pc'[u] \in Asked
                                  /\ pc[u] = "insert" <=> pc'[u] = "insert"
    <3>1. pc[t] \in {"idle", "flush", "manual", "close"}
      BY <2>2 DEF AwaitFlush, AwaitManual, AwaitClose, Close
    <3>2. pc' = pc \/ \E where \in {"idle", "manual", "close", "closed"} :
                        pc' = [pc EXCEPT ![t] = where]
      BY <2>2 DEF AwaitFlush, AwaitManual, AwaitClose, Close
    <3>3. QED
      BY <3>1, <3>2 DEF WaitInv, CallTypes, Asked
  <2>3. QED
    BY <2>1, <2>2
<1>3. Waiting' = Waiting
  BY <1>2 DEF Waiting, Asked
<1>4. /\ Ids' /\ Answers' /\ AckedSynced' /\ AnsweredSynced'
      /\ UNCHANGED Store!vars
  BY <1>1, <1>3, NothingAnswered
<1>5. GroupNow'
  BY <1>1, GroupMembers, GroupStays
<1>6. Ahead' /\ GroupSynced'
  BY <1>1, <1>2 DEF Ahead, GroupSynced
<1>7. QED
  BY <1>4, <1>5, <1>6

-----------------------------------------------------------------------------
(* The front writer and its group *)

LEMMA LeaderFacts ==
  ASSUME BatchInv, WaitInv, QueueInv, NEW t \in Threads, pc[t] \in Writing
  PROVE  /\ writers \in Seq(Threads) /\ writers[1] = t /\ leaders \in 1..Len(writers)
         /\ \A u \in Threads \ {t} : pc[u] \notin Leading
         /\ \A i \in 1..leaders : writers[i] \in Waiting /\ status[writers[i]] = None
         /\ \A i, j \in 1..leaders : writers[i] = writers[j] => i = j
         /\ lastSequence \in Nat /\ Len(todo) \in Nat
         /\ \A e \in Range(todo) :
              /\ e \in Nat \X Nat /\ e[1] > lastSequence /\ e[1] <= lastSequence + Len(todo)
              /\ \E i \in 1..leaders : e[2] = req[writers[i]].id /\ req[writers[i]].count # 0
         /\ \A i \in 1..leaders : req[writers[i]].count # 0 =>
              \E e \in Range(todo) : e[2] = req[writers[i]].id
<1> USE DEF BatchInv, WaitInv, QueueInv
<1>1. /\ writers \in Seq(Threads) /\ writers[1] = t /\ leaders \in 1..Len(writers) /\ leaders # 0
      /\ \A u \in Threads \ {t} : pc[u] \notin Leading
  BY DEF Leading
<1>2. \A i \in 1..leaders : writers[i] \in Waiting /\ status[writers[i]] = None
  <2>1. \A i \in 1..leaders : i \in 1..Len(writers)
    BY <1>1
  <2>2. QED
    BY <2>1, GroupMembers DEF Waiting, Leading, Writing
<1>3. \A i, j \in 1..leaders : writers[i] = writers[j] => i = j
  BY <1>1 DEF Members
<1>4. /\ todo = GroupEntries(writers, leaders) /\ req[writers[1]].count # 0
      /\ todo \in Seq(Nat \X Nat) /\ lastSequence \in Nat
      /\ \A k \in 1..Len(todo) :
           /\ todo[k][1] = lastSequence + k
           /\ \E i \in 1..leaders : todo[k][2] = req[writers[i]].id /\ req[writers[i]].count # 0
      /\ \A i \in 1..leaders : req[writers[i]].count # 0 =>
           \E k \in 1..Len(todo) : todo[k][2] = req[writers[i]].id
  <2>1. todo = GroupEntries(writers, leaders) /\ req[writers[1]].count # 0
    BY <1>1 DEF GroupNow
  <2>2. todo \in Seq(Nat \X Nat) /\ lastSequence \in Nat /\ req \in [Threads -> Request]
    BY DEF CallTypes, Group
  <2> DEFINE entries == GroupEntries(writers, leaders)
  <2> HIDE DEF entries
  <2>3. /\ \A k \in 1..Len(entries) :
            /\ entries[k][1] = lastSequence + k
            /\ \E i \in 1..leaders : entries[k][2] = req[writers[i]].id /\ req[writers[i]].count # 0
        /\ \A i \in 1..leaders : req[writers[i]].count # 0 =>
             \E k \in 1..Len(entries) : entries[k][2] = req[writers[i]].id
    BY <1>1, <2>1, <2>2, GroupFacts DEF entries
  <2>4. todo = entries
    BY <2>1 DEF entries
  <2>5. QED
    BY <2>1, <2>2, <2>3, <2>4
<1>5. PICK len \in Nat : len = Len(todo) /\ DOMAIN todo = 1..len
  BY <1>4
<1>6. ASSUME NEW e \in Range(todo)
      PROVE  /\ e \in Nat \X Nat /\ e[1] > lastSequence /\ e[1] <= lastSequence + Len(todo)
             /\ \E i \in 1..leaders : e[2] = req[writers[i]].id /\ req[writers[i]].count # 0
  <2>1. PICK k \in 1..len : e = todo[k]
    BY <1>5 DEF Range
  <2>2. k \in 1..Len(todo)
    BY <1>5, <2>1
  <2>3. e \in Nat \X Nat
    BY <1>4, <2>1, <2>2
  <2>4. PICK s \in Nat : s = lastSequence
    BY <1>4
  <2>5. e[1] = s + k /\ \E i \in 1..leaders : e[2] = req[writers[i]].id /\ req[writers[i]].count # 0
    BY <1>4, <2>1, <2>2, <2>4
  <2>6. e[1] > lastSequence /\ e[1] <= lastSequence + Len(todo)
    BY <1>5, <2>1, <2>4, <2>5
  <2>7. QED
    BY <2>3, <2>5, <2>6
<1>7. \A i \in 1..leaders : req[writers[i]].count # 0 =>
        \E e \in Range(todo) : e[2] = req[writers[i]].id
  BY <1>4, <1>5 DEF Range
<1>8. QED
  BY <1>1, <1>2, <1>3, <1>4, <1>5, <1>6, <1>7

\* The log or its sync failed: none of the group is in the store, and all its calls fail.
LEMMA GroupFails ==
  ASSUME BatchInv, WaitInv, QueueInv, NEW t \in Threads, pc[t] \in {"append", "sync"}, NEW sleepers,
         EndGroup(t, FALSE, sleepers), UNCHANGED <<calls, mem, imm, tables, synced>>
  PROVE  BatchInv' /\ Store!Next
<1> USE DEF BatchInv
<1>1. pc[t] \in Writing /\ t \in Waiting
  BY DEF Writing, Waiting
<1>2. /\ writers[1] = t /\ leaders \in 1..Len(writers)
      /\ \A u \in Threads \ {t} : pc[u] \notin Leading
      /\ \A i \in 1..leaders : writers[i] \in Waiting /\ status[writers[i]] = None
      /\ lastSequence \in Nat /\ Len(todo) \in Nat
  BY <1>1, LeaderFacts
<1>3. lastSequence' \in Nat /\ lastSequence' >= lastSequence
  BY <1>2 DEF EndGroup
<1>4. \A u \in Threads : pc[u] # "insert"
  BY <1>2 DEF Leading, Writing
<1>5. /\ Visible = Stored
      /\ \A e \in Stored : e[1] \in Nat /\ e[1] <= lastSequence
  BY <1>2, <1>4, AllVisible
<1>6. Stored' = Stored /\ \A e \in Stored : e[1] <= lastSequence' /\ ~(e[1] > lastSequence')
  <2>1. Stored' = Stored
    BY DEF Stored
  <2>2. QED
    BY <1>2, <1>3, <1>5, <2>1
<1>7. Visible' = Visible
  BY <1>5, <1>6 DEF Visible
<1>8. /\ AfterWrite(t, FALSE) \in {"idle", "flush", "manual"}
      /\ pc' = [pc EXCEPT ![t] = AfterWrite(t, FALSE)] /\ acked' = acked
      /\ status' = [u \in Threads |-> IF u \in {writers[i] : i \in 2..leaders} THEN FALSE
                                    ELSE IF u = t THEN None ELSE status[u]]
      /\ leaders' = 0 /\ UNCHANGED req
  BY DEF EndGroup, LeaveQueue, AfterWrite
<1>9. ~(status[t] = TRUE /\ req[t].count # 0)
  <2>1. status[t] = None
    BY <1>2
  <2>2. QED
    BY <2>1, NoneAssumption
<1>10. ASSUME NEW u \in Waiting \ {t}
       PROVE  (status'[u] = TRUE) <=> (status[u] = TRUE)
  <2>1. u \in Threads
    BY DEF Waiting
  <2>2. CASE \E i \in 2..leaders : writers[i] = u
    <3>1. status[u] = None
      BY <1>2, <2>2
    <3>2. status'[u] = FALSE
      BY <1>8, <2>1, <2>2
    <3>3. QED
      BY <3>1, <3>2, NoneAssumption
  <2>3. CASE ~\E i \in 2..leaders : writers[i] = u
    BY <1>8, <2>1, <2>3
  <2>4. QED
    BY <2>2, <2>3
<1>11. /\ Ids' /\ Answers' /\ AckedSynced' /\ AnsweredSynced'
       /\ Store!Next
  <2>1. synced \subseteq synced' /\ tables \subseteq tables'
    OBVIOUS
  <2>2. QED
    BY <1>1, <1>3, <1>6, <1>7, <1>8, <1>9, <1>10, <2>1, OneAnswered
<1>12. GroupNow' /\ Ahead' /\ GroupSynced'
  <2>1. \A u \in Threads : pc'[u] # "insert"
    BY <1>4, <1>8 DEF WaitInv, CallTypes
  <2>2. QED
    BY <1>6, <1>8, <2>1 DEF GroupNow, Ahead, GroupSynced
<1>13. QED
  BY <1>11, <1>12

\* The record is in the log file, or the file is synced.
LEMMA LoggingImplements ==
  ASSUME BatchInv, WaitInv, WriteInv, NEW t \in Threads, AppendRecord(t) \/ SyncLog(t)
  PROVE  /\ BatchInv'
         /\ Store!Next \/ UNCHANGED Store!vars
<1> USE DEF BatchInv
<1>1. QueueInv /\ pc[t] \in {"append", "sync"} /\ UNCHANGED <<calls, mem, imm, tables>>
  BY DEF WriteInv, AppendRecord, SyncLog, EnvOfGroup
<1>2. CASE EndGroup(t, FALSE, asleep) /\ UNCHANGED synced
  BY <1>1, <1>2, GroupFails
<1>3. CASE EndGroup(t, FALSE, AfterSignalAll(asleep)) /\ UNCHANGED synced
  BY <1>1, <1>3, GroupFails
<1>4. ASSUME Unlocked, NEW where \in {"sync", "insert"}, pc' = [pc EXCEPT ![t] = where],
             synced \subseteq synced',
             where = "insert" /\ req[t].sync => Range(todo) \subseteq synced'
      PROVE  BatchInv' /\ UNCHANGED Store!vars
  <2>1. UNCHANGED <<status, req, writers, todo, leaders, lastSequence, acked>>
    BY <1>4 DEF Unlocked
  <2>2. Stored' = Stored /\ synced \subseteq synced' /\ tables \subseteq tables'
    BY <1>1, <1>4 DEF Stored
  <2>3. Waiting' = Waiting /\ \A u \in Threads \ {t} : pc'[u] = pc[u]
    <3>1. t \in Waiting /\ where \in Asked
      BY <1>1 DEF Waiting, Asked
    <3>2. DOMAIN pc = Threads
      BY DEF WaitInv, CallTypes
    <3>3. Waiting' = Waiting \cup {t} /\ \A u \in Threads \ {t} : pc'[u] = pc[u]
      BY <1>4, <3>1, <3>2, WaitingFacts
    <3>4. QED
      BY <3>1, <3>3
  <2>4. /\ Ids' /\ Answers' /\ AckedSynced' /\ AnsweredSynced'
        /\ UNCHANGED Store!vars
    BY <1>1, <2>1, <2>2, <2>3, NothingAnswered
  <2>5. GroupNow'
    BY <1>1, <2>1, GroupMembers, GroupStays
  <2>6. \A u \in Threads : pc[u] # "insert"
    <3>1. pc[t] \in Writing
      BY <1>1 DEF Writing
    <3>2. \A u \in Threads \ {t} : pc[u] \notin Leading
      BY <1>1, <3>1, LeaderFacts
    <3>3. QED
      BY <1>1, <3>2 DEF Leading, Writing
  <2>7. Ahead'
    BY <2>1, <2>2, <2>6 DEF Ahead
  <2>8. GroupSynced'
    BY <1>4, <2>1, <2>3, <2>6 DEF GroupSynced, WaitInv, CallTypes
  <2>9. QED
    BY <2>4, <2>5, <2>7, <2>8
<1>5. CASE /\ AppendRecord(t) /\ Unlocked
           /\ pc' = [pc EXCEPT ![t] = IF req[t].sync THEN "sync" ELSE "insert"]
  <2>1. synced \subseteq synced'
    BY <1>5 DEF AppendRecord
  <2>2. CASE req[t].sync
    BY <1>4, <1>5, <2>1, <2>2
  <2>3. CASE ~req[t].sync
    BY <1>4, <1>5, <2>1, <2>3
  <2>4. QED
    BY <2>2, <2>3
<1>6. CASE /\ SyncLog(t) /\ Unlocked /\ pc' = [pc EXCEPT ![t] = "insert"]
           /\ synced' = synced \cup {r[2] : r \in {l \in logs : l[1] = logNumber}}
  <2>1. Range(todo) \subseteq CurrentLog
    BY <1>6 DEF SyncLog, WriteInv, Logged
  <2>2. Range(todo) \subseteq synced'
    BY <1>6, <2>1 DEF CurrentLog
  <2>3. QED
    BY <1>4, <1>6, <2>2
<1>7. QED
  BY <1>2, <1>3, <1>5, <1>6 DEF AppendRecord, SyncLog

\* An entry that is put into the memtable is ahead of what readers see.
LEMMA InsertImplements ==
  ASSUME BatchInv, WaitInv, QueueInv, NEW t \in Threads, InsertEntry(t)
  PROVE  BatchInv' /\ UNCHANGED Store!vars
<1> USE DEF BatchInv
<1>1. PICK e \in Range(todo) : mem' = mem \cup {e}
  BY DEF InsertEntry
<1>2. /\ pc[t] = "insert" /\ pc[t] \in Writing
      /\ UNCHANGED <<status, req, writers, todo, leaders, lastSequence, acked, pc, calls, synced,
                     imm, tables>>
  BY DEF InsertEntry, Unlocked, EnvOfGroup, Writing
<1>3. PICK i \in 1..leaders : e[2] = req[writers[i]].id
  BY <1>2, LeaderFacts
<1>4. /\ writers[i] \in Waiting /\ status[writers[i]] = None /\ writers[i] \in Threads
      /\ e \in Nat \X Nat /\ e[1] > lastSequence /\ lastSequence \in Nat
  BY <1>2, LeaderFacts DEF Waiting
<1>5. Stored' = Stored \cup {e}
  BY <1>1, <1>2 DEF Stored
<1>6. Visible' = Visible
  <2>1. ~(e[1] <= lastSequence)
    BY <1>4
  <2>2. QED
    BY <1>2, <1>5, <2>1 DEF Visible
<1>7. Waiting' = Waiting /\ Pending' = Pending
  BY <1>2 DEF Waiting, Pending
<1>8. Ids'
  BY <1>2, <1>3, <1>4, <1>5, <1>7 DEF Ids
<1>9. Answers'
  BY <1>2, <1>6, <1>7 DEF Answers
<1>10. AckedSynced'
  <2>1. <<e[2], TRUE>> \notin acked
    <3>1. \A a \in acked : a[1] # e[2]
      BY <1>3, <1>4 DEF Ids
    <3>2. QED
      BY <3>1
  <2>2. QED
    BY <1>2, <1>5, <2>1 DEF AckedSynced
<1>11. AnsweredSynced'
  <2>1. ASSUME NEW u \in Waiting, e[2] = req[u].id
        PROVE  status[u] # TRUE
    <3>1. u = writers[i]
      BY <1>3, <1>4, <2>1 DEF Ids
    <3>2. QED
      BY <1>4, <3>1, NoneAssumption
  <2>2. QED
    BY <1>2, <1>5, <1>7, <2>1 DEF AnsweredSynced
<1>12. GroupNow' /\ Ahead' /\ GroupSynced'
  <2>1. GroupNow'
    BY <1>2, GroupMembers, GroupStays
  <2>2. Ahead'
    BY <1>2, <1>5 DEF Ahead
  <2>3. GroupSynced'
    BY <1>2 DEF GroupSynced
  <2>4. QED
    BY <2>1, <2>2, <2>3
<1>13. UNCHANGED Store!vars
  BY <1>2, <1>6, <1>7, StoreStutters
<1>14. QED
  BY <1>8, <1>9, <1>10, <1>11, <1>12, <1>13

-----------------------------------------------------------------------------
(* The group becomes visible *)

LEMMA PendingFinite == IsFiniteSet(Pending) /\ Cardinality(Pending) \in Nat
<1> DEFINE f == [t \in Waiting |-> <<req[t].id, req[t].count>>]
<1>1. IsFiniteSet(Waiting)
  BY ThreadsAssumption, FS_Subset DEF Waiting
<1>2. f \in Surjection(Waiting, Pending)
  BY DEF Pending, Surjection
<1> HIDE DEF f
<1>3. QED
  BY <1>1, <1>2, FS_Surjection, FS_CardinalityType

\* The batches of the group under way, as the abstract store sees them.
Batches == [i \in 1..leaders |-> <<req[writers[i]].id, req[writers[i]].count>>]

\* The group's entries are what the store's Commit adds.
LEMMA BatchEntries ==
  ASSUME BatchInv, WaitInv, QueueInv, NEW t \in Threads, pc[t] \in Writing
  PROVE  /\ Range(todo) = {<<lastSequence + k, Store!Entries(Batches)[k]>> :
                             k \in DOMAIN Store!Entries(Batches)}
         /\ Len(todo) = Len(Store!Entries(Batches))
<1> DEFINE ids == Store!Entries(Batches)
<1>1. /\ leaders \in 1..Len(writers) /\ writers \in Seq(Threads) /\ leaders # 0
      /\ \A i \in 1..leaders : writers[i] \in Threads
  BY LeaderFacts DEF Waiting
<1>2. todo = GroupEntries(writers, leaders) /\ req[writers[1]].count # 0
  BY <1>1 DEF BatchInv, GroupNow
<1>3. ids = FlattenSeq([i \in 1..leaders |-> [j \in 1..req[writers[i]].count |-> req[writers[i]].id]])
  <2>1. [i \in DOMAIN Batches |-> [j \in 1..Batches[i][2] |-> Batches[i][1]]]
        = [i \in 1..leaders |-> [j \in 1..req[writers[i]].count |-> req[writers[i]].id]]
    BY DEF Batches
  <2>2. QED
    BY <2>1, StoreEntries
<1>4. todo = [k \in DOMAIN ids |-> <<lastSequence + k, ids[k]>>]
  BY <1>2, <1>3 DEF GroupEntries
<1>5. ids \in Seq(Nat)
  BY <1>1, <1>2, <1>3, GroupFacts DEF WaitInv, CallTypes
<1> HIDE DEF ids
<1>6. Len(todo) = Len(ids)
  BY <1>4, <1>5
<1>7. Range(todo) = {<<lastSequence + k, ids[k]>> : k \in DOMAIN ids}
  BY <1>4 DEF Range
<1>8. QED
  BY <1>6, <1>7 DEF ids

LEMMA BatchesPending ==
  ASSUME BatchInv, WaitInv, QueueInv, NEW t \in Threads, pc[t] \in Writing
  PROVE  /\ leaders \in 1..Cardinality(Pending) /\ Batches \in [1..leaders -> Pending]
         /\ \A i, j \in 1..leaders : Batches[i] = Batches[j] => i = j
<1>1. /\ leaders \in Nat /\ leaders >= 1
      /\ \A i \in 1..leaders : writers[i] \in Waiting
      /\ \A i, j \in 1..leaders : writers[i] = writers[j] => i = j
  BY LeaderFacts DEF QueueInv
<1>2. Batches \in [1..leaders -> Pending]
  BY <1>1 DEF Batches, Pending
<1>3. ASSUME NEW i \in 1..leaders, NEW j \in 1..leaders, Batches[i] = Batches[j]
      PROVE  i = j
  <2>1. req[writers[i]].id = req[writers[j]].id
    BY <1>3 DEF Batches
  <2>2. QED
    BY <1>1, <2>1 DEF BatchInv, Ids
<1>4. Batches \in Injection(1..leaders, Pending)
  BY <1>2, <1>3 DEF Injection, IsInjective
<1>5. Cardinality(1..leaders) <= Cardinality(Pending)
  BY <1>4, PendingFinite, FS_Injection
<1>6. Cardinality(1..leaders) = leaders
  BY <1>1, FS_Interval
<1>7. leaders \in 1..Cardinality(Pending)
  BY <1>1, <1>5, <1>6, PendingFinite
<1>8. QED
  BY <1>2, <1>3, <1>7

\* The last sequence number moves: readers see the whole group, the front writer's call is
\* answered OK, the others of the group have their answer.
LEMMA PublishImplements ==
  ASSUME BatchInv, WaitInv, QueueInv, NEW t \in Threads, Publish(t)
  PROVE  BatchInv' /\ Store!Next
<1> DEFINE Led(u) == \E i \in 1..leaders : u = writers[i]
<1> USE DEF BatchInv
<1>1. pc[t] = "insert" /\ pc[t] \in Writing /\ t \in Waiting /\ Waiting \subseteq Threads
  BY DEF Publish, Writing, Waiting
<1>2. /\ writers[1] = t /\ leaders \in Nat /\ 1 \in 1..leaders /\ leaders # 0
      /\ \A u \in Threads \ {t} : pc[u] # "insert"
      /\ \A i \in 1..leaders : writers[i] \in Waiting /\ status[writers[i]] = None
      /\ \A i, j \in 1..leaders : writers[i] = writers[j] => i = j
      /\ lastSequence \in Nat /\ Len(todo) \in Nat
  BY <1>1, LeaderFacts DEF QueueInv, Leading, Writing
<1>3. /\ \A e \in Range(todo) :
           /\ e \in Nat \X Nat /\ e[1] > lastSequence /\ e[1] <= lastSequence + Len(todo)
           /\ \E i \in 1..leaders : e[2] = req[writers[i]].id /\ req[writers[i]].count # 0
      /\ \A i \in 1..leaders : req[writers[i]].count # 0 =>
           \E e \in Range(todo) : e[2] = req[writers[i]].id
  BY <1>1, LeaderFacts
<1>4. req[t].count # 0 /\ req[t].count > 0 /\ req[t].id \in Nat /\ req[t].sync \in BOOLEAN
  BY <1>2 DEF GroupNow, WaitInv, CallTypes, Request
<1>5. /\ lastSequence' = lastSequence + Len(todo) /\ leaders' = 0
      /\ Range(todo) \subseteq mem
      /\ UNCHANGED <<req, mem, imm, tables, synced, calls>>
  BY DEF Publish, EndGroup, EnvOfGroup
<1>6. /\ pc' = [pc EXCEPT ![t] = "idle"]
      /\ acked' = acked \cup {<<req[t].id, req[t].sync>>}
      /\ status' = [u \in Threads |-> IF u \in {writers[i] : i \in 2..leaders} THEN TRUE
                                    ELSE IF u = t THEN None ELSE status[u]]
  BY <1>4 DEF Publish, EndGroup, LeaveQueue, AfterWrite
<1>7. Waiting' = Waiting \ {t} /\ \A u \in Threads : pc'[u] # "insert"
  <2>1. "idle" \notin Asked /\ DOMAIN pc = Threads
    BY DEF Asked, QueueInv
  <2>2. QED
    BY <1>2, <1>6, <2>1, WaitingFacts
<1>8. ASSUME NEW u \in Waiting \ {t}
      PROVE  /\ Led(u) => status'[u] = TRUE /\ status[u] = None
             /\ ~Led(u) => status'[u] = status[u]
  <2>1. u \in Threads
    BY <1>1
  <2>2. CASE Led(u)
    <3>1. PICK i \in 1..leaders : u = writers[i]
      BY <2>2
    <3>2. i \in 2..leaders
      BY <1>2, <3>1
    <3>3. QED
      BY <1>2, <1>6, <2>1, <2>2, <3>1, <3>2
  <2>3. CASE ~Led(u)
    <3>1. \A i \in 2..leaders : i \in 1..leaders
      BY <1>2
    <3>2. QED
      BY <1>6, <2>1, <2>3, <3>1
  <2>4. QED
    BY <2>2, <2>3
<1>9. Stored' = Stored /\ Range(todo) \subseteq Stored /\ \A e \in Stored : e[1] \in Nat
  BY <1>5 DEF Stored, Ids
<1>10. \A e \in Stored : /\ e \in Visible \/ e \in Range(todo)
                         /\ e[1] <= lastSequence' /\ ~(e[1] > lastSequence')
  <2> TAKE e \in Stored
  <2>1. CASE e[1] > lastSequence
    <3>1. e \in Range(todo)
      BY <2>1 DEF Ahead
    <3>2. e[1] <= lastSequence' /\ ~(e[1] > lastSequence')
      BY <1>2, <1>3, <1>5, <1>9, <3>1
    <3>3. QED
      BY <3>1, <3>2
  <2>2. CASE ~(e[1] > lastSequence)
    <3>1. PICK k \in Nat, last \in Nat, n \in Nat : k = e[1] /\ last = lastSequence /\ n = Len(todo)
      BY <1>2, <1>9
    <3>2. k <= last /\ k <= last + n /\ ~(k > last + n)
      BY <2>2, <3>1
    <3>3. QED
      BY <1>5, <3>1, <3>2 DEF Visible
  <2>3. QED
    BY <2>1, <2>2
<1>11. Visible' = Visible \cup Range(todo)
  BY <1>9, <1>10 DEF Visible
<1>12. ASSUME NEW u \in Waiting, NEW e \in Range(todo), e[2] = req[u].id
       PROVE  Led(u) /\ req[u].count # 0
  <2>1. PICK i \in 1..leaders : e[2] = req[writers[i]].id /\ req[writers[i]].count # 0
    BY <1>3
  <2>2. u = writers[i]
    BY <1>2, <1>12, <2>1 DEF Ids
  <2>3. QED
    BY <2>1, <2>2
<1>13. Answers'
  <2>1. ASSUME NEW u \in Waiting \ {t}
        PROVE  (\E e \in Visible' : e[2] = req[u].id) <=> (status'[u] = TRUE /\ req[u].count # 0)
    <3>1. CASE Led(u)
      <4>1. status'[u] = TRUE
        BY <1>8, <3>1
      <4>2. ~\E e \in Visible : e[2] = req[u].id
        <5>1. status[u] # TRUE
          BY <1>8, <3>1, NoneAssumption
        <5>2. QED
          BY <5>1 DEF Answers
      <4>3. (\E e \in Range(todo) : e[2] = req[u].id) <=> req[u].count # 0
        BY <1>3, <1>12, <3>1
      <4>4. QED
        BY <1>11, <4>1, <4>2, <4>3
    <3>2. CASE ~Led(u)
      <4>1. status'[u] = status[u]
        BY <1>8, <3>2
      <4>2. ~\E e \in Range(todo) : e[2] = req[u].id
        BY <1>12, <3>2
      <4>3. QED
        BY <1>11, <4>1, <4>2 DEF Answers
    <3>3. QED
      BY <3>1, <3>2
  <2>2. QED
    BY <1>5, <1>7, <2>1 DEF Answers
\* An entry of a writer that has no answer yet belongs to the group that was inserted.
<1>14. ASSUME NEW u \in Waiting, status[u] = None, NEW e \in Stored, e[2] = req[u].id
       PROVE  e \in Range(todo)
  <2>1. status[u] # TRUE
    BY <1>14, NoneAssumption
  <2>2. e \notin Visible
    BY <1>14, <2>1 DEF Answers
  <2>3. QED
    BY <1>10, <2>2
<1>15. AckedSynced'
  <2>1. ASSUME NEW e \in Stored, <<e[2], TRUE>> \in acked'
        PROVE  e \in synced \cup tables
    <3>1. CASE <<e[2], TRUE>> \in acked
      BY <3>1 DEF AckedSynced
    <3>2. CASE <<e[2], TRUE>> \notin acked
      <4>1. <<e[2], TRUE>> = <<req[t].id, req[t].sync>>
        BY <1>6, <2>1, <3>2
      <4>2. e[2] = req[t].id /\ req[t].sync
        BY <4>1
      <4>3. status[t] = None
        BY <1>2
      <4>4. e \in Range(todo)
        BY <1>1, <1>14, <4>2, <4>3
      <4>5. QED
        BY <1>1, <4>2, <4>4 DEF GroupSynced
    <3>3. QED
      BY <3>1, <3>2
  <2>2. QED
    BY <1>5, <1>9, <2>1 DEF AckedSynced
<1>16. AnsweredSynced'
  <2>1. ASSUME NEW e \in Stored, NEW u \in Waiting \ {t}, e[2] = req[u].id, req[u].sync,
               status'[u] = TRUE
        PROVE  e \in synced \cup tables
    <3>1. CASE Led(u)
      <4>1. PICK i \in 1..leaders : u = writers[i]
        BY <3>1
      <4>2. i \in 2..leaders
        BY <1>2, <4>1
      <4>3. req[t].sync
        BY <1>2, <2>1, <4>1, <4>2 DEF GroupNow
      <4>4. e \in Range(todo)
        BY <1>8, <1>14, <2>1, <3>1
      <4>5. QED
        BY <1>1, <4>3, <4>4 DEF GroupSynced
    <3>2. CASE ~Led(u)
      BY <1>8, <2>1, <3>2 DEF AnsweredSynced
    <3>3. QED
      BY <3>1, <3>2
  <2>2. QED
    BY <1>5, <1>7, <1>9, <2>1 DEF AnsweredSynced
<1>17. Ids'
  <2>1. acked' \subseteq Nat \X BOOLEAN /\ \A a \in acked' : a[1] <= calls
    BY <1>1, <1>4, <1>6 DEF Ids
  <2>2. ASSUME NEW u \in Waiting', NEW a \in acked'
        PROVE  a[1] # req[u].id
    <3>1. u \in Waiting /\ u # t
      BY <1>7
    <3>2. CASE a \in acked
      BY <3>1, <3>2 DEF Ids
    <3>3. CASE a = <<req[t].id, req[t].sync>>
      BY <1>1, <3>1, <3>3 DEF Ids
    <3>4. QED
      BY <1>6, <3>2, <3>3
  <2>3. QED
    BY <1>5, <1>7, <1>9, <2>1, <2>2 DEF Ids
<1>18. GroupNow' /\ Ahead' /\ GroupSynced'
  BY <1>5, <1>7, <1>9, <1>10 DEF GroupNow, Ahead, GroupSynced
<1>19. Store!Next
  <2>1. /\ leaders \in 1..Cardinality(Pending) /\ Batches \in [1..leaders -> Pending]
        /\ \A i, j \in 1..leaders : Batches[i] = Batches[j] => i = j
    BY <1>1, BatchesPending
  <2>2. /\ Range(todo) = {<<lastSequence + k, Store!Entries(Batches)[k]>> :
                            k \in DOMAIN Store!Entries(Batches)}
        /\ Len(todo) = Len(Store!Entries(Batches))
    BY <1>1, BatchEntries
  <2>3. Batches[1] = <<req[t].id, req[t].count>>
    BY <1>2 DEF Batches
  <2>4. Batches[1][1] = req[t].id /\ Batches[1][2] # 0
    BY <1>4, <2>3
  <2>5. \A i \in DOMAIN Batches : Batches[i][1] \notin Applied
    <3> SUFFICES ASSUME NEW i \in 1..leaders
                 PROVE  Batches[i][1] \notin Applied
      BY DEF Batches
    <3>1. Batches[i][1] = req[writers[i]].id
      BY DEF Batches
    <3>2. status[writers[i]] # TRUE
      BY <1>2, NoneAssumption
    <3>3. \A e \in Visible : e[2] # req[writers[i]].id
      BY <1>2, <3>2 DEF Answers
    <3>4. QED
      BY <3>1, <3>3 DEF Applied
  <2>6. Pending' = Pending \ {Batches[1]}
    <3>1. \A u \in Waiting \ {t} : <<req[u].id, req[u].count>> # <<req[t].id, req[t].count>>
      BY <1>1 DEF Ids
    <3>2. QED
      BY <1>5, <1>7, <2>3, <3>1 DEF Pending
  <2>7. AckedCalls' = AckedCalls \cup {Batches[1][1]}
    <3>1. PICK a : a = <<req[t].id, req[t].sync>>
      OBVIOUS
    <3>2. a[1] = req[t].id
      BY <3>1
    <3>3. acked' = acked \cup {a}
      BY <1>6, <3>1
    <3>4. QED
      BY <2>4, <3>2, <3>3 DEF AckedCalls
  <2>8. Store!Commit(Batches)
    <3>1. calls' = calls
      BY <1>5
    <3>2. QED
      BY <1>5, <1>11, <2>2, <2>4, <2>5, <2>6, <2>7, <3>1
         DEF Store!Commit, Store!Applied, Applied, AckedCalls
  <2>9. Store!Cardinality(Pending) = Cardinality(Pending)
    BY DEF Store!Cardinality, Cardinality
  <2>10. \E n \in 1..Store!Cardinality(Pending) : \E group \in [1..n -> Pending] :
           /\ \A i, j \in 1..n : group[i] = group[j] => i = j
           /\ Store!Commit(group)
    <3>1. leaders \in 1..Store!Cardinality(Pending)
      BY <2>1, <2>9
    <3>2. \E group \in [1..leaders -> Pending] :
            /\ \A i, j \in 1..leaders : group[i] = group[j] => i = j
            /\ Store!Commit(group)
      BY <2>1, <2>8 DEF Store!Commit
    <3>3. QED
      BY <3>1, <3>2
  <2>11. QED
    BY <2>10 DEF Store!Next
<1>20. QED
  BY <1>13, <1>15, <1>16, <1>17, <1>18, <1>19

-----------------------------------------------------------------------------
(* The theorems *)

LEMMA StartImplements == Init => BatchInv /\ Store!Init
<1> SUFFICES ASSUME Init
             PROVE  BatchInv /\ Store!Init
  OBVIOUS
<1>1. /\ Stored = {} /\ Visible = {} /\ Waiting = {} /\ Pending = {} /\ acked = {} /\ calls = 0
      /\ leaders = 0 /\ lastSequence = 0
      /\ \A t \in Threads : pc[t] = "idle" /\ req[t].id = 0
  BY DEF Init, Stored, Visible, Waiting, Pending, NoCall
<1>2. BatchInv
  BY <1>1 DEF BatchInv, Ids, GroupNow, Ahead, Answers, AckedSynced, AnsweredSynced, GroupSynced
<1>3. {a[1] : a \in acked} = {}
  BY <1>1
<1>4. Store!Init
  BY <1>1, <1>3 DEF Store!Init
<1>5. QED
  BY <1>2, <1>4

LEMMA StepImplements ==
  ASSUME BatchInv, WaitInv, WriteInv, [Next]_vars
  PROVE  BatchInv' /\ [Store!Next]_Store!vars
<1>1. QueueInv /\ LogTypes
  BY DEF WriteInv
<1>2. ASSUME NEW t \in Threads, NEW r \in scenario.calls, Call(t, r)
      PROVE  BatchInv' /\ Store!Next
  BY <1>1, <1>2, CallImplements
<1>3. ASSUME NEW t \in Threads, Enter(t) \/ WakeUp(t) \/ GoOn(t)
      PROVE  BatchInv' /\ [Store!Next]_Store!vars
  BY <1>1, <1>3, WriterImplements
<1>4. ASSUME NEW t \in Threads, AppendRecord(t) \/ SyncLog(t)
      PROVE  BatchInv' /\ [Store!Next]_Store!vars
  BY <1>4, LoggingImplements
<1>5. ASSUME NEW t \in Threads, InsertEntry(t)
      PROVE  BatchInv' /\ UNCHANGED Store!vars
  BY <1>1, <1>5, InsertImplements
<1>6. ASSUME NEW t \in Threads, Publish(t)
      PROVE  BatchInv' /\ Store!Next
  BY <1>1, <1>6, PublishImplements
<1>7. ASSUME \/ Background \/ UNCHANGED vars
             \/ \E t \in Threads : AwaitFlush(t) \/ AwaitManual(t) \/ AwaitClose(t) \/ Close(t)
      PROVE  BatchInv' /\ UNCHANGED Store!vars
  BY <1>1, <1>7, OthersImplement
<1>8. QED
  BY <1>2, <1>3, <1>4, <1>5, <1>6, <1>7 DEF Next, ThreadStep

\* The invariant is kept by every step.
THEOREM BatchInvariant == Spec => []BatchInv
<1>1. Init => BatchInv
  BY StartImplements
<1>2. BatchInv /\ WaitInv /\ WriteInv /\ [Next]_vars => BatchInv'
  BY StepImplements
<1>3. QED
  BY <1>1, <1>2, WaitInvariant, WriteInvariant, PTL DEF Spec

\* What a sync write put into the store is in a synced log file or in a table when the write
\* is answered, by whichever thread wrote it (DBImpl::Write, BuildBatchGroup).
THEOREM AckedWritesSynced == Spec => []AckedSynced
<1>1. BatchInv => AckedSynced
  BY DEF BatchInv
<1>2. QED
  BY <1>1, BatchInvariant, PTL

\* The write queue, with its groups, its memtable switches and its failures, applies every
\* batch as a whole between its call and its answer, or not at all (DBImpl::Write).
THEOREM WriteQueueImplementsStore == Spec => StoreSpec
<1>1. Init => Store!Init
  BY StartImplements
<1>2. BatchInv /\ WaitInv /\ WriteInv /\ [Next]_vars => [Store!Next]_Store!vars
  BY StepImplements
<1>3. QED
  BY <1>1, <1>2, BatchInvariant, WaitInvariant, WriteInvariant, PTL DEF Spec, StoreSpec, Store!Spec

=============================================================================
