--------------------------- MODULE RecoveryProofs ---------------------------
(***************************************************************************)
(* For all scenarios - whatever crashes, fails and is repaired, as often   *)
(* as it may be -: a database that has been opened can be opened again.    *)
(***************************************************************************)
EXTENDS Recovery, TLAPS, SequenceTheorems, FiniteSetTheorems, WellFoundedInduction

Machine == "machine" \in scenario.kinds
Opened == created \in {"opened", "synced"} \/ (scenario.reuse /\ Dir.current # None)

-----------------------------------------------------------------------------
(* Types *)

Directory == [logs : SUBSET Nat, manifests : SUBSET Nat, tables : SUBSET Nat, current : Nat \cup {None}]

Sane(d) == d \in Directory /\ IsFiniteSet(d.logs) /\ IsFiniteSet(d.tables)

\* The type of sequence numbers does not matter: S has all there are.
Edit(S) == [tables : SUBSET Nat, log : Nat, seq : S, next : Nat]
VersionSet(S) == [tables : SUBSET Nat, log : Nat, seq : S, next : Nat, number : Nat, logged : BOOLEAN]

\* The numbers of a version's files have all been given.
Given(v) == v.log < v.next /\ \A t \in v.tables : t < v.next

Edits(n) == manifest[n].edits

DirsOK(ds) == ds \in Seq(Directory) /\ ds # <<>> /\ \A i \in DOMAIN ds : Sane(ds[i])

ManifestOK(S) ==
  /\ manifest \in [DOMAIN manifest -> [edits : Seq(Edit(S)), synced : Nat]]
  /\ \A n \in DOMAIN manifest :
       /\ manifest[n].synced <= Len(Edits(n))
       /\ \A k \in DOMAIN Edits(n) : Given(Edits(n)[k])

Contents == \A i \in DOMAIN dirs : dirs[i].manifests \subseteq DOMAIN manifest

MemoryOK(S) ==
  /\ vs \in VersionSet(S) /\ Given(vs)
  /\ job \in Jobs \cup {None}
  /\ logNumber \in Nat /\ fresh \in BOOLEAN /\ bgError \in BOOLEAN /\ todo \in Seq(Nat)

ProcessOK ==
  /\ used \in [writes : Nat, crashes : Nat, fails : Nat, merges : Nat, repairs : Nat]
  /\ scenario \in Scenarios
  /\ at # "open" => writer = None /\ job = None

Typed(S) == DirsOK(dirs) /\ ManifestOK(S) /\ Contents /\ MemoryOK(S) /\ ProcessOK

-----------------------------------------------------------------------------
(* What can be opened *)

\* How many edits of manifest f a crash may leave, which is one of the machine or not.
LeftOf(f, machine) == IF machine THEN f.synced..Len(f.edits) ELSE {Len(f.edits)}
Left(n) == LeftOf(manifest[n], Machine)

\* Whatever is left of the one of the manifests m that d names, its tables are in d; and it
\* gives none of the numbers up to its own again.
OpensWith(d, m, machine) ==
  /\ d.current \in d.manifests
  /\ \A k \in LeftOf(m[d.current], machine) :
       /\ k > 0 /\ m[d.current].edits[k].tables \subseteq d.tables
       /\ d.current < m[d.current].edits[k].next
Opens(d) == OpensWith(d, manifest, Machine)

\* All directories that a crash may leave can be opened, and name no later manifest.
Reopens ==
  /\ Opened => Opens(Dir)
  /\ created = "synced" /\ Machine =>
       \A i \in DOMAIN dirs : Opens(dirs[i]) /\ dirs[i].current <= Dir.current
  /\ CanReopen

-----------------------------------------------------------------------------
(* The steps of Open *)

LogInUse == logNumber \in Dir.logs /\ logNumber < vs.next /\ vs.log <= logNumber

NewNumber == Opened => Dir.current < vs.number

FirstManifest ==
  at = "newdb" => /\ Dir.current = None
                  /\ 1 \in Dir.manifests /\ Edits(1) = <<State(NoVersion)>>

Loading ==
  at \in {"replay", "save"} =>
    /\ vs.tables \subseteq Dir.tables /\ vs.number < vs.next
    /\ IF vs.logged
       THEN /\ scenario.reuse /\ vs.number = Dir.current
            /\ Last(Edits(vs.number)).tables \subseteq vs.tables
            /\ ~fresh => vs.tables = Last(Edits(vs.number)).tables
       ELSE fresh /\ NewNumber
    /\ at = "replay" => \A i \in DOMAIN todo : todo[i] \in Dir.logs /\ vs.log <= todo[i]
    /\ at = "save" \/ logNumber # 0 => LogInUse

Saving ==
  at \in {"sync", "name"} =>
    /\ vs.tables \subseteq Dir.tables /\ vs.number < vs.next
    /\ vs.number \in Dir.manifests /\ Edits(vs.number) # <<>> /\ Last(Edits(vs.number)) = State(vs)
    /\ IF vs.logged THEN at = "sync" /\ scenario.reuse /\ vs.number = Dir.current
       ELSE Len(Edits(vs.number)) = 1 /\ NewNumber
    /\ at = "name" => manifest[vs.number].synced = 1
    /\ LogInUse

-----------------------------------------------------------------------------
(* The open database *)

\* Its tables are where a crash leaves them, and so is the background work's from when it
\* is to be logged.
TablesDurable ==
  \A i \in DOMAIN dirs : Machine \/ i = Len(dirs) =>
    /\ vs.tables \subseteq dirs[i].tables
    /\ job # None /\ job.at \in {"log", "sync"} => job.out \in dirs[i].tables

\* What a crash may leave of the manifest needs no other tables, so that the others may be
\* deleted; unless an edit is under way or has failed.
LeftNeeds ==
  IF job # None /\ job.at = "sync"
  THEN /\ Last(Edits(vs.number)).tables = Edited(job).tables
       /\ \A k \in Left(vs.number) : Edits(vs.number)[k].tables \subseteq vs.tables \cup {job.out}
  ELSE job # None \/ ~bgError => \A k \in Left(vs.number) : Edits(vs.number)[k].tables \subseteq vs.tables

JobTable ==
  job # None => /\ job.out < vs.next
                /\ job.at # "delete" => job.out \in Dir.tables /\ job.out \notin vs.tables

Ready ==
  at \in {"delete", "open"} =>
    /\ Opens(Dir) /\ Dir.current = vs.number /\ vs.number < vs.next
    /\ LogInUse /\ TablesDurable /\ LeftNeeds /\ JobTable

Unused ==
  /\ at \notin {"replay", "save", "sync", "name", "delete", "open"} => logNumber = 0
  /\ at # "open" => ~bgError
  /\ at \in {"convert", "archive", "describe", "install"} => created = "repair"
  /\ created = "repair" => ~scenario.reuse

RecoveryInv ==
  Reopens /\ FirstManifest /\ Loading /\ Saving /\ Ready /\ Unused

-----------------------------------------------------------------------------
(* Directories *)

\* What the changes of the directory have in common: the last one is new, the others were
\* there before.
LEMMA DirsChange ==
  ASSUME NEW old, DirsOK(old), NEW d, Sane(d), NEW new, new \in {Append(old, d), <<d>>, <<Last(old), d>>}
  PROVE  /\ DirsOK(new)
         /\ Len(new) \in DOMAIN new /\ Last(new) = d
         /\ \A i \in DOMAIN new : \/ i = Len(new) /\ new[i] = d
                                  \/ i # Len(new) /\ \E j \in DOMAIN old : new[i] = old[j]
<1>1. PICK n \in Nat : n = Len(old) /\ n >= 1 /\ DOMAIN old = 1..n /\ n \in DOMAIN old
  BY EmptySeq DEF DirsOK
<1>2. Last(old) = old[n] /\ Sane(Last(old))
  BY <1>1 DEF Last, DirsOK
<1>3. CASE new = Append(old, d)
  <2>1. d \in Directory
    BY DEF Sane
  <2>2. /\ new \in Seq(Directory) /\ Len(new) = n + 1 /\ DOMAIN new = 1..n + 1
        /\ new[n + 1] = d /\ \A i \in 1..n : new[i] = old[i]
    BY <1>1, <1>3, <2>1, AppendProperties DEF DirsOK
  <2>3. Last(new) = d
    BY <2>2 DEF Last
  <2>4. \A i \in 1..n + 1 : i = n + 1 \/ (i \in 1..n /\ i # n + 1)
    OBVIOUS
  <2>5. new # <<>> /\ n + 1 \in 1..n + 1
    BY <1>1, <2>2
  <2>6. DirsOK(new)
    BY <1>1, <2>2, <2>4, <2>5 DEF DirsOK
  <2>7. \A i \in 1..n + 1 : \/ i = n + 1 /\ new[i] = d
                            \/ i # n + 1 /\ \E j \in 1..n : new[i] = old[j]
    <3>1. ASSUME NEW i \in 1..n + 1, i # n + 1
          PROVE  \E j \in 1..n : new[i] = old[j]
      <4>1. i \in 1..n /\ new[i] = old[i]
        BY <2>2, <2>4, <3>1
      <4>2. QED
        BY <4>1
    <3>2. QED
      BY <2>2, <3>1
  <2>8. QED
    BY <1>1, <2>2, <2>3, <2>5, <2>6, <2>7
<1>4. CASE new = <<d>>
  <2>1. /\ Len(new) = 1 /\ DOMAIN new = {1} /\ new[1] = d /\ new # <<>>
        /\ new \in Seq(Directory)
    BY <1>4 DEF Sane
  <2>2. DirsOK(new) /\ Last(new) = d
    BY <2>1 DEF Last, DirsOK
  <2>3. \A i \in DOMAIN new : i = Len(new) /\ new[i] = d
    BY <2>1
  <2>4. Len(new) \in DOMAIN new
    BY <2>1
  <2>5. QED
    BY <2>2, <2>3, <2>4
<1>5. CASE new = <<Last(old), d>>
  <2>1. /\ Len(new) = 2 /\ DOMAIN new = {1, 2} /\ new[1] = Last(old) /\ new[2] = d /\ new # <<>>
        /\ new \in Seq(Directory)
    BY <1>2, <1>5 DEF Sane
  <2>2. DirsOK(new) /\ Last(new) = d
    BY <1>2, <2>1 DEF Last, DirsOK
  <2>3. \A i \in DOMAIN new : (i = Len(new) /\ new[i] = d) \/ (i # Len(new) /\ new[i] = old[n])
    BY <1>2, <2>1
  <2>4. Len(new) \in DOMAIN new
    BY <2>1
  <2>5. QED
    BY <1>1, <2>2, <2>3, <2>4
<1>6. QED
  BY <1>3, <1>4, <1>5

LEMMA DirFacts ==
  ASSUME DirsOK(dirs)
  PROVE  /\ Sane(Dir) /\ Dir = dirs[Len(dirs)] /\ Len(dirs) \in DOMAIN dirs
         /\ Dir = [logs |-> Dir.logs, manifests |-> Dir.manifests, tables |-> Dir.tables,
                   current |-> Dir.current]
<1>1. DirsOK(dirs) /\ Len(dirs) \in DOMAIN dirs /\ Dir = dirs[Len(dirs)]
  BY EmptySeq DEF DirsOK, Last, Dir
<1>2. Sane(Dir)
  BY <1>1 DEF DirsOK
<1> HIDE DEF Dir
<1>3. QED
  BY <1>1, <1>2 DEF Sane, Directory

LEMMA SaneChanges ==
  ASSUME NEW d, Sane(d), NEW n \in Nat
  PROVE  /\ Sane([d EXCEPT !.logs = @ \cup {n}]) /\ Sane([d EXCEPT !.manifests = @ \cup {n}])
         /\ Sane([d EXCEPT !.tables = @ \cup {n}]) /\ Sane([d EXCEPT !.current = n])
         /\ Sane([d EXCEPT !.manifests = @ \ {n}]) /\ Sane([d EXCEPT !.tables = @ \ {n}])
         /\ Sane([d EXCEPT !.manifests = {}]) /\ Sane([d EXCEPT !.manifests = {n}])
         /\ \A A \in SUBSET Nat : IsFiniteSet(A) => Sane([d EXCEPT !.tables = @ \cup A])
         /\ \A A : Sane(Without(d, A))
<1>1. d \in Directory /\ IsFiniteSet(d.logs) /\ IsFiniteSet(d.tables)
  BY DEF Sane
<1>2. /\ IsFiniteSet(d.logs \cup {n}) /\ IsFiniteSet(d.tables \cup {n})
      /\ IsFiniteSet(d.tables \ {n})
  BY <1>1, FS_AddElement, FS_RemoveElement
<1>3. ASSUME NEW A \in SUBSET Nat, IsFiniteSet(A)
      PROVE  Sane([d EXCEPT !.tables = @ \cup A])
  <2>1. IsFiniteSet(d.tables \cup A)
    BY <1>1, <1>3, FS_Union
  <2>2. QED
    BY <1>1, <2>1 DEF Sane, Directory
<1>4. ASSUME NEW A
      PROVE  Sane(Without(d, A))
  <2>1. /\ IsFiniteSet({k \in d.logs : <<"log", k>> \notin A})
        /\ IsFiniteSet({k \in d.tables : <<"table", k>> \notin A})
    BY <1>1, FS_Subset
  <2>2. QED
    BY <1>1, <2>1 DEF Sane, Directory, Without
<1>5. QED
  BY <1>1, <1>2, <1>3, <1>4 DEF Sane, Directory

-----------------------------------------------------------------------------
(* Numbers *)

\* A set of numbers has a least one.
LEMMA LeastNumber ==
  ASSUME NEW T \in SUBSET Nat, T # {}
  PROVE  \E n \in T : \A m \in T : n <= m
<1> DEFINE R == {p \in Nat \X Nat : p[1] < p[2]}
<1>1. IsWellFoundedOn(R, Nat)
  <2>1. OpToRel(<, Nat) = R
    BY DEF OpToRel
  <2>2. QED
    BY <2>1, NatLessThanWellFounded
<1>2. PICK n \in T : \A m \in T : ~(<<m, n>> \in R)
  <2> HIDE DEF R
  <2> QED
    BY <1>1, WFMin
<1>3. \A m \in T : ~(m < n)
  BY <1>2
<1>4. \A m \in T : n <= m
  BY <1>3
<1>5. QED
  BY <1>4

\* Induction, over the set of the numbers that have a property.
LEMMA SetInduction ==
  ASSUME NEW T, 0 \in T, \A n \in Nat : n \in T => n + 1 \in T
  PROVE  Nat \subseteq T
<1>1. SUFFICES ASSUME Nat \ T # {} PROVE FALSE
  OBVIOUS
<1>2. PICK n \in Nat \ T : \A m \in Nat \ T : n <= m
  BY <1>1, LeastNumber
<1>3. n # 0 /\ n - 1 \in Nat /\ n - 1 < n
  BY <1>2
<1>4. n - 1 \in T
  BY <1>2, <1>3
<1>5. QED
  BY <1>2, <1>3, <1>4

\* A finite set of numbers has a largest one.
LEMMA FiniteMax ==
  ASSUME NEW A \in SUBSET Nat, IsFiniteSet(A), A # {}
  PROVE  Max(A) \in A /\ \A x \in A : x <= Max(A)
<1> DEFINE HasMax(B) == \E m \in B : \A x \in B : m >= x
           T == {c \in Nat : \A B \in SUBSET Nat : IsFiniteSet(B) /\ B # {} /\ Cardinality(B) = c => HasMax(B)}
<1>1. 0 \in T
  BY FS_EmptySet
<1>2. ASSUME NEW c \in Nat, c \in T
      PROVE  c + 1 \in T
  <2>1. ASSUME NEW B \in SUBSET Nat, IsFiniteSet(B), B # {}, Cardinality(B) = c + 1
        PROVE  HasMax(B)
    <3>1. PICK b \in B : TRUE
      BY <2>1
    <3>2. IsFiniteSet(B \ {b}) /\ Cardinality(B \ {b}) = c
      <4>1. IsFiniteSet(B \ {b}) /\ Cardinality(B \ {b}) = Cardinality(B) - 1
        BY <2>1, <3>1, FS_RemoveElement
      <4>2. c + 1 - 1 = c
        OBVIOUS
      <4>3. QED
        BY <2>1, <4>1, <4>2
    <3>3. CASE B \ {b} = {}
      BY <3>1, <3>3
    <3>4. CASE B \ {b} # {}
      <4>1. PICK m \in B \ {b} : \A x \in B \ {b} : m >= x
        BY <1>2, <3>2, <3>4
      <4>2. (IF m >= b THEN m ELSE b) \in B
        BY <4>1
      <4>3. \A x \in B : (IF m >= b THEN m ELSE b) >= x
        BY <4>1
      <4>4. QED
        BY <4>2, <4>3
    <3>5. QED
      BY <3>3, <3>4
  <2>2. QED
    BY <2>1
<1>3. Nat \subseteq T
  <2> HIDE DEF T
  <2> QED
    BY <1>1, <1>2, SetInduction
<1>4. HasMax(A)
  BY <1>3, FS_CardinalityType
<1>5. QED
  BY <1>4 DEF Max

-----------------------------------------------------------------------------
(* Types are kept *)

\* A manifest that is written anew, or gets one more edit.
LEMMA ManifestChanges ==
  ASSUME NEW S, NEW n \in Nat, NEW v \in Edit(S), Given(v),
         ManifestOK(S),
         \/ manifest' = With(manifest, n, [edits |-> <<v>>, synced |-> 0])
         \/ n \in DOMAIN manifest /\ manifest' = [manifest EXCEPT ![n].edits = Append(@, v)]
  PROVE  /\ ManifestOK(S)'
         /\ DOMAIN manifest' = DOMAIN manifest \cup {n}
         /\ manifest'[n].edits # <<>> /\ Last(manifest'[n].edits) = v
         /\ \A m \in DOMAIN manifest \ {n} : manifest'[m] = manifest[m]
<1> USE DEF ManifestOK
<1>1. CASE manifest' = With(manifest, n, [edits |-> <<v>>, synced |-> 0])
  <2>1. /\ DOMAIN manifest' = DOMAIN manifest \cup {n}
        /\ manifest'[n] = [edits |-> <<v>>, synced |-> 0]
        /\ \A m \in DOMAIN manifest \ {n} : manifest'[m] = manifest[m]
        /\ manifest' = [m \in DOMAIN manifest' |-> manifest'[m]]
    BY <1>1 DEF With
  <2>2. manifest'[n] \in [edits : Seq(Edit(S)), synced : Nat] /\ Edits(n)' = <<v>> /\ manifest'[n].synced = 0
    BY <2>1 DEF Edits
  <2>3. \A m \in DOMAIN manifest' : manifest'[m] \in [edits : Seq(Edit(S)), synced : Nat]
    BY <2>1, <2>2
  <2>4. manifest' \in [DOMAIN manifest' -> [edits : Seq(Edit(S)), synced : Nat]]
    BY <2>1, <2>3
  <2>5. Len(<<v>>) = 1 /\ DOMAIN <<v>> = {1} /\ <<v>>[1] = v /\ <<v>> # <<>>
    OBVIOUS
  <2>6. \A m \in DOMAIN manifest' : /\ manifest'[m].synced <= Len(Edits(m)')
                                    /\ \A k \in DOMAIN Edits(m)' : Given(Edits(m)'[k])
    BY <2>1, <2>2, <2>5 DEF Edits
  <2>7. Last(Edits(n)') = v
    BY <2>2, <2>5 DEF Last
  <2>8. QED
    BY <2>1, <2>2, <2>4, <2>5, <2>6, <2>7 DEF Edits
<1>2. CASE n \in DOMAIN manifest /\ manifest' = [manifest EXCEPT ![n].edits = Append(@, v)]
  <2>1. PICK c \in Nat : c = Len(Edits(n)) /\ DOMAIN Edits(n) = 1..c /\ manifest[n].synced \in 0..c
    BY <1>2 DEF Edits
  <2>2. /\ DOMAIN manifest' = DOMAIN manifest
        /\ Edits(n)' = Append(Edits(n), v) /\ manifest'[n].synced = manifest[n].synced
        /\ manifest'[n] = [edits |-> Append(Edits(n), v), synced |-> manifest[n].synced]
        /\ \A m \in DOMAIN manifest \ {n} : manifest'[m] = manifest[m]
    BY <1>2 DEF Edits
  <2>3. Edits(n) \in Seq(Edit(S))
    BY <1>2 DEF Edits
  <2>4. /\ Append(Edits(n), v) \in Seq(Edit(S)) /\ Len(Append(Edits(n), v)) = c + 1
        /\ DOMAIN Append(Edits(n), v) = 1..c + 1 /\ Append(Edits(n), v)[c + 1] = v
        /\ \A k \in 1..c : Append(Edits(n), v)[k] = Edits(n)[k]
    BY <2>1, <2>3, AppendProperties
  <2>5. manifest'[n] \in [edits : Seq(Edit(S)), synced : Nat]
    BY <2>1, <2>2, <2>4
  <2>6. manifest' \in [DOMAIN manifest' -> [edits : Seq(Edit(S)), synced : Nat]]
    BY <1>2, <2>2, <2>5
  <2>7. \A k \in 1..c + 1 : k = c + 1 \/ k \in 1..c
    OBVIOUS
  <2>8. \A k \in DOMAIN Edits(n)' : Given(Edits(n)'[k])
    BY <1>2, <2>1, <2>2, <2>4, <2>7
  <2>9. manifest'[n].synced <= Len(Edits(n)')
    BY <2>1, <2>2, <2>4
  <2>10. \A m \in DOMAIN manifest' : /\ manifest'[m].synced <= Len(Edits(m)')
                                     /\ \A k \in DOMAIN Edits(m)' : Given(Edits(m)'[k])
    BY <2>2, <2>8, <2>9 DEF Edits
  <2>11. Edits(n)' # <<>> /\ Last(Edits(n)') = v
    <3>1. c + 1 # 0
      OBVIOUS
    <3>2. Append(Edits(n), v) # <<>>
      BY <2>4, <3>1
    <3>3. QED
      BY <2>2, <2>4, <3>2 DEF Last
  <2>12. QED
    BY ZenonT(60), <1>2, <2>2, <2>6, <2>10, <2>11 DEF Edits
<1>3. QED
  BY <1>1, <1>2

LEMMA ProcessKept ==
  ASSUME ProcessOK, [Next]_vars
  PROVE  ProcessOK' /\ UNCHANGED scenario
<1> USE DEF ProcessOK
<1>0. ASSUME UNCHANGED <<scenario, writer, job>>, UNCHANGED used, at # "open" \/ at' = "open"
      PROVE  ProcessOK' /\ UNCHANGED scenario
  BY <1>0
<1>1. CASE \/ NewDB \/ NameFirstManifest \/ ReadManifest \/ ReplayLog \/ CreateLog
           \/ SaveManifest \/ SyncManifest \/ NameManifest \/ OpenReturns
  <2>1. UNCHANGED <<scenario, writer, job>> /\ UNCHANGED used
    BY <1>1 DEF NewDB, NameFirstManifest, ReadManifest, ReplayLog, CreateLog, SaveManifest, SyncManifest,
                NameManifest, OpenReturns, Opening
  <2>2. at # "open"
    BY <1>1 DEF NewDB, NameFirstManifest, ReadManifest, ReplayLog, CreateLog, SaveManifest, SyncManifest,
                NameManifest, OpenReturns, Opening
  <2>3. QED
    BY <1>0, <2>1, <2>2
<1>8. CASE OpenFails
  BY <1>8 DEF OpenFails, MayFail, ForgetMemory
<1>2. CASE \/ \E n \in scenario.sizes : AppendRecord(n)
           \/ \E sync \in BOOLEAN : EndWrite(sync)
           \/ SyncFails \/ SwitchMemTable
  BY <1>2 DEF AppendRecord, EndWrite, SyncFails, SwitchMemTable, MayWrite, Running, MayFail
<1>9. CASE \E n \in scenario.sizes : AppendFails(n)
  <2>1. /\ UNCHANGED <<scenario, at, writer, job>>
        /\ used' = [used EXCEPT !.writes = @ + 1, !.fails = @ + 1]
    BY <1>9 DEF AppendFails, MayWrite, Running
  <2>2. used \in [writes : Nat, crashes : Nat, fails : Nat, merges : Nat, repairs : Nat]
    OBVIOUS
  <2>3. used' \in [writes : Nat, crashes : Nat, fails : Nat, merges : Nat, repairs : Nat]
    <3> HIDE DEF ProcessOK
    <3>1. used.writes + 1 \in Nat /\ used.fails + 1 \in Nat
      BY <2>2
    <3>2. [used EXCEPT !.writes = @ + 1] \in
            [writes : Nat, crashes : Nat, fails : Nat, merges : Nat, repairs : Nat]
      BY <2>2, <3>1
    <3>3. QED
      BY <2>1, <2>2, <3>1, <3>2
  <2>4. QED
    BY <2>1, <2>3
<1>3. CASE StartFlush \/ StartMerge \/ FinishTable \/ LogEdit \/ InstallEdit \/ JobDone \/ JobFails
  BY SMTT(60), <1>3 DEF StartFlush, StartMerge, StartTable, FinishTable, LogEdit, InstallEdit, JobDone, JobFails,
              Working, Running, MayFail
<1>4. CASE ProcessEnds \/ MachineCrashes
  <2>1. Crashed
    BY <1>4 DEF ProcessEnds, MachineCrashes
  <2>2. QED
    BY <2>1 DEF Crashed, ForgetMemory
<1>5. CASE \/ StartRepair \/ ConvertLogToTable \/ ArchiveLog \/ ExtractMetaData
           \/ WriteDescriptor \/ InstallDescriptor
  BY <1>5 DEF StartRepair, ConvertLogToTable, ArchiveLog, ExtractMetaData, WriteDescriptor,
              InstallDescriptor, Repairing
<1>6. CASE UNCHANGED vars
  BY <1>6 DEF vars, memory
<1>7. QED
  BY <1>1, <1>2, <1>3, <1>4, <1>5, <1>6, <1>8, <1>9 DEF Next

-----------------------------------------------------------------------------
(* What can be opened still can be *)

\* Also from another directory, if its tables are there.
LEMMA OpensMore ==
  ASSUME NEW d, NEW e, NEW m, NEW m2, NEW machine, OpensWith(d, m, machine),
         m2[d.current] = m[d.current], e.current = d.current, d.current \in e.manifests,
         d.tables \subseteq e.tables
  PROVE  OpensWith(e, m2, machine)
BY DEF OpensWith

\* A step that leaves the directory alone, or one of the changes above that ends in d.
DirStep(d) ==
  \/ dirs' = dirs /\ d = Dir
  \/ dirs' = Append(dirs, d) \/ dirs' = <<d>> \/ dirs' = <<Dir, d>>

LEMMA DirsAfter ==
  ASSUME DirsOK(dirs), NEW d, Sane(d), DirStep(d)
  PROVE  /\ DirsOK(dirs') /\ Dir' = d
         /\ \A i \in DOMAIN dirs' : \/ i = Len(dirs') /\ dirs'[i] = d
                                    \/ i # Len(dirs') /\ \E j \in DOMAIN dirs : dirs'[i] = dirs[j]
<1>1. CASE dirs' = dirs /\ d = Dir
  BY <1>1, DirFacts DEF DirsOK, Dir
<1>2. CASE dirs' \in {Append(dirs, d), <<d>>, <<Dir, d>>}
  <2>1. /\ DirsOK(dirs') /\ Len(dirs') \in DOMAIN dirs' /\ Last(dirs') = d
        /\ \A i \in DOMAIN dirs' : \/ i = Len(dirs') /\ dirs'[i] = d
                                   \/ i # Len(dirs') /\ \E j \in DOMAIN dirs : dirs'[i] = dirs[j]
    BY <1>2, DirsChange DEF Dir
  <2>2. Dir' = d
    BY <2>1 DEF Dir, Last
  <2>3. QED
    BY <2>1, <2>2
<1>3. QED
  BY <1>1, <1>2 DEF DirStep

\* What Reopens says of directories, after a step that ends in d.
LEMMA ReopensKept ==
  ASSUME DirsOK(dirs), NEW d, Sane(d), DirStep(d), UNCHANGED scenario, Reopens, CanReopen',
         created' = "synced" => created = "synced" \/ dirs' = <<d>>,
         Opened' => OpensWith(d, manifest', Machine),
         created = "synced" /\ Machine =>
           Dir.current <= d.current /\ \A i \in DOMAIN dirs : OpensWith(dirs[i], manifest', Machine)
  PROVE  Reopens'
<1>1. /\ Dir' = d /\ DirsOK(dirs')
      /\ \A i \in DOMAIN dirs' : \/ i = Len(dirs') /\ dirs'[i] = d
                                 \/ i # Len(dirs') /\ \E j \in DOMAIN dirs : dirs'[i] = dirs[j]
  BY DirsAfter
<1>2. Machine' = Machine
  BY DEF Machine
<1>3. Opened' => Opens(Dir)'
  BY <1>1, <1>2 DEF Opens
<1>4. ASSUME created' = "synced", Machine, NEW i \in DOMAIN dirs'
      PROVE  OpensWith(dirs'[i], manifest', Machine) /\ dirs'[i].current <= Dir'.current
  <2>1. OpensWith(d, manifest', Machine)
    BY <1>4 DEF Opened
  <2>2. CASE dirs'[i] = d
    BY <1>1, <2>1, <2>2 DEF OpensWith, Sane, Directory
  <2>3. CASE \E j \in DOMAIN dirs : i # Len(dirs') /\ dirs'[i] = dirs[j]
    <3>1. PICK j \in DOMAIN dirs : i # Len(dirs') /\ dirs'[i] = dirs[j]
      BY <2>3
    <3>2. ~(dirs' = <<d>>)
      <4>1. Len(<<d>>) = 1 /\ DOMAIN <<d>> = {1}
        OBVIOUS
      <4>2. QED
        BY <1>4, <3>1, <4>1
    <3>3. created = "synced"
      BY <1>4, <3>2
    <3>4. OpensWith(dirs[j], manifest', Machine)
      BY <1>4, <3>1, <3>3
    <3>5. dirs[j].current <= Dir.current /\ Opens(dirs[j]) /\ Opens(Dir)
      BY <1>4, <3>1, <3>3 DEF Reopens, Opened
    <3>6. dirs[j].current \in Nat /\ Dir.current \in Nat /\ d.current \in Nat
      BY <2>1, <3>4, <3>5, DirFacts DEF OpensWith, Opens, Sane, Directory, DirsOK
    <3>7. Dir.current <= d.current
      BY <1>4, <3>3
    <3>8. QED
      BY <1>1, <3>1, <3>4, <3>5, <3>6, <3>7
  <2>4. QED
    BY <1>1, <2>2, <2>3
<1>5. created' = "synced" /\ Machine' =>
        \A i \in DOMAIN dirs' : OpensWith(dirs'[i], manifest', Machine') /\ dirs'[i].current <= Dir'.current
  BY <1>2, <1>4
<1>6. QED
  BY <1>3, <1>5 DEF Reopens, Opens

\* What the files look like then.
LEMMA DiskKept ==
  ASSUME DirsOK(dirs), NEW d, Sane(d), DirStep(d), Contents,
         DOMAIN manifest \subseteq DOMAIN manifest', d.manifests \subseteq DOMAIN manifest'
  PROVE  DirsOK(dirs') /\ Dir' = d /\ Contents'
<1>1. /\ Dir' = d /\ DirsOK(dirs')
      /\ \A i \in DOMAIN dirs' : \/ i = Len(dirs') /\ dirs'[i] = d
                                 \/ i # Len(dirs') /\ \E j \in DOMAIN dirs : dirs'[i] = dirs[j]
  BY DirsAfter
<1>2. \A i \in DOMAIN dirs' : dirs'[i].manifests \subseteq DOMAIN manifest'
  BY <1>1 DEF Contents
<1>3. QED
  BY <1>1, <1>2 DEF Contents

LEMMA SameManifests ==
  ASSUME NEW S, ManifestOK(S), UNCHANGED manifest
  PROVE  ManifestOK(S)'
BY DEF ManifestOK, Edits

\* A process that has not begun to open the database, or repairs it.
LEMMA NothingOpen ==
  ASSUME at' \in {"down", "corrupt", "read", "convert", "archive", "describe", "install"},
         logNumber' = 0, ~bgError', created' = "repair" => ~scenario'.reuse,
         at' \in {"convert", "archive", "describe", "install"} => created' = "repair"
  PROVE  FirstManifest' /\ Loading' /\ Saving' /\ Ready' /\ Unused'
<1>1. at' \notin {"newdb", "replay", "save", "sync", "name", "delete", "open"}
  OBVIOUS
<1>2. FirstManifest' /\ Loading' /\ Saving' /\ Ready'
  BY <1>1 DEF FirstManifest, Loading, Saving, Ready
<1>3. Unused'
  BY DEF Unused
<1>4. QED
  BY <1>2, <1>3

-----------------------------------------------------------------------------
(* Each step *)

Before(S) ==
  Typed(S) /\ RecoveryInv /\ UNCHANGED scenario /\ ProcessOK' /\ 0 \in S
Kept(S) ==
  DirsOK(dirs') /\ ManifestOK(S)' /\ Contents' /\ MemoryOK(S)' /\ RecoveryInv'

LEMMA NewDBKept ==
  ASSUME NEW S, Before(S), NewDB
  PROVE  Kept(S)
<1> DEFINE d == [Dir EXCEPT !.manifests = @ \cup {1}]
<1>1. /\ DirsOK(dirs) /\ Contents /\ ManifestOK(S) /\ MemoryOK(S) /\ Sane(Dir)
      /\ UNCHANGED scenario
  BY DirFacts DEF Before, Typed
<1>2. Sane(d) /\ DirStep(d) /\ d.current = None /\ 1 \in d.manifests
  BY <1>1, SaneChanges DEF NewDB, Changed, DirStep, Sane, Directory
<1>3. ~Opened /\ ~Opened' /\ Reopens
  <2>1. Reopens
    BY DEF Before, RecoveryInv
  <2>2. Dir.current = None /\ created' = created
    BY DEF NewDB, Opening, ghosts
  <2>3. ~Opens(Dir)
    BY <1>1, <2>2, NoneAssumption DEF Opens, OpensWith, Sane, Directory
  <2>4. ~Opened
    BY <2>1, <2>3 DEF Reopens
  <2>5. Dir' = d
    BY <1>1, <1>2, DirsAfter
  <2>6. QED
    BY <1>1, <1>2, <2>1, <2>2, <2>4, <2>5 DEF Opened
<1>4. State(NoVersion) \in Edit(S) /\ Given(State(NoVersion)) /\ 1 \in Nat
  BY DEF State, NoVersion, Edit, Given, Before
<1>5. /\ ManifestOK(S)' /\ DOMAIN manifest' = DOMAIN manifest \cup {1}
      /\ Edits(1)' = <<State(NoVersion)>>
  <2>1. manifest' = With(manifest, 1, [edits |-> <<State(NoVersion)>>, synced |-> 0])
    BY DEF NewDB
  <2>2. Edits(1)' = <<State(NoVersion)>>
    BY <2>1 DEF With, Edits
  <2>3. QED
    BY <1>1, <1>4, <2>1, <2>2, ManifestChanges
<1>6. DirsOK(dirs') /\ Dir' = d /\ Contents'
  <2>1. d.manifests \subseteq DOMAIN manifest'
    BY <1>1, <1>5, DirFacts DEF Contents, Sane, Directory
  <2>2. QED
    BY <1>1, <1>2, <1>5, <2>1, DiskKept
<1>7. MemoryOK(S)'
  BY <1>1 DEF NewDB, MemoryOK
<1>8. Reopens'
  <2>1. at' = "newdb" /\ created' = created
    BY DEF NewDB, Opening, ghosts
  <2>2. created # "synced" /\ CanReopen'
    BY <1>3, <2>1 DEF Opened, CanReopen
  <2>3. QED
    BY <1>1, <1>2, <1>3, <2>1, <2>2, ReopensKept
<1>9. FirstManifest' /\ Loading' /\ Saving' /\ Ready' /\ Unused'
  <2>1. at = "down" /\ at' = "newdb" /\ created' = created /\ UNCHANGED <<logNumber, bgError>>
    BY DEF NewDB, Opening, ghosts
  <2>2. FirstManifest'
    BY <1>2, <1>5, <1>6 DEF FirstManifest
  <2>3. Loading' /\ Saving' /\ Ready'
    BY <2>1 DEF Loading, Saving, Ready
  <2>4. Unused'
    BY <1>1, <2>1 DEF Unused, Before, RecoveryInv
  <2>5. QED
    BY <2>2, <2>3, <2>4
<1>10. QED
  BY <1>5, <1>6, <1>7, <1>8, <1>9 DEF Kept, RecoveryInv

LEMMA NameFirstManifestKept ==
  ASSUME NEW S, Before(S), NameFirstManifest
  PROVE  Kept(S)
<1> DEFINE d == [Dir EXCEPT !.current = 1]
<1>1. /\ DirsOK(dirs) /\ Contents /\ ManifestOK(S) /\ MemoryOK(S) /\ Sane(Dir)
      /\ UNCHANGED scenario
  BY DirFacts DEF Before, Typed
<1>2. /\ Sane(d) /\ DirStep(d) /\ d.current = 1 /\ d.manifests = Dir.manifests
      /\ d.tables = Dir.tables
  BY <1>1, SaneChanges DEF NameFirstManifest, SetCurrentFile, DirStep, Sane, Directory
<1>3. at = "newdb" /\ at' = "read" /\ UNCHANGED <<created, logNumber, bgError, manifest>> /\ created # "repair"
  BY DEF NameFirstManifest, Opening, ghosts
<1>4. /\ Reopens /\ Dir.current = None /\ 1 \in Dir.manifests
      /\ manifest[1].edits = <<State(NoVersion)>>
  BY <1>3 DEF Before, RecoveryInv, FirstManifest, Edits
<1>5. ~Opened
  <2>1. ~Opens(Dir)
    BY <1>1, <1>4, NoneAssumption DEF Opens, OpensWith, Sane, Directory
  <2>2. QED
    BY <1>4, <2>1 DEF Reopens
<1>6. ManifestOK(S)'
  BY <1>1, <1>3, SameManifests
<1>7. DirsOK(dirs') /\ Dir' = d /\ Contents'
  <2>1. d.manifests \subseteq DOMAIN manifest'
    BY <1>1, <1>2, <1>3, DirFacts DEF Contents
  <2>2. QED
    BY <1>1, <1>2, <1>3, <2>1, DiskKept
<1>8. Opened' => OpensWith(d, manifest', Machine)
  <2>1. SUFFICES ASSUME Opened' PROVE OpensWith(d, manifest', Machine)
    OBVIOUS
  <2>2. scenario.reuse
    BY <1>1, <1>3, <1>5, <2>1 DEF Opened
  <2>3. ~Machine
    BY <2>2, ScenariosAssumption DEF Machine, Before, Typed, ProcessOK
  <2>4. /\ LeftOf(manifest[1], Machine) = {1}
        /\ manifest[1].edits[1].tables = {} /\ manifest[1].edits[1].next = 2
    BY <1>4, <2>3 DEF LeftOf, State, NoVersion
  <2>5. QED
    BY <1>2, <1>3, <1>4, <2>4 DEF OpensWith
<1>9. Reopens'
  <2>1. created # "synced" /\ CanReopen'
    BY <1>3, <1>5 DEF Opened, CanReopen
  <2>2. QED
    BY <1>1, <1>2, <1>3, <1>4, <1>8, <2>1, ReopensKept
<1>10. MemoryOK(S)'
  BY <1>1 DEF NameFirstManifest, MemoryOK
<1>11. FirstManifest' /\ Loading' /\ Saving' /\ Ready' /\ Unused'
  <2>1. Unused
    BY DEF Before, RecoveryInv
  <2>2. logNumber' = 0 /\ ~bgError' /\ created' # "repair"
    BY <1>1, <1>3, <2>1 DEF Unused
  <2>3. QED
    BY <1>3, <2>2, NothingOpen
<1>12. QED
  BY <1>6, <1>7, <1>9, <1>10, <1>11 DEF Kept, RecoveryInv

\* The logs to be replayed are the directory's.
LEMMA Sorted ==
  ASSUME NEW A \in SUBSET Nat, IsFiniteSet(A), NEW t \in SetToSeqs(A)
  PROVE  t \in Seq(Nat) /\ \A i \in DOMAIN t : t[i] \in A
<1>1. Cardinality(A) \in Nat
  BY FS_CardinalityType
<1>2. t \in [1..Cardinality(A) -> A]
  BY DEF SetToSeqs
<1>3. t \in [1..Cardinality(A) -> Nat]
  BY <1>2
<1>4. t \in Seq(Nat)
  BY <1>1, <1>3
<1>5. QED
  BY <1>2, <1>4

\* An edit of a manifest that can be read has the types of an edit.
LEMMA LastEdit ==
  ASSUME NEW S, ManifestOK(S), NEW n \in DOMAIN manifest, Edits(n) # <<>>
  PROVE  /\ Len(Edits(n)) \in DOMAIN Edits(n) /\ Len(Edits(n)) > 0
         /\ Last(Edits(n)) = Edits(n)[Len(Edits(n))]
         /\ Last(Edits(n)) \in Edit(S) /\ Given(Last(Edits(n)))
         /\ Len(Edits(n)) \in LeftOf(manifest[n], Machine)
<1>1. Edits(n) \in Seq(Edit(S)) /\ manifest[n].synced \in Nat /\ manifest[n].synced <= Len(Edits(n))
  BY DEF ManifestOK, Edits
<1>2. Len(Edits(n)) \in DOMAIN Edits(n) /\ Len(Edits(n)) > 0 /\ Len(Edits(n)) \in Nat
  BY <1>1, EmptySeq
<1>3. Edits(n)[Len(Edits(n))] \in Edit(S) /\ Given(Edits(n)[Len(Edits(n))])
  BY <1>1, <1>2 DEF ManifestOK
<1>4. Len(Edits(n)) \in LeftOf(manifest[n], Machine)
  BY <1>1, <1>2 DEF LeftOf, Edits
<1>5. QED
  BY <1>2, <1>3, <1>4 DEF Last

LEMMA ReadManifestKept ==
  ASSUME NEW S, Before(S), ReadManifest
  PROVE  Kept(S)
<1>1. /\ DirsOK(dirs) /\ Contents /\ ManifestOK(S) /\ MemoryOK(S) /\ Sane(Dir)
      /\ Len(dirs) \in DOMAIN dirs /\ Dir = dirs[Len(dirs)] /\ UNCHANGED scenario
  BY DirFacts DEF Before, Typed
<1>2. /\ at \in {"down", "read"} /\ UNCHANGED <<dirs, manifest, created, logNumber, bgError, job>>
      /\ created # "repair" /\ Dir.current # None
  BY DEF ReadManifest, Opening, ghosts, disk
<1>3. Reopens /\ logNumber' = 0 /\ ~bgError' /\ created' # "repair"
  BY <1>1, <1>2 DEF Before, RecoveryInv, Unused
<1>4. /\ DirsOK(dirs') /\ ManifestOK(S)' /\ Contents' /\ Dir' = Dir
  BY <1>1, <1>2, SameManifests DEF Contents, Dir
<1> DEFINE n == Dir.current
           s == Last(manifest[n].edits)
<1>5. ASSUME Opened
      PROVE  /\ n \in DOMAIN manifest /\ n \in Dir.manifests /\ n \in Nat
             /\ Edits(n) # <<>> /\ s = Last(Edits(n)) /\ Readable(n)
             /\ s.tables \subseteq Dir.tables /\ n < s.next
  <2>1. Opens(Dir)
    BY <1>3, <1>5 DEF Reopens
  <2>2. n \in Dir.manifests /\ n \in DOMAIN manifest /\ n \in Nat
    BY <1>1, <2>1 DEF Opens, OpensWith, Contents, Sane, Directory
  <2>3. Edits(n) # <<>>
    <3>1. SUFFICES ASSUME Edits(n) = <<>> PROVE FALSE
      OBVIOUS
    <3>2. Len(manifest[n].edits) = 0 /\ manifest[n].synced \in Nat /\ manifest[n].synced <= 0
      BY <1>1, <2>2, <3>1 DEF ManifestOK, Edits
    <3>3. 0 \in LeftOf(manifest[n], Machine)
      BY <3>2 DEF LeftOf
    <3>4. QED
      BY <2>1, <3>3 DEF Opens, OpensWith
  <2>4. /\ Len(Edits(n)) \in LeftOf(manifest[n], Machine)
        /\ Last(Edits(n)) = Edits(n)[Len(Edits(n))]
    BY <1>1, <2>2, <2>3, LastEdit
  <2>5. Last(Edits(n)).tables \subseteq Dir.tables /\ n < Last(Edits(n)).next
    BY <2>1, <2>4 DEF Opens, OpensWith, Edits
  <2>6. QED
    BY <2>2, <2>3, <2>5 DEF Edits, Readable
<1>6. Opened' <=> Opened
  BY <1>1, <1>2, <1>4 DEF Opened
<1>7. CanReopen' => Reopens'
  <2>1. \A i \in DOMAIN dirs : created = "synced" /\ Machine => OpensWith(dirs[i], manifest', Machine)
    BY <1>2, <1>3 DEF Reopens, Opens
  <2>2. Opened' => OpensWith(Dir, manifest', Machine)
    BY <1>2, <1>3, <1>6 DEF Reopens, Opens
  <2>3. DirStep(Dir)
    BY <1>2 DEF DirStep
  <2>4. created = "synced" /\ Machine => Dir.current <= Dir.current
    BY <1>1, <1>3 DEF Reopens
  <2>5. QED
    BY <1>1, <1>2, <1>3, <2>1, <2>2, <2>3, <2>4, ReopensKept
<1>8. CASE at' = "corrupt"
  <2>1. ~Readable(n) \/ ~(s.tables \subseteq Dir.tables)
    BY <1>8 DEF ReadManifest
  <2>2. ~Opened
    BY <1>5, <2>1
  <2>3. Reopens'
    BY <1>2, <1>7, <2>2 DEF CanReopen, Opened
  <2>4. FirstManifest' /\ Loading' /\ Saving' /\ Ready' /\ Unused'
    BY <1>3, <1>8, NothingOpen
  <2>5. UNCHANGED <<vs, todo, fresh>>
    BY <1>8 DEF ReadManifest
  <2>6. MemoryOK(S)'
    BY <1>1, <1>2, <2>5 DEF MemoryOK
  <2>7. QED
    BY <1>4, <2>3, <2>4, <2>6 DEF Kept, RecoveryInv
<1>9. CASE at' # "corrupt"
  <2>1. Readable(n) /\ s.tables \subseteq Dir.tables /\ at' = "replay"
    BY <1>9 DEF ReadManifest
  <2>2. PICK reused \in (IF scenario.reuse THEN BOOLEAN ELSE {FALSE}) :
          /\ vs' = [tables |-> s.tables, log |-> s.log, seq |-> s.seq,
                    next |-> FirstFree(s.next), logged |-> reused,
                    number |-> IF reused THEN Dir.current ELSE s.next]
          /\ fresh' = ~reused
    BY <1>9 DEF ReadManifest
  <2>3. reused \in BOOLEAN /\ (reused => scenario.reuse)
    <3>1. scenario.reuse \in BOOLEAN
      BY ScenariosAssumption DEF Before, Typed, ProcessOK
    <3>2. QED
      BY <2>2, <3>1
  <2>4. n \in DOMAIN manifest /\ Edits(n) # <<>> /\ n \in Nat
    BY <1>1, <2>1 DEF Readable, Contents, Edits, Sane, Directory
  <2>5. s \in Edit(S) /\ Given(s)
    <3>1. Last(Edits(n)) \in Edit(S) /\ Given(Last(Edits(n)))
      BY <1>1, <2>4, LastEdit
    <3>2. QED
      BY <3>1 DEF Edits
  <2> HIDE DEF s
  <2>6. Opened => n < s.next
    BY <1>5 DEF s
  <2>7. reused => Opened /\ n < s.next
    BY <1>2, <2>3, <2>6 DEF Opened
  <2>8. todo' \in Ascending({k \in Dir.logs : k >= s.log})
    BY <1>9 DEF ReadManifest, s
  <2>9. todo' \in Seq(Nat) /\ \A i \in DOMAIN todo' : todo'[i] \in Dir.logs /\ s.log <= todo'[i]
    <3> DEFINE A == {k \in Dir.logs : k >= s.log}
    <3>1. A \in SUBSET Nat /\ IsFiniteSet(A)
      BY <1>1, FS_Subset DEF Sane, Directory
    <3>2. todo' \in SetToSeqs(A)
      BY <2>8 DEF Ascending
    <3>3. todo' \in Seq(Nat) /\ \A i \in DOMAIN todo' : todo'[i] \in A
      <4> HIDE DEF A
      <4> QED
        BY <3>1, <3>2, Sorted
    <3>4. \A k \in A : k \in Dir.logs /\ s.log <= k
      BY <1>1, <2>5 DEF Edit, Sane, Directory
    <3>5. QED
      BY <3>3, <3>4
  <2>10. /\ vs'.tables = s.tables /\ vs'.log = s.log /\ vs'.seq = s.seq /\ vs'.next = s.next + 1
         /\ vs'.logged = reused /\ vs'.number = IF reused THEN n ELSE s.next
    BY <2>2 DEF FirstFree
  <2>11. vs' \in VersionSet(S) /\ Given(vs')
    <3>1. vs'.number \in Nat
      BY <2>4, <2>5, <2>10 DEF Edit
    <3>2. vs' = [tables |-> vs'.tables, log |-> vs'.log, seq |-> vs'.seq, next |-> vs'.next,
                 logged |-> vs'.logged, number |-> vs'.number]
      BY <2>2
    <3>3. vs' \in VersionSet(S)
      BY <2>3, <2>5, <2>10, <3>1, <3>2 DEF VersionSet, Edit
    <3>4. Given(vs')
      BY <2>5, <2>10 DEF Given, Edit
    <3>5. QED
      BY <3>3, <3>4
  <2>12. MemoryOK(S)'
    <3>1. fresh' \in BOOLEAN
      BY <2>2, <2>3
    <3>2. QED
      BY <1>1, <1>2, <2>9, <2>11, <3>1 DEF MemoryOK
  <2>13. Loading'
    <3>1. vs'.tables \subseteq Dir.tables
      BY <2>1, <2>10 DEF s
    <3>2. vs'.number < vs'.next
      BY <2>4, <2>5, <2>7, <2>10 DEF Edit
    <3>3. CASE reused
      <4>1. Last(manifest'[n].edits).tables = vs'.tables
        BY <1>2, <2>10 DEF s
      <4>2. vs'.logged /\ vs'.number = n /\ scenario'.reuse
        BY <1>1, <2>3, <2>10, <3>3
      <4>3. Last(Edits(vs.number)').tables = vs'.tables
        BY <4>1, <4>2 DEF Edits
      <4>4. QED
        BY <1>3, <1>4, <2>1, <2>9, <2>10, <3>1, <3>2, <4>2, <4>3 DEF Loading, Edits
    <3>4. CASE ~reused
      <4>1. ~vs'.logged /\ fresh' /\ vs'.number = s.next
        BY <2>2, <2>3, <2>10, <3>4
      <4>2. NewNumber'
        BY <1>4, <1>6, <2>6, <4>1 DEF NewNumber
      <4>3. QED
        BY <1>3, <1>4, <2>1, <2>9, <2>10, <3>1, <3>2, <4>1, <4>2 DEF Loading
    <3>5. QED
      BY <3>3, <3>4
  <2>14. FirstManifest' /\ Saving' /\ Ready' /\ Unused'
    BY <1>3, <2>1 DEF FirstManifest, Saving, Ready, Unused
  <2>15. Reopens'
    BY <1>7, <2>1 DEF CanReopen
  <2>16. QED
    BY <1>4, <2>12, <2>13, <2>14, <2>15 DEF Kept, RecoveryInv
<1>10. QED
  BY <1>8, <1>9

\* The numbers of the tables that a log becomes.
LEMMA NewNumbers ==
  ASSUME NEW a \in Nat, NEW first \in {{}, {a}}, NEW second \in {{}, {a + Cardinality(first)}}
  PROVE  /\ IsFiniteSet(first \cup second) /\ first \cup second \in SUBSET Nat
         /\ Cardinality(first \cup second) \in Nat
         /\ \A k \in first \cup second : a <= k /\ k < a + Cardinality(first \cup second)
<1>1. Cardinality({}) = 0 /\ IsFiniteSet({})
  BY FS_EmptySet
<1>2. \A k \in Nat : IsFiniteSet({k}) /\ Cardinality({k}) = 1
  BY FS_Singleton
<1>3. CASE second = {}
  <2>1. first \cup second = first
    BY <1>3
  <2>2. QED
    BY <1>1, <1>2, <2>1
<1>4. CASE first = {} /\ second # {}
  <2>1. first \cup second = {a}
    BY <1>1, <1>4
  <2>2. QED
    BY <1>2, <2>1
<1>5. CASE first = {a} /\ second # {}
  <2>1. Cardinality(first) = 1 /\ second = {a + 1}
    BY <1>2, <1>5
  <2>2. first \cup second = {a} \cup {a + 1}
    BY <1>5, <2>1
  <2>3. IsFiniteSet({a} \cup {a + 1}) /\ Cardinality({a} \cup {a + 1}) = 2
    <3>1. a + 1 \notin {a}
      OBVIOUS
    <3>2. /\ IsFiniteSet({a} \cup {a + 1})
          /\ Cardinality({a} \cup {a + 1}) = IF a + 1 \in {a} THEN Cardinality({a}) ELSE Cardinality({a}) + 1
      <4>1. IsFiniteSet({a})
        BY <1>2
      <4>2. QED
        BY <4>1, FS_AddElement
    <3>3. QED
      BY <1>2, <3>1, <3>2
  <2>4. \A k \in {a} \cup {a + 1} : k \in Nat /\ a <= k /\ k < a + 2
    OBVIOUS
  <2>5. IsFiniteSet(first \cup second) /\ Cardinality(first \cup second) = 2
    BY <2>2, <2>3
  <2>6. \A k \in first \cup second : k \in Nat /\ a <= k /\ k < a + 2
    BY <2>2, <2>4
  <2>7. QED
    BY <2>5, <2>6
<1>6. QED
  BY <1>3, <1>4, <1>5

LEMMA ReplayLogKept ==
  ASSUME NEW S, Before(S), ReplayLog, vs'.seq \in S
  PROVE  Kept(S)
<1>1. /\ DirsOK(dirs) /\ Contents /\ ManifestOK(S) /\ MemoryOK(S) /\ Sane(Dir)
      /\ Len(dirs) \in DOMAIN dirs /\ Dir = dirs[Len(dirs)] /\ UNCHANGED scenario
  BY DirFacts DEF Before, Typed
<1>2. /\ at = "replay" /\ at' = "replay" /\ todo # <<>>
      /\ UNCHANGED <<manifest, created, bgError, job>> /\ created # "repair"
  BY DEF ReplayLog, Opening, ghosts
<1>3. Reopens /\ Loading /\ ~bgError /\ vs \in VersionSet(S) /\ Given(vs)
  BY <1>1, <1>2 DEF Before, RecoveryInv, Unused, MemoryOK
<1> DEFINE n == Head(todo)
<1>4. /\ n \in Nat /\ n \in Dir.logs /\ vs.log <= n
      /\ Tail(todo) \in Seq(Nat) /\ \A i \in DOMAIN Tail(todo) : Tail(todo)[i] \in Dir.logs /\ vs.log <= Tail(todo)[i]
  <2>1. todo \in Seq(Nat) /\ \A i \in DOMAIN todo : todo[i] \in Dir.logs /\ vs.log <= todo[i]
    BY <1>1, <1>2, <1>3 DEF MemoryOK, Loading
  <2>2. PICK c \in Nat : c = Len(todo) /\ c >= 1 /\ DOMAIN todo = 1..c
    BY <1>2, <2>1, EmptySeq
  <2>3. n = todo[1] /\ 1 \in 1..c
    BY <1>2, <2>1, <2>2
  <2>4. n \in Nat /\ n \in Dir.logs /\ vs.log <= n
    BY <2>1, <2>2, <2>3
  <2>5. Tail(todo) \in Seq(Nat) /\ Len(Tail(todo)) = c - 1 /\ \A i \in 1..c - 1 : Tail(todo)[i] = todo[i + 1]
    BY <1>2, <2>1, <2>2, HeadTailProperties
  <2>6. \A i \in 1..c - 1 : i + 1 \in 1..c
    BY <2>2
  <2>7. DOMAIN Tail(todo) = 1..c - 1
    BY <2>2, <2>5
  <2>8. QED
    BY <2>1, <2>2, <2>4, <2>5, <2>6, <2>7
<1>5. PICK first, second, rest, seq, keep :
        LET new == first \cup second IN
        /\ first \in {{}, {vs.next}} /\ second \in {{}, {vs.next + Cardinality(first)}}
        /\ dirs' = IF new = {} THEN dirs ELSE <<[Dir EXCEPT !.tables = @ \cup new]>>
        /\ vs' = [vs EXCEPT !.tables = @ \cup new, !.seq = seq,
                            !.next = Max({vs.next + Cardinality(new), n + 1})]
        /\ fresh' = (fresh \/ new # {})
        /\ IF keep THEN mem' = rest /\ logNumber' = n ELSE UNCHANGED <<mem, logNumber>>
  <2>1. PICK records, full : ReplayRecords(n, records, full)
    BY DEF ReplayLog
  <2> DEFINE rest == Range(SubSeq(records, full + 1, Len(records)))
             keep == scenario.reuse /\ Len(todo) = 1 /\ full = 0
             first == IF full > 0 THEN {vs.next} ELSE {}
             second == IF keep \/ rest = {} THEN {} ELSE {vs.next + Cardinality(first)}
  <2>2. first \in {{}, {vs.next}} /\ second \in {{}, {vs.next + Cardinality(first)}}
    OBVIOUS
  <2>3. LET new == first \cup second IN
        /\ dirs' = IF new = {} THEN dirs ELSE <<[Dir EXCEPT !.tables = @ \cup new]>>
        /\ vs' = [vs EXCEPT !.tables = @ \cup new, !.seq = SeqAfter(Range(records), vs.seq),
                            !.next = Max({vs.next + Cardinality(new), n + 1})]
        /\ fresh' = (fresh \/ new # {})
        /\ IF keep THEN mem' = rest /\ logNumber' = n ELSE UNCHANGED <<mem, logNumber>>
    BY <2>1 DEF ReplayRecords
  <2> HIDE DEF first, second, rest, keep
  <2>4. QED
    BY <2>2, <2>3
<1> DEFINE new == first \cup second
           d == [Dir EXCEPT !.tables = @ \cup new]
<1>6. /\ IsFiniteSet(new) /\ new \in SUBSET Nat /\ Cardinality(new) \in Nat
      /\ \A k \in new : vs.next <= k /\ k < vs.next + Cardinality(new)
  <2>1. vs.next \in Nat
    BY <1>3 DEF VersionSet
  <2>2. QED
    BY <1>5, <2>1, NewNumbers
<1> DEFINE high == Max({vs.next + Cardinality(new), n + 1})
<1>7. high \in Nat /\ vs.next + Cardinality(new) <= high /\ n < high /\ vs.next <= high
  <2>1. vs.next + Cardinality(new) \in Nat /\ n + 1 \in Nat /\ vs.next \in Nat
    BY SMTT(60), <1>3, <1>4, <1>6 DEF VersionSet
  <2> DEFINE A == {vs.next + Cardinality(new), n + 1}
  <2>2. A \in SUBSET Nat /\ A # {} /\ IsFiniteSet(A)
    <3>1. A = {vs.next + Cardinality(new)} \cup {n + 1}
      OBVIOUS
    <3>2. IsFiniteSet({vs.next + Cardinality(new)})
      BY FS_Singleton
    <3>3. IsFiniteSet({vs.next + Cardinality(new)} \cup {n + 1})
      BY <3>2, FS_AddElement
    <3>4. QED
      BY <2>1, <3>1, <3>3
  <2>3. Max(A) \in A /\ \A x \in A : x <= Max(A)
    BY <2>2, FiniteMax
  <2>4. high \in Nat /\ vs.next + Cardinality(new) <= high /\ n + 1 <= high
    BY <2>1, <2>3
  <2> HIDE DEF high
  <2>5. QED
    BY SMTT(60), <1>4, <1>6, <2>1, <2>4
<1>8. /\ vs'.tables = vs.tables \cup new /\ vs'.next = high /\ vs'.log = vs.log
      /\ vs'.number = vs.number /\ vs'.logged = vs.logged
      /\ vs' = [tables |-> vs'.tables, log |-> vs'.log, seq |-> vs'.seq, next |-> vs'.next,
                number |-> vs'.number, logged |-> vs'.logged]
  BY <1>3, <1>5 DEF VersionSet
<1>9. /\ dirs' = IF new = {} THEN dirs ELSE <<d>>
      /\ fresh' = (fresh \/ new # {})
      /\ todo' = Tail(todo)
      /\ logNumber' = n \/ logNumber' = logNumber
  BY <1>5 DEF ReplayLog
<1> HIDE DEF high, new
<1>10. /\ Sane(d) /\ DirStep(d) /\ d.logs = Dir.logs /\ d.tables = Dir.tables \cup new
       /\ d.manifests = Dir.manifests /\ d.current = Dir.current
  <2>1. /\ d.logs = Dir.logs /\ d.tables = Dir.tables \cup new
        /\ d.manifests = Dir.manifests /\ d.current = Dir.current
    BY <1>1 DEF Sane, Directory
  <2>2. Sane(d)
    BY <1>1, <1>6, SaneChanges
  <2>3. CASE new = {}
    <3>1. d = Dir
      BY <1>1, <2>3 DEF Sane, Directory
    <3>2. QED
      BY <1>9, <2>1, <2>2, <2>3, <3>1 DEF DirStep
  <2>4. CASE new # {}
    BY <1>9, <2>1, <2>2, <2>4 DEF DirStep
  <2>5. QED
    BY <2>3, <2>4
<1> HIDE DEF d
<1>11. DirsOK(dirs') /\ Dir' = d /\ Contents' /\ ManifestOK(S)'
  <2>1. d.manifests \subseteq DOMAIN manifest'
    BY <1>1, <1>2, <1>10 DEF Contents
  <2>2. QED
    BY <1>1, <1>2, <1>10, <2>1, DiskKept, SameManifests
<1>12. MemoryOK(S)'
  <2>1. vs' \in VersionSet(S)
    BY <1>3, <1>6, <1>7, <1>8 DEF VersionSet
  <2>2. Given(vs')
    <3>1. \A k \in vs.tables : k \in Nat /\ k < high
      BY <1>3, <1>7 DEF Given, VersionSet
    <3>2. \A k \in new : k < high
      BY <1>3, <1>6, <1>7 DEF VersionSet
    <3>3. vs.log < high
      BY <1>3, <1>7 DEF Given, VersionSet
    <3>4. QED
      BY <1>8, <3>1, <3>2, <3>3 DEF Given
  <2>3. logNumber' \in Nat /\ fresh' \in BOOLEAN /\ todo' \in Seq(Nat)
    BY <1>1, <1>4, <1>9 DEF MemoryOK
  <2>4. QED
    BY <1>1, <1>2, <2>1, <2>2, <2>3 DEF MemoryOK
<1>13. Opened' <=> Opened
  BY <1>1, <1>2, <1>10, <1>11 DEF Opened
<1>14. Reopens'
  <2>1. Opened => OpensWith(d, manifest', Machine)
    <3>1. SUFFICES ASSUME Opened PROVE OpensWith(d, manifest', Machine)
      OBVIOUS
    <3>2. OpensWith(Dir, manifest, Machine)
      BY <1>3, <3>1 DEF Reopens, Opens
    <3>3. d.current \in d.manifests /\ Dir.tables \subseteq d.tables
      BY <1>10, <3>2 DEF OpensWith
    <3>4. QED
      BY <1>2, <1>10, <3>2, <3>3, OpensMore
  <2>2. created = "synced" /\ Machine =>
          Dir.current <= d.current /\ \A i \in DOMAIN dirs : OpensWith(dirs[i], manifest', Machine)
    BY <1>1, <1>2, <1>3, <1>10 DEF Reopens, Opens
  <2>3. CanReopen'
    BY <1>2 DEF CanReopen
  <2>4. QED
    BY <1>1, <1>2, <1>3, <1>10, <1>13, <2>1, <2>2, <2>3, ReopensKept
<1>15. Loading'
  <2>1. vs'.tables \subseteq Dir'.tables /\ vs'.number < vs'.next
    BY <1>2, <1>3, <1>7, <1>8, <1>10, <1>11 DEF Loading, VersionSet
  <2>2. IF vs'.logged
        THEN /\ scenario'.reuse /\ vs'.number = Dir'.current
             /\ Last(Edits(vs.number)').tables \subseteq vs'.tables
             /\ ~fresh' => vs'.tables = Last(Edits(vs.number)').tables
        ELSE fresh' /\ NewNumber'
    <3>1. CASE vs.logged
      <4>1. /\ scenario.reuse /\ vs.number = Dir.current
            /\ Last(Edits(vs.number)).tables \subseteq vs.tables
            /\ ~fresh => vs.tables = Last(Edits(vs.number)).tables
        BY <1>2, <1>3, <3>1 DEF Loading
      <4>2. Edits(vs.number)' = Edits(vs.number)
        BY <1>2, <1>8 DEF Edits
      <4>3. ~fresh' => ~fresh /\ vs'.tables = vs.tables
        BY <1>8, <1>9
      <4>4. /\ Last(Edits(vs.number)').tables \subseteq vs'.tables
            /\ ~fresh' => vs'.tables = Last(Edits(vs.number)').tables
        BY <1>8, <4>1, <4>2, <4>3
      <4>5. QED
        BY <1>1, <1>8, <1>10, <1>11, <3>1, <4>1, <4>4
    <3>2. CASE ~vs.logged
      <4>1. fresh /\ NewNumber
        BY <1>2, <1>3, <3>2 DEF Loading
      <4>2. fresh' /\ NewNumber'
        BY <1>8, <1>9, <1>10, <1>11, <1>13, <4>1 DEF NewNumber
      <4>3. QED
        BY <1>8, <3>2, <4>2
    <3>3. QED
      BY <3>1, <3>2
  <2>3. \A i \in DOMAIN todo' : todo'[i] \in Dir'.logs /\ vs'.log <= todo'[i]
    BY <1>4, <1>8, <1>9, <1>10, <1>11
  <2>4. logNumber' # 0 => LogInUse'
    <3>1. CASE logNumber' = n
      BY <1>4, <1>7, <1>8, <1>10, <1>11, <3>1 DEF LogInUse
    <3>2. CASE logNumber' = logNumber /\ logNumber # 0
      <4>1. LogInUse
        BY <1>2, <1>3, <3>2 DEF Loading
      <4>2. logNumber < high
        BY <1>1, <1>3, <1>7, <4>1 DEF LogInUse, MemoryOK, VersionSet
      <4>3. QED
        BY <1>8, <1>10, <1>11, <3>2, <4>1, <4>2 DEF LogInUse
    <3>3. QED
      BY <1>9, <3>1, <3>2
  <2>5. QED
    BY <1>2, <2>1, <2>2, <2>3, <2>4 DEF Loading
<1>16. FirstManifest' /\ Saving' /\ Ready' /\ Unused'
  <2>1. Unused'
    BY <1>2, <1>3 DEF Unused
  <2>2. QED
    BY <1>2, <2>1 DEF FirstManifest, Saving, Ready
<1>17. QED
  BY <1>11, <1>12, <1>14, <1>15, <1>16 DEF Kept, RecoveryInv

\* Manifests are not reused where machines crash, nor repaired where they are reused.
LEMMA Reuse ==
  ASSUME ProcessOK
  PROVE  /\ scenario.reuse \in BOOLEAN /\ scenario.repairs \in Nat
         /\ scenario.reuse => ~Machine /\ scenario.repairs = 0
BY ScenariosAssumption DEF ProcessOK, Machine

LEMMA CreateLogKept ==
  ASSUME NEW S, Before(S), CreateLog
  PROVE  Kept(S)
<1>1. /\ DirsOK(dirs) /\ Contents /\ ManifestOK(S) /\ MemoryOK(S) /\ ProcessOK /\ Sane(Dir)
      /\ Len(dirs) \in DOMAIN dirs /\ Dir = dirs[Len(dirs)] /\ UNCHANGED scenario
  BY DirFacts DEF Before, Typed
<1>2. /\ at = "replay" /\ at' = IF fresh THEN "save" ELSE "delete"
      /\ UNCHANGED <<manifest, created, bgError, job, fresh, todo>> /\ created # "repair"
      /\ todo = <<>> /\ job = None
  BY <1>1 DEF CreateLog, Opening, ghosts, ProcessOK
<1>3. Reopens /\ Loading /\ ~bgError /\ vs \in VersionSet(S) /\ Given(vs) /\ logNumber \in Nat
  BY <1>1, <1>2 DEF Before, RecoveryInv, Unused, MemoryOK
<1> DEFINE d == IF logNumber # 0 THEN Dir ELSE [Dir EXCEPT !.logs = @ \cup {vs.next}]
<1>4. /\ Sane(d) /\ DirStep(d) /\ d.tables = Dir.tables /\ d.manifests = Dir.manifests
      /\ d.current = Dir.current /\ Dir.logs \subseteq d.logs /\ (logNumber = 0 => vs.next \in d.logs)
  <2>1. CASE logNumber # 0
    BY <1>1, <2>1 DEF CreateLog, DirStep
  <2>2. CASE logNumber = 0
    <3>1. vs.next \in Nat
      BY <1>3 DEF VersionSet
    <3>2. Sane(d)
      BY <1>1, <2>2, <3>1, SaneChanges
    <3>3. DirStep(d)
      BY <2>2 DEF CreateLog, Changed, DirStep
    <3>4. QED
      BY <1>1, <2>2, <3>2, <3>3 DEF Sane, Directory
  <2>3. QED
    BY <2>1, <2>2
<1>5. /\ vs'.tables = vs.tables /\ vs'.log = vs.log /\ vs'.seq = vs.seq /\ vs'.number = vs.number
      /\ vs'.logged = vs.logged /\ vs'.next \in Nat /\ vs.next <= vs'.next
      /\ vs' \in VersionSet(S) /\ logNumber' \in Nat /\ logNumber' < vs'.next
      /\ logNumber' \in d.logs /\ vs'.log <= logNumber'
  <2>1. CASE logNumber # 0
    <3>1. vs' = vs /\ logNumber' = logNumber /\ LogInUse
      BY <1>2, <1>3, <2>1 DEF CreateLog, Loading
    <3>2. QED
      BY <1>3, <1>4, <3>1 DEF LogInUse, VersionSet
  <2>2. CASE logNumber = 0
    <3>1. vs' = [vs EXCEPT !.next = @ + 1] /\ logNumber' = vs.next
      BY <2>2 DEF CreateLog
    <3>2. QED
      BY <1>3, <1>4, <2>2, <3>1 DEF VersionSet, Given
  <2>3. QED
    BY <2>1, <2>2
<1> HIDE DEF d
<1>6. DirsOK(dirs') /\ Dir' = d /\ Contents' /\ ManifestOK(S)'
  <2>1. d.manifests \subseteq DOMAIN manifest'
    BY <1>1, <1>2, <1>4 DEF Contents
  <2>2. QED
    BY <1>1, <1>2, <1>4, <2>1, DiskKept, SameManifests
<1>7. MemoryOK(S)'
  <2>1. Given(vs')
    BY <1>3, <1>5 DEF Given, VersionSet
  <2>2. QED
    BY <1>1, <1>2, <1>5, <2>1 DEF MemoryOK
<1>8. Opened' <=> Opened
  BY <1>1, <1>2, <1>4, <1>6 DEF Opened
<1>9. Opened => OpensWith(d, manifest', Machine)
  <2>1. SUFFICES ASSUME Opened PROVE OpensWith(d, manifest', Machine)
    OBVIOUS
  <2>2. OpensWith(Dir, manifest, Machine)
    BY <1>3, <2>1 DEF Reopens, Opens
  <2>3. d.current \in d.manifests
    BY <1>4, <2>2 DEF OpensWith
  <2>4. QED
    BY <1>2, <1>4, <2>2, <2>3, OpensMore
<1>10. Reopens'
  <2>1. created = "synced" /\ Machine =>
          Dir.current <= d.current /\ \A i \in DOMAIN dirs : OpensWith(dirs[i], manifest', Machine)
    BY <1>1, <1>2, <1>3, <1>4 DEF Reopens, Opens
  <2>2. CanReopen'
    BY <1>2 DEF CanReopen
  <2>3. QED
    BY <1>1, <1>2, <1>3, <1>4, <1>8, <1>9, <2>1, <2>2, ReopensKept
<1>11. LogInUse'
  BY <1>5, <1>6 DEF LogInUse
<1>12. vs.tables \subseteq Dir.tables /\ vs.number < vs'.next
  BY <1>2, <1>3, <1>5 DEF Loading, VersionSet
<1>13. CASE fresh
  <2>1. at' = "save"
    BY <1>2, <1>13
  <2>2. ASSUME vs.logged PROVE Loading'
    <3>1. /\ scenario.reuse /\ vs.number = Dir.current
          /\ Last(Edits(vs.number)).tables \subseteq vs.tables
      BY <1>2, <1>3, <2>2 DEF Loading
    <3>2. Edits(vs.number)' = Edits(vs.number)
      BY <1>2, <1>5 DEF Edits
    <3>3. Loading'
      BY <1>1, <1>2, <1>4, <1>5, <1>6, <1>11, <1>12, <1>13, <2>1, <2>2, <3>1, <3>2 DEF Loading
    <3>4. QED
      BY <3>3
  <2>3. ASSUME ~vs.logged PROVE Loading'
    <3>1. NewNumber'
      BY <1>2, <1>3, <1>4, <1>5, <1>6, <1>8, <2>3 DEF Loading, NewNumber
    <3>2. Loading'
      BY <1>2, <1>4, <1>5, <1>6, <1>11, <1>12, <1>13, <2>1, <2>3, <3>1 DEF Loading
    <3>3. QED
      BY <3>2
  <2>4. Loading'
    BY <2>2, <2>3
  <2>5. FirstManifest' /\ Saving' /\ Ready' /\ Unused'
    BY <1>2, <1>3, <2>1 DEF FirstManifest, Saving, Ready, Unused
  <2>6. QED
    BY <1>6, <1>7, <1>10, <2>4, <2>5 DEF Kept, RecoveryInv
<1>14. CASE ~fresh
  <2>1. at' = "delete"
    BY <1>2, <1>14
  <2>2. /\ vs.logged /\ scenario.reuse /\ vs.number = Dir.current
        /\ vs.tables = Last(Edits(vs.number)).tables
    BY <1>2, <1>3, <1>14 DEF Loading
  <2>3. ~Machine /\ Opened
    <3>1. Dir.current # None
      BY <1>3, <2>2, NoneAssumption DEF VersionSet
    <3>2. QED
      BY <1>1, <2>2, <3>1, Reuse DEF Opened
  <2>4. Machine' = Machine /\ ~Machine'
    BY <1>1, <2>3 DEF Machine
  <2>5. Opens(Dir)'
    BY <1>6, <1>9, <2>3, <2>4 DEF Opens
  <2>6. TablesDurable'
    <3>1. /\ Len(dirs') \in DOMAIN dirs' /\ Dir' = dirs'[Len(dirs')]
      BY <1>6, EmptySeq DEF DirsOK, Dir, Last
    <3>2. \A i \in DOMAIN dirs' : i = Len(dirs') => vs'.tables \subseteq dirs'[i].tables
      BY <1>4, <1>5, <1>6, <1>12, <3>1
    <3>3. QED
      BY <1>2, <2>4, <3>2 DEF TablesDurable
  <2>7. LeftNeeds'
    <3>1. LeftOf(manifest[vs.number], Machine)' = {Len(Edits(vs.number))}
      BY <1>2, <1>5, <2>4 DEF LeftOf, Edits
    <3>2. Edits(vs.number)'[Len(Edits(vs.number))].tables \subseteq vs'.tables
      BY <1>2, <1>5, <2>2 DEF Last, Edits
    <3>3. \A k \in Left(vs.number)' : Edits(vs.number)'[k].tables \subseteq vs'.tables
      BY <3>1, <3>2 DEF Left
    <3>4. QED
      BY <1>2, <3>3 DEF LeftNeeds
  <2>8. JobTable'
    BY <1>2 DEF JobTable
  <2>9. Ready'
    BY <1>4, <1>5, <1>6, <1>11, <1>12, <2>2, <2>5, <2>6, <2>7, <2>8 DEF Ready
  <2>10. FirstManifest' /\ Loading' /\ Saving' /\ Unused'
    BY <1>2, <1>3, <2>1 DEF FirstManifest, Loading, Saving, Unused
  <2>11. QED
    BY <1>6, <1>7, <1>10, <2>9, <2>10 DEF Kept, RecoveryInv
<1>15. QED
  BY <1>13, <1>14

LEMMA SaveManifestKept ==
  ASSUME NEW S, Before(S), SaveManifest
  PROVE  Kept(S)
<1>1. /\ DirsOK(dirs) /\ Contents /\ ManifestOK(S) /\ MemoryOK(S) /\ ProcessOK /\ Sane(Dir)
      /\ Len(dirs) \in DOMAIN dirs /\ Dir = dirs[Len(dirs)] /\ UNCHANGED scenario
      /\ Machine' = Machine
  BY DirFacts DEF Before, Typed, Machine
<1>2. /\ at = "save" /\ at' = "sync"
      /\ UNCHANGED <<created, bgError, job, fresh, todo, logNumber>> /\ created # "repair"
  BY DEF SaveManifest, Opening, ghosts
<1>3. /\ Reopens /\ Loading /\ LogInUse /\ ~bgError /\ vs \in VersionSet(S) /\ Given(vs)
      /\ logNumber \in Nat
  BY <1>1, <1>2 DEF Before, RecoveryInv, Unused, MemoryOK, Loading
<1> DEFINE n == vs.number
           v == [vs EXCEPT !.log = logNumber]
           d == IF vs.logged THEN Dir ELSE [Dir EXCEPT !.manifests = @ \cup {n}]
<1>4. /\ vs' = v /\ v \in VersionSet(S) /\ Given(v) /\ n \in Nat /\ State(v) \in Edit(S) /\ Given(State(v))
      /\ v.tables = vs.tables /\ v.number = n /\ v.logged = vs.logged /\ v.next = vs.next /\ v.log = logNumber
      /\ State(v).tables = vs.tables /\ State(v).next = vs.next
  <2>1. vs' = v
    BY DEF SaveManifest
  <2>2. QED
    BY <1>3, <2>1 DEF VersionSet, Given, State, Edit, LogInUse
<1>5. IF vs.logged
      THEN manifest' = [manifest EXCEPT ![n].edits = Append(@, State(v))] /\ UNCHANGED dirs
      ELSE /\ manifest' = With(manifest, n, [edits |-> <<State(v)>>, synced |-> 0])
           /\ dirs' = Append(dirs, d)
  BY <1>4 DEF SaveManifest, Changed
<1>6. /\ Sane(d) /\ DirStep(d) /\ d.tables = Dir.tables /\ Dir.manifests \subseteq d.manifests
      /\ d.logs = Dir.logs /\ d.current = Dir.current /\ d.manifests \subseteq Dir.manifests \cup {n}
      /\ (~vs.logged => n \in d.manifests)
  <2>1. CASE vs.logged
    BY <1>1, <1>5, <2>1 DEF DirStep
  <2>2. CASE ~vs.logged
    <3>1. Sane(d)
      BY <1>1, <1>4, <2>2, SaneChanges
    <3>2. DirStep(d)
      BY <1>5, <2>2 DEF DirStep
    <3>3. QED
      BY <1>1, <2>2, <3>1, <3>2 DEF Sane, Directory
  <2>3. QED
    BY <2>1, <2>2
<1> HIDE DEF d
<1>7. vs.tables \subseteq Dir.tables /\ vs.number < vs.next
  BY <1>2, <1>3 DEF Loading
<1>8. ASSUME vs.logged
      PROVE  /\ Opened /\ ~Machine /\ n = Dir.current /\ n \in Dir.manifests /\ n \in DOMAIN manifest
             /\ scenario.reuse
  <2>1. scenario.reuse /\ n = Dir.current
    BY <1>2, <1>3, <1>8 DEF Loading
  <2>2. Opened /\ ~Machine
    BY <1>1, <1>4, <2>1, NoneAssumption, Reuse DEF Opened
  <2>3. Dir.current \in Dir.manifests
    BY <1>3, <2>2 DEF Reopens, Opens, OpensWith
  <2>4. QED
    BY <1>1, <2>1, <2>2, <2>3 DEF Contents
<1>9. ASSUME ~vs.logged, Opened
      PROVE  Dir.current < n
  BY <1>2, <1>3, <1>9 DEF Loading, NewNumber
<1>10. /\ ManifestOK(S)' /\ DOMAIN manifest' = DOMAIN manifest \cup {n}
       /\ manifest'[n].edits # <<>> /\ Last(manifest'[n].edits) = State(v)
       /\ \A m \in DOMAIN manifest \ {n} : manifest'[m] = manifest[m]
  <2> HIDE DEF v
  <2>1. \/ manifest' = With(manifest, n, [edits |-> <<State(v)>>, synced |-> 0])
        \/ n \in DOMAIN manifest /\ manifest' = [manifest EXCEPT ![n].edits = Append(@, State(v))]
    BY <1>5, <1>8
  <2> HIDE DEF n
  <2>2. QED
    BY <1>1, <1>4, <2>1, ManifestChanges
<1>11. manifest'[n].edits # <<>> /\ Last(manifest'[n].edits) = State(v) /\ n \in DOMAIN manifest'
       /\ Edits(vs.number)' = manifest'[n].edits
  BY <1>4, <1>10 DEF Edits
<1>12. DirsOK(dirs') /\ Dir' = d /\ Contents'
  <2>1. d.manifests \subseteq DOMAIN manifest' /\ DOMAIN manifest \subseteq DOMAIN manifest'
    BY <1>1, <1>6, <1>10 DEF Contents
  <2>2. QED
    BY <1>1, <1>6, <2>1, DiskKept
<1>13. MemoryOK(S)'
  BY <1>1, <1>2, <1>4 DEF MemoryOK
<1>14. Opened' <=> Opened
  BY <1>1, <1>2, <1>6, <1>12 DEF Opened
<1>15. ASSUME NEW e, Sane(e), e.manifests \subseteq DOMAIN manifest, OpensWith(e, manifest, Machine), e.current < n
       PROVE  OpensWith(e, manifest', Machine)
  <2>1. e.current \in e.manifests /\ e.current \in Nat
    BY <1>15 DEF OpensWith, Sane, Directory
  <2>2. e.current \in DOMAIN manifest \ {n}
    BY <1>4, <1>15, <2>1
  <2>3. manifest'[e.current] = manifest[e.current]
    BY <1>10, <2>2
  <2>4. QED
    BY <1>15, <2>1, <2>3, OpensMore
<1>16. Opened => OpensWith(d, manifest', Machine)
  <2>1. SUFFICES ASSUME Opened PROVE OpensWith(d, manifest', Machine)
    OBVIOUS
  <2>2. OpensWith(Dir, manifest, Machine)
    BY <1>3, <2>1 DEF Reopens, Opens
  <2>3. CASE vs.logged
    <3>1. LeftOf(manifest'[n], Machine) = {Len(manifest'[n].edits)}
      BY <1>8, <2>3 DEF LeftOf
    <3>2. /\ Len(manifest'[n].edits) > 0
          /\ manifest'[n].edits[Len(manifest'[n].edits)] = State(v)
      <4>1. manifest'[n].edits \in Seq(Edit(S))
        BY <1>10, <1>11 DEF ManifestOK, Edits
      <4>2. QED
        BY <1>11, <4>1, EmptySeq DEF Last
    <3> HIDE DEF v
    <3>3. d.current = n /\ n \in d.manifests
      BY <1>6, <1>8, <2>3
    <3>4. QED
      BY <1>4, <1>6, <1>7, <3>1, <3>2, <3>3 DEF OpensWith
  <2>4. CASE ~vs.logged
    <3>1. OpensWith(Dir, manifest', Machine)
      BY <1>1, <1>9, <1>15, <2>1, <2>2, <2>4 DEF Contents
    <3>2. d.current \in d.manifests
      BY <1>6, <2>2 DEF OpensWith
    <3>3. QED
      BY <1>6, <3>1, <3>2, OpensMore
  <2>5. QED
    BY <2>3, <2>4
<1>17. Reopens'
  <2>1. ASSUME created = "synced", Machine
        PROVE  Dir.current <= d.current /\ \A i \in DOMAIN dirs : OpensWith(dirs[i], manifest', Machine)
    <3>1. ~vs.logged /\ Opened /\ Dir.current < n
      BY <1>8, <1>9, <2>1 DEF Opened
    <3>2. \A i \in DOMAIN dirs : Opens(dirs[i]) /\ dirs[i].current <= Dir.current
      BY <1>3, <2>1 DEF Reopens
    <3>3. \A i \in DOMAIN dirs : /\ Sane(dirs[i]) /\ dirs[i].manifests \subseteq DOMAIN manifest
                                 /\ dirs[i].current \in Nat
      BY <1>1, <3>2 DEF DirsOK, Contents, Opens, OpensWith, Sane, Directory
    <3>4. \A i \in DOMAIN dirs : dirs[i].current < n
      BY <1>1, <1>4, <3>1, <3>2, <3>3
    <3>5. QED
      BY <1>1, <1>6, <1>15, <3>2, <3>3, <3>4 DEF Opens
  <2>2. CanReopen'
    BY <1>2 DEF CanReopen
  <2>3. QED
    BY <1>1, <1>2, <1>3, <1>6, <1>14, <1>16, <2>1, <2>2, ReopensKept
<1>18. Saving'
  <2>1. /\ vs'.tables \subseteq Dir'.tables /\ vs'.number < vs'.next
    BY <1>4, <1>6, <1>7, <1>12
  <2>2. LogInUse'
    BY <1>2, <1>3, <1>4, <1>6, <1>12 DEF LogInUse
  <2>3. State(vs)' = State(v)
    BY <1>4 DEF State
  <2>4. Edits(vs.number)' # <<>> /\ Last(Edits(vs.number)') = State(vs)'
    BY <1>11, <2>3
  <2>5. CASE vs.logged
    <3>1. vs'.logged /\ scenario'.reuse /\ vs'.number = Dir'.current /\ vs'.number \in Dir'.manifests
      BY <1>1, <1>4, <1>6, <1>8, <1>12, <2>5
    <3>2. QED
      BY <1>2, <2>1, <2>2, <2>4, <3>1 DEF Saving
  <2>6. CASE ~vs.logged
    <3>1. ~vs'.logged /\ vs'.number \in Dir'.manifests
      BY <1>4, <1>6, <1>12, <2>6
    <3>2. NewNumber'
      BY <1>4, <1>6, <1>9, <1>12, <1>14, <2>6 DEF NewNumber
    <3>3. Len(Edits(vs.number)') = 1
      <4>1. manifest' = With(manifest, n, [edits |-> <<State(v)>>, synced |-> 0])
        BY <1>5, <2>6
      <4>2. manifest'[n].edits = <<State(v)>>
        BY <4>1 DEF With
      <4>3. QED
        BY <1>11, <4>2
    <3>4. QED
      BY <1>2, <2>1, <2>2, <2>4, <3>1, <3>2, <3>3 DEF Saving
  <2>7. QED
    BY <2>5, <2>6
<1>19. FirstManifest' /\ Loading' /\ Ready' /\ Unused'
  BY <1>2, <1>3 DEF FirstManifest, Loading, Ready, Unused
<1>20. QED
  BY <1>10, <1>12, <1>13, <1>17, <1>18, <1>19 DEF Kept, RecoveryInv

LEMMA ManifestSynced ==
  ASSUME NEW S, ManifestOK(S), NEW n \in DOMAIN manifest,
         manifest' = [manifest EXCEPT ![n].synced = Len(manifest[n].edits)]
  PROVE  /\ ManifestOK(S)'
         /\ DOMAIN manifest' = DOMAIN manifest
         /\ \A m \in DOMAIN manifest : manifest'[m].edits = manifest[m].edits
         /\ \A m \in DOMAIN manifest \ {n} : manifest'[m] = manifest[m]
         /\ manifest'[n].synced = Len(manifest[n].edits)
         /\ LeftOf(manifest'[n], Machine) = {Len(manifest[n].edits)}
<1>1. /\ manifest \in [DOMAIN manifest -> [edits : Seq(Edit(S)), synced : Nat]]
      /\ \A m \in DOMAIN manifest : /\ manifest[m].synced <= Len(manifest[m].edits)
                                    /\ \A k \in DOMAIN manifest[m].edits : Given(manifest[m].edits[k])
  BY DEF ManifestOK, Edits
<1>2. manifest[n].edits \in Seq(Edit(S)) /\ Len(manifest[n].edits) \in Nat
  BY <1>1
<1>3. /\ DOMAIN manifest' = DOMAIN manifest
      /\ \A m \in DOMAIN manifest : manifest'[m].edits = manifest[m].edits
      /\ \A m \in DOMAIN manifest \ {n} : manifest'[m] = manifest[m]
      /\ manifest'[n].synced = Len(manifest[n].edits)
      /\ manifest' \in [DOMAIN manifest -> [edits : Seq(Edit(S)), synced : Nat]]
  BY <1>1, <1>2
<1>4. \A m \in DOMAIN manifest' : /\ manifest'[m].synced <= Len(manifest'[m].edits)
                                  /\ \A k \in DOMAIN manifest'[m].edits : Given(manifest'[m].edits[k])
  BY <1>1, <1>2, <1>3
<1>5. LeftOf(manifest'[n], Machine) = {Len(manifest[n].edits)}
  <2>1. manifest'[n].edits = manifest[n].edits
    BY <1>3
  <2>2. (Len(manifest[n].edits)..Len(manifest[n].edits)) = {Len(manifest[n].edits)}
    BY <1>2
  <2>3. QED
    BY <1>3, <2>1, <2>2 DEF LeftOf
<1>6. QED
  BY <1>3, <1>4, <1>5 DEF ManifestOK, Edits

LEMMA SyncManifestKept ==
  ASSUME NEW S, Before(S), SyncManifest
  PROVE  Kept(S)
<1>1. /\ DirsOK(dirs) /\ Contents /\ ManifestOK(S) /\ MemoryOK(S) /\ ProcessOK /\ Sane(Dir)
      /\ Len(dirs) \in DOMAIN dirs /\ Dir = dirs[Len(dirs)] /\ UNCHANGED scenario
      /\ Machine' = Machine
  BY DirFacts DEF Before, Typed, Machine
<1>2. /\ at = "sync" /\ at' = IF vs.logged THEN "delete" ELSE "name"
      /\ UNCHANGED <<vs, created, bgError, job, fresh, todo, logNumber>> /\ created # "repair"
      /\ dirs' = <<Dir>> /\ job = None
  BY <1>1 DEF SyncManifest, Opening, ghosts, Synced, ProcessOK
<1>3. /\ Reopens /\ Saving /\ ~bgError /\ vs \in VersionSet(S)
  BY <1>1, <1>2 DEF Before, RecoveryInv, Unused, MemoryOK
<1> DEFINE n == vs.number
<1>4. /\ vs.tables \subseteq Dir.tables /\ n < vs.next /\ n \in Dir.manifests /\ n \in Nat
      /\ Edits(n) # <<>> /\ Last(Edits(n)) = State(vs)
      /\ LogInUse /\ n \in DOMAIN manifest
  BY <1>1, <1>2, <1>3 DEF Saving, VersionSet, Contents
<1>5. DirStep(Dir)
  BY <1>2 DEF DirStep
<1>6. /\ ManifestOK(S)' /\ DOMAIN manifest' = DOMAIN manifest
      /\ manifest'[n].edits = Edits(n)
      /\ \A m \in DOMAIN manifest \ {n} : manifest'[m] = manifest[m]
      /\ manifest'[n].synced = Len(Edits(n))
      /\ LeftOf(manifest'[n], Machine) = {Len(Edits(n))}
  <2>1. manifest' = [manifest EXCEPT ![n].synced = Len(manifest[n].edits)]
    BY DEF SyncManifest
  <2> HIDE DEF n
  <2>2. QED
    BY <1>1, <1>4, <2>1, ManifestSynced DEF Edits
<1>7. DirsOK(dirs') /\ Dir' = Dir /\ Contents'
  <2>1. Dir.manifests \subseteq DOMAIN manifest'
    BY <1>1, <1>6 DEF Contents
  <2>2. QED
    BY <1>1, <1>5, <1>6, <2>1, DiskKept
<1>8. MemoryOK(S)'
  BY <1>1, <1>2 DEF MemoryOK
<1>9. Opened' <=> Opened
  BY <1>1, <1>2, <1>7 DEF Opened
<1>10. Opened => OpensWith(Dir, manifest', Machine)
  <2>1. SUFFICES ASSUME Opened PROVE OpensWith(Dir, manifest', Machine)
    OBVIOUS
  <2>2. OpensWith(Dir, manifest, Machine)
    BY <1>3, <2>1 DEF Reopens, Opens
  <2>3. CASE Dir.current = n
    <3>1. Len(Edits(n)) \in LeftOf(manifest[n], Machine)
      BY <1>1, <1>4, LastEdit
    <3>2. QED
      BY <1>6, <2>2, <2>3, <3>1 DEF OpensWith, Edits
  <2>4. CASE Dir.current # n
    <3>1. Dir.current \in DOMAIN manifest \ {n} /\ Dir.current \in Dir.manifests
      BY <1>1, <2>2, <2>4 DEF OpensWith, Contents
    <3>2. QED
      BY <1>6, <2>2, <3>1, OpensMore
  <2>5. QED
    BY <2>3, <2>4
<1>11. Reopens'
  <2>1. ASSUME created = "synced", Machine
        PROVE  Dir.current <= Dir.current /\ \A i \in DOMAIN dirs : OpensWith(dirs[i], manifest', Machine)
    <3>1. Opened /\ Dir.current <= Dir.current
      BY <1>1, <1>3, <2>1 DEF Opened, Reopens
    <3>2. ~vs.logged
      BY <1>1, <1>2, <1>3, <2>1, Reuse DEF Saving
    <3>3. Dir.current < n
      BY <1>2, <1>3, <3>1, <3>2 DEF Saving, NewNumber
    <3>4. ASSUME NEW i \in DOMAIN dirs
          PROVE  OpensWith(dirs[i], manifest', Machine)
      <4>1. OpensWith(dirs[i], manifest, Machine) /\ dirs[i].current <= Dir.current
        BY <1>3, <2>1 DEF Reopens, Opens
      <4>2. OpensWith(Dir, manifest, Machine)
        BY <1>3, <3>1 DEF Reopens, Opens
      <4>3. dirs[i].current \in dirs[i].manifests /\ dirs[i].current \in Nat /\ Dir.current \in Nat
        BY <1>1, <4>1, <4>2 DEF OpensWith, DirsOK, Sane, Directory
      <4>4. dirs[i].current # n /\ dirs[i].current \in DOMAIN manifest
        BY <1>1, <1>4, <3>3, <4>1, <4>3 DEF Contents
      <4>5. QED
        BY <1>6, <4>1, <4>3, <4>4, OpensMore
    <3>5. QED
      BY <3>1, <3>4
  <2>2. CanReopen'
    BY <1>2 DEF CanReopen
  <2>3. QED
    BY <1>1, <1>2, <1>3, <1>5, <1>9, <1>10, <2>1, <2>2, ReopensKept
<1>12. LogInUse' /\ vs'.tables \subseteq Dir'.tables
  BY <1>2, <1>4, <1>7 DEF LogInUse
<1>13. Edits(vs.number)' = Edits(n)
  BY <1>2, <1>6 DEF Edits
<1>14. ASSUME ~vs.logged
       PROVE  Kept(S)
  <2>1. at' = "name" /\ Len(Edits(n)) = 1 /\ NewNumber
    BY <1>2, <1>3, <1>14 DEF Saving
  <2>2. NewNumber'
    BY <1>2, <1>7, <1>9, <2>1 DEF NewNumber
  <2>3. manifest[vs.number]'.synced = 1
    BY <1>2, <1>6, <2>1
  <2>4. State(vs)' = State(vs)
    BY <1>2 DEF State
  <2>5. Saving'
    BY <1>2, <1>4, <1>7, <1>12, <1>13, <1>14, <2>1, <2>2, <2>3, <2>4 DEF Saving
  <2>6. FirstManifest' /\ Loading' /\ Ready' /\ Unused'
    BY <1>2, <1>3, <2>1 DEF FirstManifest, Loading, Ready, Unused
  <2>7. QED
    BY <1>6, <1>7, <1>8, <1>11, <2>5, <2>6 DEF Kept, RecoveryInv
<1>15. ASSUME vs.logged
       PROVE  Kept(S)
  <2>1. at' = "delete" /\ scenario.reuse /\ n = Dir.current
    BY <1>2, <1>3, <1>15 DEF Saving
  <2>2. Opened
    BY <1>4, <2>1, NoneAssumption DEF Opened
  <2>3. Opens(Dir)'
    BY <1>1, <1>7, <1>10, <2>2 DEF Opens
  <2>4. TablesDurable'
    <3>1. \A i \in DOMAIN dirs' : dirs'[i] = Dir
      BY <1>2
    <3>2. job' = None
      BY <1>2
    <3>3. QED
      BY <1>2, <1>4, <3>1, <3>2 DEF TablesDurable
  <2>5. LeftNeeds'
    <3>1. Left(vs.number)' = {Len(Edits(n))}
      BY <1>1, <1>2, <1>6 DEF Left
    <3>2. Edits(n)[Len(Edits(n))].tables = vs.tables
      BY <1>4 DEF Last, State
    <3>3. QED
      BY <1>2, <1>13, <3>1, <3>2 DEF LeftNeeds
  <2>6. JobTable'
    BY <1>2 DEF JobTable
  <2>7. Ready'
    BY <1>2, <1>4, <1>7, <1>12, <2>1, <2>3, <2>4, <2>5, <2>6 DEF Ready
  <2>8. FirstManifest' /\ Loading' /\ Saving' /\ Unused'
    BY <1>2, <1>3, <2>1 DEF FirstManifest, Loading, Saving, Unused
  <2>9. QED
    BY <1>6, <1>7, <1>8, <1>11, <2>7, <2>8 DEF Kept, RecoveryInv
<1>16. QED
  BY <1>14, <1>15

LEMMA NameManifestKept ==
  ASSUME NEW S, Before(S), NameManifest
  PROVE  Kept(S)
<1>1. /\ DirsOK(dirs) /\ Contents /\ ManifestOK(S) /\ MemoryOK(S) /\ ProcessOK /\ Sane(Dir)
      /\ Len(dirs) \in DOMAIN dirs /\ Dir = dirs[Len(dirs)] /\ UNCHANGED scenario
      /\ Machine' = Machine
  BY DirFacts DEF Before, Typed, Machine
<1>2. /\ at = "name" /\ at' = "delete" /\ vs' = [vs EXCEPT !.logged = TRUE]
      /\ UNCHANGED <<manifest, created, bgError, job, fresh, todo, logNumber>> /\ created # "repair"
      /\ job = None
  BY <1>1 DEF NameManifest, Opening, ghosts, ProcessOK
<1>3. /\ Reopens /\ Saving /\ ~bgError /\ vs \in VersionSet(S) /\ Given(vs)
  BY <1>1, <1>2 DEF Before, RecoveryInv, Unused, MemoryOK
<1> DEFINE n == vs.number
           d == [Dir EXCEPT !.current = n]
<1>4. /\ vs.tables \subseteq Dir.tables /\ n < vs.next /\ n \in Dir.manifests /\ n \in Nat
      /\ Edits(n) # <<>> /\ Last(Edits(n)) = State(vs) /\ Len(Edits(n)) = 1 /\ manifest[n].synced = 1
      /\ LogInUse /\ NewNumber /\ n \in DOMAIN manifest
  BY <1>1, <1>2, <1>3 DEF Saving, VersionSet, Contents
<1>5. /\ vs'.tables = vs.tables /\ vs'.log = vs.log /\ vs'.seq = vs.seq /\ vs'.number = n
      /\ vs'.next = vs.next /\ vs' \in VersionSet(S) /\ Given(vs')
  BY <1>2, <1>3 DEF VersionSet, Given
<1>6. /\ Sane(d) /\ DirStep(d) /\ d.tables = Dir.tables /\ d.logs = Dir.logs
      /\ d.manifests = Dir.manifests /\ d.current = n /\ dirs' = <<Dir, d>>
  <2>1. dirs' = <<Dir, d>>
    BY DEF NameManifest, SetCurrentFile
  <2>2. Sane(d)
    BY <1>1, <1>4, SaneChanges
  <2>3. DirStep(d)
    BY <2>1 DEF DirStep
  <2>4. QED
    BY <1>1, <2>1, <2>2, <2>3 DEF Sane, Directory
<1> HIDE DEF d
<1>7. DirsOK(dirs') /\ Dir' = d /\ Contents' /\ ManifestOK(S)'
  <2>1. d.manifests \subseteq DOMAIN manifest'
    BY <1>1, <1>2, <1>6 DEF Contents
  <2>2. QED
    BY <1>1, <1>2, <1>6, <2>1, DiskKept, SameManifests
<1>8. MemoryOK(S)'
  BY <1>1, <1>2, <1>5 DEF MemoryOK
<1>9. LeftOf(manifest'[n], Machine) = {1} /\ manifest'[n].edits[1] = State(vs)
  <2>1. LeftOf(manifest[n], Machine) = {1}
    BY <1>4 DEF LeftOf, Edits
  <2>2. Edits(n)[1] = State(vs)
    BY <1>4 DEF Last
  <2>3. QED
    BY <1>2, <2>1, <2>2 DEF Edits
<1>10. OpensWith(d, manifest', Machine)
  <2>1. State(vs).tables = vs.tables /\ State(vs).next = vs.next
    BY DEF State
  <2>2. QED
    BY <1>4, <1>6, <1>9, <2>1 DEF OpensWith
<1>11. Reopens'
  <2>1. ASSUME created = "synced", Machine
        PROVE  Dir.current <= d.current /\ \A i \in DOMAIN dirs : OpensWith(dirs[i], manifest', Machine)
    <3>1. Opened /\ \A i \in DOMAIN dirs : OpensWith(dirs[i], manifest, Machine)
      BY <1>3, <2>1 DEF Opened, Reopens, Opens
    <3>2. Dir.current < n /\ Dir.current \in Nat
      BY <1>1, <1>4, <3>1 DEF NewNumber, OpensWith, Sane, Directory
    <3>3. QED
      BY <1>2, <1>4, <1>6, <3>1, <3>2
  <2>2. CanReopen'
    BY <1>2 DEF CanReopen
  <2>3. QED
    BY <1>1, <1>2, <1>3, <1>6, <1>10, <2>1, <2>2, ReopensKept
<1>12. TablesDurable'
  <2>1. \A i \in DOMAIN dirs' : dirs'[i].tables = Dir.tables
    BY <1>6
  <2>2. QED
    BY <1>2, <1>4, <1>5, <2>1 DEF TablesDurable
<1>13. LeftNeeds'
  <2>1. Left(vs.number)' = {1} /\ Edits(vs.number)'[1].tables = vs.tables
    BY <1>1, <1>5, <1>9 DEF Left, Edits, State
  <2>2. QED
    BY <1>2, <1>5, <2>1 DEF LeftNeeds
<1>14. Ready'
  <2>1. Opens(Dir)'
    BY <1>1, <1>7, <1>10 DEF Opens
  <2>2. LogInUse'
    BY <1>2, <1>4, <1>5, <1>6, <1>7 DEF LogInUse
  <2>3. JobTable'
    BY <1>2 DEF JobTable
  <2>4. QED
    BY <1>4, <1>5, <1>6, <1>7, <1>12, <1>13, <2>1, <2>2, <2>3 DEF Ready
<1>15. FirstManifest' /\ Loading' /\ Saving' /\ Unused'
  BY <1>2, <1>3 DEF FirstManifest, Loading, Saving, Unused
<1>16. QED
  BY <1>7, <1>8, <1>11, <1>14, <1>15 DEF Kept, RecoveryInv

\* The memory of a process that is no more.
LEMMA Forgotten ==
  ASSUME NEW S, 0 \in S, ForgetMemory
  PROVE  MemoryOK(S)' /\ logNumber' = 0 /\ ~bgError'
<1>1. vs' \in VersionSet(S) /\ Given(vs')
  BY DEF ForgetMemory, NoVersion, VersionSet, Given
<1>2. todo' \in Seq(Nat)
  BY DEF ForgetMemory
<1>3. QED
  BY <1>1, <1>2 DEF ForgetMemory, MemoryOK

LEMMA OpenFailsKept ==
  ASSUME NEW S, Before(S), OpenFails
  PROVE  Kept(S)
<1>1. /\ DirsOK(dirs) /\ Contents /\ ManifestOK(S) /\ MemoryOK(S) /\ ProcessOK /\ Sane(Dir)
      /\ Len(dirs) \in DOMAIN dirs /\ Dir = dirs[Len(dirs)] /\ UNCHANGED scenario
  BY DirFacts DEF Before, Typed
<1>2. /\ at \in {"sync", "name"} /\ at' = "down" /\ UNCHANGED <<manifest, created>> /\ ForgetMemory
  BY DEF OpenFails, ghosts
<1>3. Reopens /\ Saving /\ vs \in VersionSet(S) /\ Unused
  BY <1>1 DEF Before, RecoveryInv, MemoryOK
<1> DEFINE d == IF vs.logged THEN Dir ELSE [Dir EXCEPT !.manifests = @ \ {vs.number}]
<1>4. /\ Sane(d) /\ DirStep(d) /\ d.tables = Dir.tables /\ d.current = Dir.current
      /\ d.manifests \subseteq Dir.manifests
      /\ Dir.manifests \subseteq d.manifests \cup (IF vs.logged THEN {} ELSE {vs.number})
  <2>1. CASE vs.logged
    BY <1>1, <2>1 DEF OpenFails, DirStep
  <2>2. CASE ~vs.logged
    <3>1. Sane(d)
      BY <1>1, <1>3, <2>2, SaneChanges DEF VersionSet
    <3>2. DirStep(d)
      BY <2>2 DEF OpenFails, Changed, DirStep
    <3>3. QED
      BY <1>1, <2>2, <3>1, <3>2 DEF Sane, Directory
  <2>3. QED
    BY <2>1, <2>2
<1> HIDE DEF d
<1>5. DirsOK(dirs') /\ Dir' = d /\ Contents' /\ ManifestOK(S)'
  <2>1. d.manifests \subseteq DOMAIN manifest'
    BY <1>1, <1>2, <1>4 DEF Contents
  <2>2. QED
    BY <1>1, <1>2, <1>4, <2>1, DiskKept, SameManifests
<1>6. MemoryOK(S)' /\ logNumber' = 0 /\ ~bgError'
  BY <1>2, Forgotten DEF Before
<1>7. Opened' <=> Opened
  BY <1>1, <1>2, <1>4, <1>5 DEF Opened
<1>8. Opened => OpensWith(d, manifest', Machine)
  <2>1. SUFFICES ASSUME Opened PROVE OpensWith(d, manifest', Machine)
    OBVIOUS
  <2>2. OpensWith(Dir, manifest, Machine)
    BY <1>3, <2>1 DEF Reopens, Opens
  <2>3. Dir.current \in Dir.manifests /\ Dir.current \in Nat
    BY <1>1, <2>2 DEF OpensWith, Sane, Directory
  <2>4. ~vs.logged => Dir.current # vs.number
    <3>1. ~vs.logged => Dir.current < vs.number
      BY <1>2, <1>3, <2>1 DEF Saving, NewNumber
    <3>2. QED
      BY <1>3, <2>3, <3>1 DEF VersionSet
  <2>5. d.current \in d.manifests
    BY <1>4, <2>3, <2>4
  <2>6. QED
    BY <1>2, <1>4, <2>2, <2>5, OpensMore
<1>9. Reopens'
  <2>1. created = "synced" /\ Machine =>
          Dir.current <= d.current /\ \A i \in DOMAIN dirs : OpensWith(dirs[i], manifest', Machine)
    BY <1>1, <1>2, <1>3, <1>4 DEF Reopens, Opens
  <2>2. CanReopen'
    BY <1>2 DEF CanReopen
  <2>3. QED
    BY <1>1, <1>2, <1>3, <1>4, <1>7, <1>8, <2>1, <2>2, ReopensKept
<1>10. FirstManifest' /\ Loading' /\ Saving' /\ Ready' /\ Unused'
  BY <1>1, <1>2, <1>3, <1>6, NothingOpen DEF Unused
<1>11. QED
  BY <1>5, <1>6, <1>9, <1>10 DEF Kept, RecoveryInv

\* What DeleteObsoleteFiles leaves alone.
LEMMA NeededKept ==
  ASSUME DirsOK(dirs), Sane(Dir), DeleteObsoleteFiles
  PROVE  \E d : /\ Sane(d) /\ DirStep(d) /\ (dirs' = dirs \/ dirs' = Append(dirs, d))
                /\ d.current = Dir.current /\ d.manifests \subseteq Dir.manifests
                /\ d.logs \subseteq Dir.logs /\ d.tables \subseteq Dir.tables
                /\ \A n \in Dir.logs : n >= vs.log => n \in d.logs
                /\ \A n \in Dir.manifests : n >= vs.number => n \in d.manifests
                /\ vs.tables \cap Dir.tables \subseteq d.tables
<1>1. CASE bgError
  <2>1. dirs' = dirs /\ DirStep(Dir)
    BY <1>1 DEF DeleteObsoleteFiles, DirStep
  <2>2. QED
    BY <2>1
<1>2. CASE ~bgError
  <2> DEFINE obsolete == {f \in Files(Dir) : ~Keeps(vs, {}, f)}
  <2>1. PICK deleted \in SUBSET obsolete :
          dirs' = IF deleted = {} THEN dirs ELSE Changed(Without(Dir, deleted))
    BY <1>2 DEF DeleteObsoleteFiles
  <2> DEFINE d == IF deleted = {} THEN Dir ELSE Without(Dir, deleted)
  <2>2. /\ d.current = Dir.current /\ d.manifests \subseteq Dir.manifests
        /\ d.logs \subseteq Dir.logs /\ d.tables \subseteq Dir.tables
        /\ \A n \in Dir.logs : <<"log", n>> \notin deleted => n \in d.logs
        /\ \A n \in Dir.manifests : <<"manifest", n>> \notin deleted => n \in d.manifests
        /\ \A n \in Dir.tables : <<"table", n>> \notin deleted => n \in d.tables
    BY DEF Sane, Directory, Without
  <2>3. \A n : <<"log", n>> \in deleted => ~(n >= vs.log)
    BY DEF Keeps
  <2>4. \A n : <<"manifest", n>> \in deleted => ~(n >= vs.number)
    BY DEF Keeps
  <2>5. \A n : <<"table", n>> \in deleted => n \notin vs.tables
    BY DEF Keeps
  <2>6. Sane(d) /\ DirStep(d) /\ (dirs' = dirs \/ dirs' = Append(dirs, d))
    <3>1. Sane(d)
      BY SaneChanges
    <3>2. QED
      BY <2>1, <3>1 DEF Changed, DirStep
  <2> HIDE DEF d
  <2>7. QED
    BY <2>2, <2>3, <2>4, <2>5, <2>6
<1>3. QED
  BY <1>1, <1>2

\* Deleting files, with nothing under way, leaves the database open.
LEMMA DeletionKept ==
  ASSUME NEW S, Before(S), DeleteObsoleteFiles, at \in {"delete", "open"}, at' = "open",
         UNCHANGED <<manifest, vs, logNumber, todo, fresh, bgError>>,
         job' = None, job = None \/ job.at = "delete",
         created' = IF at = "delete" /\ created # "synced" THEN "opened" ELSE created
  PROVE  Kept(S)
<1>1. /\ DirsOK(dirs) /\ Contents /\ ManifestOK(S) /\ MemoryOK(S) /\ ProcessOK /\ Sane(Dir)
      /\ Len(dirs) \in DOMAIN dirs /\ Dir = dirs[Len(dirs)] /\ UNCHANGED scenario
      /\ Machine' = Machine
  BY DirFacts DEF Before, Typed, Machine
<1>2. /\ Reopens /\ Ready /\ Unused /\ vs \in VersionSet(S)
  BY <1>1 DEF Before, RecoveryInv, MemoryOK
<1>3. /\ OpensWith(Dir, manifest, Machine) /\ Dir.current = vs.number /\ vs.number < vs.next /\ LogInUse
      /\ TablesDurable /\ LeftNeeds /\ vs.number \in Dir.manifests /\ vs.number \in Nat
      /\ logNumber \in Nat /\ vs.log \in Nat
  BY <1>1, <1>2 DEF Ready, Opens, OpensWith, VersionSet, MemoryOK
<1>4. vs.tables \subseteq Dir.tables
  BY <1>1, <1>3 DEF TablesDurable
<1>5. PICK d : /\ Sane(d) /\ DirStep(d) /\ (dirs' = dirs \/ dirs' = Append(dirs, d))
               /\ d.current = Dir.current /\ d.manifests \subseteq Dir.manifests
               /\ \A n \in Dir.logs : n >= vs.log => n \in d.logs
               /\ \A n \in Dir.manifests : n >= vs.number => n \in d.manifests
               /\ vs.tables \cap Dir.tables \subseteq d.tables
  BY <1>1, NeededKept
<1>6. vs.number \in d.manifests /\ logNumber \in d.logs /\ vs.tables \subseteq d.tables
  BY <1>3, <1>4, <1>5 DEF LogInUse
<1>7. /\ DirsOK(dirs') /\ Dir' = d /\ Contents' /\ ManifestOK(S)'
      /\ \A i \in DOMAIN dirs' : \/ i = Len(dirs') /\ dirs'[i] = d
                                 \/ i # Len(dirs') /\ \E j \in DOMAIN dirs : dirs'[i] = dirs[j]
  <2>1. d.manifests \subseteq DOMAIN manifest'
    BY <1>1, <1>5 DEF Contents
  <2>2. QED
    BY <1>1, <1>5, <2>1, DiskKept, DirsAfter, SameManifests
<1>8. MemoryOK(S)'
  BY <1>1 DEF MemoryOK
<1>9. LeftNeeds' /\ (job' # None \/ ~bgError => \A k \in Left(vs.number) : Edits(vs.number)[k].tables \subseteq vs.tables)
  <2>1. job # None \/ ~bgError => \A k \in Left(vs.number) : Edits(vs.number)[k].tables \subseteq vs.tables
    BY <1>3 DEF LeftNeeds
  <2>2. Left(vs.number)' = Left(vs.number) /\ Edits(vs.number)' = Edits(vs.number) /\ vs' = vs
    BY <1>1 DEF Left, Edits
  <2>3. QED
    BY <2>1, <2>2 DEF LeftNeeds
<1>10. OpensWith(d, manifest', Machine)
  <2>1. CASE bgError
    <3>1. Dir' = Dir
      BY <2>1 DEF DeleteObsoleteFiles, Dir
    <3>2. d = Dir
      BY <1>7, <3>1
    <3>3. QED
      BY <1>3, <3>2
  <2>2. CASE ~bgError
    <3>1. \A k \in LeftOf(manifest[vs.number], Machine) : manifest[vs.number].edits[k].tables \subseteq d.tables
      BY <1>3, <1>6, <2>2 DEF LeftNeeds, Left, Edits
    <3>2. QED
      BY <1>3, <1>5, <1>6, <3>1 DEF OpensWith
  <2>3. QED
    BY <2>1, <2>2
<1>11. Reopens'
  <2>1. created = "synced" /\ Machine =>
          Dir.current <= d.current /\ \A i \in DOMAIN dirs : OpensWith(dirs[i], manifest', Machine)
    BY <1>1, <1>2, <1>5 DEF Reopens, Opens
  <2>2. CanReopen' /\ (created' = "synced" => created = "synced")
    BY DEF CanReopen
  <2>3. QED
    BY <1>1, <1>2, <1>5, <1>10, <2>1, <2>2, ReopensKept
<1>12. TablesDurable'
  <2>1. \A i \in DOMAIN dirs' : Machine \/ i = Len(dirs') => vs.tables \subseteq dirs'[i].tables
    BY <1>3, <1>6, <1>7 DEF TablesDurable
  <2>2. QED
    BY <1>1, <2>1 DEF TablesDurable
<1>13. Ready'
  <2>1. Opens(Dir)'
    BY <1>1, <1>7, <1>10 DEF Opens
  <2>2. LogInUse'
    BY <1>3, <1>6, <1>7 DEF LogInUse
  <2>3. JobTable'
    BY DEF JobTable
  <2>4. QED
    BY <1>3, <1>5, <1>7, <1>9, <1>12, <2>1, <2>2, <2>3 DEF Ready
<1>14. FirstManifest' /\ Loading' /\ Saving' /\ Unused'
  BY <1>1, <1>2 DEF FirstManifest, Loading, Saving, Unused
<1>15. QED
  BY <1>7, <1>8, <1>11, <1>13, <1>14 DEF Kept, RecoveryInv

LEMMA OpenReturnsKept ==
  ASSUME NEW S, Before(S), OpenReturns
  PROVE  Kept(S)
<1>1. job = None
  BY DEF Before, Typed, ProcessOK, OpenReturns
<1>2. QED
  BY <1>1, DeletionKept DEF OpenReturns

LEMMA JobDoneKept ==
  ASSUME NEW S, Before(S), JobDone
  PROVE  Kept(S)
BY DeletionKept DEF JobDone, Working, Running

-----------------------------------------------------------------------------
(* The open database *)

LEMMA OpenFacts ==
  ASSUME NEW S, Before(S), at = "open"
  PROVE  /\ DirsOK(dirs) /\ Contents /\ ManifestOK(S) /\ MemoryOK(S) /\ ProcessOK /\ Sane(Dir)
         /\ Len(dirs) \in DOMAIN dirs /\ Dir = dirs[Len(dirs)] /\ Machine' = Machine
         /\ Reopens /\ Unused /\ vs \in VersionSet(S) /\ Given(vs) /\ logNumber \in Nat
         /\ OpensWith(Dir, manifest, Machine) /\ Dir.current = vs.number /\ vs.number < vs.next
         /\ LogInUse /\ TablesDurable /\ LeftNeeds /\ JobTable
         /\ vs.number \in Dir.manifests /\ vs.number \in DOMAIN manifest /\ vs.tables \subseteq Dir.tables
<1>1. /\ DirsOK(dirs) /\ Contents /\ ManifestOK(S) /\ MemoryOK(S) /\ ProcessOK /\ Sane(Dir)
      /\ Len(dirs) \in DOMAIN dirs /\ Dir = dirs[Len(dirs)] /\ Machine' = Machine
      /\ Reopens /\ Unused /\ vs \in VersionSet(S) /\ Given(vs) /\ logNumber \in Nat /\ Ready
  BY DirFacts DEF Before, Typed, Machine, RecoveryInv, MemoryOK
<1>2. /\ OpensWith(Dir, manifest, Machine) /\ Dir.current = vs.number /\ vs.number < vs.next
      /\ LogInUse /\ TablesDurable /\ LeftNeeds /\ JobTable
  BY <1>1 DEF Ready, Opens
<1>3. vs.number \in Dir.manifests /\ vs.tables \subseteq Dir.tables
  BY <1>1, <1>2 DEF OpensWith, TablesDurable
<1>4. QED
  BY <1>1, <1>2, <1>3 DEF Contents

\* A step that leaves it open, and its manifest as it is.
LEMMA StaysOpen ==
  ASSUME NEW S, Before(S), at = "open", at' = "open", UNCHANGED manifest,
         NEW d, Sane(d), DirStep(d), d.current = Dir.current, d.manifests \subseteq Dir.manifests,
         OpensWith(d, manifest, Machine),
         created' = created \/ (created' = "synced" /\ dirs' = <<d>>),
         MemoryOK(S)', vs'.number = vs.number, vs'.number < vs'.next,
         LogInUse', TablesDurable', LeftNeeds', JobTable'
  PROVE  Kept(S)
<1>1. /\ DirsOK(dirs) /\ Contents /\ ManifestOK(S) /\ Machine' = Machine /\ Reopens /\ Unused
      /\ Dir.current = vs.number /\ Len(dirs) \in DOMAIN dirs /\ Dir = dirs[Len(dirs)]
  BY OpenFacts
<1>2. DirsOK(dirs') /\ Dir' = d /\ Contents' /\ ManifestOK(S)'
  <2>1. d.manifests \subseteq DOMAIN manifest'
    BY <1>1 DEF Contents
  <2>2. QED
    BY <1>1, <2>1, DiskKept, SameManifests
<1>3. UNCHANGED scenario
  BY DEF Before
<1>4. Reopens'
  <2>1. created = "synced" /\ Machine =>
          Dir.current <= d.current /\ \A i \in DOMAIN dirs : OpensWith(dirs[i], manifest', Machine)
    BY <1>1 DEF Reopens, Opens
  <2>2. CanReopen'
    BY DEF CanReopen
  <2>3. OpensWith(d, manifest', Machine)
    OBVIOUS
  <2>4. QED
    BY <1>1, <1>3, <2>1, <2>2, <2>3, ReopensKept
<1>5. Ready'
  <2>1. Opens(Dir)'
    BY <1>1, <1>2 DEF Opens
  <2>2. Dir'.current = vs'.number
    BY <1>1, <1>2
  <2>3. QED
    BY <2>1, <2>2 DEF Ready
<1>6. Unused'
  BY <1>1, <1>3 DEF Unused
<1>7. FirstManifest' /\ Loading' /\ Saving'
  BY DEF FirstManifest, Loading, Saving
<1>8. QED
  BY <1>2, <1>4, <1>5, <1>6, <1>7 DEF Kept, RecoveryInv

\* The tables stay where a crash leaves them.
LEMMA DurableKept ==
  ASSUME DirsOK(dirs), NEW d, Sane(d), DirStep(d), TablesDurable, Machine' = Machine,
         vs'.tables = vs.tables, vs.tables \subseteq d.tables,
         \/ job' = None \/ job'.at \notin {"log", "sync"}
         \/ job' = job /\ (job # None /\ job.at \in {"log", "sync"} => job.out \in d.tables)
  PROVE  TablesDurable'
<1>1. \A i \in DOMAIN dirs' : \/ i = Len(dirs') /\ dirs'[i] = d
                              \/ i # Len(dirs') /\ \E j \in DOMAIN dirs : dirs'[i] = dirs[j]
  BY DirsAfter
<1>2. \A i \in DOMAIN dirs' : Machine \/ i = Len(dirs') => vs.tables \subseteq dirs'[i].tables
  BY <1>1 DEF TablesDurable
<1>3. ASSUME job' # None, job'.at \in {"log", "sync"},
             NEW i \in DOMAIN dirs', Machine \/ i = Len(dirs')
      PROVE  job'.out \in dirs'[i].tables
  <2>1. job' = job /\ job.out \in d.tables
    BY <1>3
  <2>2. CASE i = Len(dirs') /\ dirs'[i] = d
    BY <2>1, <2>2
  <2>3. CASE i # Len(dirs') /\ \E j \in DOMAIN dirs : dirs'[i] = dirs[j]
    BY <1>3, <2>1, <2>3 DEF TablesDurable
  <2>4. QED
    BY <1>1, <2>2, <2>3
<1>4. QED
  BY <1>2, <1>3 DEF TablesDurable

\* What a crash may leave needs what it needed.
LEMMA LeftKept ==
  ASSUME NEW S, vs \in VersionSet(S), vs' \in VersionSet(S), LeftNeeds, Machine' = Machine,
         UNCHANGED <<manifest, job>>, vs'.tables = vs.tables, vs'.number = vs.number, bgError' \in BOOLEAN,
         bgError => bgError'
  PROVE  LeftNeeds'
<1>1. Left(vs.number)' = Left(vs.number) /\ Edits(vs.number)' = Edits(vs.number)
  BY DEF Left, Edits
<1>2. job # None => Edited(job)'.tables = Edited(job).tables
  BY DEF Edited, VersionSet
<1>3. QED
  BY <1>1, <1>2 DEF LeftNeeds

\* The steps of writers that leave files and numbers alone, or sync the log.
LEMMA WriteKept ==
  ASSUME NEW S, Before(S), at = "open", at' = "open",
         UNCHANGED <<manifest, logNumber, todo, fresh, job>>, bgError' \in BOOLEAN, bgError => bgError',
         vs' = [vs EXCEPT !.seq = vs'.seq], vs'.seq \in S,
         (dirs' = dirs /\ created' = created) \/ (dirs' = <<Dir>> /\ created' = "synced")
  PROVE  Kept(S)
<1>1. /\ DirsOK(dirs) /\ MemoryOK(S) /\ Sane(Dir) /\ Machine' = Machine
      /\ vs \in VersionSet(S) /\ Given(vs)
      /\ OpensWith(Dir, manifest, Machine) /\ Dir.current = vs.number /\ vs.number < vs.next
      /\ LogInUse /\ TablesDurable /\ LeftNeeds /\ JobTable /\ vs.tables \subseteq Dir.tables
      /\ Len(dirs) \in DOMAIN dirs /\ Dir = dirs[Len(dirs)]
  BY OpenFacts
<1>2. /\ vs'.tables = vs.tables /\ vs'.log = vs.log /\ vs'.number = vs.number /\ vs'.next = vs.next
      /\ vs' \in VersionSet(S) /\ Given(vs')
  BY <1>1 DEF VersionSet, Given
<1>3. DirStep(Dir)
  BY DEF DirStep
<1>4. Dir' = Dir
  BY <1>1, <1>3, DirsAfter
<1>5. MemoryOK(S)'
  BY <1>1, <1>2 DEF MemoryOK
<1>6. LogInUse' /\ JobTable'
  BY <1>1, <1>2, <1>4 DEF LogInUse, JobTable
<1>7. TablesDurable'
  <2>1. job # None /\ job.at \in {"log", "sync"} => job.out \in Dir.tables
    BY <1>1 DEF TablesDurable
  <2>2. QED
    BY <1>1, <1>2, <1>3, <2>1, DurableKept
<1>8. LeftNeeds'
  BY <1>1, <1>2, LeftKept
<1>9. QED
  BY <1>1, <1>2, <1>3, <1>5, <1>6, <1>7, <1>8, StaysOpen

LEMMA WritersKept ==
  ASSUME NEW S, Before(S), vs'.seq \in S,
         \/ \E n \in scenario.sizes : AppendRecord(n) \/ AppendFails(n)
         \/ \E sync \in BOOLEAN : EndWrite(sync)
         \/ SyncFails
  PROVE  Kept(S)
<1>0. vs \in VersionSet(S) /\ bgError \in BOOLEAN
  BY DEF Before, Typed, MemoryOK
<1>1. CASE \E n \in scenario.sizes : AppendRecord(n)
  <2>1. /\ at = "open" /\ at' = "open" /\ UNCHANGED <<manifest, logNumber, todo, fresh, job, bgError, vs, dirs, created>>
    BY <1>1 DEF AppendRecord, MayWrite, Running
  <2>2. vs' = [vs EXCEPT !.seq = vs'.seq]
    BY <1>0, <2>1 DEF VersionSet
  <2>3. QED
    BY <1>0, <2>1, <2>2, WriteKept
<1>5. CASE \E n \in scenario.sizes : AppendFails(n)
  <2>1. /\ at = "open" /\ at' = "open" /\ UNCHANGED <<manifest, logNumber, todo, fresh, job, bgError, dirs, created>>
        /\ vs' = [vs EXCEPT !.seq = @ + 1]
    BY <1>5 DEF AppendFails, MayWrite, Running
  <2>2. vs' = [vs EXCEPT !.seq = vs'.seq]
    BY <1>0, <2>1 DEF VersionSet
  <2>3. QED
    BY <1>0, <2>1, <2>2, WriteKept
<1>2. CASE \E sync \in BOOLEAN : EndWrite(sync)
  <2>1. PICK sync \in BOOLEAN : EndWrite(sync)
    BY <1>2
  <2>2. /\ at = "open" /\ at' = "open" /\ UNCHANGED <<manifest, logNumber, todo, fresh, job, bgError>>
        /\ vs' = [vs EXCEPT !.seq = @ + 1]
        /\ (dirs' = dirs /\ created' = created) \/ (dirs' = <<Dir>> /\ created' = "synced")
    BY <2>1 DEF EndWrite, Running, SyncLog, Synced
  <2>3. vs' = [vs EXCEPT !.seq = vs'.seq]
    BY <1>0, <2>2 DEF VersionSet
  <2>4. QED
    BY <1>0, <2>2, <2>3, WriteKept
<1>3. CASE SyncFails
  <2>1. /\ at = "open" /\ at' = "open" /\ UNCHANGED <<manifest, logNumber, todo, fresh, job, dirs, created>>
        /\ bgError' = TRUE /\ vs' = [vs EXCEPT !.seq = @ + 1]
    BY <1>3 DEF SyncFails, Running, disk
  <2>2. vs' = [vs EXCEPT !.seq = vs'.seq]
    BY <1>0, <2>1 DEF VersionSet
  <2>3. QED
    BY <1>0, <2>1, <2>2, WriteKept
<1>4. QED
  BY <1>1, <1>2, <1>3, <1>5

LEMMA SwitchMemTableKept ==
  ASSUME NEW S, Before(S), SwitchMemTable
  PROVE  Kept(S)
<1> DEFINE d == [Dir EXCEPT !.logs = @ \cup {vs.next}]
<1>1. /\ at = "open" /\ at' = "open" /\ UNCHANGED <<manifest, todo, fresh, job, bgError, created>>
      /\ logNumber' = vs.next /\ vs' = [vs EXCEPT !.next = @ + 1] /\ dirs' = Append(dirs, d)
  BY DEF SwitchMemTable, Running, Changed
<1>2. /\ DirsOK(dirs) /\ MemoryOK(S) /\ Sane(Dir) /\ Machine' = Machine
      /\ vs \in VersionSet(S) /\ Given(vs)
      /\ OpensWith(Dir, manifest, Machine) /\ Dir.current = vs.number /\ vs.number < vs.next
      /\ LogInUse /\ TablesDurable /\ LeftNeeds /\ JobTable /\ vs.tables \subseteq Dir.tables
  BY <1>1, OpenFacts
<1>3. /\ vs'.tables = vs.tables /\ vs'.log = vs.log /\ vs'.number = vs.number /\ vs'.next = vs.next + 1
      /\ vs.next \in Nat /\ vs' \in VersionSet(S) /\ Given(vs')
  BY <1>1, <1>2 DEF VersionSet, Given
<1>4. /\ Sane(d) /\ DirStep(d) /\ d.current = Dir.current /\ d.manifests = Dir.manifests
      /\ d.tables = Dir.tables /\ vs.next \in d.logs
  <2>1. Sane(d)
    BY <1>2, <1>3, SaneChanges
  <2>2. DirStep(d)
    BY <1>1 DEF DirStep
  <2>3. QED
    BY <1>2, <2>1, <2>2 DEF Sane, Directory
<1> HIDE DEF d
<1>5. Dir' = d
  BY <1>2, <1>4, DirsAfter
<1>6. MemoryOK(S)'
  BY <1>1, <1>2, <1>3 DEF MemoryOK
<1>7. LogInUse'
  BY <1>1, <1>2, <1>3, <1>4, <1>5 DEF LogInUse, Given, VersionSet
<1>8. JobTable'
  <2>1. job # None => job.out \in Nat
    BY <1>2 DEF MemoryOK, Jobs
  <2>2. QED
    BY <1>1, <1>2, <1>3, <1>4, <1>5, <2>1 DEF JobTable
<1>9. TablesDurable'
  <2>1. job # None /\ job.at \in {"log", "sync"} => job.out \in d.tables
    BY <1>2, <1>4 DEF JobTable
  <2>2. QED
    BY <1>1, <1>2, <1>3, <1>4, <2>1, DurableKept
<1>10. LeftNeeds'
  <2>1. bgError \in BOOLEAN
    BY <1>2 DEF MemoryOK
  <2>2. QED
    BY <1>1, <1>2, <1>3, <2>1, LeftKept
<1>11. OpensWith(d, manifest, Machine)
  <2>1. d.current \in d.manifests
    BY <1>2, <1>4 DEF OpensWith
  <2>2. QED
    BY <1>2, <1>4, <2>1, OpensMore
<1>12. vs'.number < vs'.next
  BY <1>2, <1>3 DEF VersionSet
<1>13. QED
  BY <1>1, <1>3, <1>4, <1>6, <1>7, <1>8, <1>9, <1>10, <1>11, <1>12, StaysOpen

-----------------------------------------------------------------------------
(* The background thread *)

LEMMA StartTableKept ==
  ASSUME NEW S, Before(S), NEW inputs \in SUBSET Nat,
         StartTable(inputs)
  PROVE  Kept(S)
<1> DEFINE d == [Dir EXCEPT !.tables = @ \cup {vs.next}]
<1>1. /\ at = "open" /\ at' = "open" /\ UNCHANGED <<manifest, todo, fresh, logNumber, bgError, created>>
      /\ job = None /\ ~bgError
      /\ job' = [at |-> "build", inputs |-> inputs, out |-> vs.next]
      /\ vs' = [vs EXCEPT !.next = @ + 1] /\ dirs' = Append(dirs, d)
  BY DEF StartTable, Running, Changed
<1>2. /\ DirsOK(dirs) /\ MemoryOK(S) /\ Sane(Dir) /\ Machine' = Machine
      /\ vs \in VersionSet(S) /\ Given(vs) /\ logNumber \in Nat
      /\ OpensWith(Dir, manifest, Machine) /\ Dir.current = vs.number /\ vs.number < vs.next
      /\ LogInUse /\ TablesDurable /\ LeftNeeds /\ JobTable /\ vs.tables \subseteq Dir.tables
  BY <1>1, OpenFacts
<1>3. /\ vs'.tables = vs.tables /\ vs'.log = vs.log /\ vs'.number = vs.number /\ vs'.next = vs.next + 1
      /\ vs.next \in Nat /\ vs' \in VersionSet(S) /\ Given(vs')
  BY SMTT(60), <1>1, <1>2 DEF VersionSet, Given
<1>4. /\ Sane(d) /\ DirStep(d) /\ d.current = Dir.current /\ d.manifests = Dir.manifests
      /\ d.logs = Dir.logs /\ d.tables = Dir.tables \cup {vs.next}
  <2>1. Sane(d)
    BY <1>2, <1>3, SaneChanges
  <2>2. DirStep(d)
    BY <1>1 DEF DirStep
  <2>3. QED
    BY <1>2, <2>1, <2>2 DEF Sane, Directory
<1> HIDE DEF d
<1>5. Dir' = d
  BY <1>2, <1>4, DirsAfter
<1>6. job' \in Jobs /\ job'.at = "build" /\ job'.out = vs.next
  BY <1>1, <1>3 DEF Jobs
<1>7. MemoryOK(S)'
  BY <1>1, <1>2, <1>3, <1>6 DEF MemoryOK
<1>8. LogInUse'
  BY <1>1, <1>2, <1>3, <1>4, <1>5 DEF LogInUse
<1>9. JobTable'
  <2>1. vs.next \notin vs.tables
    BY <1>2, <1>3 DEF Given
  <2>2. vs.next < vs'.next
    BY <1>3
  <2>3. QED
    BY <1>3, <1>4, <1>5, <1>6, <2>1, <2>2 DEF JobTable
<1>10. TablesDurable'
  BY <1>2, <1>3, <1>4, <1>6, DurableKept
<1>11. LeftNeeds'
  <2>1. \A k \in Left(vs.number) : Edits(vs.number)[k].tables \subseteq vs.tables
    BY <1>1, <1>2 DEF LeftNeeds
  <2>2. Left(vs.number)' = Left(vs.number) /\ Edits(vs.number)' = Edits(vs.number)
    BY <1>1, <1>2, <1>3 DEF Left, Edits
  <2>3. QED
    BY <1>3, <1>6, <2>1, <2>2 DEF LeftNeeds
<1>12. OpensWith(d, manifest, Machine)
  <2>1. d.current \in d.manifests
    BY <1>2, <1>4 DEF OpensWith
  <2>2. QED
    BY <1>2, <1>4, <2>1, OpensMore
<1>13. vs'.number < vs'.next
  BY <1>2, <1>3 DEF VersionSet
<1>14. QED
  BY <1>1, <1>3, <1>4, <1>7, <1>8, <1>9, <1>10, <1>11, <1>12, <1>13, StaysOpen

LEMMA StartKept ==
  ASSUME NEW S, Before(S), StartFlush \/ StartMerge
  PROVE  Kept(S)
<1>1. ASSUME NEW inputs \in SUBSET Nat, StartTable(inputs)
      PROVE  Kept(S)
  BY <1>1, StartTableKept
<1>2. CASE StartFlush
  BY <1>1, <1>2 DEF StartFlush
<1>3. CASE StartMerge
  <2>1. PICK inputs \in SUBSET vs.tables : StartTable(inputs)
    BY <1>3 DEF StartMerge
  <2>2. inputs \in SUBSET Nat
    BY <2>1 DEF Before, Typed, MemoryOK, VersionSet
  <2>3. QED
    BY <1>1, <2>1, <2>2
<1>4. QED
  BY <1>2, <1>3

LEMMA FinishTableKept ==
  ASSUME NEW S, Before(S), FinishTable
  PROVE  Kept(S)
<1>1. /\ at = "open" /\ at' = "open"
      /\ UNCHANGED <<manifest, todo, fresh, logNumber, bgError, created, vs>>
      /\ job # None /\ job.at = "build" /\ job' = [job EXCEPT !.at = "log"] /\ dirs' = <<Dir>>
  BY DEF FinishTable, Working, Running, Synced
<1>2. /\ DirsOK(dirs) /\ MemoryOK(S) /\ Sane(Dir) /\ Machine' = Machine
      /\ OpensWith(Dir, manifest, Machine) /\ Dir.current = vs.number /\ vs.number < vs.next
      /\ LogInUse /\ TablesDurable /\ LeftNeeds /\ JobTable /\ vs.tables \subseteq Dir.tables
  BY <1>1, OpenFacts
<1>3. DirStep(Dir)
  BY <1>1 DEF DirStep
<1>4. Dir' = Dir
  BY <1>2, <1>3, DirsAfter
<1>5. job' \in Jobs /\ job'.at = "log" /\ job'.out = job.out
  <2>1. job \in Jobs
    BY <1>1, <1>2 DEF MemoryOK
  <2>2. QED
    BY <1>1, <2>1 DEF Jobs
<1>6. MemoryOK(S)'
  BY <1>1, <1>2, <1>5 DEF MemoryOK
<1>7. LogInUse'
  BY <1>1, <1>2, <1>4 DEF LogInUse
<1>8. JobTable'
  BY <1>1, <1>2, <1>4, <1>5 DEF JobTable
<1>9. TablesDurable'
  <2>1. \A i \in DOMAIN dirs' : dirs'[i] = Dir
    BY <1>1
  <2>2. job.out \in Dir.tables
    BY <1>1, <1>2 DEF JobTable
  <2>3. QED
    BY <1>1, <1>2, <1>5, <2>1, <2>2 DEF TablesDurable
<1>10. LeftNeeds'
  <2>1. \A k \in Left(vs.number) : Edits(vs.number)[k].tables \subseteq vs.tables
    BY <1>1, <1>2 DEF LeftNeeds
  <2>2. Left(vs.number)' = Left(vs.number) /\ Edits(vs.number)' = Edits(vs.number)
    BY <1>1, <1>2 DEF Left, Edits
  <2>3. QED
    BY <1>1, <1>5, <2>1, <2>2 DEF LeftNeeds
<1>11. QED
  BY <1>1, <1>2, <1>3, <1>6, <1>7, <1>8, <1>9, <1>10, StaysOpen

\* The version a job leads to.
LEMMA EditedVersion ==
  ASSUME NEW S, Before(S), at = "open", job # None, job.at = "sync" \/ job.at = "log"
  PROVE  /\ job \in Jobs /\ Edited(job) \in VersionSet(S) /\ Given(Edited(job))
         /\ Edited(job).tables = (vs.tables \ job.inputs) \cup {job.out}
         /\ Edited(job).tables \subseteq vs.tables \cup {job.out}
         /\ Edited(job).log \in Nat /\ Edited(job).log <= logNumber
         /\ Edited(job).number = vs.number /\ Edited(job).next = vs.next /\ Edited(job).logged = vs.logged
         /\ Edited(job).seq = vs.seq
         /\ State(Edited(job)) \in Edit(S) /\ Given(State(Edited(job)))
         /\ State(Edited(job)).tables = Edited(job).tables /\ State(Edited(job)).next = vs.next
<1>1. /\ vs \in VersionSet(S) /\ Given(vs) /\ logNumber \in Nat /\ LogInUse /\ JobTable
      /\ job \in Jobs
  BY OpenFacts DEF MemoryOK
<1>2. FlushedLog(job) \in Nat /\ FlushedLog(job) <= logNumber /\ FlushedLog(job) < vs.next
  BY <1>1 DEF FlushedLog, LogInUse, VersionSet
<1>3. /\ Edited(job).tables = (vs.tables \ job.inputs) \cup {job.out}
      /\ Edited(job).log = FlushedLog(job)
      /\ Edited(job).number = vs.number /\ Edited(job).next = vs.next /\ Edited(job).logged = vs.logged
      /\ Edited(job).seq = vs.seq
  BY <1>1 DEF Edited, VersionSet
<1>4. job.out \in Nat /\ job.out < vs.next
  BY <1>1 DEF Jobs, JobTable
<1>5. Edited(job).tables \in SUBSET Nat
  BY <1>1, <1>3, <1>4 DEF VersionSet
<1>6. Edited(job) \in VersionSet(S)
  <2>1. (vs.tables \ job.inputs) \cup {job.out} \in SUBSET Nat
    BY <1>3, <1>5
  <2>2. QED
    BY <1>1, <1>2, <2>1 DEF VersionSet, Edited
<1>7. Given(Edited(job))
  BY <1>1, <1>2, <1>3, <1>4 DEF Given
<1>8. /\ State(Edited(job)) \in Edit(S) /\ Given(State(Edited(job)))
      /\ State(Edited(job)).tables = Edited(job).tables /\ State(Edited(job)).next = vs.next
  <2>1. /\ State(Edited(job)).tables = Edited(job).tables /\ State(Edited(job)).next = Edited(job).next
        /\ State(Edited(job)).log = Edited(job).log /\ State(Edited(job)).seq = Edited(job).seq
        /\ State(Edited(job)) = [tables |-> Edited(job).tables, log |-> Edited(job).log,
                                 seq |-> Edited(job).seq, next |-> Edited(job).next]
    BY DEF State
  <2>2. State(Edited(job)) \in Edit(S)
    BY <1>6, <2>1 DEF VersionSet, Edit
  <2>3. QED
    BY <1>3, <1>7, <2>1, <2>2 DEF Given
<1>9. QED
  BY <1>1, <1>2, <1>3, <1>6, <1>7, <1>8

LEMMA LogEditKept ==
  ASSUME NEW S, Before(S), LogEdit
  PROVE  Kept(S)
<1> DEFINE n == vs.number
           v == State(Edited(job))
<1>1. /\ at = "open" /\ at' = "open"
      /\ UNCHANGED <<dirs, todo, fresh, logNumber, bgError, created, vs>>
      /\ job # None /\ job.at = "log" /\ job' = [job EXCEPT !.at = "sync"]
  BY DEF LogEdit, Working, Running
<1>0. manifest' = [manifest EXCEPT ![n].edits = Append(@, v)]
  BY DEF LogEdit
<1>2. /\ DirsOK(dirs) /\ Contents /\ ManifestOK(S) /\ MemoryOK(S) /\ Sane(Dir) /\ Machine' = Machine
      /\ Len(dirs) \in DOMAIN dirs /\ Dir = dirs[Len(dirs)] /\ Reopens /\ Unused /\ vs \in VersionSet(S)
      /\ OpensWith(Dir, manifest, Machine) /\ Dir.current = n /\ n < vs.next
      /\ LogInUse /\ TablesDurable /\ LeftNeeds /\ JobTable /\ vs.tables \subseteq Dir.tables
      /\ n \in Dir.manifests /\ n \in DOMAIN manifest
  BY <1>1, OpenFacts
<1>3. UNCHANGED scenario
  BY DEF Before
<1>4. /\ job \in Jobs /\ v \in Edit(S) /\ Given(v) /\ v.tables \subseteq vs.tables \cup {job.out}
      /\ v.tables = Edited(job).tables /\ v.next = vs.next
  BY <1>1, EditedVersion
<1>5. n \in Nat
  BY <1>2 DEF VersionSet
<1> HIDE DEF v
<1>6. /\ ManifestOK(S)' /\ DOMAIN manifest' = DOMAIN manifest
      /\ manifest'[n].edits # <<>> /\ Last(manifest'[n].edits) = v
      /\ \A m \in DOMAIN manifest \ {n} : manifest'[m] = manifest[m]
  <2> HIDE DEF n
  <2>1. /\ ManifestOK(S)' /\ DOMAIN manifest' = DOMAIN manifest \cup {n}
        /\ manifest'[n].edits # <<>> /\ Last(manifest'[n].edits) = v
        /\ \A m \in DOMAIN manifest \ {n} : manifest'[m] = manifest[m]
    BY ZenonT(60), <1>0, <1>2, <1>4, <1>5, ManifestChanges
  <2>2. QED
    BY <1>2, <2>1
<1>7. \A k \in LeftOf(manifest'[n], Machine) :
        \/ k > 0 /\ manifest'[n].edits[k] = v
        \/ Machine /\ k \in LeftOf(manifest[n], Machine) /\ manifest'[n].edits[k] = manifest[n].edits[k]
  <2>1. PICK c \in Nat : c = Len(manifest[n].edits)
    BY <1>2 DEF ManifestOK
  <2>2. /\ manifest[n].edits \in Seq(Edit(S)) /\ manifest[n].synced \in Nat /\ manifest[n].synced <= c
    BY <1>2, <2>1 DEF ManifestOK, Edits
  <2>3. manifest'[n].edits = Append(manifest[n].edits, v) /\ manifest'[n].synced = manifest[n].synced
    <3>1. n \in DOMAIN manifest /\ manifest[n] \in [edits : Seq(Edit(S)), synced : Nat]
      BY <1>2 DEF ManifestOK
    <3> HIDE DEF n
    <3>2. QED
      BY <1>0, <3>1
  <2>4. /\ Len(manifest'[n].edits) = c + 1 /\ manifest'[n].edits[c + 1] = v
        /\ \A k \in 1..c : manifest'[n].edits[k] = manifest[n].edits[k]
    BY <1>4, <2>1, <2>2, <2>3, AppendProperties
  <2>5. CASE Machine
    <3>1. LeftOf(manifest'[n], Machine) = manifest[n].synced..c + 1
      BY <2>3, <2>4, <2>5 DEF LeftOf
    <3>2. LeftOf(manifest[n], Machine) = manifest[n].synced..c
      BY <2>1, <2>5 DEF LeftOf
    <3>3. \A k \in LeftOf(manifest[n], Machine) : k > 0
      BY <1>2 DEF OpensWith
    <3>4. \A k \in manifest[n].synced..c + 1 : k = c + 1 \/ k \in manifest[n].synced..c
      BY <2>2
    <3>5. \A k \in manifest[n].synced..c : k \in 1..c
      BY <2>2, <3>2, <3>3
    <3>6. c + 1 > 0
      OBVIOUS
    <3>7. QED
      BY <2>4, <2>5, <3>1, <3>2, <3>4, <3>5, <3>6
  <2>6. CASE ~Machine
    <3>1. LeftOf(manifest'[n], Machine) = {c + 1} /\ c + 1 > 0
      BY <2>4, <2>6 DEF LeftOf
    <3>2. QED
      BY <2>4, <3>1
  <2>7. QED
    BY <2>5, <2>6
<1>8. ASSUME NEW i \in DOMAIN dirs, OpensWith(dirs[i], manifest, Machine), Machine \/ i = Len(dirs)
      PROVE  OpensWith(dirs[i], manifest', Machine)
  <2>1. dirs[i].current \in dirs[i].manifests
    BY <1>8 DEF OpensWith
  <2>2. CASE dirs[i].current = n
    <3>1. v.tables \subseteq dirs[i].tables
      BY <1>1, <1>2, <1>4, <1>8 DEF TablesDurable
    <3>2. n < v.next
      BY <1>2, <1>4
    <3>3. ASSUME NEW k \in LeftOf(manifest'[n], Machine)
          PROVE  k > 0 /\ manifest'[n].edits[k].tables \subseteq dirs[i].tables /\ n < manifest'[n].edits[k].next
      <4>1. CASE k > 0 /\ manifest'[n].edits[k] = v
        BY <3>1, <3>2, <4>1
      <4>2. CASE k \in LeftOf(manifest[n], Machine) /\ manifest'[n].edits[k] = manifest[n].edits[k]
        BY <1>8, <2>2, <4>2 DEF OpensWith
      <4>3. QED
        BY <1>7, <4>1, <4>2
    <3>4. QED
      BY <2>1, <2>2, <3>3 DEF OpensWith
  <2>3. CASE dirs[i].current # n
    <3>1. dirs[i].current \in DOMAIN manifest \ {n}
      BY <1>2, <2>1, <2>3 DEF Contents
    <3>2. QED
      BY <1>6, <1>8, <2>1, <3>1, OpensMore
  <2>4. QED
    BY <2>2, <2>3
<1>9. DirStep(Dir) /\ Dir' = Dir
  BY <1>1 DEF DirStep, Dir
<1>10. OpensWith(Dir, manifest', Machine)
  BY <1>2, <1>8
<1>11. Reopens'
  <2>1. created = "synced" /\ Machine =>
          Dir.current <= Dir.current /\ \A i \in DOMAIN dirs : OpensWith(dirs[i], manifest', Machine)
    BY <1>2, <1>8 DEF Reopens, Opens
  <2>2. CanReopen'
    BY <1>1 DEF CanReopen
  <2>3. QED
    BY <1>1, <1>2, <1>3, <1>9, <1>10, <2>1, <2>2, ReopensKept
<1>12. DirsOK(dirs') /\ Contents'
  BY <1>1, <1>2, <1>6 DEF Contents
<1>13. job' \in Jobs /\ job'.at = "sync" /\ job'.out = job.out /\ job'.inputs = job.inputs
  BY <1>1, <1>4 DEF Jobs
<1>14. MemoryOK(S)'
  BY <1>1, <1>2, <1>13 DEF MemoryOK
<1>15. LeftNeeds'
  <2>1. Edits(vs.number)' = manifest'[n].edits /\ Left(vs.number)' = LeftOf(manifest'[n], Machine)
    BY <1>1, <1>2 DEF Edits, Left
  <2>2. \A k \in LeftOf(manifest'[n], Machine) : manifest'[n].edits[k].tables \subseteq vs.tables \cup {job.out}
    <3>1. \A k \in LeftOf(manifest[n], Machine) : manifest[n].edits[k].tables \subseteq vs.tables
      BY <1>1, <1>2 DEF LeftNeeds, Left, Edits
    <3>2. QED
      BY <1>4, <1>7, <3>1
  <2>3. CASE job' # None
    <3>1. Edited(job)'.tables = (vs.tables \ job.inputs) \cup {job.out}
      BY <1>1, <1>2, <1>13 DEF Edited, VersionSet
    <3>2. v.tables = (vs.tables \ job.inputs) \cup {job.out}
      BY <1>1, <1>4, EditedVersion
    <3>3. Last(Edits(vs.number)').tables = Edited(job)'.tables
      BY <1>6, <2>1, <3>1, <3>2
    <3>4. QED
      BY <1>1, <1>13, <2>1, <2>2, <2>3, <3>3 DEF LeftNeeds
  <2>4. CASE job' = None
    <3>1. job' # None
      BY <1>13, NoneAssumption
    <3>2. QED
      BY <2>4, <3>1
  <2>5. QED
    BY <2>3, <2>4
<1>16. Ready'
  <2>1. Opens(Dir)'
    BY <1>2, <1>9, <1>10 DEF Opens
  <2>2. LogInUse' /\ JobTable'
    BY <1>1, <1>2, <1>9, <1>13 DEF LogInUse, JobTable
  <2>3. TablesDurable'
    BY <1>1, <1>2, <1>13 DEF TablesDurable
  <2>4. QED
    BY <1>1, <1>2, <1>9, <1>15, <2>1, <2>2, <2>3 DEF Ready
<1>17. FirstManifest' /\ Loading' /\ Saving' /\ Unused'
  BY <1>1, <1>2, <1>3 DEF FirstManifest, Loading, Saving, Unused
<1>18. QED
  BY <1>6, <1>11, <1>12, <1>14, <1>16, <1>17 DEF Kept, RecoveryInv

LEMMA InstallEditKept ==
  ASSUME NEW S, Before(S), InstallEdit
  PROVE  Kept(S)
<1> DEFINE n == vs.number
           v == Edited(job)
<1>1. /\ at = "open" /\ at' = "open" /\ UNCHANGED <<todo, fresh, logNumber, bgError>>
      /\ job # None /\ job.at = "sync" /\ job' = [job EXCEPT !.at = "delete"]
      /\ vs' = v /\ dirs' = <<Dir>> /\ created' = "synced"
  BY DEF InstallEdit, Working, Running, Synced
<1>2. /\ DirsOK(dirs) /\ Contents /\ ManifestOK(S) /\ MemoryOK(S) /\ Sane(Dir) /\ Machine' = Machine
      /\ Len(dirs) \in DOMAIN dirs /\ Dir = dirs[Len(dirs)] /\ Unused /\ Reopens
      /\ OpensWith(Dir, manifest, Machine) /\ Dir.current = n /\ n < vs.next
      /\ LogInUse /\ TablesDurable /\ LeftNeeds /\ JobTable
      /\ n \in Dir.manifests /\ n \in DOMAIN manifest
  BY <1>1, OpenFacts
<1>3. UNCHANGED scenario
  BY DEF Before
<1>4. /\ job \in Jobs /\ v \in VersionSet(S) /\ Given(v)
      /\ v.log <= logNumber /\ v.number = n /\ v.next = vs.next
  BY <1>1, EditedVersion
<1>5. LeftNeeds => Last(manifest[n].edits).tables = v.tables
  BY <1>1 DEF LeftNeeds, Edits
<1> HIDE DEF v
<1>6. /\ ManifestOK(S)' /\ DOMAIN manifest' = DOMAIN manifest
      /\ manifest'[n].edits = manifest[n].edits
      /\ LeftOf(manifest'[n], Machine) = {Len(manifest[n].edits)}
  <2>1. manifest' = [manifest EXCEPT ![n].synced = Len(manifest[n].edits)]
    BY DEF InstallEdit
  <2> HIDE DEF n
  <2>2. QED
    BY <1>2, <2>1, ManifestSynced
<1>7. /\ Len(manifest[n].edits) \in LeftOf(manifest[n], Machine)
      /\ manifest[n].edits[Len(manifest[n].edits)].tables = v.tables
  <2>1. Len(manifest[n].edits) \in LeftOf(manifest[n], Machine)
    <3>1. Len(manifest[n].edits) \in Nat /\ manifest[n].synced \in Nat
          /\ manifest[n].synced <= Len(manifest[n].edits)
      BY <1>2 DEF ManifestOK, Edits
    <3>2. QED
      BY <3>1 DEF LeftOf
  <2>2. QED
    BY <1>2, <1>5, <2>1 DEF Last
<1>8. DirStep(Dir) /\ Dir' = Dir
  <2>1. DirStep(Dir)
    BY <1>1 DEF DirStep
  <2>2. QED
    BY <1>2, <2>1, DirsAfter
<1>9. DirsOK(dirs') /\ Contents'
  <2>1. Dir.manifests \subseteq DOMAIN manifest'
    BY <1>2, <1>6 DEF Contents
  <2>2. QED
    BY <1>2, <1>6, <1>8, <2>1, DiskKept
<1>10. v.tables \subseteq Dir.tables
  BY <1>2, <1>7 DEF OpensWith
<1>11. OpensWith(Dir, manifest', Machine)
  BY <1>2, <1>6, <1>7 DEF OpensWith
<1>12. job' \in Jobs /\ job'.at = "delete" /\ job'.out = job.out
  BY <1>1, <1>4 DEF Jobs
<1>13. MemoryOK(S)'
  BY <1>1, <1>2, <1>4, <1>12 DEF MemoryOK
<1>14. Reopens'
  <2>1. \A i \in DOMAIN dirs' : dirs'[i] = Dir
    BY <1>1
  <2>2. Dir.current <= Dir.current
    BY <1>2 DEF Sane, Directory
  <2>3. Opens(Dir)'
    BY <1>2, <1>8, <1>11 DEF Opens
  <2>4. \A i \in DOMAIN dirs' : OpensWith(dirs'[i], manifest', Machine') /\ dirs'[i].current <= Dir'.current
    BY <1>2, <1>8, <1>11, <2>1, <2>2
  <2>5. CanReopen'
    BY <1>1 DEF CanReopen
  <2>6. QED
    BY <2>3, <2>4, <2>5 DEF Reopens, Opens
<1>15. LeftNeeds'
  <2>1. /\ Left(vs.number)' = {Len(manifest[n].edits)}
        /\ Edits(vs.number)' = manifest[n].edits
    BY <1>1, <1>2, <1>4, <1>6 DEF Left, Edits
  <2>2. QED
    BY <1>1, <1>7, <1>12, <2>1 DEF LeftNeeds
<1>16. Ready'
  <2>1. Opens(Dir)'
    BY <1>2, <1>8, <1>11 DEF Opens
  <2>2. TablesDurable'
    <3>1. \A i \in DOMAIN dirs' : dirs'[i] = Dir
      BY <1>1
    <3>2. QED
      BY <1>1, <1>10, <1>12, <3>1 DEF TablesDurable
  <2>3. LogInUse'
    BY <1>1, <1>2, <1>4, <1>8 DEF LogInUse
  <2>4. JobTable'
    BY <1>1, <1>2, <1>4, <1>8, <1>12 DEF JobTable
  <2>5. QED
    BY <1>1, <1>2, <1>4, <1>8, <1>15, <2>1, <2>2, <2>3, <2>4 DEF Ready
<1>17. FirstManifest' /\ Loading' /\ Saving' /\ Unused'
  BY <1>1, <1>2, <1>3 DEF FirstManifest, Loading, Saving, Unused
<1>18. QED
  BY <1>6, <1>9, <1>13, <1>14, <1>16, <1>17 DEF Kept, RecoveryInv

LEMMA JobFailsKept ==
  ASSUME NEW S, Before(S), JobFails
  PROVE  Kept(S)
<1> DEFINE d == IF job.at = "build" /\ job.inputs = {} THEN [Dir EXCEPT !.tables = @ \ {job.out}] ELSE Dir
<1>1. /\ at = "open" /\ at' = "open" /\ UNCHANGED <<manifest, vs, todo, fresh, logNumber, created>>
      /\ job # None /\ bgError' = TRUE /\ job' = None
  BY DEF JobFails, Running
<1>2. /\ DirsOK(dirs) /\ MemoryOK(S) /\ Sane(Dir) /\ Machine' = Machine
      /\ OpensWith(Dir, manifest, Machine) /\ Dir.current = vs.number /\ vs.number < vs.next
      /\ LogInUse /\ TablesDurable /\ LeftNeeds /\ JobTable /\ vs.tables \subseteq Dir.tables
  BY <1>1, OpenFacts
<1>3. job.out \in Nat
  BY <1>1, <1>2 DEF MemoryOK, Jobs
<1>4. /\ Sane(d) /\ DirStep(d) /\ d.current = Dir.current /\ d.manifests = Dir.manifests
      /\ d.logs = Dir.logs /\ vs.tables \subseteq d.tables
      /\ (job.at = "build" \/ d = Dir)
  <2>1. CASE job.at = "build" /\ job.inputs = {}
    <3>1. Sane(d)
      BY <1>2, <1>3, <2>1, SaneChanges
    <3>2. DirStep(d)
      BY <2>1 DEF JobFails, Changed, DirStep
    <3>3. job.out \notin vs.tables
      BY <1>1, <1>2, <2>1 DEF JobTable
    <3>4. QED
      BY <1>2, <2>1, <3>1, <3>2, <3>3 DEF Sane, Directory
  <2>2. CASE ~(job.at = "build" /\ job.inputs = {})
    BY <1>2, <2>2 DEF JobFails, DirStep
  <2>3. QED
    BY <2>1, <2>2
<1> HIDE DEF d
<1>5. Dir' = d
  BY <1>2, <1>4, DirsAfter
<1>6. MemoryOK(S)'
  BY <1>1, <1>2 DEF MemoryOK
<1>7. LogInUse' /\ JobTable'
  BY <1>1, <1>2, <1>4, <1>5 DEF LogInUse, JobTable
<1>8. TablesDurable'
  BY <1>1, <1>2, <1>4, DurableKept
<1>9. LeftNeeds'
  BY <1>1 DEF LeftNeeds
<1>10. OpensWith(d, manifest, Machine)
  <2>1. CASE d = Dir
    BY <1>2, <2>1
  <2>2. CASE job.at = "build"
    <3>1. \A k \in LeftOf(manifest[vs.number], Machine) : manifest[vs.number].edits[k].tables \subseteq d.tables
      BY <1>1, <1>2, <1>4, <2>2 DEF LeftNeeds, Left, Edits
    <3>2. QED
      BY <1>2, <1>4, <3>1 DEF OpensWith
  <2>3. QED
    BY <1>4, <2>1, <2>2
<1>11. QED
  BY <1>1, <1>2, <1>4, <1>6, <1>7, <1>8, <1>9, <1>10, StaysOpen

LEMMA ProcessEndsKept ==
  ASSUME NEW S, Before(S), ProcessEnds
  PROVE  Kept(S)
<1>1. /\ DirsOK(dirs) /\ Contents /\ ManifestOK(S) /\ Sane(Dir) /\ Reopens /\ Unused
      /\ Len(dirs) \in DOMAIN dirs /\ Dir = dirs[Len(dirs)] /\ UNCHANGED scenario
  BY DirFacts DEF Before, Typed, RecoveryInv
<1>2. at' = "down" /\ UNCHANGED <<dirs, manifest, created>> /\ ForgetMemory
  BY DEF ProcessEnds, Crashed
<1>3. DirsOK(dirs') /\ Dir' = Dir /\ Contents' /\ ManifestOK(S)' /\ DirStep(Dir)
  BY <1>1, <1>2, SameManifests DEF Contents, Dir, DirStep
<1>4. MemoryOK(S)' /\ logNumber' = 0 /\ ~bgError'
  BY <1>2, Forgotten DEF Before
<1>5. Reopens'
  <2>1. Opened' => OpensWith(Dir, manifest', Machine)
    BY <1>1, <1>2, <1>3 DEF Opened, Reopens, Opens
  <2>2. created = "synced" /\ Machine =>
          Dir.current <= Dir.current /\ \A i \in DOMAIN dirs : OpensWith(dirs[i], manifest', Machine)
    BY <1>1, <1>2 DEF Reopens, Opens
  <2>3. CanReopen'
    BY <1>2 DEF CanReopen
  <2>4. QED
    BY <1>1, <1>2, <1>3, <2>1, <2>2, <2>3, ReopensKept
<1>6. FirstManifest' /\ Loading' /\ Saving' /\ Ready' /\ Unused'
  BY <1>1, <1>2, <1>4, NothingOpen DEF Unused
<1>7. QED
  BY <1>3, <1>4, <1>5, <1>6 DEF Kept, RecoveryInv

\* The manifests a crash of the machine leaves: of each a beginning.
Beginnings(A, count) ==
  [n \in A |-> [edits |-> SubSeq(manifest[n].edits, 1, count[n]), synced |-> count[n]]]

\* The first c edits are left.
Begins(edits, old, c) == Len(edits) = c /\ c \in Nat /\ \A k \in 1..c : edits[k] = old[k]

LEMMA ManifestsLeft ==
  ASSUME NEW S, ManifestOK(S), NEW A, A \subseteq DOMAIN manifest,
         NEW count, \A n \in A : count[n] \in LeftOf(manifest[n], TRUE),
         manifest' = Beginnings(A, count)
  PROVE  /\ ManifestOK(S)' /\ DOMAIN manifest' = A
         /\ \A n \in A : Begins(manifest'[n].edits, manifest[n].edits, count[n])
<1>1. ASSUME NEW n \in A
      PROVE  /\ manifest'[n] \in [edits : Seq(Edit(S)), synced : Nat] /\ count[n] \in Nat
             /\ Len(manifest'[n].edits) = count[n] /\ manifest'[n].synced = count[n]
             /\ DOMAIN manifest'[n].edits = 1..count[n]
             /\ \A k \in 1..count[n] : manifest'[n].edits[k] = manifest[n].edits[k]
             /\ \A k \in DOMAIN manifest'[n].edits : Given(manifest'[n].edits[k])
  <2>1. /\ manifest[n].edits \in Seq(Edit(S)) /\ manifest[n].synced \in Nat
        /\ \A k \in DOMAIN manifest[n].edits : Given(manifest[n].edits[k])
    BY DEF ManifestOK, Edits
  <2>2. PICK c \in Nat : c = count[n] /\ c <= Len(manifest[n].edits)
    BY <2>1 DEF LeftOf
  <2>3. DOMAIN manifest[n].edits = 1..Len(manifest[n].edits)
    BY <2>1
  <2>4. \A k \in 1..c : k \in DOMAIN manifest[n].edits /\ manifest[n].edits[k] \in Edit(S)
    BY <2>1, <2>2, <2>3
  <2> DEFINE kept == SubSeq(manifest[n].edits, 1, c)
  <2>5. /\ kept \in Seq(Edit(S)) /\ Len(kept) = IF 1 <= c THEN c - 1 + 1 ELSE 0
        /\ \A k \in 1..c - 1 + 1 : kept[k] = manifest[n].edits[1 + k - 1]
    <3>1. 1 \in Int /\ c \in Int /\ \A k \in 1..c : manifest[n].edits[k] \in Edit(S)
      BY <2>2, <2>4
    <3> HIDE DEF kept
    <3>2. QED
      BY <3>1, SubSeqProperties DEF kept
  <2> HIDE DEF kept
  <2>6. Len(kept) = c /\ DOMAIN kept = 1..c /\ \A k \in 1..c : kept[k] = manifest[n].edits[k]
    <3>1. Len(kept) = c /\ c - 1 + 1 = c
      BY <2>2, <2>5
    <3>2. \A k \in 1..c : 1 + k - 1 = k
      OBVIOUS
    <3>3. QED
      BY <2>5, <3>1, <3>2
  <2>7. manifest'[n] = [edits |-> kept, synced |-> c]
    BY <2>2 DEF kept, Beginnings
  <2>8. \A k \in 1..c : Given(kept[k])
    BY <2>1, <2>4, <2>6
  <2>9. manifest'[n].edits = kept /\ manifest'[n].synced = c
    BY <2>7
  <2>10. QED
    BY <2>2, <2>5, <2>6, <2>7, <2>8, <2>9
<1>2. DOMAIN manifest' = A /\ manifest' = [n \in A |-> manifest'[n]]
  BY DEF Beginnings
<1>3. manifest' \in [A -> [edits : Seq(Edit(S)), synced : Nat]]
  BY <1>1, <1>2
<1>4. \A n \in A : /\ manifest'[n].synced <= Len(manifest'[n].edits)
                   /\ \A k \in DOMAIN manifest'[n].edits : Given(manifest'[n].edits[k])
  <2>1. ASSUME NEW n \in A
        PROVE  manifest'[n].synced <= Len(manifest'[n].edits)
    <3>1. PICK c \in Nat : c = count[n]
      BY <1>1
    <3>2. manifest'[n].synced = c /\ Len(manifest'[n].edits) = c
      BY <1>1, <3>1
    <3>3. QED
      BY <3>2
  <2>2. ASSUME NEW n \in A
        PROVE  \A k \in DOMAIN manifest'[n].edits : Given(manifest'[n].edits[k])
    BY <1>1
  <2>3. QED
    BY <2>1, <2>2
<1>5. ManifestOK(S)'
  BY <1>2, <1>3, <1>4 DEF ManifestOK, Edits
<1>6. QED
  BY <1>1, <1>2, <1>5 DEF Begins

LEMMA MachineCrashesKept ==
  ASSUME NEW S, Before(S), MachineCrashes
  PROVE  Kept(S)
<1>1. /\ DirsOK(dirs) /\ Contents /\ ManifestOK(S) /\ ProcessOK /\ Reopens /\ Unused
      /\ UNCHANGED scenario
  BY DEF Before, Typed, RecoveryInv
<1>2. /\ Machine /\ at' = "down" /\ ForgetMemory
      /\ created' = IF created \in {"synced", "repair"} THEN created ELSE "no"
  BY DEF MachineCrashes, Crashed, Machine
<1>3. Machine' /\ ~scenario.reuse /\ ~scenario'.reuse
  BY <1>1, <1>2, Reuse DEF Machine
<1>4. PICK i : /\ i \in DOMAIN dirs /\ dirs' = <<dirs[i]>>
               /\ \E count \in Outcomes(dirs[i].manifests,
                                        LAMBDA n : manifest[n].synced..Len(manifest[n].edits)) :
                    manifest' = [n \in dirs[i].manifests |->
                                   [edits |-> SubSeq(manifest[n].edits, 1, count[n]), synced |-> count[n]]]
  BY DEF MachineCrashes
<1> DEFINE d == dirs[i]
<1>5. PICK count : /\ \A n \in d.manifests : count[n] \in LeftOf(manifest[n], TRUE)
                   /\ manifest' = Beginnings(d.manifests, count)
  BY <1>4 DEF Outcomes, Beginnings, LeftOf
<1>6. Sane(d) /\ d.manifests \subseteq DOMAIN manifest /\ DirStep(d)
  BY <1>1, <1>4 DEF DirsOK, Contents, DirStep
<1>7. DirsOK(dirs') /\ Dir' = d /\ DOMAIN dirs' = {1} /\ dirs'[1] = d
  <2>1. DirsOK(dirs') /\ Dir' = d
    <3> HIDE DEF d
    <3> QED
      BY <1>1, <1>6, DirsAfter
  <2>2. DOMAIN dirs' = {1} /\ dirs'[1] = d
    <3>1. dirs' = <<d>>
      BY <1>4
    <3>2. DOMAIN <<d>> = {1} /\ <<d>>[1] = d
      OBVIOUS
    <3>3. QED
      BY <3>1, <3>2
  <2>3. QED
    BY <2>1, <2>2
<1> HIDE DEF d
<1>8. /\ ManifestOK(S)' /\ DOMAIN manifest' = d.manifests
      /\ \A n \in d.manifests : Begins(manifest'[n].edits, manifest[n].edits, count[n])
  BY <1>1, <1>5, <1>6, ManifestsLeft
<1>9. Contents'
  BY <1>7, <1>8 DEF Contents
<1>10. MemoryOK(S)' /\ logNumber' = 0 /\ ~bgError'
  BY <1>2, Forgotten DEF Before
<1>11. created = "synced" => OpensWith(d, manifest', Machine') /\ d.current <= d.current
  <2>1. SUFFICES ASSUME created = "synced" PROVE OpensWith(d, manifest', TRUE) /\ d.current <= d.current
    BY <1>3
  <2> DEFINE m == d.current
  <2>2. OpensWith(d, manifest, TRUE)
    BY <1>1, <1>2, <1>4, <2>1 DEF Reopens, Opens, d
  <2>3. m \in d.manifests /\ m \in Nat /\ m \in DOMAIN manifest
    BY <1>6, <2>2 DEF OpensWith, Sane, Directory
  <2>4. manifest'[m] = [edits |-> SubSeq(manifest[m].edits, 1, count[m]), synced |-> count[m]]
    BY <1>5, <2>3 DEF Beginnings
  <2>5. PICK c \in Nat : c = count[m] /\ Len(manifest'[m].edits) = c /\ manifest'[m].synced = c
    BY <1>8, <2>3, <2>4 DEF Begins
  <2>6. LeftOf(manifest'[m], TRUE) = {c}
    BY <2>5 DEF LeftOf
  <2>7. c \in LeftOf(manifest[m], TRUE)
    BY <1>5, <2>3, <2>5
  <2>8. c > 0 /\ manifest'[m].edits[c] = manifest[m].edits[c]
    <3>1. c > 0
      BY <2>2, <2>7 DEF OpensWith
    <3>2. c \in 1..c
      BY <3>1
    <3>3. QED
      BY <1>8, <2>3, <2>5, <3>1, <3>2 DEF Begins
  <2>9. OpensWith(d, manifest', TRUE)
    BY <2>2, <2>3, <2>6, <2>7, <2>8 DEF OpensWith
  <2>10. d.current \in Nat
    BY <2>3
  <2>11. d.current <= d.current
    BY <2>10
  <2>12. QED
    BY <2>9, <2>11
<1>12. Reopens'
  <2>1. Opened' => created = "synced"
    BY <1>2, <1>3 DEF Opened
  <2>2. Opened' => Opens(Dir)'
    BY <1>7, <1>11, <2>1 DEF Opens
  <2>3. created' = "synced" => \A j \in DOMAIN dirs' : Opens(dirs[j])' /\ dirs'[j].current <= Dir'.current
    BY <1>2, <1>7, <1>11 DEF Opens
  <2>4. CanReopen'
    BY <1>2 DEF CanReopen
  <2>5. QED
    BY <2>2, <2>3, <2>4 DEF Reopens
<1>13. FirstManifest' /\ Loading' /\ Saving' /\ Ready' /\ Unused'
  BY <1>1, <1>2, <1>3, <1>10, NothingOpen
<1>14. QED
  BY <1>7, <1>8, <1>9, <1>10, <1>12, <1>13 DEF Kept, RecoveryInv

-----------------------------------------------------------------------------
(* A repair *)

\* While the database is repaired, and until it is opened after that, nothing is promised.
LEMMA RepairKept ==
  ASSUME NEW S, Before(S), ~scenario.reuse, created' \notin {"opened", "synced"},
         at' \in {"down", "convert", "archive", "describe", "install"},
         at' # "down" => created' = "repair",
         DirsOK(dirs'), ManifestOK(S)', Contents', MemoryOK(S)', logNumber' = 0, ~bgError'
  PROVE  Kept(S)
<1>1. ~scenario'.reuse
  BY DEF Before
<1>2. ~Opened' /\ created' # "synced"
  BY <1>1 DEF Opened
<1>3. CanReopen'
  BY DEF CanReopen
<1>4. Reopens'
  BY <1>2, <1>3 DEF Reopens
<1>5. FirstManifest' /\ Loading' /\ Saving' /\ Ready' /\ Unused'
  BY <1>1, NothingOpen
<1>6. QED
  BY <1>4, <1>5 DEF Kept, RecoveryInv

LEMMA StartRepairKept ==
  ASSUME NEW S, Before(S), StartRepair
  PROVE  Kept(S)
<1>1. /\ DirsOK(dirs) /\ Contents /\ ManifestOK(S) /\ MemoryOK(S) /\ ProcessOK /\ Sane(Dir) /\ Unused
      /\ 0 \in S
  BY DirFacts DEF Before, Typed, RecoveryInv
<1>2. /\ at \in {"down", "corrupt"} /\ at' = "convert" /\ created' = "repair" /\ UNCHANGED <<dirs, manifest>>
      /\ UNCHANGED <<logNumber, fresh, job, bgError>> /\ used.repairs < scenario.repairs
  BY DEF StartRepair, disk
<1>3. ~scenario.reuse
  BY <1>1, <1>2, Reuse DEF ProcessOK
<1>4. DirsOK(dirs') /\ Contents' /\ ManifestOK(S)'
  BY <1>1, <1>2, SameManifests DEF Contents
<1>5. logNumber' = 0 /\ ~bgError'
  BY <1>1, <1>2 DEF Unused
<1> DEFINE used0 == {0} \cup Dir.logs \cup Dir.tables
<1>6. used0 \in SUBSET Nat /\ IsFiniteSet(used0) /\ used0 # {}
  <2>1. IsFiniteSet({0}) /\ IsFiniteSet(Dir.logs) /\ IsFiniteSet(Dir.tables)
    BY <1>1, FS_Singleton DEF Sane
  <2>2. IsFiniteSet({0} \cup Dir.logs)
    BY <2>1, FS_Union
  <2>3. IsFiniteSet(used0)
    BY <2>1, <2>2, FS_Union
  <2>4. QED
    BY <1>1, <2>3 DEF Sane, Directory
<1>7. PICK m \in Nat : m = Max(used0) /\ \A x \in used0 : x <= m
  <2> HIDE DEF used0
  <2> QED
    BY <1>6, FiniteMax
<1>8. vs' \in VersionSet(S) /\ Given(vs')
  <2>1. vs' = [tables |-> Dir.tables, log |-> 0, seq |-> 0, next |-> 1 + m, number |-> 0, logged |-> FALSE]
    BY <1>7 DEF StartRepair, NoVersion
  <2>2. Dir.tables \in SUBSET Nat
    BY <1>1 DEF Sane, Directory
  <2>3. \A t \in Dir.tables : t <= m
    BY <1>7
  <2>4. \A t \in Dir.tables : t < 1 + m
    <3> HIDE DEF used0
    <3>1. \A t \in Nat : t <= m => t < 1 + m
      OBVIOUS
    <3>2. QED
      BY <2>2, <2>3, <3>1
  <2> HIDE DEF used0
  <2>5. QED
    BY <1>1, <2>1, <2>2, <2>4 DEF VersionSet, Given
<1>9. todo' \in Seq(Nat)
  <2>1. Dir.logs \in SUBSET Nat /\ IsFiniteSet(Dir.logs) /\ todo' \in SetToSeqs(Dir.logs)
    BY <1>1 DEF StartRepair, Sane, Directory
  <2>2. QED
    BY <2>1, Sorted
<1>10. MemoryOK(S)'
  BY <1>1, <1>2, <1>8, <1>9 DEF MemoryOK
<1>11. QED
  BY <1>2, <1>3, <1>4, <1>5, <1>10, RepairKept

LEMMA ConvertLogToTableKept ==
  ASSUME NEW S, Before(S), ConvertLogToTable
  PROVE  Kept(S)
<1>1. /\ DirsOK(dirs) /\ Contents /\ ManifestOK(S) /\ MemoryOK(S) /\ Sane(Dir) /\ Unused
      /\ vs \in VersionSet(S) /\ Given(vs)
  BY DirFacts DEF Before, Typed, RecoveryInv, MemoryOK
<1>2. /\ at = "convert" /\ at' = "archive" /\ UNCHANGED <<manifest, created, todo>>
      /\ UNCHANGED <<logNumber, fresh, job, bgError>>
  BY DEF ConvertLogToTable, Repairing
<1>3. created = "repair" /\ ~scenario.reuse /\ logNumber' = 0 /\ ~bgError'
  BY <1>1, <1>2 DEF Unused
<1> DEFINE d == [Dir EXCEPT !.tables = @ \cup {vs.next}]
<1>4. Sane(d) /\ d.manifests = Dir.manifests
  <2>1. vs.next \in Nat
    BY <1>1 DEF VersionSet
  <2>2. QED
    BY <1>1, <2>1, SaneChanges DEF Sane, Directory
<1>5. \/ dirs' = dirs /\ vs' = [vs EXCEPT !.next = @ + 1]
      \/ dirs' = <<d>> /\ vs' = [vs EXCEPT !.tables = @ \cup {vs.next}, !.next = @ + 1]
  BY DEF ConvertLogToTable
<1>6. DirsOK(dirs') /\ Contents' /\ ManifestOK(S)'
  <2>1. Dir.manifests \subseteq DOMAIN manifest'
    BY <1>1, <1>2, DirFacts DEF Contents
  <2>2. DirStep(Dir) \/ DirStep(d)
    BY <1>5 DEF DirStep
  <2>3. DOMAIN manifest \subseteq DOMAIN manifest'
    BY <1>2
  <2> HIDE DEF d
  <2>4. QED
    BY <1>1, <1>2, <1>4, <2>1, <2>2, <2>3, DiskKept, SameManifests
<1>7. vs' \in VersionSet(S) /\ Given(vs')
  <2> HIDE DEF d
  <2>1. vs' \in VersionSet(S)
    <3>1. CASE vs' = [vs EXCEPT !.next = @ + 1]
      BY <1>1, <3>1 DEF VersionSet
    <3>2. CASE vs' = [vs EXCEPT !.tables = @ \cup {vs.next}, !.next = @ + 1]
      <4> DEFINE ts == vs.tables \cup {vs.next}
      <4>1. vs.next \in Nat /\ vs.next + 1 \in Nat /\ ts \in SUBSET Nat
        BY <1>1 DEF VersionSet
      <4>2. vs' = [vs EXCEPT !.tables = ts, !.next = vs.next + 1]
        BY <3>2
      <4> HIDE DEF ts
      <4>3. QED
        BY <1>1, <4>1, <4>2 DEF VersionSet
    <3>3. QED
      BY <1>5, <3>1, <3>2
  <2>2. /\ vs'.log = vs.log /\ vs'.next = vs.next + 1 /\ vs'.tables \subseteq vs.tables \cup {vs.next}
        /\ vs.next \in Nat /\ vs.log \in Nat /\ vs.tables \in SUBSET Nat
    BY <1>1, <1>5 DEF VersionSet
  <2>3. vs'.log < vs'.next /\ \A t \in vs.tables \cup {vs.next} : t < vs'.next
    BY <1>1, <2>2 DEF Given
  <2>4. QED
    BY <2>1, <2>2, <2>3 DEF Given
<1>8. MemoryOK(S)'
  BY <1>1, <1>2, <1>7 DEF MemoryOK
<1>9. QED
  BY <1>2, <1>3, <1>6, <1>8, RepairKept

LEMMA ArchiveLogKept ==
  ASSUME NEW S, Before(S), ArchiveLog
  PROVE  Kept(S)
<1>1. /\ DirsOK(dirs) /\ Contents /\ ManifestOK(S) /\ MemoryOK(S) /\ Sane(Dir) /\ Unused
  BY DirFacts DEF Before, Typed, RecoveryInv
<1>2. /\ at = "archive" /\ at' = "convert" /\ UNCHANGED <<manifest, created, vs>> /\ todo' = Tail(todo)
      /\ UNCHANGED <<logNumber, fresh, job, bgError>>
  BY DEF ArchiveLog, Repairing
<1>3. created = "repair" /\ ~scenario.reuse /\ logNumber' = 0 /\ ~bgError'
  BY <1>1, <1>2 DEF Unused
<1> DEFINE d == Without(Dir, {<<"log", Head(todo)>>})
<1>4. Sane(d) /\ d.manifests \subseteq Dir.manifests /\ DirStep(d)
  <2>1. Sane(d)
    <3>1. \A A : Sane(Without(Dir, A))
      BY <1>1, SaneChanges
    <3>2. QED
      BY <3>1
  <2>2. d.manifests \subseteq Dir.manifests
    BY <1>1 DEF Without, Sane, Directory
  <2>3. DirStep(d)
    BY DEF ArchiveLog, Changed, DirStep
  <2>4. QED
    BY <2>1, <2>2, <2>3
<1>5. DirsOK(dirs') /\ Contents' /\ ManifestOK(S)'
  <2>1. d.manifests \subseteq DOMAIN manifest'
    BY <1>1, <1>2, <1>4, DirFacts DEF Contents
  <2>2. DOMAIN manifest \subseteq DOMAIN manifest'
    BY <1>2
  <2> HIDE DEF d
  <2>3. QED
    BY <1>1, <1>2, <1>4, <2>1, <2>2, DiskKept, SameManifests
<1>6. todo' \in Seq(Nat)
  <2>1. todo \in Seq(Nat)
    BY <1>1 DEF MemoryOK
  <2>2. CASE todo = <<>>
    <3>1. Tail(<<>>) = <<>> /\ <<>> \in Seq(Nat)
      OBVIOUS
    <3>2. QED
      BY <1>2, <2>2, <3>1
  <2>3. CASE todo # <<>>
    BY <1>2, <2>1, <2>3, HeadTailProperties
  <2>4. QED
    BY <2>2, <2>3
<1>7. MemoryOK(S)'
  BY <1>1, <1>2, <1>6 DEF MemoryOK
<1>8. QED
  BY <1>2, <1>3, <1>5, <1>7, RepairKept

LEMMA ExtractMetaDataKept ==
  ASSUME NEW S, Before(S), ExtractMetaData
  PROVE  Kept(S)
<1>1. /\ DirsOK(dirs) /\ Contents /\ ManifestOK(S) /\ MemoryOK(S) /\ Sane(Dir) /\ Unused
      /\ vs \in VersionSet(S) /\ Given(vs)
  BY DirFacts DEF Before, Typed, RecoveryInv, MemoryOK
<1>2. /\ at = "convert" /\ at' = "describe" /\ UNCHANGED <<manifest, created, todo>>
      /\ UNCHANGED <<logNumber, fresh, job, bgError>>
  BY DEF ExtractMetaData, Repairing
<1>3. created = "repair" /\ ~scenario.reuse /\ logNumber' = 0 /\ ~bgError'
  BY <1>1, <1>2 DEF Unused
<1>4. PICK bad : /\ dirs' = IF bad = {} THEN dirs ELSE Changed(Without(Dir, {"table"} \X bad))
                 /\ vs' = [vs EXCEPT !.tables = @ \ bad]
  BY DEF ExtractMetaData
<1> DEFINE d == Without(Dir, {"table"} \X bad)
<1>5. Sane(d) /\ d.manifests \subseteq Dir.manifests /\ (DirStep(d) \/ DirStep(Dir))
  <2>1. Sane(d)
    <3>1. \A A : Sane(Without(Dir, A))
      BY <1>1, SaneChanges
    <3>2. QED
      BY <3>1
  <2>2. d.manifests \subseteq Dir.manifests
    BY <1>1 DEF Without, Sane, Directory
  <2>3. dirs' = dirs \/ dirs' = Append(dirs, d)
    BY <1>4 DEF Changed
  <2>4. DirStep(d) \/ DirStep(Dir)
    BY <2>3 DEF DirStep
  <2>5. QED
    BY <2>1, <2>2, <2>4
<1>6. DirsOK(dirs') /\ Contents' /\ ManifestOK(S)'
  <2>1. d.manifests \subseteq DOMAIN manifest' /\ Dir.manifests \subseteq DOMAIN manifest'
    BY <1>1, <1>2, <1>5, DirFacts DEF Contents
  <2>2. DOMAIN manifest \subseteq DOMAIN manifest'
    BY <1>2
  <2> HIDE DEF d
  <2>3. QED
    BY <1>1, <1>2, <1>5, <2>1, <2>2, DiskKept, SameManifests
<1>7. vs' \in VersionSet(S) /\ Given(vs')
  BY <1>1, <1>4 DEF VersionSet, Given
<1>8. MemoryOK(S)'
  BY <1>1, <1>2, <1>7 DEF MemoryOK
<1>9. QED
  BY <1>2, <1>3, <1>6, <1>8, RepairKept

LEMMA WriteDescriptorKept ==
  ASSUME NEW S, Before(S), WriteDescriptor, MaxSeq(UNION {table[n] : n \in vs.tables}, 0) \in S
  PROVE  Kept(S)
<1>1. /\ DirsOK(dirs) /\ Contents /\ ManifestOK(S) /\ MemoryOK(S) /\ Sane(Dir) /\ Unused
      /\ vs \in VersionSet(S) /\ Given(vs)
  BY DirFacts DEF Before, Typed, RecoveryInv, MemoryOK
<1>2. /\ at = "describe" /\ at' = "install" /\ UNCHANGED <<created, vs, todo>>
      /\ UNCHANGED <<logNumber, fresh, job, bgError>>
  BY DEF WriteDescriptor, Repairing
<1>3. created = "repair" /\ ~scenario.reuse /\ logNumber' = 0 /\ ~bgError'
  BY <1>1, <1>2 DEF Unused
<1> DEFINE seq == MaxSeq(UNION {table[n] : n \in vs.tables}, 0)
           v == State([vs EXCEPT !.seq = seq])
           d == [Dir EXCEPT !.manifests = {}]
           e == [Dir EXCEPT !.manifests = {1}]
<1>4. v \in Edit(S) /\ Given(v)
  <2>1. seq \in S
    OBVIOUS
  <2> HIDE DEF seq
  <2>2. QED
    BY <1>1, <2>1 DEF State, Edit, VersionSet, Given
<1>5. manifest' = With(manifest, 1, [edits |-> <<v>>, synced |-> 0])
  BY DEF WriteDescriptor
<1> HIDE DEF v, seq
<1>6. ManifestOK(S)' /\ DOMAIN manifest' = DOMAIN manifest \cup {1}
  BY <1>1, <1>4, <1>5, ManifestChanges
<1>7. /\ Sane(d) /\ Sane(e) /\ d.manifests = {} /\ e.manifests = {1}
  BY <1>1, SaneChanges DEF Sane, Directory
<1>8. dirs' = Append(Append(dirs, d), e)
  BY DEF WriteDescriptor, Changed
<1> HIDE DEF d, e
<1>9. PICK mid : mid = Append(dirs, d)
  OBVIOUS
<1>10. DirsOK(mid) /\ \A i \in DOMAIN mid : mid[i].manifests \subseteq DOMAIN manifest'
  <2>1. /\ DirsOK(mid)
        /\ \A i \in DOMAIN mid : \/ i = Len(mid) /\ mid[i] = d
                                 \/ i # Len(mid) /\ \E j \in DOMAIN dirs : mid[i] = dirs[j]
    <3>1. mid \in {Append(dirs, d), <<d>>, <<Last(dirs), d>>}
      BY <1>9
    <3>2. QED
      BY <1>1, <1>7, <3>1, DirsChange
  <2>2. QED
    BY <1>1, <1>6, <1>7, <2>1 DEF Contents
<1>11. DirsOK(dirs') /\ \A i \in DOMAIN dirs' : dirs'[i].manifests \subseteq DOMAIN manifest'
  <2>1. PICK new : new = dirs'
    OBVIOUS
  <2>2. /\ DirsOK(new)
        /\ \A i \in DOMAIN new : \/ i = Len(new) /\ new[i] = e
                                 \/ i # Len(new) /\ \E j \in DOMAIN mid : new[i] = mid[j]
    <3>1. new \in {Append(mid, e), <<e>>, <<Last(mid), e>>}
      BY <1>8, <1>9, <2>1
    <3>2. QED
      BY <1>7, <1>10, <3>1, DirsChange
  <2>3. \A i \in DOMAIN new : new[i].manifests \subseteq DOMAIN manifest'
    BY <1>6, <1>7, <1>10, <2>2
  <2>4. QED
    BY <2>1, <2>2, <2>3
<1>12. Contents'
  BY <1>11 DEF Contents
<1>13. MemoryOK(S)'
  BY <1>1, <1>2 DEF MemoryOK
<1>14. QED
  BY <1>2, <1>3, <1>6, <1>11, <1>12, <1>13, RepairKept

LEMMA InstallDescriptorKept ==
  ASSUME NEW S, Before(S), InstallDescriptor
  PROVE  Kept(S)
<1>1. /\ DirsOK(dirs) /\ Contents /\ ManifestOK(S) /\ MemoryOK(S) /\ Sane(Dir) /\ Unused /\ 0 \in S
  BY DirFacts DEF Before, Typed, RecoveryInv
<1>2. /\ at = "install" /\ at' = "down" /\ created' = "no" /\ UNCHANGED <<manifest, todo>>
      /\ vs' = NoVersion /\ UNCHANGED <<logNumber, fresh, job, bgError>>
  BY DEF InstallDescriptor, Repairing
<1>3. ~scenario.reuse /\ logNumber' = 0 /\ ~bgError'
  BY <1>1, <1>2 DEF Unused
<1> DEFINE d == [Dir EXCEPT !.current = 1]
<1>4. Sane(d) /\ d.manifests = Dir.manifests /\ DirStep(d)
  BY <1>1, SaneChanges DEF InstallDescriptor, SetCurrentFile, DirStep, Sane, Directory
<1>5. DirsOK(dirs') /\ Contents' /\ ManifestOK(S)'
  <2>1. d.manifests \subseteq DOMAIN manifest'
    BY <1>1, <1>2, <1>4, DirFacts DEF Contents
  <2>2. DOMAIN manifest \subseteq DOMAIN manifest'
    BY <1>2
  <2> HIDE DEF d
  <2>3. QED
    BY <1>1, <1>2, <1>4, <2>1, <2>2, DiskKept, SameManifests
<1>6. vs' \in VersionSet(S) /\ Given(vs')
  BY <1>1, <1>2 DEF NoVersion, VersionSet, Given
<1>7. MemoryOK(S)'
  BY <1>1, <1>2, <1>6 DEF MemoryOK
<1>8. QED
  BY <1>2, <1>3, <1>5, <1>7, RepairKept

-----------------------------------------------------------------------------
(* All steps *)

RecoveryIInv == (\E S : Typed(S)) /\ RecoveryInv

LEMMA MoreNumbers ==
  ASSUME NEW S, NEW T, S \subseteq T, Typed(S)
  PROVE  Typed(T)
<1>1. Edit(S) \subseteq Edit(T)
  BY DEF Edit
<1>2. ManifestOK(T)
  <2>1. /\ manifest \in [DOMAIN manifest -> [edits : Seq(Edit(S)), synced : Nat]]
        /\ \A n \in DOMAIN manifest :
             /\ manifest[n].synced <= Len(Edits(n))
             /\ \A k \in DOMAIN Edits(n) : Given(Edits(n)[k])
    BY DEF Typed, ManifestOK
  <2>2. Seq(Edit(S)) \subseteq Seq(Edit(T))
    <3> HIDE DEF Edit
    <3>1. ASSUME NEW s \in Seq(Edit(S))
          PROVE  s \in Seq(Edit(T))
      <4>1. PICK n \in Nat : s \in [1..n -> Edit(S)]
        OBVIOUS
      <4>2. s \in [1..n -> Edit(T)]
        BY <1>1, <4>1
      <4>3. QED
        BY <4>2
    <3>2. QED
      BY <3>1
  <2>3. [edits : Seq(Edit(S)), synced : Nat] \subseteq [edits : Seq(Edit(T)), synced : Nat]
    BY <2>2
  <2>4. manifest \in [DOMAIN manifest -> [edits : Seq(Edit(T)), synced : Nat]]
    BY <2>1, <2>3
  <2>5. QED
    BY <2>1, <2>4 DEF ManifestOK
<1>3. MemoryOK(T)
  BY DEF Typed, MemoryOK, VersionSet
<1>4. QED
  BY <1>2, <1>3 DEF Typed

LEMMA InitInv ==
  ASSUME Init
  PROVE  RecoveryIInv
<1> DEFINE S == {0}
<1>1. DirsOK(dirs) /\ Dir = EmptyDir /\ DOMAIN dirs = {1} /\ dirs[1] = EmptyDir
  <2>1. dirs = <<EmptyDir>> /\ Len(dirs) = 1 /\ DOMAIN dirs = {1} /\ dirs[1] = EmptyDir /\ dirs # <<>>
    BY DEF Init
  <2>2. Sane(EmptyDir)
    BY FS_EmptySet DEF EmptyDir, Sane, Directory
  <2>3. QED
    BY <2>1, <2>2 DEF DirsOK, Dir, Last, Sane
<1>2. ManifestOK(S) /\ Contents
  <2>1. DOMAIN manifest = {} /\ manifest = [n \in {} |-> 0]
    BY DEF Init
  <2>2. ManifestOK(S)
    BY <2>1 DEF ManifestOK
  <2>3. QED
    BY <1>1, <2>2 DEF Contents, EmptyDir
<1>3. MemoryOK(S)
  <2>1. vs \in VersionSet(S) /\ Given(vs)
    BY DEF Init, NoVersion, VersionSet, Given
  <2>2. todo \in Seq(Nat)
    BY DEF Init
  <2>3. QED
    BY <2>1, <2>2 DEF Init, MemoryOK
<1>4. ProcessOK
  BY DEF Init, ProcessOK
<1>5. Typed(S)
  BY <1>1, <1>2, <1>3, <1>4 DEF Typed
<1>6. ~Opened /\ created = "no" /\ at = "down" /\ logNumber = 0 /\ ~bgError
  BY <1>1 DEF Init, Opened, EmptyDir
<1>7. RecoveryInv
  BY <1>6 DEF RecoveryInv, Reopens, CanReopen, FirstManifest, Loading, Saving, Ready, Unused
<1>8. QED
  BY <1>5, <1>7 DEF RecoveryIInv

LEMMA StepKept ==
  ASSUME RecoveryIInv, [Next]_vars
  PROVE  RecoveryIInv'
<1>1. PICK R : Typed(R)
  BY DEF RecoveryIInv
<1>2. PICK S : 0 \in S /\ vs'.seq \in S /\ MaxSeq(UNION {table[n] : n \in vs.tables}, 0) \in S /\ R \subseteq S
  <2>1. PICK x : x = MaxSeq(UNION {table[n] : n \in vs.tables}, 0)
    OBVIOUS
  <2> DEFINE T == R \cup {0, vs'.seq, x}
  <2>2. 0 \in T /\ vs'.seq \in T /\ x \in T /\ R \subseteq T
    OBVIOUS
  <2> HIDE DEF T
  <2>3. QED
    BY <2>1, <2>2
<1>3. Typed(S)
  BY <1>1, <1>2, MoreNumbers
<1>4. ProcessOK' /\ UNCHANGED scenario
  BY <1>3, ProcessKept DEF Typed
<1>5. Before(S)
  BY <1>2, <1>3, <1>4 DEF Before, RecoveryIInv
<1>6. CASE UNCHANGED vars
  <2>1. UNCHANGED <<scenario, dirs, log, manifest, table, at, vs, logNumber, mem, imm, todo, fresh,
                    writer, job, bgError, promised, created, used>>
    BY <1>6 DEF vars, disk, memory, ghosts
  <2>2. Typed(S)'
    <3>1. DirsOK(dirs) /\ Contents /\ MemoryOK(S) /\ ManifestOK(S)
      BY <1>3 DEF Typed
    <3>2. dirs' = dirs /\ manifest' = manifest
      BY <2>1
    <3>3. DirsOK(dirs') /\ Contents'
      BY <3>1, <3>2 DEF Contents
    <3>4. MemoryOK(S)'
      BY <2>1, <3>1 DEF MemoryOK
    <3>5. ManifestOK(S)'
      BY <3>1, <3>2, SameManifests
    <3>6. QED
      BY <1>4, <3>3, <3>4, <3>5 DEF Typed
  <2>3. Machine' = Machine /\ Opened' = Opened /\ Dir' = Dir
    BY <2>1 DEF Machine, Opened, Dir
  <2>4. RecoveryInv
    BY DEF RecoveryIInv
  <2>5. Reopens'
    BY <2>1, <2>3, <2>4 DEF RecoveryInv, Reopens, Opens, CanReopen
  <2>6. NewNumber' = NewNumber /\ LogInUse' = LogInUse /\ \A n : Edits(n)' = Edits(n)
    BY <2>1, <2>3 DEF NewNumber, LogInUse, Edits
  <2>7. FirstManifest'
    BY <2>1, <2>3, <2>4, <2>6 DEF RecoveryInv, FirstManifest, Edits
  <2>8. Loading'
    BY <2>1, <2>3, <2>4, <2>6 DEF RecoveryInv, Loading, Edits
  <2>9. Saving'
    BY <2>1, <2>3, <2>4, <2>6 DEF RecoveryInv, Saving, Edits
  <2>10. Ready'
    BY <2>1, <2>3, <2>4, <2>6
       DEF RecoveryInv, Ready, Opens, TablesDurable, LeftNeeds, JobTable, Left, Edits, Edited, FlushedLog
  <2>11. Unused'
    BY <2>1, <2>4 DEF RecoveryInv, Unused
  <2>12. QED
    BY <2>2, <2>5, <2>7, <2>8, <2>9, <2>10, <2>11 DEF RecoveryIInv, RecoveryInv
<1>7. CASE Next
  <2>1. Kept(S)
    <3>1. CASE NewDB \/ NameFirstManifest \/ ReadManifest \/ ReplayLog \/ CreateLog
      BY <1>2, <1>5, <3>1, NewDBKept, NameFirstManifestKept, ReadManifestKept, ReplayLogKept, CreateLogKept
    <3>2. CASE SaveManifest \/ SyncManifest \/ NameManifest \/ OpenReturns \/ OpenFails
      BY <1>5, <3>2, SaveManifestKept, SyncManifestKept, NameManifestKept, OpenReturnsKept, OpenFailsKept
    <3>3. CASE \/ \E n \in scenario.sizes : AppendRecord(n) \/ AppendFails(n)
               \/ \E sync \in BOOLEAN : EndWrite(sync)
               \/ SyncFails
      BY <1>2, <1>5, <3>3, WritersKept
    <3>4. CASE SwitchMemTable \/ StartFlush \/ StartMerge \/ FinishTable \/ LogEdit
      BY <1>5, <3>4, SwitchMemTableKept, StartKept, FinishTableKept, LogEditKept
    <3>5. CASE InstallEdit \/ JobDone \/ JobFails \/ ProcessEnds \/ MachineCrashes
      BY <1>5, <3>5, InstallEditKept, JobDoneKept, JobFailsKept, ProcessEndsKept, MachineCrashesKept
    <3>6. CASE \/ StartRepair \/ ConvertLogToTable \/ ArchiveLog \/ ExtractMetaData
               \/ WriteDescriptor \/ InstallDescriptor
      BY <1>2, <1>5, <3>6, StartRepairKept, ConvertLogToTableKept, ArchiveLogKept, ExtractMetaDataKept,
         WriteDescriptorKept, InstallDescriptorKept
    <3>7. QED
      BY <1>7, <3>1, <3>2, <3>3, <3>4, <3>5, <3>6 DEF Next
  <2>2. Typed(S)' /\ RecoveryInv'
    BY <1>4, <2>1 DEF Kept, Typed
  <2>3. QED
    BY <2>2 DEF RecoveryIInv
<1>8. QED
  BY <1>6, <1>7

-----------------------------------------------------------------------------
(* What follows *)

\* At every step - of an Open, a write, a flush, a merge, a repair, after a failure or a
\* crash - the directories a crash may leave, with any part of the manifests that it may
\* leave, hold a manifest that can be read and all tables it names.
THEOREM RecoveryInvariant == Spec => []RecoveryIInv
<1>1. Init => RecoveryIInv
  BY InitInv
<1>2. RecoveryIInv /\ [Next]_vars => RecoveryIInv'
  BY StepKept
<1>3. QED
  BY <1>1, <1>2, PTL DEF Spec

\* No crash, failure or repair at whatever step of leveldb leaves a database that has been
\* opened (and synced, if the machine stops) in a state that DB::Open refuses.
THEOREM AlwaysReopens == Spec => []CanReopen
<1>1. RecoveryIInv => CanReopen
  BY DEF RecoveryIInv, RecoveryInv, Reopens
<1>2. QED
  BY <1>1, RecoveryInvariant, PTL

\* The open database's manifest, log and tables are in the directory, under numbers below
\* those to be given next; writes and background work are under way only in an open one.
THEOREM RecoveryTypes == Spec => []TypeOK
<1>1. ASSUME RecoveryIInv PROVE TypeOK
  <2>1. PICK S : Typed(S)
    BY <1>1 DEF RecoveryIInv
  <2>2. writer # None \/ job # None => at = "open"
    BY <2>1 DEF Typed, ProcessOK
  <2>3. ASSUME at = "open"
        PROVE  /\ Dir.current = vs.number /\ vs.number \in Dir.manifests
               /\ logNumber \in Dir.logs /\ vs.log <= logNumber /\ logNumber < vs.next
               /\ vs.tables \subseteq Dir.tables /\ \A n \in vs.tables : n < vs.next
    <3>1. Ready
      BY <1>1 DEF RecoveryIInv, RecoveryInv
    <3>2. Opens(Dir) /\ Dir.current = vs.number /\ LogInUse /\ TablesDurable
      BY <2>3, <3>1 DEF Ready
    <3>3. Len(dirs) \in DOMAIN dirs /\ Dir = dirs[Len(dirs)] /\ Given(vs)
      BY <2>1, DirFacts DEF Typed, MemoryOK
    <3>4. QED
      BY <3>2, <3>3 DEF Opens, OpensWith, LogInUse, TablesDurable, Given
  <2>4. QED
    BY <2>2, <2>3 DEF TypeOK
<1>2. QED
  BY <1>1, RecoveryInvariant, PTL

-----------------------------------------------------------------------------
(* Finished tables *)

\* The directories a crash may leave.
MayBeLeft(i) == Machine \/ i = Len(dirs)
Names(d) == d.current # None /\ d.current \in d.manifests

\* Those of the tables that a directory's manifest names which are there are among T.
FinishedIn(d, m, T) ==
  Names(d) => \A k \in DOMAIN m[d.current].edits : m[d.current].edits[k].tables \cap d.tables \subseteq T

\* The manifest has given no number from n on.
NumbersBelow(d, m, n) ==
  Names(d) => \A k \in DOMAIN m[d.current].edits : m[d.current].edits[k].next <= n

Named == {"name", "delete", "open"}
Loaded == {"replay", "save", "sync"} \cup Named

\* The edits of one manifest give ever more numbers.
EditsInOrder ==
  \A n \in DOMAIN manifest : \A k, l \in DOMAIN Edits(n) :
    k <= l => Edits(n)[k].next <= Edits(n)[l].next

NamedFinished ==
  \A i \in DOMAIN dirs : MayBeLeft(i) => FinishedIn(dirs[i], manifest, DOMAIN table)

\* So are those of the version in memory, and the one that an edit under way adds.
InUseFinished ==
  /\ at \in Loaded \cup {"describe", "install"} => vs.tables \subseteq DOMAIN table
  /\ at = "install" => \A k \in DOMAIN Edits(1) : Edits(1)[k].tables \subseteq DOMAIN table
  /\ job # None /\ job.at \in {"log", "sync"} => job.out \in DOMAIN table

\* The next number has been given to no table that a crash may bring back; until CURRENT
\* may name the manifest of this life, those count that the last directory brings back.
NextIsNew ==
  \A i \in DOMAIN dirs :
    /\ MayBeLeft(i)
    /\ (i = Len(dirs) /\ at \in Loaded) \/ at \in Named
    => NumbersBelow(dirs[i], manifest, vs.next)

FinishedInv == EditsInOrder /\ NamedFinished /\ InUseFinished /\ NextIsNew

Numbered ==
  \A n \in DOMAIN manifest : \A k \in DOMAIN Edits(n) :
    Edits(n)[k].tables \in SUBSET Nat /\ Edits(n)[k].next \in Nat /\ Given(Edits(n)[k])

Around(S, T) == Typed(S) /\ Typed(T)' /\ RecoveryInv /\ FinishedInv /\ UNCHANGED scenario

LEMMA AroundFacts ==
  ASSUME NEW S, NEW T, Around(S, T)
  PROVE  /\ DirsOK(dirs) /\ Sane(Dir) /\ Len(dirs) \in DOMAIN dirs /\ Dir = dirs[Len(dirs)]
         /\ Contents /\ Contents' /\ Numbered /\ Numbered' /\ Machine' = Machine
         /\ vs \in VersionSet(S) /\ vs.next \in Nat /\ vs'.next \in Nat /\ Given(vs)
         /\ vs.tables \in SUBSET Nat /\ vs.number \in Nat
         /\ EditsInOrder /\ NamedFinished /\ InUseFinished /\ NextIsNew
<1>1. DirsOK(dirs) /\ Contents /\ Contents' /\ vs \in VersionSet(S) /\ vs' \in VersionSet(T) /\ Given(vs)
  BY DEF Around, Typed, MemoryOK
<1>2. Numbered
  <2>1. ManifestOK(S)
    BY DEF Around, Typed
  <2>2. ASSUME NEW n \in DOMAIN manifest, NEW k \in DOMAIN Edits(n)
        PROVE  Edits(n)[k] \in Edit(S) /\ Given(Edits(n)[k])
    BY <2>1, <2>2 DEF ManifestOK, Edits
  <2>3. QED
    BY <2>2 DEF Numbered, Edit
<1>3. Numbered'
  <2>1. ManifestOK(T)'
    BY DEF Around, Typed
  <2>2. ASSUME NEW n \in DOMAIN manifest', NEW k \in DOMAIN Edits(n)'
        PROVE  Edits(n)'[k] \in Edit(T) /\ Given(Edits(n)'[k])
    BY <2>1, <2>2 DEF ManifestOK, Edits
  <2>3. QED
    BY <2>2 DEF Numbered, Edit
<1>4. QED
  BY <1>1, <1>2, <1>3, DirFacts DEF Around, FinishedInv, VersionSet, Machine

\* Each edit is an earlier one in its place, or v.
NewEdits(v) ==
  \A n \in DOMAIN manifest' : \A k \in DOMAIN Edits(n)' :
    \/ n \in DOMAIN manifest /\ k \in DOMAIN Edits(n) /\ Edits(n)'[k] = Edits(n)[k]
    \/ Edits(n)'[k] = v

SameEdits == DOMAIN manifest' = DOMAIN manifest /\ \A n \in DOMAIN manifest : Edits(n)' = Edits(n)

\* A step that loses no file's contents, and whose edit names finished tables only.
DiskStep(v) ==
  /\ NewEdits(v) /\ DOMAIN manifest \subseteq DOMAIN manifest'
  /\ v.tables \subseteq DOMAIN table' /\ DOMAIN table \subseteq DOMAIN table'

LEMMA FinishedLater ==
  ASSUME NEW d, d.manifests \subseteq DOMAIN manifest, FinishedIn(d, manifest, DOMAIN table),
         NEW v, DiskStep(v),
         NEW e, e.current = d.current, e.current \in e.manifests => e.current \in d.manifests,
         e.tables \subseteq d.tables \cup DOMAIN table'
  PROVE  FinishedIn(e, manifest', DOMAIN table')
<1>1. SUFFICES ASSUME Names(e), NEW k \in DOMAIN manifest'[e.current].edits
               PROVE  manifest'[e.current].edits[k].tables \cap e.tables \subseteq DOMAIN table'
  BY DEF FinishedIn
<1>2. /\ Names(d) /\ d.current \in DOMAIN manifest /\ d.current \in DOMAIN manifest'
      /\ DOMAIN table \subseteq DOMAIN table' /\ v.tables \subseteq DOMAIN table'
  BY <1>1 DEF Names, DiskStep
<1>3. CASE /\ k \in DOMAIN manifest[d.current].edits
           /\ manifest'[d.current].edits[k] = manifest[d.current].edits[k]
  <2>1. manifest[d.current].edits[k].tables \cap d.tables \subseteq DOMAIN table
    BY <1>2, <1>3 DEF FinishedIn
  <2>2. QED
    BY <1>2, <1>3, <2>1
<1>4. CASE manifest'[d.current].edits[k] = v
  BY <1>2, <1>4
<1>5. QED
  BY <1>1, <1>2, <1>3, <1>4 DEF DiskStep, NewEdits, Edits

LEMMA BelowLater ==
  ASSUME Numbered, NEW d, d.manifests \subseteq DOMAIN manifest, NumbersBelow(d, manifest, vs.next),
         NEW v, NewEdits(v), DOMAIN manifest \subseteq DOMAIN manifest',
         vs.next \in Nat, vs'.next \in Nat, vs.next <= vs'.next, v.next <= vs'.next,
         NEW e, e.current = d.current, e.current \in e.manifests => e.current \in d.manifests
  PROVE  NumbersBelow(e, manifest', vs'.next)
<1>1. SUFFICES ASSUME Names(e), NEW k \in DOMAIN manifest'[e.current].edits
               PROVE  manifest'[e.current].edits[k].next <= vs'.next
  BY DEF NumbersBelow
<1>2. Names(d) /\ d.current \in DOMAIN manifest /\ d.current \in DOMAIN manifest'
  BY <1>1 DEF Names
<1>3. CASE /\ k \in DOMAIN manifest[d.current].edits
           /\ manifest'[d.current].edits[k] = manifest[d.current].edits[k]
  <2>1. /\ manifest[d.current].edits[k].next <= vs.next
        /\ manifest[d.current].edits[k].next \in Nat
    BY <1>2, <1>3 DEF NumbersBelow, Numbered, Edits
  <2>2. QED
    BY <1>3, <2>1
<1>4. CASE manifest'[d.current].edits[k] = v
  BY <1>4
<1>5. QED
  BY <1>1, <1>2, <1>3, <1>4 DEF NewEdits, Edits

\* What the invariant says of directories, after a step that ends in d.
LEMMA NamedKept ==
  ASSUME DirsOK(dirs), Contents, NamedFinished, Machine' = Machine,
         NEW d, Sane(d), DirStep(d), NEW v, DiskStep(v),
         FinishedIn(d, manifest', DOMAIN table')
  PROVE  NamedFinished'
<1>1. ASSUME NEW i \in DOMAIN dirs', MayBeLeft(i)'
      PROVE  FinishedIn(dirs'[i], manifest', DOMAIN table')
  <2>1. CASE i = Len(dirs') /\ dirs'[i] = d
    BY <2>1
  <2>2. CASE i # Len(dirs') /\ \E j \in DOMAIN dirs : dirs'[i] = dirs[j]
    <3>1. PICK j \in DOMAIN dirs : dirs'[i] = dirs[j]
      BY <2>2
    <3>2. Machine
      BY <1>1, <2>2 DEF MayBeLeft
    <3>3. FinishedIn(dirs[j], manifest, DOMAIN table) /\ dirs[j].manifests \subseteq DOMAIN manifest
      BY <3>2 DEF NamedFinished, MayBeLeft, Contents
    <3>4. PICK e : e = dirs[j]
      OBVIOUS
    <3>5. FinishedIn(e, manifest', DOMAIN table')
      BY <3>3, <3>4, FinishedLater
    <3>6. QED
      BY <3>1, <3>4, <3>5
  <2>3. QED
    BY <2>1, <2>2, DirsAfter
<1>2. QED
  BY <1>1 DEF NamedFinished

LEMMA NextKept ==
  ASSUME NEW S, NEW T, Around(S, T), NEW d, Sane(d), DirStep(d),
         NEW v, NewEdits(v), DOMAIN manifest \subseteq DOMAIN manifest',
         at' \in Loaded => /\ vs.next <= vs'.next /\ v.next <= vs'.next
                           /\ NumbersBelow(d, manifest', vs'.next),
         at' \in Named => at \in Named \/ ~Machine \/ dirs' = <<d>>
  PROVE  NextIsNew'
<1>1. /\ DirsOK(dirs) /\ Contents /\ Numbered /\ Machine' = Machine /\ NextIsNew
      /\ vs.next \in Nat /\ vs'.next \in Nat
  BY AroundFacts
<1>2. ASSUME NEW i \in DOMAIN dirs', MayBeLeft(i)', (i = Len(dirs') /\ at' \in Loaded) \/ at' \in Named
      PROVE  NumbersBelow(dirs'[i], manifest', vs'.next)
  <2>1. at' \in Loaded
    BY <1>2 DEF Loaded
  <2>2. CASE i = Len(dirs') /\ dirs'[i] = d
    BY <2>1, <2>2
  <2>3. CASE i # Len(dirs') /\ \E j \in DOMAIN dirs : dirs'[i] = dirs[j]
    <3>1. PICK j \in DOMAIN dirs : dirs'[i] = dirs[j]
      BY <2>3
    <3>2. Machine /\ at' \in Named
      BY <1>1, <1>2, <2>3 DEF MayBeLeft
    <3>3. ~(dirs' = <<d>>)
      <4>1. Len(<<d>>) = 1 /\ DOMAIN <<d>> = {1}
        OBVIOUS
      <4>2. QED
        BY <2>3, <4>1
    <3>4. NumbersBelow(dirs[j], manifest, vs.next) /\ dirs[j].manifests \subseteq DOMAIN manifest
      BY <1>1, <3>2, <3>3 DEF NextIsNew, MayBeLeft, Contents
    <3>5. PICK e : e = dirs[j]
      OBVIOUS
    <3>6. NumbersBelow(e, manifest', vs'.next)
      BY <1>1, <2>1, <3>4, <3>5, BelowLater
    <3>7. QED
      BY <3>1, <3>5, <3>6
  <2>4. QED
    BY <1>1, <2>2, <2>3, DirsAfter
<1>3. QED
  BY <1>2 DEF NextIsNew

\* Steps that write no manifest, and leave the numbers of this life alone.
LEMMA FilesKept ==
  ASSUME NEW S, NEW T, Around(S, T), NEW d, Sane(d), DirStep(d),
         SameEdits, DOMAIN table \subseteq DOMAIN table',
         d.current = Dir.current, d.manifests \subseteq Dir.manifests,
         d.tables \subseteq Dir.tables \cup DOMAIN table',
         at' \in Loaded => at \in Loaded /\ vs.next <= vs'.next,
         at' \in Named => at \in Named \/ ~Machine \/ dirs' = <<d>>
  PROVE  EditsInOrder' /\ NamedFinished' /\ NextIsNew'
<1>1. /\ DirsOK(dirs) /\ Contents /\ Numbered /\ Machine' = Machine
      /\ EditsInOrder /\ NamedFinished /\ NextIsNew
      /\ Len(dirs) \in DOMAIN dirs /\ Dir = dirs[Len(dirs)] /\ vs.next \in Nat /\ vs'.next \in Nat
  BY AroundFacts
<1>2. EditsInOrder'
  BY <1>1 DEF EditsInOrder, SameEdits
<1> DEFINE v == [tables |-> {}, next |-> 0]
<1>3. DiskStep(v) /\ NewEdits(v) /\ DOMAIN manifest \subseteq DOMAIN manifest'
  BY DEF SameEdits, DiskStep, NewEdits
<1>4. /\ FinishedIn(Dir, manifest, DOMAIN table) /\ Dir.manifests \subseteq DOMAIN manifest
      /\ at \in Loaded => NumbersBelow(Dir, manifest, vs.next)
  BY <1>1 DEF NamedFinished, NextIsNew, MayBeLeft, Contents
<1>5. v.next <= vs'.next
  BY <1>1
<1> HIDE DEF v
<1>6. FinishedIn(d, manifest', DOMAIN table')
  BY <1>3, <1>4, FinishedLater
<1>7. at' \in Loaded => NumbersBelow(d, manifest', vs'.next)
  BY <1>1, <1>3, <1>4, <1>5, BelowLater
<1>8. NamedFinished'
  BY <1>1, <1>3, <1>6, NamedKept
<1>9. NextIsNew'
  BY <1>3, <1>5, <1>7, NextKept
<1>10. QED
  BY <1>2, <1>8, <1>9

\* Deletions leave CURRENT alone.
LEMMA Less ==
  ASSUME NEW d, Sane(d), NEW A
  PROVE  /\ Sane(Without(d, A)) /\ Without(d, A).current = d.current
         /\ Without(d, A).manifests \subseteq d.manifests /\ Without(d, A).tables \subseteq d.tables
<1>1. Without(d, A).current = d.current /\ Without(d, A).manifests \subseteq d.manifests
      /\ Without(d, A).tables \subseteq d.tables
  BY DEF Without, Sane, Directory
<1>2. QED
  BY <1>1, SaneChanges

\* Every way of replaying the records of a log gives finished tables.
LEMMA ReplayFinishes ==
  ASSUME NEW S, NEW T, Around(S, T), ReplayLog
  PROVE  FinishedInv'
<1>1. /\ DirsOK(dirs) /\ Sane(Dir) /\ vs \in VersionSet(S) /\ vs.next \in Nat /\ vs'.next \in Nat
      /\ InUseFinished
  BY AroundFacts
<1>2. at = "replay" /\ at' = "replay" /\ UNCHANGED <<manifest, job>> /\ todo # <<>>
  BY DEF ReplayLog, Opening
<1>3. PICK records, full : ReplayRecords(Head(todo), records, full)
  BY DEF ReplayLog
<1> DEFINE n == Head(todo)
           rest == Range(SubSeq(records, full + 1, Len(records)))
           keep == scenario.reuse /\ Len(todo) = 1 /\ full = 0
           first == IF full > 0 THEN {vs.next} ELSE {}
           second == IF keep \/ rest = {} THEN {} ELSE {vs.next + Cardinality(first)}
           new == first \cup second
           next == vs.next + Cardinality(new)
<1>4. n \in Nat
  <2>1. todo \in Seq(Nat)
    BY DEF Around, Typed, MemoryOK
  <2>2. QED
    BY <1>2, <2>1
<1>5. /\ DOMAIN table' = DOMAIN table \cup new
      /\ dirs' = IF new = {} THEN dirs ELSE <<[Dir EXCEPT !.tables = @ \cup new]>>
      /\ vs' = [vs EXCEPT !.tables = @ \cup new, !.seq = SeqAfter(Range(records), @),
                          !.next = Max({next, n + 1})]
  BY <1>3 DEF ReplayRecords
<1>6. IsFiniteSet(new) /\ new \in SUBSET Nat /\ Cardinality(new) \in Nat
  <2>1. first \in {{}, {vs.next}} /\ second \in {{}, {vs.next + Cardinality(first)}}
    OBVIOUS
  <2> HIDE DEF first, second
  <2>2. QED
    BY <1>1, <2>1, NewNumbers
<1> HIDE DEF new, n
<1>7. vs'.tables = vs.tables \cup new /\ vs.next <= vs'.next
  <2>1. vs'.tables = vs.tables \cup new /\ vs'.next = Max({next, n + 1})
    BY <1>1, <1>5 DEF VersionSet
  <2>2. next \in Nat /\ vs.next <= next
    BY <1>1, <1>6
  <2> HIDE DEF next
  <2>3. Max({next, n + 1}) >= next
    BY <1>4, <2>2 DEF Max
  <2>4. QED
    BY <1>1, <2>1, <2>2, <2>3
<1> DEFINE d == IF new = {} THEN Dir ELSE [Dir EXCEPT !.tables = @ \cup new]
<1>8. /\ Sane(d) /\ DirStep(d) /\ d.current = Dir.current /\ d.manifests = Dir.manifests
      /\ d.tables \subseteq Dir.tables \cup DOMAIN table'
  <2>1. Sane([Dir EXCEPT !.tables = @ \cup new])
    BY <1>1, <1>6, SaneChanges
  <2>2. QED
    BY <1>1, <1>5, <2>1 DEF DirStep, Sane, Directory
<1> HIDE DEF d
<1>9. SameEdits /\ DOMAIN table \subseteq DOMAIN table'
  BY <1>2, <1>5 DEF SameEdits, Edits
<1>10. EditsInOrder' /\ NamedFinished' /\ NextIsNew'
  BY <1>2, <1>7, <1>8, <1>9, FilesKept DEF Loaded, Named
<1>11. InUseFinished'
  BY <1>1, <1>2, <1>5, <1>7 DEF InUseFinished, Loaded
<1>12. QED
  BY <1>10, <1>11 DEF FinishedInv

\* The steps of Open that write no manifest.
LEMMA CreateLogFinishes ==
  ASSUME NEW S, NEW T, Around(S, T), CreateLog
  PROVE  FinishedInv'
<1>1. /\ DirsOK(dirs) /\ Sane(Dir) /\ vs \in VersionSet(S) /\ vs.next \in Nat /\ InUseFinished
  BY AroundFacts
<1>2. /\ at = "replay" /\ at' = IF fresh THEN "save" ELSE "delete"
      /\ UNCHANGED <<manifest, table, job>>
  BY DEF CreateLog, Opening
<1>3. vs'.tables = vs.tables /\ vs.next <= vs'.next
  BY <1>1 DEF CreateLog, VersionSet
<1>4. PICK d : /\ Sane(d) /\ DirStep(d) /\ d.current = Dir.current
               /\ d.manifests = Dir.manifests /\ d.tables = Dir.tables
  <2>1. CASE logNumber # 0
    BY <1>1, <2>1 DEF CreateLog, DirStep
  <2>2. CASE logNumber = 0
    <3> DEFINE e == [Dir EXCEPT !.logs = @ \cup {vs.next}]
    <3>1. /\ dirs' = Append(dirs, e) /\ Sane(e) /\ e.current = Dir.current
          /\ e.manifests = Dir.manifests /\ e.tables = Dir.tables
      <4>1. dirs' = Append(dirs, e)
        BY <2>2 DEF CreateLog, Changed
      <4>2. Sane(e)
        BY <1>1, SaneChanges
      <4>3. QED
        BY <1>1, <4>1, <4>2 DEF Sane, Directory
    <3> HIDE DEF e
    <3>2. DirStep(e)
      BY <3>1 DEF DirStep
    <3>3. QED
      BY <3>1, <3>2
  <2>3. QED
    BY <2>1, <2>2
<1>5. ~fresh => ~Machine
  <2>1. Loading /\ ProcessOK
    BY DEF Around, RecoveryInv, Typed
  <2>2. ~fresh => scenario.reuse
    BY <1>2, <2>1 DEF Loading
  <2>3. QED
    BY <2>1, <2>2, ScenariosAssumption DEF Machine, ProcessOK
<1>6. SameEdits
  BY <1>2 DEF SameEdits, Edits
<1>7. EditsInOrder' /\ NamedFinished' /\ NextIsNew'
  BY <1>2, <1>3, <1>4, <1>5, <1>6, FilesKept DEF Loaded, Named
<1>8. InUseFinished'
  BY <1>1, <1>2, <1>3 DEF InUseFinished, Loaded, Named
<1>9. QED
  BY <1>7, <1>8 DEF FinishedInv

LEMMA SyncManifestFinishes ==
  ASSUME NEW S, NEW T, Around(S, T), SyncManifest
  PROVE  FinishedInv'
<1>1. /\ DirsOK(dirs) /\ Sane(Dir) /\ vs.next \in Nat /\ InUseFinished
  BY AroundFacts
<1>2. at = "sync" /\ at' \in Named /\ UNCHANGED <<table, vs, job>> /\ dirs' = <<Dir>>
  BY DEF SyncManifest, Opening, Synced, Named
<1>3. SameEdits
  BY DEF SyncManifest, SameEdits, Edits
<1>4. DirStep(Dir)
  BY <1>2 DEF DirStep
<1>5. EditsInOrder' /\ NamedFinished' /\ NextIsNew'
  BY <1>1, <1>2, <1>3, <1>4, FilesKept DEF Loaded
<1>6. InUseFinished'
  BY <1>1, <1>2 DEF InUseFinished, Loaded, Named
<1>7. QED
  BY <1>5, <1>6 DEF FinishedInv

\* Obsolete files are deleted.
LEMMA DeletionFinishes ==
  ASSUME NEW S, NEW T, Around(S, T), OpenReturns \/ JobDone
  PROVE  FinishedInv'
<1>1. DirsOK(dirs) /\ Sane(Dir) /\ vs.next \in Nat /\ InUseFinished
  BY AroundFacts
<1>2. /\ at \in {"delete", "open"} /\ at' = "open" /\ DeleteObsoleteFiles
      /\ UNCHANGED <<manifest, table, vs>> /\ (job' = job \/ job' = None)
  BY DEF OpenReturns, JobDone, Working, Running
<1>3. PICK d : /\ Sane(d) /\ DirStep(d) /\ d.current = Dir.current
               /\ d.manifests \subseteq Dir.manifests /\ d.tables \subseteq Dir.tables
  <2>1. CASE dirs' = dirs
    BY <1>1, <2>1 DEF DirStep
  <2>2. CASE dirs' # dirs
    <3>1. PICK deleted : dirs' = Append(dirs, Without(Dir, deleted))
      BY <1>2, <2>2 DEF DeleteObsoleteFiles, Changed
    <3>2. DirStep(Without(Dir, deleted))
      BY <3>1 DEF DirStep
    <3>3. QED
      BY <1>1, <3>2, Less
  <2>3. QED
    BY <2>1, <2>2
<1>4. SameEdits
  BY <1>2 DEF SameEdits, Edits
<1>5. EditsInOrder' /\ NamedFinished' /\ NextIsNew'
  BY <1>1, <1>2, <1>3, <1>4, FilesKept DEF Loaded, Named
<1>6. InUseFinished'
  BY <1>1, <1>2 DEF InUseFinished, Loaded, Named
<1>7. QED
  BY <1>5, <1>6 DEF FinishedInv

\* The process ends or fails to open: of the directory, at most a manifest is gone.
LEMMA EndFinishes ==
  ASSUME NEW S, NEW T, Around(S, T), OpenFails \/ ProcessEnds
  PROVE  FinishedInv'
<1>1. DirsOK(dirs) /\ Sane(Dir) /\ vs.number \in Nat
  BY AroundFacts
<1>2. at' = "down" /\ job' = None /\ UNCHANGED <<manifest, table>>
  BY DEF OpenFails, ProcessEnds, Crashed, ForgetMemory
<1>3. PICK d : /\ Sane(d) /\ DirStep(d) /\ d.current = Dir.current
               /\ d.manifests \subseteq Dir.manifests /\ d.tables \subseteq Dir.tables
  <2>1. CASE dirs' = dirs
    BY <1>1, <2>1 DEF DirStep
  <2>2. CASE dirs' # dirs
    <3> DEFINE e == [Dir EXCEPT !.manifests = @ \ {vs.number}]
    <3>1. dirs' = Append(dirs, e)
      BY <2>2 DEF OpenFails, ProcessEnds, Changed
    <3>2. /\ Sane(e) /\ e.current = Dir.current
          /\ e.manifests \subseteq Dir.manifests /\ e.tables = Dir.tables
      <4>1. Sane(e)
        BY <1>1, SaneChanges
      <4>2. QED
        BY <1>1, <4>1 DEF Sane, Directory
    <3> HIDE DEF e
    <3>3. DirStep(e)
      BY <3>1 DEF DirStep
    <3>4. QED
      BY <3>2, <3>3
  <2>3. QED
    BY <2>1, <2>2
<1>4. SameEdits
  BY <1>2 DEF SameEdits, Edits
<1>5. EditsInOrder' /\ NamedFinished' /\ NextIsNew'
  BY <1>2, <1>3, <1>4, FilesKept DEF Loaded, Named
<1>6. InUseFinished'
  BY <1>2 DEF InUseFinished, Loaded, Named
<1>7. QED
  BY <1>5, <1>6 DEF FinishedInv

\* The writers, and a new memtable.
LEMMA WritersFinish ==
  ASSUME NEW S, NEW T, Around(S, T),
         \/ \E n \in scenario.sizes : AppendRecord(n) \/ AppendFails(n)
         \/ \E sync \in BOOLEAN : EndWrite(sync)
         \/ SyncFails \/ SwitchMemTable
  PROVE  FinishedInv'
<1>1. DirsOK(dirs) /\ Sane(Dir) /\ vs \in VersionSet(S) /\ vs.next \in Nat /\ InUseFinished
  BY AroundFacts
<1>2. at = "open" /\ at' = "open" /\ UNCHANGED <<manifest, table, job>>
  BY DEF AppendRecord, AppendFails, EndWrite, SyncFails, SwitchMemTable, MayWrite, Running, disk
<1>3. vs'.tables = vs.tables /\ vs.next <= vs'.next
  BY <1>1 DEF AppendRecord, AppendFails, EndWrite, SyncFails, SwitchMemTable, VersionSet
<1>4. PICK d : /\ Sane(d) /\ DirStep(d) /\ d.current = Dir.current
               /\ d.manifests = Dir.manifests /\ d.tables = Dir.tables
  <2>1. CASE dirs' = dirs \/ dirs' = <<Dir>>
    BY <1>1, <2>1 DEF DirStep
  <2>2. CASE SwitchMemTable
    <3> DEFINE e == [Dir EXCEPT !.logs = @ \cup {vs.next}]
    <3>1. /\ dirs' = Append(dirs, e) /\ Sane(e) /\ e.current = Dir.current
          /\ e.manifests = Dir.manifests /\ e.tables = Dir.tables
      <4>1. dirs' = Append(dirs, e)
        BY <2>2 DEF SwitchMemTable, Changed
      <4>2. Sane(e)
        BY <1>1, SaneChanges
      <4>3. QED
        BY <1>1, <4>1, <4>2 DEF Sane, Directory
    <3> HIDE DEF e
    <3>2. DirStep(e)
      BY <3>1 DEF DirStep
    <3>3. QED
      BY <3>1, <3>2
  <2>3. QED
    BY <2>1, <2>2 DEF AppendRecord, AppendFails, EndWrite, SyncFails, SyncLog, Synced, disk
<1>5. SameEdits
  BY <1>2 DEF SameEdits, Edits
<1>6. EditsInOrder' /\ NamedFinished' /\ NextIsNew'
  BY <1>2, <1>3, <1>4, <1>5, FilesKept DEF Loaded, Named
<1>7. InUseFinished'
  BY <1>1, <1>2, <1>3 DEF InUseFinished, Loaded, Named
<1>8. QED
  BY <1>6, <1>7 DEF FinishedInv

-----------------------------------------------------------------------------
(* ... and in the background, and in a repair *)

LEMMA FinishTableFinishes ==
  ASSUME NEW S, NEW T, Around(S, T), FinishTable
  PROVE  FinishedInv'
<1>1. DirsOK(dirs) /\ Sane(Dir) /\ vs.next \in Nat /\ InUseFinished
  BY AroundFacts
<1>2. /\ at = "open" /\ at' = "open" /\ UNCHANGED <<manifest, vs>> /\ dirs' = <<Dir>>
      /\ job # None /\ job' = [job EXCEPT !.at = "log"] /\ DOMAIN table' = DOMAIN table \cup {job.out}
  BY DEF FinishTable, Working, Running, Synced, With
<1>3. job'.out = job.out
  BY <1>2 DEF Around, Typed, MemoryOK, Jobs
<1>4. DirStep(Dir) /\ SameEdits
  BY <1>2 DEF DirStep, SameEdits, Edits
<1>5. EditsInOrder' /\ NamedFinished' /\ NextIsNew'
  BY <1>1, <1>2, <1>4, FilesKept DEF Loaded, Named
<1>6. InUseFinished'
  BY <1>1, <1>2, <1>3 DEF InUseFinished, Loaded, Named
<1>7. QED
  BY <1>5, <1>6 DEF FinishedInv

LEMMA InstallEditFinishes ==
  ASSUME NEW S, NEW T, Around(S, T), InstallEdit
  PROVE  FinishedInv'
<1>1. DirsOK(dirs) /\ Sane(Dir) /\ vs \in VersionSet(S) /\ vs.next \in Nat /\ InUseFinished
  BY AroundFacts
<1>2. /\ at = "open" /\ at' = "open" /\ UNCHANGED table /\ dirs' = <<Dir>>
      /\ job # None /\ job.at = "sync" /\ job' = [job EXCEPT !.at = "delete"] /\ vs' = Edited(job)
  BY DEF InstallEdit, Working, Running, Synced
<1>3. job'.at = "delete"
  BY <1>2 DEF Around, Typed, MemoryOK, Jobs
<1>4. vs'.tables \subseteq vs.tables \cup {job.out} /\ vs'.next = vs.next
  BY <1>1, <1>2 DEF Edited, VersionSet
<1>5. SameEdits
  BY DEF InstallEdit, SameEdits, Edits
<1>6. DirStep(Dir)
  BY <1>2 DEF DirStep
<1>7. EditsInOrder' /\ NamedFinished' /\ NextIsNew'
  BY <1>1, <1>2, <1>4, <1>5, <1>6, FilesKept DEF Loaded, Named
<1>8. InUseFinished'
  BY <1>1, <1>2, <1>3, <1>4 DEF InUseFinished, Loaded, Named
<1>9. QED
  BY <1>7, <1>8 DEF FinishedInv

LEMMA JobFailsFinishes ==
  ASSUME NEW S, NEW T, Around(S, T), JobFails
  PROVE  FinishedInv'
<1>1. DirsOK(dirs) /\ Sane(Dir) /\ vs.next \in Nat /\ InUseFinished
  BY AroundFacts
<1>2. at = "open" /\ at' = "open" /\ UNCHANGED <<manifest, table, vs>> /\ job # None /\ job' = None
  BY DEF JobFails, Running
<1>3. PICK d : /\ Sane(d) /\ DirStep(d) /\ d.current = Dir.current
               /\ d.manifests = Dir.manifests /\ d.tables \subseteq Dir.tables
  <2>1. CASE dirs' = dirs
    BY <1>1, <2>1 DEF DirStep
  <2>2. CASE dirs' # dirs
    <3> DEFINE e == [Dir EXCEPT !.tables = @ \ {job.out}]
    <3>1. dirs' = Append(dirs, e)
      BY <2>2 DEF JobFails, Changed
    <3>2. job.out \in Nat
      BY <1>2 DEF Around, Typed, MemoryOK, Jobs
    <3>3. /\ Sane(e) /\ e.current = Dir.current
          /\ e.manifests = Dir.manifests /\ e.tables \subseteq Dir.tables
      <4>1. Sane(e)
        BY <1>1, <3>2, SaneChanges
      <4>2. QED
        BY <1>1, <4>1 DEF Sane, Directory
    <3> HIDE DEF e
    <3>4. DirStep(e)
      BY <3>1 DEF DirStep
    <3>5. QED
      BY <3>3, <3>4
  <2>3. QED
    BY <2>1, <2>2
<1>4. SameEdits
  BY <1>2 DEF SameEdits, Edits
<1>5. EditsInOrder' /\ NamedFinished' /\ NextIsNew'
  BY <1>1, <1>2, <1>3, <1>4, FilesKept DEF Loaded, Named
<1>6. InUseFinished'
  BY <1>1, <1>2 DEF InUseFinished
<1>7. QED
  BY <1>5, <1>6 DEF FinishedInv

\* A repair up to the tables it finds readable.
LEMMA FindingFinishes ==
  ASSUME NEW S, NEW T, Around(S, T), StartRepair \/ ConvertLogToTable \/ ArchiveLog \/ ExtractMetaData
  PROVE  FinishedInv'
<1>1. DirsOK(dirs) /\ Sane(Dir) /\ vs \in VersionSet(S) /\ vs.next \in Nat
  BY AroundFacts
<1>2. /\ at' \in {"convert", "archive", "describe"} /\ at # "open" /\ UNCHANGED <<manifest, job>>
      /\ DOMAIN table \subseteq DOMAIN table'
  BY DEF StartRepair, ConvertLogToTable, ArchiveLog, ExtractMetaData, Repairing, disk, With
<1>3. job' = None
  BY <1>2 DEF Around, Typed, ProcessOK
<1>4. at' = "describe" => vs'.tables \subseteq DOMAIN table'
  <2>1. SUFFICES ASSUME ExtractMetaData PROVE vs'.tables \subseteq DOMAIN table'
    BY DEF StartRepair, ConvertLogToTable, ArchiveLog, Repairing
  <2>2. vs'.tables = vs.tables \ (vs.tables \ DOMAIN table) /\ table' = table
    BY <1>1, <2>1 DEF ExtractMetaData, VersionSet
  <2>3. QED
    BY <2>2
<1>5. PICK d : /\ Sane(d) /\ DirStep(d) /\ d.current = Dir.current
               /\ d.manifests \subseteq Dir.manifests /\ d.tables \subseteq Dir.tables \cup DOMAIN table'
  <2>1. CASE dirs' = dirs
    BY <1>1, <2>1 DEF DirStep
  <2>2. CASE \E A : dirs' = Append(dirs, Without(Dir, A))
    <3>1. PICK A : dirs' = Append(dirs, Without(Dir, A))
      BY <2>2
    <3>2. DirStep(Without(Dir, A))
      BY <3>1 DEF DirStep
    <3>3. QED
      BY <1>1, <3>2, Less
  <2>3. CASE /\ dirs' = <<[Dir EXCEPT !.tables = @ \cup {vs.next}]>>
             /\ vs.next \in DOMAIN table'
    <3> DEFINE e == [Dir EXCEPT !.tables = @ \cup {vs.next}]
    <3>1. /\ Sane(e) /\ e.current = Dir.current
          /\ e.manifests = Dir.manifests /\ e.tables = Dir.tables \cup {vs.next}
      <4>1. Sane(e)
        BY <1>1, SaneChanges
      <4>2. QED
        BY <1>1, <4>1 DEF Sane, Directory
    <3> HIDE DEF e
    <3>2. DirStep(e)
      BY <2>3 DEF DirStep, e
    <3>3. QED
      BY <2>3, <3>1, <3>2
  <2>4. QED
    <3>1. StartRepair => dirs' = dirs
      BY DEF StartRepair, disk
    <3>2. ConvertLogToTable => \/ dirs' = dirs
                               \/ /\ dirs' = <<[Dir EXCEPT !.tables = @ \cup {vs.next}]>>
                                  /\ vs.next \in DOMAIN table'
      BY DEF ConvertLogToTable, With
    <3>3. ArchiveLog => \E A : dirs' = Append(dirs, Without(Dir, A))
      BY DEF ArchiveLog, Changed
    <3>4. ExtractMetaData => dirs' = dirs \/ \E A : dirs' = Append(dirs, Without(Dir, A))
      BY DEF ExtractMetaData, Changed
    <3>5. QED
      BY <2>1, <2>2, <2>3, <3>1, <3>2, <3>3, <3>4
<1>6. SameEdits
  BY <1>2 DEF SameEdits, Edits
<1>7. EditsInOrder' /\ NamedFinished' /\ NextIsNew'
  BY <1>2, <1>5, <1>6, FilesKept DEF Loaded, Named
<1>8. InUseFinished'
  BY <1>2, <1>3, <1>4 DEF InUseFinished, Loaded, Named
<1>9. QED
  BY <1>7, <1>8 DEF FinishedInv

-----------------------------------------------------------------------------
(* Steps that write manifests, name them or give numbers *)

\* A manifest is written anew, or gets an edit that gives no smaller number.
LEMMA EditsChange ==
  ASSUME NEW S, NEW T, Around(S, T), NEW n \in Nat, NEW v, v.next \in Nat,
         \/ manifest' = With(manifest, n, [edits |-> <<v>>, synced |-> 0])
         \/ /\ n \in DOMAIN manifest /\ manifest' = [manifest EXCEPT ![n].edits = Append(@, v)]
            /\ \A k \in DOMAIN Edits(n) : Edits(n)[k].next <= v.next
  PROVE  /\ EditsInOrder' /\ NewEdits(v) /\ DOMAIN manifest \subseteq DOMAIN manifest'
         /\ n \in DOMAIN manifest'
<1>1. EditsInOrder
  BY AroundFacts
<1>2. CASE manifest' = With(manifest, n, [edits |-> <<v>>, synced |-> 0])
  <2>1. /\ DOMAIN manifest' = DOMAIN manifest \cup {n} /\ Edits(n)' = <<v>>
        /\ \A m \in DOMAIN manifest \ {n} : Edits(m)' = Edits(m)
    BY <1>2 DEF With, Edits
  <2>2. \A k \in DOMAIN <<v>> : <<v>>[k] = v
    OBVIOUS
  <2>3. NewEdits(v)
    BY <2>1, <2>2 DEF NewEdits
  <2>4. v.next <= v.next
    OBVIOUS
  <2>5. EditsInOrder'
    BY <1>1, <2>1, <2>2, <2>4 DEF EditsInOrder
  <2>6. QED
    BY <2>1, <2>3, <2>5
<1>3. CASE /\ n \in DOMAIN manifest /\ manifest' = [manifest EXCEPT ![n].edits = Append(@, v)]
           /\ \A k \in DOMAIN Edits(n) : Edits(n)[k].next <= v.next
  <2>1. ManifestOK(S)
    BY DEF Around, Typed
  <2>2. Edits(n) \in Seq(Edit(S))
    BY <1>3, <2>1 DEF ManifestOK, Edits
  <2>3. PICK c \in Nat : c = Len(Edits(n)) /\ DOMAIN Edits(n) = 1..c
    BY <2>2
  <2>4. /\ DOMAIN manifest' = DOMAIN manifest /\ Edits(n)' = Append(Edits(n), v)
        /\ \A m \in DOMAIN manifest \ {n} : Edits(m)' = Edits(m)
    BY <1>3, <2>1 DEF Edits, ManifestOK
  <2>5. /\ DOMAIN Append(Edits(n), v) = 1..c + 1 /\ Append(Edits(n), v)[c + 1] = v
        /\ \A k \in 1..c : Append(Edits(n), v)[k] = Edits(n)[k]
    <3>1. PICK X : X = Edit(S) \cup {v}
      OBVIOUS
    <3>2. Edits(n) \in Seq(X) /\ v \in X
      BY <2>2, <3>1
    <3>3. QED
      BY <2>3, <3>2, AppendProperties
  <2>6. \A k \in 1..c + 1 : k = c + 1 \/ k \in 1..c
    OBVIOUS
  <2>7. NewEdits(v)
    <3>1. \A k \in DOMAIN Edits(n)' : \/ k \in DOMAIN Edits(n) /\ Edits(n)'[k] = Edits(n)[k]
                                      \/ Edits(n)'[k] = v
      BY <2>3, <2>4, <2>5, <2>6
    <3>2. QED
      BY <2>4, <3>1 DEF NewEdits
  <2>8. ASSUME NEW k \in DOMAIN Edits(n)', NEW l \in DOMAIN Edits(n)', k <= l
        PROVE  Edits(n)'[k].next <= Edits(n)'[l].next
    <3>1. CASE l \in 1..c
      <4>1. k \in 1..c
        BY <2>4, <2>5, <2>8, <3>1
      <4>2. Edits(n)[k].next <= Edits(n)[l].next
        BY <1>1, <1>3, <2>3, <2>8, <3>1, <4>1 DEF EditsInOrder
      <4>3. QED
        BY <2>4, <2>5, <3>1, <4>1, <4>2
    <3>2. CASE l = c + 1 /\ k \in 1..c
      BY <1>3, <2>3, <2>4, <2>5, <3>2
    <3>3. CASE l = c + 1 /\ k = c + 1
      <4>1. Edits(n)'[k] = v /\ Edits(n)'[l] = v /\ v.next <= v.next
        BY <2>4, <2>5, <3>3
      <4>2. QED
        BY <4>1
    <3>4. QED
      BY <2>4, <2>5, <2>6, <3>1, <3>2, <3>3
  <2>9. EditsInOrder'
    BY <1>1, <2>4, <2>8 DEF EditsInOrder
  <2>10. QED
    BY <1>3, <2>4, <2>7, <2>9
<1>4. QED
  BY <1>2, <1>3

\* The first manifest has no tables.
LEMMA NewDBFinishes ==
  ASSUME NEW S, NEW T, Around(S, T), NewDB
  PROVE  FinishedInv'
<1>1. DirsOK(dirs) /\ Contents /\ Sane(Dir) /\ NamedFinished /\ Machine' = Machine
  BY AroundFacts
<1>2. /\ at = "down" /\ at' = "newdb" /\ UNCHANGED <<table, job>> /\ Dir.current = None
      /\ manifest' = With(manifest, 1, [edits |-> <<State(NoVersion)>>, synced |-> 0])
  BY DEF NewDB, Opening
<1>3. job' = None
  BY <1>2 DEF Around, Typed, ProcessOK
<1> DEFINE d == [Dir EXCEPT !.manifests = @ \cup {1}]
<1>4. Sane(d) /\ DirStep(d) /\ ~Names(d)
  <2>1. Sane(d) /\ dirs' = Append(dirs, d)
    BY <1>1, SaneChanges DEF NewDB, Changed
  <2>2. d.current = None
    BY <1>1, <1>2 DEF Sane, Directory
  <2>3. QED
    BY <2>1, <2>2 DEF DirStep, Names
<1> DEFINE v == State(NoVersion)
<1>5. v.next = 2 /\ v.tables = {}
  BY DEF State, NoVersion
<1> HIDE DEF d, v
<1>6. EditsInOrder' /\ DiskStep(v)
  <2>1. 1 \in Nat /\ v.next \in Nat /\ manifest' = With(manifest, 1, [edits |-> <<v>>, synced |-> 0])
    BY <1>2, <1>5 DEF v
  <2>2. QED
    BY <1>2, <1>5, <2>1, EditsChange DEF DiskStep
<1>7. FinishedIn(d, manifest', DOMAIN table')
  BY <1>4 DEF FinishedIn
<1>8. NamedFinished'
  BY <1>1, <1>4, <1>6, <1>7, NamedKept
<1>9. NextIsNew' /\ InUseFinished'
  BY <1>2, <1>3 DEF NextIsNew, InUseFinished, Loaded, Named
<1>10. QED
  BY <1>6, <1>8, <1>9 DEF FinishedInv

\* CURRENT comes to name a manifest whose tables are finished.
LEMMA NamingFinishes ==
  ASSUME NEW S, NEW T, Around(S, T), NEW n \in Nat, SetCurrentFile(n), UNCHANGED <<manifest, table>>,
         \A k \in DOMAIN Edits(n) : Edits(n)[k].tables \subseteq DOMAIN table,
         at' \notin Loaded
  PROVE  EditsInOrder' /\ NamedFinished' /\ NextIsNew'
<1>1. DirsOK(dirs) /\ Contents /\ Sane(Dir) /\ NamedFinished /\ Machine' = Machine /\ EditsInOrder
  BY AroundFacts
<1> DEFINE d == [Dir EXCEPT !.current = n]
<1>2. Sane(d) /\ DirStep(d) /\ d.current = n
  BY <1>1, SaneChanges DEF SetCurrentFile, DirStep, Sane, Directory
<1> DEFINE v == [tables |-> {}, next |-> 0]
<1>3. DiskStep(v)
  BY DEF DiskStep, NewEdits, Edits
<1> HIDE DEF d, v
<1>4. FinishedIn(d, manifest', DOMAIN table')
  BY <1>2 DEF FinishedIn, Edits
<1>5. NamedFinished'
  BY <1>1, <1>2, <1>3, <1>4, NamedKept
<1>6. EditsInOrder' /\ NextIsNew'
  BY <1>1 DEF EditsInOrder, NextIsNew, Edits, Loaded, Named
<1>7. QED
  BY <1>5, <1>6

LEMMA NamersFinish ==
  ASSUME NEW S, NEW T, Around(S, T), NameFirstManifest \/ InstallDescriptor
  PROVE  FinishedInv'
<1>1. /\ SetCurrentFile(1) /\ UNCHANGED <<manifest, table, job>> /\ at # "open"
      /\ at' \in {"read", "down"}
  BY DEF NameFirstManifest, InstallDescriptor, Opening, Repairing
<1>2. \A k \in DOMAIN Edits(1) : Edits(1)[k].tables \subseteq DOMAIN table
  <2>1. CASE NameFirstManifest
    <3>1. Edits(1) = <<State(NoVersion)>>
      BY <2>1 DEF NameFirstManifest, Opening, Around, RecoveryInv, FirstManifest
    <3>2. \A k \in DOMAIN <<State(NoVersion)>> : <<State(NoVersion)>>[k] = State(NoVersion)
      OBVIOUS
    <3>3. State(NoVersion).tables = {}
      BY DEF State, NoVersion
    <3>4. QED
      BY <3>1, <3>2, <3>3
  <2>2. CASE InstallDescriptor
    BY <2>2, AroundFacts DEF InstallDescriptor, Repairing, InUseFinished
  <2>3. QED
    BY <2>1, <2>2
<1>3. job' = None
  BY <1>1 DEF Around, Typed, ProcessOK
<1>4. at' \notin Loaded \cup {"describe", "install"}
  BY <1>1 DEF Loaded, Named
<1>5. EditsInOrder' /\ NamedFinished' /\ NextIsNew'
  BY <1>1, <1>2, <1>4, NamingFinishes
<1>6. InUseFinished'
  BY <1>3, <1>4 DEF InUseFinished
<1>7. QED
  BY <1>5, <1>6 DEF FinishedInv

\* Open reads the version that the manifest's last edit leads to.
LEMMA ReadManifestFinishes ==
  ASSUME NEW S, NEW T, Around(S, T), ReadManifest
  PROVE  FinishedInv'
<1>1. /\ DirsOK(dirs) /\ Sane(Dir) /\ Len(dirs) \in DOMAIN dirs /\ Dir = dirs[Len(dirs)]
      /\ Contents /\ Numbered /\ EditsInOrder /\ NamedFinished /\ Machine' = Machine
  BY AroundFacts
<1>2. /\ at \in {"down", "read"} /\ UNCHANGED <<dirs, manifest, table, job>> /\ Dir.current # None
      /\ at' \in {"corrupt", "replay"}
  BY DEF ReadManifest, Opening, disk
<1>3. job' = None
  BY <1>2 DEF Around, Typed, ProcessOK
<1>4. EditsInOrder' /\ NamedFinished'
  BY <1>1, <1>2 DEF EditsInOrder, NamedFinished, Edits, MayBeLeft
<1>5. CASE at' = "corrupt"
  BY <1>3, <1>4, <1>5 DEF FinishedInv, NextIsNew, InUseFinished, Loaded, Named
<1>6. CASE at' = "replay"
  <2> DEFINE n == Dir.current
             s == Last(manifest[n].edits)
  <2>1. Readable(n) /\ s.tables \subseteq Dir.tables /\ vs'.tables = s.tables /\ vs'.next = s.next + 1
    <3>1. Readable(n) /\ s.tables \subseteq Dir.tables
      BY <1>6 DEF ReadManifest
    <3>2. PICK reused : vs' = [tables |-> s.tables, log |-> s.log, seq |-> s.seq,
                               next |-> FirstFree(s.next), logged |-> reused,
                               number |-> IF reused THEN Dir.current ELSE s.next]
      BY <1>6 DEF ReadManifest
    <3>3. QED
      BY <3>1, <3>2 DEF FirstFree
  <2>2. n \in DOMAIN manifest /\ Names(Dir) /\ Edits(n) # <<>>
    BY <1>1, <1>2, <2>1 DEF Readable, Contents, Edits, Names
  <2>3. /\ Len(Edits(n)) \in DOMAIN Edits(n) /\ s = Edits(n)[Len(Edits(n))]
        /\ \A k \in DOMAIN Edits(n) : k <= Len(Edits(n))
    <3>1. ManifestOK(S)
      BY DEF Around, Typed
    <3>2. Edits(n) \in Seq(Edit(S))
      BY <2>2, <3>1 DEF ManifestOK, Edits
    <3>3. Len(Edits(n)) \in DOMAIN Edits(n) /\ Last(Edits(n)) = Edits(n)[Len(Edits(n))]
      BY <2>2, <3>1, LastEdit
    <3>4. QED
      BY <3>2, <3>3 DEF Edits
  <2>4. vs'.tables \subseteq DOMAIN table
    <3>1. FinishedIn(Dir, manifest, DOMAIN table)
      BY <1>1 DEF NamedFinished, MayBeLeft
    <3>2. s.tables \cap Dir.tables \subseteq DOMAIN table
      BY <2>2, <2>3, <3>1 DEF FinishedIn, Edits
    <3>3. QED
      BY <2>1, <3>2
  <2>5. NumbersBelow(Dir, manifest, vs'.next)
    <3>1. ASSUME NEW k \in DOMAIN Edits(n)
          PROVE  Edits(n)[k].next <= vs'.next
      <4>1. Edits(n)[k].next <= s.next
        BY <1>1, <2>2, <2>3 DEF EditsInOrder
      <4>2. Edits(n)[k].next \in Nat /\ s.next \in Nat
        BY <1>1, <2>2, <2>3 DEF Numbered
      <4>3. QED
        BY <2>1, <4>1, <4>2
    <3>2. QED
      BY <3>1 DEF NumbersBelow, Edits
  <2> HIDE DEF n, s
  <2>6. NextIsNew'
    <3>1. at' \notin Named
      BY <1>6 DEF Named
    <3>2. QED
      BY <1>1, <1>2, <2>5, <3>1 DEF NextIsNew
  <2>7. InUseFinished'
    BY <1>2, <1>3, <1>6, <2>4 DEF InUseFinished
  <2>8. QED
    BY <1>4, <2>6, <2>7 DEF FinishedInv
<1>7. QED
  BY <1>2, <1>5, <1>6

\* What the manifest in use says gives no number from the next on.
LEMMA InUseBelow ==
  ASSUME NEW S, NEW T, Around(S, T), vs.number = Dir.current, Opens(Dir), at \in Loaded
  PROVE  \A k \in DOMAIN Edits(vs.number) : Edits(vs.number)[k].next <= vs.next
<1>1. /\ NextIsNew /\ Len(dirs) \in DOMAIN dirs /\ Dir = dirs[Len(dirs)] /\ vs.number \in Nat
  BY AroundFacts
<1>2. NumbersBelow(Dir, manifest, vs.next)
  BY <1>1 DEF NextIsNew, MayBeLeft
<1>3. Names(Dir)
  BY <1>1, NoneAssumption DEF Names, Opens, OpensWith
<1>4. QED
  BY <1>2, <1>3 DEF NumbersBelow, Edits

LEMMA SaveManifestFinishes ==
  ASSUME NEW S, NEW T, Around(S, T), SaveManifest
  PROVE  FinishedInv'
<1>1. /\ DirsOK(dirs) /\ Sane(Dir) /\ Len(dirs) \in DOMAIN dirs /\ Dir = dirs[Len(dirs)]
      /\ Contents /\ Numbered /\ EditsInOrder /\ NamedFinished /\ InUseFinished /\ NextIsNew
      /\ Machine' = Machine /\ vs \in VersionSet(S) /\ vs.number \in Nat
      /\ vs.next \in Nat /\ vs'.next \in Nat
  BY AroundFacts
<1>2. at = "save" /\ at' = "sync" /\ UNCHANGED <<table, job>>
  BY DEF SaveManifest, Opening
<1>3. vs' = [vs EXCEPT !.log = logNumber]
  BY DEF SaveManifest
<1>4. PICK v : v = State(vs')
  OBVIOUS
<1>5. /\ vs'.tables = vs.tables /\ vs'.next = vs.next /\ vs'.number = vs.number /\ vs'.logged = vs.logged
      /\ v.tables = vs.tables /\ v.next = vs.next
  BY <1>1, <1>3, <1>4 DEF VersionSet, State
<1>6. vs.tables \subseteq DOMAIN table
  BY <1>1, <1>2 DEF InUseFinished, Loaded
<1>7. /\ NewEdits(v) /\ DOMAIN manifest \subseteq DOMAIN manifest' /\ EditsInOrder'
  <2>1. CASE vs.logged
    <3>1. manifest' = [manifest EXCEPT ![vs.number].edits = Append(@, v)]
      BY <1>3, <1>4, <1>5, <2>1 DEF SaveManifest
    <3>2. vs.number = Dir.current /\ Opens(Dir)
      <4>1. Loading /\ Reopens
        BY DEF Around, RecoveryInv
      <4>2. vs.number = Dir.current /\ scenario.reuse
        BY <1>2, <2>1, <4>1 DEF Loading
      <4>3. Opened
        BY <1>1, <4>2, NoneAssumption DEF Opened
      <4>4. QED
        BY <4>1, <4>2, <4>3 DEF Reopens
    <3>3. vs.number \in DOMAIN manifest
      BY <1>1, <3>2 DEF Opens, OpensWith, Contents
    <3>4. \A k \in DOMAIN Edits(vs.number) : Edits(vs.number)[k].next <= v.next
      BY <1>2, <1>5, <3>2, InUseBelow DEF Loaded
    <3>5. QED
      BY <1>1, <1>5, <3>1, <3>3, <3>4, EditsChange
  <2>2. CASE ~vs.logged
    <3>1. manifest' = With(manifest, vs.number, [edits |-> <<v>>, synced |-> 0])
      BY <1>3, <1>4, <1>5, <2>2 DEF SaveManifest
    <3>2. QED
      BY <1>1, <1>5, <3>1, EditsChange
  <2>3. QED
    BY <2>1, <2>2
<1>8. DiskStep(v)
  BY <1>2, <1>5, <1>6, <1>7 DEF DiskStep
<1>9. /\ FinishedIn(Dir, manifest, DOMAIN table) /\ Dir.manifests \subseteq DOMAIN manifest
      /\ NumbersBelow(Dir, manifest, vs.next)
  BY <1>1, <1>2 DEF NamedFinished, NextIsNew, MayBeLeft, Contents, Loaded
<1>10. PICK d : /\ Sane(d) /\ DirStep(d) /\ FinishedIn(d, manifest', DOMAIN table')
                /\ NumbersBelow(d, manifest', vs'.next)
  <2>1. CASE vs.logged
    <3>1. DirStep(Dir)
      BY <1>5, <2>1 DEF SaveManifest, DirStep
    <3>2. FinishedIn(Dir, manifest', DOMAIN table')
      BY <1>8, <1>9, FinishedLater
    <3>3. NumbersBelow(Dir, manifest', vs'.next)
      BY <1>1, <1>5, <1>7, <1>9, BelowLater
    <3>4. QED
      BY <1>1, <3>1, <3>2, <3>3
  <2>2. CASE ~vs.logged
    <3> DEFINE d == [Dir EXCEPT !.manifests = @ \cup {vs.number}]
    <3>1. Sane(d) /\ dirs' = Append(dirs, d)
      BY <1>1, <1>5, <2>2, SaneChanges DEF SaveManifest, Changed
    <3>2. d.current = Dir.current /\ d.manifests = Dir.manifests \cup {vs.number} /\ d.tables = Dir.tables
      BY <1>1 DEF Sane, Directory
    <3> HIDE DEF d
    <3>3. DirStep(d)
      BY <3>1 DEF DirStep
    <3>4. CASE d.current = vs.number
      <4>1. manifest'[vs.number].edits = <<v>>
        BY <1>3, <1>4, <1>5, <2>2 DEF SaveManifest, With
      <4>2. \A k \in DOMAIN manifest'[vs.number].edits : manifest'[vs.number].edits[k] = v
        BY <4>1
      <4>3. v.next <= vs'.next /\ v.tables \subseteq DOMAIN table'
        BY <1>1, <1>2, <1>5, <1>6
      <4>4. FinishedIn(d, manifest', DOMAIN table') /\ NumbersBelow(d, manifest', vs'.next)
        BY <3>4, <4>2, <4>3 DEF FinishedIn, NumbersBelow
      <4>5. QED
        BY <3>1, <3>3, <4>4
    <3>5. CASE d.current # vs.number
      <4>1. FinishedIn(d, manifest', DOMAIN table')
        BY <1>8, <1>9, <3>2, <3>5, FinishedLater
      <4>2. NumbersBelow(d, manifest', vs'.next)
        BY <1>1, <1>5, <1>7, <1>9, <3>2, <3>5, BelowLater
      <4>3. QED
        BY <3>1, <3>3, <4>1, <4>2
    <3>6. QED
      BY <3>4, <3>5
  <2>3. QED
    BY <2>1, <2>2
<1>11. NamedFinished'
  BY <1>1, <1>8, <1>10, NamedKept
<1>12. NextIsNew'
  <2>1. vs.next <= vs'.next /\ v.next <= vs'.next /\ at' \notin Named
    BY <1>1, <1>2, <1>5 DEF Named
  <2>2. QED
    BY <1>7, <1>10, <2>1, NextKept
<1>13. InUseFinished'
  BY <1>1, <1>2, <1>5, <1>6 DEF InUseFinished
<1>14. QED
  BY <1>7, <1>11, <1>12, <1>13 DEF FinishedInv

\* CURRENT comes to name the manifest of this life.
LEMMA NameManifestFinishes ==
  ASSUME NEW S, NEW T, Around(S, T), NameManifest
  PROVE  FinishedInv'
<1>1. /\ DirsOK(dirs) /\ Contents /\ Sane(Dir) /\ Len(dirs) \in DOMAIN dirs /\ Dir = dirs[Len(dirs)]
      /\ NamedFinished /\ Machine' = Machine /\ EditsInOrder /\ InUseFinished /\ NextIsNew
      /\ vs \in VersionSet(S) /\ vs.next \in Nat /\ vs.number \in Nat
  BY AroundFacts
<1>2. /\ at = "name" /\ at' = "delete" /\ UNCHANGED <<manifest, table, job>>
      /\ dirs' = <<Dir, [Dir EXCEPT !.current = vs.number]>> /\ vs' = [vs EXCEPT !.logged = TRUE]
  BY DEF NameManifest, Opening, SetCurrentFile
<1>3. vs'.tables = vs.tables /\ vs'.next = vs.next
  BY <1>1, <1>2 DEF VersionSet
<1>4. vs.tables \subseteq DOMAIN table
  BY <1>1, <1>2 DEF InUseFinished, Loaded, Named
<1>5. \A k \in DOMAIN Edits(vs.number) : Edits(vs.number)[k].tables = vs.tables /\ Edits(vs.number)[k].next = vs.next
  <2>1. Saving /\ ManifestOK(S)
    BY DEF Around, RecoveryInv, Typed
  <2>2. Len(Edits(vs.number)) = 1 /\ Last(Edits(vs.number)) = State(vs) /\ vs.number \in DOMAIN manifest
    BY <1>1, <1>2, <2>1 DEF Saving, Contents
  <2>3. Edits(vs.number) \in Seq(Edit(S))
    BY <2>1, <2>2 DEF ManifestOK, Edits
  <2>4. \A k \in DOMAIN Edits(vs.number) : Edits(vs.number)[k] = State(vs)
    BY <2>2, <2>3 DEF Last
  <2>5. QED
    BY <2>4 DEF State
<1> DEFINE d == [Dir EXCEPT !.current = vs.number]
<1>6. Sane(d) /\ DirStep(d) /\ d.current = vs.number
  BY <1>1, <1>2, SaneChanges DEF DirStep, Sane, Directory
<1>7. dirs' = <<Dir, d>>
  BY <1>2
<1> DEFINE v == [tables |-> {}, next |-> 0]
<1>8. DiskStep(v)
  BY <1>2 DEF DiskStep, NewEdits, Edits
<1> HIDE DEF d, v
<1>9. FinishedIn(d, manifest', DOMAIN table') /\ NumbersBelow(d, manifest', vs'.next)
  <2>1. vs.next <= vs'.next
    BY <1>1, <1>3
  <2>2. QED
    BY <1>2, <1>4, <1>5, <1>6, <2>1 DEF FinishedIn, NumbersBelow, Edits
<1>10. NamedFinished'
  BY <1>1, <1>6, <1>8, <1>9, NamedKept
<1>11. NumbersBelow(Dir, manifest', vs'.next)
  BY <1>1, <1>2, <1>3 DEF NextIsNew, MayBeLeft, Loaded, Named
<1>12. NextIsNew'
  <2>1. \A i \in DOMAIN <<Dir, d>> : <<Dir, d>>[i] = Dir \/ <<Dir, d>>[i] = d
    OBVIOUS
  <2>2. \A i \in DOMAIN dirs' : NumbersBelow(dirs'[i], manifest', vs'.next)
    BY <1>7, <1>9, <1>11, <2>1
  <2>3. QED
    BY <2>2 DEF NextIsNew
<1>13. EditsInOrder' /\ InUseFinished'
  BY <1>1, <1>2, <1>3, <1>4 DEF EditsInOrder, InUseFinished, Edits
<1>14. QED
  BY <1>10, <1>12, <1>13 DEF FinishedInv

\* A new table gets a number that no manifest has given, so that no crash brings back one
\* that is being written again.
LEMMA StartFinishes ==
  ASSUME NEW S, NEW T, Around(S, T), StartFlush \/ StartMerge
  PROVE  FinishedInv'
<1>1. /\ DirsOK(dirs) /\ Contents /\ Sane(Dir) /\ Len(dirs) \in DOMAIN dirs /\ Dir = dirs[Len(dirs)]
      /\ NamedFinished /\ Machine' = Machine /\ EditsInOrder /\ InUseFinished /\ NextIsNew
      /\ Numbered /\ vs \in VersionSet(S) /\ Given(vs) /\ vs.next \in Nat /\ vs'.next \in Nat
      /\ vs.tables \in SUBSET Nat
  BY AroundFacts
<1>2. PICK inputs : StartTable(inputs)
  BY DEF StartFlush, StartMerge
<1>3. /\ at = "open" /\ at' = "open" /\ UNCHANGED manifest
      /\ job' = [at |-> "build", inputs |-> inputs, out |-> vs.next]
      /\ vs' = [vs EXCEPT !.next = @ + 1]
      /\ DOMAIN table' = DOMAIN table \ {vs.next}
      /\ dirs' = Append(dirs, [Dir EXCEPT !.tables = @ \cup {vs.next}])
  BY <1>2 DEF StartTable, Running, TablesWithout, Changed
<1>4. vs'.tables = vs.tables /\ vs.next <= vs'.next
  BY <1>1, <1>3 DEF VersionSet
<1> DEFINE d == [Dir EXCEPT !.tables = @ \cup {vs.next}]
<1>5. Sane(d) /\ DirStep(d)
  BY <1>1, <1>3, SaneChanges DEF DirStep
<1>6. d.current = Dir.current /\ d.manifests = Dir.manifests /\ d.tables = Dir.tables \cup {vs.next}
  BY <1>1 DEF Sane, Directory
<1> HIDE DEF d
<1>7. ASSUME NEW i \in DOMAIN dirs, MayBeLeft(i),
             NEW e, e.current = dirs[i].current, e.manifests = dirs[i].manifests,
             e.tables \subseteq dirs[i].tables \cup {vs.next}
      PROVE  FinishedIn(e, manifest', DOMAIN table') /\ NumbersBelow(e, manifest, vs.next)
  <2>1. /\ FinishedIn(dirs[i], manifest, DOMAIN table) /\ NumbersBelow(dirs[i], manifest, vs.next)
        /\ dirs[i].manifests \subseteq DOMAIN manifest
    BY <1>1, <1>3, <1>7 DEF NamedFinished, NextIsNew, Contents, Named
  <2>2. ASSUME Names(e), NEW k \in DOMAIN manifest[e.current].edits
        PROVE  manifest[e.current].edits[k].tables \cap e.tables \subseteq DOMAIN table \ {vs.next}
    <3>1. Names(dirs[i]) /\ e.current \in DOMAIN manifest
      BY <1>7, <2>1, <2>2 DEF Names
    <3> DEFINE edit == manifest[e.current].edits[k]
    <3>2. /\ edit.tables \cap dirs[i].tables \subseteq DOMAIN table /\ edit.next <= vs.next
          /\ edit.tables \in SUBSET Nat /\ edit.next \in Nat /\ \A t \in edit.tables : t < edit.next
      BY <1>1, <1>7, <2>1, <2>2, <3>1 DEF FinishedIn, NumbersBelow, Numbered, Given, Edits
    <3> HIDE DEF edit
    <3>3. vs.next \notin edit.tables
      BY <1>1, <3>2
    <3>4. edit.tables \cap e.tables \subseteq DOMAIN table \ {vs.next}
      BY <1>7, <3>2, <3>3
    <3>5. QED
      BY <3>4 DEF edit
  <2>3. FinishedIn(e, manifest', DOMAIN table')
    BY <1>3, <2>2 DEF FinishedIn
  <2>4. NumbersBelow(e, manifest, vs.next)
    BY <1>7, <2>1 DEF NumbersBelow, Names
  <2>5. QED
    BY <2>3, <2>4
<1>8. FinishedIn(d, manifest', DOMAIN table') /\ NumbersBelow(d, manifest, vs.next)
  BY <1>1, <1>6, <1>7 DEF MayBeLeft
<1>9. NamedFinished'
  <2>1. ASSUME NEW i \in DOMAIN dirs', MayBeLeft(i)'
        PROVE  FinishedIn(dirs'[i], manifest', DOMAIN table')
    <3>1. CASE dirs'[i] = d
      BY <1>8, <3>1
    <3>2. CASE i # Len(dirs') /\ \E j \in DOMAIN dirs : dirs'[i] = dirs[j]
      <4>1. PICK j \in DOMAIN dirs : dirs'[i] = dirs[j]
        BY <3>2
      <4>2. MayBeLeft(j)
        BY <1>1, <2>1, <3>2 DEF MayBeLeft
      <4>3. dirs[j].tables \subseteq dirs[j].tables \cup {vs.next}
        OBVIOUS
      <4>4. QED
        BY <1>7, <4>1, <4>2, <4>3
    <3>3. QED
      BY <1>1, <1>5, <3>1, <3>2, DirsAfter
  <2>2. QED
    BY <2>1 DEF NamedFinished
<1>10. NextIsNew'
  <2> DEFINE v == [tables |-> {}, next |-> 0]
  <2>1. NewEdits(v) /\ DOMAIN manifest \subseteq DOMAIN manifest'
    BY <1>3 DEF NewEdits, Edits
  <2>2. v.next <= vs'.next
    BY <1>1
  <2> HIDE DEF v
  <2>3. NumbersBelow(d, manifest', vs'.next)
    <3>1. d.manifests \subseteq DOMAIN manifest
      BY <1>1, <1>6 DEF Contents
    <3>2. QED
      BY <1>1, <1>4, <1>8, <2>1, <2>2, <3>1, BelowLater
  <2>4. QED
    BY <1>3, <1>4, <1>5, <2>1, <2>2, <2>3, NextKept DEF Named
<1>11. InUseFinished'
  <2>1. vs.next \notin vs.tables /\ vs.tables \subseteq DOMAIN table
    BY <1>1, <1>3 DEF Given, InUseFinished, Loaded, Named
  <2>2. job'.at = "build"
    BY <1>3
  <2>3. QED
    BY <1>3, <1>4, <2>1, <2>2 DEF InUseFinished
<1>12. QED
  BY <1>1, <1>3, <1>9, <1>10, <1>11 DEF FinishedInv, EditsInOrder, Edits

\* The edit adds the table that was finished.
LEMMA LogEditFinishes ==
  ASSUME NEW S, NEW T, Around(S, T), LogEdit
  PROVE  FinishedInv'
<1>1. /\ DirsOK(dirs) /\ Contents /\ Sane(Dir) /\ Len(dirs) \in DOMAIN dirs /\ Dir = dirs[Len(dirs)]
      /\ NamedFinished /\ Machine' = Machine /\ InUseFinished /\ NextIsNew
      /\ Numbered /\ vs \in VersionSet(S) /\ vs.next \in Nat /\ vs'.next \in Nat /\ vs.number \in Nat
  BY AroundFacts
<1>2. /\ at = "open" /\ at' = "open" /\ UNCHANGED <<table, vs, dirs>>
      /\ job # None /\ job.at = "log" /\ job' = [job EXCEPT !.at = "sync"]
      /\ manifest' = [manifest EXCEPT ![vs.number].edits = Append(@, State(Edited(job)))]
  BY DEF LogEdit, Working, Running
<1>3. job'.out = job.out
  BY <1>2 DEF Around, Typed, MemoryOK, Jobs
<1>4. PICK v : v = State(Edited(job))
  OBVIOUS
<1>5. v.tables \subseteq vs.tables \cup {job.out} /\ v.next = vs.next
  BY <1>1, <1>4 DEF State, Edited, VersionSet
<1>6. vs.tables \subseteq DOMAIN table /\ job.out \in DOMAIN table
  BY <1>1, <1>2 DEF InUseFinished, Loaded, Named
<1>7. Dir.current = vs.number /\ Opens(Dir) /\ vs.number \in DOMAIN manifest
  <2>1. Ready
    BY DEF Around, RecoveryInv
  <2>2. Dir.current = vs.number /\ Opens(Dir)
    BY <1>2, <2>1 DEF Ready
  <2>3. QED
    BY <1>1, <2>2 DEF Opens, OpensWith, Contents
<1>8. NewEdits(v) /\ DOMAIN manifest \subseteq DOMAIN manifest' /\ EditsInOrder'
  <2>1. \A k \in DOMAIN Edits(vs.number) : Edits(vs.number)[k].next <= v.next
    BY <1>2, <1>5, <1>7, InUseBelow DEF Loaded, Named
  <2>2. manifest' = [manifest EXCEPT ![vs.number].edits = Append(@, v)]
    BY <1>2, <1>4
  <2>3. QED
    BY <1>1, <1>5, <1>7, <2>1, <2>2, EditsChange
<1>9. DiskStep(v) /\ DirStep(Dir)
  BY <1>2, <1>5, <1>6, <1>8 DEF DiskStep, DirStep
<1>10. /\ FinishedIn(Dir, manifest, DOMAIN table) /\ Dir.manifests \subseteq DOMAIN manifest
       /\ NumbersBelow(Dir, manifest, vs.next)
  BY <1>1, <1>2 DEF NamedFinished, NextIsNew, MayBeLeft, Contents, Loaded, Named
<1>11. vs.next <= vs'.next /\ v.next <= vs'.next
  BY <1>1, <1>2, <1>5
<1>12. FinishedIn(Dir, manifest', DOMAIN table')
  BY <1>9, <1>10, FinishedLater
<1>13. NumbersBelow(Dir, manifest', vs'.next)
  BY <1>1, <1>8, <1>10, <1>11, BelowLater
<1>14. NamedFinished'
  BY <1>1, <1>9, <1>12, NamedKept
<1>15. NextIsNew'
  BY <1>1, <1>2, <1>8, <1>9, <1>11, <1>13, NextKept DEF Named
<1>16. InUseFinished'
  BY <1>2, <1>3, <1>6 DEF InUseFinished
<1>17. QED
  BY <1>8, <1>14, <1>15, <1>16 DEF FinishedInv

\* A crash leaves a beginning of each manifest, and of the tables those of the directory.
LEMMA MachineCrashesFinishes ==
  ASSUME NEW S, NEW T, Around(S, T), MachineCrashes
  PROVE  FinishedInv'
<1>1. /\ DirsOK(dirs) /\ Contents /\ NamedFinished /\ EditsInOrder /\ ManifestOK(S)
  BY AroundFacts DEF Around, Typed
<1>2. Machine /\ at' = "down" /\ job' = None
  BY DEF MachineCrashes, Crashed, ForgetMemory, Machine
<1>3. PICK i : /\ i \in DOMAIN dirs /\ dirs' = <<dirs[i]>>
               /\ \E count \in Outcomes(dirs[i].manifests,
                                        LAMBDA n : manifest[n].synced..Len(manifest[n].edits)) :
                    manifest' = [n \in dirs[i].manifests |->
                                   [edits |-> SubSeq(manifest[n].edits, 1, count[n]), synced |-> count[n]]]
               /\ table' = TablesWithout(DOMAIN table \ dirs[i].tables)
  BY DEF MachineCrashes
<1> DEFINE d == dirs[i]
<1>4. PICK count : /\ \A n \in d.manifests : count[n] \in LeftOf(manifest[n], TRUE)
                   /\ manifest' = Beginnings(d.manifests, count)
  BY <1>3 DEF Outcomes, Beginnings, LeftOf
<1>5. d.manifests \subseteq DOMAIN manifest /\ FinishedIn(d, manifest, DOMAIN table)
  BY <1>1, <1>2, <1>3 DEF Contents, NamedFinished, MayBeLeft
<1>6. DOMAIN table' = DOMAIN table \cap d.tables
  BY <1>3 DEF TablesWithout
<1>7. dirs' = <<d>>
  BY <1>3
<1> HIDE DEF d
<1>8. /\ DOMAIN manifest' = d.manifests
      /\ \A n \in d.manifests : Begins(manifest'[n].edits, manifest[n].edits, count[n])
  BY <1>1, <1>4, <1>5, ManifestsLeft
<1>9. ASSUME NEW n \in d.manifests, NEW k \in DOMAIN manifest'[n].edits
      PROVE  k \in DOMAIN manifest[n].edits /\ manifest'[n].edits[k] = manifest[n].edits[k]
  <2>1. PICK c \in Nat : c = count[n] /\ c <= Len(manifest[n].edits)
    <3>1. manifest[n].edits \in Seq(Edit(S)) /\ manifest[n].synced \in Nat
      BY <1>1, <1>5 DEF ManifestOK
    <3>2. QED
      BY <1>4, <3>1 DEF LeftOf
  <2>2. Begins(manifest'[n].edits, manifest[n].edits, c)
    BY <1>8, <2>1
  <2>3. k \in 1..c
    BY <1>9, <2>2 DEF Begins
  <2>4. DOMAIN manifest[n].edits = 1..Len(manifest[n].edits) /\ Len(manifest[n].edits) \in Nat
    <3>1. manifest[n].edits \in Seq(Edit(S))
      BY <1>1, <1>5 DEF ManifestOK
    <3>2. QED
      BY <3>1
  <2>5. QED
    BY <2>1, <2>2, <2>3, <2>4 DEF Begins
<1>10. EditsInOrder'
  BY <1>1, <1>5, <1>8, <1>9 DEF EditsInOrder, Edits
<1>11. FinishedIn(d, manifest', DOMAIN table')
  <2>1. ASSUME Names(d), NEW k \in DOMAIN manifest'[d.current].edits
        PROVE  manifest'[d.current].edits[k].tables \cap d.tables \subseteq DOMAIN table \cap d.tables
    <3>1. d.current \in d.manifests
      BY <2>1 DEF Names
    <3>2. /\ k \in DOMAIN manifest[d.current].edits
          /\ manifest'[d.current].edits[k] = manifest[d.current].edits[k]
      BY <1>9, <2>1, <3>1
    <3>3. manifest[d.current].edits[k].tables \cap d.tables \subseteq DOMAIN table
      BY <1>5, <2>1, <3>2 DEF FinishedIn
    <3>4. QED
      BY <3>2, <3>3
  <2>2. QED
    BY <1>6, <2>1 DEF FinishedIn
<1>12. NamedFinished'
  <2>1. \A j \in DOMAIN <<d>> : <<d>>[j] = d
    OBVIOUS
  <2>2. QED
    BY <1>7, <1>11, <2>1 DEF NamedFinished
<1>13. NextIsNew' /\ InUseFinished'
  BY <1>2 DEF NextIsNew, InUseFinished, Loaded, Named
<1>14. QED
  BY <1>10, <1>12, <1>13 DEF FinishedInv

\* A repair's manifest names the tables that were found readable.
LEMMA WriteDescriptorFinishes ==
  ASSUME NEW S, NEW T, Around(S, T), WriteDescriptor
  PROVE  FinishedInv'
<1>1. /\ DirsOK(dirs) /\ Contents /\ Sane(Dir) /\ NamedFinished /\ Machine' = Machine
      /\ InUseFinished /\ vs \in VersionSet(S) /\ vs.next \in Nat
  BY AroundFacts
<1>2. /\ at = "describe" /\ at' = "install" /\ UNCHANGED <<job, table, vs>>
  BY DEF WriteDescriptor, Repairing
<1>3. vs.tables \subseteq DOMAIN table /\ job' = None
  BY <1>1, <1>2 DEF InUseFinished, Around, Typed, ProcessOK
<1> DEFINE seq == MaxSeq(UNION {table[n] : n \in vs.tables}, 0)
<1>4. PICK v : v = State([vs EXCEPT !.seq = seq])
  OBVIOUS
<1>5. v.tables = vs.tables /\ v.next = vs.next
  <2> HIDE DEF seq
  <2> QED
    BY <1>1, <1>4 DEF State, VersionSet
<1>6. manifest' = With(manifest, 1, [edits |-> <<v>>, synced |-> 0])
  BY <1>4 DEF WriteDescriptor
<1> HIDE DEF seq
<1>7. NewEdits(v) /\ DOMAIN manifest \subseteq DOMAIN manifest' /\ EditsInOrder'
  BY <1>1, <1>5, <1>6, EditsChange
<1>8. DiskStep(v)
  BY <1>2, <1>3, <1>5, <1>7 DEF DiskStep
<1>9. \A k \in DOMAIN manifest'[1].edits : manifest'[1].edits[k] = v
  <2>1. manifest'[1].edits = <<v>>
    BY <1>6 DEF With
  <2>2. QED
    BY <2>1
<1> DEFINE d == [Dir EXCEPT !.manifests = {}]
           e == [Dir EXCEPT !.manifests = {1}]
<1>10. /\ Sane(d) /\ Sane(e) /\ d.manifests = {} /\ e.manifests = {1}
       /\ dirs' = Append(Append(dirs, d), e)
  <2>1. Sane(d) /\ Sane(e)
    BY <1>1, SaneChanges
  <2>2. d.manifests = {} /\ e.manifests = {1}
    BY <1>1 DEF Sane, Directory
  <2>3. QED
    BY <2>1, <2>2 DEF WriteDescriptor, Changed
<1> HIDE DEF d, e
<1>11. FinishedIn(d, manifest', DOMAIN table') /\ FinishedIn(e, manifest', DOMAIN table')
  BY <1>2, <1>3, <1>5, <1>9, <1>10 DEF FinishedIn, Names
<1>12. \A i \in DOMAIN dirs' : \/ dirs'[i] \in {d, e}
                               \/ i # Len(dirs') /\ \E j \in DOMAIN dirs : dirs'[i] = dirs[j]
  <2>1. PICK n \in Nat : n = Len(dirs) /\ DOMAIN dirs = 1..n
    BY <1>1 DEF DirsOK
  <2>2. dirs \in Seq(Directory) /\ d \in Directory /\ e \in Directory
    BY <1>1, <1>10 DEF DirsOK, Sane
  <2>3. /\ Append(dirs, d) \in Seq(Directory) /\ Len(Append(dirs, d)) = n + 1
        /\ Append(dirs, d)[n + 1] = d /\ \A i \in 1..n : Append(dirs, d)[i] = dirs[i]
    BY <2>1, <2>2, AppendProperties
  <2> DEFINE mid == Append(dirs, d)
  <2> HIDE DEF mid
  <2>4. /\ Len(Append(mid, e)) = n + 2 /\ DOMAIN Append(mid, e) = 1..n + 2
        /\ Append(mid, e)[n + 2] = e /\ \A i \in 1..n + 1 : Append(mid, e)[i] = mid[i]
    <3>1. mid \in Seq(Directory) /\ Len(mid) = n + 1
      BY <2>3 DEF mid
    <3>2. QED
      BY <2>1, <2>2, <3>1, AppendProperties
  <2>5. \A i \in 1..n + 2 : i = n + 2 \/ (i = n + 1 /\ i \in 1..n + 1) \/ (i \in 1..n /\ i \in 1..n + 1 /\ i # n + 2)
    BY <2>1
  <2>6. dirs' = Append(mid, e)
    BY <1>10 DEF mid
  <2>7. \A i \in 1..n : mid[i] = dirs[i]
    BY <2>3 DEF mid
  <2>8. mid[n + 1] = d
    BY <2>3 DEF mid
  <2>9. QED
    BY <2>1, <2>4, <2>5, <2>6, <2>7, <2>8
<1>13. NamedFinished'
  <2>1. ASSUME NEW i \in DOMAIN dirs', MayBeLeft(i)'
        PROVE  FinishedIn(dirs'[i], manifest', DOMAIN table')
    <3>1. CASE dirs'[i] \in {d, e}
      BY <1>11, <3>1
    <3>2. CASE i # Len(dirs') /\ \E j \in DOMAIN dirs : dirs'[i] = dirs[j]
      <4>1. PICK j \in DOMAIN dirs : dirs'[i] = dirs[j]
        BY <3>2
      <4>2. FinishedIn(dirs[j], manifest, DOMAIN table) /\ dirs[j].manifests \subseteq DOMAIN manifest
        BY <1>1, <2>1, <3>2 DEF NamedFinished, MayBeLeft, Contents
      <4>3. PICK f : f = dirs[j]
        OBVIOUS
      <4>4. FinishedIn(f, manifest', DOMAIN table')
        BY <1>8, <4>2, <4>3, FinishedLater
      <4>5. QED
        BY <4>1, <4>3, <4>4
    <3>3. QED
      BY <1>12, <3>1, <3>2
  <2>2. QED
    BY <2>1 DEF NamedFinished
<1>14. NextIsNew' /\ InUseFinished'
  <2>1. \A k \in DOMAIN Edits(1)' : Edits(1)'[k].tables \subseteq DOMAIN table
    BY <1>3, <1>5, <1>9 DEF Edits
  <2>2. QED
    BY <1>2, <1>3, <2>1 DEF NextIsNew, InUseFinished, Loaded, Named
<1>15. QED
  BY <1>7, <1>13, <1>14 DEF FinishedInv

-----------------------------------------------------------------------------
(* All steps *)

LEMMA InitFinished == Init => FinishedInv
<1> SUFFICES ASSUME Init PROVE FinishedInv
  OBVIOUS
<1>1. at = "down" /\ job = None /\ manifest = <<>> /\ dirs = <<EmptyDir>>
  BY DEF Init
<1>2. \A i \in DOMAIN <<EmptyDir>> : ~Names(<<EmptyDir>>[i])
  <2>1. ~Names(EmptyDir)
    BY DEF Names, EmptyDir
  <2>2. QED
    BY <2>1
<1>3. NamedFinished
  BY <1>1, <1>2 DEF NamedFinished, FinishedIn
<1>4. EditsInOrder /\ NextIsNew /\ InUseFinished
  BY <1>1 DEF EditsInOrder, NextIsNew, InUseFinished, Loaded, Named
<1>5. QED
  BY <1>3, <1>4 DEF FinishedInv

LEMMA FinishedStep ==
  ASSUME RecoveryIInv, RecoveryIInv', FinishedInv, [Next]_vars
  PROVE  FinishedInv'
<1>1. PICK S : Typed(S)
  BY DEF RecoveryIInv
<1>2. PICK T : Typed(T)'
  BY DEF RecoveryIInv
<1>3. Around(S, T)
  <2>1. UNCHANGED scenario
    BY <1>1, ProcessKept DEF Typed
  <2>2. QED
    BY <1>1, <1>2, <2>1 DEF Around, RecoveryIInv
<1>4. CASE UNCHANGED vars
  <2>1. UNCHANGED <<scenario, dirs, manifest, table, at, vs, job>>
    BY <1>4 DEF vars, disk, memory
  <2>2. EditsInOrder' /\ NamedFinished'
    BY <2>1 DEF FinishedInv, EditsInOrder, NamedFinished, Edits, MayBeLeft, Machine
  <2>3. InUseFinished' /\ NextIsNew'
    BY <2>1 DEF FinishedInv, InUseFinished, NextIsNew, Edits, MayBeLeft, Machine
  <2>4. QED
    BY <2>2, <2>3 DEF FinishedInv
<1>5. CASE Next
  <2>1. CASE NewDB \/ NameFirstManifest \/ ReadManifest \/ ReplayLog \/ CreateLog
    BY <1>3, <2>1, NewDBFinishes, NamersFinish, ReadManifestFinishes, ReplayFinishes, CreateLogFinishes
  <2>2. CASE SaveManifest \/ SyncManifest \/ NameManifest \/ OpenReturns \/ OpenFails
    BY <1>3, <2>2, SaveManifestFinishes, SyncManifestFinishes, NameManifestFinishes, DeletionFinishes,
       EndFinishes
  <2>3. CASE \/ \E n \in scenario.sizes : AppendRecord(n) \/ AppendFails(n)
             \/ \E sync \in BOOLEAN : EndWrite(sync)
             \/ SyncFails \/ SwitchMemTable
    BY <1>3, <2>3, WritersFinish
  <2>4. CASE StartFlush \/ StartMerge \/ FinishTable \/ LogEdit \/ InstallEdit \/ JobDone \/ JobFails
    BY <1>3, <2>4, StartFinishes, FinishTableFinishes, LogEditFinishes, InstallEditFinishes,
       DeletionFinishes, JobFailsFinishes
  <2>5. CASE ProcessEnds \/ MachineCrashes
    BY <1>3, <2>5, EndFinishes, MachineCrashesFinishes
  <2>6. CASE \/ StartRepair \/ ConvertLogToTable \/ ArchiveLog \/ ExtractMetaData
             \/ WriteDescriptor \/ InstallDescriptor
    BY <1>3, <2>6, FindingFinishes, WriteDescriptorFinishes, NamersFinish
  <2>7. QED
    BY <1>5, <2>1, <2>2, <2>3, <2>4, <2>5, <2>6 DEF Next
<1>6. QED
  BY <1>4, <1>5

\* Whatever a crash leaves of directories and manifests, a table that a manifest names and
\* that is there has been finished; and no number is given again that one of them has.
THEOREM FinishedInvariant == Spec => []FinishedInv
<1>1. Init => FinishedInv
  BY InitFinished
<1>2. RecoveryIInv /\ RecoveryIInv' /\ FinishedInv /\ [Next]_vars => FinishedInv'
  BY FinishedStep
<1>3. QED
  BY <1>1, <1>2, RecoveryInvariant, PTL DEF Spec

\* An open database works with finished tables only: neither a crash, nor a failure, nor a
\* repair makes it take over a file whose building was cut short, or write to one in use.
THEOREM AllTablesFinished == Spec => []TablesFinished
<1>1. FinishedInv => TablesFinished
  BY DEF FinishedInv, InUseFinished, TablesFinished, Loaded, Named
<1>2. QED
  BY <1>1, FinishedInvariant, PTL

=============================================================================
