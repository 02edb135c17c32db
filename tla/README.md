# Cloud Camera: a verification project in TLA+

Cloud Camera is an iOS photo sharing app on Firebase. Users sign up, log in, take
or choose a photo, write a caption and post it; they see everyone's posts, like
them, comment on them and delete their own. There is no server code in the
repository: the app's handlers talk to three services (authentication, a realtime
database, a storage bucket), and every rule about users, posts, likes and photos is
kept, or lost, by chains of asynchronous callbacks on the phones. The repository
also holds the sources of the libraries the app is built with. Two of them are
written in C and C++ and stand on their own: **leveldb**, the store in which the
database library can keep its data on disk (the app does not turn that on), and
**nanopb**, the protocol buffer codec below Firebase's reporting. The app's tests
are empty templates.

Paths of the app are relative to `src/CloudCameraApp/Cloud Camera/`, those of the
libraries to `src/CloudCameraApp/Pods/`.

## 1. The system

### Components, their state and their operations

| Component | State | Operations | What is hard |
|---|---|---|---|
| Realtime database link (`FirebaseDatabase`, as used) | outstanding writes of a device, in memory | append, apply and acknowledge in order, send again after a reconnect | writes delivered twice; completions that never come |
| Publishing (`Controller/UploadPhotoVC`, pickers in `PhotoLibraryVC`, `CameraVC`) | caption field, photo under way | `onClickUpload`, `putData` completion, `uploadSuccess`, back | two services without a transaction; second taps; sign-out and kills in between |
| Deleting (`Controller/PostDetailVC.deletePost`) | none of its own | remove the record, then the photo, then toast and pop | two phones of one account; stale feeds; partial failure |
| Likes (`PostDetailVC.likeUnlikePic`, `likePost`, `unlikePost`, `getCurrentUserLikedPost`) | icon; `total_likes`, `user_who_liked`, `liked_posts` in the database | tap, transaction, read-back, two puts, initial read | one fact in four places; late answers; aborted transactions; kills |
| Session (`LoginVC`, `SignUpVC`, `HomeVC.onClickSignOutButton`, `AppDelegate`, `AppPrefsManager`) | keychain user, stored user id and name, root screen, profiles under `users/` | log in, sign up, sign out, launch | three sources of truth; kills; overlapping logins |
| leveldb, write path (`db/db_impl.cc`) | queue of writers, memtables, log, background work | `Write`, `MakeRoomForWrite`, manual compactions, the destructor, the background thread | condition variables; work without the mutex; failures |
| leveldb, versions and compaction (`db/version_set.cc`, `db/db_impl.cc`) | files of each level, snapshots, referenced versions | `Get`, flushes, merges by size, seeks and range, deletion of tables | long sequences of merges; readers of old versions |
| leveldb, log, recovery and repair (`db/log_*.cc`, `db/db_impl.cc`, `db/version_set.cc`, `db/repair.cc`) | log files, manifests, tables, `CURRENT` | `Open`, `NewDB`, replay, `LogAndApply`, `DeleteObsoleteFiles`, `RepairDB` | a crash between any two steps; what was not synced |
| leveldb, memtable, tables and iterators (`db/skiplist.h`, `table/*.cc`, `db/db_iter.cc`) | skip list, blocks, positions of iterators | `Insert`, `Seek`, `Next`, `Prev` | lock-free readers; turning round; damaged blocks |
| nanopb (`pb_encode.c`, `pb_decode.c`, `pb_common.c`) | two streams, messages | encode, decode, skip | widths and signs; versions of a type; full and cut streams |
| Feed (`HomeVC`, `Post`) | array behind the collection view | `viewWillAppear`, `getAllPosts`, tap on a cell | overlapping reads; array and view out of step; forced casts |
| Comments (`PostDetailVC`) | `commentDic`, `isSendComment`, text field | end of editing, `sendComment`, live observer | sticky flag; order; cells off the screen |
| Form checks (`LoginVC`, `SignUpVC`, `Validation`) | text fields | the chains of checks before a call | boundaries of lengths |
| Cell images (`HomeVC`, `PhotoLibraryVC`) | image of each reused cell | two loaders per cell | answers out of order |
| Reachability, screen helpers | none | a query; layout and toasts | - |
| Other libraries (authentication, storage, sync tree, HTTP, images, keyboard) | - | called as services | - |

### How they interact

A session gives every other component of the app its user id
(`AppPrefsManager.getUserID`), read at the moment of use, which is often inside a
callback long after the tap. All database writes of a device go through one link in
the order they are issued. The feed and the detail screen work on copies of posts
taken when the feed was read. Publishing, deleting, liking and commenting meet in
one database node, `posts/<id>`: deletion removes all of it while the others write
below it.

In leveldb, callers share `mutex_` with one background thread. Writers fill the
memtable and the log; the background thread turns full memtables into tables of
level 0 and merges tables downwards; each change of the set of tables goes through
the manifest. Readers take a sequence number and references to memtables and a
version, and then need no lock. An `Open` rebuilds all of it from the files.

### What makes each component correct

- Publishing and deleting: a listed post has its photo; a deleted post stays
  deleted; every tap and every confirmed deletion ends.
- Likes: counter, both records and icon agree when the calls have ended, and a lost
  connection or process costs the counter one like at most; the last committed tap
  wins; a tap always comes to an end; the post stays readable.
- Session: Home is shown to somebody the app knows, the stored id never belongs to
  anybody else, every account gets its profile, a login ends.
- leveldb: an atomic store of batches, whose readers see one order; no flush, merge
  or deletion of files changes an answer; what was promised survives a crash, and
  the store opens again; an iterator moves over exactly its snapshot.
- nanopb: what is decoded is what was encoded, and everything encoded can be decoded.

## 2. The modules

| Module | Models | Uses |
|---|---|---|
| `DatabaseLink` | operators on one device's link record: `Enqueue`, `Applied`, `Acked`, `Resent` | - |
| `PostPublishing` | upload, publication, feed reads, deletion, sign-in and sign-out around them | `DatabaseLink` |
| `PostLikes` | the likes of one post | `DatabaseLink` |
| `Session` | who is signed in | `DatabaseLink` |
| `BatchStore` | *abstract*: a store in which batches take effect at once, in one order | - |
| `WriteQueue` | writers, memtables, log files and the background thread | refines `BatchStore` |
| `SnapshotStore` | *abstract*: the last value of each key, and frozen copies of all | - |
| `Versions` | operators on levels of files: `Get`, the choice of compactions, inputs, outputs, edits | - |
| `Compaction` | flushes, merges, snapshots, iterators, deletion of tables | `Versions`, `SnapshotStore` |
| `LogFormat` | records, fragments and blocks of a log file | - |
| `Recovery` | files across crashes: `Open`, writes, jobs, `RepairDB` | `LogFormat` |
| `SnapshotCursor` | *abstract*: a cursor over a fixed set of entries | - |
| `SkipList` | nodes linked level by level, searches load by load | - |
| `TableCursor` | iterators of blocks and of tables, with damage | `SkipList` |
| `Iterators` | merging iterator and `DBIter` over a growing memtable and tables | `TableCursor`; refines `SnapshotCursor` |
| `WireFormat` | varints, zigzag, fixed words, substreams | - |
| `Nanopb` | messages of all static field kinds over a stream | `WireFormat` |
| `MC...` | the instances of the runs | the module each is named for |
| `DatabaseLinkProofs`, `PostPublishingProofs`, `SessionProofs` | the theorems about links, publishing and sessions | `TLAPS` |
| `PostLikesProofs` | the theorems about likes | `DatabaseLinkProofs` |
| `WriteQueueProofs` | the theorems about leveldb's write path: log files; queue, sleepers and work; answers and the refinement | `TLAPS` |
| `CompactionProofs` | the theorems about leveldb's versions and tables | `TLAPS` |
| `RecoveryProofs` | the theorems about leveldb's files across crashes | `TLAPS` |
| `IteratorsProofs` | the theorems about the memtable's skip list | `TLAPS` |

Operators whose comment starts with "Mutant of" are altered copies of the
definition that follows them. No module uses them; each shows that a certain
mistake in the code would break a certain property (`mutants` in `PROJECT.json`).

Where several kinds of users or faults are checked in one run, a variable that
never changes (`world`, `scenario`) says which of a given set of them a behaviour
has. Properties that need a calm world say so by looking at it.

### The app

**DatabaseLink.** `puts` is `outstandingPuts` of `FPersistentConnection`, `done` is
how many of them the server has applied in the present connection.
`setValue`/`removeValue` append (`putInternal`), acknowledgements take the oldest
away and run its completion (`sendPut`), a reconnect sends everything again
(`restoreState`), and the end of the process forgets the queue, as the app never
turns disk persistence on.

**PostPublishing.** A member of `Upload` is one tap on Upload that passed the
checks, followed through `stage`: `storing` (`putData` called) - `linking`
(`uploadSuccess`, the URL asked for) - `published` (record written), or `failed`
or `lost`. `ClickUpload`, `UploadCompletes`, `PublishPost` are the three handlers;
`StoreImage` is the bucket. `record` is what `uploadSuccess` wrote, with the user
and the caption read at that moment, as in the code. `DeletePost` is the confirmed
menu entry; `AckPut` runs `removeValue`'s completion, which asks for the photo's
deletion (`deleting`); `DeleteImage` shows the toast (`toldDeleted`).
`PublishWhenSignedOut` is the forced cast to `UITabBarController` that ends the
process. `feed` is the set of posts a Home screen lists; `Sees` is what a read
answers: the server's data under the device's own outstanding writes.

**PostLikes.** `icon` is the button's image, `asking` the pending read of
`liked_posts`, `txs` the transactions not answered yet, `batch` the ones the server
has run in one write, `reads` the read-backs of committed ones, `who` and `liked`
the two records. `last` follows the last tap on each open screen, for one property.
The habits `early_tap`, `quick_reopen` and `offline` are things users do that
the screens do not prevent. `Kill` ends the process with all its calls.

**Session.** `auth` is `Auth.currentUser` (keychain), `prefs` the stored user id,
`root` the root screen, an attempt one tap on Log in or Sign up. `SignInGranted`
and `SignUpGranted` are the completions, `ProfileFound` and `ProfileMissing` the
two answers about `users/<uid>`, `RootAtLaunch` the decision in `AppDelegate`. A
sign-up may create the account and still fail: its answer is lost or the keychain
refuses the user (`SignUpUnanswered`, an error is shown), or the user cannot be
retrieved, which `createUser` does not report (`SignUpWithoutUser`; `SignUpVC` returns
and leaves its spinner on). Neither writes a profile, so `ProfileWritten` is about
sign-ups that bring their user back to the login screen, and `LoginSettles` about what
a login to an account without a profile is told. The
habit `impatient` taps again while an attempt is under way: the buttons allow it.

### leveldb

**WriteQueue.** One step is one critical section of `mutex_`, or the unlocked work
between two. `pc` says where each caller is, `asleep` who is inside a condition
variable's `Wait`; `LeaveQueue` signals the writers of a group and the new front
writer, `AfterSignalAll` wakes `bg_cv_`. `WriteGroup` is `BuildBatchGroup` and what
follows it, `Room...` the branches of `MakeRoomForWrite`. `bg` is the background
thread's program counter, and remembers whether a flush runs in the middle of a
merge (`nested`) and whether the work is a manual compaction. Failures of the log,
its sync, a table, the manifest or a new log are `Fails(kind)`.

**Versions, Compaction.** A file is its number and its entries <<key, sequence,
type>>; a version a function from levels to sequences of files. The operators follow
`version_set.cc` one to one: `FindFile`, `OverlapInLevel`, `Overlapping`,
`PickLevelForMemTableOutput`, `WithOtherInputs`, `PickForSize`/`Seeks`/`Range`,
`Outputs` (with `ShouldStopBefore` and the size limit), `Edited`. In `Compaction` a
flush is one step; a merge takes its decisions and the oldest snapshot in one step,
writes one output per step, and installs the result in another, so that snapshots,
writes, iterators and nested flushes come in between. `latest` and `frozen` are the
abstract store (`SnapshotStore`) in lockstep: what readers were promised.

**LogFormat, Recovery.** A log is a sequence of fragments with their places in
blocks; `Truncated` cuts it at any unit, also within a header, and remembers which
fragment is `torn`; `RecordsOf` is what the reader makes of it, whatever was appended
behind. A record may be cut by the end of the process, by a crash of the machine, or by
an append that fails (`AppendFails`): the log then stays in use, and `ahead` says by how
much the writer's `block_offset_` has left its end behind. `dirs` is the directory after each change since the last sync, of which a
machine crash keeps some prefix; `.synced` says how much of each log and manifest is
durable. Every file operation of `Open`, of a write, of a flush or merge and of
`RepairDB` that a crash can separate from the next one is a step of its own. An
entry is a sequence number and the number of the write it came from. `table` has the
entries of the tables that are finished: a table that is begun is a file in `dirs`
without an entry in `table`, and one begun under a number given before loses what an
earlier life wrote there (`TablesWithout`).

**SkipList, TableCursor, Iterators.** A search of the skip list is a sequence of
loads of links (`LoadLink`), an insertion a sequence of link stores from the lowest
level up (`LinkLevel`); the new sequence number is published at the end. `BlockMove`
is `Block::Iter` with its restart points and entries that cannot be decoded,
`CursorMove` the two-level iterator with blocks that cannot be read. `Iterators` has
the merging iterator (`StartMerge`, `MemMove`, `Load`, `EndMerge`) and `DBIter`
(`NextFound`, `SkipNext`, `TurnOn`, `PrevFound`, `SkipPrev`, ...) as written, loops
included. The writer moves only while no call is under way or between two loads of a
search: what happens between them reads nothing the writer changes, so other
interleavings are equivalent to these.

### nanopb

**WireFormat, Nanopb.** A byte is a set of bits, an integer of *w* bits a subset of
`0..w-1`, so that widths, signs and zigzag are exact for 64 bits. `Chunk`s are what
the encoder writes at once: a full stream keeps those that fitted. A field's
descriptor has what `pb_field_t` has (`ltype`, `htype`, sizes). `DecodeFields` is the
loop of `pb_decode_noinit`, with skipped fields, the bookkeeping of required fields
and of arrays of fixed count.

## 3. The runs

| Run | Instance | Shows |
|---|---|---|
| `Publishing` | 1 phone, 2 users, 1 screen, 2 uploads; 1 drop, 1 kill, failing uploads. Or 2 phones of a third user, 1 upload; 1 kill each, failing uploads and photo deletions. Or these 2 phones, which upload once each in the same millisecond; failing photo deletions | `TypeOK`, `NoDanglingImage`, `DeletedStaysDeleted`, `PublishingInv`; on the one phone `UploadSettles` and `DeleteSettles`, under fairness |
| `DeleteResurrected` | 2 phones of one user, 1 upload, 1 drop each | `DeletedStaysDeleted` is violated |
| `Likes` | 2 phones with 2 taps each and no faults; 1 phone with 3 taps, all habits, a drop, aborts, deletion; 1 phone with 3 taps, a drop, 2 kills | `TypeOK`, `DriftBounded`, `IconShowsLike`, `RecordsAgree`, `LastTapRecorded`, `TapSettles` |
| `LikeAfterDelete` | 1 phone, 1 tap, deletion of the post | `PostReadable` is violated |
| `Session` | 1 phone with 3 attempts, 2 kills, 2 drops; 2 phones with 3 attempts and kills; 1 impatient phone | `TypeOK`, `HomeKnowsUser`, `PrefsMatchAuth`; `ProfileWritten` and `LoginSettles` under fairness |
| `WriteQueue` | 2 or 3 threads, 3 calls; sync and other writes, groups, failures, manual compactions, the destructor | `TypeOK`, `NoLostWakeUp`, `VisibleRecoverable`, `AckedSynced`, `ManualKept`; the refinement `StoreSpec`; `CallsReturn` |
| `RequestWithdrawn` | 2 threads, a `CompactRange` beside sync writes whose log cannot be synced | `ManualAlwaysThere` is violated |
| `Compaction` | 4 levels, 1 to 3 keys, 3 to 5 writes in six scenarios | `TypeOK`, `LevelsDisjoint`, `NewerAbove`, `TablesKept`, `ReadsKept` |
| `StaleRead` | 1 key, 6 writes, 1 snapshot, merges into one-entry files | `NewerAbove` is violated |
| `Recovery` | 2 or 3 writes, 1 or 2 crashes, in seven scenarios | `TypeOK`, `TablesFinished`, `AckedKept`, `CanReopen`, `SequencesFresh` |
| `Iterators` | up to 3 writes, up to 4 calls, up to 2 tables, damage, in five scenarios | `LevelsLinked`; the refinement `CursorSpec` |
| `Nanopb` | 11 message types, 2 messages a stream, in equal, older, newer and narrower types | `GotAsSent`, `NothingRefused` |

**Bounds, and why they are enough.** *App.* One post is affected by at most three kinds
of writes (its creation, removals, likes), each from one phone or from another, so
two phones and two users give every order of them. Two uploads are needed for a
second tap on one screen and for a removal queued behind an unrelated write; three
outstanding writes when Delete is tapped let a removal be queued twice behind the
post's own write. One drop per device splits a queue into an applied and an
unapplied part once; a second adds no new kind of state for one queue, and `Session`
allows two. Three taps give like, unlike, like: a tap whose transaction, read-back or
puts are overtaken by both a later and an earlier one; with two kills and a drop the
error of the counter reaches the bound of `DriftBounded` and does not pass it.
`Session` needs three attempts: a sign-up, a login, and another user's sign-up or
another phone's login, which may come before the first phone has sent the profile.

`Publishing` keeps its two instances apart with the variable `instance`: the other
phones stay signed out.

*leveldb.* Three writers give a front writer, one in its group and one behind it;
one entry fills a memtable and one file starts a merge, so that each of the three
waits of `MakeRoomForWrite` happens. `MaxBytes` of two entries per level and files of
one entry make merges cascade through three levels, into the grandparents rule and
the growing of inputs; three to five writes are the fewest for a deletion to travel
below a value and for two files of level 0 to overlap. In `Recovery`, blocks of six
units with headers of two let records of one to three units fill a block, leave
room for just a header, or less; a second crash may hit the recovery of the first.
In `Iterators`, towers of two links are the least that lets a search meet a node on
one level and not on the other; blocks of up to five entries have three restart
points. *nanopb.* Values at the borders of every width (0, -1, the smallest, ones of
two groups of seven bits) in every field kind; buffers of 12 bytes end in the middle
of each message.

`CHECK_DEADLOCK FALSE` is set where behaviours end: all attempts used and everybody
signed out, all calls made, all crashes spent, the stream read.

**Fairness.** In the app, weak fairness is assumed of the services' answers and the
callbacks of the libraries, which the main queue runs in turn: applying and
acknowledging writes, storing, completing uploads, running and answering
transactions, answering reads and logins. Nothing is assumed of users, faults,
failing answers or kills. The number of drops is bounded, so a connection finally
holds; with endless drops no write need ever arrive. In `WriteQueue` it is assumed
of each thread that has a step to make, and of the background thread: the operating
system runs them, and `mutex_` is held only for single steps. Nothing is assumed of
new calls.

**Refinements.** `StoreSpec`: `WriteQueue` implements `BatchStore`. A call is pending
while its thread is in `Write`; the history is the set of entries readers see, each as
its sequence number and its call, `last` the last sequence number. The step that
publishes a sequence number is `Commit`: it puts the batches of a whole group behind
everything there is, in their order, and answers its first call; every other end of a
call is `Answer`, which is OK just if the call's batch is in the history. So readers never
see half of a batch, an order that changes later, an acknowledged write that is not
there, or a failed one. `CursorSpec`: `Iterators` implements
`SnapshotCursor`. The view is the newest entry of each key in the snapshot, less
deletions, and each call's answer is the entry the abstract cursor moves to. Both
are safety refinements. `ReadsKept` compares `Compaction`'s `Get` with the abstract
store that makes the same steps.

**What the violations say** (details under `findings` in `PROJECT.json`):

1. `DeleteResurrected`: a phone whose connection dropped after the server had
   applied its write of a post sends the write again, after another phone of the
   same account has deleted the post and its photo. The record is back for good.
2. `LikeAfterDelete`: a like on a post deleted meanwhile creates a node that has
   only `total_likes`; reading the feed then fails in a forced cast.
3. `StaleRead`: a merge keeps two entries of one key for a snapshot and ends an
   output file between them. A later compaction takes the file with the newer one,
   moves it a level down, and reads find the older one first. `Version::Get` says
   that entries never hop across levels.
4. `RequestWithdrawn`: while the background thread runs a merge for a `CompactRange`,
   with the mutex unlocked, another thread's sync fails. `TEST_CompactRange` sees the
   background error and sets `manual_compaction_` to null; the background thread then
   writes `done` through that pointer. The header says that a store may be used by
   several threads at once.

**Known and left without a run.** A second tap on Upload while the first is under way
publishes the photo again, with the caption the first one has cleared. Two phones that
tap in the same millisecond store one photo, and deleting one of the posts takes the
other's photo: `NoDanglingImage` allows that one reason (`TakenByAnother`), and
`Publishing` explores it. A login
tapped twice whose second answer comes after a log-out shows Home with nobody signed
in (`HomeKnowsUser`, `PrefsMatchAuth` and `LoginSettles` are about patient users for
that reason). In leveldb, `options.h` (lines 194-196) says that no writes are lost if just the process
crashes. Two states break that. With `reuse_logs`, a log whose last record the end of the
process has cut is appended to where it ends (`db_impl.cc:459-463`); the reader drops the
rest of a block after a damaged fragment, and with it writes that were acknowledged since.
And after an append that failed the log stays in use, with `block_offset_` moved on
(`log_writer.cc:107`); the reader then drops the writes that follow in that block.
`AckedKept` says how far that goes: without `reuse_logs` and as long as nothing fails, no
acknowledged write is lost, wherever the end of the process or of the machine cuts a
record; otherwise none that went to a log all of whose fragments could be read when it was
acknowledged (`Sound`), so that damage further on does not reach back. `Recovery` explores
both states. A memtable flushed in the middle of a `CompactRange` merge
may be put, by `PickLevelForMemTableOutput`, on the level the merge writes to, over
its output (the instance `FlushedIntoGaps` of `MCCompaction` shows it; the check in
`Builder::SaveTo` would abort a debug build), so the run `Compaction` fills no
memtable during a `CompactRange`. With `reuse_logs`, a repair that finds neither a log nor a table writes a manifest
numbered 1 that gives number 1 again, and the next `Open` would write its own manifest
over the one `CURRENT` names; `ScenariosAssumption` of `Recovery` keeps repairs and
`reuse_logs` apart. A machine crash before anything was
synced after `NewDB` leaves a `CURRENT` whose manifest is empty, which `Open` refuses
for ever: `CanReopen` starts from the first sync. With `reuse_logs`, a manifest whose last
record the end of the process has cut is appended to as well; the next `Open` then reports
a corruption, or does not see what was appended and may delete the logs it needs.
`Recovery` ends the process between the records of a manifest only, and has crashes of
the machine only without that option. `RepairDB` does not check the checksums of log
records, so that it may take what follows a damaged fragment for a record; repairs are
explored without failing appends. In nanopb, a null-terminated stream cut between two
fields is taken for a complete message, so that framing is checked with whole streams
only, and `pb_dec_varint` drops high bits before it checks for overflow.

## 4. The proofs

`PostPublishingProofs` proves, for every set of phones, accounts, screens and
uploads, every bound and every choice of faults:

- `TypeCorrect`: `Spec => []TypeOK`. It rests on the lemmas of `DatabaseLinkProofs`,
  which say for each link operator what it does to the length and the elements of
  the queue; those and two placement facts (`AppliedWithinQueue`, `UploadsPlaced`)
  make the type invariant inductive.
- `PublishingInvariant`: `SafeNetwork` implies `Spec => []PublishingInv`.
- `PhotosNeverDangle` and `DeletionIsFinal`: on a safe network
  `Spec => []NoDanglingImage` and `Spec => []DeletedStaysDeleted`.

*Why a stronger invariant is needed.* "A listed post has its photo" is not
inductive: its photo may be about to go (a deletion waiting for its answer) while
a write of the post is still in a queue somewhere. `PublishingInv` says what rules
that out: a record's write is queued at most once, by the phone that uploaded it
(`SetOnce`); a removal queued on that phone stands behind it, and a removal queued
anywhere else exists only if the write has arrived for good (`RemovedAfterSet`),
because the other phone had to see the post in its feed first
(`ListedHasArrived`); and once a photo is gone, or asked to go, no write of its post
is left to arrive (`GoneForGood`). `StoredBeforeLinked`, `SignInsAllowed` and
`OnlyPublishedKnown` carry who may do what. Each action has a lemma, with a step
per part of the invariant it can disturb.

*The assumption.* `SafeNetwork` says that connections never drop, or that a phone
shares its accounts with no other phone. It cannot be removed: `DeleteResurrected`
is what happens without it. Of the clocks nothing is assumed: `NoDanglingImage` and
`GoneForGood` name the deletion of a post of the same millisecond as the one other way a
photo may go.

`SessionProofs` proves, for every set of phones and accounts, every number of attempts
and all bounds on drops and kills:

- `SessionTypeCorrect`: `Spec => []TypeOK`, on the lemmas of `DatabaseLinkProofs`.
- `PreferencesNameTheUser` and `HomeShowsAKnownUser`: `Spec => []PrefsMatchAuth` and
  `Spec => []HomeKnowsUser`.

Both properties are about patient users only, and both need the same invariant,
`SessionInv`. The profile's answer writes the account of its own call into the
preferences, whoever is the current user by then; what makes that right is
`WatchedAttempts`: a phone has one attempt under way at most, its root is still the
login screen (so that no sign-out can come between), and since its sign-in was granted
the current user is the one it asks for. `NoIdAtLogin` lets a sign-up or a sign-in change the
current user, and a launch choose a screen by it, without touching the preferences.
`AppliedKnown` (what the server has applied is in `users/` while it waits for its
acknowledgement) lets a write leave the queue without the phone losing sight of its profile
(`ProfilesStaySeen`).

`PostLikesProofs` proves, for every set of phones and of finitely many accounts and all
bounds on taps, kills and drops:

- `LikesTypeCorrect`: `Spec => []TypeOK`.
- `RecordsAlwaysAgree`, `IconsShowLikes`, `LastTapsRecorded`: `RecordsAgree`,
  `IconShowsLike` and `LastTapRecorded` hold in every state.
- `DriftIsBounded`: `Spec => []DriftBounded`. Every dropped connection and every killed
  process costs `total_likes` one like at most, whatever it interrupts.

A like is recorded by two puts, one after the other, and a drop sends both again. The
invariant `LikesInv` says what a queue looks like (`Pairs`: the two records of each tap
side by side, the first of which may have left alone), what the last puts applied have
left on the server (`Recorded`: what makes a queue that is sent again end where it was
before), and that an icon shows what the records will say once everything queued and
asked has had its effect (`LastTap`, `Shown` by `Wanted`).

For the counter, `DriftInv` (invariant by `DriftInvariant`) says that what `total_likes` has
beyond its recorded likers is a sum over the phones, of what the taps of each have added so
far less one for a user who is recorded. With what a phone's taps are still to add
(`Unrun`), that is what the records will say of its user in the end, and what an answered
screen shows, give or take the phone's own drops and kills (`Tally`). It is not enough to count
them: a batch may hold many taps, and costs one like only because likes and unlikes take
turns (`TapsTurn`), so that however many are lost or are run without being reported add
up to -1, 0 or 1 (`LostTaps`). Sums over phones are folds of the library: their facts
(`SumChanges`, `SumBounded`) are proved by induction over the set of the sets of phones for
which they hold. That the phones are finitely many follows from
`UsersAssumption` where each is its user's only one, as `DriftBounded` supposes.

leveldb's write path is proved about in `WriteQueueProofs`, for every finite set of threads,
every stream of calls and failures and every limit:

- `NothingVisibleIsLost`: `Spec => []VisibleRecoverable`.
- `WriteTypes`, `NobodyForgotten`, `RequestsKept`: `Spec => []TypeOK`,
  `Spec => []NoLostWakeUp`, `Spec => []ManualKept`.
- `AckedWritesSynced`: `Spec => []AckedSynced`.
- `WriteQueueImplementsStore`: `Spec => StoreSpec`, the refinement of `BatchStore`, a step
  of the store or a stutter for each step of the queue.

`WriteInv` has three parts. `QueueInv`: at most one thread is past
`MakeRoomForWrite`'s first look, it is the front writer, and a waiting writer that
has no answer is in the queue; therefore a woken writer, a new one and the thread that
works without the mutex never make room at the same time. `LogTypes`: the numbers of log
files are in order, and the number a flush has noted is not beyond the current one.
`Logged`: the memtable's entries are in the current log file, those of the memtable being
flushed in one that is needed, and a group is logged before it is inserted.

`WaitInv` is what a lost wake-up would break. `NoLostWakeUp` speaks of
threads asleep; it is inductive only with `Members` (who is in the queue is there once,
and has no answer), `Group` (a group exists just while its writer writes it), `Work` (there
is a work item as soon as there is work, and until it has signalled) and `Requests` (a
request under way is not done yet). The flattening of a group's batches is a recursive
function of the library: its facts are proved by induction over the set of the lengths for
which they hold (`SetInduction`, from the least number principle), since an induction
theorem that takes an operator is beyond the provers.

`BatchInv` relates calls, group, entries and answers: an entry beyond the
last sequence number belongs to the group being inserted (`Ahead`), a waiting call has its
answer OK just when its batch is visible (`Answers`), and a sync write led its group, or
was led by one that syncs (`GroupNow`, `AnsweredSynced`, `GroupSynced`). `NoneAssumption`
says only that "no answer" is not an answer, `ThreadsAssumption` that the threads are
finitely many (a group is bounded by the calls pending).

`CompactionProofs` proves, for every set of keys and of scenarios, every number of levels
and every limit on files, levels and grandparents:

- `CompactionTypes`: `Spec => []TypeOK`.
- `CompactionTablesKept`: `Spec => []TablesKept`, no table in use is deleted.
- `LevelsStayDisjoint`: `Spec => [](~scenario.gaps => LevelsDisjoint)`, with the inductive
  invariant `DisjointInv` (`DisjointInvariant`).
- `NewerStaysAbove`: `Spec => [](~scenario.gaps /\ scenario.snapshots = 0 => KeysDisjoint /\
  NewerAbove)`, with `SingleLayers` (`LayersInvariant`), and `NewerAboveIfKeysDisjoint`:
  `Spec /\ []KeysDisjoint => [](~scenario.gaps => NewerAbove)`.
- `ReadsStayKept` and `ReadsKeptIfKeysDisjoint`: the same of `ReadsKept`.

The invariant `CompactionInv` says that a version's levels are sequences of files in order,
and that no two files of it share a number (`VersionSound`); that what has been picked for
its seeks or by a `CompactRange` has a level below it (`LevelsBelow`); and that the tables
a merge has written, and is still to write, are new to the current version, whatever a
nested flush installs in between (`MergeSound`). Much of the proof is about the operators
of `Versions`: a merge's inputs are files of the version, however far the search grows
them; no output is empty; an edit leaves each level sorted, without
giving a number twice. The levels' searches and the division into outputs are recursive functions;
that these exist and stay in range is proved by induction over the numbers for which it holds
(`SetInduction`). `ScenarioAssumption` says that keys are ordered as integers are and that
what is put is a value or a deletion, that ranges are asked for by keys, and that there are no
more writes than sequence numbers; `NoneAssumption` that no entry is taken for none;
`LevelsAssumption` that there is a level below the ones memtables may be flushed to and that
limits are positive.

*Why levels stay disjoint.* A merge writes to a level while a flush may put a file there, and
neither looks at the other. `ApartInv` says why they do not collide. Each write has a number of
its own (`Numbered`), so that a merge's entries are in one order and each output ends before
the next begins (`OutputsSplit`). The other files of the level it goes to are on one side
of everything it reads (`OthersAway`): the ones its range does not meet, since the level's
files are apart. The inputs that `PickCompaction` chooses leave no gaps (`Connected`): one file,
or in level 0 what the growing range of `GetOverlappingInputs` reaches (`CoveredConnects`),
with what overlaps it in the next level, and what that overlaps again (`InputsApart`). A flush
goes below level 0 only where the binary search finds nothing (`OverlapSound`, by
`FindFileFacts`), so that its file lies on one side of all inputs. The inputs of a manual
compaction may have gaps; then no memtable waits to be flushed, unless memtables fill up
during a `CompactRange`: hence `~scenario.gaps`, without which a flush fills such a gap and the
merge's output covers it (section 3).

*Why newer entries stay above.* `KeysDisjoint` says that above level 0 no user key is in two
files of a level. Then what a compaction leaves behind in its level shares no key with what it
takes (`OtherInputsClear`: above level 0 by `KeysDisjoint`, in level 0 since the range of
`GetOverlappingInputs` stops growing only when it meets nothing more, `WidenedEnough`), and
nothing that stays in the next level shares a key with its inputs. So everything that comes down
is older than what stays above it, and newer than what lies deeper (`Layered`, `MergeNewer`);
the memtables are newer than all tables (`Aged`). `KeysDisjoint` itself is kept while there are
no snapshots: a merge then keeps but the newest entry of each key (`WorkSingle`), so that it
cannot end a file between two. With snapshots it can, and `StaleRead` shows what follows; there
`KeysDisjoint` is the hypothesis of the theorem, not its conclusion.

*Why reads are kept.* `ReadSees`: what `Get` returns, through memtables, level 0 from its newest
file and one file of each other level, is the newest entry of all that is recorded that the
sequence number may see. `ReadInv` says that this entry amounts to what was promised
(`Promises`), and of a merge under way that what it has dropped or is to drop is missed by no
reader (`MergeShows`): either there is a newer entry that all readers see, or it is a deletion
and all that is left of its key is newer, also in a table that a flush puts below the merge in
between (`FlushShows`). Then nothing is left for a reader to see where it saw a deletion, and it
gets the same answer. The theorems about `ReadsKept` assume that `None` is no set of
entries, so that a memtable is not taken for a missing one. It is stated as their hypothesis:
it holds of a model value, but TLC cannot evaluate it.

`IteratorsProofs` proves `ListLinked`, `Spec => []LevelsLinked`: for every height of the
towers and any number of insertions, between any two stores of links, and whatever readers
do in between, each level leads from each of its nodes to the next one, and every write that a
new iterator counts on is linked. The invariant `ListInv` adds what an insertion
under way remembers: the nodes it found before it on each level still to be linked are
still the ones it belongs behind (`InsertionPlaced`), which holds because writers take turns;
and that nodes are linked from the lowest level up (`NodesNumbered`). `HeightAssumption`
gives the list a level, `NoNodeAssumption` keeps the null link apart from nodes, and
`ScenarioAssumption` starts sequence numbers at one or later.

`RecoveryProofs` proves, for all scenarios - whatever is written, crashes, fails, is merged
and repaired, as often as it may -:

- `AlwaysReopens`: `Spec => []CanReopen`, with the inductive invariant `RecoveryIInv`
  (`RecoveryInvariant`).
- `RecoveryTypes`: `Spec => []TypeOK`.
- `AllTablesFinished`: `Spec => []TablesFinished`.

*Why a stronger invariant is needed.* `CanReopen` speaks of the `Open` after a crash; that
it succeeds was decided by what had reached the disk before. `Reopens` says it of every
state: each directory that a crash may leave names a manifest in it, and whatever beginning
of that manifest the crash leaves, it is not empty, names only tables that are in that
directory, and gives no number again up to the manifest's own. That is kept because a new
manifest has a number beyond `CURRENT`'s (`NewNumber`), is synced before it is named
(`Saving`), tables reach the disk before the edit that names them (`TablesDurable`), and no
table is deleted that a part of the manifest not yet synced may need (`LeftNeeds`, which a
background error suspends: after one nothing is deleted). `Loading` is the same for an
`Open` under way. Each action has a lemma that it keeps the invariant.

`TablesFinished` needs more, `FinishedInv` (`FinishedInvariant`): file numbers are given
again in a later life, since a crash may bring back an earlier directory, or a shorter
manifest, with a smaller next number. So a table that is begun, which destroys what was
there, must not be one that any directory and any beginning of a manifest a crash may leave
still names. `NamedFinished` says that whatever a crash may leave names only tables that are
finished, as far as they are there; `InUseFinished` the same of the version in memory, of
an edit under way and of the job's output; `NextIsNew` that the next number lies beyond all
those that the edits of these manifests had given, and `EditsInOrder` that within a
manifest these only grow, so that the beginning of a manifest gives no more than all of it.
During an `Open`, until `CURRENT` may name its manifest, only the last directory counts:
a replay leaves no table unfinished, as each of its tables is one step of the model.

*Assumptions.*
`NoneAssumption`: none is not a number. `ScenariosAssumption`: with `reuse_logs` the machine does
not crash (a manifest in reuse is not synced when it is taken over) and nothing is
repaired, nor where something fails (section 3). The file system is the one described in section 5.

*Only model-checked.* Liveness under fairness and `CursorSpec`'s implementation: the prover
has no liveness, and the iterators' searches and blocks are recursive definitions over
their data. In `Recovery`, `AckedKept` and `SequencesFresh`: they are
about the records a reader finds in a cut log file, a fold over its fragments.
In `Compaction`, that a snapshot reads what it promised where a merge has divided the
entries of a key: `KeysDisjoint` fails there, and `NewerAbove` may (section 3).
`Nanopb` and `WireFormat` use recursive operators, which
keeps them out of the prover's reach.

## 5. Abstractions

*App.*

- Every write is accepted: the database's security rules are not in the repository.
- A connection's loss and return are one step. A write or transaction in flight at
  that moment, or at a kill, was applied before it or never is.
- An acknowledgement and its completion callback are one step, as are a service's
  answer and its completion, except where another step in between matters
  (transactions, uploads).
- Texts are empty or not; photos, names, dates and layout are left out. The toast
  about the deletion is kept, because a property is about it.
- The reachability query is a guard. It may answer "online" while the database
  connection is down, which the models allow.
- In `PostPublishing` a sign-in is one step; `Session` has its parts. In `PostLikes`
  the accounts stay; several phones of one account, whose likes are counted twice,
  are outside `DriftBounded`.
- Sign-out is one step: a kill between its two writes is not explored.

*leveldb.*

- The file system journals: changes of the directory become durable in order, any
  sync makes earlier ones durable, and of appended data a crash keeps a prefix. A
  rename is atomic. Files are not damaged otherwise; damage of tables is in
  `Iterators`, where a checksum or a decoder notices it.
- Each module leaves to another what it does not need: `WriteQueue` has no keys and
  counts files of level 0; `Compaction` has no crashes, and a batch enters it in one
  step; `Recovery` has no keys, levels or threads beside its job.
- Sizes are numbers of entries. Caches and the bloom filter, which change no answer,
  the info log, statistics and byte formats are left out.
- An unfinished repair is repeated before the next `Open`, as its documentation
  wants.

*nanopb.*

- Memory is statically allocated. Pointer fields, callbacks, extensions and default
  values given in a type are left out.
- An array of fixed count whose first element is zero would, if it had no presence
  of its own inside a submessage, be taken for empty (`pb_check_proto3_default_value`
  reads the element as a count). The instances have no such type.

## 6. Not modelled

- Feed, comments, form checks and cell images: state of single screens, of which no
  document or test says more than that they show what is there. What other
  components need of them (what a feed read returns, that a form was accepted) is in
  the modules. The feed's array and the comment list would be the next to add.
- Kills inside the sign-out handler.
- The other libraries: the app calls them as services, and their answers and
  failures are actions of the modules. Of the Firebase database, transactions and
  the queue of writes are modelled; its sync tree and its disk persistence, which the
  app leaves off, are not.
- leveldb's caches (`util/cache.cc`, `db/table_cache.cc`), arena, comparators,
  filters, table and block builders' bytes, the C interface and the dump tool.
- Composition of `Session` with `PostLikes`, and of `WriteQueue` with `Recovery`.

What would be worth proving next: `AckedKept`, on top of `RecoveryProofs`.
