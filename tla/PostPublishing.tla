--------------------------- MODULE PostPublishing ---------------------------
(***************************************************************************)
(* How a post comes to exist and how it goes: the upload screen            *)
(* (UploadPhotoVC) stores a photo in the storage bucket, asks for its      *)
(* download URL and writes the post's record to the database; the detail   *)
(* screen (PostDetailVC.deletePost) removes the record and, when the       *)
(* server has acknowledged that, deletes the photo.  Each is a chain of    *)
(* asynchronous calls over two services that share no transaction.         *)
(*                                                                         *)
(* An upload (a member of Upload) is one tap on the Upload button: it      *)
(* stands for the photo, its storage path and the record it leads to.      *)
(* The world around the app may drop a connection, kill the process, or    *)
(* fail a storage call, as far as Faults and the Max constants allow.      *)
(***************************************************************************)
EXTENDS DatabaseLink, FiniteSets

CONSTANTS
    Device,        \* phones running the app
    Account,       \* signed-up accounts
    NoAccount,     \* the empty user id of a signed-out device
    MayUse,        \* the <<device, account>> pairs that ever sign in
    Screen,        \* upload screens that are ever opened (a bound)
    NoScreen,
    Upload,        \* taps on Upload that pass the checks (a bound)
    NoDevice,
    Clock,         \* the millisecond each tap reads for the photo's name
    Faults,        \* the faults the world may cause
    MaxDrops,      \* dropped connections of each device (a bound; 0 for those that never lose one)
    MaxKills,      \* process kills per device (a bound)
    MaxOutstanding \* unacknowledged puts at a tap on Delete (a bound)

FaultKind == {"kill", "upload_fails", "delete_fails"}

ASSUME UsersAssumption ==
    /\ MayUse \subseteq Device \X Account
    /\ NoAccount \notin Account
ASSUME PlacesAssumption ==
    /\ NoDevice \notin Device
    /\ NoScreen \notin Screen
ASSUME FaultsAssumption ==
    /\ Faults \subseteq FaultKind
    /\ MaxDrops \in [Device -> Nat]
    /\ MaxKills \in Nat
    /\ MaxOutstanding \in Nat

\* Nothing more: two phones share a bucket but not a clock, and may read the same
\* millisecond.
ASSUME ClockAssumption == Clock \in [Upload -> Nat]

Text == {"", "text"}
Stage == {"idle", "storing", "linking", "published", "failed", "lost"}
Record == [author : Account \cup {NoAccount}, caption : Text]
Put == [op : {"set", "remove"}, post : Upload]

VARIABLES
    account,     \* the user id in each device's preferences
    screen,      \* the upload screen on top of each device
    form,        \* the caption field of each upload screen
    stage,       \* how far each upload has come
    device,      \* the device of each upload
    origin,      \* the upload screen of each upload
    record,      \* what each upload wrote, once it has
    link,        \* each device's link to the database
    posts,       \* the uploads whose record the server holds
    images,      \* the names of the photos in the storage bucket
    feed,        \* the posts each device's Home screen lists
    deleting,    \* photo deletions each device waits for
    toldDeleted, \* posts whose owner has read "Post hase been deleted"
    drops,
    kills

uploadVars == <<screen, form, stage, device, origin, record>>
serverVars == <<link, posts, images>>
viewVars   == <<feed, deleting, toldDeleted>>
vars == <<account, uploadVars, serverVars, viewVars, drops, kills>>

TypeOK ==
    /\ account \in [Device -> Account \cup {NoAccount}]
    /\ screen \in [Device -> Screen \cup {NoScreen}]
    /\ form \in [Screen -> [text : Text, editable : BOOLEAN]]
    /\ stage \in [Upload -> Stage]
    /\ device \in [Upload -> Device \cup {NoDevice}]
    /\ origin \in [Upload -> Screen \cup {NoScreen}]
    /\ record \in [Upload -> Record]
    /\ link \in [Device -> LinkOf(Put)]
    /\ posts \in SUBSET Upload
    /\ images \in SUBSET Nat
    /\ feed \in [Device -> SUBSET Upload]
    /\ deleting \in [Device -> SUBSET Upload]
    /\ toldDeleted \in SUBSET Upload
    /\ drops \in [Device -> Nat]
    /\ kills \in [Device -> Nat]

Init ==
    /\ account = [d \in Device |-> NoAccount]
    /\ screen = [d \in Device |-> NoScreen]
    /\ form = [s \in Screen |-> [text |-> "", editable |-> TRUE]]
    /\ stage = [u \in Upload |-> "idle"]
    /\ device = [u \in Upload |-> NoDevice]
    /\ origin = [u \in Upload |-> NoScreen]
    /\ record = [u \in Upload |-> [author |-> NoAccount, caption |-> ""]]
    /\ link = [d \in Device |-> IdleLink]
    /\ posts = {}
    /\ images = {}
    /\ feed = [d \in Device |-> {}]
    /\ deleting = [d \in Device |-> {}]
    /\ toldDeleted = {}
    /\ drops = [d \in Device |-> 0]
    /\ kills = [d \in Device |-> 0]

SetPost(u) == [op |-> "set", post |-> u]
RemovePost(u) == [op |-> "remove", post |-> u]

\* Mutant of ImagePath: the photo is named by the second.
ImagePathInSeconds(u) == Clock[u] \div 1000

\* The photo's name: the tap's time in whole milliseconds.
ImagePath(u) == Clock[u]

-----------------------------------------------------------------------------
(* The upload screen                                                        *)

\* A photo is chosen from the camera or the library: a fresh upload screen.
SelectPhoto(d, s) ==
    /\ account[d] # NoAccount
    /\ screen[d] = NoScreen
    /\ s \notin {screen[e] : e \in Device} \cup {origin[u] : u \in Upload}
    /\ form[s] = [text |-> "", editable |-> TRUE]
    /\ screen' = [screen EXCEPT ![d] = s]
    /\ UNCHANGED <<account, form, stage, device, origin, record, serverVars,
                   viewVars, drops, kills>>

\* The caption is typed or cleared while the field still takes input.
EditCaption(d) ==
    /\ screen[d] # NoScreen
    /\ form[screen[d]].editable
    /\ \E t \in Text : form' = [form EXCEPT ![screen[d]].text = t]
    /\ UNCHANGED <<account, screen, stage, device, origin, record, serverVars,
                   viewVars, drops, kills>>

\* onClickUpload: the button stays enabled, so a second tap starts a second
\* upload of the same photo; offline, or with no caption, it only shows a toast.
ClickUpload(d, u) ==
    /\ screen[d] # NoScreen
    /\ stage[u] = "idle"
    /\ form[screen[d]].text # ""
    /\ form' = [form EXCEPT ![screen[d]].editable = FALSE]
    /\ stage' = [stage EXCEPT ![u] = "storing"]
    /\ device' = [device EXCEPT ![u] = d]
    /\ origin' = [origin EXCEPT ![u] = screen[d]]
    /\ UNCHANGED <<account, screen, record, serverVars, viewVars, drops, kills>>

\* The bucket takes the photo in, under its name.
StoreImage(u) ==
    /\ stage[u] = "storing"
    /\ images' = images \cup {ImagePath(u)}
    /\ UNCHANGED <<account, uploadVars, link, posts, viewVars, drops, kills>>

\* Mutant of UploadCompletes: the closure does nothing once its screen is gone.
UploadCompletesOnScreen(u) ==
    /\ stage[u] = "storing"
    /\ ImagePath(u) \in images
    /\ screen[device[u]] = origin[u]
    /\ stage' = [stage EXCEPT ![u] = "linking"]
    /\ UNCHANGED <<account, screen, form, device, origin, record, serverVars,
                   viewVars, drops, kills>>

\* putData's completion without an error calls uploadSuccess.
UploadCompletes(u) ==
    /\ stage[u] = "storing"
    /\ ImagePath(u) \in images
    /\ stage' = [stage EXCEPT ![u] = "linking"]
    /\ UNCHANGED <<account, screen, form, device, origin, record, serverVars,
                   viewVars, drops, kills>>

\* putData or downloadURL answers with an error: the chain ends there.
UploadFails(u) ==
    /\ "upload_fails" \in Faults
    /\ stage[u] \in {"storing", "linking"}
    /\ stage' = [stage EXCEPT ![u] = "failed"]
    /\ UNCHANGED <<account, screen, form, device, origin, record, serverVars,
                   viewVars, drops, kills>>

\* popToRootViewController acts only while the screen is still pushed.
PopUploadScreen(u) ==
    screen' = [screen EXCEPT ![device[u]] = IF @ = origin[u] THEN NoScreen ELSE @]

\* What the completion writes: the user and the caption are read now, not at
\* the tap.
PostRecord(u) ==
    [author |-> account[device[u]], caption |-> form[origin[u]].text]

\* uploadSuccess: the download URL is there; write the record, clear the caption.
PublishPost(u) ==
    /\ stage[u] = "linking"
    /\ account[device[u]] # NoAccount
    /\ stage' = [stage EXCEPT ![u] = "published"]
    /\ record' = [record EXCEPT ![u] = PostRecord(u)]
    /\ link' = [link EXCEPT ![device[u]] = Enqueue(@, SetPost(u))]
    /\ form' = [form EXCEPT ![origin[u]].text = ""]
    /\ PopUploadScreen(u)
    /\ UNCHANGED <<account, device, origin, posts, images, viewVars, drops, kills>>

\* Back, at any time: the calls under way go on.
ClickBack(d) ==
    /\ screen[d] # NoScreen
    /\ screen' = [screen EXCEPT ![d] = NoScreen]
    /\ UNCHANGED <<account, form, stage, device, origin, record, serverVars,
                   viewVars, drops, kills>>

-----------------------------------------------------------------------------
(* The feed and the detail screen                                           *)

\* What a read of u answers on d: the server's copy under d's own outstanding
\* puts, the latest of which wins.
Sees(d, u) ==
    LET puts == link[d].puts IN
    \/ /\ \A i \in DOMAIN puts : puts[i].post # u
       /\ u \in posts
    \/ \E i \in DOMAIN puts :
         /\ puts[i] = SetPost(u)
         /\ \A k \in DOMAIN puts : k > i => puts[k].post # u

\* HomeVC.getAllPosts answers: the list replaces the one shown.
ReadFeed(d) ==
    /\ account[d] # NoAccount
    /\ feed' = [feed EXCEPT ![d] = {u \in Upload : Sees(d, u)}]
    /\ UNCHANGED <<account, uploadVars, serverVars, deleting, toldDeleted,
                   drops, kills>>

\* The menu with Delete is hidden from everyone but the post's author.
MayDelete(d, u) == record[u].author = account[d]

\* deletePost from the detail screen of a listed post, which may have been
\* deleted since it was listed; the menu may be used again while one is pending.
DeletePost(d, u) ==
    /\ account[d] # NoAccount
    /\ u \in feed[d]
    /\ MayDelete(d, u)
    /\ Len(link[d].puts) < MaxOutstanding
    /\ link' = [link EXCEPT ![d] = Enqueue(@, RemovePost(u))]
    /\ UNCHANGED <<account, uploadVars, posts, images, viewVars, drops, kills>>

\* storageRef.delete succeeds: "Post hase been deleted".
DeleteImage(d, u) ==
    /\ u \in deleting[d]
    /\ ImagePath(u) \in images
    /\ images' = images \ {ImagePath(u)}
    /\ deleting' = [deleting EXCEPT ![d] = @ \ {u}]
    /\ toldDeleted' = toldDeleted \cup {u}
    /\ UNCHANGED <<account, uploadVars, link, posts, feed, drops, kills>>

\* It fails, at least whenever the photo is gone already: nothing is shown.
DeleteImageFails(d, u) ==
    /\ u \in deleting[d]
    /\ ImagePath(u) \notin images \/ "delete_fails" \in Faults
    /\ deleting' = [deleting EXCEPT ![d] = @ \ {u}]
    /\ UNCHANGED <<account, uploadVars, serverVars, feed, toldDeleted, drops,
                   kills>>

-----------------------------------------------------------------------------
(* The database                                                             *)

ServerAppliesPut(d) ==
    /\ CanApply(link[d])
    /\ LET put == NextPut(link[d]) IN
         posts' = IF put.op = "set" THEN posts \cup {put.post}
                                    ELSE posts \ {put.post}
    /\ link' = [link EXCEPT ![d] = Applied(@)]
    /\ UNCHANGED <<account, uploadVars, images, viewVars, drops, kills>>

\* The acknowledgement of a removal goes on to delete the photo.
AckPut(d) ==
    /\ CanAck(link[d])
    /\ LET put == OldestPut(link[d]) IN
         deleting' = IF put.op = "remove"
                       THEN [deleting EXCEPT ![d] = @ \cup {put.post}]
                       ELSE deleting
    /\ link' = [link EXCEPT ![d] = Acked(@)]
    /\ UNCHANGED <<account, uploadVars, posts, images, feed, toldDeleted, drops,
                   kills>>

DropConnection(d) ==
    /\ drops[d] < MaxDrops[d]
    /\ drops' = [drops EXCEPT ![d] = @ + 1]
    /\ link' = [link EXCEPT ![d] = Resent(@)]
    /\ UNCHANGED <<account, uploadVars, posts, images, viewVars, kills>>

-----------------------------------------------------------------------------
(* Sessions and the end of the process                                      *)

SignIn(d, a) ==
    /\ account[d] = NoAccount
    /\ <<d, a>> \in MayUse
    /\ account' = [account EXCEPT ![d] = a]
    /\ feed' = [feed EXCEPT ![d] = {}]
    /\ UNCHANGED <<uploadVars, serverVars, deleting, toldDeleted, drops, kills>>

\* The login screen replaces every screen; uploads and puts go on behind it.
SignOut(d) ==
    /\ account[d] # NoAccount
    /\ account' = [account EXCEPT ![d] = NoAccount]
    /\ screen' = [screen EXCEPT ![d] = NoScreen]
    /\ feed' = [feed EXCEPT ![d] = {}]
    /\ UNCHANGED <<form, stage, device, origin, record, serverVars, deleting,
                   toldDeleted, drops, kills>>

\* The process ends: its calls, its queue and its screens are gone, the user
\* id in the preferences stays.
ProcessEnds(d) ==
    /\ stage' = [u \in Upload |->
                   IF device[u] = d /\ stage[u] \in {"storing", "linking"}
                     THEN "lost" ELSE stage[u]]
    /\ link' = [link EXCEPT ![d] = IdleLink]
    /\ screen' = [screen EXCEPT ![d] = NoScreen]
    /\ feed' = [feed EXCEPT ![d] = {}]
    /\ deleting' = [deleting EXCEPT ![d] = {}]
    /\ kills' = [kills EXCEPT ![d] = @ + 1]
    /\ UNCHANGED <<account, form, device, origin, record, posts, images,
                   toldDeleted, drops>>

Kill(d) ==
    /\ "kill" \in Faults
    /\ kills[d] < MaxKills
    /\ ProcessEnds(d)

\* uploadSuccess after a sign-out: the root is no UITabBarController, and the
\* forced cast ends the process.
PublishWhenSignedOut(u) ==
    /\ stage[u] = "linking"
    /\ account[device[u]] = NoAccount
    /\ ProcessEnds(device[u])

-----------------------------------------------------------------------------
UserStep(d) ==
    \/ \E s \in Screen : SelectPhoto(d, s)
    \/ EditCaption(d)
    \/ \E u \in Upload : ClickUpload(d, u)
    \/ ClickBack(d)
    \/ \E u \in Upload : DeletePost(d, u)
    \/ \E a \in Account : SignIn(d, a)
    \/ SignOut(d)

Next ==
    \/ \E d \in Device :
         \/ UserStep(d)
         \/ ReadFeed(d)
         \/ ServerAppliesPut(d)
         \/ AckPut(d)
         \/ DropConnection(d)
         \/ Kill(d)
         \/ \E u \in Upload : DeleteImage(d, u) \/ DeleteImageFails(d, u)
    \/ \E u \in Upload :
         \/ StoreImage(u)
         \/ UploadCompletes(u)
         \/ UploadFails(u)
         \/ PublishPost(u)
         \/ PublishWhenSignedOut(u)

Spec == Init /\ [][Next]_vars

\* The services answer and the SDK calls back; users and faults owe nothing.
Fairness ==
    /\ \A d \in Device :
         /\ WF_vars(ServerAppliesPut(d))
         /\ WF_vars(AckPut(d))
         /\ \A u \in Upload :
              WF_vars(DeleteImage(d, u) \/ DeleteImageFails(d, u))
    /\ \A u \in Upload :
         /\ WF_vars(StoreImage(u))
         /\ WF_vars(UploadCompletes(u))
         /\ WF_vars(PublishPost(u) \/ PublishWhenSignedOut(u))

FairSpec == Spec /\ Fairness

-----------------------------------------------------------------------------
\* The network under which deletion is final: a device whose writes may be
\* sent twice shares none of its accounts with another device.
OnlyUser(d) ==
    \A e \in Device, a \in Account :
      <<d, a>> \in MayUse /\ <<e, a>> \in MayUse => e = d

SafeNetwork == \A d \in Device : MaxDrops[d] = 0 \/ OnlyUser(d)

\* Another post, tapped in the millisecond of u, was deleted and took the photo both
\* were stored as.
TakenByAnother(u) == \E v \in toldDeleted : v # u /\ Clock[v] = Clock[u]

\* Every post the database lists has its photo in the bucket, whatever was
\* killed, dropped or failed between the two services' steps: uploadSuccess
\* writes the record after the photo, deletePost removes it before the photo.
\* Only the deletion of a post of the same millisecond may take it.
NoDanglingImage == \A u \in posts : ImagePath(u) \in images \/ TakenByAnother(u)

\* After "Post hase been deleted" the record never comes back, not by a put
\* still queued on the device that published it.
DeletedStaysDeleted == toldDeleted \cap posts = {}

\* Every tap on Upload ends: the post appears, or a service failed, or the
\* process ended (by a kill, or by publishing after a sign-out).
UploadSettles ==
    \A u \in Upload :
      stage[u] = "storing" ~>
        \/ u \in posts
        \/ stage[u] = "failed"
        \/ \E d \in Device : device[u] = d /\ kills[d] > 0

\* A confirmed Delete ends with record and photo gone for good, unless the
\* process ends first.
DeleteSettlesOn(d) ==
    \A u \in Upload :
      (\E i \in DOMAIN link[d].puts : link[d].puts[i] = RemovePost(u)) ~>
        \/ kills[d] > 0
        \/ [](u \notin posts /\ ImagePath(u) \notin images)

DeleteSettles == \A d \in Device : DeleteSettlesOn(d)

-----------------------------------------------------------------------------
(* The inductive invariant behind the two safety properties                 *)

Published(u) == stage[u] = "published"

\* The write of u, or its removal, is the i-th put of device d.
SetAt(d, u, i) == link[d].puts[i] = SetPost(u)
RemoveAt(d, u, i) == link[d].puts[i] = RemovePost(u)

\* A put already applied that no new connection can send again.
NeverAgain(d, i) == i <= link[d].done /\ MaxDrops[d] = 0

\* No write of u is still to reach the server.
Arrived(u) ==
    \A d \in Device : \A i \in DOMAIN link[d].puts :
      SetAt(d, u, i) => NeverAgain(d, i)

AppliedWithinQueue ==
    \A d \in Device : link[d].done <= Len(link[d].puts)

UploadsPlaced ==
    \A u \in Upload :
      stage[u] # "idle" => device[u] \in Device /\ origin[u] \in Screen

StoredBeforeLinked ==
    \A u \in Upload :
      /\ stage[u] = "linking" => ImagePath(u) \in images \/ TakenByAnother(u)
      /\ Published(u) => <<device[u], record[u].author>> \in MayUse

SignInsAllowed ==
    \A d \in Device : account[d] # NoAccount => <<d, account[d]>> \in MayUse

OnlyPublishedKnown ==
    /\ \A u \in posts \cup toldDeleted : Published(u)
    /\ \A d \in Device : \A u \in feed[d] \cup deleting[d] : Published(u)

\* A record is written once, by the device that uploaded it.
SetOnce ==
    \A d \in Device : \A i \in DOMAIN link[d].puts : \A u \in Upload :
      SetAt(d, u, i) =>
        /\ Published(u)
        /\ device[u] = d
        /\ \A k \in DOMAIN link[d].puts : SetAt(d, u, k) => k = i
        /\ i > link[d].done /\ MaxDrops[d] = 0 => u \notin posts

\* A post another device may delete has reached the server for good.
ListedHasArrived ==
    \A d \in Device : \A u \in feed[d] :
      <<d, record[u].author>> \in MayUse => d = device[u] \/ Arrived(u)

\* A removal comes after the write it removes.
RemovedAfterSet ==
    \A d \in Device : \A k \in DOMAIN link[d].puts : \A u \in Upload :
      RemoveAt(d, u, k) =>
        /\ Published(u)
        /\ d = device[u] \/ Arrived(u)
        /\ \A i \in DOMAIN link[d].puts : SetAt(d, u, i) => i < k
        /\ k <= link[d].done => u \notin posts

\* The photo of a published post is being deleted, or is no longer there, and not by
\* another post's deletion.
Gone(u) ==
    \/ \E d \in Device : u \in deleting[d]
    \/ u \in toldDeleted
    \/ Published(u) /\ ImagePath(u) \notin images /\ ~TakenByAnother(u)

GoneForGood == \A u \in Upload : Gone(u) => u \notin posts /\ Arrived(u)

\* What the writes in flight, the screens and the two services agree on.
PublishingInv ==
    /\ StoredBeforeLinked
    /\ SignInsAllowed
    /\ OnlyPublishedKnown
    /\ SetOnce
    /\ ListedHasArrived
    /\ RemovedAfterSet
    /\ GoneForGood

=============================================================================
